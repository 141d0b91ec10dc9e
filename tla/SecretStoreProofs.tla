------------------------- MODULE SecretStoreProofs -------------------------
(***************************************************************************)
(* What is proved of the secret store, for every number of secrets, names  *)
(* and instants and every leeway.                                          *)
(***************************************************************************)
EXTENDS SecretStore, TLAPS, SequenceTheorems, Least

-----------------------------------------------------------------------------
(* The fold.                                                               *)

\* Where, among the first n secrets, one under a hash is considered.
Matching(held, hash, considered, n) ==
  {i \in 1 .. n : held[i].hash = hash /\ held[i] \in considered}

\* What stands first among the places of a list.
Earliest(held, places) ==
  {held[i] : i \in {i \in places : \A j \in places : i <= j}}

\* Only where there is no place is nothing first.
LEMMA SomethingIsEarliest ==
  ASSUME NEW held, NEW places \in SUBSET Nat, Earliest(held, places) = {}
  PROVE  places = {}
<1> SUFFICES ASSUME places # {} PROVE FALSE
    OBVIOUS
<1>1. PICK i \in places : \A j \in places : i <= j
    BY LeastElement
<1>2. held[i] \in Earliest(held, places)
    BY <1>1 DEF Earliest
<1> QED
    BY <1>2

\* One turn of the fold keeps what it has found the earliest of what it has
\* compared.
LEMMA TurnKeepsEarliest ==
  ASSUME NEW held, NEW hash, NEW considered, NEW n \in Nat \ {0}, NEW found,
         found = Earliest(held, Matching(held, hash, considered, n - 1))
  PROVE  (IF held[n] \in considered THEN OrFirst(hash, found, held[n]) ELSE found)
           = Earliest(held, Matching(held, hash, considered, n))
<1> DEFINE M(k) == Matching(held, hash, considered, k)
           Hit == held[n].hash = hash /\ held[n] \in considered
<1>1. M(n - 1) \in SUBSET Nat /\ \A i \in M(n - 1) : i < n
    BY DEF Matching
<1>2. CASE ~Hit
  <2>1. \A i \in 1 .. n : i = n \/ i \in 1 .. n - 1
      OBVIOUS
  <2>2. M(n) = M(n - 1)
      BY <1>2, <2>1 DEF Matching
  <2> QED
      BY <1>2, <2>2 DEF OrFirst
<1>3. CASE Hit
  <2>1. M(n) = M(n - 1) \union {n}
    <3>1. 1 .. n = (1 .. n - 1) \union {n}
        OBVIOUS
    <3> QED
        BY <1>3, <3>1 DEF Matching
  <2>2. CASE found # {}
    <3>1. M(n - 1) # {}
        BY <2>2 DEF Earliest
    <3>2. {i \in M(n) : \A j \in M(n) : i <= j}
            = {i \in M(n - 1) : \A j \in M(n - 1) : i <= j}
      <4> HIDE DEF M
      <4> QED
          BY <1>1, <2>1, <3>1
    <3> QED
        BY <1>3, <2>2, <3>2 DEF OrFirst, Earliest
  <2>3. CASE found = {}
    <3>1. M(n - 1) = {}
        BY <1>1, <2>3, SomethingIsEarliest
    <3>2. M(n) = {n}
        BY <2>1, <3>1
    <3>3. {i \in M(n) : \A j \in M(n) : i <= j} = {n}
      <4> HIDE DEF M
      <4> QED
          BY <3>2
    <3>4. Earliest(held, M(n)) = {held[n]}
        BY <3>3 DEF Earliest
    <3> QED
        BY <1>3, <2>3, <3>4 DEF OrFirst
  <2> QED
      BY <2>2, <2>3
<1> QED
    BY <1>2, <1>3

\* The fold of holding_where, which never leaves off early, ends with the
\* earliest match of the whole list.
LEMMA FoldFinds ==
  ASSUME NEW held \in Seq(Secret), NEW hash, NEW considered
  PROVE  holding_where(held, hash, considered)
           = Earliest(held, Matching(held, hash, considered, Len(held)))
<1> DEFINE N == Len(held)
           V == SUBSET Secret
           Turned(n, found) ==
             IF held[n] \in considered THEN OrFirst(hash, found, held[n]) ELSE found
           Fold(f) == f = [n \in 0 .. N |-> IF n = 0 THEN {} ELSE Turned(n, f[n - 1])]
           turn == [n \in 1 .. N |-> [found \in V |-> Turned(n, found)]]
<1>1. N \in Nat /\ {} \in V
    OBVIOUS
<1>2. turn \in Turns(N, V)
  <2>1. \A n \in 1 .. N : held[n] \in Secret
      BY ElementOfSeq
  <2>2. \A n \in 1 .. N, found \in V : Turned(n, found) \in V
      BY <2>1 DEF OrFirst
  <2> HIDE DEF Turned, V
  <2> QED
      BY <2>2 DEF Turns
<1>3. PICK f \in [0 .. N -> V] :
        /\ f[0] = {}
        /\ \A n \in 1 .. N : f[n] = turn[n][f[n - 1]]
  <2> HIDE DEF turn, V, N
  <2>1. RunsOf(N, V, {}, turn) # {}
      BY <1>1, <1>2, LoopRuns
  <2> QED
      BY <2>1 DEF RunsOf
<1>4. Fold(f)
  <2>1. \A n \in 0 .. N : f[n] = IF n = 0 THEN {} ELSE Turned(n, f[n - 1])
    <3> SUFFICES ASSUME NEW n \in 0 .. N, n # 0 PROVE f[n] = Turned(n, f[n - 1])
        BY <1>3
    <3>1. n \in 1 .. N /\ n - 1 \in 0 .. N
        OBVIOUS
    <3>2. f[n - 1] \in V
        BY <3>1
    <3> HIDE DEF Turned, V
    <3> QED
        BY <1>3, <3>1, <3>2
  <2> HIDE DEF Turned, V
  <2> QED
      BY <2>1
<1> DEFINE fold == CHOOSE g : Fold(g)
<1>5. Fold(fold)
  <2> HIDE DEF Fold
  <2> QED
      BY <1>4
<1>6. holding_where(held, hash, considered) = fold[N]
    BY DEF holding_where
<1> HIDE DEF fold
<1> DEFINE P == {n \in 0 .. N :
                   fold[n] = Earliest(held, Matching(held, hash, considered, n))}
<1>7. 0 \in P
  <2>1. Earliest(held, Matching(held, hash, considered, 0)) = {}
      BY DEF Earliest, Matching
  <2>2. fold[0] = {}
      BY <1>1, <1>5
  <2> QED
      BY <2>1, <2>2
<1>8. \A n \in 1 .. N : n - 1 \in P => n \in P
  <2> SUFFICES ASSUME NEW n \in 1 .. N, n - 1 \in P PROVE n \in P
      OBVIOUS
  <2>1. fold[n] = Turned(n, fold[n - 1])
    <3>1. n \in 0 .. N /\ n # 0
        BY <1>1
    <3> HIDE DEF Turned
    <3> QED
        BY <1>5, <3>1
  <2>2. Turned(n, fold[n - 1])
          = Earliest(held, Matching(held, hash, considered, n))
      BY TurnKeepsEarliest
  <2> QED
      BY <2>1, <2>2
<1>9. N \in P
  <2> HIDE DEF P, N
  <2>1. \A n \in 0 .. N : n \in P
      BY <1>1, <1>7, <1>8, EveryTurn
  <2> QED
      BY <1>1, <2>1
<1> QED
    BY <1>6, <1>9

\* A hash is found at one place or none.
LEMMA OneIsEarliest ==
  ASSUME NEW held, NEW places \in SUBSET Nat,
         NEW a \in Earliest(held, places), NEW b \in Earliest(held, places)
  PROVE  a = b
<1>1. PICK i \in places : a = held[i] /\ \A j \in places : i <= j
    BY DEF Earliest
<1>2. PICK k \in places : b = held[k] /\ \A j \in places : k <= j
    BY DEF Earliest
<1>3. i = k
    BY <1>1, <1>2
<1> QED
    BY <1>1, <1>2, <1>3

\* Every secret of the store is considered where no filter is given.
LEMMA HoldingFinds ==
  ASSUME NEW held \in Seq(Secret), NEW hash
  PROVE  holding(held, hash)
           = Earliest(held, {i \in 1 .. Len(held) : held[i].hash = hash})
<1>1. DOMAIN held = 1 .. Len(held)
    OBVIOUS
<1>2. Matching(held, hash, ToSet(held), Len(held))
        = {i \in 1 .. Len(held) : held[i].hash = hash}
    BY <1>1 DEF Matching, ToSet
<1> QED
    BY <1>2, FoldFinds DEF holding

\* What is found stays what is found, whatever is inserted after it.
LEMMA InsertionHidesNothing ==
  ASSUME NEW held \in Seq(Secret), NEW s \in Secret, NEW hash,
         holding(held, hash) # {}
  PROVE  holding(Append(held, s), hash) = holding(held, hash)
<1> DEFINE more == Append(held, s)
           M == {i \in 1 .. Len(held) : held[i].hash = hash}
           K == {i \in 1 .. Len(more) : more[i].hash = hash}
<1>1. /\ more \in Seq(Secret)
      /\ Len(more) = Len(held) + 1
      /\ \A i \in 1 .. Len(held) : more[i] = held[i]
    BY AppendProperties
<1>2. Len(held) \in Nat
    OBVIOUS
<1>3. M \subseteq K /\ \A i \in K : i \in M \/ i = Len(held) + 1
    BY <1>1, <1>2
<1>4. M # {}
    BY HoldingFinds DEF Earliest
<1>5. {i \in K : \A j \in K : i <= j} = {i \in M : \A j \in M : i <= j}
  <2>1. \A i \in M : i \in Nat /\ i <= Len(held)
      BY <1>2
  <2> HIDE DEF M, K
  <2> QED
      BY <1>2, <1>3, <1>4, <2>1
<1>6. \A i \in M : more[i] = held[i]
    BY <1>1
<1>7. Earliest(more, K) = Earliest(held, M)
  <2> HIDE DEF M, K, more
  <2> QED
      BY <1>5, <1>6 DEF Earliest
<1> QED
    BY <1>1, <1>7, HoldingFinds

-----------------------------------------------------------------------------
(* The clock.                                                              *)

\* The window of a secret has one end: it is never early, and what is late
\* stays late.
LEMMA LateStaysLate ==
  ASSUME NEW s \in Instant, NEW t \in Instant, s <= t, NEW secret \in Secret,
         admits(s, Leeway, window(secret)) = "late"
  PROVE  admits(t, Leeway, window(secret)) = "late"
<1> DEFINE w == window(secret)
<1>1. w.not_before = {} /\ w.not_on_or_after = secret.expiry
    BY DEF window, until, between
<1>2. Late(s, Leeway, w)
    BY DEF admits
<1>3. PICK end \in secret.expiry : saturating_sub(s, Leeway) >= end
    BY <1>1, <1>2 DEF Late
<1>4. end \in Int
    BY <1>3 DEF Secret, Option, Instant
<1>5. saturating_sub(t, Leeway) >= end
    BY <1>3, <1>4, InstantAssumption, SecretAssumption
       DEF saturating_sub, Clamp, Instant
<1>6. Late(t, Leeway, w)
    BY <1>1, <1>3, <1>5 DEF Late
<1>7. ~Early(t, Leeway, w)
    BY <1>1 DEF Early
<1> QED
    BY <1>6, <1>7 DEF admits

-----------------------------------------------------------------------------
(* The theorems.                                                           *)

\* An insertion appends a secret of the store's type.
LEMMA InsertionAppends ==
  ASSUME TypeOK, NEW name \in SecretName, NEW secret \in SecretText,
         NEW expiry \in Option(Instant), insert(name, secret, expiry)
  PROVE  \E s \in Secret : secrets' = Append(secrets, s) /\ now' = now
BY DEF insert, insert_hash, Secret, Hash

\* Every state of the store has its type: a list of secrets, each with an
\* Option of an instant for its expiry, that insert alone lengthens.
THEOREM TypeCorrect == Spec => []TypeOK
<1>1. Init => TypeOK
    BY SecretAssumption DEF Init, TypeOK
<1>2. TypeOK /\ [Next]_vars => TypeOK'
  <2> SUFFICES ASSUME TypeOK, [Next]_vars PROVE TypeOK'
      OBVIOUS
  <2>1. ASSUME NEW name \in SecretName, NEW secret \in SecretText,
               NEW expiry \in Option(Instant), insert(name, secret, expiry)
        PROVE  TypeOK'
    <3>1. PICK s \in Secret : secrets' = Append(secrets, s) /\ now' = now
        BY <2>1, InsertionAppends
    <3>2. Len(secrets) < MaxHeld
        BY <2>1 DEF insert, insert_hash
    <3> QED
        BY <3>1, <3>2, AppendProperties, SecretAssumption DEF TypeOK
  <2>2. ASSUME NEW t \in Instant, Tick(t) PROVE TypeOK'
      BY <2>2 DEF Tick, TypeOK
  <2>3. CASE UNCHANGED vars
      BY <2>3 DEF vars, TypeOK
  <2> QED
      BY <2>1, <2>2, <2>3 DEF Next
<1> QED
    BY <1>1, <1>2, PTL DEF Spec

\* The fold of holding_where, which compares every secret it considers,
\* finds the one a search with an early exit would find, in every state of a
\* store of any size.
THEOREM FoldIsASearch == Spec => []FoldIsFirstMatch
<1>1. TypeOK => FoldIsFirstMatch
  <2> SUFFICES ASSUME TypeOK, NEW secret \in SecretText,
                      NEW names \in SUBSET SecretName
               PROVE  LET Matches == {i \in DOMAIN secrets :
                                        /\ secrets[i].hash = sha256(secret)
                                        /\ secrets[i].name \in names}
                      IN  holding_where(secrets, sha256(secret),
                                        {s \in ToSet(secrets) : s.name \in names})
                            = {secrets[i] : i \in {i \in Matches :
                                                    \A j \in Matches : i <= j}}
      BY DEF FoldIsFirstMatch
  <2> DEFINE considered == {s \in ToSet(secrets) : s.name \in names}
             Matches == {i \in DOMAIN secrets : /\ secrets[i].hash = sha256(secret)
                                                /\ secrets[i].name \in names}
  <2>1. secrets \in Seq(Secret) /\ DOMAIN secrets = 1 .. Len(secrets)
      BY DEF TypeOK
  <2>2. Matching(secrets, sha256(secret), considered, Len(secrets)) = Matches
      BY <2>1 DEF Matching, ToSet
  <2>3. holding_where(secrets, sha256(secret), considered)
          = Earliest(secrets, Matches)
      BY <2>1, <2>2, FoldFinds
  <2> QED
      BY <2>3 DEF Earliest
<1> QED
    BY <1>1, TypeCorrect, PTL

\* A step leaves every hash found where it was found.
LEMMA FoundStaysFound ==
  ASSUME TypeOK, [Next]_vars, NEW hash, holding(secrets, hash) # {}
  PROVE  holding(secrets', hash) = holding(secrets, hash)
<1>1. ASSUME NEW name \in SecretName, NEW secret \in SecretText,
             NEW expiry \in Option(Instant), insert(name, secret, expiry)
      PROVE  holding(secrets', hash) = holding(secrets, hash)
  <2>1. PICK s \in Secret : secrets' = Append(secrets, s)
      BY <1>1, InsertionAppends
  <2> QED
      BY <2>1, InsertionHidesNothing DEF TypeOK
<1>2. CASE UNCHANGED secrets
    BY <1>2
<1> QED
    BY <1>1, <1>2 DEF Next, Tick, vars

\* A rotation leaves no gap: an insertion, of any secret under any name,
\* changes the verdict on no secret that had one.
THEOREM RotationIsSeamless == Spec => RotationLeavesNoGap
<1>1. TypeOK /\ [Next]_vars =>
        (now' = now => \A secret \in SecretText :
           Verdict(secrets, now, secret) # {}
             => Verdict(secrets', now, secret) = Verdict(secrets, now, secret))
  <2> SUFFICES ASSUME TypeOK, [Next]_vars, NEW secret \in SecretText,
                      Verdict(secrets, now, secret) # {}
               PROVE  Verdict(secrets', now, secret) = Verdict(secrets, now, secret)
      OBVIOUS
  <2>1. holding(secrets, sha256(secret)) # {}
      BY DEF Verdict
  <2>2. holding(secrets', sha256(secret)) = holding(secrets, sha256(secret))
      BY <2>1, FoundStaysFound
  <2> QED
      BY <2>2 DEF Verdict
<1> QED
    BY <1>1, TypeCorrect, PTL DEF Spec, RotationLeavesNoGap

\* A secret that expired stays expired, whatever is inserted after it and
\* however far time moves on.
THEOREM ExpiryIsFinal == Spec => ExpiredStaysExpired
<1>1. TypeOK /\ TypeOK' /\ [Next]_vars =>
        \A secret \in SecretText :
          (\E v \in Verdict(secrets, now, secret) : v.time = "late")
            => \A v \in Verdict(secrets', now', secret) : v.time = "late"
  <2> SUFFICES ASSUME TypeOK, TypeOK', [Next]_vars, NEW secret \in SecretText,
                      NEW u \in Verdict(secrets, now, secret), u.time = "late",
                      NEW v \in Verdict(secrets', now', secret)
               PROVE  v.time = "late"
      OBVIOUS
  <2> DEFINE Found == holding(secrets, sha256(secret))
  <2>1. PICK a \in Found : admits(now, Leeway, window(a)) = "late"
      BY DEF Verdict
  <2>2. PICK b \in holding(secrets', sha256(secret)) :
          v.time = admits(now', Leeway, window(b))
      BY DEF Verdict
  <2>3. b \in Found
      BY <2>1, <2>2, FoundStaysFound
  <2>4. a = b /\ a \in Secret
    <3> DEFINE M == {i \in 1 .. Len(secrets) : secrets[i].hash = sha256(secret)}
    <3>1. secrets \in Seq(Secret) /\ M \in SUBSET Nat
        BY DEF TypeOK
    <3>2. Found = Earliest(secrets, M)
        BY <3>1, HoldingFinds
    <3>3. a = b
        BY <2>1, <2>3, <3>1, <3>2, OneIsEarliest
    <3>4. a \in Secret
        BY <2>1, <3>1, <3>2, ElementOfSeq DEF Earliest
    <3> QED
        BY <3>3, <3>4
  <2>5. now \in Instant /\ now' \in Instant /\ now <= now'
    <3>1. now \in Instant /\ now' \in Instant
        BY DEF TypeOK
    <3>2. now \in Int /\ now' \in Int
        BY <3>1, InstantAssumption DEF Instant
    <3>3. now' = now \/ now <= now'
        BY DEF Next, Tick, insert, insert_hash, vars
    <3> QED
        BY <3>1, <3>2, <3>3
  <2>6. admits(now', Leeway, window(a)) = "late"
      BY <2>1, <2>4, <2>5, LateStaysLate
  <2> QED
      BY <2>2, <2>4, <2>6
<1> QED
    BY <1>1, TypeCorrect, PTL DEF Spec, ExpiredStaysExpired

=============================================================================
