----------------------------- MODULE JoseProofs -----------------------------
(***************************************************************************)
(* What is proved of the keys of a JWS: for every key, document and token, *)
(* and sets of every size.                                                 *)
(***************************************************************************)
EXTENDS Jose, TLAPS, SequenceTheorems, Least

-----------------------------------------------------------------------------
(* The loop of from_jwks.                                                  *)

\* A list within the bound is a sequence.
LEMMA UpToIsSeq ==
  ASSUME NEW S, NEW s \in UpTo(S)
  PROVE  /\ s \in Seq(S) /\ Len(s) \in 0 .. MaxKeys /\ DOMAIN s = 1 .. Len(s)
         /\ \A i \in DOMAIN s : s[i] \in S
<1>1. PICK n \in 0 .. MaxKeys : s \in [1 .. n -> S]
    BY DEF UpTo
<1>2. n \in Nat
    BY <1>1, JoseAssumption
<1>3. s \in Seq(S) /\ Len(s) = n
    BY <1>1, <1>2
<1> QED
    BY <1>1, <1>3

\* A sequence within the bound is such a list.
LEMMA SeqIsUpTo ==
  ASSUME NEW S, NEW s \in Seq(S), Len(s) <= MaxKeys
  PROVE  s \in UpTo(S)
<1>1. Len(s) \in 0 .. MaxKeys
    BY JoseAssumption
<1>2. s \in [1 .. Len(s) -> S]
    OBVIOUS
<1> QED
    BY <1>1, <1>2 DEF UpTo

\* What is made of an entry that is read is a key, under the entry's own
\* identifier.
LEMMA EntryMakesAKey ==
  ASSUME NEW entry \in Entry
  PROVE  KeyOf(entry) \in Key /\ KeyOf(entry).id = entry.kid
<1>1. /\ entry.kid \in Option(Kid) /\ entry.bytes \in Bytes
    BY JoseAssumption
<1> QED
    BY <1>1 DEF KeyOf, rsa_components, p256_point, Key, Material

\* The loop's invariant: the keys pushed by the first n turns are the keys of
\* the entries read so far, one by one, and each of those was usable.
Pushed(set, listed, n) ==
  /\ set \in Seq(Key)
  /\ Len(set) <= n
  /\ \A i \in 1 .. n : Read(listed[i]) =>
       /\ listed[i].usable
       /\ \E k \in 1 .. Len(set) : set[k] = KeyOf(listed[i])
  /\ \A k \in 1 .. Len(set) :
       \E i \in 1 .. n : Read(listed[i]) /\ set[k] = KeyOf(listed[i])

\* A turn keeps it.
LEMMA TurnPushes ==
  ASSUME NEW listed \in Seq(Entry), NEW n \in 1 .. Len(listed), NEW so_far,
         \A set \in so_far : Pushed(set, listed, n - 1)
  PROVE  \A set \in Turn(so_far, listed[n]) : Pushed(set, listed, n)
<1> SUFFICES ASSUME NEW set \in Turn(so_far, listed[n])
             PROVE  Pushed(set, listed, n)
    OBVIOUS
<1>1. Len(listed) \in Nat /\ n \in Nat /\ n - 1 \in Nat
      /\ \A i \in 1 .. n : i = n \/ i \in 1 .. n - 1
    OBVIOUS
<1>2. CASE ~Read(listed[n])
  <2>1. Pushed(set, listed, n - 1)
      BY <1>2 DEF Turn
  <2>2. set \in Seq(Key) /\ Len(set) <= n
      BY <1>1, <2>1 DEF Pushed
  <2>3. \A i \in 1 .. n : Read(listed[i]) =>
          /\ listed[i].usable
          /\ \E k \in 1 .. Len(set) : set[k] = KeyOf(listed[i])
      BY <1>1, <1>2, <2>1 DEF Pushed
  <2>4. \A k \in 1 .. Len(set) :
          \E i \in 1 .. n : Read(listed[i]) /\ set[k] = KeyOf(listed[i])
    <3>1. \A i \in 1 .. n - 1 : i \in 1 .. n
        BY <1>1
    <3> QED
        BY <2>1, <3>1 DEF Pushed
  <2> QED
      BY <2>2, <2>3, <2>4 DEF Pushed
<1>3. CASE Read(listed[n])
  <2>1. PICK old \in so_far : /\ listed[n].usable
                              /\ set = Append(old, KeyOf(listed[n]))
      BY <1>3 DEF Turn
  <2>2. Pushed(old, listed, n - 1)
      BY <2>1
  <2>3. listed[n] \in Entry
      BY ElementOfSeq
  <2>4. old \in Seq(Key) /\ Len(old) <= n - 1 /\ KeyOf(listed[n]) \in Key
      BY <2>2, <2>3, EntryMakesAKey DEF Pushed
  <2>5. /\ set \in Seq(Key)
        /\ Len(set) = Len(old) + 1
        /\ \A k \in 1 .. Len(old) : set[k] = old[k]
        /\ set[Len(old) + 1] = KeyOf(listed[n])
      BY <2>1, <2>4, AppendProperties
  <2>6. Len(old) \in Nat
      BY <2>4
  <2>7. \A i \in 1 .. n : Read(listed[i]) =>
          /\ listed[i].usable
          /\ \E k \in 1 .. Len(set) : set[k] = KeyOf(listed[i])
    <3> SUFFICES ASSUME NEW i \in 1 .. n, Read(listed[i])
                 PROVE  /\ listed[i].usable
                        /\ \E k \in 1 .. Len(set) : set[k] = KeyOf(listed[i])
        OBVIOUS
    <3>1. CASE i = n
      <4>1. Len(old) + 1 \in 1 .. Len(set)
          BY <2>5, <2>6
      <4> QED
          BY <2>1, <2>5, <3>1, <4>1
    <3>2. CASE i \in 1 .. n - 1
      <4>1. PICK k \in 1 .. Len(old) : old[k] = KeyOf(listed[i])
          BY <2>2, <3>2 DEF Pushed
      <4>2. k \in 1 .. Len(set) /\ set[k] = KeyOf(listed[i])
          BY <2>5, <2>6, <4>1
      <4>3. listed[i].usable
          BY <2>2, <3>2 DEF Pushed
      <4> QED
          BY <4>2, <4>3
    <3> QED
        BY <1>1, <3>1, <3>2
  <2>8. \A k \in 1 .. Len(set) :
          \E i \in 1 .. n : Read(listed[i]) /\ set[k] = KeyOf(listed[i])
    <3> SUFFICES ASSUME NEW k \in 1 .. Len(set)
                 PROVE  \E i \in 1 .. n : Read(listed[i]) /\ set[k] = KeyOf(listed[i])
        OBVIOUS
    <3>1. k = Len(old) + 1 \/ k \in 1 .. Len(old)
        BY <2>5, <2>6
    <3>2. CASE k = Len(old) + 1
        BY <1>1, <1>3, <2>5, <3>2
    <3>3. CASE k \in 1 .. Len(old)
        BY <1>1, <2>2, <2>5, <3>3 DEF Pushed
    <3> QED
        BY <3>1, <3>2, <3>3
  <2> QED
      BY <2>4, <2>5, <2>6, <2>7, <2>8 DEF Pushed
<1> QED
    BY <1>2, <1>3

\* The set a document makes: a list within the bound that is not empty, and
\* what the loop pushed over the whole document.
LEMMA LoadedIsPushed ==
  ASSUME NEW listed \in UpTo(Entry), NEW set \in from_jwks(listed)
  PROVE  set \in UpTo(Key) /\ set # <<>> /\ Pushed(set, listed, Len(listed))
<1> DEFINE N == Len(listed)
           V == SUBSET Seq(Key)
           Loop(f) == f = [n \in 0 .. N |->
                             IF n = 0 THEN {<<>>} ELSE Turn(f[n - 1], listed[n])]
           turn == [n \in 1 .. N |-> [so_far \in V |-> Turn(so_far, listed[n])]]
<1>1. /\ N \in Nat /\ N <= MaxKeys /\ {<<>>} \in V
      /\ listed \in Seq(Entry) /\ \A n \in 1 .. N : listed[n] \in Entry
    BY UpToIsSeq, EmptySeq, JoseAssumption
<1>2. turn \in Turns(N, V)
  <2>1. ASSUME NEW n \in 1 .. N, NEW so_far \in V
        PROVE  Turn(so_far, listed[n]) \in V
    <3>1. KeyOf(listed[n]) \in Key
        BY <1>1, EntryMakesAKey
    <3>2. \A s \in Seq(Key) : Append(s, KeyOf(listed[n])) \in Seq(Key)
        BY <3>1, AppendProperties
    <3> QED
        BY <3>2 DEF Turn
  <2> HIDE DEF V
  <2> QED
      BY <2>1 DEF Turns
<1>3. PICK f \in [0 .. N -> V] :
        /\ f[0] = {<<>>}
        /\ \A n \in 1 .. N : f[n] = turn[n][f[n - 1]]
  <2> HIDE DEF turn, V, N
  <2>1. RunsOf(N, V, {<<>>}, turn) # {}
      BY <1>1, <1>2, LoopRuns
  <2> QED
      BY <2>1 DEF RunsOf
<1>4. Loop(f)
  <2>1. \A n \in 0 .. N :
          f[n] = IF n = 0 THEN {<<>>} ELSE Turn(f[n - 1], listed[n])
    <3> SUFFICES ASSUME NEW n \in 0 .. N, n # 0
                 PROVE  f[n] = Turn(f[n - 1], listed[n])
        BY <1>3
    <3>1. n \in 1 .. N /\ n - 1 \in 0 .. N
        BY <1>1
    <3>2. f[n - 1] \in V
        BY <3>1
    <3> HIDE DEF V
    <3> QED
        BY <1>3, <3>1, <3>2
  <2> HIDE DEF V
  <2> QED
      BY <2>1
<1> DEFINE pushed == CHOOSE g : Loop(g)
<1>5. Loop(pushed)
  <2> HIDE DEF Loop
  <2> QED
      BY <1>4
<1>6. set \in pushed[N] /\ set # <<>>
    BY DEF from_jwks
<1> HIDE DEF pushed
<1> DEFINE P == {n \in 0 .. N : \A s \in pushed[n] : Pushed(s, listed, n)}
<1>7. 0 \in P
  <2>1. pushed[0] = {<<>>}
      BY <1>1, <1>5
  <2>2. Pushed(<<>>, listed, 0)
      BY EmptySeq DEF Pushed
  <2> QED
      BY <1>1, <2>1, <2>2
<1>8. \A n \in 1 .. N : n - 1 \in P => n \in P
  <2> SUFFICES ASSUME NEW n \in 1 .. N, n - 1 \in P PROVE n \in P
      OBVIOUS
  <2>1. n \in 0 .. N /\ n # 0
      BY <1>1
  <2>2. pushed[n] = Turn(pushed[n - 1], listed[n])
      BY <1>5, <2>1
  <2>3. \A s \in Turn(pushed[n - 1], listed[n]) : Pushed(s, listed, n)
      BY <1>1, TurnPushes
  <2> QED
      BY <2>1, <2>2, <2>3
<1>9. N \in P
  <2> HIDE DEF P, N
  <2>1. \A n \in 0 .. N : n \in P
      BY <1>1, <1>7, <1>8, EveryTurn
  <2> QED
      BY <1>1, <2>1
<1>10. Pushed(set, listed, N)
    BY <1>6, <1>9
<1>11. set \in Seq(Key) /\ Len(set) <= MaxKeys
  <2>1. set \in Seq(Key) /\ Len(set) <= N
      BY <1>10 DEF Pushed
  <2> QED
      BY <1>1, <2>1, JoseAssumption
<1> QED
    BY <1>6, <1>10, <1>11, SeqIsUpTo

-----------------------------------------------------------------------------
(* The invariant.                                                          *)

\* The keys the node holds are the whole of what the document they were read
\* from makes: nothing of an earlier set is among them.
KeysAreTheDocuments == \A listed \in document : keys \in from_jwks(listed)

IInv == TypeOK /\ KeysAreTheDocuments

\* It is inductive.
LEMMA IInvHolds == Spec => []IInv
<1>1. Init => IInv
  <2>1. {} \in Option(UpTo(Entry))
      BY DEF Option
  <2> QED
      BY <2>1 DEF Init, IInv, TypeOK, KeysAreTheDocuments
<1>2. IInv /\ [Next]_vars => IInv'
  <2>1. ASSUME NEW listed \in UpTo(Entry), Load(listed) PROVE IInv'
    <3>1. /\ document' = {listed} /\ keys' \in from_jwks(listed)
        BY <2>1 DEF Load
    <3>2. keys' \in UpTo(Key) /\ keys' # <<>>
        BY <3>1, LoadedIsPushed
    <3>3. document' \in Option(UpTo(Entry))
        BY <3>1 DEF Option
    <3> QED
        BY <3>1, <3>2, <3>3 DEF IInv, TypeOK, KeysAreTheDocuments
  <2>2. ASSUME IInv, UNCHANGED vars PROVE IInv'
      BY <2>2 DEF vars, IInv, TypeOK, KeysAreTheDocuments
  <2> QED
      BY <2>1, <2>2 DEF Next
<1> QED
    BY <1>1, <1>2, PTL DEF Spec

\* Every document that loads makes a set, and no set a document made is
\* empty: a useless set is refused when it is loaded.
THEOREM TypeCorrect == Spec => []TypeOK
BY IInvHolds, PTL DEF IInv

-----------------------------------------------------------------------------
(* Candidates.                                                             *)

\* An algorithm's name names one algorithm.
LEMMA OneIsNamed ==
  ASSUME NEW name, NEW alg \in named(name)
  PROVE  named(name) = {alg}
BY DEF named

\* A Kid that is given is one.
LEMMA KidIsOne ==
  ASSUME NEW kid \in Option(Kid), kid # {}
  PROVE  \E id \in Kid : kid = {id}
<1>1. PICK id \in kid : TRUE
    OBVIOUS
<1>2. kid = {id} /\ id \in Kid
    BY <1>1 DEF Option
<1> QED
    BY <1>2

\* Every key a token is verified with is one of the set's, serves the
\* algorithm, and has the name where one is given.
LEMMA CandidatesServe ==
  ASSUME NEW set \in UpTo(Key), NEW alg, NEW kid \in Option(Kid),
         NEW key \in candidates(set, alg, kid)
  PROVE  /\ key \in ToSet(set)
         /\ algorithm(key) = alg
         /\ kid # {} => key.id = kid
<1>1. algorithm(key) = alg
    BY DEF candidates
<1>2. CASE kid = {}
    BY <1>1, <1>2 DEF candidates
<1>3. CASE kid # {}
  <2>1. PICK id \in Kid : kid = {id}
      BY <1>3, KidIsOne
  <2>2. key \in FirstWith(set, id)
      BY <1>3, <2>1 DEF candidates
  <2>3. key \in ToSet(set) /\ key.id = {id}
      BY <2>2 DEF FirstWith, ToSet
  <2> QED
      BY <1>1, <2>1, <2>3
<1> QED
    BY <1>2, <1>3

\* Where every key of a name is one and the same, the name finds it.
LEMMA NameFindsIt ==
  ASSUME NEW set \in UpTo(Key), NEW id, NEW k \in DOMAIN set, set[k].id = {id},
         \A j \in DOMAIN set : set[j].id = {id} => set[j] = set[k]
  PROVE  set[k] \in FirstWith(set, id)
<1> DEFINE T == {j \in DOMAIN set : set[j].id = {id}}
<1>1. T \in SUBSET Nat /\ T # {} /\ DOMAIN set \subseteq Nat
    BY UpToIsSeq
<1>2. PICK i \in T : \A j \in T : i <= j
    BY <1>1, LeastElement
<1>3. \A j \in DOMAIN set : j < i => set[j].id # {id}
    BY <1>1, <1>2
<1>4. set[i] \in FirstWith(set, id)
    BY <1>2, <1>3 DEF FirstWith
<1>5. set[i] = set[k]
    BY <1>2
<1> QED
    BY <1>4, <1>5

\* So it is a candidate, under its own name or under none.
LEMMA ItIsACandidate ==
  ASSUME NEW set \in UpTo(Key), NEW k \in DOMAIN set,
         NEW kid \in {{}, set[k].id},
         kid # {} => \A j \in DOMAIN set : set[j].id = kid => set[j] = set[k]
  PROVE  set[k] \in candidates(set, algorithm(set[k]), kid)
<1>1. CASE kid = {}
    BY <1>1 DEF candidates, ToSet
<1>2. CASE kid # {}
  <2>1. set[k] \in Key
      BY UpToIsSeq
  <2>2. kid = set[k].id /\ kid \in Option(Kid)
      BY <1>2, <2>1 DEF Key
  <2>3. PICK id \in Kid : kid = {id}
      BY <1>2, <2>2, KidIsOne
  <2>4. set[k] \in FirstWith(set, id)
      BY <1>2, <2>2, <2>3, NameFindsIt
  <2> QED
      BY <1>2, <2>3, <2>4 DEF candidates
<1> QED
    BY <1>1, <1>2

\* What an accepted token shows of the set it was verified with.
LEMMA AcceptedShows ==
  ASSUME NEW set \in UpTo(Key), NEW token \in Token, Accepts(set, token)
  PROVE  \E key \in ToSet(set) :
           /\ token.signature = [by |-> key.material, over |-> token.input]
           /\ named(token.alg) = {algorithm(key)}
           /\ token.kid # {} => key.id = token.kid
<1>1. PICK alg \in named(token.alg) :
        \E key \in candidates(set, alg, token.kid) :
          holds(key, token.input, token.signature)
    BY DEF Accepts, verify
<1> PICK key \in candidates(set, alg, token.kid) :
      holds(key, token.input, token.signature)
    BY <1>1
<1>2. token.kid \in Option(Kid) /\ token.signature \in [by : Material, over : Input]
    BY DEF Token
<1>3. /\ key \in ToSet(set) /\ algorithm(key) = alg
      /\ token.kid # {} => key.id = token.kid
    BY <1>1, <1>2, CandidatesServe
<1>4. token.signature = [by |-> key.material, over |-> token.input]
    BY <1>1, <1>2 DEF holds
<1>5. named(token.alg) = {algorithm(key)}
    BY <1>1, <1>3, OneIsNamed
<1> QED
    BY <1>3, <1>4, <1>5

\* A key accepts what it signed, if it is a candidate for it.
LEMMA SignedIsAccepted ==
  ASSUME NEW set, NEW token, NEW key,
         token.signature = [by |-> key.material, over |-> token.input],
         algorithm(key) \in named(token.alg),
         key \in candidates(set, algorithm(key), token.kid)
  PROVE  Accepts(set, token)
<1>1. holds(key, token.input, token.signature)
    BY DEF holds
<1> QED
    BY <1>1 DEF Accepts, verify

-----------------------------------------------------------------------------
(* The theorems.                                                           *)

\* No token is accepted that a key the node holds did not sign over what the
\* token carries, for the algorithm it names and under the name it gives.
THEOREM NothingIsForged == Spec => []AcceptedIsSigned
<1>1. TypeOK => AcceptedIsSigned
    BY AcceptedShows DEF TypeOK, AcceptedIsSigned
<1> QED
    BY <1>1, TypeCorrect, PTL

\* A token accepted by the name of its key is accepted without one.
THEOREM NamesNarrow == Spec => []NamingAKeyOnlyNarrows
<1>1. TypeOK => NamingAKeyOnlyNarrows
  <2> SUFFICES ASSUME TypeOK, NEW token \in Token, Accepts(keys, token)
               PROVE  Accepts(keys, [token EXCEPT !.kid = {}])
      BY DEF NamingAKeyOnlyNarrows
  <2> DEFINE unnamed == [token EXCEPT !.kid = {}]
  <2>1. PICK key \in ToSet(keys) :
          /\ token.signature = [by |-> key.material, over |-> token.input]
          /\ named(token.alg) = {algorithm(key)}
      BY AcceptedShows DEF TypeOK
  <2>2. /\ unnamed.signature = token.signature /\ unnamed.input = token.input
        /\ unnamed.alg = token.alg /\ unnamed.kid = {}
      BY DEF Token
  <2>3. key \in candidates(keys, algorithm(key), unnamed.kid)
      BY <2>1, <2>2 DEF candidates
  <2> HIDE DEF unnamed
  <2>4. Accepts(keys, unnamed)
      BY <2>1, <2>2, <2>3, SignedIsAccepted
  <2> QED
      BY <2>4 DEF unnamed
<1> QED
    BY <1>1, TypeCorrect, PTL

\* Where identifiers are not shared, the order of the keys decides nothing.
THEOREM OrderIsFree == Spec => []OrderDecidesNothing
<1>1. TypeOK => OrderDecidesNothing
  <2> SUFFICES ASSUME TypeOK, NEW token \in Token,
                      \A i, j \in DOMAIN keys :
                        keys[i].id = keys[j].id /\ keys[i].id # {} => i = j
               PROVE  Accepts(keys, token) <=>
                        \E key \in ToSet(keys) :
                          /\ token.signature = [by |-> key.material, over |-> token.input]
                          /\ named(token.alg) = {algorithm(key)}
                          /\ token.kid \in {{}, key.id}
      BY DEF OrderDecidesNothing
  <2>1. keys \in UpTo(Key)
      BY DEF TypeOK
  <2>2. ASSUME Accepts(keys, token)
        PROVE  \E key \in ToSet(keys) :
                 /\ token.signature = [by |-> key.material, over |-> token.input]
                 /\ named(token.alg) = {algorithm(key)}
                 /\ token.kid \in {{}, key.id}
      BY <2>1, <2>2, AcceptedShows
  <2>3. ASSUME NEW key \in ToSet(keys),
               token.signature = [by |-> key.material, over |-> token.input],
               named(token.alg) = {algorithm(key)},
               token.kid \in {{}, key.id}
        PROVE  Accepts(keys, token)
    <3>1. PICK k \in DOMAIN keys : key = keys[k]
        BY DEF ToSet
    <3>2. key \in candidates(keys, algorithm(key), token.kid)
        BY <2>1, <2>3, <3>1, ItIsACandidate
    <3> QED
        BY <2>3, <3>2, SignedIsAccepted
  <2> QED
      BY <2>2, <2>3
<1> QED
    BY <1>1, TypeCorrect, PTL

\* A key made of an entry serves the algorithm of the entry's type, and the
\* entry publishes it.
LEMMA PublishedKey ==
  ASSUME NEW entry \in Entry, Read(entry)
  PROVE  /\ entry.kty \in {"RSA", "P-256"}
         /\ KeyOf(entry).material.bytes = entry.bytes
         /\ entry.kty = "RSA" => /\ KeyOf(entry).material.kind = "Rsa"
                                 /\ algorithm(KeyOf(entry)) = "Rs256"
         /\ entry.kty = "P-256" => /\ KeyOf(entry).material.kind = "P256"
                                   /\ algorithm(KeyOf(entry)) = "Es256"
<1>1. entry.kty \in {"RSA", "P-256"}
    BY JoseAssumption DEF Read
<1> QED
    BY <1>1 DEF KeyOf, rsa_components, p256_point, algorithm

\* What a document that loaded does not publish for signing verifies nothing.
THEOREM WithdrawnIsRefused == Spec => []WithdrawnKeyIsRefused
<1>1. IInv => WithdrawnKeyIsRefused
  <2> SUFFICES ASSUME IInv, NEW listed \in document, NEW token \in Token,
                      Accepts(keys, token)
               PROVE  Publishes(listed, token.signature.by) # {}
      BY DEF WithdrawnKeyIsRefused
  <2>1. listed \in UpTo(Entry) /\ keys \in UpTo(Key) /\ keys \in from_jwks(listed)
      BY DEF IInv, TypeOK, KeysAreTheDocuments, Option
  <2>2. PICK key \in ToSet(keys) :
          token.signature = [by |-> key.material, over |-> token.input]
      BY <2>1, AcceptedShows
  <2>3. PICK k \in DOMAIN keys : key = keys[k]
      BY DEF ToSet
  <2>4. Pushed(keys, listed, Len(listed)) /\ k \in 1 .. Len(keys)
      BY <2>1, LoadedIsPushed, UpToIsSeq
  <2>5. PICK i \in 1 .. Len(listed) : Read(listed[i]) /\ key = KeyOf(listed[i])
      BY <2>3, <2>4 DEF Pushed
  <2>6. i \in DOMAIN listed /\ listed[i] \in Entry
      BY <2>1, UpToIsSeq
  <2>7. token.signature.by = key.material
      BY <2>2
  <2>8. i \in Publishes(listed, token.signature.by)
      BY <2>5, <2>6, <2>7, PublishedKey DEF Publishes, Read
  <2> QED
      BY <2>8
<1> QED
    BY <1>1, IInvHolds, PTL

\* A key a document that loaded publishes under an identifier of its own
\* verifies its tokens from then on.
THEOREM RotationIsSeamless == Spec => []RotationLeavesNoGap
<1>1. IInv => RotationLeavesNoGap
  <2> SUFFICES ASSUME IInv, NEW listed \in document, NEW token \in Token,
                      NEW i \in Publishes(listed, token.signature.by),
                      token.signature.over = token.input,
                      token.alg = IF token.signature.by.kind = "Rsa" THEN "RS256"
                                  ELSE "ES256",
                      token.kid \in {{}, listed[i].kid},
                      \A j \in DOMAIN listed :
                        ~listed[j].enc /\ listed[j].kty # "other"
                          /\ listed[j].kid = listed[i].kid => j = i
               PROVE  Accepts(keys, token)
      BY DEF RotationLeavesNoGap
  <2> DEFINE entry == listed[i]
             by == token.signature.by
  <2>1. listed \in UpTo(Entry) /\ keys \in UpTo(Key) /\ keys \in from_jwks(listed)
      BY DEF IInv, TypeOK, KeysAreTheDocuments, Option
  <2>2. /\ i \in DOMAIN listed /\ ~entry.enc /\ entry.bytes = by.bytes
        /\ \/ entry.kty = "RSA" /\ by.kind = "Rsa"
           \/ entry.kty = "P-256" /\ by.kind = "P256"
      BY DEF Publishes
  <2>3. Read(entry) /\ entry \in Entry /\ DOMAIN listed = 1 .. Len(listed)
      BY <2>1, <2>2, UpToIsSeq DEF Read
  <2>4. Pushed(keys, listed, Len(listed)) /\ DOMAIN keys = 1 .. Len(keys)
      BY <2>1, LoadedIsPushed, UpToIsSeq
  <2>5. PICK k \in DOMAIN keys : keys[k] = KeyOf(entry)
      BY <2>2, <2>3, <2>4 DEF Pushed
  <2>6. keys[k].id = entry.kid
      BY <2>3, <2>5, EntryMakesAKey
  <2>7. ASSUME NEW m \in DOMAIN keys, keys[m].id = entry.kid
        PROVE  keys[m] = keys[k]
    <3>1. PICK j \in 1 .. Len(listed) : Read(listed[j]) /\ keys[m] = KeyOf(listed[j])
        BY <2>4 DEF Pushed
    <3>2. listed[j] \in Entry /\ j \in DOMAIN listed
        BY <2>1, <2>3, UpToIsSeq
    <3>3. listed[j].kid = entry.kid
        BY <2>7, <3>1, <3>2, EntryMakesAKey
    <3>4. j = i
        BY <3>1, <3>2, <3>3 DEF Read
    <3> QED
        BY <2>5, <3>1, <3>4
  <2>8. keys[k] \in candidates(keys, algorithm(keys[k]), token.kid)
      BY <2>1, <2>6, <2>7, ItIsACandidate
  <2>9. algorithm(keys[k]) \in named(token.alg)
      BY <2>2, <2>3, <2>5, PublishedKey DEF named
  <2>10. token.signature = [by |-> keys[k].material, over |-> token.input]
    <3>1. token.signature \in [by : Material, over : Input] /\ by \in Material
        BY DEF Token
    <3>2. keys[k].material \in Material
      <4>1. keys[k] \in Key
          BY <2>1, UpToIsSeq
      <4> QED
          BY <4>1 DEF Key
    <3>3. by.kind = keys[k].material.kind /\ by.bytes = keys[k].material.bytes
        BY <2>2, <2>3, <2>5, PublishedKey
    <3>4. by = keys[k].material
        BY <3>1, <3>2, <3>3 DEF Material
    <3> QED
        BY <3>1, <3>4
  <2> QED
      BY <2>8, <2>9, <2>10, SignedIsAccepted
<1> QED
    BY <1>1, IInvHolds, PTL

=============================================================================
