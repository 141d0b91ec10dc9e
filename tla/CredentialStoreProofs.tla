----------------------- MODULE CredentialStoreProofs -----------------------
(***************************************************************************)
(* Theorems about CredentialStore, for any users, passwords, realms and    *)
(* iteration counts and however many salts are drawn: its types, the       *)
(* safety of what it holds, and that it implements PasswordBook.           *)
(***************************************************************************)
EXTENDS CredentialStore, TLAPS

-----------------------------------------------------------------------------
(* The primitives are free constructors.                                   *)

\* A hash is of one value.
LEMMA HashIsOfOne ==
  ASSUME NEW x, NEW y, sha256(x) = sha256(y)
  PROVE  x = y
<1>1. sha256(x).sha256 = x /\ sha256(y).sha256 = y
    BY DEF sha256
<1> QED
    BY <1>1

\* An HMAC is of one value, under one key.
LEMMA HmacIsOfOne ==
  ASSUME NEW k, NEW x, NEW l, NEW y, hmac_sha256(k, x) = hmac_sha256(l, y)
  PROVE  k = l /\ x = y
<1>1. /\ hmac_sha256(k, x).hmac = x /\ hmac_sha256(l, y).hmac = y
      /\ hmac_sha256(k, x).under = k /\ hmac_sha256(l, y).under = l
    BY DEF hmac_sha256
<1> QED
    BY <1>1

\* No value is made in two ways.
LEMMA MadeInOneWay ==
  ASSUME NEW x, NEW k, NEW y, NEW p, NEW s, NEW n, NEW o, NEW h, NEW t
  PROVE  /\ sha256(x) # hmac_sha256(k, y)
         /\ sha256(x) # pbkdf2_sha256(p, s, n)
         /\ sha256(x) # [opaque |-> o]
         /\ hmac_sha256(k, y) # pbkdf2_sha256(p, s, n)
         /\ hmac_sha256(k, y) # [opaque |-> o]
         /\ pbkdf2_sha256(p, s, n) # [opaque |-> o]
         /\ hmac_sha256(k, y) # hex(h)
         /\ hmac_sha256(k, y) # [md5 |-> t]
         /\ pbkdf2_sha256(p, s, n) # hex(h)
         /\ pbkdf2_sha256(p, s, n) # [md5 |-> t]
<1>1. /\ DOMAIN sha256(x) = {"sha256"}
      /\ DOMAIN hmac_sha256(k, y) = {"hmac", "under"}
      /\ DOMAIN pbkdf2_sha256(p, s, n) = {"pbkdf2", "salt", "rounds"}
      /\ DOMAIN [opaque |-> o] = {"opaque"}
      /\ DOMAIN hex(h) = {"hex", "upper"}
      /\ DOMAIN [md5 |-> t] = {"md5"}
    BY DEF sha256, hmac_sha256, pbkdf2_sha256, hex
<1> QED
    BY <1>1

\* Under one salt and count, two passwords make one client key exactly if
\* they are one HMAC key.
LEMMA ClientKeyOfHmacKey ==
  ASSUME NEW p, NEW q, NEW s, NEW n
  PROVE  client_key(p, s, n) = client_key(q, s, n) <=> HmacKey[p] = HmacKey[q]
<1>1. ASSUME client_key(p, s, n) = client_key(q, s, n)
      PROVE  HmacKey[p] = HmacKey[q]
  <2>1. pbkdf2_sha256(p, s, n) = pbkdf2_sha256(q, s, n)
      BY <1>1, HmacIsOfOne DEF client_key
  <2>2. /\ pbkdf2_sha256(p, s, n).pbkdf2 = HmacKey[p]
        /\ pbkdf2_sha256(q, s, n).pbkdf2 = HmacKey[q]
      BY DEF pbkdf2_sha256
  <2> QED
      BY <2>1, <2>2
<1>2. ASSUME HmacKey[p] = HmacKey[q]
      PROVE  client_key(p, s, n) = client_key(q, s, n)
    BY <1>2 DEF client_key, pbkdf2_sha256
<1> QED
    BY <1>1, <1>2

-----------------------------------------------------------------------------
(* The inductive invariant: the one entry of a user is derived from the    *)
(* password enrolled last, or is four values no password is behind.        *)

Opaque(n) ==
  from_keys(Elsewhere, n, [opaque |-> "stored"], [opaque |-> "server"])

Unknown(user) == verifiers[user] = {} /\ enrolled[user] = {}

Locked(user) ==
  enrolled[user] = {} /\ \E n \in Iterations : verifiers[user] = {Opaque(n)}

Enrolled(user) ==
  \E password \in Password, n \in Iterations,
     salt \in {Elsewhere} \union 2 .. drawn :
    /\ enrolled[user] = {password}
    /\ verifiers[user] = {derive(password, salt, n)}

EntriesAreEnrolled ==
  /\ iterations \in Iterations
  /\ drawn \in 1 .. MaxDrawn
  /\ decoy = derive(Empty, 1, iterations)
  /\ DOMAIN verifiers = User
  /\ enrolled \in [User -> SUBSET Password]
  /\ DOMAIN ha1 = Slot
  /\ \A user \in User : Unknown(user) \/ Locked(user) \/ Enrolled(user)

\* Every enrollment leaves an entry of the password it was made with.
LEMMA EnrollStep ==
  ASSUME EntriesAreEnrolled, [Next]_vars
  PROVE  EntriesAreEnrolled'
<1> USE StoreAssumption DEF EntriesAreEnrolled
<1>1. ASSUME NEW user \in User, NEW password \in Password,
             insert(user, password)
      PROVE  EntriesAreEnrolled'
  <2>1. /\ verifiers' = [verifiers EXCEPT ![user] =
                           {derive(password, drawn + 1, iterations)}]
        /\ enrolled' = [enrolled EXCEPT ![user] = {password}]
        /\ drawn < MaxDrawn /\ drawn' = drawn + 1
        /\ UNCHANGED <<iterations, ha1, decoy>>
      BY <1>1 DEF insert, Put
  <2>2. Enrolled(user)'
    <3>1. drawn + 1 \in 2 .. drawn'
        BY <2>1
    <3> QED
        BY <2>1, <3>1 DEF Enrolled
  <2>3. 2 .. drawn \subseteq 2 .. drawn'
      BY <2>1
  <2>4. \A other \in User \ {user} :
          verifiers'[other] = verifiers[other] /\ enrolled'[other] = enrolled[other]
      BY <2>1
  <2>5. \A other \in User \ {user} :
          Unknown(other)' \/ Locked(other)' \/ Enrolled(other)'
      BY <2>3, <2>4 DEF Unknown, Locked, Enrolled
  <2>6. derive(Empty, 1, iterations)' = derive(Empty, 1, iterations)
      BY <2>1 DEF derive, from_keys, client_key, pbkdf2_sha256
  <2> QED
      BY <2>1, <2>2, <2>5
<1>2. ASSUME NEW user \in User, NEW password \in Password, NEW n \in Iterations,
             insert_derived(user, password, n)
      PROVE  EntriesAreEnrolled'
  <2>1. /\ verifiers' = [verifiers EXCEPT ![user] =
                           {derive(password, Elsewhere, n)}]
        /\ enrolled' = [enrolled EXCEPT ![user] = {password}]
        /\ UNCHANGED <<iterations, ha1, decoy, drawn>>
      BY <1>2 DEF insert_derived, Put
  <2>2. Enrolled(user)'
      BY <2>1 DEF Enrolled
  <2>3. \A other \in User \ {user} :
          Unknown(other)' \/ Locked(other)' \/ Enrolled(other)'
      BY <2>1 DEF Unknown, Locked, Enrolled
  <2> QED
      BY <2>1, <2>2, <2>3
<1>3. ASSUME NEW user \in User, NEW n \in Iterations, insert_keys(user, n)
      PROVE  EntriesAreEnrolled'
  <2>1. /\ verifiers' = [verifiers EXCEPT ![user] = {Opaque(n)}]
        /\ enrolled' = [enrolled EXCEPT ![user] = {}]
        /\ UNCHANGED <<iterations, ha1, decoy, drawn>>
      BY <1>3 DEF insert_keys, Put, Opaque
  <2>2. Locked(user)'
      BY <2>1 DEF Locked
  <2>3. \A other \in User \ {user} :
          Unknown(other)' \/ Locked(other)' \/ Enrolled(other)'
      BY <2>1 DEF Unknown, Locked, Enrolled
  <2> QED
      BY <2>1, <2>2, <2>3
<1>4. ASSUME NEW slot, NEW text, insert_ha1(slot, text)
      PROVE  EntriesAreEnrolled'
    BY <1>4 DEF insert_ha1, Unknown, Locked, Enrolled
<1>5. CASE UNCHANGED vars
    BY <1>5 DEF vars, Unknown, Locked, Enrolled
<1> QED
    BY <1>1, <1>2, <1>3, <1>4, <1>5 DEF Next, insert_sha256_ha1, htdigest

\* The invariant holds of a new store.
LEMMA InitIsEnrolled == Init => EntriesAreEnrolled
BY StoreAssumption DEF Init, EntriesAreEnrolled, Unknown

\* The invariant holds throughout.
LEMMA Invariant == Spec => []EntriesAreEnrolled
BY InitIsEnrolled, EnrollStep, PTL DEF Spec

-----------------------------------------------------------------------------
(* What follows from it.                                                   *)

\* A verifier derived from a password matches the passwords that are the
\* same HMAC key, and no other.
LEMMA DerivedMatches ==
  ASSUME NEW p, NEW q, NEW s, NEW n
  PROVE  matches(derive(p, s, n), q) <=> HmacKey[q] = HmacKey[p]
<1>1. /\ derive(p, s, n).salt = s /\ derive(p, s, n).iterations = n
      /\ derive(p, s, n).stored_key = sha256(client_key(p, s, n))
    BY DEF derive, from_keys
<1>2. sha256(client_key(q, s, n)) = sha256(client_key(p, s, n))
        <=> client_key(q, s, n) = client_key(p, s, n)
    BY HashIsOfOne
<1> QED
    BY <1>1, <1>2, ClientKeyOfHmacKey DEF matches

\* Four values no password is behind match none.
LEMMA OpaqueMatchesNone ==
  ASSUME NEW n, NEW q
  PROVE  ~matches(Opaque(n), q)
<1>1. Opaque(n).stored_key = [opaque |-> "stored"]
    BY DEF Opaque, from_keys
<1> QED
    BY <1>1, MadeInOneWay DEF matches

\* Every user verifies with the passwords the enrolled one is alike to, and
\* a user nothing is enrolled for with none.
LEMMA VerifiesAlike ==
  ASSUME EntriesAreEnrolled, NEW user \in User, NEW q \in Password
  PROVE  verify(user, q) <=> \E p \in enrolled[user] : HmacKey[q] = HmacKey[p]
<1>1. CASE Unknown(user)
    BY <1>1 DEF Unknown, verify
<1>2. CASE Locked(user)
    BY <1>2, OpaqueMatchesNone DEF Locked, verify
<1>3. CASE Enrolled(user)
    BY <1>3, DerivedMatches DEF Enrolled, verify
<1> QED
    BY <1>1, <1>2, <1>3 DEF EntriesAreEnrolled

\* The entries are whole, one per user, under salts that were drawn and that
\* are not the decoy's.
THEOREM TypeCorrect == Spec => []TypeOK
<1>1. EntriesAreEnrolled => TypeOK
  <2> SUFFICES ASSUME EntriesAreEnrolled PROVE TypeOK
      OBVIOUS
  <2>1. ASSUME NEW user \in User, NEW verifier \in verifiers[user]
        PROVE  /\ verifiers[user] = {verifier}
               /\ verifier.iterations \in Iterations
               /\ verifier.salt \in {Elsewhere} \union 2 .. drawn
    <3>1. CASE Locked(user)
        BY <2>1, <3>1 DEF Locked, Opaque, from_keys
    <3>2. CASE Enrolled(user)
      <4>1. PICK password \in Password, n \in Iterations,
                 salt \in {Elsewhere} \union 2 .. drawn :
              verifiers[user] = {derive(password, salt, n)}
          BY <3>2 DEF Enrolled
      <4>2. /\ derive(password, salt, n).iterations = n
            /\ derive(password, salt, n).salt = salt
          BY DEF derive, from_keys
      <4> QED
          BY <2>1, <4>1, <4>2
    <3> QED
        BY <2>1, <3>1, <3>2 DEF EntriesAreEnrolled, Unknown
  <2>2. enrolled \in [User -> {{}} \union {{password} : password \in Password}]
    <3>1. \A user \in User :
            enrolled[user] \in {{}} \union {{password} : password \in Password}
        BY DEF EntriesAreEnrolled, Unknown, Locked, Enrolled
    <3> QED
        BY <3>1 DEF EntriesAreEnrolled
  <2> QED
      BY <2>1, <2>2 DEF EntriesAreEnrolled, TypeOK
<1> QED
    BY <1>1, Invariant, PTL

\* A user proves by SCRAM exactly what the same user proves by password.
THEOREM ScramIsPassword == Spec => []ScramAgreesWithPassword
<1>1. TypeOK => ScramAgreesWithPassword
    BY DEF TypeOK, ScramAgreesWithPassword, proves, verify, matches
<1> QED
    BY <1>1, TypeCorrect, PTL

-----------------------------------------------------------------------------
(* Digest.                                                                 *)

\* The hash an HA1 is, by algorithm.
Ha1Of(user, realm, algorithm, password) ==
  IF algorithm = SHA_256 THEN sha256(A1(user, realm, password))
                         ELSE [md5 |-> A1(user, realm, password)]

\* Lower case is one spelling.
LEMMA OneSpelling ==
  ASSUME NEW hash, NEW upper
  PROVE  to_ascii_lowercase([hex |-> hash, upper |-> upper]) = hex(hash)
<1> DEFINE text  == [hex |-> hash, upper |-> upper]
           lower == [text EXCEPT !.upper = FALSE]
<1>1. /\ DOMAIN lower = {"hex", "upper"}
      /\ lower.hex = hash /\ lower.upper = FALSE
    OBVIOUS
<1>2. lower = [field \in {"hex", "upper"} |-> lower[field]]
    OBVIOUS
<1>3. /\ DOMAIN hex(hash) = {"hex", "upper"}
      /\ hex(hash).hex = hash /\ hex(hash).upper = FALSE
      /\ hex(hash) = [field \in {"hex", "upper"} |-> hex(hash)[field]]
    BY DEF hex
<1>4. \A field \in {"hex", "upper"} : lower[field] = hex(hash)[field]
    BY <1>1, <1>3
<1> QED
    BY <1>2, <1>3, <1>4 DEF to_ascii_lowercase

\* A step that keeps an HA1 keeps one of its slot's own.
LEMMA Ha1Step ==
  ASSUME DOMAIN ha1 = Slot, Ha1IsItsSlots, [Next]_vars
  PROVE  Ha1IsItsSlots'
<1>1. ASSUME NEW user \in User, NEW realm \in Realm,
             NEW algorithm \in {MD5, SHA_256}, NEW password \in Password,
             NEW upper,
             insert_ha1(<<user, realm, algorithm>>,
                        [hex |-> Ha1Of(user, realm, algorithm, password),
                         upper |-> upper])
      PROVE  Ha1IsItsSlots'
  <2> DEFINE slot == <<user, realm, algorithm>>
  <2>1. ha1' = [ha1 EXCEPT ![slot] =
                  {hex(Ha1Of(user, realm, algorithm, password))}]
      BY <1>1, OneSpelling DEF insert_ha1
  <2> SUFFICES ASSUME NEW u \in User, NEW r \in Realm, NEW g \in {MD5, SHA_256},
                      NEW text \in ha1'[<<u, r, g>>]
               PROVE  \E q \in Password : text = hex(Ha1Of(u, r, g, q))
      BY DEF Ha1IsItsSlots, Ha1Of
  <2>2. slot \in DOMAIN ha1 /\ <<u, r, g>> \in DOMAIN ha1
      BY DEF Slot
  <2>3. CASE <<u, r, g>> = slot
    <3>1. u = user /\ r = realm /\ g = algorithm
        BY <2>3
    <3>2. text = hex(Ha1Of(user, realm, algorithm, password))
        BY <2>1, <2>2, <2>3
    <3> QED
        BY <3>1, <3>2
  <2>4. CASE <<u, r, g>> # slot
    <3>1. text \in ha1[<<u, r, g>>]
        BY <2>1, <2>2, <2>4
    <3> QED
        BY <3>1 DEF Ha1IsItsSlots, Ha1Of
  <2> QED
      BY <2>3, <2>4
<1>2. CASE UNCHANGED ha1
    BY <1>2 DEF Ha1IsItsSlots
<1>3. ASSUME NEW user \in User, NEW realm \in Realm, NEW password \in Password,
             insert_sha256_ha1(user, realm, password)
      PROVE  Ha1IsItsSlots'
  <2>1. hex(sha256(A1(user, realm, password)))
          = [hex |-> Ha1Of(user, realm, SHA_256, password), upper |-> FALSE]
      BY DEF hex, Ha1Of
  <2> QED
      BY <1>1, <1>3, <2>1 DEF insert_sha256_ha1
<1>4. ASSUME NEW user \in User, NEW realm \in Realm,
             NEW algorithm \in {MD5, SHA_256}, NEW password \in Password,
             NEW upper \in BOOLEAN,
             htdigest(user, realm, algorithm, password, upper)
      PROVE  Ha1IsItsSlots'
    BY <1>1, <1>4 DEF htdigest, Ha1Of
<1> QED
    BY <1>2, <1>3, <1>4 DEF Next, vars, insert, insert_derived, insert_keys

\* However an HA1 was entered, it is of the user, realm and algorithm it is
\* kept under and spelled as Digest compares it.
THEOREM Ha1StaysInItsSlot == Spec => []Ha1IsItsSlots
<1>1. Init => Ha1IsItsSlots
    BY DEF Init, Ha1IsItsSlots, Slot
<1>2. EntriesAreEnrolled /\ Ha1IsItsSlots /\ [Next]_vars => Ha1IsItsSlots'
    BY Ha1Step DEF EntriesAreEnrolled
<1> QED
    BY <1>1, <1>2, Invariant, PTL DEF Spec

-----------------------------------------------------------------------------
(* What a reader of the store learns.                                      *)

\* What an entry is compared with is the hash of a client key, or a value no
\* password is behind.
LEMMA EntryForm ==
  ASSUME EntriesAreEnrolled, NEW user \in User, NEW verifier \in verifiers[user]
  PROVE  \/ /\ verifier.stored_key = [opaque |-> "stored"]
            /\ verifier.server_key = [opaque |-> "server"]
         \/ \E p, s, n :
              /\ verifier.stored_key = sha256(client_key(p, s, n))
              /\ verifier.server_key
                   = hmac_sha256(pbkdf2_sha256(p, s, n), "Server Key")
<1>1. CASE Locked(user)
  <2>1. PICK n : verifiers[user] = {Opaque(n)}
      BY <1>1 DEF Locked
  <2>2. /\ Opaque(n).stored_key = [opaque |-> "stored"]
        /\ Opaque(n).server_key = [opaque |-> "server"]
      BY DEF Opaque, from_keys
  <2> QED
      BY <2>1, <2>2
<1>2. CASE Enrolled(user)
  <2>1. PICK p, s, n : verifiers[user] = {derive(p, s, n)}
      BY <1>2 DEF Enrolled
  <2>2. /\ derive(p, s, n).stored_key = sha256(client_key(p, s, n))
        /\ derive(p, s, n).server_key
             = hmac_sha256(pbkdf2_sha256(p, s, n), "Server Key")
      BY DEF derive, from_keys
  <2> QED
      BY <2>1, <2>2
<1> QED
    BY <1>1, <1>2 DEF EntriesAreEnrolled, Unknown

\* The two keys of the decoy and of every entry are hashes, server keys or
\* such values.
LEMMA KeptForm ==
  ASSUME EntriesAreEnrolled, NEW verifier \in Kept,
         NEW value \in {verifier.stored_key, verifier.server_key}
  PROVE  \/ \E o : value = [opaque |-> o]
         \/ \E key : value = sha256(key)
         \/ \E k : value = hmac_sha256(k, "Server Key")
<1>1. CASE verifier = decoy
  <2>1. verifier = derive(Empty, 1, iterations)
      BY <1>1 DEF EntriesAreEnrolled
  <2>2. /\ verifier.stored_key = sha256(client_key(Empty, 1, iterations))
        /\ verifier.server_key
             = hmac_sha256(pbkdf2_sha256(Empty, 1, iterations), "Server Key")
      BY <2>1 DEF derive, from_keys
  <2> QED
      BY <2>2
<1>2. CASE \E user \in User : verifier \in verifiers[user]
    BY <1>2, EntryForm
<1> QED
    BY <1>1, <1>2 DEF Kept

\* An HA1 is the spelling of a hash, and what it spells is that hash.
LEMMA Ha1Form ==
  ASSUME Ha1IsItsSlots, NEW slot \in Slot, NEW text \in ha1[slot]
  PROVE  /\ \E h : text = hex(h)
         /\ \/ \E key : text.hex = sha256(key)
            \/ \E t : text.hex = [md5 |-> t]
<1>1. PICK user \in User, realm \in Realm, algorithm \in {MD5, SHA_256} :
        slot = <<user, realm, algorithm>>
    BY DEF Slot
<1>2. PICK password \in Password :
        text = hex(Ha1Of(user, realm, algorithm, password))
    BY <1>1 DEF Ha1IsItsSlots, Ha1Of
<1>3. text.hex = Ha1Of(user, realm, algorithm, password)
    BY <1>2 DEF hex
<1> QED
    BY <1>2, <1>3 DEF Ha1Of

\* Everything held is of one of these forms, none of them a client key or
\* what one is made from.
LEMMA HeldForm ==
  ASSUME EntriesAreEnrolled, Ha1IsItsSlots, NEW value \in Held
  PROVE  \/ \E o : value = [opaque |-> o]
         \/ \E key : value = sha256(key)
         \/ \E k : value = hmac_sha256(k, "Server Key")
         \/ \E h : value = hex(h)
         \/ \E t : value = [md5 |-> t]
<1>1. CASE \E verifier \in Kept :
             value \in {verifier.stored_key, verifier.server_key}
    BY <1>1, KeptForm
<1>2. CASE \E slot \in Slot : \E text \in ha1[slot] : value \in {text, text.hex}
    BY <1>2, Ha1Form
<1> QED
    BY <1>1, <1>2 DEF Held

\* Whoever reads the store, HA1s and all, can prove nothing by SCRAM: nothing
\* held, and nothing one hash or HMAC makes of it, is a client key any entry
\* accepts.
THEOREM ReadersProveNothing == Spec => []NothingHeldIsAClientKey
<1>1. EntriesAreEnrolled /\ Ha1IsItsSlots => NothingHeldIsAClientKey
  <2> SUFFICES ASSUME EntriesAreEnrolled, Ha1IsItsSlots, NEW user \in User,
                      NEW verifier \in verifiers[user], NEW value \in Held
               PROVE  /\ ~proves(verifier, value)
                      /\ ~proves(verifier, sha256(value))
                      /\ \A label \in {"Client Key", "Server Key"} :
                           ~proves(verifier, hmac_sha256(value, label))
      BY DEF NothingHeldIsAClientKey
  \* A key is accepted only if it is a client key.
  <2>1. ASSUME NEW key, proves(verifier, key)
        PROVE  \E p, s, n : key = client_key(p, s, n)
    <3>1. CASE verifier.stored_key = [opaque |-> "stored"]
        BY <2>1, <3>1, MadeInOneWay DEF proves
    <3>2. CASE \E p, s, n : verifier.stored_key = sha256(client_key(p, s, n))
        BY <2>1, <3>2, HashIsOfOne DEF proves
    <3>3. \/ /\ verifier.stored_key = [opaque |-> "stored"]
             /\ verifier.server_key = [opaque |-> "server"]
          \/ \E p, s, n :
               /\ verifier.stored_key = sha256(client_key(p, s, n))
               /\ verifier.server_key
                    = hmac_sha256(pbkdf2_sha256(p, s, n), "Server Key")
        BY EntryForm
    <3> QED
        BY <3>1, <3>2, <3>3
  <2>2. \A p, s, n : value # client_key(p, s, n)
    <3> SUFFICES ASSUME NEW p, NEW s, NEW n,
                        value = hmac_sha256(pbkdf2_sha256(p, s, n), "Client Key")
                 PROVE  FALSE
        BY DEF client_key
    <3>1. CASE \E o : value = [opaque |-> o]
        BY <3>1, MadeInOneWay
    <3>2. CASE \E key : value = sha256(key)
        BY <3>2, MadeInOneWay
    <3>3. CASE \E k : value = hmac_sha256(k, "Server Key")
      <4>1. PICK k : value = hmac_sha256(k, "Server Key")
          BY <3>3
      <4>2. hmac_sha256(k, "Server Key")
              = hmac_sha256(pbkdf2_sha256(p, s, n), "Client Key")
          BY <4>1
      <4>3. "Server Key" = "Client Key"
          BY <4>2, HmacIsOfOne
      <4> QED
          BY <4>3
    <3>4. CASE \E h : value = hex(h)
        BY <3>4, MadeInOneWay
    <3>5. CASE \E t : value = [md5 |-> t]
        BY <3>5, MadeInOneWay
    <3> QED
        BY <3>1, <3>2, <3>3, <3>4, <3>5, HeldForm
  <2>3. \A p, s, n : sha256(value) # client_key(p, s, n)
      BY MadeInOneWay DEF client_key
  <2>4. \A label, p, s, n : hmac_sha256(value, label) # client_key(p, s, n)
    <3> SUFFICES ASSUME NEW label, NEW p, NEW s, NEW n,
                        hmac_sha256(value, label)
                          = hmac_sha256(pbkdf2_sha256(p, s, n), "Client Key")
                 PROVE  FALSE
        BY DEF client_key
    <3>1. value = pbkdf2_sha256(p, s, n)
        BY HmacIsOfOne
    <3>2. CASE \E o : value = [opaque |-> o]
        BY <3>1, <3>2, MadeInOneWay
    <3>3. CASE \E key : value = sha256(key)
        BY <3>1, <3>3, MadeInOneWay
    <3>4. CASE \E k : value = hmac_sha256(k, "Server Key")
        BY <3>1, <3>4, MadeInOneWay
    <3>5. CASE \E h : value = hex(h)
        BY <3>1, <3>5, MadeInOneWay
    <3>6. CASE \E t : value = [md5 |-> t]
        BY <3>1, <3>6, MadeInOneWay
    <3> QED
        BY <3>2, <3>3, <3>4, <3>5, <3>6, HeldForm
  <2>5. ~proves(verifier, value)
      BY <2>1, <2>2
  <2>6. ~proves(verifier, sha256(value))
      BY <2>1, <2>3
  <2>7. \A label : ~proves(verifier, hmac_sha256(value, label))
      BY <2>1, <2>4
  <2> QED
      BY <2>5, <2>6, <2>7
<1> QED
    BY <1>1, Invariant, Ha1StaysInItsSlot, PTL

-----------------------------------------------------------------------------
(* The store implements the book.                                          *)

BookOf == [user \in User |-> {p \in Password : verify(user, p)}]

\* The page of a user follows from what was enrolled for that user last.
PagesFollow ==
  \A user \in User :
    /\ enrolled[user] = {} => BookOf[user] = {}
    /\ \A p \in Password : enrolled[user] = {p} => BookOf[user] = Alike[p]
    /\ \/ enrolled[user] = {}
       \/ \E p \in Password : enrolled[user] = {p}

\* Seen through verify, the store is the pages of its last enrollments.
LEMMA PagesAreEnrolled == EntriesAreEnrolled => PagesFollow
<1> SUFFICES ASSUME EntriesAreEnrolled, NEW user \in User
             PROVE  /\ enrolled[user] = {} => BookOf[user] = {}
                    /\ \A p \in Password :
                         enrolled[user] = {p} => BookOf[user] = Alike[p]
                    /\ \/ enrolled[user] = {}
                       \/ \E p \in Password : enrolled[user] = {p}
    BY DEF PagesFollow
<1>1. /\ enrolled[user] = {} => BookOf[user] = {}
      /\ \A p \in Password : enrolled[user] = {p} => BookOf[user] = Alike[p]
    BY VerifiesAlike DEF BookOf, Alike
<1>2. \/ enrolled[user] = {}
      \/ \E p \in Password : enrolled[user] = {p}
    BY DEF EntriesAreEnrolled, Unknown, Locked, Enrolled
<1> QED
    BY <1>1, <1>2

\* An enrollment, however it was made, changes one page: into the passwords
\* alike to the one enrolled, or into an empty one. Nothing else changes any.
LEMMA BookStep ==
  ASSUME EntriesAreEnrolled, EntriesAreEnrolled', [Next]_vars
  PROVE  [Book!Next]_<<enrolled, BookOf>>
<1>1. PagesFollow /\ PagesFollow'
    BY PagesAreEnrolled, PTL
<1>2. /\ enrolled \in [User -> SUBSET Password]
      /\ BookOf = [user \in User |-> BookOf[user]]
      /\ BookOf' = [user \in User |-> BookOf'[user]]
    BY DEF EntriesAreEnrolled, BookOf
<1>3. \A user \in User : enrolled'[user] = enrolled[user]
                          => BookOf'[user] = BookOf[user]
  <2> SUFFICES ASSUME NEW user \in User, enrolled'[user] = enrolled[user]
               PROVE  BookOf'[user] = BookOf[user]
      OBVIOUS
  <2>1. CASE enrolled[user] = {}
      BY <1>1, <2>1 DEF PagesFollow
  <2>2. ASSUME NEW p \in Password, enrolled[user] = {p}
        PROVE  BookOf'[user] = BookOf[user]
    <3>1. BookOf[user] = Alike[p]
        BY <1>1, <2>2 DEF PagesFollow
    <3>2. BookOf'[user] = Alike[p]
        BY <1>1, <2>2 DEF PagesFollow
    <3> QED
        BY <3>1, <3>2
  <2> QED
      BY <1>1, <2>1, <2>2 DEF PagesFollow
<1> HIDE DEF EntriesAreEnrolled, PagesFollow, BookOf
<1>4. ASSUME NEW user \in User, NEW password \in Password,
             enrolled' = [enrolled EXCEPT ![user] = {password}]
      PROVE  Book!Enroll(user, password)
  <2>1. /\ enrolled'[user] = {password}
        /\ \A other \in User \ {user} : enrolled'[other] = enrolled[other]
      BY <1>2, <1>4
  <2>2. BookOf'[user] = Alike[password]
      BY <1>1, <2>1 DEF PagesFollow
  <2>3. BookOf' = [BookOf EXCEPT ![user] = Alike[password]]
      BY <1>2, <1>3, <2>1, <2>2
  <2> QED
      BY <1>4, <2>3 DEF Book!Enroll, BookOf
<1>5. ASSUME NEW user \in User, enrolled' = [enrolled EXCEPT ![user] = {}]
      PROVE  Book!Lock(user)
  <2>1. /\ enrolled'[user] = {}
        /\ \A other \in User \ {user} : enrolled'[other] = enrolled[other]
      BY <1>2, <1>5
  <2>2. BookOf'[user] = {}
      BY <1>1, <2>1 DEF PagesFollow
  <2>3. BookOf' = [BookOf EXCEPT ![user] = {}]
      BY <1>2, <1>3, <2>1, <2>2
  <2> QED
      BY <1>5, <2>3 DEF Book!Lock, BookOf
<1>6. CASE UNCHANGED enrolled
  <2>1. BookOf' = BookOf
      BY <1>2, <1>3, <1>6
  <2> QED
      BY <1>6, <2>1
<1>7. \/ UNCHANGED enrolled
      \/ \E user \in User :
           \/ enrolled' = [enrolled EXCEPT ![user] = {}]
           \/ \E password \in Password :
                enrolled' = [enrolled EXCEPT ![user] = {password}]
    BY DEF Next, vars, insert, insert_derived, insert_keys, insert_ha1,
           insert_sha256_ha1, htdigest
<1> QED
    BY <1>4, <1>5, <1>6, <1>7 DEF Book!Next

\* A new store is an empty book.
LEMMA BookInit == Init => Book!Init
BY DEF Init, Book!Init, verify

\* The store implements the book: an enrollment replaces the one before it
\* and no other, an unknown name verifies with nothing, and whichever way an
\* enrollment was made it takes effect at once.
THEOREM StoreImplementsBook == Spec => StoreIsABook
<1>1. EntriesAreEnrolled /\ EntriesAreEnrolled' /\ [Next]_vars
        => [Book!Next]_<<enrolled, BookOf>>
    BY BookStep
<1> QED
    BY <1>1, BookInit, Invariant, PTL
    DEF Spec, StoreIsABook, Book!Spec, BookOf

=============================================================================
