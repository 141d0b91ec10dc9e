-------------------------- MODULE CredentialStore --------------------------
(***************************************************************************)
(* src/.src/store.rs: the credential store the verifiers of a user's       *)
(* password share, with a SCRAM-SHA-256 verifier per user, the HA1 of each *)
(* realm for Digest, and a decoy for the names it does not know.           *)
(*                                                                         *)
(* The primitives are free constructors, so that two derived values are    *)
(* equal only if they were derived alike. The one exception is the one     *)
(* HMAC has: a key is padded with zero bytes, so passwords that differ by  *)
(* trailing NUL characters are one key (HmacKey).                          *)
(***************************************************************************)
EXTENDS Naturals

CONSTANTS
  User,         \* user names
  Password,     \* passwords
  Empty,        \* the password ""
  HmacKey,      \* the HMAC key a password becomes
  Iterations,   \* iteration counts a store or a configured verifier may have
  Realm,        \* realms of Digest
  MaxDrawn      \* bound on the salts drawn

ASSUME StoreAssumption ==
  /\ Empty \in Password
  /\ DOMAIN HmacKey = Password
  /\ Iterations \subseteq Nat
  /\ MaxDrawn \in Nat \ {0}   \* a new store has drawn the salt of its decoy

VARIABLES
  iterations,   \* CredentialStore.iterations
  verifiers,    \* per user, the Option of a Verifier
  ha1,          \* per user, realm and algorithm, the Option of an HA1
  decoy,        \* CredentialStore.decoy
  drawn,        \* salts drawn so far from the random source, all distinct
  enrolled      \* history: per user, the Option of the password enrolled last

vars == <<iterations, verifiers, ha1, decoy, drawn, enrolled>>

-----------------------------------------------------------------------------
(* The primitives.                                                         *)

sha256(data) == [sha256 |-> data]
hmac_sha256(key, data) == [hmac |-> data, under |-> key]

\* iterations.max(1): how often HMAC runs.
rounds(n) == IF n = 0 THEN 1 ELSE n

pbkdf2_sha256(password, salt, n) ==
  [pbkdf2 |-> HmacKey[password], salt |-> salt, rounds |-> rounds(n)]

\* Faulty variant: hexadecimal is kept as it is written.
as_written(text) == text

hex(hash) == [hex |-> hash, upper |-> FALSE]
to_ascii_lowercase(text) == [text EXCEPT !.upper = FALSE]

-----------------------------------------------------------------------------
(* Verifier.                                                               *)

from_keys(salt, n, stored_key, server_key) ==
  [salt |-> salt, iterations |-> n,
   stored_key |-> stored_key, server_key |-> server_key]

client_key(password, salt, n) ==
  hmac_sha256(pbkdf2_sha256(password, salt, n), "Client Key")

derive(password, salt, n) ==
  from_keys(salt, n,
            sha256(client_key(password, salt, n)),
            hmac_sha256(pbkdf2_sha256(password, salt, n), "Server Key"))

\* Faulty variants: a password derived with the store's count and not the
\* verifier's own, and a key compared with what is stored, unhashed.
matchesWithTheStoresCount(verifier, password) ==
  sha256(client_key(password, verifier.salt, iterations)) = verifier.stored_key
provesUnhashed(verifier, key) == key = verifier.stored_key

matches(verifier, password) ==
  sha256(client_key(password, verifier.salt, verifier.iterations))
    = verifier.stored_key

proves(verifier, key) == sha256(key) = verifier.stored_key

-----------------------------------------------------------------------------
(* CredentialStore.                                                        *)

MD5     == "MD5"
SHA_256 == "SHA-256"
Slot    == User \X Realm \X {MD5, SHA_256}

\* with_iterations: the decoy is derived from "" under the first salt drawn.
Init ==
  /\ iterations \in Iterations
  /\ verifiers = [user \in User |-> {}]
  /\ ha1 = [slot \in Slot |-> {}]
  /\ drawn = 1
  /\ decoy = derive(Empty, 1, iterations)
  /\ enrolled = [user \in User |-> {}]

\* The salt of a verifier derived elsewhere, none of the ones drawn here.
Elsewhere == 0

\* Faulty variant: an entry there is stays.
PutIfAbsent(user, verifier) ==
  verifiers' = [verifiers EXCEPT ![user] = IF @ = {} THEN {verifier} ELSE @]

\* The entry of a user is replaced.
Put(user, verifier) ==
  verifiers' = [verifiers EXCEPT ![user] = {verifier}]

\* Faulty variant: the salt is the one drawn before.
insertUnderTheLastSalt(user, password) ==
  /\ drawn < MaxDrawn
  /\ drawn' = drawn + 1
  /\ Put(user, derive(password, drawn, iterations))
  /\ enrolled' = [enrolled EXCEPT ![user] = {password}]
  /\ UNCHANGED <<iterations, ha1, decoy>>

insert(user, password) ==
  /\ drawn < MaxDrawn
  /\ drawn' = drawn + 1
  /\ Put(user, derive(password, drawn', iterations))
  /\ enrolled' = [enrolled EXCEPT ![user] = {password}]
  /\ UNCHANGED <<iterations, ha1, decoy>>

\* insert_verifier, with the four values another store derived from a
\* password with its own salt and count ...
insert_derived(user, password, n) ==
  /\ Put(user, derive(password, Elsewhere, n))
  /\ enrolled' = [enrolled EXCEPT ![user] = {password}]
  /\ UNCHANGED <<iterations, ha1, decoy, drawn>>

\* ... or with four values no password is behind.
insert_keys(user, n) ==
  /\ Put(user, from_keys(Elsewhere, n, [opaque |-> "stored"], [opaque |-> "server"]))
  /\ enrolled' = [enrolled EXCEPT ![user] = {}]
  /\ UNCHANGED <<iterations, ha1, decoy, drawn>>

insert_ha1(slot, text) ==
  /\ ha1' = [ha1 EXCEPT ![slot] = {to_ascii_lowercase(text)}]
  /\ UNCHANGED <<iterations, verifiers, decoy, drawn, enrolled>>

\* The text "user:realm:password" an HA1 is the hash of.
A1(user, realm, password) ==
  [user |-> user, realm |-> realm, password |-> password]

insert_sha256_ha1(user, realm, password) ==
  insert_ha1(<<user, realm, SHA_256>>, hex(sha256(A1(user, realm, password))))

\* An htdigest line: an HA1 computed elsewhere, in either case. insert_ha1
\* takes any text; that the line is of this user, realm and algorithm is for
\* the operator who enters it.
htdigest(user, realm, algorithm, password, upper) ==
  insert_ha1(<<user, realm, algorithm>>,
             [hex |-> IF algorithm = SHA_256
                        THEN sha256(A1(user, realm, password))
                        ELSE [md5 |-> A1(user, realm, password)],
              upper |-> upper])

Next ==
  \E user \in User :
    \/ \E password \in Password : insert(user, password)
    \/ \E password \in Password, n \in Iterations :
         insert_derived(user, password, n)
    \/ \E n \in Iterations : insert_keys(user, n)
    \/ \E realm \in Realm, password \in Password :
         \/ insert_sha256_ha1(user, realm, password)
         \/ \E algorithm \in {MD5, SHA_256}, upper \in BOOLEAN :
              htdigest(user, realm, algorithm, password, upper)

Spec == Init /\ [][Next]_vars

\* For an unknown name the decoy is derived against, and the answer is no.
verify(user, password) ==
  \E verifier \in verifiers[user] : matches(verifier, password)

\* How often verify runs HMAC before it answers.
Cost(user) ==
  IF verifiers[user] = {} THEN rounds(decoy.iterations)
  ELSE rounds((CHOOSE verifier \in verifiers[user] : TRUE).iterations)

-----------------------------------------------------------------------------
(* Properties.                                                             *)

\* One invariant on the types: the entries are whole, and the salts are the
\* ones drawn, or none of them.
TypeOK ==
  /\ iterations \in Iterations
  /\ drawn \in 1 .. MaxDrawn
  /\ decoy = derive(Empty, 1, iterations)
  /\ \A user \in User : \A verifier \in verifiers[user] :
       /\ verifiers[user] = {verifier}
       /\ verifier.iterations \in Iterations
       /\ verifier.salt \in {Elsewhere} \union 2 .. drawn
  /\ DOMAIN ha1 = Slot
  /\ enrolled \in [User -> {{}} \union {{password} : password \in Password}]

\* The store as a book: passwords that are one HMAC key verify alike.
Alike == [p \in Password |-> {q \in Password : HmacKey[q] = HmacKey[p]}]
Book == INSTANCE PasswordBook
          WITH book <- [user \in User |-> {p \in Password : verify(user, p)}]

\* "A second enrollment of the same name replaces the first", an unknown
\* name verifies with nothing (the decoy's own password included), and an
\* enrollment, an HA1 or another user's password never changes what a user
\* verifies with: the store, seen through verify, is a PasswordBook. Every
\* enrollment takes effect at once, whichever way it was made.
StoreIsABook == Book!Spec

\* A user verifies by SCRAM with exactly the passwords the same user verifies
\* with by password: the client derives its key from the salt and the count
\* the store sends it, and Verifier::proves agrees with matches whichever
\* store the verifier was derived by.
ScramAgreesWithPassword ==
  \A user \in User : \A verifier \in verifiers[user] :
    \A password \in Password :
      proves(verifier,
             client_key(password, verifier.salt, verifier.iterations))
        <=> verify(user, password)

\* Everything the store holds: the two keys of each entry and of the decoy,
\* and each HA1, as it is spelled and as what it spells.
Kept == {decoy} \union UNION {verifiers[user] : user \in User}
Held == UNION ({{v.stored_key, v.server_key} : v \in Kept}
                 \union {{text, text.hex} : text \in UNION {ha1[slot] : slot \in Slot}})

\* "Whoever reads the store can ... impersonate nobody" by SCRAM: no value it
\* holds, for any user or realm, and nothing one more hash or HMAC makes of
\* it, is a client key any entry accepts. Of Digest this says nothing: an
\* HA1 is all that Digest asks of a user in the realm it is kept for.
NothingHeldIsAClientKey ==
  \A user \in User : \A verifier \in verifiers[user] : \A value \in Held :
    /\ ~proves(verifier, value)
    /\ ~proves(verifier, sha256(value))
    /\ \A label \in {"Client Key", "Server Key"} :
         ~proves(verifier, hmac_sha256(value, label))

\* An HA1 is of the user, realm and algorithm it is kept under, and is
\* spelled as Digest compares it, however it was entered.
Ha1IsItsSlots ==
  \A user \in User, realm \in Realm, algorithm \in {MD5, SHA_256} :
    \A text \in ha1[<<user, realm, algorithm>>] : \E password \in Password :
      text = hex(IF algorithm = SHA_256
                   THEN sha256(A1(user, realm, password))
                   ELSE [md5 |-> A1(user, realm, password)])

-----------------------------------------------------------------------------
(* What the documentation of store.rs says, and the code does not do.      *)

\* verify: "Takes the same time for an unknown name as for a wrong password,
\* so the store does not say which names it knows."
UnknownCostsTheSame ==
  \A known, unknown \in User :
    verifiers[known] # {} /\ verifiers[unknown] = {}
      => Cost(known) = Cost(unknown)
=============================================================================
