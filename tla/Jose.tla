-------------------------------- MODULE Jose --------------------------------
(***************************************************************************)
(* src/.src/jose.rs: the keys a JWS is verified with. A set is             *)
(* configuration: keys handed over one by one, or a JSON Web Key Set an    *)
(* issuer published, which an operator loads again when the issuer rotates *)
(* its keys. Between two loads the tokens of every key there ever was      *)
(* arrive.                                                                 *)
(*                                                                         *)
(* A key is its bytes, and a signature is who made it over what: the same  *)
(* bytes may be a published RSA key and, to somebody, a shared secret.     *)
(***************************************************************************)
EXTENDS Naturals, Sequences, SequencesExt, Options

CONSTANTS
  Kid,       \* key identifiers
  Bytes,     \* the bytes of keys
  Input,     \* what is signed
  Entry,     \* the entries of the documents an operator may load
  MaxKeys    \* bound on the keys of a set and the entries of a document

ASSUME JoseAssumption ==
  /\ MaxKeys \in Nat
  /\ Entry \subseteq [enc : BOOLEAN, kid : Option(Kid),
                      kty : {"RSA", "P-256", "other"},
                      bytes : Bytes, usable : BOOLEAN]

VARIABLES
  document,   \* history: the document the keys were read from, if they were
  keys        \* KeySet.keys

vars == <<document, keys>>

UpTo(S) == UNION {[1 .. n -> S] : n \in 0 .. MaxKeys}

-----------------------------------------------------------------------------
(* Algorithm and Key.                                                      *)

Algorithm == {"Hs256", "Rs256", "Es256"}

\* The names of alg headers; any but these three names no algorithm.
named(name) ==
  CASE name = "HS256" -> {"Hs256"}
    [] name = "RS256" -> {"Rs256"}
    [] name = "ES256" -> {"Es256"}
    [] OTHER -> {}

Material == [kind : {"Secret", "Rsa", "P256"}, bytes : Bytes]
Key == [id : Option(Kid), material : Material]

rsa_components(id, bytes) ==
  [id |-> id, material |-> [kind |-> "Rsa", bytes |-> bytes]]
p256_point(id, bytes) ==
  [id |-> id, material |-> [kind |-> "P256", bytes |-> bytes]]

algorithm(key) ==
  CASE key.material.kind = "Secret" -> "Hs256"
    [] key.material.kind = "Rsa"    -> "Rs256"
    [] key.material.kind = "P256"   -> "Es256"

\* Faulty variant: what the bytes are a key of is not looked at.
holdsAsBytes(key, input, signature) ==
  signature.over = input /\ signature.by.bytes = key.material.bytes

holds(key, input, signature) ==
  signature.over = input /\ signature.by = key.material

-----------------------------------------------------------------------------
(* KeySet.                                                                 *)

\* Faulty variant: a key is read whatever its use.
ReadWhateverItsUse(entry) == entry.kty # "other"

\* An entry from_jwks makes a key of.
Read(entry) == ~entry.enc /\ entry.kty # "other"

KeyOf(entry) ==
  IF entry.kty = "RSA" THEN rsa_components(entry.kid, entry.bytes)
                       ELSE p256_point(entry.kid, entry.bytes)

\* Faulty variant: an unusable key is passed over.
TurnPassingOver(so_far, entry) ==
  IF ~Read(entry) \/ ~entry.usable THEN so_far
  ELSE {Append(set, KeyOf(entry)) : set \in so_far}

\* One turn of the loop over the entries, from the keys pushed so far: a key
\* of a type that is read and that is malformed ends it with an error, {}.
Turn(so_far, entry) ==
  IF ~Read(entry) THEN so_far
  ELSE {Append(set, KeyOf(entry)) : set \in {set \in so_far : entry.usable}}

\* Faulty variant: a set with nothing in it is a set.
from_jwksOfNothing(listed) ==
  LET pushed[n \in 0 .. Len(listed)] ==
        IF n = 0 THEN {<<>>} ELSE Turn(pushed[n - 1], listed[n])
  IN  pushed[Len(listed)]

\* The set a document makes, {} where it is refused: an entry ended the loop,
\* or no key was pushed.
from_jwks(listed) ==
  LET pushed[n \in 0 .. Len(listed)] ==
        IF n = 0 THEN {<<>>} ELSE Turn(pushed[n - 1], listed[n])
  IN  {set \in pushed[Len(listed)] : set # <<>>}

\* keys.iter().find(..): the first key of an id.
FirstWith(set, id) ==
  {set[i] : i \in {i \in DOMAIN set :
     /\ set[i].id = {id}
     /\ \A j \in DOMAIN set : j < i => set[j].id # {id}}}

\* Faulty variants: a named key is not asked what it serves; where no key is
\* named, only the first of the algorithm is tried.
candidatesOfAnyAlgorithm(set, alg, key_id) ==
  IF key_id = {} THEN {key \in ToSet(set) : algorithm(key) = alg}
  ELSE UNION {FirstWith(set, id) : id \in key_id}
candidatesTheFirst(set, alg, key_id) ==
  IF key_id = {}
    THEN {set[i] : i \in {i \in DOMAIN set :
            /\ algorithm(set[i]) = alg
            /\ \A j \in DOMAIN set : j < i => algorithm(set[j]) # alg}}
    ELSE {key \in UNION {FirstWith(set, id) : id \in key_id} :
            algorithm(key) = alg}

candidates(set, alg, key_id) ==
  {key \in IF key_id = {} THEN ToSet(set)
           ELSE UNION {FirstWith(set, id) : id \in key_id} :
     algorithm(key) = alg}

verify(set, alg, key_id, input, signature) ==
  \E key \in candidates(set, alg, key_id) : holds(key, input, signature)

-----------------------------------------------------------------------------
Init ==
  /\ document = {}
  /\ keys \in UpTo(Key)

\* A document that is refused makes no set: the node holds what it held.
Load(listed) ==
  \E set \in from_jwks(listed) :
    /\ document' = {listed}
    /\ keys' = set

Next == \E listed \in UpTo(Entry) : Load(listed)

Spec == Init /\ [][Next]_vars

-----------------------------------------------------------------------------
(* Properties.                                                             *)

\* "A useless set is refused when it is loaded."
TypeOK ==
  /\ document \in Option(UpTo(Entry))
  /\ keys \in UpTo(Key)
  /\ document # {} => keys # <<>>

\* What a token says of itself, and its signature: made by whoever holds
\* some bytes, as any kind of key, over what it carries or something else.
Token == [alg : {"HS256", "RS256", "ES256", "none"}, kid : Option(Kid),
          input : Input, signature : [by : Material, over : Input]]

Accepts(set, token) ==
  \E alg \in named(token.alg) :
    verify(set, alg, token.kid, token.input, token.signature)

\* An accepted token was signed, over what it carries, by a key the node
\* holds for the algorithm the token names, and under the name the token
\* names it by: published bytes are nobody's shared secret.
AcceptedIsSigned ==
  \A token \in Token : Accepts(keys, token) =>
    \E key \in ToSet(keys) :
      /\ token.signature = [by |-> key.material, over |-> token.input]
      /\ named(token.alg) = {algorithm(key)}
      /\ token.kid # {} => key.id = token.kid

\* "... with the key the token names, which must serve `algorithm`, or, where
\* it names none, with every key of the algorithm until one holds": leaving
\* the name out never turns an accepted token away.
NamingAKeyOnlyNarrows ==
  \A token \in Token :
    Accepts(keys, token) => Accepts(keys, [token EXCEPT !.kid = {}])

\* Where no two keys share an identifier, the order of the keys decides
\* nothing: a token is accepted exactly if some key of the set signed it.
OrderDecidesNothing ==
  (\A i, j \in DOMAIN keys : keys[i].id = keys[j].id /\ keys[i].id # {} => i = j)
    => \A token \in Token :
         Accepts(keys, token) <=>
           \E key \in ToSet(keys) :
             /\ token.signature = [by |-> key.material, over |-> token.input]
             /\ named(token.alg) = {algorithm(key)}
             /\ token.kid \in {{}, key.id}

\* The entries of a document that publish the key a signature was made with.
Publishes(listed, by) ==
  {i \in DOMAIN listed :
     /\ ~listed[i].enc
     /\ <<listed[i].kty, by.kind>> \in {<<"RSA", "Rsa">>, <<"P-256", "P256">>}
     /\ listed[i].bytes = by.bytes}

\* A document that loads is the whole truth. A key it does not publish for
\* signing (withdrawn, or published for encryption) verifies nothing from
\* then on, and neither does a secret, those of the earlier set included ...
WithdrawnKeyIsRefused ==
  \A listed \in document : \A token \in Token :
    Publishes(listed, token.signature.by) = {} => ~Accepts(keys, token)

\* ... and a key it publishes under an identifier of its own verifies its
\* tokens at once, so that a rotation through a document that lists the old
\* key and the new one turns no token of either away. A key that cannot be
\* read is never left out in silence.
RotationLeavesNoGap ==
  \A listed \in document : \A token \in Token :
    \A i \in Publishes(listed, token.signature.by) :
      /\ token.signature.over = token.input
      /\ token.alg = IF token.signature.by.kind = "Rsa" THEN "RS256" ELSE "ES256"
      /\ token.kid \in {{}, listed[i].kid}
      /\ \A j \in DOMAIN listed :
           ~listed[j].enc /\ listed[j].kty # "other" /\ listed[j].kid = listed[i].kid
             => j = i
      => Accepts(keys, token)
=============================================================================
