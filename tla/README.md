# Verification of xmip-core-authenticate

TLA+ models of the authentication gate of XMIP (`src/.src`), the TLC runs that
check them on small instances, and TLAPS proofs of what matters most for every
instance. A model keeps the control of the code (each guard, early return and
assignment, in order) and abstracts its data to what the properties tell apart.
`PROJECT.json` maps every definition to the lines it models.

## The system

A message that arrives at a Receive Location passes three gates. The first
(another repository) says what the arrival *presents*: a mechanism, a value,
how it was established, proofs and evidence. The second, this repository,
*authenticates* it: it decides whether what is presented holds and whose it is.

| part | source | state | operations | interaction |
|---|---|---|---|---|
| the gate | `lib.rs` | none of its own; `Acceptance` per location | `Acceptance::{closed, accepting, from_party, declares, permits, names_parties}`, `authenticate` | borrows an Acceptance and a slice of modules for the call, calls one module's `conclude`, then the registry's `resolve` |
| conclusion | `conclusion.rs` | verdict and learned pairs | `of`, `proven`, `learning` | made by modules, read by the gate |
| built-in verifiers | `broker.rs`, `circumstance.rs`, `handshake.rs`, `peer_credentials.rs` | none | `verify` | modules of the gate |
| account rules | `account.rs` | none | `user_claim`, `evidenced`, `same_account` | asked by verifiers of passwords |
| clock | `clock.rs` | a reading and a leeway | `leeway`, `now`, `admits`; `Window` | asked by every verifier of something that expires |
| secret store | `secret.rs` | a list of hashed secrets | `insert*`, `holding*` | read by api-key and bearer; with the clock |
| credential store | `store.rs` | verifiers, HA1s, a decoy, an iteration count | `insert`, `insert_verifier`, `insert_ha1`, `verify`, `matches`, `proves` | shared by basic, password, digest and scram |
| JOSE keys | `jose.rs` | a key set | `from_jwks`, `verify` | read by jwt, oauth2 and oidc |
| X.509 | `x509.rs`, `x509/{validity,revocation,alt,der}.rs` | anchors, lists, a proved path | `verify`, `not_after`, `verify_alt`, `is_hybrid`, `pre_tbs` | read by certificate and mutual-tls, calls webpki |
| X.509 mint | `x509/mint.rs`, `x509/mint/hybrid.rs` | an authority and its serial counter | `root`, `intermediate*`, `issue*`, `crl` | makes the certificates X.509 verifies |
| X.509 names | `x509/name.rs` | none | `names`, `subject_of`, `dns_names_of`, `user_principal_of` | read by certificate and mutual-tls |
| technologies | submodules, empty here | theirs | `Authenticator` | modules of the gate |

What is hard here is not threads of the crate's own, of which there are none,
but what its values meet: several calls of `authenticate` at once over shared
modules and one registry that changes meanwhile; answers that, compared, must
not tell an unverified caller what a node links or knows; keys, secrets and
certificates that are rotated and expire while credentials made with the old
ones still arrive; order and first-match rules (two modules of one name, two
keys of one `kid`, one secret held twice, two anchors with one key, two lists of
one issuer, two principal names in one certificate); and the
ends of `i64`. `PROJECT.json` lists each of these at its line under "hazards".

## The modules

| module | models | remarks |
|---|---|---|
| `Options` | `Option<T>` | a set of at most one element |
| `Clock` | `clock.rs` | the i64 range is `MinInstant .. MaxInstant`; sums saturate as the code's do |
| `CredentialWindow` | a verifier that holds a window and asks a clock | every instant, leeway and window; time may move either way |
| `Claims` | `conclusion.rs` and the presented claim | the claim is another repository's type, modelled from its use |
| `Verifiers` | the four built-ins, `account.rs` | each `verify` is an Option of a verdict; a text is a value, or blank |
| `Acceptance` | `Acceptance`, `Refusal`, `Identity`, `find`, `conclude`, `resolve` of `lib.rs` | a technology may conclude anything in `TechnologyAnswers` |
| `Node` | the configuration around the gate | location grown by builders, modules linked, registry re-associated |
| `Gate` | `authenticate`, for several calls at once | four steps, cut where the code hands control to a module or the registry |
| `GatePromise` | what `lib.rs` documents | one call, one answer, conditions on the result only |
| `SecretStore` | `secret.rs` with the clock | SHA-256 is injective |
| `CredentialStore` | `store.rs` | primitives are free constructors, but for HMAC's zero padding of keys |
| `PasswordBook` | what the store promises | the last enrollment, and which passwords each user verifies with |
| `Jose` | `jose.rs` | a signature is who made it (kind of key and bytes) over what |
| `Mint` | `x509/mint*.rs` | operators that make certificates and lists, and what a line of authorities is; serials are arguments |
| `AltSignature` | `x509/alt.rs`, `x509/der.rs` | DER is abstracted to the fields `pre_tbs` keeps or removes and to the three extensions, each as often as a certificate holds it |
| `Names` | `x509/name.rs` | how a text reads as a name, a user or a DNS name is a constant function; alternative names are a sequence of general names |
| `X509` | `x509.rs`, `x509/validity.rs`, `x509/revocation.rs` | the walk is webpki's, external: see below |
| `CredentialWindowProofs`, `GateProofs`, `SecretStoreProofs`, `CredentialStoreProofs`, `JoseProofs`, `X509Proofs`, `MintProofs` | | the theorems of each |
| `Least` | | what the proofs share of order: a least element, induction over the turns of a loop |
| `MC*` | | instances for TLC |

`Gate` is the composition: it extends `Node`, which extends `Acceptance`,
`Verifiers` and `Claims`; `Conclude` runs the very `verify` of the built-in that
is linked. `X509` composes `Mint`, `AltSignature` and `Names`: what is walked is
what an authority minted, or might have issued otherwise, and what is kept is the
claim its leaf names. `SecretStore` and `CredentialWindow`
share `Clock`.

**The gate's steps.** `Call` borrows location and modules. `Consult` is the two
early returns on the Acceptance and the search for a module. `Conclude` is the
call of the module and the two ways it refuses (an error, and `Refused` inside an
`Ok`). `Resolve` asks the registry, which may have changed since the call began,
and settles: Party permitted or not, none where Parties are named, or an
identity whose evidence is what was learned before what was claimed. A call
keeps the Acceptance and the modules it was made with, as Rust's borrows ensure;
the registry is a shared reference to a trait object and may change.

**External code.** webpki is modelled from how `x509.rs` calls it: a walk from the
leaf by name and signature through the certificates sent, each inside its window
(both ends inclusive), for the usage, CAs above the leaf, against the first list
of each certificate's issuer; an anchor is a name and a key and nothing else,
which is what `anchor_from_trusted_cert` returns; an intermediate that does not
read as a certificate is no issuer, while such an anchor, leaf or list refuses the
chain, as `x509.rs` has it. A path has at most `MAX_SUB_CA_COUNT` intermediates
(six in webpki, two in the runs, whatever it is in the proofs), and an authority's
certificate is refused as a leaf. Where several walks exist, the model may take any.
Not in the model are webpki's budgets (a hundred signatures verified, and so many
calls and name comparisons, in one search), path lengths and name constraints,
which the mint sets in no certificate: each can only refuse more, so what the model
says of a path that was taken stands, and `MintedIsTaken` is stated where names are
distinct and the search has one path to try.
`UserPrincipalName::parse`, `Name::parse`, `trim` and the folding of case are
constant functions of texts. That a technology asks `names` of the leaf it
verified is what `name.rs` says of the second gate.
`Tick` in `X509` lets go of a path past `not_after`, which is what
`validity.rs` tells its callers to do with it.

Definitions introduced by "Faulty variant" are plausible bugs of the definition
below them; nothing in a specification uses them. `PROJECT.json` pairs each with
the property that catches it.

## The runs

| run | instance | checks |
|---|---|---|
| `credential_window` | a four-second `i64`: every instant, leeway and window | saturation never shows; forward time never reopens; a greater leeway only widens |
| `gate` | two calls, two mechanisms, two Parties, up to two modules, a node that changes under them | what each call asked, heard and answered follows from its arguments; only the declared name's first module is asked; the registry hears only verified values; two answers compared tell an unverified caller nothing; naming Parties only narrows |
| `gate_promise` | one call, a technology and a built-in that share a name, evidence claimed and taught once or twice | the gate implements `GatePromise`; a later module takes over no name; every call is answered |
| `verifiers` | one call over claims that vary all a built-in reads | the sender decides whether, never how strongly, a claim is taken; one identity is one account |
| `secret_store` | up to three secrets, two texts, two names, every expiry | the fold is a first-match search; a rotation leaves no gap; an expired secret stays so |
| `credential_store` | two users, an empty and two padding-equal passwords, counts on both sides of the clamp, one realm | the store implements `PasswordBook`; SCRAM agrees with password; nothing held, HA1s included, is a client key; an HA1 is of its slot |
| `jose` | sets of up to two keys, every two-entry document, every token | no algorithm confusion; naming a key only narrows; order decides nothing; rotation without a gap; a withdrawn key refused |
| `x509` | two authorities with intermediates, classical, hybrid and mixed, and a stranger; a chain with one intermediate more than a walk takes; twenty-one other things a peer may send (out of order, incomplete, empty, unreadable, with a second leaf, an authority for a leaf, for another usage, with eight variations of the alternative signature, with four sets of alternative names); six anchor sets, seven list sets; nine claims; instants from before the epoch | what is kept, a fresh walk would prove; each certificate vouches for the one below; stricter policies take less; no trace of an alternative signature passes for none; silence is not a pass; what is listed is refused, intermediates too; a certificate with a principal name is one account's; what was minted is taken for what it was issued for and nothing else |

The bounds are the smallest at which each hazard occurs: two calls, because
every comparison is of two answers; two modules, for a shared name and a later
link; two keys of a set and two entries of a document, for an old key and a new
one, or a malformed one beside a good one; three secrets, for a rotation with a
copy under another name; four general names, for one that does not read, one
that does not parse, the one that counts and one after it; a chain of three, for
an intermediate that is neither the leaf's issuer nor the anchor's, and one of
four, past the limit on intermediates; a width of four instants, so that sums leave
the type at both ends with room between.

**Fairness.** Only `EveryCallIsAnswered` assumes any: weak fairness of `Consult`,
`Conclude` and `Resolve` of each call. `authenticate` has no loop and waits for
nothing but its module and the registry, so this says just that a thread in it is
scheduled and that they return. Nothing is assumed of `Call` or of the node.

### Where the code and its documentation part

Four runs expect a violation; each checks a sentence of the source.

* `credential_store_cost`: `store.rs` says verifying takes the same time for an
  unknown name as for a wrong password. A verifier that came from elsewhere with
  another iteration count takes another time than the decoy.
* `x509_window`: `x509.rs` says every certificate on a path is inside its window.
  The anchor's window is not looked at, since webpki's anchors have none.
* `x509_anchor`: a `Path` is said to end in the anchor it reached. The code looks
  it up again by key alone, so of two anchors with one key under two names it may
  be the other, whose alternative key and `notAfter` are then the ones used.
* `x509_lists`: `revocation.rs` says a certificate on any list is refused. webpki
  consults the first list of the certificate's issuer, so of an older and a newer
  list of one issuer the order of the configuration decides which one speaks.
  `ListedIsRefused` of the `x509` run is the sentence for lists of distinct issuers.

## The proofs

`CredentialWindowProofs`, for every width of the instants: the types; that
`admits` answers as exact integer arithmetic would; that with time moving forward
a credential goes from early to admitted to late and never back; that a greater
leeway admits at least as much. The argument is that clamping stays in the type
and is monotone, and that a clamped sum compares with a bound as the exact one
does (`EarlyIsExact`, `LateIsExact`), but where the bound is `i64::MIN` itself and
the leeway pushes towards it (`Distinguishable`): there a saturated sum equals the
bound the exact one lies below.

`GateProofs`, for any number of calls, modules, Parties, mechanisms and registry
keys and any technology:

* `TypeCorrect`, then `CallsAlwaysFollow`. `OnlyTheDeclaredNameIsAsked` and the
  others are not inductive: that the registry heard only a verified value needs
  to know that a call at `resolving` has a conclusion that stands and has looked
  up nothing; that two answers agree needs to know *why* each was given. The
  strengthening `TypeOK /\ CallsFollow` says, at each step, what a call has
  asked, heard and answered so far; `Explained` is the reason of each answer. `FollowStep`
  shows action by action that the call that moves still follows, the frame lemma
  `CallFrame` that the others do.
* From it, in one step each: `NoOtherModuleIsAsked`, `RegistryIsAskedLast`,
  `ModulesAreNotProbed`, `RegistryIsNotProbed`, `PartiesOnlyNarrow`.
* `StrengthIsNotClaimed` and `IdentitiesAreOneAccount` from the same invariant and
  from what the built-ins and the account rules compute: an identity comes from
  what its module concluded (`IdentityComesFrom`), and what a verifier makes of
  given proofs has one strength (`OneStrengthPerProofs`).
* `LinkingIsSafe`, an action property, from the definition of `find`: appending
  leaves the first module of a name first.
* `GateImplementsPromise`: `Call` maps to `Call`, `Consult`, `Conclude` and
  `Resolve` to `Decide` where they answer and to a stutter where they go on.

`SecretStoreProofs`, for any number of secrets and every expiry and leeway. The
heart is `FoldFinds`: the fold of `holding_where`, which never leaves off early,
ends with the earliest match of the list. After n turns it holds the earliest of
the first n (`TurnKeepsEarliest` is the turn). From it `FoldIsASearch`; that an
insertion hides nothing found before it, which is `RotationIsSeamless`; and
`ExpiryIsFinal`, since what is found is one secret, stays found, and is late at
every later instant.

`CredentialStoreProofs`, for any users, passwords, realms and iteration counts:

* The inductive invariant is `EntriesAreEnrolled`: every user is unknown, or locked
  (a verifier from elsewhere no password is behind), or has the entry derived from
  the password enrolled last; and the decoy is derived from the empty password under
  the first salt. No property is inductive without it: each is about what an entry
  accepts, and only the invariant says what it was made of.
* From it, and from the primitives being free but for HMAC's padding
  (`HashIsOfOne`, `HmacIsOfOne`, `MadeInOneWay`): `TypeCorrect`, `ScramIsPassword`.
* `Ha1StaysInItsSlot`, inductive given the slots the invariant fixes. It rests on what
  `htdigest` assumes of the operator: `insert_ha1` takes any text, and the model
  enters only lines that are of the user, realm and algorithm they are entered for.
* `ReadersProveNothing`, from both: `HeldForm` lists what a value the store holds may
  be, an HA1 included, and none of it is a client key or what one is made from. The
  sentence of `store.rs` it is about, that a reader can "impersonate nobody", is shown
  for SCRAM and not for Digest. An HA1 is all that Digest asks of a user (RFC 7616), so
  a reader of the store can answer for that user in the realm it is kept for; the
  Digest verifier is a technology outside this repository, and no run plays it.
* `StoreImplementsBook`: seen through `verify`, each enrollment, however it is made,
  is the book's replacement of one page, and everything else a stutter.

`JoseProofs`, for sets, documents and tokens of any size and kind:

* `LoadedIsPushed`: the keys the loop of `from_jwks` pushed in n turns are the keys
  of the entries it read, each of which was usable, and no other (`Pushed`).
* The inductive invariant adds to the types `KeysAreTheDocuments`: the keys held
  are the whole of what the last document makes. `WithdrawnIsRefused` and
  `RotationIsSeamless` need it, for they relate keys to a document read earlier.
* `NothingIsForged`, `NamesNarrow` and `OrderIsFree` follow from what `candidates`
  lets through (`CandidatesServe`) and never leaves out (`ItIsACandidate`).

`X509Proofs`, for any chains, anchors, lists and clock:

* The inductive invariant is `StillProves`: what is kept is what verifying the same
  chain for the same claim would keep now. It survives `Tick` because a walk that
  was made stands while its certificates do (`WalkLasts`) and `not_after` is no later
  than the end of any of them (`NotAfterIsLeast`, `PathLasts`).
* From it: `NothingOutlivesItsWalk`, `TypeCorrect`, `PathsVouch`,
  `NoForgeryIsIgnored` (with `CarriedReads`, what `carried` refuses of the
  extensions), `SilenceRefuses`, `RevokedIsRefused` and `CertificatesAreOneAccount`.
  `PolicyOnlyTightens` needs no state at all.
* webpki's walk is the external model described above; what the theorems say of
  paths rests on it.

`MintProofs`, for a line of authorities as long as webpki takes one (six intermediates,
`MAX_SUB_CA_COUNT` in the proof), classical and hybrid in any order, and a leaf issued
by the last of them: `WhatIsMintedIsTaken`. The other
theorems of X.509 are about a path that was found; this one has to find it.

* `SignIsFoundAgain`: what `hybrid::sign` signs in its first pass is what `pre_tbs`
  finds in the certificate of its second, because the second adds nothing but the
  field `pre_tbs` removes.
* `RootIsSound`, `IntermediateIsSound` and, by induction along the line,
  `LineIsSound`: each authority is vouched for by the one before it (`Sound`), has an
  alternative key exactly where its certificate is hybrid, and what is sent after its
  certificates is the line above it without the root. `MintedForm` and `PlacesHold`
  put the leaf below.
* `MintedWalk`: the chain as sent is one of the walks webpki may answer with, since
  fresh serials make it a permutation of its own certificates, its leaf is no
  authority and it is no longer than a walk may be. `MintedVerifiesAlt`:
  `verify_alt` takes the path. `MintedNames`: the leaf names exactly what it was
  issued for.

**Loops.** The provers cannot take the library's induction theorems, whose
predicate is a parameter. `Least` states induction with the set of the turns after
which an invariant holds (`EveryTurn`, from the existence of a least element), and
that every loop has a run (`LoopRuns`), so that a recursive function satisfies the
equation that defines it. The loops of `secret.rs` and `jose.rs` are therefore
written as recursive functions over the number of turns taken.

Assumptions: only the types of the constants, named with `ASSUME` in the module
that declares them. `InstantAssumption` orders the two ends of an `i64`;
`StoreAssumption` has room for the salt of the decoy every store draws;
`ClaimsAssumption` has `principal.user`, the name `account.rs` reads, among the
names of evidence; `WireAssumption` says that chains, anchors, lists, extensions
and alternative names come in sequences and that windows are of whole seconds and
end by `i64::MAX`, which with `X509Assumption` is no earlier than any instant;
`MintedAssumption` says that what is called minted is what the operators of `Mint`
make, under serials that differ along a chain, as `fresh_serial` draws them.

What is only model-checked: `EveryCallIsAnswered` (liveness is out of the prover's
reach) and the four violations.

## Not modelled

* The technologies (`api-key`, `basic`, ... `windows`): submodules whose
  directories are empty in this repository. The gate's model lets one conclude
  anything.
* The words of refusals (`Display`, `said`, the conversions of other crates'
  errors), PEM and base64 reading, fingerprints, `len` and `iter`.
* `fresh_serial`, one atomic `fetch_add` of the mint, which only tests use: serials
  are arguments.
* The colons `insert_sha256_ha1` joins a user, a realm and a password with: the
  model hashes the triple, which is what the joined text says of names that hold no
  colon, as Digest requires of them.
* The dates of a revocation list: the code reads none, and webpki's default ignores
  them.
* Anchors, lists and stores that change under a verifier: they are values a caller
  hands over or configuration read once (`store.rs`, `revocation.rs`), never written
  while a verifier reads them. The store behind a gate would therefore be a constant
  of a call and add nothing to the runs of either.

## The plan

Done in this order: the clock, the gate with its promise and proofs, the
verifiers, the stores, JOSE, X.509 with the mint, alternative signatures as the
extensions that carry them, and names.

The proofs followed the same order: every safety property of a passing run is now
a theorem.

What is left is to keep both in step with the code. A technology that becomes part
of the repository would be a module beside `Verifiers` and a case of the theorems
in `GateProofs`.
