----------------------------- MODULE Acceptance -----------------------------
(***************************************************************************)
(* What the authentication gate of src/.src/lib.rs is called with and what *)
(* it answers: the Acceptance a Receive Location declares, the modules     *)
(* that implement mechanisms, the Party registry, and the identity or the  *)
(* Refusal that comes out.                                                 *)
(*                                                                         *)
(* The two vectors of an Acceptance are only ever asked whether they are   *)
(* empty and whether they contain a value, so they are sets.               *)
(***************************************************************************)
EXTENDS Verifiers

CONSTANTS
  Party,             \* party identifiers
  TechnologyName,    \* mechanisms implemented by technology modules
  PasswordName,      \* mechanisms whose module verifies a user's password
  TechnologyAnswers  \* what such a module may conclude: {} is its error

ASSUME AcceptanceAssumption ==
  /\ TechnologyName \subseteq Name
  /\ PasswordName \subseteq Name
  /\ TechnologyAnswers \subseteq Option(Conclusion)

-----------------------------------------------------------------------------
(* Acceptance.                                                             *)

Declared == [mechanisms : SUBSET Name, parties : SUBSET Party]

closed == [mechanisms |-> {}, parties |-> {}]

accepting(acceptance, mechanism) ==
  [acceptance EXCEPT !.mechanisms = @ \union {mechanism}]

from_party(acceptance, party) ==
  [acceptance EXCEPT !.parties = @ \union {party}]

\* Faulty variant: a location naming no Party takes none, and one naming a
\* Party takes them all.
permitsReversed(acceptance, party) ==
  acceptance.parties # {} \/ party \in acceptance.parties

names_parties(acceptance) == acceptance.parties # {}
declares(acceptance, mechanism) == mechanism \in acceptance.mechanisms
permits(acceptance, party) ==
  acceptance.parties = {} \/ party \in acceptance.parties
is_closed(acceptance) == acceptance.mechanisms = {}

-----------------------------------------------------------------------------
(* Authenticator. The four a node always carries answer deterministically. *)
(* A technology, which is its own repository, may conclude anything; one   *)
(* that verifies a user's password asks account.rs first, and what its     *)
(* credentials then say is either.                                         *)

BuiltIn ==
  {[mechanism |-> "broker",           verify |-> "Broker"],
   [mechanism |-> "circumstance",     verify |-> "Circumstance"],
   [mechanism |-> "mutual-tls",       verify |-> "Handshake"],
   [mechanism |-> "peer-credentials", verify |-> "PeerCredentials"]}

Technology == [mechanism : TechnologyName, verify : {"Technology"}]

PasswordVerifier == [mechanism : PasswordName, verify : {"Password"}]

Authenticator ==
  {m \in BuiltIn : m.mechanism \in Name} \union Technology
                                         \union PasswordVerifier

\* The claim is one the verifier reads, and its evidence names no other
\* account than the one it presents.
ReadsAsOneAccount(module, presented) ==
  /\ user_claim(presented, module.mechanism)
  /\ \A read \in AccountOf[presented.value] : same_account(presented, read)

verify(module, presented) ==
  CASE module.verify = "Broker"          -> Broker(presented)
    [] module.verify = "Circumstance"    -> Circumstance(presented)
    [] module.verify = "Handshake"       -> Handshake(presented)
    [] module.verify = "PeerCredentials" -> PeerCredentials(presented)

\* The set of results conclude may return, each the Option of a conclusion.
\* A built-in keeps the default: its verdict, and nothing learned.
conclude(module, presented) ==
  IF module.verify = "Technology" THEN TechnologyAnswers
  ELSE IF module.verify = "Password"
    THEN IF ReadsAsOneAccount(module, presented)
           THEN {{proven}, {of("refused")}} ELSE {{}}
  ELSE {{of(v) : v \in verify(module, presented)}}

\* Faulty variants: the last module of a name, and any module at all.
findLast(modules, mechanism) ==
  {modules[i] : i \in {i \in DOMAIN modules :
     /\ modules[i].mechanism = mechanism
     /\ \A j \in DOMAIN modules : j > i => modules[j].mechanism # mechanism}}
findAny(modules, mechanism) ==
  {modules[i] : i \in {i \in DOMAIN modules : i = 1}}

\* authenticators.iter().find(..): the first that serves the mechanism.
find(modules, mechanism) ==
  {modules[i] : i \in {i \in DOMAIN modules :
     /\ modules[i].mechanism = mechanism
     /\ \A j \in DOMAIN modules : j < i => modules[j].mechanism # mechanism}}

-----------------------------------------------------------------------------
(* PartyRegistry.                                                          *)

Purpose == {"receive", "send"}
Key == Name \X Purpose \X Text

\* The registry holds bindings for some keys and knows nothing of the rest.
resolve(registry, mechanism, purpose, value) ==
  IF <<mechanism, purpose, value>> \in DOMAIN registry
    THEN registry[<<mechanism, purpose, value>>] ELSE {}

-----------------------------------------------------------------------------
(* What comes out: AuthenticatedIdentity or Refusal.                       *)

Refusal ==
       [refusal : {"LocationAcceptsNothing"}]
\union [refusal : {"MechanismNotDeclared", "NoAuthenticator", "NotProven",
                   "NoParty"},
        mechanism : Name]
\union [refusal : {"PartyNotPermitted"}, party : Party]

Identity ==
  [mechanism   : Name,
   value       : Text,
   established : Established,
   verified    : Verified \ {"refused"},
   evidence    : Pairs,
   party       : Option(Party)]

\* A Result, and the one that is still to come.
Result  == [ok : Option(Identity), err : Option(Refusal)]
Pending == [ok |-> {}, err |-> {}]
Ok(identity) == [ok |-> {identity}, err |-> {}]
Err(refusal) == [ok |-> {}, err |-> {refusal}]

\* Faulty variant: what was learned is put beside what was claimed.
untaughtAlways(claimed, taught, name) == claimed[name]

\* The claimed values of a name that the filter lets through: all of them
\* unless verifying taught that name.
untaught(claimed, taught, name) ==
  IF taught[name] = <<>> THEN claimed[name] ELSE <<>>

\* The evidence of an identity: what was claimed and not taught, then what
\* verifying taught.
merged(claimed, taught) ==
  [name \in EvidenceName |-> untaught(claimed, taught, name) \o taught[name]]

identity_of(presented, conclusion, party) ==
  [mechanism   |-> presented.mechanism,
   value       |-> presented.value,
   established |-> presented.established,
   verified    |-> conclusion.verified,
   evidence    |-> merged(presented.evidence, conclusion.learned),
   party       |-> party]

=============================================================================
