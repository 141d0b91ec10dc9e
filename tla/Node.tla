-------------------------------- MODULE Node --------------------------------
(***************************************************************************)
(* The node around the gate: the Receive Location's Acceptance, grown by   *)
(* the builder methods of src/.src/lib.rs, the modules the node links and  *)
(* the Party registry. The last two live outside the repository: the gate  *)
(* only reads a slice of modules in order and calls resolve.               *)
(*                                                                         *)
(* The registry is behind a shared reference and may change while a call   *)
(* is in flight. An Acceptance and a slice are borrowed for a whole call:  *)
(* a change here makes the value later calls are made with.                *)
(***************************************************************************)
EXTENDS Acceptance

CONSTANTS
  RegistryKey,   \* the keys the registry may come to hold
  MaxLinked      \* bound on the modules linked

ASSUME NodeAssumption ==
  /\ RegistryKey \subseteq Key
  /\ MaxLinked \in Nat

VARIABLES
  location,         \* the Acceptance of the Receive Location
  authenticators,   \* the modules the node links, in order
  registry          \* the Party registry

node == <<location, authenticators, registry>>

NodeTypeOK ==
  /\ location \in Declared
  /\ authenticators \in Seq(Authenticator)
  /\ Len(authenticators) <= MaxLinked
  /\ registry \in [RegistryKey -> Option(Party)]

NodeInit ==
  /\ location = closed
  /\ authenticators = <<>>
  /\ registry = [key \in RegistryKey |-> {}]

Accept(mechanism) ==
  /\ location' = accepting(location, mechanism)
  /\ UNCHANGED <<authenticators, registry>>

FromParty(party) ==
  /\ location' = from_party(location, party)
  /\ UNCHANGED <<authenticators, registry>>

Link(module) ==
  /\ Len(authenticators) < MaxLinked
  /\ authenticators' = Append(authenticators, module)
  /\ UNCHANGED <<location, registry>>

Associate(key, party) ==
  /\ registry' = [registry EXCEPT ![key] = party]
  /\ UNCHANGED <<location, authenticators>>

Configure ==
  \/ \E mechanism \in Name : Accept(mechanism)
  \/ \E party \in Party : FromParty(party)
  \/ \E module \in Authenticator : Link(module)
  \/ \E key \in RegistryKey, party \in Option(Party) : Associate(key, party)

=============================================================================
