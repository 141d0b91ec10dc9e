---------------------------- MODULE GatePromise ----------------------------
(***************************************************************************)
(* What src/.src/lib.rs promises a caller of authenticate, without saying  *)
(* how: a call is made with what the node declares and links at that       *)
(* moment, and at one later moment it is answered, in one of the ways that *)
(* Promised allows for the registry of the moment of the answer.           *)
(*                                                                         *)
(* Promised is written as conditions on a result, from the documentation   *)
(* of Acceptance, Refusal, PartyRegistry and authenticate; Gate computes   *)
(* one step by step.                                                       *)
(***************************************************************************)
EXTENDS Node

CONSTANTS
  Arrival,   \* calls of authenticate
  Claim      \* what an arrival may present

VARIABLES
  presented,    \* per arrival, the claim of the first gate
  acceptance,   \* per arrival, the Acceptance it was called with
  modules,      \* per arrival, the modules it was called with
  called,       \* the arrivals authenticate was called for
  outcome       \* per arrival, what it answered, or Pending

calls == <<presented, acceptance, modules, called, outcome>>
vars  == <<node, calls>>

Init ==
  /\ NodeInit
  /\ presented \in [Arrival -> Claim]
  /\ acceptance = [a \in Arrival |-> closed]
  /\ modules = [a \in Arrival |-> <<>>]
  /\ called = {}
  /\ outcome = [a \in Arrival |-> Pending]

-----------------------------------------------------------------------------
(* The promise.                                                            *)

\* What the first module that serves the claim's mechanism may answer; no
\* answer at all where none serves it.
Answers(mods, claim) ==
  LET Serving == {i \in DOMAIN mods : mods[i].mechanism = claim.mechanism}
  IN  UNION {conclude(mods[i], claim) :
               i \in {i \in Serving : \A j \in Serving : i <= j}}

Stands(c) == c.verified # "refused"

Bound(reg, claim) == resolve(reg, claim.mechanism, "receive", claim.value)

\* A name of evidence reads as the module learned it where it learned it,
\* otherwise as it was claimed, and nothing else is read.
EvidenceHonest(claim, c, id) ==
  /\ DOMAIN id.evidence = EvidenceName
  /\ \A name \in EvidenceName :
       id.evidence[name] = IF c.learned[name] # <<>> THEN c.learned[name]
                                                     ELSE claim.evidence[name]

\* An identity is the claim, at the strength the module concluded, of the
\* Party the registry binds it to for receiving; and where the location
\* names Parties, it is of one of them.
PromisedIdentity(acc, mods, reg, claim, id) ==
  /\ claim.mechanism \in acc.mechanisms
  /\ id.mechanism = claim.mechanism
  /\ id.value = claim.value
  /\ id.established = claim.established
  /\ id.party = Bound(reg, claim)
  /\ acc.parties # {} => \E party \in acc.parties : id.party = {party}
  /\ \E answer \in Answers(mods, claim) : \E c \in answer :
       Stands(c) /\ id.verified = c.verified /\ EvidenceHonest(claim, c, id)

\* A refusal names the first thing in the caller's way, truly.
PromisedRefusal(acc, mods, reg, claim, r) ==
  LET Undeclared == claim.mechanism \notin acc.mechanisms
      Unproven   == \E answer \in Answers(mods, claim) :
                      \A c \in answer : ~Stands(c)
      Verified_  == \E answer \in Answers(mods, claim) :
                      \E c \in answer : Stands(c)
  IN  \/ /\ r = [refusal |-> "LocationAcceptsNothing"]
         /\ acc.mechanisms = {}
      \/ /\ r = [refusal |-> "MechanismNotDeclared",
                 mechanism |-> claim.mechanism]
         /\ acc.mechanisms # {} /\ Undeclared
      \/ /\ r = [refusal |-> "NoAuthenticator", mechanism |-> claim.mechanism]
         /\ ~Undeclared
         /\ \A i \in DOMAIN mods : mods[i].mechanism # claim.mechanism
      \/ /\ r = [refusal |-> "NotProven", mechanism |-> claim.mechanism]
         /\ ~Undeclared /\ Unproven
      \/ /\ r = [refusal |-> "NoParty", mechanism |-> claim.mechanism]
         /\ ~Undeclared /\ Verified_
         /\ acc.parties # {} /\ Bound(reg, claim) = {}
      \/ \E party \in Party \ acc.parties :
           /\ r = [refusal |-> "PartyNotPermitted", party |-> party]
           /\ ~Undeclared /\ Verified_
           /\ acc.parties # {} /\ Bound(reg, claim) = {party}

Promised(acc, mods, reg, claim, result) ==
  \/ /\ result.err = {}
     /\ \E id \in result.ok :
          /\ result.ok = {id}
          /\ PromisedIdentity(acc, mods, reg, claim, id)
  \/ /\ result.ok = {}
     /\ \E r \in result.err :
          /\ result.err = {r}
          /\ PromisedRefusal(acc, mods, reg, claim, r)

-----------------------------------------------------------------------------
Call(a) ==
  /\ a \notin called
  /\ called' = called \union {a}
  /\ acceptance' = [acceptance EXCEPT ![a] = location]
  /\ modules' = [modules EXCEPT ![a] = authenticators]
  /\ UNCHANGED <<presented, outcome, node>>

Decide(a) ==
  /\ a \in called
  /\ outcome[a] = Pending
  /\ Promised(acceptance[a], modules[a], registry, presented[a], outcome'[a])
  /\ \A b \in Arrival \ {a} : outcome'[b] = outcome[b]
  /\ UNCHANGED <<presented, acceptance, modules, called, node>>

Next ==
  \/ Configure /\ UNCHANGED calls
  \/ \E a \in Arrival : Call(a) \/ Decide(a)

Spec == Init /\ [][Next]_vars

=============================================================================
