------------------------------- MODULE Claims -------------------------------
(***************************************************************************)
(* The vocabulary the authentication gate is handed and answers in: a      *)
(* claim (identify::Presented), a verdict (context::Verified) and what an  *)
(* authenticator concluded (src/.src/conclusion.rs).                       *)
(*                                                                         *)
(* Text is abstract. What the code does to a text before it looks at it is *)
(* str::trim, and then it asks two things: is nothing left, and is what is *)
(* left the word `verified`. Blank and SaysVerified are the texts with     *)
(* either answer, in every spelling trim makes equal.                      *)
(***************************************************************************)
EXTENDS Naturals, Sequences, Options

CONSTANTS
  Name,           \* mechanism names
  Text,           \* claimed values, the words of proofs, evidence values
  Blank,          \* texts trim leaves nothing of
  SaysVerified,   \* texts trim leaves the word `verified` of
  EvidenceName,   \* names of evidence, "principal.user" among them
  ProofName       \* names of proofs a transport or the node writes

ASSUME ClaimsAssumption ==
  /\ Blank \subseteq Text
  /\ SaysVerified \subseteq Text
  /\ Blank \intersect SaysVerified = {}
  /\ "principal.user" \in EvidenceName

\* xcore::Established and context::Verified.
Established == {"passed", "detected", "inferred"}
Verified    == {"proven", "vouched", "claimed", "refused"}

\* Named pairs, by name: the values written under each, in their order. The
\* code keeps one vector and never reads the order of two different names.
Pairs == [EvidenceName -> Seq(Text)]
NoPairs == [name \in EvidenceName |-> <<>>]

\* The value a name reads as, an Option: the first where it was written twice.
First(values) == {values[i] : i \in {i \in DOMAIN values : i = 1}}

Presented ==
  [mechanism   : Name,
   value       : Text,
   established : Established,
   proofs      : [ProofName -> Option(Text)],
   evidence    : Pairs]

\* Presented::proof and Presented::evidence: the value under a name.
proof(presented, name) == presented.proofs[name]

evidence(presented, name) == First(presented.evidence[name])

-----------------------------------------------------------------------------
(* src/.src/conclusion.rs                                                  *)

Conclusion == [verified : Verified, learned : Pairs]

of(verified) == [verified |-> verified, learned |-> NoPairs]

proven == of("proven")

learning(conclusion, name, value) ==
  [conclusion EXCEPT !.learned = [@ EXCEPT ![name] = Append(@, value)]]

=============================================================================
