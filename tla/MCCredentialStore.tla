------------------------- MODULE MCCredentialStore -------------------------
(* Two users; the empty password, two that HMAC cannot tell apart (one ends *)
(* in a NUL character), and iteration counts either side of the clamp.      *)
EXTENDS CredentialStore, TLC

MCPassword == {"", "pencil", "pencil-NUL"}
MCHmacKey == [p \in MCPassword |-> IF p = "pencil-NUL" THEN "pencil" ELSE p]

Symmetry == Permutations(User)
=============================================================================
