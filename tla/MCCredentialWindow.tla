------------------------- MODULE MCCredentialWindow -------------------------
(* A type six values wide: every sum of an instant and a leeway that        *)
(* saturates at either end, and every window over it, is reached.           *)
EXTENDS CredentialWindow

MCMinInstant == -3
MCMaxInstant == 2
=============================================================================
