--------------------------- MODULE MCSecretStore ---------------------------
(* Two secrets issued to two names, three times over: the same secret held  *)
(* twice with two expiries, or under two names, is among the cases.         *)
EXTENDS SecretStore

MCMinInstant == -1
=============================================================================
