------------------------------- MODULE MCJose -------------------------------
(* Sets and documents of up to two keys: two keys under one identifier, the *)
(* same bytes as two kinds of key, a key for encryption, one of another     *)
(* type and one that is malformed are among the cases.                      *)
EXTENDS Jose

MCEntry == [enc : BOOLEAN, kid : Option(Kid), kty : {"RSA", "P-256", "other"},
            bytes : Bytes, usable : BOOLEAN]
=============================================================================
