---------------------------- MODULE AltSignature ----------------------------
(***************************************************************************)
(* src/.src/x509/alt.rs and der.rs: the alternative signatures of hybrid   *)
(* certificates, verified along a path the classical walk proved.          *)
(*                                                                         *)
(* A certificate is a record. Its classical signature is the key that made *)
(* it (signed_by). alt_key, alt_algorithm and alt_value are the values of  *)
(* the three extensions, in sequences because a certificate may hold one   *)
(* twice. An alternative key has a parameter set; an alternative signature *)
(* is how its BIT STRING reads, the key that made it and what it is over.  *)
(***************************************************************************)
EXTENDS Naturals, Sequences, SequencesExt, Options

Hybrid == {"Ignored", "WherePresent", "Required"}
MlDsa  == {"ML-DSA-44", "ML-DSA-65", "ML-DSA-87"}

\* Faulty variant: the alternative signature is left where it is.
pre_tbsWhole(c) == c

\* What the alternative signature covers: not the field that names the
\* classical algorithm, not the classical signature, which is outside the
\* tbsCertificate, and not itself.
pre_tbs(c) == [field \in DOMAIN c \ {"signed_by", "alt_value"} |-> c[field]]

\* MlDsa::named: the set an algorithm identifier is of, where this build
\* verifies it.
named(algorithm) == {algorithm} \intersect MlDsa

\* Faulty variant: one extension without the other is no signature.
carriedWhereComplete(c) ==
  {[public_key |-> ToSet(c.alt_key), signature |-> signature] : signature \in
     IF c.alt_algorithm = <<>> \/ c.alt_value = <<>> THEN {{}}
     ELSE {{[algorithm |-> algorithm, value |-> value]} :
             algorithm \in named(c.alt_algorithm[1]), value \in ToSet(c.alt_value)}}

\* carried, a Result: each extension at most once, algorithm and value
\* together or not at all, an algorithm that is named, a BIT STRING of whole
\* bytes.
carried(c) ==
  {[public_key |-> ToSet(c.alt_key), signature |-> signature] : signature \in
     IF \/ ~c.reads
        \/ \E occurrences \in {Len(c.alt_key), Len(c.alt_algorithm),
                              Len(c.alt_value)} : occurrences > 1
       THEN {}
     ELSE IF c.alt_algorithm = <<>> /\ c.alt_value = <<>> THEN {{}}
     ELSE {{[algorithm |-> algorithm, value |-> value]} :
             algorithm \in UNION {named(a) : a \in ToSet(c.alt_algorithm)},
             value \in {v \in ToSet(c.alt_value) : v.bits = "whole"}}}

\* UnparsedPublicKey::verify with the verifier of the algorithm named.
Verifies(signature, public_key, signed) ==
  /\ public_key.set = signature.algorithm
  /\ signature.value.by = public_key
  /\ signature.value.over = signed

\* The certificate above, and the anchor's above is the anchor.
issuer_of(path, index) == path[Min({index + 1, Len(path)})]

\* Faulty variant: the guard that requires a signature is the wrong way round.
verify_altReversed(path, hybrid) ==
  \/ hybrid = "Ignored"
  \/ \A i \in DOMAIN path : \E own \in carried(path[i]),
                               issuer \in carried(issuer_of(path, i)) :
       \/ own.signature = {} /\ hybrid # "WherePresent"
       \/ \E signature \in own.signature, public_key \in issuer.public_key :
            Verifies(signature, public_key, pre_tbs(path[i]))

\* Every certificate is read, then each is verified by the one above.
verify_alt(path, hybrid) ==
  \/ hybrid = "Ignored"
  \/ \A i \in DOMAIN path : \E own \in carried(path[i]),
                               issuer \in carried(issuer_of(path, i)) :
       \/ own.signature = {} /\ hybrid # "Required"
       \/ \E signature \in own.signature, public_key \in issuer.public_key :
            Verifies(signature, public_key, pre_tbs(path[i]))

=============================================================================
