-------------------------------- MODULE Mint --------------------------------
(***************************************************************************)
(* src/.src/x509/mint.rs and mint/hybrid.rs: the authorities that issue    *)
(* the certificates tests verify. Every key is drawn with the certificate  *)
(* it is for and every serial is fresh, so a key is called by the serial   *)
(* of its certificate, an alternative key too. A distinguished name is     *)
(* called by its common name: all of them are of O=Party X.                *)
(***************************************************************************)
EXTENDS AltSignature

CONSTANTS
  DefaultNotBefore,   \* the window rcgen gives a certificate that is given
  DefaultNotAfter     \* none

\* rcgen: a certificate of a common name, with these DNS names, and nothing
\* else but the defaults; signed by itself until another signs it.
CertificateParams(common_name, serial, dns) ==
  [subject |-> common_name, serial |-> serial, is_ca |-> FALSE, eku |-> {},
   not_before |-> DefaultNotBefore, not_after |-> DefaultNotAfter,
   san |-> {[i \in DOMAIN dns |-> [kind |-> "dns", value |-> {dns[i]}]]},
   alt_key |-> <<>>, alt_algorithm |-> <<>>, alt_value |-> <<>>,
   key |-> serial, issuer |-> common_name, signed_by |-> serial, reads |-> TRUE]

authority_params(name, serial) ==
  [CertificateParams(name, serial, <<>>) EXCEPT !.is_ca = TRUE]

leaf_params(common_name, not_before, not_after, serial) ==
  [CertificateParams(common_name, serial, <<common_name>>) EXCEPT
     !.not_before = not_before, !.not_after = not_after,
     !.eku = {{"clientAuth"}}]

\* rcgen: the parameters, signed.
signed(params, issuer, signed_by) ==
  [params EXCEPT !.issuer = issuer, !.signed_by = signed_by]

\* PqdsaKeyPair::generate(&ML_DSA_65_SIGNING)
AltKey(serial) == [key |-> serial, set |-> "ML-DSA-65"]

\* hybrid::sign: a first pass to learn what the alternative signature is
\* over, and a second with the signature in place.
sign(params, issuer, signed_by, alt_signer) ==
  LET first == [params EXCEPT !.alt_key = <<AltKey(params.serial)>>,
                              !.alt_algorithm = <<"ML-DSA-65">>]
      draft == signed(first, issuer, signed_by)
      value == [bits |-> "whole", by |-> alt_signer, over |-> pre_tbs(draft)]
  IN  signed([first EXCEPT !.alt_value = <<value>>], issuer, signed_by)

-----------------------------------------------------------------------------
(* Authority.                                                              *)

root(name, serial) ==
  [certificate |-> signed(authority_params(name, serial), name, serial),
   root |-> TRUE, above |-> <<>>, alt |-> {}]

hybrid_root(name, serial) ==
  [certificate |-> sign(authority_params(name, serial), name, serial,
                        AltKey(serial)),
   root |-> TRUE, above |-> <<>>, alt |-> {AltKey(serial)}]

\* What a peer sends after a certificate of this authority: a root above is
\* not part of it; an intermediate is.
Above(authority) ==
  IF authority.root THEN <<>> ELSE <<authority.certificate>> \o authority.above

intermediate_with(authority, params) ==
  [certificate |-> signed(params, authority.certificate.subject,
                          authority.certificate.key),
   root |-> FALSE, above |-> Above(authority), alt |-> {}]

intermediate(authority, name, serial) ==
  intermediate_with(authority, authority_params(name, serial))

intermediate_ending(authority, name, not_after, serial) ==
  intermediate_with(authority,
    [authority_params(name, serial) EXCEPT !.not_after = not_after])

hybrid_intermediate(authority, name, serial) ==
  [certificate |-> sign(authority_params(name, serial),
                        authority.certificate.subject,
                        authority.certificate.key,
                        CHOOSE signer \in authority.alt : TRUE),
   root |-> FALSE, above |-> Above(authority), alt |-> {AltKey(serial)}]

\* A line of authorities: a root, and each other one an intermediate of the
\* one before it.
IsRoot(authority) ==
  LET c == authority.certificate
  IN  \/ authority = root(c.subject, c.serial)
      \/ authority = hybrid_root(c.subject, c.serial)

IsIntermediate(authority, above) ==
  LET c == authority.certificate
  IN  \/ authority = intermediate_ending(above, c.subject, c.not_after, c.serial)
      \/ /\ above.alt # {}
         /\ authority = hybrid_intermediate(above, c.subject, c.serial)

IsLine(line) ==
  /\ line \in Seq(ToSet(line)) /\ line # <<>>
  /\ IsRoot(line[1])
  /\ \A i \in 2 .. Len(line) : IsIntermediate(line[i], line[i - 1])

sign_leaf(authority, params, alt_signer) ==
  IF alt_signer = {}
    THEN signed(params, authority.certificate.subject, authority.certificate.key)
    ELSE sign(params, authority.certificate.subject, authority.certificate.key,
              CHOOSE signer \in alt_signer : TRUE)

\* The chain as a transport reports it, the leaf first, never the root.
issue(authority, common_name, not_before, not_after, serial) ==
  <<sign_leaf(authority, leaf_params(common_name, not_before, not_after, serial),
              authority.alt)>> \o Above(authority)

\* The same with a user principal name after the DNS name.
issue_for_user(authority, common_name, principal, not_before, not_after, serial) ==
  LET params == leaf_params(common_name, not_before, not_after, serial)
      upn    == [kind |-> "upn", value |-> {principal}]
  IN  <<sign_leaf(authority,
                  [params EXCEPT !.san = {Append(san, upn) : san \in @}],
                  authority.alt)>> \o Above(authority)

\* The alternative signature is of another authority, a hybrid one: of any
\* other this panics.
issue_alt_signed_by(authority, other, common_name, not_before, not_after, serial) ==
  <<sign(leaf_params(common_name, not_before, not_after, serial),
         authority.certificate.subject, authority.certificate.key,
         CHOOSE signer \in other.alt : TRUE)>> \o Above(authority)

crl(authority, revoked) ==
  [issuer |-> authority.certificate.subject,
   signed_by |-> authority.certificate.key,
   serials |-> {chain[1].serial : chain \in revoked},
   reads |-> TRUE]

=============================================================================
