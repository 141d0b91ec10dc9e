------------------------------- MODULE Names -------------------------------
(***************************************************************************)
(* src/.src/x509/name.rs: whether a certificate names what was claimed, as *)
(* its subject, as the account it carries a user principal name for, or as *)
(* one of its DNS names.                                                   *)
(*                                                                         *)
(* How a text reads is other crates' business, so each reading is a        *)
(* constant function of texts: two texts are equal names, accounts or DNS  *)
(* names where the function makes them so. subjectAltName is the Result    *)
(* of reading it: {} where it does not read, {<<>>} where there is none,   *)
(* else its general names in order, each with its kind ("dns", "upn" or    *)
(* "other") and the Option of the text its bytes hold.                     *)
(***************************************************************************)
EXTENDS Naturals, Sequences, SequencesExt, Options

CONSTANTS
  Text,          \* claims, and the texts in certificates
  NameOf,        \* tls::Name::parse, which reads any text
  PrincipalOf,   \* identify::UserPrincipalName::parse: text -> Option(account)
  Trimmed,       \* str::trim
  Lower          \* what eq_ignore_ascii_case compares

ASSUME NamesAssumption ==
  /\ DOMAIN NameOf = Text
  /\ DOMAIN PrincipalOf = Text
  /\ \A text \in Text : \A a, b \in PrincipalOf[text] : a = b
  /\ Trimmed \in [Text -> Text]
  /\ Lower \in [Text -> Text]

-----------------------------------------------------------------------------
(* What a certificate says of itself; each of these is a Result.           *)

subject_of(c) == IF c.reads THEN {c.subject} ELSE {}

subject_alternative_name(c) == IF c.reads THEN c.san ELSE {}

\* The texts of the DNS names, as a set: their order is never read.
dns_names_of(c) ==
  {UNION {general.value : general \in {g \in ToSet(san) : g.kind = "dns"}} :
     san \in subject_alternative_name(c)}

\* The text of an otherName that is a UTF8String within [0].
utf8_within(general) == general.value

\* The account of one general name, where it is a user principal name that
\* parses.
Principal(general) ==
  IF general.kind = "upn"
    THEN UNION {PrincipalOf[text] : text \in utf8_within(general)} ELSE {}

\* find_map: the first general name that gives an account. The Result of an
\* Option.
user_principal_of(c) ==
  {UNION {Principal(san[i]) : i \in {i \in DOMAIN san :
            \A j \in 1 .. i - 1 : Principal(san[j]) = {}}} :
     san \in subject_alternative_name(c)}

-----------------------------------------------------------------------------
(* names.                                                                  *)

NamesDns(c, claim) ==
  {(\E dns \in all : Lower[dns] = Lower[Trimmed[claim]]) :
     all \in dns_names_of(c)}

\* Faulty variant: a principal name that is not the certificate's may still
\* be one of its DNS names.
namesFallingThrough(c, claim) ==
  IF \/ NameOf[claim] \in subject_of(c)
     \/ \E carried \in user_principal_of(c) :
          carried # {} /\ carried = PrincipalOf[claim]
    THEN {TRUE} ELSE NamesDns(c, claim)

\* The subject first; then, where the claim is a principal name and the
\* certificate carries one, that alone decides; else the DNS names.
names(c, claim) ==
  IF subject_of(c) = {} THEN {}
  ELSE IF subject_of(c) = {NameOf[claim]} THEN {TRUE}
  ELSE IF PrincipalOf[claim] # {} /\ user_principal_of(c) # {{}}
    THEN {carried = PrincipalOf[claim] : carried \in user_principal_of(c)}
  ELSE NamesDns(c, claim)

=============================================================================
