------------------------------ MODULE MCX509 ------------------------------
(* A classical root with three intermediates, one more than a walk takes, a  *)
(* hybrid one with one hybrid and one classical intermediate, and a          *)
(* stranger's. Peers also send chains out of order or with a certificate     *)
(* left out, with a second leaf or an authority for a leaf, nothing at all,  *)
(* and certificates an authority issued otherwise than the mint does: for    *)
(* another usage, with alternative signatures that are forged, half there or *)
(* unreadable, or with alternative names that do not read or name several.   *)
EXTENDS X509

R  == root("R", 1)
I  == intermediate_ending(R, "I", 2, 2)
J  == intermediate(I, "J", 3)
P  == intermediate(J, "P", 8)
H  == hybrid_root("H", 10)
K  == hybrid_intermediate(H, "K", 11)
L  == intermediate(H, "L", 12)
O  == hybrid_root("O", 20)

alice == issue(R, "party", 0, 3, 4)
bob   == issue(I, "desk", 0, 3, 5)
carol == issue(J, "desk", 1, 3, 6)
dave  == issue(K, "desk", 0, 3, 13)
erin  == issue(L, "desk", 0, 3, 14)
eve   == issue_alt_signed_by(H, O, "desk", 0, 3, 15)
frank == issue(P, "desk", 0, 3, 9)
jane  == issue_for_user(R, "desk", "jane@x", 0, 3, 7)

MCMinted ==
  {[chain |-> alice, line |-> <<R>>,       principal |-> {}],
   [chain |-> bob,   line |-> <<R, I>>,    principal |-> {}],
   [chain |-> carol, line |-> <<R, I, J>>, principal |-> {}],
   [chain |-> frank, line |-> <<R, I, J, P>>, principal |-> {}],
   [chain |-> dave,  line |-> <<H, K>>,    principal |-> {}],
   [chain |-> erin,  line |-> <<H, L>>,    principal |-> {}],
   [chain |-> jane,  line |-> <<R>>,       principal |-> {"jane@x"}]}

Dns(text) == [kind |-> "dns", value |-> {text}]
Upn(text) == [kind |-> "upn", value |-> text]
Naming(san) == [jane EXCEPT ![1].san = san]

\* A name a DNS name spells, one that does not parse or is no UTF8String
\* before the one that counts, two that do, and names that do not read.
Namings ==
  {Naming({<<Dns("john@x"), Upn({"jane@x"})>>}),
   Naming({<<Upn({}), Upn({"desk"}), Upn({"jane@x"}), Upn({"john@x"})>>}),
   Naming({<<[kind |-> "other", value |-> {}], Dns("john@x")>>}),
   Naming({})}

Leaf(chain) == chain[1]
Value       == Leaf(dave).alt_value[1]
Alternatives ==
  {[dave EXCEPT ![1].alt_value = <<>>],
   [dave EXCEPT ![1].alt_algorithm = <<>>],
   [dave EXCEPT ![1].alt_algorithm = <<>>, ![1].alt_value = <<>>],
   [dave EXCEPT ![1].alt_algorithm = <<"ML-DSA-44">>],
   [dave EXCEPT ![1].alt_algorithm = <<"RSA">>],
   [dave EXCEPT ![1].alt_value = <<Value, Value>>],
   [dave EXCEPT ![1].alt_value = <<[Value EXCEPT !.bits = "unused bits"]>>],
   [dave EXCEPT ![1].alt_value = <<[Value EXCEPT !.over = pre_tbs(eve[1])]>>]}

MCReceived ==
  {<<>>, eve,
   <<carol[1], carol[3], carol[2]>>,
   <<carol[1], carol[3]>>,
   <<bob[1], [bob[2] EXCEPT !.reads = FALSE], bob[2]>>,
   [alice EXCEPT ![1].eku = {{"serverAuth"}}],
   [alice EXCEPT ![1].reads = FALSE],
   <<I.certificate>>,
   <<alice[1], jane[1]>>}
    \union Namings \union Alternatives

\* Distinguished names of a leaf and of an authority, a DNS name in three
\* spellings, two users, one of them also with the domain before the name.
MCText == {"CN=party", "CN=I", "party", "PARTY", " PARTY", "desk",
           "jane@x", "X\\JANE", "john@x"}
MCNameOf == [t \in MCText |->
  CASE t = "CN=party" -> "party" [] t = "CN=I" -> "I" [] OTHER -> "no name"]
MCPrincipalOf == [t \in MCText |->
  CASE t \in {"jane@x", "X\\JANE"} -> {"jane"}
    [] t = "john@x" -> {"john"} [] OTHER -> {}]
MCTrimmed == [t \in MCText |-> IF t = " PARTY" THEN "PARTY" ELSE t]
MCLower   == [t \in MCText |-> IF t = "PARTY" THEN "party" ELSE t]

\* The root under a second name, as a renamed authority publishes it, the
\* root with a window that has ended, and a block that is no certificate.
Renamed == [R.certificate EXCEPT !.subject = "R2", !.issuer = "R2"]
Ended   == [R.certificate EXCEPT !.not_after = 1]
Junk    == [O.certificate EXCEPT !.reads = FALSE]

Apart == {<<>>, <<R.certificate>>, <<O.certificate, H.certificate, R.certificate>>}

MCAnchorSets == Apart \union {<<Renamed, R.certificate>>, <<Ended>>,
                              <<R.certificate, Junk>>}
EndedAnchorSets == Apart \union {<<Ended>>}
RenamedAnchorSets == Apart \union {<<Renamed, R.certificate>>}
Roots == {<<R.certificate>>}

\* An intermediate of an authority's, revoked.
Withdrawn(authority, below) ==
  [crl(authority, {}) EXCEPT !.serials = {below.certificate.serial}]

MCListSets ==
  {{}, {<<>>},
   {<<crl(R, {}), crl(I, {}), crl(J, {})>>},
   {<<crl(R, {bob}), crl(I, {bob})>>},
   {<<Withdrawn(R, I), crl(I, {}), crl(H, {})>>},
   {<<crl(R, {}), [crl(I, {}) EXCEPT !.signed_by = 99], crl(H, {dave})>>},
   {<<crl(R, {}), [crl(I, {}) EXCEPT !.reads = FALSE]>>}}
NoLists == {{}}
\* An older list of an authority's and a newer one.
TwoLists == {{<<crl(R, {}), crl(R, {alice})>>}, {<<crl(R, {alice}), crl(R, {})>>}}

MCMinTime == -1
=============================================================================
