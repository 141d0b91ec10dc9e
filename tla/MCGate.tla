------------------------------- MODULE MCGate -------------------------------
(* Two calls at one Receive Location. One technology (kerberos) that may    *)
(* conclude anything, teaching a user or not, one name nothing serves until *)
(* a module is linked, two Parties, and a registry that knows the presented *)
(* value for receiving and for sending.                                     *)
EXTENDS Gate, TLC

MCName == {"kerberos", "circumstance"}
MCText == {"ann", "bob"}
MCAccountOf == [t \in MCText |-> {t}]

User(value) == [name \in EvidenceName |-> <<value>>]
MCAnswers ==
  {{}, {of("refused")},
   {learning(proven, "principal.user", "bob")}}

Said(mechanism, value, established, pairs) ==
  [mechanism |-> mechanism, value |-> value, established |-> established,
   proofs |-> [p \in ProofName |-> {}], evidence |-> pairs]
MCClaim ==
  {Said("kerberos", "ann", "passed", User("ann")),
   Said("circumstance", "ann", "inferred", NoPairs)}

MCRegistryKey == {<<"kerberos", "receive", "ann">>, <<"kerberos", "send", "ann">>}

Symmetry == Permutations(Arrival)
=============================================================================
