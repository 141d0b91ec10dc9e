--------------------------- MODULE MCGatePromise ---------------------------
(* One call against a node that changes under it: a technology and a       *)
(* built-in that share a name, evidence written twice, taught twice and    *)
(* taught under a name never claimed, every verdict there is.              *)
EXTENDS Gate

MCName == {"kerberos", "circumstance"}
MCText == {"ann", "bob", "blank"}
MCAccountOf == [t \in MCText |-> IF t = "blank" THEN {} ELSE {t}]

Written(users, scopes) ==
  [name \in EvidenceName |-> IF name = "scope" THEN scopes ELSE users]

MCAnswers ==
  {{}} \union {{of(v)} : v \in Verified}
       \union {{learning(proven, "principal.user", "bob")},
               {learning(learning(proven, "scope", "bob"), "scope", "ann")}}

Said(mechanism, value, established, pairs) ==
  [mechanism |-> mechanism, value |-> value, established |-> established,
   proofs |-> [p \in ProofName |-> {}], evidence |-> pairs]
MCClaim ==
  {Said("kerberos", "ann", "passed", pairs) :
     pairs \in {NoPairs, Written(<<"ann", "bob">>, <<"bob">>)}}
    \union
  {Said("circumstance", value, established, Written(<<"ann">>, <<>>)) :
     value \in {"ann", "blank"}, established \in {"inferred", "passed"}}

MCRegistryKey ==
  {<<"kerberos", "receive", "ann">>, <<"kerberos", "send", "ann">>}
=============================================================================
