---------------------------- MODULE MCVerifiers ----------------------------
(* One call at a location that may declare any of the four built-in         *)
(* mechanisms or a password's, over claims that vary everything their       *)
(* verifiers look at: the value, how the claim was established, the word of *)
(* the transport, and whether evidence names a broker, or whose account.    *)
EXTENDS Gate

MCName ==
  {"broker", "circumstance", "mutual-tls", "peer-credentials", "password"}
MCText == {"ann", "ANN", "bob", "blank", "verified", "unverified"}
MCProofName ==
  {"broker.connection", "mutual-tls.handshake", "peer-credentials.system"}

\* Two spellings of one account, another account, and no principals.
MCAccountOf == [t \in MCText |->
  CASE t \in {"ann", "ANN"} -> {"ann"} [] t = "bob" -> {"bob"} [] OTHER -> {}]

\* The proof a mechanism's verifier reads.
ProofOf == [m \in MCName |->
  CASE m = "mutual-tls" -> "mutual-tls.handshake"
    [] m = "peer-credentials" -> "peer-credentials.system"
    [] OTHER -> "broker.connection"]
Proofs(m, word) == [p \in ProofName |-> IF p = ProofOf[m] THEN word ELSE {}]

Written(name, values) == [NoPairs EXCEPT ![name] = values]

MCClaim ==
  {[mechanism |-> m, value |-> value, established |-> established,
    proofs |-> Proofs(m, word), evidence |-> pairs] :
     m \in MCName \ {"password"}, value \in {"ann", "blank"},
     established \in Established,
     word \in {{}, {"verified"}, {"unverified"}},
     pairs \in {Written("broker", named) : named \in {<<>>, <<"blank">>, <<"ann">>}}}
    \union
  {[mechanism |-> "password", value |-> "ann", established |-> "passed",
    proofs |-> Proofs("password", {}), evidence |-> pairs] :
     pairs \in {Written("principal.user", users) :
                  users \in {<<>>, <<"ANN">>, <<"bob">>, <<"blank">>,
                             <<"ann", "bob">>}}}
=============================================================================
