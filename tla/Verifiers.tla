------------------------------ MODULE Verifiers ------------------------------
(***************************************************************************)
(* The four authenticators every node carries - src/.src/broker.rs,        *)
(* circumstance.rs, handshake.rs and peer_credentials.rs - and the two     *)
(* rules of src/.src/account.rs the verifiers of a user's password share.  *)
(*                                                                         *)
(* Each verify is the Option of a verdict: {} where the code returns an    *)
(* error, whatever its words.                                              *)
(***************************************************************************)
EXTENDS Claims

CONSTANTS
  Account,   \* accounts a user principal name may be of
  AccountOf  \* UserPrincipalName::parse: text -> Option(Account)

\* Every spelling of one account parses to it, so `is` is equality of
\* accounts; a text that is no user principal name parses to {}.
ASSUME AccountAssumption == AccountOf \in [Text -> Option(Account)]

-----------------------------------------------------------------------------
(* Faulty variants.                                                        *)

BrokerFallingBack(presented) ==
  {v \in Verified :
     /\ presented.established = "detected"
     /\ presented.value \notin Blank
     /\ LET Named == \E broker \in evidence(presented, "broker") :
                       broker \notin Blank
        IN  \/ v = "claimed" /\ ~Named
            \/ /\ v = "vouched" /\ Named
               /\ \E word \in proof(presented, "broker.connection") :
                    word \in SaysVerified}

-----------------------------------------------------------------------------
(* The verifiers.                                                          *)

\* Broker::verify. Vouched where the transport proved the broker and names
\* it, claimed where the transport says nothing.
Broker(presented) ==
  {v \in Verified :
     /\ presented.established = "detected"
     /\ presented.value \notin Blank
     /\ \/ v = "claimed" /\ proof(presented, "broker.connection") = {}
        \/ /\ v = "vouched"
           /\ \E word \in proof(presented, "broker.connection") :
                word \in SaysVerified
           /\ \E broker \in evidence(presented, "broker") : broker \notin Blank}

\* Circumstance::verify: what the node inferred, and only a claim.
Circumstance(presented) ==
  {v \in {"claimed"} : /\ presented.established = "inferred"
                       /\ presented.value \notin Blank}

\* Handshake::verify: the transport's word, however the claim was
\* established.
Handshake(presented) ==
  {v \in {"proven"} :
     /\ \E word \in proof(presented, "mutual-tls.handshake") :
          word \in SaysVerified
     /\ presented.value \notin Blank}

\* PeerCredentials::verify: read from the connection, with the node's word.
PeerCredentials(presented) ==
  {v \in {"proven"} :
     /\ presented.established = "detected"
     /\ presented.value \notin Blank
     /\ \E word \in proof(presented, "peer-credentials.system") :
          word \in SaysVerified}

-----------------------------------------------------------------------------
(* account.rs: what a verifier of a user's password asks first.            *)

USERNAME == "username"

user_claim(presented, own) == presented.mechanism \in {USERNAME, own}

evidenced(presented) ==
  UNION {AccountOf[text] : text \in evidence(presented, "principal.user")}

\* Faulty variant: evidence is enough to be believed.
same_accountBelieving(presented, read) == TRUE

same_account(presented, read) ==
  \A account \in evidenced(presented) : account = read

=============================================================================
