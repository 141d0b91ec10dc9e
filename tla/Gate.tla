-------------------------------- MODULE Gate --------------------------------
(***************************************************************************)
(* The authentication gate, authenticate in src/.src/lib.rs, run for       *)
(* several arrivals at once. A call is four steps, cut where the code      *)
(* leaves its own hands: it is called, it consults what the location       *)
(* declares and looks for a module, the module concludes (a call of        *)
(* unknown duration), the registry resolves (another). Between two of them *)
(* the node and the other calls move.                                      *)
(***************************************************************************)
EXTENDS Node

CONSTANTS
  Arrival,   \* calls of authenticate
  Claim      \* what an arrival may present

ASSUME ClaimAssumption == Claim \subseteq Presented

VARIABLES
  presented,    \* per arrival, the claim of the first gate
  acceptance,   \* per arrival, the borrowed Acceptance
  modules,      \* per arrival, the borrowed slice of modules
  called,       \* the arrivals authenticate was called for
  outcome,      \* per arrival, the Result, or Pending
  step,         \* per arrival, where the call stands
  conclusion,   \* per arrival, what conclude returned: Option(Conclusion)
  asked,        \* per arrival, the modules conclude was called on
  lookups       \* per arrival, the calls of resolve and their answers

calls == <<presented, acceptance, modules, called, outcome>>
local == <<step, conclusion, asked, lookups>>
vars  == <<node, calls, local>>

Step   == {"idle", "consulting", "concluding", "resolving", "answered"}
Lookup == Key \X Option(Party)

\* Types. Result excludes an identity whose verdict is Refused and an answer
\* with a Party that is not one the registry can give.
TypeOK ==
  /\ NodeTypeOK
  /\ presented \in [Arrival -> Claim]
  /\ acceptance \in [Arrival -> Declared]
  /\ modules \in [Arrival -> Seq(Authenticator)]
  /\ called \subseteq Arrival
  /\ outcome \in [Arrival -> Result]
  /\ step \in [Arrival -> Step]
  /\ conclusion \in [Arrival -> Option(Conclusion)]
  /\ asked \in [Arrival -> SUBSET Authenticator]
  /\ lookups \in [Arrival -> SUBSET Lookup]

Init ==
  /\ NodeInit
  /\ presented \in [Arrival -> Claim]
  /\ acceptance = [a \in Arrival |-> closed]
  /\ modules = [a \in Arrival |-> <<>>]
  /\ called = {}
  /\ outcome = [a \in Arrival |-> Pending]
  /\ step = [a \in Arrival |-> "idle"]
  /\ conclusion = [a \in Arrival |-> {}]
  /\ asked = [a \in Arrival |-> {}]
  /\ lookups = [a \in Arrival |-> {}]

-----------------------------------------------------------------------------
At(a, here) == a \in called /\ step[a] = here

Goto(a, there) == step' = [step EXCEPT ![a] = there]

Return(a, result) ==
  /\ outcome' = [outcome EXCEPT ![a] = result]
  /\ Goto(a, "answered")

\* authenticate(&acceptance, &authenticators, &registry, &presented).
Call(a) ==
  /\ a \notin called
  /\ called' = called \union {a}
  /\ acceptance' = [acceptance EXCEPT ![a] = location]
  /\ modules' = [modules EXCEPT ![a] = authenticators]
  /\ Goto(a, "consulting")
  /\ UNCHANGED <<presented, outcome, conclusion, asked, lookups, node>>

\* The module that will be asked, if the location lets one be.
Chosen(a) == find(modules[a], presented[a].mechanism)

\* Faulty variants: a call no module serves waits for one; the modules are
\* searched before the declaration is read;
\* an authenticator's Refused is taken for a verdict; an arrival that proved
\* nothing is told whether its value is known.
ConsultWaiting(a) ==
  /\ At(a, "consulting")
  /\ declares(acceptance[a], presented[a].mechanism)
  /\ Chosen(a) # {}
  /\ Goto(a, "concluding")
  /\ UNCHANGED <<outcome, presented, acceptance, modules, called, conclusion,
                 asked, lookups, node>>
ConsultModulesFirst(a) ==
  LET mechanism == presented[a].mechanism IN
  /\ At(a, "consulting")
  /\ \/ /\ Chosen(a) = {}
        /\ Return(a, Err([refusal |-> "NoAuthenticator",
                          mechanism |-> mechanism]))
     \/ /\ Chosen(a) # {}
        /\ ~declares(acceptance[a], mechanism)
        /\ Return(a, Err([refusal |-> "MechanismNotDeclared",
                          mechanism |-> mechanism]))
     \/ /\ declares(acceptance[a], mechanism)
        /\ Chosen(a) # {}
        /\ Goto(a, "concluding")
        /\ UNCHANGED outcome
  /\ UNCHANGED <<presented, acceptance, modules, called, conclusion, asked,
                 lookups, node>>
FailsOnErrorOnly(answer) == answer = {}
ConcludeTelling(a) ==
  /\ At(a, "concluding")
  /\ \E module \in Chosen(a) : \E answer \in conclude(module, presented[a]) :
       /\ asked' = [asked EXCEPT ![a] = @ \union {module}]
       /\ conclusion' = [conclusion EXCEPT ![a] = answer]
       /\ IF resolve(registry, presented[a].mechanism, "receive",
                     presented[a].value) = {}
            THEN Return(a, Err([refusal |-> "NoParty",
                                mechanism |-> presented[a].mechanism]))
            ELSE Return(a, Err([refusal |-> "NotProven",
                                mechanism |-> presented[a].mechanism]))
  /\ UNCHANGED <<presented, acceptance, modules, called, lookups, node>>

\* The declared set is consulted before any module runs.
Consult(a) ==
  LET mechanism == presented[a].mechanism IN
  /\ At(a, "consulting")
  /\ \/ /\ is_closed(acceptance[a])
        /\ Return(a, Err([refusal |-> "LocationAcceptsNothing"]))
     \/ /\ ~is_closed(acceptance[a])
        /\ ~declares(acceptance[a], mechanism)
        /\ Return(a, Err([refusal |-> "MechanismNotDeclared",
                          mechanism |-> mechanism]))
     \/ /\ declares(acceptance[a], mechanism)
        /\ Chosen(a) = {}
        /\ Return(a, Err([refusal |-> "NoAuthenticator",
                          mechanism |-> mechanism]))
     \/ /\ declares(acceptance[a], mechanism)
        /\ Chosen(a) # {}
        /\ Goto(a, "concluding")
        /\ UNCHANGED outcome
  /\ UNCHANGED <<presented, acceptance, modules, called, conclusion, asked,
                 lookups, node>>

\* Whether what conclude returned stops the call: an error, or Refused.
Fails(answer) == \A c \in answer : c.verified = "refused"

\* The chosen module concludes.
Conclude(a) ==
  /\ At(a, "concluding")
  /\ \E module \in Chosen(a) : \E answer \in conclude(module, presented[a]) :
       /\ asked' = [asked EXCEPT ![a] = @ \union {module}]
       /\ conclusion' = [conclusion EXCEPT ![a] = answer]
       /\ \/ /\ Fails(answer)
             /\ Return(a, Err([refusal |-> "NotProven",
                               mechanism |-> presented[a].mechanism]))
          \/ /\ ~Fails(answer)
             /\ Goto(a, "resolving")
             /\ UNCHANGED outcome
  /\ UNCHANGED <<presented, acceptance, modules, called, lookups, node>>

\* What is made of the registry's answer.
Settled(acc, claim, c, found) ==
  IF \E party \in found : ~permits(acc, party)
    THEN Err([refusal |-> "PartyNotPermitted",
              party |-> CHOOSE party \in found : TRUE])
  ELSE IF found = {} /\ names_parties(acc)
    THEN Err([refusal |-> "NoParty", mechanism |-> claim.mechanism])
  ELSE Ok(identity_of(claim, c, found))

\* The registry is asked for the verified value.
Resolve(a) ==
  LET claim == presented[a]
      found == resolve(registry, claim.mechanism, "receive", claim.value)
  IN
  /\ At(a, "resolving")
  /\ lookups' = [lookups EXCEPT ![a] =
       @ \union {<<<<claim.mechanism, "receive", claim.value>>, found>>}]
  /\ \E c \in conclusion[a] : Return(a, Settled(acceptance[a], claim, c, found))
  /\ UNCHANGED <<presented, acceptance, modules, called, conclusion, asked,
                 node>>

-----------------------------------------------------------------------------
Authenticate(a) == Call(a) \/ Consult(a) \/ Conclude(a) \/ Resolve(a)

Next ==
  \/ Configure /\ UNCHANGED <<calls, local>>
  \/ \E a \in Arrival : Authenticate(a)

Spec == Init /\ [][Next]_vars

\* authenticate has no loop and waits for nothing but the module and the
\* registry: once called it runs to its end if they return.
Fairness ==
  \A a \in Arrival : WF_vars(Consult(a)) /\ WF_vars(Conclude(a))
                                          /\ WF_vars(Resolve(a))

FairSpec == Spec /\ Fairness

-----------------------------------------------------------------------------
(* What the gate may never do.                                             *)

Stands(a) == \E c \in conclusion[a] : c.verified # "refused"

\* Nobody has been asked for this arrival.
Untold(a) == asked[a] = {} /\ conclusion[a] = {} /\ lookups[a] = {}

\* The module that serves the declared name has been asked, and no other.
Told(a) ==
  /\ declares(acceptance[a], presented[a].mechanism)
  /\ \E module \in Chosen(a) :
       asked[a] = {module} /\ conclusion[a] \in conclude(module, presented[a])

\* Why an answered call was answered as it was.
Explained(a) ==
  LET mechanism == presented[a].mechanism IN
  \/ /\ Untold(a) /\ is_closed(acceptance[a])
     /\ outcome[a] = Err([refusal |-> "LocationAcceptsNothing"])
  \/ /\ Untold(a) /\ ~is_closed(acceptance[a])
     /\ ~declares(acceptance[a], mechanism)
     /\ outcome[a] = Err([refusal |-> "MechanismNotDeclared",
                          mechanism |-> mechanism])
  \/ /\ Untold(a) /\ declares(acceptance[a], mechanism) /\ Chosen(a) = {}
     /\ outcome[a] = Err([refusal |-> "NoAuthenticator",
                          mechanism |-> mechanism])
  \/ /\ Told(a) /\ Fails(conclusion[a]) /\ lookups[a] = {}
     /\ outcome[a] = Err([refusal |-> "NotProven", mechanism |-> mechanism])
  \/ /\ Told(a) /\ ~Fails(conclusion[a])
     /\ \E c \in conclusion[a], found \in Option(Party) :
          /\ lookups[a] =
               {<<<<mechanism, "receive", presented[a].value>>, found>>}
          /\ outcome[a] = Settled(acceptance[a], presented[a], c, found)

\* The inductive invariant the theorems rest on: at every step of a call,
\* what it has asked, heard and answered follows from what it was called
\* with and from the two answers it was given, and from nothing else.
CallFollows(a) ==
  /\ step[a] = "idle" <=> a \notin called
  /\ step[a] # "answered" => outcome[a] = Pending
  /\ step[a] \in {"idle", "consulting", "concluding"} => Untold(a)
  /\ step[a] = "concluding" =>
       declares(acceptance[a], presented[a].mechanism) /\ Chosen(a) # {}
  /\ step[a] = "resolving" =>
       Told(a) /\ ~Fails(conclusion[a]) /\ lookups[a] = {}
  /\ step[a] = "answered" => Explained(a)
CallsFollow == \A a \in Arrival : CallFollows(a)

\* "An identity presented by a mechanism not declared here is refused, and is
\* not then attempted against the other configured mechanisms": over a whole
\* call no module but the first of the presented, declared name is ever
\* asked to verify, whatever it answers and whatever else is linked.
OnlyTheDeclaredNameIsAsked ==
  \A a \in Arrival : \A module \in asked[a] :
    /\ module.mechanism = presented[a].mechanism
    /\ module.mechanism \in acceptance[a].mechanisms
    /\ \A other \in asked[a] : other = module

\* "The lookup happens after verification, never before": the registry is
\* asked only about a value a module stood behind, for receiving, and once.
RegistryHearsOnlyTheVerified ==
  \A a \in Arrival : \A lookup \in lookups[a] :
    /\ Stands(a)
    /\ asked[a] # {}
    /\ lookup[1] = <<presented[a].mechanism, "receive", presented[a].value>>
    /\ \A other \in lookups[a] : other = lookup

-----------------------------------------------------------------------------
(* Two calls compared: what a caller can tell from the answers.            *)

Answered(a) == step[a] = "answered"

\* Both calls are over, and were made with the same claim.
Comparable(a, b) ==
  Answered(a) /\ Answered(b) /\ presented[a] = presented[b]

\* "... cannot be used to probe which mechanisms exist": where the mechanism
\* is not declared, the answer is the same whatever modules are linked.
UndeclaredSeesNoModule ==
  \A a, b \in Arrival :
    /\ Comparable(a, b)
    /\ acceptance[a] = acceptance[b]
    /\ presented[a].mechanism \notin acceptance[a].mechanisms
    => outcome[a] = outcome[b]

\* "Resolving first would leak which values are known to an unauthenticated
\* caller": of two calls nothing verified, the answers are the same whatever
\* the registry held when either ran.
RegistryUnseenWithoutProof ==
  \A a, b \in Arrival :
    /\ Comparable(a, b)
    /\ acceptance[a] = acceptance[b]
    /\ modules[a] = modules[b]
    /\ conclusion[a] = conclusion[b] /\ ~Stands(a)
    => outcome[a] = outcome[b]

\* "Narrow to named Parties": what a location naming Parties takes, the same
\* location naming none takes too, as the same identity.
NamingPartiesOnlyNarrows ==
  \A a, b \in Arrival :
    /\ Comparable(a, b)
    /\ acceptance[a].mechanisms = acceptance[b].mechanisms
    /\ acceptance[a].parties = {}
    /\ modules[a] = modules[b]
    /\ conclusion[a] = conclusion[b] /\ lookups[a] = lookups[b]
    => outcome[b].ok \subseteq outcome[a].ok

\* What a sender writes decides whether a built-in verifier takes the claim,
\* never how strongly: whatever else had been claimed with the same proofs
\* of the transport, the verifier would have refused it or taken it as
\* strong. (A word that is not `verified`, or one without its broker, refuses
\* and does not fall back to claimed.)
StrengthFollowsTheWord ==
  \A a \in Arrival : \A id \in outcome[a].ok :
    \A module \in asked[a] \intersect BuiltIn : \A claim \in Claim :
      claim.proofs = presented[a].proofs
        => verify(module, claim) \subseteq {id.verified}

\* A claim that presents one account and carries evidence of another is not
\* taken by a verifier of passwords: the user an identity it proved reads as
\* (the first principal.user) is the account it presented.
OneAccountPerIdentity ==
  \A a \in Arrival : \A id \in outcome[a].ok :
    asked[a] \intersect PasswordVerifier # {} =>
      \A read \in AccountOf[id.value] :
        \A user \in First(id.evidence["principal.user"]) :
          AccountOf[user] \subseteq {read}

-----------------------------------------------------------------------------
(* Over time.                                                              *)

\* A module linked later never takes over a name an earlier one serves: it
\* is never the one asked.
LinkingNeverTakesOver ==
  [][\A mechanism \in Name :
       find(authenticators, mechanism) # {}
         => find(authenticators', mechanism) = find(authenticators, mechanism)]_vars

\* Every call made is answered, if modules and registry return.
EveryCallIsAnswered ==
  \A a \in Arrival : a \in called ~> outcome[a] # Pending

-----------------------------------------------------------------------------
\* The gate implements its promise: whatever the node and the other calls do
\* in between, an answer is one that GatePromise allows at one moment.
Promise == INSTANCE GatePromise
GateKeepsItsPromise == Promise!Spec
=============================================================================
