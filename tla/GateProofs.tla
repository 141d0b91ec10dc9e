----------------------------- MODULE GateProofs -----------------------------
(***************************************************************************)
(* Theorems about Gate, for any arrivals, claims, Parties, modules and     *)
(* registry: its types, its inductive invariant CallsFollow, the safety    *)
(* properties that follow from it, and that Gate implements GatePromise.   *)
(***************************************************************************)
EXTENDS Gate, TLAPS, SequenceTheorems, Least

-----------------------------------------------------------------------------
(* Lemmas about the operators.                                             *)

\* Two values of one Option are one value.
LEMMA OptionIsSingle ==
  ASSUME NEW S, NEW o \in Option(S), NEW x \in o
  PROVE  o = {x} /\ x \in S
BY DEF Option

\* None, and Some of a member, are Options.
LEMMA OptionOf ==
  ASSUME NEW S
  PROVE  {} \in Option(S) /\ \A x \in S : {x} \in Option(S)
BY DEF Option

\* find answers with a module of the name, the earliest, and with none only
\* if none is of that name.
LEMMA FindFinds ==
  ASSUME NEW S, NEW mods \in Seq(S), NEW mechanism
  PROVE  /\ find(mods, mechanism) \in Option(S)
         /\ \A module \in find(mods, mechanism) :
              \E i \in DOMAIN mods :
                /\ module = mods[i] /\ mods[i].mechanism = mechanism
                /\ \A j \in DOMAIN mods :
                     mods[j].mechanism = mechanism => i <= j
         /\ find(mods, mechanism) = {} =>
              \A i \in DOMAIN mods : mods[i].mechanism # mechanism
<1> DEFINE Serving == {i \in DOMAIN mods : mods[i].mechanism = mechanism}
<1> DEFINE Firsts == {i \in DOMAIN mods :
     /\ mods[i].mechanism = mechanism
     /\ \A j \in DOMAIN mods : j < i => mods[j].mechanism # mechanism}
<1>1. /\ DOMAIN mods \subseteq Nat
      /\ \A i \in DOMAIN mods : mods[i] \in S
    BY LenProperties, ElementOfSeq
<1>2. find(mods, mechanism) = {mods[i] : i \in Firsts}
    BY DEF find
<1>3. \A i, j \in Firsts : i = j
    BY <1>1
<1>4. \A i \in Firsts : \A j \in DOMAIN mods :
        mods[j].mechanism = mechanism => i <= j
    BY <1>1
<1>5. Serving # {} => Firsts # {}
  <2> SUFFICES ASSUME Serving # {} PROVE Firsts # {}
      OBVIOUS
  <2>1. Serving \in SUBSET Nat
      BY <1>1
  <2>2. PICK i \in Serving : \A j \in Serving : i <= j
      BY <2>1, LeastElement
  <2>3. \A j \in DOMAIN mods : j < i => mods[j].mechanism # mechanism
      BY <1>1, <2>2
  <2>4. i \in Firsts
      BY <2>3
  <2> QED
      BY <2>4
<1>6. find(mods, mechanism) \in Option(S)
    BY <1>1, <1>2, <1>3 DEF Option
<1>7. find(mods, mechanism) = {} => Serving = {}
    BY <1>2, <1>5
<1> QED
    BY <1>2, <1>4, <1>6, <1>7

\* A built-in verifier answers with at most one verdict.
LEMMA VerifyIsOption ==
  ASSUME NEW module \in BuiltIn, NEW claim \in Presented
  PROVE  verify(module, claim) \in Option(Verified)
<1>1. Broker(claim) \in Option(Verified)
    BY DEF Broker, Option, Verified
<1>2. Circumstance(claim) \in Option(Verified)
    BY DEF Circumstance, Option, Verified
<1>3. Handshake(claim) \in Option(Verified)
    BY DEF Handshake, Option, Verified
<1>4. PeerCredentials(claim) \in Option(Verified)
    BY DEF PeerCredentials, Option, Verified
<1> QED
    BY <1>1, <1>2, <1>3, <1>4 DEF verify, BuiltIn

\* A verdict alone is a conclusion.
LEMMA OfType == \A v \in Verified : of(v) \in Conclusion
BY EmptySeq DEF of, Conclusion, NoPairs, Pairs

\* Whatever module is asked, what it returns is an error or one conclusion.
LEMMA ConcludeType ==
  ASSUME NEW module \in Authenticator, NEW claim \in Presented,
         NEW answer \in conclude(module, claim)
  PROVE  answer \in Option(Conclusion)
<1>1. CASE module \in Technology
    BY <1>1, AcceptanceAssumption DEF conclude, Technology
<1>2. CASE module \in PasswordVerifier
  <2>1. answer \in {{proven}, {of("refused")}, {}}
      BY <1>2 DEF conclude, PasswordVerifier
  <2> QED
      BY <2>1, OfType, OptionOf DEF proven, Verified
<1>3. CASE module \in BuiltIn
  <2>1. answer = {of(v) : v \in verify(module, claim)}
      BY <1>3 DEF conclude, BuiltIn
  <2> QED
      BY <1>3, <2>1, VerifyIsOption, OfType DEF Option
<1> QED
    BY <1>1, <1>2, <1>3 DEF Authenticator

\* The registry answers with one Party or none.
LEMMA ResolveType ==
  ASSUME NEW reg \in [RegistryKey -> Option(Party)],
         NEW mechanism, NEW purpose, NEW value
  PROVE  resolve(reg, mechanism, purpose, value) \in Option(Party)
BY OptionOf DEF resolve

\* The evidence of an identity, by name.
LEMMA MergedReads ==
  ASSUME NEW claimed \in Pairs, NEW taught \in Pairs
  PROVE  /\ merged(claimed, taught) \in Pairs
         /\ \A name \in EvidenceName :
              merged(claimed, taught)[name] =
                IF taught[name] # <<>> THEN taught[name] ELSE claimed[name]
<1> SUFFICES ASSUME NEW name \in EvidenceName
             PROVE  untaught(claimed, taught, name) \o taught[name] =
                      IF taught[name] # <<>> THEN taught[name]
                                             ELSE claimed[name]
    BY DEF merged, Pairs
<1>1. claimed[name] \in Seq(Text) /\ taught[name] \in Seq(Text)
    BY DEF Pairs
<1> QED
    BY <1>1, ConcatEmptySeq DEF untaught

\* What is made of the registry's answer is a Result.
LEMMA SettledType ==
  ASSUME NEW acc \in Declared, NEW claim \in Presented, NEW c \in Conclusion,
         c.verified # "refused", NEW found \in Option(Party)
  PROVE  /\ Settled(acc, claim, c, found) \in Result
         /\ Settled(acc, claim, c, found) # Pending
<1>1. identity_of(claim, c, found) \in Identity
    BY MergedReads DEF identity_of, Identity, Presented, Conclusion
<1>2. \A party \in found : party \in Party
    BY DEF Option
<1>3. \A r \in Refusal : Err(r) \in Result /\ Err(r) # Pending
    BY OptionOf DEF Err, Result, Pending
<1>4. \A id \in Identity : Ok(id) \in Result /\ Ok(id) # Pending
    BY OptionOf DEF Ok, Result, Pending
<1>5. claim.mechanism \in Name
    BY DEF Presented
<1>6. [refusal |-> "NoParty", mechanism |-> claim.mechanism] \in Refusal
    BY <1>5 DEF Refusal
<1>7. \A party \in Party :
        [refusal |-> "PartyNotPermitted", party |-> party] \in Refusal
    BY DEF Refusal
<1>8. CASE \E party \in found : ~permits(acc, party)
  <2>1. (CHOOSE party \in found : TRUE) \in Party
      BY <1>2, <1>8
  <2> QED
      BY <1>3, <1>7, <1>8, <2>1 DEF Settled
<1>9. CASE ~\E party \in found : ~permits(acc, party)
    BY <1>1, <1>3, <1>4, <1>6, <1>9 DEF Settled
<1> QED
    BY <1>8, <1>9

-----------------------------------------------------------------------------
(* The types.                                                              *)

\* A step of the node (Configure) keeps the node's types.
LEMMA NodeStep ==
  ASSUME NodeTypeOK, Configure
  PROVE  NodeTypeOK'
<1>1. ASSUME NEW mechanism \in Name, Accept(mechanism) PROVE NodeTypeOK'
    BY <1>1 DEF NodeTypeOK, Accept, accepting, Declared
<1>2. ASSUME NEW party \in Party, FromParty(party) PROVE NodeTypeOK'
    BY <1>2 DEF NodeTypeOK, FromParty, from_party, Declared
<1>3. ASSUME NEW module \in Authenticator, Link(module) PROVE NodeTypeOK'
  <2>1. /\ authenticators' \in Seq(Authenticator)
        /\ Len(authenticators') = Len(authenticators) + 1
      BY <1>3, AppendProperties DEF NodeTypeOK, Link
  <2>2. Len(authenticators') <= MaxLinked
      BY <1>3, <2>1, NodeAssumption, LenProperties DEF NodeTypeOK, Link
  <2> QED
      BY <1>3, <2>1, <2>2 DEF NodeTypeOK, Link
<1>4. ASSUME NEW key \in RegistryKey, NEW party \in Option(Party),
             Associate(key, party)
      PROVE  NodeTypeOK'
    BY <1>4 DEF NodeTypeOK, Associate
<1> QED
    BY <1>1, <1>2, <1>3, <1>4 DEF Configure

\* The module a call chose is one of its modules.
LEMMA ChosenType ==
  ASSUME TypeOK, NEW a \in Arrival
  PROVE  /\ Chosen(a) \in Option(Authenticator)
         /\ presented[a] \in Presented
         /\ presented[a].mechanism \in Name
<1>1. modules[a] \in Seq(Authenticator) /\ presented[a] \in Presented
    BY ClaimAssumption DEF TypeOK
<1> QED
    BY <1>1, FindFinds DEF Chosen, Presented

\* Each refusal the gate returns is a Result.
LEMMA RefusalTypes ==
  ASSUME NEW mechanism \in Name
  PROVE  /\ Err([refusal |-> "LocationAcceptsNothing"]) \in Result
         /\ \A why \in {"MechanismNotDeclared", "NoAuthenticator",
                         "NotProven", "NoParty"} :
              Err([refusal |-> why, mechanism |-> mechanism]) \in Result
<1>1. \A r \in Refusal : Err(r) \in Result
    BY OptionOf DEF Err, Result
<1>2. [refusal |-> "LocationAcceptsNothing"] \in Refusal
    BY DEF Refusal
<1>3. \A why \in {"MechanismNotDeclared", "NoAuthenticator", "NotProven",
                   "NoParty"} :
        [refusal |-> why, mechanism |-> mechanism] \in Refusal
    BY DEF Refusal
<1> QED
    BY <1>1, <1>2, <1>3

\* Every variable of the gate keeps its type: in particular an identity is
\* never at the strength "refused", whatever a module answers.
LEMMA TypeStep ==
  ASSUME TypeOK, [Next]_vars,
         \A a \in Arrival : step[a] = "resolving" => ~Fails(conclusion[a])
  PROVE  TypeOK'
<1>1. CASE UNCHANGED vars
    BY <1>1 DEF TypeOK, NodeTypeOK, vars, node, calls, local
<1>2. CASE Configure /\ UNCHANGED <<calls, local>>
  <2>1. NodeTypeOK'
      BY <1>2, NodeStep DEF TypeOK
  <2> QED
      BY <1>2, <2>1 DEF TypeOK, calls, local
<1>3. ASSUME NEW a \in Arrival, Call(a) PROVE TypeOK'
    BY <1>3 DEF TypeOK, NodeTypeOK, Call, Goto, Step, node
<1>4. ASSUME NEW a \in Arrival, Consult(a) PROVE TypeOK'
  <2>1. presented[a].mechanism \in Name
      BY ChosenType
  <2>2. outcome' \in [Arrival -> Result] /\ step' \in [Arrival -> Step]
      BY <1>4, <2>1, RefusalTypes DEF TypeOK, Consult, Return, Goto, Step
  <2>3. UNCHANGED <<presented, acceptance, modules, called, conclusion, asked,
                    lookups, node>>
      BY <1>4 DEF Consult
  <2> QED
      BY <2>2, <2>3 DEF TypeOK, NodeTypeOK, node
<1>5. ASSUME NEW a \in Arrival, Conclude(a) PROVE TypeOK'
  <2>1. PICK module \in Chosen(a) : \E answer \in conclude(module, presented[a]) :
          /\ asked' = [asked EXCEPT ![a] = @ \union {module}]
          /\ conclusion' = [conclusion EXCEPT ![a] = answer]
          /\ \/ Return(a, Err([refusal |-> "NotProven",
                               mechanism |-> presented[a].mechanism]))
             \/ Goto(a, "resolving") /\ UNCHANGED outcome
      BY <1>5 DEF Conclude
  <2>2. module \in Authenticator /\ presented[a] \in Presented
      BY ChosenType DEF Option
  <2>3. PICK answer \in conclude(module, presented[a]) :
          /\ asked' = [asked EXCEPT ![a] = @ \union {module}]
          /\ conclusion' = [conclusion EXCEPT ![a] = answer]
          /\ \/ Return(a, Err([refusal |-> "NotProven",
                               mechanism |-> presented[a].mechanism]))
             \/ Goto(a, "resolving") /\ UNCHANGED outcome
      BY <2>1
  <2>4. answer \in Option(Conclusion)
      BY <2>2, ConcludeType
  <2>5. conclusion' \in [Arrival -> Option(Conclusion)]
      BY <2>3, <2>4 DEF TypeOK
  <2>6. asked' \in [Arrival -> SUBSET Authenticator]
      BY <2>2, <2>3 DEF TypeOK
  <2>r. Err([refusal |-> "NotProven", mechanism |-> presented[a].mechanism])
          \in Result
      BY ChosenType, RefusalTypes
  <2>7. outcome' \in [Arrival -> Result] /\ step' \in [Arrival -> Step]
      BY <2>3, <2>r DEF TypeOK, Return, Goto, Step
  <2>8. UNCHANGED <<presented, acceptance, modules, called, lookups, node>>
      BY <1>5 DEF Conclude
  <2> QED
      BY <2>5, <2>6, <2>7, <2>8 DEF TypeOK, NodeTypeOK, node
<1>6. ASSUME NEW a \in Arrival, Resolve(a) PROVE TypeOK'
  <2> DEFINE claim == presented[a]
             found == resolve(registry, claim.mechanism, "receive", claim.value)
             key   == <<claim.mechanism, "receive", claim.value>>
  <2>1. /\ step[a] = "resolving"
        /\ lookups' = [lookups EXCEPT ![a] = @ \union {<<key, found>>}]
        /\ \E c \in conclusion[a] :
             Return(a, Settled(acceptance[a], claim, c, found))
        /\ UNCHANGED <<presented, acceptance, modules, called, conclusion,
                       asked, node>>
      BY <1>6 DEF Resolve, At
  <2>2. found \in Option(Party)
      BY ResolveType DEF TypeOK, NodeTypeOK
  <2>3. claim \in Presented /\ key \in Key
      BY ChosenType DEF Presented, Key, Purpose
  <2> HIDE DEF claim, found, key
  <2>4. PICK c \in conclusion[a] :
          Return(a, Settled(acceptance[a], claim, c, found))
      BY <2>1
  <2>5. c \in Conclusion /\ c.verified # "refused"
      BY <2>1, <2>4 DEF TypeOK, Option, Fails
  <2>6. acceptance[a] \in Declared
      BY DEF TypeOK
  <2>7. Settled(acceptance[a], claim, c, found) \in Result
      BY <2>2, <2>3, <2>5, <2>6, SettledType
  <2>8. outcome' \in [Arrival -> Result] /\ step' \in [Arrival -> Step]
      BY <2>4, <2>7 DEF TypeOK, Return, Goto, Step
  <2>9. lookups' \in [Arrival -> SUBSET Lookup]
      BY <2>1, <2>2, <2>3 DEF TypeOK, Lookup
  <2> QED
      BY <2>1, <2>8, <2>9 DEF TypeOK, NodeTypeOK, node
<1> QED
    BY <1>1, <1>2, <1>3, <1>4, <1>5, <1>6 DEF Next, Authenticate

-----------------------------------------------------------------------------
(* The inductive invariant.                                                *)

\* A call nothing of which changed still follows.
LEMMA CallFrame ==
  ASSUME NEW a \in Arrival, CallFollows(a),
         presented'[a] = presented[a], acceptance'[a] = acceptance[a],
         modules'[a] = modules[a], outcome'[a] = outcome[a],
         step'[a] = step[a], conclusion'[a] = conclusion[a],
         asked'[a] = asked[a], lookups'[a] = lookups[a],
         a \in called' <=> a \in called
  PROVE  CallFollows(a)'
BY DEF CallFollows, Untold, Told, Chosen, Explained

\* Every step of the gate or of the node leaves every call following.
LEMMA FollowStep ==
  ASSUME TypeOK, CallsFollow, [Next]_vars
  PROVE  CallsFollow'
<1> SUFFICES ASSUME NEW b \in Arrival PROVE CallFollows(b)'
    BY DEF CallsFollow
<1>0. CallFollows(b)
    BY DEF CallsFollow
<1>1. CASE UNCHANGED vars
    BY <1>0, <1>1, CallFrame DEF vars, calls, local
<1>2. CASE Configure /\ UNCHANGED <<calls, local>>
    BY <1>0, <1>2, CallFrame DEF calls, local
<1>3. ASSUME NEW a \in Arrival, Call(a) PROVE CallFollows(b)'
  <2>1. CASE b # a
      BY <1>0, <1>3, <2>1, CallFrame DEF Call, Goto, TypeOK
  <2>2. CASE b = a
    <3>1. step[b] = "idle" /\ step'[b] = "consulting" /\ b \in called'
        BY <1>0, <1>3, <2>2 DEF Call, Goto, TypeOK, CallFollows
    <3>2. outcome'[b] = Pending /\ Untold(b)'
        BY <1>0, <1>3, <3>1 DEF Call, CallFollows, Untold
    <3> QED
        BY <3>1, <3>2 DEF CallFollows
  <2> QED
      BY <2>1, <2>2
<1>4. ASSUME NEW a \in Arrival, Consult(a) PROVE CallFollows(b)'
  <2>1. CASE b # a
      BY <1>0, <1>4, <2>1, CallFrame DEF Consult, Return, Goto, TypeOK
  <2>2. CASE b = a
    <3> DEFINE mechanism == presented[b].mechanism
    <3>0. /\ step[b] = "consulting" /\ b \in called
          /\ UNCHANGED <<presented, acceptance, modules, called, conclusion,
                         asked, lookups>>
        BY <1>4, <2>2 DEF Consult, At
    <3>1. Untold(b)' /\ outcome[b] = Pending /\ b \in called'
        BY <1>0, <3>0 DEF CallFollows, Untold
    <3>2. \/ /\ is_closed(acceptance[b])
             /\ Return(b, Err([refusal |-> "LocationAcceptsNothing"]))
          \/ /\ ~is_closed(acceptance[b])
             /\ ~declares(acceptance[b], mechanism)
             /\ Return(b, Err([refusal |-> "MechanismNotDeclared",
                               mechanism |-> mechanism]))
          \/ /\ declares(acceptance[b], mechanism)
             /\ Chosen(b) = {}
             /\ Return(b, Err([refusal |-> "NoAuthenticator",
                               mechanism |-> mechanism]))
          \/ /\ declares(acceptance[b], mechanism)
             /\ Chosen(b) # {}
             /\ Goto(b, "concluding")
             /\ UNCHANGED outcome
        BY <1>4, <2>2 DEF Consult
    <3>3. Chosen(b)' = Chosen(b)
        BY <3>0 DEF Chosen
    <3>4. CASE Goto(b, "concluding") /\ UNCHANGED outcome
               /\ declares(acceptance[b], mechanism) /\ Chosen(b) # {}
      <4>1. step'[b] = "concluding" /\ outcome'[b] = Pending
          BY <3>1, <3>4 DEF Goto, TypeOK
      <4> QED
          BY <3>0, <3>1, <3>3, <3>4, <4>1 DEF CallFollows
    <3>5. CASE \E r : Return(b, r)
      <4>1. step'[b] = "answered"
          BY <3>5 DEF Return, Goto, TypeOK
      <4>2. Explained(b)'
        <5>1. \A r : Return(b, r) => outcome'[b] = r
            BY DEF Return, TypeOK
        <5>2. CASE ~UNCHANGED outcome \/ ~Goto(b, "concluding")
            BY <3>0, <3>1, <3>2, <3>3, <5>1, <5>2 DEF Explained
        <5>3. CASE Goto(b, "concluding")
            BY <4>1, <5>3 DEF Goto, TypeOK
        <5> QED
            BY <5>2, <5>3
      <4> QED
          BY <3>1, <4>1, <4>2 DEF CallFollows
    <3> QED
        BY <3>2, <3>4, <3>5
  <2> QED
      BY <2>1, <2>2
<1>5. ASSUME NEW a \in Arrival, Conclude(a) PROVE CallFollows(b)'
  <2>1. CASE b # a
    <3>1. /\ UNCHANGED <<presented, acceptance, modules, called, lookups>>
          /\ asked'[b] = asked[b] /\ conclusion'[b] = conclusion[b]
          /\ step'[b] = step[b] /\ outcome'[b] = outcome[b]
        BY <1>5, <2>1 DEF Conclude, Return, Goto, TypeOK
    <3> QED
        BY <1>0, <3>1, CallFrame
  <2>2. CASE b = a
    <3>0. /\ step[b] = "concluding" /\ b \in called
          /\ UNCHANGED <<presented, acceptance, modules, called, lookups>>
        BY <1>5, <2>2 DEF Conclude, At
    <3> DEFINE Concludes(module, answer) ==
            /\ asked' = [asked EXCEPT ![b] = @ \union {module}]
            /\ conclusion' = [conclusion EXCEPT ![b] = answer]
            /\ \/ /\ Fails(answer)
                  /\ Return(b, Err([refusal |-> "NotProven",
                                    mechanism |-> presented[b].mechanism]))
               \/ /\ ~Fails(answer)
                  /\ Goto(b, "resolving")
                  /\ UNCHANGED outcome
    <3>a. PICK module \in Chosen(b) :
            \E answer \in conclude(module, presented[b]) :
              Concludes(module, answer)
        BY <1>5, <2>2 DEF Conclude
    <3>1. PICK answer \in conclude(module, presented[b]) :
            Concludes(module, answer)
        BY <3>a
    <3>2. /\ Untold(b) /\ outcome[b] = Pending
          /\ declares(acceptance[b], presented[b].mechanism)
        BY <1>0, <3>0 DEF CallFollows
    <3>3. asked'[b] = {module} /\ conclusion'[b] = answer
        BY <3>1, <3>2 DEF Untold, TypeOK
    <3>4. Told(b)' /\ lookups'[b] = {}
        BY <3>0, <3>1, <3>2, <3>3 DEF Told, Chosen, Untold
    <3>5. CASE /\ Fails(answer)
               /\ Return(b, Err([refusal |-> "NotProven",
                                 mechanism |-> presented[b].mechanism]))
      <4>1. /\ step'[b] = "answered"
            /\ outcome'[b] = Err([refusal |-> "NotProven",
                                  mechanism |-> presented[b].mechanism])
          BY <3>5 DEF Return, Goto, TypeOK
      <4>2. Explained(b)'
          BY <3>0, <3>3, <3>4, <3>5, <4>1 DEF Explained
      <4> QED
          BY <3>0, <4>1, <4>2 DEF CallFollows
    <3>6. CASE ~Fails(answer) /\ Goto(b, "resolving") /\ UNCHANGED outcome
      <4>1. step'[b] = "resolving" /\ outcome'[b] = Pending
          BY <3>2, <3>6 DEF Goto, TypeOK
      <4> QED
          BY <3>0, <3>3, <3>4, <3>6, <4>1 DEF CallFollows
    <3> QED
        BY <3>1, <3>5, <3>6
  <2> QED
      BY <2>1, <2>2
<1>6. ASSUME NEW a \in Arrival, Resolve(a) PROVE CallFollows(b)'
  <2> DEFINE claim == presented[a]
             found == resolve(registry, claim.mechanism, "receive", claim.value)
  <2>0. /\ step[a] = "resolving" /\ a \in called
        /\ lookups' = [lookups EXCEPT ![a] = @ \union
             {<<<<claim.mechanism, "receive", claim.value>>, found>>}]
        /\ \E c \in conclusion[a] :
             Return(a, Settled(acceptance[a], claim, c, found))
        /\ UNCHANGED <<presented, acceptance, modules, called, conclusion,
                       asked>>
      BY <1>6 DEF Resolve, At
  <2>1. CASE b # a
    <3>1. /\ lookups'[b] = lookups[b] /\ step'[b] = step[b]
          /\ outcome'[b] = outcome[b]
        BY <2>0, <2>1 DEF Return, Goto, TypeOK
    <3> QED
        BY <1>0, <2>0, <3>1, CallFrame
  <2>2. CASE b = a
    <3>1. Told(b) /\ ~Fails(conclusion[b]) /\ lookups[b] = {}
        BY <1>0, <2>0, <2>2 DEF CallFollows
    <3>2. found \in Option(Party)
        BY ResolveType DEF TypeOK, NodeTypeOK
    <3> HIDE DEF found
    <3>3. PICK c \in conclusion[a] :
            Return(a, Settled(acceptance[a], claim, c, found))
        BY <2>0
    <3>4. /\ step'[b] = "answered"
          /\ outcome'[b] = Settled(acceptance[b], presented[b], c, found)
        BY <2>2, <3>3 DEF Return, Goto, TypeOK
    <3>5. lookups'[b] = {<<<<presented[b].mechanism, "receive",
                            presented[b].value>>, found>>}
        BY <2>0, <2>2, <3>1 DEF TypeOK
    <3>6. Told(b)' /\ ~Fails(conclusion'[b])
        BY <2>0, <3>1 DEF Told, Chosen
    <3>7. Explained(b)'
        BY <2>0, <2>2, <3>2, <3>3, <3>4, <3>5, <3>6 DEF Explained
    <3> QED
        BY <2>0, <2>2, <3>4, <3>7 DEF CallFollows
  <2> QED
      BY <2>1, <2>2
<1> QED
    BY <1>1, <1>2, <1>3, <1>4, <1>5, <1>6 DEF Next, Authenticate

\* No call has been made at first, and so every call follows.
LEMMA InitFollows ==
  ASSUME Init
  PROVE  TypeOK /\ CallsFollow
<1>1. NodeTypeOK
    BY NodeAssumption, EmptySeq, OptionOf
    DEF Init, NodeInit, NodeTypeOK, closed, Declared
<1>2. Pending \in Result
    BY OptionOf DEF Pending, Result
<1>3. closed \in Declared /\ <<>> \in Seq(Authenticator)
    BY EmptySeq DEF closed, Declared
<1>4. {} \in Option(Conclusion)
    BY OptionOf
<1>5. TypeOK
    BY <1>1, <1>2, <1>3, <1>4 DEF Init, TypeOK, Step
<1>6. CallsFollow
    BY DEF Init, CallsFollow, CallFollows, Untold
<1> QED
    BY <1>5, <1>6

\* The two invariants together are inductive.
LEMMA Invariant == Spec => [](TypeOK /\ CallsFollow)
<1>1. Init => TypeOK /\ CallsFollow
    BY InitFollows
<1>2. TypeOK /\ CallsFollow /\ [Next]_vars => (TypeOK /\ CallsFollow)'
  <2> SUFFICES ASSUME TypeOK, CallsFollow, [Next]_vars
               PROVE  TypeOK' /\ CallsFollow'
      OBVIOUS
  <2>1. \A a \in Arrival : step[a] = "resolving" => ~Fails(conclusion[a])
      BY DEF CallsFollow, CallFollows
  <2> QED
      BY <2>1, TypeStep, FollowStep
<1> QED
    BY <1>1, <1>2, PTL DEF Spec

-----------------------------------------------------------------------------
(* The theorems.                                                           *)

\* Every variable of the gate keeps its type: in particular an identity never
\* stands at the strength "refused", whatever a module answers.
THEOREM TypeCorrect == Spec => []TypeOK
BY Invariant, PTL

\* At every step, what a call has asked, heard and answered follows from what
\* it was called with and the two answers it was given.
THEOREM CallsAlwaysFollow == Spec => []CallsFollow
BY Invariant, PTL

\* No module but the one of the presented, declared name is ever asked.
THEOREM NoOtherModuleIsAsked == Spec => []OnlyTheDeclaredNameIsAsked
<1>1. TypeOK /\ CallsFollow => OnlyTheDeclaredNameIsAsked
  <2> SUFFICES ASSUME TypeOK, CallsFollow,
                      NEW a \in Arrival, NEW module \in asked[a]
               PROVE  /\ module.mechanism = presented[a].mechanism
                      /\ module.mechanism \in acceptance[a].mechanisms
                      /\ \A other \in asked[a] : other = module
      BY DEF OnlyTheDeclaredNameIsAsked
  <2>1. ~Untold(a)
      BY DEF Untold
  <2>2. Told(a)
      BY <2>1 DEF CallsFollow, CallFollows, Explained, TypeOK, Step
  <2>3. module \in Chosen(a) /\ asked[a] = {module}
      BY <2>2 DEF Told
  <2>4. modules[a] \in Seq(Authenticator)
      BY DEF TypeOK
  <2>5. module.mechanism = presented[a].mechanism
      BY <2>3, <2>4, FindFinds DEF Chosen
  <2> QED
      BY <2>2, <2>3, <2>5 DEF Told, declares
<1> QED
    BY <1>1, Invariant, PTL

\* The registry is asked only after a module stood behind the value, about
\* that value, for receiving, once.
THEOREM RegistryIsAskedLast == Spec => []RegistryHearsOnlyTheVerified
<1>1. TypeOK /\ CallsFollow => RegistryHearsOnlyTheVerified
  <2> SUFFICES ASSUME TypeOK, CallsFollow,
                      NEW a \in Arrival, NEW lookup \in lookups[a]
               PROVE  /\ Stands(a)
                      /\ asked[a] # {}
                      /\ lookup[1] = <<presented[a].mechanism, "receive",
                                       presented[a].value>>
                      /\ \A other \in lookups[a] : other = lookup
      BY DEF RegistryHearsOnlyTheVerified
  <2>1. step[a] = "answered" /\ ~Untold(a)
      BY DEF CallsFollow, CallFollows, Untold, TypeOK, Step
  <2>2. /\ Told(a) /\ ~Fails(conclusion[a])
        /\ \E found : lookups[a] =
             {<<<<presented[a].mechanism, "receive", presented[a].value>>,
                found>>}
      BY <2>1 DEF CallsFollow, CallFollows, Explained
  <2> QED
      BY <2>2 DEF Told, Fails, Stands
<1> QED
    BY <1>1, Invariant, PTL

\* An undeclared mechanism is answered alike whatever modules are linked.
THEOREM ModulesAreNotProbed == Spec => []UndeclaredSeesNoModule
<1>1. TypeOK /\ CallsFollow => UndeclaredSeesNoModule
    BY DEF UndeclaredSeesNoModule, Comparable, Answered, CallsFollow,
           CallFollows, Explained, Told, declares
<1> QED
    BY <1>1, Invariant, PTL

\* An arrival nothing verified is answered alike whatever the registry holds.
THEOREM RegistryIsNotProbed == Spec => []RegistryUnseenWithoutProof
<1>1. TypeOK /\ CallsFollow => RegistryUnseenWithoutProof
  <2> SUFFICES ASSUME TypeOK, CallsFollow, NEW a \in Arrival, NEW b \in Arrival,
                      Comparable(a, b), acceptance[a] = acceptance[b],
                      modules[a] = modules[b], conclusion[a] = conclusion[b],
                      ~Stands(a)
               PROVE  outcome[a] = outcome[b]
      BY DEF RegistryUnseenWithoutProof
  <2>1. Fails(conclusion[a]) /\ Fails(conclusion[b])
      BY DEF Fails, Stands
  <2>2. Explained(a) /\ Explained(b) /\ presented[a] = presented[b]
      BY DEF Comparable, Answered, CallsFollow, CallFollows
  <2>3. Chosen(a) = Chosen(b)
      BY <2>2 DEF Chosen
  <2> QED
      BY <2>1, <2>2, <2>3 DEF Explained, Told, is_closed, declares
<1> QED
    BY <1>1, Invariant, PTL

\* What a location naming Parties takes, it takes naming none, as the same
\* identity.
THEOREM PartiesOnlyNarrow == Spec => []NamingPartiesOnlyNarrows
<1>1. TypeOK /\ CallsFollow => NamingPartiesOnlyNarrows
  <2> SUFFICES ASSUME TypeOK, CallsFollow, NEW a \in Arrival, NEW b \in Arrival,
                      Comparable(a, b),
                      acceptance[a].mechanisms = acceptance[b].mechanisms,
                      acceptance[a].parties = {},
                      modules[a] = modules[b], conclusion[a] = conclusion[b],
                      lookups[a] = lookups[b],
                      NEW id \in outcome[b].ok
               PROVE  id \in outcome[a].ok
      BY DEF NamingPartiesOnlyNarrows
  <2>1. Explained(a) /\ Explained(b) /\ presented[a] = presented[b]
      BY DEF Comparable, Answered, CallsFollow, CallFollows
  <2>2. /\ Told(b) /\ ~Fails(conclusion[b])
        /\ \E c \in conclusion[b], found \in Option(Party) :
             /\ lookups[b] = {<<<<presented[b].mechanism, "receive",
                                 presented[b].value>>, found>>}
             /\ outcome[b] = Settled(acceptance[b], presented[b], c, found)
      BY <2>1 DEF Explained, Err
  <2>3. /\ \E c \in conclusion[a], found \in Option(Party) :
             /\ lookups[a] = {<<<<presented[a].mechanism, "receive",
                                 presented[a].value>>, found>>}
             /\ outcome[a] = Settled(acceptance[a], presented[a], c, found)
      BY <2>1, <2>2 DEF Explained, Untold
  <2>4. PICK c \in conclusion[b], found \in Option(Party) :
          /\ lookups[b] = {<<<<presented[b].mechanism, "receive",
                              presented[b].value>>, found>>}
          /\ outcome[b] = Settled(acceptance[b], presented[b], c, found)
      BY <2>2
  <2>5. PICK d \in conclusion[a], heard \in Option(Party) :
          /\ lookups[a] = {<<<<presented[a].mechanism, "receive",
                              presented[a].value>>, heard>>}
          /\ outcome[a] = Settled(acceptance[a], presented[a], d, heard)
      BY <2>3
  <2>6. d = c
      BY <2>4, <2>5 DEF TypeOK, Option
  <2>7. heard = found
    <3> DEFINE key == <<presented[b].mechanism, "receive", presented[b].value>>
    <3>1. {<<key, heard>>} = {<<key, found>>}
        BY <2>1, <2>4, <2>5
    <3> HIDE DEF key
    <3>2. <<key, heard>> = <<key, found>>
        BY <3>1
    <3> QED
        BY <3>2
  <2>8. outcome[a] = Ok(identity_of(presented[a], c, found))
      BY <2>5, <2>6, <2>7 DEF Settled, permits, names_parties
  <2>9. outcome[b] = Ok(identity_of(presented[b], c, found))
      BY <2>4 DEF Settled, Err
  <2> QED
      BY <2>1, <2>8, <2>9 DEF Ok
<1> QED
    BY <1>1, Invariant, PTL

\* An identity comes from the module asked, from what it concluded and from
\* the claim.
LEMMA IdentityComesFrom ==
  ASSUME TypeOK, CallsFollow, NEW a \in Arrival, NEW id \in outcome[a].ok
  PROVE  /\ Told(a)
         /\ \E c \in conclusion[a], found \in Option(Party) :
              id = identity_of(presented[a], c, found)
<1>1. outcome[a] # Pending
    BY DEF Pending
<1>2. Explained(a)
    BY <1>1 DEF CallsFollow, CallFollows
<1>3. /\ Told(a)
      /\ \E c \in conclusion[a], found \in Option(Party) :
           outcome[a] = Settled(acceptance[a], presented[a], c, found)
    BY <1>2 DEF Explained, Err
<1>4. PICK c \in conclusion[a], found \in Option(Party) :
        outcome[a] = Settled(acceptance[a], presented[a], c, found)
    BY <1>3
<1>5. id = identity_of(presented[a], c, found)
    BY <1>4 DEF Settled, Err, Ok
<1> QED
    BY <1>3, <1>5

\* Two claims with the same proofs are never taken at two strengths by one
\* built-in verifier.
LEMMA OneStrengthPerProofs ==
  ASSUME NEW module \in BuiltIn, NEW one \in Presented, NEW other \in Presented,
         other.proofs = one.proofs,
         NEW v \in verify(module, one), NEW w \in verify(module, other)
  PROVE  w = v
<1>1. \A x \in Broker(one), y \in Broker(other) : x = y
    BY DEF Broker, proof
<1>2. \A x \in Circumstance(one), y \in Circumstance(other) : x = y
    BY DEF Circumstance
<1>3. \A x \in Handshake(one), y \in Handshake(other) : x = y
    BY DEF Handshake
<1>4. \A x \in PeerCredentials(one), y \in PeerCredentials(other) : x = y
    BY DEF PeerCredentials
<1> QED
    BY <1>1, <1>2, <1>3, <1>4 DEF verify, BuiltIn

\* How strongly a built-in verifier takes a claim is the transport's doing:
\* no other claim with the same proofs is taken at another strength.
THEOREM StrengthIsNotClaimed == Spec => []StrengthFollowsTheWord
<1>1. TypeOK /\ CallsFollow => StrengthFollowsTheWord
  <2> SUFFICES ASSUME TypeOK, CallsFollow, NEW a \in Arrival,
                      NEW id \in outcome[a].ok,
                      NEW module \in asked[a] \intersect BuiltIn,
                      NEW claim \in Claim, claim.proofs = presented[a].proofs,
                      NEW w \in verify(module, claim)
               PROVE  w = id.verified
      BY DEF StrengthFollowsTheWord
  <2>1. Told(a)
      BY IdentityComesFrom
  <2>2. conclusion[a] \in conclude(module, presented[a])
      BY <2>1 DEF Told
  <2>3. conclusion[a] = {of(v) : v \in verify(module, presented[a])}
      BY <2>2 DEF conclude, BuiltIn
  <2>4. PICK c \in conclusion[a], found \in Option(Party) :
          id = identity_of(presented[a], c, found)
      BY IdentityComesFrom
  <2>5. PICK v \in verify(module, presented[a]) : c = of(v)
      BY <2>3, <2>4
  <2>6. id.verified = v
      BY <2>4, <2>5 DEF identity_of, of
  <2>7. presented[a] \in Presented /\ claim \in Presented
      BY ChosenType, ClaimAssumption
  <2> QED
      BY <2>5, <2>6, <2>7, OneStrengthPerProofs
<1> QED
    BY <1>1, Invariant, PTL

\* An identity a verifier of passwords proved reads, by its first
\* principal.user, as the account that was presented, or as none.
THEOREM IdentitiesAreOneAccount == Spec => []OneAccountPerIdentity
<1>1. TypeOK /\ CallsFollow => OneAccountPerIdentity
  <2> SUFFICES ASSUME TypeOK, CallsFollow, NEW a \in Arrival,
                      NEW id \in outcome[a].ok,
                      NEW module \in asked[a] \intersect PasswordVerifier,
                      NEW read \in AccountOf[id.value],
                      NEW user \in First(id.evidence["principal.user"]),
                      NEW account \in AccountOf[user]
               PROVE  account = read
      BY DEF OneAccountPerIdentity
  <2>1. Told(a)
      BY IdentityComesFrom
  <2>2. PICK c \in conclusion[a], found \in Option(Party) :
          id = identity_of(presented[a], c, found)
      BY IdentityComesFrom
  <2>3. conclusion[a] \in conclude(module, presented[a])
      BY <2>1 DEF Told
  <2>4. /\ ReadsAsOneAccount(module, presented[a])
        /\ c.learned = NoPairs
      BY <2>2, <2>3 DEF conclude, PasswordVerifier, proven, of
  <2>5. presented[a] \in Presented
      BY ChosenType
  <2>6. /\ id.value = presented[a].value
        /\ id.evidence = merged(presented[a].evidence, NoPairs)
      BY <2>2, <2>4 DEF identity_of
  <2>7. presented[a].evidence \in Pairs /\ NoPairs \in Pairs
      BY <2>5, EmptySeq DEF Presented, Pairs, NoPairs
  <2>8. "principal.user" \in EvidenceName
      BY ClaimsAssumption
  <2>9. NoPairs["principal.user"] = <<>>
      BY <2>8 DEF NoPairs
  <2>10. id.evidence["principal.user"]
           = presented[a].evidence["principal.user"]
      BY <2>6, <2>7, <2>8, <2>9, MergedReads
  <2>11. account \in evidenced(presented[a])
      BY <2>10 DEF evidenced, evidence
  <2>12. same_account(presented[a], read)
      BY <2>4, <2>6 DEF ReadsAsOneAccount
  <2> QED
      BY <2>11, <2>12 DEF same_account
<1> QED
    BY <1>1, Invariant, PTL

\* A module appended to the slice is never found in place of one before it.
LEMMA FindKeeps ==
  ASSUME NEW S, NEW mods \in Seq(S), NEW module \in S, NEW mechanism,
         find(mods, mechanism) # {}
  PROVE  find(Append(mods, module), mechanism) = find(mods, mechanism)
<1> DEFINE more == Append(mods, module)
           First1(seq) == {i \in DOMAIN seq :
             /\ seq[i].mechanism = mechanism
             /\ \A j \in DOMAIN seq : j < i => seq[j].mechanism # mechanism}
<1>1. /\ Len(mods) \in Nat /\ DOMAIN mods = 1 .. Len(mods)
      /\ DOMAIN more = 1 .. Len(mods) + 1
      /\ \A i \in DOMAIN mods : more[i] = mods[i]
    BY LenProperties, AppendProperties
<1> HIDE DEF more
<1>2. find(mods, mechanism) = {mods[i] : i \in First1(mods)}
    BY DEF find
<1>3. find(more, mechanism) = {more[i] : i \in First1(more)}
    BY DEF find
<1>4. PICK k \in DOMAIN mods :
        /\ mods[k].mechanism = mechanism
        /\ \A j \in DOMAIN mods : j < k => mods[j].mechanism # mechanism
    BY <1>2
<1>5. First1(mods) = {k}
    BY <1>1, <1>4
<1>6. First1(more) = {k}
    BY <1>1, <1>4
<1>7. find(more, mechanism) = find(mods, mechanism)
    BY <1>1, <1>2, <1>3, <1>5, <1>6
<1> QED
    BY <1>7 DEF more

\* Linking a module never changes who answers for a name already served.
THEOREM LinkingIsSafe == Spec => LinkingNeverTakesOver
<1>1. TypeOK /\ [Next]_vars =>
        [\A mechanism \in Name :
           find(authenticators, mechanism) # {}
             => find(authenticators', mechanism)
                  = find(authenticators, mechanism)]_vars
  <2> SUFFICES ASSUME TypeOK, Next, NEW mechanism \in Name,
                      find(authenticators, mechanism) # {}
               PROVE  find(authenticators', mechanism)
                        = find(authenticators, mechanism)
      OBVIOUS
  <2>1. CASE \E module \in Authenticator : Link(module)
    <3>1. PICK module \in Authenticator : Link(module)
        BY <2>1
    <3> QED
        BY <3>1, FindKeeps DEF TypeOK, NodeTypeOK, Link
  <2>2. CASE UNCHANGED authenticators
      BY <2>2
  <2> QED
      BY <2>1, <2>2 DEF Next, Configure, Accept, FromParty, Associate,
         Authenticate, Call, Consult, Conclude, Resolve, node
<1> QED
    BY <1>1, TypeCorrect, PTL DEF Spec, LinkingNeverTakesOver

-----------------------------------------------------------------------------
(* Refinement.                                                             *)

\* The two modules share the vocabulary of Acceptance: an operator reached
\* through the instance is the operator itself.
LEMMA SameVerify ==
  \A module, claim : Promise!verify(module, claim) = verify(module, claim)
<1>1. \A claim : Promise!Broker(claim) = Broker(claim)
    BY DEF Promise!Broker, Broker, Promise!Verified, Verified, Promise!proof,
           proof, Promise!evidence, evidence, Promise!First, First
<1>2. \A claim : Promise!Circumstance(claim) = Circumstance(claim)
    BY DEF Promise!Circumstance, Circumstance
<1>3. \A claim : Promise!Handshake(claim) = Handshake(claim)
    BY DEF Promise!Handshake, Handshake, Promise!proof, proof
<1>4. \A claim : Promise!PeerCredentials(claim) = PeerCredentials(claim)
    BY DEF Promise!PeerCredentials, PeerCredentials, Promise!proof, proof
<1> QED
    BY <1>1, <1>2, <1>3, <1>4 DEF Promise!verify, verify

\* ... so is conclude ...
LEMMA SameConclude ==
  \A module, claim : Promise!conclude(module, claim) = conclude(module, claim)
<1>1. \A v : Promise!of(v) = of(v)
    BY DEF Promise!of, of, Promise!NoPairs, NoPairs
<1>2. Promise!proven = proven
    BY <1>1 DEF Promise!proven, proven
<1>3. \A module, claim :
        Promise!ReadsAsOneAccount(module, claim)
          <=> ReadsAsOneAccount(module, claim)
    BY DEF Promise!ReadsAsOneAccount, ReadsAsOneAccount, Promise!user_claim,
           user_claim, Promise!USERNAME, USERNAME, Promise!same_account,
           same_account, Promise!evidenced, evidenced, Promise!evidence,
           evidence, Promise!First, First
<1> QED
    BY <1>1, <1>2, <1>3, SameVerify DEF Promise!conclude, conclude

\* ... and so is resolve.
LEMMA SameResolve ==
  \A reg, mechanism, purpose, value :
    Promise!resolve(reg, mechanism, purpose, value)
      = resolve(reg, mechanism, purpose, value)
BY DEF Promise!resolve, resolve

\* What the chosen module may answer is what the promise says the first
\* serving module may answer.
LEMMA ChosenAnswers ==
  ASSUME TypeOK, NEW a \in Arrival, NEW module \in Chosen(a),
         NEW answer \in conclude(module, presented[a])
  PROVE  answer \in Promise!Answers(modules[a], presented[a])
<1>1. modules[a] \in Seq(Authenticator)
    BY DEF TypeOK
<1>2. PICK i \in DOMAIN modules[a] :
        /\ module = modules[a][i]
        /\ modules[a][i].mechanism = presented[a].mechanism
        /\ \A j \in DOMAIN modules[a] :
             modules[a][j].mechanism = presented[a].mechanism => i <= j
    BY <1>1, FindFinds DEF Chosen
<1> QED
    BY <1>2, SameConclude DEF Promise!Answers

\* A refusal that is promised is a promised result.
LEMMA ErrPromised ==
  ASSUME NEW acc, NEW mods, NEW reg, NEW claim, NEW r,
         Promise!PromisedRefusal(acc, mods, reg, claim, r)
  PROVE  Promise!Promised(acc, mods, reg, claim, Err(r))
BY DEF Err, Promise!Promised

\* Each answer of the gate is promised.
LEMMA ConsultPromised ==
  ASSUME TypeOK, NEW a \in Arrival, NEW reg, Consult(a)
  PROVE  \/ UNCHANGED outcome
         \/ Promise!Promised(acceptance[a], modules[a], reg, presented[a],
                             outcome'[a])
<1> DEFINE mechanism == presented[a].mechanism
           refused(r) == Promise!PromisedRefusal(acceptance[a], modules[a],
                                                 reg, presented[a], r)
<1>0. \A r : Return(a, Err(r)) => outcome'[a] = Err(r)
    BY DEF Return, TypeOK
<1>1. SUFFICES ASSUME ~UNCHANGED outcome
               PROVE  \E r : outcome'[a] = Err(r) /\ refused(r)
    BY ErrPromised
<1>2. CASE /\ is_closed(acceptance[a])
           /\ Return(a, Err([refusal |-> "LocationAcceptsNothing"]))
  <2>1. refused([refusal |-> "LocationAcceptsNothing"])
      BY <1>2 DEF is_closed, Promise!PromisedRefusal
  <2> QED
      BY <1>0, <1>2, <2>1
<1>3. CASE /\ ~is_closed(acceptance[a]) /\ ~declares(acceptance[a], mechanism)
           /\ Return(a, Err([refusal |-> "MechanismNotDeclared",
                             mechanism |-> mechanism]))
  <2>1. refused([refusal |-> "MechanismNotDeclared", mechanism |-> mechanism])
      BY <1>3 DEF is_closed, declares, Promise!PromisedRefusal
  <2> QED
      BY <1>0, <1>3, <2>1
<1>4. CASE /\ declares(acceptance[a], mechanism) /\ Chosen(a) = {}
           /\ Return(a, Err([refusal |-> "NoAuthenticator",
                             mechanism |-> mechanism]))
  <2>1. modules[a] \in Seq(Authenticator) /\ find(modules[a], mechanism) = {}
      BY <1>4 DEF Chosen, TypeOK
  <2>2. \A i \in DOMAIN modules[a] : modules[a][i].mechanism # mechanism
      BY <2>1, FindFinds
  <2>3. refused([refusal |-> "NoAuthenticator", mechanism |-> mechanism])
      BY <1>4, <2>2 DEF declares, Promise!PromisedRefusal
  <2> QED
      BY <1>0, <1>4, <2>3
<1> QED
    BY <1>1, <1>2, <1>3, <1>4 DEF Consult

\* The refusal of a call whose module refused is promised.
LEMMA ConcludePromised ==
  ASSUME TypeOK, CallsFollow, NEW a \in Arrival, NEW reg, Conclude(a)
  PROVE  \/ UNCHANGED outcome
         \/ Promise!Promised(acceptance[a], modules[a], reg, presented[a],
                             outcome'[a])
<1>1. CASE UNCHANGED outcome
    BY <1>1
<1>2. CASE ~UNCHANGED outcome
  <2>1. PICK module \in Chosen(a) :
          \E answer \in conclude(module, presented[a]) :
            /\ Fails(answer)
            /\ Return(a, Err([refusal |-> "NotProven",
                              mechanism |-> presented[a].mechanism]))
      BY <1>2 DEF Conclude
  <2>2. PICK answer \in conclude(module, presented[a]) :
          /\ Fails(answer)
          /\ Return(a, Err([refusal |-> "NotProven",
                            mechanism |-> presented[a].mechanism]))
      BY <2>1
  <2>3. answer \in Promise!Answers(modules[a], presented[a])
      BY ChosenAnswers
  <2>4. \A c \in answer : ~Promise!Stands(c)
      BY <2>2 DEF Fails, Promise!Stands
  <2>5. presented[a].mechanism \in acceptance[a].mechanisms
      BY DEF Conclude, At, CallsFollow, CallFollows, declares
  <2>6. outcome'[a] = Err([refusal |-> "NotProven",
                           mechanism |-> presented[a].mechanism])
      BY <2>2 DEF Return, TypeOK
  <2>7. Promise!PromisedRefusal(acceptance[a], modules[a], reg, presented[a],
          [refusal |-> "NotProven", mechanism |-> presented[a].mechanism])
      BY <2>3, <2>4, <2>5 DEF Promise!PromisedRefusal
  <2> QED
      BY <2>6, <2>7, ErrPromised
<1> QED
    BY <1>1, <1>2

\* The answer made of the registry's answer is promised.
LEMMA ResolvePromised ==
  ASSUME TypeOK, CallsFollow, NEW a \in Arrival, Resolve(a)
  PROVE  Promise!Promised(acceptance[a], modules[a], registry, presented[a],
                          outcome'[a])
<1> DEFINE claim == presented[a]
           acc   == acceptance[a]
           found == resolve(registry, claim.mechanism, "receive", claim.value)
<1>1. /\ step[a] = "resolving"
      /\ \E c \in conclusion[a] : Return(a, Settled(acc, claim, c, found))
    BY DEF Resolve, At
<1>2. found \in Option(Party) /\ found = Promise!Bound(registry, claim)
    BY ResolveType, SameResolve DEF TypeOK, NodeTypeOK, Promise!Bound
<1>3. claim \in Presented
    BY ChosenType
<1>4. /\ claim.mechanism \in acc.mechanisms
      /\ \E module \in Chosen(a) : conclusion[a] \in conclude(module, claim)
      /\ ~Fails(conclusion[a])
    BY <1>1 DEF CallsFollow, CallFollows, Told, declares
<1>5. conclusion[a] \in Promise!Answers(modules[a], claim)
    BY <1>4, ChosenAnswers
<1> HIDE DEF claim, acc, found
<1>6. PICK c \in conclusion[a] : Return(a, Settled(acc, claim, c, found))
    BY <1>1
<1>7. c \in Conclusion /\ Promise!Stands(c)
    BY <1>4, <1>6 DEF TypeOK, Option, Fails, Promise!Stands
<1>8. outcome'[a] = Settled(acc, claim, c, found)
    BY <1>6 DEF Return, TypeOK
<1>9. CASE \E party \in found : ~permits(acc, party)
  <2>1. PICK party \in found : ~permits(acc, party)
      BY <1>9
  <2>2. found = {party} /\ party \in Party
      BY <1>2, <2>1, OptionIsSingle
  <2>3. (CHOOSE p \in found : TRUE) = party
      BY <2>2
  <2>4. outcome'[a] = Err([refusal |-> "PartyNotPermitted", party |-> party])
      BY <1>8, <1>9, <2>3 DEF Settled
  <2>5. acc.parties # {} /\ party \notin acc.parties
      BY <2>1 DEF permits
  <2>6. Promise!PromisedRefusal(acc, modules[a], registry, claim,
          [refusal |-> "PartyNotPermitted", party |-> party])
      BY <1>2, <1>4, <1>5, <1>7, <2>2, <2>5 DEF Promise!PromisedRefusal
  <2> QED
      BY <2>4, <2>6, ErrPromised DEF claim, acc
<1>10. CASE found = {} /\ names_parties(acc)
  <2>1. outcome'[a] = Err([refusal |-> "NoParty", mechanism |-> claim.mechanism])
      BY <1>8, <1>10 DEF Settled
  <2>2. Promise!PromisedRefusal(acc, modules[a], registry, claim,
          [refusal |-> "NoParty", mechanism |-> claim.mechanism])
      BY <1>2, <1>4, <1>5, <1>7, <1>10 DEF Promise!PromisedRefusal,
                                           names_parties
  <2> QED
      BY <2>1, <2>2, ErrPromised DEF claim, acc
<1>11. CASE /\ ~\E party \in found : ~permits(acc, party)
            /\ ~(found = {} /\ names_parties(acc))
  <2> DEFINE id == identity_of(claim, c, found)
  <2>1. outcome'[a] = Ok(id)
      BY <1>8, <1>11 DEF Settled
  <2>2. acc.parties # {} => \E party \in acc.parties : found = {party}
      BY <1>2, <1>11, OptionIsSingle DEF permits, names_parties
  <2>3. claim.evidence \in Pairs /\ c.learned \in Pairs
      BY <1>3, <1>7 DEF Presented, Conclusion
  <2>4. id.evidence = merged(claim.evidence, c.learned)
      BY DEF identity_of
  <2>5. Promise!EvidenceHonest(claim, c, id)
    <3>1. merged(claim.evidence, c.learned) \in Pairs
        BY <2>3, MergedReads
    <3>2. DOMAIN id.evidence = EvidenceName
        BY <2>4, <3>1 DEF Pairs
    <3>3. \A name \in EvidenceName : id.evidence[name] =
            IF c.learned[name] # <<>> THEN c.learned[name]
                                      ELSE claim.evidence[name]
        BY <2>3, <2>4, MergedReads
    <3> HIDE DEF id
    <3> QED
        BY <3>2, <3>3 DEF Promise!EvidenceHonest
  <2>6. /\ id.mechanism = claim.mechanism /\ id.value = claim.value
        /\ id.established = claim.established /\ id.verified = c.verified
        /\ id.party = found
      BY DEF identity_of
  <2> HIDE DEF id
  <2>7. Promise!PromisedIdentity(acc, modules[a], registry, claim, id)
      BY <1>2, <1>4, <1>5, <1>7, <2>2, <2>5, <2>6
      DEF Promise!PromisedIdentity
  <2> QED
      BY <2>1, <2>7 DEF Ok, Promise!Promised, claim, acc
<1> QED
    BY <1>9, <1>10, <1>11

\* The gate's initial states are the promise's.
LEMMA PromiseInit == ASSUME Init PROVE Promise!Init
BY DEF Init, NodeInit, closed, Pending, Promise!Init, Promise!NodeInit,
       Promise!closed, Promise!Pending

\* A step of one call's outcome alone is a step of the promise.
LEMMA DecideStep ==
  ASSUME TypeOK, NEW a \in Arrival, a \in called, outcome[a] = Pending,
         \E r : outcome' = [outcome EXCEPT ![a] = r],
         UNCHANGED <<presented, acceptance, modules, called, node>>,
         Promise!Promised(acceptance[a], modules[a], registry, presented[a],
                          outcome'[a])
  PROVE  Promise!Next
<1>1. \A b \in Arrival \ {a} : outcome'[b] = outcome[b]
    BY DEF TypeOK
<1>2. Promise!Decide(a)
    BY <1>1 DEF Promise!Decide, Promise!Pending, Pending, Promise!node, node
<1> QED
    BY <1>2 DEF Promise!Next

\* Every step of the gate is a step of the promise or none.
LEMMA PromiseStep ==
  ASSUME TypeOK, CallsFollow, [Next]_vars
  PROVE  [Promise!Next]_Promise!vars
<1>1. CASE UNCHANGED vars
    BY <1>1 DEF vars, node, calls, Promise!vars, Promise!node, Promise!calls
<1>2. CASE Configure /\ UNCHANGED <<calls, local>>
  <2>1. Promise!Configure
      BY <1>2 DEF Configure, Accept, FromParty, Link, Associate, accepting,
         from_party, Authenticator, BuiltIn, Technology, PasswordVerifier,
         Option, Promise!Configure, Promise!Accept, Promise!FromParty,
         Promise!Link, Promise!Associate, Promise!accepting,
         Promise!from_party, Promise!Authenticator, Promise!BuiltIn,
         Promise!Technology, Promise!PasswordVerifier, Promise!Option
  <2> QED
      BY <1>2, <2>1 DEF Promise!Next, Promise!calls, calls
<1>3. ASSUME NEW a \in Arrival, Call(a) PROVE Promise!Next
  <2>1. Promise!Call(a)
      BY <1>3 DEF Call, Promise!Call, Promise!node, node
  <2> QED
      BY <2>1 DEF Promise!Next
<1>4. ASSUME NEW a \in Arrival, Consult(a)
      PROVE  Promise!Next \/ UNCHANGED Promise!vars
  <2>1. /\ a \in called /\ outcome[a] = Pending
        /\ UNCHANGED <<presented, acceptance, modules, called, node>>
        /\ \/ UNCHANGED outcome
           \/ \E r : outcome' = [outcome EXCEPT ![a] = r]
      BY <1>4 DEF Consult, At, Return, CallsFollow, CallFollows
  <2>2. CASE UNCHANGED outcome
      BY <2>1, <2>2 DEF node, Promise!vars, Promise!node, Promise!calls
  <2>3. CASE ~UNCHANGED outcome
      BY <1>4, <2>1, <2>3, ConsultPromised, DecideStep
  <2> QED
      BY <2>2, <2>3
<1>5. ASSUME NEW a \in Arrival, Conclude(a)
      PROVE  Promise!Next \/ UNCHANGED Promise!vars
  <2>1. /\ a \in called /\ outcome[a] = Pending
        /\ UNCHANGED <<presented, acceptance, modules, called, node>>
        /\ \/ UNCHANGED outcome
           \/ \E r : outcome' = [outcome EXCEPT ![a] = r]
      BY <1>5 DEF Conclude, At, Return, CallsFollow, CallFollows
  <2>2. CASE UNCHANGED outcome
      BY <2>1, <2>2 DEF node, Promise!vars, Promise!node, Promise!calls
  <2>3. CASE ~UNCHANGED outcome
      BY <1>5, <2>1, <2>3, ConcludePromised, DecideStep
  <2> QED
      BY <2>2, <2>3
<1>6. ASSUME NEW a \in Arrival, Resolve(a) PROVE Promise!Next
  <2>1. /\ a \in called /\ outcome[a] = Pending
        /\ UNCHANGED <<presented, acceptance, modules, called, node>>
        /\ \E r : outcome' = [outcome EXCEPT ![a] = r]
      BY <1>6 DEF Resolve, At, Return, CallsFollow, CallFollows
  <2> QED
      BY <1>6, <2>1, ResolvePromised, DecideStep
<1> QED
    BY <1>1, <1>2, <1>3, <1>4, <1>5, <1>6 DEF Next, Authenticate

\* The gate implements its promise: however the steps of the calls and the
\* changes of the node interleave, each answer is one GatePromise allows for
\* what the call was made with and the registry of one moment.
THEOREM GateImplementsPromise == Spec => GateKeepsItsPromise
<1>1. Init => Promise!Init
    BY PromiseInit
<1>2. TypeOK /\ CallsFollow /\ [Next]_vars => [Promise!Next]_Promise!vars
    BY PromiseStep
<1> QED
    BY <1>1, <1>2, Invariant, PTL DEF Spec, GateKeepsItsPromise, Promise!Spec

=============================================================================
