----------------------------- MODULE X509Proofs -----------------------------
(***************************************************************************)
(* Theorems about X509, for any certificates, anchors, lists, claims and   *)
(* instants: that what is kept is what a walk would prove now, and what a  *)
(* kept path says of its certificates, their alternative signatures, their *)
(* revocation and their names.                                             *)
(***************************************************************************)
EXTENDS X509, TLAPS, SequenceTheorems, FiniteSetTheorems, Least

-----------------------------------------------------------------------------
(* Sequences.                                                              *)

\* A sequence has finitely many elements, all of its type.
LEMMA ElementsOf ==
  ASSUME NEW S, NEW s \in Seq(S)
  PROVE  IsFiniteSet(ToSet(s)) /\ ToSet(s) \subseteq S
<1>1. /\ Len(s) \in Nat /\ DOMAIN s = 1 .. Len(s)
      /\ s \in [1 .. Len(s) -> S]
    BY LenProperties
<1>2. ToSet(s) \subseteq S
    BY <1>1 DEF ToSet
<1>3. s \in Surjection(1 .. Len(s), ToSet(s))
    BY <1>1 DEF ToSet, Surjection
<1>4. IsFiniteSet(1 .. Len(s))
    BY <1>1, FS_Interval
<1> QED
    BY <1>2, <1>3, <1>4, FS_Surjection

\* A permutation of some elements of a finite set is a sequence of them.
LEMMA PermutationIsSeq ==
  ASSUME NEW T, IsFiniteSet(T), NEW s \in SetToAllKPermutations(T)
  PROVE  s \in Seq(T)
<1>1. PICK U \in SUBSET T : s \in SetToSeqs(U)
    BY DEF SetToAllKPermutations
<1>2. s \in [1 .. Cardinality(U) -> U]
    BY <1>1 DEF SetToSeqs
<1>3. Cardinality(U) \in Nat
    BY <1>1, FS_Subset, FS_CardinalityType
<1>4. s \in Seq(U)
    BY <1>2, <1>3, SeqDef
<1> QED
    BY <1>1, <1>4, SeqMonotonic

\* The last of a path is its anchor, and what is before it is the rest.
LEMMA PathParts ==
  ASSUME NEW S, NEW below \in Seq(S), NEW anchor \in S
  PROVE  LET path == Append(below, anchor) IN
         /\ path \in Seq(S)
         /\ Len(path) = Len(below) + 1
         /\ DOMAIN path = 1 .. Len(below) + 1
         /\ \A i \in 1 .. Len(below) : path[i] = below[i]
         /\ path[Len(below) + 1] = anchor
         /\ Last(path) = anchor
         /\ Front(path) = below
         /\ ToSet(path) = ToSet(below) \union {anchor}
<1> DEFINE path == Append(below, anchor)
<1>1. Len(below) \in Nat /\ DOMAIN below = 1 .. Len(below)
    BY LenProperties
<1>2. /\ path \in Seq(S)
      /\ Len(path) = Len(below) + 1
      /\ \A i \in 1 .. Len(below) : path[i] = below[i]
      /\ path[Len(below) + 1] = anchor
    BY AppendProperties
<1>3. DOMAIN path = 1 .. Len(below) + 1
    BY <1>2, LenProperties
<1> HIDE DEF path
<1>4. Front(path) = below
  <2>1. \A i \in 1 .. Len(below) : path[i] \in S
      BY <1>2, ElementOfSeq
  <2>2. /\ SubSeq(path, 1, Len(below)) \in Seq(S)
        /\ Len(SubSeq(path, 1, Len(below))) = Len(below)
        /\ \A i \in 1 .. Len(below) : SubSeq(path, 1, Len(below))[i] = path[i]
      BY <1>1, <2>1, SubSeqProperties, Z3
  <2>3. SubSeq(path, 1, Len(below)) = below
      BY <1>2, <2>2, SeqEqual
  <2> QED
      BY <1>1, <1>2, <2>3 DEF Front
<1>5. Last(path) = anchor
    BY <1>2 DEF Last
<1>6. ToSet(path) = ToSet(below) \union {anchor}
    BY <1>1, <1>2, <1>3 DEF ToSet
<1> QED
    BY <1>2, <1>3, <1>4, <1>5, <1>6 DEF path

-----------------------------------------------------------------------------
(* A walk, and the path it answers with.                                   *)

\* A walk starts at the leaf sent and takes certificates that were sent.
LEMMA WalkForm ==
  ASSUME NEW chain \in Sent, chain # <<>>, NEW held, NEW usage, NEW lists,
         NEW time, NEW w \in Walks(chain, held, usage, lists, time)
  PROVE  /\ w.below \in Seq(Certificate)
         /\ 1 <= Len(w.below)
         /\ w.below[1] = chain[1]
         /\ ToSet(w.below) \subseteq ToSet(chain)
<1>0. chain \in Seq(Certificate)
    BY WireAssumption
<1>1. /\ Head(chain) \in Certificate /\ Head(chain) = chain[1]
      /\ Head(chain) \in ToSet(chain)
  <2>1. Len(chain) \in Nat \ {0} /\ DOMAIN chain = 1 .. Len(chain)
      BY <1>0, EmptySeq, LenProperties
  <2>2. 1 \in DOMAIN chain
      BY <2>1
  <2> QED
      BY <1>0, <2>2, HeadTailProperties DEF ToSet
<1>2. Tail(chain) \in Seq(Certificate) /\ ToSet(Tail(chain)) \subseteq ToSet(chain)
  <2>1. /\ Tail(chain) \in Seq(Certificate)
        /\ Len(Tail(chain)) = Len(chain) - 1
        /\ \A i \in 1 .. Len(Tail(chain)) : Tail(chain)[i] = chain[i + 1]
      BY <1>0, HeadTailProperties
  <2>2. /\ Len(chain) \in Nat /\ DOMAIN chain = 1 .. Len(chain)
        /\ DOMAIN Tail(chain) = 1 .. Len(Tail(chain))
      BY <1>0, <2>1, LenProperties
  <2> QED
      BY <2>1, <2>2 DEF ToSet
<1> DEFINE Issuers == {c \in ToSet(Tail(chain)) : c.reads}
<1>3. PICK above \in SetToAllKPermutations(Issuers) :
        w.below = <<Head(chain)>> \o above
    BY DEF Walks, leaf, intermediates
<1>4. IsFiniteSet(Issuers) /\ Issuers \subseteq Certificate
  <2>1. IsFiniteSet(ToSet(Tail(chain))) /\ ToSet(Tail(chain)) \subseteq Certificate
      BY <1>2, ElementsOf
  <2>2. Issuers \in SUBSET ToSet(Tail(chain))
      OBVIOUS
  <2> QED
      BY <2>1, <2>2, FS_Subset
<1>5. above \in Seq(Issuers)
    BY <1>3, <1>4, PermutationIsSeq
<1>6. above \in Seq(Certificate) /\ ToSet(above) \subseteq Issuers
    BY <1>4, <1>5, SeqMonotonic, ElementsOf
<1>7. <<Head(chain)>> \in Seq(Certificate) /\ Len(<<Head(chain)>>) = 1
    BY <1>1
<1>8. /\ w.below \in Seq(Certificate)
      /\ Len(w.below) = 1 + Len(above)
      /\ \A i \in 1 .. 1 + Len(above) :
           w.below[i] = IF i <= 1 THEN <<Head(chain)>>[i] ELSE above[i - 1]
    BY <1>3, <1>6, <1>7, ConcatProperties
<1>9. /\ Len(above) \in Nat /\ DOMAIN above = 1 .. Len(above)
      /\ DOMAIN w.below = 1 .. Len(w.below)
    BY <1>6, <1>8, LenProperties
<1>10. w.below[1] = chain[1] /\ 1 <= Len(w.below)
    BY <1>1, <1>8, <1>9
<1>11. ASSUME NEW i \in 1 .. Len(w.below)
       PROVE  w.below[i] \in ToSet(chain)
  <2>1. CASE i = 1
      BY <1>1, <1>10, <2>1
  <2>2. CASE i # 1
    <3>1. w.below[i] = above[i - 1] /\ i - 1 \in DOMAIN above
        BY <1>8, <1>9, <1>11, <2>2
    <3>2. w.below[i] \in Issuers
        BY <1>6, <3>1 DEF ToSet
    <3> QED
        BY <1>2, <3>2
  <2> QED
      BY <2>1, <2>2
<1>12. ToSet(w.below) \subseteq ToSet(chain)
    BY <1>9, <1>11 DEF ToSet
<1> QED
    BY <1>8, <1>10, <1>12

\* What a walk has checked, by name.
LEMMA WalkChecks ==
  ASSUME NEW chain, NEW held, NEW usage, NEW lists, NEW time,
         NEW w \in Walks(chain, held, usage, lists, time)
  PROVE  /\ Issued(Last(w.below), w.reached)
         /\ \A i \in 2 .. Len(w.below) :
              Issued(w.below[i - 1], w.below[i]) /\ w.below[i].is_ca
         /\ \A c \in ToSet(w.below) :
              InsideItsWindow(c, time) /\ validate(usage, c)
         /\ \A l \in lists, c \in ToSet(w.below) : NotRevoked(c, l)
BY DEF Walks, Checked

\* The anchor a path ends in is one held, of the key the walk reached.
LEMMA PathForm ==
  ASSUME NEW chain, NEW held \in AnchorSets, NEW usage, NEW lists, NEW time,
         NEW path \in verify(chain, held, usage, lists, time)
  PROVE  \E w \in Walks(chain, held, usage, lists, since_unix_epoch(time)),
            anchor \in ToSet(held) :
           /\ path = Append(w.below, anchor)
           /\ anchor.key = w.reached.key
           /\ anchor \in Certificate
<1>1. PICK w \in Walks(chain, held, usage, lists, since_unix_epoch(time)) :
        \E anchor \in find(held, w.reached.key) : path = Append(w.below, anchor)
    BY DEF verify
<1>2. PICK anchor \in find(held, w.reached.key) : path = Append(w.below, anchor)
    BY <1>1
<1>3. anchor \in ToSet(held) /\ anchor.key = w.reached.key
    BY <1>2 DEF find, ToSet
<1>4. held \in Seq(Certificate)
    BY WireAssumption
<1>5. anchor \in Certificate
    BY <1>3, <1>4, ElementsOf
<1> QED
    BY <1>1, <1>2, <1>3, <1>5

\* A path by its parts: the certificates a walk took, and the anchor.
LEMMA PathOfWalk ==
  ASSUME NEW chain \in Sent, chain # <<>>, NEW held \in AnchorSets, NEW usage,
         NEW lists, NEW time,
         NEW path \in verify(chain, held, usage, lists, time)
  PROVE  \E w \in Walks(chain, held, usage, lists, since_unix_epoch(time)),
            anchor \in ToSet(held) :
           /\ anchor.key = w.reached.key
           /\ anchor \in Certificate
           /\ w.below \in Seq(Certificate) /\ 1 <= Len(w.below)
           /\ w.below[1] = chain[1]
           /\ ToSet(w.below) \subseteq ToSet(chain)
           /\ path = Append(w.below, anchor)
           /\ path \in Seq(Certificate)
           /\ Len(path) = Len(w.below) + 1
           /\ DOMAIN path = 1 .. Len(w.below) + 1
           /\ \A i \in 1 .. Len(w.below) : path[i] = w.below[i]
           /\ path[Len(w.below) + 1] = anchor
           /\ Last(path) = anchor
           /\ Front(path) = w.below
           /\ ToSet(path) = ToSet(w.below) \union {anchor}
<1>1. PICK w \in Walks(chain, held, usage, lists, since_unix_epoch(time)),
           anchor \in ToSet(held) :
        /\ path = Append(w.below, anchor)
        /\ anchor.key = w.reached.key
        /\ anchor \in Certificate
    BY PathForm
<1>2. /\ w.below \in Seq(Certificate) /\ 1 <= Len(w.below)
      /\ w.below[1] = chain[1]
      /\ ToSet(w.below) \subseteq ToSet(chain)
    BY WalkForm
<1>3. /\ path \in Seq(Certificate)
      /\ Len(path) = Len(w.below) + 1
      /\ DOMAIN path = 1 .. Len(w.below) + 1
      /\ \A i \in 1 .. Len(w.below) : path[i] = w.below[i]
      /\ path[Len(w.below) + 1] = anchor
      /\ Last(path) = anchor
      /\ Front(path) = w.below
      /\ ToSet(path) = ToSet(w.below) \union {anchor}
    BY <1>1, <1>2, PathParts
<1> QED
    BY <1>1, <1>2, <1>3

-----------------------------------------------------------------------------
(* How long a path holds.                                                  *)

\* A walk that was made stands for as long as its certificates do.
LEMMA WalkLasts ==
  ASSUME NEW chain \in Sent, chain # <<>>, NEW held, NEW usage, NEW lists,
         NEW early \in Int, NEW late \in Int, early <= late,
         NEW w \in Walks(chain, held, usage, lists, early),
         \A c \in ToSet(w.below) : late <= c.not_after
  PROVE  w \in Walks(chain, held, usage, lists, late)
<1>1. w.below \in Seq(Certificate)
    BY WalkForm
<1>2. ToSet(w.below) \subseteq Certificate
    BY <1>1, ElementsOf
<1>3. \A c \in ToSet(w.below) : InsideItsWindow(c, early)
    BY WalkChecks
<1>4. \A c \in ToSet(w.below) : InsideItsWindow(c, late)
    BY <1>2, <1>3, WireAssumption DEF InsideItsWindow
<1> QED
    BY <1>4 DEF Walks

\* Path::not_after is no later than the end of any certificate on it.
LEMMA NotAfterIsLeast ==
  ASSUME NEW chain \in Sent, chain # <<>>, NEW held \in AnchorSets, NEW usage,
         NEW lists, NEW time \in Int,
         NEW path \in verify(chain, held, usage, lists, time)
  PROVE  /\ not_after(path) \in Int
         /\ \A c \in ToSet(path) : not_after(path) <= c.not_after
<1>1. PICK w \in Walks(chain, held, usage, lists, since_unix_epoch(time)),
           anchor \in ToSet(held) :
        /\ anchor \in Certificate
        /\ w.below \in Seq(Certificate)
        /\ ToSet(path) = ToSet(w.below) \union {anchor}
    BY PathOfWalk
<1> DEFINE Ends == {MaxI64} \union {c.not_after : c \in ToSet(path)}
           end  == anchor.not_after
           b    == IF end <= MaxI64 /\ end <= 0 THEN end
                   ELSE IF MaxI64 <= 0 THEN MaxI64 ELSE 0
<1>2. ToSet(w.below) \subseteq Certificate
    BY <1>1, ElementsOf
<1>3. MaxI64 \in Int /\ end \in Int
    BY <1>1, X509Assumption, WireAssumption
<1>4. \A c \in ToSet(w.below) : c.not_after \in Int /\ 0 <= c.not_after
  <2>1. \A c \in ToSet(w.below) : InsideItsWindow(c, since_unix_epoch(time))
      BY WalkChecks
  <2>2. since_unix_epoch(time) \in Int /\ 0 <= since_unix_epoch(time)
      BY DEF since_unix_epoch
  <2> QED
      BY <1>2, <2>1, <2>2, WireAssumption DEF InsideItsWindow
<1>5. b \in Int /\ b <= 0 /\ b <= end /\ b <= MaxI64
    BY <1>3
<1> HIDE DEF b
<1>6. Ends \in SUBSET Int /\ Ends # {}
    BY <1>1, <1>3, <1>4
<1>7. \A x \in Ends : b <= x
    BY <1>1, <1>3, <1>4, <1>5
<1>8. \E x \in Ends : \A y \in Ends : x <= y
    BY <1>5, <1>6, <1>7, LeastInteger
<1>9. not_after(path) \in Ends /\ \A y \in Ends : not_after(path) <= y
    BY <1>8 DEF not_after, Min
<1> QED
    BY <1>6, <1>9

\* Until then a fresh walk of the same chain proves the same path, whichever
\* side of the epoch the clock is.
LEMMA PathLasts ==
  ASSUME NEW chain \in Sent, chain # <<>>, NEW held \in AnchorSets, NEW usage,
         NEW lists, NEW time \in Int,
         NEW path \in verify(chain, held, usage, lists, time),
         time + 1 <= not_after(path)
  PROVE  path \in verify(chain, held, usage, lists, time + 1)
<1>1. PICK w \in Walks(chain, held, usage, lists, since_unix_epoch(time)) :
        /\ \E anchor \in find(held, w.reached.key) : path = Append(w.below, anchor)
        /\ ~ \/ held = <<>>
             \/ \E c \in ToSet(held) \union {leaf(chain)} : ~c.reads
             \/ \E l \in lists : ~Usable(l)
    BY DEF verify
<1>2. ToSet(w.below) \subseteq ToSet(path) /\ ToSet(w.below) \subseteq Certificate
  <2>1. PICK anchor \in find(held, w.reached.key) : path = Append(w.below, anchor)
      BY <1>1
  <2>2. w.below \in Seq(Certificate)
      BY WalkForm
  <2>3. held \in Seq(Certificate) /\ anchor \in ToSet(held)
      BY <2>1, WireAssumption DEF find, ToSet
  <2>4. anchor \in Certificate
      BY <2>3, ElementsOf
  <2> QED
      BY <2>1, <2>2, <2>4, PathParts, ElementsOf
<1> DEFINE early == since_unix_epoch(time)
           late  == since_unix_epoch(time + 1)
<1>3. early \in Int /\ late \in Int /\ early <= late
    BY DEF since_unix_epoch
<1>4. \A c \in ToSet(w.below) : late <= c.not_after
  <2> SUFFICES ASSUME NEW c \in ToSet(w.below) PROVE late <= c.not_after
      OBVIOUS
  <2>1. c.not_after \in Int /\ time + 1 <= c.not_after
      BY <1>2, NotAfterIsLeast, WireAssumption
  <2>2. early <= c.not_after
      BY WalkChecks DEF InsideItsWindow
  <2>3. late = time + 1 \/ late = early
      BY DEF since_unix_epoch
  <2> QED
      BY <2>1, <2>2, <2>3
<1> HIDE DEF early, late
<1>5. w \in Walks(chain, held, usage, lists, late)
    BY <1>1, <1>3, <1>4, WalkLasts DEF early
<1> QED
    BY <1>1, <1>5 DEF verify, late

-----------------------------------------------------------------------------
(* The inductive invariant: what is kept is what verifying the same chain  *)
(* for the same claim would keep now.                                      *)

Kept(p) ==
  /\ p.chain \in Sent /\ p.claim \in Text
  /\ p.usage \in Usage /\ p.hybrid \in Hybrid
  /\ p.chain # <<>>
  /\ names(leaf(p.chain), p.claim) = {TRUE}
  /\ p.path \in verify(p.chain, anchors, p.usage, revocation, now)
  /\ verify_alt(p.path, p.hybrid)

StillProves ==
  /\ now \in MinTime .. MaxTime
  /\ anchors \in AnchorSets
  /\ revocation \in ListSets
  /\ \A p \in proved : proved = {p} /\ Kept(p)

\* A new node keeps nothing.
LEMMA InitStillProves == Init => StillProves
BY X509Assumption DEF Init, StillProves

\* Verifying keeps one proof of now, refusing changes nothing, and time lets
\* go of what it would no longer prove.
LEMMA StillProvesStep ==
  ASSUME StillProves, [Next]_vars
  PROVE  StillProves'
<1>1. ASSUME NEW sent \in Sent, NEW claim \in Text, NEW usage \in Usage,
             NEW hybrid \in Hybrid, Verify(sent, claim, usage, hybrid)
      PROVE  StillProves'
  <2>1. PICK proof \in Proofs(sent, claim, usage, hybrid) : proved' = {proof}
      BY <1>1 DEF Verify
  <2>2. UNCHANGED <<now, anchors, revocation>>
      BY <1>1 DEF Verify
  <2>3. PICK chain \in from_der(sent) :
          /\ names(leaf(chain), claim) = {TRUE}
          /\ \E path \in verify(chain, anchors, usage, revocation, now) :
               /\ verify_alt(path, hybrid)
               /\ proof = [chain |-> sent, claim |-> claim, usage |-> usage,
                           hybrid |-> hybrid, path |-> path]
      BY <2>1 DEF Proofs
  <2>4. chain = sent /\ sent # <<>>
      BY <2>3 DEF from_der
  <2>5. Kept(proof)
    <3>1. PICK path \in verify(sent, anchors, usage, revocation, now) :
            /\ verify_alt(path, hybrid)
            /\ proof = [chain |-> sent, claim |-> claim, usage |-> usage,
                        hybrid |-> hybrid, path |-> path]
        BY <2>3, <2>4
    <3>2. /\ proof.chain = sent /\ proof.claim = claim /\ proof.usage = usage
          /\ proof.hybrid = hybrid /\ proof.path = path
        BY <3>1
    <3>3. names(leaf(sent), claim) = {TRUE}
        BY <2>3, <2>4
    <3>4. verify_alt(proof.path, proof.hybrid)
        BY <3>1, <3>2, Zenon
    <3>5. names(leaf(proof.chain), proof.claim) = {TRUE}
        BY <3>2, <3>3, Zenon
    <3>6. proof.path \in verify(proof.chain, anchors, proof.usage, revocation, now)
        BY <3>1, <3>2
    <3> QED
        BY <2>4, <3>2, <3>4, <3>5, <3>6 DEF Kept
  <2>6. Kept(proof)'
      BY <2>2, <2>5 DEF Kept
  <2> QED
      BY <2>1, <2>2, <2>6 DEF StillProves
<1>2. CASE UNCHANGED vars
    BY <1>2 DEF vars, StillProves, Kept
<1>3. CASE Tick
  <2>1. /\ now' = now + 1 /\ now < MaxTime
        /\ proved' = {p \in proved : now' <= not_after(p.path)}
        /\ UNCHANGED <<anchors, revocation>>
      BY <1>3 DEF Tick
  <2>2. now' \in MinTime .. MaxTime /\ now \in Int
      BY <2>1, X509Assumption DEF StillProves
  <2>3. ASSUME NEW p \in proved' PROVE proved' = {p} /\ Kept(p)'
    <3>1. /\ p \in proved /\ proved = {p} /\ Kept(p)
          /\ now + 1 <= not_after(p.path)
        BY <2>1, <2>3 DEF StillProves
    <3>2. p.path \in verify(p.chain, anchors, p.usage, revocation, now + 1)
        BY <2>2, <3>1, PathLasts DEF Kept, StillProves
    <3>3. Kept(p)'
        BY <2>1, <3>1, <3>2 DEF Kept
    <3> QED
        BY <2>1, <3>1, <3>3
  <2> QED
      BY <2>1, <2>2, <2>3 DEF StillProves
<1> QED
    BY <1>1, <1>2, <1>3 DEF Next, Refuse

\* The invariant holds throughout.
LEMMA Invariant == Spec => []StillProves
BY InitStillProves, StillProvesStep, PTL DEF Spec

\* What is kept until the end its path gives, a fresh walk would still prove.
THEOREM NothingOutlivesItsWalk == Spec => []KeptWhileAWalkWouldProveIt
<1>1. StillProves => KeptWhileAWalkWouldProveIt
    BY DEF StillProves, Kept, KeptWhileAWalkWouldProveIt
<1> QED
    BY <1>1, Invariant, PTL

\* A path starts at the leaf sent, goes on through certificates sent and ends
\* in an anchor of the node's own.
THEOREM TypeCorrect == Spec => []TypeOK
<1>1. StillProves => TypeOK
  <2> SUFFICES ASSUME StillProves, NEW p \in proved
               PROVE  /\ p.path[1] = p.chain[1]
                      /\ ToSet(Front(p.path)) \subseteq ToSet(p.chain)
                      /\ Last(p.path) \in ToSet(anchors)
      BY DEF StillProves, Kept, TypeOK
  <2>1. /\ p.chain \in Sent /\ p.chain # <<>> /\ anchors \in AnchorSets
        /\ p.path \in verify(p.chain, anchors, p.usage, revocation, now)
      BY DEF StillProves, Kept
  <2>2. PICK w \in Walks(p.chain, anchors, p.usage, revocation,
                         since_unix_epoch(now)),
             anchor \in ToSet(anchors) :
          /\ w.below \in Seq(Certificate) /\ 1 <= Len(w.below)
          /\ w.below[1] = p.chain[1]
          /\ ToSet(w.below) \subseteq ToSet(p.chain)
          /\ \A i \in 1 .. Len(w.below) : p.path[i] = w.below[i]
          /\ Last(p.path) = anchor
          /\ Front(p.path) = w.below
      BY <2>1, PathOfWalk
  <2>3. 1 \in 1 .. Len(w.below)
      BY <2>2, LenProperties
  <2> QED
      BY <2>2, <2>3
<1> QED
    BY <1>1, Invariant, PTL

-----------------------------------------------------------------------------
(* Alternative signatures.                                                 *)

\* The certificate above is the next one, and the anchor's is the anchor.
LEMMA IssuerAbove ==
  ASSUME NEW S, NEW path \in Seq(S), NEW i \in DOMAIN path
  PROVE  issuer_of(path, i) = IF i = Len(path) THEN path[i] ELSE path[i + 1]
<1>1. Len(path) \in Nat /\ i \in 1 .. Len(path)
    BY LenProperties
<1> DEFINE least == Min({i + 1, Len(path)})
<1>2. \E x \in {i + 1, Len(path)} : \A y \in {i + 1, Len(path)} : x <= y
    BY <1>1
<1>3. least \in {i + 1, Len(path)} /\ \A y \in {i + 1, Len(path)} : least <= y
    BY <1>2 DEF Min
<1>4. least = IF i = Len(path) THEN i ELSE i + 1
    BY <1>1, <1>3
<1> QED
    BY <1>4 DEF issuer_of

\* A sequence that is not longer than one, of an element, is of it alone.
LEMMA OnlyElement ==
  ASSUME NEW S, NEW s \in Seq(S), ~(Len(s) > 1), NEW x \in ToSet(s)
  PROVE  s = <<x>>
<1>1. Len(s) \in Nat /\ DOMAIN s = 1 .. Len(s) /\ x \in S
    BY LenProperties, ElementsOf
<1>2. Len(s) = 1 /\ s[1] = x
    BY <1>1 DEF ToSet
<1>3. <<x>> \in Seq(S) /\ Len(<<x>>) = 1 /\ <<x>>[1] = x
    BY <1>1
<1> QED
    BY <1>2, <1>3, SeqEqual

\* What carried read of a certificate: every extension once, and a signature
\* exactly where there is a value.
LEMMA CarriedReads ==
  ASSUME NEW c \in Certificate, NEW own \in carried(c)
  PROVE  /\ own.public_key = ToSet(c.alt_key)
         /\ \A key \in own.public_key : c.alt_key = <<key>>
         /\ own.signature = {} => c.alt_algorithm = <<>> /\ c.alt_value = <<>>
         /\ \A signature \in own.signature :
              /\ c.alt_algorithm = <<signature.algorithm>>
              /\ c.alt_value = <<signature.value>>
              /\ signature.value.bits = "whole"
              /\ signature.value \in ToSet(c.alt_value)
<1> DEFINE Signatures ==
             {{[algorithm |-> algorithm, value |-> value]} :
                algorithm \in UNION {named(a) : a \in ToSet(c.alt_algorithm)},
                value \in {v \in ToSet(c.alt_value) : v.bits = "whole"}}
<1>1. /\ c.alt_key \in Seq(ToSet(c.alt_key))
      /\ c.alt_algorithm \in Seq(ToSet(c.alt_algorithm))
      /\ c.alt_value \in Seq(ToSet(c.alt_value))
    BY WireAssumption
<1>2. /\ own.public_key = ToSet(c.alt_key)
      /\ ~(Len(c.alt_key) > 1) /\ ~(Len(c.alt_algorithm) > 1)
      /\ ~(Len(c.alt_value) > 1)
      /\ \/ own.signature = {} /\ c.alt_algorithm = <<>> /\ c.alt_value = <<>>
         \/ own.signature \in Signatures
    BY DEF carried
<1>3. \A key \in own.public_key : c.alt_key = <<key>>
    BY <1>1, <1>2, OnlyElement
<1>4. ASSUME own.signature \in Signatures, NEW signature \in own.signature
      PROVE  /\ c.alt_algorithm = <<signature.algorithm>>
             /\ c.alt_value = <<signature.value>>
             /\ signature.value.bits = "whole"
             /\ signature.value \in ToSet(c.alt_value)
  <2>1. PICK algorithm \in UNION {named(a) : a \in ToSet(c.alt_algorithm)},
             value \in {v \in ToSet(c.alt_value) : v.bits = "whole"} :
          own.signature = {[algorithm |-> algorithm, value |-> value]}
      BY <1>4
  <2>2. signature.algorithm = algorithm /\ signature.value = value
      BY <1>4, <2>1
  <2>3. algorithm \in ToSet(c.alt_algorithm)
      BY <2>1 DEF named
  <2>4. c.alt_algorithm = <<algorithm>> /\ c.alt_value = <<value>>
      BY <1>1, <1>2, <2>1, <2>3, OnlyElement
  <2> QED
      BY <2>1, <2>2, <2>4
<1>5. own.signature \in Signatures => own.signature # {}
  <2> SUFFICES ASSUME own.signature \in Signatures PROVE own.signature # {}
      OBVIOUS
  <2>1. PICK algorithm \in UNION {named(a) : a \in ToSet(c.alt_algorithm)},
             value \in {v \in ToSet(c.alt_value) : v.bits = "whole"} :
          own.signature = {[algorithm |-> algorithm, value |-> value]}
      OBVIOUS
  <2> HIDE DEF Signatures
  <2> QED
      BY <2>1
<1> QED
    BY <1>2, <1>3, <1>4, <1>5

\* What verify_alt, where it is not told to ignore them, found of each
\* certificate of a path.
LEMMA AltAlong ==
  ASSUME NEW path \in Seq(Certificate), NEW hybrid \in Hybrid \ {"Ignored"},
         verify_alt(path, hybrid), NEW i \in DOMAIN path
  PROVE  LET above == IF i = Len(path) THEN path[i] ELSE path[i + 1] IN
         /\ carried(path[i]) # {}
         /\ \/ /\ path[i].alt_algorithm = <<>> /\ path[i].alt_value = <<>>
               /\ hybrid # "Required"
            \/ \E key \in ToSet(above.alt_key), value \in ToSet(path[i].alt_value) :
                 /\ above.alt_key = <<key>>
                 /\ path[i].alt_algorithm = <<key.set>>
                 /\ path[i].alt_value = <<value>>
                 /\ value.bits = "whole" /\ value.by = key
                 /\ value.over = pre_tbs(path[i])
<1> DEFINE above == IF i = Len(path) THEN path[i] ELSE path[i + 1]
<1>1. issuer_of(path, i) = above
    BY IssuerAbove
<1>2. path[i] \in Certificate /\ above \in Certificate
  <2>1. /\ Len(path) \in Nat /\ DOMAIN path = 1 .. Len(path)
        /\ path \in [1 .. Len(path) -> Certificate]
      BY LenProperties
  <2> QED
      BY <2>1
<1> HIDE DEF above
<1>3. PICK own \in carried(path[i]), issuer \in carried(above) :
        \/ own.signature = {} /\ hybrid # "Required"
        \/ \E signature \in own.signature, public_key \in issuer.public_key :
             Verifies(signature, public_key, pre_tbs(path[i]))
    BY <1>1 DEF verify_alt
<1>4. CASE own.signature = {} /\ hybrid # "Required"
    BY <1>2, <1>3, <1>4, CarriedReads
<1>5. ASSUME NEW signature \in own.signature, NEW key \in issuer.public_key,
             Verifies(signature, key, pre_tbs(path[i]))
      PROVE  /\ key \in ToSet(above.alt_key)
             /\ signature.value \in ToSet(path[i].alt_value)
             /\ above.alt_key = <<key>>
             /\ path[i].alt_algorithm = <<key.set>>
             /\ path[i].alt_value = <<signature.value>>
             /\ signature.value.bits = "whole" /\ signature.value.by = key
             /\ signature.value.over = pre_tbs(path[i])
  <2>1. key \in ToSet(above.alt_key) /\ above.alt_key = <<key>>
      BY <1>2, <1>3, <1>5, CarriedReads
  <2>2. /\ path[i].alt_algorithm = <<signature.algorithm>>
        /\ path[i].alt_value = <<signature.value>>
        /\ signature.value.bits = "whole"
        /\ signature.value \in ToSet(path[i].alt_value)
      BY <1>2, <1>3, <1>5, CarriedReads
  <2> QED
      BY <1>5, <2>1, <2>2 DEF Verifies
<1> QED
    BY <1>3, <1>4, <1>5 DEF above

\* A stricter policy takes less, of any path.
THEOREM PolicyOnlyTightens == Spec => []TighteningTakesLess
<1>1. TighteningTakesLess
    BY DEF TighteningTakesLess, verify_alt
<1> QED
    BY <1>1, PTL

\* Each certificate of a kept path bears the signature of the next one's key
\* and, where they are required, of its alternative key.
THEOREM PathsVouch == Spec => []EachVouchesForTheOneBelow
<1>1. StillProves => EachVouchesForTheOneBelow
  <2> SUFFICES ASSUME StillProves, NEW p \in proved
               PROVE  /\ \A i \in 2 .. Len(p.path) :
                           p.path[i - 1].signed_by = p.path[i].key
                      /\ p.hybrid = "Required" =>
                           /\ \A i \in 2 .. Len(p.path) :
                                \E s \in ToSet(p.path[i - 1].alt_value) :
                                  s.by \in ToSet(p.path[i].alt_key)
                           /\ \E s \in ToSet(Last(p.path).alt_value) :
                                s.by \in ToSet(Last(p.path).alt_key)
      BY DEF EachVouchesForTheOneBelow
  <2>1. /\ p.chain \in Sent /\ p.chain # <<>> /\ anchors \in AnchorSets
        /\ p.path \in verify(p.chain, anchors, p.usage, revocation, now)
        /\ p.hybrid \in Hybrid /\ verify_alt(p.path, p.hybrid)
      BY DEF StillProves, Kept
  <2>2. PICK w \in Walks(p.chain, anchors, p.usage, revocation,
                         since_unix_epoch(now)),
             anchor \in ToSet(anchors) :
          /\ anchor.key = w.reached.key
          /\ w.below \in Seq(Certificate) /\ 1 <= Len(w.below)
          /\ p.path \in Seq(Certificate)
          /\ Len(p.path) = Len(w.below) + 1
          /\ DOMAIN p.path = 1 .. Len(w.below) + 1
          /\ \A i \in 1 .. Len(w.below) : p.path[i] = w.below[i]
          /\ p.path[Len(w.below) + 1] = anchor
          /\ Last(p.path) = anchor
      BY <2>1, PathOfWalk
  <2>3. Len(w.below) \in Nat
      BY <2>2, LenProperties
  <2>4. ASSUME NEW i \in 2 .. Len(p.path)
        PROVE  p.path[i - 1].signed_by = p.path[i].key
    <3>1. CASE i = Len(p.path)
      <4>1. /\ i - 1 = Len(w.below) /\ i - 1 \in 1 .. Len(w.below)
            /\ p.path[i] = anchor
          BY <2>2, <2>3, <3>1
      <4>2. p.path[i - 1] = Last(w.below)
          BY <2>2, <4>1 DEF Last
      <4>3. Last(w.below).signed_by = w.reached.key
          BY WalkChecks DEF Issued
      <4> QED
          BY <2>2, <4>1, <4>2, <4>3
    <3>2. CASE i # Len(p.path)
      <4>1. /\ i \in 2 .. Len(w.below) /\ i \in 1 .. Len(w.below)
            /\ i - 1 \in 1 .. Len(w.below)
          BY <2>2, <2>3, <2>4, <3>2
      <4>2. w.below[i - 1].signed_by = w.below[i].key
          BY <4>1, WalkChecks DEF Issued
      <4> QED
          BY <2>2, <4>1, <4>2
    <3> QED
        BY <3>1, <3>2
  <2>5. ASSUME p.hybrid = "Required", NEW i \in DOMAIN p.path
        PROVE  \E s \in ToSet(p.path[i].alt_value) :
                 s.by \in ToSet((IF i = Len(p.path) THEN p.path[i]
                                 ELSE p.path[i + 1]).alt_key)
    <3>1. p.hybrid \in Hybrid \ {"Ignored"}
        BY <2>5 DEF Hybrid
    <3>2. PICK key \in ToSet((IF i = Len(p.path) THEN p.path[i]
                              ELSE p.path[i + 1]).alt_key),
               value \in ToSet(p.path[i].alt_value) :
            /\ (IF i = Len(p.path) THEN p.path[i]
                ELSE p.path[i + 1]).alt_key = <<key>>
            /\ p.path[i].alt_algorithm = <<key.set>>
            /\ p.path[i].alt_value = <<value>>
            /\ value.bits = "whole" /\ value.by = key
            /\ value.over = pre_tbs(p.path[i])
        BY <2>1, <2>2, <2>5, <3>1, AltAlong
    <3> QED
        BY <3>2
  <2>6. ASSUME p.hybrid = "Required", NEW i \in 2 .. Len(p.path)
        PROVE  \E s \in ToSet(p.path[i - 1].alt_value) :
                 s.by \in ToSet(p.path[i].alt_key)
    <3>1. i - 1 \in DOMAIN p.path /\ i - 1 # Len(p.path) /\ (i - 1) + 1 = i
        BY <2>2, <2>3, <2>6
    <3> QED
        BY <2>5, <2>6, <3>1
  <2>7. ASSUME p.hybrid = "Required"
        PROVE  \E s \in ToSet(Last(p.path).alt_value) :
                 s.by \in ToSet(Last(p.path).alt_key)
    <3>1. Len(p.path) \in DOMAIN p.path
        BY <2>2, <2>3
    <3> QED
        BY <2>5, <2>7, <3>1 DEF Last
  <2> QED
      BY <2>4, <2>6, <2>7
<1> QED
    BY <1>1, Invariant, PTL

\* Whatever trace of an alternative signature a kept certificate bears, the
\* one above made it, of this certificate, and is_hybrid told of the leaf's.
THEOREM NoForgeryIsIgnored == Spec => []ForgedIsNotAbsent
<1> DEFINE NextUp(path, i) == IF i = Len(path) THEN path[i] ELSE path[i + 1]
           MadeAbove(path, i) ==
             \E key \in ToSet(NextUp(path, i).alt_key) :
               /\ NextUp(path, i).alt_key = <<key>>
               /\ path[i].alt_algorithm = <<key.set>>
               /\ path[i].alt_value =
                    <<[bits |-> "whole", by |-> key, over |-> pre_tbs(path[i])]>>
<1>1. StillProves => ForgedIsNotAbsent
  <2> SUFFICES ASSUME StillProves, NEW p \in proved, p.hybrid # "Ignored"
               PROVE  /\ \A i \in DOMAIN p.path :
                           p.path[i].alt_algorithm \o p.path[i].alt_value # <<>>
                             => MadeAbove(p.path, i)
                      /\ is_hybrid(p.chain) = {p.path[1].alt_value # <<>>}
      BY DEF ForgedIsNotAbsent
  <2>1. /\ p.chain \in Sent /\ p.chain # <<>> /\ anchors \in AnchorSets
        /\ p.path \in verify(p.chain, anchors, p.usage, revocation, now)
        /\ p.hybrid \in Hybrid \ {"Ignored"} /\ verify_alt(p.path, p.hybrid)
      BY DEF StillProves, Kept
  <2>2. /\ p.path \in Seq(Certificate)
        /\ 1 \in DOMAIN p.path /\ p.path[1] = p.chain[1]
    <3>1. PICK w : /\ w.below \in Seq(Certificate) /\ 1 <= Len(w.below)
                   /\ w.below[1] = p.chain[1]
                   /\ p.path \in Seq(Certificate)
                   /\ DOMAIN p.path = 1 .. Len(w.below) + 1
                   /\ \A i \in 1 .. Len(w.below) : p.path[i] = w.below[i]
        BY <2>1, PathOfWalk
    <3>2. Len(w.below) \in Nat
        BY <3>1, LenProperties
    <3> QED
        BY <3>1, <3>2
  <2>3. leaf(p.chain) = p.path[1]
    <3>1. p.chain \in Seq(Certificate)
        BY <2>1, WireAssumption
    <3> QED
        BY <2>1, <2>2, <3>1, HeadTailProperties DEF leaf
  <2>4. \A i \in DOMAIN p.path : p.path[i] \in Certificate
      BY <2>2, LenProperties
  <2>5. is_hybrid(p.chain) = {p.path[1].alt_value # <<>>}
    <3>1. carried(p.path[1]) # {}
        BY <2>1, <2>2, AltAlong
    <3>2. \A own \in carried(p.path[1]) :
            own.signature # {} <=> p.path[1].alt_value # <<>>
      <4> SUFFICES ASSUME NEW own \in carried(p.path[1])
                   PROVE  own.signature # {} <=> p.path[1].alt_value # <<>>
          OBVIOUS
      <4>1. p.path[1] \in Certificate
          BY <2>2, <2>4
      <4>2. own.signature = {} => p.path[1].alt_value = <<>>
          BY <4>1, CarriedReads
      <4>3. \A signature \in own.signature :
              p.path[1].alt_value = <<signature.value>>
          BY <4>1, CarriedReads
      <4> QED
          BY <4>2, <4>3
    <3>3. {own.signature # {} : own \in carried(p.path[1])}
            = {p.path[1].alt_value # <<>>}
        BY <3>1, <3>2, Zenon
    <3> QED
        BY <2>3, <3>3 DEF is_hybrid
  <2>6. ASSUME NEW i \in DOMAIN p.path,
               p.path[i].alt_algorithm \o p.path[i].alt_value # <<>>
        PROVE  MadeAbove(p.path, i)
    <3>1. ~(p.path[i].alt_algorithm = <<>> /\ p.path[i].alt_value = <<>>)
      <4>1. <<>> \o <<>> = <<>>
          BY EmptySeq, ConcatEmptySeq
      <4> QED
          BY <2>6, <4>1
    <3>2. PICK key \in ToSet(NextUp(p.path, i).alt_key),
               value \in ToSet(p.path[i].alt_value) :
            /\ NextUp(p.path, i).alt_key = <<key>>
            /\ p.path[i].alt_algorithm = <<key.set>>
            /\ p.path[i].alt_value = <<value>>
            /\ value.bits = "whole" /\ value.by = key
            /\ value.over = pre_tbs(p.path[i])
        BY <2>1, <2>2, <3>1, AltAlong
    <3>3. value = [bits |-> value.bits, by |-> value.by, over |-> value.over]
        BY <2>4, <2>6, <3>2, WireAssumption
    <3> QED
        BY <3>2, <3>3
  <2> QED
      BY <2>5, <2>6
<1> QED
    BY <1>1, Invariant, PTL

-----------------------------------------------------------------------------
(* Revocation.                                                             *)

\* Every certificate of a kept path below its anchor is clean by a list of
\* its issuer's own.
LEMMA KeptIsClean ==
  ASSUME StillProves, NEW p \in proved, NEW lists \in revocation,
         NEW c \in ToSet(Front(p.path))
  PROVE  \E i \in DOMAIN lists :
           /\ lists[i].issuer = c.issuer
           /\ lists[i].signed_by = c.signed_by
           /\ c.serial \notin lists[i].serials
<1>1. /\ p.chain \in Sent /\ p.chain # <<>> /\ anchors \in AnchorSets
      /\ p.path \in verify(p.chain, anchors, p.usage, revocation, now)
    BY DEF StillProves, Kept
<1>2. PICK w \in Walks(p.chain, anchors, p.usage, revocation,
                       since_unix_epoch(now)) : Front(p.path) = w.below
    BY <1>1, PathOfWalk
<1>3. NotRevoked(c, lists)
    BY <1>2, WalkChecks
<1> QED
    BY <1>3 DEF NotRevoked, ListOf, Clean

\* Where revocation was configured at all, silence is not a pass.
THEOREM SilenceRefuses == Spec => []SilenceIsNotAPass
<1>1. StillProves => SilenceIsNotAPass
    BY KeptIsClean DEF SilenceIsNotAPass
<1> QED
    BY <1>1, Invariant, PTL

\* Where no issuer has two lists, nothing a list of its issuer's holds is
\* kept.
THEOREM RevokedIsRefused == Spec => []ListedIsRefused
<1>1. StillProves => ListedIsRefused
  <2> SUFFICES ASSUME StillProves, NEW p \in proved, NEW lists \in revocation,
                      \A i, j \in DOMAIN lists :
                        lists[i].issuer = lists[j].issuer => i = j,
                      NEW c \in ToSet(Front(p.path)), NEW list \in ToSet(lists),
                      list.issuer = c.issuer
               PROVE  c.serial \notin list.serials
      BY DEF ListedIsRefused
  <2>1. PICK i \in DOMAIN lists : lists[i].issuer = c.issuer
                                  /\ c.serial \notin lists[i].serials
      BY KeptIsClean
  <2>2. PICK j \in DOMAIN lists : list = lists[j]
      BY DEF ToSet
  <2> QED
      BY <2>1, <2>2
<1> QED
    BY <1>1, Invariant, PTL

-----------------------------------------------------------------------------
(* Names.                                                                  *)

\* The account a certificate carries is that of its first general name that
\* gives one.
LEMMA FirstPrincipal ==
  ASSUME NEW c \in Certificate, c.reads, NEW san \in c.san,
         NEW i \in DOMAIN san, Principal(san[i]) # {},
         \A j \in 1 .. i - 1 : Principal(san[j]) = {}
  PROVE  Principal(san[i]) \in user_principal_of(c)
<1> DEFINE Firsts == {k \in DOMAIN san :
                        \A j \in 1 .. k - 1 : Principal(san[j]) = {}}
<1>1. san \in Seq(ToSet(san))
    BY WireAssumption
<1>2. Len(san) \in Nat /\ DOMAIN san = 1 .. Len(san)
    BY <1>1, LenProperties
<1>3. i \in Firsts /\ \A k \in Firsts : k # i => Principal(san[k]) = {}
  <2> SUFFICES ASSUME NEW k \in Firsts, k # i PROVE Principal(san[k]) = {}
      OBVIOUS
  <2>1. k \in 1 .. i - 1 \/ i \in 1 .. k - 1
      BY <1>2
  <2> QED
      BY <2>1
<1>4. UNION {Principal(san[k]) : k \in Firsts} = Principal(san[i])
    BY <1>3
<1>5. UNION {Principal(san[k]) : k \in Firsts} \in user_principal_of(c)
    BY DEF user_principal_of, subject_alternative_name
<1> QED
    BY <1>4, <1>5

\* A certificate that carries a user principal name is kept for no other
\* account, unless the claim is its very subject.
THEOREM CertificatesAreOneAccount == Spec => []OneAccountPerCertificate
<1>1. StillProves => OneAccountPerCertificate
  <2> SUFFICES ASSUME StillProves, NEW p \in proved,
                      NEW san \in p.path[1].san, NEW i \in DOMAIN san,
                      Principal(san[i]) # {},
                      \A j \in 1 .. i - 1 : Principal(san[j]) = {},
                      PrincipalOf[p.claim] # {},
                      NameOf[p.claim] # p.path[1].subject
               PROVE  PrincipalOf[p.claim] = Principal(san[i])
      BY DEF OneAccountPerCertificate
  <2> DEFINE c == p.path[1]
  <2>1. /\ p.chain \in Sent /\ p.chain # <<>> /\ anchors \in AnchorSets
        /\ p.path \in verify(p.chain, anchors, p.usage, revocation, now)
        /\ names(leaf(p.chain), p.claim) = {TRUE}
      BY DEF StillProves, Kept
  <2>2. c = p.chain[1] /\ c \in Certificate /\ leaf(p.chain) = c
    <3>1. PICK w : /\ w.below \in Seq(Certificate) /\ 1 <= Len(w.below)
                   /\ w.below[1] = p.chain[1]
                   /\ \A k \in 1 .. Len(w.below) : p.path[k] = w.below[k]
        BY <2>1, PathOfWalk
    <3>2. 1 \in 1 .. Len(w.below)
        BY <3>1, LenProperties
    <3>3. c = p.chain[1] /\ c \in Certificate
        BY <3>1, <3>2, ElementOfSeq
    <3>4. p.chain \in Seq(Certificate)
        BY <2>1, WireAssumption
    <3> QED
        BY <2>1, <3>3, <3>4, HeadTailProperties DEF leaf
  <2> HIDE DEF c
  <2>3. names(c, p.claim) = {TRUE}
      BY <2>1, <2>2
  <2>4. c.reads /\ subject_of(c) = {c.subject}
      BY <2>3 DEF names, subject_of
  <2>5. Principal(san[i]) \in user_principal_of(c)
      BY <2>2, <2>4, FirstPrincipal DEF c
  <2>6. subject_of(c) # {} /\ subject_of(c) # {NameOf[p.claim]}
      BY <2>4 DEF c
  <2>7. user_principal_of(c) # {{}}
      BY <2>5
  <2>8. {account = PrincipalOf[p.claim] : account \in user_principal_of(c)}
          = {TRUE}
      BY <2>3, <2>6, <2>7 DEF names
  <2>9. (Principal(san[i]) = PrincipalOf[p.claim])
          \in {account = PrincipalOf[p.claim] : account \in user_principal_of(c)}
      BY <2>5, Zenon
  <2>10. (Principal(san[i]) = PrincipalOf[p.claim]) = TRUE
      BY <2>8, <2>9, Zenon
  <2> QED
      BY <2>10
<1> QED
    BY <1>1, Invariant, PTL

=============================================================================
