------------------------------- MODULE Least -------------------------------
(***************************************************************************)
(* What the proofs use of order: there is a first one, where Rust's find   *)
(* and position look for one, and a least one, where a fold of min does;   *)
(* and what every turn of a loop keeps, the loop keeps.                    *)
(***************************************************************************)
EXTENDS Integers, WellFoundedInduction, TLAPS

\* A nonempty set of naturals has a least element.
LEMMA LeastElement ==
  ASSUME NEW T \in SUBSET Nat, T # {}
  PROVE  \E i \in T : \A j \in T : i <= j
<1> DEFINE R == OpToRel(<, Nat)
<1>1. IsWellFoundedOn(R, Nat)
    BY NatLessThanWellFounded
<1>2. \A x, y \in Nat : y < x => <<y, x>> \in R
    BY DEF OpToRel
<1> HIDE DEF R
<1>3. PICK x \in T : \A y \in T : ~(<<y, x>> \in R)
    BY <1>1, WFMin
<1>4. \A y \in T : ~(y < x)
    BY <1>2, <1>3
<1>5. \A y \in T : x <= y
    BY <1>4
<1> QED
    BY <1>5

\* So has a nonempty set of integers that is bounded from below.
LEMMA LeastInteger ==
  ASSUME NEW T \in SUBSET Int, T # {}, NEW b \in Int, \A x \in T : b <= x
  PROVE  \E x \in T : \A y \in T : x <= y
<1> DEFINE U == {x - b : x \in T}
<1>1. U \in SUBSET Nat /\ U # {}
  <2>1. \A x \in T : x - b \in Nat
      OBVIOUS
  <2> QED
      BY <2>1
<1>2. PICK i \in U : \A j \in U : i <= j
    BY <1>1, LeastElement
<1>3. PICK x \in T : i = x - b
    BY <1>2
<1>4. \A y \in T : x <= y
  <2> SUFFICES ASSUME NEW y \in T PROVE x <= y
      OBVIOUS
  <2>1. y - b \in U
      OBVIOUS
  <2>2. x - b <= y - b
      BY <1>2, <1>3, <2>1
  <2> QED
      BY <2>2
<1> QED
    BY <1>4

-----------------------------------------------------------------------------
(* Loops. A loop over a list of N is a function from the number of turns   *)
(* taken to what is carried, and an invariant the set of the turns it      *)
(* holds after.                                                            *)

\* What holds before the first turn and is kept by every turn holds after
\* every one.
LEMMA EveryTurn ==
  ASSUME NEW N \in Nat, NEW P, 0 \in P,
         \A n \in 1 .. N : n - 1 \in P => n \in P
  PROVE  \A n \in 0 .. N : n \in P
<1> DEFINE T == {n \in 0 .. N : n \notin P}
<1> SUFFICES ASSUME T # {} PROVE FALSE
    OBVIOUS
<1>1. T \in SUBSET Nat
    OBVIOUS
<1>2. PICK i \in T : \A j \in T : i <= j
    BY <1>1, LeastElement
<1>3. i \in 1 .. N /\ i - 1 \in 0 .. N /\ i - 1 < i
    BY <1>2
<1>4. i - 1 \notin T
    BY <1>2, <1>3
<1>5. i \in P
    BY <1>3, <1>4
<1> QED
    BY <1>2, <1>5

\* The turns of a loop that carries a value of V, and the runs of one that
\* starts from base.
Turns(N, V) == [1 .. N -> [V -> V]]
RunsOf(N, V, base, turn) ==
  {f \in [0 .. N -> V] : /\ f[0] = base
                        /\ \A n \in 1 .. N : f[n] = turn[n][f[n - 1]]}

\* Every loop can be run: some function starts where the loop starts and
\* takes each of its turns.
LEMMA LoopRuns ==
  ASSUME NEW N \in Nat, NEW V, NEW base \in V, NEW turn \in Turns(N, V)
  PROVE  RunsOf(N, V, base, turn) # {}
<1> DEFINE Runs(f, m) == /\ f[0] = base
                        /\ \A n \in 1 .. m : f[n] = turn[n][f[n - 1]]
           P == {m \in 0 .. N : \E f \in [0 .. m -> V] : Runs(f, m)}
<1> USE DEF Turns
<1>1. 0 \in P
  <2> DEFINE f == [n \in 0 .. 0 |-> base]
  <2>1. f \in [0 .. 0 -> V] /\ Runs(f, 0)
      OBVIOUS
  <2> HIDE DEF f
  <2> QED
      BY <2>1
<1>2. \A m \in 1 .. N : m - 1 \in P => m \in P
  <2> SUFFICES ASSUME NEW m \in 1 .. N, m - 1 \in P PROVE m \in P
      OBVIOUS
  <2>1. PICK f \in [0 .. m - 1 -> V] : Runs(f, m - 1)
      OBVIOUS
  <2> DEFINE g == [n \in 0 .. m |-> IF n = m THEN turn[m][f[m - 1]] ELSE f[n]]
  <2>2. turn[m][f[m - 1]] \in V
      OBVIOUS
  <2>3. g \in [0 .. m -> V]
    <3>1. \A n \in 0 .. m : n # m => n \in 0 .. m - 1
        OBVIOUS
    <3> QED
        BY <2>2, <3>1
  <2>4. g[0] = base
      BY <2>1
  <2>5. \A n \in 1 .. m : g[n] = turn[n][g[n - 1]]
    <3> SUFFICES ASSUME NEW n \in 1 .. m PROVE g[n] = turn[n][g[n - 1]]
        OBVIOUS
    <3>1. g[n - 1] = f[n - 1]
        OBVIOUS
    <3>2. CASE n = m
        BY <3>1, <3>2
    <3>3. CASE n # m
      <4>1. n \in 1 .. m - 1 /\ g[n] = f[n]
          BY <3>3
      <4> QED
          BY <2>1, <3>1, <4>1
    <3> QED
        BY <3>2, <3>3
  <2> HIDE DEF g
  <2>6. Runs(g, m)
      BY <2>4, <2>5
  <2> HIDE DEF Runs
  <2> QED
      BY <2>3, <2>6
<1>3. N \in P
  <2> HIDE DEF P
  <2>1. \A n \in 0 .. N : n \in P
      BY <1>1, <1>2, EveryTurn
  <2> QED
      BY <2>1
<1> QED
    BY <1>3 DEF RunsOf

=============================================================================
