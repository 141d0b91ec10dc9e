------------------------------- MODULE Clock -------------------------------
(***************************************************************************)
(* src/.src/clock.rs: the time a verifier reads, the leeway it forgives    *)
(* another clock, and the window it holds a credential to.                 *)
(*                                                                         *)
(* Instants and the leeway are i64; the two ends of that type are the      *)
(* constants MinInstant and MaxInstant, so a small pair of numbers shows   *)
(* TLC every saturating case and the proofs hold for the real pair.        *)
(***************************************************************************)
EXTENDS Integers, Options

CONSTANTS
  MinInstant,   \* i64::MIN
  MaxInstant    \* i64::MAX

ASSUME InstantAssumption ==
  /\ MinInstant \in Int
  /\ MaxInstant \in Int
  /\ MinInstant < 0
  /\ 0 < MaxInstant

Instant == MinInstant .. MaxInstant

\* A credential is valid from not_before until, exclusively, not_on_or_after.
Window == [not_before : Option(Instant), not_on_or_after : Option(Instant)]

between(not_before, not_on_or_after) ==
  [not_before |-> not_before, not_on_or_after |-> not_on_or_after]

until(not_on_or_after) == between({}, not_on_or_after)

Clamp(n) == IF n > MaxInstant THEN MaxInstant
            ELSE IF n < MinInstant THEN MinInstant ELSE n

\* Faulty variant: arithmetic that wraps at the type's ends, as a release
\* build's `+` does.
Wrap(n) == IF n > MaxInstant THEN n - (MaxInstant - MinInstant + 1)
           ELSE IF n < MinInstant THEN n + (MaxInstant - MinInstant + 1) ELSE n
wrapping_add(a, b) == Wrap(a + b)

saturating_add(a, b) == Clamp(a + b)
saturating_sub(a, b) == Clamp(a - b)

\* Faulty variants: a leeway that shortens the window at its end, and a last
\* valid second taken as inclusive.
LateWidenedDown(now, leeway, window) ==
  \E end \in window.not_on_or_after : saturating_add(now, leeway) >= end
LateInclusive(now, leeway, window) ==
  \E end \in window.not_on_or_after : saturating_sub(now, leeway) > end

\* Clock::admits, its two refusals first, in the order the code asks them.
Early(now, leeway, window) ==
  \E start \in window.not_before : saturating_add(now, leeway) < start

Late(now, leeway, window) ==
  \E end \in window.not_on_or_after : saturating_sub(now, leeway) >= end

admits(now, leeway, window) ==
  IF Early(now, leeway, window) THEN "early"
  ELSE IF Late(now, leeway, window) THEN "late" ELSE "admitted"

=============================================================================
