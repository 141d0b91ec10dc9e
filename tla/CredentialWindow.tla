-------------------------- MODULE CredentialWindow --------------------------
(***************************************************************************)
(* A verifier of src/.src/clock.rs at work: one Clock (its source and its  *)
(* leeway) asked, again and again while time moves, whether it admits the  *)
(* credential a caller keeps presenting.                                   *)
(*                                                                         *)
(* The source is the system clock (`now`, clock.rs), which an operator or  *)
(* NTP may set back, or a reader a test pins (`reading`): `now` may        *)
(* therefore move either way, and the properties say which moves they are  *)
(* about.                                                                  *)
(***************************************************************************)
EXTENDS Clock

VARIABLES
  now,      \* what the source reads, seconds since the epoch
  leeway,   \* Clock.leeway
  window    \* the window of the credential being presented

vars == <<now, leeway, window>>

\* The clock, its leeway and the window asked about are i64 instants.
TypeOK ==
  /\ now \in Instant
  /\ leeway \in Instant
  /\ window \in Window

\* Clock::system(leeway), and a credential whose window is open at both ends.
Init ==
  /\ now \in Instant
  /\ leeway \in Instant
  /\ window = between({}, {})

\* Time passes, or the source is set back or replaced (Clock::reading).
reading(t) ==
  /\ now' = t
  /\ UNCHANGED <<leeway, window>>

\* Faulty variant: a leeway added to the one there was.
forgivingMore(seconds) ==
  /\ leeway' = leeway + seconds
  /\ UNCHANGED <<now, window>>

\* Clock::forgiving: the same source, another leeway.
forgiving(seconds) ==
  /\ leeway' = seconds
  /\ UNCHANGED <<now, window>>

\* Another credential is presented.
Present(w) ==
  /\ window' = w
  /\ UNCHANGED <<now, leeway>>

Next ==
  \/ \E t \in Instant : reading(t)
  \/ \E seconds \in Instant : forgiving(seconds)
  \/ \E w \in Window : Present(w)

Spec == Init /\ [][Next]_vars

-----------------------------------------------------------------------------
(* The window as RFC 7519 reads it, over numbers without a width.          *)

ExactlyEarly == \E start \in window.not_before : now + leeway < start
ExactlyLate  == \E end \in window.not_on_or_after : now - leeway >= end

\* What Clock::admits answers if it is asked now.
Answer == admits(now, leeway, window)

\* What clock.rs promises of a window, "[not_before, not_on_or_after)
\* widened by the leeway at both ends", holds to the second for every instant
\* and every leeway an i64 can be, the ones where the sum saturates included.
\* The two ends it cannot tell apart are excluded: a bound that is itself
\* i64::MIN, on the side the leeway pushes towards it.
Distinguishable ==
  /\ MinInstant \in window.not_before => leeway >= 0
  /\ MinInstant \in window.not_on_or_after => leeway <= 0
SaturationIsInvisible ==
  Distinguishable => Answer = IF ExactlyEarly THEN "early"
                              ELSE IF ExactlyLate THEN "late" ELSE "admitted"

\* While time only moves forward and the leeway stands, one credential goes
\* from early to admitted to late and never back: nothing that expired is
\* taken again, and nothing that was taken becomes "not yet valid".
Rank(a) == CASE a = "early" -> 0 [] a = "admitted" -> 1 [] OTHER -> 2
ForwardTimeNeverReopens ==
  [][now' >= now /\ leeway' = leeway /\ window' = window
       => Rank(Answer') >= Rank(Answer)]_vars

\* Forgiving more (Clock::forgiving) only ever widens: a credential admitted
\* under a leeway is admitted under every greater one.
ForgivingMoreOnlyWidens ==
  [][leeway' >= leeway /\ now' = now /\ window' = window
       => (Answer = "admitted" => Answer' = "admitted")]_vars

=============================================================================
