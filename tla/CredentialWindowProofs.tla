----------------------- MODULE CredentialWindowProofs -----------------------
(***************************************************************************)
(* Theorems about CredentialWindow, for every width of the integers: the   *)
(* six values TLC is given and the 2^64 of an i64 alike. Everything rests  *)
(* on three facts about admits, proved from the bounds of Clamp alone.     *)
(***************************************************************************)
EXTENDS CredentialWindow, TLAPS

\* Clamp stays within the type, and changes nothing that is within it.
LEMMA ClampBounds ==
  ASSUME NEW n \in Int
  PROVE  /\ Clamp(n) \in Instant
         /\ n \in Instant => Clamp(n) = n
BY InstantAssumption DEF Clamp, Instant

\* Clamp is monotone.
LEMMA ClampMonotone ==
  ASSUME NEW m \in Int, NEW n \in Int, m <= n
  PROVE  Clamp(m) <= Clamp(n)
BY InstantAssumption DEF Clamp

\* So are the saturating sums and differences the clock takes.
LEMMA SumsMonotone ==
  ASSUME NEW a \in Int, NEW b \in Int, NEW c \in Int, b >= a
  PROVE  /\ a + c <= b + c /\ c + a <= c + b
         /\ a - c <= b - c /\ c - b <= c - a
OBVIOUS

\* Saturation never turns an instant early: the clamped sum is below a bound
\* exactly where the true sum is, but for the bound i64::MIN.
LEMMA EarlyIsExact ==
  ASSUME NEW t \in Instant, NEW l \in Instant, NEW w \in Window,
         MinInstant \in w.not_before => l >= 0
  PROVE  Early(t, l, w) <=> \E start \in w.not_before : t + l < start
<1> SUFFICES ASSUME NEW start \in w.not_before
             PROVE  saturating_add(t, l) < start <=> t + l < start
    BY DEF Early
<1>1. start \in Instant
    BY DEF Window, Option
<1>2. start = MinInstant => l >= 0
    OBVIOUS
<1> QED
    BY <1>1, <1>2, InstantAssumption DEF saturating_add, Clamp, Instant

\* ... and never turns it late.
LEMMA LateIsExact ==
  ASSUME NEW t \in Instant, NEW l \in Instant, NEW w \in Window,
         MinInstant \in w.not_on_or_after => l <= 0
  PROVE  Late(t, l, w) <=> \E end \in w.not_on_or_after : t - l >= end
<1> SUFFICES ASSUME NEW end \in w.not_on_or_after
             PROVE  saturating_sub(t, l) >= end <=> t - l >= end
    BY DEF Late
<1>1. end \in Instant
    BY DEF Window, Option
<1>2. end = MinInstant => l <= 0
    OBVIOUS
<1> QED
    BY <1>1, <1>2, InstantAssumption DEF saturating_sub, Clamp, Instant

\* Moving the time forward ends Early and keeps Late; forgiving more ends
\* both.
LEMMA EarlyShrinks ==
  ASSUME NEW s \in Instant, NEW t \in Instant, NEW k \in Instant,
         NEW l \in Instant, NEW w \in Window, s + k <= t + l, Early(t, l, w)
  PROVE  Early(s, k, w)
<1>1. PICK start \in w.not_before : saturating_add(t, l) < start
    BY DEF Early
<1>2. start \in Instant
    BY DEF Window, Option
<1>3. s + k \in Int /\ t + l \in Int
    BY InstantAssumption DEF Instant
<1>4. saturating_add(s, k) <= saturating_add(t, l)
    BY <1>3, ClampMonotone DEF saturating_add
<1>5. saturating_add(s, k) \in Instant /\ saturating_add(t, l) \in Instant
    BY <1>3, ClampBounds DEF saturating_add
<1>6. saturating_add(s, k) < start
    BY <1>1, <1>2, <1>4, <1>5, InstantAssumption DEF Instant
<1> QED
    BY <1>6 DEF Early

\* ... and the moment a credential is late only comes nearer.
LEMMA LateGrows ==
  ASSUME NEW s \in Instant, NEW t \in Instant, NEW k \in Instant,
         NEW l \in Instant, NEW w \in Window, s - k <= t - l, Late(s, k, w)
  PROVE  Late(t, l, w)
<1>1. PICK end \in w.not_on_or_after : saturating_sub(s, k) >= end
    BY DEF Late
<1>2. end \in Instant
    BY DEF Window, Option
<1>3. s - k \in Int /\ t - l \in Int
    BY InstantAssumption DEF Instant
<1>4. saturating_sub(s, k) <= saturating_sub(t, l)
    BY <1>3, ClampMonotone DEF saturating_sub
<1>5. saturating_sub(s, k) \in Instant /\ saturating_sub(t, l) \in Instant
    BY <1>3, ClampBounds DEF saturating_sub
<1>6. saturating_sub(t, l) >= end
    BY <1>1, <1>2, <1>4, <1>5, InstantAssumption DEF Instant
<1> QED
    BY <1>6 DEF Late

-----------------------------------------------------------------------------
\* The clock's reading, its leeway and a credential's window stay what their
\* types say, whatever is read, forgiven or presented.
THEOREM TypeCorrect == Spec => []TypeOK
<1>1. Init => TypeOK
    BY InstantAssumption DEF Init, TypeOK, between, Window, Option
<1>2. TypeOK /\ [Next]_vars => TypeOK'
    BY DEF TypeOK, Next, vars, reading, forgiving, Present
<1> QED
    BY <1>1, <1>2, PTL DEF Spec

\* Clock::admits answers as arithmetic without a width would, for every i64
\* instant and leeway: saturating_add and saturating_sub are never seen.
THEOREM SaturationNeverShows == Spec => []SaturationIsInvisible
<1>1. TypeOK => SaturationIsInvisible
  <2> SUFFICES ASSUME TypeOK, Distinguishable
               PROVE  /\ Early(now, leeway, window) <=> ExactlyEarly
                      /\ Late(now, leeway, window) <=> ExactlyLate
      BY DEF SaturationIsInvisible, Answer, admits
  <2>1. Early(now, leeway, window) <=> ExactlyEarly
      BY EarlyIsExact DEF TypeOK, Distinguishable, ExactlyEarly
  <2>2. Late(now, leeway, window) <=> ExactlyLate
      BY LateIsExact DEF TypeOK, Distinguishable, ExactlyLate
  <2> QED
      BY <2>1, <2>2
<1> QED
    BY <1>1, TypeCorrect, PTL

\* While time moves forward a credential never goes back: expired is never
\* admitted again, admitted is never early again.
THEOREM NeverReopens == Spec => ForwardTimeNeverReopens
<1>1. TypeOK /\ TypeOK' =>
        (now' >= now /\ leeway' = leeway /\ window' = window
           => Rank(Answer') >= Rank(Answer))
  <2> SUFFICES ASSUME TypeOK, TypeOK', now' >= now, leeway' = leeway,
                      window' = window
               PROVE  Rank(Answer') >= Rank(Answer)
      OBVIOUS
  <2>1. /\ now \in Instant /\ now' \in Instant /\ leeway \in Instant
        /\ window \in Window
      BY DEF TypeOK
  <2>a. now \in Int /\ now' \in Int /\ leeway \in Int
      BY <2>1, InstantAssumption DEF Instant
  <2>b. now + leeway <= now' + leeway /\ now - leeway <= now' - leeway
      BY <2>a, SumsMonotone
  <2>2. Early(now', leeway, window) => Early(now, leeway, window)
      BY <2>1, <2>b, EarlyShrinks
  <2>3. Late(now, leeway, window) => Late(now', leeway, window)
      BY <2>1, <2>b, LateGrows
  <2>4. Answer' = admits(now', leeway, window)
      BY DEF Answer
  <2> QED
      BY <2>2, <2>3, <2>4 DEF Answer, admits, Rank
<1> QED
    BY <1>1, TypeCorrect, PTL DEF ForwardTimeNeverReopens

\* A greater leeway never takes back what a smaller one admitted.
THEOREM ForgivingWidens == Spec => ForgivingMoreOnlyWidens
<1>1. TypeOK /\ TypeOK' =>
        (leeway' >= leeway /\ now' = now /\ window' = window
           => (Answer = "admitted" => Answer' = "admitted"))
  <2> SUFFICES ASSUME TypeOK, TypeOK', leeway' >= leeway, now' = now,
                      window' = window, Answer = "admitted"
               PROVE  Answer' = "admitted"
      OBVIOUS
  <2>1. /\ now \in Instant /\ leeway \in Instant /\ leeway' \in Instant
        /\ window \in Window
      BY DEF TypeOK
  <2>a. now \in Int /\ leeway \in Int /\ leeway' \in Int
      BY <2>1, InstantAssumption DEF Instant
  <2>b. now + leeway <= now + leeway' /\ now - leeway' <= now - leeway
      BY <2>a, SumsMonotone
  <2>2. Early(now, leeway', window) => Early(now, leeway, window)
      BY <2>1, <2>b, EarlyShrinks
  <2>3. Late(now, leeway', window) => Late(now, leeway, window)
      BY <2>1, <2>b, LateGrows
  <2>4. ~Early(now, leeway, window) /\ ~Late(now, leeway, window)
      BY DEF Answer, admits
  <2>5. Answer' = admits(now, leeway', window)
      BY DEF Answer
  <2> QED
      BY <2>2, <2>3, <2>4, <2>5 DEF admits
<1> QED
    BY <1>1, TypeCorrect, PTL DEF ForgivingMoreOnlyWidens

=============================================================================
