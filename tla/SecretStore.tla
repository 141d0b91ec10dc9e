---------------------------- MODULE SecretStore ----------------------------
(***************************************************************************)
(* src/.src/secret.rs: secrets kept as their SHA-256 under the name each   *)
(* was issued to, each good until a moment or for ever, with the clock the *)
(* verifiers that use the store (api-key, bearer) hold a secret to.        *)
(*                                                                         *)
(* SHA-256 is free: two secrets have one hash only if they are one secret. *)
(***************************************************************************)
EXTENDS Clock, Sequences, SequencesExt

CONSTANTS
  SecretText,   \* the secrets that are issued or presented
  SecretName,   \* the names they are issued to
  Leeway,       \* what the verifier's clock forgives
  MaxHeld       \* bound on the secrets held

ASSUME SecretAssumption ==
  /\ Leeway \in Instant
  /\ MaxHeld \in Nat

VARIABLES
  secrets,   \* SecretStore.secrets, in the order inserted
  now        \* what the clock reads

vars == <<secrets, now>>

sha256(secret) == [sha256 |-> secret]
Hash == {sha256(secret) : secret \in SecretText}

Secret == [name : SecretName, hash : Hash, expiry : Option(Instant)]

\* SecretStore.secrets is a list that only insert lengthens, and an expiry is
\* an Option.
TypeOK ==
  /\ secrets \in Seq(Secret)
  /\ Len(secrets) <= MaxHeld
  /\ now \in Instant

Init ==
  /\ secrets = <<>>
  /\ now \in Instant

insert_hash(name, hash, expiry) ==
  /\ Len(secrets) < MaxHeld
  /\ secrets' = Append(secrets, [name |-> name, hash |-> hash, expiry |-> expiry])
  /\ UNCHANGED now

\* Faulty variant: what the clock forgives is added to the expiry kept.
insertForgiving(name, secret, expiry) ==
  insert_hash(name, sha256(secret), {end + Leeway : end \in expiry})

insert(name, secret, expiry) == insert_hash(name, sha256(secret), expiry)

\* Time passes.
Tick(t) ==
  /\ now <= t
  /\ now' = t
  /\ UNCHANGED secrets

Next ==
  \/ \E name \in SecretName, secret \in SecretText, expiry \in Option(Instant) :
       insert(name, secret, expiry)
  \/ \E t \in Instant : Tick(t)

Spec == Init /\ [][Next]_vars

-----------------------------------------------------------------------------
(* Looking a secret up: every secret considered is compared, and the fold  *)
(* keeps what it found first. The result is an Option.                     *)

\* Faulty variant: the fold keeps what it found last.
OrLast(hash, found, secret) == IF secret.hash = hash THEN {secret} ELSE found

OrFirst(hash, found, secret) ==
  IF secret.hash # hash THEN found
  ELSE IF found # {} THEN found ELSE {secret}

\* The fold over the secrets the filter lets through: considered is the set
\* of those the predicate accepts.
holding_where(held, hash, considered) ==
  LET fold[n \in 0 .. Len(held)] ==
        IF n = 0 THEN {}
        ELSE IF held[n] \in considered THEN OrFirst(hash, fold[n - 1], held[n])
        ELSE fold[n - 1]
  IN  fold[Len(held)]

holding(held, hash) == holding_where(held, hash, ToSet(held))

window(secret) == until(secret.expiry)

\* What a verifier answers for a presented secret: nothing known, or the
\* name it was issued under and whether the clock admits it.
Verdict(held, time, secret) ==
  {[name |-> found.name, time |-> admits(time, Leeway, window(found))] :
     found \in holding(held, sha256(secret))}

-----------------------------------------------------------------------------
(* Properties.                                                             *)

\* The constant-time fold of holding_where finds what a search with an early
\* exit would: the earliest secret held under that hash which is considered,
\* whichever name the lookup is narrowed to.
FoldIsFirstMatch ==
  \A secret \in SecretText, names \in SUBSET SecretName :
    LET Matches == {i \in DOMAIN secrets : /\ secrets[i].hash = sha256(secret)
                                           /\ secrets[i].name \in names}
    IN  holding_where(secrets, sha256(secret),
                      {s \in ToSet(secrets) : s.name \in names})
          = {secrets[i] : i \in {i \in Matches : \A j \in Matches : i <= j}}

\* "A second secret under the same name stands beside the first, which is
\* how one is rotated without a gap": an insertion, of whatever secret under
\* whatever name, leaves every secret already held with the name and the
\* verdict it had.
RotationLeavesNoGap ==
  [][now' = now => \A secret \in SecretText :
       Verdict(secrets, now, secret) # {}
         => Verdict(secrets', now, secret) = Verdict(secrets, now, secret)]_vars

\* A secret that expired stays expired: as time moves on, no insertion under
\* any name, the same secret with a later expiry included, revives it.
ExpiredStaysExpired ==
  [][\A secret \in SecretText :
       (\E v \in Verdict(secrets, now, secret) : v.time = "late")
         => \A v \in Verdict(secrets', now', secret) : v.time = "late"]_vars

=============================================================================
