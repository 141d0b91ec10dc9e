---------------------------- MODULE PasswordBook ----------------------------
(***************************************************************************)
(* What the credential store of src/.src/store.rs promises the verifiers   *)
(* that share it: a book of which passwords each user verifies with. It    *)
(* starts empty, verifies nobody it does not know, and an enrollment       *)
(* replaces the one before it.                                             *)
(***************************************************************************)
CONSTANTS
  User,       \* user names
  Password,   \* passwords
  Alike       \* passwords HMAC cannot tell apart: a set of them per password

VARIABLES
  enrolled,   \* per user, the Option of the password behind the last enrollment
  book        \* per user, the passwords that verify

Init ==
  /\ enrolled = [user \in User |-> {}]
  /\ book = [user \in User |-> {}]

\* A password, or a verifier derived from one elsewhere, is enrolled.
Enroll(user, password) ==
  /\ enrolled' = [enrolled EXCEPT ![user] = {password}]
  /\ book' = [book EXCEPT ![user] = Alike[password]]

\* Four values from configuration no password is behind.
Lock(user) ==
  /\ enrolled' = [enrolled EXCEPT ![user] = {}]
  /\ book' = [book EXCEPT ![user] = {}]

Next == \E user \in User :
          Lock(user) \/ \E password \in Password : Enroll(user, password)

Spec == Init /\ [][Next]_<<enrolled, book>>
=============================================================================
