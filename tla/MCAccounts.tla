----------------------------- MODULE MCAccounts -----------------------------
(* Accounts with two registrations of one of two addresses each, two       *)
(* requests to the /users endpoints, and one mail.                         *)
EXTENDS Accounts

CONSTANTS r1, r2, e1, e2, u1, u2, t1, t2, m1

TwoRequests == {r1, r2}
TwoEmails == {e1, e2}
TwoIds == {u1, u2}
TwoTasks == {t1, t2}
OneMail == {m1}
=============================================================================
