------------------------------ MODULE Accounts ------------------------------
(***************************************************************************)
(* Registration, the /users endpoints and the mail queue, side by side: a  *)
(* behaviour is one of the part that `part` names, while the others rest   *)
(* in an initial state.  What register() and the endpoints do to one row   *)
(* meets in the User table, and is in each of the two modules.             *)
(***************************************************************************)
EXTENDS Registration, Users, Mail

VARIABLE part

Parts == {"registration", "users", "mail"}

\* What is chosen at first only matters in its own part.
AccountsInit ==
  /\ part \in Parts
  /\ Init /\ UsersInit /\ MailInit
  /\ part # "registration" => \A r \in Reqs : email[r] = CHOOSE e \in Emails : TRUE
  /\ part # "users" =>
       people[FirstUser].email = CHOOSE address \in Addresses : TRUE
  /\ part # "mail" => ~enabled

AccountsNext ==
  \/ part = "registration" /\ Next /\ UNCHANGED <<part, usersVars, mailVars>>
  \/ part = "users" /\ UsersNext /\ UNCHANGED <<part, vars, mailVars>>
  \/ part = "mail" /\ MailNext /\ UNCHANGED <<part, vars, usersVars>>

\* The fairness of each part, for the behaviours of that part.
AccountsFairness ==
  /\ \A r \in Reqs : WF_vars(part = "registration" /\ Step(r))
  /\ \A c \in Contexts :
       /\ WF_mailVars(part = "mail" /\ Working(c))
       /\ WF_mailVars(part = "mail" /\ Unlock(c))

AccountsSpec ==
  AccountsInit /\ [][AccountsNext]_<<part, vars, usersVars, mailVars>>
    /\ AccountsFairness

-----------------------------------------------------------------------------
\* Every variable keeps its type, in every part.
AccountsTypeOK == part \in Parts /\ TypeOK /\ UsersTypeOK /\ MailTypeOK
=============================================================================
