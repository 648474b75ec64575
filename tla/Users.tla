-------------------------------- MODULE Users --------------------------------
(***************************************************************************)
(* The /users endpoints: the guards, UsersService with its command bus,    *)
(* the handlers, PrismaUserRepo and the event bus.  A handler writes the   *)
(* row and, once the write is acknowledged, publishes the event; deletion  *)
(* looks the user up first.  Requests interleave at both awaits.           *)
(*                                                                         *)
(* No class of the repository handles an event, so publish() awaits        *)
(* nothing and is one step with the answer.  Abstracted: names, dates and  *)
(* the page that GET /users cuts out.                                      *)
(***************************************************************************)
EXTENDS Naturals, FiniteSets

CONSTANTS
  UserIds,     \* what User.id may become
  FirstUser, \* the user that is there at first, with a hashed password
  Addresses,   \* e-mail addresses; the first user has one of them
  Tasks        \* requests, each made once

ASSUME UsersAssumption == FirstUser \in UserIds

VARIABLES
  people,    \* User table, by id
  pinned,    \* users that RefreshToken rows refer to
  tasks,     \* the requests
  written,   \* history: the changes that were committed
  told       \* history: the events that were published

usersVars == <<people, pinned, tasks, written, told>>

UserRoles == {"admin", "user"}
Routes == {"list", "get", "create", "update", "delete", "auth/users"}
Statuses == {"200", "201", "204", "400", "401", "403", "404", "500", "LOST"}
Unmade == [op |-> "NONE", id |-> "NONE", address |-> "NONE", role |-> "NONE",
           at |-> "NEW", answer |-> "NONE"]

UsersInit ==
  /\ \E address \in Addresses : people =
       [id \in {FirstUser} |-> [email |-> address, role |-> "admin", hashed |-> TRUE]]
  /\ pinned = {}
  /\ tasks = [t \in Tasks |-> Unmade]
  /\ written = {} /\ told = {}

Present(id) == id \in DOMAIN people
\* The unique index on User.email.
Held(address, but) == \E id \in DOMAIN people \ but : people[id].email = address
Unused(id) == ~Present(id) /\ \A change \in written : change.id # id

Answer(t, status) ==
  tasks' = [tasks EXCEPT ![t].at = "ANSWERED", ![t].answer = status]

-----------------------------------------------------------------------------
(* The guards.                                                             *)

\* defineAbilityFor(): an admin may do anything, others read users, update
\* themselves, and nothing that is asked of 'all'.
Can(role, action, subject) ==
  role = "admin" \/ (action \in {"read", "update"} /\ subject = "UserEntity")

\* The policy of a route.
Policy(op) ==
  CASE op \in {"list", "get"} -> <<"read", "UserEntity">>
    [] op = "auth/users"      -> <<"read", "all">>
    [] OTHER                  -> <<op, "all">>

\* JwtAuthGuard: the role that the access token was signed with.  GET /auth/users
\* is not guarded by it, as the GraphQL queries, /email and /storage are not.
Identified(op, role) == IF op = "auth/users" THEN "NONE" ELSE role

\* PoliciesGuard refuses a request without a user.
Guarded(op, role) ==
  LET user == Identified(op, role) IN
  IF user = "NONE" THEN IF op = "auth/users" THEN "403" ELSE "401"
  ELSE IF Can(user, Policy(op)[1], Policy(op)[2]) THEN "PASS" ELSE "403"

-----------------------------------------------------------------------------
(* The requests.                                                           *)

\* What a handler awaits first; GET answers when that is there.
FirstStep(op) ==
  CASE op \in {"create", "update"} -> "WRITE" [] OTHER -> "FIND"

\* The status a body may be refused with: by the pipe, which validates the DTO,
BodyRefusals(op) == IF op \in {"create", "update"} THEN {"400"} ELSE {}
\* and by the constructor of Password, for six or seven characters, which the
\* DTO allows.
DomainRefusals(op) == IF op = "create" THEN {"500"} ELSE {}

\* A request comes in; role is that of its token, "NONE" without one.  An
\* address is given to create a user, and may be to update one.
Request(t, op, id, address, role) ==
  /\ tasks[t] = Unmade
  /\ op = "create" => address \in Addresses /\ id = "NONE"
  /\ op \in {"get", "update", "delete"} => id \in UserIds
  /\ op \in {"list", "auth/users"} => id = "NONE"
  /\ op \notin {"create", "update"} => address = "NONE"
  /\ LET request == [op |-> op, id |-> id, address |-> address, role |-> role,
                     at |-> FirstStep(op), answer |-> "NONE"]
         refused(status) == [request EXCEPT !.at = "ANSWERED", !.answer = status]
         bad == {refused(s) : s \in BodyRefusals(op) \cup DomainRefusals(op)}
     IN tasks' \in {[tasks EXCEPT ![t] = new] : new \in
          IF Guarded(op, role) = "PASS" THEN {request} \cup bad
                                        ELSE {refused(Guarded(op, role))}}
  /\ UNCHANGED <<people, pinned, written, told>>

At(t, step, op) == tasks[t].at = step /\ tasks[t].op = op

\* GetUserHandler and GetAllUsersHandler.
Read(t) ==
  /\ At(t, "FIND", "get") \/ At(t, "FIND", "list")
  /\ Answer(t, IF tasks[t].op = "list" \/ Present(tasks[t].id) THEN "200"
               ELSE "404")
  /\ UNCHANGED <<people, pinned, written, told>>

\* DeleteUserHandler looks the user up; its address goes into the event.
FindFirst(t) ==
  /\ At(t, "FIND", "delete")
  /\ IF Present(tasks[t].id) THEN tasks' = [tasks EXCEPT ![t].at = "WRITE"]
                             ELSE Answer(t, "404")
  /\ UNCHANGED <<people, pinned, written, told>>

\* Mutant of Commit: any error of the database is taken for a missing row.
CommitOrMiss(t, id) ==
  /\ written' = written \cup {[what |-> tasks[t].op, id |-> id, by |-> t]}
  /\ \/ tasks' = [tasks EXCEPT ![t].at = "WRITTEN", ![t].id = id]
     \/ Answer(t, "404")
  /\ UNCHANGED told

\* A write is committed; its acknowledgement may be lost.
Commit(t, id) ==
  /\ written' = written \cup {[what |-> tasks[t].op, id |-> id, by |-> t]}
  /\ \/ tasks' = [tasks EXCEPT ![t].at = "WRITTEN", ![t].id = id]
     \/ Answer(t, "500")
  /\ UNCHANGED told

Rejected(t, status) ==
  Answer(t, status) /\ UNCHANGED <<people, pinned, written, told>>

\* PrismaUserRepo.create(): the password is stored as it was sent.  Prisma's
\* message for a taken address does not say "already exists", so that it is
\* answered with 500.
InsertUser(t) ==
  /\ At(t, "WRITE", "create")
  /\ IF Held(tasks[t].address, {}) THEN Rejected(t, "500")
     ELSE \E id \in UserIds, role \in UserRoles :
       /\ Unused(id)
       /\ people' = [x \in DOMAIN people \cup {id} |->
            IF x = id THEN [email |-> tasks[t].address, role |-> role,
                            hashed |-> FALSE]
                      ELSE people[x]]
       /\ Commit(t, id)
       /\ UNCHANGED pinned

\* What UpdateUserHandler asks for: an address that is given, and a role.
Updated(person, address) ==
  {[person EXCEPT !.email = IF address = "NONE" THEN @ ELSE address,
                  !.role = role] : role \in UserRoles}

\* PrismaUserRepo.update(): "... required but not found" becomes 404.
Update(t) ==
  LET id == tasks[t].id  address == tasks[t].address IN
  /\ At(t, "WRITE", "update")
  /\ IF ~Present(id) THEN Rejected(t, "404")
     ELSE IF address # "NONE" /\ Held(address, {id}) THEN Rejected(t, "500")
     ELSE /\ people' \in {[people EXCEPT ![id] = person] :
                            person \in Updated(people[id], address)}
          /\ Commit(t, id)
          /\ UNCHANGED pinned

\* PrismaUserRepo.delete(): refused while RefreshToken rows refer to the user.
Remove(t) ==
  LET id == tasks[t].id IN
  /\ At(t, "WRITE", "delete")
  /\ IF ~Present(id) THEN Rejected(t, "404")
     ELSE IF id \in pinned THEN Rejected(t, "500")
     ELSE /\ people' = [other \in DOMAIN people \ {id} |-> people[other]]
          /\ Commit(t, id)
          /\ UNCHANGED pinned

\* The database fails before anything is written, or while it is asked.
DatabaseFails(t) ==
  /\ tasks[t].at \in {"FIND", "WRITE"}
  /\ Rejected(t, "500")

\* eventBus.publish() and the answer.
PublishEvent(t) ==
  /\ tasks[t].at = "WRITTEN"
  /\ told' = told \cup {[what |-> tasks[t].op, id |-> tasks[t].id, by |-> t]}
  /\ Answer(t, CASE tasks[t].op = "create" -> "201"
                 [] tasks[t].op = "update" -> "200"
                 [] tasks[t].op = "delete" -> "204")
  /\ UNCHANGED <<people, pinned, written>>

\* POST /auth/login compares a hash: a password stored as text never matches.
LogIn(id) ==
  /\ Present(id) /\ people[id].hashed
  /\ pinned' = pinned \cup {id}
  /\ UNCHANGED <<people, tasks, written, told>>

\* The process stops.
UsersCrash ==
  /\ tasks' = [t \in Tasks |->
       IF tasks[t].at \in {"NEW", "ANSWERED"} THEN tasks[t]
       ELSE [tasks[t] EXCEPT !.at = "ANSWERED", !.answer = "LOST"]]
  /\ UNCHANGED <<people, pinned, written, told>>

UsersNext ==
  \/ \E t \in Tasks :
       \/ \E op \in Routes, id \in UserIds \cup {"NONE"},
             address \in Addresses \cup {"NONE"}, role \in UserRoles \cup {"NONE"} :
            Request(t, op, id, address, role)
       \/ Read(t) \/ FindFirst(t) \/ InsertUser(t) \/ Update(t) \/ Remove(t)
       \/ DatabaseFails(t) \/ PublishEvent(t)
  \/ \E id \in UserIds : LogIn(id)
  \/ UsersCrash

UsersSpec == UsersInit /\ [][UsersNext]_usersVars

-----------------------------------------------------------------------------
(* Properties.                                                             *)

Changes == [what : {"create", "update", "delete"}, id : UserIds, by : Tasks]

\* Every variable keeps its type, and addresses are unique.
UsersTypeOK ==
  /\ DOMAIN people \subseteq UserIds
  /\ \A id \in DOMAIN people :
       /\ people[id] \in [email : Addresses, role : UserRoles, hashed : BOOLEAN]
       /\ ~Held(people[id].email, {id})
  /\ pinned \subseteq DOMAIN people
  /\ tasks \in [Tasks -> [op : Routes \cup {"NONE"}, id : UserIds \cup {"NONE"},
       address : Addresses \cup {"NONE"}, role : UserRoles \cup {"NONE"},
       at : {"NEW", "FIND", "WRITE", "WRITTEN", "ANSWERED"},
       answer : Statuses \cup {"NONE"}]]
  /\ written \subseteq Changes /\ told \subseteq Changes

\* How a request has ended, for its client.
OutcomeOf(t) ==
  IF tasks[t].at # "ANSWERED" THEN "OPEN"
  ELSE CASE tasks[t].answer \in {"200", "201", "204"} ->
              IF tasks[t].op \in {"create", "update", "delete"} THEN "DONE" ELSE "READ"
         [] tasks[t].answer \in {"400", "401", "403", "404"} -> "REFUSED"
         [] OTHER -> "ERROR"

\* Guards, lookups, writes, acknowledgements and events, at three awaits, are one
\* atomic change for each request of an admin, and the answers are true of it.
People == INSTANCE Directory WITH
            Ids <- UserIds, Emails <- Addresses, Requests <- Tasks,
            table <- [id \in DOMAIN people |-> people[id].email],
            admins <- {t \in Tasks : tasks[t].role = "admin"},
            changes <- written,
            outcome <- [t \in Tasks |-> OutcomeOf(t)]
ImplementsDirectory == People!Spec
=============================================================================
