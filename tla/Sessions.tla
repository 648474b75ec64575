------------------------------ MODULE Sessions ------------------------------
(***************************************************************************)
(* AuthService with the stores it shares between requests: the User and    *)
(* RefreshToken tables (Prisma) and the Redis blacklist.  Login, refresh   *)
(* and logout requests, and the guard of GET /auth/profile, interleave at  *)
(* every await; role updates and deletions of users (PrismaUserRepo) run   *)
(* between them.                                                           *)
(*                                                                         *)
(* A refresh token is identified with the id of its row.  The JWT format   *)
(* carries that id; the legacy format (Raw) is any other string a client   *)
(* may present, found, if at all, through the token column.  AuthService   *)
(* neither writes the revoked column nor deletes a row.                    *)
(*                                                                         *)
(* Abstracted: passwords (a comparison succeeds or not), signatures, the   *)
(* events published on the way, whose failures are swallowed, and clocks   *)
(* (a token expires at some moment).                                       *)
(***************************************************************************)
EXTENDS Naturals, FiniteSets

CONSTANTS
  Reqs,      \* request slots: at most one request each is in flight
  Users,     \* ids of users
  Tokens,    \* refresh tokens
  Raw,       \* those that are not JWTs with a tokenId
  Roles,     \* values of User.role
  None       \* no user, no token, no role

ASSUME SessionsAssumption ==
  /\ Raw \subseteq Tokens
  /\ None \notin Users \cup Tokens \cup Roles

VARIABLES
  role,       \* User table: the role of each user, None once deleted
  owner,      \* RefreshToken table: the user of each row, None without a row
  flagged,    \* rows whose revoked column is set
  expired,    \* rows whose expiresAt has passed
  blacklist,  \* Redis: tokens t with a key revoked_t
  reqs,       \* the request each slot is serving
  held,       \* refresh tokens that clients know
  access,     \* unexpired access tokens that clients know
  loggedOut,  \* history: tokens whose logout was answered with 200
  hist        \* history: what each request has witnessed

database == <<role, owner, flagged, expired>>
clients == <<held, access, loggedOut>>
vars == <<role, owner, flagged, expired, blacklist, reqs, held, access,
          loggedOut, hist>>

\* The awaits at which a request can be found.
PCs == {"IDLE",
        "CREDENTIALS", "COMPARE", "CREATE", "DELIVER",   \* login
        "CHECK", "FIND", "FALLBACK", "GRANT",            \* refresh
        "REVOKE",                                        \* logout
        "PROFILE"}                                       \* profile

\* An access token's payload, and the refresh token of its session.
AccessTokens == [user : Users, role : Roles, via : Tokens]

Request(pc, u, t, ro) == [pc |-> pc, user |-> u, token |-> t, role |-> ro]
Idle == Request("IDLE", None, None, None)

Deleted(u) == role[u] = None
HasRow(t) == owner[t] # None
RoleOf(u) == IF u = None THEN None ELSE role[u]

\* What a request on behalf of user u witnesses as it starts.
Witness(u, t) ==
  [subject |-> u,
   seen |-> {RoleOf(u)},
   revoked |-> t \in loggedOut,
   expired |-> t \in expired,
   failedOpen |-> FALSE]

Init ==
  /\ role \in [Users -> Roles]
  /\ owner \in [Tokens -> Users \cup {None}]
  /\ \A t \in Tokens \ Raw : owner[t] = None
  /\ flagged \in SUBSET {t \in Raw : HasRow(t)}
  /\ expired = {}
  /\ blacklist = {}
  /\ reqs = [r \in Reqs |-> Idle]
  /\ held = Raw
  /\ access = {}
  /\ loggedOut = {}
  /\ hist = [r \in Reqs |-> Witness(None, None)]

At(r, pc) == reqs[r].pc = pc

\* A request arrives; an awaited call lets one go on; one is answered.
Begin(r, req, u) ==
  /\ At(r, "IDLE")
  /\ reqs' = [reqs EXCEPT ![r] = req]
  /\ hist' = [hist EXCEPT ![r] = Witness(u, req.token)]
Goto(r, pc) ==
  /\ reqs' = [reqs EXCEPT ![r].pc = pc]
  /\ UNCHANGED hist
Answer(r) ==
  /\ reqs' = [reqs EXCEPT ![r] = Idle]
  /\ hist' = [hist EXCEPT ![r] = Witness(None, None)]

-----------------------------------------------------------------------------
(* POST /auth/login                                                        *)

Login(r, u) ==
  /\ Begin(r, Request("CREDENTIALS", u, None, None), u)
  /\ UNCHANGED <<database, blacklist, clients>>

\* validateUser(): the row is read once, and its role signed later.
Validate(r) ==
  /\ At(r, "CREDENTIALS")
  /\ ~Deleted(reqs[r].user)
  /\ reqs' = [reqs EXCEPT
       ![r] = Request("COMPARE", @.user, None, RoleOf(@.user))]
  /\ UNCHANGED <<database, blacklist, clients, hist>>

\* The password matches, and the access token is signed.
Compare(r) ==
  /\ At(r, "COMPARE")
  /\ Goto(r, "CREATE")
  /\ UNCHANGED <<database, blacklist, clients>>

\* signRefreshToken(): the insert has a fresh id and needs its user.  Its
\* acknowledgement may be lost; the row stays and the login fails.
CreateRow(r) ==
  /\ At(r, "CREATE")
  /\ ~Deleted(reqs[r].user)
  /\ \E t \in Tokens \ Raw :
       /\ ~HasRow(t)
       /\ owner' = [owner EXCEPT ![t] = reqs[r].user]
       /\ \/ /\ reqs' = [reqs EXCEPT
                  ![r] = Request("DELIVER", @.user, t, @.role)]
             /\ UNCHANGED hist
          \/ Answer(r)
  /\ UNCHANGED <<role, flagged, expired, blacklist, clients>>

\* No such user, wrong password, a database error, a user deleted since, or
\* a second login within the millisecond (its row's token column is equal).
LoginFails(r) ==
  /\ \E pc \in {"CREDENTIALS", "COMPARE", "CREATE"} : At(r, pc)
  /\ Answer(r)
  /\ UNCHANGED <<database, blacklist, clients>>

\* The response of a login or a refresh: an access token in any case.
Respond(r) ==
  /\ access' = access \cup
       {[user |-> reqs[r].user, role |-> reqs[r].role, via |-> reqs[r].token]}
  /\ Answer(r)
  /\ UNCHANGED <<database, blacklist, loggedOut>>

Deliver(r) ==
  /\ At(r, "DELIVER")
  /\ held' = held \cup {reqs[r].token}
  /\ Respond(r)

-----------------------------------------------------------------------------
(* POST /auth/refresh                                                      *)

Refresh(r, t) ==
  /\ t \in held
  /\ Begin(r, Request("CHECK", None, t, None), owner[t])
  /\ UNCHANGED <<database, blacklist, clients>>

\* isRevoked(): Redis answers ...
CheckRevoked(r) ==
  /\ At(r, "CHECK")
  /\ IF reqs[r].token \in blacklist THEN Answer(r) ELSE Goto(r, "FIND")
  /\ UNCHANGED <<database, blacklist, clients>>

\* ... or fails, which counts as "not revoked".
CheckFails(r) ==
  /\ At(r, "CHECK")
  /\ reqs' = [reqs EXCEPT ![r].pc = "FIND"]
  /\ hist' = [hist EXCEPT ![r].failedOpen = TRUE]
  /\ UNCHANGED <<database, blacklist, clients>>

\* Mutant of Examine: the included user is dropped and the role defaulted.
ExamineDefaults(r) ==
  LET t == reqs[r].token IN
  IF t \in expired
    THEN Answer(r)
    ELSE /\ \E default \in Roles :
              reqs' = [reqs EXCEPT ![r] = Request("GRANT", owner[t], t, default)]
         /\ UNCHANGED hist

\* Mutant of Examine: expiresAt is not looked at.
ExamineAnyAge(r) ==
  LET t == reqs[r].token IN
  /\ reqs' = [reqs EXCEPT ![r] = Request("GRANT", owner[t], t, RoleOf(owner[t]))]
  /\ UNCHANGED hist

\* The row was found, with its user as of the same query.
Examine(r) ==
  LET t == reqs[r].token IN
  IF t \in expired
    THEN Answer(r)
    ELSE /\ reqs' = [reqs EXCEPT
              ![r] = Request("GRANT", owner[t], t, RoleOf(owner[t]))]
         /\ UNCHANGED hist

\* The lookup by the JWT's tokenId.  It does not ask for the revoked column.
FindById(r) ==
  /\ At(r, "FIND")
  /\ reqs[r].token \notin Raw
  /\ HasRow(reqs[r].token)
  /\ Examine(r)
  /\ UNCHANGED <<database, blacklist, clients>>

\* Not a JWT, or a database error, which the catch block swallows.
FindMisses(r) ==
  /\ At(r, "FIND")
  /\ Goto(r, "FALLBACK")
  /\ UNCHANGED <<database, blacklist, clients>>

\* Mutant of FindByToken: a missing row is not noticed.
FindByTokenBlindly(r) ==
  /\ At(r, "FALLBACK")
  /\ reqs[r].token \in Raw \ flagged
  /\ Examine(r)
  /\ UNCHANGED <<database, blacklist, clients>>

\* The lookup by the token column, which never holds a JWT with a tokenId.
FindByToken(r) ==
  /\ At(r, "FALLBACK")
  /\ reqs[r].token \in Raw \ flagged
  /\ HasRow(reqs[r].token)
  /\ Examine(r)
  /\ UNCHANGED <<database, blacklist, clients>>

\* No such row, or a database error.
RefreshFails(r) ==
  /\ At(r, "FALLBACK")
  /\ Answer(r)
  /\ UNCHANGED <<database, blacklist, clients>>

Grant(r) ==
  /\ At(r, "GRANT")
  /\ Respond(r)
  /\ UNCHANGED held

-----------------------------------------------------------------------------
(* POST /auth/logout                                                       *)

Logout(r, t) ==
  /\ t \in held
  /\ Begin(r, Request("REVOKE", None, t, None), owner[t])
  /\ UNCHANGED <<database, blacklist, clients>>

\* Mutant of Revoke: the key is written under a prefix nobody reads.
RevokeElsewhere(r) ==
  /\ At(r, "REVOKE")
  /\ loggedOut' = loggedOut \cup {reqs[r].token}
  /\ Answer(r)
  /\ UNCHANGED <<database, blacklist, held, access>>

\* revokeRefreshToken(): acknowledged only once Redis has the key.
Revoke(r) ==
  /\ At(r, "REVOKE")
  /\ blacklist' = blacklist \cup {reqs[r].token}
  /\ loggedOut' = loggedOut \cup {reqs[r].token}
  /\ Answer(r)
  /\ UNCHANGED <<database, held, access>>

\* Mutant of RevokeFails: the error is logged and the logout acknowledged.
RevokeFailsQuietly(r) ==
  /\ At(r, "REVOKE")
  /\ blacklist' \in {blacklist, blacklist \cup {reqs[r].token}}
  /\ loggedOut' = loggedOut \cup {reqs[r].token}
  /\ Answer(r)
  /\ UNCHANGED <<database, held, access>>

\* Redis fails, with or without having stored the key: InvalidTokenError.
RevokeFails(r) ==
  /\ At(r, "REVOKE")
  /\ blacklist' \in {blacklist, blacklist \cup {reqs[r].token}}
  /\ Answer(r)
  /\ UNCHANGED <<database, clients>>

-----------------------------------------------------------------------------
(* GET /auth/profile: JwtAuthGuard accepts any access token that has not   *)
(* expired, and everyone may read.                                         *)

Profile(r, a) ==
  /\ Begin(r, Request("PROFILE", a.user, a.via, a.role), a.user)
  /\ UNCHANGED <<database, blacklist, clients>>

Serve(r) ==
  /\ At(r, "PROFILE")
  /\ Answer(r)
  /\ UNCHANGED <<database, blacklist, clients>>

-----------------------------------------------------------------------------
(* Around the requests.                                                    *)

\* PrismaUserRepo.update(), seen by every request on behalf of the user.
UpdateRole(u, ro) ==
  /\ ~Deleted(u)
  /\ role' = [role EXCEPT ![u] = ro]
  /\ hist' = [r \in Reqs |-> IF hist[r].subject = u
                THEN [hist[r] EXCEPT !.seen = @ \cup {ro}] ELSE hist[r]]
  /\ UNCHANGED <<owner, flagged, expired, blacklist, reqs, clients>>

\* Mutant of DeleteUser: the foreign key is missing.
DeleteUserAlways(u) ==
  /\ ~Deleted(u)
  /\ role' = [role EXCEPT ![u] = None]
  /\ UNCHANGED <<owner, flagged, expired, blacklist, reqs, clients, hist>>

\* PrismaUserRepo.delete(): the foreign key of a row restricts it.
DeleteUser(u) ==
  /\ ~Deleted(u)
  /\ \A t \in Tokens : owner[t] # u
  /\ role' = [role EXCEPT ![u] = None]
  /\ UNCHANGED <<owner, flagged, expired, blacklist, reqs, clients, hist>>

\* expiresAt passes.
Expire(t) ==
  /\ HasRow(t)
  /\ t \notin expired
  /\ expired' = expired \cup {t}
  /\ UNCHANGED <<role, owner, flagged, blacklist, reqs, clients, hist>>

\* ACCESS_TOKEN_EXP passes.
ExpireAccess(a) ==
  /\ access' = access \ {a}
  /\ UNCHANGED <<database, blacklist, reqs, held, loggedOut, hist>>

\* The process restarts: every request is lost, the stores are not.
Crash ==
  /\ \E r \in Reqs : ~At(r, "IDLE")
  /\ reqs' = [r \in Reqs |-> Idle]
  /\ hist' = [r \in Reqs |-> Witness(None, None)]
  /\ UNCHANGED <<database, blacklist, clients>>

Step(r) ==
  \/ \E u \in Users : Login(r, u)
  \/ Validate(r) \/ Compare(r) \/ CreateRow(r) \/ LoginFails(r) \/ Deliver(r)
  \/ \E t \in Tokens : Refresh(r, t) \/ Logout(r, t)
  \/ CheckRevoked(r) \/ CheckFails(r)
  \/ FindById(r) \/ FindMisses(r) \/ FindByToken(r) \/ RefreshFails(r)
  \/ Grant(r)
  \/ Revoke(r) \/ RevokeFails(r)
  \/ \E a \in access : Profile(r, a)
  \/ Serve(r)

Environment ==
  \/ \E u \in Users : DeleteUser(u) \/ \E ro \in Roles : UpdateRole(u, ro)
  \/ \E t \in Tokens : Expire(t)
  \/ \E a \in access : ExpireAccess(a)
  \/ Crash

Next == Environment \/ \E r \in Reqs : Step(r)

Spec == Init /\ [][Next]_vars

-----------------------------------------------------------------------------
(* Properties.                                                             *)

\* Every variable keeps its type.
TypeOK ==
  /\ role \in [Users -> Roles \cup {None}]
  /\ owner \in [Tokens -> Users \cup {None}]
  /\ flagged \subseteq Raw
  /\ expired \subseteq Tokens
  /\ blacklist \subseteq Tokens
  /\ held \subseteq Tokens
  /\ access \subseteq AccessTokens
  /\ loggedOut \subseteq Tokens
  /\ reqs \in [Reqs -> [pc : PCs, user : Users \cup {None},
                        token : Tokens \cup {None}, role : Roles \cup {None}]]
  /\ hist \in [Reqs -> [subject : Users \cup {None},
                        seen : SUBSET (Roles \cup {None}),
                        revoked : BOOLEAN, expired : BOOLEAN,
                        failedOpen : BOOLEAN]]

\* refreshAccessToken() grants a token only if, when the request came in, the
\* token had not expired and no logout of it had been answered -- unless
\* Redis failed to answer, which isRevoked() takes for a "no".
GrantsAreJustified ==
  \A r \in Reqs : At(r, "GRANT") =>
    /\ ~hist[r].expired
    /\ hist[r].revoked => hist[r].failedOpen

\* The role that login and refresh sign is one the user has had since the
\* request came in: an update that was finished before is never missed.
SignedRoleIsFresh ==
  \A r \in Reqs : reqs[r].pc \in {"DELIVER", "GRANT"} =>
    reqs[r].role \in hist[r].seen

\* A user who was ever given tokens is never deleted, although login reads
\* the user long before the row that pins it is written: no row and no access
\* token names a user that is gone.
TokensPinTheirUser ==
  /\ \A t \in Tokens : HasRow(t) => ~Deleted(owner[t])
  /\ \A a \in access : ~Deleted(a.user)

\* The request's token is good as far as the request has seen: from the check
\* until it is answered, unless the token expires before its row is examined.
\* A login holds the token whose row it has created.
Approved(r) ==
  \/ reqs[r].pc \in {"DELIVER", "GRANT"}
  \/ reqs[r].pc \in {"FIND", "FALLBACK"} /\ reqs[r].token \notin expired

ApprovalOf(r) == [by |-> r, token |-> reqs[r].token, sure |-> ~hist[r].failedOpen]

\* isRevoked() and the look at expiresAt are apart, with Redis and the database
\* changing in between; together they decide as if at one moment.
Gate == INSTANCE Approvals WITH
          approvals <- {ApprovalOf(r) : r \in {q \in Reqs : Approved(q)}},
          issued <- {a.via : a \in access}
ImplementsApprovals == Gate!Spec

\* If Redis stops failing, a logout is final: from some point on no request is
\* granted a token whose logout was answered.  Until then a request that was
\* past the check may be, and comes back with another token to be so again.
LogoutIsFinal ==
  <>[][~ \E q \in Reqs : CheckFails(q)]_vars =>
    \A r \in Reqs, t \in Tokens :
      <>[][Grant(r) /\ reqs[r].token = t => t \notin loggedOut]_vars

-----------------------------------------------------------------------------
(* Statements of the documentation that the code does not meet.            *)

\* README, "Token Revocation": "Prevents token reuse after logout".
NoReuseAfterLogout ==
  \A r \in Reqs : At(r, "GRANT") => ~hist[r].revoked

\* diagrams/auth_jwt_flow.mmd, on the way to the profile: "check revoked".
ProfileChecksRevocation ==
  \A r \in Reqs : At(r, "PROFILE") => ~hist[r].revoked
=============================================================================
