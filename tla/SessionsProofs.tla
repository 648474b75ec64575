--------------------------- MODULE SessionsProofs ---------------------------
(***************************************************************************)
(* Sessions for any number of overlapping requests, users and tokens:      *)
(* types, the invariants GrantsAreJustified, SignedRoleIsFresh and         *)
(* TokensPinTheirUser, that logouts are final, and the refinement of       *)
(* Approvals.                                                              *)
(***************************************************************************)
EXTENDS Sessions, TLAPS

Requests == [pc : PCs, user : Users \cup {None}, token : Tokens \cup {None},
             role : Roles \cup {None}]
Witnesses == [subject : Users \cup {None}, seen : SUBSET (Roles \cup {None}),
              revoked : BOOLEAN, expired : BOOLEAN, failedOpen : BOOLEAN]

LoginPCs == {"CREDENTIALS", "COMPARE", "CREATE", "DELIVER"}
RefreshPCs == {"CHECK", "FIND", "FALLBACK", "GRANT"}

-----------------------------------------------------------------------------
(* The inductive invariant: what is known of a request at each await, and  *)
(* of the stores.                                                          *)

\* On whose behalf a request runs; the row of a token that a client holds
\* does not change its user.
Subject(r) ==
  /\ reqs[r].pc \in LoginPCs =>
       reqs[r].user \in Users /\ hist[r].subject = reqs[r].user
  /\ reqs[r].pc \in RefreshPCs =>
       reqs[r].token \in held /\ hist[r].subject = owner[reqs[r].token]
  /\ reqs[r].pc = "REVOKE" => reqs[r].token \in held

\* What was so when a refresh came in is still so.
Lasting(r) ==
  reqs[r].pc \in RefreshPCs =>
    /\ hist[r].revoked => reqs[r].token \in loggedOut
    /\ hist[r].expired => reqs[r].token \in expired

\* What the checks of a refresh have established.
Checked(r) ==
  /\ reqs[r].pc \in RefreshPCs \ {"CHECK"} =>
       (hist[r].revoked => hist[r].failedOpen)
  /\ reqs[r].pc = "GRANT" => ~hist[r].expired

\* The role of the subject has been witnessed, and so has the one read.
Seen(r) ==
  /\ reqs[r].pc \in LoginPCs \cup RefreshPCs =>
       \A u \in Users : u = hist[r].subject /\ ~Deleted(u) =>
         role[u] \in hist[r].seen
  /\ reqs[r].pc \in {"COMPARE", "CREATE", "DELIVER", "GRANT"} =>
       reqs[r].role \in hist[r].seen /\ reqs[r].role \in Roles

\* A response is backed by a row.
Backed(r) ==
  reqs[r].pc \in {"DELIVER", "GRANT"} =>
    /\ reqs[r].token \in Tokens
    /\ HasRow(reqs[r].token)
    /\ reqs[r].user = owner[reqs[r].token]

RequestInv(r) ==
  Subject(r) /\ Lasting(r) /\ Checked(r) /\ Seen(r) /\ Backed(r)

StoreInv ==
  /\ loggedOut \subseteq blacklist
  /\ \A t \in Tokens : HasRow(t) => ~Deleted(owner[t])
  /\ \A t \in held : t \in Raw \/ HasRow(t)
  /\ \A a \in access : HasRow(a.via) /\ a.user = owner[a.via]

IInv == TypeOK /\ StoreInv /\ \A r \in Reqs : RequestInv(r)

-----------------------------------------------------------------------------
\* An answered request has nothing left to establish.
LEMMA IdleIsFine ==
  ASSUME NEW r \in Reqs, reqs'[r] = Idle
  PROVE  RequestInv(r)'
BY DEF Idle, Request, RequestInv, Subject, Lasting, Checked, Seen, Backed,
       LoginPCs, RefreshPCs

\* What another request does to the stores leaves a request's invariant.
Grows ==
  /\ role' = role
  /\ held \subseteq held'
  /\ loggedOut \subseteq loggedOut'
  /\ expired \subseteq expired'
  /\ \A t \in Tokens : t \in Raw \/ HasRow(t) => owner'[t] = owner[t]

LEMMA OthersKeep ==
  ASSUME TypeOK, StoreInv, Grows,
         NEW r \in Reqs, RequestInv(r),
         reqs'[r] = reqs[r], hist'[r] = hist[r]
  PROVE  RequestInv(r)'
<1> USE SessionsAssumption
<1>1. held \subseteq Tokens
  BY DEF TypeOK
<1>2. \A t \in held : owner'[t] = owner[t]
  BY <1>1 DEF StoreInv, Grows
<1>3. Subject(r)'
  BY <1>2 DEF RequestInv, Subject, Grows
<1>4. Lasting(r)' /\ Checked(r)'
  BY DEF RequestInv, Lasting, Checked, Grows
<1>5. Seen(r)'
  BY DEF RequestInv, Seen, Grows, Deleted
<1>6. Backed(r)'
  BY DEF RequestInv, Backed, Grows, HasRow
<1> QED
  BY <1>3, <1>4, <1>5, <1>6 DEF RequestInv

\* Initially.
LEMMA InvInit == Init => IInv
<1> SUFFICES ASSUME Init PROVE IInv
  OBVIOUS
<1> USE SessionsAssumption DEF Init
<1>1. Idle \in Requests /\ Witness(None, None) \in Witnesses
  BY DEF Idle, Request, Requests, PCs, Witness, Witnesses, RoleOf
<1>2. TypeOK
  BY <1>1 DEF TypeOK, Requests, Witnesses
<1>3. \A r \in Reqs : RequestInv(r)
  BY DEF Idle, Request, RequestInv, Subject, Lasting, Checked, Seen, Backed,
         LoginPCs, RefreshPCs
<1>4. StoreInv
  BY DEF StoreInv, HasRow, Deleted
<1> QED
  BY <1>2, <1>3, <1>4 DEF IInv

-----------------------------------------------------------------------------
(* Steps.                                                                  *)

StoreType ==
  /\ role \in [Users -> Roles \cup {None}]
  /\ owner \in [Tokens -> Users \cup {None}]
  /\ flagged \subseteq Raw
  /\ expired \subseteq Tokens
  /\ blacklist \subseteq Tokens
  /\ held \subseteq Tokens
  /\ access \subseteq AccessTokens
  /\ loggedOut \subseteq Tokens

RequestType == reqs \in [Reqs -> Requests] /\ hist \in [Reqs -> Witnesses]

LEMMA TypeSplit ==
  /\ TypeOK <=> StoreType /\ RequestType
  /\ TypeOK' <=> StoreType' /\ RequestType'
BY DEF TypeOK, StoreType, RequestType, Requests, Witnesses

\* Nothing but the requests and their histories changes.
StoresKept == UNCHANGED <<database, blacklist, clients>>

LEMMA StoresKeptIsFine ==
  ASSUME IInv, StoresKept
  PROVE  Grows /\ StoreType' /\ StoreInv'
<1>1. StoreType /\ StoreInv
  BY TypeSplit DEF IInv
<1>2. UNCHANGED <<role, owner, flagged, expired, blacklist, held, access,
                  loggedOut>>
  BY DEF StoresKept, database, clients
<1>3. Grows
  BY <1>2 DEF Grows
<1>4. StoreType'
  BY <1>1, <1>2 DEF StoreType
<1>5. StoreInv'
  BY <1>1, <1>2 DEF StoreInv, HasRow, Deleted
<1> QED
  BY <1>3, <1>4, <1>5

\* One request moves, the others keep their invariant.
LEMMA OneMoves ==
  ASSUME IInv, NEW r \in Reqs, NEW q \in Requests, NEW h \in Witnesses,
         reqs' = [reqs EXCEPT ![r] = q],
         hist' = [hist EXCEPT ![r] = h],
         Grows, StoreType', StoreInv', RequestInv(r)'
  PROVE  IInv'
<1>1. RequestType
  BY TypeSplit DEF IInv
<1>2. RequestType'
  BY <1>1 DEF RequestType
<1>3. ASSUME NEW p \in Reqs PROVE RequestInv(p)'
  <2>1. CASE p = r
    BY <2>1
  <2>2. CASE p # r
    <3>1. reqs'[p] = reqs[p] /\ hist'[p] = hist[p]
      BY <1>1, <2>2 DEF RequestType
    <3> QED
      BY <3>1, OthersKeep DEF IInv
  <2> QED
    BY <2>1, <2>2
<1> QED
  BY <1>2, <1>3, TypeSplit DEF IInv

\* A request is answered.
LEMMA Answered ==
  ASSUME IInv, NEW r \in Reqs, Answer(r), Grows, StoreType', StoreInv'
  PROVE  IInv'
<1>1. Idle \in Requests /\ Witness(None, None) \in Witnesses
  BY SessionsAssumption
  DEF Idle, Request, Requests, PCs, Witness, Witnesses, RoleOf
<1>2. /\ reqs' = [reqs EXCEPT ![r] = Idle]
      /\ hist' = [hist EXCEPT ![r] = Witness(None, None)]
  BY DEF Answer
<1>3. reqs'[r] = Idle
  BY <1>2 DEF IInv, TypeOK
<1>4. RequestInv(r)'
  BY <1>3, IdleIsFine
<1> QED
  BY <1>1, <1>2, <1>4, OneMoves

\* A request that goes on, with its history or another one.
LEMMA GoesOn ==
  ASSUME IInv, NEW r \in Reqs, NEW q \in Requests, NEW h \in Witnesses,
         reqs' = [reqs EXCEPT ![r] = q],
         hist' = [hist EXCEPT ![r] = h],
         StoresKept, RequestInv(r)'
  PROVE  IInv'
BY StoresKeptIsFine, OneMoves

LEMMA SameHistory ==
  ASSUME IInv, NEW r \in Reqs, UNCHANGED hist
  PROVE  hist' = [hist EXCEPT ![r] = hist[r]] /\ hist[r] \in Witnesses
<1>1. hist \in [Reqs -> Witnesses]
  BY TypeSplit DEF IInv, RequestType
<1> QED
  BY <1>1

-----------------------------------------------------------------------------
(* Login.                                                                  *)

LEMMA LoginStep ==
  ASSUME IInv, NEW r \in Reqs, NEW u \in Users, Login(r, u)
  PROVE  IInv'
<1> DEFINE q == Request("CREDENTIALS", u, None, None)
           h == Witness(u, None)
<1>1. /\ reqs' = [reqs EXCEPT ![r] = q]
      /\ hist' = [hist EXCEPT ![r] = h]
      /\ StoresKept
  BY DEF Login, Begin, Request, StoresKept
<1>2. q \in Requests
  BY DEF Request, Requests, PCs
<1>3. role \in [Users -> Roles \cup {None}] /\ u # None
  BY SessionsAssumption DEF IInv, TypeOK
<1>4. h \in Witnesses
  BY <1>3 DEF Witness, Witnesses, RoleOf
<1>5. reqs'[r] = q /\ hist'[r] = h /\ role' = role
  BY <1>1 DEF IInv, TypeOK, StoresKept, database
<1>6. RequestInv(r)'
  BY <1>3, <1>5
  DEF Request, Witness, RoleOf, RequestInv, Subject, Lasting, Checked, Seen,
      Backed, LoginPCs, RefreshPCs, Deleted
<1> HIDE DEF q, h
<1> QED
  BY <1>1, <1>2, <1>4, <1>6, GoesOn

LEMMA ValidateStep ==
  ASSUME IInv, NEW r \in Reqs, Validate(r)
  PROVE  IInv'
<1> DEFINE u == reqs[r].user
           q == Request("COMPARE", u, None, RoleOf(u))
<1>1. /\ reqs' = [reqs EXCEPT ![r] = q]
      /\ UNCHANGED hist
      /\ StoresKept
      /\ reqs[r].pc = "CREDENTIALS"
      /\ role[u] # None
  BY DEF Validate, StoresKept, database, clients, At, Deleted
<1>2. /\ u \in Users
      /\ hist[r].subject = u
      /\ role[u] \in hist[r].seen
  BY <1>1 DEF IInv, RequestInv, Subject, Seen, LoginPCs, Deleted
<1>3. role[u] \in Roles /\ RoleOf(u) = role[u]
  BY <1>1, <1>2, SessionsAssumption DEF IInv, TypeOK, RoleOf
<1>4. q \in Requests
  BY <1>2, <1>3 DEF Request, Requests, PCs
<1>5. reqs'[r] = q /\ hist'[r] = hist[r] /\ role' = role
  BY <1>1 DEF IInv, TypeOK, StoresKept, database
<1>6. RequestInv(r)'
  <2> HIDE DEF u
  <2> QED
    BY <1>2, <1>3, <1>5
    DEF Request, RequestInv, Subject, Lasting, Checked, Seen, Backed,
        LoginPCs, RefreshPCs, Deleted
<1> HIDE DEF q
<1> QED
  BY <1>1, <1>4, <1>6, SameHistory, GoesOn

\* Goto keeps everything of a request but where it is.
LEMMA GotoEffect ==
  ASSUME IInv, NEW r \in Reqs, NEW pc \in PCs, Goto(r, pc)
  PROVE  /\ [reqs[r] EXCEPT !.pc = pc] \in Requests
         /\ reqs' = [reqs EXCEPT ![r] = [reqs[r] EXCEPT !.pc = pc]]
         /\ reqs'[r].pc = pc
         /\ reqs'[r].user = reqs[r].user
         /\ reqs'[r].token = reqs[r].token
         /\ reqs'[r].role = reqs[r].role
         /\ hist' = hist
<1>1. reqs \in [Reqs -> Requests]
  BY TypeSplit DEF IInv, RequestType
<1>2. reqs[r] \in Requests
  BY <1>1
<1>3. reqs' = [reqs EXCEPT ![r] = [reqs[r] EXCEPT !.pc = pc]] /\ hist' = hist
  BY DEF Goto
<1>4. reqs'[r] = [reqs[r] EXCEPT !.pc = pc]
  BY <1>1, <1>3
<1> QED
  BY <1>2, <1>3, <1>4 DEF Requests

LEMMA GotoStep ==
  ASSUME IInv, NEW r \in Reqs, NEW pc \in PCs, Goto(r, pc), StoresKept,
         RequestInv(r)'
  PROVE  IInv'
<1> DEFINE q == [reqs[r] EXCEPT !.pc = pc]
           h == hist[r]
<1>1. q \in Requests /\ reqs' = [reqs EXCEPT ![r] = q] /\ hist' = hist
  BY GotoEffect
<1>2. hist' = [hist EXCEPT ![r] = h] /\ h \in Witnesses
  BY <1>1, SameHistory
<1> HIDE DEF q, h
<1> QED
  BY <1>1, <1>2, GoesOn

LEMMA CompareStep ==
  ASSUME IInv, NEW r \in Reqs, Compare(r)
  PROVE  IInv'
<1>1. /\ Goto(r, "CREATE")
      /\ StoresKept
      /\ reqs[r].pc = "COMPARE"
      /\ role' = role
  BY DEF Compare, StoresKept, database, clients, At
<1>2. "CREATE" \in PCs
  BY DEF PCs
<1>3. /\ reqs'[r].pc = "CREATE"
      /\ reqs'[r].user = reqs[r].user
      /\ reqs'[r].role = reqs[r].role
      /\ hist'[r] = hist[r]
  BY <1>1, <1>2, GotoEffect
<1>4. RequestInv(r)
  BY DEF IInv
<1>5. Subject(r)'
  BY <1>1, <1>3, <1>4 DEF RequestInv, Subject, LoginPCs, RefreshPCs
<1>6. Lasting(r)' /\ Checked(r)' /\ Backed(r)'
  BY <1>3 DEF Lasting, Checked, Backed, RefreshPCs
<1>7. Seen(r)'
  BY <1>1, <1>3, <1>4 DEF RequestInv, Seen, Deleted, LoginPCs, RefreshPCs
<1>8. RequestInv(r)'
  BY <1>5, <1>6, <1>7 DEF RequestInv
<1> QED
  BY <1>1, <1>2, <1>8, GotoStep

\* The insert.  The new row's user is not deleted, and no other row changes.
LEMMA CreateRowStep ==
  ASSUME IInv, NEW r \in Reqs, CreateRow(r)
  PROVE  IInv'
<1> DEFINE u == reqs[r].user
<1>1. PICK t \in Tokens \ Raw :
        /\ ~HasRow(t)
        /\ owner' = [owner EXCEPT ![t] = u]
        /\ \/ /\ reqs' = [reqs EXCEPT
                    ![r] = Request("DELIVER", u, t, reqs[r].role)]
              /\ UNCHANGED hist
           \/ Answer(r)
  BY DEF CreateRow
<1>2. /\ reqs[r].pc = "CREATE"
      /\ role[u] # None
      /\ UNCHANGED <<role, flagged, expired, blacklist, held, access,
                     loggedOut>>
  BY DEF CreateRow, At, Deleted, clients
<1>3. /\ StoreType /\ RequestType /\ StoreInv
      /\ RequestInv(r)
  BY TypeSplit DEF IInv
<1>4. /\ u \in Users
      /\ hist[r].subject = u
      /\ reqs[r].role \in hist[r].seen /\ reqs[r].role \in Roles
      /\ role[u] \in hist[r].seen
  BY <1>2, <1>3 DEF RequestInv, Subject, Seen, LoginPCs, Deleted
<1> HIDE DEF u
<1>5. /\ owner'[t] = u
      /\ \A s \in Tokens : s # t => owner'[s] = owner[s]
      /\ owner' \in [Tokens -> Users \cup {None}]
  BY <1>1, <1>3, <1>4 DEF StoreType
<1>6. u # None
  BY <1>4, SessionsAssumption
<1>7. Grows
  BY <1>1, <1>2, <1>5 DEF Grows, HasRow
<1>8. StoreType'
  BY <1>2, <1>3, <1>5 DEF StoreType
<1>9. StoreInv'
  <2>1. \A s \in Tokens : HasRow(s) => owner'[s] = owner[s] /\ HasRow(s)'
    BY <1>1, <1>5 DEF HasRow
  <2>2. held \subseteq Tokens /\ \A a \in access : a.via \in Tokens
    BY <1>3 DEF StoreType, AccessTokens
  <2>3. (loggedOut \subseteq blacklist)'
    BY <1>2, <1>3 DEF StoreInv
  <2>4. (\A s \in Tokens : HasRow(s) => ~Deleted(owner[s]))'
    BY <1>2, <1>3, <1>5 DEF StoreInv, HasRow, Deleted
  <2>5. (\A s \in held : s \in Raw \/ HasRow(s))'
    BY <1>2, <1>3, <2>1, <2>2 DEF StoreInv
  <2>6. (\A a \in access : HasRow(a.via) /\ a.user = owner[a.via])'
    BY <1>2, <1>3, <2>1, <2>2 DEF StoreInv
  <2> QED
    BY <2>3, <2>4, <2>5, <2>6 DEF StoreInv
<1>10. CASE Answer(r)
  BY <1>7, <1>8, <1>9, <1>10, Answered
<1>11. CASE /\ reqs' = [reqs EXCEPT
                 ![r] = Request("DELIVER", u, t, reqs[r].role)]
            /\ UNCHANGED hist
  <2> DEFINE q == Request("DELIVER", u, t, reqs[r].role)
  <2>1. q \in Requests
    BY <1>4 DEF Request, Requests, PCs
  <2>2. reqs'[r] = q /\ hist'[r] = hist[r]
    BY <1>3, <1>11 DEF RequestType
  <2>3. Subject(r)' /\ Lasting(r)' /\ Checked(r)'
    BY <1>4, <2>2 DEF Request, Subject, Lasting, Checked, LoginPCs, RefreshPCs
  <2>4. Seen(r)'
    BY <1>2, <1>4, <2>2 DEF Request, Seen, Deleted
  <2>5. Backed(r)'
    BY <1>5, <1>6, <2>2 DEF Request, Backed, HasRow
  <2>6. RequestInv(r)'
    BY <2>3, <2>4, <2>5 DEF RequestInv
  <2>7. hist' = [hist EXCEPT ![r] = hist[r]] /\ hist[r] \in Witnesses
    BY <1>11, SameHistory
  <2>8. reqs' = [reqs EXCEPT ![r] = q]
    BY <1>11
  <2> HIDE DEF q
  <2> QED
    BY <1>7, <1>8, <1>9, <2>1, <2>6, <2>7, <2>8, OneMoves
<1> QED
  BY <1>1, <1>10, <1>11 DEF u

LEMMA AnsweredQuietly ==
  ASSUME IInv, NEW r \in Reqs, Answer(r), StoresKept
  PROVE  IInv'
BY Answered, StoresKeptIsFine

\* The response of a login or a refresh.
LEMMA RespondStep ==
  ASSUME IInv, NEW r \in Reqs, Respond(r), reqs[r].pc \in {"DELIVER", "GRANT"},
         held' = held \/ held' = held \cup {reqs[r].token}
  PROVE  IInv'
<1> DEFINE a == [user |-> reqs[r].user, role |-> reqs[r].role,
                 via |-> reqs[r].token]
<1>1. /\ access' = access \cup {a}
      /\ Answer(r)
      /\ UNCHANGED <<role, owner, flagged, expired, blacklist, loggedOut>>
  BY DEF Respond, database
<1>2. StoreType /\ StoreInv /\ RequestInv(r)
  BY TypeSplit DEF IInv
<1>3. /\ reqs[r].token \in Tokens
      /\ owner[reqs[r].token] # None
      /\ reqs[r].user = owner[reqs[r].token]
      /\ reqs[r].role \in Roles
  BY <1>2 DEF RequestInv, Backed, Seen, HasRow
<1>4. a \in AccessTokens
  BY <1>2, <1>3 DEF StoreType, AccessTokens
<1>5. a.via = reqs[r].token /\ a.user = reqs[r].user
  OBVIOUS
<1> HIDE DEF a
<1>6. StoreType'
  BY <1>1, <1>2, <1>3, <1>4 DEF StoreType
<1>7. StoreInv'
  BY <1>1, <1>2, <1>3, <1>5 DEF StoreInv, HasRow, Deleted
<1>8. Grows
  BY <1>1 DEF Grows
<1> QED
  BY <1>1, <1>6, <1>7, <1>8, Answered

-----------------------------------------------------------------------------
(* Refresh.                                                                *)

LEMMA RefreshStep ==
  ASSUME IInv, NEW r \in Reqs, NEW t \in Tokens, Refresh(r, t)
  PROVE  IInv'
<1> DEFINE q == Request("CHECK", None, t, None)
           h == Witness(owner[t], t)
<1>1. /\ reqs' = [reqs EXCEPT ![r] = q]
      /\ hist' = [hist EXCEPT ![r] = h]
      /\ StoresKept
      /\ t \in held
  BY DEF Refresh, Begin, Request, StoresKept
<1>2. StoreType /\ RequestType
  BY TypeSplit DEF IInv
<1>3. q \in Requests /\ h \in Witnesses
  BY <1>2, SessionsAssumption
  DEF Request, Requests, PCs, Witness, Witnesses, RoleOf, StoreType
<1>4. /\ reqs'[r] = q /\ hist'[r] = h
      /\ UNCHANGED <<role, owner, expired, held, loggedOut>>
  BY <1>1, <1>2 DEF RequestType, StoresKept, database, clients
<1>5. Subject(r)' /\ Checked(r)' /\ Backed(r)'
  BY <1>1, <1>4 DEF Request, Witness, Subject, Checked, Backed,
                    LoginPCs, RefreshPCs
<1>6. Lasting(r)'
  <2>1. /\ q.token = t
        /\ h.revoked = (t \in loggedOut)
        /\ h.expired = (t \in expired)
    BY DEF Request, Witness
  <2> HIDE DEF q, h
  <2>2. /\ h.revoked => t \in loggedOut
        /\ h.expired => t \in expired
    BY <2>1, Zenon
  <2> QED
    BY <1>4, <2>1, <2>2 DEF Lasting
<1>7. Seen(r)'
  BY <1>4, SessionsAssumption DEF Request, Witness, RoleOf, Seen, Deleted
<1>8. RequestInv(r)'
  BY <1>5, <1>6, <1>7 DEF RequestInv
<1> HIDE DEF q, h
<1> QED
  BY <1>1, <1>3, <1>8, GoesOn

\* Redis answers: the token of a logout that was answered is refused.
LEMMA CheckRevokedStep ==
  ASSUME IInv, NEW r \in Reqs, CheckRevoked(r)
  PROVE  IInv'
<1>1. StoresKept /\ reqs[r].pc = "CHECK"
  BY DEF CheckRevoked, StoresKept, At
<1>2. CASE Answer(r)
  BY <1>1, <1>2, AnsweredQuietly
<1>3. CASE reqs[r].token \notin blacklist /\ Goto(r, "FIND")
  <2>1. "FIND" \in PCs
    BY DEF PCs
  <2>2. /\ reqs'[r].pc = "FIND"
        /\ reqs'[r].token = reqs[r].token
        /\ hist'[r] = hist[r]
    BY <1>3, <2>1, GotoEffect
  <2>3. UNCHANGED <<role, owner, expired, held, loggedOut>>
    BY <1>1 DEF StoresKept, database, clients
  <2>4. RequestInv(r) /\ loggedOut \subseteq blacklist
    BY DEF IInv, StoreInv
  <2>5. Subject(r)' /\ Lasting(r)' /\ Backed(r)'
    BY <1>1, <2>2, <2>3, <2>4
    DEF RequestInv, Subject, Lasting, Backed, LoginPCs, RefreshPCs
  <2>6. ~hist[r].revoked
    BY <1>1, <1>3, <2>4 DEF RequestInv, Lasting, RefreshPCs
  <2>7. Checked(r)'
    BY <2>2, <2>6 DEF Checked
  <2>8. Seen(r)'
    BY <1>1, <2>2, <2>3, <2>4
    DEF RequestInv, Seen, Deleted, LoginPCs, RefreshPCs
  <2>9. RequestInv(r)'
    BY <2>5, <2>7, <2>8 DEF RequestInv
  <2> QED
    BY <1>1, <1>3, <2>1, <2>9, GotoStep
<1> QED
  BY <1>2, <1>3 DEF CheckRevoked

\* Redis fails: the request goes on, and its history says so.
LEMMA CheckFailsStep ==
  ASSUME IInv, NEW r \in Reqs, CheckFails(r)
  PROVE  IInv'
<1> DEFINE q == [reqs[r] EXCEPT !.pc = "FIND"]
           h == [hist[r] EXCEPT !.failedOpen = TRUE]
<1>1. /\ reqs' = [reqs EXCEPT ![r] = q]
      /\ hist' = [hist EXCEPT ![r] = h]
      /\ StoresKept
      /\ reqs[r].pc = "CHECK"
  BY DEF CheckFails, Goto, StoresKept, At
<1>2. RequestType /\ RequestInv(r)
  BY TypeSplit DEF IInv
<1>3. reqs[r] \in Requests /\ hist[r] \in Witnesses
  BY <1>2 DEF RequestType
<1>4. q \in Requests /\ h \in Witnesses
  BY <1>3 DEF Requests, PCs, Witnesses
<1>5. reqs'[r] = q /\ hist'[r] = h
  BY <1>1, <1>2 DEF RequestType
<1>6. /\ reqs'[r].pc = "FIND"
      /\ reqs'[r].token = reqs[r].token
      /\ hist'[r].subject = hist[r].subject
      /\ hist'[r].seen = hist[r].seen
      /\ hist'[r].failedOpen
  BY <1>3, <1>5 DEF Requests, Witnesses
<1>7. /\ hist'[r].revoked = hist[r].revoked
      /\ hist'[r].expired = hist[r].expired
  BY <1>3, <1>5 DEF Witnesses
<1>8. UNCHANGED <<role, owner, expired, held, loggedOut>>
  BY <1>1 DEF StoresKept, database, clients
<1>9. Subject(r)' /\ Checked(r)' /\ Backed(r)'
  BY <1>1, <1>2, <1>6, <1>8
  DEF RequestInv, Subject, Checked, Backed, LoginPCs, RefreshPCs
<1>10. Lasting(r)'
  BY <1>1, <1>2, <1>6, <1>7, <1>8 DEF RequestInv, Lasting, RefreshPCs
<1>11. Seen(r)'
  BY <1>1, <1>2, <1>6, <1>8
  DEF RequestInv, Seen, Deleted, LoginPCs, RefreshPCs
<1>12. RequestInv(r)'
  BY <1>9, <1>10, <1>11 DEF RequestInv
<1> HIDE DEF q, h
<1> QED
  BY <1>1, <1>4, <1>12, GoesOn

\* Neither lookup succeeds, or the first fails.
LEMMA FindMissesStep ==
  ASSUME IInv, NEW r \in Reqs, FindMisses(r)
  PROVE  IInv'
<1>1. Goto(r, "FALLBACK") /\ StoresKept /\ reqs[r].pc = "FIND"
  BY DEF FindMisses, StoresKept, At
<1>2. "FALLBACK" \in PCs
  BY DEF PCs
<1>3. /\ reqs'[r].pc = "FALLBACK"
      /\ reqs'[r].token = reqs[r].token
      /\ hist'[r] = hist[r]
  BY <1>1, <1>2, GotoEffect
<1>4. UNCHANGED <<role, owner, expired, held, loggedOut>> /\ RequestInv(r)
  BY <1>1 DEF StoresKept, database, clients, IInv
<1>5. Subject(r)' /\ Lasting(r)' /\ Checked(r)' /\ Backed(r)'
  BY <1>1, <1>3, <1>4 DEF RequestInv, Subject, Lasting, Checked, Backed,
                          LoginPCs, RefreshPCs
<1>6. Seen(r)'
  BY <1>1, <1>3, <1>4 DEF RequestInv, Seen, Deleted, LoginPCs, RefreshPCs
<1>7. RequestInv(r)'
  BY <1>5, <1>6 DEF RequestInv
<1> QED
  BY <1>1, <1>2, <1>7, GotoStep

\* A row was found: its user is not deleted, its role has been witnessed.
LEMMA ExamineStep ==
  ASSUME IInv, NEW r \in Reqs, reqs[r].pc \in {"FIND", "FALLBACK"},
         HasRow(reqs[r].token), Examine(r), StoresKept
  PROVE  IInv'
<1> DEFINE t == reqs[r].token
           q == Request("GRANT", owner[t], t, RoleOf(owner[t]))
<1>1. CASE t \in expired
  BY <1>1, AnsweredQuietly DEF Examine
<1>2. CASE t \notin expired
  <2>1. /\ reqs' = [reqs EXCEPT ![r] = q]
        /\ UNCHANGED hist
    BY <1>2 DEF Examine
  <2>2. StoreType /\ RequestType /\ StoreInv /\ RequestInv(r)
    BY TypeSplit DEF IInv
  <2>3. t \in held /\ hist[r].subject = owner[t]
    BY <2>2 DEF RequestInv, Subject, RefreshPCs
  <2>4. t \in Tokens /\ owner[t] # None
    BY <2>2, <2>3 DEF StoreType, HasRow
  <2>5. owner[t] \in Users /\ role[owner[t]] # None
    BY <2>2, <2>4 DEF StoreType, StoreInv, HasRow, Deleted
  <2>6. RoleOf(owner[t]) = role[owner[t]] /\ role[owner[t]] \in Roles
    BY <2>2, <2>4, <2>5 DEF StoreType, RoleOf
  <2>7. role[owner[t]] \in hist[r].seen
    BY <2>2, <2>3, <2>5 DEF RequestInv, Seen, RefreshPCs, Deleted
  <2>8. q \in Requests
    BY <2>4, <2>5, <2>6 DEF Request, Requests, PCs
  <2>9. /\ reqs'[r] = q /\ hist'[r] = hist[r]
        /\ UNCHANGED <<role, owner, expired, held, loggedOut>>
    BY <2>1, <2>2 DEF RequestType, StoresKept, database, clients
  <2> HIDE DEF t
  <2>10. Subject(r)' /\ Backed(r)'
    BY <2>3, <2>4, <2>9
    DEF Request, Subject, Backed, LoginPCs, RefreshPCs, HasRow
  <2>11. Lasting(r)' /\ Checked(r)'
    BY <1>2, <2>2, <2>9
    DEF t, Request, RequestInv, Lasting, Checked, RefreshPCs
  <2>12. Seen(r)'
    BY <2>2, <2>3, <2>5, <2>6, <2>7, <2>9 DEF Request, Seen, Deleted
  <2>13. RequestInv(r)'
    BY <2>10, <2>11, <2>12 DEF RequestInv
  <2>14. hist' = [hist EXCEPT ![r] = hist[r]] /\ hist[r] \in Witnesses
    BY <2>1, SameHistory
  <2> HIDE DEF q
  <2> QED
    BY <2>1, <2>8, <2>13, <2>14, GoesOn
<1> QED
  BY <1>1, <1>2

-----------------------------------------------------------------------------
(* Logout and profile.                                                     *)

LEMMA LogoutStep ==
  ASSUME IInv, NEW r \in Reqs, NEW t \in Tokens, Logout(r, t)
  PROVE  IInv'
<1> DEFINE q == Request("REVOKE", None, t, None)
           h == Witness(owner[t], t)
<1>1. /\ reqs' = [reqs EXCEPT ![r] = q]
      /\ hist' = [hist EXCEPT ![r] = h]
      /\ StoresKept
      /\ t \in held
  BY DEF Logout, Begin, Request, StoresKept
<1>2. StoreType /\ RequestType
  BY TypeSplit DEF IInv
<1>3. q \in Requests /\ h \in Witnesses
  BY <1>2, SessionsAssumption
  DEF Request, Requests, PCs, Witness, Witnesses, RoleOf, StoreType
<1>4. reqs'[r] = q /\ held' = held
  BY <1>1, <1>2 DEF RequestType, StoresKept, clients
<1>5. RequestInv(r)'
  BY <1>1, <1>4 DEF Request, RequestInv, Subject, Lasting, Checked, Seen,
                    Backed, LoginPCs, RefreshPCs
<1> HIDE DEF q, h
<1> QED
  BY <1>1, <1>3, <1>5, GoesOn

\* The blacklist grows before, or with, the set of answered logouts.
LEMMA RevokeStep ==
  ASSUME IInv, NEW r \in Reqs, Revoke(r) \/ RevokeFails(r)
  PROVE  IInv'
<1>1. /\ Answer(r)
      /\ reqs[r].pc = "REVOKE"
      /\ UNCHANGED <<role, owner, flagged, expired, held, access>>
      /\ \/ /\ blacklist' = blacklist \cup {reqs[r].token}
            /\ loggedOut' = loggedOut \cup {reqs[r].token}
         \/ /\ blacklist' \in {blacklist, blacklist \cup {reqs[r].token}}
            /\ loggedOut' = loggedOut
  BY DEF Revoke, RevokeFails, database, clients, At
<1>2. StoreType /\ StoreInv /\ RequestInv(r)
  BY TypeSplit DEF IInv
<1>3. reqs[r].token \in Tokens
  BY <1>1, <1>2 DEF RequestInv, Subject, StoreType
<1>4. Grows
  BY <1>1 DEF Grows
<1>5. StoreType'
  BY <1>1, <1>2, <1>3 DEF StoreType
<1>6. (loggedOut \subseteq blacklist)'
  BY <1>1, <1>2 DEF StoreInv
<1>7. StoreInv'
  BY <1>1, <1>2, <1>6 DEF StoreInv, HasRow, Deleted
<1> QED
  BY <1>1, <1>4, <1>5, <1>7, Answered

LEMMA ProfileStep ==
  ASSUME IInv, NEW r \in Reqs, NEW a \in access, Profile(r, a)
  PROVE  IInv'
<1> DEFINE q == Request("PROFILE", a.user, a.via, a.role)
           h == Witness(a.user, a.via)
<1>1. /\ reqs' = [reqs EXCEPT ![r] = q]
      /\ hist' = [hist EXCEPT ![r] = h]
      /\ StoresKept
  BY DEF Profile, Begin, Request, StoresKept
<1>2. StoreType /\ RequestType
  BY TypeSplit DEF IInv
<1>3. a.user \in Users /\ a.via \in Tokens /\ a.role \in Roles
  BY <1>2 DEF StoreType, AccessTokens
<1>4. q \in Requests /\ h \in Witnesses
  BY <1>2, <1>3, SessionsAssumption
  DEF Request, Requests, PCs, Witness, Witnesses, RoleOf, StoreType
<1>5. reqs'[r] = q
  BY <1>1, <1>2 DEF RequestType
<1>6. RequestInv(r)'
  BY <1>5 DEF Request, RequestInv, Subject, Lasting, Checked, Seen, Backed,
              LoginPCs, RefreshPCs
<1> HIDE DEF q, h
<1> QED
  BY <1>1, <1>4, <1>6, GoesOn

-----------------------------------------------------------------------------
(* Around the requests.                                                    *)

\* Every request of the user witnesses the new role.
LEMMA UpdateRoleStep ==
  ASSUME IInv, NEW u \in Users, NEW ro \in Roles, UpdateRole(u, ro)
  PROVE  IInv'
<1>1. /\ role[u] # None
      /\ role' = [role EXCEPT ![u] = ro]
      /\ UNCHANGED <<owner, flagged, expired, blacklist, reqs, held, access,
                     loggedOut>>
  BY DEF UpdateRole, Deleted, clients
<1>2. StoreType /\ RequestType /\ StoreInv
  BY TypeSplit DEF IInv
<1>3. ro # None
  BY SessionsAssumption
<1>4. StoreType'
  BY <1>1, <1>2 DEF StoreType
<1>5. \A v \in Users : Deleted(v)' => Deleted(v)
  BY <1>1, <1>2, <1>3 DEF StoreType, Deleted
<1>6. StoreInv'
  BY <1>1, <1>2, <1>5 DEF StoreInv, StoreType, HasRow
<1>7. ASSUME NEW r \in Reqs
      PROVE  hist'[r] \in Witnesses /\ RequestInv(r)'
  <2>1. hist[r] \in Witnesses /\ RequestInv(r)
    BY <1>2 DEF RequestType, IInv
  <2>2. hist'[r] = IF hist[r].subject = u
                     THEN [hist[r] EXCEPT !.seen = @ \cup {ro}] ELSE hist[r]
    BY DEF UpdateRole
  <2>3. hist'[r] \in Witnesses
    BY <2>1, <2>2 DEF Witnesses
  <2>4. /\ hist'[r].subject = hist[r].subject
        /\ hist'[r].seen = IF hist[r].subject = u THEN hist[r].seen \cup {ro}
                           ELSE hist[r].seen
    BY <2>1, <2>2 DEF Witnesses
  <2>5. /\ hist'[r].revoked = hist[r].revoked
        /\ hist'[r].expired = hist[r].expired
        /\ hist'[r].failedOpen = hist[r].failedOpen
    BY <2>1, <2>2 DEF Witnesses
  <2>6. Subject(r)' /\ Backed(r)'
    BY <1>1, <2>1, <2>4 DEF RequestInv, Subject, Backed, HasRow
  <2>7. Lasting(r)' /\ Checked(r)'
    BY <1>1, <2>1, <2>5 DEF RequestInv, Lasting, Checked
  <2>8. Seen(r)'
    BY <1>1, <1>2, <2>1, <2>4 DEF RequestInv, Seen, StoreType, Deleted
  <2> QED
    BY <2>3, <2>6, <2>7, <2>8 DEF RequestInv
<1>8. hist' \in [Reqs -> Witnesses]
  BY <1>7 DEF UpdateRole
<1>9. RequestType'
  BY <1>1, <1>2, <1>8 DEF RequestType
<1> QED
  BY <1>4, <1>6, <1>7, <1>9, TypeSplit DEF IInv

\* Only a user without rows goes, so no row and no access token dangles.
LEMMA DeleteUserStep ==
  ASSUME IInv, NEW u \in Users, DeleteUser(u)
  PROVE  IInv'
<1>1. /\ \A t \in Tokens : owner[t] # u
      /\ role' = [role EXCEPT ![u] = None]
      /\ UNCHANGED <<owner, flagged, expired, blacklist, reqs, held, access,
                     loggedOut, hist>>
  BY DEF DeleteUser, clients
<1>2. StoreType /\ RequestType /\ StoreInv
  BY TypeSplit DEF IInv
<1>3. StoreType' /\ RequestType'
  BY <1>1, <1>2 DEF StoreType, RequestType
<1>4. StoreInv'
  BY <1>1, <1>2 DEF StoreInv, StoreType, HasRow, Deleted
<1>5. ASSUME NEW r \in Reqs PROVE RequestInv(r)'
  <2>1. RequestInv(r)
    BY DEF IInv
  <2>2. Subject(r)' /\ Lasting(r)' /\ Checked(r)' /\ Backed(r)'
    BY <1>1, <2>1 DEF RequestInv, Subject, Lasting, Checked, Backed, HasRow
  <2>3. Seen(r)'
    BY <1>1, <1>2, <2>1 DEF RequestInv, Seen, StoreType, Deleted
  <2> QED
    BY <2>2, <2>3 DEF RequestInv
<1> QED
  BY <1>3, <1>4, <1>5, TypeSplit DEF IInv

LEMMA ExpireStep ==
  ASSUME IInv,
         (\E t \in Tokens : Expire(t)) \/ (\E a \in access : ExpireAccess(a))
  PROVE  IInv'
<1>1. /\ UNCHANGED <<role, owner, flagged, blacklist, reqs, held, loggedOut,
                     hist>>
      /\ access' \subseteq access
      /\ expired \subseteq expired' /\ expired' \subseteq expired \cup Tokens
  BY DEF Expire, ExpireAccess, database, clients
<1>2. StoreType /\ RequestType /\ StoreInv
  BY TypeSplit DEF IInv
<1>3. StoreType' /\ RequestType'
  BY <1>1, <1>2 DEF StoreType, RequestType
<1>4. StoreInv'
  BY <1>1, <1>2 DEF StoreInv, HasRow, Deleted
<1>5. Grows
  BY <1>1 DEF Grows
<1>6. \A r \in Reqs : RequestInv(r)'
  BY <1>1, <1>5, OthersKeep DEF IInv
<1> QED
  BY <1>3, <1>4, <1>6, TypeSplit DEF IInv

LEMMA CrashStep ==
  ASSUME IInv, Crash
  PROVE  IInv'
<1>1. /\ reqs' = [r \in Reqs |-> Idle]
      /\ hist' = [r \in Reqs |-> Witness(None, None)]
      /\ StoresKept
  BY DEF Crash, StoresKept
<1>2. Idle \in Requests /\ Witness(None, None) \in Witnesses
  BY SessionsAssumption
  DEF Idle, Request, Requests, PCs, Witness, Witnesses, RoleOf
<1>3. RequestType'
  BY <1>1, <1>2 DEF RequestType
<1>4. \A r \in Reqs : RequestInv(r)'
  BY <1>1, IdleIsFine
<1> QED
  BY <1>1, <1>3, <1>4, StoresKeptIsFine, TypeSplit DEF IInv

-----------------------------------------------------------------------------
\* The invariant is inductive.
LEMMA InvNext == IInv /\ [Next]_vars => IInv'
<1> SUFFICES ASSUME IInv, [Next]_vars PROVE IInv'
  OBVIOUS
<1>1. ASSUME NEW r \in Reqs, Step(r) PROVE IInv'
  <2>1. CASE \E u \in Users : Login(r, u)
    BY <2>1, LoginStep
  <2>2. CASE Validate(r) \/ Compare(r) \/ CreateRow(r)
    BY <2>2, ValidateStep, CompareStep, CreateRowStep
  <2>3. CASE LoginFails(r) \/ RefreshFails(r) \/ Serve(r)
    <3>1. Answer(r) /\ StoresKept
      BY <2>3 DEF LoginFails, RefreshFails, Serve, StoresKept
    <3> QED
      BY <3>1, AnsweredQuietly
  <2>4. CASE Deliver(r) \/ Grant(r)
    <3>1. /\ Respond(r)
          /\ reqs[r].pc \in {"DELIVER", "GRANT"}
          /\ held' = held \/ held' = held \cup {reqs[r].token}
      BY <2>4 DEF Deliver, Grant, At
    <3> QED
      BY <3>1, RespondStep
  <2>5. CASE \E t \in Tokens : Refresh(r, t) \/ Logout(r, t)
    BY <2>5, RefreshStep, LogoutStep
  <2>6. CASE CheckRevoked(r) \/ CheckFails(r) \/ FindMisses(r)
    BY <2>6, CheckRevokedStep, CheckFailsStep, FindMissesStep
  <2>7. CASE FindById(r) \/ FindByToken(r)
    <3>1. /\ reqs[r].pc \in {"FIND", "FALLBACK"}
          /\ HasRow(reqs[r].token)
          /\ Examine(r)
          /\ StoresKept
      BY <2>7 DEF FindById, FindByToken, At, StoresKept
    <3> QED
      BY <3>1, ExamineStep
  <2>8. CASE Revoke(r) \/ RevokeFails(r)
    BY <2>8, RevokeStep
  <2>9. CASE \E a \in access : Profile(r, a)
    BY <2>9, ProfileStep
  <2> QED
    BY <1>1, <2>1, <2>2, <2>3, <2>4, <2>5, <2>6, <2>7, <2>8, <2>9 DEF Step
<1>2. CASE Environment
  BY <1>2, UpdateRoleStep, DeleteUserStep, ExpireStep, CrashStep
  DEF Environment
<1>3. CASE UNCHANGED vars
  <2>1. StoresKept /\ UNCHANGED <<reqs, hist>>
    BY <1>3 DEF vars, StoresKept, database, clients
  <2>2. Grows /\ StoreType' /\ StoreInv'
    BY <2>1, StoresKeptIsFine
  <2>3. RequestType'
    BY <2>1, TypeSplit DEF IInv, RequestType
  <2>4. \A r \in Reqs : RequestInv(r)'
    BY <2>1, <2>2, OthersKeep DEF IInv
  <2> QED
    BY <2>2, <2>3, <2>4, TypeSplit DEF IInv
<1> QED
  BY <1>1, <1>2, <1>3 DEF Next

THEOREM Invariance == Spec => []IInv
BY InvInit, InvNext, PTL DEF Spec

\* The variables of Sessions keep their types.
THEOREM TypeCorrect == Spec => []TypeOK
<1>1. IInv => TypeOK
  BY DEF IInv
<1> QED
  BY <1>1, Invariance, PTL

\* No refresh is granted for a token that had expired when the request came
\* in, nor, unless Redis failed, for one whose logout had been answered.
THEOREM GrantsAreJustifiedCorrect == Spec => []GrantsAreJustified
<1>1. IInv => GrantsAreJustified
  BY DEF IInv, RequestInv, Checked, GrantsAreJustified, At, RefreshPCs
<1> QED
  BY <1>1, Invariance, PTL

\* Login and refresh sign a role the user has had during the request.
THEOREM SignedRoleIsFreshCorrect == Spec => []SignedRoleIsFresh
<1>1. IInv => SignedRoleIsFresh
  BY DEF IInv, RequestInv, Seen, SignedRoleIsFresh
<1> QED
  BY <1>1, Invariance, PTL

\* No row and no access token names a deleted user.
THEOREM TokensPinTheirUserCorrect == Spec => []TokensPinTheirUser
<1>1. IInv => TokensPinTheirUser
  <2> SUFFICES ASSUME IInv PROVE TokensPinTheirUser
    OBVIOUS
  <2>1. StoreInv /\ access \subseteq AccessTokens
    BY DEF IInv, TypeOK
  <2>2. \A a \in access : ~Deleted(a.user)
    BY <2>1 DEF StoreInv, AccessTokens
  <2> QED
    BY <2>1, <2>2 DEF StoreInv, TokensPinTheirUser
<1> QED
  BY <1>1, Invariance, PTL

-----------------------------------------------------------------------------
(* Logouts are final.                                                      *)

\* Between the check of a refresh and its answer.
PastCheck == RefreshPCs \ {"CHECK"}

\* The logout of t was answered, and r is not past the check with t.
Barred(r, t) ==
  /\ t \in loggedOut
  /\ ~(reqs[r].pc \in PastCheck /\ reqs[r].token = t)

\* A request gets past the check only with a token that is not revoked, as long
\* as Redis answers, and keeps it.
Passes(r) ==
  reqs'[r].pc \in PastCheck =>
    /\ reqs'[r].token = reqs[r].token
    /\ reqs[r].pc \in PastCheck \/ reqs[r].token \notin blacklist

LEMMA OnePasses ==
  ASSUME IInv, NEW q \in Reqs, Step(q), ~CheckFails(q)
  PROVE  /\ loggedOut \subseteq loggedOut'
         /\ \A r \in Reqs \ {q} : reqs'[r] = reqs[r]
         /\ Passes(q)
<1> USE DEF PastCheck, RefreshPCs
<1>1. reqs \in [Reqs -> Requests]
  BY DEF IInv, TypeOK, Requests
<1>2. ASSUME NEW new, reqs' = [reqs EXCEPT ![q] = new],
             new.pc \notin PastCheck
      PROVE  Passes(q) /\ \A r \in Reqs \ {q} : reqs'[r] = reqs[r]
  BY <1>1, <1>2 DEF Passes
<1>3. ASSUME Answer(q)
      PROVE  Passes(q) /\ \A r \in Reqs \ {q} : reqs'[r] = reqs[r]
  BY <1>2, <1>3 DEF Answer, Idle, Request
<1>4. ASSUME NEW to \in PCs, Goto(q, to),
             to \in PastCheck => reqs[q].pc \in PastCheck \/ reqs[q].token \notin blacklist
      PROVE  Passes(q) /\ \A r \in Reqs \ {q} : reqs'[r] = reqs[r]
  <2>1. PICK new : new = [reqs[q] EXCEPT !.pc = to]
    OBVIOUS
  <2>2. new.pc = to /\ new.token = reqs[q].token
    BY <1>1, <2>1 DEF Requests
  <2>3. reqs' = [reqs EXCEPT ![q] = new]
    BY <1>4, <2>1 DEF Goto
  <2> QED
    BY <1>1, <1>4, <2>2, <2>3 DEF Passes
<1>5. ASSUME NEW req, NEW u, Begin(q, req, u), req.pc \notin PastCheck
      PROVE  Passes(q) /\ \A r \in Reqs \ {q} : reqs'[r] = reqs[r]
  BY <1>2, <1>5 DEF Begin
<1>6. CASE \/ \E u \in Users : Login(q, u)
           \/ \E t \in Tokens : Refresh(q, t) \/ Logout(q, t)
           \/ \E a \in access : Profile(q, a)
  BY <1>5, <1>6 DEF Login, Refresh, Logout, Profile, Request, clients
<1>7. CASE Validate(q) \/ CreateRow(q)
  <2>1. loggedOut' = loggedOut
    BY <1>7 DEF Validate, CreateRow, clients
  <2>2. CASE Answer(q)
    BY <1>3, <2>1, <2>2
  <2>3. CASE \E u, t, ro : \E pc \in {"COMPARE", "DELIVER"} :
               reqs' = [reqs EXCEPT ![q] = Request(pc, u, t, ro)]
    BY <1>2, <2>1, <2>3 DEF Request
  <2> QED
    BY <1>7, <2>2, <2>3 DEF Validate, CreateRow
<1>8. CASE Compare(q) \/ FindMisses(q)
  BY <1>4, <1>8 DEF Compare, FindMisses, At, PCs, clients
<1>9. CASE LoginFails(q) \/ RefreshFails(q) \/ RevokeFails(q) \/ Serve(q)
  BY <1>3, <1>9 DEF LoginFails, RefreshFails, RevokeFails, Serve, clients
<1>10. CASE Deliver(q) \/ Grant(q)
  BY <1>3, <1>10 DEF Deliver, Grant, Respond
<1>11. CASE CheckRevoked(q)
  BY <1>3, <1>4, <1>11 DEF CheckRevoked, PCs, clients
<1>12. CASE FindById(q) \/ FindByToken(q)
  <2>1. loggedOut' = loggedOut /\ reqs[q].pc \in PastCheck
    BY <1>12 DEF FindById, FindByToken, At, clients
  <2>2. CASE Answer(q)
    BY <1>3, <2>1, <2>2
  <2>3. CASE \E u, ro : reqs' = [reqs EXCEPT ![q] = Request("GRANT", u, reqs[q].token, ro)]
    BY <1>1, <2>1, <2>3 DEF Request, Passes
  <2> QED
    BY <1>12, <2>2, <2>3 DEF FindById, FindByToken, Examine
<1>13. CASE Revoke(q)
  BY <1>3, <1>13 DEF Revoke
<1> QED
  BY <1>6, <1>7, <1>8, <1>9, <1>10, <1>11, <1>12, <1>13 DEF Step

\* As long as Redis answers, r does not pass the check with t again.
LEMMA BarredStays ==
  ASSUME NEW r \in Reqs, NEW t \in Tokens
  PROVE  IInv /\ Barred(r, t) /\ [Next]_vars
           /\ [~ \E q \in Reqs : CheckFails(q)]_vars => Barred(r, t)'
<1> SUFFICES ASSUME IInv, Barred(r, t), [Next]_vars,
                    [~ \E q \in Reqs : CheckFails(q)]_vars
             PROVE  Barred(r, t)'
  OBVIOUS
<1>1. t \in blacklist
  BY DEF IInv, StoreInv, Barred
<1>2. CASE UNCHANGED vars
  BY <1>2 DEF vars, Barred
<1>3. CASE Environment
  <2>1. loggedOut' = loggedOut /\ (reqs' = reqs \/ reqs'[r] = Idle)
    BY <1>3 DEF Environment, DeleteUser, UpdateRole, Expire, ExpireAccess, Crash, clients
  <2> QED
    BY <2>1 DEF Barred, Idle, Request, PastCheck, RefreshPCs
<1>4. ASSUME NEW q \in Reqs, Step(q), ~ CheckFails(q) PROVE Barred(r, t)'
  <2>1. /\ loggedOut \subseteq loggedOut'
        /\ r # q => reqs'[r] = reqs[r]
        /\ Passes(q)
    BY <1>4, OnePasses
  <2> QED
    BY <1>1, <2>1 DEF Barred, Passes
<1> QED
  BY <1>2, <1>3, <1>4 DEF Next

\* A request that is granted a token whose logout was answered is past the check
\* with it, and no longer is afterwards.
LEMMA GrantsOnce ==
  ASSUME NEW r \in Reqs, NEW t \in Tokens
  PROVE  /\ Barred(r, t) => [Grant(r) /\ reqs[r].token = t => t \notin loggedOut]_vars
         /\ IInv => \/ [Grant(r) /\ reqs[r].token = t => t \notin loggedOut]_vars
                    \/ Barred(r, t)'
<1>1. Grant(r) => reqs[r].pc \in PastCheck
  BY DEF Grant, At, PastCheck, RefreshPCs
<1>2. IInv /\ Grant(r) => reqs'[r] = Idle /\ loggedOut' = loggedOut
  BY DEF IInv, TypeOK, Grant, Respond, Answer
<1>3. Idle.pc \notin PastCheck
  BY DEF Idle, Request, PastCheck, RefreshPCs
<1> QED
  BY <1>1, <1>2, <1>3 DEF Barred

\* If Redis stops failing, every request is granted every token at most finitely
\* often after its logout was answered: never again once it has been, and Barred.
THEOREM LogoutIsFinalCorrect == Spec => LogoutIsFinal
<1> SUFFICES ASSUME NEW r \in Reqs, NEW t \in Tokens
             PROVE  Spec =>
                      (<>[][~ \E q \in Reqs : CheckFails(q)]_vars =>
                         <>[][Grant(r) /\ reqs[r].token = t => t \notin loggedOut]_vars)
  BY DEF LogoutIsFinal
<1>1. IInv /\ Barred(r, t) /\ [Next]_vars
        /\ [~ \E q \in Reqs : CheckFails(q)]_vars => Barred(r, t)'
  BY BarredStays
<1>2. /\ Barred(r, t) => [Grant(r) /\ reqs[r].token = t => t \notin loggedOut]_vars
      /\ IInv => \/ [Grant(r) /\ reqs[r].token = t => t \notin loggedOut]_vars
                 \/ Barred(r, t)'
  BY GrantsOnce
<1> QED
  BY <1>1, <1>2, Invariance, PTL DEF Spec

-----------------------------------------------------------------------------
(* The refinement of Approvals.                                            *)

\* What IInv does not need: only tokens of clients are blacklisted, and only
\* rows expire.
RowsInv ==
  /\ blacklist \subseteq held
  /\ \A t \in expired : HasRow(t)

LEMMA RowsInvNext == IInv /\ RowsInv /\ [Next]_vars => RowsInv'
<1> SUFFICES ASSUME IInv, RowsInv, [Next]_vars PROVE RowsInv'
  OBVIOUS
<1> USE DEF RowsInv
<1>1. CASE UNCHANGED <<owner, expired, blacklist, held>>
  BY <1>1 DEF HasRow
<1>2. ASSUME NEW r \in Reqs, Step(r) PROVE RowsInv'
  <2>1. CASE CreateRow(r)
    BY <2>1, SessionsAssumption DEF CreateRow, HasRow, clients, IInv, TypeOK
  <2>2. CASE Revoke(r) \/ RevokeFails(r)
    BY <2>2 DEF Revoke, RevokeFails, At, database, clients, HasRow,
                IInv, RequestInv, Subject
  <2>3. CASE Deliver(r)
    BY <2>3 DEF Deliver, Respond, database, HasRow
  <2>4. CASE ~(CreateRow(r) \/ Revoke(r) \/ RevokeFails(r) \/ Deliver(r))
    <3>1. UNCHANGED <<owner, expired, blacklist, held>>
      BY <1>2, <2>4
      DEF Step, Login, Validate, Compare, LoginFails, Refresh, Logout,
          CheckRevoked, CheckFails, FindById, FindMisses, FindByToken,
          RefreshFails, Grant, Respond, Profile, Serve, database, clients
    <3> QED
      BY <1>1, <3>1
  <2> QED
    BY <2>1, <2>2, <2>3, <2>4
<1>3. CASE Environment
  BY <1>3 DEF Environment, DeleteUser, UpdateRole, Expire, ExpireAccess, Crash,
              database, clients, HasRow
<1> QED
  BY <1>1, <1>2, <1>3 DEF Next, vars

ApprovalsNow == {ApprovalOf(r) : r \in {q \in Reqs : Approved(q)}}

\* All requests but one are approved for what they were.
OthersApproved(q) ==
  \A r \in Reqs \ {q} :
    (Approved(r)' <=> Approved(r)) /\ ApprovalOf(r)' = ApprovalOf(r)

\* A step of one request leaves the approvals of the others.
LEMMA OneMovesOn ==
  ASSUME IInv, NEW q \in Reqs,
         \E new, h : /\ reqs' = [reqs EXCEPT ![q] = new]
                     /\ hist' = [hist EXCEPT ![q] = h],
         expired' = expired
  PROVE  OthersApproved(q)
<1> SUFFICES ASSUME NEW r \in Reqs \ {q}
             PROVE  (Approved(r)' <=> Approved(r)) /\ ApprovalOf(r)' = ApprovalOf(r)
  BY DEF OthersApproved
<1>1. reqs'[r] = reqs[r] /\ hist'[r] = hist[r]
  BY DEF IInv, TypeOK
<1> QED
  BY <1>1 DEF Approved, ApprovalOf

\* The set of approvals after such a step.
LEMMA ApprovalsAfter ==
  ASSUME NEW q \in Reqs, OthersApproved(q)
  PROVE  /\ ~Approved(q)' => ApprovalsNow' = ApprovalsNow \ {ApprovalOf(q)}
         /\ ~Approved(q) /\ Approved(q)' =>
              /\ \A a \in ApprovalsNow : a.by # q
              /\ ApprovalsNow' = ApprovalsNow \cup {ApprovalOf(q)'}
         /\ Approved(q) /\ Approved(q)' /\ ApprovalOf(q)' = ApprovalOf(q) =>
              ApprovalsNow' = ApprovalsNow
<1>1. \A r \in Reqs : ApprovalOf(r).by = r
  BY DEF ApprovalOf
<1>2. \A r \in Reqs \ {q} :
        (Approved(r)' <=> Approved(r)) /\ ApprovalOf(r)' = ApprovalOf(r)
  BY DEF OthersApproved
<1> QED
  BY <1>1, <1>2 DEF ApprovalsNow

\* A request that ends where nothing is approved has been refused, if it was
\* approved at all.
LEMMA RefusedStep ==
  ASSUME NEW q \in Reqs, ~Approved(q)', OthersApproved(q),
         UNCHANGED <<loggedOut, expired, access>>
  PROVE  [Gate!Next]_Gate!vars
<1> DEFINE lost == ApprovalsNow \cap {ApprovalOf(q)}
<1>1. ApprovalsNow' = ApprovalsNow \ lost
  BY ApprovalsAfter
<1>2. Gate!Refuse(lost) /\ lost \in SUBSET ApprovalsNow
  BY <1>1 DEF Gate!Refuse, ApprovalsNow
<1> QED
  BY <1>2 DEF Gate!Next, ApprovalsNow

\* A request is decided.
LEMMA ApprovedStep ==
  ASSUME NEW q \in Reqs, NEW t \in Tokens, NEW sure \in BOOLEAN,
         ~Approved(q), Approved(q)', OthersApproved(q),
         ApprovalOf(q)' = [by |-> q, token |-> t, sure |-> sure],
         t \notin expired, sure => t \notin loggedOut,
         UNCHANGED <<loggedOut, expired, access>>
  PROVE  [Gate!Next]_Gate!vars
<1>1. Gate!Approve(q, t, sure)
  BY ApprovalsAfter DEF Gate!Approve, ApprovalsNow
<1> QED
  BY <1>1 DEF Gate!Next

\* Nothing is approved before the check, nor outside logins and refreshes.
LEMMA NotPastCheck ==
  ASSUME NEW q \in Reqs
  PROVE  /\ reqs[q].pc \notin PastCheck \cup {"DELIVER"} => ~Approved(q)
         /\ reqs'[q].pc \notin PastCheck \cup {"DELIVER"} => ~Approved(q)'
BY DEF Approved, PastCheck, RefreshPCs

LEMMA AnsweredIsNotApproved ==
  ASSUME IInv, NEW q \in Reqs, Answer(q), expired' = expired
  PROVE  ~Approved(q)' /\ OthersApproved(q)
<1>1. reqs'[q] = Idle
  BY DEF Answer, IInv, TypeOK
<1>2. ~Approved(q)'
  BY <1>1, NotPastCheck DEF Idle, Request, PastCheck, RefreshPCs
<1>3. OthersApproved(q)
  BY OneMovesOn DEF Answer
<1> QED
  BY <1>2, <1>3

LEMMA AnsweredIsRefused ==
  ASSUME IInv, NEW q \in Reqs, Answer(q), UNCHANGED <<loggedOut, expired, access>>
  PROVE  [Gate!Next]_Gate!vars
BY AnsweredIsNotApproved, RefusedStep

\* A request comes in, or goes on before anything is decided.
LEMMA UndecidedStep ==
  ASSUME IInv, NEW q \in Reqs,
         \/ \E u \in Users : Login(q, u)
         \/ \E t \in Tokens : Refresh(q, t) \/ Logout(q, t)
         \/ \E a \in access : Profile(q, a)
         \/ Validate(q) \/ Compare(q)
  PROVE  [Gate!Next]_Gate!vars
<1>1. UNCHANGED <<loggedOut, expired, access>>
  BY DEF Login, Refresh, Logout, Profile, Validate, Compare, database, clients
<1>2. reqs'[q].pc \in {"CREDENTIALS", "CHECK", "REVOKE", "PROFILE", "COMPARE", "CREATE"}
  BY DEF Login, Refresh, Logout, Profile, Begin, Validate, Compare, Goto, Request,
         IInv, TypeOK
<1>3. OthersApproved(q)
  <2>1. \E new, h : /\ reqs' = [reqs EXCEPT ![q] = new]
                    /\ hist' = [hist EXCEPT ![q] = h]
    <3>1. CASE Validate(q) \/ Compare(q)
      <4>1. hist' = [hist EXCEPT ![q] = hist[q]]
        BY <3>1 DEF Validate, Compare, Goto, IInv, TypeOK
      <4>2. CASE Validate(q)
        BY <4>1, <4>2 DEF Validate
      <4>3. CASE Compare(q)
        BY <4>1, <4>3 DEF Compare, Goto
      <4> QED
        BY <3>1, <4>2, <4>3
    <3>2. CASE \E req, u : Begin(q, req, u)
      BY <3>2 DEF Begin
    <3> QED
      BY <3>1, <3>2 DEF Login, Refresh, Logout, Profile
  <2> QED
    BY <1>1, <2>1, OneMovesOn
<1>4. ~Approved(q)'
  BY <1>2, NotPastCheck DEF PastCheck, RefreshPCs
<1> QED
  BY <1>1, <1>3, <1>4, RefusedStep

\* A login is decided when its row is there: no client knows the token before.
LEMMA CreateRowDecides ==
  ASSUME IInv, RowsInv, NEW q \in Reqs, CreateRow(q)
  PROVE  [Gate!Next]_Gate!vars
<1>1. UNCHANGED <<loggedOut, expired, access>> /\ At(q, "CREATE")
  BY DEF CreateRow, clients
<1>2. CASE Answer(q)
  BY <1>1, <1>2, AnsweredIsRefused
<1>3. CASE ~Answer(q)
  <2>1. PICK t \in Tokens \ Raw :
          /\ ~HasRow(t)
          /\ reqs' = [reqs EXCEPT ![q] = Request("DELIVER", @.user, t, @.role)]
          /\ hist' = hist
    BY <1>3 DEF CreateRow
  <2>2. t \notin expired /\ t \notin loggedOut
    BY <2>1 DEF RowsInv, IInv, StoreInv
  <2>3. ~Approved(q)
    BY <1>1, NotPastCheck DEF At, PastCheck, RefreshPCs
  <2>4. reqs'[q].pc = "DELIVER" /\ reqs'[q].token = t
    BY <2>1 DEF Request, IInv, TypeOK
  <2>5. PICK sure \in BOOLEAN : sure = ~hist[q].failedOpen
    OBVIOUS
  <2>6. Approved(q)' /\ ApprovalOf(q)' = [by |-> q, token |-> t, sure |-> sure]
    BY <2>1, <2>4, <2>5 DEF Approved, ApprovalOf
  <2>7. hist' = [hist EXCEPT ![q] = hist[q]]
    BY <2>1 DEF IInv, TypeOK
  <2>8. OthersApproved(q)
    BY <1>1, <2>1, <2>7, OneMovesOn
  <2> QED
    BY <1>1, <2>2, <2>3, <2>6, <2>8, ApprovedStep
<1> QED
  BY <1>2, <1>3

\* A refresh is decided by the check, if its token has not expired by then.
LEMMA CheckDecides ==
  ASSUME IInv, NEW q \in Reqs, CheckRevoked(q) \/ CheckFails(q)
  PROVE  [Gate!Next]_Gate!vars
<1> DEFINE t == reqs[q].token
<1>1. UNCHANGED <<loggedOut, expired, access>> /\ At(q, "CHECK")
  BY DEF CheckRevoked, CheckFails, database, clients
<1>2. CASE Answer(q)
  BY <1>1, <1>2, AnsweredIsRefused
<1>3. CASE ~Answer(q)
  <2>1. PICK h \in {hist[q], [hist[q] EXCEPT !.failedOpen = TRUE]} :
          /\ reqs' = [reqs EXCEPT ![q].pc = "FIND"]
          /\ hist' = [hist EXCEPT ![q] = h]
          /\ t \in loggedOut => h.failedOpen
    <3>1. CASE CheckRevoked(q)
      <4>1. t \notin loggedOut /\ Goto(q, "FIND")
        BY <1>3, <3>1 DEF CheckRevoked, IInv, StoreInv
      <4>2. hist' = [hist EXCEPT ![q] = hist[q]]
        BY <4>1 DEF Goto, IInv, TypeOK
      <4> QED
        BY <4>1, <4>2 DEF Goto
    <3>2. CASE CheckFails(q)
      <4>1. PICK h : h = [hist[q] EXCEPT !.failedOpen = TRUE]
        OBVIOUS
      <4>2. h.failedOpen
        BY <4>1 DEF IInv, TypeOK
      <4>3. hist' = [hist EXCEPT ![q] = h]
        BY <3>2, <4>1 DEF CheckFails
      <4> QED
        BY <3>2, <4>1, <4>2, <4>3 DEF CheckFails
    <3> QED
      BY <3>1, <3>2
  <2>2. t \in Tokens
    BY <1>1 DEF IInv, TypeOK, RequestInv, Subject, At, RefreshPCs
  <2>3. reqs'[q].pc = "FIND" /\ reqs'[q].token = t /\ hist'[q] = h
    BY <2>1 DEF IInv, TypeOK
  <2>4. OthersApproved(q)
    <3>1. \E new : reqs' = [reqs EXCEPT ![q] = new]
      BY <2>1
    <3> QED
      BY <1>1, <2>1, <3>1, OneMovesOn
  <2>5. CASE t \in expired
    <3>1. ~Approved(q)'
      BY <1>1, <2>3, <2>5 DEF Approved
    <3> QED
      BY <1>1, <2>4, <3>1, RefusedStep
  <2>6. CASE t \notin expired
    <3>1. ~Approved(q) /\ Approved(q)'
      BY <1>1, <2>3, <2>6, NotPastCheck DEF At, PastCheck, RefreshPCs, Approved
    <3>2. PICK sure \in BOOLEAN : sure = ~h.failedOpen
      OBVIOUS
    <3>3. ApprovalOf(q)' = [by |-> q, token |-> t, sure |-> sure]
      BY <2>3, <3>2 DEF ApprovalOf
    <3>4. sure => t \notin loggedOut
      BY <2>1, <3>2
    <3> QED
      BY <1>1, <2>2, <2>4, <2>6, <3>1, <3>3, <3>4, ApprovedStep
  <2> QED
    BY <2>5, <2>6
<1> QED
  BY <1>2, <1>3

\* The look at the row confirms what was decided, or ends it.
LEMMA LookupsConfirm ==
  ASSUME IInv, NEW q \in Reqs, FindById(q) \/ FindMisses(q) \/ FindByToken(q)
  PROVE  [Gate!Next]_Gate!vars
<1> DEFINE t == reqs[q].token
<1>1. /\ UNCHANGED <<loggedOut, expired, access>>
      /\ reqs[q].pc \in {"FIND", "FALLBACK"}
  BY DEF FindById, FindMisses, FindByToken, At, database, clients
<1>2. CASE Answer(q)
  BY <1>1, <1>2, AnsweredIsRefused
<1>3. CASE ~Answer(q)
  <2>1. PICK new :
          /\ reqs' = [reqs EXCEPT ![q] = new]
          /\ hist' = hist
          /\ new.token = t
          /\ new.pc = "FALLBACK" \/ (new.pc = "GRANT" /\ t \notin expired)
    <3>1. CASE FindMisses(q)
      <4>1. PICK new : new = [reqs[q] EXCEPT !.pc = "FALLBACK"]
        OBVIOUS
      <4>2. new.pc = "FALLBACK" /\ new.token = t
        BY <4>1 DEF IInv, TypeOK
      <4> QED
        BY <3>1, <4>1, <4>2 DEF FindMisses, Goto
    <3>2. CASE Examine(q)
      <4>1. PICK new : new = Request("GRANT", owner[t], t, RoleOf(owner[t]))
        OBVIOUS
      <4>2. new.pc = "GRANT" /\ new.token = t
        BY <4>1 DEF Request
      <4>3. reqs' = [reqs EXCEPT ![q] = new] /\ hist' = hist /\ t \notin expired
        BY <1>3, <3>2, <4>1 DEF Examine
      <4> QED
        BY <4>2, <4>3
    <3> QED
      BY <3>1, <3>2 DEF FindById, FindByToken
  <2>2. reqs'[q] = new
    BY <2>1 DEF IInv, TypeOK
  <2>3. (Approved(q)' <=> Approved(q)) /\ ApprovalOf(q)' = ApprovalOf(q)
    BY <1>1, <2>1, <2>2 DEF Approved, ApprovalOf
  <2>4. hist' = [hist EXCEPT ![q] = hist[q]]
    BY <2>1 DEF IInv, TypeOK
  <2>5. OthersApproved(q)
    BY <1>1, <2>1, <2>4, OneMovesOn
  <2>6. CASE Approved(q)
    <3>1. ApprovalsNow' = ApprovalsNow
      BY <2>3, <2>5, <2>6, ApprovalsAfter
    <3> QED
      BY <1>1, <3>1 DEF ApprovalsNow, Gate!vars
  <2>7. CASE ~Approved(q)
    BY <1>1, <2>3, <2>5, <2>7, RefusedStep
  <2> QED
    BY <2>6, <2>7
<1> QED
  BY <1>2, <1>3

\* The response issues what was approved.
LEMMA ResponseIssues ==
  ASSUME IInv, NEW q \in Reqs, Deliver(q) \/ Grant(q)
  PROVE  [Gate!Next]_Gate!vars
<1>1. /\ UNCHANGED <<loggedOut, expired>>
      /\ reqs[q].pc \in {"DELIVER", "GRANT"}
      /\ Respond(q) /\ Answer(q)
  BY DEF Deliver, Grant, Respond, At, database
<1>2. Approved(q) /\ ApprovalOf(q).token = reqs[q].token
  BY <1>1 DEF Approved, ApprovalOf
<1>3. {a.via : a \in access'} = {a.via : a \in access} \cup {reqs[q].token}
  <2>1. PICK new : /\ new = [user |-> reqs[q].user, role |-> reqs[q].role,
                             via |-> reqs[q].token]
                   /\ access' = access \cup {new}
    BY <1>1 DEF Respond
  <2>2. new.via = reqs[q].token
    BY <2>1
  <2> QED
    BY <2>1, <2>2
<1>4. PICK a : a = ApprovalOf(q)
  OBVIOUS
<1>5. a \in ApprovalsNow /\ a.token = reqs[q].token
  BY <1>2, <1>4 DEF ApprovalsNow
<1>6. ApprovalsNow' = ApprovalsNow \ {a}
  BY <1>1, <1>4, AnsweredIsNotApproved, ApprovalsAfter
<1>7. Gate!Issue(a)
  BY <1>1, <1>3, <1>5, <1>6 DEF Gate!Issue, ApprovalsNow
<1>8. \E b \in ApprovalsNow : Gate!Issue(b)
  BY <1>5, <1>7
<1> QED
  BY <1>8 DEF Gate!Next, ApprovalsNow

\* The logout of a token leaves the approvals that were made before it.
LEMMA RevokeLogsOut ==
  ASSUME IInv, NEW q \in Reqs, Revoke(q)
  PROVE  [Gate!Next]_Gate!vars
<1> DEFINE t == reqs[q].token
<1>1. /\ UNCHANGED <<expired, access>> /\ At(q, "REVOKE") /\ Answer(q)
      /\ loggedOut' = loggedOut \cup {t}
  BY DEF Revoke, database
<1>2. t \in Tokens
  BY <1>1 DEF IInv, TypeOK, RequestInv, Subject, At
<1>3. ~Approved(q) /\ ~Approved(q)' /\ OthersApproved(q)
  BY <1>1, NotPastCheck, AnsweredIsNotApproved DEF At, PastCheck, RefreshPCs
<1>4. ApprovalsNow' = ApprovalsNow
  <2>1. ApprovalOf(q) \notin ApprovalsNow
    BY <1>3 DEF ApprovalsNow, ApprovalOf
  <2> QED
    BY <1>3, <2>1, ApprovalsAfter
<1>5. Gate!LogOut(t)
  BY <1>1, <1>4 DEF Gate!LogOut, ApprovalsNow
<1> QED
  BY <1>2, <1>5 DEF Gate!Next

\* A token that expires takes the approvals with it whose rows are still to be
\* examined.
LEMMA ExpireEnds ==
  ASSUME IInv, NEW t \in Tokens, Expire(t)
  PROVE  [Gate!Next]_Gate!vars
<1>1. expired' = expired \cup {t} /\ UNCHANGED <<reqs, hist, loggedOut, access>>
  BY DEF Expire, clients
<1>2. \A r \in Reqs : ApprovalOf(r)' = ApprovalOf(r) /\ ApprovalOf(r).token = reqs[r].token
  BY <1>1 DEF ApprovalOf
<1>3. \A r \in Reqs : /\ Approved(r)' => Approved(r)
                      /\ Approved(r) /\ reqs[r].token # t => Approved(r)'
  BY <1>1 DEF Approved
<1>4. PICK lost : lost = ApprovalsNow \ ApprovalsNow'
  OBVIOUS
<1>5. ApprovalsNow' = ApprovalsNow \ lost
  BY <1>2, <1>3, <1>4 DEF ApprovalsNow
<1>6. lost \in SUBSET {a \in ApprovalsNow : a.token = t}
  BY <1>2, <1>3, <1>4 DEF ApprovalsNow
<1>7. Gate!Expire(t)
  BY <1>1, <1>5, <1>6 DEF Gate!Expire, ApprovalsNow
<1> QED
  BY <1>7 DEF Gate!Next

\* Around the requests.
LEMMA AroundApprovals ==
  ASSUME IInv, Environment
  PROVE  [Gate!Next]_Gate!vars
<1>1. CASE \E t \in Tokens : Expire(t)
  BY <1>1, ExpireEnds
<1>2. CASE \E u \in Users : DeleteUser(u) \/ \E ro \in Roles : UpdateRole(u, ro)
  <2>1. /\ UNCHANGED <<reqs, expired, loggedOut, access>>
        /\ \A r \in Reqs : hist'[r].failedOpen = hist[r].failedOpen
    BY <1>2 DEF DeleteUser, UpdateRole, clients, IInv, TypeOK
  <2>2. \A r \in Reqs : (Approved(r)' <=> Approved(r)) /\ ApprovalOf(r)' = ApprovalOf(r)
    BY <2>1 DEF Approved, ApprovalOf
  <2>3. ApprovalsNow' = ApprovalsNow
    BY <2>2 DEF ApprovalsNow
  <2> QED
    BY <2>1, <2>3 DEF Gate!vars, ApprovalsNow
<1>3. ASSUME NEW a \in access, ExpireAccess(a) PROVE [Gate!Next]_Gate!vars
  <2>1. UNCHANGED <<reqs, hist, expired, loggedOut>> /\ access' = access \ {a}
    BY <1>3 DEF ExpireAccess, database
  <2>2. ApprovalsNow' = ApprovalsNow
    BY <2>1 DEF ApprovalsNow, Approved, ApprovalOf
  <2>3. PICK gone : gone = {x.via : x \in access} \ {x.via : x \in access'}
    OBVIOUS
  <2>4. gone \in SUBSET {x.via : x \in access}
    BY <2>3
  <2>5. {x.via : x \in access'} = {x.via : x \in access} \ gone
    BY <2>1, <2>3
  <2>6. Gate!Lapse
    BY <2>1, <2>2, <2>4, <2>5 DEF Gate!Lapse, ApprovalsNow
  <2> QED
    BY <2>6 DEF Gate!Next
<1>4. CASE Crash
  <2>1. UNCHANGED <<expired, loggedOut, access>> /\ \A r \in Reqs : reqs'[r] = Idle
    BY <1>4 DEF Crash, database, clients
  <2>2. \A r \in Reqs : ~Approved(r)'
    BY <2>1, NotPastCheck DEF Idle, Request, PastCheck, RefreshPCs
  <2>3. ApprovalsNow' = ApprovalsNow \ ApprovalsNow
    BY <2>2 DEF ApprovalsNow
  <2>4. Gate!Refuse(ApprovalsNow)
    BY <2>1, <2>3 DEF Gate!Refuse, ApprovalsNow
  <2>5. \E lost \in SUBSET ApprovalsNow : Gate!Refuse(lost)
    BY <2>4
  <2> QED
    BY <2>5 DEF Gate!Next, ApprovalsNow
<1> QED
  BY <1>1, <1>2, <1>3, <1>4 DEF Environment

\* Every step of the sessions is a step of Approvals, or none.
LEMMA ApprovalsStep ==
  IInv /\ RowsInv /\ [Next]_vars => [Gate!Next]_Gate!vars
<1> SUFFICES ASSUME IInv, RowsInv, [Next]_vars
             PROVE  [Gate!Next]_Gate!vars
  OBVIOUS
<1>1. ASSUME NEW q \in Reqs, Step(q) PROVE [Gate!Next]_Gate!vars
  <2>1. CASE LoginFails(q) \/ RefreshFails(q) \/ RevokeFails(q) \/ Serve(q)
    BY <2>1, AnsweredIsRefused
    DEF LoginFails, RefreshFails, RevokeFails, Serve, database, clients
  <2> QED
    BY <1>1, <2>1, UndecidedStep, CreateRowDecides, CheckDecides, LookupsConfirm,
       ResponseIssues, RevokeLogsOut DEF Step
<1>2. CASE Environment
  BY <1>2, AroundApprovals
<1>3. CASE UNCHANGED vars
  BY <1>3 DEF vars, Gate!vars, Approved, ApprovalOf
<1> QED
  BY <1>1, <1>2, <1>3 DEF Next

LEMMA ApprovalsInit == Init => RowsInv /\ Gate!Init
<1> SUFFICES ASSUME Init PROVE RowsInv /\ Gate!Init
  OBVIOUS
<1>1. \A r \in Reqs : ~Approved(r)
  BY DEF Init, Idle, Request, Approved
<1> QED
  BY <1>1 DEF Init, RowsInv, Gate!Init

\* Two checks of a session token, and the changes between them, are one decision.
THEOREM ApprovalsImplemented == Spec => ImplementsApprovals
BY ApprovalsInit, ApprovalsStep, RowsInvNext, Invariance, PTL
DEF Spec, Gate!Spec, ImplementsApprovals
=============================================================================
