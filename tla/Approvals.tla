----------------------------- MODULE Approvals -----------------------------
(***************************************************************************)
(* What a session promises: an access token is issued to a request only    *)
(* for a session token that was good -- neither expired nor logged out --  *)
(* at one single moment since the request came in.  A request may also be  *)
(* let through without a look at the logouts; it is then not `sure`, and   *)
(* its token had not expired.  Nothing is decided a second time: what was  *)
(* approved may be issued although the token has ended by then.            *)
(***************************************************************************)
CONSTANTS Reqs, Tokens

VARIABLES
  approvals,  \* requests that may be issued a token, and for which
  loggedOut,  \* session tokens whose logout was answered
  expired,    \* session tokens that have expired
  issued      \* session tokens behind the access tokens in use

vars == <<approvals, loggedOut, expired, issued>>

Init ==
  /\ approvals = {}
  /\ loggedOut = {}
  /\ expired = {}
  /\ issued = {}

\* The moment at which a request is decided.
Approve(r, t, sure) ==
  /\ \A a \in approvals : a.by # r
  /\ t \notin expired
  /\ sure => t \notin loggedOut
  /\ approvals' = approvals \cup {[by |-> r, token |-> t, sure |-> sure]}
  /\ UNCHANGED <<loggedOut, expired, issued>>

Issue(a) ==
  /\ approvals' = approvals \ {a}
  /\ issued' = issued \cup {a.token}
  /\ UNCHANGED <<loggedOut, expired>>

\* Requests are refused after all, or lost.
Refuse(lost) ==
  /\ approvals' = approvals \ lost
  /\ UNCHANGED <<loggedOut, expired, issued>>

LogOut(t) ==
  /\ loggedOut' = loggedOut \cup {t}
  /\ UNCHANGED <<approvals, expired, issued>>

\* Approvals of the token may end with it, or outlive it.
Expire(t) ==
  /\ expired' = expired \cup {t}
  /\ \E lost \in SUBSET {a \in approvals : a.token = t} :
       approvals' = approvals \ lost
  /\ UNCHANGED <<loggedOut, issued>>

\* Access tokens run out.
Lapse ==
  /\ \E gone \in SUBSET issued : issued' = issued \ gone
  /\ UNCHANGED <<approvals, loggedOut, expired>>

Next ==
  \/ \E r \in Reqs, t \in Tokens, sure \in BOOLEAN : Approve(r, t, sure)
  \/ \E a \in approvals : Issue(a)
  \/ \E lost \in SUBSET approvals : Refuse(lost)
  \/ \E t \in Tokens : LogOut(t) \/ Expire(t)
  \/ Lapse

Spec == Init /\ [][Next]_vars
=============================================================================
