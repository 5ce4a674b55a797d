----------------------------- MODULE Deactivation -----------------------------
(***************************************************************************)
(* Switching a driver's account off and on (dashboard.AdminSetUserStatus), *)
(* as it meets what the driver, the matcher and other admins do.  The call *)
(* is three statements without a transaction: is_active, the sessions, the *)
(* availability; it may end with an error after any of them.  Logins and   *)
(* refreshes check is_active in one statement and create the session in    *)
(* another; the matcher chooses a driver and commits the offer later; an   *)
(* access token is good until it expires and is never looked up.           *)
(*                                                                         *)
(* Abstracted: of sessions and offers, whether there is one, so that the   *)
(* end of an offer may leave another (a driver who goes online while one   *)
(* is open may get a second); the KYC review, taken as approved; chains of *)
(* sessions (AuthSessions) and the rest of an offer (RideDispatch).        *)
(***************************************************************************)
EXTENDS Naturals

CONSTANTS
  Visits,     \* logins, refreshes and matcher cycles that may be past their check
  StatusCalls \* calls of AdminSetUserStatus

VARIABLES
  active,    \* users.is_active
  live,      \* a row of sessions
  bearer,    \* an access token that has not expired is out
  online,    \* driver_availability.is_online
  offered,   \* an open offer to the driver
  visit,     \* calls past their check, and what they write next
  switching, \* deactivations, their next statement and whether an activation came since
  shut,      \* a deactivation was answered, and no activation came since its first statement
  outran,     \* calls past their check when it was answered (history)
  leftover   \* what came to be, or stayed, while is_active was false (history)

statusVars == <<active, live, bearer, online, offered, visit, switching, shut, outran, leftover>>

Free    == "free"
NoSwitch == [at |-> "none"]

StatusTypeOK ==
  /\ {active, live, bearer, online, offered, shut} \subseteq BOOLEAN
  /\ visit \in [Visits -> {Free, "check", "session", "offer"}]
  /\ switching \in [StatusCalls ->
       [at : {"sessions", "availability"}, overruled : BOOLEAN] \cup {NoSwitch}]
  /\ outran \subseteq Visits
  /\ leftover \subseteq {"session", "online", "offer"}

InitStatus ==
  /\ active = TRUE /\ live = FALSE /\ bearer = FALSE /\ online = FALSE /\ offered = FALSE
  /\ visit = [v \in Visits |-> Free]
  /\ switching = [c \in StatusCalls |-> NoSwitch]
  /\ shut = FALSE /\ outran = {} /\ leftover = {}

-----------------------------------------------------------------------------
\* `what` is there from now on; while the account is off, that is noted.
Left(what) == leftover' = IF active THEN leftover \ {what} ELSE leftover \cup {what}

Becomes(v, step) == visit' = [visit EXCEPT ![v] = step]

\* WHERE is_active = true
GetUserByPhone == active

Login(v) ==
  /\ visit[v] = Free /\ GetUserByPhone
  /\ Becomes(v, "session")
  /\ UNCHANGED <<active, live, bearer, online, offered, switching, shut, outran, leftover>>

\* RotateSession of a live session.
Refresh(v) ==
  /\ visit[v] = Free /\ live
  /\ live' = FALSE
  /\ Becomes(v, "check")
  /\ UNCHANGED <<active, bearer, online, offered, switching, shut, outran, leftover>>

\* A refresh is granted to any user.
MutGetUserByID(v) ==
  /\ visit[v] = "check"
  /\ Becomes(v, "session")
  /\ UNCHANGED <<active, live, bearer, online, offered, switching, shut, outran, leftover>>

\* WHERE is_active = true
GetUserByID(v) ==
  /\ visit[v] = "check" /\ active
  /\ Becomes(v, "session")
  /\ UNCHANGED <<active, live, bearer, online, offered, switching, shut, outran, leftover>>

IssueAndTrack(v) ==
  /\ visit[v] = "session"
  /\ live' = TRUE /\ bearer' = TRUE
  /\ Left("session")
  /\ Becomes(v, Free) /\ outran' = outran \ {v}
  /\ UNCHANGED <<active, online, offered, switching, shut>>

\* The request stops, or a statement of it fails.
StopVisit(v) ==
  /\ visit[v] # Free
  /\ Becomes(v, Free) /\ outran' = outran \ {v}
  /\ UNCHANGED <<active, live, bearer, online, offered, switching, shut, leftover>>

TokenExpires ==
  /\ bearer /\ bearer' = FALSE
  /\ UNCHANGED <<active, live, online, offered, visit, switching, shut, outran, leftover>>

\* The middleware looks at the token only.
SetAvailability ==
  /\ bearer /\ \E on \in BOOLEAN : online' = on
  /\ Left("online")
  /\ UNCHANGED <<active, live, bearer, offered, visit, switching, shut, outran>>

-----------------------------------------------------------------------------
\* JOIN users u ... AND u.is_active; whether the driver has an open offer is not
\* asked.
ChooseDriver(v) ==
  /\ visit[v] = Free /\ online /\ active
  /\ Becomes(v, "offer")
  /\ UNCHANGED <<active, live, bearer, online, offered, switching, shut, outran, leftover>>

CommitOffer(v) ==
  /\ visit[v] = "offer"
  /\ offered' = TRUE /\ online' = FALSE
  /\ Left("offer")
  /\ Becomes(v, Free) /\ outran' = outran \ {v}
  /\ UNCHANGED <<active, live, bearer, switching, shut>>

\* It expires, or is declined, whoever its driver is: the driver is online again.
EndOffer ==
  /\ offered /\ offered' \in BOOLEAN /\ online' = TRUE
  /\ Left("online")
  /\ UNCHANGED <<active, live, bearer, visit, switching, shut, outran>>

\* The driver of the offer is not looked up.
AcceptOffer ==
  /\ offered /\ bearer /\ offered' \in BOOLEAN
  /\ UNCHANGED <<active, live, bearer, online, visit, switching, shut, outran, leftover>>

-----------------------------------------------------------------------------
SetUserActive(on) == active' = on

Activate ==
  /\ SetUserActive(TRUE) /\ shut' = FALSE /\ leftover' = {}
  /\ switching' = [c \in StatusCalls |->
       IF switching[c] = NoSwitch THEN NoSwitch ELSE [switching[c] EXCEPT !.overruled = TRUE]]
  /\ UNCHANGED <<live, bearer, online, offered, visit, outran>>

Deactivate(c) ==
  /\ switching[c] = NoSwitch
  /\ SetUserActive(FALSE)
  /\ leftover' = IF offered THEN leftover \cup {"offer"} ELSE leftover
  /\ switching' = [switching EXCEPT ![c] = [at |-> "sessions", overruled |-> FALSE]]
  /\ UNCHANGED <<live, bearer, online, offered, visit, shut, outran>>

DeleteSessionsForUser(c) ==
  /\ switching[c].at = "sessions"
  /\ live' = FALSE
  /\ switching' = [switching EXCEPT ![c].at = "availability"]
  /\ UNCHANGED <<active, bearer, online, offered, visit, shut, outran, leftover>>

\* The last statement, and the answer.
SetDriverOffline(c) ==
  /\ switching[c].at = "availability"
  /\ online' = FALSE
  /\ shut' = (shut \/ ~switching[c].overruled)
  /\ outran' = IF shut' /\ ~shut THEN {v \in Visits : visit[v] # Free} ELSE outran
  /\ switching' = [switching EXCEPT ![c] = NoSwitch]
  /\ UNCHANGED <<active, live, bearer, offered, visit, leftover>>

\* A statement fails, or the process stops: the account may be off with its
\* sessions live.
StopSwitching(c) ==
  /\ switching[c] # NoSwitch
  /\ switching' = [switching EXCEPT ![c] = NoSwitch]
  /\ UNCHANGED <<active, live, bearer, online, offered, visit, shut, outran, leftover>>

NextStatus ==
  \/ \E v \in Visits :
       \/ Login(v) \/ Refresh(v) \/ GetUserByID(v) \/ IssueAndTrack(v) \/ StopVisit(v)
       \/ ChooseDriver(v) \/ CommitOffer(v)
  \/ TokenExpires \/ SetAvailability \/ EndOffer \/ AcceptOffer
  \/ Activate
  \/ \E c \in StatusCalls :
       Deactivate(c) \/ DeleteSessionsForUser(c) \/ SetDriverOffline(c) \/ StopSwitching(c)

SpecStatus == InitStatus /\ [][NextStatus]_statusVars

-----------------------------------------------------------------------------
(* After an answered deactivation (dashboard/handler.go:319-339) nothing of *)
(* the account is left from before but an offer it already had: a session,  *)
(* or being online, is the work of a login, refresh, token or offer that   *)
(* outran the three statements, and no login, refresh or offer starts.     *)
DeactivationHolds ==
  shut => /\ ~active
          /\ live    => "session" \in leftover
          /\ online  => "online" \in leftover
          /\ offered => "offer" \in leftover
          /\ \A v \in Visits : visit[v] \in {"session", "offer"} => v \in outran
=============================================================================
