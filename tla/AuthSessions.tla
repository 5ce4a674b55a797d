----------------------------- MODULE AuthSessions -----------------------------
(***************************************************************************)
(* Sessions and one-time codes of one account: the handlers of             *)
(* internal/auth and the deletions of cmd/worker.  Every statement names   *)
(* one user, so accounts do not meet and the module has one.               *)
(*                                                                         *)
(* Nothing here runs in a transaction: each statement is an action, `call` *)
(* holds what a request is about to do next, and a request may stop before *)
(* any of its statements.                                                  *)
(*                                                                         *)
(* Abstracted: signatures, hashes and devices (a presented refresh token   *)
(* or code is genuine or no row matches it), delivery, deactivation.       *)
(***************************************************************************)
EXTENDS Naturals

CONSTANTS
  Sessions,     \* session ids uuid.New() may draw
  NoSession,
  Codes,        \* rows of verification_codes, numbered in order of created_at
  Purposes,     \* purposes a code may be requested for
  MaxAttempts,  \* verification_codes.max_attempts
  Calls         \* requests that may be in flight at once

ASSUME SessionsAssumption == NoSession \notin Sessions
ASSUME CodesAssumption == Codes \subseteq Nat
ASSUME AttemptsAssumption == MaxAttempts \in Nat \ {0}

VARIABLES
  registered,  \* does the users row exist?
  session,     \* per session: "none" (no row yet), "live", "revoked" or "deleted"
  root,        \* the login a session descends from by refreshes
  lapsed,      \* sessions past expires_at
  row,         \* per code: "none", "open", "verified" (verified_at set) or "deleted"
  purpose,     \* purpose of a code
  attempts,    \* attempts recorded for a code
  dead,        \* codes past expires_at
  proved,      \* codes somebody has submitted correctly (history)
  used,        \* codes a password was reset by (history)
  call         \* per request: its next statement and what it goes by

vars == <<registered, session, root, lapsed, row, purpose, attempts, dead, proved, used, call>>

sessionVars == <<session, root, lapsed>>
codeVars    == <<row, purpose, attempts, dead>>
history     == <<proved, used>>

Idle == [at |-> "idle"]
Issue == [at : {"issue"}, root : Sessions \cup {NoSession}]
Challenge == [at : {"invalidate", "create"}, purpose : Purposes]
Reset == [at : {"mark", "update", "consume", "close"}, code : Codes, reset : BOOLEAN]

TypeOK ==
  /\ registered \in BOOLEAN
  /\ session \in [Sessions -> {"none", "live", "revoked", "deleted"}]
  /\ root \in [Sessions -> Sessions \cup {NoSession}]
  /\ lapsed \subseteq Sessions
  /\ row \in [Codes -> {"none", "open", "verified", "deleted"}]
  /\ purpose \in [Codes -> Purposes \cup {"none"}]
  /\ attempts \in [Codes -> 0..MaxAttempts]
  /\ dead \subseteq Codes
  /\ proved \subseteq Codes /\ used \subseteq Codes
  /\ call \in [Calls -> Issue \cup Challenge \cup Reset \cup {Idle}]

Init ==
  /\ registered = FALSE
  /\ session = [s \in Sessions |-> "none"]
  /\ root = [s \in Sessions |-> NoSession]
  /\ lapsed = {}
  /\ row = [x \in Codes |-> "none"]
  /\ purpose = [x \in Codes |-> "none"]
  /\ attempts = [x \in Codes |-> 0]
  /\ dead = {}
  /\ proved = {} /\ used = {}
  /\ call = [k \in Calls |-> Idle]

Goes(k, task) == call' = [call EXCEPT ![k] = task]

-----------------------------------------------------------------------------
(* Sessions.  Operators named Mut... are variants with a bug that code      *)
(* could have; no action uses them (see README, mutations).                 *)

Register(k) ==
  /\ call[k] = Idle /\ ~registered
  /\ registered' = TRUE
  /\ Goes(k, [at |-> "issue", root |-> NoSession])
  /\ UNCHANGED <<sessionVars, codeVars, history>>

Login(k) ==
  /\ call[k] = Idle /\ registered
  /\ Goes(k, [at |-> "issue", root |-> NoSession])
  /\ UNCHANGED <<registered, sessionVars, codeVars, history>>

\* A token that was exchanged before is exchanged again.
MutRotateSession(k, s) ==
  /\ call[k] = Idle
  /\ session[s] \in {"live", "revoked"} /\ s \notin lapsed
  /\ session' = [session EXCEPT ![s] = "revoked"]
  /\ Goes(k, [at |-> "issue", root |-> root[s]])
  /\ UNCHANGED <<registered, root, lapsed, codeVars, history>>

\* No expires_at in the WHERE clause.
MutRotateLapsed(k, s) ==
  /\ call[k] = Idle
  /\ session[s] = "live"
  /\ session' = [session EXCEPT ![s] = "revoked"]
  /\ Goes(k, [at |-> "issue", root |-> root[s]])
  /\ UNCHANGED <<registered, root, lapsed, codeVars, history>>

RotateSession(k, s) ==
  /\ call[k] = Idle
  /\ session[s] = "live" /\ s \notin lapsed
  /\ session' = [session EXCEPT ![s] = "revoked"]
  /\ Goes(k, [at |-> "issue", root |-> root[s]])
  /\ UNCHANGED <<registered, root, lapsed, codeVars, history>>

issueAndTrack(k, s) ==
  /\ call[k].at = "issue"
  /\ session[s] = "none"
  /\ session' = [session EXCEPT ![s] = "live"]
  /\ root' = [root EXCEPT ![s] = IF call[k].root = NoSession THEN s ELSE call[k].root]
  /\ Goes(k, Idle)
  /\ UNCHANGED <<registered, lapsed, codeVars, history>>

Delete(S) ==
  /\ session' = [s \in Sessions |-> IF s \in S THEN "deleted" ELSE session[s]]
  /\ lapsed' = lapsed \ S

DeleteSessionsForUser == Delete({s \in Sessions : session[s] # "none"})

Logout ==
  /\ registered
  /\ DeleteSessionsForUser
  /\ UNCHANGED <<registered, root, codeVars, history, call>>

-----------------------------------------------------------------------------
(* One-time codes.                                                          *)

Stored(x) == row[x] \in {"open", "verified"}

\* requestOTP finds the account, and its newest code no younger than the throttle:
\* a delay, where time is not measured.
requestOTP(k, p) ==
  /\ call[k] = Idle /\ registered
  /\ Goes(k, [at |-> "invalidate", purpose |-> p])
  /\ UNCHANGED <<registered, sessionVars, codeVars, history>>

Superseded(p) == {x \in Codes : row[x] = "open" /\ purpose[x] = p /\ x \notin dead}

\* verified_at is set, expires_at is left.
MutInvalidateVerificationCodes(k) ==
  LET S == Superseded(call[k].purpose) IN
  /\ call[k].at = "invalidate"
  /\ row' = [x \in Codes |-> IF x \in S THEN "verified" ELSE row[x]]
  /\ Goes(k, [call[k] EXCEPT !.at = "create"])
  /\ UNCHANGED <<registered, sessionVars, purpose, attempts, dead, history>>

\* Sets verified_at too, of challenges nobody has answered.
InvalidateVerificationCodes(k) ==
  LET S == Superseded(call[k].purpose) IN
  /\ call[k].at = "invalidate"
  /\ row' = [x \in Codes |-> IF x \in S THEN "verified" ELSE row[x]]
  /\ dead' = dead \cup S
  /\ Goes(k, [call[k] EXCEPT !.at = "create"])
  /\ UNCHANGED <<registered, sessionVars, purpose, attempts, history>>

CreateVerificationCode(k, x) ==
  /\ call[k].at = "create"
  /\ row[x] = "none" /\ \A y \in Codes : y < x => row[y] # "none"
  /\ row' = [row EXCEPT ![x] = "open"]
  /\ purpose' = [purpose EXCEPT ![x] = call[k].purpose]
  /\ Goes(k, Idle)
  /\ UNCHANGED <<registered, sessionVars, attempts, dead, history>>

\* One attempt too many.
MutRecordVerificationAttempt(k, x, reset, right) ==
  /\ call[k] = Idle
  /\ row[x] = "open" /\ x \notin dead /\ attempts[x] <= MaxAttempts
  /\ attempts' = [attempts EXCEPT ![x] = @ + 1]
  /\ IF right THEN Goes(k, [at |-> "mark", code |-> x, reset |-> reset]) ELSE UNCHANGED call
  /\ UNCHANGED <<registered, sessionVars, row, purpose, dead, history>>

\* The attempt counts before the submitted code is compared.
RecordVerificationAttempt(k, x, reset, right) ==
  /\ call[k] = Idle
  /\ row[x] = "open" /\ x \notin dead /\ attempts[x] < MaxAttempts
  /\ attempts' = [attempts EXCEPT ![x] = @ + 1]
  /\ IF right THEN Goes(k, [at |-> "mark", code |-> x, reset |-> reset]) ELSE UNCHANGED call
  /\ UNCHANGED <<registered, sessionVars, row, purpose, dead, history>>

IsReset(x) == purpose[x] = "password_reset"

\* CompletePasswordReset goes on only with a reset challenge, but a challenge of
\* any purpose is spent.
MarkVerificationCodeVerified(k) ==
  LET x == call[k].code IN
  /\ call[k].at = "mark"
  /\ row[x] = "open" /\ x \notin dead
  /\ row' = [row EXCEPT ![x] = "verified"]
  /\ proved' = proved \cup {x}
  /\ Goes(k, IF call[k].reset /\ IsReset(x) THEN [call[k] EXCEPT !.at = "update"] ELSE Idle)
  /\ UNCHANGED <<registered, sessionVars, purpose, attempts, dead, used>>

GetVerifiedVerificationCode(k, x) ==
  /\ call[k] = Idle
  /\ row[x] = "verified" /\ IsReset(x) /\ x \notin dead
  /\ Goes(k, [at |-> "update", code |-> x, reset |-> TRUE])
  /\ UNCHANGED <<registered, sessionVars, codeVars, history>>

UpdateUserPassword(k) ==
  /\ call[k].at = "update"
  /\ used' = used \cup {call[k].code}
  /\ Goes(k, [call[k] EXCEPT !.at = "consume"])
  /\ UNCHANGED <<registered, sessionVars, codeVars, proved>>

\* Errors of this statement and the next are ignored.
ConsumeVerifiedVerificationCode(k) ==
  LET x == call[k].code IN
  /\ call[k].at = "consume"
  /\ dead' \in {dead, IF row[x] = "verified" THEN dead \cup {x} ELSE dead}
  /\ Goes(k, [call[k] EXCEPT !.at = "close"])
  /\ UNCHANGED <<registered, sessionVars, row, purpose, attempts, history>>

CloseSessions(k) ==
  /\ call[k].at = "close"
  /\ DeleteSessionsForUser \/ UNCHANGED <<session, lapsed>>
  /\ Goes(k, Idle)
  /\ UNCHANGED <<registered, root, codeVars, history>>

\* An error, a challenge that is gone, an account deactivated, a crash.
Stop(k) ==
  /\ call[k] # Idle
  /\ Goes(k, Idle)
  /\ UNCHANGED <<registered, sessionVars, codeVars, history>>

-----------------------------------------------------------------------------
(* The worker's cleanup, and time.                                          *)

\* expires_at and purpose of a deleted row are remembered for the properties only.
DeleteExpiredCodes ==
  LET S == {x \in Codes : Stored(x) /\ (x \in dead \/ row[x] = "verified")} IN
  /\ S # {}
  /\ row' = [x \in Codes |-> IF x \in S THEN "deleted" ELSE row[x]]
  /\ attempts' = [x \in Codes |-> IF x \in S THEN 0 ELSE attempts[x]]
  /\ UNCHANGED <<registered, sessionVars, purpose, dead, history, call>>

DeleteExpiredSessions ==
  LET S == {s \in Sessions : session[s] = "revoked" \/ s \in lapsed} IN
  /\ S # {}
  /\ Delete(S)
  /\ UNCHANGED <<registered, root, codeVars, history, call>>

SessionLapses(s) ==
  /\ session[s] = "live" /\ s \notin lapsed
  /\ lapsed' = lapsed \cup {s}
  /\ UNCHANGED <<registered, session, root, codeVars, history, call>>

CodeLapses(x) ==
  /\ Stored(x) /\ x \notin dead
  /\ dead' = dead \cup {x}
  /\ UNCHANGED <<registered, sessionVars, row, purpose, attempts, history, call>>

-----------------------------------------------------------------------------
SessionStep(k) ==
  \/ Register(k)
  \/ Login(k)
  \/ \E s \in Sessions : RotateSession(k, s) \/ issueAndTrack(k, s)

CodeStep(k) ==
  \/ \E p \in Purposes : requestOTP(k, p)
  \/ InvalidateVerificationCodes(k)
  \/ \E x \in Codes : CreateVerificationCode(k, x)
  \/ \E x \in Codes, reset, right \in BOOLEAN : RecordVerificationAttempt(k, x, reset, right)
  \/ MarkVerificationCodeVerified(k)

ResetStep(k) ==
  \/ \E x \in Codes : GetVerifiedVerificationCode(k, x)
  \/ UpdateUserPassword(k)
  \/ ConsumeVerifiedVerificationCode(k)
  \/ CloseSessions(k)
  \/ Stop(k)

Background ==
  \/ DeleteExpiredCodes
  \/ DeleteExpiredSessions
  \/ \E s \in Sessions : SessionLapses(s)
  \/ \E x \in Codes : CodeLapses(x)

Next ==
  \/ \E k \in Calls : SessionStep(k) \/ CodeStep(k) \/ ResetStep(k)
  \/ Logout
  \/ Background

Spec == Init /\ [][Next]_vars

-----------------------------------------------------------------------------
(* Properties.                                                              *)

Rotating(k) == call[k].at = "issue" /\ call[k].root # NoSession

\* Concurrent refreshes with one token, retries and logouts in between never
\* fork a login: it has at most one live session, or one refresh making it.
OneSuccessor ==
  /\ \A s, t \in Sessions :
       session[s] = "live" /\ session[t] = "live" /\ root[s] = root[t] => s = t
  /\ \A j, k \in Calls : Rotating(j) /\ Rotating(k) /\ call[j].root = call[k].root => j = k
  /\ \A s \in Sessions, k \in Calls :
       session[s] = "live" /\ Rotating(k) => root[s] # call[k].root

Usable(s) == session[s] = "live" /\ s \notin lapsed

Chain == [l \in Sessions |->
  IF root[l] # l THEN "none"
  ELSE IF \E s \in Sessions : root[s] = l /\ Usable(s) THEN "live"
  ELSE IF \E k \in Calls : Rotating(k) /\ call[k].root = l THEN "rotating" ELSE "ended"]

C == INSTANCE SessionChain WITH Logins <- Sessions, chain <- Chain

\* A login that has ended, by logout, reset, expiry or a refresh that stopped
\* half-way, never gets a usable session again.
Chains == C!Spec

\* The password is reset only by a reset challenge somebody answered with its
\* code: that InvalidateVerificationCodes sets verified_at of challenges nobody
\* answered never makes one of them good for a reset.
ResetNeedsCode == \A x \in used : x \in proved /\ IsReset(x)

\* "The reset is completed separately with the same opaque request ID"
\* (handlers.go:254-255): an answered reset challenge stays good for the reset
\* until it is used or expires.
AnsweredResetStays ==
  \A x \in proved \ (used \cup dead) : IsReset(x) => row[x] = "verified"
=============================================================================
