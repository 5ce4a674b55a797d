-------------------------- MODULE AuthSessionsProofs --------------------------
(***************************************************************************)
(* Proofs about AuthSessions, for any session ids, codes, purposes and     *)
(* concurrent requests.                                                    *)
(***************************************************************************)
EXTENDS AuthSessions, TLAPS

Tasks == Issue \cup Challenge \cup Reset \cup {Idle}

\* A step sets one request's task to a well-formed one, or none at all.
LEMMA GoesTypeOK ==
  ASSUME call \in [Calls -> Tasks], NEW k \in Calls, NEW task \in Tasks, Goes(k, task)
  PROVE  call' \in [Calls -> Tasks]
  BY DEF Goes

LEMMA TaskKinds ==
  ASSUME NEW task \in Tasks
  PROVE  /\ task.at = "issue" => task \in Issue
         /\ task.at \in {"invalidate", "create"} => task \in Challenge
         /\ task.at \in {"mark", "update", "consume", "close"} => task \in Reset
  BY DEF Tasks, Issue, Challenge, Reset, Idle

-----------------------------------------------------------------------------
(* Type correctness.                                                       *)

LEMMA InitTypeOK == Init => TypeOK
<1> SUFFICES ASSUME Init PROVE TypeOK
  OBVIOUS
<1>1. registered \in BOOLEAN
  BY DEF Init
<1>2. session \in [Sessions -> {"none", "live", "revoked", "deleted"}]
  BY DEF Init
<1>3. root \in [Sessions -> Sessions \cup {NoSession}]
  BY DEF Init
<1>4. row \in [Codes -> {"none", "open", "verified", "deleted"}]
  BY DEF Init
<1>5. purpose \in [Codes -> Purposes \cup {"none"}]
  BY DEF Init
<1>6. attempts \in [Codes -> 0..MaxAttempts]
  <2>1. 0 \in 0..MaxAttempts
    BY AttemptsAssumption
  <2> QED  BY <2>1 DEF Init
<1>7. call \in [Calls -> Issue \cup Challenge \cup Reset \cup {Idle}]
  BY DEF Init
<1>8. lapsed \subseteq Sessions /\ dead \subseteq Codes /\ proved \subseteq Codes /\ used \subseteq Codes
  BY DEF Init
<1> QED  BY <1>1, <1>2, <1>3, <1>4, <1>5, <1>6, <1>7, <1>8 DEF TypeOK

LEMMA SessionTypeOK ==
  ASSUME TypeOK, NEW k \in Calls, SessionStep(k)
  PROVE  TypeOK'
<1> USE DEF TypeOK, sessionVars, codeVars, history
<1>1. [at |-> "issue", root |-> NoSession] \in Tasks /\ Idle \in Tasks
  BY DEF Tasks, Issue
<1>2. CASE Register(k) \/ Login(k)
  BY <1>1, <1>2, GoesTypeOK DEF Register, Login, Tasks
<1>3. ASSUME NEW s \in Sessions, RotateSession(k, s)
      PROVE  TypeOK'
  <2>1. [at |-> "issue", root |-> root[s]] \in Tasks
    BY DEF Tasks, Issue
  <2> QED  BY <1>3, <2>1, GoesTypeOK DEF RotateSession, Tasks
<1>4. ASSUME NEW s \in Sessions, issueAndTrack(k, s)
      PROVE  TypeOK'
  <2>1. call[k].root \in Sessions \cup {NoSession}
    BY <1>4, TaskKinds DEF issueAndTrack, Tasks, Issue
  <2>2. call' \in [Calls -> Tasks]
    BY <1>1, <1>4, GoesTypeOK DEF issueAndTrack, Tasks
  <2> QED  BY <1>4, <2>1, <2>2 DEF issueAndTrack, Tasks
<1> QED  BY <1>2, <1>3, <1>4 DEF SessionStep

LEMMA CodeTypeOK ==
  ASSUME TypeOK, NEW k \in Calls, CodeStep(k)
  PROVE  TypeOK'
<1> USE DEF TypeOK, sessionVars, codeVars, history
<1>1. call \in [Calls -> Tasks] /\ Idle \in Tasks
  BY DEF Tasks
<1>2. ASSUME NEW p \in Purposes, requestOTP(k, p)
      PROVE  TypeOK'
  <2>1. [at |-> "invalidate", purpose |-> p] \in Tasks
    BY DEF Tasks, Challenge
  <2> QED  BY <1>1, <1>2, <2>1, GoesTypeOK DEF requestOTP, Tasks
<1>3. CASE InvalidateVerificationCodes(k)
  <2>1. [call[k] EXCEPT !.at = "create"] \in Tasks
    BY <1>1, <1>3, TaskKinds DEF InvalidateVerificationCodes, Tasks, Challenge
  <2>2. call' \in [Calls -> Tasks]
    BY <1>1, <1>3, <2>1, GoesTypeOK DEF InvalidateVerificationCodes
  <2> QED  BY <1>3, <2>2 DEF InvalidateVerificationCodes, Superseded, Tasks
<1>4. ASSUME NEW x \in Codes, CreateVerificationCode(k, x)
      PROVE  TypeOK'
  <2>1. call[k].purpose \in Purposes
    BY <1>1, <1>4, TaskKinds DEF CreateVerificationCode, Challenge
  <2>2. call' \in [Calls -> Tasks]
    BY <1>1, <1>4, GoesTypeOK DEF CreateVerificationCode
  <2> QED  BY <1>4, <2>1, <2>2 DEF CreateVerificationCode, Tasks
<1>5. ASSUME NEW x \in Codes, NEW reset \in BOOLEAN, NEW right \in BOOLEAN,
             RecordVerificationAttempt(k, x, reset, right)
      PROVE  TypeOK'
  <2>1. [at |-> "mark", code |-> x, reset |-> reset] \in Tasks
    BY DEF Tasks, Reset
  <2>2. call' \in [Calls -> Tasks]
    BY <1>1, <1>5, <2>1, GoesTypeOK DEF RecordVerificationAttempt
  <2>3. attempts' \in [Codes -> 0..MaxAttempts]
    BY <1>5, AttemptsAssumption DEF RecordVerificationAttempt
  <2> QED  BY <1>5, <2>2, <2>3 DEF RecordVerificationAttempt, Tasks
<1>6. CASE MarkVerificationCodeVerified(k)
  <2>1. call[k] \in Reset
    BY <1>1, <1>6, TaskKinds DEF MarkVerificationCodeVerified
  <2>2. [call[k] EXCEPT !.at = "update"] \in Tasks
    BY <2>1 DEF Tasks, Reset
  <2>3. call' \in [Calls -> Tasks]
    BY <1>1, <1>6, <2>2, GoesTypeOK DEF MarkVerificationCodeVerified
  <2> QED  BY <1>6, <2>1, <2>3 DEF MarkVerificationCodeVerified, Reset, Tasks
<1> QED  BY <1>2, <1>3, <1>4, <1>5, <1>6 DEF CodeStep

LEMMA DeleteTypeOK ==
  ASSUME TypeOK, NEW S \in SUBSET Sessions, Delete(S)
  PROVE  /\ session' \in [Sessions -> {"none", "live", "revoked", "deleted"}]
         /\ lapsed' \subseteq Sessions
  BY DEF TypeOK, Delete

LEMMA ResetTypeOK ==
  ASSUME TypeOK, NEW k \in Calls, ResetStep(k)
  PROVE  TypeOK'
<1> USE DEF TypeOK, sessionVars, codeVars, history
<1>1. call \in [Calls -> Tasks] /\ Idle \in Tasks
  BY DEF Tasks
<1>2. ASSUME NEW x \in Codes, GetVerifiedVerificationCode(k, x)
      PROVE  TypeOK'
  <2>1. [at |-> "update", code |-> x, reset |-> TRUE] \in Tasks
    BY DEF Tasks, Reset
  <2> QED  BY <1>1, <1>2, <2>1, GoesTypeOK DEF GetVerifiedVerificationCode, Tasks
<1>3. CASE UpdateUserPassword(k)
  <2>1. call[k] \in Reset
    BY <1>1, <1>3, TaskKinds DEF UpdateUserPassword
  <2>2. [call[k] EXCEPT !.at = "consume"] \in Tasks
    BY <2>1 DEF Tasks, Reset
  <2>3. call' \in [Calls -> Tasks]
    BY <1>1, <1>3, <2>2, GoesTypeOK DEF UpdateUserPassword
  <2> QED  BY <1>3, <2>1, <2>3 DEF UpdateUserPassword, Reset, Tasks
<1>4. CASE ConsumeVerifiedVerificationCode(k)
  <2>1. call[k] \in Reset
    BY <1>1, <1>4, TaskKinds DEF ConsumeVerifiedVerificationCode
  <2>2. [call[k] EXCEPT !.at = "close"] \in Tasks
    BY <2>1 DEF Tasks, Reset
  <2>3. call' \in [Calls -> Tasks]
    BY <1>1, <1>4, <2>2, GoesTypeOK DEF ConsumeVerifiedVerificationCode
  <2>4. dead' \subseteq Codes
    BY <1>4, <2>1 DEF ConsumeVerifiedVerificationCode, Reset
  <2> QED  BY <1>4, <2>3, <2>4 DEF ConsumeVerifiedVerificationCode, Tasks
<1>5. CASE CloseSessions(k)
  <2>1. call' \in [Calls -> Tasks]
    BY <1>1, <1>5, GoesTypeOK DEF CloseSessions
  <2>2. CASE DeleteSessionsForUser
    BY <1>5, <2>1, <2>2, DeleteTypeOK DEF CloseSessions, DeleteSessionsForUser, Tasks
  <2>3. CASE UNCHANGED <<session, lapsed>>
    BY <1>5, <2>1, <2>3 DEF CloseSessions, Tasks
  <2> QED  BY <1>5, <2>2, <2>3 DEF CloseSessions
<1>6. CASE Stop(k)
  BY <1>1, <1>6, GoesTypeOK DEF Stop, Tasks
<1> QED  BY <1>2, <1>3, <1>4, <1>5, <1>6 DEF ResetStep

LEMMA NextTypeOK ==
  ASSUME TypeOK, [Next]_vars
  PROVE  TypeOK'
<1> USE DEF sessionVars, codeVars, history
<1>1. CASE UNCHANGED vars
  BY <1>1 DEF TypeOK, vars
<1>2. CASE Logout
  BY <1>2, DeleteTypeOK DEF TypeOK, Logout, DeleteSessionsForUser
<1>3. CASE DeleteExpiredCodes
  BY <1>3, AttemptsAssumption DEF TypeOK, DeleteExpiredCodes
<1>4. CASE DeleteExpiredSessions
  BY <1>4, DeleteTypeOK DEF TypeOK, DeleteExpiredSessions
<1>5. CASE (\E s \in Sessions : SessionLapses(s)) \/ (\E x \in Codes : CodeLapses(x))
  BY <1>5 DEF TypeOK, SessionLapses, CodeLapses
<1> QED
  BY <1>1, <1>2, <1>3, <1>4, <1>5, SessionTypeOK, CodeTypeOK, ResetTypeOK
  DEF Next, Background

\* Every reachable state is well typed; attempts never pass max_attempts.
THEOREM TypeCorrect == Spec => []TypeOK
  BY InitTypeOK, NextTypeOK, PTL DEF Spec

-----------------------------------------------------------------------------
(* One successor.  The inductive invariant adds where roots point: to a    *)
(* login, whose row exists, so that a fresh id is no one's root yet.       *)

RootInv ==
  /\ \A s \in Sessions : session[s] = "none" <=> root[s] = NoSession
  /\ \A s \in Sessions : root[s] # NoSession => root[root[s]] = root[s]
  /\ \A k \in Calls : Rotating(k) => root[call[k].root] = call[k].root

LapsedInv == \A s \in lapsed : session[s] = "live"

SuccessorInv == TypeOK /\ LapsedInv /\ RootInv /\ OneSuccessor

LEMMA InitSuccessor == Init => LapsedInv /\ RootInv /\ OneSuccessor
  BY DEF Init, LapsedInv, RootInv, OneSuccessor, Rotating, Idle

\* Nothing new is live and no refresh begins.
Receding ==
  /\ root' = root
  /\ \A s \in Sessions : session[s] = "none" <=> session'[s] = "none"
  /\ \A s \in Sessions : session'[s] = "live" => session[s] = "live"
  /\ \A s \in Sessions : Usable(s)' => Usable(s)
  /\ \A k \in Calls : Rotating(k)' => Rotating(k) /\ call'[k].root = call[k].root

\* Every step but the issue of a session and a rotation is of that kind.
LEMMA StepKinds ==
  ASSUME TypeOK, LapsedInv, [Next]_vars
  PROVE  \/ Receding
         \/ \E k \in Calls, s \in Sessions : issueAndTrack(k, s) \/ RotateSession(k, s)
<1> USE DEF Receding, Usable, Rotating, sessionVars, codeVars, history
<1>1. CASE UNCHANGED vars
  BY <1>1 DEF vars
<1>2. ASSUME NEW S \in SUBSET Sessions, Delete(S), UNCHANGED root,
             \A s \in S : session[s] # "none",
             \A k \in Calls : Rotating(k)' => Rotating(k) /\ call'[k].root = call[k].root
      PROVE  Receding
  BY <1>2 DEF TypeOK, Delete
<1>3. ASSUME NEW k \in Calls, UNCHANGED sessionVars, NEW task, Goes(k, task),
             task.at = "issue" => task.root = NoSession
      PROVE  Receding
  BY <1>3 DEF TypeOK, Goes
<1>4. ASSUME NEW k \in Calls, SessionStep(k)
      PROVE  \/ Receding
             \/ \E s \in Sessions : issueAndTrack(k, s) \/ RotateSession(k, s)
  BY <1>4, <1>3 DEF SessionStep, Register, Login
<1>5. ASSUME NEW k \in Calls, CodeStep(k)
      PROVE  Receding
  <2>1. Idle.at # "issue"
    BY DEF Idle
  <2>2. call[k].at # "issue" \/ call' = call
    BY <1>5, <2>1 DEF CodeStep, requestOTP, InvalidateVerificationCodes, CreateVerificationCode,
       RecordVerificationAttempt, MarkVerificationCodeVerified
  <2>3. UNCHANGED sessionVars
    BY <1>5 DEF CodeStep, requestOTP, InvalidateVerificationCodes, CreateVerificationCode,
       RecordVerificationAttempt, MarkVerificationCodeVerified
  <2>4. \A j \in Calls : j # k => call'[j] = call[j]
    BY <1>5 DEF TypeOK, Goes, CodeStep, requestOTP, InvalidateVerificationCodes,
       CreateVerificationCode, RecordVerificationAttempt, MarkVerificationCodeVerified
  <2>5. call'[k] = call[k] \/ call'[k].at # "issue"
    <3>1. call \in [Calls -> Tasks]
      BY DEF TypeOK, Tasks
    <3>2. CASE \E p \in Purposes : requestOTP(k, p)
      BY <3>1, <3>2 DEF requestOTP, Goes
    <3>3. CASE InvalidateVerificationCodes(k)
      <4>1. call[k] \in Challenge
        BY <3>1, <3>3, TaskKinds DEF InvalidateVerificationCodes
      <4> QED  BY <3>1, <3>3, <4>1 DEF InvalidateVerificationCodes, Goes, Challenge
    <3>4. CASE \E x \in Codes : CreateVerificationCode(k, x)
      BY <2>1, <3>1, <3>4 DEF CreateVerificationCode, Goes
    <3>5. CASE \E x \in Codes, reset, right \in BOOLEAN :
                 RecordVerificationAttempt(k, x, reset, right)
      BY <3>1, <3>5 DEF RecordVerificationAttempt, Goes
    <3>6. CASE MarkVerificationCodeVerified(k)
      <4>1. call[k] \in Reset
        BY <3>1, <3>6, TaskKinds DEF MarkVerificationCodeVerified
      <4> QED  BY <2>1, <3>1, <3>6, <4>1 DEF MarkVerificationCodeVerified, Goes, Reset
    <3> QED  BY <1>5, <3>2, <3>3, <3>4, <3>5, <3>6 DEF CodeStep
  <2> QED  BY <2>3, <2>4, <2>5
<1>6. ASSUME NEW k \in Calls, ResetStep(k)
      PROVE  Receding
  <2>1. Idle.at # "issue"
    BY DEF Idle
  <2>2. call \in [Calls -> Tasks]
    BY DEF TypeOK, Tasks
  <2>3. CASE \E x \in Codes : GetVerifiedVerificationCode(k, x)
    <3>1. PICK x \in Codes : GetVerifiedVerificationCode(k, x)
      BY <2>3
    <3> QED  BY <3>1, <1>3 DEF GetVerifiedVerificationCode
  <2>4. CASE UpdateUserPassword(k)
    <3>1. call[k] \in Reset
      BY <2>2, <2>4, TaskKinds DEF UpdateUserPassword
    <3>2. [call[k] EXCEPT !.at = "consume"].at # "issue"
      BY <3>1 DEF Reset
    <3> QED  BY <2>4, <3>2, <1>3 DEF UpdateUserPassword
  <2>5. CASE ConsumeVerifiedVerificationCode(k)
    <3>1. call[k] \in Reset
      BY <2>2, <2>5, TaskKinds DEF ConsumeVerifiedVerificationCode
    <3>2. [call[k] EXCEPT !.at = "close"].at # "issue"
      BY <3>1 DEF Reset
    <3> QED  BY <2>5, <3>2, <1>3 DEF ConsumeVerifiedVerificationCode
  <2>6. CASE CloseSessions(k)
    <3>1. \A j \in Calls : Rotating(j)' => Rotating(j) /\ call'[j].root = call[j].root
      BY <2>1, <2>2, <2>6 DEF CloseSessions, Goes
    <3>2. CASE DeleteSessionsForUser
      BY <3>1, <3>2, <2>6, <1>2 DEF CloseSessions, DeleteSessionsForUser
    <3>3. CASE UNCHANGED <<session, lapsed>>
      BY <3>1, <3>3, <2>6 DEF CloseSessions
    <3> QED  BY <2>6, <3>2, <3>3 DEF CloseSessions
  <2>7. CASE Stop(k)
    BY <2>1, <2>7, <1>3 DEF Stop
  <2> QED  BY <1>6, <2>3, <2>4, <2>5, <2>6, <2>7 DEF ResetStep
<1>7. CASE Logout
  BY <1>7, <1>2 DEF Logout, DeleteSessionsForUser
<1>8. CASE DeleteExpiredSessions
  BY <1>8 DEF TypeOK, LapsedInv, DeleteExpiredSessions, Delete
<1>9. CASE DeleteExpiredCodes \/ (\E s \in Sessions : SessionLapses(s))
             \/ (\E x \in Codes : CodeLapses(x))
  BY <1>9 DEF TypeOK, DeleteExpiredCodes, SessionLapses, CodeLapses
<1> QED
  BY <1>1, <1>4, <1>5, <1>6, <1>7, <1>8, <1>9 DEF Next, Background

LEMMA NextLapsed ==
  ASSUME TypeOK, LapsedInv, [Next]_vars
  PROVE  LapsedInv'
<1> USE DEF TypeOK, LapsedInv, sessionVars
<1>1. CASE UNCHANGED <<session, lapsed>>
  BY <1>1
<1>2. ASSUME NEW S \in SUBSET Sessions, Delete(S)
      PROVE  LapsedInv'
  BY <1>2 DEF Delete
<1>3. ASSUME NEW k \in Calls, SessionStep(k)
      PROVE  LapsedInv'
  <2>1. CASE Register(k) \/ Login(k)
    BY <1>1, <2>1 DEF Register, Login
  <2>2. ASSUME NEW s \in Sessions, RotateSession(k, s)
        PROVE  LapsedInv'
    BY <2>2 DEF RotateSession
  <2>3. ASSUME NEW s \in Sessions, issueAndTrack(k, s)
        PROVE  LapsedInv'
    BY <2>3 DEF issueAndTrack
  <2> QED  BY <1>3, <2>1, <2>2, <2>3 DEF SessionStep
<1>4. ASSUME NEW k \in Calls, CodeStep(k)
      PROVE  UNCHANGED <<session, lapsed>>
  BY <1>4 DEF CodeStep, requestOTP, InvalidateVerificationCodes, CreateVerificationCode,
     RecordVerificationAttempt, MarkVerificationCodeVerified
<1>5. ASSUME NEW k \in Calls, ResetStep(k)
      PROVE  LapsedInv'
  BY <1>1, <1>2, <1>5 DEF ResetStep, GetVerifiedVerificationCode, UpdateUserPassword,
     ConsumeVerifiedVerificationCode, CloseSessions, DeleteSessionsForUser, Stop
<1>6. CASE Logout \/ DeleteExpiredSessions
  BY <1>2, <1>6 DEF Logout, DeleteSessionsForUser, DeleteExpiredSessions
<1>7. ASSUME NEW s \in Sessions, SessionLapses(s)
      PROVE  LapsedInv'
  BY <1>7 DEF SessionLapses
<1>8. CASE DeleteExpiredCodes \/ (\E x \in Codes : CodeLapses(x))
  BY <1>1, <1>8 DEF DeleteExpiredCodes, CodeLapses
<1> QED
  BY <1>1, <1>3, <1>4, <1>5, <1>6, <1>7, <1>8 DEF Next, Background, vars

LEMMA IssueSuccessor ==
  ASSUME SuccessorInv, NEW k \in Calls, NEW s \in Sessions, issueAndTrack(k, s)
  PROVE  RootInv' /\ OneSuccessor'
<1> USE DEF SuccessorInv, TypeOK, RootInv, OneSuccessor, issueAndTrack, Goes
<1> DEFINE l == IF call[k].root = NoSession THEN s ELSE call[k].root
<1>1. call[k].root \in Sessions \cup {NoSession}
  BY TaskKinds DEF Tasks, Issue
<1>2. root[s] = NoSession /\ root'[s] = l /\ l \in Sessions
  BY <1>1, SessionsAssumption
<1>3. \A t \in Sessions : t # s => root'[t] = root[t] /\ session'[t] = session[t]
  OBVIOUS
<1>4. \A j \in Calls : Rotating(j)' => j # k /\ Rotating(j) /\ call'[j] = call[j]
  BY DEF Rotating, Idle
<1>5. \A t \in Sessions : root[t] # s
  BY <1>2, SessionsAssumption
<1>6. \A j \in Calls : Rotating(j) => call[j].root # s /\ call[j].root \in Sessions
  <2>1. \A j \in Calls : Rotating(j) => call[j].root \in Sessions
    BY TaskKinds DEF Tasks, Issue, Rotating
  <2> QED  BY <1>2, <2>1, SessionsAssumption
<1>7. l = s \/ (Rotating(k) /\ l = call[k].root /\ root[l] = l /\ l # s)
  BY <1>6 DEF Rotating
<1>8. RootInv'
  <2>1. \A t \in Sessions : session'[t] = "none" <=> root'[t] = NoSession
    BY <1>2, <1>3, SessionsAssumption
  <2>2. \A t \in Sessions : root'[t] # NoSession => root'[root'[t]] = root'[t]
    BY <1>2, <1>3, <1>5, <1>7
  <2>3. \A j \in Calls : Rotating(j)' => root'[call'[j].root] = call'[j].root
    BY <1>3, <1>4, <1>6
  <2> QED  BY <2>1, <2>2, <2>3
<1>9. OneSuccessor'
  <2>1. \A t \in Sessions : t # s /\ session'[t] = "live" => root'[t] # l
    BY <1>3, <1>5, <1>7
  <2>2. \A t, u \in Sessions :
          session'[t] = "live" /\ session'[u] = "live" /\ root'[t] = root'[u] => t = u
    BY <1>2, <1>3, <2>1
  <2>3. \A j \in Calls : Rotating(j)' => call'[j].root # l
    BY <1>4, <1>6, <1>7
  <2>4. \A i, j \in Calls : Rotating(i)' /\ Rotating(j)' /\ call'[i].root = call'[j].root => i = j
    BY <1>4
  <2>5. \A t \in Sessions, j \in Calls :
          session'[t] = "live" /\ Rotating(j)' => root'[t] # call'[j].root
    BY <1>2, <1>3, <1>4, <2>3
  <2> QED  BY <2>2, <2>4, <2>5
<1> QED  BY <1>8, <1>9

LEMMA RotateSuccessor ==
  ASSUME SuccessorInv, NEW k \in Calls, NEW s \in Sessions, RotateSession(k, s)
  PROVE  RootInv' /\ OneSuccessor'
<1> USE DEF SuccessorInv, TypeOK, RootInv, OneSuccessor, RotateSession, Goes
<1>1. root[s] \in Sessions /\ root[s] # NoSession
  OBVIOUS
<1>2. Rotating(k)' /\ call'[k].root = root[s]
  BY <1>1 DEF Rotating
<1>3. \A j \in Calls : j # k => call'[j] = call[j]
  OBVIOUS
<1>4. \A j \in Calls : j # k /\ Rotating(j)' => Rotating(j)
  BY <1>3 DEF Rotating
<1>5. RootInv'
  BY <1>1, <1>2, <1>3, <1>4
<1>6. OneSuccessor'
  BY <1>1, <1>2, <1>3, <1>4
<1> QED  BY <1>5, <1>6

LEMMA NextSuccessor ==
  ASSUME SuccessorInv, [Next]_vars
  PROVE  SuccessorInv'
<1>1. TypeOK' /\ LapsedInv'
  BY NextTypeOK, NextLapsed DEF SuccessorInv
<1>2. CASE Receding
  BY <1>1, <1>2 DEF SuccessorInv, Receding, RootInv, OneSuccessor
<1> QED
  BY <1>1, <1>2, StepKinds, IssueSuccessor, RotateSuccessor DEF SuccessorInv

LEMMA SuccessorAlways == Spec => []SuccessorInv
<1>1. Init => SuccessorInv
  BY InitTypeOK, InitSuccessor DEF SuccessorInv
<1> QED  BY <1>1, NextSuccessor, PTL DEF Spec

\* A login never forks, however many requests refresh it at once.
THEOREM NoFork == Spec => []OneSuccessor
<1>1. SuccessorInv => OneSuccessor
  BY DEF SuccessorInv
<1> QED  BY <1>1, SuccessorAlways, PTL

-----------------------------------------------------------------------------
(* A reset needs its code.  The inductive invariant follows a code from the *)
(* answer through the request that resets by it: an unexpired verified row  *)
(* has been answered, since an invalidated one has expired as well.         *)

AnsweredInv ==
  /\ \A x \in Codes : row[x] = "verified" /\ x \notin dead => x \in proved
  /\ \A x \in proved : row[x] # "none"
  /\ \A k \in Calls : call[k].at = "update" => call[k].code \in proved /\ IsReset(call[k].code)

AnswerInv == TypeOK /\ AnsweredInv /\ ResetNeedsCode

LEMMA InitAnswer == Init => AnsweredInv /\ ResetNeedsCode
  BY DEF Init, AnsweredInv, ResetNeedsCode, Idle

\* A request's task changes, and not to "update"; no code does.
LEMMA OtherTask ==
  ASSUME AnswerInv, NEW k \in Calls, NEW task, Goes(k, task), task.at # "update",
         UNCHANGED <<row, purpose, dead, proved, used>>
  PROVE  AnsweredInv' /\ ResetNeedsCode'
<1> USE DEF AnswerInv, AnsweredInv, ResetNeedsCode, IsReset, TypeOK, Goes
<1>1. \A j \in Calls : call'[j].at = "update" => call'[j] = call[j]
  OBVIOUS
<1> QED  BY <1>1

LEMMA CodeAnswer ==
  ASSUME AnswerInv, NEW k \in Calls, CodeStep(k)
  PROVE  AnsweredInv' /\ ResetNeedsCode'
<1> USE DEF sessionVars, codeVars, history
<1>1. call \in [Calls -> Tasks] /\ Idle.at # "update"
  BY DEF AnswerInv, TypeOK, Tasks, Idle
<1>2. ASSUME NEW p \in Purposes, requestOTP(k, p)
      PROVE  AnsweredInv' /\ ResetNeedsCode'
  BY <1>2, OtherTask DEF requestOTP
<1>3. ASSUME NEW x \in Codes, NEW reset \in BOOLEAN, NEW right \in BOOLEAN,
             RecordVerificationAttempt(k, x, reset, right)
      PROVE  AnsweredInv' /\ ResetNeedsCode'
  <2>1. CASE right
    BY <1>3, <2>1, OtherTask DEF RecordVerificationAttempt
  <2>2. CASE ~right
    BY <1>3, <2>2 DEF RecordVerificationAttempt, AnswerInv, AnsweredInv, ResetNeedsCode, IsReset
  <2> QED  BY <2>1, <2>2
<1>4. CASE InvalidateVerificationCodes(k)
  <2> USE DEF InvalidateVerificationCodes, Superseded, AnswerInv, AnsweredInv, ResetNeedsCode, IsReset
  <2>1. call[k] \in Challenge
    BY <1>1, <1>4, TaskKinds
  <2>2. \A j \in Calls : call'[j].at = "update" => call'[j] = call[j]
    BY <1>1, <1>4, <2>1 DEF Goes, Challenge
  <2>3. \A x \in Codes : row'[x] = row[x] \/ (row'[x] = "verified" /\ x \in dead')
    BY <1>4 DEF TypeOK
  <2>4. proved \subseteq Codes /\ dead \subseteq dead'
    BY <1>4 DEF TypeOK
  <2> QED  BY <1>4, <2>2, <2>3, <2>4
<1>5. ASSUME NEW x \in Codes, CreateVerificationCode(k, x)
      PROVE  AnsweredInv' /\ ResetNeedsCode'
  <2> USE DEF CreateVerificationCode, AnswerInv, AnsweredInv, ResetNeedsCode, IsReset, TypeOK
  <2>1. \A j \in Calls : call'[j].at = "update" => call'[j] = call[j]
    BY <1>1, <1>5 DEF Goes
  <2>2. x \notin proved
    BY <1>5
  <2>3. \A y \in Codes : y # x => row'[y] = row[y] /\ purpose'[y] = purpose[y]
    BY <1>5
  <2>4. row'[x] = "open"
    BY <1>5
  <2> QED  BY <1>5, <2>1, <2>2, <2>3, <2>4
<1>6. CASE MarkVerificationCodeVerified(k)
  <2> DEFINE x == call[k].code
  <2> USE DEF MarkVerificationCodeVerified, AnswerInv, AnsweredInv, ResetNeedsCode, TypeOK
  <2>1. call[k] \in Reset /\ x \in Codes
    BY <1>1, <1>6, TaskKinds DEF Reset
  <2>2. row' = [row EXCEPT ![x] = "verified"] /\ proved' = proved \cup {x}
        /\ UNCHANGED <<purpose, dead, used>>
    BY <1>6
  <2>3. call'[k].at = "update" => call'[k].code = x /\ IsReset(x)
    BY <1>1, <1>6, <2>1 DEF Goes, Reset
  <2>4. \A j \in Calls : j # k => call'[j] = call[j]
    BY <1>6 DEF Goes
  <2> QED  BY <2>1, <2>2, <2>3, <2>4 DEF IsReset
<1> QED  BY <1>2, <1>3, <1>4, <1>5, <1>6 DEF CodeStep

LEMMA ResetAnswer ==
  ASSUME AnswerInv, NEW k \in Calls, ResetStep(k)
  PROVE  AnsweredInv' /\ ResetNeedsCode'
<1> USE DEF sessionVars, codeVars, history
<1>1. call \in [Calls -> Tasks] /\ Idle.at # "update"
  BY DEF AnswerInv, TypeOK, Tasks, Idle
<1>2. ASSUME NEW x \in Codes, GetVerifiedVerificationCode(k, x)
      PROVE  AnsweredInv' /\ ResetNeedsCode'
  BY <1>2 DEF GetVerifiedVerificationCode, AnswerInv, AnsweredInv, ResetNeedsCode, IsReset,
     TypeOK, Goes
<1>3. CASE UpdateUserPassword(k)
  <2>1. call[k] \in Reset
    BY <1>1, <1>3, TaskKinds DEF UpdateUserPassword
  <2>2. \A j \in Calls : call'[j].at = "update" => call'[j] = call[j]
    BY <1>1, <1>3, <2>1 DEF UpdateUserPassword, Goes, Reset
  <2> QED
    BY <1>3, <2>2 DEF UpdateUserPassword, AnswerInv, AnsweredInv, ResetNeedsCode, IsReset
<1>4. CASE ConsumeVerifiedVerificationCode(k)
  <2>1. call[k] \in Reset
    BY <1>1, <1>4, TaskKinds DEF ConsumeVerifiedVerificationCode
  <2>2. \A j \in Calls : call'[j].at = "update" => call'[j] = call[j]
    BY <1>1, <1>4, <2>1 DEF ConsumeVerifiedVerificationCode, Goes, Reset
  <2>3. dead \subseteq dead'
    BY <1>4 DEF ConsumeVerifiedVerificationCode
  <2> QED
    BY <1>4, <2>2, <2>3
    DEF ConsumeVerifiedVerificationCode, AnswerInv, AnsweredInv, ResetNeedsCode, IsReset
<1>5. CASE CloseSessions(k)
  BY <1>1, <1>5, OtherTask DEF CloseSessions
<1>6. CASE Stop(k)
  BY <1>1, <1>6, OtherTask DEF Stop
<1> QED  BY <1>2, <1>3, <1>4, <1>5, <1>6 DEF ResetStep

LEMMA NextAnswer ==
  ASSUME AnswerInv, [Next]_vars
  PROVE  AnswerInv'
<1> USE DEF sessionVars, codeVars, history
<1>1. TypeOK'
  BY NextTypeOK DEF AnswerInv
<1>2. CASE UNCHANGED <<row, purpose, dead, proved, used, call>>
  BY <1>1, <1>2 DEF AnswerInv, AnsweredInv, ResetNeedsCode, IsReset
<1>3. ASSUME NEW k \in Calls, SessionStep(k)
      PROVE  AnsweredInv' /\ ResetNeedsCode'
  <2>1. Idle.at # "update"
    BY DEF Idle
  <2> QED
    BY <1>3, <2>1, OtherTask DEF SessionStep, Register, Login, RotateSession, issueAndTrack
<1>4. CASE Logout \/ DeleteExpiredSessions \/ (\E s \in Sessions : SessionLapses(s))
  BY <1>2, <1>4 DEF Logout, DeleteExpiredSessions, SessionLapses
<1>5. CASE DeleteExpiredCodes
  BY <1>1, <1>5 DEF DeleteExpiredCodes, Stored, AnswerInv, AnsweredInv, ResetNeedsCode, IsReset,
     TypeOK
<1>6. CASE \E x \in Codes : CodeLapses(x)
  BY <1>1, <1>6 DEF CodeLapses, AnswerInv, AnsweredInv, ResetNeedsCode, IsReset
<1> QED
  BY <1>1, <1>2, <1>3, <1>4, <1>5, <1>6, CodeAnswer, ResetAnswer
  DEF Next, Background, vars, AnswerInv

\* No password is reset by a challenge nobody answered.
THEOREM ResetSafe == Spec => []ResetNeedsCode
<1>1. Init => AnswerInv
  BY InitTypeOK, InitAnswer DEF AnswerInv
<1>2. AnswerInv => ResetNeedsCode
  BY DEF AnswerInv
<1> QED  BY <1>1, <1>2, NextAnswer, PTL DEF Spec

-----------------------------------------------------------------------------
(* The sessions implement SessionChain.                                    *)

LEMMA InitChain == Init => C!Init
  BY SessionsAssumption DEF Init, C!Init, Chain

\* Two functions that agree but at one place.
LEMMA UpdateAt ==
  ASSUME NEW D, NEW f, NEW g, f = [x \in D |-> f[x]], g = [x \in D |-> g[x]],
         NEW l \in D, \A m \in D : m # l => g[m] = f[m]
  PROVE  g = [f EXCEPT ![l] = g[l]]
  OBVIOUS

\* One login's chain moves.
LEMMA ChainMoves ==
  ASSUME NEW l \in Sessions, \A m \in Sessions : m # l => Chain'[m] = Chain[m]
  PROVE  Chain' = [Chain EXCEPT ![l] = Chain'[l]]
<1>1. Chain = [x \in Sessions |-> Chain[x]] /\ Chain' = [x \in Sessions |-> Chain'[x]]
  BY DEF Chain
<1> QED  BY <1>1, UpdateAt

LEMMA RecedingChain ==
  ASSUME SuccessorInv, Receding
  PROVE  [C!Next]_Chain
<1> USE DEF SuccessorInv, OneSuccessor, Receding
<1> DEFINE S == {l \in Sessions : Chain'[l] # Chain[l]}
<1>1. \A l \in Sessions : root[l] # l => Chain[l] = "none" /\ Chain'[l] = "none"
  BY DEF Chain
<1>2. \A l \in Sessions : Chain'[l] = "live" => Chain[l] = "live"
  BY DEF Chain
<1>3. \A l \in Sessions : Chain'[l] = "rotating" => Chain[l] = "rotating"
  BY DEF Chain, Usable
<1>4. \A l \in Sessions : root[l] = l =>
        /\ Chain[l] \in {"live", "rotating", "ended"}
        /\ Chain'[l] \in {"live", "rotating", "ended"}
  BY DEF Chain
<1>5. \A l \in S : Chain[l] \in {"live", "rotating"} /\ Chain'[l] = "ended"
  BY <1>1, <1>2, <1>3, <1>4
<1>6. Chain' = [l \in Sessions |-> IF l \in S THEN "ended" ELSE Chain[l]]
  BY <1>5 DEF Chain
<1>7. C!End(S)
  BY <1>5, <1>6 DEF C!End
<1> QED  BY <1>7 DEF C!Next

LEMMA RotateChain ==
  ASSUME SuccessorInv, NEW k \in Calls, NEW s \in Sessions, RotateSession(k, s)
  PROVE  [C!Next]_Chain
<1> USE DEF SuccessorInv, TypeOK, RootInv, OneSuccessor, RotateSession, Goes
<1> DEFINE l == root[s]
<1>1. l \in Sessions /\ l # NoSession /\ root[l] = l
  OBVIOUS
<1>2. Usable(s) /\ ~Usable(s)' /\ \A t \in Sessions : t # s => (Usable(t)' <=> Usable(t))
  BY DEF Usable
<1>3. Rotating(k)' /\ call'[k].root = l /\ ~Rotating(k)
  BY <1>1 DEF Rotating, Idle
<1>4. \A j \in Calls : j # k => call'[j] = call[j]
  OBVIOUS
<1>5. \A t \in Sessions : root[t] = l => ~Usable(t)'
  BY <1>2 DEF Usable
<1>6. Chain[l] = "live" /\ Chain'[l] = "rotating"
  BY <1>1, <1>2, <1>3, <1>5 DEF Chain
<1>7. \A m \in Sessions : m # l => Chain'[m] = Chain[m]
  <2> SUFFICES ASSUME NEW m \in Sessions, m # l
               PROVE  Chain'[m] = Chain[m]
    OBVIOUS
  <2>1. (\E t \in Sessions : root'[t] = m /\ Usable(t)')
          <=> (\E t \in Sessions : root[t] = m /\ Usable(t))
    BY <1>2
  <2>2. (\E j \in Calls : Rotating(j)' /\ call'[j].root = m)
          <=> (\E j \in Calls : Rotating(j) /\ call[j].root = m)
    BY <1>3, <1>4 DEF Rotating
  <2> QED  BY <2>1, <2>2 DEF Chain
<1>8. Chain' = [Chain EXCEPT ![l] = "rotating"]
  BY <1>1, <1>6, <1>7, ChainMoves
<1> QED  BY <1>1, <1>6, <1>8 DEF C!Next, C!Move

LEMMA IssueChain ==
  ASSUME SuccessorInv, NEW k \in Calls, NEW s \in Sessions, issueAndTrack(k, s)
  PROVE  [C!Next]_Chain
<1> USE DEF SuccessorInv, TypeOK, LapsedInv, RootInv, issueAndTrack, Goes
<1> DEFINE l == IF call[k].root = NoSession THEN s ELSE call[k].root
<1>1. l \in Sessions /\ root[s] = NoSession
  BY TaskKinds, SessionsAssumption DEF Tasks, Issue
<1>2. root' = [root EXCEPT ![s] = l] /\ root'[l] = l
  BY <1>1 DEF Rotating
<1>3. Usable(s)' /\ \A t \in Sessions : t # s => (Usable(t)' <=> Usable(t)) /\ root'[t] = root[t]
  BY DEF Usable
<1>4. \A t \in Sessions : Usable(t) => t # s
  BY DEF Usable
<1>5. \A j \in Calls : j # k => call'[j] = call[j]
  OBVIOUS
<1>6. ~Rotating(k)'
  BY DEF Rotating, Idle
<1>7. Chain'[l] = "live"
  BY <1>1, <1>2, <1>3 DEF Chain
<1>8. Chain[l] = IF call[k].root = NoSession THEN "none" ELSE "rotating"
  <2>1. CASE call[k].root = NoSession
    BY <1>1, <2>1, SessionsAssumption DEF Chain
  <2>2. CASE call[k].root # NoSession
    <3>1. Rotating(k) /\ root[l] = l
      BY <2>2 DEF Rotating
    <3>2. \A t \in Sessions : root[t] = l => ~Usable(t)
      BY <2>2, <3>1 DEF OneSuccessor, Usable
    <3> QED  BY <1>1, <2>2, <3>1, <3>2 DEF Chain
  <2> QED  BY <2>1, <2>2
<1>9. \A m \in Sessions : m # l => Chain'[m] = Chain[m]
  <2> SUFFICES ASSUME NEW m \in Sessions, m # l
               PROVE  Chain'[m] = Chain[m]
    OBVIOUS
  <2>1. root'[m] = m <=> root[m] = m
    BY <1>1, <1>2, <1>3, SessionsAssumption
  <2>2. (\E t \in Sessions : root'[t] = m /\ Usable(t)')
          <=> (\E t \in Sessions : root[t] = m /\ Usable(t))
    BY <1>1, <1>2, <1>3, <1>4
  <2>3. Rotating(k) => call[k].root # m
    BY DEF Rotating
  <2>4. (\E j \in Calls : Rotating(j)' /\ call'[j].root = m)
          <=> (\E j \in Calls : Rotating(j) /\ call[j].root = m)
    BY <1>5, <1>6, <2>3 DEF Rotating
  <2> QED  BY <2>1, <2>2, <2>4 DEF Chain
<1>10. Chain' = [Chain EXCEPT ![l] = "live"]
  BY <1>1, <1>7, <1>9, ChainMoves
<1> QED  BY <1>1, <1>8, <1>10 DEF C!Next, C!Move

\* A login that has ended never gets a usable session again.
THEOREM ChainsImplemented == Spec => Chains
<1>1. SuccessorInv /\ [Next]_vars => [C!Next]_Chain
  BY StepKinds, RecedingChain, RotateChain, IssueChain DEF SuccessorInv
<1> QED  BY <1>1, InitChain, SuccessorAlways, PTL DEF Spec, Chains, C!Spec
=============================================================================
