------------------------------ MODULE RideCases ------------------------------
(***************************************************************************)
(* What is filed about a ride: support tickets and disputes                *)
(* (internal/support), SOS events and incident reports (internal/safety).  *)
(* Each call is one guarded statement on the row and one insert into       *)
(* ride_events, without a transaction; it may end in between with an error. *)
(* TriggerSOS judges the ride's status on a read before its insert.        *)
(*                                                                         *)
(* Abstracted: texts, categories, locations; the read that authorizes a    *)
(* participant; updated_at.                                                *)
(***************************************************************************)
EXTENDS Naturals, FiniteSets

CONSTANTS
  Tickets, Disputes, Incidents, Alarms,   \* what may be filed about the ride
  Admins,        \* users with role admin
  Participants,  \* the ride's rider and driver
  CaseCalls,     \* calls that may be between two statements
  MaxEntries     \* bound: different entries, written or missed, before no call begins

ASSUME PeopleAssumption == Admins \cap Participants = {}
ASSUME CasesAssumption ==
  /\ Alarms \cap (Tickets \cup Disputes \cup Incidents) = {}
  /\ Tickets \cap (Disputes \cup Incidents) = {} /\ Disputes \cap Incidents = {}
ASSUME EntriesAssumption == MaxEntries \in Nat

VARIABLES
  underway,   \* the ride is neither completed nor cancelled
  case,       \* status and deciding user of a row; status "none" before it exists
  trail,      \* its events in ride_events
  told,       \* events whose insert failed, with an error to the caller
  clerk       \* calls between two statements

caseVars == <<underway, case, trail, told, clerk>>

Cases == Tickets \cup Disputes \cup Incidents \cup Alarms
Users == Admins \cup Participants
Unsigned == "unsigned"

\* The statuses an admin may set, and those that set resolved_at or resolved_by.
Stages ==
  [k \in Cases |-> IF k \in Tickets THEN {"open", "in_progress", "resolved", "closed"}
                   ELSE IF k \in Disputes THEN {"open", "in_review", "resolved", "rejected"} ELSE {}]
Decided == {"resolved", "rejected"}
Status  == {"none", "open", "in_progress", "in_review", "resolved", "closed", "rejected",
            "reported", "active"}

Entry  == [what : Status, by : Users]
Idle   == [at |-> "idle"]
Clerk  == [at : {"sos"}, by : Participants]
          \cup [at : {"audit"}, case : Cases, entry : Entry]

CaseTypeOK ==
  /\ underway \in BOOLEAN
  /\ case \in [Cases -> [status : Status, by : Users \cup {Unsigned}]]
  /\ trail \in [Cases -> SUBSET Entry]
  /\ told \in [Cases -> SUBSET Entry]
  /\ clerk \in [CaseCalls -> Clerk \cup {Idle}]

InitCases ==
  /\ underway = TRUE
  /\ case = [k \in Cases |-> [status |-> "none", by |-> Unsigned]]
  /\ trail = [k \in Cases |-> {}]
  /\ told = [k \in Cases |-> {}]
  /\ clerk = [c \in CaseCalls |-> Idle]

-----------------------------------------------------------------------------
Begins(c) ==
  /\ clerk[c] = Idle
  /\ Cardinality(UNION {trail[k] \cup told[k] : k \in Cases}) < MaxEntries

\* A participant of the ride, by role.
Participates(user) == user \in Participants

(* Statements.                                                             *)

Inserted(k, kinds, status) ==
  /\ k \in kinds /\ case[k].status = "none"
  /\ case' = [case EXCEPT ![k] = [status |-> status, by |-> Unsigned]]

InsertTicket(k)   == Inserted(k, Tickets, "open")
InsertDispute(k)  == Inserted(k, Disputes, "open")
InsertIncident(k) == Inserted(k, Incidents, "reported")

\* WHERE id = $1: from any status to any.
SetTicketStatus(k, status, admin) ==
  /\ k \in Tickets /\ case[k].status # "none"
  /\ case' = [case EXCEPT ![k] = [status |-> status, by |-> admin]]

\* resolved_by is cleared when the dispute is taken up again.
SetDisputeStatus(k, status, admin) ==
  /\ k \in Disputes /\ case[k].status # "none"
  /\ case' = [case EXCEPT ![k] =
       [status |-> status, by |-> IF status \in Decided THEN admin ELSE Unsigned]]

-----------------------------------------------------------------------------
(* Handlers.                                                               *)

\* The event of the change comes next.
ThenAudits(c, k, status, user) ==
  /\ clerk' = [clerk EXCEPT ![c] =
       [at |-> "audit", case |-> k, entry |-> [what |-> status, by |-> user]]]
  /\ UNCHANGED <<underway, trail, told>>

CreateSupportTicket(c, k, user) ==
  Begins(c) /\ Participates(user) /\ InsertTicket(k) /\ ThenAudits(c, k, "open", user)

CreateDispute(c, k, user) ==
  Begins(c) /\ Participates(user) /\ InsertDispute(k) /\ ThenAudits(c, k, "open", user)

ReportIncident(c, k, user) ==
  Begins(c) /\ Participates(user) /\ InsertIncident(k) /\ ThenAudits(c, k, "reported", user)

AdminUpdateSupportTicket(c, k, status, admin) ==
  /\ Begins(c) /\ status \in Stages[k]
  /\ SetTicketStatus(k, status, admin) /\ ThenAudits(c, k, status, admin)

AdminUpdateDispute(c, k, status, admin) ==
  /\ Begins(c) /\ status \in Stages[k]
  /\ SetDisputeStatus(k, status, admin) /\ ThenAudits(c, k, status, admin)

\* The ride is read; it is not over.
TriggerSOS(c, user) ==
  /\ Begins(c) /\ Participates(user) /\ underway
  /\ clerk' = [clerk EXCEPT ![c] = [at |-> "sos", by |-> user]]
  /\ UNCHANGED <<underway, case, trail, told>>

CreateRideSOSEvent(c, k) ==
  /\ clerk[c].at = "sos"
  /\ Inserted(k, Alarms, "active")
  /\ ThenAudits(c, k, "active", clerk[c].by)

\* Any SOS event can be resolved, also again.
MutResolvable(k) == case[k].status \in {"active", "resolved"}

\* WHERE status = 'active'.
Resolvable(k) == case[k].status = "active"

AdminResolveSOS(c, k, admin) ==
  /\ Begins(c) /\ k \in Alarms /\ Resolvable(k)
  /\ case' = [case EXCEPT ![k] = [status |-> "resolved", by |-> admin]]
  /\ ThenAudits(c, k, "resolved", admin)

\* The event of the call is written with the status found before the update.
MutAudit(c) ==
  /\ clerk[c].at = "audit"
  /\ trail' = [trail EXCEPT ![clerk[c].case] = @ \cup {[clerk[c].entry EXCEPT !.what = "open"]}]
  /\ clerk' = [clerk EXCEPT ![c] = Idle]
  /\ UNCHANGED <<underway, case, told>>

Audit(c) ==
  /\ clerk[c].at = "audit"
  /\ trail' = [trail EXCEPT ![clerk[c].case] = @ \cup {clerk[c].entry}]
  /\ clerk' = [clerk EXCEPT ![c] = Idle]
  /\ UNCHANGED <<underway, case, told>>

\* A statement fails, or the process stops, before the next one.
FailCall(c) ==
  /\ clerk[c] # Idle
  /\ told' = IF clerk[c].at = "audit"
             THEN [told EXCEPT ![clerk[c].case] = @ \cup {clerk[c].entry}] ELSE told
  /\ clerk' = [clerk EXCEPT ![c] = Idle]
  /\ UNCHANGED <<underway, case, trail>>

\* The rides component.
RideEnds == underway /\ underway' = FALSE /\ UNCHANGED <<case, trail, told, clerk>>

NextCases ==
  \/ RideEnds
  \/ \E c \in CaseCalls, k \in Cases :
       \/ \E user \in Users :
            \/ CreateSupportTicket(c, k, user) \/ CreateDispute(c, k, user)
            \/ ReportIncident(c, k, user)
       \/ \E admin \in Admins, status \in Status :
            AdminUpdateSupportTicket(c, k, status, admin) \/ AdminUpdateDispute(c, k, status, admin)
       \/ \E admin \in Admins : AdminResolveSOS(c, k, admin)
       \/ CreateRideSOSEvent(c, k)
  \/ \E c \in CaseCalls :
       \/ \E user \in Users : TriggerSOS(c, user)
       \/ Audit(c) \/ FailCall(c)

SpecCases == InitCases /\ [][NextCases]_caseVars

-----------------------------------------------------------------------------
(* No change without a trace: what a ticket, dispute, incident or SOS event *)
(* now says has its entry in the ride's audit trail, unless the call that   *)
(* wrote it is still to insert the entry or was answered with an error      *)
(* (support/handler.go:149, 237, 267, 336, safety/handler.go:170, 196,      *)
(* safety/admin.go:67).                                                     *)
Traced(k) == {e \in Entry : \/ e \in trail[k] \cup told[k]
                            \/ \E c \in CaseCalls : clerk[c].at = "audit"
                                 /\ clerk[c].case = k /\ clerk[c].entry = e}
AuditTrail ==
  \A k \in Cases : case[k].status # "none" => \E e \in Traced(k) : e.what = case[k].status

(* Two admins cannot both resolve an SOS event: whoever the trail, or an    *)
(* answer, says resolved it is the one in its row (safety/admin.go:58).     *)
ResolvedByOne ==
  \A k \in Alarms : \A e \in Traced(k) :
    e.what = "resolved" => case[k] = [status |-> "resolved", by |-> e.by]
=============================================================================
