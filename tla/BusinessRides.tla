---------------------------- MODULE BusinessRides ----------------------------
(***************************************************************************)
(* Rides requested for one business account (internal/business, and the    *)
(* business branch of rides.Handler.Create): membership, spending limits,  *)
(* authorizations, and the rider's idempotency keys.  Each handler reads,  *)
(* judges, and then writes in a statement or transaction of its own, so    *)
(* that a request is a step that reads and a step that writes; what it     *)
(* read may have changed in between, and its write may never come.         *)
(*                                                                         *)
(* Amounts keep the one thing the limits depend on: pgx reads a NUMERIC    *)
(* back without its trailing zeros and with an exponent in their place,    *)
(* and exceedsLimit compares only amounts whose exponent is zero.          *)
(*                                                                         *)
(* Abstracted: names, currency, notes; zones, pickup time and place of a   *)
(* ride (its payload hash is told apart by its fare); the month, which is  *)
(* one; is_active of an account and accepted_fare_cents, which no call sets. *)
(***************************************************************************)
EXTENDS Naturals, FiniteSets, Functions

CONSTANTS
  Members,      \* users with role rider
  Founder,      \* the one who creates the account
  Bookings,     \* rides of the instance
  Keys,         \* idempotency keys of each rider
  Fares,        \* suggested_fare_cents a ride may have
  Limits,       \* limits an admin may set, besides none
  NoLimit,      \* the NULL of a limit
  Requests,     \* handler calls that may be past their read at once
  MaxEdits      \* bound: changes of members and limits

NoKey == "no key"

ASSUME BusinessAssumption ==
  /\ Founder \in Members
  /\ Fares \subseteq Nat \ {0} /\ Fares # {} /\ IsFiniteSet(Fares)
  /\ Limits \subseteq Nat /\ NoLimit \notin Nat /\ NoKey \notin Keys
  /\ IsFiniteSet(Bookings) /\ IsFiniteSet(Requests)
  /\ MaxEdits \in Nat

VARIABLES
  account,   \* the row of business_accounts
  member,    \* rows of business_members, role "none" where there is none
  booking,   \* rides of the account, stage "none" before the insert
  verdict,   \* ride_authorizations.status
  request,   \* calls past their read
  ceiling,   \* the highest limit the account has had, NoLimit if it had none
  unchecked, \* a ride was admitted without its amounts being compared
  edits      \* changes of members and limits so far

businessVars == <<account, member, booking, verdict, request, ceiling, unchecked, edits>>

Limit   == Limits \cup {NoLimit}
Role    == {"none", "member", "admin", "owner"}
Verdict == {"none", "pending", "approved", "rejected"}

Book   == [at : {"book"}, by : Members, fare : Fares, key : Keys \cup {NoKey},
           limit : Limit, verdict : {"pending", "approved"}]
Decide == [at : {"decide"}, ride : Bookings, verdict : {"approved", "rejected"}]
Edit   == [at : {"add"}, user : Members, role : Role \ {"none"}, limit : Limit]
          \cup [at : {"update"}, user : Members, limit : Limit, active : BOOLEAN]
          \cup [at : {"limits"}, limit : Limit, approval : BOOLEAN]
          \cup [at : {"found"}]
Quiet  == [at |-> "none"]

BusinessTypeOK ==
  /\ account \in [open : BOOLEAN, limit : Limit, approval : BOOLEAN]
  /\ member \in [Members -> [role : Role, limit : Limit, active : BOOLEAN]]
  /\ booking \in [Bookings -> [stage : {"none", "live", "cancelled"}, by : Members,
                               fare : Fares, key : Keys \cup {NoKey}]]
  /\ verdict \in [Bookings -> Verdict]
  /\ request \in [Requests -> Book \cup Decide \cup Edit \cup {Quiet}]
  /\ ceiling \in Limit \cup {0}
  /\ unchecked \in BOOLEAN
  /\ edits \in 0..MaxEdits

InitBusiness ==
  /\ account = [open |-> FALSE, limit |-> NoLimit, approval |-> FALSE]
  /\ member = [u \in Members |-> [role |-> "none", limit |-> NoLimit, active |-> TRUE]]
  /\ booking = [b \in Bookings |-> [stage |-> "none", by |-> Founder,
                                    fare |-> CHOOSE f \in Fares : TRUE, key |-> NoKey]]
  /\ verdict = [b \in Bookings |-> "none"]
  /\ request = [c \in Requests |-> Quiet]
  /\ ceiling = 0 /\ unchecked = FALSE /\ edits = 0

-----------------------------------------------------------------------------
\* pgx gives a NUMERIC the exponent 0 exactly when it has no trailing zero.
Plain(n) == n = 0 \/ n % 10 # 0

\* A limit that is reached is taken for one that is not.
MutExceedsLimit(used, requested, limit) ==
  limit # NoLimit /\ Plain(limit) /\ Plain(used) /\ used > limit

ExceedsLimit(used, requested, limit) ==
  limit # NoLimit /\ Plain(limit) /\ Plain(used) /\ used + requested > limit

\* All rides of the account but cancelled and rejected ones.
MonthlyUsage ==
  LET counted == {b \in Bookings : booking[b].stage = "live" /\ verdict[b] # "rejected"}
  IN  SumFunction([b \in counted |-> booking[b].fare])

GetBusinessAccount   == account.open
GetBusinessMember(u) == member[u].role # "none"

CanAccess(u) == GetBusinessAccount /\ GetBusinessMember(u) /\ member[u].active

\* The founder needs a membership too, but not a role.
CanManage(u) == CanAccess(u) /\ (u = Founder \/ member[u].role \in {"owner", "admin"})

Pend(c, r) == request[c] = Quiet /\ request' = [request EXCEPT ![c] = r]
Done(c)    == request' = [request EXCEPT ![c] = Quiet]

-----------------------------------------------------------------------------
(* The account and its members.                                            *)

Raised(limit) == IF NoLimit \in {limit, ceiling} THEN NoLimit
                 ELSE IF limit > ceiling THEN limit ELSE ceiling

CreateBusinessAccount(limit, approval) ==
  /\ ~account.open
  /\ account' = [open |-> TRUE, limit |-> limit, approval |-> approval]

CreateAccount(c, limit, approval) ==
  /\ CreateBusinessAccount(limit, approval)
  /\ ceiling' = Raised(limit)
  /\ Pend(c, [at |-> "found"])
  /\ UNCHANGED <<member, booking, verdict, unchecked, edits>>

BeginEdit(c, by, edit) ==
  /\ CanManage(by)
  /\ edits < MaxEdits /\ edits' = edits + 1
  /\ Pend(c, edit)
  /\ UNCHANGED <<account, member, booking, verdict, ceiling, unchecked>>

AddMember(c, by)    == \E u \in Members, role \in {"member", "admin"}, limit \in Limit :
  BeginEdit(c, by, [at |-> "add", user |-> u, role |-> role, limit |-> limit])
UpdateMember(c, by) == \E u \in Members, limit \in Limit, active \in BOOLEAN :
  BeginEdit(c, by, [at |-> "update", user |-> u, limit |-> limit, active |-> active])
UpdateLimits(c, by) == \E limit \in Limit, approval \in BOOLEAN :
  BeginEdit(c, by, [at |-> "limits", limit |-> limit, approval |-> approval])

\* The founder's row, or an upsert that also brings a suspended member back.
CreateBusinessMember(c) ==
  /\ request[c].at \in {"found", "add"}
  /\ member' = IF request[c].at = "found"
               THEN [member EXCEPT ![Founder] = [role |-> "owner", limit |-> NoLimit, active |-> TRUE]]
               ELSE [member EXCEPT ![request[c].user] =
                       [role |-> request[c].role, limit |-> request[c].limit, active |-> TRUE]]
  /\ Done(c)
  /\ UNCHANGED <<account, booking, verdict, ceiling, unchecked, edits>>

UpdateBusinessMemberLimit(c) ==
  /\ request[c].at = "update"
  /\ member[request[c].user].role # "none"
  /\ member' = [member EXCEPT ![request[c].user].limit = request[c].limit,
                              ![request[c].user].active = request[c].active]
  /\ Done(c)
  /\ UNCHANGED <<account, booking, verdict, ceiling, unchecked, edits>>

UpdateBusinessAccountLimits(c) ==
  /\ request[c].at = "limits"
  /\ account' = [account EXCEPT !.limit = request[c].limit, !.approval = request[c].approval]
  /\ ceiling' = Raised(request[c].limit)
  /\ Done(c)
  /\ UNCHANGED <<member, booking, verdict, unchecked, edits>>

-----------------------------------------------------------------------------
(* Rides.                                                                  *)

\* A rider's ride under this key.
GetRideByIdempotencyKey(u, k) ==
  {b \in Bookings : booking[b].stage # "none" /\ booking[b].by = u /\ booking[b].key = k /\ k # NoKey}

\* The whole account's usage is held against the member's limit, too.
Refuses(used, fare, u) ==
  ExceedsLimit(used, fare, account.limit) \/ ExceedsLimit(used, fare, member[u].limit)

\* The key is unknown; the limits admit the ride.
Create(c, u, fare, key) ==
  /\ GetRideByIdempotencyKey(u, key) = {}
  /\ CanAccess(u)
  /\ ~Refuses(MonthlyUsage, fare, u)
  /\ Pend(c, [at |-> "book", by |-> u, fare |-> fare, key |-> key, limit |-> account.limit,
              verdict |-> IF account.approval THEN "pending" ELSE "approved"])
  /\ unchecked' = (unchecked \/ (account.limit # NoLimit /\ ~(Plain(account.limit) /\ Plain(MonthlyUsage))))
  /\ UNCHANGED <<account, member, booking, verdict, ceiling, edits>>

CreateRideAuthorization(b, v) == verdict' = [verdict EXCEPT ![b] = v]

\* Ride and authorization in one transaction.  Another call may have stored a
\* ride under the key: its ride is the answer, whatever its details.
CreateRideIdempotent(c) ==
  /\ request[c].at = "book"
  /\ LET r == request[c] IN
       IF GetRideByIdempotencyKey(r.by, r.key) # {} THEN UNCHANGED <<booking, verdict>>
       ELSE \E b \in Bookings :
              /\ booking[b].stage = "none"
              /\ booking' = [booking EXCEPT ![b] =
                   [stage |-> "live", by |-> r.by, fare |-> r.fare, key |-> r.key]]
              /\ CreateRideAuthorization(b, r.verdict)
  /\ Done(c)
  /\ UNCHANGED <<account, member, ceiling, unchecked, edits>>

GetRideAuthorization(b) == verdict[b] # "none"

\* An approval is checked against the usage, which includes the ride.
DecideAuthorization(c, by, b, decision) ==
  /\ GetRideAuthorization(b)
  /\ CanManage(by)
  /\ decision = "approved"
       => GetBusinessMember(booking[b].by) /\ ~Refuses(MonthlyUsage, 0, booking[b].by)
  /\ Pend(c, [at |-> "decide", ride |-> b, verdict |-> decision])
  /\ UNCHANGED <<account, member, booking, verdict, ceiling, unchecked, edits>>

\* WHERE status = 'pending'
Undecided(b) == verdict[b] = "pending"

ApproveRideAuthorization(b) ==
  verdict' = IF Undecided(b) THEN [verdict EXCEPT ![b] = "approved"] ELSE verdict

RejectRideAuthorization(b) ==
  verdict' = IF Undecided(b) THEN [verdict EXCEPT ![b] = "rejected"] ELSE verdict

WriteDecision(c) ==
  /\ request[c].at = "decide"
  /\ IF request[c].verdict = "rejected" THEN RejectRideAuthorization(request[c].ride)
     ELSE ApproveRideAuthorization(request[c].ride)
  /\ Done(c)
  /\ UNCHANGED <<account, member, booking, ceiling, unchecked, edits>>

\* The rides component: its rider, driver or reaper cancels the ride.
CancelBooking(b) ==
  /\ booking[b].stage = "live"
  /\ booking' = [booking EXCEPT ![b].stage = "cancelled"]
  /\ UNCHANGED <<account, member, verdict, request, ceiling, unchecked, edits>>

\* The write fails, or the process stops before it.
DropRequest(c) ==
  /\ request[c] # Quiet /\ Done(c)
  /\ UNCHANGED <<account, member, booking, verdict, ceiling, unchecked, edits>>

NextBusiness ==
  \/ \E b \in Bookings : CancelBooking(b)
  \/ \E c \in Requests :
       \/ \E limit \in Limit, approval \in BOOLEAN : CreateAccount(c, limit, approval)
       \/ \E by \in Members :
            \/ AddMember(c, by) \/ UpdateMember(c, by) \/ UpdateLimits(c, by)
            \/ \E fare \in Fares, key \in Keys \cup {NoKey} : Create(c, by, fare, key)
            \/ \E b \in Bookings, d \in {"approved", "rejected"} : DecideAuthorization(c, by, b, d)
       \/ CreateBusinessMember(c) \/ UpdateBusinessMemberLimit(c) \/ UpdateBusinessAccountLimits(c)
       \/ CreateRideIdempotent(c) \/ WriteDecision(c) \/ DropRequest(c)

SpecBusiness == InitBusiness /\ [][NextBusiness]_businessVars

-----------------------------------------------------------------------------
MostExpensive == CHOOSE f \in Fares : \A g \in Fares : g <= f

Asked == SumFunction([c \in Requests |-> IF request[c].at = "book" THEN request[c].fare ELSE 0])

(* As long as the amounts are compared at all, requests that check the     *)
(* limit at once (rides/handler.go:167-183, business/handler.go:367-378)    *)
(* overrun it by at most one ride for each request but one, however the    *)
(* limit was raised and lowered and rides were cancelled.                  *)
SpendingBounded ==
  ~unchecked /\ ceiling # NoLimit
    => MonthlyUsage + Asked <= ceiling + (Cardinality(Requests) - 1) * MostExpensive
=============================================================================
