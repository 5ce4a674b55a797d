---------------------------- MODULE RideDispatch ----------------------------
(***************************************************************************)
(* A ride from request to end, as the three processes that share one       *)
(* Postgres database move it: the HTTP handlers of internal/rides (with    *)
(* the driver, trip-PIN, KYC and business-approval handlers that touch the *)
(* same rows), the matcher of cmd/matching, the cleanup of cmd/worker and  *)
(* the expiry reaper of cmd/api.                                           *)
(*                                                                         *)
(* A database transaction is one action.  The handlers Arrive, Start,      *)
(* Complete and Cancel first read the ride outside their transaction and   *)
(* judge ownership, the PIN and the cancellation route on that copy; such  *)
(* a call is a record in `call` between its read and its transaction.      *)
(*                                                                         *)
(* Abstracted: coordinates and distances (the matcher may pick any         *)
(* eligible driver, or none when location or availability is too old),     *)
(* fares, event rows, closed offers (no query reads them back).            *)
(***************************************************************************)
EXTENDS Naturals

CONSTANTS
  Rides,            \* the rides of the instance, numbered in order of created_at
  Drivers,          \* users with role driver
  NoDriver,         \* the NULL of rides.driver_id
  Calls,            \* API calls that may be between their read and their transaction
  NilUserExists,    \* does `users` hold the all-zero UUID the reaper signs events with?
  ScheduledRides,   \* rides that may be requested for a later pickup
  BusinessRides,    \* rides billed to a business account
  PinRides,         \* rides whose rider may create a trip PIN
  AgingRides,       \* rides that may outlive DefaultRideExpiryTTL
  ReviewedDrivers   \* drivers whose KYC may be resubmitted or reviewed again

ASSUME RidesAssumption == Rides \subseteq Nat
ASSUME DriversAssumption == NoDriver \notin Drivers
ASSUME NilUserAssumption == NilUserExists \in BOOLEAN
ASSUME BoundsAssumption ==
  /\ ScheduledRides \subseteq Rides /\ BusinessRides \subseteq Rides
  /\ PinRides \subseteq Rides       /\ AgingRides \subseteq Rides
  /\ ReviewedDrivers \subseteq Drivers

VARIABLES
  status,   \* rides.status; "none" before the row exists
  driver,   \* rides.driver_id
  due,      \* rides whose requested_pickup_at is NULL or past
  old,      \* rides created longer than the expiry TTL ago
  authz,    \* ride_authorizations.status, "none" without a row
  pin,      \* trip PIN: "none", "set" (hash stored) or "verified"
  offer,    \* driver of the ride's live ('offered') ride_offers row
  lapsed,   \* rides whose live offer is past expires_at
  avail,    \* "online"; off by the driver's choice ("offline") or the matcher's ("held")
  vetted,   \* drivers whose driver_kyc.status is 'approved'
  call      \* handler calls past their read, before their transaction

vars == <<status, driver, due, old, authz, pin, offer, lapsed, avail, vetted, call>>

rideVars   == <<status, driver>>
clockVars  == <<due, old>>
offerVars  == <<offer, lapsed>>
driverVars == <<avail, vetted>>

Statuses == {"none", "requested", "matched", "driver_arriving", "in_progress",
             "completed", "cancelled"}
Active   == {"matched", "driver_arriving", "in_progress"}
Terminal == {"completed", "cancelled"}

Idle == [op |-> "idle"]
Request == [op : {"arrive", "start", "complete", "driver_cancel", "rider_cancel"},
            ride : Rides, driver : Drivers \cup {NoDriver}, early : BOOLEAN]

TypeOK ==
  /\ status \in [Rides -> Statuses]
  /\ driver \in [Rides -> Drivers \cup {NoDriver}]
  /\ due \subseteq Rides
  /\ old \subseteq Rides
  /\ authz \in [Rides -> {"none", "pending", "approved", "rejected"}]
  /\ pin \in [Rides -> {"none", "set", "verified"}]
  /\ offer \in [Rides -> Drivers \cup {NoDriver}]
  /\ lapsed \subseteq Rides
  /\ avail \in [Drivers -> {"online", "offline", "held"}]
  /\ vetted \subseteq Drivers
  /\ call \in [Calls -> Request \cup {Idle}]

Init ==
  /\ status = [r \in Rides |-> "none"]
  /\ driver = [r \in Rides |-> NoDriver]
  /\ due = {} /\ old = {}
  /\ authz = [r \in Rides |-> "none"]
  /\ pin = [r \in Rides |-> "none"]
  /\ offer = [r \in Rides |-> NoDriver]
  /\ lapsed = {}
  /\ avail = [d \in Drivers |-> "offline"]
  /\ vetted = Drivers
  /\ call = [c \in Calls |-> Idle]

-----------------------------------------------------------------------------
(* Statements of internal/db: a guard and the columns it writes.           *)
(* An operator named Mut... is a variant of the one it stands above, with a *)
(* bug that code could have; no action uses it (see README, mutations).    *)

SetDriverAvailability(S) ==
  avail' = [d \in Drivers |-> IF d \in S THEN "online" ELSE avail[d]]

\* The filter of the open-rides page: only a pending approval holds a ride back.
MutAuthorized(r) == authz[r] # "pending"

Authorized(r) == authz[r] \in {"none", "approved"}

\* The offer row is not marked accepted.
MutAcceptRideOffer(r, d) ==
  /\ offer[r] = d /\ r \notin lapsed
  /\ status[r] = "requested" /\ Authorized(r) /\ r \in due
  /\ driver' = [driver EXCEPT ![r] = d]
  /\ status' = [status EXCEPT ![r] = "matched"]
  /\ UNCHANGED offer

AcceptRideOffer(r, d) ==
  /\ offer[r] = d /\ r \notin lapsed
  /\ status[r] = "requested" /\ driver[r] = NoDriver
  /\ Authorized(r) /\ r \in due
  /\ offer' = [offer EXCEPT ![r] = NoDriver]
  /\ driver' = [driver EXCEPT ![r] = d]
  /\ status' = [status EXCEPT ![r] = "matched"]

DeclineRideOffer(r, d) ==
  IF offer[r] = d
  THEN /\ offer' = [offer EXCEPT ![r] = NoDriver]
       /\ lapsed' = lapsed \ {r}
  ELSE UNCHANGED offerVars

\* A status outside the CHECK of the rides table.
MutMarkDriverArriving(r) ==
  /\ status[r] = "matched" /\ r \in due
  /\ status' = [status EXCEPT ![r] = "arriving"]
  /\ UNCHANGED driver

MarkDriverArriving(r) ==
  /\ status[r] = "matched" /\ r \in due
  /\ status' = [status EXCEPT ![r] = "driver_arriving"]
  /\ UNCHANGED driver

MarkRideInProgress(r) ==
  /\ status[r] = "driver_arriving" /\ r \in due
  /\ status' = [status EXCEPT ![r] = "in_progress"]
  /\ UNCHANGED driver

CompleteRide(r) ==
  /\ status[r] = "in_progress"
  /\ status' = [status EXCEPT ![r] = "completed"]
  /\ UNCHANGED driver

\* No status in the WHERE clause: a finished ride can still be cancelled.
MutCancelRide(r) ==
  /\ status' = [status EXCEPT ![r] = "cancelled"]
  /\ UNCHANGED driver

CancelRide(r) ==
  /\ status[r] \in Active \cup {"requested"}
  /\ status' = [status EXCEPT ![r] = "cancelled"]
  /\ UNCHANGED driver

\* The status list of CancelRide, which includes in_progress.
MutCancelRideByRider(r) == CancelRide(r)

CancelRideByRider(r) ==
  /\ status[r] \in {"requested", "matched", "driver_arriving"}
  /\ status' = [status EXCEPT ![r] = "cancelled"]
  /\ UNCHANGED driver

MarkRideNoShow(r, d) ==
  /\ driver[r] = d /\ status[r] = "driver_arriving"
  /\ status' = [status EXCEPT ![r] = "cancelled"]
  /\ UNCHANGED driver

Reassignable(r, d) == driver[r] = d /\ status[r] \in {"matched", "driver_arriving"}

\* driver_id is kept.
MutReassignRideToRequested(r, d) ==
  /\ Reassignable(r, d)
  /\ status' = [status EXCEPT ![r] = "requested"]
  /\ UNCHANGED driver

ReassignRideToRequested(r, d) ==
  /\ Reassignable(r, d)
  /\ status' = [status EXCEPT ![r] = "requested"]
  /\ driver' = [driver EXCEPT ![r] = NoDriver]

\* A ride that is on offer is left for the next sweep.
MutExpireStaleRequestedRides(S) ==
  /\ status' = [r \in Rides |-> IF r \in S /\ offer[r] = NoDriver
                                THEN "cancelled" ELSE status[r]]
  /\ UNCHANGED driver

ExpireStaleRequestedRides(S) ==
  /\ status' = [r \in Rides |-> IF r \in S THEN "cancelled" ELSE status[r]]
  /\ UNCHANGED driver

-----------------------------------------------------------------------------
(* Handlers whose work is one transaction or one statement.                *)

Create(r) ==
  /\ status[r] = "none"
  /\ \A x \in Rides : x < r => status[x] # "none"
  /\ status' = [status EXCEPT ![r] = "requested"]
  /\ IF r \in ScheduledRides THEN due' \in {due, due \cup {r}} ELSE due' = due \cup {r}
  /\ \E a \in IF r \in BusinessRides THEN {"pending", "approved"} ELSE {"none"} :
       authz' = [authz EXCEPT ![r] = a]
  /\ UNCHANGED <<driver, old, pin, offerVars, driverVars, call>>

Accept(r, d) ==
  /\ AcceptRideOffer(r, d)
  /\ UNCHANGED <<clockVars, authz, pin, lapsed, driverVars, call>>

\* The statement may touch no offer; the driver goes online all the same.
Decline(r, d) ==
  /\ status[r] # "none"
  /\ DeclineRideOffer(r, d)
  /\ SetDriverAvailability({d})
  /\ UNCHANGED <<rideVars, clockVars, authz, pin, vetted, call>>

NoShow(r, d) ==
  /\ MarkRideNoShow(r, d)
  /\ SetDriverAvailability({d})
  /\ UNCHANGED <<clockVars, authz, pin, offerVars, vetted, call>>

\* The KYC read and the write are one action: a review between them commutes
\* with the write, the matcher reading driver_kyc itself.
SetAvailability(d, online) ==
  /\ online => d \in vetted
  /\ avail' = [avail EXCEPT ![d] = IF online THEN "online" ELSE "offline"]
  /\ UNCHANGED <<rideVars, clockVars, authz, pin, offerVars, vetted, call>>

\* A new hash leaves trip_pin_verified as it is.
CreatePIN(r) ==
  /\ r \in PinRides /\ status[r] # "none"
  /\ pin[r] = "none"
  /\ pin' = [pin EXCEPT ![r] = "set"]
  /\ UNCHANGED <<rideVars, clockVars, authz, offerVars, driverVars, call>>

\* What the handler reads first the UPDATE checks again, or never changes back.
VerifyPIN(r, d) ==
  /\ driver[r] = d /\ pin[r] = "set"
  /\ pin' = [pin EXCEPT ![r] = "verified"]
  /\ UNCHANGED <<rideVars, clockVars, authz, offerVars, driverVars, call>>

SubmitKYC(d) ==
  /\ d \in ReviewedDrivers
  /\ vetted' = vetted \ {d}
  /\ UNCHANGED <<rideVars, clockVars, authz, pin, offerVars, avail, call>>

ReviewKYC(d) ==
  /\ d \in ReviewedDrivers
  /\ vetted' \in {vetted \cup {d}, vetted \ {d}}
  /\ UNCHANGED <<rideVars, clockVars, authz, pin, offerVars, avail, call>>

DecideAuthorization(r, decision) ==
  /\ authz[r] = "pending"
  /\ authz' = [authz EXCEPT ![r] = decision]
  /\ UNCHANGED <<rideVars, clockVars, pin, offerVars, driverVars, call>>

-----------------------------------------------------------------------------
(* Handlers that read the ride first: the read, then the transaction.      *)

Pend(c, op, r, d, early) ==
  /\ call[c] = Idle
  /\ status[r] # "none"
  /\ call' = [call EXCEPT ![c] = [op |-> op, ride |-> r, driver |-> d, early |-> early]]
  /\ UNCHANGED <<rideVars, clockVars, authz, pin, offerVars, driverVars>>

ReadForTransition(c, op, r, d) ==
  /\ driver[r] = d
  /\ op = "start" => pin[r] # "set"
  /\ Pend(c, op, r, d, FALSE)

ReadForDriverCancel(c, r, d) ==
  /\ driver[r] = d
  /\ Pend(c, "driver_cancel", r, d, status[r] \in {"matched", "driver_arriving"})

ReadForRiderCancel(c, r) ==
  Pend(c, "rider_cancel", r, driver[r], FALSE)

Respond(c, op) ==
  /\ call[c].op = op
  /\ call' = [call EXCEPT ![c] = Idle]

Arrive(c) ==
  /\ Respond(c, "arrive")
  /\ MarkDriverArriving(call[c].ride)
  /\ UNCHANGED <<clockVars, authz, pin, offerVars, driverVars>>

Start(c) ==
  /\ Respond(c, "start")
  /\ MarkRideInProgress(call[c].ride)
  /\ UNCHANGED <<clockVars, authz, pin, offerVars, driverVars>>

Complete(c) ==
  /\ Respond(c, "complete")
  /\ CompleteRide(call[c].ride)
  /\ SetDriverAvailability({call[c].driver})
  /\ UNCHANGED <<clockVars, authz, pin, offerVars, vetted>>

\* The early route: the ride goes back to the pool, availability untouched.
CancelReassigns(c) ==
  /\ Respond(c, "driver_cancel")
  /\ call[c].early
  /\ ReassignRideToRequested(call[c].ride, call[c].driver)
  /\ UNCHANGED <<clockVars, authz, pin, offerVars, driverVars>>

\* The other route, and the fallback when the early one matched no row.
CancelByDriver(c) ==
  /\ Respond(c, "driver_cancel")
  /\ ~(call[c].early /\ Reassignable(call[c].ride, call[c].driver))
  /\ CancelRide(call[c].ride)
  /\ SetDriverAvailability({call[c].driver})
  /\ UNCHANGED <<clockVars, authz, pin, offerVars, vetted>>

\* Frees the driver the read saw, who need not be the one assigned by now.
CancelByRider(c) ==
  /\ Respond(c, "rider_cancel")
  /\ CancelRideByRider(call[c].ride)
  /\ SetDriverAvailability({call[c].driver})
  /\ UNCHANGED <<clockVars, authz, pin, offerVars, vetted>>

\* 409 because a guard no longer holds, a lost client, a crash: rolled back.
RollBack(c) ==
  /\ call[c] # Idle
  /\ call' = [call EXCEPT ![c] = Idle]
  /\ UNCHANGED <<rideVars, clockVars, authz, pin, offerVars, driverVars>>

-----------------------------------------------------------------------------
(* Background jobs.                                                        *)

\* Rows a call may hold locked at this moment; SKIP LOCKED passes them over.
Lockable == {call[c].ride : c \in {x \in Calls : call[x] # Idle}}

\* Closing the offers of the rides S releases the drivers they went to.
Released(S) == {offer[r] : r \in S}
\* Offers of cancelled rides are forgotten.
MutLapsedOffers == {r \in lapsed : offer[r] # NoDriver /\ status[r] = "requested"}

LapsedOffers == {r \in lapsed : offer[r] # NoDriver}

OpenRide(r) == status[r] = "requested" /\ driver[r] = NoDriver /\ r \in due

\* Every return before tx.Commit (no open ride, no eligible driver, a live
\* offer already on the oldest ride) undoes the expiry too: no step.
matchOne(locked, r, d) ==
  /\ OpenRide(r) /\ r \notin locked
  /\ \A x \in Rides \ locked : OpenRide(x) => r <= x
  /\ d \in vetted
  /\ avail[d] = "online" \/ d \in Released(LapsedOffers)
  /\ offer[r] = NoDriver \/ r \in LapsedOffers
  /\ offer' = [x \in Rides |-> IF x = r THEN d
                               ELSE IF x \in LapsedOffers THEN NoDriver ELSE offer[x]]
  /\ lapsed' = lapsed \ LapsedOffers
  /\ avail' = [x \in Drivers |-> IF x = d THEN "held"
                                 ELSE IF x \in Released(LapsedOffers) THEN "online"
                                 ELSE avail[x]]
  /\ UNCHANGED <<rideVars, clockVars, authz, pin, vetted, call>>

\* The worker closes the offers but leaves availability to the matcher.
Mutcleanup ==
  /\ LapsedOffers # {}
  /\ offer' = [x \in Rides |-> IF x \in LapsedOffers THEN NoDriver ELSE offer[x]]
  /\ lapsed' = lapsed \ LapsedOffers
  /\ UNCHANGED <<rideVars, clockVars, authz, pin, driverVars, call>>

cleanup ==
  /\ LapsedOffers # {}
  /\ offer' = [x \in Rides |-> IF x \in LapsedOffers THEN NoDriver ELSE offer[x]]
  /\ lapsed' = lapsed \ LapsedOffers
  /\ SetDriverAvailability(Released(LapsedOffers))
  /\ UNCHANGED <<rideVars, clockVars, authz, pin, vetted, call>>

Stale(r) == status[r] = "requested" /\ driver[r] = NoDriver /\ r \in old

\* ride_events.created_by references users(id): signed with uuid.Nil, the
\* event insert fails without such a user and the whole batch rolls back.
ExpireStaleRides(locked) ==
  /\ \E r \in Rides \ locked : Stale(r)
  /\ IF NilUserExists
     THEN ExpireStaleRequestedRides({r \in Rides \ locked : Stale(r)})
     ELSE UNCHANGED rideVars
  /\ UNCHANGED <<clockVars, authz, pin, offerVars, driverVars, call>>

-----------------------------------------------------------------------------
(* Time.                                                                   *)

PickupTimeReached(r) ==
  /\ status[r] # "none" /\ r \notin due
  /\ due' = due \cup {r}
  /\ UNCHANGED <<rideVars, old, authz, pin, offerVars, driverVars, call>>

RideAges(r) ==
  /\ r \in AgingRides \ old /\ status[r] # "none"
  /\ old' = old \cup {r}
  /\ UNCHANGED <<rideVars, due, authz, pin, offerVars, driverVars, call>>

OfferLapses(r) ==
  /\ offer[r] # NoDriver /\ r \notin lapsed
  /\ lapsed' = lapsed \cup {r}
  /\ UNCHANGED <<rideVars, clockVars, authz, pin, offer, driverVars, call>>

-----------------------------------------------------------------------------
RideStep(r) ==
  \/ Create(r)
  \/ CreatePIN(r)
  \/ \E decision \in {"approved", "rejected"} : DecideAuthorization(r, decision)
  \/ PickupTimeReached(r)
  \/ RideAges(r)
  \/ OfferLapses(r)

DriverStep(r, d) ==
  \/ Accept(r, d)
  \/ Decline(r, d)
  \/ NoShow(r, d)
  \/ VerifyPIN(r, d)
  \/ \E locked \in SUBSET Lockable : matchOne(locked, r, d)

ProfileStep(d) ==
  \/ \E online \in BOOLEAN : SetAvailability(d, online)
  \/ SubmitKYC(d)
  \/ ReviewKYC(d)

ReadStep(c) ==
  \E r \in Rides :
    \/ ReadForRiderCancel(c, r)
    \/ \E d \in Drivers :
         \/ \E op \in {"arrive", "start", "complete"} : ReadForTransition(c, op, r, d)
         \/ ReadForDriverCancel(c, r, d)

CommitStep(c) ==
  \/ Arrive(c)
  \/ Start(c)
  \/ Complete(c)
  \/ CancelReassigns(c)
  \/ CancelByDriver(c)
  \/ CancelByRider(c)
  \/ RollBack(c)

Next ==
  \/ \E r \in Rides : RideStep(r)
  \/ \E r \in Rides, d \in Drivers : DriverStep(r, d)
  \/ \E d \in Drivers : ProfileStep(d)
  \/ \E c \in Calls : ReadStep(c) \/ CommitStep(c)
  \/ cleanup
  \/ \E locked \in SUBSET Lockable : ExpireStaleRides(locked)

Spec == Init /\ [][Next]_vars

\* What the schedules guarantee: an offer's 15 seconds pass, cmd/worker's ticker
\* runs cleanup, and the reaper's ticker runs a sweep that meets no locked row
\* (locks last for one transaction).  Riders, drivers and admins promise nothing.
Fairness ==
  /\ \A r \in Rides : WF_vars(OfferLapses(r))
  /\ WF_vars(cleanup)
  /\ WF_vars(ExpireStaleRides({}))

FairSpec == Spec /\ Fairness

-----------------------------------------------------------------------------
(* Properties.                                                             *)

\* A ride names a driver exactly from its match on: a ride in the pool is free
\* for the next match, an assigned one never loses its driver to a stale call.
DriverIffAssigned ==
  \A r \in Rides :
    /\ status[r] \in {"none", "requested"} => driver[r] = NoDriver
    /\ status[r] \in Active \cup {"completed"} => driver[r] # NoDriver

\* No ride that has a driver is still on offer to another: a live offer belongs
\* to a ride in the pool, or to a cancelled one whose offer waits to expire.
OfferOnlyWhileUnassigned ==
  \A r \in Rides : offer[r] # NoDriver => status[r] \in {"requested", "cancelled"}

\* A business ride that nobody approved, or a scheduled one before its time,
\* never gets a driver, whatever the approver decides while offers are out.
OnlyApprovedAndDueRidesRun ==
  \A r \in Rides :
    driver[r] # NoDriver => authz[r] \in {"none", "approved"} /\ r \in due

\* The rider of a trip under way cannot cancel it with a call that read the
\* ride before the start: only a driver's cancel takes in_progress to cancelled.
RiderCannotCancelTrip ==
  [][\A r \in Rides :
       status[r] = "in_progress" /\ status'[r] = "cancelled"
         => \E c \in Calls : /\ call[c] # Idle /\ call'[c] = Idle
                             /\ call[c].op = "driver_cancel" /\ call[c].ride = r]_vars

OnOffer(d)  == \E r \in Rides : offer[r] = d
OnTrip(d)   == \E r \in Rides : driver[r] = d /\ status[r] \in Active

\* When the last offer to a driver ends without a match, by a decline, by the
\* matcher or by the worker, the matcher's hold on the driver ends with it.
OfferEndReleasesDriver ==
  [][\A d \in Drivers :
       OnOffer(d) /\ ~OnOffer(d)' /\ ~OnTrip(d)' => avail'[d] # "held"]_vars

L == INSTANCE RideLifecycle

\* Offers, stale calls and background jobs never take a ride along an edge, or
\* give it a driver, that the ride's life cycle does not have.
Lifecycle == L!Spec

\* A lapsed offer does not stay: the worker closes it even when every matcher
\* cycle rolls its own expiry back.
LapsedOfferCloses == \A r \in Rides : r \in lapsed ~> r \notin lapsed

\* A request nobody accepted within the TTL leaves the pool (expiry.go:1-3).
StaleRequestLeavesPool == \A r \in Rides : Stale(r) ~> ~Stale(r)
=============================================================================
