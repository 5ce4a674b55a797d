------------------------- MODULE RideDispatchProofs -------------------------
(***************************************************************************)
(* Proofs about RideDispatch, for every number of rides, drivers and calls *)
(* and every choice of the other constants.                                *)
(***************************************************************************)
EXTENDS RideDispatch, TLAPS

-----------------------------------------------------------------------------
(* Type correctness.                                                       *)

LEMMA InitTypeOK == Init => TypeOK
  BY DriversAssumption DEF Init, TypeOK, Statuses, Idle

LEMMA CallIsRequest ==
  ASSUME TypeOK, NEW c \in Calls, call[c] # Idle
  PROVE  call[c] \in Request
  BY DEF TypeOK

LEMMA RideStepTypeOK ==
  ASSUME TypeOK, NEW r \in Rides, RideStep(r)
  PROVE  TypeOK'
<1>1. CASE Create(r)
  <2>1. due' \subseteq Rides
    BY <1>1 DEF TypeOK, Create
  <2>2. authz' \in [Rides -> {"none", "pending", "approved", "rejected"}]
    BY <1>1 DEF TypeOK, Create
  <2>3. status' \in [Rides -> Statuses]
    BY <1>1 DEF TypeOK, Create, Statuses
  <2> QED  BY <1>1, <2>1, <2>2, <2>3 DEF TypeOK, Create, offerVars, driverVars
<1>2. CASE CreatePIN(r)
  BY <1>2 DEF TypeOK, CreatePIN, rideVars, clockVars, offerVars, driverVars
<1>3. CASE \E decision \in {"approved", "rejected"} : DecideAuthorization(r, decision)
  BY <1>3 DEF TypeOK, DecideAuthorization, rideVars, clockVars, offerVars, driverVars
<1>4. CASE PickupTimeReached(r)
  BY <1>4 DEF TypeOK, PickupTimeReached, rideVars, offerVars, driverVars
<1>5. CASE RideAges(r)
  BY <1>5 DEF TypeOK, RideAges, rideVars, offerVars, driverVars
<1>6. CASE OfferLapses(r)
  BY <1>6 DEF TypeOK, OfferLapses, rideVars, clockVars, driverVars
<1> QED  BY <1>1, <1>2, <1>3, <1>4, <1>5, <1>6 DEF RideStep

LEMMA DriverStepTypeOK ==
  ASSUME TypeOK, NEW r \in Rides, NEW d \in Drivers, DriverStep(r, d)
  PROVE  TypeOK'
<1>1. CASE Accept(r, d)
  BY <1>1 DEF TypeOK, Statuses, Accept, AcceptRideOffer, clockVars, driverVars
<1>2. CASE Decline(r, d)
  BY <1>2 DEF TypeOK, Decline, DeclineRideOffer, SetDriverAvailability,
              rideVars, clockVars, offerVars
<1>3. CASE NoShow(r, d)
  BY <1>3 DEF TypeOK, Statuses, NoShow, MarkRideNoShow, SetDriverAvailability,
              clockVars, offerVars
<1>4. CASE VerifyPIN(r, d)
  BY <1>4 DEF TypeOK, VerifyPIN, rideVars, clockVars, offerVars, driverVars
<1>5. CASE \E locked \in SUBSET Lockable : matchOne(locked, r, d)
  <2>1. /\ offer' \in [Rides -> Drivers \cup {NoDriver}]
        /\ lapsed' \subseteq Rides
        /\ avail' \in [Drivers -> {"online", "offline", "held"}]
    BY <1>5 DEF TypeOK, matchOne
  <2> QED  BY <1>5, <2>1 DEF TypeOK, matchOne, rideVars, clockVars
<1> QED  BY <1>1, <1>2, <1>3, <1>4, <1>5 DEF DriverStep

LEMMA ProfileStepTypeOK ==
  ASSUME TypeOK, NEW d \in Drivers, ProfileStep(d)
  PROVE  TypeOK'
<1>1. CASE \E online \in BOOLEAN : SetAvailability(d, online)
  BY <1>1 DEF TypeOK, SetAvailability, rideVars, clockVars, offerVars
<1>2. CASE SubmitKYC(d)
  BY <1>2 DEF TypeOK, SubmitKYC, rideVars, clockVars, offerVars
<1>3. CASE ReviewKYC(d)
  BY <1>3 DEF TypeOK, ReviewKYC, rideVars, clockVars, offerVars
<1> QED  BY <1>1, <1>2, <1>3 DEF ProfileStep

LEMMA PendTypeOK ==
  ASSUME TypeOK, NEW c \in Calls, NEW q \in Request,
         call' = [call EXCEPT ![c] = q],
         UNCHANGED <<rideVars, clockVars, authz, pin, offerVars, driverVars>>
  PROVE  TypeOK'
<1>1. call' \in [Calls -> Request \cup {Idle}]
  BY DEF TypeOK
<1> QED  BY <1>1 DEF TypeOK, rideVars, clockVars, offerVars, driverVars

LEMMA ReadStepTypeOK ==
  ASSUME TypeOK, NEW c \in Calls, ReadStep(c)
  PROVE  TypeOK'
<1>1. PICK r \in Rides :
        \/ ReadForRiderCancel(c, r)
        \/ \E d \in Drivers :
             \/ \E op \in {"arrive", "start", "complete"} : ReadForTransition(c, op, r, d)
             \/ ReadForDriverCancel(c, r, d)
  BY DEF ReadStep
<1>2. CASE ReadForRiderCancel(c, r)
  <2>1. [op |-> "rider_cancel", ride |-> r, driver |-> driver[r], early |-> FALSE] \in Request
    BY DEF TypeOK, Request
  <2>2. PICK q \in Request : call' = [call EXCEPT ![c] = q]
    BY <1>2, <2>1 DEF ReadForRiderCancel, Pend
  <2> QED  BY <1>2, <2>2, PendTypeOK DEF ReadForRiderCancel, Pend
<1>3. ASSUME NEW d \in Drivers, NEW op \in {"arrive", "start", "complete"},
             ReadForTransition(c, op, r, d)
      PROVE  TypeOK'
  <2>1. [op |-> op, ride |-> r, driver |-> d, early |-> FALSE] \in Request
    BY DEF Request
  <2>2. PICK q \in Request : call' = [call EXCEPT ![c] = q]
    BY <1>3, <2>1 DEF ReadForTransition, Pend
  <2> QED  BY <1>3, <2>2, PendTypeOK DEF ReadForTransition, Pend
<1>4. ASSUME NEW d \in Drivers, ReadForDriverCancel(c, r, d)
      PROVE  TypeOK'
  <2>1. [op |-> "driver_cancel", ride |-> r, driver |-> d,
         early |-> status[r] \in {"matched", "driver_arriving"}] \in Request
    BY DEF Request
  <2>2. PICK q \in Request : call' = [call EXCEPT ![c] = q]
    BY <1>4, <2>1 DEF ReadForDriverCancel, Pend
  <2> QED  BY <1>4, <2>2, PendTypeOK DEF ReadForDriverCancel, Pend
<1> QED  BY <1>1, <1>2, <1>3, <1>4

LEMMA CommitStepTypeOK ==
  ASSUME TypeOK, NEW c \in Calls, CommitStep(c)
  PROVE  TypeOK'
<1> USE DEF Respond, Idle, rideVars, clockVars, offerVars, driverVars
<1>1. CASE Arrive(c)
  BY <1>1, CallIsRequest DEF TypeOK, Statuses, Request, Arrive, MarkDriverArriving
<1>2. CASE Start(c)
  BY <1>2, CallIsRequest DEF TypeOK, Statuses, Request, Start, MarkRideInProgress
<1>3. CASE Complete(c)
  BY <1>3, CallIsRequest DEF TypeOK, Statuses, Request, Complete, CompleteRide,
                             SetDriverAvailability
<1>4. CASE CancelReassigns(c)
  BY <1>4, CallIsRequest DEF TypeOK, Statuses, Request, CancelReassigns,
                             ReassignRideToRequested, Reassignable
<1>5. CASE CancelByDriver(c)
  BY <1>5, CallIsRequest DEF TypeOK, Statuses, Request, CancelByDriver, CancelRide,
                             SetDriverAvailability
<1>6. CASE CancelByRider(c)
  BY <1>6, CallIsRequest DEF TypeOK, Statuses, Request, CancelByRider, CancelRideByRider,
                             SetDriverAvailability
<1>7. CASE RollBack(c)
  BY <1>7 DEF TypeOK, RollBack
<1> QED  BY <1>1, <1>2, <1>3, <1>4, <1>5, <1>6, <1>7 DEF CommitStep

LEMMA JobsTypeOK ==
  ASSUME TypeOK, cleanup \/ \E locked \in SUBSET Lockable : ExpireStaleRides(locked)
  PROVE  TypeOK'
<1>1. CASE cleanup
  BY <1>1 DEF TypeOK, cleanup, SetDriverAvailability, rideVars, clockVars
<1>2. CASE \E locked \in SUBSET Lockable : ExpireStaleRides(locked)
  BY <1>2 DEF TypeOK, Statuses, ExpireStaleRides, ExpireStaleRequestedRides,
              rideVars, clockVars, offerVars, driverVars
<1> QED  BY <1>1, <1>2

LEMMA NextTypeOK ==
  ASSUME TypeOK, [Next]_vars
  PROVE  TypeOK'
<1>1. CASE UNCHANGED vars
  BY <1>1 DEF TypeOK, vars
<1>2. CASE Next
  BY <1>2, RideStepTypeOK, DriverStepTypeOK, ProfileStepTypeOK, ReadStepTypeOK,
     CommitStepTypeOK, JobsTypeOK DEF Next
<1> QED  BY <1>1, <1>2

\* Every column and every in-flight call only ever hold values of their type,
\* whichever handlers, matchers and jobs interleave.
THEOREM TypeCorrect == Spec => []TypeOK
  BY InitTypeOK, NextTypeOK, PTL DEF Spec

-----------------------------------------------------------------------------
(* Safety.  DriverIffAssigned and OfferOnlyWhileUnassigned are inductive on *)
(* their own; OnlyApprovedAndDueRidesRun leans on DriverIffAssigned, which *)
(* says that Create writes the approval and the pickup time of a ride that *)
(* has no driver yet.                                                      *)

IInv ==
  /\ TypeOK
  /\ DriverIffAssigned
  /\ OfferOnlyWhileUnassigned
  /\ OnlyApprovedAndDueRidesRun

safetyVars == <<status, driver, due, authz, offer>>

LEMMA InitIInv == Init => IInv
  BY InitTypeOK DEF Init, IInv, DriverIffAssigned, OfferOnlyWhileUnassigned,
                    OnlyApprovedAndDueRidesRun, Active

\* Steps that touch PINs, availability, KYC or calls only.
LEMMA FrameIInv ==
  ASSUME IInv, TypeOK', UNCHANGED safetyVars
  PROVE  IInv'
  BY DEF IInv, safetyVars, DriverIffAssigned, OfferOnlyWhileUnassigned,
         OnlyApprovedAndDueRidesRun, Authorized

LEMMA RideStepIInv ==
  ASSUME IInv, TypeOK', NEW r \in Rides, RideStep(r)
  PROVE  IInv'
<1> USE DEF IInv
<1>1. CASE Create(r)
  <2>1. /\ driver[r] = NoDriver /\ UNCHANGED <<driver, offer>> /\ status[r] = "none"
        /\ status' = [status EXCEPT ![r] = "requested"]
        /\ due \subseteq due'
        /\ \A x \in Rides \ {r} : authz'[x] = authz[x]
    BY <1>1 DEF Create, TypeOK, DriverIffAssigned, offerVars
  <2>2. DriverIffAssigned'
    BY <2>1 DEF TypeOK, DriverIffAssigned, Active
  <2>3. OfferOnlyWhileUnassigned'
    BY <2>1 DEF TypeOK, OfferOnlyWhileUnassigned
  <2>4. OnlyApprovedAndDueRidesRun'
    BY <2>1 DEF TypeOK, OnlyApprovedAndDueRidesRun, Authorized
  <2> QED  BY <2>2, <2>3, <2>4
<1>2. CASE CreatePIN(r)
  BY <1>2, FrameIInv DEF CreatePIN, safetyVars, rideVars, clockVars, offerVars
<1>3. CASE \E decision \in {"approved", "rejected"} : DecideAuthorization(r, decision)
  <2>1. /\ authz[r] = "pending" /\ UNCHANGED <<status, driver, due, offer>>
        /\ \A x \in Rides \ {r} : authz'[x] = authz[x]
    BY <1>3 DEF DecideAuthorization, TypeOK, rideVars, clockVars, offerVars
  <2>2. driver[r] = NoDriver
    BY <2>1 DEF OnlyApprovedAndDueRidesRun, Authorized
  <2> QED  BY <2>1, <2>2 DEF DriverIffAssigned, OfferOnlyWhileUnassigned,
                             OnlyApprovedAndDueRidesRun, Authorized
<1>4. CASE PickupTimeReached(r)
  BY <1>4 DEF PickupTimeReached, rideVars, offerVars, DriverIffAssigned,
              OfferOnlyWhileUnassigned, OnlyApprovedAndDueRidesRun, Authorized
<1>5. CASE RideAges(r)
  BY <1>5, FrameIInv DEF RideAges, safetyVars, rideVars, offerVars
<1>6. CASE OfferLapses(r)
  BY <1>6, FrameIInv DEF OfferLapses, safetyVars, rideVars, clockVars
<1> QED  BY <1>1, <1>2, <1>3, <1>4, <1>5, <1>6 DEF RideStep

LEMMA DriverStepIInv ==
  ASSUME IInv, TypeOK', NEW r \in Rides, NEW d \in Drivers, DriverStep(r, d)
  PROVE  IInv'
<1> USE DriversAssumption DEF IInv, TypeOK, DriverIffAssigned, OfferOnlyWhileUnassigned,
        OnlyApprovedAndDueRidesRun, Authorized, Active, rideVars, clockVars, offerVars
<1>1. CASE Accept(r, d)
  BY <1>1 DEF Accept, AcceptRideOffer
<1>2. CASE Decline(r, d)
  BY <1>2 DEF Decline, DeclineRideOffer
<1>3. CASE NoShow(r, d)
  BY <1>3 DEF NoShow, MarkRideNoShow
<1>4. CASE VerifyPIN(r, d)
  BY <1>4 DEF VerifyPIN
<1>5. CASE \E locked \in SUBSET Lockable : matchOne(locked, r, d)
  <2>1. /\ UNCHANGED <<status, driver, due, authz>> /\ status[r] = "requested"
        /\ \A x \in Rides \ {r} : offer'[x] \in {NoDriver, offer[x]}
    BY <1>5 DEF matchOne, OpenRide
  <2> QED  BY <2>1
<1> QED  BY <1>1, <1>2, <1>3, <1>4, <1>5 DEF DriverStep

LEMMA CommitStepIInv ==
  ASSUME IInv, TypeOK', NEW c \in Calls, CommitStep(c)
  PROVE  IInv'
<1> USE CallIsRequest DEF IInv, TypeOK, DriverIffAssigned, OfferOnlyWhileUnassigned,
        OnlyApprovedAndDueRidesRun, Authorized, Active, rideVars, clockVars, offerVars,
        Respond, Request, Idle
<1>1. CASE Arrive(c)
  BY <1>1 DEF Arrive, MarkDriverArriving
<1>2. CASE Start(c)
  BY <1>2 DEF Start, MarkRideInProgress
<1>3. CASE Complete(c)
  BY <1>3 DEF Complete, CompleteRide
<1>4. CASE CancelReassigns(c)
  BY <1>4 DEF CancelReassigns, ReassignRideToRequested, Reassignable
<1>5. CASE CancelByDriver(c)
  BY <1>5 DEF CancelByDriver, CancelRide
<1>6. CASE CancelByRider(c)
  BY <1>6 DEF CancelByRider, CancelRideByRider
<1>7. CASE RollBack(c)
  BY <1>7 DEF RollBack
<1> QED  BY <1>1, <1>2, <1>3, <1>4, <1>5, <1>6, <1>7 DEF CommitStep

LEMMA JobsIInv ==
  ASSUME IInv, TypeOK', cleanup \/ \E locked \in SUBSET Lockable : ExpireStaleRides(locked)
  PROVE  IInv'
<1> USE DEF IInv, TypeOK, DriverIffAssigned, OfferOnlyWhileUnassigned,
        OnlyApprovedAndDueRidesRun, Authorized, Active, rideVars, clockVars, offerVars
<1>1. CASE cleanup
  BY <1>1 DEF cleanup
<1>2. CASE \E locked \in SUBSET Lockable : ExpireStaleRides(locked)
  <2>1. /\ UNCHANGED <<driver, due, authz, offer>>
        /\ \A x \in Rides : \/ status'[x] = status[x]
                            \/ status[x] = "requested" /\ status'[x] = "cancelled"
    BY <1>2 DEF ExpireStaleRides, ExpireStaleRequestedRides, Stale
  <2> QED  BY <2>1
<1> QED  BY <1>1, <1>2

LEMMA NextIInv ==
  ASSUME IInv, [Next]_vars
  PROVE  IInv'
<1>1. TypeOK'
  BY NextTypeOK DEF IInv
<1>2. CASE UNCHANGED vars
  BY <1>1, <1>2, FrameIInv DEF vars, safetyVars
<1>3. ASSUME NEW d \in Drivers, ProfileStep(d)
      PROVE  IInv'
  BY <1>1, <1>3, FrameIInv DEF ProfileStep, SetAvailability, SubmitKYC, ReviewKYC,
     safetyVars, rideVars, clockVars, offerVars
<1>4. ASSUME NEW c \in Calls, ReadStep(c)
      PROVE  IInv'
  BY <1>1, <1>4, FrameIInv DEF ReadStep, ReadForTransition, ReadForDriverCancel,
     ReadForRiderCancel, Pend, safetyVars, rideVars, clockVars, offerVars
<1> QED
  BY <1>1, <1>2, <1>3, <1>4, RideStepIInv, DriverStepIInv, CommitStepIInv, JobsIInv DEF Next

LEMMA Inductive == Spec => []IInv
  BY InitIInv, NextIInv, PTL DEF Spec

\* A ride names a driver exactly from its match on, in every interleaving of
\* stale calls, offers and sweeps.
THEOREM AssignmentSafe == Spec => []DriverIffAssigned
  BY Inductive, PTL DEF IInv

\* A ride that has a driver is never still on offer to another one.
THEOREM OffersSafe == Spec => []OfferOnlyWhileUnassigned
  BY Inductive, PTL DEF IInv

\* No driver is ever assigned to a business ride without approval or to a
\* scheduled one before its time.
THEOREM ApprovalSafe == Spec => []OnlyApprovedAndDueRidesRun
  BY Inductive, PTL DEF IInv

-----------------------------------------------------------------------------
(* Refinement: every step of the dispatch is a step of the life cycle or   *)
(* leaves the ride's status and driver alone.                              *)

LEMMA InitRefines == Init => L!Init
  BY DEF Init, L!Init

\* Closing one ride is the life cycle's Cancel of a set of one.
LEMMA CancelOne ==
  ASSUME TypeOK, NEW r \in Rides, status[r] \in Active \cup {"requested"},
         status' = [status EXCEPT ![r] = "cancelled"], UNCHANGED driver
  PROVE  L!Next
<1>1. status' = [x \in Rides |-> IF x \in {r} THEN "cancelled" ELSE status[x]]
  BY DEF TypeOK
<1>2. L!Cancel({r})
  BY <1>1 DEF L!Cancel, L!Waiting, L!Assigned, Active
<1> QED  BY <1>2 DEF L!Next

LEMMA AdvanceOne ==
  ASSUME NEW r \in Rides, MarkDriverArriving(r) \/ MarkRideInProgress(r) \/ CompleteRide(r)
  PROVE  L!Next
<1>1. L!Advance(r)
  BY DEF MarkDriverArriving, MarkRideInProgress, CompleteRide, L!Advance
<1> QED  BY <1>1 DEF L!Next

LEMMA CommitStepRefines ==
  ASSUME TypeOK, NEW c \in Calls, CommitStep(c)
  PROVE  [L!Next]_(L!vars)
<1>1. CASE RollBack(c)
  BY <1>1 DEF RollBack, rideVars, L!vars
<1>2. CASE ~RollBack(c)
  <2>1. call[c] \in Request
    BY <1>2, CallIsRequest DEF CommitStep, Arrive, Start, Complete, CancelReassigns,
       CancelByDriver, CancelByRider, Respond, Idle
  <2>2. PICK r \in Rides : call[c].ride = r
    BY <2>1 DEF Request
  <2>3. CASE MarkDriverArriving(r)
    BY <2>3, AdvanceOne
  <2>4. CASE MarkRideInProgress(r)
    BY <2>4, AdvanceOne
  <2>5. CASE CompleteRide(r)
    BY <2>5, AdvanceOne
  <2>6. CASE \E d : ReassignRideToRequested(r, d)
    <3>1. L!Reassign(r)
      BY <2>6 DEF ReassignRideToRequested, Reassignable, L!Reassign
    <3> QED  BY <3>1 DEF L!Next
  <2>7. CASE CancelRide(r)
    BY <2>7, CancelOne DEF CancelRide
  <2>8. CASE CancelRideByRider(r)
    BY <2>8, CancelOne DEF CancelRideByRider, Active
  <2> QED
    BY <1>2, <2>2, <2>3, <2>4, <2>5, <2>6, <2>7, <2>8 DEF CommitStep, Arrive, Start,
       Complete, CancelReassigns, CancelByDriver, CancelByRider
<1> QED  BY <1>1, <1>2

LEMMA NextRefines ==
  ASSUME TypeOK, [Next]_vars
  PROVE  [L!Next]_(L!vars)
<1>1. CASE UNCHANGED vars
  BY <1>1 DEF vars, L!vars
<1>2. ASSUME NEW r \in Rides, RideStep(r)
      PROVE  [L!Next]_(L!vars)
  <2>1. CASE Create(r)
    BY <2>1 DEF Create, L!Request, L!Next
  <2>2. CASE UNCHANGED rideVars
    BY <2>2 DEF rideVars, L!vars
  <2> QED
    BY <1>2, <2>1, <2>2 DEF RideStep, CreatePIN, DecideAuthorization, PickupTimeReached,
       RideAges, OfferLapses
<1>3. ASSUME NEW r \in Rides, NEW d \in Drivers, DriverStep(r, d)
      PROVE  [L!Next]_(L!vars)
  <2>1. CASE Accept(r, d)
    BY <2>1 DEF Accept, AcceptRideOffer, L!Match, L!Next
  <2>2. CASE NoShow(r, d)
    BY <2>2, CancelOne DEF NoShow, MarkRideNoShow, Active
  <2>3. CASE UNCHANGED rideVars
    BY <2>3 DEF rideVars, L!vars
  <2> QED  BY <1>3, <2>1, <2>2, <2>3 DEF DriverStep, Decline, VerifyPIN, matchOne
<1>4. ASSUME NEW d \in Drivers, ProfileStep(d)
      PROVE  [L!Next]_(L!vars)
  BY <1>4 DEF ProfileStep, SetAvailability, SubmitKYC, ReviewKYC, rideVars, L!vars
<1>5. ASSUME NEW c \in Calls, ReadStep(c)
      PROVE  [L!Next]_(L!vars)
  BY <1>5 DEF ReadStep, ReadForRiderCancel, ReadForDriverCancel, ReadForTransition, Pend,
     rideVars, L!vars
<1>6. CASE cleanup
  BY <1>6 DEF cleanup, rideVars, L!vars
<1>7. ASSUME NEW locked \in SUBSET Lockable, ExpireStaleRides(locked)
      PROVE  [L!Next]_(L!vars)
  <2> DEFINE S == {r \in Rides \ locked : Stale(r)}
  <2>1. CASE NilUserExists
    <3>1. ExpireStaleRequestedRides(S)
      BY <1>7, <2>1 DEF ExpireStaleRides
    <3>2. L!Cancel(S)
      BY <3>1 DEF ExpireStaleRequestedRides, Stale, L!Cancel, L!Waiting
    <3>3. S \in SUBSET Rides
      OBVIOUS
    <3>4. \E T \in SUBSET Rides : L!Cancel(T)
      BY <3>2, <3>3
    <3> QED  BY <3>4 DEF L!Next
  <2>2. CASE ~NilUserExists
    BY <1>7, <2>2 DEF ExpireStaleRides, rideVars, L!vars
  <2> QED  BY <2>1, <2>2
<1> QED
  BY <1>1, <1>2, <1>3, <1>4, <1>5, <1>6, <1>7, CommitStepRefines DEF Next

\* The dispatch implements the life cycle: no interleaving of handlers, stale
\* reads, offers and background jobs takes a ride along an edge it does not have.
THEOREM Refinement == Spec => Lifecycle
<1>1. Init /\ [][Next]_vars /\ []TypeOK => L!Init /\ [][L!Next]_(L!vars)
  BY InitRefines, NextRefines, PTL
<1> QED  BY <1>1, TypeCorrect, PTL DEF Spec, Lifecycle, L!Spec

-----------------------------------------------------------------------------
(* Action properties.                                                      *)

DriverCancels(r) ==
  \E c \in Calls : /\ call[c] # Idle /\ call'[c] = Idle
                  /\ call[c].op = "driver_cancel" /\ call[c].ride = r

LEMMA TripEndsByDriver ==
  ASSUME TypeOK, [Next]_vars, NEW r \in Rides,
         status[r] = "in_progress", status'[r] = "cancelled"
  PROVE  DriverCancels(r)
<1>1. CASE UNCHANGED vars
  BY <1>1 DEF vars
<1>2. ASSUME NEW x \in Rides, RideStep(x)
      PROVE  FALSE
  BY <1>2 DEF TypeOK, RideStep, Create, CreatePIN, DecideAuthorization, PickupTimeReached,
     RideAges, OfferLapses, rideVars
<1>3. ASSUME NEW x \in Rides, NEW d \in Drivers, DriverStep(x, d)
      PROVE  FALSE
  BY <1>3 DEF TypeOK, DriverStep, Accept, AcceptRideOffer, Decline, NoShow, MarkRideNoShow,
     VerifyPIN, matchOne, rideVars
<1>4. ASSUME NEW d \in Drivers, ProfileStep(d)
      PROVE  FALSE
  BY <1>4 DEF ProfileStep, SetAvailability, SubmitKYC, ReviewKYC, rideVars
<1>5. ASSUME NEW c \in Calls, ReadStep(c)
      PROVE  FALSE
  BY <1>5 DEF ReadStep, ReadForRiderCancel, ReadForDriverCancel, ReadForTransition, Pend,
     rideVars
<1>6. ASSUME NEW c \in Calls, CommitStep(c)
      PROVE  DriverCancels(r)
  <2>1. CASE CancelByDriver(c)
    <3>1. call[c] # Idle /\ call'[c] = Idle
      BY <2>1 DEF TypeOK, CancelByDriver, Respond, Idle
    <3>2. call[c].op = "driver_cancel"
      BY <2>1 DEF CancelByDriver, Respond
    <3>3. call[c].ride = r
      BY <2>1 DEF TypeOK, CancelByDriver, CancelRide
    <3> QED  BY <3>1, <3>2, <3>3 DEF DriverCancels
  <2>2. CASE ~CancelByDriver(c)
    BY <1>6, <2>2 DEF TypeOK, CommitStep, Arrive, MarkDriverArriving, Start,
       MarkRideInProgress, Complete, CompleteRide, CancelReassigns,
       ReassignRideToRequested, Reassignable, CancelByRider, CancelRideByRider, RollBack,
       rideVars
  <2> QED  BY <2>1, <2>2
<1>7. CASE cleanup
  BY <1>7 DEF cleanup, rideVars
<1>8. ASSUME NEW locked \in SUBSET Lockable, ExpireStaleRides(locked)
      PROVE  FALSE
  BY <1>8 DEF ExpireStaleRides, ExpireStaleRequestedRides, Stale, rideVars
<1> QED
  BY <1>1, <1>2, <1>3, <1>4, <1>5, <1>6, <1>7, <1>8 DEF Next

\* A trip under way is cancelled by a driver's cancel of that very ride, and by
\* no rider call, however old the read it decides on.
THEOREM TripCancellation == Spec => RiderCannotCancelTrip
<1>1. TypeOK /\ [Next]_vars
        => [\A r \in Rides :
              status[r] = "in_progress" /\ status'[r] = "cancelled"
                => \E c \in Calls : /\ call[c] # Idle /\ call'[c] = Idle
                                    /\ call[c].op = "driver_cancel" /\ call[c].ride = r]_vars
  BY TripEndsByDriver DEF DriverCancels
<1> QED  BY <1>1, TypeCorrect, PTL DEF Spec, RiderCannotCancelTrip

LEMMA OfferEnds ==
  ASSUME TypeOK, [Next]_vars, NEW d \in Drivers, OnOffer(d), ~OnOffer(d)', ~OnTrip(d)'
  PROVE  avail'[d] # "held"
<1> USE DriversAssumption DEF OnOffer
<1>1. CASE UNCHANGED offer
  BY <1>1
<1>2. ASSUME NEW r \in Rides, NEW x \in Drivers, Accept(r, x)
      PROVE  FALSE
  <2>1. PICK y \in Rides : offer[y] = d
    OBVIOUS
  <2>2. y = r /\ x = d
    BY <1>2, <2>1 DEF Accept, AcceptRideOffer, TypeOK
  <2>3. driver'[r] = d /\ status'[r] = "matched"
    BY <1>2, <2>2 DEF Accept, AcceptRideOffer, TypeOK
  <2> QED  BY <2>3 DEF OnTrip, Active
<1>3. ASSUME NEW r \in Rides, NEW x \in Drivers, Decline(r, x)
      PROVE  avail'[d] # "held"
  <2>1. PICK y \in Rides : offer[y] = d
    OBVIOUS
  <2>2. x = d
    BY <1>3, <2>1 DEF Decline, DeclineRideOffer, offerVars, TypeOK
  <2> QED  BY <1>3, <2>2 DEF Decline, SetDriverAvailability
<1>4. ASSUME NEW locked \in SUBSET Lockable, NEW r \in Rides, NEW x \in Drivers,
             matchOne(locked, r, x)
      PROVE  avail'[d] # "held"
  <2>1. PICK y \in Rides : offer[y] = d
    OBVIOUS
  <2>2. x # d
    BY <1>4 DEF matchOne
  <2>3. y \in LapsedOffers
    BY <1>4, <2>1, <2>2 DEF matchOne
  <2>4. d \in Released(LapsedOffers)
    BY <2>1, <2>3 DEF Released
  <2> QED  BY <1>4, <2>2, <2>4 DEF matchOne
<1>5. ASSUME cleanup
      PROVE  avail'[d] # "held"
  <2>1. PICK y \in Rides : offer[y] = d
    OBVIOUS
  <2>2. y \in LapsedOffers
    BY <1>5, <2>1 DEF cleanup
  <2> QED  BY <1>5, <2>1, <2>2 DEF cleanup, SetDriverAvailability, Released
<1>6. ASSUME NEW c \in Calls, ReadStep(c) \/ CommitStep(c)
      PROVE  UNCHANGED offer
  BY <1>6 DEF ReadStep, ReadForRiderCancel, ReadForDriverCancel, ReadForTransition, Pend,
     CommitStep, Arrive, Start, Complete, CancelReassigns, CancelByDriver, CancelByRider,
     RollBack, offerVars
<1>7. ASSUME NEW r \in Rides, RideStep(r)
      PROVE  UNCHANGED offer
  BY <1>7 DEF RideStep, Create, CreatePIN, DecideAuthorization, PickupTimeReached, RideAges,
     OfferLapses, offerVars
<1>8. ASSUME NEW x \in Drivers, ProfileStep(x)
      PROVE  UNCHANGED offer
  BY <1>8 DEF ProfileStep, SetAvailability, SubmitKYC, ReviewKYC, offerVars
<1>9. ASSUME NEW r \in Rides, NEW x \in Drivers, NoShow(r, x) \/ VerifyPIN(r, x)
      PROVE  UNCHANGED offer
  BY <1>9 DEF NoShow, VerifyPIN, offerVars
<1>10. ASSUME NEW locked \in SUBSET Lockable, ExpireStaleRides(locked)
       PROVE  UNCHANGED offer
  BY <1>10 DEF ExpireStaleRides, offerVars
<1> HIDE DEF OnOffer
<1> QED
  BY <1>1, <1>2, <1>3, <1>4, <1>5, <1>6, <1>7, <1>8, <1>9, <1>10 DEF Next, DriverStep, vars

\* However an offer ends without a match, its driver is not left held.
THEOREM OfferEndsReleased == Spec => OfferEndReleasesDriver
<1>1. TypeOK /\ [Next]_vars
        => [\A d \in Drivers :
              OnOffer(d) /\ ~OnOffer(d)' /\ ~OnTrip(d)' => avail'[d] # "held"]_vars
  BY OfferEnds
<1> QED  BY <1>1, TypeCorrect, PTL DEF Spec, OfferEndReleasesDriver
=============================================================================
