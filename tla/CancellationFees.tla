--------------------------- MODULE CancellationFees ---------------------------
(***************************************************************************)
(* The cancellation policy of a ride (internal/rides/cancellation.go; no   *)
(* handler calls it yet): who may cancel at which stage, and for what fee. *)
(* The fee depends on the time since the ride's row was created and since  *)
(* it was last updated, which stands for the assignment of the driver, so  *)
(* the module has the row, its updates by rides and trust, and a clock of  *)
(* half minutes, the step of the fee.                                      *)
(*                                                                         *)
(* Abstracted: fees in units of that step's surcharge; the fee of a        *)
(* no-show, one amount whatever the time; messages.                        *)
(***************************************************************************)
EXTENDS Naturals

CONSTANTS
  FreeCancellationWindow, DriverAssignedFreeWindow, NoShowTimeout,  \* half minutes
  BaseFee, MaxFee,
  MaxWait   \* bound: half minutes since the ride was created

ASSUME PolicyAssumption ==
  /\ {FreeCancellationWindow, DriverAssignedFreeWindow, NoShowTimeout, MaxWait} \subseteq Nat
  /\ {BaseFee, MaxFee} \subseteq Nat /\ BaseFee <= MaxFee

VARIABLES
  stage,     \* rides.status
  elapsed,   \* time since created_at
  touched,   \* the same at updated_at
  assigned   \* driver_id is set: a ride that is over keeps its driver

feeVars == <<stage, elapsed, touched, assigned>>

WithDriver == {"matched", "driver_arriving", "in_progress"}
Over       == {"completed", "cancelled"}
Reasons    == {"rider_requested", "driver_requested", "rider_no_show", "driver_no_show",
               "no_driver_found", "safety_concern", "payment_failed", "other"}

FeeTypeOK ==
  /\ stage \in {"requested"} \cup WithDriver \cup Over
  /\ elapsed \in 0..MaxWait
  /\ touched \in 0..elapsed
  /\ assigned \in BOOLEAN

InitFees == stage = "requested" /\ elapsed = 0 /\ touched = 0 /\ assigned = FALSE

-----------------------------------------------------------------------------
Surcharged(over) == BaseFee + over

\* Above the maximum the fee is left at its base.
MutCapped(fee) == IF fee > MaxFee THEN BaseFee ELSE fee

Capped(fee) == IF fee > MaxFee THEN MaxFee ELSE fee

CalculateCancellationFee(role, reason) ==
  IF \/ reason \in {"no_driver_found", "safety_concern"}
     \/ role = "driver"
     \/ elapsed < FreeCancellationWindow
     \/ assigned /\ elapsed - touched < DriverAssignedFreeWindow
  THEN 0
  ELSE IF assigned THEN Capped(Surcharged(elapsed - touched - DriverAssignedFreeWindow))
  ELSE BaseFee

ValidateCancellation(reason) ==
  /\ stage \notin Over
  /\ stage = "in_progress" => reason = "safety_concern"

\* Whether a no-show is found: the status is not asked for, so it is found of a
\* ride that is over as well.
ProcessNoShow == assigned /\ elapsed - touched >= NoShowTimeout

-----------------------------------------------------------------------------
Wait == elapsed < MaxWait /\ elapsed' = elapsed + 1 /\ UNCHANGED <<stage, touched, assigned>>

\* The rides component: accept, arrive, start, give back, complete; every
\* UPDATE sets updated_at, and giving back clears driver_id.
Advance(next) ==
  /\ \/ stage = "requested" /\ next = "matched"
     \/ stage = "matched" /\ next \in {"driver_arriving", "requested"}
     \/ stage = "driver_arriving" /\ next \in {"in_progress", "requested"}
     \/ stage = "in_progress" /\ next = "completed"
  /\ stage' = next /\ touched' = elapsed /\ assigned' = (next # "requested")
  /\ UNCHANGED elapsed

\* The trip PIN is set, whatever the status.
SetRideTripPIN == touched' = elapsed /\ UNCHANGED <<stage, elapsed, assigned>>

\* Its WHERE clause names the statuses that are not final.
CancelRide ==
  /\ stage \notin Over
  /\ stage' = "cancelled" /\ touched' = elapsed
  /\ UNCHANGED <<elapsed, assigned>>

\* A cancellation the policy allows, or after a no-show it finds.
EndRide ==
  /\ (\E reason \in Reasons : ValidateCancellation(reason)) \/ ProcessNoShow
  /\ CancelRide

NextFees ==
  \/ Wait \/ SetRideTripPIN \/ EndRide
  \/ \E next \in WithDriver \cup {"requested", "completed"} : Advance(next)

SpecFees == InitFees /\ [][NextFees]_feeVars

-----------------------------------------------------------------------------
(* As long as nobody updates the ride, waiting never makes cancelling it    *)
(* cheaper, the fee never passes the maximum, and no role but the rider's  *)
(* pays (cancellation.go:110-158): the free windows, the progressive part   *)
(* and the cap meet without a gap, with a driver and without.              *)
FeeNeverFalls ==
  [][\A role \in {"rider", "driver"}, reason \in Reasons :
       UNCHANGED <<stage, touched, assigned>> =>
         /\ CalculateCancellationFee(role, reason)' >= CalculateCancellationFee(role, reason)
         /\ CalculateCancellationFee(role, reason)' <= (IF role = "rider" THEN MaxFee ELSE 0)]_feeVars
=============================================================================
