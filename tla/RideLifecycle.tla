---------------------------- MODULE RideLifecycle ----------------------------
(***************************************************************************)
(* What the ride service promises about one row of `rides`, whoever calls  *)
(* it and in whatever order: the statuses a ride may move between and the  *)
(* driver the row names meanwhile.  RideDispatch, which has the matcher,   *)
(* the offers, the in-flight API calls and the background jobs, is checked *)
(* and proved to implement it.                                             *)
(***************************************************************************)

CONSTANTS Rides, Drivers, NoDriver

VARIABLES status, driver

vars == <<status, driver>>

Waiting  == {"requested"}
Assigned == {"matched", "driver_arriving", "in_progress"}
Terminal == {"completed", "cancelled"}

Init == /\ status = [r \in Rides |-> "none"]
        /\ driver = [r \in Rides |-> NoDriver]

Request(r) ==
  /\ status[r] = "none"
  /\ status' = [status EXCEPT ![r] = "requested"]
  /\ UNCHANGED driver

Match(r, d) ==
  /\ status[r] = "requested"
  /\ status' = [status EXCEPT ![r] = "matched"]
  /\ driver' = [driver EXCEPT ![r] = d]

\* The only way back: the assigned driver gives up a trip that has not begun.
Reassign(r) ==
  /\ status[r] \in {"matched", "driver_arriving"}
  /\ status' = [status EXCEPT ![r] = "requested"]
  /\ driver' = [driver EXCEPT ![r] = NoDriver]

Advance(r) ==
  /\ \E edge \in {<<"matched", "driver_arriving">>,
                  <<"driver_arriving", "in_progress">>,
                  <<"in_progress", "completed">>} :
       /\ status[r] = edge[1]
       /\ status' = [status EXCEPT ![r] = edge[2]]
  /\ UNCHANGED driver

\* The expiry sweep closes several rides at once.
Cancel(S) ==
  /\ \A r \in S : status[r] \in Waiting \cup Assigned
  /\ status' = [r \in Rides |-> IF r \in S THEN "cancelled" ELSE status[r]]
  /\ UNCHANGED driver

Next ==
  \/ \E r \in Rides : Request(r) \/ Reassign(r) \/ Advance(r)
  \/ \E r \in Rides, d \in Drivers : Match(r, d)
  \/ \E S \in SUBSET Rides : Cancel(S)

Spec == Init /\ [][Next]_vars
=============================================================================
