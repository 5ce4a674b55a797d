-------------------------- MODULE AirportTransfers --------------------------
(***************************************************************************)
(* Airport transfers of a ride (internal/airport).  Creation and cancel    *)
(* are guarded in their statement; an update reads the row, authorizes the *)
(* caller against the ride, judges the transition on what it read, and     *)
(* then writes the whole row without looking at it again.                  *)
(*                                                                         *)
(* Abstracted: airports, flights (a failed lookup changes nothing),        *)
(* passenger, fees, and the columns an update carries besides the status:  *)
(* an update of those writes back the status it read.                      *)
(***************************************************************************)
EXTENDS Naturals

CONSTANTS
  Transfers,       \* transfers of the instance, each of a ride of its own
  Callers,         \* users who may drive one of the rides
  NoEscort,        \* the NULL of rides.driver_id
  TransferCalls    \* service calls that may be past their read at once

ASSUME CallersAssumption == "rider" \notin Callers /\ NoEscort \notin Callers \cup {"rider"}

VARIABLES
  progress,    \* airport_transfers.status, "none" before the row exists
  escort,      \* rides.driver_id of the transfer's ride
  update       \* service calls past their read

transferVars == <<progress, escort, update>>

Final == {"completed", "cancelled", "no_show"}
Known == Final \cup {"pending", "assigned", "en_route", "arrived"}

NoUpdate == [op |-> "none"]
Update == [op : {"update"}, transfer : Transfers, read : Known, next : Known]
          \cup [op : {"cancel"}, transfer : Transfers]

TransferTypeOK ==
  /\ progress \in [Transfers -> Known \cup {"none"}]
  /\ escort \in [Transfers -> Callers \cup {NoEscort}]
  /\ update \in [TransferCalls -> Update \cup {NoUpdate}]

InitTransfers ==
  /\ progress = [t \in Transfers |-> "none"]
  /\ escort = [t \in Transfers |-> NoEscort]
  /\ update = [c \in TransferCalls |-> NoUpdate]

-----------------------------------------------------------------------------
Stored(t) == progress[t] # "none"

\* The rider of the ride or its driver.
CanAccessTransfer(caller, t) == caller = "rider" \/ (caller = escort[t] /\ caller # NoEscort)

\* A completed transfer may still become a no-show.
MutValidateTransition(current, next) == current \notin {"completed", "cancelled"} /\ next \in Known

ValidateTransition(current, next) == current \notin Final /\ next \in Known

\* WHERE status NOT IN the final ones.
CancelAirportTransfer(t) ==
  progress' = IF progress[t] \in Final THEN progress ELSE [progress EXCEPT ![t] = "cancelled"]

CreateAirportTransfer(t) == progress' = [progress EXCEPT ![t] = "pending"]

UpdateAirportTransfer(t, next) == progress' = [progress EXCEPT ![t] = next]

\* A ride may get a second transfer; here each has a ride of its own.
CreateTransfer(t) ==
  /\ ~Stored(t)
  /\ \E caller \in Callers \cup {"rider"} : CanAccessTransfer(caller, t)
  /\ CreateAirportTransfer(t)
  /\ UNCHANGED <<escort, update>>

\* Status, arrival, waiting time and notes are optional: without a status the
\* call writes back the one it read.
BeginUpdate(c, t, caller, next) ==
  /\ update[c] = NoUpdate
  /\ Stored(t)
  /\ CanAccessTransfer(caller, t)
  /\ ValidateTransition(progress[t], next)
  /\ update' = [update EXCEPT ![c] =
       [op |-> "update", transfer |-> t, read |-> progress[t], next |-> next]]
  /\ UNCHANGED <<progress, escort>>

UpdateTransferStatus(c, t, caller) == \E next \in Known : BeginUpdate(c, t, caller, next)

RecordActualArrival(c, t, caller) == BeginUpdate(c, t, caller, progress[t])

UpdateTransfer(c) ==
  /\ update[c].op = "update"
  /\ UpdateAirportTransfer(update[c].transfer, update[c].next)
  /\ update' = [update EXCEPT ![c] = NoUpdate]
  /\ UNCHANGED escort

BeginCancel(c, t, caller) ==
  /\ update[c] = NoUpdate
  /\ Stored(t)
  /\ CanAccessTransfer(caller, t)
  /\ update' = [update EXCEPT ![c] = [op |-> "cancel", transfer |-> t]]
  /\ UNCHANGED <<progress, escort>>

CancelTransfer(c) ==
  /\ update[c].op = "cancel"
  /\ CancelAirportTransfer(update[c].transfer)
  /\ update' = [update EXCEPT ![c] = NoUpdate]
  /\ UNCHANGED escort

\* The process stops, or a statement fails, between read and write.
AbandonTransferCall(c) ==
  /\ update[c] # NoUpdate
  /\ update' = [update EXCEPT ![c] = NoUpdate]
  /\ UNCHANGED <<progress, escort>>

\* The rides component assigns a driver and takes the ride back.
EscortChanges(t) ==
  /\ \E d \in Callers \cup {NoEscort} :
       /\ (escort[t] = NoEscort) # (d = NoEscort)
       /\ escort' = [escort EXCEPT ![t] = d]
  /\ UNCHANGED <<progress, update>>

NextTransfers ==
  \/ \E t \in Transfers : CreateTransfer(t) \/ EscortChanges(t)
  \/ \E c \in TransferCalls, t \in Transfers, caller \in Callers \cup {"rider"} :
       \/ UpdateTransferStatus(c, t, caller)
       \/ RecordActualArrival(c, t, caller)
       \/ BeginCancel(c, t, caller)
  \/ \E c \in TransferCalls : UpdateTransfer(c) \/ CancelTransfer(c) \/ AbandonTransferCall(c)

SpecTransfers == InitTransfers /\ [][NextTransfers]_transferVars

-----------------------------------------------------------------------------
(* A transfer that has ended is reopened, or ends otherwise, only by an    *)
(* update that read it before it ended (service.go:222-261): a caller who  *)
(* comes later, by update or by cancel, never moves it.                    *)
EndedUnlessOverwritten ==
  [][\A t \in Transfers :
       progress[t] \in Final /\ progress'[t] # progress[t]
         => \E c \in TransferCalls :
              /\ update[c].op = "update" /\ update[c].transfer = t
              /\ update[c].read \notin Final
              /\ update[c].next = progress'[t]]_transferVars
=============================================================================
