---------------------------- MODULE PaymentCharges ----------------------------
(***************************************************************************)
(* Online payments: internal/payment (intents, webhooks, refunds and       *)
(* reconciliation), the API and the worker that run it, and the provider   *)
(* PAYMENT_PROVIDER selects.                                               *)
(*                                                                         *)
(* Each call of the store is a statement of its own: nothing here runs in  *)
(* a transaction.  An intent request, a webhook, a refund or the worker    *)
(* may stop, and others may run, between any two of its statements and     *)
(* provider calls; `call`, `job` and `todo` hold what it knows by then.    *)
(*                                                                         *)
(* RecordPaymentEvent returns the stored event, and a writer goes on to    *)
(* apply its status only if the payload is, byte for byte, the one it      *)
(* passed.  The stores of the tests return it so.  The store of the        *)
(* binaries keeps it in a JSONB column (migration 000001), which reformats *)
(* it: the payloads json.Marshal builds for refunds and reconciliation     *)
(* come back different, a webhook's body unless it happens to be in the    *)
(* column's own format.  Jsonb says which store it is.                     *)
(*                                                                         *)
(* Abstracted: amounts, payloads and signatures (a delivered webhook is    *)
(* genuine, and an event id is never reused for another body), the ride    *)
(* (it may be paid), event types the ledger does not know.  The intents a  *)
(* provider may open are the bound on retries.                             *)
(***************************************************************************)
EXTENDS Naturals, FiniteSetsExt

CONSTANTS
  Charges,     \* (ride, idempotency key) pairs, numbered in order of created_at
  Intents,     \* intents the provider may open
  NoIntent,
  Calls,       \* CreateIntent calls that may be in flight at once
  Handlers,    \* webhook and refund requests that may be in flight at once
  Worker,      \* the process that reconciles
  Foreign,     \* charges whose request names another provider than the selected
  Jsonb,       \* whether the store reformats event payloads
  BatchLimit   \* reconcileBatchLimit

ASSUME ChargesAssumption == Charges \subseteq Nat \ {0} /\ Foreign \subseteq Charges
ASSUME IntentsAssumption == NoIntent \notin Intents
ASSUME WorkerAssumption == Worker \notin Handlers
ASSUME StoreAssumption == Jsonb \in BOOLEAN
ASSUME LimitAssumption == BatchLimit \in Nat \ {0}

VARIABLES
  status,    \* payment_charges.status; "none" before the row exists
  intent,    \* payment_charges.provider_charge_id
  events,    \* types of the charge's payment_events
  provider,  \* the provider's record of each intent
  call,      \* CreateIntent calls past the look-up of their key
  job,       \* per handler, and for the worker: what it is about to do
  todo       \* rest of the list of the worker's pass

vars == <<status, intent, events, provider, call, job, todo>>

ledgerVars == <<status, intent, events>>

Writers == Handlers \cup {Worker}
EventTypes == {"processing", "completed", "failed", "refunded"}

NoCall == [charge |-> 0, intent |-> NoIntent]
Idle == [at |-> "idle", source |-> "none", charge |-> 0, type |-> "none"]
Job == [at : {"refund", "record", "apply"}, source : {"webhook", "admin", "reconciliation"},
        charge : Charges, type : EventTypes]

TypeOK ==
  /\ status \in [Charges -> {"none", "pending"} \cup EventTypes]
  /\ intent \in [Charges -> Intents \cup {NoIntent}]
  /\ events \in [Charges -> SUBSET EventTypes]
  /\ provider \in [Intents -> {"none", "open", "paid", "declined", "refunded"}]
  /\ call \in [Calls -> [charge : Charges, intent : Intents \cup {NoIntent}] \cup {NoCall}]
  /\ job \in [Writers -> Job \cup {Idle}]
  /\ todo \subseteq Charges

Init ==
  /\ status = [c \in Charges |-> "none"]
  /\ intent = [c \in Charges |-> NoIntent]
  /\ events = [c \in Charges |-> {}]
  /\ provider = [i \in Intents |-> "none"]
  /\ call = [k \in Calls |-> NoCall]
  /\ job = [w \in Writers |-> Idle]
  /\ todo = {}

-----------------------------------------------------------------------------
(* CreateIntent: look the key up, reserve at the provider, store.  A call   *)
(* that finds its key answers with the stored charge: no step.  Operators   *)
(* named Mut... are variants with a bug that code could have; no action     *)
(* uses them (see README, mutations).                                       *)

LookUpKey(k, c) ==
  /\ call[k] = NoCall /\ status[c] = "none"
  /\ call' = [call EXCEPT ![k] = [charge |-> c, intent |-> NoIntent]]
  /\ UNCHANGED <<ledgerVars, provider, job, todo>>

\* The answer may be lost: the provider keeps an intent nobody asks for.
ReserveIntent(k, i) ==
  /\ call[k].charge # 0 /\ call[k].intent = NoIntent
  /\ provider[i] = "none"
  /\ provider' = [provider EXCEPT ![i] = "open"]
  /\ call' \in {[call EXCEPT ![k].intent = i], [call EXCEPT ![k] = NoCall]}
  /\ UNCHANGED <<ledgerVars, job, todo>>

\* ON CONFLICT also takes over the new provider_charge_id.
MutCreatePaymentIntent(k) ==
  LET c == call[k].charge IN
  /\ call[k].intent # NoIntent
  /\ \A x \in Charges : x < c => status[x] # "none"
  /\ status' = [status EXCEPT ![c] = IF @ = "none" THEN "pending" ELSE @]
  /\ intent' = [intent EXCEPT ![c] = call[k].intent]
  /\ call' = [call EXCEPT ![k] = NoCall]
  /\ UNCHANGED <<events, provider, job, todo>>

\* Of concurrent calls with one key the first stores, the others get its row.
CreatePaymentIntent(k) ==
  LET c == call[k].charge IN
  /\ call[k].intent # NoIntent
  /\ \A x \in Charges : x < c => status[x] # "none"
  /\ IF status[c] = "none"
     THEN /\ status' = [status EXCEPT ![c] = "pending"]
          /\ intent' = [intent EXCEPT ![c] = call[k].intent]
     ELSE UNCHANGED <<status, intent>>
  /\ call' = [call EXCEPT ![k] = NoCall]
  /\ UNCHANGED <<events, provider, job, todo>>

AbandonCall(k) ==
  /\ call[k] # NoCall
  /\ call' = [call EXCEPT ![k] = NoCall]
  /\ UNCHANGED <<ledgerVars, provider, job, todo>>

-----------------------------------------------------------------------------
(* The two statements every event goes through: RecordPaymentEvent adds it  *)
(* to the charge's events, ApplyPaymentEventStatus moves the charge if its  *)
(* status allows.                                                           *)

\* A late 'processing' event reopens a completed charge.
MutAccepts(s, t) ==
  CASE t = "processing" -> s \in {"pending", "processing", "completed"}
    [] t = "completed"  -> s \in {"pending", "processing", "completed"}
    [] t = "failed"     -> s \in {"pending", "processing", "failed"}
    [] t = "refunded"   -> s \in {"completed", "refunded"}

Accepts(s, t) ==
  CASE t = "processing" -> s \in {"pending", "processing"}
    [] t = "completed"  -> s \in {"pending", "processing", "completed"}
    [] t = "failed"     -> s \in {"pending", "processing", "failed"}
    [] t = "refunded"   -> s \in {"completed", "refunded"}

Record(c, t) == events' = [events EXCEPT ![c] = @ \cup {t}]

NextStep(w, at) == job' = [job EXCEPT ![w].at = at]

\* The payload of a refund or of reconciliation, and its comparison.
RecordPaymentEvent(w) ==
  /\ job[w].at = "record"
  /\ Record(job[w].charge, job[w].type)
  /\ IF Jsonb THEN job' = [job EXCEPT ![w] = Idle] ELSE NextStep(w, "apply")
  /\ UNCHANGED <<status, intent, provider, call, todo>>

\* A status no migration knows.
MutApplyPaymentEventStatus(w) ==
  /\ job[w].at = "apply"
  /\ status' = [status EXCEPT ![job[w].charge] = "settled"]
  /\ job' = [job EXCEPT ![w] = Idle]
  /\ UNCHANGED <<intent, events, provider, call, todo>>

ApplyPaymentEventStatus(w) ==
  LET c == job[w].charge
      t == job[w].type IN
  /\ job[w].at = "apply"
  /\ status' = [status EXCEPT ![c] = IF Accepts(@, t) THEN t ELSE @]
  /\ job' = [job EXCEPT ![w] = Idle]
  /\ UNCHANGED <<intent, events, provider, call, todo>>

\* An error or a crash between two statements; a crash also ends the pass.
Stop(w) ==
  /\ job[w] # Idle
  /\ job' = [job EXCEPT ![w] = Idle]
  /\ todo' \in IF w = Worker THEN {todo, {}} ELSE {todo}
  /\ UNCHANGED <<ledgerVars, provider, call>>

-----------------------------------------------------------------------------
(* Webhooks, delivered late, twice, out of order or never.                  *)

Sent(p) ==
  CASE p = "none"     -> {}
    [] p = "open"     -> {"processing"}
    [] p = "paid"     -> {"processing", "completed"}
    [] p = "declined" -> {"processing", "failed"}
    [] p = "refunded" -> {"processing", "completed", "refunded"}

\* The event is applied without being recorded.
MutRecordWebhook(h, c, t) ==
  /\ job[h] = Idle
  /\ status[c] # "none" /\ c \notin Foreign
  /\ t \in Sent(provider[intent[c]])
  /\ job' = [job EXCEPT ![h] = [at |-> "apply", source |-> "webhook", charge |-> c, type |-> t]]
  /\ UNCHANGED <<ledgerVars, provider, call, todo>>

\* The charge is found by provider and intent, so never a foreign one.  The
\* event stays also when the body comes back reformatted and nothing is applied.
RecordWebhook(h, c, t) ==
  /\ job[h] = Idle
  /\ status[c] # "none" /\ c \notin Foreign
  /\ t \in Sent(provider[intent[c]])
  /\ Record(c, t)
  /\ \/ job' = [job EXCEPT ![h] =
                   [at |-> "apply", source |-> "webhook", charge |-> c, type |-> t]]
     \/ Jsonb /\ UNCHANGED job
  /\ UNCHANGED <<status, intent, provider, call, todo>>

-----------------------------------------------------------------------------
(* RefundCharge: read the charge, refund at the provider, record, apply.    *)

ReadForRefund(h, c) ==
  /\ job[h] = Idle
  /\ status[c] = "completed"
  /\ job' = [job EXCEPT ![h] = [at |-> "refund", source |-> "admin", charge |-> c, type |-> "refunded"]]
  /\ UNCHANGED <<ledgerVars, provider, call, todo>>

\* The answer to an executed refund may be lost; one the provider refuses, as
\* it does when the intent is refunded already, ends the call (Stop).
RefundPayment(h) ==
  LET i == intent[job[h].charge] IN
  /\ job[h].at = "refund"
  /\ provider[i] = "paid"
  /\ provider' = [provider EXCEPT ![i] = "refunded"]
  /\ NextStep(h, "record") \/ job' = [job EXCEPT ![h] = Idle]
  /\ UNCHANGED <<ledgerVars, call, todo>>

-----------------------------------------------------------------------------
(* ReconcilePending: one pass over the oldest unsettled charges.            *)

Unsettled == {c \in Charges : status[c] \in {"pending", "processing"}}
Oldest(S) == {c \in S : Cardinality({x \in S : x < c}) < BatchLimit}

AtCharge(c) ==
  /\ job[Worker] = Idle
  /\ c \in todo /\ \A x \in todo : c <= x

\* Only the charges no webhook has touched are listed.
MutGetPendingCharges ==
  /\ job[Worker] = Idle /\ todo = {}
  /\ todo' = Oldest({c \in Charges : status[c] = "pending"})
  /\ UNCHANGED <<ledgerVars, provider, call, job>>

GetPendingCharges ==
  /\ job[Worker] = Idle /\ todo = {}
  /\ todo' = Oldest(Unsettled)
  /\ UNCHANGED <<ledgerVars, provider, call, job>>

Polled(p) ==
  CASE p = "none"     -> {}
    [] p = "open"     -> {"processing"}
    [] p = "paid"     -> {"completed"}
    [] p = "declined" -> {"failed"}
    [] p = "refunded" -> {"refunded"}

GetPaymentStatus(c) ==
  /\ AtCharge(c) /\ c \notin Foreign
  /\ \E t \in Polled(provider[intent[c]]) :
       job' = [job EXCEPT ![Worker] =
                 [at |-> "record", source |-> "reconciliation", charge |-> c, type |-> t]]
  /\ todo' = todo \ {c}
  /\ UNCHANGED <<ledgerVars, provider, call>>

\* Another provider's charge, a poll that failed, an unknown status, or the one
\* the list shows (to record it again would change nothing).
SkipCharge(c) ==
  /\ AtCharge(c)
  /\ todo' = todo \ {c}
  /\ UNCHANGED <<ledgerVars, provider, call, job>>

-----------------------------------------------------------------------------
(* The provider (external).                                                 *)

ProviderDecides(i) ==
  /\ provider[i] = "open"
  /\ \E s \in {"paid", "declined"} : provider' = [provider EXCEPT ![i] = s]
  /\ UNCHANGED <<ledgerVars, call, job, todo>>

\* A refund the provider makes of its own accord.
ProviderRefunds(i) ==
  /\ provider[i] = "paid"
  /\ provider' = [provider EXCEPT ![i] = "refunded"]
  /\ UNCHANGED <<ledgerVars, call, job, todo>>

-----------------------------------------------------------------------------
CallStep(k) ==
  \/ \E c \in Charges : LookUpKey(k, c)
  \/ \E i \in Intents : ReserveIntent(k, i)
  \/ CreatePaymentIntent(k)
  \/ AbandonCall(k)

HandlerStep(h) ==
  \/ \E c \in Charges, t \in EventTypes : RecordWebhook(h, c, t)
  \/ \E c \in Charges : ReadForRefund(h, c)
  \/ RefundPayment(h)

WriterStep(w) ==
  \/ RecordPaymentEvent(w)
  \/ ApplyPaymentEventStatus(w)
  \/ Stop(w)

PassStep ==
  \/ GetPendingCharges
  \/ \E c \in Charges : GetPaymentStatus(c) \/ SkipCharge(c)

Next ==
  \/ \E k \in Calls : CallStep(k)
  \/ \E h \in Handlers : HandlerStep(h)
  \/ \E w \in Writers : WriterStep(w)
  \/ PassStep
  \/ \E i \in Intents : ProviderDecides(i) \/ ProviderRefunds(i)

Spec == Init /\ [][Next]_vars

\* The worker's ticker and loop go on; a charge polled at pass after pass is in
\* the end answered for, recorded and applied.  Nothing is assumed of riders,
\* webhooks, admins or the provider's decisions.
Fairness ==
  /\ WF_vars(GetPendingCharges)
  /\ \A c \in Charges :
       /\ WF_vars(GetPaymentStatus(c) \/ SkipCharge(c))
       /\ SF_vars(GetPaymentStatus(c))
       /\ SF_vars(job[Worker].charge = c /\ RecordPaymentEvent(Worker))
       /\ SF_vars(job[Worker].charge = c /\ ApplyPaymentEventStatus(Worker))

FairSpec == Spec /\ Fairness

-----------------------------------------------------------------------------
(* Properties.                                                              *)

\* Every status a charge has reached is explained by a recorded event: no crash
\* and no interleaving of webhook, refund and reconciliation moves a charge
\* without its entry in the audit trail.
EventBeforeStatus ==
  \A c \in Charges : status[c] \in EventTypes => status[c] \in events[c]

\* Once the provider has executed an admin's refund, nothing that runs before
\* its status is applied can make ApplyPaymentEventStatus refuse it: the race of
\* refund.go:118-122 cannot happen.
ExecutedRefundApplies ==
  \A h \in Handlers :
    job[h].source = "admin" /\ job[h].at \in {"record", "apply"}
      => status[job[h].charge] \in {"completed", "refunded"}

M == INSTANCE PaymentMirror

\* Duplicated, reordered and lost webhooks, concurrent intent calls and polls of
\* a stale list never get the ledger ahead of the provider, never move a charge
\* backwards and never rebind it to another intent.
Mirror == M!Spec

MissedCompletion(c) ==
  c \in Unsettled \ Foreign /\ provider[intent[c]] = "paid"

\* "Applies canonical status transitions for webhooks that were missed"
\* (reconcile.go:119-120): a paid charge does not stay unsettled.
PaidChargeSettles == \A c \in Charges : MissedCompletion(c) ~> ~MissedCompletion(c)
=============================================================================
