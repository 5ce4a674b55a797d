------------------------ MODULE PaymentChargesProofs ------------------------
(***************************************************************************)
(* Proofs about PaymentCharges, for any charges, intents, concurrent calls *)
(* and handlers, and any batch limit.                                      *)
(***************************************************************************)
EXTENDS PaymentCharges, TLAPS

ProviderStates == {"none", "open", "paid", "declined", "refunded"}

LEMMA SentIsSubset ==
  ASSUME NEW p \in ProviderStates
  PROVE  /\ Sent(p) \subseteq EventTypes
         /\ Polled(p) \subseteq Sent(p)
  BY DEF ProviderStates, Sent, Polled, EventTypes

LEMMA WriterKinds == Handlers \subseteq Writers /\ Worker \in Writers
  BY DEF Writers

-----------------------------------------------------------------------------
(* The inductive invariant.  What a writer is about to apply was true at   *)
(* the provider when it learnt of it, and stays in Sent(...) as the        *)
(* provider moves on; TypeOK alone is not inductive, for it does not say   *)
(* that a charge on the worker's list is bound to an intent.               *)

\* A stored charge is bound to an intent the provider knows, and its status is
\* one this intent has gone through.
BoundInv ==
  \A c \in Charges :
    /\ status[c] = "none" <=> intent[c] = NoIntent
    /\ intent[c] # NoIntent => provider[intent[c]] # "none"
    /\ status[c] \in EventTypes => status[c] \in Sent(provider[intent[c]])

\* An intent a call has reserved is nobody else's yet.
Holds(k, i) ==
  /\ provider[i] # "none"
  /\ \A c \in Charges : intent[c] # i
  /\ \A x \in Calls : call[x].intent = i => x = k

CallInv ==
  \A k \in Calls : \A i \in Intents : call[k].intent = i => Holds(k, i)

Justified(w) ==
  LET c == job[w].charge IN
  /\ status[c] # "none"
  /\ job[w].at = "refund" => job[w].source = "admin"
  /\ job[w].at # "refund" => job[w].type \in Sent(provider[intent[c]])
  /\ job[w].at = "apply" => job[w].type \in events[c]
  /\ job[w].source = "admin" =>
       status[c] \in {"completed", "refunded"} /\ job[w].type = "refunded"

JobInv == \A w \in Writers : job[w] # Idle => Justified(w)

TodoInv == \A c \in todo : status[c] # "none"

IInv == TypeOK /\ BoundInv /\ EventBeforeStatus /\ CallInv /\ JobInv /\ TodoInv

-----------------------------------------------------------------------------
(* Type correctness.                                                       *)

LEMMA InitTypeOK == Init => TypeOK
  BY DEF Init, TypeOK, EventTypes, NoCall, Idle

LEMMA CallTypeOK ==
  ASSUME TypeOK, NEW k \in Calls, CallStep(k)
  PROVE  TypeOK'
<1> USE DEF TypeOK, ledgerVars
<1>1. ASSUME NEW c \in Charges, LookUpKey(k, c)
      PROVE  TypeOK'
  BY <1>1 DEF LookUpKey
<1>2. ASSUME NEW i \in Intents, ReserveIntent(k, i)
      PROVE  TypeOK'
  <2>1. call[k] \in [charge : Charges, intent : Intents \cup {NoIntent}]
    BY <1>2 DEF ReserveIntent, NoCall
  <2>2. [call[k] EXCEPT !.intent = i] \in [charge : Charges, intent : Intents \cup {NoIntent}]
    BY <2>1
  <2>3. call' \in [Calls -> [charge : Charges, intent : Intents \cup {NoIntent}] \cup {NoCall}]
    BY <1>2, <2>2 DEF ReserveIntent
  <2> QED  BY <1>2, <2>3 DEF ReserveIntent
<1>3. CASE CreatePaymentIntent(k)
  BY <1>3 DEF CreatePaymentIntent, NoCall
<1>4. CASE AbandonCall(k)
  BY <1>4 DEF AbandonCall
<1> QED  BY <1>1, <1>2, <1>3, <1>4 DEF CallStep

LEMMA JobTypes ==
  ASSUME TypeOK, NEW w \in Writers, job[w] # Idle
  PROVE  job[w] \in Job /\ job[w].charge \in Charges /\ job[w].type \in EventTypes
  BY DEF TypeOK, Job

LEMMA NextStepType ==
  ASSUME TypeOK, NEW w \in Writers, job[w] # Idle, NEW at \in {"record", "apply"},
         NextStep(w, at)
  PROVE  /\ job' \in [Writers -> Job \cup {Idle}]
         /\ job'[w] = [job[w] EXCEPT !.at = at]
<1>1. job[w] \in Job
  BY JobTypes
<1>2. [job[w] EXCEPT !.at = at] \in Job
  BY <1>1 DEF Job
<1> QED  BY <1>2 DEF NextStep, TypeOK

LEMMA HandlerTypeOK ==
  ASSUME TypeOK, NEW h \in Handlers, HandlerStep(h)
  PROVE  TypeOK'
<1> h \in Writers
  BY WriterKinds
<1>1. ASSUME NEW c \in Charges, NEW t \in EventTypes, RecordWebhook(h, c, t)
      PROVE  TypeOK'
  <2>1. [at |-> "apply", source |-> "webhook", charge |-> c, type |-> t] \in Job
    BY DEF Job
  <2> QED  BY <1>1, <2>1 DEF RecordWebhook, Record, TypeOK
<1>2. ASSUME NEW c \in Charges, ReadForRefund(h, c)
      PROVE  TypeOK'
  <2>1. [at |-> "refund", source |-> "admin", charge |-> c, type |-> "refunded"] \in Job
    BY DEF Job, EventTypes
  <2> QED  BY <1>2, <2>1 DEF ReadForRefund, ledgerVars, TypeOK
<1>3. CASE RefundPayment(h)
  <2>1. job[h] # Idle
    BY <1>3 DEF RefundPayment, Idle
  <2>2. job' \in [Writers -> Job \cup {Idle}]
    BY <1>3, <2>1, NextStepType DEF RefundPayment, TypeOK
  <2> QED  BY <1>3, <2>2 DEF RefundPayment, ledgerVars, TypeOK
<1> QED  BY <1>1, <1>2, <1>3 DEF HandlerStep

LEMMA WriterTypeOK ==
  ASSUME TypeOK, NEW w \in Writers, WriterStep(w)
  PROVE  TypeOK'
<1>1. CASE RecordPaymentEvent(w)
  <2>1. job[w] # Idle
    BY <1>1 DEF RecordPaymentEvent, Idle
  <2>2. job' \in [Writers -> Job \cup {Idle}]
    BY <1>1, <2>1, NextStepType DEF RecordPaymentEvent, TypeOK
  <2> QED  BY <1>1, <2>1, <2>2, JobTypes DEF RecordPaymentEvent, Record, TypeOK
<1>2. CASE ApplyPaymentEventStatus(w)
  <2>1. job[w] # Idle
    BY <1>2 DEF ApplyPaymentEventStatus, Idle
  <2> QED  BY <1>2, <2>1, JobTypes DEF ApplyPaymentEventStatus, TypeOK
<1>3. CASE Stop(w)
  BY <1>3 DEF Stop, ledgerVars, TypeOK
<1> QED  BY <1>1, <1>2, <1>3 DEF WriterStep

LEMMA IntentOfStored ==
  ASSUME TypeOK, BoundInv, NEW c \in Charges, status[c] # "none"
  PROVE  intent[c] \in Intents /\ provider[intent[c]] \in ProviderStates \ {"none"}
  BY DEF TypeOK, BoundInv, ProviderStates

LEMMA PassTypeOK ==
  ASSUME TypeOK, BoundInv, TodoInv, PassStep
  PROVE  TypeOK'
<1>1. CASE GetPendingCharges
  BY <1>1 DEF GetPendingCharges, Oldest, Unsettled, ledgerVars, TypeOK
<1>2. ASSUME NEW c \in Charges, GetPaymentStatus(c)
      PROVE  TypeOK'
  <2>1. PICK t \in Polled(provider[intent[c]]) :
          job' = [job EXCEPT ![Worker] =
                    [at |-> "record", source |-> "reconciliation", charge |-> c, type |-> t]]
    BY <1>2 DEF GetPaymentStatus
  <2>2. t \in EventTypes
    <3>1. status[c] # "none"
      BY <1>2 DEF GetPaymentStatus, AtCharge, TodoInv
    <3> QED  BY <3>1, IntentOfStored, SentIsSubset
  <2>3. [at |-> "record", source |-> "reconciliation", charge |-> c, type |-> t] \in Job
    BY <2>2 DEF Job
  <2> QED  BY <1>2, <2>1, <2>3 DEF GetPaymentStatus, ledgerVars, TypeOK
<1>3. ASSUME NEW c \in Charges, SkipCharge(c)
      PROVE  TypeOK'
  BY <1>3 DEF SkipCharge, ledgerVars, TypeOK
<1> QED  BY <1>1, <1>2, <1>3 DEF PassStep

LEMMA NextTypeOK ==
  ASSUME TypeOK, BoundInv, TodoInv, [Next]_vars
  PROVE  TypeOK'
<1>1. CASE UNCHANGED vars
  BY <1>1 DEF vars, TypeOK
<1>2. ASSUME NEW i \in Intents, ProviderDecides(i) \/ ProviderRefunds(i)
      PROVE  TypeOK'
  BY <1>2 DEF ProviderDecides, ProviderRefunds, ledgerVars, TypeOK
<1> QED
  BY <1>1, <1>2, CallTypeOK, HandlerTypeOK, WriterTypeOK, PassTypeOK DEF Next

-----------------------------------------------------------------------------
(* No step takes back what others rely on.                                 *)

Grows ==
  /\ \A c \in Charges : status[c] # "none" =>
       /\ intent'[c] = intent[c]
       /\ status'[c] # "none"
       /\ status[c] \in {"completed", "refunded"} => status'[c] \in {"completed", "refunded"}
  /\ \A c \in Charges : events[c] \subseteq events'[c]
  /\ \A i \in Intents : Sent(provider[i]) \subseteq Sent(provider'[i])

LEMMA ProviderGrows ==
  ASSUME TypeOK, NEW i \in Intents, NEW s \in ProviderStates,
         provider' = [provider EXCEPT ![i] = s],
         <<provider[i], s>> \in {<<"none", "open">>, <<"open", "paid">>,
                                <<"open", "declined">>, <<"paid", "refunded">>}
  PROVE  \A x \in Intents :
           /\ Sent(provider[x]) \subseteq Sent(provider'[x])
           /\ provider[x] # "none" => provider'[x] # "none"
<1>1. Sent(provider[i]) \subseteq Sent(s)
  BY DEF Sent
<1> QED  BY <1>1 DEF TypeOK

LEMMA NextGrows ==
  ASSUME IInv, [Next]_vars
  PROVE  Grows
<1> USE DEF IInv, ledgerVars
<1>1. CASE UNCHANGED vars
  BY <1>1 DEF vars, Grows
<1>2. ASSUME NEW k \in Calls, CallStep(k)
      PROVE  Grows
  <2>1. ASSUME NEW i \in Intents, ReserveIntent(k, i)
        PROVE  Grows
    BY <2>1, ProviderGrows DEF ReserveIntent, ProviderStates, Grows
  <2>2. CASE CreatePaymentIntent(k)
    BY <2>2 DEF CreatePaymentIntent, Grows, TypeOK
  <2> QED  BY <1>2, <2>1, <2>2 DEF CallStep, LookUpKey, AbandonCall, Grows
<1>3. ASSUME NEW h \in Handlers, HandlerStep(h)
      PROVE  Grows
  <2>1. ASSUME NEW c \in Charges, NEW t \in EventTypes, RecordWebhook(h, c, t)
        PROVE  Grows
    BY <2>1 DEF RecordWebhook, Record, Grows, TypeOK
  <2>2. CASE RefundPayment(h)
    <3>1. h \in Writers /\ job[h] # Idle
      BY <2>2, WriterKinds DEF RefundPayment, Idle
    <3>2. intent[job[h].charge] \in Intents
      BY <3>1, JobTypes, IntentOfStored DEF JobInv, Justified
    <3> QED  BY <2>2, <3>2, ProviderGrows DEF RefundPayment, ProviderStates, Grows
  <2> QED  BY <1>3, <2>1, <2>2 DEF HandlerStep, ReadForRefund, Grows
<1>4. ASSUME NEW w \in Writers, WriterStep(w)
      PROVE  Grows
  <2>1. CASE RecordPaymentEvent(w)
    BY <2>1, JobTypes DEF RecordPaymentEvent, Record, Grows, TypeOK, Idle
  <2>2. CASE ApplyPaymentEventStatus(w)
    <3>1. job[w] # Idle
      BY <2>2 DEF ApplyPaymentEventStatus, Idle
    <3>2. job[w].charge \in Charges /\ job[w].type \in EventTypes
      BY <3>1, JobTypes
    <3> QED  BY <2>2, <3>2 DEF ApplyPaymentEventStatus, Accepts, Grows, TypeOK, EventTypes
  <2> QED  BY <1>4, <2>1, <2>2 DEF WriterStep, Stop, Grows
<1>5. CASE PassStep
  BY <1>5 DEF PassStep, GetPendingCharges, GetPaymentStatus, SkipCharge, Grows
<1>6. ASSUME NEW i \in Intents, ProviderDecides(i) \/ ProviderRefunds(i)
      PROVE  Grows
  BY <1>6, ProviderGrows DEF ProviderDecides, ProviderRefunds, ProviderStates, Grows
<1> QED  BY <1>1, <1>2, <1>3, <1>4, <1>5, <1>6 DEF Next

-----------------------------------------------------------------------------
(* The parts of the invariant, each along Next.                            *)

LEMMA NextBound ==
  ASSUME IInv, [Next]_vars
  PROVE  BoundInv'
<1> USE DEF IInv, ledgerVars
<1>1. ASSUME UNCHANGED <<status, intent>>,
             \A i \in Intents : provider[i] # "none" => provider'[i] # "none"
      PROVE  BoundInv'
  BY <1>1, NextGrows, IntentOfStored DEF BoundInv, Grows, EventTypes
<1>2. ASSUME NEW k \in Calls, CreatePaymentIntent(k)
      PROVE  BoundInv'
  <2>1. call[k].charge \in Charges /\ call[k].intent \in Intents
    BY <1>2 DEF CreatePaymentIntent, TypeOK, NoCall
  <2>2. provider[call[k].intent] # "none"
    BY <2>1 DEF CallInv, Holds
  <2> QED
    BY <1>2, <2>1, <2>2, IntentsAssumption
       DEF CreatePaymentIntent, TypeOK, BoundInv, EventTypes
<1>3. ASSUME NEW w \in Writers, ApplyPaymentEventStatus(w)
      PROVE  BoundInv'
  <2>1. job[w] # Idle /\ job[w].at # "refund"
    BY <1>3 DEF ApplyPaymentEventStatus, Idle
  <2>2. job[w].charge \in Charges /\ job[w].type \in EventTypes
    BY <2>1, JobTypes
  <2>3. /\ status[job[w].charge] # "none"
        /\ job[w].type \in Sent(provider[intent[job[w].charge]])
    BY <2>1 DEF JobInv, Justified
  <2>4. status' = [status EXCEPT ![job[w].charge] = job[w].type] \/ status' = status
    BY <1>3, <2>2 DEF ApplyPaymentEventStatus, TypeOK
  <2> QED
    BY <1>3, <2>2, <2>3, <2>4 DEF ApplyPaymentEventStatus, TypeOK, BoundInv, EventTypes
<1>4. ASSUME NEW i \in Intents, NEW s \in ProviderStates \ {"none"},
             provider' = [provider EXCEPT ![i] = s]
      PROVE  \A x \in Intents : provider[x] # "none" => provider'[x] # "none"
  BY <1>4 DEF TypeOK
<1>5. ASSUME NEW k \in Calls, CallStep(k)
      PROVE  BoundInv'
  BY <1>1, <1>2, <1>4, <1>5
     DEF CallStep, LookUpKey, ReserveIntent, AbandonCall, ProviderStates
<1>6. ASSUME NEW h \in Handlers, HandlerStep(h)
      PROVE  BoundInv'
  <2>1. CASE RefundPayment(h)
    <3>1. h \in Writers /\ job[h] # Idle
      BY <2>1, WriterKinds DEF RefundPayment, Idle
    <3>2. intent[job[h].charge] \in Intents
      BY <3>1, JobTypes, IntentOfStored DEF JobInv, Justified
    <3> QED  BY <1>1, <1>4, <2>1, <3>2 DEF RefundPayment, ProviderStates
  <2> QED  BY <1>1, <1>6, <2>1 DEF HandlerStep, RecordWebhook, ReadForRefund
<1>7. ASSUME NEW w \in Writers, WriterStep(w)
      PROVE  BoundInv'
  BY <1>1, <1>3, <1>7 DEF WriterStep, RecordPaymentEvent, Stop
<1>8. CASE PassStep
  BY <1>1, <1>8 DEF PassStep, GetPendingCharges, GetPaymentStatus, SkipCharge
<1>9. ASSUME NEW i \in Intents, ProviderDecides(i) \/ ProviderRefunds(i)
      PROVE  BoundInv'
  BY <1>1, <1>4, <1>9 DEF ProviderDecides, ProviderRefunds, ProviderStates
<1>10. CASE UNCHANGED vars
  BY <1>1, <1>10 DEF vars
<1> QED  BY <1>5, <1>6, <1>7, <1>8, <1>9, <1>10 DEF Next

LEMMA NextEventBefore ==
  ASSUME IInv, [Next]_vars
  PROVE  EventBeforeStatus'
<1> USE DEF IInv, ledgerVars
<1>1. ASSUME UNCHANGED status
      PROVE  EventBeforeStatus'
  BY <1>1, NextGrows DEF EventBeforeStatus, Grows
<1>2. ASSUME NEW k \in Calls, CreatePaymentIntent(k)
      PROVE  EventBeforeStatus'
  BY <1>2, NextGrows
     DEF CreatePaymentIntent, EventBeforeStatus, EventTypes, TypeOK, Grows
<1>3. ASSUME NEW w \in Writers, ApplyPaymentEventStatus(w)
      PROVE  EventBeforeStatus'
  <2>1. job[w] # Idle
    BY <1>3 DEF ApplyPaymentEventStatus, Idle
  <2>2. job[w].type \in events[job[w].charge]
    BY <1>3, <2>1 DEF ApplyPaymentEventStatus, JobInv, Justified
  <2>3. status' = [status EXCEPT ![job[w].charge] = job[w].type] \/ status' = status
    BY <1>3, <2>1, JobTypes DEF ApplyPaymentEventStatus, TypeOK
  <2> QED
    BY <1>3, <2>2, <2>3 DEF ApplyPaymentEventStatus, EventBeforeStatus, TypeOK
<1>4. CASE \E k \in Calls : CallStep(k)
  BY <1>1, <1>2, <1>4 DEF CallStep, LookUpKey, ReserveIntent, AbandonCall
<1>5. CASE \E h \in Handlers : HandlerStep(h)
  BY <1>1, <1>5 DEF HandlerStep, RecordWebhook, ReadForRefund, RefundPayment
<1>6. CASE \E w \in Writers : WriterStep(w)
  BY <1>1, <1>3, <1>6 DEF WriterStep, RecordPaymentEvent, Stop
<1>7. CASE PassStep \/ UNCHANGED vars
  BY <1>1, <1>7 DEF PassStep, GetPendingCharges, GetPaymentStatus, SkipCharge, vars
<1>8. CASE \E i \in Intents : ProviderDecides(i) \/ ProviderRefunds(i)
  BY <1>1, <1>8 DEF ProviderDecides, ProviderRefunds
<1> QED  BY <1>4, <1>5, <1>6, <1>7, <1>8 DEF Next

LEMMA NextCall ==
  ASSUME IInv, [Next]_vars
  PROVE  CallInv'
<1> USE DEF IInv, ledgerVars
<1>0. call \in [Calls -> [charge : Charges, intent : Intents \cup {NoIntent}] \cup {NoCall}]
  BY DEF TypeOK
<1>1. ASSUME \A k \in Calls : call'[k] = call[k] \/ call'[k].intent = NoIntent,
             UNCHANGED intent,
             \A i \in Intents : provider[i] # "none" => provider'[i] # "none"
      PROVE  CallInv'
  BY <1>1, IntentsAssumption DEF CallInv, Holds
<1>2. ASSUME NEW k \in Calls, CreatePaymentIntent(k)
      PROVE  CallInv'
  <2>1. /\ call[k].intent \in Intents
        /\ \A x \in Calls : x # k => call'[x] = call[x]
        /\ call'[k].intent = NoIntent
    BY <1>0, <1>2 DEF CreatePaymentIntent, NoCall
  <2>2. \A x \in Calls : x # k => call[x].intent # call[k].intent
    BY <2>1 DEF CallInv, Holds
  <2>3. \A c \in Charges : intent'[c] = intent[c] \/ intent'[c] = call[k].intent
    BY <1>2 DEF CreatePaymentIntent, TypeOK
  <2> QED
    BY <1>2, <2>1, <2>2, <2>3, IntentsAssumption DEF CreatePaymentIntent, CallInv, Holds
<1>3. ASSUME NEW k \in Calls, NEW i \in Intents, ReserveIntent(k, i)
      PROVE  CallInv'
  <2>1. /\ \A x \in Calls : x # k => call'[x] = call[x]
        /\ call'[k].intent \in {i, NoIntent}
    BY <1>0, <1>3 DEF ReserveIntent, NoCall
  <2>2. provider'[i] # "none" /\ \A x \in Intents : x # i => provider'[x] = provider[x]
    BY <1>3 DEF ReserveIntent, TypeOK
  <2>3. \A c \in Charges : intent[c] # i
    BY <1>3, IntentsAssumption DEF ReserveIntent, BoundInv
  <2>4. \A x \in Calls : call[x].intent # i
    BY <1>3 DEF ReserveIntent, CallInv, Holds
  <2> QED
    BY <1>3, <2>1, <2>2, <2>3, <2>4, IntentsAssumption DEF ReserveIntent, CallInv, Holds
<1>4. CASE \E k \in Calls : CallStep(k)
  <2>1. ASSUME NEW k \in Calls, NEW c \in Charges, LookUpKey(k, c)
        PROVE  CallInv'
    BY <1>0, <1>1, <2>1 DEF LookUpKey
  <2>2. ASSUME NEW k \in Calls, AbandonCall(k)
        PROVE  CallInv'
    BY <1>0, <1>1, <2>2 DEF AbandonCall, NoCall
  <2> QED  BY <1>2, <1>3, <1>4, <2>1, <2>2 DEF CallStep
<1>5. ASSUME NEW i \in Intents, NEW s \in ProviderStates \ {"none"},
             provider' = [provider EXCEPT ![i] = s]
      PROVE  \A x \in Intents : provider[x] # "none" => provider'[x] # "none"
  BY <1>5 DEF TypeOK
<1>6. ASSUME NEW h \in Handlers, HandlerStep(h)
      PROVE  CallInv'
  <2>1. CASE RefundPayment(h)
    <3>1. h \in Writers /\ job[h] # Idle
      BY <2>1, WriterKinds DEF RefundPayment, Idle
    <3>2. intent[job[h].charge] \in Intents
      BY <3>1, JobTypes, IntentOfStored DEF JobInv, Justified
    <3> QED  BY <1>1, <1>5, <2>1, <3>2 DEF RefundPayment, ProviderStates
  <2> QED  BY <1>1, <1>6, <2>1 DEF HandlerStep, RecordWebhook, ReadForRefund
<1>7. CASE \E w \in Writers : WriterStep(w)
  BY <1>1, <1>7 DEF WriterStep, RecordPaymentEvent, ApplyPaymentEventStatus, Stop
<1>8. CASE PassStep \/ UNCHANGED vars
  BY <1>1, <1>8 DEF PassStep, GetPendingCharges, GetPaymentStatus, SkipCharge, vars
<1>9. ASSUME NEW i \in Intents, ProviderDecides(i) \/ ProviderRefunds(i)
      PROVE  CallInv'
  BY <1>1, <1>5, <1>9 DEF ProviderDecides, ProviderRefunds, ProviderStates
<1> QED  BY <1>4, <1>6, <1>7, <1>8, <1>9 DEF Next

\* Growth keeps every pending event justified; only the writer that moved is left.
LEMMA JobFrame ==
  ASSUME IInv, Grows, TypeOK', NEW w \in Writers, job[w] # Idle, job'[w] = job[w]
  PROVE  Justified(w)'
<1>1. job[w].charge \in Charges /\ Justified(w)
  BY JobTypes DEF IInv, JobInv
<1>2. intent[job[w].charge] \in Intents
  BY <1>1, IntentOfStored DEF IInv, Justified
<1> QED  BY <1>1, <1>2 DEF Justified, Grows

LEMMA NextJob ==
  ASSUME IInv, [Next]_vars
  PROVE  JobInv'
<1> USE DEF IInv, ledgerVars
<1>1. Grows /\ TypeOK'
  BY NextGrows, NextTypeOK
<1>2. ASSUME NEW w \in Writers, \A x \in Writers : x # w => job'[x] = job[x],
             job'[w] \in {job[w], Idle} \/ Justified(w)'
      PROVE  JobInv'
  BY <1>1, <1>2, JobFrame DEF JobInv
<1>3. ASSUME UNCHANGED job
      PROVE  JobInv'
  BY <1>1, <1>3, JobFrame DEF JobInv
<1>4. ASSUME NEW h \in Handlers, HandlerStep(h)
      PROVE  JobInv'
  <2>0. h \in Writers
    BY WriterKinds
  <2>1. ASSUME NEW c \in Charges, NEW t \in EventTypes, RecordWebhook(h, c, t)
        PROVE  JobInv'
    <3>1. CASE UNCHANGED job
      BY <1>3, <3>1
    <3>2. CASE job' = [job EXCEPT ![h] =
                         [at |-> "apply", source |-> "webhook", charge |-> c, type |-> t]]
      <4>1. /\ job'[h] = [at |-> "apply", source |-> "webhook", charge |-> c, type |-> t]
            /\ \A x \in Writers : x # h => job'[x] = job[x]
            /\ t \in events'[c]
        BY <2>0, <2>1, <3>2 DEF RecordWebhook, Record, TypeOK
      <4>2. Justified(h)'
        BY <2>1, <4>1 DEF RecordWebhook, Justified
      <4> QED  BY <1>2, <2>0, <4>1, <4>2
    <3> QED  BY <2>1, <3>1, <3>2 DEF RecordWebhook
  <2>2. ASSUME NEW c \in Charges, ReadForRefund(h, c)
        PROVE  JobInv'
    <3>1. /\ job'[h] = [at |-> "refund", source |-> "admin", charge |-> c, type |-> "refunded"]
          /\ \A x \in Writers : x # h => job'[x] = job[x]
      BY <2>0, <2>2 DEF ReadForRefund, TypeOK
    <3>2. Justified(h)'
      BY <2>2, <3>1 DEF ReadForRefund, Justified
    <3> QED  BY <1>2, <2>0, <3>1, <3>2
  <2>3. CASE RefundPayment(h)
    <3>1. job[h] # Idle /\ Justified(h) /\ job[h].source = "admin"
      BY <2>0, <2>3 DEF RefundPayment, Idle, JobInv, Justified
    <3>2. intent[job[h].charge] \in Intents
      BY <2>0, <3>1, JobTypes, IntentOfStored DEF Justified
    <3>3. "refunded" \in Sent(provider'[intent[job[h].charge]])
      BY <2>3, <3>2 DEF RefundPayment, TypeOK, Sent
    <3>4. \A x \in Writers : x # h => job'[x] = job[x]
      BY <2>3 DEF RefundPayment, NextStep, TypeOK
    <3>5. CASE NextStep(h, "record")
      <4>1. job'[h] = [job[h] EXCEPT !.at = "record"] /\ job[h] \in Job
        BY <2>0, <3>1, <3>5, JobTypes, NextStepType
      <4>2. /\ job'[h].at = "record" /\ job'[h].source = "admin"
            /\ job'[h].charge = job[h].charge /\ job'[h].type = job[h].type
        BY <3>1, <4>1 DEF Job
      <4>3. Justified(h)'
        BY <2>3, <3>1, <3>3, <4>2 DEF RefundPayment, Justified
      <4> QED  BY <1>2, <2>0, <3>4, <4>3
    <3>6. CASE job' = [job EXCEPT ![h] = Idle]
      BY <1>2, <2>0, <3>4, <3>6 DEF TypeOK
    <3> QED  BY <2>3, <3>5, <3>6 DEF RefundPayment
  <2> QED  BY <1>4, <2>1, <2>2, <2>3 DEF HandlerStep
<1>5. ASSUME NEW w \in Writers, WriterStep(w)
      PROVE  JobInv'
  <2>1. CASE RecordPaymentEvent(w) /\ NextStep(w, "apply")
    <3>1. job[w] # Idle /\ Justified(w) /\ job[w].at = "record"
      BY <2>1 DEF RecordPaymentEvent, Idle, JobInv
    <3>2. job[w] \in Job /\ job'[w] = [job[w] EXCEPT !.at = "apply"]
      BY <2>1, <3>1, JobTypes, NextStepType
    <3>3. /\ job'[w].at = "apply" /\ job'[w].source = job[w].source
          /\ job'[w].charge = job[w].charge /\ job'[w].type = job[w].type
      BY <3>2 DEF Job
    <3>4. job[w].type \in events'[job[w].charge]
      BY <2>1, <3>1, JobTypes DEF RecordPaymentEvent, Record, TypeOK
    <3>5. Justified(w)'
      BY <2>1, <3>1, <3>3, <3>4 DEF RecordPaymentEvent, Justified
    <3>6. \A x \in Writers : x # w => job'[x] = job[x]
      BY <2>1 DEF NextStep, TypeOK
    <3> QED  BY <1>2, <3>5, <3>6
  <2>2. CASE job' = [job EXCEPT ![w] = Idle]
    BY <1>2, <2>2 DEF TypeOK
  <2> QED
    BY <1>5, <2>1, <2>2
       DEF WriterStep, RecordPaymentEvent, ApplyPaymentEventStatus, Stop
<1>6. ASSUME NEW c \in Charges, GetPaymentStatus(c)
      PROVE  JobInv'
  <2>1. PICK t \in Polled(provider[intent[c]]) :
          job' = [job EXCEPT ![Worker] =
                    [at |-> "record", source |-> "reconciliation", charge |-> c, type |-> t]]
    BY <1>6 DEF GetPaymentStatus
  <2>2. status[c] # "none"
    BY <1>6 DEF GetPaymentStatus, AtCharge, TodoInv
  <2>3. t \in Sent(provider[intent[c]])
    BY <2>2, IntentOfStored, SentIsSubset
  <2>4. /\ job'[Worker] =
              [at |-> "record", source |-> "reconciliation", charge |-> c, type |-> t]
        /\ \A x \in Writers : x # Worker => job'[x] = job[x]
    BY <2>1, WriterKinds DEF TypeOK
  <2>5. Justified(Worker)'
    BY <1>6, <2>2, <2>3, <2>4 DEF GetPaymentStatus, Justified
  <2> QED  BY <1>2, <2>4, <2>5, WriterKinds
<1>7. CASE PassStep
  BY <1>3, <1>6, <1>7 DEF PassStep, GetPendingCharges, SkipCharge
<1>8. CASE UNCHANGED vars
  BY <1>3, <1>8 DEF vars
<1>9. CASE (\E k \in Calls : CallStep(k))
           \/ (\E i \in Intents : ProviderDecides(i) \/ ProviderRefunds(i))
  BY <1>3, <1>9
     DEF CallStep, LookUpKey, ReserveIntent, CreatePaymentIntent, AbandonCall,
         ProviderDecides, ProviderRefunds
<1> QED  BY <1>4, <1>5, <1>7, <1>8, <1>9 DEF Next

LEMMA NextTodo ==
  ASSUME IInv, [Next]_vars
  PROVE  TodoInv'
<1> USE DEF IInv, ledgerVars
<1>1. ASSUME todo' \subseteq todo
      PROVE  TodoInv'
  BY <1>1, NextGrows DEF TodoInv, TypeOK, Grows
<1>2. CASE GetPendingCharges
  BY <1>2 DEF GetPendingCharges, Oldest, Unsettled, TodoInv
<1>3. CASE \E k \in Calls : CallStep(k)
  BY <1>1, <1>3 DEF CallStep, LookUpKey, ReserveIntent, CreatePaymentIntent, AbandonCall
<1>4. CASE \E h \in Handlers : HandlerStep(h)
  BY <1>1, <1>4 DEF HandlerStep, RecordWebhook, ReadForRefund, RefundPayment
<1>5. CASE \E w \in Writers : WriterStep(w)
  BY <1>1, <1>5 DEF WriterStep, RecordPaymentEvent, ApplyPaymentEventStatus, Stop
<1>6. CASE PassStep
  BY <1>1, <1>2, <1>6 DEF PassStep, GetPaymentStatus, SkipCharge
<1>7. CASE \/ UNCHANGED vars
           \/ \E i \in Intents : ProviderDecides(i) \/ ProviderRefunds(i)
  BY <1>1, <1>7 DEF ProviderDecides, ProviderRefunds, vars
<1> QED  BY <1>3, <1>4, <1>5, <1>6, <1>7 DEF Next

LEMMA InitIInv == Init => IInv
<1> SUFFICES ASSUME Init
             PROVE  IInv
  OBVIOUS
<1>1. TypeOK
  BY InitTypeOK
<1>2. BoundInv /\ EventBeforeStatus
  BY DEF Init, BoundInv, EventBeforeStatus, EventTypes
<1>3. CallInv
  BY IntentsAssumption DEF Init, CallInv, NoCall
<1>4. JobInv /\ TodoInv
  BY DEF Init, JobInv, TodoInv
<1> QED  BY <1>1, <1>2, <1>3, <1>4 DEF IInv

LEMMA NextIInv ==
  ASSUME IInv, [Next]_vars
  PROVE  IInv'
  BY NextTypeOK, NextBound, NextEventBefore, NextCall, NextJob, NextTodo DEF IInv

-----------------------------------------------------------------------------
(* Theorems.                                                               *)

LEMMA Invariance == Spec => []IInv
  BY InitIInv, NextIInv, PTL DEF Spec

\* Every state the intent requests, webhooks, refunds and passes reach is well typed.
THEOREM TypeCorrect == Spec => []TypeOK
<1>1. IInv => TypeOK
  BY DEF IInv
<1> QED  BY <1>1, Invariance, PTL

\* No crash and no interleaving of the record and apply statements leaves a status
\* that no recorded payment event explains.
THEOREM StatusExplained == Spec => []EventBeforeStatus
<1>1. IInv => EventBeforeStatus
  BY DEF IInv
<1> QED  BY <1>1, Invariance, PTL

\* The refund an admin's call has made the provider execute is never refused by
\* ApplyPaymentEventStatus, whatever runs in between.
THEOREM RefundApplies == Spec => []ExecutedRefundApplies
<1>1. IInv => ExecutedRefundApplies
  BY WriterKinds DEF IInv, JobInv, Justified, ExecutedRefundApplies, Idle
<1> QED  BY <1>1, Invariance, PTL

-----------------------------------------------------------------------------
(* The ledger implements PaymentMirror: the state is the same three         *)
(* functions, and the calls, jobs and passes in flight are hidden.          *)

LEMMA ReportedIsSent ==
  ASSUME NEW p
  PROVE  M!Reported(p) = Sent(p)
  BY DEF M!Reported, Sent

LEMMA ProviderMovesOn ==
  ASSUME TypeOK, NEW i \in Intents, UNCHANGED <<status, intent>>,
         NEW s \in ProviderStates, provider' = [provider EXCEPT ![i] = s],
         <<provider[i], s>> \in {<<"none", "open">>, <<"open", "paid">>,
                                <<"open", "declined">>, <<"paid", "refunded">>}
  PROVE  M!Next
<1>1. M!ProviderMoves(i)
  BY DEF M!ProviderMoves
<1> QED  BY <1>1 DEF M!Next

LEMMA StoreBinds ==
  ASSUME IInv, NEW k \in Calls, CreatePaymentIntent(k)
  PROVE  [M!Next]_(M!vars)
<1>1. call[k].charge \in Charges /\ call[k].intent \in Intents
  BY DEF IInv, CreatePaymentIntent, TypeOK, NoCall
<1>2. Holds(k, call[k].intent)
  BY <1>1 DEF IInv, CallInv
<1>3. CASE status[call[k].charge] = "none"
  <2>1. M!Bind(call[k].charge, call[k].intent)
    BY <1>2, <1>3 DEF CreatePaymentIntent, M!Bind, Holds
  <2> QED  BY <1>1, <2>1 DEF M!Next
<1>4. CASE status[call[k].charge] # "none"
  BY <1>4 DEF CreatePaymentIntent, M!vars
<1> QED  BY <1>3, <1>4

LEMMA ApplyCatchesUp ==
  ASSUME IInv, NEW w \in Writers, ApplyPaymentEventStatus(w)
  PROVE  [M!Next]_(M!vars)
<1> DEFINE c == job[w].charge
           t == job[w].type
<1>1. job[w] # Idle /\ job[w].at # "refund"
  BY DEF ApplyPaymentEventStatus, Idle
<1>2. c \in Charges /\ t \in EventTypes /\ Justified(w)
  BY <1>1, JobTypes DEF IInv, JobInv
<1>3. t \in M!Reported(provider[intent[c]])
  BY <1>1, <1>2, ReportedIsSent DEF Justified
<1>4. CASE Accepts(status[c], t) /\ status[c] # t
  <2>1. t \in M!Later(status[c])
    BY <1>2, <1>4 DEF Accepts, M!Later, EventTypes
  <2>2. status' = [status EXCEPT ![c] = t]
    BY <1>2, <1>4 DEF ApplyPaymentEventStatus, IInv, TypeOK
  <2>3. M!CatchUp(c)
    BY <1>2, <1>3, <2>1, <2>2 DEF ApplyPaymentEventStatus, M!CatchUp, Justified
  <2> QED  BY <1>2, <2>3 DEF M!Next
<1>5. CASE ~Accepts(status[c], t) \/ status[c] = t
  <2>1. status' = status
    BY <1>2, <1>5 DEF ApplyPaymentEventStatus, IInv, TypeOK
  <2> QED  BY <2>1 DEF ApplyPaymentEventStatus, M!vars
<1> QED  BY <1>4, <1>5

LEMMA NextMirrors ==
  ASSUME IInv, [Next]_vars
  PROVE  [M!Next]_(M!vars)
<1> USE DEF ledgerVars
<1>1. ASSUME NEW k \in Calls, NEW i \in Intents, ReserveIntent(k, i)
      PROVE  [M!Next]_(M!vars)
  BY <1>1, ProviderMovesOn DEF ReserveIntent, ProviderStates, IInv
<1>2. ASSUME NEW h \in Handlers, RefundPayment(h)
      PROVE  [M!Next]_(M!vars)
  <2>1. h \in Writers /\ job[h] # Idle
    BY <1>2, WriterKinds DEF RefundPayment, Idle
  <2>2. intent[job[h].charge] \in Intents
    BY <2>1, JobTypes, IntentOfStored DEF IInv, JobInv, Justified
  <2> QED  BY <1>2, <2>2, ProviderMovesOn DEF RefundPayment, ProviderStates, IInv
<1>3. ASSUME NEW i \in Intents, ProviderDecides(i) \/ ProviderRefunds(i)
      PROVE  [M!Next]_(M!vars)
  BY <1>3, ProviderMovesOn DEF ProviderDecides, ProviderRefunds, ProviderStates, IInv
<1>4. CASE \E k \in Calls : CallStep(k)
  BY <1>1, <1>4, StoreBinds DEF CallStep, LookUpKey, AbandonCall, M!vars
<1>5. CASE \E h \in Handlers : HandlerStep(h)
  BY <1>2, <1>5 DEF HandlerStep, RecordWebhook, ReadForRefund, M!vars
<1>6. CASE \E w \in Writers : WriterStep(w)
  BY <1>6, ApplyCatchesUp DEF WriterStep, RecordPaymentEvent, Stop, M!vars
<1>7. CASE PassStep \/ UNCHANGED vars
  BY <1>7 DEF PassStep, GetPendingCharges, GetPaymentStatus, SkipCharge, vars, M!vars
<1> QED  BY <1>3, <1>4, <1>5, <1>6, <1>7 DEF Next

\* Whatever webhooks are duplicated, reordered or lost and however the calls
\* interleave, the ledger follows the provider: it is never ahead of it, never
\* moves back, and a charge keeps the intent it was stored with.
THEOREM MirrorImplemented == Spec => Mirror
<1>1. Init => M!Init
  BY DEF Init, M!Init
<1>2. IInv /\ [Next]_vars => [M!Next]_(M!vars)
  BY NextMirrors
<1> QED  BY <1>1, <1>2, Invariance, PTL DEF Spec, Mirror, M!Spec
=============================================================================
