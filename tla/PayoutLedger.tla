---------------------------- MODULE PayoutLedger ----------------------------
(***************************************************************************)
(* Driver payouts: internal/payouts (ledger, webhook), the worker loop of  *)
(* cmd/worker and the provider behind the Executor interface.              *)
(*                                                                         *)
(* A database transaction of the ledger is one action.  RequestWithdrawal  *)
(* looks for active requests before its transaction: a call in `call` has  *)
(* passed that check.  A worker pass works through a list it read at its   *)
(* start, one provider call and then one ledger write per payout: `worker` *)
(* holds the rest of the list and the answer not yet written.  A crash     *)
(* forgets both, the provider forgets nothing.                             *)
(*                                                                         *)
(* Abstracted: methods and their bounds (Amounts are amounts a method      *)
(* allows), texts, timestamps, the audit log.  The provider is the HTTP    *)
(* one; its idempotency key is the request's id, so its state is kept per  *)
(* request.                                                                *)
(***************************************************************************)
EXTENDS Naturals, FiniteSets, Functions

CONSTANTS
  Payouts,       \* ids of payout_requests, numbered in order of requested_at
  Drivers, NoDriver,
  Amounts,       \* amounts a driver may ask for
  Opening,       \* the wallets' opening balances
  Calls,         \* withdrawal calls that may be in flight at once
  Workers,       \* running copies of cmd/worker
  BatchLimit,    \* payoutBatchLimit
  AdminSettles,  \* do admins also complete and fail approved requests by hand?
  RetryRefused   \* may the provider answer 4xx to a reference it already accepted?

ASSUME PayoutsAssumption == Payouts \subseteq Nat
ASSUME WalletAssumption ==
  /\ NoDriver \notin Drivers
  /\ Amounts \subseteq Nat \ {0}
  /\ Opening \in [Drivers -> Nat]
ASSUME LimitAssumption == BatchLimit \in Nat \ {0}
ASSUME EnvironmentAssumption == AdminSettles \in BOOLEAN /\ RetryRefused \in BOOLEAN

VARIABLES
  status,      \* payout_requests.status; "none" before the row exists
  owner,       \* payout_requests.driver_id
  amount,      \* payout_requests.amount_cents
  referenced,  \* requests whose reference_id is set
  balance,     \* driver_wallets.balance_cents
  debit,       \* status of the request's 'payout' wallet transaction
  refunds,     \* number of its 'adjustment' wallet transactions
  provider,    \* the provider's record of the request
  call,        \* withdrawals past the active-request check
  worker       \* per worker: phase, rest of its list, answer to write

vars == <<status, owner, amount, referenced, balance, debit, refunds,
          provider, call, worker>>

rowVars    == <<owner, amount>>
walletVars == <<balance, debit, refunds>>

InFlight == {"pending", "processing"}
Settled  == {"completed", "failed"}

NoCall == [driver |-> NoDriver, amount |-> 0]
Asleep == [phase |-> "idle", todo |-> {}, answer |-> "none"]

LedgerTypeOK ==
  /\ status \in [Payouts -> {"none"} \cup InFlight \cup Settled]
  /\ owner \in [Payouts -> Drivers \cup {NoDriver}]
  /\ amount \in [Payouts -> Amounts \cup {0}]
  /\ referenced \subseteq Payouts
  /\ balance \in [Drivers -> Nat]
  /\ debit \in [Payouts -> {"none", "pending", "completed", "reversed"}]
  /\ refunds \in [Payouts -> Nat]

Answers == {"none", "accepted", "rejected", "paid", "bounced"}

ProcessTypeOK ==
  /\ provider \in [Payouts -> {"unknown", "accepted", "paid", "bounced"}]
  /\ call \in [Calls -> [driver : Drivers, amount : Amounts] \cup {NoCall}]
  /\ worker \in [Workers -> [phase : {"idle", "submit", "poll"}, todo : SUBSET Payouts,
                             answer : Answers]]

TypeOK == LedgerTypeOK /\ ProcessTypeOK

Init ==
  /\ status = [p \in Payouts |-> "none"]
  /\ owner = [p \in Payouts |-> NoDriver]
  /\ amount = [p \in Payouts |-> 0]
  /\ referenced = {}
  /\ balance = Opening
  /\ debit = [p \in Payouts |-> "none"]
  /\ refunds = [p \in Payouts |-> 0]
  /\ provider = [p \in Payouts |-> "unknown"]
  /\ call = [c \in Calls |-> NoCall]
  /\ worker = [w \in Workers |-> Asleep]

-----------------------------------------------------------------------------
(* Transactions of the ledger.  An operator named Mut... is a variant of    *)
(* the one it stands above, with a bug that code could have; no action uses *)
(* it (see README, mutations).                                             *)

SetWalletTransactionStatus(p, s) ==
  debit' = [debit EXCEPT ![p] = IF @ = "pending" THEN s ELSE @]

\* No status in the WHERE clause.
MutCompletePayout(p) ==
  /\ status[p] # "none"
  /\ status' = [status EXCEPT ![p] = "completed"]
  /\ SetWalletTransactionStatus(p, "completed")
  /\ UNCHANGED <<rowVars, referenced, balance, refunds>>

CompletePayout(p) ==
  /\ status[p] = "processing"
  /\ status' = [status EXCEPT ![p] = "completed"]
  /\ SetWalletTransactionStatus(p, "completed")
  /\ UNCHANGED <<rowVars, referenced, balance, refunds>>

\* Only the read at the start of the transaction guards it (ledger.go:310-312).
MutFailPayout(p) ==
  /\ status[p] \notin {"none", "completed"}
  /\ status' = [status EXCEPT ![p] = "failed"]
  /\ SetWalletTransactionStatus(p, "reversed")
  /\ balance' = [balance EXCEPT ![owner[p]] = @ + amount[p]]
  /\ refunds' = [refunds EXCEPT ![p] = @ + 1]
  /\ UNCHANGED <<rowVars, referenced>>

\* The refund is not recorded as an adjustment.
MutUnrecordedRefund(p) ==
  /\ status[p] \in InFlight
  /\ status' = [status EXCEPT ![p] = "failed"]
  /\ SetWalletTransactionStatus(p, "reversed")
  /\ balance' = [balance EXCEPT ![owner[p]] = @ + amount[p]]
  /\ UNCHANGED <<rowVars, referenced, refunds>>

FailPayout(p) ==
  /\ status[p] \in InFlight
  /\ status' = [status EXCEPT ![p] = "failed"]
  /\ SetWalletTransactionStatus(p, "reversed")
  /\ balance' = [balance EXCEPT ![owner[p]] = @ + amount[p]]
  /\ refunds' = [refunds EXCEPT ![p] = @ + 1]
  /\ UNCHANGED <<rowVars, referenced>>

UnchangedLedger == UNCHANGED <<status, rowVars, referenced, walletVars>>

-----------------------------------------------------------------------------
(* Handlers of the API.                                                    *)

ActiveRequests(d) == {p \in Payouts : owner[p] = d /\ status[p] \in InFlight}

CheckActiveRequests(c, d, a) ==
  /\ call[c] = NoCall
  /\ ActiveRequests(d) = {}
  /\ call' = [call EXCEPT ![c] = [driver |-> d, amount |-> a]]
  /\ UnchangedLedger /\ UNCHANGED <<provider, worker>>

\* The deduction without its balance_cents >= amount guard.
MutRequestWithdrawal(c, p) ==
  /\ call[c] # NoCall
  /\ status[p] = "none" /\ \A x \in Payouts : x < p => status[x] # "none"
  /\ balance' = [balance EXCEPT ![call[c].driver] = @ - call[c].amount]
  /\ status' = [status EXCEPT ![p] = "pending"]
  /\ owner' = [owner EXCEPT ![p] = call[c].driver]
  /\ amount' = [amount EXCEPT ![p] = call[c].amount]
  /\ debit' = [debit EXCEPT ![p] = "pending"]
  /\ call' = [call EXCEPT ![c] = NoCall]
  /\ UNCHANGED <<referenced, refunds, provider, worker>>

RequestWithdrawal(c, p) ==
  LET d == call[c].driver
      a == call[c].amount IN
  /\ call[c] # NoCall
  /\ status[p] = "none" /\ \A x \in Payouts : x < p => status[x] # "none"
  /\ a <= balance[d]
  /\ balance' = [balance EXCEPT ![d] = @ - a]
  /\ status' = [status EXCEPT ![p] = "pending"]
  /\ owner' = [owner EXCEPT ![p] = d]
  /\ amount' = [amount EXCEPT ![p] = a]
  /\ debit' = [debit EXCEPT ![p] = "pending"]
  /\ call' = [call EXCEPT ![c] = NoCall]
  /\ UNCHANGED <<referenced, refunds, provider, worker>>

\* Insufficient balance, a lost client, a crash: the transaction rolls back.
AbandonWithdrawal(c) ==
  /\ call[c] # NoCall
  /\ call' = [call EXCEPT ![c] = NoCall]
  /\ UnchangedLedger /\ UNCHANGED <<provider, worker>>

ApprovePayout(p) ==
  /\ status[p] = "pending"
  /\ status' = [status EXCEPT ![p] = "processing"]
  /\ UNCHANGED <<rowVars, referenced, walletVars, provider, call, worker>>

AdminCompletes(p) ==
  /\ AdminSettles
  /\ CompletePayout(p)
  /\ UNCHANGED <<provider, call, worker>>

AdminFails(p) ==
  /\ status[p] = "pending" \/ AdminSettles
  /\ FailPayout(p)
  /\ UNCHANGED <<provider, call, worker>>

\* The provider reports an outcome at any time after it, any number of times;
\* a 'processing' callback changes nothing.
RecordPayoutCallback(p) ==
  /\ \/ provider[p] = "paid" /\ CompletePayout(p)
     \/ provider[p] = "bounced" /\ FailPayout(p)
  /\ UNCHANGED <<provider, call, worker>>

-----------------------------------------------------------------------------
(* The provider (external).                                                *)

ProviderDecides(p) ==
  /\ provider[p] = "accepted"
  /\ \E s \in {"paid", "bounced"} : provider' = [provider EXCEPT ![p] = s]
  /\ UnchangedLedger /\ UNCHANGED <<call, worker>>

-----------------------------------------------------------------------------
(* The worker: a submission pass, then a polling pass.                     *)

Oldest(S) == {p \in S : Cardinality({x \in S : x < p}) < BatchLimit}

NeedingSubmission   == {p \in Payouts : status[p] = "processing" /\ p \notin referenced}
InFlightAtProvider  == {p \in Payouts : status[p] = "processing" /\ p \in referenced}

SetWorker(w, phase, todo, answer) ==
  worker' = [worker EXCEPT ![w] = [phase |-> phase, todo |-> todo, answer |-> answer]]

\* The payout the pass of w is at.
AtPayout(w, phase, p) ==
  /\ worker[w].phase = phase
  /\ p \in worker[w].todo /\ \A x \in worker[w].todo : p <= x

StartSubmissions(w) ==
  /\ worker[w].phase = "idle"
  /\ SetWorker(w, "submit", Oldest(NeedingSubmission), "none")
  /\ UnchangedLedger /\ UNCHANGED <<provider, call>>

StartPolling(w) ==
  /\ worker[w].phase = "submit" /\ worker[w].todo = {}
  /\ SetWorker(w, "poll", Oldest(InFlightAtProvider), "none")
  /\ UnchangedLedger /\ UNCHANGED <<provider, call>>

EndPass(w) ==
  /\ worker[w].phase = "poll" /\ worker[w].todo = {}
  /\ SetWorker(w, "idle", {}, "none")
  /\ UnchangedLedger /\ UNCHANGED <<provider, call>>

NextPayout(w, p) == SetWorker(w, worker[w].phase, worker[w].todo \ {p}, "none")

Asks(w, phase, p) == AtPayout(w, phase, p) /\ worker[w].answer = "none"

\* A 2xx with a reference.
SubmitAccepted(w, p) ==
  /\ Asks(w, "submit", p)
  /\ provider' = [provider EXCEPT ![p] = IF @ = "unknown" THEN "accepted" ELSE @]
  /\ SetWorker(w, "submit", worker[w].todo, "accepted")
  /\ UnchangedLedger /\ UNCHANGED call

\* A 4xx.
SubmitRejected(w, p) ==
  /\ Asks(w, "submit", p)
  /\ provider[p] = "unknown" \/ RetryRefused
  /\ SetWorker(w, "submit", worker[w].todo, "rejected")
  /\ UnchangedLedger /\ UNCHANGED <<provider, call>>

\* Every failed submission is taken for a rejection.
MutSubmitUncertain(w, p) ==
  /\ Asks(w, "submit", p)
  /\ provider' \in {provider, [provider EXCEPT ![p] = IF @ = "unknown" THEN "accepted" ELSE @]}
  /\ SetWorker(w, "submit", worker[w].todo, "rejected")
  /\ UnchangedLedger /\ UNCHANGED call

\* The reference is stored although the provider may not know it.
MutSubmitMarksUncertain(w, p) ==
  /\ Asks(w, "submit", p)
  /\ provider' \in {provider, [provider EXCEPT ![p] = IF @ = "unknown" THEN "accepted" ELSE @]}
  /\ referenced' = referenced \cup {p}
  /\ NextPayout(w, p)
  /\ UNCHANGED <<status, rowVars, walletVars, call>>

\* A timeout, a 5xx or an unreadable reply: the provider may have accepted.
SubmitUncertain(w, p) ==
  /\ Asks(w, "submit", p)
  /\ provider' \in {provider, [provider EXCEPT ![p] = IF @ = "unknown" THEN "accepted" ELSE @]}
  /\ NextPayout(w, p)
  /\ UnchangedLedger /\ UNCHANGED call

SetPayoutRequestReference(w, p) ==
  /\ AtPayout(w, "submit", p) /\ worker[w].answer = "accepted"
  /\ referenced' = IF status[p] = "processing" THEN referenced \cup {p} ELSE referenced
  /\ NextPayout(w, p)
  /\ UNCHANGED <<status, rowVars, walletVars, provider, call>>

\* FailPayout of a request settled meanwhile reports ErrPayoutTransition.
FailOrSkip(p) ==
  IF status[p] \in InFlight THEN FailPayout(p) ELSE UnchangedLedger

FailRejected(w, p) ==
  /\ AtPayout(w, "submit", p) /\ worker[w].answer = "rejected"
  /\ FailOrSkip(p)
  /\ NextPayout(w, p)
  /\ UNCHANGED <<provider, call>>

\* An outcome that is not a failure is taken for a payment.
MutPollStatus(w, p) ==
  /\ Asks(w, "poll", p)
  /\ SetWorker(w, "poll", worker[w].todo,
               IF provider[p] = "bounced" THEN "bounced" ELSE "paid")
  /\ UnchangedLedger /\ UNCHANGED <<provider, call>>

PollStatus(w, p) ==
  /\ Asks(w, "poll", p)
  /\ provider[p] \in {"paid", "bounced"}
  /\ SetWorker(w, "poll", worker[w].todo, provider[p])
  /\ UnchangedLedger /\ UNCHANGED <<provider, call>>

\* Still processing, an unknown state or a failed poll: left for the next pass.
PollSkips(w, p) ==
  /\ Asks(w, "poll", p)
  /\ NextPayout(w, p)
  /\ UnchangedLedger /\ UNCHANGED <<provider, call>>

SettlePolled(w, p) ==
  /\ AtPayout(w, "poll", p)
  /\ \/ /\ worker[w].answer = "paid"
        /\ IF status[p] = "processing" THEN CompletePayout(p) ELSE UnchangedLedger
     \/ worker[w].answer = "bounced" /\ FailOrSkip(p)
  /\ NextPayout(w, p)
  /\ UNCHANGED <<provider, call>>

\* The write fails in the database: nothing is stored, the loop goes on.
WriteFails(w, p) ==
  /\ AtPayout(w, worker[w].phase, p) /\ worker[w].answer # "none"
  /\ NextPayout(w, p)
  /\ UnchangedLedger /\ UNCHANGED <<provider, call>>

Crash(w) ==
  /\ worker[w] # Asleep
  /\ SetWorker(w, "idle", {}, "none")
  /\ UnchangedLedger /\ UNCHANGED <<provider, call>>

-----------------------------------------------------------------------------
ApiStep(p) ==
  \/ \E c \in Calls : RequestWithdrawal(c, p)
  \/ ApprovePayout(p)
  \/ AdminCompletes(p)
  \/ AdminFails(p)
  \/ RecordPayoutCallback(p)

CallStep(c) ==
  \/ \E d \in Drivers, a \in Amounts : CheckActiveRequests(c, d, a)
  \/ AbandonWithdrawal(c)

WorkerStep(w, p) ==
  \/ SubmitAccepted(w, p)
  \/ SubmitRejected(w, p)
  \/ SubmitUncertain(w, p)
  \/ SetPayoutRequestReference(w, p)
  \/ FailRejected(w, p)
  \/ PollStatus(w, p)
  \/ PollSkips(w, p)
  \/ SettlePolled(w, p)
  \/ WriteFails(w, p)

PassStep(w) ==
  \/ StartSubmissions(w)
  \/ StartPolling(w)
  \/ EndPass(w)
  \/ Crash(w)

Next ==
  \/ \E p \in Payouts : ApiStep(p) \/ ProviderDecides(p)
  \/ \E c \in Calls : CallStep(c)
  \/ \E w \in Workers, p \in Payouts : WorkerStep(w, p)
  \/ \E w \in Workers : PassStep(w)

Spec == Init /\ [][Next]_vars

WritesAnswer(w, p) ==
  SetPayoutRequestReference(w, p) \/ FailRejected(w, p) \/ SettlePolled(w, p)

GetsAnswer(w, p) ==
  SubmitAccepted(w, p) \/ SubmitRejected(w, p) \/ PollStatus(w, p)

\* The worker's ticker and loop go on, and restarts do not cut every pass short
\* before its poll; a payout asked about or written at pass after pass is in the
\* end answered for and written; the provider decides what it accepted.
Fairness ==
  /\ \A w \in Workers :
       /\ WF_vars(StartSubmissions(w) \/ EndPass(w))
       /\ SF_vars(StartPolling(w))
       /\ \A p \in Payouts :
            /\ WF_vars(WorkerStep(w, p))
            /\ SF_vars(GetsAnswer(w, p))
            /\ SF_vars(WritesAnswer(w, p))
  /\ \A p \in Payouts : WF_vars(ProviderDecides(p))

FairSpec == Spec /\ Fairness

-----------------------------------------------------------------------------
(* Properties.                                                             *)

\* A request, its debit and its refund change together (ledger.go:60-64,
\* 250-253, 293-296): settled means the debit is settled, failed means it is
\* reversed and refunded exactly once, whoever raced to settle it.
RowsAgree ==
  \A p \in Payouts :
    /\ status[p] \in InFlight  <=> debit[p] = "pending"
    /\ status[p] = "completed" <=> debit[p] = "completed"
    /\ status[p] = "failed"    <=> debit[p] = "reversed"
    /\ refunds[p] = IF status[p] = "failed" THEN 1 ELSE 0

\* "The ledger always reconciles with the balance" (ledger.go:293-296): the
\* opening balance plus every wallet transaction of a driver is the balance.
LedgerReconciles ==
  \A d \in Drivers :
    LET mine == {p \in Payouts : owner[p] = d}
    IN  balance[d] + SumFunctionOnSet(amount, mine)
          = Opening[d] + SumFunction([p \in mine |-> refunds[p] * amount[p]])

Stage == [p \in Payouts |->
            CASE status[p] = "none"      -> "none"
              [] status[p] \in InFlight  -> "held"
              [] status[p] = "completed" -> "paid"
              [] status[p] = "failed"    -> "returned"]

E == INSTANCE PayoutEscrow WITH stage <- Stage

\* Concurrent admins, callbacks, polls and workers only ever hold an amount
\* once and pay it out or put it back once and in full.
Escrow == E!Spec

\* "A reversal while the transfer is actually in flight would pay twice"
\* (executor.go:28-33): the wallet is never refunded for a transfer the provider
\* has accepted and not bounced.
NoReversalInFlight ==
  \A p \in Payouts : status[p] = "failed" => provider[p] \notin {"accepted", "paid"}

\* A request settles as completed only when the provider has paid it.
CompletedIsPaid ==
  \A p \in Payouts : status[p] = "completed" => provider[p] = "paid"

\* An approved withdrawal is settled in the end: uncertain submissions, lost
\* references and crashes between two steps only delay it.
PayoutSettles == \A p \in Payouts : status[p] = "processing" ~> status[p] \in Settled
=============================================================================
