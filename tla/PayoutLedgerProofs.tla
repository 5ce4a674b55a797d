------------------------- MODULE PayoutLedgerProofs -------------------------
(***************************************************************************)
(* Proofs about PayoutLedger, for any number of requests, drivers, calls   *)
(* and workers, any amounts, opening balances and batch limit.             *)
(***************************************************************************)
EXTENDS PayoutLedger, SumTheorems

-----------------------------------------------------------------------------
(* The ledger's own two transitions.                                       *)

LEMMA AmountsAreNat == Amounts \cup {0} \subseteq Nat
  BY WalletAssumption

LEMMA CompleteTypeOK ==
  ASSUME LedgerTypeOK, NEW p \in Payouts, CompletePayout(p)
  PROVE  LedgerTypeOK'
  BY DEF LedgerTypeOK, CompletePayout, SetWalletTransactionStatus, rowVars, Settled, InFlight

LEMMA FailTypeOK ==
  ASSUME LedgerTypeOK, NEW p \in Payouts, FailPayout(p)
  PROVE  LedgerTypeOK'
<1>1. balance' \in [Drivers -> Nat]
  <2>1. amount[p] \in Nat
    BY AmountsAreNat DEF LedgerTypeOK
  <2>2. balance' = [balance EXCEPT ![owner[p]] = balance[owner[p]] + amount[p]]
    BY DEF FailPayout
  <2>3. ASSUME NEW d \in Drivers, d = owner[p]
        PROVE  balance[owner[p]] + amount[p] \in Nat
    BY <2>1, <2>3 DEF LedgerTypeOK
  <2> QED  BY <2>2, <2>3 DEF LedgerTypeOK
<1> QED
  BY <1>1 DEF LedgerTypeOK, FailPayout, SetWalletTransactionStatus, rowVars, Settled, InFlight

LEMMA FrameTypeOK ==
  ASSUME LedgerTypeOK, UnchangedLedger
  PROVE  LedgerTypeOK'
  BY DEF LedgerTypeOK, UnchangedLedger, rowVars, walletVars

-----------------------------------------------------------------------------
(* Type correctness.                                                       *)

LEMMA InitTypeOK == Init => TypeOK
  BY WalletAssumption DEF Init, TypeOK, LedgerTypeOK, ProcessTypeOK, Answers, NoCall, Asleep

LEMMA ApiTypeOK ==
  ASSUME TypeOK, NEW p \in Payouts, ApiStep(p)
  PROVE  TypeOK'
<1> USE DEF TypeOK, ProcessTypeOK
<1>1. ASSUME NEW c \in Calls, RequestWithdrawal(c, p)
      PROVE  TypeOK'
  <2>1. call[c].driver \in Drivers /\ call[c].amount \in Amounts /\ call[c].amount \in Nat
    BY <1>1, AmountsAreNat DEF RequestWithdrawal
  <2>2. balance' \in [Drivers -> Nat]
    BY <1>1, <2>1 DEF RequestWithdrawal, LedgerTypeOK
  <2>3. LedgerTypeOK'
    BY <1>1, <2>1, <2>2 DEF RequestWithdrawal, LedgerTypeOK, InFlight
  <2> QED  BY <1>1, <2>3 DEF RequestWithdrawal
<1>2. CASE ApprovePayout(p)
  BY <1>2 DEF ApprovePayout, LedgerTypeOK, rowVars, walletVars, InFlight
<1>3. CASE AdminCompletes(p)
  BY <1>3, CompleteTypeOK DEF AdminCompletes
<1>4. CASE AdminFails(p)
  BY <1>4, FailTypeOK DEF AdminFails
<1>5. CASE RecordPayoutCallback(p)
  BY <1>5, CompleteTypeOK, FailTypeOK DEF RecordPayoutCallback
<1> QED  BY <1>1, <1>2, <1>3, <1>4, <1>5 DEF ApiStep

LEMMA CallTypeOK ==
  ASSUME TypeOK, NEW c \in Calls, CallStep(c)
  PROVE  TypeOK'
  BY FrameTypeOK DEF TypeOK, ProcessTypeOK, CallStep, CheckActiveRequests,
     AbandonWithdrawal

LEMMA SetWorkerTypeOK ==
  ASSUME ProcessTypeOK, NEW w \in Workers, NEW phase \in {"idle", "submit", "poll"},
         NEW todo \in SUBSET Payouts, NEW answer \in Answers,
         SetWorker(w, phase, todo, answer), UNCHANGED call,
         provider' \in [Payouts -> {"unknown", "accepted", "paid", "bounced"}]
  PROVE  ProcessTypeOK'
  BY DEF ProcessTypeOK, SetWorker

LEMMA FailOrSkipTypeOK ==
  ASSUME LedgerTypeOK, NEW p \in Payouts, FailOrSkip(p)
  PROVE  LedgerTypeOK'
  BY FailTypeOK, FrameTypeOK DEF FailOrSkip

LEMMA WorkerTypeOK ==
  ASSUME TypeOK, NEW w \in Workers, NEW p \in Payouts, WorkerStep(w, p)
  PROVE  TypeOK'
<1> USE DEF TypeOK
<1>1. /\ worker[w].phase \in {"idle", "submit", "poll"}
      /\ worker[w].todo \in SUBSET Payouts
      /\ worker[w].todo \ {p} \in SUBSET Payouts
      /\ provider[p] \in {"unknown", "accepted", "paid", "bounced"}
      /\ provider \in [Payouts -> {"unknown", "accepted", "paid", "bounced"}]
      /\ {"none", "accepted", "rejected", "paid", "bounced"} \subseteq Answers
  BY DEF ProcessTypeOK, Answers
<1>2. ASSUME NextPayout(w, p), UNCHANGED <<provider, call>>
      PROVE  ProcessTypeOK'
  BY <1>1, <1>2, SetWorkerTypeOK DEF NextPayout
<1>3. CASE SubmitAccepted(w, p)
  <2>1. provider' \in [Payouts -> {"unknown", "accepted", "paid", "bounced"}]
    BY <1>1, <1>3 DEF SubmitAccepted
  <2> QED  BY <1>1, <1>3, <2>1, SetWorkerTypeOK, FrameTypeOK DEF SubmitAccepted
<1>4. CASE SubmitRejected(w, p)
  BY <1>1, <1>4, SetWorkerTypeOK, FrameTypeOK DEF SubmitRejected
<1>5. CASE SubmitUncertain(w, p)
  <2>1. provider' \in [Payouts -> {"unknown", "accepted", "paid", "bounced"}]
    BY <1>1, <1>5 DEF SubmitUncertain
  <2> QED  BY <1>1, <1>5, <2>1, SetWorkerTypeOK, FrameTypeOK DEF SubmitUncertain, NextPayout
<1>6. CASE SetPayoutRequestReference(w, p)
  BY <1>2, <1>6 DEF SetPayoutRequestReference, LedgerTypeOK, rowVars, walletVars
<1>7. CASE FailRejected(w, p)
  BY <1>2, <1>7, FailOrSkipTypeOK DEF FailRejected
<1>8. CASE PollStatus(w, p)
  BY <1>1, <1>8, SetWorkerTypeOK, FrameTypeOK DEF PollStatus
<1>9. CASE PollSkips(w, p)
  BY <1>2, <1>9, FrameTypeOK DEF PollSkips
<1>10. CASE SettlePolled(w, p)
  BY <1>2, <1>10, CompleteTypeOK, FailOrSkipTypeOK, FrameTypeOK DEF SettlePolled
<1>11. CASE WriteFails(w, p)
  BY <1>2, <1>11, FrameTypeOK DEF WriteFails
<1> QED
  BY <1>3, <1>4, <1>5, <1>6, <1>7, <1>8, <1>9, <1>10, <1>11 DEF WorkerStep

LEMMA PassTypeOK ==
  ASSUME TypeOK, NEW w \in Workers, PassStep(w)
  PROVE  TypeOK'
<1>1. \A S \in SUBSET Payouts : Oldest(S) \in SUBSET Payouts
  BY DEF Oldest
<1>2. /\ Oldest(NeedingSubmission) \in SUBSET Payouts
      /\ Oldest(InFlightAtProvider) \in SUBSET Payouts
      /\ {} \in SUBSET Payouts
      /\ "none" \in Answers
  BY <1>1 DEF NeedingSubmission, InFlightAtProvider, Answers
<1> QED
  BY <1>2, SetWorkerTypeOK, FrameTypeOK
     DEF PassStep, StartSubmissions, StartPolling, EndPass, Crash, TypeOK, ProcessTypeOK

LEMMA NextTypeOK ==
  ASSUME TypeOK, [Next]_vars
  PROVE  TypeOK'
<1>1. CASE UNCHANGED vars
  BY <1>1 DEF vars, rowVars, walletVars, TypeOK, LedgerTypeOK, ProcessTypeOK
<1>2. ASSUME NEW p \in Payouts, ProviderDecides(p)
      PROVE  TypeOK'
  BY <1>2, FrameTypeOK DEF ProviderDecides, TypeOK, ProcessTypeOK
<1> QED
  BY <1>1, <1>2, ApiTypeOK, CallTypeOK, WorkerTypeOK, PassTypeOK DEF Next

\* Types, and with them that no interleaving of withdrawals and refunds takes a
\* wallet's balance below zero.
THEOREM TypeCorrect == Spec => []TypeOK
  BY InitTypeOK, NextTypeOK, PTL DEF Spec

-----------------------------------------------------------------------------
(* Every step is one of four ledger transactions, or writes neither rows   *)
(* nor wallets.                                                            *)

Quiet == UNCHANGED <<status, owner, amount, balance, debit, refunds>>

LEMMA LedgerSteps ==
  ASSUME [Next]_vars
  PROVE  \/ Quiet
         \/ \E c \in Calls, p \in Payouts : RequestWithdrawal(c, p)
         \/ \E p \in Payouts : ApprovePayout(p)
         \/ \E p \in Payouts : CompletePayout(p)
         \/ \E p \in Payouts : FailPayout(p)
<1> USE DEF Quiet, UnchangedLedger, rowVars, walletVars
<1>1. CASE UNCHANGED vars
  BY <1>1 DEF vars
<1>2. ASSUME NEW p \in Payouts, ApiStep(p)
      PROVE  \/ \E c \in Calls : RequestWithdrawal(c, p)
             \/ ApprovePayout(p) \/ CompletePayout(p) \/ FailPayout(p)
  BY <1>2 DEF ApiStep, AdminCompletes, AdminFails, RecordPayoutCallback
<1>3. ASSUME NEW p \in Payouts, ProviderDecides(p)
      PROVE  Quiet
  BY <1>3 DEF ProviderDecides
<1>4. ASSUME NEW c \in Calls, CallStep(c)
      PROVE  Quiet
  BY <1>4 DEF CallStep, CheckActiveRequests, AbandonWithdrawal
<1>5. ASSUME NEW w \in Workers, NEW p \in Payouts, WorkerStep(w, p)
      PROVE  Quiet \/ CompletePayout(p) \/ FailPayout(p)
  BY <1>5 DEF WorkerStep, SubmitAccepted, SubmitRejected, SubmitUncertain,
     SetPayoutRequestReference, FailRejected, FailOrSkip, PollStatus, PollSkips,
     SettlePolled, WriteFails
<1>6. ASSUME NEW w \in Workers, PassStep(w)
      PROVE  Quiet
  BY <1>6 DEF PassStep, StartSubmissions, StartPolling, EndPass, Crash
<1> HIDE DEF Quiet
<1> QED  BY <1>1, <1>2, <1>3, <1>4, <1>5, <1>6 DEF Next

-----------------------------------------------------------------------------
(* Rows, debits and refunds.                                               *)

RowsInv == TypeOK /\ RowsAgree

LEMMA InitRows == Init => RowsAgree
  BY DEF Init, RowsAgree, InFlight

LEMMA NextRows ==
  ASSUME RowsInv, [Next]_vars
  PROVE  RowsInv'
<1>1. TypeOK'
  BY NextTypeOK DEF RowsInv
<1> USE DEF RowsInv, RowsAgree, InFlight
<1>2. CASE Quiet
  BY <1>1, <1>2 DEF Quiet
<1>3. ASSUME NEW c \in Calls, NEW p \in Payouts, RequestWithdrawal(c, p)
      PROVE  RowsAgree'
  BY <1>3 DEF RequestWithdrawal, TypeOK, LedgerTypeOK
<1>4. ASSUME NEW p \in Payouts, ApprovePayout(p)
      PROVE  RowsAgree'
  BY <1>4 DEF ApprovePayout, walletVars, TypeOK, LedgerTypeOK
<1>5. ASSUME NEW p \in Payouts, CompletePayout(p)
      PROVE  RowsAgree'
  BY <1>5 DEF CompletePayout, SetWalletTransactionStatus, TypeOK, LedgerTypeOK
<1>6. ASSUME NEW p \in Payouts, FailPayout(p)
      PROVE  RowsAgree'
  BY <1>6 DEF FailPayout, SetWalletTransactionStatus, TypeOK, LedgerTypeOK
<1> QED  BY <1>1, <1>2, <1>3, <1>4, <1>5, <1>6, LedgerSteps

\* A request, its debit and its refund never come apart, whoever races to
\* settle it: one refund for a failed request, none for any other.
THEOREM RowsStayTogether == Spec => []RowsAgree
<1>1. Spec => []RowsInv
  BY InitTypeOK, InitRows, NextRows, PTL DEF Spec, RowsInv
<1> QED  BY <1>1, PTL DEF RowsInv

-----------------------------------------------------------------------------
(* The ledger reconciles with the balance.                                 *)

\* The requests of a driver, and what a request has put back into the wallet.
Mine(d)  == {p \in Payouts : owner[p] = d}
Returned == [p \in Payouts |-> IF status[p] = "failed" THEN amount[p] ELSE 0]

Balanced(d) ==
  balance[d] + SumFunctionOnSet(amount, Mine(d))
    = Opening[d] + SumFunctionOnSet(Returned, Mine(d))

\* A row has an owner from its insert on, and only finitely many rows exist:
\* the sums of LedgerReconciles are over finite sets.
RowsExist ==
  /\ \A p \in Payouts : status[p] = "none" <=> owner[p] = NoDriver
  /\ IsFiniteSet({p \in Payouts : status[p] # "none"})

BalanceInv == RowsInv /\ RowsExist /\ \A d \in Drivers : Balanced(d)

LEMMA InitRowsExist == Init => RowsExist
<1> SUFFICES ASSUME Init PROVE RowsExist
  OBVIOUS
<1>1. {p \in Payouts : status[p] # "none"} = {}
  BY DEF Init
<1> QED  BY <1>1, FS_EmptySet DEF Init, RowsExist

LEMMA NextRowsExist ==
  ASSUME TypeOK, RowsExist, [Next]_vars
  PROVE  RowsExist'
<1> USE DEF RowsExist, TypeOK, LedgerTypeOK, InFlight, Settled
<1> DEFINE Stored == {p \in Payouts : status[p] # "none"}
<1>1. ASSUME NEW c \in Calls, NEW p \in Payouts, RequestWithdrawal(c, p)
      PROVE  RowsExist'
  <2>1. call[c].driver # NoDriver
    BY <1>1, WalletAssumption DEF RequestWithdrawal, ProcessTypeOK
  <2>2. Stored' = Stored \cup {p}
    BY <1>1 DEF RequestWithdrawal
  <2>3. IsFiniteSet(Stored')
    <3>1. IsFiniteSet(Stored)
      OBVIOUS
    <3> HIDE DEF Stored
    <3>2. IsFiniteSet(Stored \cup {p})
      BY <3>1, FS_AddElement
    <3> QED  BY <2>2, <3>2
  <2> QED  BY <1>1, <2>1, <2>3 DEF RequestWithdrawal
<1>2. ASSUME /\ owner' = owner
             /\ \A p \in Payouts : status'[p] = "none" <=> status[p] = "none"
      PROVE  RowsExist'
  <2>1. Stored' = Stored
    BY <1>2
  <2> QED  BY <1>2, <2>1
<1>3. CASE Quiet
  BY <1>2, <1>3 DEF Quiet
<1>4. ASSUME NEW p \in Payouts, ApprovePayout(p)
      PROVE  RowsExist'
  BY <1>2, <1>4 DEF ApprovePayout, rowVars
<1>5. ASSUME NEW p \in Payouts, CompletePayout(p)
      PROVE  RowsExist'
  BY <1>2, <1>5 DEF CompletePayout, rowVars
<1>6. ASSUME NEW p \in Payouts, FailPayout(p)
      PROVE  RowsExist'
  BY <1>2, <1>6 DEF FailPayout, rowVars
<1> HIDE DEF RowsExist
<1> QED  BY <1>1, <1>3, <1>4, <1>5, <1>6, LedgerSteps

LEMMA MineIsFinite ==
  ASSUME TypeOK, RowsExist, NEW d \in Drivers
  PROVE  /\ IsFiniteSet(Mine(d))
         /\ Mine(d) \subseteq Payouts
         /\ \A p \in Payouts : amount[p] \in Nat /\ Returned[p] \in Nat
<1>1. Mine(d) \in SUBSET {p \in Payouts : status[p] # "none"}
  BY WalletAssumption DEF Mine, RowsExist
<1>2. IsFiniteSet(Mine(d))
  BY <1>1, FS_Subset DEF RowsExist
<1>3. \A p \in Payouts : amount[p] \in Nat
  BY AmountsAreNat DEF TypeOK, LedgerTypeOK
<1> QED  BY <1>2, <1>3 DEF Mine, Returned

\* The invariant as the model states it.
LEMMA BalancedReconciles == BalanceInv => LedgerReconciles
<1> SUFFICES ASSUME BalanceInv, NEW d \in Drivers
             PROVE  balance[d] + SumFunctionOnSet(amount, Mine(d))
                      = Opening[d] + SumFunction([p \in Mine(d) |-> refunds[p] * amount[p]])
  BY DEF LedgerReconciles, Mine
<1>1. IsFiniteSet(Mine(d)) /\ Mine(d) \subseteq Payouts
  BY MineIsFinite DEF BalanceInv, RowsInv
<1>2. ASSUME NEW p \in Mine(d)
      PROVE  refunds[p] * amount[p] = Returned[p]
  <2>1. p \in Payouts /\ amount[p] \in Nat /\ refunds[p] = IF status[p] = "failed" THEN 1 ELSE 0
    BY <1>1, MineIsFinite DEF BalanceInv, RowsInv, RowsAgree
  <2> QED  BY <2>1 DEF Returned
<1> DEFINE terms == [p \in Mine(d) |-> refunds[p] * amount[p]]
<1>3. SumFunction(terms) = SumFunctionOnSet(terms, Mine(d))
  BY DEF SumFunction
<1>4. SumFunctionOnSet(terms, Mine(d)) = SumFunctionOnSet(Returned, Mine(d))
  <2>1. \A p \in Mine(d) : terms[p] = Returned[p]
    BY <1>2
  <2> HIDE DEF terms
  <2> QED  BY <1>1, <2>1, SumSame
<1> HIDE DEF terms
<1>5. Balanced(d)
  BY DEF BalanceInv
<1> QED  BY <1>3, <1>4, <1>5 DEF Balanced, terms

LEMMA RequestBalanced ==
  ASSUME BalanceInv, NEW d \in Drivers, NEW c \in Calls, NEW p \in Payouts,
         RequestWithdrawal(c, p)
  PROVE  Balanced(d)'
<1> DEFINE b == call[c].driver
           a == call[c].amount
<1>1. TypeOK /\ RowsExist /\ Balanced(d)
  BY DEF BalanceInv, RowsInv
<1>2. IsFiniteSet(Mine(d)) /\ Mine(d) \subseteq Payouts
  BY <1>1, MineIsFinite
<1>3. \A x \in Payouts : amount[x] \in Nat /\ Returned[x] \in Nat
  BY <1>1, MineIsFinite
<1>4. b \in Drivers /\ a \in Nat /\ p \notin Mine(d)
  <2>1. owner[p] = NoDriver
    BY <1>1 DEF RequestWithdrawal, RowsExist
  <2> QED  BY <1>1, <2>1, AmountsAreNat, WalletAssumption
           DEF RequestWithdrawal, TypeOK, ProcessTypeOK, Mine
<1>5. /\ owner' = [owner EXCEPT ![p] = b]
      /\ amount' = [amount EXCEPT ![p] = a]
      /\ status' = [status EXCEPT ![p] = "pending"]
      /\ balance' = [balance EXCEPT ![b] = @ - a]
  BY DEF RequestWithdrawal
<1> HIDE DEF a, b
<1>6. /\ owner \in [Payouts -> Drivers \cup {NoDriver}]
      /\ DOMAIN amount = Payouts /\ DOMAIN status = Payouts
      /\ balance \in [Drivers -> Nat]
  BY <1>1 DEF TypeOK, LedgerTypeOK
<1>7. \A x \in Mine(d) : amount'[x] = amount[x] /\ Returned'[x] = Returned[x]
  BY <1>2, <1>4, <1>5, <1>6 DEF Returned
<1>8. /\ SumFunctionOnSet(amount', Mine(d)) = SumFunctionOnSet(amount, Mine(d))
      /\ SumFunctionOnSet(Returned', Mine(d)) = SumFunctionOnSet(Returned, Mine(d))
  BY <1>2, <1>7, SumSame
<1>9. amount'[p] = a /\ Returned'[p] = 0
  BY <1>5, <1>6 DEF Returned
<1>10. CASE d = b
  <2>1. Mine(d)' = Mine(d) \cup {p}
    BY <1>5, <1>6, <1>10 DEF Mine
  <2>2. \A x \in Mine(d) \cup {p} : amount'[x] \in Int /\ Returned'[x] \in Int
    BY <1>2, <1>3, <1>4, <1>7, <1>9
  <2>3. /\ SumFunctionOnSet(amount', Mine(d) \cup {p}) = a + SumFunctionOnSet(amount', Mine(d))
        /\ SumFunctionOnSet(Returned', Mine(d) \cup {p}) = SumFunctionOnSet(Returned', Mine(d)) + 0
    <3>1. SumFunctionOnSet(amount', Mine(d) \cup {p}) = amount'[p] + SumFunctionOnSet(amount', Mine(d))
      BY <1>2, <1>4, <2>2, SumAdd
    <3>2. SumFunctionOnSet(Returned', Mine(d) \cup {p}) = Returned'[p] + SumFunctionOnSet(Returned', Mine(d))
      BY <1>2, <1>4, <2>2, SumAdd
    <3>3. SumFunctionOnSet(Returned', Mine(d)) \in Int
      BY <1>2, <2>2, SumInt
    <3> QED  BY <1>9, <3>1, <3>2, <3>3
  <2>4. balance'[d] = balance[d] - a
    BY <1>4, <1>5, <1>6, <1>10
  <2>5. /\ SumFunctionOnSet(amount, Mine(d)) \in Int
        /\ SumFunctionOnSet(Returned, Mine(d)) \in Int
        /\ balance[d] \in Int /\ Opening[d] \in Int
    BY <1>2, <1>3, <1>6, SumInt, WalletAssumption
  <2> QED  BY <1>1, <1>4, <1>8, <2>1, <2>3, <2>4, <2>5 DEF Balanced
<1>11. CASE d # b
  <2>1. Mine(d)' = Mine(d)
    BY <1>4, <1>5, <1>6, <1>11 DEF Mine
  <2>2. balance'[d] = balance[d]
    BY <1>4, <1>5, <1>6, <1>11
  <2> QED  BY <1>1, <1>8, <2>1, <2>2 DEF Balanced
<1> QED  BY <1>10, <1>11

LEMMA FailBalanced ==
  ASSUME BalanceInv, NEW d \in Drivers, NEW p \in Payouts, FailPayout(p)
  PROVE  Balanced(d)'
<1>1. TypeOK /\ RowsExist /\ Balanced(d)
  BY DEF BalanceInv, RowsInv
<1>2. IsFiniteSet(Mine(d)) /\ Mine(d) \subseteq Payouts
  BY <1>1, MineIsFinite
<1>3. \A x \in Payouts : amount[x] \in Nat /\ Returned[x] \in Nat
  BY <1>1, MineIsFinite
<1>4. /\ owner' = owner /\ amount' = amount
      /\ status' = [status EXCEPT ![p] = "failed"]
      /\ balance' = [balance EXCEPT ![owner[p]] = @ + amount[p]]
      /\ status[p] \in InFlight
  BY DEF FailPayout, rowVars
<1>5. DOMAIN status = Payouts /\ balance \in [Drivers -> Nat]
  BY <1>1 DEF TypeOK, LedgerTypeOK
<1>6. Mine(d)' = Mine(d)
  BY <1>4 DEF Mine
<1>7. Returned[p] = 0 /\ Returned'[p] = amount[p]
  BY <1>4, <1>5 DEF Returned, InFlight
<1>8. \A x \in Payouts \ {p} : Returned'[x] = Returned[x]
  BY <1>4, <1>5 DEF Returned
<1>9. CASE owner[p] = d
  <2>1. p \in Mine(d)
    BY <1>9 DEF Mine
  <2>2. SumFunctionOnSet(Returned', Mine(d))
          = SumFunctionOnSet(Returned, Mine(d)) + Returned'[p] - Returned[p]
    <3>1. /\ \A x \in Mine(d) : Returned[x] \in Int
          /\ Returned'[p] \in Int
          /\ \A x \in Mine(d) \ {p} : Returned'[x] = Returned[x]
      BY <1>2, <1>3, <1>7, <1>8
    <3> QED  BY <1>2, <2>1, <3>1, SumUpdate
  <2>3. balance'[d] = balance[d] + amount[p]
    BY <1>4, <1>5, <1>9
  <2>4. /\ SumFunctionOnSet(amount, Mine(d)) \in Int
        /\ SumFunctionOnSet(Returned, Mine(d)) \in Int
        /\ balance[d] \in Int /\ Opening[d] \in Int /\ amount[p] \in Int
    BY <1>2, <1>3, <1>5, SumInt, WalletAssumption
  <2> QED  BY <1>1, <1>4, <1>6, <1>7, <2>2, <2>3, <2>4 DEF Balanced
<1>10. CASE owner[p] # d
  <2>1. \A x \in Mine(d) : Returned'[x] = Returned[x]
    BY <1>2, <1>8, <1>10 DEF Mine
  <2>2. SumFunctionOnSet(Returned', Mine(d)) = SumFunctionOnSet(Returned, Mine(d))
    BY <1>2, <2>1, SumSame
  <2>3. balance'[d] = balance[d]
    BY <1>4, <1>5, <1>10
  <2> QED  BY <1>1, <1>4, <1>6, <2>2, <2>3 DEF Balanced
<1> QED  BY <1>9, <1>10

LEMMA NextBalanced ==
  ASSUME BalanceInv, [Next]_vars
  PROVE  BalanceInv'
<1>1. RowsInv' /\ RowsExist'
  BY NextRows, NextRowsExist DEF BalanceInv, RowsInv
<1> SUFFICES ASSUME NEW d \in Drivers PROVE Balanced(d)'
  BY <1>1 DEF BalanceInv
<1>2. Balanced(d)
  BY DEF BalanceInv
<1>3. ASSUME UNCHANGED <<owner, amount, balance>>, Returned' = Returned
      PROVE  Balanced(d)'
  BY <1>2, <1>3 DEF Balanced, Mine
<1>4. CASE Quiet
  BY <1>3, <1>4 DEF Quiet, Returned
<1>5. ASSUME NEW c \in Calls, NEW p \in Payouts, RequestWithdrawal(c, p)
      PROVE  Balanced(d)'
  BY <1>5, RequestBalanced
<1>6. DOMAIN status = Payouts
  BY DEF BalanceInv, RowsInv, TypeOK, LedgerTypeOK
<1>7. ASSUME NEW p \in Payouts, ApprovePayout(p)
      PROVE  Balanced(d)'
  <2>1. Returned' = Returned
    BY <1>6, <1>7 DEF ApprovePayout, Returned, rowVars
  <2> QED  BY <1>3, <1>7, <2>1 DEF ApprovePayout, rowVars, walletVars
<1>8. ASSUME NEW p \in Payouts, CompletePayout(p)
      PROVE  Balanced(d)'
  <2>1. Returned' = Returned
    BY <1>6, <1>8 DEF CompletePayout, Returned, rowVars
  <2> QED  BY <1>3, <1>8, <2>1 DEF CompletePayout, rowVars
<1>9. ASSUME NEW p \in Payouts, FailPayout(p)
      PROVE  Balanced(d)'
  BY <1>9, FailBalanced
<1> QED  BY <1>4, <1>5, <1>7, <1>8, <1>9, LedgerSteps

LEMMA InitBalanced == Init => BalanceInv
<1> SUFFICES ASSUME Init PROVE BalanceInv
  OBVIOUS
<1>1. RowsInv /\ RowsExist
  BY InitTypeOK, InitRows, InitRowsExist DEF RowsInv
<1>2. ASSUME NEW d \in Drivers
      PROVE  Balanced(d)
  <2>1. Mine(d) = {}
    BY WalletAssumption DEF Init, Mine
  <2>2. SumFunctionOnSet(amount, {}) = 0 /\ SumFunctionOnSet(Returned, {}) = 0
    BY SumEmpty
  <2>3. balance[d] = Opening[d]
    BY DEF Init
  <2> QED  BY <2>1, <2>2, <2>3 DEF Balanced
<1> QED  BY <1>1, <1>2 DEF BalanceInv

\* "The ledger always reconciles with the balance": in every interleaving of
\* withdrawals, approvals, settlements and refunds the wallet holds its opening
\* balance less the payouts that were not returned.
THEOREM LedgerAlwaysReconciles == Spec => []LedgerReconciles
  BY InitBalanced, NextBalanced, BalancedReconciles, PTL DEF Spec

-----------------------------------------------------------------------------
(* The ledger implements the escrow.                                       *)

StageName(s) ==
  IF s = "none" THEN "none"
  ELSE IF s \in InFlight THEN "held"
  ELSE IF s = "completed" THEN "paid" ELSE "returned"

LEMMA InitEscrow ==
  ASSUME Init
  PROVE  E!Init
<1>1. Stage = [p \in Payouts |-> StageName(status[p])]
  BY InitTypeOK DEF Stage, StageName, TypeOK, LedgerTypeOK, InFlight, Settled
<1>2. Stage = [p \in Payouts |-> "none"]
  BY <1>1 DEF Init, StageName
<1> QED  BY <1>2 DEF Init, E!Init

LEMMA NextEscrow ==
  ASSUME TypeOK, [Next]_vars
  PROVE  [E!Next]_(E!escrowVars)
<1>1. TypeOK'
  BY NextTypeOK
<1>2. Stage = [p \in Payouts |-> StageName(status[p])]
  BY DEF Stage, StageName, TypeOK, LedgerTypeOK, InFlight, Settled
<1>3. Stage' = [p \in Payouts |-> StageName(status'[p])]
  BY <1>1 DEF Stage, StageName, TypeOK, LedgerTypeOK, InFlight, Settled
<1>4. CASE Quiet
  BY <1>2, <1>3, <1>4 DEF Quiet, E!escrowVars
<1>5. ASSUME NEW c \in Calls, NEW p \in Payouts, RequestWithdrawal(c, p)
      PROVE  E!Next
  <2>1. PICK d \in Drivers, a \in Amounts : d = call[c].driver /\ a = call[c].amount
    BY <1>5 DEF RequestWithdrawal, TypeOK, ProcessTypeOK
  <2>2. Stage[p] = "none" /\ Stage' = [Stage EXCEPT ![p] = "held"]
    BY <1>2, <1>3, <1>5 DEF RequestWithdrawal, StageName, InFlight, TypeOK, LedgerTypeOK
  <2>3. E!Hold(p, d, a)
    BY <1>5, <2>1, <2>2 DEF RequestWithdrawal, E!Hold
  <2> QED  BY <2>3 DEF E!Next
<1>6. ASSUME NEW p \in Payouts, ApprovePayout(p)
      PROVE  UNCHANGED E!escrowVars
  <2>1. Stage' = Stage
    BY <1>2, <1>3, <1>6 DEF ApprovePayout, StageName, InFlight, TypeOK, LedgerTypeOK
  <2> QED  BY <1>6, <2>1 DEF ApprovePayout, rowVars, walletVars, E!escrowVars
<1>7. ASSUME NEW p \in Payouts, CompletePayout(p)
      PROVE  E!Next
  <2>1. Stage[p] = "held" /\ Stage' = [Stage EXCEPT ![p] = "paid"]
    BY <1>2, <1>3, <1>7 DEF CompletePayout, StageName, InFlight, TypeOK, LedgerTypeOK
  <2>2. E!PayOut(p)
    BY <1>7, <2>1 DEF CompletePayout, rowVars, E!PayOut
  <2> QED  BY <2>2 DEF E!Next
<1>8. ASSUME NEW p \in Payouts, FailPayout(p)
      PROVE  E!Next
  <2>1. Stage[p] = "held" /\ Stage' = [Stage EXCEPT ![p] = "returned"]
    BY <1>2, <1>3, <1>8 DEF FailPayout, StageName, InFlight, TypeOK, LedgerTypeOK
  <2>2. E!PutBack(p)
    BY <1>8, <2>1 DEF FailPayout, rowVars, E!PutBack
  <2> QED  BY <2>2 DEF E!Next
<1> QED  BY <1>4, <1>5, <1>6, <1>7, <1>8, LedgerSteps

\* Whatever admins, callbacks, polls and workers race to do, a withdrawal is held
\* once and then paid out or put back once and in full.
THEOREM EscrowImplemented == Spec => Escrow
<1>1. Init /\ [][Next]_vars /\ []TypeOK => E!Init /\ [][E!Next]_(E!escrowVars)
  BY InitEscrow, NextEscrow, PTL
<1> QED  BY <1>1, TypeCorrect, PTL DEF Spec, Escrow, E!Spec

-----------------------------------------------------------------------------
(* What holds of the provider whatever admins do, however many workers run *)
(* and whatever the provider refuses: a request waiting for approval is    *)
(* unknown to it, a submission pass lists approved requests only, and an   *)
(* outcome polled and not yet written is still the truth, because a        *)
(* decided transfer stays decided.                                         *)
DecisionInv ==
  /\ TypeOK
  /\ \A p \in Payouts : status[p] \in {"none", "pending"} => provider[p] = "unknown"
  /\ \A w \in Workers, p \in Payouts :
       /\ worker[w].phase = "submit" /\ p \in worker[w].todo
            => status[p] \notin {"none", "pending"}
       /\ AtPayout(w, "poll", p) /\ worker[w].answer \in {"paid", "bounced"}
            => provider[p] = worker[w].answer
  /\ ~AdminSettles => CompletedIsPaid

LEMMA InitDecision == Init => DecisionInv
  BY InitTypeOK DEF Init, DecisionInv, CompletedIsPaid, Asleep

\* A pass has one payout in hand.
LEMMA OneInHand ==
  ASSUME NEW w \in Workers, TypeOK, NEW phase, NEW p \in Payouts, NEW x \in Payouts,
         AtPayout(w, phase, p), AtPayout(w, phase, x)
  PROVE  x = p
<1>1. p <= x /\ x <= p
  BY DEF AtPayout
<1> QED  BY <1>1, PayoutsAssumption

\* What a step does to one request's status, or to the provider's record of it.
StatusStep(p) ==
  \/ status'[p] = status[p]
  \/ status[p] = "none" /\ status'[p] = "pending"
  \/ status[p] = "pending" /\ status'[p] \in {"processing", "failed"}
  \/ status[p] = "processing" /\ status'[p] \in {"completed", "failed"}

RecordStep(p) ==
  \/ provider'[p] = provider[p]
  \/ /\ provider[p] = "unknown" /\ provider'[p] = "accepted"
     /\ status[p] \notin {"none", "pending"}
  \/ provider[p] = "accepted" /\ provider'[p] \in {"paid", "bounced"}

\* A worker's hand after a step: as it was, emptied, a fresh list, or an answer.
HandStep(w) ==
  \/ worker'[w] = worker[w]
  \/ worker'[w].answer = "none" /\ worker'[w].phase # "submit"
  \/ /\ worker'[w].answer = "none"
     /\ \/ worker[w].phase = "submit" /\ worker'[w].todo \subseteq worker[w].todo
        \/ \A p \in worker'[w].todo : status[p] = "processing"
  \/ /\ worker'[w].phase = "submit" /\ worker'[w].answer \in {"accepted", "rejected"}
     /\ worker[w].phase = "submit" /\ worker'[w].todo = worker[w].todo
  \/ \E p \in Payouts :
       /\ AtPayout(w, "poll", p)
       /\ worker'[w].phase = "poll" /\ worker'[w].todo = worker[w].todo
       /\ worker'[w].answer = provider[p] /\ UNCHANGED provider

LEMMA StepsKeepDecisions ==
  ASSUME DecisionInv, TypeOK', ~AdminSettles => CompletedIsPaid',
         \A p \in Payouts : StatusStep(p) /\ RecordStep(p),
         \A w \in Workers : HandStep(w)
  PROVE  DecisionInv'
<1> USE DEF DecisionInv
<1>1. ASSUME NEW p \in Payouts, status'[p] \in {"none", "pending"}
      PROVE  provider'[p] = "unknown"
  BY <1>1 DEF StatusStep, RecordStep
<1>2. ASSUME NEW p \in Payouts, status[p] \notin {"none", "pending"}
      PROVE  status'[p] \notin {"none", "pending"}
  BY <1>2 DEF StatusStep
<1>3. ASSUME NEW w \in Workers, NEW p \in Payouts,
             worker'[w].phase = "submit", p \in worker'[w].todo
      PROVE  status'[p] \notin {"none", "pending"}
  <2>1. status[p] \notin {"none", "pending"}
    BY <1>3 DEF HandStep
  <2> QED  BY <1>2, <2>1
<1>4. ASSUME NEW w \in Workers, NEW p \in Payouts, AtPayout(w, "poll", p)',
             worker'[w].answer \in {"paid", "bounced"}
      PROVE  provider'[p] = worker'[w].answer
  <2>1. CASE worker'[w] = worker[w]
    <3>1. provider[p] = worker[w].answer
      BY <1>4, <2>1 DEF AtPayout
    <3> QED  BY <1>4, <2>1, <3>1 DEF RecordStep
  <2>2. CASE worker'[w] # worker[w]
    <3>1. PICK x \in Payouts :
            /\ AtPayout(w, "poll", x)
            /\ worker'[w].phase = "poll" /\ worker'[w].todo = worker[w].todo
            /\ worker'[w].answer = provider[x] /\ UNCHANGED provider
      BY <1>4, <2>2 DEF HandStep
    <3>2. AtPayout(w, "poll", p)
      BY <1>4, <3>1 DEF AtPayout
    <3>3. p = x
      BY <3>1, <3>2, OneInHand
    <3> QED  BY <3>1, <3>3
  <2> QED  BY <2>1, <2>2
<1> QED  BY <1>1, <1>3, <1>4

\* A transfer the provider has paid stays paid, so a request completed for it
\* stays explained; one completed by this step must be.
LEMMA CompletionsKept ==
  ASSUME CompletedIsPaid,
         \A p \in Payouts : RecordStep(p),
         \A p \in Payouts : status'[p] = "completed" => status[p] = "completed" \/ provider[p] = "paid"
  PROVE  CompletedIsPaid'
  BY DEF CompletedIsPaid, RecordStep

LEMMA ApiDecision ==
  ASSUME DecisionInv, NEW p \in Payouts, ApiStep(p)
  PROVE  /\ UNCHANGED <<provider, worker>>
         /\ \A x \in Payouts : StatusStep(x)
         /\ ~AdminSettles => \A x \in Payouts : status'[x] = "completed"
                                => status[x] = "completed" \/ provider[x] = "paid"
<1> USE DEF DecisionInv, TypeOK, LedgerTypeOK, InFlight
<1>1. UNCHANGED <<provider, worker>>
  BY DEF ApiStep, RequestWithdrawal, ApprovePayout, AdminCompletes, AdminFails,
         RecordPayoutCallback
<1>2. \A x \in Payouts \ {p} : status'[x] = status[x]
  BY DEF ApiStep, RequestWithdrawal, ApprovePayout, AdminCompletes, CompletePayout,
         AdminFails, FailPayout, RecordPayoutCallback
<1>3. StatusStep(p)
  BY DEF ApiStep, RequestWithdrawal, ApprovePayout, AdminCompletes, CompletePayout,
         AdminFails, FailPayout, RecordPayoutCallback, StatusStep
<1>4. ~AdminSettles /\ status'[p] = "completed" => status[p] = "completed" \/ provider[p] = "paid"
  BY DEF ApiStep, RequestWithdrawal, ApprovePayout, AdminCompletes, CompletePayout,
         AdminFails, FailPayout, RecordPayoutCallback
<1> QED  BY <1>1, <1>2, <1>3, <1>4 DEF StatusStep

LEMMA AskDecision ==
  ASSUME DecisionInv, NEW w \in Workers, NEW p \in Payouts,
         \/ SubmitAccepted(w, p) \/ SubmitRejected(w, p) \/ SubmitUncertain(w, p)
         \/ PollStatus(w, p) \/ PollSkips(w, p)
  PROVE  /\ UNCHANGED status
         /\ \A x \in Payouts : RecordStep(x)
         /\ \A v \in Workers : HandStep(v)
<1> USE DEF DecisionInv, TypeOK, ProcessTypeOK, UnchangedLedger
<1>1. UNCHANGED status
  BY DEF SubmitAccepted, SubmitRejected, SubmitUncertain, PollStatus, PollSkips
<1>2. \A v \in Workers \ {w} : worker'[v] = worker[v]
  BY DEF SubmitAccepted, SubmitRejected, SubmitUncertain, PollStatus, PollSkips,
         NextPayout, SetWorker
<1>3. CASE SubmitAccepted(w, p) \/ SubmitUncertain(w, p)
  <2>1. worker[w].phase = "submit" /\ p \in worker[w].todo
    BY <1>3 DEF SubmitAccepted, SubmitUncertain, Asks, AtPayout
  <2>2. status[p] \notin {"none", "pending"}
    BY <2>1
  <2>3. /\ \A x \in Payouts \ {p} : provider'[x] = provider[x]
        /\ \/ provider'[p] = provider[p]
           \/ provider[p] = "unknown" /\ provider'[p] = "accepted"
    BY <1>3 DEF SubmitAccepted, SubmitUncertain
  <2>4. HandStep(w)
    BY <1>3, <2>1 DEF SubmitAccepted, SubmitUncertain, NextPayout, SetWorker, HandStep
  <2> QED  BY <1>1, <1>2, <2>2, <2>3, <2>4 DEF RecordStep, HandStep
<1>4. CASE SubmitRejected(w, p)
  <2>1. HandStep(w) /\ UNCHANGED provider
    BY <1>4 DEF SubmitRejected, Asks, AtPayout, SetWorker, HandStep
  <2> QED  BY <1>1, <1>2, <2>1 DEF RecordStep, HandStep
<1>5. CASE PollStatus(w, p)
  <2>1. AtPayout(w, "poll", p) /\ UNCHANGED provider
    BY <1>5 DEF PollStatus, Asks
  <2>2. HandStep(w)
    BY <1>5, <2>1 DEF PollStatus, SetWorker, HandStep
  <2> QED  BY <1>1, <1>2, <2>1, <2>2 DEF RecordStep, HandStep
<1>6. CASE PollSkips(w, p)
  <2>1. HandStep(w) /\ UNCHANGED provider
    BY <1>6 DEF PollSkips, Asks, AtPayout, NextPayout, SetWorker, HandStep
  <2> QED  BY <1>1, <1>2, <2>1 DEF RecordStep, HandStep
<1> QED  BY <1>3, <1>4, <1>5, <1>6

LEMMA WriteDecisions ==
  ASSUME DecisionInv, NEW w \in Workers, NEW p \in Payouts,
         \/ SetPayoutRequestReference(w, p) \/ FailRejected(w, p)
         \/ SettlePolled(w, p) \/ WriteFails(w, p)
  PROVE  /\ UNCHANGED provider
         /\ \A x \in Payouts : StatusStep(x)
         /\ \A v \in Workers : HandStep(v)
         /\ \A x \in Payouts : status'[x] = "completed"
                                => status[x] = "completed" \/ provider[x] = "paid"
<1> USE DEF DecisionInv, TypeOK, LedgerTypeOK, ProcessTypeOK, InFlight
<1>1. UNCHANGED provider
  BY DEF SetPayoutRequestReference, FailRejected, SettlePolled, WriteFails
<1>2. \A x \in Payouts \ {p} : status'[x] = status[x]
  BY DEF SetPayoutRequestReference, FailRejected, SettlePolled, WriteFails, FailOrSkip,
         CompletePayout, FailPayout, UnchangedLedger
<1>3. StatusStep(p)
  BY DEF SetPayoutRequestReference, FailRejected, SettlePolled, WriteFails, FailOrSkip,
         CompletePayout, FailPayout, UnchangedLedger, StatusStep
<1>4. status'[p] = "completed" => status[p] = "completed" \/ provider[p] = "paid"
  <2>1. CASE SettlePolled(w, p)
    BY <2>1 DEF SettlePolled, FailOrSkip, CompletePayout, FailPayout, UnchangedLedger
  <2>2. CASE ~SettlePolled(w, p)
    BY <2>2 DEF SetPayoutRequestReference, FailRejected, WriteFails, FailOrSkip,
                FailPayout, UnchangedLedger
  <2> QED  BY <2>1, <2>2
<1>5. /\ \A v \in Workers \ {w} : worker'[v] = worker[v]
      /\ worker'[w].phase = worker[w].phase /\ worker'[w].todo = worker[w].todo \ {p}
      /\ worker'[w].answer = "none"
  BY DEF SetPayoutRequestReference, FailRejected, SettlePolled, WriteFails, NextPayout,
         SetWorker
<1> QED  BY <1>1, <1>2, <1>3, <1>4, <1>5 DEF StatusStep, HandStep

LEMMA PassDecision ==
  ASSUME DecisionInv, NEW w \in Workers, PassStep(w)
  PROVE  UNCHANGED <<status, provider>> /\ \A v \in Workers : HandStep(v)
<1> USE DEF DecisionInv, TypeOK, ProcessTypeOK
<1>1. UNCHANGED <<status, provider>>
  BY DEF PassStep, StartSubmissions, StartPolling, EndPass, Crash, UnchangedLedger
<1>2. \A v \in Workers \ {w} : worker'[v] = worker[v]
  BY DEF PassStep, StartSubmissions, StartPolling, EndPass, Crash, SetWorker
<1>3. /\ worker'[w].answer = "none"
      /\ \/ worker'[w].phase # "submit"
         \/ worker'[w].todo = Oldest(NeedingSubmission)
  BY DEF PassStep, StartSubmissions, StartPolling, EndPass, Crash, SetWorker
<1>4. \A x \in Oldest(NeedingSubmission) : status[x] = "processing"
  BY DEF Oldest, NeedingSubmission
<1> QED  BY <1>1, <1>2, <1>3, <1>4 DEF HandStep

LEMMA NextDecision ==
  ASSUME DecisionInv, [Next]_vars
  PROVE  DecisionInv'
<1>1. TypeOK'
  BY NextTypeOK DEF DecisionInv
<1>2. ASSUME \A x \in Payouts : StatusStep(x) /\ RecordStep(x),
             \A v \in Workers : HandStep(v),
             ~AdminSettles => \A x \in Payouts : status'[x] = "completed"
                                => status[x] = "completed" \/ provider[x] = "paid"
      PROVE  DecisionInv'
  <2>1. ~AdminSettles => CompletedIsPaid'
    BY <1>2, CompletionsKept DEF DecisionInv
  <2> QED  BY <1>1, <1>2, <2>1, StepsKeepDecisions
<1>3. ASSUME UNCHANGED <<status, provider, worker>>
      PROVE  DecisionInv'
  BY <1>2, <1>3 DEF StatusStep, RecordStep, HandStep
<1>4. ASSUME NEW p \in Payouts, ApiStep(p)
      PROVE  DecisionInv'
  BY <1>2, <1>4, ApiDecision DEF RecordStep, HandStep
<1>5. ASSUME NEW p \in Payouts, ProviderDecides(p)
      PROVE  DecisionInv'
  <2>1. UNCHANGED <<status, worker>> /\ \A x \in Payouts : RecordStep(x)
    BY <1>5 DEF ProviderDecides, UnchangedLedger, RecordStep, DecisionInv, TypeOK, ProcessTypeOK
  <2> QED  BY <1>2, <2>1 DEF StatusStep, HandStep
<1>6. ASSUME NEW c \in Calls, CallStep(c)
      PROVE  UNCHANGED <<status, provider, worker>>
  BY <1>6 DEF CallStep, CheckActiveRequests, AbandonWithdrawal, UnchangedLedger
<1>7. ASSUME NEW w \in Workers, NEW p \in Payouts, WorkerStep(w, p)
      PROVE  DecisionInv'
  <2>1. CASE \/ SubmitAccepted(w, p) \/ SubmitRejected(w, p) \/ SubmitUncertain(w, p)
             \/ PollStatus(w, p) \/ PollSkips(w, p)
    BY <1>2, <2>1, AskDecision DEF StatusStep
  <2>2. CASE \/ SetPayoutRequestReference(w, p) \/ FailRejected(w, p)
             \/ SettlePolled(w, p) \/ WriteFails(w, p)
    BY <1>2, <2>2, WriteDecisions DEF RecordStep
  <2> QED  BY <1>7, <2>1, <2>2 DEF WorkerStep
<1>8. ASSUME NEW w \in Workers, PassStep(w)
      PROVE  DecisionInv'
  BY <1>2, <1>8, PassDecision DEF StatusStep, RecordStep
<1>9. ASSUME UNCHANGED vars
      PROVE  UNCHANGED <<status, provider, worker>>
  BY <1>9 DEF vars
<1> QED  BY <1>3, <1>4, <1>5, <1>6, <1>7, <1>8, <1>9 DEF Next

LEMMA DecisionsFollow == Spec => []DecisionInv
<1>1. DecisionInv /\ [Next]_vars => DecisionInv'
  BY NextDecision
<1> QED  BY InitDecision, <1>1, PTL DEF Spec

\* If admins leave approved requests to the workers, a withdrawal reads completed
\* only once it is paid: however many workers run at once, and whatever the
\* provider refuses (ledger.go:415-476, webhook.go:84-112).
THEOREM CompletionIsPayment ==
  ASSUME ~AdminSettles
  PROVE  Spec => []CompletedIsPaid
<1>1. DecisionInv => CompletedIsPaid
  BY DEF DecisionInv
<1> QED  BY DecisionsFollow, <1>1, PTL

\* Whoever runs beside whom: a withdrawal is put back only while the provider has
\* no transfer of it under way or paid, except by an admin who settles by hand and
\* by a worker that holds a refusal of the submission (executor.go:28-33).  A
\* callback or a poll, late or repeated, never takes back a transfer.
Excused(p) ==
  \/ AdminSettles
  \/ \E w \in Workers : AtPayout(w, "submit", p) /\ worker[w].answer = "rejected"

ReversalsExcused ==
  [][\A p \in Payouts : status[p] # "failed" /\ status'[p] = "failed"
       => provider[p] \in {"unknown", "bounced"} \/ Excused(p)]_status

LEMMA ReversalStep ==
  ASSUME DecisionInv, [Next]_vars, NEW p \in Payouts, status[p] # "failed", status'[p] = "failed"
  PROVE  provider[p] \in {"unknown", "bounced"} \/ Excused(p)
<1> USE DEF DecisionInv, TypeOK, LedgerTypeOK
<1>1. ASSUME NEW x \in Payouts, ApiStep(x)
      PROVE  provider[p] \in {"unknown", "bounced"} \/ Excused(p)
  <2>1. CASE AdminFails(x)
    BY <2>1 DEF AdminFails, FailPayout, Excused
  <2>2. CASE RecordPayoutCallback(x)
    BY <2>2 DEF RecordPayoutCallback, CompletePayout, FailPayout
  <2> QED
    BY <1>1, <2>1, <2>2 DEF ApiStep, RequestWithdrawal, ApprovePayout, AdminCompletes, CompletePayout
<1>2. ASSUME NEW w \in Workers, NEW x \in Payouts, WorkerStep(w, x)
      PROVE  provider[p] \in {"unknown", "bounced"} \/ Excused(p)
  <2>1. CASE FailRejected(w, x)
    BY <2>1 DEF FailRejected, FailOrSkip, FailPayout, UnchangedLedger, Excused
  <2>2. CASE SettlePolled(w, x)
    BY <2>2 DEF SettlePolled, FailOrSkip, FailPayout, CompletePayout, UnchangedLedger
  <2>3. CASE SetPayoutRequestReference(w, x) \/ WriteFails(w, x)
    BY <2>3 DEF SetPayoutRequestReference, WriteFails, UnchangedLedger
  <2> QED
    BY <1>2, <2>1, <2>2, <2>3, AskDecision DEF WorkerStep
<1>3. ASSUME NEW x \in Payouts, ProviderDecides(x)
      PROVE  UNCHANGED status
  BY <1>3 DEF ProviderDecides, UnchangedLedger
<1>4. ASSUME NEW c \in Calls, CallStep(c)
      PROVE  UNCHANGED status
  BY <1>4 DEF CallStep, CheckActiveRequests, AbandonWithdrawal, UnchangedLedger
<1>5. ASSUME NEW w \in Workers, PassStep(w)
      PROVE  UNCHANGED status
  BY <1>5, PassDecision
<1>6. ASSUME UNCHANGED vars
      PROVE  UNCHANGED status
  BY <1>6 DEF vars
<1> QED  BY <1>1, <1>2, <1>3, <1>4, <1>5, <1>6 DEF Next

\* With no assumption on admins, workers or the provider's refusals, every
\* reversal of a transfer under way has one of the two excuses.
THEOREM ReversalsAreExcused == Spec => ReversalsExcused
<1>1. DecisionInv /\ [Next]_vars
        => [\A p \in Payouts : status[p] # "failed" /\ status'[p] = "failed"
              => provider[p] \in {"unknown", "bounced"} \/ Excused(p)]_status
  BY ReversalStep
<1> QED  BY DecisionsFollow, <1>1, PTL DEF Spec, ReversalsExcused

-----------------------------------------------------------------------------
(* The provider.  With one worker, admins that leave approved requests to  *)
(* it and a provider that never refuses a reference it has accepted, the   *)
(* ledger and the provider agree.  The invariant follows a payout through  *)
(* the worker's hands: a listed payout that was settled meanwhile is known *)
(* to the provider, and an answer not yet written is still the truth.      *)

Disciplined ==
  /\ ~AdminSettles /\ ~RetryRefused
  /\ \A w, x \in Workers : w = x

SettlementInv ==
  \A p \in Payouts :
    /\ status[p] = "failed" => provider[p] \in {"unknown", "bounced"}
    /\ status[p] = "completed" => provider[p] = "paid"
    /\ status[p] \in {"none", "pending"} => provider[p] = "unknown"

ListInv ==
  \A w \in Workers, p \in Payouts :
    worker[w].phase = "submit" /\ p \in worker[w].todo
      => \/ status[p] \in {"processing", "completed"}
         \/ status[p] = "failed" /\ provider[p] = "bounced"

AnswerInv ==
  \A w \in Workers, p \in Payouts :
    /\ AtPayout(w, "submit", p) /\ worker[w].answer = "rejected" => provider[p] = "unknown"
    /\ AtPayout(w, "poll", p) /\ worker[w].answer \in {"paid", "bounced"}
         => provider[p] = worker[w].answer

ProviderInv == TypeOK /\ SettlementInv /\ ListInv /\ AnswerInv

LEMMA InitProvider == Init => ProviderInv
  BY InitTypeOK DEF Init, ProviderInv, SettlementInv, ListInv, AnswerInv, Asleep

\* Handlers of the API write a status, and leave the provider and the worker alone.
LEMMA ApiProvider ==
  ASSUME ProviderInv, Disciplined, TypeOK', NEW p \in Payouts, ApiStep(p)
  PROVE  ProviderInv'
<1> USE DEF ProviderInv, TypeOK, LedgerTypeOK, InFlight
<1>1. UNCHANGED <<provider, worker>>
  BY DEF ApiStep, RequestWithdrawal, ApprovePayout, AdminCompletes, AdminFails,
         RecordPayoutCallback
<1>2. AnswerInv'
  BY <1>1 DEF AnswerInv, AtPayout
<1>3. ASSUME \A x \in Payouts \ {p} : status'[x] = status[x],
             \/ status[p] \in {"none", "pending"} /\ status'[p] \in {"pending", "processing"}
             \/ status[p] = "pending" /\ status'[p] = "failed"
             \/ provider[p] = "paid" /\ status'[p] = "completed"
             \/ provider[p] = "bounced" /\ status'[p] = "failed"
      PROVE  SettlementInv' /\ ListInv'
  <2>1. SettlementInv'
    BY <1>1, <1>3 DEF SettlementInv
  <2>2. ListInv'
    BY <1>1, <1>3 DEF ListInv
  <2> QED  BY <2>1, <2>2
<1>4. \A x \in Payouts \ {p} : status'[x] = status[x]
  BY DEF ApiStep, RequestWithdrawal, ApprovePayout, AdminCompletes, CompletePayout,
         AdminFails, FailPayout, RecordPayoutCallback
<1>5. \/ status[p] \in {"none", "pending"} /\ status'[p] \in {"pending", "processing"}
      \/ status[p] = "pending" /\ status'[p] = "failed"
      \/ provider[p] = "paid" /\ status'[p] = "completed"
      \/ provider[p] = "bounced" /\ status'[p] = "failed"
  BY DEF ApiStep, RequestWithdrawal, ApprovePayout, AdminCompletes, CompletePayout,
         AdminFails, FailPayout, RecordPayoutCallback, Disciplined
<1> QED  BY <1>2, <1>3, <1>4, <1>5

LEMMA DecisionProvider ==
  ASSUME ProviderInv, TypeOK', NEW p \in Payouts, ProviderDecides(p)
  PROVE  ProviderInv'
<1> USE DEF ProviderInv
<1>1. /\ UNCHANGED <<status, worker>> /\ provider[p] = "accepted"
      /\ provider'[p] \in {"paid", "bounced"}
      /\ \A x \in Payouts \ {p} : provider'[x] = provider[x]
  BY DEF ProviderDecides, UnchangedLedger, TypeOK, ProcessTypeOK
<1>2. SettlementInv'
  BY <1>1 DEF SettlementInv
<1>3. ListInv'
  BY <1>1 DEF ListInv
<1>4. AnswerInv'
  BY <1>1 DEF AnswerInv, AtPayout
<1> QED  BY <1>2, <1>3, <1>4

\* The worker puts questions to the provider and keeps the answers.
LEMMA AskProvider ==
  ASSUME ProviderInv, Disciplined, TypeOK', NEW w \in Workers, NEW p \in Payouts,
         \/ SubmitAccepted(w, p) \/ SubmitRejected(w, p) \/ SubmitUncertain(w, p)
         \/ PollStatus(w, p) \/ PollSkips(w, p)
  PROVE  ProviderInv'
<1> USE DEF ProviderInv, UnchangedLedger
<1>1. \A x \in Workers : x = w
  BY DEF Disciplined
<1>2. UNCHANGED status
  BY DEF SubmitAccepted, SubmitRejected, SubmitUncertain, PollStatus, PollSkips
<1>3. CASE SubmitAccepted(w, p)
  <2>1. /\ worker'[w].phase = "submit" /\ worker'[w].todo = worker[w].todo
        /\ worker'[w].answer = "accepted"
    BY <1>3 DEF SubmitAccepted, SetWorker, TypeOK, ProcessTypeOK
  <2>2. worker[w].phase = "submit" /\ p \in worker[w].todo
    BY <1>3 DEF SubmitAccepted, Asks, AtPayout
  <2>3. /\ \A x \in Payouts \ {p} : provider'[x] = provider[x]
        /\ provider'[p] = IF provider[p] = "unknown" THEN "accepted" ELSE provider[p]
    BY <1>3 DEF SubmitAccepted, TypeOK, ProcessTypeOK
  <2>4. provider[p] = "unknown" => status[p] = "processing"
    BY <2>2 DEF ListInv, SettlementInv
  <2>5. SettlementInv'
    BY <1>2, <2>3, <2>4 DEF SettlementInv
  <2>6. ListInv'
    BY <1>1, <1>2, <2>1, <2>2, <2>3 DEF ListInv
  <2>7. AnswerInv'
    BY <1>1, <2>1 DEF AnswerInv, AtPayout
  <2> QED  BY <2>5, <2>6, <2>7
<1>4. CASE SubmitRejected(w, p)
  <2>1. /\ worker'[w].phase = "submit" /\ worker'[w].todo = worker[w].todo
        /\ worker'[w].answer = "rejected" /\ UNCHANGED provider /\ provider[p] = "unknown"
    BY <1>4 DEF SubmitRejected, SetWorker, TypeOK, ProcessTypeOK, Disciplined
  <2>2. AtPayout(w, "submit", p)
    BY <1>4 DEF SubmitRejected, Asks
  <2>3. \A x \in Payouts : AtPayout(w, "submit", x) => x = p
    BY <2>2, OneInHand
  <2>4. SettlementInv'
    BY <1>2, <2>1 DEF SettlementInv
  <2>5. ListInv'
    BY <1>1, <1>2, <2>1, <2>2 DEF ListInv, AtPayout
  <2>6. AnswerInv'
    BY <1>1, <2>1, <2>2, <2>3 DEF AnswerInv, AtPayout
  <2> QED  BY <2>4, <2>5, <2>6
<1>5. CASE SubmitUncertain(w, p)
  <2>1. /\ worker'[w].phase = "submit" /\ worker'[w].todo = worker[w].todo \ {p}
        /\ worker'[w].answer = "none"
    BY <1>5 DEF SubmitUncertain, Asks, AtPayout, NextPayout, SetWorker, TypeOK, ProcessTypeOK
  <2>2. worker[w].phase = "submit" /\ p \in worker[w].todo
    BY <1>5 DEF SubmitUncertain, Asks, AtPayout
  <2>3. /\ \A x \in Payouts \ {p} : provider'[x] = provider[x]
        /\ \/ provider'[p] = provider[p]
           \/ provider[p] = "unknown" /\ provider'[p] = "accepted"
    BY <1>5 DEF SubmitUncertain, TypeOK, ProcessTypeOK
  <2>4. provider[p] = "unknown" => status[p] = "processing"
    BY <2>2 DEF ListInv, SettlementInv
  <2>5. SettlementInv'
    BY <1>2, <2>3, <2>4 DEF SettlementInv
  <2>6. ListInv'
    BY <1>1, <1>2, <2>1, <2>2, <2>3 DEF ListInv
  <2>7. AnswerInv'
    BY <1>1, <2>1 DEF AnswerInv, AtPayout
  <2> QED  BY <2>5, <2>6, <2>7
<1>6. CASE PollStatus(w, p)
  <2>1. /\ worker'[w].phase = "poll" /\ worker'[w].todo = worker[w].todo
        /\ worker'[w].answer = provider[p] /\ UNCHANGED provider
    BY <1>6 DEF PollStatus, SetWorker, TypeOK, ProcessTypeOK
  <2>2. AtPayout(w, "poll", p)
    BY <1>6 DEF PollStatus, Asks
  <2>3. \A x \in Payouts : AtPayout(w, "poll", x) => x = p
    BY <2>2, OneInHand
  <2>4. SettlementInv' /\ ListInv'
    BY <1>1, <1>2, <2>1 DEF SettlementInv, ListInv
  <2>5. AnswerInv'
    BY <1>1, <2>1, <2>2, <2>3 DEF AnswerInv, AtPayout
  <2> QED  BY <2>4, <2>5
<1>7. CASE PollSkips(w, p)
  <2>1. /\ worker'[w].phase = "poll" /\ worker'[w].answer = "none" /\ UNCHANGED provider
    BY <1>7 DEF PollSkips, Asks, AtPayout, NextPayout, SetWorker, TypeOK, ProcessTypeOK
  <2>2. SettlementInv' /\ ListInv'
    BY <1>1, <1>2, <2>1 DEF SettlementInv, ListInv
  <2>3. AnswerInv'
    BY <1>1, <2>1 DEF AnswerInv, AtPayout
  <2> QED  BY <2>2, <2>3
<1> QED  BY <1>3, <1>4, <1>5, <1>6, <1>7

\* The worker writes an answer and goes to the next payout of its list.
LEMMA WriteProvider ==
  ASSUME ProviderInv, Disciplined, TypeOK', NEW w \in Workers, NEW p \in Payouts,
         \/ SetPayoutRequestReference(w, p) \/ FailRejected(w, p)
         \/ SettlePolled(w, p) \/ WriteFails(w, p)
  PROVE  ProviderInv'
<1> USE DEF ProviderInv
<1>1. \A x \in Workers : x = w
  BY DEF Disciplined
<1>2. /\ worker'[w].phase = worker[w].phase /\ worker'[w].todo = worker[w].todo \ {p}
      /\ worker'[w].answer = "none" /\ UNCHANGED provider
  BY DEF SetPayoutRequestReference, FailRejected, SettlePolled, WriteFails, NextPayout,
         SetWorker, TypeOK, ProcessTypeOK
<1>3. AnswerInv'
  BY <1>1, <1>2 DEF AnswerInv, AtPayout
<1>4. \A x \in Payouts \ {p} : status'[x] = status[x]
  BY DEF SetPayoutRequestReference, FailRejected, SettlePolled, WriteFails, FailOrSkip,
         CompletePayout, FailPayout, UnchangedLedger, TypeOK, LedgerTypeOK
<1>5. \/ status'[p] = status[p]
      \/ status[p] = "processing" /\ status'[p] = "completed" /\ provider[p] = "paid"
      \/ status'[p] = "failed" /\ provider[p] \in {"unknown", "bounced"}
  <2>1. CASE SetPayoutRequestReference(w, p) \/ WriteFails(w, p)
    BY <2>1 DEF SetPayoutRequestReference, WriteFails, UnchangedLedger
  <2>2. CASE FailRejected(w, p)
    <3>1. provider[p] = "unknown"
      BY <2>2 DEF FailRejected, AnswerInv
    <3> QED  BY <2>2, <3>1 DEF FailRejected, FailOrSkip, FailPayout, UnchangedLedger,
                               TypeOK, LedgerTypeOK
  <2>3. CASE SettlePolled(w, p)
    <3>1. provider[p] = worker[w].answer /\ worker[w].answer \in {"paid", "bounced"}
      BY <2>3 DEF SettlePolled, AnswerInv
    <3> QED  BY <2>3, <3>1 DEF SettlePolled, FailOrSkip, FailPayout, CompletePayout,
                               UnchangedLedger, TypeOK, LedgerTypeOK
  <2> QED  BY <2>1, <2>2, <2>3
<1>6. SettlementInv'
  BY <1>2, <1>4, <1>5 DEF SettlementInv
<1>7. ListInv'
  BY <1>1, <1>2, <1>4 DEF ListInv
<1> QED  BY <1>3, <1>6, <1>7

\* A pass starts from what the rows say, and ends or crashes with an empty hand.
LEMMA PassProvider ==
  ASSUME ProviderInv, Disciplined, TypeOK', NEW w \in Workers, PassStep(w)
  PROVE  ProviderInv'
<1> USE DEF ProviderInv
<1>1. \A x \in Workers : x = w
  BY DEF Disciplined
<1>2. UNCHANGED <<status, provider>>
  BY DEF PassStep, StartSubmissions, StartPolling, EndPass, Crash, UnchangedLedger
<1>3. /\ worker'[w].answer = "none"
      /\ \/ worker'[w].phase # "submit"
         \/ worker'[w].todo = Oldest(NeedingSubmission)
  BY DEF PassStep, StartSubmissions, StartPolling, EndPass, Crash, SetWorker, TypeOK,
         ProcessTypeOK
<1>4. \A x \in Oldest(NeedingSubmission) : status[x] = "processing"
  BY DEF Oldest, NeedingSubmission
<1>5. SettlementInv'
  BY <1>2 DEF SettlementInv
<1>6. ListInv'
  BY <1>1, <1>2, <1>3, <1>4 DEF ListInv
<1>7. AnswerInv'
  BY <1>1, <1>3 DEF AnswerInv
<1> QED  BY <1>5, <1>6, <1>7

LEMMA NextProvider ==
  ASSUME ProviderInv, Disciplined, [Next]_vars
  PROVE  ProviderInv'
<1>1. TypeOK'
  BY NextTypeOK DEF ProviderInv
<1>2. CASE UNCHANGED <<status, provider, worker>>
  BY <1>1, <1>2 DEF ProviderInv, SettlementInv, ListInv, AnswerInv, AtPayout
<1>3. ASSUME NEW c \in Calls, CallStep(c)
      PROVE  UNCHANGED <<status, provider, worker>>
  BY <1>3 DEF CallStep, CheckActiveRequests, AbandonWithdrawal, UnchangedLedger
<1>4. ASSUME NEW w \in Workers, NEW p \in Payouts, WorkerStep(w, p)
      PROVE  ProviderInv'
  BY <1>1, <1>4, AskProvider, WriteProvider DEF WorkerStep
<1>5. ASSUME UNCHANGED vars
      PROVE  UNCHANGED <<status, provider, worker>>
  BY <1>5 DEF vars
<1> QED
  BY <1>1, <1>2, <1>3, <1>4, <1>5, ApiProvider, DecisionProvider, PassProvider DEF Next

LEMMA ProviderFollows ==
  ASSUME Disciplined
  PROVE  Spec => []ProviderInv
<1>1. ProviderInv /\ [Next]_vars => ProviderInv'
  BY NextProvider
<1> QED  BY InitProvider, <1>1, PTL DEF Spec

\* Under that discipline no transfer the provider took is ever refunded as well,
\* whatever is lost, repeated or cut short by a crash on the way.
THEOREM NeverPaidAndRefunded ==
  ASSUME Disciplined
  PROVE  Spec => []NoReversalInFlight
<1>1. Spec => []ProviderInv
  BY ProviderFollows
<1>2. ProviderInv => NoReversalInFlight
  BY DEF ProviderInv, SettlementInv, NoReversalInFlight
<1> QED  BY <1>1, <1>2, PTL
=============================================================================
