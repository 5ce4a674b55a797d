---------------------------- MODULE DriverWallets ----------------------------
(***************************************************************************)
(* The driver wallet service (internal/drivers/wallet.go): an earning or a *)
(* payout changes the wallet by one statement and writes the transaction   *)
(* history by the next, without a transaction around them; a payout judges *)
(* the balance on a read before both.                                      *)
(*                                                                         *)
(* Abstracted: currency, descriptions, references; balance_after, which    *)
(* an earning writes as 0 and a payout computes from its read.             *)
(***************************************************************************)
EXTENDS Integers, Functions

CONSTANTS
  Earners,       \* drivers
  Sums,          \* net earnings and payouts of the instance
  MaxEarned,     \* bound on total_earned_cents
  WalletCalls    \* service calls that may be between two statements

ASSUME SumsAssumption == Sums \subseteq Nat \ {0} /\ MaxEarned \in Nat

VARIABLES
  wallet,    \* driver_wallets; all zero before the row exists
  opened,    \* drivers who have a row
  history,   \* totals of wallet_transactions by type
  entry      \* calls between two statements

walletVars == <<wallet, opened, history, entry>>

NoEntry == [at |-> "idle"]
Entries == [at : {"deduct", "earning", "payout"}, driver : Earners, amount : Sums]
Money == -MaxEarned..MaxEarned
Wallet == [balance : Money, pending : Money, earned : Money, paid : Nat]

WalletTypeOK ==
  /\ wallet \in [Earners -> Wallet]
  /\ opened \in SUBSET Earners
  /\ history \in [Earners -> [earning : Nat, payout : Nat]]
  /\ entry \in [WalletCalls -> Entries \cup {NoEntry}]

InitWallets ==
  /\ wallet = [d \in Earners |-> [balance |-> 0, pending |-> 0, earned |-> 0, paid |-> 0]]
  /\ opened = {}
  /\ history = [d \in Earners |-> [earning |-> 0, payout |-> 0]]
  /\ entry = [c \in WalletCalls |-> NoEntry]

-----------------------------------------------------------------------------
Goes(c, at, d, n) == entry' = [entry EXCEPT ![c] = [at |-> at, driver |-> d, amount |-> n]]
Returns(c) == entry' = [entry EXCEPT ![c] = NoEntry]

\* ON CONFLICT DO NOTHING.
CreateDriverWallet(d) ==
  /\ opened' = opened \cup {d}
  /\ UNCHANGED <<wallet, history, entry>>

GetDriverWallet(d) == wallet[d]

AddDriverEarning(d, n) ==
  wallet' = [wallet EXCEPT ![d].balance = @ + n, ![d].pending = @ + n, ![d].earned = @ + n]

\* The balance is judged by the read alone.
MutDeductDriverBalance(d, n) ==
  wallet' = [wallet EXCEPT ![d].balance = @ - n, ![d].paid = @ + n]

\* WHERE balance_cents >= $2.
DeductDriverBalance(d, n) ==
  wallet[d].balance >= n /\ wallet' = [wallet EXCEPT ![d].balance = @ - n, ![d].paid = @ + n]

\* Without a wallet the statement returns no row and the call ends.
AddEarning(c, d, n) ==
  /\ entry[c] = NoEntry /\ d \in opened
  /\ wallet[d].earned + n <= MaxEarned
  /\ AddDriverEarning(d, n)
  /\ Goes(c, "earning", d, n)
  /\ UNCHANGED <<opened, history>>

ProcessPayout(c, d, n) ==
  /\ entry[c] = NoEntry /\ d \in opened
  /\ GetDriverWallet(d).balance >= n
  /\ Goes(c, "deduct", d, n)
  /\ UNCHANGED <<wallet, opened, history>>

Deduct(c) ==
  /\ entry[c].at = "deduct"
  /\ DeductDriverBalance(entry[c].driver, entry[c].amount)
  /\ Goes(c, "payout", entry[c].driver, entry[c].amount)
  /\ UNCHANGED <<opened, history>>

CreateWalletTransaction(c) ==
  /\ entry[c].at \in {"earning", "payout"}
  /\ history' = [history EXCEPT ![entry[c].driver][entry[c].at] = @ + entry[c].amount]
  /\ Returns(c)
  /\ UNCHANGED <<wallet, opened>>

\* The balance no longer suffices, a statement fails, the process stops: what
\* the wallet did stays done.
FailEntry(c) ==
  /\ entry[c] # NoEntry
  /\ Returns(c)
  /\ UNCHANGED <<wallet, opened, history>>

NextWallets ==
  \/ \E d \in Earners : CreateDriverWallet(d)
  \/ \E c \in WalletCalls, d \in Earners, n \in Sums : AddEarning(c, d, n) \/ ProcessPayout(c, d, n)
  \/ \E c \in WalletCalls : Deduct(c) \/ CreateWalletTransaction(c) \/ FailEntry(c)

SpecWallets == InitWallets /\ [][NextWallets]_walletVars

-----------------------------------------------------------------------------
\* What the calls of a driver have done to the wallet and not yet recorded.
Unrecorded(d, type) ==
  LET calls == {c \in WalletCalls : entry[c].at = type /\ entry[c].driver = d}
  IN  SumFunction([c \in calls |-> entry[c].amount])

(* However payouts race and calls stop between their statements, a wallet  *)
(* holds what was earned and not paid, and never less than nothing; the    *)
(* history never tells of money the wallet did not move                    *)
(* (drivers/wallet.go:95-152).                                             *)
WalletReconciles ==
  \A d \in Earners :
    /\ wallet[d].balance = wallet[d].earned - wallet[d].paid
    /\ wallet[d].balance >= 0
    /\ history[d].earning + Unrecorded(d, "earning") <= wallet[d].earned
    /\ history[d].payout + Unrecorded(d, "payout") <= wallet[d].paid
=============================================================================
