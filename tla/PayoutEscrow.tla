---------------------------- MODULE PayoutEscrow ----------------------------
(***************************************************************************)
(* What the payout ledger promises a driver, without requests, workers or  *)
(* providers: a withdrawal takes its amount out of the wallet and holds    *)
(* it, and what is held is either paid out or put back, once and in full.  *)
(***************************************************************************)
EXTENDS Naturals

CONSTANTS Payouts, Drivers, NoDriver, Amounts, Opening

VARIABLES balance, owner, amount, stage

escrowVars == <<balance, owner, amount, stage>>

Init ==
  /\ balance = Opening
  /\ owner = [p \in Payouts |-> NoDriver]
  /\ amount = [p \in Payouts |-> 0]
  /\ stage = [p \in Payouts |-> "none"]

Hold(p, d, a) ==
  /\ stage[p] = "none" /\ a <= balance[d]
  /\ balance' = [balance EXCEPT ![d] = @ - a]
  /\ owner' = [owner EXCEPT ![p] = d]
  /\ amount' = [amount EXCEPT ![p] = a]
  /\ stage' = [stage EXCEPT ![p] = "held"]

PayOut(p) ==
  /\ stage[p] = "held"
  /\ stage' = [stage EXCEPT ![p] = "paid"]
  /\ UNCHANGED <<balance, owner, amount>>

PutBack(p) ==
  /\ stage[p] = "held"
  /\ balance' = [balance EXCEPT ![owner[p]] = @ + amount[p]]
  /\ stage' = [stage EXCEPT ![p] = "returned"]
  /\ UNCHANGED <<owner, amount>>

Next ==
  \E p \in Payouts :
    \/ \E d \in Drivers, a \in Amounts : Hold(p, d, a)
    \/ PayOut(p)
    \/ PutBack(p)

Spec == Init /\ [][Next]_escrowVars
=============================================================================
