--------------------------- MODULE MCPayoutLedger ---------------------------
(* TLC instances of PayoutLedger: wallets, amounts and symmetry.           *)
EXTENDS PayoutLedger, TLC

MCOpening == [d \in Drivers |-> 3]

Symmetry == Permutations(Calls) \cup Permutations(Workers)
=============================================================================
