-------------------------- MODULE MCPaymentCharges --------------------------
(* Small instances of PaymentCharges for TLC.                               *)
EXTENDS PaymentCharges, TLC

Symmetry == Permutations(Intents) \cup Permutations(Calls) \cup Permutations(Handlers)
=============================================================================
