---------------------------- MODULE PaymentMirror ----------------------------
(***************************************************************************)
(* What the payment ledger promises, without webhooks, refund calls or     *)
(* reconciliation passes: a charge is bound to one intent of the payment   *)
(* provider, for good, and its status follows what became of that intent,  *)
(* perhaps late, never ahead of it and never backwards.                    *)
(***************************************************************************)

CONSTANTS Charges, Intents, NoIntent

VARIABLES
  provider,  \* what became of each intent at the provider
  status,    \* status of each charge in the ledger
  intent     \* the intent a charge is bound to

vars == <<provider, status, intent>>

\* The statuses the life of an intent has gone through.
Reported(p) ==
  CASE p = "none"     -> {}
    [] p = "open"     -> {"processing"}
    [] p = "paid"     -> {"processing", "completed"}
    [] p = "declined" -> {"processing", "failed"}
    [] p = "refunded" -> {"processing", "completed", "refunded"}

Later(s) ==
  CASE s \in {"pending", "processing"} -> {"processing", "completed", "failed"}
    [] s = "completed"                 -> {"refunded"}
    [] OTHER                           -> {}

Init ==
  /\ provider = [i \in Intents |-> "none"]
  /\ status = [c \in Charges |-> "none"]
  /\ intent = [c \in Charges |-> NoIntent]

ProviderMoves(i) ==
  /\ \E edge \in {<<"none", "open">>, <<"open", "paid">>, <<"open", "declined">>,
                  <<"paid", "refunded">>} :
       /\ provider[i] = edge[1]
       /\ provider' = [provider EXCEPT ![i] = edge[2]]
  /\ UNCHANGED <<status, intent>>

\* An intent belongs to one charge.
Bind(c, i) ==
  /\ status[c] = "none" /\ provider[i] # "none"
  /\ \A x \in Charges : intent[x] # i
  /\ status' = [status EXCEPT ![c] = "pending"]
  /\ intent' = [intent EXCEPT ![c] = i]
  /\ UNCHANGED provider

CatchUp(c) ==
  /\ status[c] # "none"
  /\ \E s \in Reported(provider[intent[c]]) \cap Later(status[c]) :
       status' = [status EXCEPT ![c] = s]
  /\ UNCHANGED <<provider, intent>>

Next ==
  \/ \E i \in Intents : ProviderMoves(i)
  \/ \E c \in Charges : CatchUp(c) \/ \E i \in Intents : Bind(c, i)

Spec == Init /\ [][Next]_vars
=============================================================================
