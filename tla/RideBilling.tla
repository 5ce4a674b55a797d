----------------------------- MODULE RideBilling -----------------------------
(***************************************************************************)
(* How a ride is paid and invoiced: the rider's choice of a method         *)
(* (internal/trust), the online intent (internal/payment), the driver's    *)
(* confirmation of cash (internal/cash) and the invoice                    *)
(* (internal/invoices).  None of them runs in a transaction: an intent is  *)
(* judged on the ride as it was read and stored by a later statement, an   *)
(* invoice is looked for, inserted as a draft and issued by three.         *)
(*                                                                         *)
(* Abstracted: a ride's intents under further idempotency keys, what the   *)
(* provider does before it reports a payment, the columns of an invoice,   *)
(* who drives (the driver of a completed ride confirms its cash).          *)
(***************************************************************************)
EXTENDS Integers

CONSTANTS
  Trips,          \* rides of the instance
  RideFare,       \* suggested_fare_cents
  Tenders,        \* amounts of cash a driver may report
  BillingCalls    \* requests that may be between two statements

ASSUME FareAssumption == RideFare \in Nat \ {0} /\ Tenders \subseteq Nat \ {0}

VARIABLES
  trip,      \* rides.status; "matched" stands for accepted to in_progress
  method,    \* rides.payment_method; the online ones are "card"
  charge,    \* status of the ride's payment_charges row
  cash,      \* cash_payments: amount paid and change, 0 before the row exists
  invoice,   \* saft_invoices.status
  bill,      \* requests between two statements
  crossed    \* rides whose method last became cash beside an intent (history)

billingVars == <<trip, method, charge, cash, invoice, bill, crossed>>

NoBill == [at |-> "idle"]
Bill == [at : {"intent", "invoice", "issue"}, trip : Trips]

BillingTypeOK ==
  /\ trip \in [Trips -> {"requested", "matched", "completed", "cancelled"}]
  /\ method \in [Trips -> {"cash", "card"}]
  /\ charge \in [Trips -> {"none", "pending", "completed"}]
  /\ cash \in [Trips -> [paid : Tenders \cup {0}, change : Nat]]
  /\ invoice \in [Trips -> {"none", "draft", "issued"}]
  /\ bill \in [BillingCalls -> Bill \cup {NoBill}]
  /\ crossed \subseteq Trips

InitBilling ==
  /\ trip = [t \in Trips |-> "requested"]
  /\ method = [t \in Trips |-> "cash"]
  /\ charge = [t \in Trips |-> "none"]
  /\ cash = [t \in Trips |-> [paid |-> 0, change |-> 0]]
  /\ invoice = [t \in Trips |-> "none"]
  /\ bill = [c \in BillingCalls |-> NoBill]
  /\ crossed = {}

-----------------------------------------------------------------------------
Begin(c, at, t) == bill' = [bill EXCEPT ![c] = [at |-> at, trip |-> t]]
End(c) == bill' = [bill EXCEPT ![c] = NoBill]

\* The rides component matches, gives back, completes and cancels.
RideMoves(t) ==
  /\ \/ trip[t] = "requested" /\ trip' = [trip EXCEPT ![t] = "matched"]
     \/ trip[t] = "matched" /\ \E s \in {"requested", "completed"} : trip' = [trip EXCEPT ![t] = s]
     \/ trip[t] \in {"requested", "matched"} /\ trip' = [trip EXCEPT ![t] = "cancelled"]
  /\ UNCHANGED <<method, charge, cash, invoice, bill, crossed>>

\* The method of a ride may change until the ride is over.
MutSetRidePaymentMethod(t, m) ==
  trip[t] # "cancelled" /\ method' = [method EXCEPT ![t] = m]

SetRidePaymentMethod(t, m) ==
  trip[t] = "requested" /\ method' = [method EXCEPT ![t] = m]

\* An intent of the ride is stored, or judged and on its way.
Intended(t) ==
  charge[t] # "none" \/ \E c \in BillingCalls : bill[c].at = "intent" /\ bill[c].trip = t

SetPaymentMethod(t) ==
  /\ \E m \in {"cash", "card"} :
       /\ SetRidePaymentMethod(t, m)
       /\ crossed' = IF m = "cash" /\ Intended(t) THEN crossed \cup {t} ELSE crossed \ {t}
  /\ UNCHANGED <<trip, charge, cash, invoice, bill>>

\* An intent does not wait for the ride's end; one that is stored is replayed.
BeginIntent(c, t) ==
  /\ bill[c] = NoBill
  /\ method[t] # "cash" /\ trip[t] # "cancelled" /\ charge[t] = "none"
  /\ Begin(c, "intent", t)
  /\ UNCHANGED <<trip, method, charge, cash, invoice, crossed>>

\* Of two inserts under one key the second returns the first one's row.
CreatePaymentIntent(c) ==
  /\ bill[c].at = "intent"
  /\ charge' = [charge EXCEPT ![bill[c].trip] = IF @ = "none" THEN "pending" ELSE @]
  /\ End(c)
  /\ UNCHANGED <<trip, method, cash, invoice, crossed>>

ChargeCompletes(t) ==
  /\ charge[t] = "pending"
  /\ charge' = [charge EXCEPT ![t] = "completed"]
  /\ UNCHANGED <<trip, method, cash, invoice, bill, crossed>>

\* The CHECK of the table is left to the caller.
MutSuffices(amount) == TRUE

\* CHECK (amount_paid >= amount_due)
Suffices(amount) == amount >= RideFare

\* One statement: the ride must be completed, paid in cash and not confirmed.
ConfirmCashPayment(t, amount) ==
  /\ trip[t] = "completed" /\ method[t] = "cash" /\ cash[t].paid = 0
  /\ Suffices(amount)
  /\ cash' = [cash EXCEPT ![t] = [paid |-> amount, change |-> amount - RideFare]]

Confirm(t) ==
  /\ \E amount \in Tenders : ConfirmCashPayment(t, amount)
  /\ UNCHANGED <<trip, method, charge, invoice, bill, crossed>>

GetSAFTInvoicesByRide(t) == invoice[t] # "none"

\* A ride with an invoice is answered with it, draft or issued: no step.
BeginInvoice(c, t) ==
  /\ bill[c] = NoBill
  /\ trip[t] = "completed" /\ ~GetSAFTInvoicesByRide(t)
  /\ Begin(c, "invoice", t)
  /\ UNCHANGED <<trip, method, charge, cash, invoice, crossed>>

\* ride_id is UNIQUE: the later of two inserts fails, and its request with it.
CreateSAFTInvoice(c) ==
  LET t == bill[c].trip IN
  /\ bill[c].at = "invoice"
  /\ IF invoice[t] = "none"
     THEN invoice' = [invoice EXCEPT ![t] = "draft"] /\ Begin(c, "issue", t)
     ELSE UNCHANGED invoice /\ End(c)
  /\ UNCHANGED <<trip, method, charge, cash, crossed>>

IssueSAFTInvoice(c) ==
  /\ bill[c].at = "issue"
  /\ invoice' = [invoice EXCEPT ![bill[c].trip] = "issued"]
  /\ End(c)
  /\ UNCHANGED <<trip, method, charge, cash, crossed>>

\* The process stops, or a statement fails.
AbandonBill(c) ==
  /\ bill[c] # NoBill
  /\ End(c)
  /\ UNCHANGED <<trip, method, charge, cash, invoice, crossed>>

NextBilling ==
  \/ \E t \in Trips :
       \/ RideMoves(t) \/ SetPaymentMethod(t) \/ ChargeCompletes(t) \/ Confirm(t)
       \/ \E c \in BillingCalls : BeginIntent(c, t) \/ BeginInvoice(c, t)
  \/ \E c \in BillingCalls :
       CreatePaymentIntent(c) \/ CreateSAFTInvoice(c) \/ IssueSAFTInvoice(c) \/ AbandonBill(c)

SpecBilling == InitBilling /\ [][NextBilling]_billingVars

-----------------------------------------------------------------------------
(* A ride has a cash payment and an online charge only if its rider        *)
(* changed to cash while the intent was stored, or judged on the earlier   *)
(* method and on its way, however requests overlap: the method is read and *)
(* written by three components, each in its own statement                  *)
(* (trust/handler.go:31-52,                                                *)
(* payment/service.go:132-137, cash/handler.go:36).                        *)
PaidTwiceExplained ==
  \A t \in Trips : cash[t].paid > 0 /\ charge[t] # "none" => t \in crossed
=============================================================================
