------------------------------ MODULE Promotions ------------------------------
(***************************************************************************)
(* Promo codes (internal/promotions; no binary constructs the service      *)
(* yet).  A caller has a code validated for a ride, which reads the code   *)
(* and then the user's usages, and applies it in a second call: one        *)
(* transaction that counts the use and inserts the usage row, unique per   *)
(* code, user and ride.  The second call repeats none of the checks.       *)
(*                                                                         *)
(* Abstracted: the discount, a formula of the fare; minimum fare, and the  *)
(* dates but for whether the code is running.  Loyalty points are left     *)
(* out: nothing calls their statements.                                    *)
(***************************************************************************)
EXTENDS Naturals, FiniteSetsExt

CONSTANTS
  Codes,       \* promo codes
  Passengers,  \* users who redeem them
  PromoRides,  \* rides they are used for
  MaxUses,     \* max_uses of every code
  PromoCalls   \* callers between validation and application

ASSUME PromoAssumption ==
  MaxUses \in Nat /\ IsFiniteSet(PromoCalls) /\ IsFiniteSet(PromoRides)

VARIABLES
  running,      \* codes that are active and within their dates
  currentUses,  \* promo_codes.current_uses
  usages,       \* rows of promo_code_usages
  redeeming     \* callers: reading a code, or told that it is valid

promoVars == <<running, currentUses, usages, redeeming>>

PromoUse == [code : Codes, user : Passengers, ride : PromoRides]
Redeem   == [at : {"read", "valid"}, use : PromoUse]
NoRedeem == [at |-> "none"]

PromoTypeOK ==
  /\ running \subseteq Codes
  /\ currentUses \in [Codes -> Nat]
  /\ usages \subseteq PromoUse
  /\ redeeming \in [PromoCalls -> Redeem \cup {NoRedeem}]

InitPromotions ==
  /\ running = {} /\ usages = {}
  /\ currentUses = [p \in Codes |-> 0]
  /\ redeeming = [c \in PromoCalls |-> NoRedeem]

-----------------------------------------------------------------------------
\* Codes are created, switched off, and start and end by date.
CreatePromoCode(p) ==
  /\ running' = running \cup {p}
  /\ UNCHANGED <<currentUses, usages, redeeming>>

DeactivatePromoCode(p) ==
  /\ running' = running \ {p}
  /\ UNCHANGED <<currentUses, usages, redeeming>>

\* One use too many.
MutUnderLimit(p) == currentUses[p] <= MaxUses

UnderLimit(p) == currentUses[p] < MaxUses

\* The code's row is read.
ValidatePromoCode(c, x) ==
  /\ redeeming[c] = NoRedeem
  /\ x.code \in running /\ UnderLimit(x.code)
  /\ redeeming' = [redeeming EXCEPT ![c] = [at |-> "read", use |-> x]]
  /\ UNCHANGED <<running, currentUses, usages>>

CheckUserPromoUsage(p, u) == \E x \in usages : x.code = p /\ x.user = u

ConfirmPromoCode(c) ==
  /\ redeeming[c].at = "read"
  /\ ~CheckUserPromoUsage(redeeming[c].use.code, redeeming[c].use.user)
  /\ redeeming' = [redeeming EXCEPT ![c].at = "valid"]
  /\ UNCHANGED <<running, currentUses, usages>>

\* SET current_uses = current_uses + 1: max_uses is not compared.
IncrementPromoUsage(p) == currentUses' = [currentUses EXCEPT ![p] = @ + 1]

RecordPromoUsage(x) == x \notin usages /\ usages' = usages \cup {x}

\* One transaction; a usage row that is there already fails
\* the insert and rolls the count back (DropPromo).
ApplyPromoCode(c) ==
  /\ redeeming[c].at = "valid"
  /\ IncrementPromoUsage(redeeming[c].use.code)
  /\ RecordPromoUsage(redeeming[c].use)
  /\ redeeming' = [redeeming EXCEPT ![c] = NoRedeem]
  /\ UNCHANGED running

\* A check fails, the caller never applies the code, or a statement fails.
DropPromo(c) ==
  /\ redeeming[c] # NoRedeem
  /\ redeeming' = [redeeming EXCEPT ![c] = NoRedeem]
  /\ UNCHANGED <<running, currentUses, usages>>

NextPromotions ==
  \/ \E p \in Codes : CreatePromoCode(p) \/ DeactivatePromoCode(p)
  \/ \E c \in PromoCalls :
       \/ \E x \in PromoUse : ValidatePromoCode(c, x)
       \/ ConfirmPromoCode(c) \/ ApplyPromoCode(c) \/ DropPromo(c)

SpecPromotions == InitPromotions /\ [][NextPromotions]_promoVars

-----------------------------------------------------------------------------
Redeeming(p) == {c \in PromoCalls : redeeming[c] # NoRedeem /\ redeeming[c].use.code = p}

(* Validation and application are two calls (promo.go:75 and 139), so that *)
(* a code can be used more than max_uses times; the overrun is less than   *)
(* the number of callers at it at once, however often codes are switched   *)
(* off and on and callers give up.                                         *)
UsesBounded ==
  \A p \in Codes :
    currentUses[p] + Cardinality(Redeeming(p)) < MaxUses + Cardinality(PromoCalls)
=============================================================================
