--------------------------- MODULE RideCostsProofs ---------------------------
(***************************************************************************)
(* Theorems about what a ride costs and where the money goes: the cache of *)
(* rates (FareRates), the cancellation fee (CancellationFees), uses of     *)
(* promo codes (Promotions), cash against online payment (RideBilling),    *)
(* the driver's wallet (DriverWallets), and the spending limit of a        *)
(* business account (BusinessRides).                                       *)
(***************************************************************************)
EXTENDS FareRates, CancellationFees, Promotions, RideBilling, DriverWallets,
        BusinessRides, SumTheorems

(* Rates.  RatesExpire alone says nothing of rates that are not used yet:   *)
(* whatever is held was current when it was read, and is no younger than   *)
(* the read.                                                               *)
ReadWhenCurrent(r) ==
  /\ r \in Rates
  /\ r.readAt <= r.at /\ r.at <= clock
  /\ r.readAt <= replaced[r.version]

RatesInv ==
  /\ RateTypeOK
  /\ cached # NoRates => ReadWhenCurrent(cached)
  /\ \A q \in Quotes : quote[q] # NoQuote => ReadWhenCurrent(quote[q].rates)
  /\ \A q \in Quotes : quote[q].step = "priced" => quote[q].now <= clock
  /\ RatesExpire

LEMMA InitRatesInv == InitRates => RatesInv
  BY QuoteAssumption
  DEF InitRates, RatesInv, RateTypeOK, RatesExpire, Time, Version, Never, NoQuote, NoRates

LEMMA HeldRates ==
  ASSUME RatesInv, NEW q \in Quotes, quote[q].step \in {"load", "priced"}
  PROVE  quote[q] \in Quote /\ ReadWhenCurrent(quote[q].rates)
  BY DEF RatesInv, RateTypeOK, NoQuote, Quote

\* A quote gets rates that are young enough, or were read before they were replaced.
LEMMA Priced ==
  ASSUME RatesInv, NEW q \in Quotes, NEW r \in Rates,
         UNCHANGED <<clock, replaced>>,
         cached' = cached \/ cached' = r,
         ReadWhenCurrent(r),
         clock < replaced[r.version] + TTL + (r.at - r.readAt),
         Suggest(q, r)
  PROVE  RatesInv'
<1> DEFINE priced == [step |-> "priced", rates |-> r, now |-> clock]
<1>1. /\ quote' = [quote EXCEPT ![q] = priced]
      /\ clock \in Time
  BY DEF Suggest, RatesInv, RateTypeOK
<1>2. priced \in Quote /\ priced # NoQuote
  BY <1>1 DEF Quote, NoQuote
<1>3. RateTypeOK'
  BY <1>1, <1>2 DEF RatesInv, RateTypeOK
<1>4. \A x : ReadWhenCurrent(x)' <=> ReadWhenCurrent(x)
  BY DEF ReadWhenCurrent
<1>5. cached' # NoRates => ReadWhenCurrent(cached)'
  BY <1>4 DEF RatesInv, ReadWhenCurrent
<1>6. \A p \in Quotes : quote'[p] = IF p = q THEN priced ELSE quote[p]
  BY <1>1 DEF RatesInv, RateTypeOK
<1>7. \A p \in Quotes : quote'[p] # NoQuote => ReadWhenCurrent(quote[p].rates)'
  BY <1>6 DEF RatesInv, ReadWhenCurrent
<1>8. \A p \in Quotes : quote'[p].step = "priced" => quote'[p].now <= clock'
  BY <1>1, <1>6 DEF RatesInv, Time
<1>9. RatesExpire'
  BY <1>6 DEF RatesInv, RatesExpire
<1> QED
  BY <1>3, <1>5, <1>7, <1>8, <1>9 DEF RatesInv

LEMMA RatesInvKept == RatesInv /\ [NextRates]_rateVars => RatesInv'
<1> SUFFICES ASSUME RatesInv, [NextRates]_rateVars
             PROVE  RatesInv'
  OBVIOUS
<1>0. /\ clock \in Nat /\ TTL \in Nat \ {0} /\ MaxTime \in Nat
      /\ \A r \in Rates : r.at \in Nat /\ r.readAt \in Nat /\ replaced[r.version] \in Nat
  BY QuoteAssumption DEF RatesInv, RateTypeOK, Time, Rates, Never
<1>1. CASE Tick
  <2>1. clock' = clock + 1 /\ clock' \in Time /\ UNCHANGED <<replaced, cached, quote>>
    BY <1>0, <1>1 DEF Tick, Time
  <2>2. \A r : ReadWhenCurrent(r) => ReadWhenCurrent(r)'
    BY <1>0, <2>1 DEF ReadWhenCurrent
  <2>3. \A q \in Quotes : quote'[q].step = "priced" => quote'[q].now <= clock'
    <3> SUFFICES ASSUME NEW q \in Quotes, quote[q].step = "priced"
                 PROVE  quote[q].now <= clock + 1
      BY <2>1
    <3>1. quote[q].now \in Nat /\ quote[q].now <= clock
      BY DEF RatesInv, RateTypeOK, Quote, NoQuote, Time
    <3> QED
      BY <1>0, <3>1
  <2> QED
    BY <2>1, <2>2, <2>3 DEF RatesInv, RateTypeOK, RatesExpire
<1>2. CASE ChangeConfig
  <2>1. PICK v \in Version : Current(v) /\ replaced' = [replaced EXCEPT ![v] = clock]
    BY <1>2 DEF ChangeConfig
  <2>2. UNCHANGED <<clock, cached, quote>>
    BY <1>2 DEF ChangeConfig
  <2>3. replaced' \in [Version -> 0..Never] /\ RateTypeOK'
    BY <1>0, <2>1, <2>2 DEF RatesInv, RateTypeOK, Time, Never
  <2>4. \A r \in Rates : replaced'[r.version] = IF r.version = v THEN clock ELSE replaced[r.version]
    BY <2>1 DEF RatesInv, RateTypeOK, Rates
  <2>5. \A r : ReadWhenCurrent(r) => ReadWhenCurrent(r)'
    BY <1>0, <2>2, <2>4 DEF ReadWhenCurrent
  <2>6. RatesExpire'
    <3> SUFFICES ASSUME NEW q \in Quotes, quote[q].step = "priced"
                 PROVE  quote[q].now < replaced'[quote[q].rates.version] + TTL
                                         + (quote[q].rates.at - quote[q].rates.readAt)
      BY <2>2 DEF RatesExpire
    <3> DEFINE r == quote[q].rates
    <3>1. quote[q].now \in Nat /\ quote[q].now <= clock /\ r \in Rates /\ r.readAt <= r.at
      BY HeldRates DEF RatesInv, RateTypeOK, Quote, NoQuote, Time, ReadWhenCurrent
    <3>2. quote[q].now < replaced[r.version] + TTL + (r.at - r.readAt)
      BY DEF RatesInv, RatesExpire
    <3>3. CASE r.version = v
      BY <1>0, <2>4, <3>1, <3>3
    <3>4. CASE r.version # v
      BY <2>4, <3>1, <3>2, <3>4
    <3> QED
      BY <3>3, <3>4
  <2> QED
    BY <2>2, <2>3, <2>5, <2>6 DEF RatesInv
<1>3. ASSUME NEW q \in Quotes, UseCached(q)
      PROVE  RatesInv'
  <2>1. cached \in Rates /\ ReadWhenCurrent(cached) /\ clock - cached.at < TTL
    BY <1>3 DEF UseCached, Fresh, RatesInv, RateTypeOK
  <2>2. clock < replaced[cached.version] + TTL + (cached.at - cached.readAt)
    BY <1>0, <2>1 DEF ReadWhenCurrent
  <2>3. UNCHANGED <<clock, replaced, cached>> /\ Suggest(q, cached)
    BY <1>3 DEF UseCached
  <2> QED
    BY <2>1, <2>2, <2>3, Priced
<1>4. ASSUME NEW q \in Quotes, GetAllConfig(q)
      PROVE  RatesInv'
  <2>1. UNCHANGED <<clock, replaced, cached>>
    BY <1>4 DEF GetAllConfig
  <2>2. PICK v \in Version :
          /\ Current(v)
          /\ quote' = [quote EXCEPT ![q] =
               [step |-> "load", rates |-> [version |-> v, at |-> clock, readAt |-> clock]]]
    BY <1>4 DEF GetAllConfig
  <2> DEFINE r == [version |-> v, at |-> clock, readAt |-> clock]
             load == [step |-> "load", rates |-> r]
  <2>3. r \in Rates /\ load \in Quote
    BY DEF RatesInv, RateTypeOK, Rates, Quote
  <2>4. ReadWhenCurrent(r)
    <3>1. replaced[v] = MaxTime + 1 /\ clock \in 0..MaxTime
      BY <2>2 DEF Current, RatesInv, RateTypeOK, Never, Time
    <3>2. clock <= replaced[v]
      BY <1>0, <3>1
    <3> QED
      BY <1>0, <2>3, <3>2 DEF ReadWhenCurrent
  <2>5. \A p \in Quotes : quote'[p] = IF p = q THEN load ELSE quote[p]
    BY <2>2 DEF RatesInv, RateTypeOK
  <2>6. RateTypeOK'
    BY <2>1, <2>2, <2>3 DEF RatesInv, RateTypeOK
  <2>7. \A x : ReadWhenCurrent(x)' <=> ReadWhenCurrent(x)
    BY <2>1 DEF ReadWhenCurrent
  <2>8. \A p \in Quotes : quote'[p] # NoQuote => ReadWhenCurrent(quote[p].rates)'
    BY <2>1, <2>4, <2>5 DEF RatesInv, ReadWhenCurrent
  <2>9. \A p \in Quotes : quote'[p].step = "priced" => quote'[p].now <= clock'
    BY <2>1, <2>5 DEF RatesInv
  <2>10. RatesExpire'
    BY <2>1, <2>5 DEF RatesInv, RatesExpire
  <2> QED
    BY <2>1, <2>6, <2>7, <2>8, <2>9, <2>10 DEF RatesInv
<1>5. ASSUME NEW q \in Quotes, StoreRates(q)
      PROVE  RatesInv'
  <2> DEFINE held == quote[q].rates
             r == [held EXCEPT !.at = clock]
  <2>1. /\ quote[q].step = "load" /\ cached' = r /\ Suggest(q, r)
        /\ UNCHANGED <<clock, replaced>>
    BY <1>5 DEF StoreRates
  <2>2. ReadWhenCurrent(held)
    BY <2>1, HeldRates
  <2>3. /\ r \in Rates
        /\ r.version = held.version /\ r.at = clock /\ r.readAt = held.readAt
    BY <2>2 DEF ReadWhenCurrent, Rates, RatesInv, RateTypeOK
  <2>4. ReadWhenCurrent(r)
    BY <1>0, <2>2, <2>3 DEF ReadWhenCurrent
  <2>5. clock < replaced[r.version] + TTL + (r.at - r.readAt)
    <3> HIDE DEF r
    <3>1. /\ r.readAt \in Nat /\ replaced[r.version] \in Nat /\ r.at = clock
          /\ r.readAt <= replaced[r.version]
      BY <1>0, <2>3, <2>4 DEF ReadWhenCurrent
    <3> QED
      BY <1>0, <3>1
  <2> QED
    BY <2>1, <2>3, <2>4, <2>5, Priced
<1>6. ASSUME NEW q \in Quotes, EndQuote(q)
      PROVE  RatesInv'
  <2>1. /\ UNCHANGED <<clock, replaced, cached>>
        /\ quote' = [quote EXCEPT ![q] = NoQuote]
    BY <1>6 DEF EndQuote
  <2>2. \A p \in Quotes : quote'[p] = IF p = q THEN NoQuote ELSE quote[p]
    BY <2>1 DEF RatesInv, RateTypeOK
  <2>3. RateTypeOK'
    BY <2>1 DEF RatesInv, RateTypeOK
  <2> QED
    BY <2>1, <2>2, <2>3 DEF RatesInv, ReadWhenCurrent, RatesExpire, NoQuote
<1>7. CASE UNCHANGED rateVars
  BY <1>7 DEF rateVars, RatesInv, RateTypeOK, ReadWhenCurrent, RatesExpire
<1> QED
  BY <1>1, <1>2, <1>3, <1>4, <1>5, <1>6, <1>7 DEF NextRates

(* Rates that an operator has replaced are used for less than the ttl plus *)
(* the time of the load that stored them, for any number of requests that  *)
(* load at once and store in any order (pricing.go:107-126).               *)
THEOREM ReplacedRatesExpire == SpecRates => []RatesExpire
<1>1. RatesInv => RatesExpire
  BY DEF RatesInv
<1> QED
  BY InitRatesInv, RatesInvKept, <1>1, PTL DEF SpecRates

-----------------------------------------------------------------------------
(* Cancellation fees.                                                      *)

LEMMA FeesTyped == SpecFees => []FeeTypeOK
<1>1. InitFees => FeeTypeOK
  <2> SUFFICES ASSUME InitFees
               PROVE  FeeTypeOK
    OBVIOUS
  <2>1. stage = "requested" /\ elapsed \in 0..MaxWait /\ touched \in 0..elapsed
    BY PolicyAssumption DEF InitFees
  <2>2. assigned \in BOOLEAN
    BY DEF InitFees
  <2> QED
    BY <2>1, <2>2 DEF FeeTypeOK
<1>2. FeeTypeOK /\ [NextFees]_feeVars => FeeTypeOK'
  <2> SUFFICES ASSUME FeeTypeOK, [NextFees]_feeVars
               PROVE  FeeTypeOK'
    OBVIOUS
  <2>0. MaxWait \in Nat
    BY PolicyAssumption
  <2>1. CASE Wait
    BY <2>0, <2>1 DEF Wait, FeeTypeOK
  <2>2. CASE EndRide
    BY <2>0, <2>2 DEF EndRide, CancelRide, FeeTypeOK, Over
  <2>3. ASSUME NEW next \in WithDriver \cup {"requested", "completed"}, Advance(next)
        PROVE  FeeTypeOK'
    BY <2>0, <2>3 DEF Advance, FeeTypeOK, Over
  <2>4. CASE UNCHANGED feeVars
    BY <2>4 DEF feeVars, FeeTypeOK
  <2>5. CASE SetRideTripPIN
    BY <2>0, <2>5 DEF SetRideTripPIN, FeeTypeOK
  <2> QED
    BY <2>1, <2>2, <2>3, <2>4, <2>5 DEF NextFees
<1> QED
  BY <1>1, <1>2, PTL DEF SpecFees

\* The fee as a function of the two times, so that it can be compared at two of them.
Fee(role, reason, since, updated) ==
  IF \/ reason \in {"no_driver_found", "safety_concern"}
     \/ role = "driver"
     \/ since < FreeCancellationWindow
     \/ assigned /\ updated < DriverAssignedFreeWindow
  THEN 0
  ELSE IF assigned THEN Capped(Surcharged(updated - DriverAssignedFreeWindow))
  ELSE BaseFee

LEMMA FeeGrows ==
  ASSUME NEW role \in {"rider", "driver"}, NEW reason \in Reasons,
         NEW s \in Nat, NEW a \in Nat, NEW n \in {0, 1}
  PROVE  /\ Fee(role, reason, s + n, a + n) >= Fee(role, reason, s, a)
         /\ Fee(role, reason, s + n, a + n) <= (IF role = "rider" THEN MaxFee ELSE 0)
<1>1. /\ FreeCancellationWindow \in Nat /\ DriverAssignedFreeWindow \in Nat
      /\ BaseFee \in Nat /\ MaxFee \in Nat /\ BaseFee <= MaxFee
  BY PolicyAssumption
<1>2. CASE reason \in {"no_driver_found", "safety_concern"} \/ role = "driver"
  BY <1>1, <1>2 DEF Fee
<1>3. CASE ~(reason \in {"no_driver_found", "safety_concern"} \/ role = "driver")
  <2>1. role = "rider"
    BY <1>3
  <2>2. CASE assigned
    BY <1>1, <1>3, <2>1, <2>2 DEF Fee, Capped, Surcharged
  <2>3. CASE ~assigned
    BY <1>1, <1>3, <2>1, <2>3 DEF Fee
  <2> QED
    BY <2>2, <2>3
<1> QED
  BY <1>2, <1>3

(* While nobody updates the ride, the fee of a rider's cancellation never  *)
(* falls and never passes the maximum, whatever the windows and the base   *)
(* fee are; nobody else pays (cancellation.go:110-158).                    *)
THEOREM WaitingNeverPays == SpecFees => FeeNeverFalls
<1>1. ASSUME FeeTypeOK, FeeTypeOK', [NextFees]_feeVars,
             NEW role \in {"rider", "driver"}, NEW reason \in Reasons,
             UNCHANGED <<stage, touched, assigned>>
      PROVE  /\ CalculateCancellationFee(role, reason)' >= CalculateCancellationFee(role, reason)
             /\ CalculateCancellationFee(role, reason)' <= (IF role = "rider" THEN MaxFee ELSE 0)
  <2>1. /\ elapsed \in Nat /\ touched \in Nat /\ elapsed - touched \in Nat
        /\ elapsed' \in Nat
    BY PolicyAssumption, <1>1 DEF FeeTypeOK
  <2>2. \E n \in {0, 1} : elapsed' = elapsed + n
    BY <1>1, <2>1 DEF NextFees, Wait, EndRide, CancelRide, SetRideTripPIN, Advance, feeVars
  <2>3. PICK n \in {0, 1} : elapsed' = elapsed + n
    BY <2>2
  <2>4. CalculateCancellationFee(role, reason) = Fee(role, reason, elapsed, elapsed - touched)
    BY DEF CalculateCancellationFee, Fee
  <2>5. elapsed' - touched' = (elapsed - touched) + n
    BY <1>1, <2>1, <2>3
  <2>6. CalculateCancellationFee(role, reason)'
          = Fee(role, reason, elapsed + n, (elapsed - touched) + n)
    BY <1>1, <2>3, <2>5 DEF CalculateCancellationFee, Fee
  <2> QED
    BY <2>1, <2>4, <2>6, FeeGrows
<1>2. FeeTypeOK /\ FeeTypeOK' /\ [NextFees]_feeVars =>
        [\A role \in {"rider", "driver"}, reason \in Reasons :
           UNCHANGED <<stage, touched, assigned>> =>
             /\ CalculateCancellationFee(role, reason)' >= CalculateCancellationFee(role, reason)
             /\ CalculateCancellationFee(role, reason)' <= (IF role = "rider" THEN MaxFee ELSE 0)]_feeVars
  BY <1>1
<1> QED
  BY FeesTyped, <1>2, PTL DEF SpecFees, FeeNeverFalls

-----------------------------------------------------------------------------
(* Promo codes.  Of the callers at a code all but one may be past the       *)
(* comparison with max_uses when the last use is counted.                  *)
UsesInv == PromoTypeOK /\ UsesBounded

LEMMA CallersCounted ==
  ASSUME PromoTypeOK, NEW p \in Codes
  PROVE  /\ IsFiniteSet(PromoCalls) /\ Cardinality(PromoCalls) \in Nat
         /\ Redeeming(p) \in SUBSET PromoCalls
         /\ IsFiniteSet(Redeeming(p)) /\ Cardinality(Redeeming(p)) \in Nat
         /\ Cardinality(Redeeming(p)) <= Cardinality(PromoCalls)
<1>1. IsFiniteSet(PromoCalls) /\ Redeeming(p) \in SUBSET PromoCalls
  BY PromoAssumption DEF Redeeming
<1> QED
  BY <1>1, FS_Subset, FS_CardinalityType

LEMMA InitUsesInv == ASSUME PromoCalls # {} PROVE InitPromotions => UsesInv
<1> SUFFICES ASSUME InitPromotions
             PROVE  UsesInv
  OBVIOUS
<1>1. PromoTypeOK
  BY DEF InitPromotions, PromoTypeOK
<1>2. ASSUME NEW p \in Codes
      PROVE  currentUses[p] + Cardinality(Redeeming(p)) < MaxUses + Cardinality(PromoCalls)
  <2>1. currentUses[p] = 0 /\ Redeeming(p) = {}
    BY DEF InitPromotions, Redeeming
  <2>2. Cardinality(Redeeming(p)) = 0 /\ Cardinality(PromoCalls) # 0
    BY <2>1, FS_EmptySet, PromoAssumption
  <2> QED
    BY <1>1, <2>1, <2>2, CallersCounted, PromoAssumption
<1> QED
  BY <1>1, <1>2 DEF UsesInv, UsesBounded

\* A caller leaves the code it is at.
LEMMA CallerLeaves ==
  ASSUME PromoTypeOK, NEW c \in PromoCalls, redeeming[c] # NoRedeem, NEW p \in Codes,
         redeeming' = [redeeming EXCEPT ![c] = NoRedeem]
  PROVE  Cardinality(Redeeming(p)') =
           IF redeeming[c].use.code = p THEN Cardinality(Redeeming(p)) - 1
                                        ELSE Cardinality(Redeeming(p))
<1>1. Redeeming(p)' = Redeeming(p) \ {c}
  BY DEF Redeeming, PromoTypeOK
<1>2. c \in Redeeming(p) <=> redeeming[c].use.code = p
  BY DEF Redeeming
<1> QED
  BY <1>1, <1>2, CallersCounted, FS_RemoveElement

LEMMA PromoTypeKept == PromoTypeOK /\ [NextPromotions]_promoVars => PromoTypeOK'
<1> SUFFICES ASSUME PromoTypeOK, [NextPromotions]_promoVars
             PROVE  PromoTypeOK'
  OBVIOUS
<1>1. ASSUME NEW p \in Codes, CreatePromoCode(p) \/ DeactivatePromoCode(p)
      PROVE  PromoTypeOK'
  BY <1>1 DEF CreatePromoCode, DeactivatePromoCode, PromoTypeOK
<1>2. ASSUME NEW c \in PromoCalls, NEW x \in PromoUse, ValidatePromoCode(c, x)
      PROVE  PromoTypeOK'
  <2> DEFINE reads == [at |-> "read", use |-> x]
  <2>1. reads \in Redeem
    BY DEF Redeem
  <2> QED
    BY <1>2, <2>1 DEF ValidatePromoCode, PromoTypeOK
<1>3. ASSUME NEW c \in PromoCalls, ConfirmPromoCode(c)
      PROVE  PromoTypeOK'
  <2> DEFINE valid == [redeeming[c] EXCEPT !.at = "valid"]
  <2>1. /\ redeeming[c] \in Redeem
        /\ redeeming' = [redeeming EXCEPT ![c] = valid]
        /\ UNCHANGED <<running, currentUses, usages>>
    BY <1>3 DEF ConfirmPromoCode, PromoTypeOK, NoRedeem
  <2>2. valid \in Redeem
    BY <2>1 DEF Redeem
  <2> QED
    BY <2>1, <2>2 DEF PromoTypeOK
<1>4. ASSUME NEW c \in PromoCalls, ApplyPromoCode(c)
      PROVE  PromoTypeOK'
  <2>1. redeeming[c].use \in PromoUse /\ redeeming[c].use.code \in Codes
    BY <1>4 DEF ApplyPromoCode, PromoTypeOK, Redeem, PromoUse, NoRedeem
  <2> QED
    BY <1>4, <2>1 DEF ApplyPromoCode, IncrementPromoUsage, RecordPromoUsage, PromoTypeOK
<1>5. ASSUME NEW c \in PromoCalls, DropPromo(c)
      PROVE  PromoTypeOK'
  BY <1>5 DEF DropPromo, PromoTypeOK
<1>6. CASE UNCHANGED promoVars
  BY <1>6 DEF promoVars, PromoTypeOK
<1> QED
  BY <1>1, <1>2, <1>3, <1>4, <1>5, <1>6 DEF NextPromotions

\* The types of Promotions hold in every reachable state.
LEMMA PromosTyped == SpecPromotions => []PromoTypeOK
<1>1. InitPromotions => PromoTypeOK
  BY DEF InitPromotions, PromoTypeOK
<1> QED
  BY <1>1, PromoTypeKept, PTL DEF SpecPromotions

LEMMA UsesInvKept == UsesInv /\ [NextPromotions]_promoVars => UsesInv'
<1> SUFFICES ASSUME UsesInv, [NextPromotions]_promoVars
             PROVE  UsesInv'
  OBVIOUS
<1>0. /\ PromoTypeOK /\ PromoTypeOK'
      /\ MaxUses \in Nat /\ IsFiniteSet(PromoCalls) /\ Cardinality(PromoCalls) \in Nat
      /\ \A p \in Codes : currentUses[p] \in Nat
  BY PromoTypeKept, PromoAssumption, FS_CardinalityType DEF UsesInv, PromoTypeOK
<1>1. ASSUME NEW p \in Codes, CreatePromoCode(p) \/ DeactivatePromoCode(p)
      PROVE  UsesInv'
  <2>1. running' \subseteq Codes /\ UNCHANGED <<currentUses, usages, redeeming>>
    BY <1>0, <1>1 DEF CreatePromoCode, DeactivatePromoCode, PromoTypeOK
  <2> QED
    BY <2>1 DEF UsesInv, PromoTypeOK, UsesBounded, Redeeming
<1>2. ASSUME NEW c \in PromoCalls, NEW x \in PromoUse, ValidatePromoCode(c, x)
      PROVE  UsesInv'
  <2> DEFINE reads == [at |-> "read", use |-> x]
  <2>1. /\ redeeming[c] = NoRedeem /\ currentUses[x.code] < MaxUses
        /\ redeeming' = [redeeming EXCEPT ![c] = reads]
        /\ UNCHANGED <<running, currentUses, usages>>
    BY <1>2 DEF ValidatePromoCode, UnderLimit
  <2>2. reads \in Redeem /\ reads # NoRedeem
    BY DEF Redeem, NoRedeem
  <2>4. ASSUME NEW p \in Codes
        PROVE  currentUses'[p] + Cardinality(Redeeming(p)') < MaxUses + Cardinality(PromoCalls)
    <3>1. CASE x.code = p
      <4>1. Cardinality(Redeeming(p)') \in Nat
              /\ Cardinality(Redeeming(p)') <= Cardinality(PromoCalls)
        BY <1>0, CallersCounted, FS_Subset, FS_CardinalityType, PromoAssumption DEF Redeeming
      <4> QED
        BY <1>0, <2>1, <3>1, <4>1
    <3>2. CASE x.code # p
      <4>1. Redeeming(p)' = Redeeming(p)
        BY <1>0, <2>1, <2>2, <3>2 DEF Redeeming, PromoTypeOK
      <4> QED
        BY <2>1, <4>1 DEF UsesInv, UsesBounded
    <3> QED
      BY <3>1, <3>2
  <2> QED
    BY <1>0, <2>4 DEF UsesInv, UsesBounded
<1>3. ASSUME NEW c \in PromoCalls, ConfirmPromoCode(c)
      PROVE  UsesInv'
  <2> DEFINE valid == [redeeming[c] EXCEPT !.at = "valid"]
  <2>1. /\ redeeming[c] \in Redeem
        /\ redeeming' = [redeeming EXCEPT ![c] = valid]
        /\ UNCHANGED <<running, currentUses, usages>>
    BY <1>0, <1>3 DEF ConfirmPromoCode, PromoTypeOK, NoRedeem
  <2>2. /\ valid \in Redeem /\ valid.use = redeeming[c].use
        /\ valid # NoRedeem /\ redeeming[c] # NoRedeem
    BY <2>1 DEF Redeem, NoRedeem
  <2>4. \A p \in Codes : Redeeming(p)' = Redeeming(p)
    BY <1>0, <2>1, <2>2 DEF Redeeming, PromoTypeOK
  <2> QED
    BY <1>0, <2>1, <2>4 DEF UsesInv, UsesBounded
<1>4. ASSUME NEW c \in PromoCalls, ApplyPromoCode(c)
      PROVE  UsesInv'
  <2> DEFINE q == redeeming[c].use.code
  <2>1. /\ redeeming[c] # NoRedeem
        /\ currentUses' = [currentUses EXCEPT ![q] = @ + 1]
        /\ usages' = usages \cup {redeeming[c].use}
        /\ redeeming' = [redeeming EXCEPT ![c] = NoRedeem]
        /\ UNCHANGED running
    BY <1>4 DEF ApplyPromoCode, IncrementPromoUsage, RecordPromoUsage, NoRedeem
  <2>2. redeeming[c].use \in PromoUse /\ q \in Codes
    BY <1>0, <2>1 DEF PromoTypeOK, Redeem, PromoUse
  <2>4. \A p \in Codes : currentUses'[p] + Cardinality(Redeeming(p)')
                           = currentUses[p] + Cardinality(Redeeming(p))
    <3> SUFFICES ASSUME NEW p \in Codes
                 PROVE  currentUses'[p] + Cardinality(Redeeming(p)')
                          = currentUses[p] + Cardinality(Redeeming(p))
      OBVIOUS
    <3>1. Cardinality(Redeeming(p)) \in Nat
      BY <1>0, CallersCounted
    <3>2. currentUses'[p] = IF q = p THEN currentUses[p] + 1 ELSE currentUses[p]
      BY <1>0, <2>1 DEF PromoTypeOK
    <3>3. Cardinality(Redeeming(p)') = IF q = p THEN Cardinality(Redeeming(p)) - 1
                                                ELSE Cardinality(Redeeming(p))
      BY <1>0, <2>1, CallerLeaves
    <3> QED
      BY <1>0, <3>1, <3>2, <3>3
  <2> QED
    BY <1>0, <2>4 DEF UsesInv, UsesBounded
<1>5. ASSUME NEW c \in PromoCalls, DropPromo(c)
      PROVE  UsesInv'
  <2>1. /\ redeeming[c] # NoRedeem
        /\ redeeming' = [redeeming EXCEPT ![c] = NoRedeem]
        /\ UNCHANGED <<running, currentUses, usages>>
    BY <1>5 DEF DropPromo
  <2>3. ASSUME NEW p \in Codes
        PROVE  currentUses'[p] + Cardinality(Redeeming(p)') < MaxUses + Cardinality(PromoCalls)
    <3>1. /\ Cardinality(Redeeming(p)) \in Nat /\ Cardinality(Redeeming(p)') \in Int
          /\ Cardinality(Redeeming(p)') <= Cardinality(Redeeming(p))
      <4>1. Cardinality(Redeeming(p)') = IF redeeming[c].use.code = p
                                           THEN Cardinality(Redeeming(p)) - 1
                                           ELSE Cardinality(Redeeming(p))
        BY <1>0, <2>1, CallerLeaves
      <4>2. Cardinality(Redeeming(p)) \in Nat
        BY <1>0, CallersCounted
      <4> QED
        BY <4>1, <4>2
    <3> QED
      BY <1>0, <2>1, <3>1 DEF UsesInv, UsesBounded
  <2> QED
    BY <1>0, <2>3 DEF UsesInv, UsesBounded
<1>6. CASE UNCHANGED promoVars
  BY <1>6 DEF promoVars, UsesInv, PromoTypeOK, UsesBounded, Redeeming
<1> QED
  BY <1>1, <1>2, <1>3, <1>4, <1>5, <1>6 DEF NextPromotions

(* With any number of callers, max_uses is overrun by less than their      *)
(* number: validation and application are two calls, and the second        *)
(* compares nothing (promo.go:75, 139).                                    *)
THEOREM OverrunBounded == ASSUME PromoCalls # {} PROVE SpecPromotions => []UsesBounded
<1>1. UsesInv => UsesBounded
  BY DEF UsesInv
<1> QED
  BY InitUsesInv, UsesInvKept, <1>1, PTL DEF SpecPromotions

-----------------------------------------------------------------------------
(* Paying.                                                                 *)

LEMMA InitBillingTyped == InitBilling => BillingTypeOK
  BY FareAssumption DEF InitBilling, BillingTypeOK, NoBill

LEMMA BillTyped ==
  ASSUME BillingTypeOK, NEW c \in BillingCalls, bill[c].at # "idle"
  PROVE  bill[c] \in Bill /\ bill[c].trip \in Trips
  BY DEF BillingTypeOK, Bill, NoBill

LEMMA BillingTypeKept == BillingTypeOK /\ [NextBilling]_billingVars => BillingTypeOK'
<1> SUFFICES ASSUME BillingTypeOK, [NextBilling]_billingVars
             PROVE  BillingTypeOK'
  OBVIOUS
<1> USE DEF BillingTypeOK
<1>1. ASSUME NEW t \in Trips, RideMoves(t)
      PROVE  BillingTypeOK'
  BY <1>1 DEF RideMoves
<1>2. ASSUME NEW t \in Trips, SetPaymentMethod(t)
      PROVE  BillingTypeOK'
  BY <1>2 DEF SetPaymentMethod, SetRidePaymentMethod
<1>3. ASSUME NEW t \in Trips, ChargeCompletes(t)
      PROVE  BillingTypeOK'
  BY <1>3 DEF ChargeCompletes
<1>4. ASSUME NEW t \in Trips, Confirm(t)
      PROVE  BillingTypeOK'
  <2>1. PICK amount \in Tenders :
          /\ amount >= RideFare
          /\ cash' = [cash EXCEPT ![t] = [paid |-> amount, change |-> amount - RideFare]]
    BY <1>4 DEF Confirm, ConfirmCashPayment, Suffices
  <2>2. amount - RideFare \in Nat
    BY <2>1, FareAssumption
  <2>3. cash' \in [Trips -> [paid : Tenders \cup {0}, change : Nat]]
    BY <2>1, <2>2
  <2> QED
    BY <1>4, <2>3 DEF Confirm
<1>5. ASSUME NEW c \in BillingCalls, NEW t \in Trips, BeginIntent(c, t) \/ BeginInvoice(c, t)
      PROVE  BillingTypeOK'
  <2>1. \A at \in {"intent", "invoice"} : [at |-> at, trip |-> t] \in Bill
    BY DEF Bill
  <2> QED
    BY <1>5, <2>1 DEF BeginIntent, BeginInvoice, Begin
<1>6. ASSUME NEW c \in BillingCalls, CreatePaymentIntent(c)
      PROVE  BillingTypeOK'
  BY <1>6, BillTyped DEF CreatePaymentIntent, End
<1>7. ASSUME NEW c \in BillingCalls, CreateSAFTInvoice(c)
      PROVE  BillingTypeOK'
  <2>1. bill[c].trip \in Trips
    BY <1>7, BillTyped DEF CreateSAFTInvoice
  <2>2. [at |-> "issue", trip |-> bill[c].trip] \in Bill
    BY <2>1 DEF Bill
  <2>3. invoice' \in [Trips -> {"none", "draft", "issued"}]
    BY <1>7, <2>1 DEF CreateSAFTInvoice
  <2>4. bill' \in [BillingCalls -> Bill \cup {NoBill}]
    <3>1. \/ bill' = [bill EXCEPT ![c] = [at |-> "issue", trip |-> bill[c].trip]]
          \/ bill' = [bill EXCEPT ![c] = NoBill]
      BY <1>7 DEF CreateSAFTInvoice, Begin, End
    <3> QED
      BY <2>2, <3>1
  <2> QED
    BY <1>7, <2>3, <2>4 DEF CreateSAFTInvoice
<1>8. ASSUME NEW c \in BillingCalls, IssueSAFTInvoice(c)
      PROVE  BillingTypeOK'
  BY <1>8, BillTyped DEF IssueSAFTInvoice, End
<1>9. ASSUME NEW c \in BillingCalls, AbandonBill(c)
      PROVE  BillingTypeOK'
  BY <1>9 DEF AbandonBill, End
<1>10. CASE UNCHANGED billingVars
  BY <1>10 DEF billingVars
<1> QED
  BY <1>1, <1>2, <1>3, <1>4, <1>5, <1>6, <1>7, <1>8, <1>9, <1>10 DEF NextBilling

(* Every reachable state is well typed: no confirmation of cash returns    *)
(* less than nothing (the CHECK of cash_payments).                         *)
THEOREM BillingTyped == SpecBilling => []BillingTypeOK
  BY InitBillingTyped, BillingTypeKept, PTL DEF SpecBilling

-----------------------------------------------------------------------------
\* A ride whose method is cash has an intent only across a change to cash, and
\* cash is confirmed where the method is cash and can no longer change.
Intending(c, t) == bill[c].at = "intent" /\ bill[c].trip = t

CashKnown(t) ==
  /\ method[t] = "cash" /\ Intended(t) => t \in crossed
  /\ cash[t].paid > 0 => method[t] = "cash" /\ trip[t] = "completed"

BillingInv == BillingTypeOK /\ \A t \in Trips : CashKnown(t)

LEMMA InitBillingInv == InitBilling => BillingInv
<1> SUFFICES ASSUME InitBilling PROVE BillingInv
  OBVIOUS
<1>1. ASSUME NEW t \in Trips
      PROVE  ~Intended(t) /\ cash[t].paid = 0
  BY DEF InitBilling, Intended, NoBill
<1> QED  BY <1>1, InitBillingTyped DEF BillingInv, CashKnown

\* A step that gives a ride no intent, and leaves its method and its cash, keeps
\* what is known; of the ride itself only completion is final.
LEMMA CashKept ==
  ASSUME NEW t \in Trips, CashKnown(t),
         Intended(t)' => Intended(t) \/ method[t] # "cash",
         UNCHANGED <<method, cash, crossed>>,
         trip[t] = "completed" => trip'[t] = "completed"
  PROVE  CashKnown(t)'
<1>1. method'[t] = "cash" /\ Intended(t)' => t \in crossed'
  BY DEF CashKnown
<1>2. cash'[t].paid > 0 => method'[t] = "cash" /\ trip'[t] = "completed"
  BY DEF CashKnown
<1> QED  BY <1>1, <1>2 DEF CashKnown

LEMMA BillingInvKept ==
  ASSUME BillingInv, [NextBilling]_billingVars
  PROVE  BillingInv'
<1>1. BillingTypeOK'
  BY BillingTypeKept DEF BillingInv
<1> SUFFICES ASSUME NEW t \in Trips
             PROVE  CashKnown(t)'
  BY <1>1 DEF BillingInv
<1>2. BillingTypeOK /\ CashKnown(t)
  BY DEF BillingInv
<1> USE DEF BillingTypeOK
<1>3. ASSUME NEW s \in Trips, RideMoves(s)
      PROVE  CashKnown(t)'
  <2>1. UNCHANGED <<method, cash, crossed, charge, bill>>
    BY <1>3 DEF RideMoves
  <2>2. trip[t] = "completed" => trip'[t] = "completed"
    BY <1>2, <1>3 DEF RideMoves
  <2> QED  BY <1>2, <2>1, <2>2, CashKept DEF Intended
<1>4. ASSUME NEW s \in Trips, SetPaymentMethod(s)
      PROVE  CashKnown(t)'
  <2>1. PICK m \in {"cash", "card"} :
          /\ SetRidePaymentMethod(s, m)
          /\ crossed' = IF m = "cash" /\ Intended(s) THEN crossed \cup {s} ELSE crossed \ {s}
    BY <1>4 DEF SetPaymentMethod
  <2>2. UNCHANGED <<trip, charge, cash, bill>> /\ (Intended(t)' <=> Intended(t))
    BY <1>4 DEF SetPaymentMethod, Intended
  <2>3. CASE s = t
    <3>1. trip[t] = "requested" /\ method'[t] = m
      BY <1>2, <2>1, <2>3 DEF SetRidePaymentMethod
    <3>2. m = "cash" /\ Intended(t) => t \in crossed'
      BY <2>1, <2>3
    <3>3. method'[t] = "cash" /\ Intended(t)' => t \in crossed'
      BY <2>2, <3>1, <3>2
    <3>4. ~(cash'[t].paid > 0)
      BY <1>2, <2>2, <3>1 DEF CashKnown
    <3> QED  BY <3>3, <3>4 DEF CashKnown
  <2>4. CASE s # t
    <3>1. method'[t] = method[t] /\ (t \in crossed' <=> t \in crossed)
      BY <1>2, <2>1, <2>4 DEF SetRidePaymentMethod
    <3>2. method'[t] = "cash" /\ Intended(t)' => t \in crossed'
      BY <1>2, <2>2, <3>1 DEF CashKnown
    <3>3. cash'[t].paid > 0 => method'[t] = "cash" /\ trip'[t] = "completed"
      BY <1>2, <2>2, <3>1 DEF CashKnown
    <3> QED  BY <3>2, <3>3 DEF CashKnown
  <2> QED  BY <2>3, <2>4
<1>5. ASSUME NEW s \in Trips, ChargeCompletes(s)
      PROVE  CashKnown(t)'
  <2>1. UNCHANGED <<method, cash, crossed, trip, bill>>
    BY <1>5 DEF ChargeCompletes
  <2>2. charge'[t] # "none" => charge[t] # "none"
    BY <1>2, <1>5 DEF ChargeCompletes
  <2> QED  BY <1>2, <2>1, <2>2, CashKept DEF Intended
<1>6. ASSUME NEW s \in Trips, Confirm(s)
      PROVE  CashKnown(t)'
  <2>1. UNCHANGED <<method, crossed, trip, charge, bill>>
    BY <1>6 DEF Confirm
  <2>2. trip[s] = "completed" /\ method[s] = "cash"
        /\ (s # t => cash'[t] = cash[t])
    BY <1>2, <1>6 DEF Confirm, ConfirmCashPayment
  <2>3. method'[t] = "cash" /\ Intended(t)' => t \in crossed'
    BY <1>2, <2>1 DEF CashKnown, Intended
  <2>4. cash'[t].paid > 0 => method'[t] = "cash" /\ trip'[t] = "completed"
    BY <1>2, <2>1, <2>2 DEF CashKnown
  <2> QED  BY <2>3, <2>4 DEF CashKnown
<1>7. ASSUME NEW d \in BillingCalls, NEW s \in Trips, BeginIntent(d, s)
      PROVE  CashKnown(t)'
  <2>1. UNCHANGED <<method, cash, crossed, trip, charge>> /\ method[s] # "cash"
    BY <1>7 DEF BeginIntent
  <2>2. \A c \in BillingCalls : Intending(c, t)' => Intending(c, t) \/ s = t
    BY <1>2, <1>7 DEF BeginIntent, Begin, Intending
  <2>3. Intended(t)' => Intended(t) \/ method[t] # "cash"
    BY <2>1, <2>2 DEF Intended, Intending
  <2> QED  BY <1>2, <2>1, <2>3, CashKept
<1>8. ASSUME NEW d \in BillingCalls, CreatePaymentIntent(d)
      PROVE  CashKnown(t)'
  <2>1. UNCHANGED <<method, cash, crossed, trip>> /\ bill[d].at = "intent"
    BY <1>8 DEF CreatePaymentIntent
  <2>2. charge'[t] # "none" => charge[t] # "none" \/ Intending(d, t)
    BY <1>2, <1>8 DEF CreatePaymentIntent, Intending
  <2>3. \A c \in BillingCalls : Intending(c, t)' => Intending(c, t)
    BY <1>2, <1>8 DEF CreatePaymentIntent, End, Intending, NoBill
  <2>4. Intended(t)' => Intended(t)
    BY <2>2, <2>3 DEF Intended, Intending
  <2> QED  BY <1>2, <2>1, <2>4, CashKept
<1>9. ASSUME NEW d \in BillingCalls,
             \/ \E s \in Trips : BeginInvoice(d, s)
             \/ CreateSAFTInvoice(d) \/ IssueSAFTInvoice(d) \/ AbandonBill(d)
      PROVE  CashKnown(t)'
  <2>1. UNCHANGED <<method, cash, crossed, trip, charge>>
    BY <1>9 DEF BeginInvoice, CreateSAFTInvoice, IssueSAFTInvoice, AbandonBill
  <2>2. \E next : next.at # "intent" /\ bill' = [bill EXCEPT ![d] = next]
    <3>1. CASE \E s \in Trips : BeginInvoice(d, s)
      BY <3>1 DEF BeginInvoice, Begin
    <3>2. CASE CreateSAFTInvoice(d)
      <4>1. \/ bill' = [bill EXCEPT ![d] = [at |-> "issue", trip |-> bill[d].trip]]
            \/ bill' = [bill EXCEPT ![d] = NoBill]
        BY <3>2 DEF CreateSAFTInvoice, Begin, End
      <4> QED  BY <4>1 DEF NoBill
    <3>3. CASE IssueSAFTInvoice(d) \/ AbandonBill(d)
      BY <3>3 DEF IssueSAFTInvoice, AbandonBill, End, NoBill
    <3> QED  BY <1>9, <3>1, <3>2, <3>3
  <2>3. \A c \in BillingCalls : Intending(c, t)' => Intending(c, t)
    BY <1>2, <2>2 DEF Intending
  <2>4. Intended(t)' => Intended(t)
    BY <2>1, <2>3 DEF Intended, Intending
  <2> QED  BY <1>2, <2>1, <2>4, CashKept
<1>10. CASE UNCHANGED billingVars
  BY <1>2, <1>10, CashKept DEF billingVars, Intended
<1> QED
  BY <1>3, <1>4, <1>5, <1>6, <1>7, <1>8, <1>9, <1>10 DEF NextBilling

(* A ride has a cash payment and an online charge only across a change to  *)
(* cash beside the intent, whatever riders choose, drivers confirm and     *)
(* requests still hold (trust/handler.go:31-52,                            *)
(* payment/service.go:132-137, cash/handler.go:36).                        *)
THEOREM CashAndCardExplained == SpecBilling => []PaidTwiceExplained
<1>1. BillingInv => PaidTwiceExplained
  BY DEF BillingInv, CashKnown, Intended, PaidTwiceExplained
<1>2. BillingInv /\ [NextBilling]_billingVars => BillingInv'
  BY BillingInvKept
<1> QED
  BY InitBillingInv, <1>1, <1>2, PTL DEF SpecBilling

-----------------------------------------------------------------------------
(* Driver wallets.  Beside the books themselves the invariant knows that   *)
(* nothing leaves the pending total, and that only finitely many calls are *)
(* between two statements, so that what they have not recorded is a sum.   *)
Unwritten(d, type) == {c \in WalletCalls : entry[c].at = type /\ entry[c].driver = d}
BusyCalls == {c \in WalletCalls : entry[c] # NoEntry}

WalletInv ==
  /\ WalletTypeOK
  /\ IsFiniteSet(BusyCalls)
  /\ \A d \in Earners : wallet[d].pending = wallet[d].earned /\ wallet[d].earned >= 0
  /\ WalletReconciles

LEMMA UnrecordedIs ==
  ASSUME NEW d, NEW type
  PROVE  Unrecorded(d, type) = SumFunction([c \in Unwritten(d, type) |-> entry[c].amount])
  BY DEF Unrecorded, Unwritten

LEMMA EntryAmounts == \A e \in Entries : e.amount \in Nat \ {0} /\ e.driver \in Earners
  BY SumsAssumption DEF Entries

LEMMA UnwrittenIsFinite ==
  ASSUME WalletTypeOK, IsFiniteSet(BusyCalls), NEW d \in Earners, NEW type \in {"earning", "payout"}
  PROVE  /\ IsFiniteSet(Unwritten(d, type))
         /\ \A c \in Unwritten(d, type) : entry[c] \in Entries /\ entry[c].amount \in Int
<1>1. \A c \in Unwritten(d, type) : entry[c] \in Entries
  BY DEF WalletTypeOK, Unwritten, NoEntry
<1>2. Unwritten(d, type) \in SUBSET BusyCalls
  BY DEF Unwritten, BusyCalls, NoEntry
<1>3. IsFiniteSet(Unwritten(d, type))
  BY <1>2, FS_Subset
<1> QED  BY <1>1, <1>3, EntryAmounts

LEMMA InitWalletInv == InitWallets => WalletInv
<1> SUFFICES ASSUME InitWallets PROVE WalletInv
  OBVIOUS
<1>1. WalletTypeOK
  BY SumsAssumption DEF InitWallets, WalletTypeOK, Wallet, Money
<1>2. BusyCalls = {} /\ \A d, type : type # "idle" => Unwritten(d, type) = {}
  BY DEF InitWallets, BusyCalls, Unwritten, NoEntry
<1>3. ASSUME NEW d \in Earners, NEW type \in {"earning", "payout"}
      PROVE  Unrecorded(d, type) = 0
  <2>1. Unwritten(d, type) = {}
    BY <1>2
  <2>2. Unrecorded(d, type) = SumFunctionOnSet([c \in {} |-> entry[c].amount], {})
    BY <2>1, UnrecordedIs DEF SumFunction
  <2> QED  BY <2>2, SumEmpty
<1>4. WalletReconciles
  BY <1>3 DEF InitWallets, WalletReconciles
<1> QED  BY <1>1, <1>2, <1>4, FS_EmptySet DEF InitWallets, WalletInv

\* What one call's next step does to the sum of its driver and to any other.
Counts(c, d, type) == entry[c].at = type /\ entry[c].driver = d

LEMMA UnrecordedStep ==
  ASSUME WalletTypeOK, IsFiniteSet(BusyCalls), NEW d \in Earners, NEW type \in {"earning", "payout"},
         NEW c \in WalletCalls, NEW new \in Entries \cup {NoEntry},
         entry' = [entry EXCEPT ![c] = new]
  PROVE  /\ Counts(c, d, type) /\ ~Counts(c, d, type)'
              => Unrecorded(d, type)' = Unrecorded(d, type) - entry[c].amount
         /\ ~Counts(c, d, type) /\ Counts(c, d, type)'
              => Unrecorded(d, type)' = Unrecorded(d, type) + new.amount
         /\ ~Counts(c, d, type) /\ ~Counts(c, d, type)'
              => Unrecorded(d, type)' = Unrecorded(d, type)
<1> DEFINE f == [x \in Unwritten(d, type) |-> entry[x].amount]
<1>1. /\ IsFiniteSet(Unwritten(d, type))
      /\ \A x \in Unwritten(d, type) : entry[x] \in Entries /\ entry[x].amount \in Int
  BY UnwrittenIsFinite
<1>2. Unrecorded(d, type) = SumFunction(f)
  BY UnrecordedIs
<1>3. Unrecorded(d, type)' = SumFunction(f')
  BY DEF Unrecorded, Unwritten
<1>4. /\ \A x \in WalletCalls \ {c} : entry'[x] = entry[x]
      /\ entry'[c] = new
  BY DEF WalletTypeOK
<1>5. DOMAIN f = Unwritten(d, type) /\ DOMAIN f' = Unwritten(d, type)'
  OBVIOUS
<1>6. Counts(c, d, type) <=> c \in Unwritten(d, type)
  BY DEF Counts, Unwritten
<1>7. Counts(c, d, type)' <=> c \in Unwritten(d, type)'
  BY DEF Counts, Unwritten
<1>8. \A x \in WalletCalls \ {c} : x \in Unwritten(d, type)' <=> x \in Unwritten(d, type)
  BY <1>4 DEF Unwritten
<1>9. \A x : x \in Unwritten(d, type) \/ x \in Unwritten(d, type)' => x \in WalletCalls
  BY DEF Unwritten
<1>10. \A x \in Unwritten(d, type) : f[x] = entry[x].amount
  OBVIOUS
<1>11. \A x \in Unwritten(d, type)' : f'[x] = entry'[x].amount
  OBVIOUS
<1> HIDE DEF f
<1>12. CASE Counts(c, d, type) /\ ~Counts(c, d, type)'
  <2>1. Unwritten(d, type) = Unwritten(d, type)' \cup {c} /\ c \notin Unwritten(d, type)'
    BY <1>6, <1>7, <1>8, <1>9, <1>12
  <2>2. IsFiniteSet(Unwritten(d, type)')
    BY <1>1, <2>1, FS_Subset
  <2>3. \A x \in Unwritten(d, type)' : f'[x] \in Int /\ f[x] = f'[x]
    BY <1>1, <1>4, <1>9, <1>10, <1>11, <2>1
  <2>4. f[c] \in Int /\ f[c] = entry[c].amount
    BY <1>1, <1>10, <2>1
  <2>5. SumFunction(f) = SumFunction(f') + f[c]
    BY <1>5, <2>1, <2>2, <2>3, <2>4, SumGrows
  <2>6. SumFunction(f') \in Int
    BY <1>5, <2>2, <2>3, SumInt DEF SumFunction
  <2> QED  BY <1>2, <1>3, <1>12, <2>4, <2>5, <2>6
<1>13. CASE ~Counts(c, d, type) /\ Counts(c, d, type)'
  <2>1. Unwritten(d, type)' = Unwritten(d, type) \cup {c} /\ c \notin Unwritten(d, type)
    BY <1>6, <1>7, <1>8, <1>9, <1>13
  <2>2. new.amount \in Int
    <3>1. new \in Entries
      BY <1>4, <1>13 DEF Counts, NoEntry
    <3> QED  BY <3>1, EntryAmounts
  <2>3. \A x \in Unwritten(d, type) : f[x] \in Int /\ f'[x] = f[x]
    BY <1>1, <1>4, <1>9, <1>10, <1>11, <2>1
  <2>4. f'[c] \in Int /\ f'[c] = new.amount
    BY <1>4, <1>11, <2>1, <2>2
  <2>5. SumFunction(f') = SumFunction(f) + f'[c]
    BY <1>1, <1>5, <2>1, <2>3, <2>4, SumGrows
  <2> QED  BY <1>2, <1>3, <1>13, <2>4, <2>5
<1>14. CASE ~Counts(c, d, type) /\ ~Counts(c, d, type)'
  <2>1. Unwritten(d, type)' = Unwritten(d, type)
    BY <1>6, <1>7, <1>8, <1>9, <1>14
  <2>2. f' = f
    BY <1>4, <1>6, <1>9, <1>14, <2>1 DEF f
  <2> QED  BY <1>2, <1>3, <1>14, <2>2
<1> QED  BY <1>12, <1>13, <1>14

\* A step that moves one call keeps the set of busy calls finite.
LEMMA BusyStep ==
  ASSUME WalletTypeOK, IsFiniteSet(BusyCalls), NEW c \in WalletCalls, NEW new,
         entry' = [entry EXCEPT ![c] = new]
  PROVE  IsFiniteSet(BusyCalls')
<1>1. BusyCalls' \in SUBSET (BusyCalls \cup {c})
  BY DEF BusyCalls, WalletTypeOK
<1>2. IsFiniteSet(BusyCalls \cup {c})
  BY FS_AddElement
<1> QED  BY <1>1, <1>2, FS_Subset

\* The wallet and the history of one driver, given what his calls left unwritten.
Books(d) ==
  /\ wallet[d].pending = wallet[d].earned /\ wallet[d].earned >= 0
  /\ wallet[d].balance = wallet[d].earned - wallet[d].paid
  /\ wallet[d].balance >= 0
  /\ history[d].earning + Unrecorded(d, "earning") <= wallet[d].earned
  /\ history[d].payout + Unrecorded(d, "payout") <= wallet[d].paid

LEMMA WalletInvIs == WalletInv <=> WalletTypeOK /\ IsFiniteSet(BusyCalls) /\ \A d \in Earners : Books(d)
  BY DEF WalletInv, WalletReconciles, Books

LEMMA BooksTyped ==
  ASSUME WalletTypeOK, IsFiniteSet(BusyCalls), NEW d \in Earners
  PROVE  /\ wallet[d] \in Wallet /\ wallet[d].balance \in Int /\ wallet[d].pending \in Int
         /\ wallet[d].earned \in Int /\ wallet[d].paid \in Nat
         /\ history[d].earning \in Nat /\ history[d].payout \in Nat
         /\ Unrecorded(d, "earning") \in Int /\ Unrecorded(d, "payout") \in Int
<1>1. /\ wallet[d] \in Wallet
      /\ history[d].earning \in Nat /\ history[d].payout \in Nat
  BY DEF WalletTypeOK
<1>2. Money \subseteq Int
  BY SumsAssumption DEF Money
<1>3. ASSUME NEW type \in {"earning", "payout"}
      PROVE  Unrecorded(d, type) \in Int
  <2> DEFINE f == [c \in Unwritten(d, type) |-> entry[c].amount]
  <2>1. \A c \in Unwritten(d, type) : f[c] \in Int
    BY UnwrittenIsFinite
  <2>2. IsFiniteSet(Unwritten(d, type)) /\ DOMAIN f = Unwritten(d, type)
    BY UnwrittenIsFinite
  <2>3. Unrecorded(d, type) = SumFunction(f)
    BY UnrecordedIs
  <2> HIDE DEF f
  <2> QED  BY <2>1, <2>2, <2>3, SumInt DEF SumFunction
<1> QED  BY <1>1, <1>2, <1>3 DEF Wallet

LEMMA UnrecordedSame ==
  ASSUME UNCHANGED entry, NEW d, NEW type
  PROVE  Unrecorded(d, type)' = Unrecorded(d, type)
  BY DEF Unrecorded

LEMMA AddEarningKeeps ==
  ASSUME WalletInv, NEW c \in WalletCalls, NEW d \in Earners, NEW n \in Sums, AddEarning(c, d, n)
  PROVE  WalletInv'
<1> DEFINE new == [at |-> "earning", driver |-> d, amount |-> n]
<1>1. WalletTypeOK /\ IsFiniteSet(BusyCalls) /\ \A e \in Earners : Books(e)
  BY WalletInvIs
<1>2. n \in Nat \ {0} /\ new \in Entries
  BY SumsAssumption DEF Entries
<1>3. /\ entry[c] = NoEntry /\ entry' = [entry EXCEPT ![c] = new]
      /\ wallet[d].earned + n <= MaxEarned
      /\ wallet' = [wallet EXCEPT ![d].balance = @ + n, ![d].pending = @ + n, ![d].earned = @ + n]
      /\ opened' = opened /\ history' = history
  BY DEF AddEarning, AddDriverEarning, Goes
<1> HIDE DEF new
<1>4. \A e \in Earners \ {d} : wallet'[e] = wallet[e]
  BY <1>1, <1>3 DEF WalletTypeOK
<1>5. wallet'[d] = [balance |-> wallet[d].balance + n, pending |-> wallet[d].pending + n,
                    earned |-> wallet[d].earned + n, paid |-> wallet[d].paid]
  BY <1>1, <1>3 DEF WalletTypeOK, Wallet
<1>6. /\ wallet[d].balance \in Int /\ wallet[d].pending \in Int /\ wallet[d].earned \in Int
      /\ wallet[d].paid \in Nat
  BY <1>1, BooksTyped
<1>7. wallet'[d] \in Wallet
  <2>1. /\ wallet[d].earned + n \in 0..MaxEarned
        /\ wallet[d].balance + n \in 0..MaxEarned
        /\ wallet[d].pending + n \in 0..MaxEarned
    BY <1>1, <1>2, <1>3, <1>6, SumsAssumption DEF Books
  <2>2. 0..MaxEarned \subseteq Money
    BY SumsAssumption DEF Money
  <2> QED  BY <1>5, <1>6, <2>1, <2>2 DEF Wallet
<1>8. WalletTypeOK'
  <2>1. DOMAIN wallet' = Earners /\ wallet' = [e \in Earners |-> wallet'[e]]
    BY <1>1, <1>3 DEF WalletTypeOK
  <2>2. wallet' \in [Earners -> Wallet]
    BY <1>1, <1>4, <1>7, <2>1 DEF WalletTypeOK
  <2>3. entry' \in [WalletCalls -> Entries \cup {NoEntry}]
    BY <1>1, <1>2, <1>3 DEF WalletTypeOK
  <2> QED  BY <1>1, <1>3, <2>2, <2>3 DEF WalletTypeOK
<1>9. IsFiniteSet(BusyCalls')
  BY <1>1, <1>3, BusyStep
<1>10. entry'[c] = new /\ new.at = "earning" /\ new.driver = d /\ new.amount = n
  BY <1>1, <1>3 DEF WalletTypeOK, new
<1>11. /\ Unrecorded(d, "earning")' = Unrecorded(d, "earning") + n
       /\ Unrecorded(d, "payout")' = Unrecorded(d, "payout")
  <2>1. /\ ~Counts(c, d, "earning") /\ Counts(c, d, "earning")'
        /\ ~Counts(c, d, "payout") /\ ~Counts(c, d, "payout")'
    BY <1>3, <1>10 DEF Counts, NoEntry
  <2>2. Unrecorded(d, "earning")' = Unrecorded(d, "earning") + n
    <3>1. Unrecorded(d, "earning")' = Unrecorded(d, "earning") + new.amount
      BY <1>1, <1>2, <1>3, <2>1, UnrecordedStep
    <3> QED  BY <1>10, <3>1
  <2>3. Unrecorded(d, "payout")' = Unrecorded(d, "payout")
    BY <1>1, <1>2, <1>3, <2>1, UnrecordedStep
  <2> QED  BY <2>2, <2>3
<1>12. ASSUME NEW e \in Earners \ {d}, NEW type \in {"earning", "payout"}
       PROVE  Unrecorded(e, type)' = Unrecorded(e, type)
  <2>1. ~Counts(c, e, type) /\ ~Counts(c, e, type)'
    BY <1>3, <1>10 DEF Counts, NoEntry
  <2> QED  BY <1>1, <1>2, <1>3, <2>1, UnrecordedStep
<1>13. Books(d)'
  <2>1. Books(d) /\ history'[d] = history[d]
    BY <1>1, <1>3
  <2>2. /\ history[d].earning \in Nat
        /\ Unrecorded(d, "earning") \in Int
    BY <1>1, BooksTyped
  <2> QED  BY <1>2, <1>5, <1>6, <1>11, <2>1, <2>2 DEF Books
<1>14. ASSUME NEW e \in Earners \ {d}
       PROVE  Books(e)'
  BY <1>1, <1>3, <1>4, <1>12 DEF Books
<1> QED  BY <1>8, <1>9, <1>13, <1>14 DEF WalletInv, WalletReconciles, Books

LEMMA DeductKeeps ==
  ASSUME WalletInv, NEW c \in WalletCalls, Deduct(c)
  PROVE  WalletInv'
<1>1. WalletTypeOK /\ IsFiniteSet(BusyCalls) /\ \A e \in Earners : Books(e)
  BY WalletInvIs
<1>0. PICK d \in Earners, n \in Sums : /\ d = entry[c].driver /\ n = entry[c].amount
                                     /\ n \in Nat \ {0}
  <2>1. entry[c] \in Entries
    BY <1>1 DEF Deduct, WalletTypeOK, NoEntry
  <2> QED  BY <2>1, EntryAmounts DEF Entries
<1> DEFINE new == [at |-> "payout", driver |-> d, amount |-> n]
<1>2. n \in Nat \ {0} /\ d \in Earners /\ new \in Entries /\ entry[c].at = "deduct"
  BY <1>0 DEF Entries, Deduct
<1>3. /\ entry' = [entry EXCEPT ![c] = new]
      /\ wallet[d].balance >= n
      /\ wallet' = [wallet EXCEPT ![d].balance = @ - n, ![d].paid = @ + n]
      /\ opened' = opened /\ history' = history
  BY <1>0 DEF Deduct, DeductDriverBalance, Goes
<1>4. \A e \in Earners \ {d} : wallet'[e] = wallet[e]
  BY <1>1, <1>3 DEF WalletTypeOK
<1>5. wallet'[d] = [balance |-> wallet[d].balance - n, pending |-> wallet[d].pending,
                    earned |-> wallet[d].earned, paid |-> wallet[d].paid + n]
  BY <1>1, <1>2, <1>3 DEF WalletTypeOK, Wallet
<1>6. entry'[c] = new /\ new.at = "payout" /\ new.driver = d /\ new.amount = n
  BY <1>1, <1>3 DEF WalletTypeOK
<1>7. /\ Unrecorded(d, "payout")' = Unrecorded(d, "payout") + n
      /\ Unrecorded(d, "earning")' = Unrecorded(d, "earning")
  <2>1. /\ ~Counts(c, d, "payout") /\ Counts(c, d, "payout")'
        /\ ~Counts(c, d, "earning") /\ ~Counts(c, d, "earning")'
    BY <1>2, <1>6 DEF Counts
  <2> HIDE DEF new
  <2>2. Unrecorded(d, "payout")' = Unrecorded(d, "payout") + n
    <3>1. Unrecorded(d, "payout")' = Unrecorded(d, "payout") + new.amount
      BY <1>1, <1>2, <1>3, <2>1, UnrecordedStep
    <3>2. new.amount = n
      BY DEF new
    <3> QED  BY <3>1, <3>2
  <2>3. Unrecorded(d, "earning")' = Unrecorded(d, "earning")
    BY <1>1, <1>2, <1>3, <2>1, UnrecordedStep
  <2> QED  BY <2>2, <2>3
<1>8. ASSUME NEW e \in Earners \ {d}, NEW type \in {"earning", "payout"}
      PROVE  Unrecorded(e, type)' = Unrecorded(e, type)
  <2>1. ~Counts(c, e, type) /\ ~Counts(c, e, type)'
    BY <1>2, <1>6 DEF Counts
  <2> HIDE DEF new
  <2> QED  BY <1>1, <1>2, <1>3, <2>1, UnrecordedStep
<1> HIDE DEF new
<1>9. /\ wallet[d].balance \in Money /\ wallet[d].pending \in Money /\ wallet[d].earned \in Money
      /\ wallet[d].balance \in Int /\ wallet[d].earned \in Int /\ wallet[d].paid \in Nat
  BY <1>1, <1>2, BooksTyped DEF Wallet
<1>10. wallet'[d] \in Wallet
  <2>1. wallet[d].balance - n \in Money
    BY <1>2, <1>3, <1>9, SumsAssumption DEF Money
  <2> QED  BY <1>2, <1>5, <1>9, <2>1 DEF Wallet
<1>11. WalletTypeOK'
  <2>1. wallet' = [e \in Earners |-> wallet'[e]]
    BY <1>1, <1>3 DEF WalletTypeOK
  <2>2. wallet' \in [Earners -> Wallet]
    BY <1>1, <1>4, <1>10, <2>1 DEF WalletTypeOK
  <2>3. entry' \in [WalletCalls -> Entries \cup {NoEntry}]
    BY <1>1, <1>2, <1>3 DEF WalletTypeOK
  <2> QED  BY <1>1, <1>3, <2>2, <2>3 DEF WalletTypeOK
<1>12. IsFiniteSet(BusyCalls')
  BY <1>1, <1>3, BusyStep
<1>13. Books(d)'
  <2>1. Books(d) /\ history'[d] = history[d]
    BY <1>1, <1>2, <1>3
  <2>2. history[d].payout \in Nat /\ Unrecorded(d, "payout") \in Int
    BY <1>1, <1>2, BooksTyped
  <2> QED  BY <1>2, <1>3, <1>5, <1>7, <1>9, <2>1, <2>2 DEF Books
<1>14. ASSUME NEW e \in Earners \ {d}
       PROVE  Books(e)'
  BY <1>1, <1>3, <1>4, <1>8, <1>14 DEF Books
<1> QED  BY <1>11, <1>12, <1>13, <1>14 DEF WalletInv, WalletReconciles, Books

LEMMA RecordKeeps ==
  ASSUME WalletInv, NEW c \in WalletCalls, CreateWalletTransaction(c)
  PROVE  WalletInv'
<1>1. WalletTypeOK /\ IsFiniteSet(BusyCalls) /\ \A e \in Earners : Books(e)
  BY WalletInvIs
<1>2. PICK d \in Earners, n \in Nat \ {0}, t \in {"earning", "payout"} :
        d = entry[c].driver /\ n = entry[c].amount /\ t = entry[c].at
  <2>1. entry[c] \in Entries
    BY <1>1 DEF CreateWalletTransaction, WalletTypeOK, NoEntry
  <2> QED  BY <2>1, EntryAmounts DEF CreateWalletTransaction
<1>3. /\ entry' = [entry EXCEPT ![c] = NoEntry]
      /\ history' = [history EXCEPT ![d][t] = @ + n]
      /\ wallet' = wallet /\ opened' = opened
  BY <1>2 DEF CreateWalletTransaction, Returns
<1>4. entry'[c] = NoEntry
  BY <1>1, <1>3 DEF WalletTypeOK
<1>5. /\ Unrecorded(d, t)' = Unrecorded(d, t) - n
      /\ \A u \in {"earning", "payout"} \ {t} : Unrecorded(d, u)' = Unrecorded(d, u)
  <2>1. /\ Counts(c, d, t) /\ ~Counts(c, d, t)'
        /\ \A u \in {"earning", "payout"} \ {t} : ~Counts(c, d, u) /\ ~Counts(c, d, u)'
    BY <1>2, <1>4 DEF Counts, NoEntry
  <2> QED  BY <1>1, <1>2, <1>3, <2>1, UnrecordedStep
<1>6. ASSUME NEW e \in Earners \ {d}, NEW u \in {"earning", "payout"}
      PROVE  Unrecorded(e, u)' = Unrecorded(e, u)
  <2>1. ~Counts(c, e, u) /\ ~Counts(c, e, u)'
    BY <1>2, <1>4 DEF Counts, NoEntry
  <2> QED  BY <1>1, <1>3, <2>1, UnrecordedStep
<1>7. /\ history \in [Earners -> [earning : Nat, payout : Nat]]
      /\ history[d] \in [earning : Nat, payout : Nat]
  BY <1>1, <1>2 DEF WalletTypeOK
<1>8. /\ history'[d] = [history[d] EXCEPT ![t] = @ + n]
      /\ \A e \in Earners \ {d} : history'[e] = history[e]
  BY <1>2, <1>3, <1>7
<1>9. /\ history'[d].earning = IF t = "earning" THEN history[d].earning + n ELSE history[d].earning
      /\ history'[d].payout = IF t = "payout" THEN history[d].payout + n ELSE history[d].payout
      /\ history'[d] \in [earning : Nat, payout : Nat]
  BY <1>2, <1>7, <1>8
<1>10. WalletTypeOK'
  <2>1. history' \in [Earners -> [earning : Nat, payout : Nat]]
    BY <1>2, <1>3, <1>7, <1>8, <1>9
  <2>2. entry' \in [WalletCalls -> Entries \cup {NoEntry}]
    BY <1>1, <1>3 DEF WalletTypeOK
  <2> QED  BY <1>1, <1>3, <2>1, <2>2 DEF WalletTypeOK
<1>11. IsFiniteSet(BusyCalls')
  BY <1>1, <1>3, BusyStep
<1>12. Books(d)'
  <2>1. Books(d) /\ wallet'[d] = wallet[d]
    BY <1>1, <1>2, <1>3
  <2>2. /\ history[d].payout \in Nat /\ Unrecorded(d, "payout") \in Int
        /\ history[d].earning \in Nat /\ Unrecorded(d, "earning") \in Int
    BY <1>1, <1>2, BooksTyped
  <2>3. CASE t = "earning"
    BY <1>2, <1>5, <1>9, <2>1, <2>2, <2>3 DEF Books
  <2>4. CASE t = "payout"
    BY <1>2, <1>5, <1>9, <2>1, <2>2, <2>4 DEF Books
  <2> QED  BY <1>2, <2>3, <2>4
<1>13. ASSUME NEW e \in Earners \ {d}
       PROVE  Books(e)'
  BY <1>1, <1>3, <1>6, <1>8, <1>13 DEF Books
<1> QED  BY <1>10, <1>11, <1>12, <1>13 DEF WalletInv, WalletReconciles, Books

\* A call that stops, or has only judged the balance, takes nothing from the books.
LEMMA EntryLeavesBooks ==
  ASSUME WalletInv, NEW c \in WalletCalls, NEW new \in Entries \cup {NoEntry},
         new.at \notin {"earning", "payout"},
         entry' = [entry EXCEPT ![c] = new], UNCHANGED <<wallet, opened, history>>
  PROVE  WalletInv'
<1>1. WalletTypeOK /\ IsFiniteSet(BusyCalls) /\ \A e \in Earners : Books(e)
  BY WalletInvIs
<1>2. WalletTypeOK'
  BY <1>1 DEF WalletTypeOK
<1>3. IsFiniteSet(BusyCalls')
  BY <1>1, BusyStep
<1>4. ASSUME NEW e \in Earners, NEW u \in {"earning", "payout"}
      PROVE  Unrecorded(e, u)' \in Int /\ Unrecorded(e, u)' <= Unrecorded(e, u)
  <2>1. ~Counts(c, e, u)'
    BY <1>1 DEF Counts, WalletTypeOK
  <2>2. Unrecorded(e, u) \in Int
    BY <1>1, BooksTyped
  <2>3. CASE ~Counts(c, e, u)
    <3>1. Unrecorded(e, u)' = Unrecorded(e, u)
      BY <1>1, <2>1, <2>3, UnrecordedStep
    <3> QED  BY <2>2, <3>1
  <2>4. CASE Counts(c, e, u)
    <3>1. entry[c].amount \in Nat
      BY <1>1, <2>4, EntryAmounts DEF Counts, WalletTypeOK, NoEntry
    <3>2. Unrecorded(e, u)' = Unrecorded(e, u) - entry[c].amount
      BY <1>1, <2>1, <2>4, UnrecordedStep
    <3> QED  BY <2>2, <3>1, <3>2
  <2> QED  BY <2>3, <2>4
<1>5. ASSUME NEW e \in Earners
      PROVE  Books(e)'
  <2>1. Books(e) /\ wallet' = wallet /\ history' = history
    BY <1>1
  <2>2. /\ history[e].payout \in Nat /\ Unrecorded(e, "payout") \in Int
        /\ history[e].earning \in Nat /\ Unrecorded(e, "earning") \in Int
        /\ wallet[e].earned \in Int /\ wallet[e].paid \in Nat
    BY <1>1, BooksTyped
  <2>3. Unrecorded(e, "payout")' \in Int /\ Unrecorded(e, "earning")' \in Int
    BY <1>4
  <2>4. /\ Unrecorded(e, "payout")' <= Unrecorded(e, "payout")
        /\ Unrecorded(e, "earning")' <= Unrecorded(e, "earning")
    BY <1>4
  <2> QED  BY <2>1, <2>2, <2>3, <2>4 DEF Books
<1> QED  BY <1>2, <1>3, <1>5 DEF WalletInv, WalletReconciles, Books

LEMMA WalletInvKept == WalletInv /\ [NextWallets]_walletVars => WalletInv'
<1> SUFFICES ASSUME WalletInv, [NextWallets]_walletVars PROVE WalletInv'
  OBVIOUS
<1>1. WalletTypeOK /\ IsFiniteSet(BusyCalls) /\ \A e \in Earners : Books(e)
  BY WalletInvIs
<1>2. ASSUME UNCHANGED <<wallet, history, entry>>, opened' \in SUBSET Earners
      PROVE  WalletInv'
  <2>1. BusyCalls' = BusyCalls
    BY <1>2 DEF BusyCalls
  <2>2. \A e \in Earners, u \in {"earning", "payout"} : Unrecorded(e, u)' = Unrecorded(e, u)
    BY <1>2, UnrecordedSame
  <2>3. WalletTypeOK'
    BY <1>1, <1>2 DEF WalletTypeOK
  <2> QED  BY <1>1, <1>2, <2>1, <2>2, <2>3 DEF WalletInv, WalletReconciles, Books
<1>3. CASE UNCHANGED walletVars
  BY <1>1, <1>2, <1>3 DEF walletVars, WalletTypeOK
<1>4. ASSUME NEW d \in Earners, CreateDriverWallet(d)
      PROVE  WalletInv'
  BY <1>1, <1>2, <1>4 DEF CreateDriverWallet, WalletTypeOK
<1>5. ASSUME NEW c \in WalletCalls, NEW d \in Earners, NEW n \in Sums, AddEarning(c, d, n)
      PROVE  WalletInv'
  BY <1>5, AddEarningKeeps
<1>6. ASSUME NEW c \in WalletCalls, NEW d \in Earners, NEW n \in Sums, ProcessPayout(c, d, n)
      PROVE  WalletInv'
  <2>1. [at |-> "deduct", driver |-> d, amount |-> n] \in Entries
    BY DEF Entries
  <2> QED  BY <1>6, <2>1, EntryLeavesBooks DEF ProcessPayout, Goes
<1>7. ASSUME NEW c \in WalletCalls, Deduct(c)
      PROVE  WalletInv'
  BY <1>7, DeductKeeps
<1>8. ASSUME NEW c \in WalletCalls, CreateWalletTransaction(c)
      PROVE  WalletInv'
  BY <1>8, RecordKeeps
<1>9. ASSUME NEW c \in WalletCalls, FailEntry(c)
      PROVE  WalletInv'
  BY <1>9, EntryLeavesBooks DEF FailEntry, Returns, NoEntry
<1> QED  BY <1>3, <1>4, <1>5, <1>6, <1>7, <1>8, <1>9 DEF NextWallets

LEMMA WalletInvHolds == SpecWallets => []WalletInv
  BY InitWalletInv, WalletInvKept, PTL DEF SpecWallets

\* Whatever payouts race and wherever calls stop, the wallet is what was earned
\* less what was paid, never negative, and the history never runs ahead of it.
THEOREM WalletsReconcile == SpecWallets => []WalletReconciles
  BY WalletInvHolds, PTL DEF WalletInv

-----------------------------------------------------------------------------
(* Business rides.                                                         *)
Frames == Book \cup Decide \cup Edit \cup {Quiet}

LEMMA BookFrames == \A r \in Frames : r.at = "book" =>
    r.by \in Members /\ r.fare \in Fares /\ r.key \in Keys \cup {NoKey} /\ r.verdict \in {"pending", "approved"}
  BY DEF Frames, Book, Decide, Edit, Quiet

LEMMA DecideFrames == \A r \in Frames : r.at = "decide" =>
    r.ride \in Bookings /\ r.verdict \in {"approved", "rejected"}
  BY DEF Frames, Book, Decide, Edit, Quiet

LEMMA EditFrames == \A r \in Frames :
    /\ r.at = "add" => r.user \in Members /\ r.role \in Role /\ r.limit \in Limit
    /\ r.at = "update" => r.user \in Members /\ r.limit \in Limit /\ r.active \in BOOLEAN
    /\ r.at = "limits" => r.limit \in Limit /\ r.approval \in BOOLEAN
  BY DEF Frames, Book, Decide, Edit, Quiet

LEMMA FramesMade ==
  /\ \A u \in Members, role \in {"member", "admin"}, limit \in Limit :
       [at |-> "add", user |-> u, role |-> role, limit |-> limit] \in Frames
  /\ \A u \in Members, limit \in Limit, active \in BOOLEAN :
       [at |-> "update", user |-> u, limit |-> limit, active |-> active] \in Frames
  /\ \A limit \in Limit, approval \in BOOLEAN :
       [at |-> "limits", limit |-> limit, approval |-> approval] \in Frames
  /\ [at |-> "found"] \in Frames /\ Quiet \in Frames
  /\ \A b \in Bookings, v \in {"approved", "rejected"} :
       [at |-> "decide", ride |-> b, verdict |-> v] \in Frames
  /\ \A u \in Members, f \in Fares, k \in Keys \cup {NoKey}, limit \in Limit, v \in {"pending", "approved"} :
       [at |-> "book", by |-> u, fare |-> f, key |-> k, limit |-> limit, verdict |-> v] \in Frames
  BY DEF Frames, Book, Decide, Edit, Role

\* The parts of BusinessTypeOK.
AccountTyped == account \in [open : BOOLEAN, limit : Limit, approval : BOOLEAN]
MembersTyped == member \in [Members -> [role : Role, limit : Limit, active : BOOLEAN]]
BookingsTyped ==
  /\ booking \in [Bookings -> [stage : {"none", "live", "cancelled"}, by : Members,
                               fare : Fares, key : Keys \cup {NoKey}]]
  /\ verdict \in [Bookings -> Verdict]
CountersTyped == ceiling \in Limit \cup {0} /\ unchecked \in BOOLEAN /\ edits \in 0..MaxEdits

LEMMA BusinessTypedIs ==
  BusinessTypeOK <=> /\ AccountTyped /\ MembersTyped /\ BookingsTyped /\ CountersTyped
                     /\ request \in [Requests -> Frames]
  BY DEF BusinessTypeOK, AccountTyped, MembersTyped, BookingsTyped, CountersTyped, Frames

LEMMA RaisedTyped ==
  ASSUME CountersTyped, NEW limit \in Limit
  PROVE  Raised(limit) \in Limit \cup {0}
  BY DEF CountersTyped, Raised, Limit

LEMMA InitBusinessTyped == InitBusiness => BusinessTypeOK
<1> SUFFICES ASSUME InitBusiness PROVE BusinessTypeOK
  OBVIOUS
<1>1. Founder \in Members /\ (CHOOSE f \in Fares : TRUE) \in Fares
  BY BusinessAssumption
<1>2. AccountTyped /\ CountersTyped
  <2>1. 0 \in 0..MaxEdits
    BY BusinessAssumption
  <2>2. NoLimit \in Limit /\ 0 \in Limit \cup {0}
    BY DEF Limit
  <2> QED  BY <2>1, <2>2 DEF InitBusiness, AccountTyped, CountersTyped
<1>3. MembersTyped
  BY DEF InitBusiness, MembersTyped, Role, Limit
<1>4. BookingsTyped
  BY <1>1 DEF InitBusiness, BookingsTyped, Verdict
<1>5. request \in [Requests -> Frames]
  BY FramesMade DEF InitBusiness
<1> QED  BY <1>2, <1>3, <1>4, <1>5, BusinessTypedIs

LEMMA BusinessTypeKept == BusinessTypeOK /\ [NextBusiness]_businessVars => BusinessTypeOK'
<1> SUFFICES ASSUME BusinessTypeOK, [NextBusiness]_businessVars PROVE BusinessTypeOK'
  OBVIOUS
<1>1. AccountTyped /\ MembersTyped /\ BookingsTyped /\ CountersTyped /\ request \in [Requests -> Frames]
  BY BusinessTypedIs
<1>2. BusinessTypeOK' <=> /\ AccountTyped' /\ MembersTyped' /\ BookingsTyped' /\ CountersTyped'
                          /\ request' \in [Requests -> Frames]
  BY DEF BusinessTypeOK, AccountTyped, MembersTyped, BookingsTyped, CountersTyped, Frames
<1>3. /\ UNCHANGED account => AccountTyped'
      /\ UNCHANGED member => MembersTyped'
      /\ UNCHANGED <<booking, verdict>> => BookingsTyped'
      /\ UNCHANGED <<ceiling, unchecked, edits>> => CountersTyped'
      /\ UNCHANGED request => request' \in [Requests -> Frames]
  BY <1>1 DEF AccountTyped, MembersTyped, BookingsTyped, CountersTyped
<1>4. ASSUME NEW c \in Requests, Done(c)
      PROVE  request' \in [Requests -> Frames]
  BY <1>1, <1>4, FramesMade DEF Done
<1>5. ASSUME NEW c \in Requests, NEW r \in Frames, Pend(c, r)
      PROVE  request' \in [Requests -> Frames]
  BY <1>1, <1>5 DEF Pend
<1>6. CASE UNCHANGED businessVars
  BY <1>2, <1>3, <1>6 DEF businessVars
<1>7. ASSUME NEW b \in Bookings, CancelBooking(b)
      PROVE  BusinessTypeOK'
  <2>1. BookingsTyped'
    BY <1>1, <1>7 DEF CancelBooking, BookingsTyped
  <2> QED  BY <1>2, <1>3, <1>7, <2>1 DEF CancelBooking
<1>8. ASSUME NEW c \in Requests, NEW limit \in Limit, NEW approval \in BOOLEAN,
             CreateAccount(c, limit, approval)
      PROVE  BusinessTypeOK'
  <2>1. AccountTyped'
    BY <1>8 DEF CreateAccount, CreateBusinessAccount, AccountTyped
  <2>2. CountersTyped'
    BY <1>1, <1>8, RaisedTyped DEF CreateAccount, CountersTyped
  <2> QED  BY <1>2, <1>3, <1>5, <1>8, <2>1, <2>2, FramesMade DEF CreateAccount
<1>9. ASSUME NEW c \in Requests, NEW by, NEW r \in Frames, BeginEdit(c, by, r)
      PROVE  BusinessTypeOK'
  <2>1. CountersTyped'
    BY <1>1, <1>9, BusinessAssumption DEF BeginEdit, CountersTyped
  <2> QED  BY <1>2, <1>3, <1>5, <1>9, <2>1 DEF BeginEdit
<1>10. ASSUME NEW c \in Requests, NEW by \in Members,
              AddMember(c, by) \/ UpdateMember(c, by) \/ UpdateLimits(c, by)
       PROVE  BusinessTypeOK'
  BY <1>9, <1>10, FramesMade DEF AddMember, UpdateMember, UpdateLimits
<1>11. ASSUME NEW c \in Requests, NEW u \in Members, NEW fare \in Fares,
              NEW key \in Keys \cup {NoKey}, Create(c, u, fare, key)
       PROVE  BusinessTypeOK'
  <2> DEFINE r == [at |-> "book", by |-> u, fare |-> fare, key |-> key, limit |-> account.limit,
                   verdict |-> IF account.approval THEN "pending" ELSE "approved"]
  <2>1. r \in Frames
    BY <1>1, FramesMade DEF AccountTyped
  <2> HIDE DEF r
  <2>2. Pend(c, r) /\ UNCHANGED <<account, member, booking, verdict, ceiling, edits>> /\ unchecked' \in BOOLEAN
    BY <1>11 DEF Create, r
  <2>3. CountersTyped'
    BY <1>1, <2>2 DEF CountersTyped
  <2> QED  BY <1>2, <1>3, <1>5, <2>1, <2>2, <2>3
<1>12. ASSUME NEW c \in Requests, NEW by \in Members, NEW b \in Bookings,
              NEW d \in {"approved", "rejected"}, DecideAuthorization(c, by, b, d)
       PROVE  BusinessTypeOK'
  BY <1>2, <1>3, <1>5, <1>12, FramesMade DEF DecideAuthorization
<1>13. ASSUME NEW c \in Requests, CreateBusinessMember(c)
       PROVE  BusinessTypeOK'
  <2>1. request[c] \in Frames /\ request[c].at \in {"found", "add"}
    BY <1>1, <1>13 DEF CreateBusinessMember
  <2>2. MembersTyped'
    <3>1. CASE request[c].at = "found"
      BY <1>1, <1>13, <3>1 DEF CreateBusinessMember, MembersTyped, Role, Limit
    <3>2. CASE request[c].at = "add"
      BY <1>1, <1>13, <2>1, <3>2, EditFrames DEF CreateBusinessMember, MembersTyped
    <3> QED  BY <2>1, <3>1, <3>2
  <2> QED  BY <1>2, <1>3, <1>4, <1>13, <2>2 DEF CreateBusinessMember
<1>14. ASSUME NEW c \in Requests, UpdateBusinessMemberLimit(c)
       PROVE  BusinessTypeOK'
  <2>1. /\ request[c].user \in Members /\ request[c].limit \in Limit /\ request[c].active \in BOOLEAN
        /\ member' = [member EXCEPT ![request[c].user].limit = request[c].limit,
                                    ![request[c].user].active = request[c].active]
    BY <1>1, <1>14, EditFrames DEF UpdateBusinessMemberLimit
  <2>2. MembersTyped'
    BY <1>1, <2>1 DEF MembersTyped
  <2> QED  BY <1>2, <1>3, <1>4, <1>14, <2>2 DEF UpdateBusinessMemberLimit
<1>15. ASSUME NEW c \in Requests, UpdateBusinessAccountLimits(c)
       PROVE  BusinessTypeOK'
  <2>1. request[c].limit \in Limit /\ request[c].approval \in BOOLEAN
    BY <1>1, <1>15, EditFrames DEF UpdateBusinessAccountLimits
  <2>2. AccountTyped'
    BY <1>1, <1>15, <2>1 DEF UpdateBusinessAccountLimits, AccountTyped
  <2>3. CountersTyped'
    BY <1>1, <1>15, <2>1, RaisedTyped DEF UpdateBusinessAccountLimits, CountersTyped
  <2> QED  BY <1>2, <1>3, <1>4, <1>15, <2>2, <2>3 DEF UpdateBusinessAccountLimits
<1>16. ASSUME NEW c \in Requests, CreateRideIdempotent(c)
       PROVE  BusinessTypeOK'
  <2>1. request[c] \in Frames /\ request[c].at = "book"
    BY <1>1, <1>16 DEF CreateRideIdempotent
  <2>2. BookingsTyped'
    <3>1. CASE UNCHANGED <<booking, verdict>>
      BY <1>3, <3>1
    <3>2. ASSUME NEW b \in Bookings,
                 booking' = [booking EXCEPT ![b] = [stage |-> "live", by |-> request[c].by,
                                fare |-> request[c].fare, key |-> request[c].key]],
                 verdict' = [verdict EXCEPT ![b] = request[c].verdict]
          PROVE  BookingsTyped'
      BY <1>1, <2>1, <3>2, BookFrames DEF BookingsTyped, Verdict
    <3> QED  BY <1>16, <3>1, <3>2 DEF CreateRideIdempotent, CreateRideAuthorization
  <2> QED  BY <1>2, <1>3, <1>4, <1>16, <2>2 DEF CreateRideIdempotent
<1>17. ASSUME NEW c \in Requests, WriteDecision(c)
       PROVE  BusinessTypeOK'
  <2>1. BookingsTyped'
    BY <1>1, <1>17, DecideFrames
       DEF WriteDecision, RejectRideAuthorization, ApproveRideAuthorization, BookingsTyped, Verdict
  <2> QED  BY <1>2, <1>3, <1>4, <1>17, <2>1 DEF WriteDecision
<1>18. ASSUME NEW c \in Requests, DropRequest(c)
       PROVE  BusinessTypeOK'
  BY <1>2, <1>3, <1>4, <1>18 DEF DropRequest
<1> QED
  BY <1>6, <1>7, <1>8, <1>10, <1>11, <1>12, <1>13, <1>14, <1>15, <1>16, <1>17, <1>18 DEF NextBusiness

\* What a request would add to the usage, and the rides that make it up.
Ask     == [c \in Requests |-> IF request[c].at = "book" THEN request[c].fare ELSE 0]
Counted == {b \in Bookings : booking[b].stage = "live" /\ verdict[b] # "rejected"}
Booked  == [b \in Counted |-> booking[b].fare]

\* Before the account exists nothing has happened; from then on its limit is at
\* most the ceiling, unless it once had none.
LimitsKnown ==
  /\ ~account.open => /\ \A c \in Requests : request[c] = Quiet
                      /\ ceiling = 0
  /\ account.open /\ ceiling # NoLimit => account.limit # NoLimit /\ account.limit <= ceiling

SpendingInv == BusinessTypeOK /\ LimitsKnown /\ SpendingBounded

LEMMA MostExpensiveIs == MostExpensive \in Nat /\ \A f \in Fares : f \in 0..MostExpensive
<1>1. \A f \in Fares : f \in Nat
  BY BusinessAssumption
<1>2. \E f \in Fares : \A g \in Fares : g <= f
  <2>1. \A f \in Fares : f \in Int
    BY <1>1
  <2>2. Fares # {} /\ IsFiniteSet(Fares)
    BY BusinessAssumption
  <2> QED  BY <2>1, <2>2, FiniteSetHasMax
<1>3. MostExpensive \in Fares /\ \A g \in Fares : g <= MostExpensive
  BY <1>2 DEF MostExpensive
<1> QED  BY <1>1, <1>3

LEMMA AmountsTyped ==
  ASSUME BusinessTypeOK
  PROVE  /\ \A c \in Requests : Ask[c] \in 0..MostExpensive
         /\ IsFiniteSet(Counted) /\ \A b \in Counted : Booked[b] \in Nat
         /\ Asked \in Nat /\ MonthlyUsage \in Nat
         /\ Asked = SumFunctionOnSet(Ask, Requests) /\ MonthlyUsage = SumFunction(Booked)
<1>1. \A c \in Requests : Ask[c] \in 0..MostExpensive
  <2> TAKE c \in Requests
  <2>1. request[c] \in Frames
    BY BusinessTypedIs
  <2>2. CASE request[c].at = "book"
    BY <2>1, <2>2, BookFrames, MostExpensiveIs DEF Ask
  <2>3. CASE request[c].at # "book"
    BY <2>3, MostExpensiveIs DEF Ask
  <2> QED  BY <2>2, <2>3
<1>2. \A c \in Requests : Ask[c] \in Nat
  BY <1>1, MostExpensiveIs
<1>3. IsFiniteSet(Counted)
  BY BusinessAssumption, FS_Subset DEF Counted
<1>4. \A b \in Counted : Booked[b] \in Nat
  BY BusinessTypedIs, BusinessAssumption DEF Counted, Booked, BookingsTyped
<1>5. Asked = SumFunctionOnSet(Ask, Requests)
  BY DEF Asked, Ask, SumFunction
<1>6. MonthlyUsage = SumFunction(Booked)
  BY DEF MonthlyUsage, Booked, Counted
<1>7. Asked \in Nat
  BY <1>2, <1>5, BusinessAssumption, SumNat
<1>8. MonthlyUsage \in Nat
  <2>1. DOMAIN Booked = Counted
    BY DEF Booked
  <2> QED  BY <1>3, <1>4, <1>6, <2>1, SumNat DEF SumFunction
<1> QED  BY <1>1, <1>3, <1>4, <1>5, <1>6, <1>7, <1>8

\* One call's frame changes, and with it what it asks for.
LEMMA AskedStep ==
  ASSUME BusinessTypeOK, NEW c \in Requests, NEW r \in Frames,
         request' = [request EXCEPT ![c] = r], NEW n \in Int,
         n = IF r.at = "book" THEN r.fare ELSE 0
  PROVE  Asked' = Asked + n - Ask[c]
<1>1. /\ \A x \in Requests : Ask[x] \in 0..MostExpensive
      /\ Asked = SumFunctionOnSet(Ask, Requests)
  BY AmountsTyped
<1>2. Asked' = SumFunctionOnSet(Ask', Requests)
  BY DEF Asked, Ask, SumFunction
<1>3. /\ request'[c] = r
      /\ \A x \in Requests \ {c} : request'[x] = request[x]
  BY BusinessTypedIs
<1>4. Ask'[c] = n /\ \A x \in Requests \ {c} : Ask'[x] = Ask[x]
  BY <1>3 DEF Ask
<1>5. \A x \in Requests : Ask[x] \in Int
  BY <1>1, MostExpensiveIs
<1>6. SumFunctionOnSet(Ask', Requests) = SumFunctionOnSet(Ask, Requests) + Ask'[c] - Ask[c]
  BY <1>4, <1>5, BusinessAssumption, SumUpdate
<1> QED  BY <1>1, <1>2, <1>4, <1>6

\* While one call asks for nothing, the others ask for at most one ride each.
LEMMA AskedByOthers ==
  ASSUME BusinessTypeOK, NEW c \in Requests, Ask[c] = 0
  PROVE  Asked <= (Cardinality(Requests) - 1) * MostExpensive
<1>1. IsFiniteSet(Requests \ {c}) /\ Cardinality(Requests \ {c}) = Cardinality(Requests) - 1
  BY BusinessAssumption, FS_RemoveElement
<1>2. /\ \A x \in Requests : Ask[x] \in 0..MostExpensive
      /\ Asked = SumFunctionOnSet(Ask, Requests)
  BY AmountsTyped
<1>3. \A x \in Requests : Ask[x] \in Int
  BY <1>2, MostExpensiveIs
<1>4. SumFunctionOnSet(Ask, Requests) = Ask[c] + SumFunctionOnSet(Ask, Requests \ {c})
  BY <1>3, BusinessAssumption, SumSplit
<1>5. SumFunctionOnSet(Ask, Requests \ {c}) \in 0..(Cardinality(Requests \ {c}) * MostExpensive)
  BY <1>1, <1>2, MostExpensiveIs, SumBound
<1> DEFINE bound == Cardinality(Requests \ {c}) * MostExpensive
<1>6. bound \in Int
  <2>1. Cardinality(Requests \ {c}) \in Nat
    BY <1>1, FS_CardinalityType
  <2> QED  BY <2>1, MostExpensiveIs
<1>7. Asked <= bound
  <2> HIDE DEF bound
  <2>1. SumFunctionOnSet(Ask, Requests \ {c}) \in 0..bound
    BY <1>5 DEF bound
  <2> QED  BY <1>2, <1>4, <1>6, <2>1
<1> QED  BY <1>1, <1>7

\* No ride is added to those counted: the usage does not grow.
LEMMA UsageFalls ==
  ASSUME BusinessTypeOK, Counted' \subseteq Counted,
         \A b \in Counted' : booking'[b].fare = booking[b].fare
  PROVE  MonthlyUsage' <= MonthlyUsage /\ MonthlyUsage' \in Nat
<1>1. /\ MonthlyUsage' = SumFunction(Booked')
      /\ DOMAIN Booked = Counted /\ DOMAIN Booked' = Counted'
      /\ \A b \in Counted' : Booked'[b] = booking'[b].fare
      /\ \A b \in Counted : Booked[b] = booking[b].fare
  BY DEF MonthlyUsage, Booked, Counted
<1>2. /\ IsFiniteSet(Counted) /\ \A b \in Counted : Booked[b] \in Nat
      /\ MonthlyUsage = SumFunction(Booked)
  BY AmountsTyped
<1>3. SumFunction(Booked') <= SumFunction(Booked)
  BY <1>1, <1>2, SumShrinks
<1>4. SumFunction(Booked') \in Nat
  <2>1. IsFiniteSet(Counted') /\ \A b \in Counted' : Booked'[b] \in Nat
    BY <1>1, <1>2, FS_Subset
  <2> QED  BY <1>1, <2>1, SumNat DEF SumFunction
<1> QED  BY <1>1, <1>2, <1>3, <1>4

LEMMA UsageSame ==
  ASSUME UNCHANGED <<booking, verdict>>
  PROVE  MonthlyUsage' = MonthlyUsage /\ Counted' = Counted
  BY DEF MonthlyUsage, Counted

LEMMA NoMore ==
  ASSUME NEW used \in Nat, NEW ask \in Nat, NEW nowUsed \in Int, NEW nowAsk \in Int,
         nowUsed <= used, nowAsk <= ask
  PROVE  nowUsed + nowAsk <= used + ask /\ nowUsed + nowAsk \in Int
  OBVIOUS

\* Whatever neither asks for more nor lowers the ceiling keeps the bound.
LEMMA BoundKept ==
  ASSUME SpendingInv, BusinessTypeOK',
         MonthlyUsage' + Asked' <= MonthlyUsage + Asked,
         MonthlyUsage' + Asked' \in Int,
         unchecked' = unchecked,
         ceiling' # NoLimit => ceiling # NoLimit /\ ceiling <= ceiling'
  PROVE  SpendingBounded'
<1>1. MonthlyUsage \in Nat /\ Asked \in Nat
  BY AmountsTyped DEF SpendingInv
<1>2. ASSUME ~unchecked', ceiling' # NoLimit
      PROVE  MonthlyUsage' + Asked' <= ceiling' + (Cardinality(Requests) - 1) * MostExpensive
  <2> DEFINE slack == (Cardinality(Requests) - 1) * MostExpensive
  <2>1. slack \in Int
    <3>1. Cardinality(Requests) \in Nat
      BY BusinessAssumption, FS_CardinalityType
    <3> QED  BY <3>1, MostExpensiveIs
  <2>2. MonthlyUsage + Asked <= ceiling + slack
    BY <1>2 DEF SpendingInv, SpendingBounded
  <2>3. ceiling \in Nat /\ ceiling' \in Nat
    <3>1. ceiling \in Limit \cup {0} /\ ceiling' \in Limit \cup {0}
      BY DEF SpendingInv, BusinessTypeOK
    <3> QED  BY <1>2, <3>1, BusinessAssumption DEF Limit
  <2> HIDE DEF slack
  <2> DEFINE used == MonthlyUsage'
             ask == Asked'
  <2>4. used + ask <= MonthlyUsage + Asked /\ used + ask \in Int
    OBVIOUS
  <2> HIDE DEF used, ask
  <2>5. used + ask <= ceiling' + slack
    BY <1>1, <1>2, <2>1, <2>2, <2>3, <2>4
  <2> QED  BY <2>5 DEF slack, used, ask
<1> QED  BY <1>2 DEF SpendingBounded, MostExpensive

LEMMA RaisedIs ==
  ASSUME BusinessTypeOK, NEW limit \in Limit, Raised(limit) # NoLimit
  PROVE  /\ ceiling # NoLimit /\ limit # NoLimit
         /\ ceiling <= Raised(limit) /\ limit <= Raised(limit)
<1>1. ceiling # NoLimit /\ limit # NoLimit
  BY DEF Raised
<1>2. ceiling \in Nat /\ limit \in Nat
  <2>1. ceiling \in Limit \cup {0}
    BY DEF BusinessTypeOK
  <2> QED  BY <1>1, <2>1, BusinessAssumption DEF Limit
<1> QED  BY <1>1, <1>2 DEF Raised

LEMMA CreateKeepsBound ==
  ASSUME SpendingInv, BusinessTypeOK', NEW c \in Requests, NEW u \in Members, NEW fare \in Fares,
         NEW key \in Keys \cup {NoKey}, Create(c, u, fare, key)
  PROVE  SpendingInv'
<1> DEFINE r == [at |-> "book", by |-> u, fare |-> fare, key |-> key, limit |-> account.limit,
                 verdict |-> IF account.approval THEN "pending" ELSE "approved"]
           slack == (Cardinality(Requests) - 1) * MostExpensive
<1>1. /\ request[c] = Quiet /\ request' = [request EXCEPT ![c] = r]
      /\ account.open
      /\ ~Refuses(MonthlyUsage, fare, u)
      /\ unchecked' = (unchecked \/ (account.limit # NoLimit /\ ~(Plain(account.limit) /\ Plain(MonthlyUsage))))
      /\ UNCHANGED <<account, member, booking, verdict, ceiling, edits>>
  BY DEF Create, Pend, CanAccess, GetBusinessAccount
<1>2. BusinessTypeOK /\ r \in Frames /\ r.at = "book" /\ r.fare = fare
  BY BusinessTypedIs, FramesMade DEF SpendingInv, AccountTyped
<1> HIDE DEF r
<1>3. Ask[c] = 0 /\ fare \in Nat /\ fare \in Int
  BY <1>1, BusinessAssumption DEF Ask, Quiet
<1>4. Asked' = Asked + fare - 0
  BY <1>1, <1>2, <1>3, AskedStep
<1>5. MonthlyUsage' = MonthlyUsage /\ MonthlyUsage \in Nat /\ Asked \in Nat
  BY <1>1, <1>2, UsageSame, AmountsTyped
<1>6. Asked <= slack
  BY <1>2, <1>3, AskedByOthers
<1>7. slack \in Int
  <2>1. Cardinality(Requests) \in Nat
    BY BusinessAssumption, FS_CardinalityType
  <2> QED  BY <2>1, MostExpensiveIs
<1>8. ASSUME ~unchecked', ceiling' # NoLimit
      PROVE  MonthlyUsage' + Asked' <= ceiling' + slack
  <2>1. account.limit # NoLimit /\ account.limit <= ceiling /\ ceiling # NoLimit
    BY <1>1, <1>8 DEF SpendingInv, LimitsKnown
  <2>2. MonthlyUsage + fare <= account.limit
    <3>1. Plain(account.limit) /\ Plain(MonthlyUsage) /\ ~ExceedsLimit(MonthlyUsage, fare, account.limit)
      BY <1>1, <1>8, <2>1 DEF Refuses
    <3>2. account.limit \in Nat
      BY <1>2, <2>1, BusinessAssumption DEF BusinessTypeOK, Limit
    <3> QED  BY <1>3, <1>5, <2>1, <3>1, <3>2 DEF ExceedsLimit
  <2>3. account.limit \in Nat /\ ceiling \in Nat
    <3>1. account.limit \in Limit /\ ceiling \in Limit \cup {0}
      BY <1>2 DEF BusinessTypeOK
    <3>2. \A n \in Limit \cup {0} : n # NoLimit => n \in Nat
      BY BusinessAssumption DEF Limit
    <3> QED  BY <2>1, <3>1, <3>2
  <2>4. ceiling' = ceiling
    BY <1>1
  <2> HIDE DEF slack
  <2> QED  BY <1>3, <1>4, <1>5, <1>6, <1>7, <2>1, <2>2, <2>3, <2>4
<1>9. SpendingBounded'
  BY <1>8 DEF SpendingBounded, MostExpensive
<1>10. LimitsKnown'
  BY <1>1 DEF SpendingInv, LimitsKnown
<1> QED  BY <1>9, <1>10 DEF SpendingInv

\* A call that only leaves, or goes on to something that asks for no ride.
LEMMA AskedFalls ==
  ASSUME BusinessTypeOK, NEW c \in Requests, NEW r \in Frames, r.at # "book",
         request' = [request EXCEPT ![c] = r]
  PROVE  Asked' <= Asked /\ Asked' \in Int
<1>1. Asked' = Asked + 0 - Ask[c]
  <2>1. 0 \in Int /\ 0 = IF r.at = "book" THEN r.fare ELSE 0
    OBVIOUS
  <2> QED  BY <2>1, AskedStep
<1>2. Asked \in Nat /\ Ask[c] \in Nat
  BY AmountsTyped, MostExpensiveIs
<1> QED  BY <1>1, <1>2

LEMMA IdempotentKeepsBound ==
  ASSUME SpendingInv, BusinessTypeOK', NEW c \in Requests, CreateRideIdempotent(c)
  PROVE  MonthlyUsage' + Asked' <= MonthlyUsage + Asked /\ MonthlyUsage' + Asked' \in Int
<1>1. /\ BusinessTypeOK /\ request[c].at = "book" /\ request' = [request EXCEPT ![c] = Quiet]
      /\ request[c] \in Frames
  BY BusinessTypedIs DEF SpendingInv, CreateRideIdempotent, Done
<1>2. PICK n \in Nat : n = request[c].fare
  BY <1>1, BookFrames, BusinessAssumption
<1>3. Asked' = Asked - n
  <2>1. Ask[c] = n
    BY <1>1, <1>2 DEF Ask
  <2>2. Quiet \in Frames /\ Quiet.at # "book"
    BY FramesMade DEF Quiet
  <2>3. Asked' = Asked + 0 - Ask[c]
    <3>1. 0 \in Int /\ 0 = IF Quiet.at = "book" THEN Quiet.fare ELSE 0
      BY <2>2
    <3> QED  BY <1>1, <2>2, <3>1, AskedStep
  <2>4. Asked \in Nat
    BY <1>1, AmountsTyped
  <2> QED  BY <1>2, <2>1, <2>3, <2>4
<1>4. MonthlyUsage \in Nat /\ Asked \in Nat
  BY <1>1, AmountsTyped
<1>5. CASE UNCHANGED <<booking, verdict>>
  BY <1>2, <1>3, <1>4, <1>5, UsageSame
<1>6. ASSUME NEW b \in Bookings, booking[b].stage = "none",
             booking' = [booking EXCEPT ![b] = [stage |-> "live", by |-> request[c].by,
                            fare |-> request[c].fare, key |-> request[c].key]],
             verdict' = [verdict EXCEPT ![b] = request[c].verdict]
      PROVE  MonthlyUsage' = MonthlyUsage + n
  <2>1. BookingsTyped
    BY <1>1, BusinessTypedIs
  <2>2. /\ booking'[b].stage = "live" /\ booking'[b].fare = n
        /\ verdict'[b] = request[c].verdict
        /\ \A x \in Bookings \ {b} : booking'[x] = booking[x] /\ verdict'[x] = verdict[x]
    BY <1>2, <1>6, <2>1 DEF BookingsTyped
  <2>3. request[c].verdict # "rejected"
    BY <1>1, BookFrames
  <2>4. b \notin Counted /\ Counted' = Counted \cup {b}
    BY <1>6, <2>2, <2>3 DEF Counted
  <2>5. /\ DOMAIN Booked = Counted /\ DOMAIN Booked' = Counted'
        /\ \A x \in Counted : Booked[x] = booking[x].fare
        /\ \A x \in Counted' : Booked'[x] = booking'[x].fare
        /\ MonthlyUsage' = SumFunction(Booked')
    BY DEF Booked, MonthlyUsage, Counted
  <2>6. /\ IsFiniteSet(Counted) /\ \A x \in Counted : Booked[x] \in Nat
        /\ MonthlyUsage = SumFunction(Booked)
    BY <1>1, AmountsTyped
  <2>7. Booked'[b] = n /\ \A x \in Counted : Booked[x] \in Int /\ Booked'[x] = Booked[x]
    BY <2>2, <2>4, <2>5, <2>6 DEF Counted
  <2>8. SumFunction(Booked') = SumFunction(Booked) + Booked'[b]
    BY <1>2, <2>4, <2>5, <2>6, <2>7, SumGrows
  <2> QED  BY <2>5, <2>6, <2>7, <2>8
<1>7. UNCHANGED <<booking, verdict>> \/ MonthlyUsage' = MonthlyUsage + n
  BY <1>6 DEF CreateRideIdempotent, CreateRideAuthorization
<1> QED  BY <1>2, <1>3, <1>4, <1>5, <1>7

LEMMA SpendingInvKept == SpendingInv /\ [NextBusiness]_businessVars => SpendingInv'
<1> SUFFICES ASSUME SpendingInv, [NextBusiness]_businessVars PROVE SpendingInv'
  OBVIOUS
<1>1. BusinessTypeOK /\ BusinessTypeOK'
  BY BusinessTypeKept DEF SpendingInv
<1>2. MonthlyUsage \in Nat /\ Asked \in Nat
  BY <1>1, AmountsTyped
<1>3. Quiet \in Frames /\ Quiet.at # "book"
  BY FramesMade DEF Quiet
<1>4. ASSUME UNCHANGED <<account, ceiling, unchecked>>,
             MonthlyUsage' + Asked' <= MonthlyUsage + Asked, MonthlyUsage' + Asked' \in Int,
             account.open \/ request' = request
      PROVE  SpendingInv'
  <2>1. ceiling \in Nat \cup {NoLimit}
    BY <1>1, BusinessAssumption DEF BusinessTypeOK, Limit
  <2>2. SpendingBounded'
    BY <1>1, <1>4, <2>1, BoundKept
  <2>3. LimitsKnown'
    BY <1>4 DEF SpendingInv, LimitsKnown
  <2> QED  BY <1>1, <2>2, <2>3 DEF SpendingInv
\* Steps that leave rides and amounts alone.
<1>5. ASSUME UNCHANGED <<booking, verdict>>, NEW c \in Requests, NEW r \in Frames, r.at # "book",
             request' = [request EXCEPT ![c] = r]
      PROVE  MonthlyUsage' + Asked' <= MonthlyUsage + Asked /\ MonthlyUsage' + Asked' \in Int
  <2>1. MonthlyUsage' = MonthlyUsage /\ Asked' <= Asked /\ Asked' \in Int
    BY <1>1, <1>5, UsageSame, AskedFalls
  <2>2. MonthlyUsage' \in Int /\ MonthlyUsage' <= MonthlyUsage
    BY <1>2, <2>1
  <2> QED  BY <1>2, <2>1, <2>2, NoMore
<1>6. ASSUME NEW c \in Requests, request[c] # Quiet
      PROVE  account.open
  BY <1>6 DEF SpendingInv, LimitsKnown
<1>7. CASE UNCHANGED businessVars
  <2>1. MonthlyUsage' = MonthlyUsage /\ Asked' = Asked
    BY <1>7 DEF businessVars, MonthlyUsage, Asked
  <2> QED  BY <1>2, <1>4, <1>7, <2>1 DEF businessVars
<1>8. ASSUME NEW b \in Bookings, CancelBooking(b)
      PROVE  SpendingInv'
  <2>1. Counted' \subseteq Counted /\ \A x \in Counted' : booking'[x].fare = booking[x].fare
    BY <1>1, <1>8, BusinessTypedIs DEF CancelBooking, Counted, BookingsTyped
  <2>2. MonthlyUsage' <= MonthlyUsage /\ MonthlyUsage' \in Nat
    BY <1>1, <2>1, UsageFalls
  <2>3. Asked' = Asked
    BY <1>8 DEF CancelBooking, Asked
  <2>4. MonthlyUsage' \in Int /\ Asked' \in Int /\ Asked' <= Asked
    <3>1. MonthlyUsage' \in Int
      BY <2>2
    <3>2. Asked' \in Int /\ Asked <= Asked
      BY <1>2, <2>3
    <3>3. Asked' <= Asked
      BY <2>3, <3>2
    <3> QED  BY <3>1, <3>2, <3>3
  <2>5. MonthlyUsage' + Asked' <= MonthlyUsage + Asked /\ MonthlyUsage' + Asked' \in Int
    BY <1>2, <2>2, <2>4, NoMore
  <2>6. UNCHANGED <<account, ceiling, unchecked, request>>
    BY <1>8 DEF CancelBooking
  <2> QED  BY <1>4, <2>5, <2>6
<1>9. ASSUME NEW c \in Requests, NEW limit \in Limit, NEW approval \in BOOLEAN,
             CreateAccount(c, limit, approval)
      PROVE  SpendingInv'
  <2>1. /\ ~account.open /\ account' = [open |-> TRUE, limit |-> limit, approval |-> approval]
        /\ ceiling' = Raised(limit)
        /\ request' = [request EXCEPT ![c] = [at |-> "found"]]
        /\ UNCHANGED <<booking, verdict, unchecked>>
    BY <1>9 DEF CreateAccount, CreateBusinessAccount, Pend
  <2>2. [at |-> "found"] \in Frames /\ [at |-> "found"].at # "book"
    BY FramesMade
  <2>3. MonthlyUsage' + Asked' <= MonthlyUsage + Asked /\ MonthlyUsage' + Asked' \in Int
    BY <1>5, <2>1, <2>2
  <2>4. ceiling' # NoLimit
          => ceiling # NoLimit /\ ceiling <= ceiling' /\ limit # NoLimit /\ limit <= ceiling'
    BY <1>1, <2>1, RaisedIs
  <2>5. SpendingBounded'
    BY <1>1, <2>1, <2>3, <2>4, BoundKept
  <2>6. LimitsKnown'
    BY <2>1, <2>4 DEF LimitsKnown
  <2> QED  BY <1>1, <2>5, <2>6 DEF SpendingInv
\* A call that has judged and is now past its read.
<1>10. ASSUME NEW c \in Requests, NEW by, NEW r \in Frames, r.at # "book", CanManage(by), Pend(c, r),
              UNCHANGED <<account, booking, verdict, ceiling, unchecked>>
       PROVE  SpendingInv'
  <2>1. account.open /\ request' = [request EXCEPT ![c] = r]
    BY <1>10 DEF CanManage, CanAccess, GetBusinessAccount, Pend
  <2>2. MonthlyUsage' + Asked' <= MonthlyUsage + Asked /\ MonthlyUsage' + Asked' \in Int
    BY <1>5, <1>10, <2>1
  <2> QED  BY <1>4, <1>10, <2>1, <2>2
<1>11. ASSUME NEW c \in Requests, NEW by \in Members,
              AddMember(c, by) \/ UpdateMember(c, by) \/ UpdateLimits(c, by)
       PROVE  SpendingInv'
  <2>1. ASSUME NEW r \in Frames, r.at # "book", BeginEdit(c, by, r)
        PROVE  SpendingInv'
    BY <1>10, <2>1 DEF BeginEdit
  <2>2. CASE AddMember(c, by)
    <3>1. PICK u \in Members, role \in {"member", "admin"}, limit \in Limit :
            BeginEdit(c, by, [at |-> "add", user |-> u, role |-> role, limit |-> limit])
      BY <2>2 DEF AddMember
    <3>2. [at |-> "add", user |-> u, role |-> role, limit |-> limit] \in Frames
      BY FramesMade
    <3> QED  BY <2>1, <3>1, <3>2
  <2>3. CASE UpdateMember(c, by)
    <3>1. PICK u \in Members, limit \in Limit, active \in BOOLEAN :
            BeginEdit(c, by, [at |-> "update", user |-> u, limit |-> limit, active |-> active])
      BY <2>3 DEF UpdateMember
    <3>2. [at |-> "update", user |-> u, limit |-> limit, active |-> active] \in Frames
      BY FramesMade
    <3> QED  BY <2>1, <3>1, <3>2
  <2>4. CASE UpdateLimits(c, by)
    <3>1. PICK limit \in Limit, approval \in BOOLEAN :
            BeginEdit(c, by, [at |-> "limits", limit |-> limit, approval |-> approval])
      BY <2>4 DEF UpdateLimits
    <3>2. [at |-> "limits", limit |-> limit, approval |-> approval] \in Frames
      BY FramesMade
    <3> QED  BY <2>1, <3>1, <3>2
  <2> QED  BY <1>11, <2>2, <2>3, <2>4
<1>12. ASSUME NEW c \in Requests, NEW u \in Members, NEW fare \in Fares,
              NEW key \in Keys \cup {NoKey}, Create(c, u, fare, key)
       PROVE  SpendingInv'
  BY <1>1, <1>12, CreateKeepsBound
<1>13. ASSUME NEW c \in Requests, NEW by \in Members, NEW b \in Bookings,
              NEW d \in {"approved", "rejected"}, DecideAuthorization(c, by, b, d)
       PROVE  SpendingInv'
  <2>1. [at |-> "decide", ride |-> b, verdict |-> d] \in Frames
    BY FramesMade
  <2>2. /\ CanManage(by) /\ Pend(c, [at |-> "decide", ride |-> b, verdict |-> d])
        /\ UNCHANGED <<account, booking, verdict, ceiling, unchecked>>
    BY <1>13 DEF DecideAuthorization
  <2> QED  BY <1>10, <2>1, <2>2
\* A call that ends, having written nothing that counts.
<1>14. ASSUME NEW c \in Requests, request[c] # Quiet, Done(c),
              UNCHANGED <<account, booking, verdict, ceiling, unchecked>>
       PROVE  SpendingInv'
  <2>1. MonthlyUsage' + Asked' <= MonthlyUsage + Asked /\ MonthlyUsage' + Asked' \in Int
    BY <1>3, <1>5, <1>14 DEF Done
  <2> QED  BY <1>4, <1>6, <1>14, <2>1
<1>15. ASSUME NEW c \in Requests,
              CreateBusinessMember(c) \/ UpdateBusinessMemberLimit(c) \/ DropRequest(c)
       PROVE  SpendingInv'
  <2>1. request[c] # Quiet /\ Done(c) /\ UNCHANGED <<account, booking, verdict, ceiling, unchecked>>
    BY <1>15 DEF CreateBusinessMember, UpdateBusinessMemberLimit, DropRequest, Quiet
  <2> QED  BY <1>14, <2>1
<1>16. ASSUME NEW c \in Requests, UpdateBusinessAccountLimits(c)
       PROVE  SpendingInv'
  <2>1. PICK limit \in Limit : limit = request[c].limit
    BY <1>1, <1>16, BusinessTypedIs, EditFrames DEF UpdateBusinessAccountLimits
  <2>2. /\ request[c] # Quiet /\ request' = [request EXCEPT ![c] = Quiet]
        /\ account' = [account EXCEPT !.limit = limit, !.approval = request[c].approval]
        /\ ceiling' = Raised(limit)
        /\ UNCHANGED <<booking, verdict, unchecked>>
    BY <1>16, <2>1 DEF UpdateBusinessAccountLimits, Done, Quiet
  <2>3. MonthlyUsage' + Asked' <= MonthlyUsage + Asked /\ MonthlyUsage' + Asked' \in Int
    BY <1>3, <1>5, <2>2
  <2>4. ceiling' # NoLimit
          => ceiling # NoLimit /\ ceiling <= ceiling' /\ limit # NoLimit /\ limit <= ceiling'
    BY <1>1, <2>2, RaisedIs
  <2>5. SpendingBounded'
    BY <1>1, <2>2, <2>3, <2>4, BoundKept
  <2>6. account.open
    BY <1>6, <2>2
  <2>7. account'.open /\ account'.limit = limit
    BY <1>1, <2>2, <2>6, BusinessTypedIs DEF AccountTyped
  <2>8. LimitsKnown'
    BY <2>4, <2>7 DEF LimitsKnown
  <2> QED  BY <1>1, <2>5, <2>8 DEF SpendingInv
<1>17. ASSUME NEW c \in Requests, CreateRideIdempotent(c)
       PROVE  SpendingInv'
  <2>1. request[c] # Quiet /\ UNCHANGED <<account, ceiling, unchecked>>
    BY <1>17 DEF CreateRideIdempotent, Quiet
  <2>2. MonthlyUsage' + Asked' <= MonthlyUsage + Asked /\ MonthlyUsage' + Asked' \in Int
    BY <1>1, <1>17, IdempotentKeepsBound
  <2> QED  BY <1>4, <1>6, <2>1, <2>2
<1>18. ASSUME NEW c \in Requests, WriteDecision(c)
       PROVE  SpendingInv'
  <2>1. /\ request[c] # Quiet /\ request' = [request EXCEPT ![c] = Quiet]
        /\ UNCHANGED <<account, booking, ceiling, unchecked>>
    BY <1>18 DEF WriteDecision, Done, Quiet
  <2>2. \A b \in Bookings : verdict'[b] = verdict[b] \/ verdict[b] = "pending"
    BY <1>1, <1>18, BusinessTypedIs
       DEF WriteDecision, RejectRideAuthorization, ApproveRideAuthorization, Undecided, BookingsTyped
  <2>3. Counted' \subseteq Counted /\ \A x \in Counted' : booking'[x].fare = booking[x].fare
    BY <2>1, <2>2 DEF Counted
  <2>4. MonthlyUsage' <= MonthlyUsage /\ MonthlyUsage' \in Nat
    BY <1>1, <2>3, UsageFalls
  <2>5. Asked' <= Asked /\ Asked' \in Int
    BY <1>1, <1>3, <2>1, AskedFalls
  <2>6. MonthlyUsage' + Asked' <= MonthlyUsage + Asked /\ MonthlyUsage' + Asked' \in Int
    <3>1. MonthlyUsage' \in Int
      BY <2>4
    <3> QED  BY <1>2, <2>4, <2>5, <3>1, NoMore
  <2> QED  BY <1>4, <1>6, <2>1, <2>6
<1> QED
  BY <1>7, <1>8, <1>9, <1>11, <1>12, <1>13, <1>15, <1>16, <1>17, <1>18 DEF NextBusiness

LEMMA InitSpendingInv == Requests # {} /\ InitBusiness => SpendingInv
<1> SUFFICES ASSUME Requests # {}, InitBusiness PROVE SpendingInv
  OBVIOUS
<1>1. BusinessTypeOK
  BY InitBusinessTyped
<1>2. LimitsKnown
  BY DEF InitBusiness, LimitsKnown
<1>3. PICK c \in Requests : Ask[c] = 0
  BY DEF InitBusiness, Ask, Quiet
<1>4. Asked <= (Cardinality(Requests) - 1) * MostExpensive
  BY <1>1, <1>3, AskedByOthers
<1>5. MonthlyUsage = 0
  <2>1. Counted = {}
    BY DEF InitBusiness, Counted
  <2>2. DOMAIN Booked = {}
    BY <2>1 DEF Booked
  <2> QED  BY <1>1, <2>2, AmountsTyped, SumEmpty DEF SumFunction
<1>6. Asked \in Nat /\ ceiling = 0
  BY <1>1, AmountsTyped DEF InitBusiness
<1>7. SpendingBounded
  <2> DEFINE slack == (Cardinality(Requests) - 1) * MostExpensive
  <2>1. slack \in Int
    <3>1. Cardinality(Requests) \in Nat
      BY BusinessAssumption, FS_CardinalityType
    <3> QED  BY <3>1, MostExpensiveIs
  <2>2. Asked <= slack
    BY <1>4
  <2> HIDE DEF slack
  <2>3. MonthlyUsage + Asked <= ceiling + slack
    BY <1>5, <1>6, <2>1, <2>2
  <2> QED  BY <2>3 DEF slack, SpendingBounded
<1> QED  BY <1>1, <1>2, <1>7 DEF SpendingInv

\* The types of BusinessRides hold in every reachable state.
LEMMA BusinessTyped == SpecBusiness => []BusinessTypeOK
<1> QED  BY InitBusinessTyped, BusinessTypeKept, PTL DEF SpecBusiness

(* The limit of a business account (rides/handler.go:167-183,               *)
(* business/handler.go:367-378) is overrun by at most one ride for each     *)
(* request but one that checks it at the same time, as long as the amounts *)
(* are compared at all: for every number of requests, rides and amounts.   *)
THEOREM SpendingStaysBounded == ASSUME Requests # {} PROVE SpecBusiness => []SpendingBounded
<1>1. InitBusiness => SpendingInv
  BY InitSpendingInv
<1>2. SpendingInv => SpendingBounded
  BY DEF SpendingInv
<1> QED  BY <1>1, <1>2, SpendingInvKept, PTL DEF SpecBusiness
=============================================================================
