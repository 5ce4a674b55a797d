------------------------------ MODULE FareRates ------------------------------
(***************************************************************************)
(* The rates behind a suggested fare: the config table behind the cache of *)
(* pricing.Service (internal/pricing).  A request takes the cached rates   *)
(* while they are younger than the ttl, or loads them; the requests share  *)
(* the cache, and its lock is not held during a load.                      *)
(*                                                                         *)
(* Abstracted: the three rates are one, told apart by its version;         *)
(* distances and the fare; the zone that may override a rate (ServiceZones). *)
(***************************************************************************)
EXTENDS Naturals

CONSTANTS
  Quotes,      \* requests for a fare
  TTL,         \* time the cached rates are used, in ticks
  MaxVersion,  \* bound: changes of the config
  MaxTime      \* bound: ticks

ASSUME QuoteAssumption == TTL \in Nat \ {0} /\ MaxVersion \in Nat /\ MaxTime \in Nat

VARIABLES
  clock,     \* ticks so far
  replaced,  \* when each version of the config was replaced
  cached,    \* s.cached, when it was stored, and when the load that stored it read
  quote      \* requests that are loading rates, or have them

rateVars == <<clock, replaced, cached, quote>>

Version == 0..MaxVersion
Time    == 0..MaxTime
Never   == MaxTime + 1   \* of the current version and of later ones

Rates   == [version : Version, at : Time, readAt : Time]
NoRates == [version |-> "none"]
Quote   == [step : {"load"}, rates : Rates] \cup [step : {"priced"}, rates : Rates, now : Time]
NoQuote == [step |-> "none"]

RateTypeOK ==
  /\ clock \in Time
  /\ replaced \in [Version -> 0..Never]
  /\ cached \in Rates \cup {NoRates}
  /\ quote \in [Quotes -> Quote \cup {NoQuote}]

InitRates ==
  /\ clock = 0
  /\ replaced = [v \in Version |-> Never]
  /\ cached = NoRates
  /\ quote = [q \in Quotes |-> NoQuote]

-----------------------------------------------------------------------------
Current(v) == replaced[v] = Never /\ \A w \in Version : w < v => replaced[w] # Never

Tick == clock < MaxTime /\ clock' = clock + 1 /\ UNCHANGED <<replaced, cached, quote>>

\* An operator changes the table.
ChangeConfig ==
  /\ \E v \in Version : Current(v) /\ v < MaxVersion /\ replaced' = [replaced EXCEPT ![v] = clock]
  /\ UNCHANGED <<clock, cached, quote>>

\* time.Since(cachedAt) < ttl
Fresh == cached # NoRates /\ clock - cached.at < TTL

Suggest(q, rates) ==
  quote' = [quote EXCEPT ![q] = [step |-> "priced", rates |-> rates, now |-> clock]]

UseCached(q) ==
  /\ quote[q] = NoQuote /\ Fresh
  /\ Suggest(q, cached)
  /\ UNCHANGED <<clock, replaced, cached>>

GetAllConfig(q) ==
  /\ quote[q] = NoQuote /\ ~Fresh
  /\ \E v \in Version :
       /\ Current(v)
       /\ quote' = [quote EXCEPT ![q] =
            [step |-> "load", rates |-> [version |-> v, at |-> clock, readAt |-> clock]]]
  /\ UNCHANGED <<clock, replaced, cached>>

\* Rates that another load has stored are kept, but count as loaded now.
MutStoreRates(q) ==
  /\ quote[q].step = "load"
  /\ cached' = [(IF Fresh THEN cached ELSE quote[q].rates) EXCEPT !.at = clock,
                  !.readAt = quote[q].rates.readAt]
  /\ Suggest(q, cached')
  /\ UNCHANGED <<clock, replaced>>

\* s.cached, s.cachedAt = r, time.Now(): also over rates that were read later.
StoreRates(q) ==
  /\ quote[q].step = "load"
  /\ cached' = [quote[q].rates EXCEPT !.at = clock]
  /\ Suggest(q, cached')
  /\ UNCHANGED <<clock, replaced>>

\* Answered, or given up.
EndQuote(q) ==
  /\ quote[q] # NoQuote
  /\ quote' = [quote EXCEPT ![q] = NoQuote]
  /\ UNCHANGED <<clock, replaced, cached>>

NextRates ==
  \/ Tick \/ ChangeConfig
  \/ \E q \in Quotes : UseCached(q) \/ GetAllConfig(q) \/ StoreRates(q) \/ EndQuote(q)

SpecRates == InitRates /\ [][NextRates]_rateVars

-----------------------------------------------------------------------------
(* A quote takes replaced rates for less than the ttl plus the time the    *)
(* load that stored them took: loads that overlap, and store in another    *)
(* order than they read (pricing.go:107-126), keep no rates alive longer.  *)
RatesExpire ==
  \A q \in Quotes : quote[q].step = "priced" =>
    LET r == quote[q].rates IN quote[q].now < replaced[r.version] + TTL + (r.at - r.readAt)
=============================================================================
