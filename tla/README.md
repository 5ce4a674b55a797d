# TLA+ models of RIDEX Angola

Specifications of the Go backend in `src/`: what dispatch, driver payouts, online
payments, account sessions and the smaller services around a ride do when HTTP handlers,
background processes, providers and crashes interleave; TLC configurations that check
them on small instances; and theorems about them, for any number of rides, drivers,
requests, charges and sessions, checked by TLAPS.  Line numbers refer to the files under
`src/`.

1. [Inventory](#1-inventory)
2. [Modules](#2-modules)
3. [Runs](#3-runs)
4. [Fairness](#4-fairness)
5. [Proofs](#5-proofs)
6. [Where the code and its comments disagree](#6-where-the-code-and-its-comments-disagree)
7. [Mutations](#7-mutations)
8. [Only model-checked, not modelled](#8-only-model-checked-not-modelled)
9. [Plan](#9-plan)

## 1. Inventory

Three binaries share one PostgreSQL database: `cmd/api` (all HTTP handlers and
the expiry reaper goroutine), `cmd/matching` (a matcher cycle on a ticker) and
`cmd/worker` (offer cleanup and deletions every minute; payout execution and
payment reconciliation every five).  They never call each other: they interact
through rows only.  A transaction is atomic; the isolation level is the
default, READ COMMITTED, so what a handler reads before or inside its
transaction may be stale when it writes.  The statements guard themselves with
WHERE clauses, and most of the properties ask whether those guards suffice.

| component | state | operations | hard behaviour | what makes it correct |
|---|---|---|---|---|
| rides (`internal/rides`) | `rides` (status, driver, pickup time), `ride_events` | Create, Accept, Decline, Arrive, Start, Complete, Cancel, NoShow; the reaper of `expiry.go` | ownership, PIN and route judged on a read outside the transaction; the reaper against offers | rides move only along the life cycle; a driver exactly from match on; stale calls do no harm; stale requests leave the pool |
| matching (`cmd/matching`) | `ride_offers`, `driver_availability` | one cycle: expire offers, take the oldest open ride, pick a driver, offer, hold the driver | rolls its own expiry back when it finds nothing; SKIP LOCKED; worker and declines close the same offers | one live offer per ride, none for a ride with a driver; no driver held for nothing |
| drivers (`internal/drivers`) | `driver_availability`, `driver_locations`, vehicle profiles | SetAvailability, locations, profile | goes online in the middle of a trip; documents expire after the check | see matching |
| trust (`internal/trust`) | trip PIN columns of `rides`, `driver_kyc` | CreatePIN, VerifyPIN, SubmitKYC, ReviewKYC | a PIN created after the start call's read | no ride starts on an unverified PIN the read has seen |
| business (`internal/business`, the business branch of rides' Create) | accounts, members, limits, `ride_authorizations`, idempotency keys | accounts, members, limits, Create, DecideAuthorization | limit and membership read, ride or approval written later; decision while an offer is out; a key used twice at once | unapproved rides never get a driver; concurrent requests overrun a limit by a bounded amount |
| payouts (`internal/payouts`) | `payout_requests`, `driver_wallets`, `wallet_transactions`; the provider's transfers | RequestWithdrawal, Approve, Complete, Fail, callback, submission and polling passes | lost answers, retries with the reference as key, crash between provider and database, several settlers | request, debit and refund change together; the balance reconciles; no refund of a transfer in flight; every approved payout settles |
| payments (`internal/payment`) | `payment_charges`, `payment_events`; the provider's intents | CreateIntent, HandleWebhook, RefundCharge, ReconcilePending | no transactions at all: record and apply are two statements; webhooks late, twice, out of order; stale pass lists | a charge follows its intent, never ahead, never back; every status has its event; a paid charge settles |
| auth (`internal/auth`) | `users`, `sessions`, `verification_codes` | Register, Login, Refresh, Logout, RequestOTP, VerifyOTP, CompletePasswordReset; deletions by the worker | no transactions: revoke, then create; attempt, then compare, then mark; codes deleted while a reset uses them | no login forks or comes back; only an answered reset challenge resets the password |
| airport transfers (`internal/airport`) | `airport_transfers` | create, update, cancel | transition judged on a read, update without a guard | a final status changes only by an update that read before |
| cancellation policy (`internal/rides/cancellation.go`) | none | fee, permission, no-show | windows and cap meet at boundaries | waiting never makes cancelling cheaper, the fee never passes its maximum |
| pricing, zones (`internal/pricing`, `internal/zones`) | `config`, the cached rates; `service_zones` | quote, load; create, edit, delete a zone | loads overlap without the lock; an edit writes back the whole row it read | replaced rates expire; a closed zone stays closed |
| promotions (`internal/promotions`) | `promo_codes`, `promo_code_usages` | validate, apply | the second call repeats no check | uses overrun the maximum by less than the callers at once |
| cash, invoices (`internal/cash`, `internal/invoices`) | `cash_payments`, `saft_invoices` | confirm cash; find, draft, issue | the rider changes the method while an intent is on its way | a ride is paid in cash and charged online only across a change of method beside the intent |
| support, safety (`internal/support`, `internal/safety`) | reviews, ratings, tickets, disputes, SOS events, incidents, their events | create, update, resolve | change and audit entry, review and rating are separate statements | the rating knows every review, the trail every change, or the caller was told; one admin resolves |
| notifications (`internal/notifications`) | preferences, inbox | save, delete, notify, read | a save of one field writes all of them | a kind switched off stays off |
| dashboard (`internal/dashboard`) | `users.is_active` | AdminSetUserStatus; lists | three statements; logins, tokens and the matcher run between them | what is left of a deactivated account outran the call |
| lists (rides, support, dashboard, payouts, invoices) | none | pages by LIMIT and OFFSET | the table changes between pages | a reader misses at most one row for each that left |
| driver wallet service (`internal/drivers/wallet.go`) | `driver_wallets`, `wallet_transactions` | AddEarning, ProcessPayout | balance judged on a read; history by a second statement | the wallet holds what was earned and not paid |
| identity, billing, saved places, metrics, text, platform | single rows; none | inserts, reports, formatting | none beyond unique constraints | - |

`PROJECT.json` lists every component with its status, and under `hazards` the
places in the code that are hard to test, each with the properties that would
catch it going wrong.

## 2. Modules

    RideLifecycle      <-refines-  RideDispatch     MCRideDispatch     RideDispatchProofs
    PayoutEscrow       <-refines-  PayoutLedger     MCPayoutLedger     PayoutLedgerProofs
    PaymentMirror      <-refines-  PaymentCharges   MCPaymentCharges   PaymentChargesProofs
    SessionChain       <-refines-  AuthSessions     MCAuthSessions     AuthSessionsProofs

    Listings, BusinessRides, Deactivation, AirportTransfers,
    RideReviews, RideCases, Notifications, ServiceZones,        MCServices
    FareRates, CancellationFees, Promotions, RideBilling,
    DriverWallets, DriverProfiles
                       SumTheorems, AnsweredChoicesProofs,
                       RideCostsProofs, ServicesProofs

Of the four families, the left column is what a component promises, with nothing of
how; the second is the code; the MC modules add symmetry and constant values for TLC; the
proof modules hold the theorems.  The four families share no variable: dispatch
never reads a payout, payments read only whether a ride may be paid, and a
handler sees of a session only that its access token is genuine.

**RideDispatch** composes rides, matching, drivers, trust, business and the worker's
cleanup, because they write the same four tables.  One transaction is one action.
`status`, `driver` are the columns of `rides`; `offer[r]` is the driver of the one row
of `ride_offers` with status `offered` (a partial unique index allows one per ride),
`lapsed` the rides whose live offer is past `expires_at`; `avail` is
`driver_availability.is_online`, split into "offline" (the driver's wish) and "held"
(the matcher's doing) so that properties can tell them apart (the code cannot, and no
guard of the model does).  `due` and `old` stand for clocks: pickup time reached, older
than the expiry TTL.  Arrive, Start, Complete and Cancel are two actions each, the read
(`ReadFor...`) and the transaction, with the copy that was read kept in `call`; any
other call may run between.  `RollBack` is every way a transaction may leave nothing
behind.  matchOne and the reaper take a set `locked` of rides that another transaction
holds, which SKIP LOCKED passes over.

`NilUserExists` says whether `users` has the all-zero id with which the reaper
signs its events.  The migrations insert none, so FALSE is the deployed system
(section 6); TRUE is the repaired one, in which the reaper can be checked at all.

**PayoutLedger** has the ledger's transactions (`CompletePayout`, `FailPayout`,
`RequestWithdrawal`), the handlers that call them, the worker's two passes and the
provider.  A worker is a record: the pass it is in, the rest of the list it read at the
start, and the provider's answer it has not written yet; `Crash` forgets it.  The
request's id is the idempotency key (`reference`), so the provider's state is kept per
request: a second submission of an accepted request changes nothing.  `SubmitUncertain`
is a timeout, a 5xx or an unreadable reply, with or without acceptance.  `AdminSettles`
and `RetryRefused` are environment assumptions that runs and theorems name.

**PaymentCharges** has every statement and provider call of `internal/payment`
as a separate action, since nothing there runs in a transaction.  `job[w]` is what a
webhook, a refund or the worker is about to do, `todo` the rest of the
pass's list.  `intent` and `provider` carry the binding of a charge and what
became of each intent.  `Foreign` are charges whose request names another
provider than the selected one: `CreateIntent` stores `in.Provider`, but the
charger is always the selected provider, so no webhook or poll ever finds them.

`Jsonb` says which store runs.  `payment_events.payload` is a JSONB column
(`migrations/000001_init_schema.up.sql:120`): PostgreSQL returns it reformatted, so the
byte comparison the service makes with the payload it passed fails for everything
`json.Marshal` builds.  The tests' in-memory stores return the bytes.  TRUE is the
deployed store.  With TRUE a refund or a polled status is recorded and never applied,
and a webhook is applied only if its body happens to be formatted as JSONB prints it;
with FALSE every recorded event is applied unless its writer stops.  The safety theorems
hold for both; `ExecutedRefundApplies` says something only for FALSE, since under TRUE a
refund never reaches the status statement.

**AuthSessions** is one account, since every statement names one user.  Each
statement of the handlers is an action, for none runs in a transaction, and `Stop`
is an error, a lost request or a crash before any of them.  `session[s]` is what
`revoked_at` and the row's existence say, `lapsed` and `dead` stand for
`expires_at` of sessions and codes.  A code is "verified" when `verified_at` is
set, which InvalidateVerificationCodes does too, for codes nobody answered;
`proved` remembers which ones somebody did answer, and `used` which ones a
password was reset by.  `root[s]` is the login that session `s` descends from by refreshes:
the code does not store it, and only the properties read it.  SessionChain sees
of a login whether its chain has a usable token ("live"), is between two
("rotating": revoked, the successor not yet inserted), or has ended.

### The services around a ride

The fourteen modules of the second group share one shape.  A handler of these components
is a few single statements with no transaction around them, so a call is a record
that holds what it has read, or what it has still to write, and may end after any
statement (`Abandon...`, `Stop...`, `Drop...`, `End...`: an error, a lost request or a
crash).  The question is always what a call that read early may do when it writes late.
Where a choice was answered to its caller, a history variable keeps who was past
its read at that moment (`begun`, `early`, `outran`): such calls may undo the choice, and
nothing else may.

* **BusinessRides** has Create for a business account and the business handlers.  Amounts
  keep their value and whether pgx hands them over with an exponent (`Plain`), because
  `exceedsLimit` compares only amounts without one.
* **Deactivation** is one driver account: `AdminSetUserStatus` against logins, refreshes,
  an access token that is still good, the matcher and a second admin.
* **AirportTransfers** has the update in two steps and the guarded cancel;
  **ServiceZones** and **Notifications** have edits that write back whole rows.
* **RideReviews** keeps an average as the set of reviews it was computed from, and makes
  `RefreshUserRating` two steps: READ COMMITTED does not repeat its subquery when it has
  waited for the user's row.  **RideCases** has the change of a ticket, dispute, SOS event
  or incident, and its audit entry.
* **FareRates** is the cache of the rates with its clock; **Promotions** validation and
  application; **CancellationFees** the policy over a ride that ages while rides
  and trust write to its row, and that keeps its driver when it is over; **RideBilling**
  the method, the intent, the cash and the invoice of a ride; **DriverWallets** and
  **DriverProfiles** what their names say.
* **Listings** is one reader over a table that changes.  A record per list, named after its
  query, says how its ORDER BY, its WHERE clause and its handler differ from the others'.

These components share no state.  **MCServices** therefore checks the sum of their state
spaces and not the product: a behaviour opens one `desk`, and only the component behind it
moves.  An invariant of one component is checked in all states of that component, and
trivially at the other desks.

## 3. Runs

| run | question | instance |
|---|---|---|
| dispatch_rides | does any interleaving break the life cycle, the offers, or the approval gate? | 2 rides (1 scheduled and for a business), 2 drivers, 2 calls |
| dispatch_liveness | do lapsed offers close and stale requests leave the pool? | 2 ageing rides, a PIN, KYC reviews, 1 driver, 1 call |
| dispatch_expiry (V) | does the reaper work with the users the migrations give? | 1 ride |
| payouts_ledger | do rows, wallets and ledger agree whoever settles? | 2 payouts, 2 wallets of 3, amounts 2 and 3, 2 calls, an admin who settles |
| payouts_provider | no double payment, and does every approved payout settle? | 2 payouts, batch 1, only the worker settles, retries honoured |
| payouts_double (V) | is a reversal in flight excluded if a retry may be refused? | 1 payout |
| payments_charges | is the ledger ever ahead of the provider, or back? | 2 charges (1 foreign), 3 intents, 2 calls, 2 handlers, JSONB |
| payments_settle | does reconciliation settle, and do executed refunds apply? | 2 charges (1 foreign), 2 intents, 1 call, 2 handlers, exact store |
| payments_jsonb (V) | does reconciliation settle over the deployed store? | as above, 1 handler, JSONB |
| auth_account | does a login fork or come back, or an unanswered challenge reset a password? | 2 sessions, 2 codes, 2 purposes, 1 attempt, 2 requests |
| auth_reset (V) | does an answered reset challenge last until it is used or expires? | 1 session, 1 code, 1 request |
| services | what may a stale read, a lost second statement or a changing list do in the fourteen services? | 2 calls each; 5 rows in pages of 2; 2 business rides, members, fares and limits of 5; 2 reviewed and 2 billed rides; a ticket, a dispute, an incident, an SOS event |

(V) marks a run whose property a comment of the code states and TLC finds
violated; section 6 quotes it.

Why the bounds are enough.  The guards involve one ride, its driver and at most one more
ride (the matcher's oldest-first rule), so two rides and two drivers show every pair of
conflicting actions; two calls are the least that lets a stale call survive another
call's whole commit.  Wallets of 3 with amounts 2 and 3 make one withdrawal possible and
two not, so that the balance guard decides. Payouts and charges are two because order
matters in the passes (`ORDER BY ... LIMIT`), once with a batch limit that cuts the list
and once with one that does not.  Three intents for two charges leave one for a losing
concurrent call or a retry.  Two sessions are a token and its successor, or two logins;
two codes one challenge and the one that supersedes it; two requests the race for one
token, and one attempt reaches `max_attempts` at once.  Rides and charges are numbered
by creation time and created in that order, which makes "oldest" a comparison and prunes
renumberings.  The theorems of section 5 do not depend on the bounds.

In `services` two calls per component are the least that lets one read before and write
after the other.  Fares and limits are all 5: one ride fits, two do not, and their sum, 10,
is the amount that comes back with an exponent.  Two reviews meet in one rating; two admins
meet at one SOS event; three promo rides are one more than `MaxUses`.  Tenders
below, at and above the fare decide the CHECK of `cash_payments`.  Today and tomorrow (`LastDay`)
put a date on both sides of its limit, three ticks against a ttl of one (`MaxTime`, `TTL`) a
load on both sides of its own, and eight half minutes of waiting pass the free windows
(2 and 1), the no-show timeout (4) and the cap (5 from a base of 2).  All fifteen
properties of the run are proved for every instance (section 5).

Deadlock is checked in every run but `services`, whose bounded counters really stop:
`MaxChurn` (changes of a list while it is read), `MaxEntries` (audit entries of a case),
`MaxEdits` (changes of limits and members), `MaxVersion` and `MaxTime` (configurations and
ticks), `MaxWait`, `MaxEarned`, `LastDay`.  In the others no bound caps a
counter: refunds can only grow when a request leaves `InFlight`, and every other
variable is finite.

Symmetry is used in `dispatch_rides`, `payouts_ledger`, `payments_charges`,
`auth_account` and `services`, on sets whose members no definition orders (drivers, calls,
workers, intents, handlers, sessions, rides), and never together with a liveness
property.

## 4. Fairness

* Dispatch: weak fairness of `OfferLapses` (time passes), of the worker's
  `cleanup` and of a reaper sweep that meets no locked row: tickers of
  processes that run for ever, and row locks last one transaction.  The matcher,
  riders, drivers, approvers and reviewers are not fair.
* Payouts: the worker's ticker and its loop are weakly fair.  Strong fairness of
  `StartPolling`, `GetsAnswer` and `WritesAnswer` says that restarts do not cut every
  pass short, and that a payout asked about or written again and again is at
  last answered for and written: the provider and the database are not down
  for ever.  `ProviderDecides` is weakly fair.
* Payments: `GetPendingCharges` and the loop over the list are weakly fair; polling,
  recording and applying for one charge are strongly fair.  Webhooks, users and
  the provider's decisions are not fair: `PaidChargeSettles` begins when the
  provider *has* decided.
* Accounts and services: none.  What `internal/auth` and the services promise is that something never happens;
  a user may always stop.

## 5. Proofs

Every invariant and every action property of the passing runs is a theorem of its
component's specification, for every value of the constants.  Assumptions are the named
ASSUMEs of the modules (identifiers of rides, payouts and charges are naturals, the NULL is
no member, amounts are positive, the batch limit is positive, the lists read in pages are
among the two the module describes); TLC evaluates them in every run.  What a theorem
assumes beyond these it says in its statement, and this section repeats it.

* `SumTheorems`.  A ledger adds up over a set, with the fold of the community modules,
  which is defined by a CHOOSE of a recursive function.  That such a function exists and is
  unique is induction over subsets, and an induction theorem that takes a predicate cannot be
  instantiated here; the proofs take a smallest subset of a finite set where the
  claim fails, which the order by strict subset provides.  From there on the lemmas are
  arithmetic: a sum splits (`SumSplit`), changes with one summand (`SumUpdate`), grows and
  shrinks with its set, and is bounded by any one bound per summand.
* `RideDispatchProofs`.  `DriverIffAssigned` and `OfferOnlyWhileUnassigned` are
  inductive beside `TypeOK`.  `OnlyApprovedAndDueRidesRun` is not alone: `Create`
  writes approval and pickup time, so it needs to know that a ride not yet
  created has no driver.  `IInv` is their conjunction.  From it follow
  `Refinement` (each action is a step of `RideLifecycle`: a stale call only does
  what the guard of its UPDATE allows), `TripCancellation` (only a call read by a
  driver takes a trip under way to cancelled) and `OfferEndsReleased`.
* `PayoutLedgerProofs`.  `TypeCorrect` contains that no balance goes below zero.
  A lemma reduces every step to one of four ledger transactions or to one that
  leaves rows and wallets alone; on it rest `RowsStayTogether`,
  `EscrowImplemented` and `LedgerAlwaysReconciles`: each of the four moves the same amount
  in the wallet and in the sum over the driver's requests (`BalanceInv`), where a
  fresh request is a new summand and any other one that changes its value.
  Of the provider three theorems speak, with as little assumed as each needs.
  `ReversalsAreExcused` assumes nothing: at the moment a withdrawal is put back, its transfer
  is neither accepted nor paid, unless admins settle by hand or a worker holds a
  refusal; callbacks and polls are never to blame, because what a poll has answered stays
  true until it is written (`DecisionInv`).  `CompletionIsPayment` assumes that admins
  leave approved requests to the workers, of which any number may run.
  `NeverPaidAndRefunded`, which also excludes a submission after the reversal, assumes
  `Disciplined`: one worker, no admin who settles approved requests by hand,
  no refusal of a known reference.  Each of the three is needed (section 6).  Its invariant
  says what a worker's pending answer is worth: "rejected" means the provider does not
  know the request, "paid" and "bounced" are its state, and a submission pass lists only
  requests whose provider state a rejection can still settle.
* `PaymentChargesProofs`.  `IInv` says that a charge is bound to an intent the
  provider knows and its status is one this intent has gone through; that an
  intent a call holds is nobody else's; that what a writer is about to apply was
  true at the provider and is recorded; and that the pass's list holds stored
  charges.  The set of statuses an intent has gone through only grows, which is why a late
  webhook and a stale poll do no harm.  `MirrorImplemented`, `StatusExplained` and
  `RefundApplies` follow.
* `AuthSessionsProofs`.  `OneSuccessor` becomes inductive with `RootInv`: a root is
  a login whose row exists, so a fresh session id is nobody's root yet.  A lemma
  shows that every step but a rotation and the issue of a session is `Receding`:
  nothing becomes live and no refresh begins.  `NoFork` and `ChainsImplemented`
  (a receding step can only end chains) rest on it.  `ResetSafe` follows a code from its
  answer to the reset: an unexpired verified row has been answered, because what
  invalidation marks as verified it also expires.
* `AnsweredChoicesProofs`.  Each theorem needs to know what the calls hold that came
  after the choice.  `LateEditsKeepClosed`: such an edit of a closed zone writes
  it back closed unless it names the column.  `LateSavesKeepMuted` says the same of
  preferences.  `StatementsHold` says what each of the three statements of a deactivation
  that no activation has overruled leaves behind; a lemma reduces every step of drivers,
  matcher and logins to `Outside`, which starts nothing for an account that is off.
  Of an airport transfer: what an update is about to write, it judged on a status that was
  not final, so `EndedStaysEnded`.
* `RideCostsProofs`.  `ReplacedRatesExpire` rests on rates having been current when they
  were read, whoever holds them.  `WaitingNeverPays` compares the fee at two times by one
  lemma on the formula.  `OverrunBounded` counts callers: of those at a code all but one
  may be past the comparison when the last use is counted; it assumes that there is a caller.
  `CashAndCardExplained` knows that cash is confirmed where the method is cash and the ride
  completed, so that the method stays, and that a ride whose method is cash has an intent,
  stored or on its way, only if it became cash beside it (`CashKnown`).  `WalletsReconcile` needs that
  nothing leaves the pending total, and that the calls between their two statements are
  finitely many, whatever the set of calls, because a step occupies at most one: only
  then is what they have not recorded a sum.  `SpendingStaysBounded` needs that the limit
  never exceeds the ceiling and that nothing is asked before the account exists
  (`LimitsKnown`); the request that passes the comparison found usage and fare below the limit,
  and each of the others asks for at most the most expensive ride.  It assumes that there
  is a request.
* `ServicesProofs`.  `RatingsComplete` needs that a refresh about to store an average
  knows every review that is not somebody else's to count (`StoreKnows`, `Waiting`);
  `TrailComplete` that the call that made a change holds its entry.
  `PagesStayBounded` relates every row's place to the pages already read (`PagesInv`): the
  rows of a list stand at places 0, 1, ... without a gap, and a change of one row moves
  every other by at most one place.  So a row that falls behind the reader unseen
  (`Missed`) costs a departure, and one that was seen and comes before it again (`Due`,
  and `Twice` once it is shown) costs an arrival.
  The last part is about the run itself: a behaviour of the fourteen services together
  is one of each (`ServicesAreEach`), which is why a theorem about a component is one
  about the run, and `ServicesTyped` collects their types.

## 6. Where the code and its comments disagree

* **dispatch_expiry.** `internal/rides/expiry.go:60` signs the event with `uuid.Nil`;
  `ride_events.created_by` references `users(id)`, and no migration inserts such a
  user.  Every batch rolls back, and stale requests stay in the pool.
* **payouts_double.** A refusal of a retry reverses a transfer the first call started.
  Two running workers can do the same (`ledger.go:407-408` reserves nothing), and
  so can an admin who fails an approved request between a pass's list and its
  submission; `Disciplined` names all three.
* **payments_jsonb.** Section 2: over JSONB neither reconciliation nor refunds
  ever apply a status.  An admin's refund is executed by the provider and then
  answered with a conflict; the charge stays completed, and reconciliation never
  looks at completed charges.
* **auth_reset.** `DeleteExpiredCodes` (`internal/db/verification.sql.go:62-65`) deletes
  whatever has `verified_at` set, and `cmd/worker` runs it every minute: a
  reset challenge answered through VerifyPasswordResetOTP, which
  `internal/auth/handlers.go:254-255` says completes separately, is gone at the next tick,
  and CompletePasswordReset without a code is refused.

Observed, without a run: Arrive, Start and Complete judge ownership on a read before
their transaction (`internal/rides/handler.go:635-640`), and the UPDATEs do not name the
driver, so a pending call moves the ride after it has gone to another driver. Two
concurrent withdrawals of one driver both count no active request
(`internal/payouts/ledger.go:169`); the ledger still reconciles.  A refresh between
revoking a session and inserting the next outlives a logout or a password reset, and so
does a login whose password was checked before a reset.  An answered code of another
purpose sent to CompletePasswordReset is spent, and refused.  With as many
abandoned or foreign unsettled charges as `reconcileBatchLimit` the list never reaches
younger ones (`payments_settle` with `BatchLimit = 1` fails on `PaidChargeSettles`).  A
refund whose answer is lost leaves a completed charge that nothing looks at again.  The
race that `internal/payment/refund.go:118-122` guards against cannot happen
(`ExecutedRefundApplies`).

Giving a ride back before the trip (`internal/rides/handler.go:538`) does not touch
availability, which the matcher set to offline: the driver has no ride and stays
unavailable until they go online by hand, the outcome that the comment at 443-445 excludes
for a declined offer.  Limits, and fares, are read back without trailing zeros and with an
exponent in their place (`internal/rides/idempotency_test.go:17` shows one): both
`exceedsLimit` (`internal/rides/handler.go:711-719`, `internal/business/handler.go:476-482`)
then compare nothing, and `internal/payment/service.go:143` refuses the fare, while
`internal/zones/handler.go:250` and `internal/pricing/pricing.go:153` do expand the exponent.
A Create that loses the race for its key answers the stored ride without comparing the
details (`internal/rides/handler.go:247`).  An account whose owner's membership fails to
insert can be managed by nobody (`internal/business/handler.go:81`).  An intent stored for
a ride whose method then became cash stays beside the cash, and the ride is paid twice
when both are settled; `PaidTwiceExplained` says that nothing else leads there.
`ProcessNoShow` (`internal/rides/cancellation.go:168`) does not look at the status and finds
a no-show of a ride that is over; no handler calls it.  An invoice whose
second statement fails remains a draft: a later call answers it as it is
(`internal/invoices/handler.go:76`).  `RiderInvoices` answers `hasMore` from a list cut to
the page, always false (`internal/dashboard/rider.go:75`).  The comment on
`validateTransition` calls final states final; an update that read before overwrites one
(`internal/airport/service.go:254`).  A vehicle document that runs out after
it was stored is not looked at again.  An approval of an identity document fails before
it writes, since pgx does not scan a float into a NUMERIC (`internal/identity/service.go:83`).
Uncertain payouts have no mark of progress: as many as the batch limit, uncertain for
ever, keep younger ones from being submitted (`internal/payouts/ledger.go:387`).  The
PIN that VerifyPIN compares may have been replaced when it is marked verified
(`internal/trust/handler.go:99`).

## 7. Mutations

An operator named `Mut...` stands above the definition it varies: a dropped
guard, a missing reset, a list with one status too few.  No action uses
it.  Substituted for the definition, it makes TLC violate the property it is
meant for (`mutants` in `PROJECT.json`), which shows that the property depends
on that piece of the code.

## 8. Only model-checked, not modelled

Liveness (`LapsedOfferCloses`, `StaleRequestLeavesPool`, `PayoutSettles`,
`PaidChargeSettles`) is checked by TLC on the instances above; the proof system
does not reason about fairness.  The violation runs show single behaviours.  Nothing else
the runs check is without a theorem.

Abstracted in what is modelled: coordinates, distances, fares (but for limits, cash and
fees), texts; closed offers; payout methods and their limits; signatures and amounts of
payments.  `ManualExecutor`, payments with no provider selected, and a
reconciliation pass an admin starts beside the worker's are left out.  A ride's PIN is
created at most once.  Deactivation of a user, which makes the next handler stop, is part
of `Stop` in AuthSessions and has a module of its own beside it; the resend throttle is a
delay.

Not modelled, with the reason (`PROJECT.json` has the same list by component):

* identity documents, saved places, emergency contacts, trip shares and ride share tokens:
  single rows, each written by one statement and read by its owner or a token;
* the push after a notification, and devices: best effort, no row a property could be about;
* geometry of zones, distances, surge, driver scores, the fraud evaluator: arithmetic in
  floating point over one request's inputs;
* loyalty points, corporate billing, payment analytics: no caller, or sums over other
  components' rows;
* SAF-T export, phone numbers, currency and texts, metrics, health, configuration,
  migrations, routing: formatting and plumbing without state.

## 9. Plan

Written: the four families, dispatch first because it is the program's purpose, then the
two that move money, then accounts; and the fourteen services.  Left:

1. A second trip PIN in RideDispatch, and concurrent reconcilers in PaymentCharges.
2. Identity records, once an approval can be stored.
3. Theorems: the double payment that several workers can cause needs a submission list that
   has gone stale; a history of who reversed what would let a theorem say so.
4. Withdrawals in one instance with the wallet service, when a binary constructs it.

Runs are kept few: when a new module needs one, runs that ask the same question
of the same module are merged.
