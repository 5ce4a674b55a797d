---------------------------- MODULE MCServices ----------------------------
(***************************************************************************)
(* The smaller components share no state, so one run checks them all: a    *)
(* behaviour opens one desk and only the component behind it moves, which  *)
(* makes the state space the sum of theirs.                                *)
(***************************************************************************)
EXTENDS Listings, AirportTransfers, RideReviews, RideCases, BusinessRides,
        Promotions, Notifications, FareRates, ServiceZones, Deactivation,
        CancellationFees, RideBilling, DriverWallets,
        DriverProfiles, TLC

\* One list of each kind of order, of coming and going, and of paging.
InstanceLists ==
  {GetRidesByRiderPage, GetRidesByDriverPage, GetOpenRidesPage, GetRideEventsPage,
   ListReadNotifications, ListSupportTicketsAdmin, ListDriverKYCPage, GetSAFTInvoicesByRider}

VARIABLE desk   \* the component of this behaviour

serviceVars == <<desk, listingVars, transferVars, reviewVars, caseVars, businessVars,
                 promoVars, noticeVars, rateVars, zoneVars, statusVars, feeVars,
                 billingVars, walletVars, profileVars>>

Desks == {"listing", "transfer", "review", "case", "business", "promotion",
          "notice", "rate", "zone", "status", "fee", "billing", "wallet",
          "profile"}

\* Of the many lists a reading may start with, the other desks see one.
InitServices ==
  /\ desk \in Desks
  /\ InitListing /\ (desk # "listing" => list = GetRidesByRiderPage /\ listed = {})
  /\ InitTransfers /\ InitReviews /\ InitCases /\ InitBusiness /\ InitPromotions
  /\ InitNotices /\ InitRates /\ InitZones /\ InitStatus /\ InitFees
  /\ InitBilling /\ InitWallets /\ InitProfiles

NextServices ==
  /\ UNCHANGED desk
  /\ IF desk = "listing"   THEN NextListing    ELSE UNCHANGED listingVars
  /\ IF desk = "transfer"  THEN NextTransfers  ELSE UNCHANGED transferVars
  /\ IF desk = "review"    THEN NextReviews    ELSE UNCHANGED reviewVars
  /\ IF desk = "case"      THEN NextCases      ELSE UNCHANGED caseVars
  /\ IF desk = "business"  THEN NextBusiness   ELSE UNCHANGED businessVars
  /\ IF desk = "promotion" THEN NextPromotions ELSE UNCHANGED promoVars
  /\ IF desk = "notice"    THEN NextNotices    ELSE UNCHANGED noticeVars
  /\ IF desk = "rate"      THEN NextRates      ELSE UNCHANGED rateVars
  /\ IF desk = "zone"      THEN NextZones      ELSE UNCHANGED zoneVars
  /\ IF desk = "status"    THEN NextStatus     ELSE UNCHANGED statusVars
  /\ IF desk = "fee"       THEN NextFees       ELSE UNCHANGED feeVars
  /\ IF desk = "billing"   THEN NextBilling    ELSE UNCHANGED billingVars
  /\ IF desk = "wallet"    THEN NextWallets    ELSE UNCHANGED walletVars
  /\ IF desk = "profile"   THEN NextProfiles   ELSE UNCHANGED profileVars

SpecServices == InitServices /\ [][NextServices]_serviceVars

\* Calls are interchangeable, and so are the rides of each kind; as every
\* component's calls are the same two, one permutation serves them all.
Symmetry == Permutations(Requests) \cup Permutations(Bookings) \cup Permutations(Trips)

(* Every row, request and counter of every service stays within its type:  *)
(* the columns and call frames the modules describe.                       *)
TypesOK ==
  /\ ListingTypeOK /\ TransferTypeOK /\ ReviewTypeOK /\ CaseTypeOK /\ BusinessTypeOK
  /\ PromoTypeOK /\ NoticeTypeOK /\ RateTypeOK /\ ZoneTypeOK /\ StatusTypeOK /\ FeeTypeOK
  /\ BillingTypeOK /\ WalletTypeOK /\ ProfileTypeOK
============================================================================
