------------------------------ MODULE Listings ------------------------------
(***************************************************************************)
(* Reading a list page by page while the table under it changes.  Every    *)
(* list of the API is one SELECT with ORDER BY, LIMIT and OFFSET, and the   *)
(* pages of one reading are independent statements: rows enter the list,   *)
(* leave it (a status filter no longer selects them) or move in it (the    *)
(* order is by updated_at or by a resubmission time) in between.           *)
(*                                                                         *)
(* A handler asks for one row more than a page holds and answers hasMore   *)
(* when it got it; the reader asks for the next page while hasMore says    *)
(* so.  The payout lists take limit and offset from the caller and answer  *)
(* rows only; their reader stops at an empty page.                         *)
(*                                                                         *)
(* An operator named Mut... is a variant with a bug of the one below it, as *)
(* in the other modules.                                                   *)
(*                                                                         *)
(* Abstracted: the columns of a row; rows are the order in which they were *)
(* created, and times that order rows are distinct.                        *)
(***************************************************************************)
EXTENDS Naturals, FiniteSets

CONSTANTS
  Rows,      \* rows that may be in the list, numbered in order of created_at
  PageSize,  \* rows on a page
  Lists,     \* the lists of the instance
  MaxChurn   \* bound: changes of the list while it is read

ASSUME RowsAssumption == Rows \subseteq Nat \ {0} /\ IsFiniteSet(Rows)
ASSUME PageAssumption == PageSize \in Nat \ {0} /\ MaxChurn \in Nat

VARIABLES
  list,      \* the list being read
  listed,    \* rows its WHERE clause selects now
  sortKey,   \* the time its ORDER BY compares
  nextPage,  \* the page the reader asks for next
  reading,   \* the reader has not been told to stop
  seen,      \* how often each row was on a page
  stayed,    \* rows listed since before the first page
  arrived,   \* rows that came in, or moved, while the list was read
  departed   \* rows that went out, or moved, while the list was read

listingVars == <<list, listed, sortKey, nextPage, reading, seen, stayed, arrived, departed>>

\* A list: newest or oldest row first; where a row may come in; whether rows
\* may go out; whether a row may be stamped anew; whether the handler, not the
\* statement, cuts out the page.
List == [order : {"newest", "oldest"}, enters : {"end", "anywhere"},
         leaves : BOOLEAN, moves : BOOLEAN, cut : BOOLEAN]

ByCreation(order) ==
  [order |-> order, enters |-> "end", leaves |-> FALSE, moves |-> FALSE, cut |-> FALSE]
Filtered(order) == [ByCreation(order) EXCEPT !.enters = "anywhere", !.leaves = TRUE]

GetRidesByRiderPage          == ByCreation("newest")
GetRidesByDriverPage         == Filtered("newest")   \* a ride gets a driver, and is given back
GetOpenRidesPage             == Filtered("oldest")
GetDriverOffersPage          == Filtered("oldest")
GetRideEventsPage            == ByCreation("oldest")
ListRidesForAdmin            == Filtered("newest")
ListUsers                    == Filtered("newest")
ListPaymentCharges           == Filtered("newest")
ListBusinessAccountsForUser  == Filtered("newest")   \* a user joins an older account
ListBusinessMembers          == ByCreation("oldest")
ListPendingRideAuthorizations == Filtered("oldest")
ListUnreadNotifications      == Filtered("newest")
ListReadNotifications        == [ByCreation("newest") EXCEPT !.enters = "anywhere"]
ListSupportTicketsByUser     == ByCreation("newest")
ListSupportTicketsAdmin      == [Filtered("newest") EXCEPT !.moves = TRUE]   \* by updated_at
ListRideDisputesAdmin        == [Filtered("newest") EXCEPT !.moves = TRUE]   \* by updated_at
ListDriverKYCPage            == [Filtered("oldest") EXCEPT !.moves = TRUE]   \* by submitted_at
ListPayoutRequestsByDriver   == ByCreation("newest")
ListPayoutRequestsByStatus   == Filtered("oldest")
ListWalletTransactions       == ByCreation("newest")

GetSAFTInvoicesByRider       == [ByCreation("newest") EXCEPT !.cut = TRUE]

ASSUME ListsAssumption == Lists \subseteq List

ListingTypeOK ==
  /\ list \in List
  /\ listed \subseteq Rows /\ stayed \subseteq listed
  /\ sortKey \in [Rows -> Nat]
  /\ nextPage \in Nat \ {0}
  /\ reading \in BOOLEAN
  /\ seen \in [Rows -> Nat]
  /\ arrived \in Nat /\ departed \in Nat

InitListing ==
  /\ list \in Lists
  /\ listed \in SUBSET Rows
  /\ sortKey = [r \in Rows |-> r]
  /\ nextPage = 1
  /\ reading = TRUE
  /\ seen = [r \in Rows |-> 0]
  /\ stayed = listed
  /\ arrived = 0 /\ departed = 0

-----------------------------------------------------------------------------
(* One statement.                                                          *)

Ahead(r) ==
  {s \in listed : IF list.order = "newest" THEN sortKey[s] > sortKey[r] ELSE sortKey[s] < sortKey[r]}

\* LIMIT limit OFFSET offset
Slice(limit, offset) ==
  {r \in listed : Cardinality(Ahead(r)) >= offset /\ Cardinality(Ahead(r)) < offset + limit}

Offset(page) == (page - 1) * PageSize

\* hasMore is judged after the extra row has been cut off.
MutHasMore(fetched) == Cardinality(fetched) > PageSize + 1

HasMore(fetched) == Cardinality(fetched) > PageSize

\* The answer carries `rows` and tells the reader whether to go on.
Answer(rows, more) ==
  /\ seen' = [r \in Rows |-> IF r \in rows THEN seen[r] + 1 ELSE seen[r]]
  /\ nextPage' = nextPage + 1
  /\ reading' = more
  /\ UNCHANGED <<list, listed, sortKey, stayed, arrived, departed>>

\* LIMIT pageSize+1; the extra row only answers hasMore.
ServePage(lists) ==
  /\ reading /\ list \in lists
  /\ LET fetched == Slice(PageSize + 1, Offset(nextPage))
     IN Answer(fetched \cap Slice(PageSize, Offset(nextPage)), HasMore(fetched))

\* limit and offset as the caller chose them.
ServeSlice(lists) ==
  /\ reading /\ list \in lists
  /\ LET rows == Slice(PageSize, Offset(nextPage))
     IN Answer(rows, rows # {})

-----------------------------------------------------------------------------
(* Handlers.                                                               *)

RideList       == ServePage({GetRidesByRiderPage, GetRidesByDriverPage})
Open           == ServePage({GetOpenRidesPage})
Offers         == ServePage({GetDriverOffersPage})
RideEvents     == ServePage({GetRideEventsPage})
RiderRides     == ServePage({GetRidesByRiderPage})
DriverTransactions   == ServePage({GetRidesByDriverPage})
AdminUsers     == ServePage({ListUsers})
AdminRides     == ServePage({ListRidesForAdmin})
AdminPayments  == ServePage({ListPaymentCharges})
ListKYC        == ServePage({ListDriverKYCPage})
ListAccounts   == ServePage({ListBusinessAccountsForUser})
ListMembers    == ServePage({ListBusinessMembers})
PendingAuthorizations == ServePage({ListPendingRideAuthorizations})
Notifications  == ServePage({ListUnreadNotifications, ListReadNotifications})
ListMySupportTickets  == ServePage({ListSupportTicketsByUser})
RiderSupportTickets   == ServePage({ListSupportTicketsByUser})
AdminSupportTickets   == ServePage({ListSupportTicketsAdmin})
AdminDisputes  == ServePage({ListRideDisputesAdmin})
DriverPayouts      == ServeSlice({ListPayoutRequestsByDriver})
AdminPayoutQueue   == ServeSlice({ListPayoutRequestsByStatus})
WalletTransactions == ServeSlice({ListWalletTransactions})

\* Fetches all pages up to this one, cuts the last off, and compares the end of
\* the page with the number of rows left after the cut.
RiderInvoices ==
  /\ reading /\ list.cut
  /\ LET fetched == Slice(PageSize * nextPage, 0)
         start   == Offset(nextPage)
         page    == IF start > Cardinality(fetched) THEN {}
                    ELSE {r \in fetched : Cardinality(Ahead(r)) >= start}
         end     == start + Cardinality(page)
     IN Answer(page, end < Cardinality(page))

ServeOne ==
  \/ RideList \/ Open \/ Offers \/ RideEvents \/ RiderRides \/ DriverTransactions
  \/ AdminUsers \/ AdminRides \/ AdminPayments \/ ListKYC \/ ListAccounts \/ ListMembers
  \/ PendingAuthorizations \/ Notifications \/ ListMySupportTickets
  \/ RiderSupportTickets \/ AdminSupportTickets \/ AdminDisputes
  \/ DriverPayouts \/ AdminPayoutQueue \/ WalletTransactions \/ RiderInvoices

-----------------------------------------------------------------------------
(* The other components, as this list sees them; they matter from the      *)
(* first page on.                                                          *)

Churns == reading /\ nextPage > 1 /\ arrived + departed < MaxChurn

Latest == CHOOSE t \in {sortKey[r] : r \in Rows} : \A r \in Rows : sortKey[r] <= t

Enter(r) ==
  /\ Churns /\ r \notin listed
  /\ list.enters = "end" => \A s \in listed : s < r
  /\ listed' = listed \cup {r}
  /\ arrived' = arrived + 1
  /\ UNCHANGED <<list, sortKey, nextPage, reading, seen, stayed, departed>>

Leave(r) ==
  /\ Churns /\ list.leaves /\ r \in listed
  /\ listed' = listed \ {r}
  /\ stayed' = stayed \ {r}
  /\ departed' = departed + 1
  /\ UNCHANGED <<list, sortKey, nextPage, reading, seen, arrived>>

\* The row gets a new time: it goes out at its place and comes in at the end
\* that the order keeps for the latest one.
Move(r) ==
  /\ Churns /\ list.moves /\ r \in listed
  /\ sortKey' = [sortKey EXCEPT ![r] = Latest + 1]
  /\ arrived' = arrived + 1 /\ departed' = departed + 1
  /\ UNCHANGED <<list, listed, nextPage, reading, seen, stayed>>

NextListing ==
  \/ ServeOne
  \/ \E r \in Rows : Enter(r) \/ Leave(r) \/ Move(r)

SpecListing == InitListing /\ [][NextListing]_listingVars

-----------------------------------------------------------------------------
(* A reader that is told to stop has seen every row that stayed in the     *)
(* list from first page to last, except at most one for each row that left *)
(* or moved in the meantime, and none was repeated but for rows that came  *)
(* in ahead of it: support/handler.go:169, rides/handler.go:335 and the    *)
(* other lists page by OFFSET over a live table.  In particular an         *)
(* append-only list is read completely.                                    *)
PagesBounded ==
  /\ ~reading /\ ~list.cut
       => Cardinality({r \in stayed : seen[r] = 0}) <= departed
  /\ Cardinality({r \in Rows : seen[r] > 1}) <= arrived
=============================================================================
