--------------------------- MODULE ServicesProofs ---------------------------
(***************************************************************************)
(* Theorems about what is kept of a ride after it: reviews and ratings     *)
(* (RideReviews), and the audit trail of tickets, disputes, incidents and  *)
(* SOS events (RideCases); about lists read page by page (Listings); and,  *)
(* last, about all small components together (MCServices).                 *)
(***************************************************************************)
EXTENDS MCServices, AnsweredChoicesProofs, RideCostsProofs

(* Reviews.  RatingComplete alone is not inductive: a refresh that is to   *)
(* store an average must not lose a review its average does not know.      *)

\* The call that is to refresh for this review has not started its UPDATE.
Waiting(w) == \E d \in ReviewCalls : reviewer[d].at = "refresh" /\ reviewer[d].review = w

\* What an average about to be stored leaves out is still to be averaged, or
\* its caller was told.
StoreKnows ==
  \A c \in ReviewCalls :
    reviewer[c].at = "store" =>
      \/ Reviewee(reviewer[c].review) \in overlapped
      \/ \A w \in reviews :
           Reviewee(w) = Reviewee(reviewer[c].review) /\ w \notin reviewer[c].average
             => Waiting(w) \/ w \in unrated

ReviewInv == ReviewTypeOK /\ StoreKnows /\ RatingComplete

LEMMA InitReviewInv == InitReviews => ReviewInv
  BY DEF InitReviews, ReviewInv, ReviewTypeOK, StoreKnows, RatingComplete, NoReview

LEMMA RevieweeIsUser ==
  ASSUME NEW v \in Review
  PROVE  Reviewee(v) \in User
  BY DEF Review, Reviewee, User

LEMMA ReviewerTyped ==
  ASSUME ReviewTypeOK, NEW c \in ReviewCalls, reviewer[c] # NoReview
  PROVE  /\ reviewer[c].review \in Review
         /\ reviewer[c].at \in {"refresh", "store", "audit"}
         /\ reviewer[c].at = "store" => reviewer[c].average \in SUBSET Review
  BY DEF ReviewTypeOK, ReviewCall

LEMMA ReviewTypeKept == ReviewTypeOK /\ [NextReviews]_reviewVars => ReviewTypeOK'
<1> SUFFICES ASSUME ReviewTypeOK, [NextReviews]_reviewVars
             PROVE  ReviewTypeOK'
  OBVIOUS
<1>1. ASSUME NEW r \in ReviewedRides, FinishRide(r)
      PROVE  ReviewTypeOK'
  BY <1>1 DEF FinishRide, ReviewTypeOK
<1>2. ASSUME NEW c \in ReviewCalls, NEW v \in Review, CreateReview(c, v)
      PROVE  ReviewTypeOK'
  <2>1. [at |-> "refresh", review |-> v] \in ReviewCall
    BY DEF ReviewCall
  <2> QED
    BY <1>2, <2>1 DEF CreateReview, CreateRideReview, ReviewTypeOK
<1>3. ASSUME NEW c \in ReviewCalls, BeginRefresh(c)
      PROVE  ReviewTypeOK'
  <2>1. reviewer[c].review \in Review
    BY <1>3, ReviewerTyped DEF BeginRefresh, NoReview
  <2>2. Average(reviewer[c].review) \subseteq Review
    BY DEF Average, ReviewTypeOK
  <2>3. [at |-> "store", review |-> reviewer[c].review,
         average |-> Average(reviewer[c].review)] \in ReviewCall
    BY <2>1, <2>2 DEF ReviewCall
  <2>4. reviewer' \in [ReviewCalls -> ReviewCall \cup {NoReview}]
    BY <1>3, <2>3 DEF BeginRefresh, ReviewTypeOK
  <2>5. overlapped' \subseteq User
    BY <1>3, <2>1, RevieweeIsUser DEF BeginRefresh, ReviewTypeOK
  <2> QED
    BY <1>3, <2>4, <2>5 DEF BeginRefresh, ReviewTypeOK
<1>4. ASSUME NEW c \in ReviewCalls, RefreshUserRating(c)
      PROVE  ReviewTypeOK'
  <2>1. reviewer[c].review \in Review /\ reviewer[c].average \in SUBSET Review
    BY <1>4, ReviewerTyped DEF RefreshUserRating, NoReview
  <2>2. [at |-> "audit", review |-> reviewer[c].review] \in ReviewCall
    BY <2>1 DEF ReviewCall
  <2> QED
    BY <1>4, <2>1, <2>2 DEF RefreshUserRating, ReviewTypeOK
<1>5. ASSUME NEW c \in ReviewCalls, NoteReview(c)
      PROVE  ReviewTypeOK'
  BY <1>5, ReviewerTyped DEF NoteReview, ReviewTypeOK, NoReview
<1>6. ASSUME NEW c \in ReviewCalls, FailReview(c)
      PROVE  ReviewTypeOK'
  BY <1>6, ReviewerTyped DEF FailReview, ReviewTypeOK
<1>7. CASE UNCHANGED reviewVars
  BY <1>7 DEF reviewVars, ReviewTypeOK
<1> QED
  BY <1>1, <1>2, <1>3, <1>4, <1>5, <1>6, <1>7 DEF NextReviews

\* What a review still has: its place in an average, a call, or an excuse.
Accounted(v) ==
  \/ v \in rated[Reviewee(v)]
  \/ \E c \in ReviewCalls : reviewer[c].at \in {"refresh", "store"} /\ reviewer[c].review = v
  \/ v \in unrated
  \/ Reviewee(v) \in overlapped

\* One call's progress leaves the other calls' reviews as they were.
LEMMA CreateKeeps ==
  ASSUME ReviewInv, NEW c \in ReviewCalls, NEW v \in Review, CreateReview(c, v)
  PROVE  (StoreKnows /\ RatingComplete)'
<1> USE DEF ReviewInv
<1>1. /\ reviewer[c] = NoReview /\ reviews' = reviews \cup {v}
      /\ UNCHANGED <<rated, unrated, overlapped>>
      /\ reviewer'[c] = [at |-> "refresh", review |-> v]
      /\ \A d \in ReviewCalls : d # c => reviewer'[d] = reviewer[d]
  BY DEF CreateReview, CreateRideReview, ReviewTypeOK
<1>2. \A w \in reviews : Waiting(w) => Waiting(w)'
  BY <1>1 DEF Waiting, NoReview
<1>3. Waiting(v)'
  BY <1>1 DEF Waiting
<1>4. StoreKnows'
  BY <1>1, <1>2, <1>3 DEF StoreKnows
<1>5. \A w \in reviews : Accounted(w) => Accounted(w)'
  BY <1>1 DEF Accounted, NoReview
<1>6. Accounted(v)'
  BY <1>3 DEF Accounted, Waiting
<1>7. RatingComplete'
  BY <1>1, <1>5, <1>6 DEF RatingComplete, Accounted
<1> QED
  BY <1>4, <1>7

LEMMA BeginKeeps ==
  ASSUME ReviewInv, NEW c \in ReviewCalls, BeginRefresh(c)
  PROVE  (StoreKnows /\ RatingComplete)'
<1> USE DEF ReviewInv
<1> DEFINE v == reviewer[c].review
<1>1. /\ reviewer[c].at = "refresh"
      /\ UNCHANGED <<reviews, rated, unrated>>
      /\ reviewer'[c] = [at |-> "store", review |-> v, average |-> Average(v)]
      /\ \A d \in ReviewCalls : d # c => reviewer'[d] = reviewer[d]
      /\ overlapped \subseteq overlapped'
  BY DEF BeginRefresh, ReviewTypeOK
<1>2. \A d \in ReviewCalls :
        reviewer[d].at = "store" /\ Reviewee(reviewer[d].review) = Reviewee(v)
          => Reviewee(v) \in overlapped'
  BY DEF BeginRefresh
<1>3. \A w \in reviews : Waiting(w) /\ w # v => Waiting(w)'
  BY <1>1 DEF Waiting
<1>4. ASSUME NEW d \in ReviewCalls, reviewer'[d].at = "store",
             Reviewee(reviewer'[d].review) \notin overlapped'
      PROVE  \A w \in reviews' :
               Reviewee(w) = Reviewee(reviewer'[d].review) /\ w \notin reviewer'[d].average
                 => Waiting(w)' \/ w \in unrated'
  <2>1. CASE d = c
    BY <1>1, <2>1 DEF Average
  <2>2. CASE d # c
    <3>1. reviewer'[d] = reviewer[d] /\ Reviewee(reviewer[d].review) # Reviewee(v)
      BY <1>1, <1>2, <1>4, <2>2
    <3>2. \A w \in reviews :
            Reviewee(w) = Reviewee(reviewer[d].review) /\ w \notin reviewer[d].average
              => Waiting(w) \/ w \in unrated
      BY <1>1, <1>4, <3>1 DEF StoreKnows
    <3> QED
      BY <1>1, <1>3, <3>1, <3>2
  <2> QED
    BY <2>1, <2>2
<1>5. StoreKnows'
  BY <1>4 DEF StoreKnows
<1>6. \A w \in reviews : Accounted(w) => Accounted(w)'
  BY <1>1 DEF Accounted
<1>7. RatingComplete'
  BY <1>1, <1>6 DEF RatingComplete, Accounted
<1> QED
  BY <1>5, <1>7

LEMMA RefreshKeeps ==
  ASSUME ReviewInv, NEW c \in ReviewCalls, RefreshUserRating(c)
  PROVE  (StoreKnows /\ RatingComplete)'
<1> USE DEF ReviewInv
<1> DEFINE v == reviewer[c].review
           u == Reviewee(v)
<1>1. /\ reviewer[c].at = "store"
      /\ UNCHANGED <<reviews, unrated, overlapped>>
      /\ rated' = [rated EXCEPT ![u] = reviewer[c].average]
      /\ reviewer'[c] = [at |-> "audit", review |-> v]
      /\ \A d \in ReviewCalls : d # c => reviewer'[d] = reviewer[d]
  BY DEF RefreshUserRating, ReviewTypeOK
<1>2. \A w \in reviews : Waiting(w) => Waiting(w)'
  BY <1>1 DEF Waiting
<1>3. StoreKnows'
  BY <1>1, <1>2 DEF StoreKnows
<1>4. ASSUME NEW w \in reviews
      PROVE  Accounted(w)'
  <2>1. CASE Reviewee(w) = u
    <3>1. u \in User
      BY <1>1, ReviewerTyped, RevieweeIsUser DEF NoReview
    <3>2. rated'[u] = reviewer[c].average
      BY <1>1, <3>1 DEF ReviewTypeOK
    <3>3. w \in reviewer[c].average \/ u \in overlapped \/ Waiting(w) \/ w \in unrated
      BY <1>1, <2>1 DEF StoreKnows
    <3> QED
      BY <1>1, <1>2, <2>1, <3>2, <3>3 DEF Accounted, Waiting
  <2>2. CASE Reviewee(w) # u
    <3>1. Accounted(w)
      BY DEF RatingComplete, Accounted
    <3>2. w # v /\ rated'[Reviewee(w)] = rated[Reviewee(w)]
      BY <1>1, <2>2, RevieweeIsUser DEF ReviewTypeOK
    <3> QED
      BY <1>1, <3>1, <3>2 DEF Accounted
  <2> QED
    BY <2>1, <2>2
<1>5. RatingComplete'
  BY <1>1, <1>4 DEF RatingComplete, Accounted
<1> QED
  BY <1>3, <1>5

LEMMA FailKeeps ==
  ASSUME ReviewInv, NEW c \in ReviewCalls, FailReview(c)
  PROVE  (StoreKnows /\ RatingComplete)'
<1> USE DEF ReviewInv
<1> DEFINE v == reviewer[c].review
<1>1. /\ UNCHANGED <<reviews, rated, overlapped>>
      /\ unrated \subseteq unrated'
      /\ reviewer[c].at # "audit" => v \in unrated'
      /\ reviewer'[c] = NoReview
      /\ \A d \in ReviewCalls : d # c => reviewer'[d] = reviewer[d]
  BY DEF FailReview, ReviewTypeOK
<1>2. \A w \in reviews : Waiting(w) \/ w \in unrated => Waiting(w)' \/ w \in unrated'
  BY <1>1 DEF Waiting
<1>3. StoreKnows'
  BY <1>1, <1>2 DEF StoreKnows, NoReview
<1>4. \A w \in reviews : Accounted(w) => Accounted(w)'
  BY <1>1 DEF Accounted
<1>5. RatingComplete'
  BY <1>1, <1>4 DEF RatingComplete, Accounted
<1> QED
  BY <1>3, <1>5

LEMMA ReviewInvKept == ReviewInv /\ [NextReviews]_reviewVars => ReviewInv'
<1> SUFFICES ASSUME ReviewInv, [NextReviews]_reviewVars
             PROVE  (StoreKnows /\ RatingComplete)'
  BY ReviewTypeKept DEF ReviewInv
<1>1. ASSUME NEW r \in ReviewedRides, FinishRide(r)
      PROVE  (StoreKnows /\ RatingComplete)'
  BY <1>1 DEF FinishRide, ReviewInv, StoreKnows, RatingComplete, Waiting
<1>2. ASSUME NEW c \in ReviewCalls, NoteReview(c)
      PROVE  (StoreKnows /\ RatingComplete)'
  <2>1. /\ UNCHANGED <<reviews, rated, unrated, overlapped>>
        /\ reviewer[c].at = "audit" /\ reviewer'[c] = NoReview
        /\ \A d \in ReviewCalls : d # c => reviewer'[d] = reviewer[d]
    BY <1>2 DEF NoteReview, ReviewInv, ReviewTypeOK
  <2>2. \A w \in reviews : Waiting(w) => Waiting(w)'
    BY <2>1 DEF Waiting
  <2>3. StoreKnows'
    BY <2>1, <2>2 DEF ReviewInv, StoreKnows, NoReview
  <2>4. RatingComplete'
    BY <2>1 DEF ReviewInv, RatingComplete
  <2> QED
    BY <2>3, <2>4
<1>3. CASE UNCHANGED reviewVars
  BY <1>3 DEF reviewVars, ReviewInv, StoreKnows, RatingComplete, Waiting
<1> QED
  BY <1>1, <1>2, <1>3, CreateKeeps, BeginKeeps, RefreshKeeps, FailKeeps DEF NextReviews

(* A review is missing from its user's rating only while its call is to    *)
(* refresh it, when the call was answered with an error, or when two       *)
(* refreshes of the user have overlapped (support/handler.go:82-103).      *)
THEOREM RatingsComplete == SpecReviews => []RatingComplete
<1>1. ReviewInv => RatingComplete
  BY DEF ReviewInv
<1> QED
  BY InitReviewInv, ReviewInvKept, <1>1, PTL DEF SpecReviews

-----------------------------------------------------------------------------
(* The audit trail.  A change and its entry are one step apart: the call   *)
(* that made the change holds the entry until it is written, or answered   *)
(* with an error, and none of the three ever loses it.                     *)

CaseInv == CaseTypeOK /\ AuditTrail /\ ResolvedByOne

LEMMA InitCaseInv == InitCases => CaseInv
  BY DEF InitCases, CaseInv, CaseTypeOK, AuditTrail, ResolvedByOne, Traced, Status, Idle,
         Cases

LEMMA ClerkTyped ==
  ASSUME CaseTypeOK, NEW c \in CaseCalls
  PROVE  /\ clerk[c].at = "audit" => clerk[c].case \in Cases /\ clerk[c].entry \in Entry
         /\ clerk[c].at = "sos" => clerk[c].by \in Participants
  BY DEF CaseTypeOK, Clerk, Idle

\* Every change of a row, with the record its call takes.
Changes(c, k, status, by, user) ==
  /\ case' = [case EXCEPT ![k] = [status |-> status, by |-> by]]
  /\ clerk' = [clerk EXCEPT ![c] =
       [at |-> "audit", case |-> k, entry |-> [what |-> status, by |-> user]]]
  /\ UNCHANGED <<underway, trail, told>>

\* What such a change must not do: drop an entry, or resolve an SOS event
\* that somebody else has resolved, or under another name.
Honest(c, k, status, by, user) ==
  /\ clerk[c].at # "audit"
  /\ k \in Alarms => /\ case[k].status # "resolved"
                     /\ status = "resolved" => by = user

LEMMA ChangesKeep ==
  ASSUME CaseInv, NEW c \in CaseCalls, NEW k \in Cases, NEW status \in Status,
         NEW by \in Users \cup {Unsigned}, NEW user \in Users,
         Changes(c, k, status, by, user), Honest(c, k, status, by, user)
  PROVE  CaseInv'
<1> USE DEF CaseInv
<1> DEFINE new == [what |-> status, by |-> user]
<1>1. new \in Entry
  BY DEF Entry
<1>2. CaseTypeOK'
  <2>1. [at |-> "audit", case |-> k, entry |-> new] \in Clerk
    BY <1>1 DEF Clerk
  <2> QED
    BY <2>1 DEF Changes, CaseTypeOK
<1>3. /\ clerk'[c] = [at |-> "audit", case |-> k, entry |-> new]
      /\ \A d \in CaseCalls : d # c => clerk'[d] = clerk[d]
      /\ case'[k] = [status |-> status, by |-> by]
      /\ \A j \in Cases : j # k => case'[j] = case[j]
      /\ UNCHANGED <<trail, told>>
  BY DEF Changes, CaseTypeOK
<1>4. \A j \in Cases : Traced(j)' = IF j = k THEN Traced(j) \cup {new} ELSE Traced(j)
  <2>1. clerk[c].at # "audit"
    BY DEF Honest
  <2>2. ASSUME NEW j \in Cases, NEW e \in Entry
        PROVE  (\E d \in CaseCalls : clerk'[d].at = "audit" /\ clerk'[d].case = j /\ clerk'[d].entry = e)
               <=> \/ \E d \in CaseCalls : clerk[d].at = "audit" /\ clerk[d].case = j /\ clerk[d].entry = e
                   \/ j = k /\ e = new
    BY <1>3, <2>1
  <2> QED
    BY <1>1, <1>3, <2>2 DEF Traced
<1>5. AuditTrail'
  BY <1>3, <1>4 DEF AuditTrail
<1>6. ResolvedByOne'
  <2>1. ASSUME NEW j \in Alarms, NEW e \in Traced(j)', e.what = "resolved"
        PROVE  case'[j] = [status |-> "resolved", by |-> e.by]
    <3>1. j \in Cases
      BY DEF Cases
    <3>2. CASE j # k
      BY <1>3, <1>4, <2>1, <3>1, <3>2 DEF ResolvedByOne
    <3>3. CASE j = k
      <4>1. e \notin Traced(j)
        <5> SUFFICES ASSUME e \in Traced(j) PROVE FALSE
          OBVIOUS
        <5>1. case[j] = [status |-> "resolved", by |-> e.by]
          BY <2>1 DEF ResolvedByOne
        <5> QED
          BY <2>1, <3>3, <5>1 DEF Honest
      <4>2. e = new
        BY <1>4, <2>1, <3>1, <3>3, <4>1
      <4> QED
        BY <1>3, <2>1, <3>3, <4>2 DEF Honest
    <3> QED
      BY <3>2, <3>3
  <2> QED
    BY <2>1 DEF ResolvedByOne
<1> QED
  BY <1>2, <1>5, <1>6

\* Every handler that changes a row is such a change.
LEMMA HandlersChange ==
  ASSUME CaseInv, NEW c \in CaseCalls, NEW k \in Cases
  PROVE  /\ \A user \in Users :
              \/ CreateSupportTicket(c, k, user) \/ CreateDispute(c, k, user)
              \/ ReportIncident(c, k, user)
              => CaseInv'
         /\ \A admin \in Admins, status \in Status :
              \/ AdminUpdateSupportTicket(c, k, status, admin)
              \/ AdminUpdateDispute(c, k, status, admin)
              => CaseInv'
         /\ \A admin \in Admins : AdminResolveSOS(c, k, admin) => CaseInv'
         /\ CreateRideSOSEvent(c, k) => CaseInv'
<1> USE DEF CaseInv
<1>1. ASSUME NEW user \in Users, CreateSupportTicket(c, k, user) \/ CreateDispute(c, k, user)
                                 \/ ReportIncident(c, k, user)
      PROVE  CaseInv'
  <2>1. PICK status \in {"open", "reported"} : Changes(c, k, status, Unsigned, user)
    BY <1>1 DEF CreateSupportTicket, CreateDispute, ReportIncident, InsertTicket, InsertDispute,
                InsertIncident, Inserted, ThenAudits, Changes
  <2>2. Honest(c, k, status, Unsigned, user)
    BY <1>1, CasesAssumption
       DEF CreateSupportTicket, CreateDispute, ReportIncident, InsertTicket, InsertDispute,
           InsertIncident, Inserted, Begins, Idle, Honest
  <2> QED
    BY <2>1, <2>2, ChangesKeep DEF Status
<1>2. ASSUME NEW admin \in Admins, NEW status \in Status,
             AdminUpdateSupportTicket(c, k, status, admin) \/ AdminUpdateDispute(c, k, status, admin)
      PROVE  CaseInv'
  <2>1. PICK by \in {admin, Unsigned} : Changes(c, k, status, by, admin)
    BY <1>2 DEF AdminUpdateSupportTicket, AdminUpdateDispute, SetTicketStatus, SetDisputeStatus,
                ThenAudits, Changes
  <2>2. Honest(c, k, status, by, admin)
    BY <1>2, CasesAssumption
       DEF AdminUpdateSupportTicket, AdminUpdateDispute, SetTicketStatus, SetDisputeStatus, Begins,
           Idle, Honest
  <2> QED
    BY <2>1, <2>2, ChangesKeep DEF Users
<1>3. ASSUME NEW admin \in Admins, AdminResolveSOS(c, k, admin)
      PROVE  CaseInv'
  <2>1. Changes(c, k, "resolved", admin, admin) /\ Honest(c, k, "resolved", admin, admin)
    BY <1>3 DEF AdminResolveSOS, Resolvable, ThenAudits, Begins, Idle, Changes, Honest
  <2> QED
    BY <2>1, ChangesKeep DEF Users, Status
<1>4. ASSUME CreateRideSOSEvent(c, k)
      PROVE  CaseInv'
  <2>1. clerk[c].by \in Users
    BY <1>4, ClerkTyped DEF CreateRideSOSEvent, Users
  <2>2. /\ Changes(c, k, "active", Unsigned, clerk[c].by)
        /\ Honest(c, k, "active", Unsigned, clerk[c].by)
    BY <1>4 DEF CreateRideSOSEvent, Inserted, ThenAudits, Changes, Honest
  <2> QED
    BY <2>1, <2>2, ChangesKeep DEF Status
<1> QED
  BY <1>1, <1>2, <1>3, <1>4

\* A call's entry goes to the trail, or to the caller as an error.
LEMMA EntryKept ==
  ASSUME CaseInv, NEW c \in CaseCalls, Audit(c) \/ FailCall(c)
  PROVE  CaseInv'
<1> USE DEF CaseInv
<1>1. /\ UNCHANGED <<underway, case>>
      /\ clerk'[c] = Idle
      /\ \A d \in CaseCalls : d # c => clerk'[d] = clerk[d]
  BY DEF Audit, FailCall, CaseTypeOK
<1>2. CaseTypeOK'
  BY ClerkTyped DEF Audit, FailCall, CaseTypeOK
<1>3. ASSUME NEW k \in Cases
      PROVE  Traced(k)' = Traced(k)
  <2>1. CASE clerk[c].at = "audit"
    <3>1. (trail[k] \cup told[k])' =
            IF clerk[c].case = k THEN trail[k] \cup told[k] \cup {clerk[c].entry}
            ELSE trail[k] \cup told[k]
      BY <2>1 DEF Audit, FailCall, CaseTypeOK
    <3> QED
      BY <1>1, <2>1, <3>1 DEF Traced, Idle
  <2>2. CASE clerk[c].at # "audit"
    <3>1. UNCHANGED <<trail, told>>
      BY <2>2 DEF Audit, FailCall
    <3> QED
      BY <1>1, <2>2, <3>1 DEF Traced, Idle
  <2> QED
    BY <2>1, <2>2
<1>4. AuditTrail' /\ ResolvedByOne'
  BY <1>1, <1>3 DEF AuditTrail, ResolvedByOne, Cases
<1> QED
  BY <1>2, <1>4

LEMMA CaseInvKept == CaseInv /\ [NextCases]_caseVars => CaseInv'
<1> SUFFICES ASSUME CaseInv, [NextCases]_caseVars
             PROVE  CaseInv'
  OBVIOUS
<1>1. CASE RideEnds
  <2>1. UNCHANGED <<case, trail, told, clerk>> /\ underway' \in BOOLEAN
    BY <1>1 DEF RideEnds
  <2>2. CaseTypeOK'
    BY <2>1 DEF CaseInv, CaseTypeOK
  <2>3. AuditTrail' /\ ResolvedByOne'
    BY <2>1 DEF CaseInv, AuditTrail, ResolvedByOne, Traced
  <2> QED
    BY <2>2, <2>3 DEF CaseInv
<1>2. ASSUME NEW c \in CaseCalls, NEW user \in Users, TriggerSOS(c, user)
      PROVE  CaseInv'
  <2>1. [at |-> "sos", by |-> user] \in Clerk
    BY <1>2 DEF TriggerSOS, Participates, Clerk
  <2>2. CaseTypeOK'
    BY <1>2, <2>1 DEF TriggerSOS, CaseInv, CaseTypeOK
  <2>3. \A k \in Cases : Traced(k)' = Traced(k)
    BY <1>2 DEF TriggerSOS, Begins, Idle, CaseInv, CaseTypeOK, Traced
  <2> QED
    BY <1>2, <2>2, <2>3 DEF TriggerSOS, CaseInv, AuditTrail, ResolvedByOne, Cases
<1>3. CASE UNCHANGED caseVars
  BY <1>3 DEF caseVars, CaseInv, CaseTypeOK, AuditTrail, ResolvedByOne, Traced
<1> QED
  BY <1>1, <1>2, <1>3, HandlersChange, EntryKept DEF NextCases

(* Every status of a ticket, dispute, incident or SOS event is in the      *)
(* ride's audit trail, about to be, or was answered with an error          *)
(* (support/handler.go:149, 237, 267, 336, safety/handler.go:170, 196).    *)
THEOREM TrailComplete == SpecCases => []AuditTrail
<1>1. CaseInv => AuditTrail
  BY DEF CaseInv
<1> QED
  BY InitCaseInv, CaseInvKept, <1>1, PTL DEF SpecCases

(* No SOS event is resolved twice: WHERE status = 'active' lets one of two *)
(* admins through (safety/admin.go:58).                                    *)
THEOREM OneResolver == SpecCases => []ResolvedByOne
<1>1. CaseInv => ResolvedByOne
  BY DEF CaseInv
<1> QED
  BY InitCaseInv, CaseInvKept, <1>1, PTL DEF SpecCases

-----------------------------------------------------------------------------
(* Lists read page by page.                                                *)

\* Ahead, of any set of rows in any order of time.
Front(L, key, order, r) ==
  {s \in L : IF order = "newest" THEN key[s] > key[r] ELSE key[s] < key[r]}

Place(L, key, order, r) == Cardinality(Front(L, key, order, r))

\* Those of some rows that stand before a place, and those from there on.
Before(off, X, L, key, order) == {s \in X : Place(L, key, order, s) < off}
Behind(off, X, L, key, order) == {s \in X : Place(L, key, order, s) >= off}

Keyed(key) == key \in [Rows -> Nat] /\ \A r, s \in Rows : key[r] = key[s] => r = s

\* The order is total, and a row has more rows in front of it than each of those.
LEMMA RowsInOrder ==
  ASSUME NEW L \in SUBSET Rows, NEW key, Keyed(key), NEW order
  PROVE  /\ \A r \in Rows : IsFiniteSet(Front(L, key, order, r)) /\ Place(L, key, order, r) \in Nat
         /\ \A r, s \in L : \/ r = s
                            \/ s \in Front(L, key, order, r)
                            \/ r \in Front(L, key, order, s)
         /\ \A r \in L : \A s \in Front(L, key, order, r) :
              Place(L, key, order, s) < Place(L, key, order, r)
<1>1. IsFiniteSet(L)
  BY RowsAssumption, FS_Subset
<1>2. \A r \in L : r \in Rows /\ key[r] \in Int
  BY DEF Keyed
<1>3. ASSUME NEW r
      PROVE  IsFiniteSet(Front(L, key, order, r)) /\ Place(L, key, order, r) \in Nat
  <2>1. Front(L, key, order, r) \in SUBSET L
    BY DEF Front
  <2>2. IsFiniteSet(Front(L, key, order, r))
    BY <1>1, <2>1, FS_Subset
  <2> QED  BY <2>2, FS_CardinalityType DEF Place
<1>4. \A r, s \in L : r = s \/ s \in Front(L, key, order, r) \/ r \in Front(L, key, order, s)
  BY <1>2 DEF Front, Keyed
<1>5. ASSUME NEW r \in L, NEW s \in Front(L, key, order, r)
      PROVE  Place(L, key, order, s) < Place(L, key, order, r)
  <2> DEFINE A == Front(L, key, order, s)
             B == Front(L, key, order, r)
  <2>1. A \in SUBSET B /\ s \in B /\ s \notin A
    BY <1>2, <1>5 DEF Front
  <2> HIDE DEF A, B
  <2>2. IsFiniteSet(A) /\ IsFiniteSet(B) /\ Cardinality(A) \in Nat /\ Cardinality(B) \in Nat
    BY <1>3 DEF A, B, Place
  <2>3. Cardinality(A) <= Cardinality(B) /\ Cardinality(A) # Cardinality(B)
    BY <2>1, <2>2, FS_Subset
  <2>4. Cardinality(A) < Cardinality(B)
    BY <2>2, <2>3
  <2> QED  BY <2>4 DEF A, B, Place
<1> QED  BY <1>3, <1>4, <1>5

LEMMA PlacesDiffer ==
  ASSUME NEW L \in SUBSET Rows, NEW key, Keyed(key), NEW order, NEW r \in L, NEW s \in L,
         Place(L, key, order, r) = Place(L, key, order, s)
  PROVE  r = s
<1>1. \A x, y \in L : y \in Front(L, key, order, x) => Place(L, key, order, y) < Place(L, key, order, x)
  BY RowsInOrder
<1>2. Place(L, key, order, r) \in Nat /\ Place(L, key, order, s) \in Nat
  BY RowsInOrder
<1>3. r = s \/ s \in Front(L, key, order, r) \/ r \in Front(L, key, order, s)
  BY RowsInOrder
<1> QED  BY <1>1, <1>2, <1>3

\* The places are 0, 1, ... without a gap.
LEMMA PlacesFilled ==
  ASSUME NEW L \in SUBSET Rows, NEW key, Keyed(key), NEW order
  PROVE  /\ \A r \in L : Place(L, key, order, r) < Cardinality(L)
         /\ \A k \in 0..(Cardinality(L) - 1) : \E r \in L : Place(L, key, order, r) = k
<1>1. IsFiniteSet(L) /\ Cardinality(L) \in Nat
  BY RowsAssumption, FS_Subset, FS_CardinalityType
<1>2. \A r \in L : Place(L, key, order, r) \in Nat
  BY RowsInOrder
<1>3. ASSUME NEW r \in L
      PROVE  Place(L, key, order, r) < Cardinality(L)
  <2> DEFINE A == Front(L, key, order, r)
  <2>1. A \in SUBSET L /\ r \notin A
    BY DEF Front, Keyed
  <2> HIDE DEF A
  <2>2. Cardinality(A) <= Cardinality(L) /\ Cardinality(A) # Cardinality(L)
    BY <1>1, <2>1, FS_Subset
  <2>3. Place(L, key, order, r) = Cardinality(A)
    BY DEF A, Place
  <2> QED  BY <1>1, <1>2, <2>2, <2>3
<1> DEFINE T == 0..(Cardinality(L) - 1)
           f == [r \in L |-> Place(L, key, order, r)]
<1>4. f \in Injection(L, T)
  <2>1. f \in [L -> T]
    BY <1>1, <1>2, <1>3
  <2>2. \A r, s \in L : f[r] = f[s] => r = s
    BY PlacesDiffer
  <2> HIDE DEF f, T
  <2> QED  BY <2>1, <2>2 DEF Injection, IsInjective
<1>5. IsFiniteSet(T) /\ Cardinality(T) = Cardinality(L)
  <2>1. 0 \in Int /\ Cardinality(L) - 1 \in Int
    BY <1>1
  <2>2. IsFiniteSet(T) /\ Cardinality(T) = IF 0 > Cardinality(L) - 1 THEN 0 ELSE Cardinality(L) - 1 - 0 + 1
    BY <2>1, FS_Interval
  <2> HIDE DEF T
  <2> QED  BY <1>1, <2>2
<1>6. f \in Surjection(L, T)
  <2> HIDE DEF f, T
  <2> QED  BY <1>4, <1>5, FS_Injection
<1>7. \A k \in T : \E r \in L : f[r] = k
  <2> HIDE DEF f, T
  <2> QED  BY <1>6 DEF Surjection
<1> QED  BY <1>3, <1>7

\* At most one element is new.
LEMMA OneMore ==
  ASSUME NEW A, NEW B, IsFiniteSet(A), IsFiniteSet(B), \A x, y \in B \ A : x = y
  PROVE  Cardinality(B) <= Cardinality(A) + 1
<1>1. Cardinality(A) \in Nat /\ Cardinality(B) \in Nat
  BY FS_CardinalityType
<1>2. CASE B \ A = {}
  <2>1. B \in SUBSET A
    BY <1>2
  <2>2. Cardinality(B) <= Cardinality(A)
    BY <2>1, FS_Subset
  <2> QED  BY <1>1, <2>2
<1>3. ASSUME NEW x \in B \ A
      PROVE  Cardinality(B) <= Cardinality(A) + 1
  <2>1. B \in SUBSET (A \cup {x})
    BY <1>3
  <2>2. IsFiniteSet(A \cup {x}) /\ Cardinality(A \cup {x}) = Cardinality(A) + 1
    BY <1>3, FS_AddElement
  <2>3. Cardinality(B) <= Cardinality(A \cup {x})
    BY <2>1, <2>2, FS_Subset
  <2> QED  BY <2>2, <2>3
<1> QED  BY <1>2, <1>3

\* One row comes, goes, or gets another time: the others shift by one place at most.
LEMMA OneRowShifts ==
  ASSUME NEW r \in Rows, NEW order, NEW L \in SUBSET Rows, NEW M \in SUBSET Rows, L \ {r} = M \ {r},
         NEW key, Keyed(key), NEW stamped, Keyed(stamped), \A s \in Rows \ {r} : stamped[s] = key[s],
         NEW s \in L \ {r}
  PROVE  /\ Place(M, stamped, order, s) <= Place(L, key, order, s) + 1
         /\ Place(M, stamped, order, s) > Place(L, key, order, s)
              => r \in Front(M, stamped, order, s) /\ r \notin Front(L, key, order, s)
<1> DEFINE A == Front(L, key, order, s)
           B == Front(M, stamped, order, s)
<1>1. A \ {r} = B \ {r}
  BY DEF Front
<1>2. IsFiniteSet(A) /\ IsFiniteSet(B)
  BY RowsInOrder
<1> HIDE DEF A, B
<1>3. /\ Cardinality(A \ {r}) = IF r \in A THEN Cardinality(A) - 1 ELSE Cardinality(A)
      /\ Cardinality(B \ {r}) = IF r \in B THEN Cardinality(B) - 1 ELSE Cardinality(B)
  BY <1>2, FS_RemoveElement
<1>4. Cardinality(A) \in Nat /\ Cardinality(B) \in Nat
  BY <1>2, FS_CardinalityType
<1>5. /\ Cardinality(B) <= Cardinality(A) + 1
      /\ Cardinality(B) > Cardinality(A) => r \in B /\ r \notin A
  <2>1. Cardinality(A \ {r}) = Cardinality(B \ {r})
    BY <1>1
  <2>2. CASE r \in A
    BY <1>3, <1>4, <2>1, <2>2
  <2>3. CASE r \notin A
    BY <1>3, <1>4, <2>1, <2>3
  <2> QED  BY <2>2, <2>3
<1> QED  BY <1>5 DEF A, B, Place

\* Then at most one row of some comes to stand before a place ...
LEMMA OneMoreBefore ==
  ASSUME NEW r \in Rows, NEW order, NEW L \in SUBSET Rows, NEW M \in SUBSET Rows, L \ {r} = M \ {r},
         NEW key, Keyed(key), NEW stamped, Keyed(stamped), \A s \in Rows \ {r} : stamped[s] = key[s],
         NEW off \in Nat, NEW Y \in SUBSET L, NEW Z \in SUBSET Y, Z \subseteq M
  PROVE  Cardinality(Before(off, Z, M, stamped, order)) <= Cardinality(Before(off, Y, L, key, order)) + 1
<1> DEFINE A == {s \in Y : Place(L, key, order, s) < off}
           B == {s \in Z : Place(M, stamped, order, s) < off}
<1>1. IsFiniteSet(A) /\ IsFiniteSet(B)
  <2>1. A \in SUBSET Rows /\ B \in SUBSET Rows
    OBVIOUS
  <2> HIDE DEF A, B
  <2> QED  BY <2>1, RowsAssumption, FS_Subset
<1>2. /\ \A s \in L : Place(L, key, order, s) \in Nat
      /\ \A s \in M : Place(M, stamped, order, s) \in Nat
  BY RowsInOrder
<1>3. ASSUME NEW s \in B \ A, s # r
      PROVE  /\ Place(L, key, order, s) = off /\ Place(M, stamped, order, s) = off - 1
             /\ r \in L /\ r \notin Front(M, stamped, order, s)
  <2>1. /\ s \in M \ {r} /\ s \in L \ {r}
        /\ Place(L, key, order, s) >= off /\ Place(M, stamped, order, s) < off
    BY <1>2, <1>3
  <2>2. M \ {r} = L \ {r} /\ \A x \in Rows \ {r} : key[x] = stamped[x]
    OBVIOUS
  <2>3. /\ Place(L, key, order, s) <= Place(M, stamped, order, s) + 1
        /\ Place(L, key, order, s) > Place(M, stamped, order, s)
             => r \in Front(L, key, order, s) /\ r \notin Front(M, stamped, order, s)
    BY <2>1, <2>2, OneRowShifts
  <2> QED  BY <1>2, <2>1, <2>3 DEF Front
<1>4. ASSUME NEW s \in B \ A, s # r, r \in B \ A
      PROVE  FALSE
  <2>1. s \in M /\ r \in M /\ r \notin Front(M, stamped, order, s)
    BY <1>3, <1>4
  <2>2. s \in Front(M, stamped, order, r)
    BY <1>4, <2>1, RowsInOrder
  <2>3. Place(M, stamped, order, s) < Place(M, stamped, order, r)
    BY <2>1, <2>2, RowsInOrder
  <2>4. Place(M, stamped, order, s) = off - 1
    BY <1>3, <1>4
  <2>5. Place(M, stamped, order, r) < off /\ Place(M, stamped, order, r) \in Nat
    BY <1>2, <1>4
  <2> QED  BY <2>3, <2>4, <2>5
<1>5. ASSUME NEW s \in B \ A, NEW t \in B \ A
      PROVE  s = t
  <2>1. CASE s # r /\ t # r
    <3>1. s \in L /\ t \in L /\ Place(L, key, order, s) = Place(L, key, order, t)
      BY <1>3, <2>1
    <3> QED  BY <3>1, PlacesDiffer
  <2> QED  BY <1>4, <2>1
<1> HIDE DEF A, B
<1>6. Cardinality(B) <= Cardinality(A) + 1
  BY <1>1, <1>5, OneMore
<1> QED  BY <1>6 DEF A, B, Before

\* ... and at most one behind it.
LEMMA OneMoreBehind ==
  ASSUME NEW r \in Rows, NEW order, NEW L \in SUBSET Rows, NEW M \in SUBSET Rows, L \ {r} = M \ {r},
         NEW key, Keyed(key), NEW stamped, Keyed(stamped), \A s \in Rows \ {r} : stamped[s] = key[s],
         NEW off \in Nat, NEW Y \in SUBSET L, NEW Z \in SUBSET M, Z \ {r} \subseteq Y
  PROVE  Cardinality(Behind(off, Z, M, stamped, order)) <= Cardinality(Behind(off, Y, L, key, order)) + 1
<1> DEFINE A == {s \in Y : Place(L, key, order, s) >= off}
           B == {s \in Z : Place(M, stamped, order, s) >= off}
<1>1. IsFiniteSet(A) /\ IsFiniteSet(B)
  <2>1. A \in SUBSET Rows /\ B \in SUBSET Rows
    OBVIOUS
  <2> HIDE DEF A, B
  <2> QED  BY <2>1, RowsAssumption, FS_Subset
<1>2. /\ \A s \in L : Place(L, key, order, s) \in Nat
      /\ \A s \in M : Place(M, stamped, order, s) \in Nat
  BY RowsInOrder
<1>3. ASSUME NEW s \in B \ A, s # r
      PROVE  /\ s \in L /\ s \in M /\ r \in M
             /\ Place(L, key, order, s) = off - 1 /\ Place(M, stamped, order, s) = off
             /\ r \in Front(M, stamped, order, s)
  <2>1. /\ s \in M /\ s \in L \ {r}
        /\ Place(L, key, order, s) < off /\ Place(M, stamped, order, s) >= off
    BY <1>2, <1>3
  <2>2. /\ Place(M, stamped, order, s) <= Place(L, key, order, s) + 1
        /\ Place(M, stamped, order, s) > Place(L, key, order, s)
             => r \in Front(M, stamped, order, s) /\ r \notin Front(L, key, order, s)
    BY <2>1, OneRowShifts
  <2>3. Place(L, key, order, s) \in Nat /\ Place(M, stamped, order, s) \in Nat
    BY <1>2, <2>1
  <2>4. r \in Front(M, stamped, order, s)
    BY <2>1, <2>2, <2>3
  <2>5. r \in M
    BY <2>4 DEF Front
  <2> QED  BY <2>1, <2>2, <2>3, <2>4, <2>5
<1>4. ASSUME NEW s \in B \ A, s # r, r \in B \ A
      PROVE  FALSE
  <2>1. s \in M /\ r \in Front(M, stamped, order, s) /\ Place(M, stamped, order, s) = off
    BY <1>3, <1>4
  <2>2. Place(M, stamped, order, r) < Place(M, stamped, order, s)
    BY <2>1, RowsInOrder
  <2>3. Place(M, stamped, order, r) >= off /\ Place(M, stamped, order, r) \in Nat
    BY <1>2, <1>4
  <2> QED  BY <2>1, <2>2, <2>3
<1>5. ASSUME NEW s \in B \ A, NEW t \in B \ A
      PROVE  s = t
  <2>1. CASE s # r /\ t # r
    <3>1. s \in L /\ t \in L /\ Place(L, key, order, s) = Place(L, key, order, t)
      BY <1>3, <2>1
    <3> QED  BY <3>1, PlacesDiffer
  <2> QED  BY <1>4, <2>1
<1> HIDE DEF A, B
<1>6. Cardinality(B) <= Cardinality(A) + 1
  BY <1>1, <1>5, OneMore
<1> QED  BY <1>6 DEF A, B, Behind

\* A statement that asks for one row more than n and gets no more than n has
\* reached the end.
LEMMA LastPage ==
  ASSUME NEW order, NEW L \in SUBSET Rows, NEW key, Keyed(key), NEW off \in Nat, NEW n \in Nat,
         Cardinality({r \in L : Place(L, key, order, r) >= off /\ Place(L, key, order, r) < off + n + 1}) <= n
  PROVE  \A r \in L : Place(L, key, order, r) < off + n
<1> DEFINE S == {r \in L : Place(L, key, order, r) >= off /\ Place(L, key, order, r) < off + n + 1}
           T == off..(off + n)
           f == [r \in S |-> Place(L, key, order, r)]
<1> SUFFICES ASSUME NEW r \in L, ~(Place(L, key, order, r) < off + n) PROVE FALSE
  OBVIOUS
<1>1. /\ \A s \in L : Place(L, key, order, s) \in Nat
      /\ Place(L, key, order, r) < Cardinality(L)
      /\ \A k \in 0..(Cardinality(L) - 1) : \E s \in L : Place(L, key, order, s) = k
  BY RowsInOrder, PlacesFilled
<1>2. IsFiniteSet(S) /\ Cardinality(L) \in Nat
  <2>1. IsFiniteSet(L) /\ S \in SUBSET L
    BY RowsAssumption, FS_Subset
  <2> HIDE DEF S
  <2> QED  BY <2>1, FS_Subset, FS_CardinalityType
<1>3. \A k \in T : \E s \in S : f[s] = k
  <2> TAKE k \in T
  <2>1. k \in 0..(Cardinality(L) - 1) /\ k >= off /\ k < off + n + 1
    BY <1>1, <1>2
  <2>2. PICK s \in L : Place(L, key, order, s) = k
    BY <1>1, <2>1
  <2> QED  BY <2>1, <2>2
<1>4. f \in [S -> T]
  BY <1>1
<1>5. Cardinality(T) = n + 1
  BY FS_Interval
<1>6. Cardinality(S) <= n /\ Cardinality(S) \in Nat
  BY <1>2, FS_CardinalityType
<1> HIDE DEF S, T, f
<1>7. f \in Surjection(S, T)
  BY <1>3, <1>4 DEF Surjection
<1>8. Cardinality(T) <= Cardinality(S)
  BY <1>2, <1>7, FS_Surjection
<1> QED  BY <1>5, <1>6, <1>8

\* Rows before the page the reader asks for next that it has not seen though
\* they have been there from the first page on; rows from that page on that it
\* has seen; and rows that it has seen twice.
Past   == Offset(nextPage)
At(r)  == Place(listed, sortKey, list.order, r)
Missed == {r \in {s \in stayed : seen[s] = 0} : At(r) < Past}
Due    == {r \in {s \in listed : seen[s] > 0} : At(r) >= Past}
Twice  == {r \in Rows : seen[r] > 1}

PagesInv ==
  /\ ListingTypeOK /\ Keyed(sortKey)
  /\ ~list.cut => Cardinality(Missed) <= departed
  /\ Cardinality(Twice) + Cardinality(Due) <= arrived
  /\ ~reading /\ ~list.cut => \A r \in listed : At(r) < Past

LEMMA NextOffset ==
  \A p \in Nat \ {0} : Offset(p) \in Nat /\ Offset(p + 1) = Offset(p) + PageSize
<1> TAKE p \in Nat \ {0}
<1>1. PICK q \in Nat : p = q + 1
  <2>1. p = (p - 1) + 1 /\ p - 1 \in Nat
    OBVIOUS
  <2> QED  BY <2>1
<1>2. Offset(p) = q * PageSize /\ Offset(p + 1) = (q + 1) * PageSize
  <2>1. p - 1 = q /\ p + 1 - 1 = q + 1
    BY <1>1
  <2> QED  BY <2>1 DEF Offset
<1>3. (q + 1) * PageSize = q * PageSize + PageSize /\ q * PageSize \in Nat
  BY PageAssumption
<1> QED  BY <1>2, <1>3

LEMMA SliceIs ==
  Slice(PageSize, Past) = {r \in listed : At(r) >= Past /\ At(r) < Past + PageSize}
  BY DEF Slice, Ahead, At, Place, Front

LEMMA PagesFinite ==
  ASSUME ListingTypeOK
  PROVE  /\ IsFiniteSet(Missed) /\ IsFiniteSet(Due) /\ IsFiniteSet(Twice)
         /\ Cardinality(Missed) \in Nat /\ Cardinality(Due) \in Nat /\ Cardinality(Twice) \in Nat
         /\ \A r \in Rows : At(r) \in Nat
<1>1. Missed \in SUBSET Rows /\ Due \in SUBSET Rows /\ Twice \in SUBSET Rows
  BY DEF ListingTypeOK, Missed, Due, Twice
<1>2. IsFiniteSet(Missed) /\ IsFiniteSet(Due) /\ IsFiniteSet(Twice)
  BY <1>1, RowsAssumption, FS_Subset
<1>3. \A r \in Rows : At(r) \in Nat
  <2> TAKE r \in Rows
  <2>1. Front(listed, sortKey, list.order, r) \in SUBSET Rows
    BY DEF ListingTypeOK, Front
  <2>2. IsFiniteSet(Front(listed, sortKey, list.order, r))
    BY <2>1, RowsAssumption, FS_Subset
  <2> QED  BY <2>2, FS_CardinalityType DEF At, Place
<1> QED  BY <1>2, <1>3, FS_CardinalityType

LEMMA LatestIs ==
  ASSUME ListingTypeOK, Rows # {}
  PROVE  Latest \in Nat /\ \A r \in Rows : sortKey[r] <= Latest
<1> DEFINE Times == {sortKey[r] : r \in Rows}
<1>1. sortKey \in Surjection(Rows, Times)
  BY DEF ListingTypeOK, Surjection
<1>2. Times # {} /\ \A t \in Times : t \in Nat /\ t \in Int
  BY DEF ListingTypeOK
<1>3. \A r \in Rows : sortKey[r] \in Times
  OBVIOUS
<1>4. Latest = CHOOSE t \in Times : \A r \in Rows : sortKey[r] <= t
  BY DEF Latest
<1>5. \A t \in Times : \E r \in Rows : t = sortKey[r]
  OBVIOUS
<1> HIDE DEF Times
<1>6. IsFiniteSet(Times)
  BY <1>1, RowsAssumption, FS_Surjection
<1>7. \A t \in Times : t \in Int
  BY <1>2
<1>8. \E m \in Times : \A t \in Times : t <= m
  BY <1>2, <1>6, <1>7, FiniteSetHasMax
<1>9. \E m \in Times : \A r \in Rows : sortKey[r] <= m
  BY <1>3, <1>8
<1>10. Latest \in Times /\ \A r \in Rows : sortKey[r] <= Latest
  BY <1>4, <1>9
<1> QED  BY <1>2, <1>10

\* A page is served.
LEMMA AnswerKeeps ==
  ASSUME PagesInv, NEW rows, NEW more \in BOOLEAN, Answer(rows, more),
         rows = Slice(PageSize, Past) \/ (rows = {} /\ list.cut),
         ~more /\ ~list.cut => \A r \in listed : At(r) < Past + PageSize
  PROVE  PagesInv'
<1>1. /\ seen' = [r \in Rows |-> IF r \in rows THEN seen[r] + 1 ELSE seen[r]]
      /\ nextPage' = nextPage + 1 /\ reading' = more
      /\ UNCHANGED <<list, listed, sortKey, stayed, arrived, departed>>
  BY DEF Answer
<1>2. ListingTypeOK /\ Keyed(sortKey)
  BY DEF PagesInv
<1>3. ListingTypeOK' /\ Keyed(sortKey)'
  <2>1. ListingTypeOK'
    BY <1>1, <1>2 DEF ListingTypeOK
  <2> QED  BY <1>1, <1>2, <2>1 DEF Keyed
<1>4. Past \in Nat /\ Past' = Past + PageSize /\ PageSize \in Nat
  BY <1>1, <1>2, NextOffset, PageAssumption DEF ListingTypeOK, Past
<1>5. /\ listed \subseteq Rows /\ stayed \subseteq listed
      /\ \A r \in Rows : seen[r] \in Nat /\ seen'[r] = IF r \in rows THEN seen[r] + 1 ELSE seen[r]
      /\ \A r \in Rows : At(r) \in Nat
  BY <1>1, <1>2, PagesFinite DEF ListingTypeOK
<1>6. \A r : At(r)' = At(r)
  BY <1>1 DEF At
<1>7. rows \subseteq {r \in listed : At(r) >= Past /\ At(r) < Past + PageSize}
  BY SliceIs
<1>8. ASSUME ~list'.cut
      PROVE  Cardinality(Missed') <= departed'
  <2>1. rows = {r \in listed : At(r) >= Past /\ At(r) < Past + PageSize}
    BY <1>1, <1>8, SliceIs
  <2>2. Missed' \in SUBSET Missed
    BY <1>1, <1>4, <1>5, <1>6, <2>1 DEF Missed
  <2>3. IsFiniteSet(Missed) /\ IsFiniteSet(Missed')
    BY <1>2, <2>2, PagesFinite, FS_Subset
  <2>4. Cardinality(Missed) \in Nat /\ Cardinality(Missed') \in Nat
    BY <2>3, FS_CardinalityType
  <2>5. Cardinality(Missed') <= Cardinality(Missed)
    BY <1>2, <2>2, PagesFinite, FS_Subset
  <2>6. Cardinality(Missed) <= departed /\ departed' = departed
    BY <1>1, <1>8 DEF PagesInv
  <2> QED  BY <1>2, <2>4, <2>5, <2>6 DEF ListingTypeOK
<1>9. Cardinality(Twice') + Cardinality(Due') <= arrived'
  <2> DEFINE Again == Due \cap rows
             Later == Due \ rows
  <2>1. Twice' \in SUBSET (Twice \cup Again)
    BY <1>5, <1>7 DEF Twice, Due
  <2>2. Due' \in SUBSET Later
    BY <1>1, <1>4, <1>5, <1>6, <1>7 DEF Due
  <2>3. IsFiniteSet(Due) /\ IsFiniteSet(Twice)
    BY <1>2, PagesFinite
  <2>4. /\ IsFiniteSet(Later) /\ Cardinality(Later) = Cardinality(Due) - Cardinality(Again)
        /\ IsFiniteSet(Again)
    BY <2>3, FS_Difference, FS_Intersection
  <2> HIDE DEF Again, Later
  <2>5. /\ IsFiniteSet(Twice \cup Again) /\ IsFiniteSet(Twice \cap Again)
        /\ Cardinality(Twice \cup Again)
             = Cardinality(Twice) + Cardinality(Again) - Cardinality(Twice \cap Again)
    BY <2>3, <2>4, FS_Union, FS_Intersection
  <2>6. /\ IsFiniteSet(Twice') /\ Cardinality(Twice') <= Cardinality(Twice \cup Again)
        /\ IsFiniteSet(Due') /\ Cardinality(Due') <= Cardinality(Later)
    BY <2>1, <2>2, <2>4, <2>5, FS_Subset
  <2>7. /\ Cardinality(Twice) \in Nat /\ Cardinality(Again) \in Nat /\ Cardinality(Due) \in Nat
        /\ Cardinality(Twice \cap Again) \in Nat /\ Cardinality(Later) \in Nat
        /\ Cardinality(Twice') \in Nat /\ Cardinality(Due') \in Nat
        /\ Cardinality(Twice \cup Again) \in Nat
    BY <2>3, <2>4, <2>5, <2>6, FS_CardinalityType
  <2>8. Cardinality(Twice) + Cardinality(Due) <= arrived /\ arrived' = arrived /\ arrived \in Nat
    BY <1>1, <1>2 DEF PagesInv, ListingTypeOK
  <2> QED  BY <2>4, <2>5, <2>6, <2>7, <2>8
<1>10. ~reading' /\ ~list'.cut => \A r \in listed' : At(r)' < Past'
  BY <1>1, <1>4, <1>6
<1> QED  BY <1>3, <1>8, <1>9, <1>10 DEF PagesInv

\* The list changes while it is read.
LEMMA ChurnKeeps ==
  ASSUME PagesInv, ListingTypeOK', Keyed(sortKey'), NEW r \in Rows,
         UNCHANGED <<list, nextPage, seen>>, reading' = TRUE,
         listed \ {r} = listed' \ {r}, stayed' \subseteq stayed,
         \A s \in Rows \ {r} : sortKey'[s] = sortKey[s],
         \/ arrived' = arrived + 1 /\ departed' = departed + 1
         \/ arrived' = arrived + 1 /\ departed' = departed /\ r \notin listed
         \/ arrived' = arrived /\ departed' = departed + 1 /\ r \notin listed'
  PROVE  PagesInv'
<1>1. ListingTypeOK /\ Keyed(sortKey) /\ Past \in Nat /\ Past' = Past
  BY NextOffset DEF PagesInv, ListingTypeOK, Past
<1> DEFINE Unseen == {s \in stayed : seen[s] = 0}
           UnseenNow == {s \in stayed' : seen[s] = 0}
           Met == {s \in listed : seen[s] > 0}
           MetNow == {s \in listed' : seen[s] > 0}
<1>2. /\ Missed = Before(Past, Unseen, listed, sortKey, list.order)
      /\ Missed' = Before(Past, UnseenNow, listed', sortKey', list.order)
      /\ Due = Behind(Past, Met, listed, sortKey, list.order)
      /\ Due' = Behind(Past, MetNow, listed', sortKey', list.order)
      /\ Twice' = Twice
  BY <1>1 DEF Missed, Due, Twice, At, Before, Behind
<1>3. /\ listed \in SUBSET Rows /\ listed' \in SUBSET Rows
      /\ Unseen \in SUBSET listed /\ UnseenNow \in SUBSET Unseen /\ UnseenNow \subseteq listed'
      /\ Met \in SUBSET listed /\ MetNow \in SUBSET listed' /\ MetNow \ {r} \subseteq Met
  BY <1>1 DEF ListingTypeOK
<1> HIDE DEF Unseen, UnseenNow, Met, MetNow
<1>4. Cardinality(Missed') <= Cardinality(Missed) + 1
  <2>1. Cardinality(Before(Past, UnseenNow, listed', sortKey', list.order))
          <= Cardinality(Before(Past, Unseen, listed, sortKey, list.order)) + 1
    BY <1>1, <1>3, OneMoreBefore
  <2> QED  BY <1>2, <2>1
<1>5. Cardinality(Due') <= Cardinality(Due) + 1
  <2>1. Cardinality(Behind(Past, MetNow, listed', sortKey', list.order))
          <= Cardinality(Behind(Past, Met, listed, sortKey, list.order)) + 1
    BY <1>1, <1>3, OneMoreBehind
  <2> QED  BY <1>2, <2>1
<1>6. /\ IsFiniteSet(Missed) /\ IsFiniteSet(Due)
      /\ Cardinality(Missed) \in Nat /\ Cardinality(Due) \in Nat /\ Cardinality(Twice) \in Nat
  BY <1>1, PagesFinite
<1>7. /\ \A s \in listed : Place(listed, sortKey, list.order, s) \in Nat
      /\ \A s \in listed' : Place(listed', sortKey', list.order, s) \in Nat
  BY <1>1, <1>3, RowsInOrder
<1>8. ASSUME r \notin listed
      PROVE  Cardinality(Missed') <= Cardinality(Missed)
  <2>1. \A s \in UnseenNow :
          Place(listed, sortKey, list.order, s) <= Place(listed', sortKey', list.order, s)
    <3> TAKE s \in UnseenNow
    <3>1. s \in listed' \ {r} /\ s \in listed \ {r}
      BY <1>3, <1>8
    <3>2. r \notin Front(listed, sortKey, list.order, s)
      BY <1>8 DEF Front
    <3>3. listed' \ {r} = listed \ {r} /\ \A x \in Rows \ {r} : sortKey[x] = sortKey'[x]
      OBVIOUS
    <3>4. Place(listed, sortKey, list.order, s) > Place(listed', sortKey', list.order, s)
            => r \in Front(listed, sortKey, list.order, s)
      BY <1>1, <1>3, <3>1, <3>3, OneRowShifts
    <3> QED  BY <1>7, <3>1, <3>2, <3>4
  <2>2. Missed' \in SUBSET Missed
    <3>1. \A s \in UnseenNow : s \in listed /\ s \in listed' /\ s \in Unseen
      BY <1>3
    <3> QED  BY <1>1, <1>2, <1>7, <2>1, <3>1 DEF Before, Behind
  <2> QED  BY <1>6, <2>2, FS_Subset
<1>9. ASSUME r \notin listed'
      PROVE  Cardinality(Due') <= Cardinality(Due)
  <2>1. \A s \in MetNow :
          Place(listed', sortKey', list.order, s) <= Place(listed, sortKey, list.order, s)
    <3> TAKE s \in MetNow
    <3>1. s \in listed' \ {r} /\ s \in listed \ {r}
      BY <1>3, <1>9
    <3>2. r \notin Front(listed', sortKey', list.order, s)
      BY <1>9 DEF Front
    <3>3. Place(listed', sortKey', list.order, s) > Place(listed, sortKey, list.order, s)
            => r \in Front(listed', sortKey', list.order, s)
      BY <1>1, <1>3, <3>1, OneRowShifts
    <3> QED  BY <1>7, <3>1, <3>2, <3>3
  <2>2. Due' \in SUBSET Due
    <3>1. \A s \in MetNow : s \in listed /\ s \in listed' /\ s \in Met
      BY <1>3, <1>9
    <3> QED  BY <1>1, <1>2, <1>7, <2>1, <3>1 DEF Before, Behind
  <2> QED  BY <1>6, <2>2, FS_Subset
<1>10. /\ IsFiniteSet(Missed') /\ IsFiniteSet(Due')
       /\ Cardinality(Missed') \in Nat /\ Cardinality(Due') \in Nat
  <2>1. Missed' \in SUBSET Rows /\ Due' \in SUBSET Rows
    BY <1>2, <1>3 DEF Before, Behind
  <2>2. IsFiniteSet(Missed') /\ IsFiniteSet(Due')
    BY <2>1, RowsAssumption, FS_Subset
  <2> QED  BY <2>2, FS_CardinalityType
<1>11. arrived \in Nat /\ departed \in Nat
  BY <1>1 DEF ListingTypeOK
<1>12. ~list'.cut => Cardinality(Missed') <= departed'
  <2>1. ~list'.cut => Cardinality(Missed) <= departed
    BY DEF PagesInv
  <2> QED  BY <1>4, <1>6, <1>8, <1>10, <1>11, <2>1
<1>13. Cardinality(Twice') + Cardinality(Due') <= arrived'
  <2>1. Cardinality(Twice) + Cardinality(Due) <= arrived /\ Cardinality(Twice') = Cardinality(Twice)
    BY <1>2 DEF PagesInv
  <2> QED  BY <1>5, <1>6, <1>9, <1>10, <1>11, <2>1
<1> QED  BY <1>12, <1>13 DEF PagesInv

LEMMA InitPages == InitListing => PagesInv
<1> SUFFICES ASSUME InitListing PROVE PagesInv
  OBVIOUS
<1>1. ListingTypeOK
  BY ListsAssumption, RowsAssumption DEF InitListing, ListingTypeOK
<1>2. Keyed(sortKey)
  BY RowsAssumption DEF InitListing, Keyed
<1>3. Past = 0
  BY PageAssumption DEF InitListing, Past, Offset
<1>4. Missed = {} /\ Due = {} /\ Twice = {}
  <2>1. \A r \in Rows : At(r) \in Nat
    BY <1>1, PagesFinite
  <2>2. Missed = {}
    BY <1>1, <1>3, <2>1 DEF Missed, ListingTypeOK
  <2>3. Due = {} /\ Twice = {}
    <3>1. \A r \in Rows : seen[r] = 0
      BY DEF InitListing
    <3>2. listed \subseteq Rows
      BY <1>1 DEF ListingTypeOK
    <3> QED  BY <3>1, <3>2 DEF Due, Twice
  <2> QED  BY <2>2, <2>3
<1>5. Cardinality(Missed) = 0 /\ Cardinality(Due) = 0 /\ Cardinality(Twice) = 0
  BY <1>4, FS_EmptySet
<1> QED  BY <1>1, <1>2, <1>5 DEF InitListing, PagesInv

LEMMA ServePageKeeps ==
  ASSUME PagesInv, NEW lists, ServePage(lists)
  PROVE  PagesInv'
<1> DEFINE fetched == Slice(PageSize + 1, Past)
           page == Slice(PageSize, Past)
<1>1. Answer(fetched \cap page, HasMore(fetched))
  BY DEF ServePage, Past
<1>2. ListingTypeOK /\ Keyed(sortKey) /\ Past \in Nat /\ PageSize \in Nat
  BY NextOffset, PageAssumption DEF PagesInv, ListingTypeOK, Past
<1>3. fetched \cap page = page
  <2>1. \A r \in listed : At(r) \in Nat
    BY <1>2, PagesFinite DEF ListingTypeOK
  <2>2. \A r : At(r) = Cardinality(Ahead(r))
    BY DEF At, Place, Front, Ahead
  <2> QED  BY <1>2, <2>1, <2>2 DEF Slice
<1>4. ASSUME ~HasMore(fetched)
      PROVE  \A r \in listed : At(r) < Past + PageSize
  <2>1. fetched = {r \in listed : Place(listed, sortKey, list.order, r) >= Past
                               /\ Place(listed, sortKey, list.order, r) < Past + PageSize + 1}
    <3>1. Past + (PageSize + 1) = Past + PageSize + 1
      BY <1>2
    <3> QED  BY <3>1 DEF Slice, Ahead, Place, Front
  <2>2. fetched \in SUBSET Rows
    BY <1>2, <2>1 DEF ListingTypeOK
  <2> HIDE DEF fetched
  <2>3. Cardinality(fetched) \in Nat
    BY <2>2, RowsAssumption, FS_Subset, FS_CardinalityType
  <2>4. Cardinality(fetched) <= PageSize
    BY <1>2, <1>4, <2>3 DEF HasMore
  <2>5. listed \in SUBSET Rows
    BY <1>2 DEF ListingTypeOK
  <2>6. \A r \in listed : Place(listed, sortKey, list.order, r) < Past + PageSize
    BY <1>2, <2>1, <2>4, <2>5, LastPage
  <2> QED  BY <2>6 DEF At
<1>5. HasMore(fetched) \in BOOLEAN
  BY DEF HasMore
<1> HIDE DEF fetched
<1> QED  BY <1>1, <1>3, <1>4, <1>5, AnswerKeeps

LEMMA ServeSliceKeeps ==
  ASSUME PagesInv, NEW lists, ServeSlice(lists)
  PROVE  PagesInv'
<1> DEFINE page == Slice(PageSize, Past)
<1>1. Answer(page, page # {})
  BY DEF ServeSlice, Past
<1>2. ListingTypeOK /\ Keyed(sortKey) /\ Past \in Nat /\ PageSize \in Nat \ {0}
  BY NextOffset, PageAssumption DEF PagesInv, ListingTypeOK, Past
<1>3. ASSUME page = {}
      PROVE  \A r \in listed : At(r) < Past + PageSize
  <2> DEFINE first == {r \in listed : Place(listed, sortKey, list.order, r) >= Past
                                   /\ Place(listed, sortKey, list.order, r) < Past + 0 + 1}
  <2>1. \A r \in listed : At(r) \in Nat
    BY <1>2, PagesFinite DEF ListingTypeOK
  <2>2. first = {}
    BY <1>2, <1>3, <2>1, SliceIs DEF At
  <2>3. Cardinality(first) <= 0
    BY <2>2, FS_EmptySet
  <2>4. listed \in SUBSET Rows
    BY <1>2 DEF ListingTypeOK
  <2>5. \A r \in listed : Place(listed, sortKey, list.order, r) < Past + 0
    BY <1>2, <2>3, <2>4, LastPage
  <2> QED  BY <1>2, <2>1, <2>5 DEF At
<1> HIDE DEF page
<1>4. (page # {}) \in BOOLEAN /\ page = Slice(PageSize, Past)
  BY DEF page
<1> QED  BY <1>1, <1>3, <1>4, AnswerKeeps

LEMMA InvoicesKeep == PagesInv /\ RiderInvoices => PagesInv'
<1> SUFFICES ASSUME PagesInv, RiderInvoices PROVE PagesInv'
  OBVIOUS
<1> DEFINE fetched == Slice(PageSize * nextPage, 0)
           page == IF Past > Cardinality(fetched) THEN {}
                   ELSE {r \in fetched : Cardinality(Ahead(r)) >= Past}
           end == Past + Cardinality(page)
<1>1. list.cut /\ Answer(page, end < Cardinality(page))
  BY DEF RiderInvoices, Past
<1>2. ListingTypeOK /\ Past \in Nat /\ PageSize \in Nat
  BY NextOffset, PageAssumption DEF PagesInv, ListingTypeOK, Past
<1>3. PageSize * nextPage = Past + PageSize
  <2>1. PICK q \in Nat : nextPage = q + 1
    <3>1. nextPage - 1 \in Nat /\ nextPage = (nextPage - 1) + 1
      BY <1>2 DEF ListingTypeOK
    <3> QED  BY <3>1
  <2>2. Past = q * PageSize
    <3>1. nextPage - 1 = q
      BY <2>1
    <3> QED  BY <3>1 DEF Past, Offset
  <2>3. PageSize * (q + 1) = q * PageSize + PageSize
    BY <1>2
  <2> QED  BY <2>1, <2>2, <2>3
<1>4. fetched = {r \in listed : At(r) < Past + PageSize}
  <2>1. \A r \in listed : At(r) \in Nat
    BY <1>2, PagesFinite DEF ListingTypeOK
  <2>2. \A r : At(r) = Cardinality(Ahead(r))
    BY DEF At, Place, Front, Ahead
  <2> QED  BY <1>2, <1>3, <2>1, <2>2 DEF Slice
<1>5. page = {} \/ page = Slice(PageSize, Past)
  <2>1. \A r : At(r) = Cardinality(Ahead(r))
    BY DEF At, Place, Front, Ahead
  <2>2. {r \in fetched : Cardinality(Ahead(r)) >= Past} = Slice(PageSize, Past)
    BY <1>4, <2>1, SliceIs
  <2> QED  BY <2>2
<1>6. (end < Cardinality(page)) \in BOOLEAN
  OBVIOUS
<1> HIDE DEF page, end
<1> QED  BY <1>1, <1>5, <1>6, AnswerKeeps

LEMMA PagesInvKept == PagesInv /\ [NextListing]_listingVars => PagesInv'
<1> SUFFICES ASSUME PagesInv, [NextListing]_listingVars PROVE PagesInv'
  OBVIOUS
<1>1. ListingTypeOK /\ Keyed(sortKey)
  BY DEF PagesInv
<1>2. CASE ServeOne
  <2>1. (\E lists : ServePage(lists)) \/ (\E lists : ServeSlice(lists)) \/ RiderInvoices
    BY <1>2 DEF ServeOne, RideList, Open, Offers, RideEvents, RiderRides, DriverTransactions,
       AdminUsers, AdminRides, AdminPayments, ListKYC, ListAccounts, ListMembers,
       PendingAuthorizations, Notifications, ListMySupportTickets, RiderSupportTickets,
       AdminSupportTickets, AdminDisputes, DriverPayouts, AdminPayoutQueue, WalletTransactions
  <2> QED  BY <2>1, ServePageKeeps, ServeSliceKeeps, InvoicesKeep
<1>3. ASSUME NEW r \in Rows, Enter(r)
      PROVE  PagesInv'
  <2>1. /\ reading' = TRUE /\ r \notin listed /\ listed' = listed \cup {r} /\ arrived' = arrived + 1
        /\ UNCHANGED <<list, sortKey, nextPage, reading, seen, stayed, departed>>
    BY <1>3 DEF Enter, Churns
  <2>2. ListingTypeOK'
    BY <1>1, <2>1 DEF ListingTypeOK
  <2>3. Keyed(sortKey')
    BY <1>1, <2>1
  <2>4. listed \ {r} = listed' \ {r} /\ stayed' \subseteq stayed
    BY <2>1
  <2> QED  BY <2>1, <2>2, <2>3, <2>4, ChurnKeeps
<1>4. ASSUME NEW r \in Rows, Leave(r)
      PROVE  PagesInv'
  <2>1. /\ reading' = TRUE /\ listed' = listed \ {r} /\ stayed' = stayed \ {r}
        /\ departed' = departed + 1
        /\ UNCHANGED <<list, sortKey, nextPage, reading, seen, arrived>>
    BY <1>4 DEF Leave, Churns
  <2>2. ListingTypeOK'
    BY <1>1, <2>1 DEF ListingTypeOK
  <2>3. Keyed(sortKey')
    BY <1>1, <2>1
  <2>4. listed \ {r} = listed' \ {r} /\ stayed' \subseteq stayed /\ r \notin listed'
    BY <2>1
  <2> QED  BY <2>1, <2>2, <2>3, <2>4, ChurnKeeps
<1>5. ASSUME NEW r \in Rows, Move(r)
      PROVE  PagesInv'
  <2>1. /\ reading' = TRUE /\ sortKey' = [sortKey EXCEPT ![r] = Latest + 1]
        /\ arrived' = arrived + 1 /\ departed' = departed + 1
        /\ UNCHANGED <<list, listed, nextPage, reading, seen, stayed>>
    BY <1>5 DEF Move, Churns
  <2>2. Latest \in Nat /\ \A s \in Rows : sortKey[s] <= Latest
    BY <1>1, LatestIs
  <2>3. sortKey \in [Rows -> Nat]
    BY <1>1 DEF ListingTypeOK
  <2>4. ListingTypeOK'
    BY <1>1, <2>1, <2>2 DEF ListingTypeOK
  <2>5. Keyed(sortKey') /\ \A s \in Rows \ {r} : sortKey'[s] = sortKey[s]
    BY <1>1, <2>1, <2>2, <2>3 DEF Keyed
  <2>6. listed \ {r} = listed' \ {r} /\ stayed' \subseteq stayed
    BY <2>1
  <2> QED  BY <2>1, <2>4, <2>5, <2>6, ChurnKeeps
<1>6. CASE UNCHANGED listingVars
  <2>1. /\ Missed' = Missed /\ Due' = Due /\ Twice' = Twice /\ Past' = Past
        /\ UNCHANGED <<list, listed, sortKey, nextPage, reading, seen, stayed, arrived, departed>>
    BY <1>6 DEF listingVars, Missed, Due, Twice, Past, At
  <2>2. ListingTypeOK' /\ Keyed(sortKey)'
    BY <1>1, <2>1 DEF ListingTypeOK, Keyed
  <2>3. \A r : At(r)' = At(r)
    BY <2>1 DEF At
  <2> QED  BY <2>1, <2>2, <2>3 DEF PagesInv
<1> QED  BY <1>2, <1>3, <1>4, <1>5, <1>6 DEF NextListing

LEMMA PagesInvBounds == PagesInv => PagesBounded
<1> SUFFICES ASSUME PagesInv PROVE PagesBounded
  OBVIOUS
<1>1. ListingTypeOK
  BY DEF PagesInv
<1>2. ASSUME ~reading, ~list.cut
      PROVE  Cardinality({r \in stayed : seen[r] = 0}) <= departed
  <2>1. {r \in stayed : seen[r] = 0} = Missed
    BY <1>1, <1>2 DEF PagesInv, Missed, ListingTypeOK
  <2> QED  BY <1>2, <2>1 DEF PagesInv
<1>3. Cardinality(Twice) <= arrived
  <2>1. Cardinality(Twice) \in Nat /\ Cardinality(Due) \in Nat /\ arrived \in Nat
    BY <1>1, PagesFinite DEF ListingTypeOK
  <2> QED  BY <2>1 DEF PagesInv
<1> QED  BY <1>2, <1>3 DEF PagesBounded, Twice

\* The types of Listings hold in every reachable state.
LEMMA ListingTyped == SpecListing => []ListingTypeOK
<1>1. PagesInv => ListingTypeOK
  BY DEF PagesInv
<1> QED  BY <1>1, InitPages, PagesInvKept, PTL DEF SpecListing

(* Whatever the list, its size and that of its pages, and however often it   *)
(* changes meanwhile: a reader who is told to stop has missed at most one   *)
(* row that stayed for each row that left or moved, and has met at most one *)
(* twice for each that came or moved (the LIMIT/OFFSET lists of             *)
(* support/handler.go:169, rides/handler.go:335 and the others).            *)
THEOREM PagesStayBounded == SpecListing => []PagesBounded
<1> QED  BY InitPages, PagesInvKept, PagesInvBounds, PTL DEF SpecListing

-----------------------------------------------------------------------------
(* Drivers' profiles.                                                      *)

LEMMA ProfileTypeKept == ProfileTypeOK /\ [NextProfiles]_profileVars => ProfileTypeOK'
<1> SUFFICES ASSUME ProfileTypeOK, [NextProfiles]_profileVars PROVE ProfileTypeOK'
  OBVIOUS
<1>1. ASSUME NEW d \in Chauffeurs, NEW p \in Profile,
             ~PlateInUse(d, p.plate), profile' = [profile EXCEPT ![d] = p], UNCHANGED <<day, ping>>
      PROVE  ProfileTypeOK'
  <2>1. \A e \in Chauffeurs \ {d} : profile'[e] = profile[e]
    BY <1>1 DEF ProfileTypeOK
  <2>2. profile'[d] = p /\ profile' \in [Chauffeurs -> Profile \cup {NoProfile}]
    BY <1>1 DEF ProfileTypeOK
  <2>3. \A e \in Chauffeurs \ {d} : profile[e] # NoProfile => profile[e].plate # p.plate
    BY <1>1 DEF PlateInUse
  <2> QED  BY <1>1, <2>1, <2>2, <2>3 DEF ProfileTypeOK
<1>2. ASSUME NEW d \in Chauffeurs, CreateVehicleProfile(d) \/ UpdateVehicleProfile(d)
      PROVE  ProfileTypeOK'
  BY <1>1, <1>2 DEF CreateVehicleProfile, UpdateVehicleProfile, CreateDriverVehicleProfile,
     UpdateDriverVehicleProfile, ParseVehicleProfileRequest
<1>3. ASSUME NEW d \in Chauffeurs, UpdateLocation(d) \/ PingAges(d)
      PROVE  ProfileTypeOK'
  BY <1>3 DEF UpdateLocation, UpsertDriverLocation, PingAges, ProfileTypeOK
<1>4. CASE DeleteStaleDriverLocations
  BY <1>4 DEF DeleteStaleDriverLocations, ProfileTypeOK
<1>5. CASE Tomorrow
  BY <1>5, DaysAssumption DEF Tomorrow, ProfileTypeOK, Days
<1>6. CASE UNCHANGED profileVars
  BY <1>6 DEF profileVars, ProfileTypeOK
<1> QED  BY <1>2, <1>3, <1>4, <1>5, <1>6 DEF NextProfiles

\* The types of DriverProfiles, the UNIQUE license_plate among them.
LEMMA ProfilesTyped == SpecProfiles => []ProfileTypeOK
<1>1. InitProfiles => ProfileTypeOK
  BY DaysAssumption DEF InitProfiles, ProfileTypeOK, Days
<1> QED  BY <1>1, ProfileTypeKept, PTL DEF SpecProfiles

-----------------------------------------------------------------------------
(* All of them.  A step of the services is a step of each component or      *)
(* leaves it alone, so that what holds of a component holds of it here.    *)

LEMMA EachStarts ==
  InitServices =>
    /\ InitListing /\ InitTransfers /\ InitReviews /\ InitCases /\ InitBusiness /\ InitPromotions
    /\ InitNotices /\ InitRates /\ InitZones /\ InitStatus /\ InitFees
    /\ InitBilling /\ InitWallets /\ InitProfiles
  BY DEF InitServices

LEMMA EachMoves ==
  [NextServices]_serviceVars =>
    /\ [NextListing]_listingVars /\ [NextTransfers]_transferVars /\ [NextReviews]_reviewVars
    /\ [NextCases]_caseVars /\ [NextBusiness]_businessVars /\ [NextPromotions]_promoVars
    /\ [NextNotices]_noticeVars /\ [NextRates]_rateVars /\ [NextZones]_zoneVars
    /\ [NextStatus]_statusVars /\ [NextFees]_feeVars /\ [NextBilling]_billingVars
    /\ [NextWallets]_walletVars /\ [NextProfiles]_profileVars
<1> SUFFICES ASSUME [NextServices]_serviceVars
    PROVE  /\ [NextListing]_listingVars /\ [NextTransfers]_transferVars /\ [NextReviews]_reviewVars
           /\ [NextCases]_caseVars /\ [NextBusiness]_businessVars /\ [NextPromotions]_promoVars
           /\ [NextNotices]_noticeVars /\ [NextRates]_rateVars /\ [NextZones]_zoneVars
           /\ [NextStatus]_statusVars /\ [NextFees]_feeVars /\ [NextBilling]_billingVars
           /\ [NextWallets]_walletVars /\ [NextProfiles]_profileVars
  OBVIOUS
<1>1. CASE NextServices
  BY <1>1 DEF NextServices
<1>2. CASE UNCHANGED serviceVars
  BY <1>2 DEF serviceVars
<1> QED  BY <1>1, <1>2

(* A behaviour of the services is a behaviour of every component: they      *)
(* share no state, whichever desk is open.                                 *)
THEOREM ServicesAreEach ==
  SpecServices =>
    /\ SpecListing /\ SpecTransfers /\ SpecReviews /\ SpecCases /\ SpecBusiness /\ SpecPromotions
    /\ SpecNotices /\ SpecRates /\ SpecZones /\ SpecStatus /\ SpecFees
    /\ SpecBilling /\ SpecWallets /\ SpecProfiles
<1> QED  BY EachStarts, EachMoves, PTL
   DEF SpecServices, SpecListing, SpecTransfers, SpecReviews, SpecCases, SpecBusiness, SpecPromotions,
       SpecNotices, SpecRates, SpecZones, SpecStatus, SpecFees, SpecBilling, SpecWallets, SpecProfiles

(* Every row, counter and call frame of every small component keeps its    *)
(* type, for all constants.                                                *)
THEOREM ServicesTyped == SpecServices => []TypesOK
<1>1. SpecReviews => []ReviewTypeOK
  <2>1. ReviewInv => ReviewTypeOK
    BY DEF ReviewInv
  <2> QED  BY <2>1, InitReviewInv, ReviewInvKept, PTL DEF SpecReviews
<1>2. SpecCases => []CaseTypeOK
  <2>1. CaseInv => CaseTypeOK
    BY DEF CaseInv
  <2> QED  BY <2>1, InitCaseInv, CaseInvKept, PTL DEF SpecCases
<1>3. SpecNotices => []NoticeTypeOK
  <2>1. NoticeInv => NoticeTypeOK
    BY DEF NoticeInv
  <2> QED  BY <2>1, InitNoticeInv, NoticeInvKept, PTL DEF SpecNotices
<1>4. SpecRates => []RateTypeOK
  <2>1. RatesInv => RateTypeOK
    BY DEF RatesInv
  <2> QED  BY <2>1, InitRatesInv, RatesInvKept, PTL DEF SpecRates
<1>5. SpecZones => []ZoneTypeOK
  <2>1. ZoneInv => ZoneTypeOK
    BY DEF ZoneInv
  <2> QED  BY <2>1, InitZoneInv, ZoneInvKept, PTL DEF SpecZones
<1>6. SpecStatus => []StatusTypeOK
  <2>1. StatusInv => StatusTypeOK
    BY DEF StatusInv
  <2> QED  BY <2>1, InitStatusInv, StatusInvKept, PTL DEF SpecStatus
<1>7. SpecWallets => []WalletTypeOK
  <2>1. WalletInv => WalletTypeOK
    BY DEF WalletInv
  <2> QED  BY <2>1, WalletInvHolds, PTL
<1>8. SpecServices => [](ListingTypeOK /\ TransferTypeOK /\ ReviewTypeOK /\ CaseTypeOK /\ BusinessTypeOK)
  BY <1>1, <1>2, ServicesAreEach, ListingTyped, TransfersTyped, BusinessTyped, PTL
<1>9. SpecServices => [](PromoTypeOK /\ NoticeTypeOK /\ RateTypeOK /\ ZoneTypeOK /\ StatusTypeOK)
  BY <1>3, <1>4, <1>5, <1>6, ServicesAreEach, PromosTyped, PTL
<1>10. SpecServices => [](FeeTypeOK /\ BillingTypeOK /\ WalletTypeOK /\ ProfileTypeOK)
  BY <1>7, ServicesAreEach, FeesTyped, BillingTyped, ProfilesTyped, PTL
<1>11. (/\ ListingTypeOK /\ TransferTypeOK /\ ReviewTypeOK /\ CaseTypeOK /\ BusinessTypeOK)
       /\ (PromoTypeOK /\ NoticeTypeOK /\ RateTypeOK /\ ZoneTypeOK /\ StatusTypeOK)
       /\ (FeeTypeOK /\ BillingTypeOK /\ WalletTypeOK /\ ProfileTypeOK) => TypesOK
  BY DEF TypesOK
<1> QED  BY <1>8, <1>9, <1>10, <1>11, PTL
=============================================================================
