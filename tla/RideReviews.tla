----------------------------- MODULE RideReviews -----------------------------
(***************************************************************************)
(* Reviews of completed rides (internal/support, CreateReview).  The call  *)
(* is three single statements without a transaction: insert the review,    *)
(* refresh the rating of the reviewed user, insert the audit event.  It    *)
(* may end after any of them with an error to the caller.                  *)
(*                                                                         *)
(* RefreshUserRating computes AVG over ride_reviews in a subquery of an    *)
(* UPDATE: it sees the reviews committed when the statement starts, and    *)
(* stores their average when it gets the user's row, which another refresh *)
(* may hold.  (READ COMMITTED re-reads the locked row, not the subquery.)  *)
(*                                                                         *)
(* Abstracted: an average is the set of reviews it was computed from; the  *)
(* read of the ride that only authorizes, since the INSERT repeats what it *)
(* decides; the comment.                                                   *)
(***************************************************************************)
EXTENDS Naturals

CONSTANTS
  ReviewedRides,   \* rides of the instance: of one driver, each of another rider
  ReviewCalls      \* calls that may be between two statements

ASSUME ReviewAssumption == "driver" \notin ReviewedRides

VARIABLES
  finished,   \* rides with status 'completed'
  reviews,    \* rows of ride_reviews
  rated,      \* users.rating: the reviews it is the average of
  unrated,    \* reviews whose caller was told that the rating was not refreshed
  overlapped, \* users for whom two refreshes have run at once
  noted,      \* reviews with their 'review_created' event
  reviewer    \* calls between two statements

reviewVars == <<finished, reviews, rated, unrated, overlapped, noted, reviewer>>

Review == [ride : ReviewedRides, by : {"rider", "driver"}]
User   == ReviewedRides \cup {"driver"}   \* the rider of a ride by its ride

Reviewee(v) == IF v.by = "rider" THEN "driver" ELSE v.ride

NoReview == [at |-> "none"]
ReviewCall ==
  [at : {"refresh", "audit"}, review : Review]
    \cup [at : {"store"}, review : Review, average : SUBSET Review]

ReviewTypeOK ==
  /\ finished \subseteq ReviewedRides
  /\ reviews \subseteq Review /\ unrated \subseteq Review /\ noted \subseteq Review
  /\ rated \in [User -> SUBSET Review]
  /\ overlapped \subseteq User
  /\ reviewer \in [ReviewCalls -> ReviewCall \cup {NoReview}]

InitReviews ==
  /\ finished = {} /\ reviews = {} /\ unrated = {} /\ overlapped = {} /\ noted = {}
  /\ rated = [u \in User |-> {}]
  /\ reviewer = [c \in ReviewCalls |-> NoReview]

-----------------------------------------------------------------------------
\* The rides component; `completed` is what a review asks for.
FinishRide(r) ==
  /\ finished' = finished \cup {r}
  /\ UNCHANGED <<reviews, rated, unrated, overlapped, noted, reviewer>>

\* ON CONFLICT (ride_id, reviewer_id) DO NOTHING.
CreateRideReview(v) ==
  /\ v.ride \in finished /\ v \notin reviews
  /\ reviews' = reviews \cup {v}

CreateReview(c, v) ==
  /\ reviewer[c] = NoReview
  /\ CreateRideReview(v)
  /\ reviewer' = [reviewer EXCEPT ![c] = [at |-> "refresh", review |-> v]]
  /\ UNCHANGED <<finished, rated, unrated, overlapped, noted>>

\* The reviews the reviewed user wrote.
MutAverage(v) == {w \in reviews : w.by # v.by}

\* SELECT AVG(rating) ... WHERE reviewee_id = $1
Average(v) == {w \in reviews : Reviewee(w) = Reviewee(v)}

\* The UPDATE starts: its subquery sees what is committed now.
BeginRefresh(c) ==
  /\ reviewer[c].at = "refresh"
  /\ LET v == reviewer[c].review
         others == {d \in ReviewCalls :
                      reviewer[d].at = "store" /\ Reviewee(reviewer[d].review) = Reviewee(v)}
     IN /\ reviewer' = [reviewer EXCEPT ![c] =
             [at |-> "store", review |-> v, average |-> Average(v)]]
        /\ overlapped' = IF others = {} THEN overlapped ELSE overlapped \cup {Reviewee(v)}
  /\ UNCHANGED <<finished, reviews, rated, unrated, noted>>

\* The UPDATE has the user's row.
RefreshUserRating(c) ==
  /\ reviewer[c].at = "store"
  /\ LET v == reviewer[c].review
     IN /\ rated' = [rated EXCEPT ![Reviewee(v)] = reviewer[c].average]
        /\ reviewer' = [reviewer EXCEPT ![c] = [at |-> "audit", review |-> v]]
  /\ UNCHANGED <<finished, reviews, unrated, overlapped, noted>>

NoteReview(c) ==
  /\ reviewer[c].at = "audit"
  /\ noted' = noted \cup {reviewer[c].review}
  /\ reviewer' = [reviewer EXCEPT ![c] = NoReview]
  /\ UNCHANGED <<finished, reviews, rated, unrated, overlapped>>

\* A statement fails, or the process stops: no later statement of the call runs.
FailReview(c) ==
  /\ reviewer[c] # NoReview
  /\ unrated' = unrated \cup {v \in {reviewer[c].review} : reviewer[c].at # "audit"}
  /\ reviewer' = [reviewer EXCEPT ![c] = NoReview]
  /\ UNCHANGED <<finished, reviews, rated, overlapped, noted>>

NextReviews ==
  \/ \E r \in ReviewedRides : FinishRide(r)
  \/ \E c \in ReviewCalls :
       \/ \E v \in Review : CreateReview(c, v)
       \/ BeginRefresh(c) \/ RefreshUserRating(c) \/ NoteReview(c) \/ FailReview(c)

SpecReviews == InitReviews /\ [][NextReviews]_reviewVars

-----------------------------------------------------------------------------
(* A review is missing from its user's rating only while its own call has  *)
(* still to refresh it, or has failed to and said so, or when two          *)
(* refreshes of that user have overlapped: support/handler.go:82 and 94    *)
(* are two statements, and the second averages what it saw at its start.   *)
RatingComplete ==
  \A v \in reviews :
    \/ v \in rated[Reviewee(v)]
    \/ \E c \in ReviewCalls : reviewer[c].at \in {"refresh", "store"} /\ reviewer[c].review = v
    \/ v \in unrated
    \/ Reviewee(v) \in overlapped
=============================================================================
