--------------------------------- MODULE Intake ---------------------------------
(***************************************************************************)
(* Webhook intake: handleIssueComment of src/internal/server/webhook.go    *)
(* and the transactions it ends in, CreateReviewWithAdmission and          *)
(* CreateNudgeOnce of src/internal/store/reviews.go.                       *)
(*                                                                         *)
(* A request is three steps.  The gate reads who the sender is, the        *)
(* timestamp of the new row is taken, and the transaction commits or       *)
(* fails; users, other requests and the engine move in between.  The       *)
(* marker of the delivery is the transaction's first write, so that two    *)
(* of them are serialized from there on.  The row of the nudge a request   *)
(* may end in is the subject of NudgeOutbox and is not kept here.          *)
(***************************************************************************)
EXTENDS Naturals, Sequences, FiniteSets

CONSTANTS
  Users, Repos,
  Pulls, RepoOf,              \* RepoOf[p]: the repository of pull request p
  Comments, Author, PullOf,   \* the sender and the pull request of a comment
  Deliveries, CommentOf,      \* the comment an X-GitHub-Delivery is about
  Requests,                   \* bound: webhook requests served at a time
  UserPerHour, RepoPerHour, MaxActive,
  Hour, Retention,            \* the quota's hour, deliveryRetention
  MaxTime                     \* bound: readings of the clock

ASSUME IntakeAssumption ==
  /\ RepoOf \in [Pulls -> Repos]
  /\ Author \in [Comments -> Users] /\ PullOf \in [Comments -> Pulls]
  /\ CommentOf \in [Deliveries -> Comments]
  /\ {UserPerHour, RepoPerHour, MaxActive} \subseteq Nat \ {0}
  /\ {Hour, Retention, MaxTime} \subseteq Nat

VARIABLES
  clock,
  entitled,   \* the registered users the configuration lets request a review
  marker,     \* marker[d]: created_at in webhook_deliveries, 0 if absent
  reviews,    \* the rows of reviews, in the order of their creation
  request,    \* request[r]: what request handler r is doing
  decided     \* decided[d]: stamp of the last decision on d (history variable)

vars == <<clock, entitled, marker, reviews, request, decided>>

Verdicts == {"nudge", "review"}

Row == [trigger : Comments, status : {"active", "reconciliation_required", "closed"}, created : Nat]

Idle == [pc |-> "idle"]

Handling == [pc : {"gated"}, about : Deliveries, verdict : Verdicts]
            \cup [pc : {"stamped"}, about : Deliveries, verdict : Verdicts, at : Nat \ {0}]

TypeOK ==
  /\ clock \in Nat \ {0}
  /\ entitled \subseteq Users
  /\ marker \in [Deliveries -> Nat]
  /\ reviews \in Seq(Row)
  /\ request \in [Requests -> Handling \cup {Idle}]
  /\ decided \in [Deliveries -> Nat]

Init ==
  /\ clock = 1
  /\ entitled \in SUBSET Users
  /\ marker = [d \in Deliveries |-> 0]
  /\ reviews = <<>>
  /\ request = [r \in Requests |-> Idle]
  /\ decided = [d \in Deliveries |-> 0]

(***************************************************************************)
(* What the indexes and the admission limits ask of the reviews table.     *)
(***************************************************************************)

Active(row) == row.status # "closed"

RowUser(row) == Author[row.trigger]
RowPull(row) == PullOf[row.trigger]
RowRepo(row) == RepoOf[RowPull(row)]

(* created_at >= now - 1h                                                  *)
Recent(row) == row.created + Hour >= clock

(* countReviewsSince                                                       *)
OfUser(u) == {i \in DOMAIN reviews : RowUser(reviews[i]) = u /\ Recent(reviews[i])}
OfRepo(p) == {i \in DOMAIN reviews : RowRepo(reviews[i]) = p /\ Recent(reviews[i])}

ActiveReviews == {i \in DOMAIN reviews : Active(reviews[i])}

(* Mutant: only unfinished reviews count against the quota.                *)
WithinActiveQuota(c) ==
  /\ Cardinality(OfUser(Author[c]) \cap ActiveReviews) < UserPerHour
  /\ Cardinality(OfRepo(RepoOf[PullOf[c]]) \cap ActiveReviews) < RepoPerHour

WithinQuota(c) ==
  /\ Cardinality(OfUser(Author[c])) < UserPerHour
  /\ Cardinality(OfRepo(RepoOf[PullOf[c]])) < RepoPerHour

(* Mutant: a quarantined review takes no place in the queue.               *)
QueueHasRoomBesides(c) ==
  Cardinality({i \in DOMAIN reviews : reviews[i].status = "active"}) < MaxActive

QueueHasRoom(c) == Cardinality(ActiveReviews) < MaxActive

(* Mutant: the trigger of a closed review may be used again.               *)
TriggerFreeAgain(c) == \A i \in ActiveReviews : reviews[i].trigger # c

(* idx_reviews_one_trigger_event                                           *)
TriggerFree(c) == \A i \in DOMAIN reviews : reviews[i].trigger # c

(* idx_reviews_one_active_per_pr                                           *)
PullFree(c) == \A i \in ActiveReviews : RowPull(reviews[i]) # PullOf[c]

Admissible(c) == WithinQuota(c) /\ QueueHasRoom(c) /\ TriggerFree(c) /\ PullFree(c)

(***************************************************************************)
(* A webhook request.                                                      *)
(***************************************************************************)

(* GitHub delivers, or delivers again, now or much later.  A comment of a  *)
(* person that mentions the bot gets here, and the handler looks its       *)
(* sender up in the users table and the configuration.                     *)
Gate(r, d) ==
  /\ request[r].pc = "idle"
  /\ LET verdict == IF Author[CommentOf[d]] \in entitled THEN "review" ELSE "nudge"
     IN request' = [request EXCEPT ![r] = [pc |-> "gated", about |-> d, verdict |-> verdict]]
  /\ UNCHANGED <<clock, entitled, marker, reviews, decided>>

(* now(), before the transaction's first write has the database lock.      *)
Stamp(r) ==
  /\ request[r].pc = "gated"
  /\ request' = [request EXCEPT ![r] = [pc |-> "stamped", about |-> request[r].about,
                                        verdict |-> request[r].verdict, at |-> clock]]
  /\ UNCHANGED <<clock, entitled, marker, reviews, decided>>

(* claimDelivery                                                           *)
DeliveryNew(d) == marker[d] = 0

(* Mutant: the marker is rolled back with a refusal.                       *)
ClaimAdmitted(r) ==
  LET d == request[r].about
  IN /\ marker' = IF request[r].verdict = "review" /\ ~Admissible(CommentOf[d])
                  THEN marker ELSE [marker EXCEPT ![d] = request[r].at]
     /\ decided' = [decided EXCEPT ![d] = request[r].at]

ClaimDelivery(r) ==
  LET d == request[r].about
  IN /\ marker' = [marker EXCEPT ![d] = request[r].at]
     /\ decided' = [decided EXCEPT ![d] = request[r].at]

(* The answer is sent; the request is over.                                *)
Answer(r) == request' = [request EXCEPT ![r] = Idle]

AnswerDuplicate(r) ==
  /\ request[r].pc = "stamped"
  /\ ~DeliveryNew(request[r].about)
  /\ Answer(r)
  /\ UNCHANGED <<clock, entitled, marker, reviews, decided>>

(* CreateReviewWithAdmission.  A refusal keeps the marker.                 *)
CreateReview(r) ==
  /\ request[r].pc = "stamped" /\ request[r].verdict = "review"
  /\ DeliveryNew(request[r].about)
  /\ ClaimDelivery(r)
  /\ LET c == CommentOf[request[r].about]
         row == [trigger |-> c, status |-> "active", created |-> request[r].at]
     IN \/ Admissible(c) /\ reviews' = Append(reviews, row)
        \/ ~Admissible(c) /\ UNCHANGED reviews
  /\ Answer(r)
  /\ UNCHANGED <<clock, entitled>>

(* CreateNudgeOnce                                                         *)
CreateNudge(r) ==
  /\ request[r].pc = "stamped" /\ request[r].verdict = "nudge"
  /\ DeliveryNew(request[r].about)
  /\ ClaimDelivery(r)
  /\ Answer(r)
  /\ UNCHANGED <<clock, entitled, reviews>>

(* SQLite fails, or the process dies: nothing was written.                 *)
RequestFails(r) ==
  /\ request[r].pc # "idle"
  /\ Answer(r)
  /\ UNCHANGED <<clock, entitled, marker, reviews, decided>>

(***************************************************************************)
(* What goes on beside it.                                                 *)
(***************************************************************************)

Expired(d) == marker[d] # 0 /\ marker[d] + Retention < clock

(* PurgeDeliveriesBefore, at the engine's leisure.                         *)
PurgeDeliveries ==
  /\ \E d \in Deliveries : Expired(d)
  /\ marker' = [d \in Deliveries |-> IF Expired(d) THEN 0 ELSE marker[d]]
  /\ UNCHANGED <<clock, entitled, reviews, request, decided>>

(* The engine finishes a review, quarantines it or takes it up again.      *)
ReviewMoves(i) ==
  /\ Active(reviews[i])
  /\ \E status \in {"active", "reconciliation_required", "closed"} :
       /\ status # reviews[i].status
       /\ reviews' = [reviews EXCEPT ![i].status = status]
  /\ UNCHANGED <<clock, entitled, marker, request, decided>>

(* A user registers, or the service is restarted with other access lists   *)
(* while the old process still serves a request.                           *)
StandingChanges(u) ==
  /\ entitled' = IF u \in entitled THEN entitled \ {u} ELSE entitled \cup {u}
  /\ UNCHANGED <<clock, marker, reviews, request, decided>>

Tick ==
  /\ clock < MaxTime
  /\ clock' = clock + 1
  /\ UNCHANGED <<entitled, marker, reviews, request, decided>>

Next ==
  \/ \E r \in Requests :
       \/ \E d \in Deliveries : Gate(r, d)
       \/ Stamp(r) \/ AnswerDuplicate(r) \/ CreateReview(r) \/ CreateNudge(r) \/ RequestFails(r)
  \/ PurgeDeliveries
  \/ \E i \in DOMAIN reviews : ReviewMoves(i)
  \/ \E u \in Users : StandingChanges(u)
  \/ Tick

Spec == Init /\ [][Next]_vars

(***************************************************************************)
(* Properties.                                                             *)
(***************************************************************************)

(* However often and however late GitHub delivers a comment, and under     *)
(* whatever delivery IDs, it makes one review: "immutable trigger and      *)
(* active-review uniqueness constraints still prevent the same review      *)
(* event from creating an unsafe duplicate", markers purged or not.        *)
OneReviewPerTrigger ==
  \A i, j \in DOMAIN reviews : reviews[i].trigger = reviews[j].trigger => i = j

(* At every moment, the reviews dated within the past hour are within the  *)
(* limits of their user and of their repository, whatever became of them   *)
(* and although their date is older than their insertion.                  *)
HourlyQuota ==
  /\ \A u \in Users : Cardinality(OfUser(u)) <= UserPerHour
  /\ \A p \in Repos : Cardinality(OfRepo(p)) <= RepoPerHour

(* Quarantined reviews included, the queue never exceeds its limit.        *)
QueueBounded == Cardinality(ActiveReviews) <= MaxActive

(* "It prevents a replay from changing registration state into review      *)
(* access": a delivery that was decided, whatever the decision, is not     *)
(* decided again within the retention of its marker.                       *)
ReplaysAreDropped ==
  [][\A d \in Deliveries : decided[d] # 0 /\ decided'[d] # decided[d] =>
       clock > decided[d] + Retention]_vars

=================================================================================
