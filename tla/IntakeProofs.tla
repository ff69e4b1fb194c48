----------------------------- MODULE IntakeProofs -----------------------------
(***************************************************************************)
(* The properties of Intake for every number of users, pull requests,      *)
(* deliveries and handlers, every limit and every retention.               *)
(*                                                                         *)
(* The limits are counts over the rows of reviews, so each transaction is  *)
(* shown to add one row to a count it found below its limit; the           *)
(* replays need to know what a purged marker tells about the clock.        *)
(***************************************************************************)
EXTENDS Intake, FiniteSetTheorems, SequenceTheorems, TLAPS

(***************************************************************************)
(* Types.                                                                  *)
(***************************************************************************)

(* What a request knows at each place of its handler.                      *)
LEMMA RequestRecords ==
  /\ \A d \in Deliveries, v \in Verdicts : [pc |-> "gated", about |-> d, verdict |-> v] \in Handling
  /\ \A d \in Deliveries, v \in Verdicts, n \in Nat \ {0} :
       [pc |-> "stamped", about |-> d, verdict |-> v, at |-> n] \in Handling
  /\ \A h \in Handling \cup {Idle} :
       /\ h.pc = "gated" => h.about \in Deliveries /\ h.verdict \in Verdicts
       /\ h.pc = "stamped" => h.about \in Deliveries /\ h.verdict \in Verdicts /\ h.at \in Nat \ {0}
BY DEF Handling, Idle

(* An appended row is the last one, and the others stay where they are.    *)
LEMMA Appending ==
  ASSUME NEW S, NEW seq \in Seq(S), NEW row \in S
  PROVE  /\ Append(seq, row) \in Seq(S)
         /\ DOMAIN Append(seq, row) = DOMAIN seq \cup {Len(seq) + 1}
         /\ Len(seq) + 1 \notin DOMAIN seq
         /\ Append(seq, row)[Len(seq) + 1] = row
         /\ \A i \in DOMAIN seq : Append(seq, row)[i] = seq[i]
  OBVIOUS

(* The row a review request inserts.                                       *)
NewRow(r) == [trigger |-> CommentOf[request[r].about], status |-> "active", created |-> request[r].at]

LEMMA TypeInit == Init => TypeOK
BY DEF Init, TypeOK

LEMMA TypeStep == TypeOK /\ [Next]_vars => TypeOK'
<1> SUFFICES ASSUME TypeOK, [Next]_vars PROVE TypeOK'
  OBVIOUS
<1>1. CASE UNCHANGED vars
  BY <1>1 DEF vars, TypeOK
<1>2. ASSUME NEW r \in Requests, NEW d \in Deliveries, Gate(r, d) PROVE TypeOK'
  <2>1. PICK v \in Verdicts : request' = [request EXCEPT ![r] = [pc |-> "gated", about |-> d, verdict |-> v]]
    BY <1>2 DEF Gate, Verdicts
  <2> QED  BY <1>2, <2>1, RequestRecords DEF Gate, TypeOK
<1>3. ASSUME NEW r \in Requests, Stamp(r) PROVE TypeOK'
  <2>1. request[r] \in Handling \cup {Idle} /\ clock \in Nat \ {0}
    BY DEF TypeOK
  <2>2. [pc |-> "stamped", about |-> request[r].about, verdict |-> request[r].verdict, at |-> clock] \in Handling
    BY <1>3, <2>1, RequestRecords DEF Stamp
  <2> QED  BY <1>3, <2>2 DEF Stamp, TypeOK
<1>4. ASSUME NEW r \in Requests, AnswerDuplicate(r) \/ RequestFails(r) PROVE TypeOK'
  BY <1>4 DEF AnswerDuplicate, RequestFails, Answer, TypeOK
<1>5. ASSUME NEW r \in Requests, CreateReview(r) \/ CreateNudge(r) PROVE TypeOK'
  <2>1. request[r] \in Handling \cup {Idle} /\ request[r].pc = "stamped"
    BY <1>5 DEF TypeOK, CreateReview, CreateNudge
  <2>2. request[r].about \in Deliveries /\ request[r].at \in Nat
    BY <2>1, RequestRecords
  <2>3. request' \in [Requests -> Handling \cup {Idle}]
    BY <1>5 DEF TypeOK, CreateReview, CreateNudge, Answer
  <2>4. marker' \in [Deliveries -> Nat] /\ decided' \in [Deliveries -> Nat]
    BY <1>5, <2>2 DEF TypeOK, CreateReview, CreateNudge, ClaimDelivery
  <2>5. reviews' \in Seq(Row)
    <3>1. NewRow(r) \in Row
      BY <2>2, IntakeAssumption DEF NewRow, Row
    <3>2. Append(reviews, NewRow(r)) \in Seq(Row)
      BY <3>1, Appending DEF TypeOK
    <3> QED  BY <1>5, <3>2 DEF TypeOK, CreateReview, CreateNudge, NewRow
  <2> QED  BY <1>5, <2>3, <2>4, <2>5 DEF TypeOK, CreateReview, CreateNudge
<1>6. CASE PurgeDeliveries
  BY <1>6 DEF PurgeDeliveries, TypeOK
<1>7. ASSUME NEW i \in DOMAIN reviews, ReviewMoves(i) PROVE TypeOK'
  <2>1. PICK status \in {"active", "reconciliation_required", "closed"} :
          reviews' = [reviews EXCEPT ![i].status = status]
    BY <1>7 DEF ReviewMoves
  <2>2. [reviews[i] EXCEPT !.status = status] \in Row
    <3>1. reviews[i] \in Row
      BY DEF TypeOK
    <3> QED  BY <3>1 DEF Row
  <2>3. reviews' = [reviews EXCEPT ![i] = [reviews[i] EXCEPT !.status = status]]
    BY <2>1
  <2>4. reviews' \in Seq(Row)
    BY <2>2, <2>3, ExceptSeq DEF TypeOK
  <2> QED  BY <1>7, <2>4 DEF ReviewMoves, TypeOK
<1>8. ASSUME NEW u \in Users, StandingChanges(u) PROVE TypeOK'
  BY <1>8 DEF StandingChanges, TypeOK
<1>9. CASE Tick
  BY <1>9, IntakeAssumption DEF Tick, TypeOK
<1> QED  BY <1>1, <1>2, <1>3, <1>4, <1>5, <1>6, <1>7, <1>8, <1>9 DEF Next

(* The tables, and what the handlers hold in hand, keep their types.       *)
THEOREM TypeCorrect == Spec => []TypeOK
BY TypeInit, TypeStep, PTL DEF Spec

(***************************************************************************)
(* How the table of reviews changes: an admitted request adds a row, and   *)
(* whatever else happens leaves triggers and dates alone, and makes no     *)
(* closed review active.                                                   *)
(***************************************************************************)
Admitted(r) ==
  /\ request[r] \in Handling /\ request[r].pc = "stamped"
  /\ Admissible(CommentOf[request[r].about])
  /\ reviews' = Append(reviews, NewRow(r)) /\ clock' = clock

Kept ==
  /\ DOMAIN reviews' = DOMAIN reviews /\ clock' >= clock
  /\ \A i \in DOMAIN reviews :
       /\ reviews'[i].trigger = reviews[i].trigger /\ reviews'[i].created = reviews[i].created
       /\ Active(reviews'[i]) => Active(reviews[i])

LEMMA RowsChange == TypeOK /\ [Next]_vars => Kept \/ \E r \in Requests : Admitted(r)
<1> SUFFICES ASSUME TypeOK, [Next]_vars PROVE Kept \/ \E r \in Requests : Admitted(r)
  OBVIOUS
<1>1. reviews' = reviews /\ clock' = clock => Kept
  BY DEF Kept, TypeOK
<1>2. ASSUME NEW r \in Requests, CreateReview(r) PROVE Kept \/ Admitted(r)
  <2>1. request[r] \in Handling
    BY <1>2 DEF CreateReview, TypeOK, Idle
  <2> QED  BY <1>1, <1>2, <2>1 DEF CreateReview, Admitted, NewRow
<1>3. ASSUME NEW i \in DOMAIN reviews, ReviewMoves(i) PROVE Kept
  <2>1. PICK status : reviews' = [reviews EXCEPT ![i].status = status]
    BY <1>3 DEF ReviewMoves
  <2>2. reviews[i] \in Row /\ Active(reviews[i]) /\ clock' = clock /\ clock \in Nat
    BY <1>3 DEF ReviewMoves, TypeOK
  <2>3. /\ DOMAIN reviews' = DOMAIN reviews
        /\ \A j \in DOMAIN reviews \ {i} : reviews'[j] = reviews[j]
        /\ reviews'[i] = [reviews[i] EXCEPT !.status = status]
    BY <2>1
  <2>4. reviews'[i].trigger = reviews[i].trigger /\ reviews'[i].created = reviews[i].created
    BY <2>2, <2>3 DEF Row
  <2>5. \A j \in DOMAIN reviews :
          /\ reviews'[j].trigger = reviews[j].trigger /\ reviews'[j].created = reviews[j].created
          /\ Active(reviews'[j]) => Active(reviews[j])
    <3> TAKE j \in DOMAIN reviews
    <3>1. j = i \/ reviews'[j] = reviews[j]
      BY <2>3
    <3> QED  BY <2>2, <2>4, <3>1
  <2> QED  BY <2>2, <2>3, <2>5 DEF Kept
<1>4. CASE Tick
  BY <1>4 DEF Tick, Kept, TypeOK
<1>5. CASE UNCHANGED vars
  BY <1>1, <1>5 DEF vars
<1>6. CASE PurgeDeliveries \/ \E u \in Users : StandingChanges(u)
  BY <1>1, <1>6 DEF PurgeDeliveries, StandingChanges
<1>7. ASSUME NEW r \in Requests,
             \/ \E d \in Deliveries : Gate(r, d)
             \/ Stamp(r) \/ AnswerDuplicate(r) \/ CreateNudge(r) \/ RequestFails(r)
      PROVE  Kept
  BY <1>1, <1>7 DEF Gate, Stamp, AnswerDuplicate, CreateNudge, RequestFails
<1> QED  BY <1>2, <1>3, <1>4, <1>5, <1>6, <1>7 DEF Next

(* What an admitted request adds, row by row.                              *)
LEMMA RowAdded ==
  ASSUME TypeOK, NEW r \in Requests, Admitted(r)
  PROVE  /\ NewRow(r) \in Row /\ NewRow(r).trigger = CommentOf[request[r].about] /\ Active(NewRow(r))
         /\ CommentOf[request[r].about] \in Comments
         /\ DOMAIN reviews' = DOMAIN reviews \cup {Len(reviews) + 1}
         /\ Len(reviews) + 1 \notin DOMAIN reviews
         /\ reviews'[Len(reviews) + 1] = NewRow(r)
         /\ \A i \in DOMAIN reviews : reviews'[i] = reviews[i]
<1>1. request[r].about \in Deliveries /\ request[r].at \in Nat
  BY RequestRecords DEF Admitted
<1>2. NewRow(r) \in Row /\ NewRow(r).trigger = CommentOf[request[r].about] /\ Active(NewRow(r))
  BY <1>1, IntakeAssumption DEF NewRow, Row, Active
<1> QED  BY <1>1, <1>2, Appending, IntakeAssumption DEF Admitted, TypeOK

(***************************************************************************)
(* One review per trigger.                                                 *)
(***************************************************************************)

LEMMA TriggerStep == TypeOK /\ OneReviewPerTrigger /\ [Next]_vars => OneReviewPerTrigger'
<1> SUFFICES ASSUME TypeOK, OneReviewPerTrigger, [Next]_vars PROVE OneReviewPerTrigger'
  OBVIOUS
<1>1. CASE Kept
  BY <1>1 DEF Kept, OneReviewPerTrigger
<1>2. ASSUME NEW r \in Requests, Admitted(r) PROVE OneReviewPerTrigger'
  <2>1. \A i \in DOMAIN reviews : reviews[i].trigger # CommentOf[request[r].about]
    BY <1>2 DEF Admitted, Admissible, TriggerFree
  <2> QED  BY <1>2, <2>1, RowAdded DEF OneReviewPerTrigger
<1> QED  BY <1>1, <1>2, RowsChange

(* CreateReviewWithAdmission and idx_reviews_one_trigger_event: a comment  *)
(* makes at most one review, whenever it is delivered and under whatever   *)
(* IDs, its markers purged or not.                                         *)
THEOREM OneReview == Spec => []OneReviewPerTrigger
<1>1. Init => OneReviewPerTrigger
  BY DEF Init, OneReviewPerTrigger
<1> QED  BY <1>1, TriggerStep, TypeCorrect, PTL DEF Spec

(***************************************************************************)
(* The limits.                                                             *)
(***************************************************************************)

(* A count that was below its limit, and to which at most one row is added.*)
LEMMA OneMore ==
  ASSUME NEW S, NEW T, NEW x, NEW N \in Nat, IsFiniteSet(S), T \subseteq S \cup {x}, Cardinality(S) < N
  PROVE  Cardinality(T) <= N
<1>1. IsFiniteSet(S \cup {x}) /\ Cardinality(S \cup {x}) <= Cardinality(S) + 1
  <2>1. Cardinality(S) \in Nat
    BY FS_CardinalityType
  <2>2. /\ IsFiniteSet(S \cup {x})
        /\ Cardinality(S \cup {x}) = IF x \in S THEN Cardinality(S) ELSE Cardinality(S) + 1
    BY FS_AddElement
  <2> QED  BY <2>1, <2>2
<1>2. Cardinality(T) <= Cardinality(S \cup {x})
  BY <1>1, FS_Subset
<1>3. Cardinality(S) \in Nat /\ Cardinality(S \cup {x}) \in Nat /\ Cardinality(T) \in Nat
  BY <1>1, FS_CardinalityType, FS_Subset
<1> QED  BY <1>1, <1>2, <1>3

(* A count to which nothing is added.                                      *)
LEMMA NoMore ==
  ASSUME NEW S, NEW T, NEW N \in Nat, IsFiniteSet(S), T \subseteq S, Cardinality(S) <= N
  PROVE  Cardinality(T) <= N
BY FS_Subset, FS_CardinalityType

LEMMA RowsFinite ==
  ASSUME TypeOK
  PROVE  /\ IsFiniteSet(ActiveReviews)
         /\ \A u \in Users : IsFiniteSet(OfUser(u))
         /\ \A p \in Repos : IsFiniteSet(OfRepo(p))
<1>1. IsFiniteSet(DOMAIN reviews)
  <2>1. DOMAIN reviews = 1 .. Len(reviews) /\ Len(reviews) \in Nat
    BY DEF TypeOK
  <2> QED  BY <2>1, FS_Interval
<1> QED  BY <1>1, FS_Subset DEF ActiveReviews, OfUser, OfRepo

LEMMA QueueStep == TypeOK /\ QueueBounded /\ [Next]_vars => QueueBounded'
<1> SUFFICES ASSUME TypeOK, QueueBounded, [Next]_vars PROVE QueueBounded'
  OBVIOUS
<1>1. MaxActive \in Nat /\ IsFiniteSet(ActiveReviews)
  BY RowsFinite, IntakeAssumption
<1>2. CASE Kept
  <2>1. ActiveReviews' \subseteq ActiveReviews
    BY <1>2 DEF Kept, ActiveReviews
  <2> QED  BY <1>1, <2>1, NoMore DEF QueueBounded
<1>3. ASSUME NEW r \in Requests, Admitted(r) PROVE QueueBounded'
  <2>1. ActiveReviews' \subseteq ActiveReviews \cup {Len(reviews) + 1}
    BY <1>3, RowAdded DEF ActiveReviews
  <2>2. Cardinality(ActiveReviews) < MaxActive
    BY <1>3 DEF Admitted, Admissible, QueueHasRoom
  <2> QED  BY <1>1, <2>1, <2>2, OneMore DEF QueueBounded
<1> QED  BY <1>2, <1>3, RowsChange

(* CreateReviewWithAdmission: the queue keeps its limit, the quarantined   *)
(* reviews counted.                                                        *)
THEOREM Bounded == Spec => []QueueBounded
<1>1. Init => QueueBounded
  <2> SUFFICES ASSUME Init PROVE QueueBounded
    OBVIOUS
  <2>1. ActiveReviews = {}
    BY DEF Init, ActiveReviews
  <2> QED  BY <2>1, FS_EmptySet, IntakeAssumption DEF QueueBounded
<1> QED  BY <1>1, QueueStep, TypeCorrect, PTL DEF Spec

LEMMA QuotaStep == TypeOK /\ TypeOK' /\ HourlyQuota /\ [Next]_vars => HourlyQuota'
<1> SUFFICES ASSUME TypeOK, TypeOK', HourlyQuota, [Next]_vars PROVE HourlyQuota'
  OBVIOUS
<1>1. /\ UserPerHour \in Nat /\ RepoPerHour \in Nat /\ Hour \in Nat
      /\ clock \in Nat /\ clock' \in Nat /\ \A i \in DOMAIN reviews : reviews[i].created \in Nat
      /\ \A u \in Users : IsFiniteSet(OfUser(u))
      /\ \A p \in Repos : IsFiniteSet(OfRepo(p))
  <2>1. \A i \in DOMAIN reviews : reviews[i] \in Row
    BY DEF TypeOK
  <2>2. \A i \in DOMAIN reviews : reviews[i].created \in Nat
    BY <2>1 DEF Row
  <2>3. clock \in Nat /\ clock' \in Nat
    BY DEF TypeOK
  <2>4. UserPerHour \in Nat /\ RepoPerHour \in Nat /\ Hour \in Nat
    BY IntakeAssumption
  <2> QED  BY <2>2, <2>3, <2>4, RowsFinite
<1>2. CASE Kept
  <2>1. \A i \in DOMAIN reviews : /\ RowUser(reviews'[i]) = RowUser(reviews[i])
                                  /\ RowRepo(reviews'[i]) = RowRepo(reviews[i])
                                  /\ Recent(reviews[i])' => Recent(reviews[i])
    <3> TAKE i \in DOMAIN reviews
    <3>1. /\ reviews'[i].trigger = reviews[i].trigger /\ reviews'[i].created = reviews[i].created
          /\ reviews[i].created \in Nat /\ clock' >= clock /\ clock' \in Nat
      BY <1>1, <1>2 DEF Kept
    <3>2. Recent(reviews[i])' => Recent(reviews[i])
      BY <1>1, <3>1 DEF Recent
    <3> QED  BY <3>1, <3>2 DEF RowUser, RowRepo, RowPull
  <2>2. /\ \A u \in Users : OfUser(u)' \subseteq OfUser(u)
        /\ \A p \in Repos : OfRepo(p)' \subseteq OfRepo(p)
    BY <1>2, <2>1 DEF Kept, OfUser, OfRepo
  <2> QED  BY <1>1, <2>2, NoMore DEF HourlyQuota
<1>3. ASSUME NEW r \in Requests, Admitted(r) PROVE HourlyQuota'
  <2> DEFINE c == CommentOf[request[r].about]
             new == Len(reviews) + 1
  <2>1. /\ Cardinality(OfUser(Author[c])) < UserPerHour
        /\ Cardinality(OfRepo(RepoOf[PullOf[c]])) < RepoPerHour
    BY <1>3 DEF Admitted, Admissible, WithinQuota
  <2>2. \A i \in DOMAIN reviews : Recent(reviews[i])' <=> Recent(reviews[i])
    BY <1>3, RowAdded DEF Admitted, Recent
  <2>3. RowUser(reviews'[new]) = Author[c] /\ RowRepo(reviews'[new]) = RepoOf[PullOf[c]]
    BY <1>3, RowAdded DEF RowUser, RowRepo, RowPull
  <2>4. /\ \A u \in Users : OfUser(u)' \subseteq OfUser(u) \cup {new}
        /\ \A u \in Users : u # Author[c] => OfUser(u)' \subseteq OfUser(u)
    BY <1>3, <2>2, <2>3, RowAdded DEF OfUser
  <2>5. /\ \A p \in Repos : OfRepo(p)' \subseteq OfRepo(p) \cup {new}
        /\ \A p \in Repos : p # RepoOf[PullOf[c]] => OfRepo(p)' \subseteq OfRepo(p)
    BY <1>3, <2>2, <2>3, RowAdded DEF OfRepo
  <2> HIDE DEF c, new
  <2>6. \A u \in Users : Cardinality(OfUser(u)') <= UserPerHour
    BY <1>1, <2>1, <2>4, OneMore, NoMore DEF HourlyQuota
  <2>7. \A p \in Repos : Cardinality(OfRepo(p)') <= RepoPerHour
    BY <1>1, <2>1, <2>5, OneMore, NoMore DEF HourlyQuota
  <2> QED  BY <2>6, <2>7 DEF HourlyQuota
<1> QED  BY <1>2, <1>3, RowsChange

(* CreateReviewWithAdmission: within every hour that ends now, a user and  *)
(* a repository have no more reviews than their limits, although a row is  *)
(* dated before it is inserted.                                            *)
THEOREM Quota == Spec => []HourlyQuota
<1>1. Init => HourlyQuota
  <2> SUFFICES ASSUME Init PROVE HourlyQuota
    OBVIOUS
  <2>1. (\A u \in Users : OfUser(u) = {}) /\ \A p \in Repos : OfRepo(p) = {}
    BY DEF Init, OfUser, OfRepo
  <2>2. UserPerHour >= 0 /\ RepoPerHour >= 0
    BY IntakeAssumption
  <2> QED  BY <2>1, <2>2, FS_EmptySet DEF HourlyQuota
<1> QED  BY <1>1, QuotaStep, TypeCorrect, PTL DEF Spec

(***************************************************************************)
(* Replays.                                                                *)
(***************************************************************************)

(* A marker tells when its delivery was decided, and one that is gone that *)
(* the retention is over.                                                  *)
MarkersTell ==
  \A d \in Deliveries :
    /\ marker[d] # 0 => marker[d] = decided[d]
    /\ marker[d] = 0 /\ decided[d] # 0 => clock > decided[d] + Retention

LEMMA MarkersStep == TypeOK /\ TypeOK' /\ MarkersTell /\ [Next]_vars => MarkersTell'
<1> SUFFICES ASSUME TypeOK, TypeOK', MarkersTell, [Next]_vars PROVE MarkersTell'
  OBVIOUS
<1>1. /\ clock \in Nat /\ clock' \in Nat /\ Retention \in Nat
      /\ \A d \in Deliveries : marker[d] \in Nat /\ decided[d] \in Nat
  BY IntakeAssumption DEF TypeOK
<1>2. ASSUME NEW r \in Requests, CreateReview(r) \/ CreateNudge(r) PROVE MarkersTell'
  <2>1. request[r] \in Handling \cup {Idle} /\ request[r].pc = "stamped"
    BY <1>2 DEF TypeOK, CreateReview, CreateNudge
  <2>2. request[r].about \in Deliveries /\ request[r].at \in Nat \ {0}
    BY <2>1, RequestRecords
  <2>3. /\ marker' = [marker EXCEPT ![request[r].about] = request[r].at]
        /\ decided' = [decided EXCEPT ![request[r].about] = request[r].at]
        /\ clock' = clock
    BY <1>2 DEF CreateReview, CreateNudge, ClaimDelivery
  <2> QED  BY <2>2, <2>3 DEF MarkersTell, TypeOK
<1>3. CASE PurgeDeliveries
  <2>1. /\ \A d \in Deliveries : marker'[d] = IF Expired(d) THEN 0 ELSE marker[d]
        /\ decided' = decided /\ clock' = clock
    BY <1>3 DEF PurgeDeliveries
  <2> QED  BY <1>1, <2>1 DEF MarkersTell, Expired
<1>4. CASE UNCHANGED <<marker, decided>> /\ clock' >= clock
  BY <1>1, <1>4 DEF MarkersTell
<1>5. ASSUME NEW r \in Requests,
             \/ \E d \in Deliveries : Gate(r, d)
             \/ Stamp(r) \/ AnswerDuplicate(r) \/ RequestFails(r)
      PROVE  MarkersTell'
  BY <1>1, <1>4, <1>5 DEF Gate, Stamp, AnswerDuplicate, RequestFails
<1>6. CASE Tick \/ UNCHANGED vars
  BY <1>1, <1>4, <1>6 DEF Tick, vars
<1>7. ASSUME (\E i \in DOMAIN reviews : ReviewMoves(i)) \/ \E u \in Users : StandingChanges(u) PROVE MarkersTell'
  BY <1>1, <1>4, <1>7 DEF ReviewMoves, StandingChanges
<1> QED  BY <1>2, <1>3, <1>5, <1>6, <1>7 DEF Next

(* claimDelivery and PurgeDeliveriesBefore: a delivery that was decided,   *)
(* also by a refusal, is not decided again within the retention.           *)
THEOREM Replays == Spec => ReplaysAreDropped
<1> DEFINE Dropped == \A d \in Deliveries : decided[d] # 0 /\ decided'[d] # decided[d] =>
                        clock > decided[d] + Retention
<1>1. Init => MarkersTell
  BY DEF Init, MarkersTell
<1>2. TypeOK /\ MarkersTell /\ [Next]_vars => Dropped
  <2> SUFFICES ASSUME TypeOK, MarkersTell, [Next]_vars PROVE Dropped
    OBVIOUS
  <2>1. ASSUME NEW r \in Requests, CreateReview(r) \/ CreateNudge(r) PROVE Dropped
    <3>1. /\ decided' = [decided EXCEPT ![request[r].about] = request[r].at]
          /\ marker[request[r].about] = 0
      BY <2>1 DEF CreateReview, CreateNudge, ClaimDelivery, DeliveryNew
    <3> QED  BY <3>1 DEF MarkersTell, TypeOK
  <2>2. (\E r \in Requests : CreateReview(r) \/ CreateNudge(r)) \/ decided' = decided
    BY DEF Next, vars, Gate, Stamp, AnswerDuplicate, RequestFails, PurgeDeliveries, ReviewMoves, StandingChanges, Tick
  <2> QED  BY <2>1, <2>2
<1> QED  BY <1>1, <1>2, MarkersStep, TypeCorrect, PTL DEF Spec, ReplaysAreDropped

================================================================================
