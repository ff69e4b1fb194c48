--------------------------- MODULE ReviewStoreProofs ---------------------------
(***************************************************************************)
(* Proofs about the review store for every number of processes, reviews,   *)
(* inline comments, executions and lease epochs, and for every caller.     *)
(***************************************************************************)
EXTENDS ReviewStore, TLAPS

(* Writing one well-typed row keeps the reviews table well typed.          *)
LEMMA RowWrite ==
  ASSUME rev \in [Reviews -> ReviewRow], NEW r \in Reviews, NEW row \in ReviewRow,
         SetRow(r, row)
  PROVE  rev' \in [Reviews -> ReviewRow]
BY DEF SetRow

(* And so does writing one row of the outbox.                              *)
LEMMA PubWrite ==
  ASSUME pub \in [Reviews -> [Items -> Publication]],
         NEW r \in Reviews, NEW k \in Items, NEW row \in Publication, SetPub(r, k, row)
  PROVE  pub' \in [Reviews -> [Items -> Publication]]
BY DEF SetPub

(* The rows of the four tables keep their types through every method.      *)
LEMMA TypeStep == TypeOK /\ [Next]_vars => TypeOK'
<1> SUFFICES ASSUME TypeOK, [Next]_vars PROVE TypeOK'
  OBVIOUS
<1> USE LeaseAssumption, StoreAssumption DEF TypeOK
<1>1. ASSUME LeaseStep PROVE TypeOK'
  BY <1>1 DEF LeaseStep, LeaseNext, LeaseRow, Acquire, Extend, Lapse, storeVars
<1>2. ASSUME NEW r \in Reviews, CreateReview(r) PROVE TypeOK'
  <2>1. [rev[r] EXCEPT !.status = "queued"] \in ReviewRow
    BY DEF ReviewRow, Active, Ticket
  <2>2. rev' \in [Reviews -> ReviewRow]
    BY <1>2, <2>1, RowWrite DEF CreateReview
  <2> QED  BY <1>2, <2>2 DEF CreateReview
<1>3. ASSUME NEW r \in Reviews, RetryDue(r) PROVE TypeOK'
  BY <1>3 DEF RetryDue
<1>4. ASSUME NEW p \in Procs, NEW f \in 1 .. MaxFence,
             RecoverInterruptedReviews(p, f) PROVE TypeOK'
  <2>1. \A r \in Reviews :
          [rev[r] EXCEPT !.status = "queued", !.owner = NoProc] \in ReviewRow
    BY DEF ReviewRow, Active
  <2>2. rev' \in [Reviews -> ReviewRow]
    BY <1>4, <2>1 DEF RecoverInterruptedReviews
  <2> QED  BY <1>4, <2>2 DEF RecoverInterruptedReviews
<1>5. ASSUME NEW p \in Procs, NEW f \in 1 .. MaxFence, NEW r \in Reviews,
             ClaimNextQueuedReview(r, p, f) PROVE TypeOK'
  <2>1. f \in Nat /\ rev[r].gen + 1 \in Nat
    BY DEF ReviewRow
  <2>2. [rev[r] EXCEPT !.status = "running", !.owner = p, !.fence = f,
                       !.gen = rev[r].gen + 1] \in ReviewRow
    BY <2>1 DEF ReviewRow, Active
  <2>3. rev' \in [Reviews -> ReviewRow]
    BY <1>5, <2>2, RowWrite DEF ClaimNextQueuedReview
  <2> QED  BY <1>5, <2>3 DEF ClaimNextQueuedReview
<1>6. ASSUME NEW r \in Reviews, NEW t \in Ticket, NEW v \in Revisions,
             SetReviewRevision(r, t, v) PROVE TypeOK'
  <2>1. [rev[r] EXCEPT !.head = v] \in ReviewRow
    BY DEF ReviewRow, Active, Ticket
  <2>2. rev' \in [Reviews -> ReviewRow]
    BY <1>6, <2>1, RowWrite DEF SetReviewRevision
  <2> QED  BY <1>6, <2>2 DEF SetReviewRevision
<1>7. ASSUME NEW r \in Reviews, NEW t \in Ticket, NEW n \in 0 .. MaxInline,
             NEW v \in Revisions, PrepareReviewPublication(r, t, n, v) PROVE TypeOK'
  <2>1. [rev[r] EXCEPT !.commit = v] \in ReviewRow
    BY DEF ReviewRow
  <2>2. rev' \in [Reviews -> ReviewRow]
    BY <1>7, <2>1, RowWrite DEF PrepareReviewPublication
  <2>3. Unowned("pending") \in Publication /\ Absent \in Publication
    BY DEF Unowned, Absent, Publication
  <2>4. pub' \in [Reviews -> [Items -> Publication]]
    BY <1>7, <2>3 DEF PrepareReviewPublication
  <2> QED  BY <1>7, <2>2, <2>4 DEF PrepareReviewPublication
<1>8. ASSUME NEW r \in Reviews, NEW t \in Ticket, NEW k \in Items,
             ClaimPending(r, k, t) PROVE TypeOK'
  <2>1. Owned("pending", t) \in Publication
    BY DEF Publication, Owned, Unowned, Ticket
  <2>2. pub' \in [Reviews -> [Items -> Publication]]
    BY <1>8, <2>1, PubWrite DEF ClaimPending
  <2> QED  BY <1>8, <2>2 DEF ClaimPending
<1>9. ASSUME NEW r \in Reviews, NEW t \in Ticket, NEW k \in Items,
             ExpireSend(r, k, t) PROVE TypeOK'
  <2>1. Unowned("reconciliation_required") \in Publication
    BY DEF Publication, Owned, Unowned, Ticket
  <2>2. pub' \in [Reviews -> [Items -> Publication]]
    BY <1>9, <2>1, PubWrite DEF ExpireSend
  <2> QED  BY <1>9, <2>2 DEF ExpireSend
<1>10. ASSUME NEW r \in Reviews, NEW t \in Ticket, NEW k \in Items,
             BeginPublicationSend(r, k, t) PROVE TypeOK'
  <2>1. Owned("sending", t) \in Publication
    BY DEF Publication, Owned, Unowned, Ticket
  <2>2. pub' \in [Reviews -> [Items -> Publication]]
    BY <1>10, <2>1, PubWrite DEF BeginPublicationSend
  <2> QED  BY <1>10, <2>2 DEF BeginPublicationSend
<1>11. ASSUME NEW r \in Reviews, NEW t \in Ticket, NEW k \in Items,
             MarkPublicationPosted(r, k, t) PROVE TypeOK'
  <2>1. Unowned("posted") \in Publication
    BY DEF Publication, Owned, Unowned, Ticket
  <2>2. pub' \in [Reviews -> [Items -> Publication]]
    BY <1>11, <2>1, PubWrite DEF MarkPublicationPosted
  <2> QED  BY <1>11, <2>2 DEF MarkPublicationPosted
<1>12. ASSUME NEW r \in Reviews, NEW t \in Ticket, NEW k \in Items,
             MarkPublicationReconciliationRequired(r, k, t) PROVE TypeOK'
  <2>1. Unowned("reconciliation_required") \in Publication
    BY DEF Publication, Owned, Unowned, Ticket
  <2>2. pub' \in [Reviews -> [Items -> Publication]]
    BY <1>12, <2>1, PubWrite DEF MarkPublicationReconciliationRequired
  <2> QED  BY <1>12, <2>2 DEF MarkPublicationReconciliationRequired
<1>13. ASSUME NEW r \in Reviews, NEW t \in Ticket, FinishReviewReconciliationRequired(r, t) PROVE TypeOK'
  <2>1. [rev[r] EXCEPT !.status = "reconciliation_required", !.owner = NoProc] \in ReviewRow
    BY DEF ReviewRow, Active, Ticket
  <2>2. rev' \in [Reviews -> ReviewRow]
    BY <1>13, <2>1, RowWrite DEF FinishReviewReconciliationRequired
  <2> QED  BY <1>13, <2>2 DEF FinishReviewReconciliationRequired
<1>14. ASSUME NEW r \in Reviews, NEW t \in Ticket, FinishReviewDone(r, t) PROVE TypeOK'
  <2>1. [rev[r] EXCEPT !.status = "done"] \in ReviewRow
    BY DEF ReviewRow, Terminal, Ticket
  <2>2. rev' \in [Reviews -> ReviewRow]
    BY <1>14, <2>1, RowWrite DEF FinishReviewDone
  <2> QED  BY <1>14, <2>2 DEF FinishReviewDone
<1>15. ASSUME NEW r \in Reviews, NEW t \in Ticket, FinishReviewFailed(r, t) PROVE TypeOK'
  <2>1. [rev[r] EXCEPT !.status = "failed"] \in ReviewRow
    BY DEF ReviewRow, Terminal, Ticket
  <2>2. rev' \in [Reviews -> ReviewRow]
    BY <1>15, <2>1, RowWrite DEF FinishReviewFailed
  <2> QED  BY <1>15, <2>2 DEF FinishReviewFailed
<1>16. ASSUME NEW r \in Reviews, NEW t \in Ticket, RequeueReview(r, t) PROVE TypeOK'
  <2>1. [rev[r] EXCEPT !.status = "queued", !.owner = NoProc] \in ReviewRow
    BY DEF ReviewRow, Active
  <2>2. rev' \in [Reviews -> ReviewRow]
    BY <1>16, <2>1, RowWrite DEF RequeueReview, DropClaim
  <2>3. Unowned("pending") \in Publication
    BY DEF Unowned, Publication
  <2>4. pub' \in [Reviews -> [Items -> Publication]]
    BY <1>16, <2>3 DEF RequeueReview, DropClaim
  <2> QED  BY <1>16, <2>2, <2>4 DEF RequeueReview, DropClaim
<1>17. ASSUME NEW r \in Reviews, NEW k \in Items, HandoffElapses(r, k) PROVE TypeOK'
  BY <1>17 DEF HandoffElapses
<1>18. ASSUME UNCHANGED vars PROVE TypeOK'
  BY <1>18 DEF vars
<1> QED
  BY <1>1, <1>2, <1>3, <1>4, <1>5, <1>6, <1>7, <1>8, <1>9,
     <1>10, <1>11, <1>12, <1>13, <1>14, <1>15, <1>16, <1>17, <1>18
  DEF Next, QueueStep, OutboxStep, FinishStep

LEMMA TypeInit == Init => TypeOK
BY LeaseAssumption, StoreAssumption
DEF Init, LeaseInit, TypeOK, ReviewRow, Publication, LeaseRow, Active, Terminal, Absent

(* The rows of the store keep their types.                                 *)
THEOREM TypeCorrect == Spec => []TypeOK
BY TypeInit, TypeStep, PTL DEF Spec

(* Only CreateReview brings a row into the active set, and only when its   *)
(* pull request has no other active row.                                    *)
LEMMA OneActiveStep == TypeOK /\ OneActivePerPR /\ [Next]_vars => OneActivePerPR'
<1> SUFFICES ASSUME TypeOK, OneActivePerPR, [Next]_vars PROVE OneActivePerPR'
  OBVIOUS
<1> USE LeaseAssumption, StoreAssumption DEF TypeOK, OneActivePerPR, IsActive, Active, ReviewRow, SetRow, HoldsReview
<1>1. ASSUME LeaseStep PROVE OneActivePerPR'
  BY <1>1 DEF LeaseStep, LeaseNext, Acquire, Extend, Lapse, storeVars, LeaseRow
<1>2. ASSUME NEW r \in Reviews, CreateReview(r) PROVE OneActivePerPR'
  BY <1>2 DEF CreateReview, SlotFree
<1>3. ASSUME NEW r \in Reviews, RetryDue(r) PROVE OneActivePerPR'
  BY <1>3 DEF RetryDue
<1>4. ASSUME NEW p \in Procs, NEW f \in 1 .. MaxFence,
             RecoverInterruptedReviews(p, f) PROVE OneActivePerPR'
  BY <1>4 DEF RecoverInterruptedReviews, Interrupted
<1>5. ASSUME NEW p \in Procs, NEW f \in 1 .. MaxFence, NEW r \in Reviews,
             ClaimNextQueuedReview(r, p, f) PROVE OneActivePerPR'
  BY <1>5 DEF ClaimNextQueuedReview, Claimable
<1>6. ASSUME NEW r \in Reviews, NEW t \in Ticket, NEW v \in Revisions,
             SetReviewRevision(r, t, v) PROVE OneActivePerPR'
  BY <1>6 DEF SetReviewRevision
<1>7. ASSUME NEW r \in Reviews, NEW t \in Ticket, NEW n \in 0 .. MaxInline,
             NEW v \in Revisions, PrepareReviewPublication(r, t, n, v) PROVE OneActivePerPR'
  BY <1>7 DEF PrepareReviewPublication
<1>8. ASSUME NEW r \in Reviews, NEW t \in Ticket, NEW k \in Items,
             ClaimPending(r, k, t) PROVE OneActivePerPR'
  BY <1>8 DEF ClaimPending
<1>9. ASSUME NEW r \in Reviews, NEW t \in Ticket, NEW k \in Items,
             ExpireSend(r, k, t) PROVE OneActivePerPR'
  BY <1>9 DEF ExpireSend
<1>10. ASSUME NEW r \in Reviews, NEW t \in Ticket, NEW k \in Items,
             BeginPublicationSend(r, k, t) PROVE OneActivePerPR'
  BY <1>10 DEF BeginPublicationSend
<1>11. ASSUME NEW r \in Reviews, NEW t \in Ticket, NEW k \in Items,
             MarkPublicationPosted(r, k, t) PROVE OneActivePerPR'
  BY <1>11 DEF MarkPublicationPosted
<1>12. ASSUME NEW r \in Reviews, NEW t \in Ticket, NEW k \in Items,
             MarkPublicationReconciliationRequired(r, k, t) PROVE OneActivePerPR'
  BY <1>12 DEF MarkPublicationReconciliationRequired
<1>13. ASSUME NEW r \in Reviews, NEW t \in Ticket, FinishReviewReconciliationRequired(r, t) PROVE OneActivePerPR'
  BY <1>13 DEF FinishReviewReconciliationRequired
<1>14. ASSUME NEW r \in Reviews, NEW t \in Ticket, FinishReviewDone(r, t) PROVE OneActivePerPR'
  BY <1>14 DEF FinishReviewDone
<1>15. ASSUME NEW r \in Reviews, NEW t \in Ticket, FinishReviewFailed(r, t) PROVE OneActivePerPR'
  BY <1>15 DEF FinishReviewFailed
<1>16. ASSUME NEW r \in Reviews, NEW t \in Ticket, RequeueReview(r, t) PROVE OneActivePerPR'
  BY <1>16 DEF RequeueReview
<1>17. ASSUME NEW r \in Reviews, NEW k \in Items, HandoffElapses(r, k) PROVE OneActivePerPR'
  BY <1>17 DEF HandoffElapses
<1>18. ASSUME UNCHANGED vars PROVE OneActivePerPR'
  BY <1>18 DEF vars
<1> QED
  BY <1>1, <1>2, <1>3, <1>4, <1>5, <1>6, <1>7, <1>8, <1>9,
     <1>10, <1>11, <1>12, <1>13, <1>14, <1>15, <1>16, <1>17, <1>18
  DEF Next, QueueStep, OutboxStep, FinishStep

(* At most one active review per pull request, through recovery, retry,    *)
(* quarantine and takeover.                                                *)
THEOREM ActiveUnique == Spec => []OneActivePerPR
<1>1. Init => OneActivePerPR
  BY DEF Init, OneActivePerPR, IsActive, Active
<1> QED  BY <1>1, OneActiveStep, TypeCorrect, PTL DEF Spec

(* Fences only grow, so a claim stays behind the lease it was made under.  *)
LEMMA ClaimStep == TypeOK /\ ClaimedUnderTerm /\ [Next]_vars => ClaimedUnderTerm'
<1> SUFFICES ASSUME TypeOK, ClaimedUnderTerm, [Next]_vars PROVE ClaimedUnderTerm'
  OBVIOUS
<1> USE LeaseAssumption, StoreAssumption DEF TypeOK, ClaimedUnderTerm, ReviewRow, LeaseRow, SetRow, HoldsReview
<1>1. ASSUME LeaseStep PROVE ClaimedUnderTerm'
  BY <1>1 DEF LeaseStep, LeaseNext, Acquire, Extend, Lapse, storeVars, LeaseRow
<1>2. ASSUME NEW r \in Reviews, CreateReview(r) PROVE ClaimedUnderTerm'
  BY <1>2 DEF CreateReview
<1>3. ASSUME NEW r \in Reviews, RetryDue(r) PROVE ClaimedUnderTerm'
  BY <1>3 DEF RetryDue
<1>4. ASSUME NEW p \in Procs, NEW f \in 1 .. MaxFence,
             RecoverInterruptedReviews(p, f) PROVE ClaimedUnderTerm'
  BY <1>4 DEF RecoverInterruptedReviews, Interrupted
<1>5. ASSUME NEW p \in Procs, NEW f \in 1 .. MaxFence, NEW r \in Reviews,
             ClaimNextQueuedReview(r, p, f) PROVE ClaimedUnderTerm'
  BY <1>5 DEF ClaimNextQueuedReview, HoldsLease
<1>6. ASSUME NEW r \in Reviews, NEW t \in Ticket, NEW v \in Revisions,
             SetReviewRevision(r, t, v) PROVE ClaimedUnderTerm'
  BY <1>6 DEF SetReviewRevision
<1>7. ASSUME NEW r \in Reviews, NEW t \in Ticket, NEW n \in 0 .. MaxInline,
             NEW v \in Revisions, PrepareReviewPublication(r, t, n, v) PROVE ClaimedUnderTerm'
  BY <1>7 DEF PrepareReviewPublication
<1>8. ASSUME NEW r \in Reviews, NEW t \in Ticket, NEW k \in Items,
             ClaimPending(r, k, t) PROVE ClaimedUnderTerm'
  BY <1>8 DEF ClaimPending
<1>9. ASSUME NEW r \in Reviews, NEW t \in Ticket, NEW k \in Items,
             ExpireSend(r, k, t) PROVE ClaimedUnderTerm'
  BY <1>9 DEF ExpireSend
<1>10. ASSUME NEW r \in Reviews, NEW t \in Ticket, NEW k \in Items,
             BeginPublicationSend(r, k, t) PROVE ClaimedUnderTerm'
  BY <1>10 DEF BeginPublicationSend
<1>11. ASSUME NEW r \in Reviews, NEW t \in Ticket, NEW k \in Items,
             MarkPublicationPosted(r, k, t) PROVE ClaimedUnderTerm'
  BY <1>11 DEF MarkPublicationPosted
<1>12. ASSUME NEW r \in Reviews, NEW t \in Ticket, NEW k \in Items,
             MarkPublicationReconciliationRequired(r, k, t) PROVE ClaimedUnderTerm'
  BY <1>12 DEF MarkPublicationReconciliationRequired
<1>13. ASSUME NEW r \in Reviews, NEW t \in Ticket, FinishReviewReconciliationRequired(r, t) PROVE ClaimedUnderTerm'
  BY <1>13 DEF FinishReviewReconciliationRequired
<1>14. ASSUME NEW r \in Reviews, NEW t \in Ticket, FinishReviewDone(r, t) PROVE ClaimedUnderTerm'
  BY <1>14 DEF FinishReviewDone
<1>15. ASSUME NEW r \in Reviews, NEW t \in Ticket, FinishReviewFailed(r, t) PROVE ClaimedUnderTerm'
  BY <1>15 DEF FinishReviewFailed
<1>16. ASSUME NEW r \in Reviews, NEW t \in Ticket, RequeueReview(r, t) PROVE ClaimedUnderTerm'
  BY <1>16 DEF RequeueReview
<1>17. ASSUME NEW r \in Reviews, NEW k \in Items, HandoffElapses(r, k) PROVE ClaimedUnderTerm'
  BY <1>17 DEF HandoffElapses
<1>18. ASSUME UNCHANGED vars PROVE ClaimedUnderTerm'
  BY <1>18 DEF vars
<1> QED
  BY <1>1, <1>2, <1>3, <1>4, <1>5, <1>6, <1>7, <1>8, <1>9,
     <1>10, <1>11, <1>12, <1>13, <1>14, <1>15, <1>16, <1>17, <1>18
  DEF Next, QueueStep, OutboxStep, FinishStep

(* Every running row belongs to a granted term, and to the lease's owner   *)
(* when it carries the current fence.                                      *)
THEOREM ClaimsAttributed == Spec => []ClaimedUnderTerm
<1>1. Init => ClaimedUnderTerm
  BY DEF Init, ClaimedUnderTerm
<1> QED  BY <1>1, ClaimStep, TypeCorrect, PTL DEF Spec

(* FinishReviewDone checks the whole outbox in its own transaction, and no *)
(* method touches the outbox of a row that is not running.                 *)
LEMMA DeliveredStep == TypeOK /\ DoneMeansDelivered /\ [Next]_vars => DoneMeansDelivered'
<1> SUFFICES ASSUME TypeOK, DoneMeansDelivered, [Next]_vars PROVE DoneMeansDelivered'
  OBVIOUS
<1> USE LeaseAssumption, StoreAssumption DEF TypeOK, DoneMeansDelivered, ReviewRow, Publication, Items, SetRow, SetPub, HoldsReview
<1>1. ASSUME LeaseStep PROVE DoneMeansDelivered'
  BY <1>1 DEF LeaseStep, LeaseNext, Acquire, Extend, Lapse, storeVars, LeaseRow
<1>2. ASSUME NEW r \in Reviews, CreateReview(r) PROVE DoneMeansDelivered'
  BY <1>2 DEF CreateReview
<1>3. ASSUME NEW r \in Reviews, RetryDue(r) PROVE DoneMeansDelivered'
  BY <1>3 DEF RetryDue
<1>4. ASSUME NEW p \in Procs, NEW f \in 1 .. MaxFence,
             RecoverInterruptedReviews(p, f) PROVE DoneMeansDelivered'
  <2>1. pub' = pub
    BY <1>4 DEF RecoverInterruptedReviews
  <2>2. ASSUME NEW q \in Reviews, rev'[q].status = "done" PROVE rev[q].status = "done"
    BY <1>4, <2>2 DEF RecoverInterruptedReviews
  <2> QED  BY <2>1, <2>2
<1>5. ASSUME NEW p \in Procs, NEW f \in 1 .. MaxFence, NEW r \in Reviews,
             ClaimNextQueuedReview(r, p, f) PROVE DoneMeansDelivered'
  BY <1>5 DEF ClaimNextQueuedReview, Claimable
<1>6. ASSUME NEW r \in Reviews, NEW t \in Ticket, NEW v \in Revisions,
             SetReviewRevision(r, t, v) PROVE DoneMeansDelivered'
  BY <1>6 DEF SetReviewRevision
<1>7. ASSUME NEW r \in Reviews, NEW t \in Ticket, NEW n \in 0 .. MaxInline,
             NEW v \in Revisions, PrepareReviewPublication(r, t, n, v) PROVE DoneMeansDelivered'
  BY <1>7 DEF PrepareReviewPublication
<1>8. ASSUME NEW r \in Reviews, NEW t \in Ticket, NEW k \in Items,
             ClaimPending(r, k, t) PROVE DoneMeansDelivered'
  BY <1>8 DEF ClaimPending
<1>9. ASSUME NEW r \in Reviews, NEW t \in Ticket, NEW k \in Items,
             ExpireSend(r, k, t) PROVE DoneMeansDelivered'
  BY <1>9 DEF ExpireSend
<1>10. ASSUME NEW r \in Reviews, NEW t \in Ticket, NEW k \in Items,
             BeginPublicationSend(r, k, t) PROVE DoneMeansDelivered'
  BY <1>10 DEF BeginPublicationSend
<1>11. ASSUME NEW r \in Reviews, NEW t \in Ticket, NEW k \in Items,
             MarkPublicationPosted(r, k, t) PROVE DoneMeansDelivered'
  BY <1>11 DEF MarkPublicationPosted
<1>12. ASSUME NEW r \in Reviews, NEW t \in Ticket, NEW k \in Items,
             MarkPublicationReconciliationRequired(r, k, t) PROVE DoneMeansDelivered'
  BY <1>12 DEF MarkPublicationReconciliationRequired
<1>13. ASSUME NEW r \in Reviews, NEW t \in Ticket, FinishReviewReconciliationRequired(r, t) PROVE DoneMeansDelivered'
  BY <1>13 DEF FinishReviewReconciliationRequired
<1>14. ASSUME NEW r \in Reviews, NEW t \in Ticket, FinishReviewDone(r, t) PROVE DoneMeansDelivered'
  BY <1>14 DEF FinishReviewDone, AllPosted
<1>15. ASSUME NEW r \in Reviews, NEW t \in Ticket, FinishReviewFailed(r, t) PROVE DoneMeansDelivered'
  BY <1>15 DEF FinishReviewFailed
<1>16. ASSUME NEW r \in Reviews, NEW t \in Ticket, RequeueReview(r, t) PROVE DoneMeansDelivered'
  BY <1>16 DEF RequeueReview, DropClaim
<1>17. ASSUME NEW r \in Reviews, NEW k \in Items, HandoffElapses(r, k) PROVE DoneMeansDelivered'
  BY <1>17 DEF HandoffElapses
<1>18. ASSUME UNCHANGED vars PROVE DoneMeansDelivered'
  BY <1>18 DEF vars
<1> QED
  BY <1>1, <1>2, <1>3, <1>4, <1>5, <1>6, <1>7, <1>8, <1>9,
     <1>10, <1>11, <1>12, <1>13, <1>14, <1>15, <1>16, <1>17, <1>18
  DEF Next, QueueStep, OutboxStep, FinishStep

(* A review recorded as done has every comment of its plan acknowledged.   *)
THEOREM Delivered == Spec => []DoneMeansDelivered
<1>1. Init => DoneMeansDelivered
  BY DEF Init, DoneMeansDelivered
<1> QED  BY <1>1, DeliveredStep, TypeCorrect, PTL DEF Spec

(* A plan is inserted whole and in order: without the row before it there  *)
(* is no row, so without a summary there is none, which is why a second    *)
(* plan can never overwrite a row already sent.                            *)
PlanWhole ==
  \A r \in Reviews, k \in Items : pub[r][k].status # "none" =>
    \A j \in Items : j < k => pub[r][j].status # "none"

(* Every method that writes one outbox row finds it present already.       *)
LEMMA PlanWholeStep == TypeOK /\ PlanWhole /\ [Next]_vars => PlanWhole'
<1> SUFFICES ASSUME TypeOK, PlanWhole, [Next]_vars PROVE PlanWhole'
  OBVIOUS
<1> USE LeaseAssumption, StoreAssumption DEF TypeOK, PlanWhole, Publication, Items, SetPub, Owned, Unowned
<1>1. ASSUME LeaseStep PROVE PlanWhole'
  BY <1>1 DEF LeaseStep, LeaseNext, Acquire, Extend, Lapse, storeVars, LeaseRow
<1>2. ASSUME NEW r \in Reviews, CreateReview(r) PROVE PlanWhole'
  BY <1>2 DEF CreateReview
<1>3. ASSUME NEW r \in Reviews, RetryDue(r) PROVE PlanWhole'
  BY <1>3 DEF RetryDue
<1>4. ASSUME NEW p \in Procs, NEW f \in 1 .. MaxFence,
             RecoverInterruptedReviews(p, f) PROVE PlanWhole'
  BY <1>4 DEF RecoverInterruptedReviews
<1>5. ASSUME NEW p \in Procs, NEW f \in 1 .. MaxFence, NEW r \in Reviews,
             ClaimNextQueuedReview(r, p, f) PROVE PlanWhole'
  BY <1>5 DEF ClaimNextQueuedReview
<1>6. ASSUME NEW r \in Reviews, NEW t \in Ticket, NEW v \in Revisions,
             SetReviewRevision(r, t, v) PROVE PlanWhole'
  BY <1>6 DEF SetReviewRevision
<1>7. ASSUME NEW r \in Reviews, NEW t \in Ticket, NEW n \in 0 .. MaxInline,
             NEW v \in Revisions, PrepareReviewPublication(r, t, n, v) PROVE PlanWhole'
  BY <1>7 DEF PrepareReviewPublication, Absent
<1>8. ASSUME NEW r \in Reviews, NEW t \in Ticket, NEW k \in Items,
             ClaimPending(r, k, t) PROVE PlanWhole'
  BY <1>8 DEF ClaimPending
<1>9. ASSUME NEW r \in Reviews, NEW t \in Ticket, NEW k \in Items,
             ExpireSend(r, k, t) PROVE PlanWhole'
  BY <1>9 DEF ExpireSend
<1>10. ASSUME NEW r \in Reviews, NEW t \in Ticket, NEW k \in Items,
             BeginPublicationSend(r, k, t) PROVE PlanWhole'
  BY <1>10 DEF BeginPublicationSend
<1>11. ASSUME NEW r \in Reviews, NEW t \in Ticket, NEW k \in Items,
             MarkPublicationPosted(r, k, t) PROVE PlanWhole'
  BY <1>11 DEF MarkPublicationPosted
<1>12. ASSUME NEW r \in Reviews, NEW t \in Ticket, NEW k \in Items,
             MarkPublicationReconciliationRequired(r, k, t) PROVE PlanWhole'
  BY <1>12 DEF MarkPublicationReconciliationRequired
<1>13. ASSUME NEW r \in Reviews, NEW t \in Ticket, FinishReviewReconciliationRequired(r, t) PROVE PlanWhole'
  BY <1>13 DEF FinishReviewReconciliationRequired
<1>14. ASSUME NEW r \in Reviews, NEW t \in Ticket, FinishReviewDone(r, t) PROVE PlanWhole'
  BY <1>14 DEF FinishReviewDone
<1>15. ASSUME NEW r \in Reviews, NEW t \in Ticket, FinishReviewFailed(r, t) PROVE PlanWhole'
  BY <1>15 DEF FinishReviewFailed
<1>16. ASSUME NEW r \in Reviews, NEW t \in Ticket, RequeueReview(r, t) PROVE PlanWhole'
  BY <1>16 DEF RequeueReview, DropClaim
<1>17. ASSUME NEW r \in Reviews, NEW k \in Items, HandoffElapses(r, k) PROVE PlanWhole'
  BY <1>17 DEF HandoffElapses
<1>18. ASSUME UNCHANGED vars PROVE PlanWhole'
  BY <1>18 DEF vars
<1> QED
  BY <1>1, <1>2, <1>3, <1>4, <1>5, <1>6, <1>7, <1>8, <1>9,
     <1>10, <1>11, <1>12, <1>13, <1>14, <1>15, <1>16, <1>17, <1>18
  DEF Next, QueueStep, OutboxStep, FinishStep

LEMMA PlanWholeInvariant == Spec => []PlanWhole
<1>1. Init => PlanWhole
  BY DEF Init, PlanWhole, Absent
<1> QED  BY <1>1, PlanWholeStep, TypeCorrect, PTL DEF Spec

(* OutboxNeverRewinds, as a predicate on one step.                         *)
NoRewind ==
  \A r \in Reviews, k \in Items :
    /\ pub[r][k].status \in Uncertain => pub'[r][k].status \in Uncertain \cup {"posted"}
    /\ pub[r][k].status = "posted" => pub'[r][k].status = "posted"

(* No method moves an uncertain row anywhere but to another uncertain      *)
(* state or to posted.                                                     *)
LEMMA NoRewindStep == TypeOK /\ PlanWhole /\ [Next]_vars => NoRewind
<1> SUFFICES ASSUME TypeOK, PlanWhole, [Next]_vars PROVE NoRewind
  OBVIOUS
<1> USE LeaseAssumption, StoreAssumption DEF TypeOK, PlanWhole, NoRewind, Uncertain, Publication, Items, SetPub, Owned, Unowned
<1>1. ASSUME LeaseStep PROVE NoRewind
  BY <1>1 DEF LeaseStep, LeaseNext, Acquire, Extend, Lapse, storeVars, LeaseRow
<1>2. ASSUME NEW r \in Reviews, CreateReview(r) PROVE NoRewind
  BY <1>2 DEF CreateReview
<1>3. ASSUME NEW r \in Reviews, RetryDue(r) PROVE NoRewind
  BY <1>3 DEF RetryDue
<1>4. ASSUME NEW p \in Procs, NEW f \in 1 .. MaxFence,
             RecoverInterruptedReviews(p, f) PROVE NoRewind
  BY <1>4 DEF RecoverInterruptedReviews
<1>5. ASSUME NEW p \in Procs, NEW f \in 1 .. MaxFence, NEW r \in Reviews,
             ClaimNextQueuedReview(r, p, f) PROVE NoRewind
  BY <1>5 DEF ClaimNextQueuedReview
<1>6. ASSUME NEW r \in Reviews, NEW t \in Ticket, NEW v \in Revisions,
             SetReviewRevision(r, t, v) PROVE NoRewind
  BY <1>6 DEF SetReviewRevision
<1>7. ASSUME NEW r \in Reviews, NEW t \in Ticket, NEW n \in 0 .. MaxInline,
             NEW v \in Revisions, PrepareReviewPublication(r, t, n, v) PROVE NoRewind
  <2>1. \A k \in Items : pub[r][k].status = "none"
    <3>1. pub[r][0].status = "none"
      BY <1>7 DEF PrepareReviewPublication, Prepared
    <3>2. \A k \in Items : k = 0 \/ 0 < k
      OBVIOUS
    <3>3. 0 \in Items
      OBVIOUS
    <3> QED  BY <3>1, <3>2, <3>3
  <2> QED  BY <1>7, <2>1 DEF PrepareReviewPublication
<1>8. ASSUME NEW r \in Reviews, NEW t \in Ticket, NEW k \in Items,
             ClaimPending(r, k, t) PROVE NoRewind
  BY <1>8 DEF ClaimPending
<1>9. ASSUME NEW r \in Reviews, NEW t \in Ticket, NEW k \in Items,
             ExpireSend(r, k, t) PROVE NoRewind
  BY <1>9 DEF ExpireSend
<1>10. ASSUME NEW r \in Reviews, NEW t \in Ticket, NEW k \in Items,
             BeginPublicationSend(r, k, t) PROVE NoRewind
  BY <1>10 DEF BeginPublicationSend
<1>11. ASSUME NEW r \in Reviews, NEW t \in Ticket, NEW k \in Items,
             MarkPublicationPosted(r, k, t) PROVE NoRewind
  BY <1>11 DEF MarkPublicationPosted
<1>12. ASSUME NEW r \in Reviews, NEW t \in Ticket, NEW k \in Items,
             MarkPublicationReconciliationRequired(r, k, t) PROVE NoRewind
  BY <1>12 DEF MarkPublicationReconciliationRequired
<1>13. ASSUME NEW r \in Reviews, NEW t \in Ticket, FinishReviewReconciliationRequired(r, t) PROVE NoRewind
  BY <1>13 DEF FinishReviewReconciliationRequired
<1>14. ASSUME NEW r \in Reviews, NEW t \in Ticket, FinishReviewDone(r, t) PROVE NoRewind
  BY <1>14 DEF FinishReviewDone
<1>15. ASSUME NEW r \in Reviews, NEW t \in Ticket, FinishReviewFailed(r, t) PROVE NoRewind
  BY <1>15 DEF FinishReviewFailed
<1>16. ASSUME NEW r \in Reviews, NEW t \in Ticket, RequeueReview(r, t) PROVE NoRewind
  BY <1>16 DEF RequeueReview, DropClaim
<1>17. ASSUME NEW r \in Reviews, NEW k \in Items, HandoffElapses(r, k) PROVE NoRewind
  BY <1>17 DEF HandoffElapses
<1>18. ASSUME UNCHANGED vars PROVE NoRewind
  BY <1>18 DEF vars
<1> QED
  BY <1>1, <1>2, <1>3, <1>4, <1>5, <1>6, <1>7, <1>8, <1>9,
     <1>10, <1>11, <1>12, <1>13, <1>14, <1>15, <1>16, <1>17, <1>18
  DEF Next, QueueStep, OutboxStep, FinishStep

(* Whatever crashes, recovers or retries, a publication that may have been *)
(* sent is never sendable again.                                           *)
THEOREM NeverRewinds == Spec => OutboxNeverRewinds
<1>1. TypeOK /\ PlanWhole /\ [Next]_vars => [NoRewind]_vars
  BY NoRewindStep
<1> QED  BY <1>1, TypeCorrect, PlanWholeInvariant, PTL
         DEF Spec, OutboxNeverRewinds, NoRewind

(* TerminalIsFinal, as a predicate on one step.                            *)
KeepsTerminal ==
  \A r \in Reviews : rev[r].status \in Terminal => rev'[r] = rev[r] /\ pub'[r] = pub[r]

(* Every method requires a row that is running, queued or quarantined.     *)
LEMMA KeepsTerminalStep == TypeOK /\ [Next]_vars => KeepsTerminal
<1> SUFFICES ASSUME TypeOK, [Next]_vars PROVE KeepsTerminal
  OBVIOUS
<1> USE LeaseAssumption, StoreAssumption DEF TypeOK, KeepsTerminal, Terminal, SetRow, SetPub, HoldsReview
<1>1. ASSUME LeaseStep PROVE KeepsTerminal
  BY <1>1 DEF LeaseStep, LeaseNext, Acquire, Extend, Lapse, storeVars, LeaseRow
<1>2. ASSUME NEW r \in Reviews, CreateReview(r) PROVE KeepsTerminal
  BY <1>2 DEF CreateReview
<1>3. ASSUME NEW r \in Reviews, RetryDue(r) PROVE KeepsTerminal
  BY <1>3 DEF RetryDue
<1>4. ASSUME NEW p \in Procs, NEW f \in 1 .. MaxFence,
             RecoverInterruptedReviews(p, f) PROVE KeepsTerminal
  BY <1>4 DEF RecoverInterruptedReviews, Interrupted
<1>5. ASSUME NEW p \in Procs, NEW f \in 1 .. MaxFence, NEW r \in Reviews,
             ClaimNextQueuedReview(r, p, f) PROVE KeepsTerminal
  BY <1>5 DEF ClaimNextQueuedReview, Claimable
<1>6. ASSUME NEW r \in Reviews, NEW t \in Ticket, NEW v \in Revisions,
             SetReviewRevision(r, t, v) PROVE KeepsTerminal
  BY <1>6 DEF SetReviewRevision
<1>7. ASSUME NEW r \in Reviews, NEW t \in Ticket, NEW n \in 0 .. MaxInline,
             NEW v \in Revisions, PrepareReviewPublication(r, t, n, v) PROVE KeepsTerminal
  BY <1>7 DEF PrepareReviewPublication
<1>8. ASSUME NEW r \in Reviews, NEW t \in Ticket, NEW k \in Items,
             ClaimPending(r, k, t) PROVE KeepsTerminal
  BY <1>8 DEF ClaimPending
<1>9. ASSUME NEW r \in Reviews, NEW t \in Ticket, NEW k \in Items,
             ExpireSend(r, k, t) PROVE KeepsTerminal
  BY <1>9 DEF ExpireSend
<1>10. ASSUME NEW r \in Reviews, NEW t \in Ticket, NEW k \in Items,
             BeginPublicationSend(r, k, t) PROVE KeepsTerminal
  BY <1>10 DEF BeginPublicationSend
<1>11. ASSUME NEW r \in Reviews, NEW t \in Ticket, NEW k \in Items,
             MarkPublicationPosted(r, k, t) PROVE KeepsTerminal
  BY <1>11 DEF MarkPublicationPosted
<1>12. ASSUME NEW r \in Reviews, NEW t \in Ticket, NEW k \in Items,
             MarkPublicationReconciliationRequired(r, k, t) PROVE KeepsTerminal
  BY <1>12 DEF MarkPublicationReconciliationRequired
<1>13. ASSUME NEW r \in Reviews, NEW t \in Ticket, FinishReviewReconciliationRequired(r, t) PROVE KeepsTerminal
  BY <1>13 DEF FinishReviewReconciliationRequired
<1>14. ASSUME NEW r \in Reviews, NEW t \in Ticket, FinishReviewDone(r, t) PROVE KeepsTerminal
  BY <1>14 DEF FinishReviewDone
<1>15. ASSUME NEW r \in Reviews, NEW t \in Ticket, FinishReviewFailed(r, t) PROVE KeepsTerminal
  BY <1>15 DEF FinishReviewFailed
<1>16. ASSUME NEW r \in Reviews, NEW t \in Ticket, RequeueReview(r, t) PROVE KeepsTerminal
  BY <1>16 DEF RequeueReview
<1>17. ASSUME NEW r \in Reviews, NEW k \in Items, HandoffElapses(r, k) PROVE KeepsTerminal
  BY <1>17 DEF HandoffElapses
<1>18. ASSUME UNCHANGED vars PROVE KeepsTerminal
  BY <1>18 DEF vars
<1> QED
  BY <1>1, <1>2, <1>3, <1>4, <1>5, <1>6, <1>7, <1>8, <1>9,
     <1>10, <1>11, <1>12, <1>13, <1>14, <1>15, <1>16, <1>17, <1>18
  DEF Next, QueueStep, OutboxStep, FinishStep

(* A finished review and its outbox never change again.                    *)
THEOREM Final == Spec => TerminalIsFinal
<1>1. TypeOK /\ [Next]_vars => [KeepsTerminal]_vars
  BY KeepsTerminalStep
<1> QED  BY <1>1, TypeCorrect, PTL DEF Spec, TerminalIsFinal, KeepsTerminal

(* OldTermsAreFenced, as a predicate on one step.                          *)
Fenced ==
  \A r \in Reviews :
    rev[r].status = "running" /\ rev[r].fence < lease.fence =>
      /\ pub'[r] = pub[r]
      /\ rev'[r] = rev[r] \/ (~HandoffOpen(r) /\ rev'[r].status = "queued")

(* A ticket that matches both the lease and the row matches a row of the   *)
(* current fence; recovery is the only other writer of a running row.      *)
LEMMA FencedStep == TypeOK /\ [Next]_vars => Fenced
<1> SUFFICES ASSUME TypeOK, [Next]_vars PROVE Fenced
  OBVIOUS
<1> USE LeaseAssumption, StoreAssumption DEF TypeOK, Fenced, LeaseRow, ReviewRow, SetRow, SetPub, HoldsReview, HoldsLease
<1>1. ASSUME LeaseStep PROVE Fenced
  BY <1>1 DEF LeaseStep, LeaseNext, Acquire, Extend, Lapse, storeVars, LeaseRow
<1>2. ASSUME NEW r \in Reviews, CreateReview(r) PROVE Fenced
  BY <1>2 DEF CreateReview
<1>3. ASSUME NEW r \in Reviews, RetryDue(r) PROVE Fenced
  BY <1>3 DEF RetryDue
<1>4. ASSUME NEW p \in Procs, NEW f \in 1 .. MaxFence,
             RecoverInterruptedReviews(p, f) PROVE Fenced
  BY <1>4 DEF RecoverInterruptedReviews, Interrupted
<1>5. ASSUME NEW p \in Procs, NEW f \in 1 .. MaxFence, NEW r \in Reviews,
             ClaimNextQueuedReview(r, p, f) PROVE Fenced
  BY <1>5 DEF ClaimNextQueuedReview, Claimable
<1>6. ASSUME NEW r \in Reviews, NEW t \in Ticket, NEW v \in Revisions,
             SetReviewRevision(r, t, v) PROVE Fenced
  BY <1>6 DEF SetReviewRevision
<1>7. ASSUME NEW r \in Reviews, NEW t \in Ticket, NEW n \in 0 .. MaxInline,
             NEW v \in Revisions, PrepareReviewPublication(r, t, n, v) PROVE Fenced
  BY <1>7 DEF PrepareReviewPublication
<1>8. ASSUME NEW r \in Reviews, NEW t \in Ticket, NEW k \in Items,
             ClaimPending(r, k, t) PROVE Fenced
  BY <1>8 DEF ClaimPending
<1>9. ASSUME NEW r \in Reviews, NEW t \in Ticket, NEW k \in Items,
             ExpireSend(r, k, t) PROVE Fenced
  BY <1>9 DEF ExpireSend
<1>10. ASSUME NEW r \in Reviews, NEW t \in Ticket, NEW k \in Items,
             BeginPublicationSend(r, k, t) PROVE Fenced
  BY <1>10 DEF BeginPublicationSend
<1>11. ASSUME NEW r \in Reviews, NEW t \in Ticket, NEW k \in Items,
             MarkPublicationPosted(r, k, t) PROVE Fenced
  BY <1>11 DEF MarkPublicationPosted
<1>12. ASSUME NEW r \in Reviews, NEW t \in Ticket, NEW k \in Items,
             MarkPublicationReconciliationRequired(r, k, t) PROVE Fenced
  BY <1>12 DEF MarkPublicationReconciliationRequired
<1>13. ASSUME NEW r \in Reviews, NEW t \in Ticket, FinishReviewReconciliationRequired(r, t) PROVE Fenced
  BY <1>13 DEF FinishReviewReconciliationRequired
<1>14. ASSUME NEW r \in Reviews, NEW t \in Ticket, FinishReviewDone(r, t) PROVE Fenced
  BY <1>14 DEF FinishReviewDone
<1>15. ASSUME NEW r \in Reviews, NEW t \in Ticket, FinishReviewFailed(r, t) PROVE Fenced
  BY <1>15 DEF FinishReviewFailed
<1>16. ASSUME NEW r \in Reviews, NEW t \in Ticket, RequeueReview(r, t) PROVE Fenced
  BY <1>16 DEF RequeueReview
<1>17. ASSUME NEW r \in Reviews, NEW k \in Items, HandoffElapses(r, k) PROVE Fenced
  BY <1>17 DEF HandoffElapses
<1>18. ASSUME UNCHANGED vars PROVE Fenced
  BY <1>18 DEF vars
<1> QED
  BY <1>1, <1>2, <1>3, <1>4, <1>5, <1>6, <1>7, <1>8, <1>9,
     <1>10, <1>11, <1>12, <1>13, <1>14, <1>15, <1>16, <1>17, <1>18
  DEF Next, QueueStep, OutboxStep, FinishStep

(* No transaction of any term changes a running row claimed under an older *)
(* one, except to requeue it once its sends are out of their window.       *)
THEOREM Fencing == Spec => OldTermsAreFenced
<1>1. TypeOK /\ [Next]_vars => [Fenced]_vars
  BY FencedStep
<1> QED  BY <1>1, TypeCorrect, PTL DEF Spec, OldTermsAreFenced, Fenced

(* A review stays with its pull request.                                   *)
KeepsPull == \A r \in Reviews : rev'[r].pr = rev[r].pr

LEMMA KeepsPullStep == TypeOK /\ [Next]_vars => KeepsPull
<1> SUFFICES ASSUME TypeOK, [Next]_vars PROVE KeepsPull
  OBVIOUS
<1> USE DEF KeepsPull
<1>0. \A r \in Reviews : rev[r] \in ReviewRow
  BY DEF TypeOK
<1>1. CASE UNCHANGED rev
  BY <1>1
<1>2. ASSUME NEW r \in Reviews, NEW row, SetRow(r, row), row.pr = rev[r].pr PROVE KeepsPull
  BY <1>2 DEF SetRow, TypeOK
<1>3. ASSUME NEW p \in Procs, NEW f \in 1 .. MaxFence, RecoverInterruptedReviews(p, f) PROVE KeepsPull
  BY <1>3, <1>0 DEF RecoverInterruptedReviews, ReviewRow
<1>4. ASSUME NEW r \in Reviews, NEW t \in Ticket,
             \/ \E v \in Revisions : SetReviewRevision(r, t, v)
             \/ \E n \in 0 .. MaxInline, v \in Revisions : PrepareReviewPublication(r, t, n, v)
             \/ FinishStep(r, t)
      PROVE  KeepsPull
  <2>1. \A st, v :
          /\ [rev[r] EXCEPT !.status = st].pr = rev[r].pr
          /\ [rev[r] EXCEPT !.status = st, !.owner = NoProc].pr = rev[r].pr
          /\ [rev[r] EXCEPT !.head = v].pr = rev[r].pr
          /\ [rev[r] EXCEPT !.commit = v].pr = rev[r].pr
    BY <1>0 DEF ReviewRow
  <2> QED  BY <1>2, <1>4, <2>1
           DEF SetReviewRevision, PrepareReviewPublication, FinishStep,
               FinishReviewReconciliationRequired, FinishReviewDone, FinishReviewFailed, RequeueReview
<1>5. ASSUME NEW r \in Reviews, NEW p \in Procs, NEW f \in 1 .. MaxFence, ClaimNextQueuedReview(r, p, f) PROVE KeepsPull
  <2>1. \A g : [rev[r] EXCEPT !.status = "running", !.owner = p, !.fence = f, !.gen = g].pr = rev[r].pr
    BY <1>0 DEF ReviewRow
  <2> QED  BY <1>2, <1>5, <2>1 DEF ClaimNextQueuedReview
<1>6. ASSUME NEW r \in Reviews, NEW t \in Ticket, NEW k \in Items,
             \/ ClaimPending(r, k, t) \/ ExpireSend(r, k, t) \/ BeginPublicationSend(r, k, t)
             \/ MarkPublicationPosted(r, k, t) \/ MarkPublicationReconciliationRequired(r, k, t)
      PROVE  UNCHANGED rev
  BY <1>6 DEF ClaimPending, ExpireSend, BeginPublicationSend, MarkPublicationPosted,
              MarkPublicationReconciliationRequired
<1>7. ASSUME LeaseStep \/ UNCHANGED vars PROVE UNCHANGED rev
  BY <1>7 DEF LeaseStep, storeVars, vars
<1>8. ASSUME NEW r \in Reviews, NEW k \in Items, RetryDue(r) \/ HandoffElapses(r, k) PROVE UNCHANGED rev
  BY <1>8 DEF RetryDue, HandoffElapses
<1>9. CASE \E r \in Reviews : CreateReview(r)
  <2> PICK r \in Reviews : CreateReview(r)
    BY <1>9
  <2>1. [rev[r] EXCEPT !.status = "queued"].pr = rev[r].pr
    BY <1>0 DEF ReviewRow
  <2> QED  BY <1>2, <2>1 DEF CreateReview
<1>10. CASE \E r \in Reviews : RetryDue(r)
  BY <1>10, <1>1 DEF RetryDue
<1> QED
  BY <1>1, <1>3, <1>4, <1>5, <1>6, <1>7, <1>8, <1>9, <1>10 DEF Next, QueueStep, OutboxStep

(* Executions are numbered upwards, and a row only starts to run under a   *)
(* new number.                                                             *)
KeepsRuns ==
  \A r \in Reviews :
    /\ rev'[r].gen >= rev[r].gen
    /\ rev'[r].status = "running" /\ rev'[r].gen = rev[r].gen => rev[r].status = "running"

LEMMA KeepsRunsStep == TypeOK /\ [Next]_vars => KeepsRuns
<1> SUFFICES ASSUME TypeOK, [Next]_vars PROVE KeepsRuns
  OBVIOUS
<1>0. \A r \in Reviews : rev[r] \in ReviewRow /\ rev[r].gen \in Nat
  BY DEF TypeOK, ReviewRow
<1>1. CASE UNCHANGED rev
  BY <1>0, <1>1 DEF KeepsRuns
<1>2. ASSUME NEW r \in Reviews, NEW row, SetRow(r, row), row.gen >= rev[r].gen,
             row.status = "running" /\ row.gen = rev[r].gen => rev[r].status = "running"
      PROVE  KeepsRuns
  <2>1. rev'[r] = row /\ \A q \in Reviews : q # r => rev'[q] = rev[q]
    BY <1>2 DEF SetRow, TypeOK
  <2> QED  BY <1>0, <1>2, <2>1 DEF KeepsRuns
<1>3. ASSUME NEW p \in Procs, NEW f \in 1 .. MaxFence, RecoverInterruptedReviews(p, f) PROVE KeepsRuns
  <2> DEFINE back(r) == [rev[r] EXCEPT !.status = "queued", !.owner = NoProc]
  <2>1. \A r \in Reviews : back(r).gen = rev[r].gen /\ back(r).status = "queued"
    BY <1>0 DEF ReviewRow
  <2>2. rev' = [r \in Reviews |-> IF Interrupted(r, f) THEN back(r) ELSE rev[r]]
    BY <1>3, Zenon DEF RecoverInterruptedReviews
  <2> HIDE DEF back
  <2>3. \A r \in Reviews : rev'[r] = rev[r] \/ (rev'[r].gen = rev[r].gen /\ rev'[r].status = "queued")
    BY <2>1, <2>2
  <2> QED  BY <1>0, <2>3 DEF KeepsRuns
<1>4. ASSUME NEW r \in Reviews, NEW t \in Ticket,
             \/ \E v \in Revisions : SetReviewRevision(r, t, v)
             \/ \E n \in 0 .. MaxInline, v \in Revisions : PrepareReviewPublication(r, t, n, v)
             \/ FinishStep(r, t)
      PROVE  KeepsRuns
  <2>1. HoldsReview(r, t)
    BY <1>4 DEF SetReviewRevision, PrepareReviewPublication, FinishStep,
               FinishReviewReconciliationRequired, FinishReviewDone, FinishReviewFailed, RequeueReview
  <2>2. \A st, v :
          /\ [rev[r] EXCEPT !.status = st].gen = rev[r].gen
          /\ [rev[r] EXCEPT !.status = st, !.owner = NoProc].gen = rev[r].gen
          /\ [rev[r] EXCEPT !.head = v].gen = rev[r].gen
          /\ [rev[r] EXCEPT !.commit = v].gen = rev[r].gen
    BY <1>0 DEF ReviewRow
  <2>3. ASSUME NEW row, SetRow(r, row), row.gen = rev[r].gen PROVE KeepsRuns
    BY <1>0, <1>2, <2>1, <2>3 DEF HoldsReview
  <2> QED
    BY <1>4, <2>2, <2>3
       DEF SetReviewRevision, PrepareReviewPublication, FinishStep,
           FinishReviewReconciliationRequired, FinishReviewDone, FinishReviewFailed, RequeueReview
<1>5. ASSUME NEW r \in Reviews, NEW p \in Procs, NEW f \in 1 .. MaxFence, ClaimNextQueuedReview(r, p, f)
      PROVE  KeepsRuns
  <2> DEFINE row == [rev[r] EXCEPT !.status = "running", !.owner = p, !.fence = f, !.gen = rev[r].gen + 1]
  <2>1. row.gen = rev[r].gen + 1
    BY <1>0 DEF ReviewRow
  <2>2. SetRow(r, row)
    BY <1>5 DEF ClaimNextQueuedReview
  <2> HIDE DEF row
  <2>3. row.gen >= rev[r].gen /\ row.gen # rev[r].gen
    BY <1>0, <2>1
  <2> QED  BY <1>2, <2>2, <2>3
<1>6. ASSUME NEW r \in Reviews, NEW t \in Ticket, NEW k \in Items,
             \/ ClaimPending(r, k, t) \/ ExpireSend(r, k, t) \/ BeginPublicationSend(r, k, t)
             \/ MarkPublicationPosted(r, k, t) \/ MarkPublicationReconciliationRequired(r, k, t)
      PROVE  UNCHANGED rev
  BY <1>6 DEF ClaimPending, ExpireSend, BeginPublicationSend, MarkPublicationPosted,
              MarkPublicationReconciliationRequired
<1>7. ASSUME LeaseStep \/ UNCHANGED vars PROVE UNCHANGED rev
  BY <1>7 DEF LeaseStep, storeVars, vars
<1>8. ASSUME NEW r \in Reviews, NEW k \in Items, HandoffElapses(r, k) PROVE UNCHANGED rev
  BY <1>8 DEF HandoffElapses
<1>9. CASE \E r \in Reviews : CreateReview(r)
  <2> PICK r \in Reviews : CreateReview(r)
    BY <1>9
  <2> DEFINE row == [rev[r] EXCEPT !.status = "queued"]
  <2>1. row.gen = rev[r].gen /\ row.status = "queued"
    BY <1>0 DEF ReviewRow
  <2>2. SetRow(r, row)
    BY DEF CreateReview
  <2> HIDE DEF row
  <2> QED  BY <1>0, <1>2, <2>1, <2>2
<1>10. CASE \E r \in Reviews : RetryDue(r)
  BY <1>10, <1>1 DEF RetryDue
<1> QED
  BY <1>1, <1>3, <1>4, <1>5, <1>6, <1>7, <1>8, <1>9, <1>10 DEF Next, QueueStep, OutboxStep
================================================================================
