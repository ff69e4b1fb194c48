------------------------------ MODULE ReviewStore ------------------------------
(***************************************************************************)
(* The durable review queue and its publication outbox:                    *)
(* src/internal/store/reviews.go over the service lease of leases.go.      *)
(*                                                                         *)
(* Every store method is one SQLite transaction, so every one is one       *)
(* action here.  A worker identifies itself by a ticket: the owner token   *)
(* and fence its engine was granted and the execution generation its claim *)
(* created.  Next lets any ticket call any method at any moment, so what   *)
(* holds here holds whatever the engine above does; ReviewEngine composes  *)
(* the same actions into the worker's program.                             *)
(*                                                                         *)
(* Abstracted: message bodies, findings, model and key columns; wall-clock *)
(* columns are kept as what the code reads off them, "due" for             *)
(* next_attempt_at and "fresh" for send_started_at.  The delivery and rate *)
(* checks of CreateReviewWithAdmission only decide whether a row is added, *)
(* and are left to the environment's choice.                               *)
(***************************************************************************)
EXTENDS LeaseTerm, FiniteSets

CONSTANTS
  MaxReviews,   \* bound: rows of the reviews table
  MaxInline,    \* bound: inline findings of a publication plan
  MaxGen,       \* bound: executions of one review
  MaxActive,    \* admission.MaxActive
  PRs,          \* (repository id, pull request) pairs
  Revisions,    \* revisions a pull request can be at
  NoRevision

ASSUME StoreAssumption ==
  /\ MaxReviews \in Nat /\ MaxInline \in Nat /\ MaxGen \in Nat /\ MaxActive \in Nat
  /\ NoRevision \notin Revisions

VARIABLES
  rev,     \* rev[r]: row r of reviews
  pub,     \* pub[r][k]: row of review_publications, 0 the summary, k inline k
  due,     \* reviews whose next_attempt_at is empty or has passed
  fresh    \* rows in "sending" begun less than OutboundHandoffTimeout ago

storeVars == <<rev, pub, due, fresh>>
vars == <<lease, rev, pub, due, fresh>>

Reviews == 1 .. MaxReviews
Items   == 0 .. MaxInline

Active   == {"queued", "running", "reconciliation_required"}
Terminal == {"done", "failed"}
Uncertain == {"sending", "reconciliation_required"}

ReviewRow == [status : Active \cup Terminal \cup {"none"},
              pr : PRs,
              gen : Nat,
              owner : Procs \cup {NoProc},
              fence : Nat,
              head : Revisions \cup {NoRevision},
              commit : Revisions \cup {NoRevision}]

Publication == [status : {"none", "pending", "sending", "posted", "reconciliation_required"},
                owner : Procs \cup {NoProc},
                fence : Nat]

Ticket == [owner : Procs, fence : 1 .. MaxFence, gen : 1 .. MaxGen]

Absent == [status |-> "none", owner |-> NoProc, fence |-> 0]
Unowned(status) == [status |-> status, owner |-> NoProc, fence |-> 0]
Owned(status, t) == [status |-> status, owner |-> t.owner, fence |-> t.fence]

TypeOK ==
  /\ lease \in LeaseRow
  /\ rev \in [Reviews -> ReviewRow]
  /\ pub \in [Reviews -> [Items -> Publication]]
  /\ due \subseteq Reviews
  /\ fresh \subseteq Reviews \X Items

Init ==
  /\ LeaseInit
  /\ rev \in [Reviews -> {[status |-> "none", pr |-> p, gen |-> 0, owner |-> NoProc,
                           fence |-> 0, head |-> NoRevision, commit |-> NoRevision] : p \in PRs}]
  /\ pub = [r \in Reviews |-> [k \in Items |-> Absent]]
  /\ due = {}
  /\ fresh = {}

(***************************************************************************)
(* Reading the rows.                                                       *)
(***************************************************************************)

IsActive(r) == rev[r].status \in Active

(* publication_prepared: set in the transaction that inserts the summary.  *)
Prepared(r) == pub[r][0].status # "none"

(* A POST of r may still be in somebody's hands.                           *)
HandoffOpen(r) == \E k \in Items : <<r, k>> \in fresh

(* requireReviewLeaseTx: the service lease, then the row's own claim.      *)
HoldsReview(r, t) ==
  /\ HoldsLease(t.owner, t.fence)
  /\ rev[r].status = "running"
  /\ rev[r].owner = t.owner /\ rev[r].fence = t.fence /\ rev[r].gen = t.gen

SetRow(r, row) == rev' = [rev EXCEPT ![r] = row]
SetPub(r, k, row) == pub' = [pub EXCEPT ![r][k] = row]

(***************************************************************************)
(* Intake and the queue.                                                   *)
(***************************************************************************)

(* Mutant: the index forgets quarantined reviews.                          *)
SlotFreeOfWork(r) ==
  \A q \in Reviews : rev[q].status \in {"queued", "running"} => rev[q].pr # rev[r].pr

(* reviews_one_active: the partial unique index on the pull request.       *)
SlotFree(r) == \A q \in Reviews : IsActive(q) => rev[q].pr # rev[r].pr

(* CreateReviewWithAdmission, when it inserts: ids are handed out in       *)
(* order, the index admits one active review per pull request, and the     *)
(* queue has a capacity.                                                   *)
CreateReview(r) ==
  /\ rev[r].status = "none"
  /\ \A q \in Reviews : q < r => rev[q].status # "none"
  /\ SlotFree(r)
  /\ Cardinality({q \in Reviews : IsActive(q)}) < MaxActive
  /\ SetRow(r, [rev[r] EXCEPT !.status = "queued"])
  /\ due' = due \cup {r}
  /\ UNCHANGED <<lease, pub, fresh>>

Claimable(r) ==
  /\ rev[r].status \in {"queued", "reconciliation_required"}
  /\ r \in due
  /\ rev[r].gen < MaxGen   \* bound

(* ClaimNextQueuedReview: the oldest row that is due, a quarantined one    *)
(* like any other, becomes a new execution under the caller's term.        *)
ClaimNextQueuedReview(r, p, f) ==
  /\ HoldsLease(p, f)
  /\ Claimable(r)
  /\ \A q \in Reviews : Claimable(q) => r <= q
  /\ SetRow(r, [rev[r] EXCEPT !.status = "running", !.owner = p, !.fence = f,
                              !.gen = rev[r].gen + 1])
  /\ UNCHANGED <<lease, pub, due, fresh>>

(* Mutant: recovery does not wait for outbound handoffs.                   *)
InterruptedAtOnce(r, f) == rev[r].status = "running" /\ rev[r].fence < f

(* A row left running by an older term, none of whose sends is still       *)
(* within its handoff window.                                              *)
Interrupted(r, f) ==
  rev[r].status = "running" /\ rev[r].fence < f /\ ~HandoffOpen(r)

RecoverInterruptedReviews(p, f) ==
  /\ HoldsLease(p, f)
  /\ rev' = [r \in Reviews |->
               IF Interrupted(r, f)
               THEN [rev[r] EXCEPT !.status = "queued", !.owner = NoProc]
               ELSE rev[r]]
  /\ due' = due \cup {r \in Reviews : Interrupted(r, f)}
  /\ UNCHANGED <<lease, pub, fresh>>

SetReviewRevision(r, t, v) ==
  /\ HoldsReview(r, t)
  /\ SetRow(r, [rev[r] EXCEPT !.head = v])
  /\ UNCHANGED <<lease, pub, due, fresh>>

(***************************************************************************)
(* The publication outbox.                                                 *)
(***************************************************************************)

(* PrepareReviewPublication: the summary and n inline comments, all for    *)
(* one commit, once per review.                                            *)
PrepareReviewPublication(r, t, n, v) ==
  /\ HoldsReview(r, t)
  /\ ~Prepared(r)
  /\ pub' = [pub EXCEPT ![r] = [k \in Items |-> IF k <= n THEN Unowned("pending") ELSE Absent]]
  /\ SetRow(r, [rev[r] EXCEPT !.commit = v])
  /\ UNCHANGED <<lease, due, fresh>>

(* ClaimPublicationForSend answers from the row and changes it in two      *)
(* cases.  A pending one that another claim (or none) holds is taken over: *)
ClaimPending(r, k, t) ==
  /\ HoldsReview(r, t)
  /\ pub[r][k].status = "pending"
  /\ pub[r][k] # Owned("pending", t)
  /\ SetPub(r, k, Owned("pending", t))
  /\ UNCHANGED <<lease, rev, due, fresh>>

(* Mutant: a send that timed out is taken back.                            *)
ExpireToPending(r, k, t) ==
  /\ HoldsReview(r, t)
  /\ pub[r][k].status = "sending"
  /\ <<r, k>> \notin fresh
  /\ SetPub(r, k, Unowned("pending"))
  /\ UNCHANGED <<lease, rev, due, fresh>>

(* and a send whose handoff window has passed becomes marker-only.         *)
ExpireSend(r, k, t) ==
  /\ HoldsReview(r, t)
  /\ pub[r][k].status = "sending"
  /\ <<r, k>> \notin fresh
  /\ SetPub(r, k, Unowned("reconciliation_required"))
  /\ UNCHANGED <<lease, rev, due, fresh>>

BeginPublicationSend(r, k, t) ==
  /\ HoldsReview(r, t)
  /\ pub[r][k] = Owned("pending", t)
  /\ SetPub(r, k, Owned("sending", t))
  /\ fresh' = fresh \cup {<<r, k>>}
  /\ UNCHANGED <<lease, rev, due>>

(* MarkPublicationPosted records the comment of a send of this claim, or   *)
(* of any quarantined one; for one already posted it changes nothing.      *)
MarkPublicationPosted(r, k, t) ==
  /\ HoldsReview(r, t)
  /\ \/ pub[r][k].status = "reconciliation_required"
     \/ pub[r][k] \in {Owned("sending", t), Owned("pending", t)}
  /\ SetPub(r, k, Unowned("posted"))
  /\ fresh' = fresh \ {<<r, k>>}
  /\ UNCHANGED <<lease, rev, due>>

MarkPublicationReconciliationRequired(r, k, t) ==
  /\ HoldsReview(r, t)
  /\ pub[r][k].status \in {"sending", "pending", "reconciliation_required"}
  /\ SetPub(r, k, Unowned("reconciliation_required"))
  /\ fresh' = fresh \ {<<r, k>>}
  /\ UNCHANGED <<lease, rev, due>>

(***************************************************************************)
(* Leaving an execution.                                                   *)
(***************************************************************************)

FinishReviewReconciliationRequired(r, t) ==
  /\ HoldsReview(r, t)
  /\ SetRow(r, [rev[r] EXCEPT !.status = "reconciliation_required", !.owner = NoProc])
  /\ due' = due \ {r}
  /\ UNCHANGED <<lease, pub, fresh>>

AllPosted(r) ==
  /\ pub[r][0].status = "posted"
  /\ \A k \in Items : pub[r][k].status \in {"none", "posted"}

FinishReviewDone(r, t) ==
  /\ HoldsReview(r, t)
  /\ AllPosted(r)
  /\ SetRow(r, [rev[r] EXCEPT !.status = "done"])
  /\ UNCHANGED <<lease, pub, due, fresh>>

FinishReviewFailed(r, t) ==
  /\ HoldsReview(r, t)
  /\ SetRow(r, [rev[r] EXCEPT !.status = "failed"])
  /\ UNCHANGED <<lease, pub, due, fresh>>

DropClaim(row) == IF row.status = "pending" THEN Unowned("pending") ELSE row

(* The plan survives; claims on its pending rows are dropped with it.      *)
RequeueReview(r, t) ==
  /\ HoldsReview(r, t)
  /\ SetRow(r, [rev[r] EXCEPT !.status = "queued", !.owner = NoProc])
  /\ pub' = [pub EXCEPT ![r] = [k \in Items |-> DropClaim(pub[r][k])]]
  /\ due' = due \ {r}
  /\ UNCHANGED <<lease, fresh>>

(***************************************************************************)
(* Time.                                                                   *)
(***************************************************************************)

(* next_attempt_at passes.  A quarantine retries after five minutes, later *)
(* than the handoff window of any send made before it.                     *)
RetryDue(r) ==
  /\ rev[r].status \in {"queued", "reconciliation_required"} /\ r \notin due
  /\ rev[r].status = "reconciliation_required" => ~HandoffOpen(r)
  /\ due' = due \cup {r}
  /\ UNCHANGED <<lease, rev, pub, fresh>>

HandoffElapses(r, k) ==
  /\ <<r, k>> \in fresh
  /\ fresh' = fresh \ {<<r, k>>}
  /\ UNCHANGED <<lease, rev, pub, due>>

LeaseStep == LeaseNext /\ UNCHANGED storeVars

(***************************************************************************)
(* Any caller.                                                             *)
(***************************************************************************)

QueueStep ==
  \/ \E r \in Reviews : CreateReview(r) \/ RetryDue(r)
  \/ \E p \in Procs, f \in 1 .. MaxFence :
       \/ RecoverInterruptedReviews(p, f)
       \/ \E r \in Reviews : ClaimNextQueuedReview(r, p, f)

OutboxStep(r, t) ==
  \/ \E n \in 0 .. MaxInline, v \in Revisions : PrepareReviewPublication(r, t, n, v)
  \/ \E k \in Items :
       \/ ClaimPending(r, k, t)
       \/ ExpireSend(r, k, t)
       \/ BeginPublicationSend(r, k, t)
       \/ MarkPublicationPosted(r, k, t)
       \/ MarkPublicationReconciliationRequired(r, k, t)

FinishStep(r, t) ==
  \/ FinishReviewReconciliationRequired(r, t)
  \/ FinishReviewDone(r, t)
  \/ FinishReviewFailed(r, t)
  \/ RequeueReview(r, t)

Next ==
  \/ LeaseStep
  \/ QueueStep
  \/ \E r \in Reviews, t \in Ticket :
       \/ \E v \in Revisions : SetReviewRevision(r, t, v)
       \/ OutboxStep(r, t)
       \/ FinishStep(r, t)
  \/ \E r \in Reviews, k \in Items : HandoffElapses(r, k)

Spec == Init /\ [][Next]_vars

(***************************************************************************)
(* Properties of the store, whatever calls it.                             *)
(***************************************************************************)

(* The unique index through every transition: recovery, requeue and        *)
(* quarantine bring rows back without ever making two of them active for   *)
(* one pull request.                                                       *)
OneActivePerPR ==
  \A q, r \in Reviews : IsActive(q) /\ IsActive(r) /\ rev[q].pr = rev[r].pr => q = r

(* Every running row was claimed under a term that was really granted, and *)
(* one that carries the current fence carries the current owner.           *)
ClaimedUnderTerm ==
  \A r \in Reviews : rev[r].status = "running" =>
    /\ rev[r].gen >= 1
    /\ rev[r].fence \in 1 .. lease.fence
    /\ rev[r].fence = lease.fence => rev[r].owner = lease.owner

(* A review is done only when GitHub's acknowledgement of its summary and  *)
(* of every inline comment of its plan is on record, and stays so.         *)
DoneMeansDelivered ==
  \A r \in Reviews : rev[r].status = "done" =>
    /\ pub[r][0].status = "posted"
    /\ \A k \in Items : pub[r][k].status \in {"none", "posted"}

(* Once a POST may have left, no crash, recovery, retry or takeover makes  *)
(* its row sendable again, and a recorded comment is never unrecorded.     *)
OutboxNeverRewinds ==
  [][\A r \in Reviews, k \in Items :
       /\ pub[r][k].status \in Uncertain => pub'[r][k].status \in Uncertain \cup {"posted"}
       /\ pub[r][k].status = "posted" => pub'[r][k].status = "posted"]_vars

(* A finished review never changes again, nor does its outbox: a stale     *)
(* worker can neither revive it nor overwrite its outcome.                 *)
TerminalIsFinal ==
  [][\A r \in Reviews : rev[r].status \in Terminal =>
       rev'[r] = rev[r] /\ pub'[r] = pub[r]]_vars

(* A row left running by an older term is frozen while one of its POSTs    *)
(* may still be in flight, and afterwards the only thing that can happen   *)
(* to it is recovery, which leaves the outbox as it was.                   *)
OldTermsAreFenced ==
  [][\A r \in Reviews :
       rev[r].status = "running" /\ rev[r].fence < lease.fence =>
         /\ pub'[r] = pub[r]
         /\ rev'[r] = rev[r] \/ (~HandoffOpen(r) /\ rev'[r].status = "queued")]_vars

==============================================================================
