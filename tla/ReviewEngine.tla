------------------------------ MODULE ReviewEngine ------------------------------
(***************************************************************************)
(* The review engine of src/internal/bot/engine.go: processes that start,  *)
(* hold or lose the service lease, stop or crash; their workers, which     *)
(* take reviews from the store and carry them to the pull request; and     *)
(* GitHub, where the pull request moves and comments appear.               *)
(*                                                                         *)
(* A worker's program is cut where another actor can come between: every   *)
(* store transaction, every GitHub read and every POST is a step.  A lease *)
(* check and the read that follows it are one step, since nothing is       *)
(* written by the read; a check and the POST that follows it are two.  A   *)
(* running row is only ever written under its own claim (OldTermsAreFenced *)
(* in ReviewStore), so the worker's listing of its outbox is read from the *)
(* rows when it is used.                                                   *)
(*                                                                         *)
(* Abstracted: reactions, progress events and logs; the key pool and the   *)
(* agent, which either produce a review or one class of error; access      *)
(* notifications, which share the workers but not the reviews.             *)
(***************************************************************************)
EXTENDS ReviewStore, EngineLease

CONSTANTS
  PerEngine,    \* workers of one engine
  MaxAttempts,  \* maxDeliveryAttempts
  Shas,         \* commits a pull request can point at
  MaxPush,      \* bound: pushes to one pull request
  MaxSecond     \* bound: seconds in which one is updated

(* Revision: the commit, how many pushes led to it, which no program sees, *)
(* and updated_at, in the seconds that GitHub gives it in.                 *)
ASSUME EngineAssumption ==
  /\ MaxAttempts \in Nat /\ MaxPush \in Nat /\ MaxSecond \in Nat
  /\ Revisions = [sha : Shas, push : 0 .. MaxPush, second : 0 .. MaxSecond]

VARIABLES
  wk,       \* wk[w]: worker w = <<process, number>>
  prs,      \* prs[x]: the revision pull request x is at
  remote    \* remote[r][k]: POSTs of comment k under way, and comments it made

engineVars == <<eng, wk, prs, remote>>
allVars == <<lease, rev, pub, due, fresh, eng, wk, prs, remote>>

Workers == Procs \X (1 .. PerEngine)

Resting(pc) == [pc |-> pc, r |-> 0, fence |-> 0, gen |-> 0, prep |-> FALSE,
                head |-> NoRevision, files |-> NoRevision, diff |-> NoRevision,
                k |-> 0, err |-> {}, late |-> FALSE]

EngineInit ==
  /\ Init
  /\ EngineLeaseInit
  /\ wk = [w \in Workers |-> Resting("gone")]
  /\ prs \in [PRs -> {[sha |-> s, push |-> 0, second |-> 0] : s \in Shas}]
  /\ remote = [r \in Reviews |-> [k \in Items |-> [flying |-> 0, landed |-> 0]]]

(***************************************************************************)
(* Looking around.                                                         *)
(***************************************************************************)

At(w, pc) == wk[w].pc = pc
TicketOf(w) == [owner |-> w[1], fence |-> wk[w].fence, gen |-> wk[w].gen]
PullOf(w) == prs[rev[wk[w].r].pr]

(* ctx.Err: the review's deadline, or the engine's cancellation.           *)
ContextError(w) ==
  IF wk[w].late THEN {"retry"}
  ELSE IF eng[w[1]].phase # "running" THEN {"canceled"}
  ELSE {}

(* reviewSideEffectError                                                   *)
SideEffectError(w) ==
  IF ~ServiceLeaseOwned(w[1]) THEN {"lost"}
  ELSE IF ContextError(w) # {} THEN ContextError(w)
  ELSE IF ~HoldsReview(wk[w].r, TicketOf(w)) THEN {"lost"}
  ELSE {}

(* Mutant: the revision token is the commit.                               *)
SameCommit(u, v) == u.sha = v.sha

(* RevisionToken is the commit and updated_at.                             *)
SameRevision(u, v) == u.sha = v.sha /\ u.second = v.second

(* Mutant: an uncertain comment is taken to have been posted.              *)
MarkerAssumed(r, k) == TRUE

MarkerFound(r, k) == remote[r][k].landed > 0

(***************************************************************************)
(* Moving on.                                                              *)
(***************************************************************************)

Leave(w)       == wk' = [wk EXCEPT ![w] = Resting("idle")]
Go(w, pc)      == wk' = [wk EXCEPT ![w].pc = pc]
Raise(w, errs) == wk' = [wk EXCEPT ![w].pc = "failing", ![w].err = errs]
Doubt(w, errs) == wk' = [wk EXCEPT ![w].pc = "uncertain", ![w].err = errs]

Elsewhere == UNCHANGED <<prs, remote>>

(* A step of worker w that found every check in order.                     *)
Check(w, pc) == At(w, pc) /\ SideEffectError(w) = {} /\ UNCHANGED eng /\ Elsewhere

(* Where an error goes: handed to handleReviewError, joined there with     *)
(* ErrPublicationReconcile, or recorded in the outbox first.               *)
RaisePoints  == {"claimed", "acking", "resuming", "listing", "files", "rechecking", "diff",
                 "agent", "finalcheck", "publishing", "preflight", "confirming", "beginning"}
MarkerPoints == {"reconciling", "settling"}
SendPoints   == {"sending", "awaiting", "marking"}
CallPoints   == (RaisePoints \ {"publishing", "beginning"}) \cup MarkerPoints

(* Where a failed check just returns and leaves the row running.           *)
DropPoints == {"claimed", "acking", "listing", "rechecking", "finalcheck", "preparing", "planned"}

(* Publications of r with an effect nobody has accounted for.              *)
Unsettled(r) == {k \in Items : pub[r][k].status \in Uncertain}

Fails(w, errs) ==
  \/ wk[w].pc \in RaisePoints  /\ Raise(w, errs)
  \/ wk[w].pc \in MarkerPoints /\ Raise(w, errs \cup {"reconcile"})
  \/ wk[w].pc \in SendPoints   /\ Doubt(w, errs)

CheckFails(w) ==
  /\ SideEffectError(w) # {}
  /\ \/ Fails(w, SideEffectError(w))
     \/ wk[w].pc \in DropPoints /\ Leave(w)
  /\ Look(w[1]) /\ Elsewhere /\ UNCHANGED vars

GithubFails(w) ==
  /\ wk[w].pc \in CallPoints
  /\ At(w, "settling") => Unsettled(wk[w].r) # {}
  /\ \E c \in {"retry", "hard"} \cap Faults : Fails(w, {c})
  /\ UNCHANGED eng /\ Elsewhere /\ UNCHANGED vars

(* SQLite answers with an error.  Asked who owns the lease, that costs the *)
(* engine its context; asked to record what became of the review           *)
(* (engine.go:1103, 1130, 1345), it leaves the row running.                *)
DiskFails(w) ==
  /\ "disk" \in Faults
  /\ \/ Fails(w, {"hard"})
     \/ At(w, "recording") /\ Raise(w, {"hard"})
     \/ wk[w].pc \in DropPoints \cup {"failing"} /\ Leave(w)
     \/ At(w, "uncertain") /\ Raise(w, wk[w].err \cup {"reconcile"})
  /\ UNCHANGED eng \/ LookInVain(w[1])
  /\ Elsewhere /\ UNCHANGED vars

Deadline(w) ==
  /\ "deadline" \in Faults
  /\ wk[w].r # 0 /\ ~wk[w].late /\ eng[w[1]].phase = "running"
  /\ wk' = [wk EXCEPT ![w].late = TRUE]
  /\ UNCHANGED eng /\ Elsewhere /\ UNCHANGED vars

(***************************************************************************)
(* The worker loop: recover, claim, process.                               *)
(***************************************************************************)

Working(w) == eng[w[1]].phase = "running" /\ ServiceLeaseOwned(w[1])

WorkerReturns(w) ==
  /\ At(w, "idle") /\ ~Working(w)
  /\ Go(w, "gone")
  /\ Look(w[1]) /\ Elsewhere /\ UNCHANGED vars

(* Mutant: rows are recovered at startup only.                             *)
RecoverNothing(w) ==
  /\ At(w, "idle") /\ Working(w)
  /\ Go(w, "recovered")
  /\ UNCHANGED eng /\ Elsewhere /\ UNCHANGED vars

RecoverExpiredWork(w) ==
  /\ At(w, "idle") /\ Working(w)
  /\ RecoverInterruptedReviews(w[1], eng[w[1]].fence)
  /\ Go(w, "recovered")
  /\ UNCHANGED eng /\ Elsewhere

ClaimReview(w) ==
  /\ At(w, "recovered") /\ Working(w)
  /\ \E r \in Reviews :
       /\ ClaimNextQueuedReview(r, w[1], eng[w[1]].fence)
       /\ wk' = [wk EXCEPT ![w] = [Resting("claimed") EXCEPT
                   !.r = r, !.fence = eng[w[1]].fence, !.gen = rev[r].gen + 1,
                   !.prep = Prepared(r), !.head = rev[r].head]]
  /\ UNCHANGED eng /\ Elsewhere

NothingToClaim(w) ==
  /\ At(w, "recovered")
  /\ ~Working(w) \/ ~\E r \in Reviews : Claimable(r)
  /\ Go(w, "idle")
  /\ Look(w[1]) /\ Elsewhere /\ UNCHANGED vars

(***************************************************************************)
(* processClaimedReview.                                                   *)
(***************************************************************************)

(* Entitlement, then the pull request itself: a prepared plan for another  *)
(* revision is settled, an unprepared one is given up.                     *)
Verify(w) ==
  /\ Check(w, "claimed")
  /\ UNCHANGED vars
  /\ \/ ~eng[w[1]].entitled /\ Raise(w, {"access"})
     \/ /\ eng[w[1]].entitled
        /\ \/ /\ wk[w].prep /\ ~SameRevision(wk[w].head, PullOf(w))
              /\ Go(w, "settling")
           \/ /\ ~wk[w].prep /\ wk[w].head # NoRevision
              /\ ~SameRevision(wk[w].head, PullOf(w))
              /\ Raise(w, {"head"})
           \/ /\ \/ ~wk[w].prep /\ wk[w].head = NoRevision
                 \/ wk[w].head # NoRevision /\ SameRevision(wk[w].head, PullOf(w))
              /\ wk' = [wk EXCEPT ![w].pc = "recording", ![w].head = PullOf(w)]

RecordRevision(w) ==
  /\ At(w, "recording")
  /\ \/ SetReviewRevision(wk[w].r, TicketOf(w), wk[w].head) /\ Go(w, "acking")
     \/ ~HoldsReview(wk[w].r, TicketOf(w)) /\ Raise(w, {"lost"}) /\ UNCHANGED vars
  /\ UNCHANGED eng /\ Elsewhere

(* ensureCurrentRevision, and ensureCurrentHead before a publication.  Its *)
(* SetReviewRevision writes what the row holds already.                    *)
Current(w) ==
  /\ SameRevision(wk[w].head, PullOf(w))
  /\ wk[w].pc \in {"preflight", "confirming"} => rev[wk[w].r].commit.sha = PullOf(w).sha

HeadChanged(w) ==
  /\ \/ \E pc \in {"acking", "listing", "rechecking", "finalcheck", "preflight", "confirming"} :
          Check(w, pc) /\ Raise(w, {"head"})
     \/ Check(w, "resuming") /\ Go(w, "settling")
  /\ ~Current(w)
  /\ UNCHANGED vars

HeadUnchanged(w) ==
  /\ \/ Check(w, "acking") /\ Go(w, IF wk[w].prep THEN "resuming" ELSE "listing")
     \/ Check(w, "resuming") /\ Go(w, "planned")
     \/ Check(w, "listing") /\ Go(w, "files")
     \/ Check(w, "rechecking") /\ Go(w, "diff")
     \/ Check(w, "finalcheck") /\ Go(w, "preparing")
  /\ Current(w)
  /\ UNCHANGED vars

ReadInputs(w) ==
  /\ \/ /\ Check(w, "files")
        /\ wk' = [wk EXCEPT ![w].pc = "rechecking", ![w].files = PullOf(w)]
     \/ /\ Check(w, "diff")
        /\ wk' = [wk EXCEPT ![w].pc = "agent", ![w].diff = PullOf(w)]
  /\ UNCHANGED vars

(* runWithPool: the entitlement is asked again, and the checkout refuses a *)
(* commit that is no longer the head.                                      *)
RunAgent(w) ==
  /\ Check(w, "agent")
  /\ \/ ~eng[w[1]].entitled /\ Raise(w, {"access"})
     \/ /\ eng[w[1]].entitled
        /\ IF wk[w].head.sha = PullOf(w).sha THEN Go(w, "finalcheck") ELSE Raise(w, {"head"})
  /\ UNCHANGED vars

PreparePublication(w) ==
  /\ Check(w, "preparing")
  /\ \E n \in Items : PrepareReviewPublication(wk[w].r, TicketOf(w), n, wk[w].head)
  /\ Go(w, "planned")

(***************************************************************************)
(* publishPrepared.                                                        *)
(***************************************************************************)

StartPublishing(w) == Check(w, "planned") /\ Go(w, "publishing") /\ UNCHANGED vars

Outstanding(r) == {k \in Items : pub[r][k].status \notin {"none", "posted"}}
First(r, k, S) == k \in S /\ \A j \in S : k <= j

(* The first publication that is not posted, by what its row says.         *)
NextPublication(w) ==
  /\ Check(w, "publishing")
  /\ \E k \in Items :
       /\ First(wk[w].r, k, Outstanding(wk[w].r))
       /\ LET r == wk[w].r
              t == TicketOf(w)
              To(pc) == wk' = [wk EXCEPT ![w].pc = pc, ![w].k = k]
          IN \/ pub[r][k].status = "reconciliation_required" /\ To("reconciling") /\ UNCHANGED vars
             \/ ExpireSend(r, k, t) /\ To("reconciling")
             \/ ClaimPending(r, k, t) /\ To("preflight")
             \/ /\ pub[r][k] = Owned("pending", t) \/ <<r, k>> \in fresh
                /\ Raise(w, {"inflight"}) /\ UNCHANGED vars

(* The revision, then the marker; twice before anything is written.        *)
Preflight(w) ==
  /\ Check(w, "preflight") \/ Check(w, "confirming")
  /\ Current(w)
  /\ Go(w, IF MarkerFound(wk[w].r, wk[w].k) THEN "marking"
           ELSE IF At(w, "preflight") THEN "confirming" ELSE "beginning")
  /\ UNCHANGED vars

BeginSend(w) ==
  /\ Check(w, "beginning")
  /\ BeginPublicationSend(wk[w].r, wk[w].k, TicketOf(w))
  /\ Go(w, "sending")

CheckBeforePost(w) == Check(w, "sending") /\ Go(w, "posting") /\ UNCHANGED vars

(* The request leaves, whatever became of the lease meanwhile.             *)
Post(w) ==
  /\ At(w, "posting")
  /\ remote' = [remote EXCEPT ![wk[w].r][wk[w].k].flying = @ + 1]
  /\ Go(w, "awaiting")
  /\ UNCHANGED <<eng, prs>> /\ UNCHANGED vars

PostAnswered(w) ==
  /\ At(w, "awaiting")
  /\ remote[wk[w].r][wk[w].k].landed > 0
  /\ Go(w, "marking")
  /\ UNCHANGED eng /\ Elsewhere /\ UNCHANGED vars

(* No answer: the reply was lost, the request was, or it is still on its   *)
(* way when the client gives up.                                           *)
PostUnanswered(w) ==
  /\ At(w, "awaiting")
  /\ LET at == remote[wk[w].r][wk[w].k]
     IN \/ at.landed > 0 /\ "lost reply" \in Faults
        \/ at.landed = 0 /\ at.flying = 0
        \/ at.flying > 0 /\ "late request" \in Faults
  /\ Doubt(w, {"retry"})
  /\ UNCHANGED eng /\ Elsewhere /\ UNCHANGED vars

MarkPosted(w) ==
  /\ Check(w, "marking")
  /\ MarkPublicationPosted(wk[w].r, wk[w].k, TicketOf(w))
  /\ Go(w, "publishing")

PublicationUncertain(w) ==
  /\ At(w, "uncertain")
  /\ \/ /\ MarkPublicationReconciliationRequired(wk[w].r, wk[w].k, TicketOf(w))
        /\ Raise(w, wk[w].err \cup {"reconcile"})
     \/ /\ ~HoldsReview(wk[w].r, TicketOf(w))
        /\ Raise(w, wk[w].err \cup {"reconcile", "lost"})
        /\ UNCHANGED vars
  /\ UNCHANGED eng /\ Elsewhere

FinishReview(w) ==
  /\ Check(w, "publishing")
  /\ Outstanding(wk[w].r) = {}
  /\ FinishReviewDone(wk[w].r, TicketOf(w))
  /\ Leave(w)

(***************************************************************************)
(* Marker-only reconciliation.                                             *)
(***************************************************************************)

ReconcilePublication(w) ==
  /\ Check(w, "reconciling")
  /\ \/ /\ MarkerFound(wk[w].r, wk[w].k)
        /\ MarkPublicationPosted(wk[w].r, wk[w].k, TicketOf(w))
        /\ Go(w, "publishing")
     \/ ~MarkerFound(wk[w].r, wk[w].k) /\ Raise(w, {"reconcile"}) /\ UNCHANGED vars

(* handlePreparedHeadChanged: every uncertain publication is looked up     *)
(* before the review is given up.                                          *)
SettlePrepared(w) ==
  LET r == wk[w].r IN
  /\ Check(w, "settling")
  /\ \/ Unsettled(r) = {} /\ Raise(w, {"head"}) /\ UNCHANGED vars
     \/ \E k \in Items :
          /\ First(r, k, Unsettled(r))
          /\ \/ <<r, k>> \in fresh /\ Raise(w, {"reconcile", "inflight"}) /\ UNCHANGED vars
             \/ ExpireSend(r, k, TicketOf(w)) /\ UNCHANGED wk
             \/ /\ pub[r][k].status = "reconciliation_required"
                /\ \/ /\ MarkerFound(r, k)
                      /\ MarkPublicationPosted(r, k, TicketOf(w))
                      /\ UNCHANGED wk
                   \/ ~MarkerFound(r, k) /\ Raise(w, {"reconcile"}) /\ UNCHANGED vars

(***************************************************************************)
(* handleReviewError: what becomes of the review, by the first class of    *)
(* error that applies.                                                     *)
(***************************************************************************)

(* Mutant: only an in-flight publication keeps a review in quarantine.     *)
OnlyInFlight(w) == wk[w].prep /\ wk[w].err \cap {"inflight", "notready"} # {}

NeedsReconciliation(w) ==
  \/ "reconcile" \in wk[w].err
  \/ wk[w].prep /\ wk[w].err \cap {"inflight", "notready"} # {}

Disposition(w) ==
  CASE ~ServiceLeaseOwned(w[1]) \/ "lost" \in wk[w].err \/ ~HoldsReview(wk[w].r, TicketOf(w)) -> "drop"
    [] OTHER ->
       IF NeedsReconciliation(w) THEN "quarantine"
       ELSE IF wk[w].err \cap {"head", "access"} # {} THEN "fail"
       ELSE IF wk[w].err \cap {"retry", "inflight", "notready"} # {}
               /\ wk[w].gen < MaxAttempts THEN "requeue"
       ELSE IF "canceled" \in wk[w].err THEN "drop"
       ELSE "fail"

HandleReviewError(w) ==
  /\ At(w, "failing")
  /\ LET r == wk[w].r
         t == TicketOf(w)
     IN \/ Disposition(w) = "drop"       /\ UNCHANGED vars
        \/ Disposition(w) = "quarantine" /\ FinishReviewReconciliationRequired(r, t)
        \/ Disposition(w) = "fail"       /\ FinishReviewFailed(r, t)
        \/ Disposition(w) = "requeue"    /\ RequeueReview(r, t)
  /\ Leave(w)
  /\ Look(w[1]) /\ Elsewhere

WorkerStep(w) ==
  \/ CheckFails(w) \/ WorkerReturns(w) \/ RecoverExpiredWork(w)
  \/ ClaimReview(w) \/ NothingToClaim(w)
  \/ Verify(w) \/ RecordRevision(w) \/ HeadChanged(w) \/ HeadUnchanged(w)
  \/ ReadInputs(w) \/ RunAgent(w) \/ PreparePublication(w)
  \/ StartPublishing(w) \/ NextPublication(w) \/ Preflight(w) \/ BeginSend(w)
  \/ CheckBeforePost(w) \/ Post(w) \/ PostAnswered(w) \/ PostUnanswered(w)
  \/ MarkPosted(w) \/ PublicationUncertain(w) \/ FinishReview(w)
  \/ ReconcilePublication(w) \/ SettlePrepared(w) \/ HandleReviewError(w)

(***************************************************************************)
(* The engine: Start, the renewal goroutine, Stop, and a crash.            *)
(***************************************************************************)

Aside == UNCHANGED <<rev, pub, due, fresh, wk>> /\ Elsewhere

Start(p) == AcquireToStart(p) /\ Aside

(* Start's recovery, then the workers; refused, the process gives up.      *)
RecoverAndServe(p) ==
  \/ /\ Serve(p)
     /\ RecoverInterruptedReviews(p, eng[p].fence)
     /\ wk' = [w \in Workers |-> IF w[1] = p THEN Resting("idle") ELSE wk[w]]
     /\ Elsewhere
  \/ Refused(p) /\ UNCHANGED lease /\ Aside

RenewServiceLease(p) == Renew(p) /\ Aside

Stop(p) == CancelToStop(p) /\ Aside

StopFinishes(p) ==
  /\ \A w \in Workers : w[1] = p => At(w, "gone")
  /\ ReleaseToStop(p)
  /\ Aside

Crash(p) ==
  /\ Die(p)
  /\ wk' = [w \in Workers |-> IF w[1] = p THEN Resting("gone") ELSE wk[w]]
  /\ UNCHANGED storeVars /\ Elsewhere

EngineStep(p) == Start(p) \/ RecoverAndServe(p) \/ RenewServiceLease(p) \/ StopFinishes(p)

(***************************************************************************)
(* The environment.                                                        *)
(***************************************************************************)

LeaseExpires == Expire /\ Aside

(* A request that is out, or about to be.                                  *)
InTransit(r, k) ==
  \/ remote[r][k].flying > 0
  \/ \E w \in Workers : At(w, "posting") /\ wk[w].r = r /\ wk[w].k = k

(* The client gives a request up (30s) before its handoff window closes    *)
(* (45s); a paused process or GitHub itself may take longer over it.       *)
WindowCloses(r, k) ==
  /\ HandoffElapses(r, k)
  /\ InTransit(r, k) => "late request" \in Faults
  /\ UNCHANGED <<eng, wk>> /\ Elsewhere

CommentAppears(r, k) ==
  /\ remote[r][k].flying > 0
  /\ remote' = [remote EXCEPT ![r][k] = [flying |-> @.flying - 1, landed |-> @.landed + 1]]
  /\ UNCHANGED <<eng, wk, prs>> /\ UNCHANGED vars

RequestIsLost(r, k) ==
  /\ "lost request" \in Faults
  /\ remote[r][k].flying > 0
  /\ remote' = [remote EXCEPT ![r][k].flying = @ - 1]
  /\ UNCHANGED <<eng, wk, prs>> /\ UNCHANGED vars

(* A push, or an update of another kind, within the second of the last one *)
(* or later.                                                               *)
PullMoves(x) ==
  /\ \/ /\ "push" \in Faults /\ prs[x].push < MaxPush
        /\ \E s \in Shas \ {prs[x].sha}, t \in {prs[x].second, prs[x].second + 1} :
             /\ t = prs[x].second => "same second" \in Faults
             /\ t <= MaxSecond
             /\ prs' = [prs EXCEPT ![x].sha = s, ![x].push = @ + 1, ![x].second = t]
     \/ /\ "touch" \in Faults /\ prs[x].second < MaxSecond
        /\ prs' = [prs EXCEPT ![x].second = @ + 1]
  /\ UNCHANGED <<eng, wk, remote>> /\ UNCHANGED vars

Requested(r) == CreateReview(r) /\ UNCHANGED engineVars

(* A retry waits longer than a request takes: 46s when the publication is  *)
(* in flight, five minutes in quarantine.                                  *)
RetryIsDue(r) ==
  /\ RetryDue(r)
  /\ (\E k \in Items : InTransit(r, k)) => "late request" \in Faults
  /\ UNCHANGED engineVars

Trouble == \E w \in Workers : GithubFails(w) \/ DiskFails(w) \/ Deadline(w)

Smooth ==
  \/ \E w \in Workers : WorkerStep(w)
  \/ \E p \in Procs : EngineStep(p) \/ Stop(p) \/ Crash(p)
  \/ LeaseExpires
  \/ \E r \in Reviews : Requested(r) \/ RetryIsDue(r)
  \/ \E r \in Reviews, k \in Items :
       WindowCloses(r, k) \/ CommentAppears(r, k) \/ RequestIsLost(r, k)
  \/ \E x \in PRs : PullMoves(x)

EngineNext == Trouble \/ Smooth

EngineSpec == EngineInit /\ [][EngineNext]_allVars

(* Goroutines run, a process that is down is started again, clocks pass,   *)
(* and GitHub decides on every request.                                    *)
Fairness ==
  /\ \A w \in Workers : WF_allVars(WorkerStep(w))
  /\ \A p \in Procs : WF_allVars(EngineStep(p))
  /\ WF_allVars(LeaseExpires)
  /\ \A r \in Reviews : WF_allVars(RetryIsDue(r))
  /\ \A r \in Reviews, k \in Items :
       WF_allVars(WindowCloses(r, k)) /\ WF_allVars(CommentAppears(r, k))

FairSpec == EngineSpec /\ Fairness

(***************************************************************************)
(* Properties.                                                             *)
(***************************************************************************)

(* A worker holds a review exactly while it works on it, and an error only *)
(* while it handles it.                                                    *)
AtRest   == {"gone", "idle", "recovered"}
Handling == {"uncertain", "failing"}
PCs      == AtRest \cup Handling \cup RaisePoints \cup MarkerPoints \cup SendPoints
              \cup DropPoints \cup {"recording", "posting"}

EngineTypeOK ==
  /\ TypeOK
  /\ eng \in [Procs -> [phase : Phases, fence : 0 .. lease.fence, entitled : BOOLEAN]]
  /\ \A w \in Workers :
       /\ wk[w].pc \in PCs
       /\ wk[w].pc \in AtRest <=> wk[w].r = 0
       /\ wk[w].r # 0 => TicketOf(w) \in Ticket /\ wk[w].r \in Reviews
       /\ wk[w].err # {} => wk[w].pc \in Handling
       /\ At(w, "failing") => wk[w].err # {}
  /\ prs \in [PRs -> Revisions]
  /\ remote \in [Reviews -> [Items -> [flying : Nat, landed : Nat]]]

(* No sequence of crashes, takeovers, lost replies and retries makes two   *)
(* copies of one comment, counting requests still on their way.            *)
AtMostOneComment ==
  \A r \in Reviews, k \in Items : remote[r][k].flying + remote[r][k].landed <= 1

(* The engine and its store keep the promise of Delivery.                  *)
Outcome(r) == IF rev[r].status \in Terminal THEN rev[r].status ELSE "open"

Mark(r, k) ==
  CASE pub[r][k].status = "none"      -> "absent"
    [] pub[r][k].status = "pending"   -> "planned"
    [] pub[r][k].status \in Uncertain -> "maybe"
    [] pub[r][k].status = "posted"    -> "yes"

Promise == INSTANCE Delivery WITH
  Reviews  <- Reviews,
  LastItem <- MaxInline,
  outcome  <- [r \in Reviews |-> Outcome(r)],
  mark     <- [r \in Reviews |-> [k \in Items |-> Mark(r, k)]],
  comments <- [r \in Reviews |-> [k \in Items |-> remote[r][k].landed]]

ImplementsDelivery == Promise!Spec

(* What is planned for a revision was computed from that revision: neither *)
(* the changed files nor the diff come from another one, even if pushes    *)
(* went away from the commit and back between the reads, as long as no two *)
(* of them fall into one second of updated_at.                             *)
PlanFromOneRevision ==
  [][\A w \in Workers :
       At(w, "preparing") /\ wk'[w].pc = "planned" =>
         /\ wk[w].files.push = rev'[wk[w].r].commit.push
         /\ wk[w].diff.push = rev'[wk[w].r].commit.push]_allVars

(* A review releases its pull request only once every effect it may have   *)
(* had there is accounted for: a force-push must not strand one            *)
(* (engine.go:1259), and only a marker closes one (docs/operations.md).    *)
(* The code strands it where a resumed review is failed before its outbox  *)
(* is looked through: by a push after the first look at the revision, by   *)
(* withdrawn access, by a read that fails for good or once too often.      *)
NoStrandedEffects ==
  \A r \in Reviews : rev[r].status \in Terminal => Unsettled(r) = {}

(* Whatever goes wrong, an execution accounts for every effect of a plan   *)
(* it made itself: only one that resumed an earlier plan can be refused,   *)
(* or fail on a read, before it has looked for that plan's comments, and   *)
(* then no error of the reconciliation is involved.                        *)
OnlyResumptionStrands ==
  [][\A r \in Reviews :
       rev[r].status \notin Terminal /\ rev'[r].status \in Terminal /\ Unsettled(r) # {} =>
         \E w \in Workers :
           /\ At(w, "failing") /\ wk[w].r = r
           /\ wk[w].prep /\ "reconcile" \notin wk[w].err]_allVars

(* Whatever is queued is eventually delivered or given up, across crashes  *)
(* and restarts; the one exception is the quarantine for a comment that    *)
(* was announced and never appeared, which is an operator's to end.        *)
NeverAppeared(r) ==
  \E k \in Unsettled(r) : remote[r][k] = [flying |-> 0, landed |-> 0]

QueuedIsSettled ==
  \A r \in Reviews :
    \/ rev[r].status = "queued" ~> rev[r].status \in Terminal
    \/ <>[]NeverAppeared(r)

(* A review does not stay running for ever.                                *)
RunningIsLeft ==
  \A r \in Reviews : rev[r].status = "running" ~> rev[r].status # "running"

================================================================================
