------------------------------ MODULE NudgeOutbox ------------------------------
(***************************************************************************)
(* Access notifications: the access_nudges table of                        *)
(* src/internal/store/reviews.go and processClaimedNudge of                *)
(* src/internal/bot/engine.go.  A notification is one comment, so its row  *)
(* is queue and outbox at once: send_started_at tells a claim that never   *)
(* sent from one whose comment may exist.                                  *)
(*                                                                         *)
(* A worker's job is cut as in ReviewEngine: every transaction and every   *)
(* POST is a step, and reads are one step with the check before them.      *)
(* Reviews, which share the workers, are left out.                         *)
(***************************************************************************)
EXTENDS EngineLease

CONSTANTS
  MaxNudges,    \* bound: rows of access_nudges
  MaxGen,       \* bound: executions of one notification
  PerEngine,    \* workers of one engine
  MaxAttempts   \* maxDeliveryAttempts

ASSUME NudgeAssumption ==
  MaxNudges \in Nat /\ MaxGen \in Nat /\ PerEngine \in Nat /\ MaxAttempts \in Nat

VARIABLES
  nud,      \* nud[n]: row n of access_nudges
  due,      \* notifications whose next_attempt_at is empty or has passed
  job,      \* job[w]: what worker w = <<process, number>> is doing
  remote    \* remote[n]: POSTs of notification n under way, and comments it made

nudgeVars == <<nud, due>>
vars == <<lease, eng, nud, due, job, remote>>

Nudges  == 1 .. MaxNudges
Workers == Procs \X (1 .. PerEngine)

(* send_started_at: empty, within the handoff window, or older.            *)
Sent == {"no", "open", "past"}

NudgeRow == [status : {"none", "queued", "posting", "reconciliation_required", "posted", "failed"},
             gen : Nat,
             owner : Procs \cup {NoProc},
             fence : Nat,
             sent : Sent]

Places == {"gone", "idle", "recovered", "claimed", "beginning", "sending", "posting",
           "awaiting", "marking", "quarantining", "failing"}

AtRest == {"gone", "idle", "recovered"}

(* again: claimed out of quarantine.  announced: SendingStartedAt is set.  *)
Job == [pc : Places, n : Nat, fence : Nat, gen : Nat,
        again : BOOLEAN, announced : BOOLEAN, retry : BOOLEAN, late : BOOLEAN]

Resting(pc) == [pc |-> pc, n |-> 0, fence |-> 0, gen |-> 0,
                again |-> FALSE, announced |-> FALSE, retry |-> FALSE, late |-> FALSE]

TypeOK ==
  /\ lease \in LeaseRow
  /\ eng \in [Procs -> [phase : Phases, fence : Nat, entitled : BOOLEAN]]
  /\ nud \in [Nudges -> NudgeRow]
  /\ due \subseteq Nudges
  /\ job \in [Workers -> Job]
  /\ \A w \in Workers : IF job[w].pc \in AtRest THEN job[w].n = 0 ELSE job[w].n \in Nudges
  /\ remote \in [Nudges -> [flying : Nat, landed : Nat]]

Init ==
  /\ EngineLeaseInit
  /\ nud = [n \in Nudges |-> [status |-> "none", gen |-> 0, owner |-> NoProc,
                              fence |-> 0, sent |-> "no"]]
  /\ due = {}
  /\ job = [w \in Workers |-> Resting("gone")]
  /\ remote = [n \in Nudges |-> [flying |-> 0, landed |-> 0]]

(***************************************************************************)
(* The store.                                                              *)
(***************************************************************************)

SetRow(n, row) == nud' = [nud EXCEPT ![n] = row]

(* requireNudgeLeaseTx                                                     *)
HoldsNudge(w) ==
  LET row == nud[job[w].n] IN
  /\ HoldsLease(w[1], job[w].fence)
  /\ row.status = "posting"
  /\ row.owner = w[1] /\ row.fence = job[w].fence /\ row.gen = job[w].gen

(* CreateNudgeOnce, when it inserts: UNIQUE(repository_id, pr_number,      *)
(* requester_github_id, kind) makes n one such quadruple.                  *)
CreateNudge(n) ==
  /\ nud[n].status = "none"
  /\ \A m \in Nudges : m < n => nud[m].status # "none"
  /\ SetRow(n, [nud[n] EXCEPT !.status = "queued"])
  /\ due' = due \cup {n}
  /\ UNCHANGED <<lease, eng, job, remote>>

Claimable(n) ==
  /\ nud[n].status \in {"queued", "reconciliation_required"}
  /\ n \in due
  /\ nud[n].sent # "open"
  /\ nud[n].gen < MaxGen   \* bound

Recovered(row) ==
  IF row.sent = "no"
  THEN [row EXCEPT !.status = "queued", !.owner = NoProc]
  ELSE [row EXCEPT !.status = "reconciliation_required", !.owner = NoProc]

Interrupted(n, f) == nud[n].status = "posting" /\ nud[n].fence < f /\ nud[n].sent # "open"

RecoverInterruptedNudges(p, f) ==
  /\ HoldsLease(p, f)
  /\ nud' = [n \in Nudges |-> IF Interrupted(n, f) THEN Recovered(nud[n]) ELSE nud[n]]
  /\ due' = (due \cup {n \in Nudges : Interrupted(n, f) /\ nud[n].sent = "no"})
              \ {n \in Nudges : Interrupted(n, f) /\ nud[n].sent # "no"}

(* MarkNudgeReconciliationRequired                                         *)
Quarantine(n) ==
  /\ SetRow(n, [nud[n] EXCEPT !.status = "reconciliation_required", !.owner = NoProc])
  /\ due' = due \ {n}

(* FinishNudgeFailed                                                       *)
FinishFailed(n) ==
  /\ SetRow(n, [nud[n] EXCEPT !.status = "failed", !.owner = NoProc, !.sent = "no"])
  /\ UNCHANGED due

(* RequeueNudge, which quarantines instead when a send is on record.       *)
Requeue(n) ==
  \/ nud[n].sent # "no" /\ Quarantine(n)
  \/ /\ nud[n].sent = "no"
     /\ SetRow(n, [nud[n] EXCEPT !.status = "queued", !.owner = NoProc])
     /\ due' = due \ {n}

(***************************************************************************)
(* Checks of a worker.                                                     *)
(***************************************************************************)

At(w, pc) == job[w].pc = pc
Go(w, pc) == job' = [job EXCEPT ![w].pc = pc]
Leave(w)  == job' = [job EXCEPT ![w] = Resting("idle")]

(* An error for handleNudgeError, which asks whether it can be retried.    *)
Raise(w, retry) == job' = [job EXCEPT ![w].pc = "failing", ![w].retry = retry]

ContextDone(w) == job[w].late \/ eng[w[1]].phase # "running"

MayProcess(w) == ServiceLeaseOwned(w[1]) /\ ~ContextDone(w)

StoreAside == UNCHANGED <<lease, nud, due>>

(***************************************************************************)
(* The worker.                                                             *)
(***************************************************************************)

WorkerReturns(w) ==
  /\ At(w, "idle") /\ ~MayProcess(w)
  /\ Go(w, "gone")
  /\ Look(w[1]) /\ StoreAside /\ UNCHANGED remote

RecoverExpiredWork(w) ==
  /\ At(w, "idle") /\ MayProcess(w)
  /\ RecoverInterruptedNudges(w[1], eng[w[1]].fence)
  /\ Go(w, "recovered")
  /\ UNCHANGED <<lease, eng, remote>>

Claim(n, f) ==
  [pc |-> "claimed", n |-> n, fence |-> f, gen |-> nud[n].gen + 1,
   again |-> nud[n].status = "reconciliation_required", announced |-> nud[n].sent # "no",
   retry |-> FALSE, late |-> FALSE]

(* ClaimNextQueuedNudge: the oldest that is due and whose handoff closed.  *)
ClaimNudge(w) ==
  /\ At(w, "recovered") /\ MayProcess(w)
  /\ \E n \in Nudges :
       /\ Claimable(n)
       /\ \A m \in Nudges : Claimable(m) => n <= m
       /\ SetRow(n, [nud[n] EXCEPT !.status = "posting", !.owner = w[1],
                                   !.fence = eng[w[1]].fence, !.gen = nud[n].gen + 1])
       /\ job' = [job EXCEPT ![w] = Claim(n, eng[w[1]].fence)]
  /\ UNCHANGED <<lease, eng, due, remote>>

NothingToClaim(w) ==
  /\ At(w, "recovered")
  /\ ~MayProcess(w) \/ ~\E n \in Nudges : Claimable(n)
  /\ Go(w, "idle")
  /\ Look(w[1]) /\ StoreAside /\ UNCHANGED remote

(* A failed mayProcess before the send is announced returns in silence.    *)
Abandon(w) ==
  /\ At(w, "claimed") \/ At(w, "beginning")
  /\ ~MayProcess(w)
  /\ Leave(w)
  /\ Look(w[1]) /\ StoreAside /\ UNCHANGED remote

(* AllowsReviewTarget no longer admits the repository.                     *)
TurnAway(w) ==
  /\ At(w, "claimed") /\ MayProcess(w)
  /\ ~eng[w[1]].entitled
  /\ \/ HoldsNudge(w) /\ FinishFailed(job[w].n)
     \/ ~HoldsNudge(w) /\ UNCHANGED nudgeVars
  /\ Leave(w)
  /\ UNCHANGED <<lease, eng, remote>>

(* Mutant: a notification in quarantine is treated like any other.         *)
AfterLookUpAlike(w) == IF remote[job[w].n].landed > 0 THEN "marking" ELSE "beginning"

(* Mutant: a quarantined notification is taken to have been posted.        *)
AfterLookUpAssumed(w) ==
  IF remote[job[w].n].landed > 0 \/ job[w].again THEN "marking" ELSE "beginning"

(* What the marker search decides.                                         *)
AfterLookUp(w) ==
  IF remote[job[w].n].landed > 0 THEN "marking"
  ELSE IF job[w].again THEN "quarantining" ELSE "beginning"

(* The pull request is verified, its name stored, the marker searched.     *)
LookUp(w) ==
  /\ At(w, "claimed") /\ MayProcess(w)
  /\ eng[w[1]].entitled
  /\ \/ HoldsNudge(w) /\ Go(w, AfterLookUp(w))
     \/ ~HoldsNudge(w) /\ Leave(w)
  /\ StoreAside /\ UNCHANGED <<eng, remote>>

(* MarkNudgeSending                                                        *)
BeginSend(w) ==
  /\ At(w, "beginning") /\ MayProcess(w)
  /\ \/ /\ HoldsNudge(w)
        /\ SetRow(job[w].n, [nud[job[w].n] EXCEPT !.sent = "open"])
        /\ job' = [job EXCEPT ![w].pc = "sending", ![w].announced = TRUE]
     \/ ~HoldsNudge(w) /\ Leave(w) /\ UNCHANGED nud
  /\ UNCHANGED <<lease, eng, due, remote>>

CheckBeforePost(w) ==
  /\ At(w, "sending")
  /\ \/ HoldsNudge(w) /\ MayProcess(w) /\ Go(w, "posting")
     \/ ~(HoldsNudge(w) /\ MayProcess(w)) /\ Raise(w, FALSE)
  /\ Look(w[1]) /\ StoreAside /\ UNCHANGED remote

(* The request leaves, whatever became of the lease meanwhile.             *)
Post(w) ==
  /\ At(w, "posting")
  /\ remote' = [remote EXCEPT ![job[w].n].flying = @ + 1]
  /\ Go(w, "awaiting")
  /\ StoreAside /\ UNCHANGED eng

PostAnswered(w) ==
  /\ At(w, "awaiting")
  /\ remote[job[w].n].landed > 0
  /\ Go(w, "marking")
  /\ StoreAside /\ UNCHANGED <<eng, remote>>

(* No answer: the reply was lost, the request was, or it is still on its   *)
(* way when the client gives up.                                           *)
PostUnanswered(w) ==
  /\ At(w, "awaiting")
  /\ LET at == remote[job[w].n]
     IN \/ at.landed > 0 /\ "lost reply" \in Faults
        \/ at.landed = 0 /\ at.flying = 0
        \/ at.flying > 0 /\ "late request" \in Faults
  /\ Raise(w, TRUE)
  /\ StoreAside /\ UNCHANGED <<eng, remote>>

(* MarkNudgePosted; out of quarantine without another look at the context. *)
MarkPosted(w) ==
  /\ At(w, "marking")
  /\ \/ /\ job[w].again \/ MayProcess(w)
        /\ \/ /\ HoldsNudge(w)
              /\ SetRow(job[w].n, [nud[job[w].n] EXCEPT
                                     !.status = "posted", !.owner = NoProc, !.sent = "no"])
           \/ ~HoldsNudge(w) /\ UNCHANGED nud
        /\ Leave(w) /\ UNCHANGED eng
     \/ /\ ~job[w].again /\ ~MayProcess(w)
        /\ Raise(w, FALSE) /\ UNCHANGED nud
        /\ Look(w[1])
  /\ UNCHANGED <<lease, due, remote>>

(* The marker of a quarantined notification was not found.                 *)
KeepQuarantine(w) ==
  /\ At(w, "quarantining")
  /\ \/ HoldsNudge(w) /\ Quarantine(job[w].n)
     \/ ~HoldsNudge(w) /\ UNCHANGED nudgeVars
  /\ Leave(w)
  /\ UNCHANGED <<lease, eng, remote>>

(* Mutant: only a claim out of quarantine is uncertain.                    *)
UncertainFromQuarantine(w) == job[w].again

Uncertain(w) == job[w].again \/ job[w].announced

HandleNudgeError(w) ==
  /\ At(w, "failing")
  /\ LET mine == ServiceLeaseOwned(w[1]) /\ HoldsNudge(w)
         again == job[w].retry /\ job[w].gen < MaxAttempts
     IN \/ ~mine /\ UNCHANGED nudgeVars
        \/ mine /\ Uncertain(w) /\ Quarantine(job[w].n)
        \/ mine /\ ~Uncertain(w) /\ again /\ Requeue(job[w].n)
        \/ mine /\ ~Uncertain(w) /\ ~again /\ FinishFailed(job[w].n)
  /\ Leave(w)
  /\ Look(w[1]) /\ UNCHANGED <<lease, remote>>

WorkerStep(w) ==
  \/ WorkerReturns(w) \/ RecoverExpiredWork(w) \/ ClaimNudge(w) \/ NothingToClaim(w)
  \/ Abandon(w) \/ TurnAway(w) \/ LookUp(w) \/ BeginSend(w) \/ CheckBeforePost(w)
  \/ Post(w) \/ PostAnswered(w) \/ PostUnanswered(w) \/ MarkPosted(w)
  \/ KeepQuarantine(w) \/ HandleNudgeError(w)

(***************************************************************************)
(* What fails.                                                             *)
(***************************************************************************)

(* A GitHub call answers with an error, or its context ends meanwhile.     *)
CallFails(w) ==
  /\ At(w, "claimed") \/ At(w, "beginning") \/ At(w, "awaiting")
  /\ \/ "retry" \in Faults /\ Raise(w, TRUE)
     \/ "hard" \in Faults /\ Raise(w, FALSE)
     \/ ContextDone(w) /\ Raise(w, job[w].late)
  /\ StoreAside /\ UNCHANGED <<eng, remote>>

(* SQLite answers with an error: nothing is written, and where the answer  *)
(* was to a question about the lease the engine's context ends.            *)
DiskFails(w) ==
  /\ "disk" \in Faults
  /\ \/ job[w].pc \in {"claimed", "beginning", "sending", "marking"} /\ Raise(w, FALSE)
     \/ job[w].pc \in {"quarantining", "failing"} /\ Leave(w)
  /\ UNCHANGED eng \/ LookInVain(w[1])
  /\ StoreAside /\ UNCHANGED remote

Deadline(w) ==
  /\ "deadline" \in Faults
  /\ job[w].pc \notin AtRest /\ ~job[w].late
  /\ job' = [job EXCEPT ![w].late = TRUE]
  /\ StoreAside /\ UNCHANGED <<eng, remote>>

(***************************************************************************)
(* The engine and the environment.                                         *)
(***************************************************************************)

Aside == UNCHANGED <<nud, due, job, remote>>

Start(p) == AcquireToStart(p) /\ Aside

RecoverAndServe(p) ==
  \/ /\ Serve(p)
     /\ RecoverInterruptedNudges(p, eng[p].fence)
     /\ job' = [w \in Workers |-> IF w[1] = p THEN Resting("idle") ELSE job[w]]
     /\ UNCHANGED <<lease, remote>>
  \/ Refused(p) /\ UNCHANGED lease /\ Aside

RenewServiceLease(p) == Renew(p) /\ Aside

Stop(p) == CancelToStop(p) /\ Aside

StopFinishes(p) ==
  /\ \A w \in Workers : w[1] = p => At(w, "gone")
  /\ ReleaseToStop(p) /\ Aside

Crash(p) ==
  /\ Die(p)
  /\ job' = [w \in Workers |-> IF w[1] = p THEN Resting("gone") ELSE job[w]]
  /\ UNCHANGED <<nud, due, remote>>

EngineStep(p) == Start(p) \/ RecoverAndServe(p) \/ RenewServiceLease(p) \/ StopFinishes(p)

LeaseExpires == Expire /\ Aside

InTransit(n) ==
  remote[n].flying > 0 \/ \E w \in Workers : At(w, "posting") /\ job[w].n = n

(* The client gives a request up (30s) before the window closes (45s), if  *)
(* neither the process nor GitHub takes longer over it.                    *)
WindowCloses(n) ==
  /\ nud[n].sent = "open"
  /\ InTransit(n) => "late request" \in Faults
  /\ SetRow(n, [nud[n] EXCEPT !.sent = "past"])
  /\ UNCHANGED <<lease, eng, due, job, remote>>

CommentAppears(n) ==
  /\ remote[n].flying > 0
  /\ remote' = [remote EXCEPT ![n] = [flying |-> @.flying - 1, landed |-> @.landed + 1]]
  /\ UNCHANGED <<lease, eng, nud, due, job>>

RequestIsLost(n) ==
  /\ "lost request" \in Faults
  /\ remote[n].flying > 0
  /\ remote' = [remote EXCEPT ![n].flying = @ - 1]
  /\ UNCHANGED <<lease, eng, nud, due, job>>

(* next_attempt_at passes.                                                 *)
RetryIsDue(n) ==
  /\ nud[n].status \in {"queued", "reconciliation_required"} /\ n \notin due
  /\ due' = due \cup {n}
  /\ UNCHANGED <<lease, eng, nud, job, remote>>

Next ==
  \/ \E w \in Workers : WorkerStep(w) \/ CallFails(w) \/ DiskFails(w) \/ Deadline(w)
  \/ \E p \in Procs : EngineStep(p) \/ Stop(p) \/ Crash(p)
  \/ LeaseExpires
  \/ \E n \in Nudges :
       CreateNudge(n) \/ WindowCloses(n) \/ CommentAppears(n) \/ RequestIsLost(n) \/ RetryIsDue(n)

Spec == Init /\ [][Next]_vars

(***************************************************************************)
(* Properties.                                                             *)
(***************************************************************************)

(* However often a notification is claimed, interrupted, taken over and    *)
(* looked up, at most one comment is ever made for it.                     *)
AtMostOneNotification ==
  \A n \in Nudges : remote[n].flying + remote[n].landed <= 1

(* "Only the latter becomes reconciliation-required; never-started claims  *)
(* are ordinary retries": a queued notification has no comment and no      *)
(* request on its way, and none of any earlier worker is still to come.    *)
QueuedMeansUnsent ==
  \A n \in Nudges : nud[n].status = "queued" =>
    /\ remote[n] = [flying |-> 0, landed |-> 0]
    /\ \A w \in Workers : job[w].pc \in {"sending", "posting", "awaiting"} => job[w].n # n

(* A notification is closed as posted only on the evidence of its comment. *)
PostedMeansSeen ==
  \A n \in Nudges : nud[n].status = "posted" => remote[n].landed > 0

(* "The marker lookup on the next claim is the only safe recovery path": a *)
(* notification is given up only if no request was ever made for it,       *)
(* unless the repository is no longer admitted.                            *)
GivenUpUnsent ==
  [][\A n \in Nudges : nud[n].status # "failed" /\ nud'[n].status = "failed" =>
       \/ remote[n] = [flying |-> 0, landed |-> 0]
       \/ \E p \in Procs : eng[p].phase # "down" /\ ~eng[p].entitled]_vars

================================================================================
