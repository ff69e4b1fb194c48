--------------------------- MODULE NudgeOutboxProofs ---------------------------
(***************************************************************************)
(* AtMostOneNotification, QueuedMeansUnsent, PostedMeansSeen and           *)
(* GivenUpUnsent for any number of processes, workers, notifications and   *)
(* executions, and for any faults.                                         *)
(*                                                                         *)
(* The argument: an execution is identified by its generation (Tickets,    *)
(* Distinct), so only one worker can find a row as it claimed it.  A row   *)
(* without a recorded send has never been sent (Quiet), because the worker *)
(* that records one (Unannounced) is from then on the only one that will   *)
(* ever post (OneSender).  Who gives up has announced nothing (Recorded).  *)
(***************************************************************************)
EXTENDS NudgeOutbox, TLAPS

InHand == {"sending", "posting", "awaiting"}

Busy(w) == job[w].pc \notin AtRest

(* The row is still as worker w claimed it.                                *)
Current(w) == nud[job[w].n].status = "posting" /\ nud[job[w].n].gen = job[w].gen

Silent(n) == remote[n].flying = 0 /\ remote[n].landed = 0

Tickets == \A w \in Workers : Busy(w) => job[w].gen <= nud[job[w].n].gen

Distinct ==
  \A v, w \in Workers : Busy(v) /\ Busy(w) /\ job[v].n = job[w].n /\ job[v].gen = job[w].gen => v = w

QueuedUnsent == \A n \in Nudges : nud[n].status \in {"none", "queued"} => nud[n].sent = "no"

Quiet ==
  \A n \in Nudges : nud[n].sent = "no" /\ nud[n].status \notin {"posted", "failed"} =>
    /\ Silent(n)
    /\ \A w \in Workers : job[w].pc \in InHand => job[w].n # n

Unannounced ==
  \A w \in Workers :
    /\ At(w, "beginning") \/ (At(w, "claimed") /\ ~job[w].again)
    /\ Current(w)
    => nud[job[w].n].sent = "no"

(* A worker that has no send on its own record has none on the row's.      *)
Recorded ==
  \A w \in Workers : Busy(w) /\ Current(w) /\ ~job[w].announced => nud[job[w].n].sent = "no"

OneSender ==
  \A w \in Workers : job[w].pc \in {"sending", "posting"} =>
    /\ Silent(job[w].n)
    /\ \A v \in Workers : job[v].pc \in InHand /\ job[v].n = job[w].n => v = w

Evidence == \A w \in Workers : At(w, "marking") => remote[job[w].n].landed > 0

Inv ==
  /\ Tickets /\ Distinct /\ QueuedUnsent /\ Quiet /\ Unannounced /\ Recorded /\ OneSender
  /\ Evidence
  /\ AtMostOneNotification /\ PostedMeansSeen

(***************************************************************************)
(* Types, table by table.                                                  *)
(***************************************************************************)

JobOK ==
  /\ job \in [Workers -> Job]
  /\ \A w \in Workers : IF job[w].pc \in AtRest THEN job[w].n = 0 ELSE job[w].n \in Nudges

EngOK == eng \in [Procs -> [phase : Phases, fence : Nat, entitled : BOOLEAN]]

NudOK == nud \in [Nudges -> NudgeRow] /\ due \subseteq Nudges

RemOK == remote \in [Nudges -> [flying : Nat, landed : Nat]]

LEMMA JobWrite ==
  ASSUME JobOK, NEW w \in Workers, NEW j \in Job,
         IF j.pc \in AtRest THEN j.n = 0 ELSE j.n \in Nudges,
         job' = [job EXCEPT ![w] = j]
  PROVE  JobOK'
BY DEF JobOK

LEMMA GoJob ==
  ASSUME JobOK, NEW w \in Workers, NEW pc \in Places,
         pc \in AtRest <=> job[w].pc \in AtRest, Go(w, pc)
  PROVE  JobOK'
<1> DEFINE j == [job[w] EXCEPT !.pc = pc]
<1>1. job[w] \in Job /\ j \in Job
  BY DEF JobOK, Job
<1>2. j.pc = pc /\ j.n = job[w].n
  BY <1>1 DEF Job
<1>3. job' = [job EXCEPT ![w] = j]
  BY DEF Go
<1> HIDE DEF j
<1> QED  BY <1>1, <1>2, <1>3, JobWrite DEF JobOK

LEMMA LeaveJob ==
  ASSUME JobOK, NEW w \in Workers, NEW pc \in AtRest, job' = [job EXCEPT ![w] = Resting(pc)]
  PROVE  JobOK'
<1>1. Resting(pc) \in Job /\ Resting(pc).pc = pc /\ Resting(pc).n = 0
  BY DEF Resting, Job, AtRest, Places
<1> QED  BY <1>1, JobWrite

LEMMA RestartJob ==
  ASSUME JobOK, NEW p, NEW pc \in AtRest,
         job' = [w \in Workers |-> IF w[1] = p THEN Resting(pc) ELSE job[w]]
  PROVE  JobOK'
<1>1. Resting(pc) \in Job /\ Resting(pc).pc = pc /\ Resting(pc).n = 0
  BY DEF Resting, Job, AtRest, Places
<1> QED  BY <1>1 DEF JobOK

LEMMA RaiseJob ==
  ASSUME JobOK, NEW w \in Workers, job[w].pc \notin AtRest, NEW retry \in BOOLEAN, Raise(w, retry)
  PROVE  JobOK'
<1> DEFINE j == [job[w] EXCEPT !.pc = "failing", !.retry = retry]
<1>1. job[w] \in Job /\ j \in Job
  BY DEF JobOK, Job, Places
<1>2. j.pc = "failing" /\ j.n = job[w].n
  BY <1>1 DEF Job
<1>3. job' = [job EXCEPT ![w] = j]
  BY DEF Raise
<1> HIDE DEF j
<1> QED  BY <1>1, <1>2, <1>3, JobWrite DEF JobOK, AtRest

LEMMA LookEng ==
  ASSUME EngOK, NEW p \in Procs, Look(p) \/ LookInVain(p)
  PROVE  EngOK'
BY DEF EngOK, Look, LookInVain, Phases

LEMMA RowNud ==
  ASSUME NudOK, NEW n \in Nudges, NEW row \in NudgeRow, SetRow(n, row), due' \subseteq Nudges
  PROVE  NudOK'
BY DEF NudOK, SetRow

(* What a disposition makes of a row.                                      *)
LEMMA DisposeNud ==
  ASSUME NudOK, NEW n \in Nudges, Quarantine(n) \/ FinishFailed(n) \/ Requeue(n)
  PROVE  NudOK'
<1>1. \A st \in {"queued", "reconciliation_required", "failed"}, se \in Sent :
        /\ [nud[n] EXCEPT !.status = st, !.owner = NoProc] \in NudgeRow
        /\ [nud[n] EXCEPT !.status = st, !.owner = NoProc, !.sent = se] \in NudgeRow
  BY DEF NudOK, NudgeRow
<1>2. CASE Quarantine(n)
  BY <1>1, <1>2, RowNud DEF Quarantine, Sent, NudOK
<1>3. CASE FinishFailed(n)
  BY <1>1, <1>3, RowNud DEF FinishFailed, Sent, NudOK
<1>4. CASE Requeue(n)
  BY <1>1, <1>2, <1>4, RowNud DEF Requeue, Quarantine, Sent, NudOK
<1> QED  BY <1>2, <1>3, <1>4

LEMMA RecoverNud ==
  ASSUME NudOK, NEW p \in Procs, NEW f, RecoverInterruptedNudges(p, f)
  PROVE  NudOK'
<1>1. \A n \in Nudges : Recovered(nud[n]) \in NudgeRow
  BY DEF NudOK, NudgeRow, Recovered
<1> QED  BY <1>1 DEF NudOK, RecoverInterruptedNudges

(* Every table keeps its type through every step.                          *)
LEMMA TypeStep == TypeOK /\ [Next]_vars => TypeOK'
<1> SUFFICES ASSUME TypeOK, [Next]_vars PROVE TypeOK'
  OBVIOUS
<1>a. TypeOK <=> lease \in LeaseRow /\ EngOK /\ NudOK /\ JobOK /\ RemOK
  BY DEF TypeOK, EngOK, NudOK, JobOK, RemOK
<1>b. TypeOK' <=> (lease \in LeaseRow)' /\ EngOK' /\ NudOK' /\ JobOK' /\ RemOK'
  BY DEF TypeOK, EngOK, NudOK, JobOK, RemOK
<1>e. UNCHANGED eng => EngOK'
  BY <1>a DEF EngOK
<1>n. UNCHANGED nudgeVars => NudOK'
  BY <1>a DEF NudOK, nudgeVars
<1>j. UNCHANGED job => JobOK'
  BY <1>a DEF JobOK
<1>r. UNCHANGED remote => RemOK'
  BY <1>a DEF RemOK
<1>l. UNCHANGED lease => (lease \in LeaseRow)'
  BY <1>a
<1>u. \A n \in Nudges : nud[n] \in NudgeRow
  BY <1>a DEF NudOK
<1> USE DEF At, StoreAside, nudgeVars
<1>1. ASSUME NEW w \in Workers, WorkerReturns(w) PROVE TypeOK'
  BY <1>1, <1>a, <1>b, <1>e, <1>n, <1>j, <1>r, <1>l, GoJob, LookEng DEF WorkerReturns, Workers, AtRest, Places
<1>2. ASSUME NEW w \in Workers, RecoverExpiredWork(w) PROVE TypeOK'
  BY <1>2, <1>a, <1>b, <1>e, <1>n, <1>j, <1>r, <1>l, GoJob, RecoverNud DEF RecoverExpiredWork, Workers, AtRest, Places
<1>3. ASSUME NEW w \in Workers, ClaimNudge(w) PROVE TypeOK'
  <2> PICK n \in Nudges :
        /\ SetRow(n, [nud[n] EXCEPT !.status = "posting", !.owner = w[1],
                                    !.fence = eng[w[1]].fence, !.gen = nud[n].gen + 1])
        /\ job' = [job EXCEPT ![w] = Claim(n, eng[w[1]].fence)]
    BY <1>3 DEF ClaimNudge
  <2>1. w[1] \in Procs /\ eng[w[1]].fence \in Nat /\ nud[n].gen + 1 \in Nat
    BY <1>a, <1>u DEF Workers, EngOK, NudgeRow
  <2>2. [nud[n] EXCEPT !.status = "posting", !.owner = w[1], !.fence = eng[w[1]].fence,
                       !.gen = nud[n].gen + 1] \in NudgeRow
    BY <1>u, <2>1 DEF NudgeRow
  <2>3. NudOK'
    <3>1. due' \subseteq Nudges
      BY <1>3, <1>a DEF ClaimNudge, NudOK
    <3> QED  BY <1>a, <2>2, <3>1, RowNud
  <2>4. n \in Nat
    BY NudgeAssumption DEF Nudges
  <2>5. Claim(n, eng[w[1]].fence) \in Job
    BY <2>1, <2>4, Zenon DEF Claim, Job, Places
  <2>6. Claim(n, eng[w[1]].fence).pc \notin AtRest /\ Claim(n, eng[w[1]].fence).n \in Nudges
    BY DEF Claim, AtRest
  <2>8. JobOK'
    BY <1>a, <2>5, <2>6, JobWrite
  <2> QED  BY <1>3, <1>b, <1>e, <1>r, <1>l, <2>3, <2>8 DEF ClaimNudge
<1>4. ASSUME NEW w \in Workers, NothingToClaim(w) PROVE TypeOK'
  BY <1>4, <1>a, <1>b, <1>e, <1>n, <1>j, <1>r, <1>l, GoJob, LookEng DEF NothingToClaim, Workers, AtRest, Places
<1>5. ASSUME NEW w \in Workers, Abandon(w) PROVE TypeOK'
  BY <1>5, <1>a, <1>b, <1>e, <1>n, <1>j, <1>r, <1>l, LeaveJob, LookEng DEF Abandon, Leave, Workers, AtRest, Places
<1>6. ASSUME NEW w \in Workers, TurnAway(w) PROVE TypeOK'
  <2>1. job[w].n \in Nudges
    BY <1>6, <1>a DEF TurnAway, JobOK, AtRest
  <2> QED  BY <1>6, <2>1, <1>a, <1>b, <1>e, <1>n, <1>j, <1>r, <1>l, LeaveJob, DisposeNud DEF TurnAway, Leave, AtRest
<1>7. ASSUME NEW w \in Workers, LookUp(w) PROVE TypeOK'
  <2>1. AfterLookUp(w) \in Places \ AtRest
    BY DEF AfterLookUp, Places, AtRest
  <2> QED  BY <1>7, <2>1, <1>a, <1>b, <1>e, <1>n, <1>j, <1>r, <1>l, LeaveJob, GoJob DEF LookUp, Leave, AtRest
<1>8. ASSUME NEW w \in Workers, BeginSend(w) PROVE TypeOK'
  <2>1. job[w] \in Job /\ job[w].n \in Nudges
    BY <1>8, <1>a DEF BeginSend, JobOK, AtRest
  <2>2. CASE HoldsNudge(w)
    <3> DEFINE j == [job[w] EXCEPT !.pc = "sending", !.announced = TRUE]
    <3>1. j \in Job /\ j.pc = "sending" /\ j.n \in Nudges
      BY <2>1 DEF Job, Places
    <3>2. job' = [job EXCEPT ![w] = j] \/ Leave(w)
      BY <1>8 DEF BeginSend
    <3> HIDE DEF j
    <3>3. JobOK'
      BY <1>a, <3>1, <3>2, JobWrite, LeaveJob DEF AtRest, Leave
    <3>4. [nud[job[w].n] EXCEPT !.sent = "open"] \in NudgeRow
      BY <1>u, <2>1 DEF NudgeRow, Sent
    <3>5. NudOK'
      BY <1>8, <1>a, <2>1, <3>4, RowNud DEF BeginSend, NudOK
    <3> QED  BY <1>8, <1>b, <1>e, <1>r, <1>l, <3>3, <3>5 DEF BeginSend
  <2>3. CASE ~HoldsNudge(w)
    BY <1>8, <2>3, <1>a, <1>b, <1>e, <1>n, <1>j, <1>r, <1>l, LeaveJob DEF BeginSend, Leave, AtRest
  <2> QED  BY <2>2, <2>3
<1>9. ASSUME NEW w \in Workers, CheckBeforePost(w) PROVE TypeOK'
  BY <1>9, <1>a, <1>b, <1>e, <1>n, <1>j, <1>r, <1>l, GoJob, RaiseJob, LookEng DEF CheckBeforePost, Workers, AtRest, Places
<1>10. ASSUME NEW w \in Workers, Post(w) PROVE TypeOK'
  <2>1. job[w].n \in Nudges
    BY <1>10, <1>a DEF Post, JobOK, AtRest
  <2>2. RemOK'
    BY <1>10, <1>a, <2>1 DEF Post, RemOK
  <2> QED  BY <1>10, <2>2, <1>a, <1>b, <1>e, <1>n, <1>j, <1>r, <1>l, GoJob DEF Post, AtRest, Places
<1>11. ASSUME NEW w \in Workers, PostAnswered(w) PROVE TypeOK'
  BY <1>11, <1>a, <1>b, <1>e, <1>n, <1>j, <1>r, <1>l, GoJob DEF PostAnswered, AtRest, Places
<1>12. ASSUME NEW w \in Workers, PostUnanswered(w) PROVE TypeOK'
  BY <1>12, <1>a, <1>b, <1>e, <1>n, <1>j, <1>r, <1>l, RaiseJob DEF PostUnanswered, AtRest, Places
<1>13. ASSUME NEW w \in Workers, MarkPosted(w) PROVE TypeOK'
  <2>1. job[w].n \in Nudges
    BY <1>13, <1>a DEF MarkPosted, JobOK, AtRest
  <2>2. [nud[job[w].n] EXCEPT !.status = "posted", !.owner = NoProc, !.sent = "no"] \in NudgeRow
    BY <1>u, <2>1 DEF NudgeRow, Sent
  <2>3. NudOK'
    BY <1>13, <1>a, <2>1, <2>2, RowNud DEF MarkPosted, NudOK
  <2>4. JobOK' /\ EngOK'
    BY <1>13, <1>a, <1>e, LeaveJob, RaiseJob, LookEng DEF MarkPosted, Leave, AtRest, Workers
  <2> QED  BY <1>13, <1>b, <1>r, <1>l, <2>3, <2>4 DEF MarkPosted
<1>14. ASSUME NEW w \in Workers, KeepQuarantine(w) PROVE TypeOK'
  <2>1. job[w].n \in Nudges
    BY <1>14, <1>a DEF KeepQuarantine, JobOK, AtRest
  <2> QED  BY <1>14, <2>1, <1>a, <1>b, <1>e, <1>n, <1>j, <1>r, <1>l, LeaveJob, DisposeNud DEF KeepQuarantine, Leave, AtRest
<1>15. ASSUME NEW w \in Workers, HandleNudgeError(w) PROVE TypeOK'
  <2>1. job[w].n \in Nudges
    BY <1>15, <1>a DEF HandleNudgeError, JobOK, AtRest
  <2>2. NudOK'
    BY <1>15, <1>a, <1>n, <2>1, DisposeNud DEF HandleNudgeError
  <2> QED  BY <1>15, <2>2, <1>a, <1>b, <1>e, <1>n, <1>j, <1>r, <1>l, LeaveJob, LookEng DEF HandleNudgeError, Leave, AtRest, Workers
<1>16. ASSUME NEW w \in Workers, CallFails(w) PROVE TypeOK'
  <2>1. job[w].late \in BOOLEAN
    BY <1>a DEF JobOK, Job
  <2> QED  BY <1>16, <2>1, <1>a, <1>b, <1>e, <1>n, <1>j, <1>r, <1>l, RaiseJob DEF CallFails, AtRest
<1>17. ASSUME NEW w \in Workers, DiskFails(w) PROVE TypeOK'
  <2>1. EngOK'
    BY <1>17, <1>a, <1>e, LookEng DEF DiskFails, Workers
  <2> QED  BY <1>17, <2>1, <1>a, <1>b, <1>e, <1>n, <1>j, <1>r, <1>l, RaiseJob, LeaveJob DEF DiskFails, Leave, AtRest
<1>18. ASSUME NEW w \in Workers, Deadline(w) PROVE TypeOK'
  <2> DEFINE j == [job[w] EXCEPT !.late = TRUE]
  <2>1. job[w] \in Job /\ j \in Job /\ j.pc = job[w].pc /\ j.n = job[w].n
    BY <1>a DEF JobOK, Job
  <2>2. job' = [job EXCEPT ![w] = j]
    BY <1>18 DEF Deadline
  <2> HIDE DEF j
  <2>3. JobOK'
    BY <1>a, <2>1, <2>2, JobWrite DEF JobOK
  <2> QED  BY <1>18, <2>3, <1>a, <1>b, <1>e, <1>n, <1>j, <1>r, <1>l DEF Deadline
<1>19. ASSUME NEW p \in Procs, Start(p) PROVE TypeOK'
  <2>1. lease.fence + 1 \in Nat
    BY <1>a DEF LeaseRow
  <2>2. (lease \in LeaseRow)'
    BY <1>19, <2>1 DEF Start, AcquireToStart, Acquire, LeaseRow
  <2>3. \A e \in BOOLEAN : [phase |-> "starting", fence |-> lease.fence + 1, entitled |-> e]
            \in [phase : Phases, fence : Nat, entitled : BOOLEAN]
    BY <2>1 DEF Phases
  <2>4. EngOK'
    <3> PICK e \in BOOLEAN :
          eng' = [eng EXCEPT ![p] =
                    [phase |-> "starting", fence |-> lease.fence + 1, entitled |-> e]]
      BY <1>19 DEF Start, AcquireToStart
    <3> QED  BY <1>a, <2>3 DEF EngOK
  <2> QED  BY <1>19, <2>2, <2>4, <1>a, <1>b, <1>e, <1>n, <1>j, <1>r, <1>l DEF Start, Aside
<1>20. ASSUME NEW p \in Procs, RecoverAndServe(p) PROVE TypeOK'
  <2> Down \in [phase : Phases, fence : Nat, entitled : BOOLEAN]
    BY DEF Down, Phases
  <2>1. EngOK'
    BY <1>20, <1>a DEF RecoverAndServe, Serve, Refused, EngOK, Phases
  <2>2. NudOK'
    BY <1>20, <1>a, <1>n, RecoverNud DEF RecoverAndServe, Aside
  <2>3. JobOK'
    BY <1>20, <1>a, <1>j, RestartJob DEF RecoverAndServe, Aside, AtRest
  <2> QED  BY <1>20, <2>1, <2>2, <2>3, <1>b, <1>r, <1>l DEF RecoverAndServe, Aside
<1>21. ASSUME NEW p \in Procs, RenewServiceLease(p) PROVE TypeOK'
  <2>1. EngOK' /\ (lease \in LeaseRow)'
    BY <1>21, <1>a, <1>e, <1>l, LookEng DEF RenewServiceLease, Renew, Extend, LeaseRow
  <2> QED  BY <1>21, <2>1, <1>a, <1>b, <1>e, <1>n, <1>j, <1>r, <1>l DEF RenewServiceLease, Aside
<1>22. ASSUME NEW p \in Procs, Stop(p) PROVE TypeOK'
  <2>1. EngOK'
    BY <1>22, <1>a DEF Stop, CancelToStop, EngOK, Phases
  <2> QED  BY <1>22, <2>1, <1>a, <1>b, <1>e, <1>n, <1>j, <1>r, <1>l DEF Stop, CancelToStop, Aside
<1>23. ASSUME NEW p \in Procs, StopFinishes(p) PROVE TypeOK'
  <2>1. EngOK' /\ (lease \in LeaseRow)'
    BY <1>23, <1>a, <1>l DEF StopFinishes, ReleaseToStop, Lapse, LeaseRow, Down, EngOK, Phases
  <2> QED  BY <1>23, <2>1, <1>a, <1>b, <1>e, <1>n, <1>j, <1>r, <1>l DEF StopFinishes, Aside
<1>24. ASSUME NEW p \in Procs, Crash(p) PROVE TypeOK'
  <2>1. EngOK'
    BY <1>24, <1>a DEF Crash, Die, Down, EngOK, Phases
  <2>2. JobOK'
    BY <1>24, <1>a, RestartJob DEF Crash, AtRest
  <2> QED  BY <1>24, <2>1, <2>2, <1>a, <1>b, <1>e, <1>n, <1>j, <1>r, <1>l DEF Crash, Die
<1>25. ASSUME LeaseExpires PROVE TypeOK'
  <2>1. (lease \in LeaseRow)'
    BY <1>25, <1>a DEF LeaseExpires, Expire, Lapse, LeaseRow
  <2> QED  BY <1>25, <2>1, <1>a, <1>b, <1>e, <1>n, <1>j, <1>r, <1>l DEF LeaseExpires, Expire, Aside
<1>26. ASSUME NEW n \in Nudges, CreateNudge(n) PROVE TypeOK'
  <2>1. [nud[n] EXCEPT !.status = "queued"] \in NudgeRow
    BY <1>u DEF NudgeRow
  <2>2. NudOK'
    BY <1>26, <1>a, <2>1, RowNud DEF CreateNudge, NudOK
  <2> QED  BY <1>26, <2>2, <1>a, <1>b, <1>e, <1>n, <1>j, <1>r, <1>l DEF CreateNudge
<1>27. ASSUME NEW n \in Nudges, WindowCloses(n) PROVE TypeOK'
  <2>1. [nud[n] EXCEPT !.sent = "past"] \in NudgeRow
    BY <1>u DEF NudgeRow, Sent
  <2>2. NudOK'
    BY <1>27, <1>a, <2>1, RowNud DEF WindowCloses, NudOK
  <2> QED  BY <1>27, <2>2, <1>a, <1>b, <1>e, <1>n, <1>j, <1>r, <1>l DEF WindowCloses
<1>28. ASSUME NEW n \in Nudges, CommentAppears(n) PROVE TypeOK'
  <2>1. remote[n] \in [flying : Nat, landed : Nat] /\ remote[n].flying \in Nat
        /\ remote[n].landed \in Nat
    BY <1>a DEF RemOK
  <2>2. remote[n].flying > 0
    BY <1>28 DEF CommentAppears
  <2>3. remote[n].flying - 1 \in Nat /\ remote[n].landed + 1 \in Nat
    BY <2>1, <2>2
  <2>4. [flying |-> remote[n].flying - 1, landed |-> remote[n].landed + 1] \in [flying : Nat, landed : Nat]
    BY <2>1, <2>3
  <2>5. remote' = [remote EXCEPT ![n] = [flying |-> remote[n].flying - 1, landed |-> remote[n].landed + 1]]
    BY <1>28 DEF CommentAppears
  <2>6. RemOK'
    BY <1>a, <2>4, <2>5 DEF RemOK
  <2> QED  BY <1>28, <2>6, <1>a, <1>b, <1>e, <1>n, <1>j, <1>r, <1>l DEF CommentAppears
<1>29. ASSUME NEW n \in Nudges, RequestIsLost(n) PROVE TypeOK'
  <2>1. remote[n] \in [flying : Nat, landed : Nat] /\ remote[n].flying \in Nat
        /\ remote[n].landed \in Nat
    BY <1>a DEF RemOK
  <2>2. remote[n].flying > 0
    BY <1>29 DEF RequestIsLost
  <2>3. remote[n].flying - 1 \in Nat /\ remote[n].landed + 1 \in Nat
    BY <2>1, <2>2
  <2>4. [remote[n] EXCEPT !.flying = remote[n].flying - 1] \in [flying : Nat, landed : Nat]
    BY <2>1, <2>3
  <2>5. remote' = [remote EXCEPT ![n] = [remote[n] EXCEPT !.flying = remote[n].flying - 1]]
    BY <1>29 DEF RequestIsLost
  <2>6. RemOK'
    BY <1>a, <2>4, <2>5 DEF RemOK
  <2> QED  BY <1>29, <2>6, <1>a, <1>b, <1>e, <1>n, <1>j, <1>r, <1>l DEF RequestIsLost
<1>30. ASSUME NEW n \in Nudges, RetryIsDue(n) PROVE TypeOK'
  <2>1. NudOK'
    BY <1>30, <1>a DEF RetryIsDue, NudOK
  <2> QED  BY <1>30, <2>1, <1>a, <1>b, <1>e, <1>n, <1>j, <1>r, <1>l DEF RetryIsDue
<1>31. CASE UNCHANGED vars
  BY <1>31, <1>a, <1>b, <1>e, <1>n, <1>j, <1>r, <1>l DEF vars
<1> QED
  BY <1>1, <1>2, <1>3, <1>4, <1>5, <1>6, <1>7, <1>8, <1>9, <1>10, <1>11, <1>12, <1>13, <1>14, <1>15, <1>16, <1>17, <1>18, <1>19, <1>20, <1>21, <1>22, <1>23, <1>24, <1>25, <1>26, <1>27, <1>28, <1>29, <1>30, <1>31 DEF Next, WorkerStep, EngineStep


(***************************************************************************)
(* Most steps are calm: no worker takes on more than it had, no row goes   *)
(* back to an earlier state, and no request leaves.  Only a claim, the     *)
(* announcement of a send, and a POST are not.                             *)
(***************************************************************************)

JobCalm(w) ==
  \/ job'[w].pc \in AtRest
  \/ /\ Busy(w)
     /\ job'[w].n = job[w].n /\ job'[w].gen = job[w].gen /\ job'[w].again = job[w].again
     /\ job'[w].announced = job[w].announced
     /\ job'[w].pc = "marking" => remote[job[w].n].landed > 0
     /\ job'[w].pc = "claimed" => At(w, "claimed")
     /\ job'[w].pc = "beginning" => At(w, "beginning") \/ (At(w, "claimed") /\ ~job[w].again)
     /\ job'[w].pc \in InHand => job[w].pc \in InHand
     /\ job'[w].pc \in {"sending", "posting"} => job[w].pc \in {"sending", "posting"}

RowCalm(n) ==
  /\ nud'[n].gen = nud[n].gen
  /\ nud'[n].status = "posting" => nud[n].status = "posting"
  /\ nud[n].sent = "no" => nud'[n].sent = "no"
  /\ nud'[n].status \in {"none", "queued"} => nud'[n].sent = "no"
  /\ nud'[n].sent = "no" /\ nud'[n].status \notin {"posted", "failed"} =>
       nud[n].sent = "no" /\ nud[n].status \notin {"posted", "failed"}
  /\ nud'[n].status = "posted" => remote[n].landed > 0

RemCalm(n) ==
  /\ Silent(n) => Silent(n)'
  /\ remote'[n].landed >= remote[n].landed
  /\ remote'[n].flying + remote'[n].landed <= remote[n].flying + remote[n].landed

JobsCalm == \A w \in Workers : JobCalm(w)
RowsCalm == \A n \in Nudges : RowCalm(n)
RemsCalm == \A n \in Nudges : RemCalm(n)

LEMMA CalmStep ==
  ASSUME TypeOK, TypeOK', Inv, JobsCalm, RowsCalm, RemsCalm
  PROVE  Inv'
<1>j. \A w \in Workers : job[w].gen \in Nat /\ job'[w].gen \in Nat /\ (Busy(w) => job[w].n \in Nudges)
        /\ (Busy(w)' => job'[w].n \in Nudges)
  BY DEF TypeOK, Job, Busy
<1>r. \A n \in Nudges : nud[n].gen \in Nat /\ remote[n].landed \in Nat /\ remote[n].flying \in Nat
        /\ remote'[n].landed \in Nat /\ remote'[n].flying \in Nat
  BY DEF TypeOK, NudgeRow
<1>h. \A w \in Workers : (job[w].pc \in InHand \/ job[w].pc \in {"claimed", "beginning", "marking"} => Busy(w))
        /\ (job'[w].pc \in InHand \/ job'[w].pc \in {"claimed", "beginning", "marking"} => Busy(w)')
  BY DEF InHand, Busy, AtRest
<1>c. \A w \in Workers : Busy(w)' =>
        /\ Busy(w)
        /\ job'[w].n = job[w].n /\ job'[w].gen = job[w].gen /\ job'[w].again = job[w].again
        /\ job'[w].announced = job[w].announced
        /\ job'[w].pc = "marking" => remote[job[w].n].landed > 0
        /\ job'[w].pc = "claimed" => At(w, "claimed")
        /\ job'[w].pc = "beginning" => At(w, "beginning") \/ (At(w, "claimed") /\ ~job[w].again)
        /\ job'[w].pc \in InHand => job[w].pc \in InHand
        /\ job'[w].pc \in {"sending", "posting"} => job[w].pc \in {"sending", "posting"}
  BY DEF JobsCalm, JobCalm, Busy
<1>1. Tickets'
  BY <1>c, <1>j DEF Inv, Tickets, RowsCalm, RowCalm
<1>2. Distinct'
  BY <1>c DEF Inv, Distinct
<1>3. QueuedUnsent'
  BY DEF QueuedUnsent, RowsCalm, RowCalm
<1>4. Quiet'
  BY <1>c, <1>h DEF Inv, Quiet, RowsCalm, RowCalm, RemsCalm, RemCalm
<1>5. Unannounced'
  <2> SUFFICES ASSUME NEW w \in Workers,
                      job'[w].pc = "beginning" \/ (job'[w].pc = "claimed" /\ ~job'[w].again),
                      nud'[job'[w].n].status = "posting" /\ nud'[job'[w].n].gen = job'[w].gen
               PROVE  nud'[job'[w].n].sent = "no"
    BY DEF Unannounced, Current, At
  <2>1. job'[w].n = job[w].n /\ job[w].n \in Nudges /\ job'[w].gen = job[w].gen
    BY <1>c, <1>h, <1>j
  <2>2. At(w, "beginning") \/ (At(w, "claimed") /\ ~job[w].again)
    BY <1>c, <1>h
  <2>3. Current(w)
    BY <2>1 DEF Current, RowsCalm, RowCalm
  <2> QED  BY <2>1, <2>2, <2>3 DEF Inv, Unannounced, RowsCalm, RowCalm
<1>6. OneSender'
  <2> SUFFICES ASSUME NEW w \in Workers, job'[w].pc \in {"sending", "posting"}
               PROVE  /\ remote'[job'[w].n].flying = 0 /\ remote'[job'[w].n].landed = 0
                      /\ \A v \in Workers : job'[v].pc \in InHand /\ job'[v].n = job'[w].n => v = w
    BY DEF OneSender, Silent
  <2>1. job'[w].n = job[w].n /\ job[w].n \in Nudges /\ job[w].pc \in {"sending", "posting"}
    BY <1>c, <1>h, <1>j DEF InHand
  <2>2. /\ Silent(job[w].n)
        /\ \A v \in Workers : job[v].pc \in InHand /\ job[v].n = job[w].n => v = w
    BY <2>1 DEF Inv, OneSender
  <2>3. remote'[job'[w].n].flying = 0 /\ remote'[job'[w].n].landed = 0
    BY <2>1, <2>2 DEF RemsCalm, RemCalm, Silent
  <2>4. ASSUME NEW v \in Workers, job'[v].pc \in InHand, job'[v].n = job'[w].n PROVE v = w
    BY <2>1, <2>2, <2>4, <1>c, <1>h
  <2> QED  BY <2>3, <2>4
<1>7. Evidence'
  BY <1>c, <1>h, <1>j, <1>r DEF Inv, Evidence, RemsCalm, RemCalm, At
<1>8. AtMostOneNotification'
  BY <1>r DEF Inv, AtMostOneNotification, RemsCalm, RemCalm
<1>9. PostedMeansSeen'
  BY <1>r DEF Inv, PostedMeansSeen, RowsCalm, RowCalm, RemsCalm, RemCalm
<1>10. Recorded'
  <2> SUFFICES ASSUME NEW w \in Workers, Busy(w)', ~job'[w].announced,
                      nud'[job'[w].n].status = "posting" /\ nud'[job'[w].n].gen = job'[w].gen
               PROVE  nud'[job'[w].n].sent = "no"
    BY DEF Recorded, Current
  <2>1. job'[w].n = job[w].n /\ job[w].n \in Nudges /\ job'[w].gen = job[w].gen /\ Busy(w)
        /\ ~job[w].announced
    BY <1>c, <1>j
  <2>2. Current(w)
    BY <2>1 DEF Current, RowsCalm, RowCalm
  <2> QED  BY <2>1, <2>2 DEF Inv, Recorded, RowsCalm, RowCalm
<1> QED  BY <1>1, <1>2, <1>3, <1>4, <1>5, <1>6, <1>7, <1>8, <1>9, <1>10 DEF Inv

(***************************************************************************)
(* What makes a step calm.                                                 *)
(***************************************************************************)

LEMMA RowsKept ==
  ASSUME QueuedUnsent, PostedMeansSeen, UNCHANGED nud
  PROVE  RowsCalm
BY DEF RowsCalm, RowCalm, QueuedUnsent, PostedMeansSeen

LEMMA RowWrite ==
  ASSUME NudOK, QueuedUnsent, PostedMeansSeen,
         NEW n \in Nudges, NEW row \in NudgeRow, SetRow(n, row), RowCalm(n)
  PROVE  RowsCalm
<1>1. ASSUME NEW m \in Nudges, m # n PROVE RowCalm(m)
  <2>1. nud'[m] = nud[m]
    BY <1>1 DEF SetRow, NudOK
  <2> QED  BY <2>1 DEF RowCalm, QueuedUnsent, PostedMeansSeen
<1> QED  BY <1>1 DEF RowsCalm

LEMMA RemsKept ==
  ASSUME RemOK, UNCHANGED remote
  PROVE  RemsCalm
<1>1. \A n \in Nudges : remote[n].landed \in Nat /\ remote[n].flying \in Nat
  BY DEF RemOK
<1> QED  BY <1>1 DEF RemsCalm, RemCalm, Silent

LEMMA JobsKept ==
  ASSUME JobOK, Evidence, UNCHANGED job
  PROVE  JobsCalm
BY DEF JobsCalm, JobCalm, Evidence, At, Busy, AtRest

(* One worker moves.                                                       *)
LEMMA JobMove ==
  ASSUME JobOK, Evidence, NEW w \in Workers, NEW j, job' = [job EXCEPT ![w] = j], JobCalm(w)
  PROVE  JobsCalm
<1>1. ASSUME NEW v \in Workers, v # w PROVE JobCalm(v)
  <2>1. job'[v] = job[v]
    BY <1>1 DEF JobOK
  <2> QED  BY <2>1 DEF JobCalm, Evidence, At, Busy, AtRest
<1> QED  BY <1>1 DEF JobsCalm

LEMMA LeaveCalm ==
  ASSUME JobOK, Evidence, NEW w \in Workers, Leave(w)
  PROVE  JobsCalm
<1>1. job'[w].pc \in AtRest
  BY DEF Leave, Resting, JobOK, AtRest
<1> QED  BY <1>1, JobMove DEF Leave, JobCalm

LEMMA RaiseCalm ==
  ASSUME JobOK, Evidence, NEW w \in Workers, NEW retry, Raise(w, retry), Busy(w)
  PROVE  JobsCalm
<1> DEFINE j == [job[w] EXCEPT !.pc = "failing", !.retry = retry]
<1>1. job' = [job EXCEPT ![w] = j]
  BY DEF Raise
<1>2. j.pc = "failing" /\ j.n = job[w].n /\ j.gen = job[w].gen /\ j.again = job[w].again
      /\ j.announced = job[w].announced
  BY DEF JobOK, Job
<1>3. job'[w] = j
  BY <1>1 DEF JobOK
<1> HIDE DEF j
<1> QED  BY <1>1, <1>2, <1>3, JobMove DEF JobCalm, InHand

LEMMA GoCalm ==
  ASSUME JobOK, Evidence, NEW w \in Workers, NEW pc, Go(w, pc),
         \/ pc \in AtRest
         \/ /\ Busy(w)
            /\ pc = "marking" => remote[job[w].n].landed > 0
            /\ pc # "claimed"
            /\ pc = "beginning" => At(w, "claimed") /\ ~job[w].again
            /\ pc \in InHand => job[w].pc \in InHand
            /\ pc \in {"sending", "posting"} => job[w].pc \in {"sending", "posting"}
  PROVE  JobsCalm
<1> DEFINE j == [job[w] EXCEPT !.pc = pc]
<1>1. job' = [job EXCEPT ![w] = j]
  BY DEF Go
<1>2. j.pc = pc /\ j.n = job[w].n /\ j.gen = job[w].gen /\ j.again = job[w].again
      /\ j.announced = job[w].announced
  BY DEF JobOK, Job
<1>3. job'[w] = j
  BY <1>1 DEF JobOK
<1> HIDE DEF j
<1> QED  BY <1>1, <1>2, <1>3, JobMove DEF JobCalm

(* The worker's own process dies or starts afresh.                         *)
LEMMA RestartCalm ==
  ASSUME JobOK, Evidence, NEW p, NEW pc \in AtRest,
         job' = [w \in Workers |-> IF w[1] = p THEN Resting(pc) ELSE job[w]]
  PROVE  JobsCalm
<1>1. ASSUME NEW w \in Workers, w[1] = p PROVE JobCalm(w)
  BY <1>1 DEF JobCalm, Resting
<1>2. ASSUME NEW w \in Workers, w[1] # p PROVE JobCalm(w)
  <2>1. job'[w] = job[w]
    BY <1>2
  <2> QED  BY <2>1 DEF JobCalm, Evidence, At, Busy, AtRest
<1> QED  BY <1>1, <1>2 DEF JobsCalm

LEMMA DisposeCalm ==
  ASSUME NudOK, QueuedUnsent, PostedMeansSeen, NEW n \in Nudges, nud[n].status = "posting",
         Quarantine(n) \/ FinishFailed(n) \/ Requeue(n)
  PROVE  RowsCalm
<1>0. nud[n] \in NudgeRow
  BY DEF NudOK
<1>1. CASE Quarantine(n)
  <2> DEFINE row == [nud[n] EXCEPT !.status = "reconciliation_required", !.owner = NoProc]
  <2>1. row \in NudgeRow /\ row.status = "reconciliation_required" /\ row.gen = nud[n].gen
        /\ row.sent = nud[n].sent
    BY <1>0 DEF NudgeRow
  <2>2. SetRow(n, row)
    BY <1>1 DEF Quarantine
  <2> HIDE DEF row
  <2>3. nud'[n] = row
    BY <2>2 DEF SetRow, NudOK
  <2> QED  BY <2>1, <2>2, <2>3, RowWrite DEF RowCalm
<1>2. CASE FinishFailed(n)
  <2> DEFINE row == [nud[n] EXCEPT !.status = "failed", !.owner = NoProc, !.sent = "no"]
  <2>1. row \in NudgeRow /\ row.status = "failed" /\ row.gen = nud[n].gen /\ row.sent = "no"
    BY <1>0 DEF NudgeRow, Sent
  <2>2. SetRow(n, row)
    BY <1>2 DEF FinishFailed
  <2> HIDE DEF row
  <2>3. nud'[n] = row
    BY <2>2 DEF SetRow, NudOK
  <2> QED  BY <2>1, <2>2, <2>3, RowWrite DEF RowCalm
<1>3. CASE nud[n].sent = "no" /\ Requeue(n)
  <2> DEFINE row == [nud[n] EXCEPT !.status = "queued", !.owner = NoProc]
  <2>1. row \in NudgeRow /\ row.status = "queued" /\ row.gen = nud[n].gen /\ row.sent = "no"
    BY <1>0, <1>3 DEF NudgeRow
  <2>2. SetRow(n, row)
    BY <1>3 DEF Requeue
  <2> HIDE DEF row
  <2>3. nud'[n] = row
    BY <2>2 DEF SetRow, NudOK
  <2> QED  BY <1>3, <2>1, <2>2, <2>3, RowWrite DEF RowCalm
<1> QED  BY <1>1, <1>2, <1>3 DEF Requeue

LEMMA RecoverCalm ==
  ASSUME NudOK, QueuedUnsent, PostedMeansSeen, NEW p, NEW f, RecoverInterruptedNudges(p, f)
  PROVE  RowsCalm
<1> SUFFICES ASSUME NEW n \in Nudges PROVE RowCalm(n)
  BY DEF RowsCalm
<1>0. nud[n] \in NudgeRow
  BY DEF NudOK
<1>1. CASE Interrupted(n, f)
  <2>1. nud'[n] = Recovered(nud[n]) /\ nud[n].status = "posting"
    BY <1>1 DEF RecoverInterruptedNudges, Interrupted
  <2>2. /\ Recovered(nud[n]).gen = nud[n].gen /\ Recovered(nud[n]).sent = nud[n].sent
        /\ Recovered(nud[n]).status =
             IF nud[n].sent = "no" THEN "queued" ELSE "reconciliation_required"
    BY <1>0 DEF Recovered, NudgeRow
  <2> QED  BY <2>1, <2>2 DEF RowCalm
<1>2. CASE ~Interrupted(n, f)
  <2>1. nud'[n] = nud[n]
    BY <1>2 DEF RecoverInterruptedNudges
  <2> QED  BY <2>1 DEF RowCalm, QueuedUnsent, PostedMeansSeen
<1> QED  BY <1>1, <1>2

(***************************************************************************)
(* The three steps that are not calm.                                      *)
(***************************************************************************)

(* A claim issues a new generation: whoever held the row holds it no more. *)
LEMMA ClaimStep ==
  ASSUME TypeOK, TypeOK', Inv, NEW w \in Workers, ClaimNudge(w)
  PROVE  Inv'
<1> PICK n \in Nudges :
      /\ Claimable(n)
      /\ SetRow(n, [nud[n] EXCEPT !.status = "posting", !.owner = w[1],
                                  !.fence = eng[w[1]].fence, !.gen = nud[n].gen + 1])
      /\ job' = [job EXCEPT ![w] = Claim(n, eng[w[1]].fence)]
  BY DEF ClaimNudge
<1> DEFINE g == nud[n].gen + 1
<1>0. nud[n] \in NudgeRow /\ nud[n].gen \in Nat /\ g \in Nat /\ g > nud[n].gen
  BY DEF TypeOK, NudgeRow
<1>1. nud'[n].status = "posting" /\ nud'[n].gen = g /\ nud'[n].sent = nud[n].sent
  BY <1>0 DEF SetRow, TypeOK, NudgeRow
<1>2. \A m \in Nudges : m # n => nud'[m] = nud[m]
  BY DEF SetRow, TypeOK
<1>3. /\ job'[w].pc = "claimed" /\ job'[w].n = n /\ job'[w].gen = g
      /\ job'[w].again = (nud[n].status = "reconciliation_required")
      /\ job'[w].announced = (nud[n].sent # "no")
  BY DEF Claim, TypeOK
<1>4. \A v \in Workers : v # w => job'[v] = job[v]
  BY DEF TypeOK
<1>5. remote' = remote /\ ~Busy(w)
  BY DEF ClaimNudge, At, Busy, AtRest
<1>6. \A v \in Workers : job[v].gen \in Nat /\ (Busy(v) => job[v].n \in Nudges)
  BY DEF TypeOK, Busy, Job
<1>7. nud[n].status \in {"queued", "reconciliation_required"}
  BY DEF Claimable
<1>8. \A v \in Workers : Busy(v) /\ job[v].n = n => job[v].gen < g
  BY <1>0, <1>6 DEF Inv, Tickets
<1>t. \A v \in Workers : Busy(v)' => v = w \/ (Busy(v) /\ job'[v] = job[v])
  BY <1>4 DEF Busy
<1> HIDE DEF g
<1>9. Tickets'
  <2> SUFFICES ASSUME NEW v \in Workers, Busy(v)' PROVE job'[v].gen <= nud'[job'[v].n].gen
    BY DEF Tickets
  <2>1. CASE v = w
    BY <1>0, <1>1, <1>3, <2>1
  <2>2. CASE v # w /\ job[v].n = n
    BY <1>0, <1>1, <1>6, <1>8, <1>t, <2>2
  <2>3. CASE v # w /\ job[v].n # n
    BY <1>2, <1>6, <1>t, <2>3 DEF Inv, Tickets
  <2> QED  BY <2>1, <2>2, <2>3
<1>10. Distinct'
  <2> SUFFICES ASSUME NEW u \in Workers, NEW v \in Workers, Busy(u)', Busy(v)',
                      job'[u].n = job'[v].n, job'[u].gen = job'[v].gen, u # w
               PROVE  u = v
    BY DEF Distinct
  <2>1. Busy(u) /\ job'[u] = job[u]
    BY <1>t
  <2>2. v # w
    BY <2>1, <1>0, <1>3, <1>6, <1>8
  <2> QED  BY <2>1, <2>2, <1>t DEF Inv, Distinct
<1>11. QueuedUnsent'
  BY <1>1, <1>2 DEF Inv, QueuedUnsent
<1>12. Quiet'
  <2> SUFFICES ASSUME NEW m \in Nudges, nud'[m].sent = "no", nud'[m].status \notin {"posted", "failed"}
               PROVE  Silent(m)' /\ \A v \in Workers : job'[v].pc \in InHand => job'[v].n # m
    BY DEF Quiet
  <2>1. Silent(m) /\ \A v \in Workers : job[v].pc \in InHand => job[v].n # m
    BY <1>1, <1>2, <1>7 DEF Inv, Quiet
  <2> QED  BY <2>1, <1>3, <1>4, <1>5 DEF Silent, InHand
<1>13. Unannounced'
  <2> SUFFICES ASSUME NEW v \in Workers,
                      job'[v].pc = "beginning" \/ (job'[v].pc = "claimed" /\ ~job'[v].again),
                      nud'[job'[v].n].status = "posting", nud'[job'[v].n].gen = job'[v].gen
               PROVE  nud'[job'[v].n].sent = "no"
    BY DEF Unannounced, Current, At
  <2>1. CASE v = w
    BY <1>1, <1>3, <1>7, <2>1 DEF Inv, QueuedUnsent
  <2>2. CASE v # w
    <3>1. Busy(v) /\ job'[v] = job[v] /\ job[v].n \in Nudges
      BY <1>4, <1>6, <2>2 DEF Busy, AtRest
    <3>2. job[v].n # n
      BY <3>1, <1>0, <1>1, <1>6, <1>8
    <3> QED  BY <3>1, <3>2, <1>2 DEF Inv, Unannounced, Current, At
  <2> QED  BY <2>1, <2>2
<1>17. Recorded'
  <2> SUFFICES ASSUME NEW v \in Workers, Busy(v)', ~job'[v].announced,
                      nud'[job'[v].n].status = "posting", nud'[job'[v].n].gen = job'[v].gen
               PROVE  nud'[job'[v].n].sent = "no"
    BY DEF Recorded, Current
  <2>1. CASE v = w
    BY <1>1, <1>3, <2>1
  <2>2. CASE v # w
    <3>1. Busy(v) /\ job'[v] = job[v] /\ job[v].n \in Nudges
      BY <1>t, <1>6, <2>2
    <3>2. job[v].n # n
      BY <3>1, <1>0, <1>1, <1>6, <1>8
    <3> QED  BY <3>1, <3>2, <1>2 DEF Inv, Recorded, Current
  <2> QED  BY <2>1, <2>2
<1>14. OneSender'
  <2>1. \A v \in Workers : job'[v].pc \in InHand => v # w /\ job'[v] = job[v]
    BY <1>3, <1>4 DEF InHand
  <2>2. \A v \in Workers : job'[v].pc \in {"sending", "posting"} => v # w /\ job'[v] = job[v]
    BY <2>1 DEF InHand
  <2> QED  BY <2>1, <2>2, <1>5 DEF Inv, OneSender, Silent
<1>15. Evidence'
  BY <1>3, <1>4, <1>5 DEF Inv, Evidence, At
<1>16. AtMostOneNotification' /\ PostedMeansSeen'
  BY <1>1, <1>2, <1>5 DEF Inv, AtMostOneNotification, PostedMeansSeen
<1> QED  BY <1>9, <1>10, <1>11, <1>12, <1>13, <1>14, <1>15, <1>16, <1>17 DEF Inv

(* A send is announced on a row nobody has sent: Quiet clears the way.     *)
LEMMA BeginStep ==
  ASSUME TypeOK, TypeOK', Inv, NEW w \in Workers, BeginSend(w), HoldsNudge(w)
  PROVE  Inv'
<1> DEFINE n == job[w].n
<1>0. n \in Nudges /\ nud[n] \in NudgeRow /\ job[w] \in Job /\ Busy(w)
  BY DEF BeginSend, At, TypeOK, AtRest, Busy
<1>s. /\ SetRow(n, [nud[n] EXCEPT !.sent = "open"])
      /\ job' = [job EXCEPT ![w].pc = "sending", ![w].announced = TRUE]
      /\ UNCHANGED remote
  BY DEF BeginSend
<1>r. remote' = remote
  BY <1>s
<1>1. /\ nud'[n].status = nud[n].status /\ nud'[n].gen = nud[n].gen /\ nud'[n].sent = "open"
      /\ nud[n].status = "posting"
  BY <1>0, <1>s DEF SetRow, TypeOK, NudgeRow, HoldsNudge
<1>2. \A m \in Nudges : m # n => nud'[m] = nud[m]
  BY <1>s DEF SetRow, TypeOK
<1>3. /\ job'[w].pc = "sending" /\ job'[w].n = n /\ job'[w].gen = job[w].gen
      /\ job'[w].again = job[w].again /\ job'[w].announced
  BY <1>0, <1>s DEF TypeOK, Job
<1>4. \A v \in Workers : v # w => job'[v] = job[v]
  BY <1>s DEF TypeOK
<1>5. nud[n].sent = "no"
  BY DEF Inv, Unannounced, Current, HoldsNudge, BeginSend
<1>6. Silent(n) /\ \A v \in Workers : job[v].pc \in InHand => job[v].n # n
  BY <1>0, <1>1, <1>5 DEF Inv, Quiet
<1>7. \A v \in Workers : Busy(v) => job[v].n \in Nudges
  BY DEF TypeOK, Busy
<1>8. \A v \in Workers : job[v].pc \in InHand \/ At(v, "claimed") \/ At(v, "beginning") => Busy(v)
  BY DEF Busy, InHand, AtRest, At
<1>g. nud[n].gen = job[w].gen
  BY DEF HoldsNudge
<1> HIDE DEF n
<1>9. Tickets'
  <2> SUFFICES ASSUME NEW v \in Workers, Busy(v)' PROVE job'[v].gen <= nud'[job'[v].n].gen
    BY DEF Tickets
  <2>1. Busy(v) /\ job'[v].n = job[v].n /\ job'[v].gen = job[v].gen
    BY <1>0, <1>3, <1>4 DEF Busy, n
  <2> QED  BY <2>1, <1>1, <1>2, <1>7 DEF Inv, Tickets
<1>10. Distinct'
  <2>1. \A v \in Workers : Busy(v)' => Busy(v) /\ job'[v].n = job[v].n /\ job'[v].gen = job[v].gen
    BY <1>0, <1>3, <1>4 DEF Busy, n
  <2> QED  BY <2>1 DEF Inv, Distinct
<1>11. QueuedUnsent'
  BY <1>1, <1>2 DEF Inv, QueuedUnsent
<1>12. Quiet'
  <2> SUFFICES ASSUME NEW m \in Nudges, nud'[m].sent = "no", nud'[m].status \notin {"posted", "failed"}
               PROVE  Silent(m)' /\ \A v \in Workers : job'[v].pc \in InHand => job'[v].n # m
    BY DEF Quiet
  <2>1. m # n
    BY <1>1
  <2>2. Silent(m) /\ \A v \in Workers : job[v].pc \in InHand => job[v].n # m
    BY <2>1, <1>2 DEF Inv, Quiet
  <2> QED  BY <2>1, <2>2, <1>3, <1>4, <1>r DEF Silent
<1>13. Unannounced'
  <2> SUFFICES ASSUME NEW v \in Workers,
                      job'[v].pc = "beginning" \/ (job'[v].pc = "claimed" /\ ~job'[v].again),
                      nud'[job'[v].n].status = "posting", nud'[job'[v].n].gen = job'[v].gen
               PROVE  nud'[job'[v].n].sent = "no"
    BY DEF Unannounced, Current, At
  <2>1. v # w /\ job'[v] = job[v] /\ Busy(v) /\ job[v].n \in Nudges
    BY <1>3, <1>4, <1>7, <1>8 DEF At
  <2>2. job[v].n # n
    BY <2>1, <1>0, <1>1, <1>g DEF Inv, Distinct, n
  <2> QED  BY <2>1, <2>2, <1>2 DEF Inv, Unannounced, Current, At
<1>14. OneSender'
  <2> SUFFICES ASSUME NEW v \in Workers, job'[v].pc \in {"sending", "posting"}
               PROVE  /\ remote'[job'[v].n].flying = 0 /\ remote'[job'[v].n].landed = 0
                      /\ \A u \in Workers : job'[u].pc \in InHand /\ job'[u].n = job'[v].n => u = v
    BY DEF OneSender, Silent
  <2>1. CASE v = w
    BY <2>1, <1>3, <1>4, <1>6, <1>r DEF Silent
  <2>2. CASE v # w
    <3>1. job'[v] = job[v] /\ Silent(job[v].n) /\ job[v].n # n
          /\ \A u \in Workers : job[u].pc \in InHand /\ job[u].n = job[v].n => u = v
      BY <2>2, <1>4, <1>6 DEF Inv, OneSender, InHand
    <3> QED  BY <3>1, <1>3, <1>4, <1>r DEF Silent
  <2> QED  BY <2>1, <2>2
<1>15. Evidence'
  BY <1>3, <1>4, <1>r DEF Inv, Evidence, At
<1>16. AtMostOneNotification' /\ PostedMeansSeen'
  BY <1>1, <1>2, <1>r DEF Inv, AtMostOneNotification, PostedMeansSeen
<1>17. Recorded'
  <2> SUFFICES ASSUME NEW v \in Workers, Busy(v)', ~job'[v].announced,
                      nud'[job'[v].n].status = "posting", nud'[job'[v].n].gen = job'[v].gen
               PROVE  nud'[job'[v].n].sent = "no"
    BY DEF Recorded, Current
  <2>1. v # w /\ job'[v] = job[v] /\ Busy(v) /\ job[v].n \in Nudges
    BY <1>3, <1>4, <1>7 DEF Busy
  <2>2. job[v].n # n
    BY <2>1, <1>0, <1>1, <1>g DEF Inv, Distinct, n
  <2> QED  BY <2>1, <2>2, <1>2 DEF Inv, Recorded, Current
<1> QED  BY <1>9, <1>10, <1>11, <1>12, <1>13, <1>14, <1>15, <1>16, <1>17 DEF Inv

(* The one POST there will ever be.                                        *)
LEMMA PostStep ==
  ASSUME TypeOK, TypeOK', Inv, NEW w \in Workers, Post(w)
  PROVE  Inv'
<1> DEFINE n == job[w].n
<1>0. n \in Nudges /\ job[w] \in Job /\ Busy(w) /\ job[w].pc = "posting"
  BY DEF Post, At, TypeOK, AtRest, Busy
<1>1. Silent(n) /\ \A v \in Workers : job[v].pc \in InHand /\ job[v].n = n => v = w
  BY <1>0 DEF Inv, OneSender
<1>2. /\ job'[w].pc = "awaiting" /\ job'[w].n = n /\ job'[w].gen = job[w].gen
      /\ job'[w].again = job[w].again /\ job'[w].announced = job[w].announced
  BY <1>0 DEF Post, Go, TypeOK, Job
<1>3. \A v \in Workers : v # w => job'[v] = job[v]
  BY DEF Post, Go, TypeOK
<1>4. remote[n] \in [flying : Nat, landed : Nat]
  BY <1>0 DEF TypeOK
<1>5. remote'[n].flying = 1 /\ remote'[n].landed = 0
  BY <1>0, <1>1, <1>4 DEF Post, TypeOK, Silent
<1>6. \A m \in Nudges : m # n => remote'[m] = remote[m]
  BY DEF Post, TypeOK
<1>7. nud' = nud
  BY DEF Post, StoreAside
<1>8. \A v \in Workers : (Busy(v) => job[v].n \in Nudges)
        /\ (job[v].pc \in InHand \/ At(v, "marking") => Busy(v))
  BY DEF TypeOK, Busy, AtRest, InHand, At
<1> HIDE DEF n
<1>j. \A v \in Workers : Busy(v)' =>
        /\ Busy(v) /\ job'[v].n = job[v].n /\ job'[v].gen = job[v].gen
        /\ job'[v].again = job[v].again /\ job'[v].announced = job[v].announced
  BY <1>0, <1>2, <1>3 DEF Busy, n
<1>9. Tickets' /\ Distinct' /\ QueuedUnsent'
  <2>1. Tickets'
    BY <1>7, <1>j DEF Inv, Tickets
  <2>2. Distinct'
    BY <1>j DEF Inv, Distinct
  <2> QED  BY <2>1, <2>2, <1>7 DEF Inv, QueuedUnsent
<1>12. Quiet'
  <2> SUFFICES ASSUME NEW m \in Nudges, nud[m].sent = "no", nud[m].status \notin {"posted", "failed"}
               PROVE  /\ remote'[m].flying = 0 /\ remote'[m].landed = 0
                      /\ \A v \in Workers : job'[v].pc \in InHand => job'[v].n # m
    BY <1>7 DEF Quiet, Silent
  <2>1. Silent(m) /\ \A v \in Workers : job[v].pc \in InHand => job[v].n # m
    BY DEF Inv, Quiet
  <2>2. m # n
    BY <2>1, <1>0 DEF InHand, n
  <2> QED  BY <2>1, <2>2, <1>2, <1>3, <1>6 DEF Silent
<1>13. Unannounced'
  BY <1>2, <1>3, <1>7 DEF Inv, Unannounced, Current, At
<1>14. OneSender'
  <2> SUFFICES ASSUME NEW v \in Workers, job'[v].pc \in {"sending", "posting"}
               PROVE  /\ remote'[job'[v].n].flying = 0 /\ remote'[job'[v].n].landed = 0
                      /\ \A u \in Workers : job'[u].pc \in InHand /\ job'[u].n = job'[v].n => u = v
    BY DEF OneSender, Silent
  <2>1. v # w /\ job'[v] = job[v] /\ job[v].pc \in InHand /\ job[v].n \in Nudges
    BY <1>2, <1>3, <1>8 DEF InHand
  <2>2. job[v].n # n
    BY <2>1, <1>1
  <2> QED  BY <2>1, <2>2, <1>2, <1>3, <1>6 DEF Inv, OneSender, Silent
<1>15. Evidence'
  <2> SUFFICES ASSUME NEW v \in Workers, job'[v].pc = "marking" PROVE remote'[job'[v].n].landed > 0
    BY DEF Evidence, At
  <2>1. v # w /\ job'[v] = job[v] /\ At(v, "marking") /\ job[v].n \in Nudges
    BY <1>2, <1>3, <1>8 DEF At
  <2>2. remote[job[v].n].landed > 0
    BY <2>1 DEF Inv, Evidence
  <2>3. job[v].n # n
    BY <2>2, <1>1 DEF Silent
  <2> QED  BY <2>1, <2>2, <2>3, <1>6
<1>16. AtMostOneNotification'
  BY <1>5, <1>6 DEF Inv, AtMostOneNotification
<1>17. PostedMeansSeen'
  <2>1. \A m \in Nudges : nud[m].status = "posted" => m # n
    BY <1>1 DEF Inv, PostedMeansSeen, Silent
  <2> QED  BY <2>1, <1>6, <1>7 DEF Inv, PostedMeansSeen
<1>18. Recorded'
  BY <1>7, <1>j DEF Inv, Recorded, Current
<1> QED  BY <1>9, <1>12, <1>13, <1>14, <1>15, <1>16, <1>17, <1>18 DEF Inv

(***************************************************************************)
(* The induction.                                                          *)
(***************************************************************************)

LEMMA InvStep == TypeOK /\ TypeOK' /\ Inv /\ [Next]_vars => Inv'
<1> SUFFICES ASSUME TypeOK, TypeOK', Inv, [Next]_vars PROVE Inv'
  OBVIOUS
<1>t. JobOK /\ NudOK /\ RemOK /\ Evidence /\ QueuedUnsent /\ PostedMeansSeen
  BY DEF TypeOK, JobOK, NudOK, RemOK, Inv
<1>j. UNCHANGED job => JobsCalm
  BY <1>t, JobsKept
<1>n. UNCHANGED nud => RowsCalm
  BY <1>t, RowsKept
<1>r. UNCHANGED remote => RemsCalm
  BY <1>t, RemsKept
<1>c. JobsCalm /\ RowsCalm /\ RemsCalm => Inv'
  BY CalmStep
<1>b. \A w \in Workers : Busy(w) => job[w].n \in Nudges
  BY DEF TypeOK, Busy
<1>l. \A w \in Workers : Leave(w) => JobsCalm
  BY <1>t, LeaveCalm
<1>f. \A w \in Workers : \A retry : Busy(w) /\ Raise(w, retry) => JobsCalm
  BY <1>t, RaiseCalm
<1> USE DEF At, StoreAside, nudgeVars
<1>1. ASSUME NEW w \in Workers, WorkerReturns(w) PROVE Inv'
  <2>1. JobsCalm
    BY <1>1, <1>t, GoCalm DEF WorkerReturns, AtRest
  <2>2. RowsCalm
    BY <1>1, <1>n DEF WorkerReturns
  <2>3. RemsCalm
    BY <1>1, <1>r DEF WorkerReturns
  <2> QED  BY <2>1, <2>2, <2>3, <1>c
<1>2. ASSUME NEW w \in Workers, RecoverExpiredWork(w) PROVE Inv'
  <2>1. JobsCalm
    BY <1>2, <1>t, GoCalm DEF RecoverExpiredWork, AtRest
  <2>2. RowsCalm
    BY <1>2, <1>t, RecoverCalm DEF RecoverExpiredWork
  <2>3. RemsCalm
    BY <1>2, <1>r DEF RecoverExpiredWork
  <2> QED  BY <2>1, <2>2, <2>3, <1>c
<1>3. ASSUME NEW w \in Workers, ClaimNudge(w) PROVE Inv'
  BY <1>3, ClaimStep
<1>4. ASSUME NEW w \in Workers, NothingToClaim(w) PROVE Inv'
  <2>1. JobsCalm
    BY <1>4, <1>t, GoCalm DEF NothingToClaim, AtRest
  <2>2. RowsCalm
    BY <1>4, <1>n DEF NothingToClaim
  <2>3. RemsCalm
    BY <1>4, <1>r DEF NothingToClaim
  <2> QED  BY <2>1, <2>2, <2>3, <1>c
<1>5. ASSUME NEW w \in Workers, Abandon(w) PROVE Inv'
  <2>1. JobsCalm
    BY <1>5, <1>l DEF Abandon
  <2>2. RowsCalm
    BY <1>5, <1>n DEF Abandon
  <2>3. RemsCalm
    BY <1>5, <1>r DEF Abandon
  <2> QED  BY <2>1, <2>2, <2>3, <1>c
<1>6. ASSUME NEW w \in Workers, TurnAway(w) PROVE Inv'
  <2>1. JobsCalm
    BY <1>6, <1>l DEF TurnAway
  <2>2. RowsCalm
    <3>1. CASE HoldsNudge(w) /\ FinishFailed(job[w].n)
      <4>1. job[w].n \in Nudges /\ nud[job[w].n].status = "posting"
        BY <1>6, <3>1, <1>b DEF TurnAway, Busy, AtRest, HoldsNudge
      <4> QED  BY <3>1, <4>1, <1>t, DisposeCalm
    <3> QED  BY <1>6, <3>1, <1>n DEF TurnAway
  <2>3. RemsCalm
    BY <1>6, <1>r DEF TurnAway
  <2> QED  BY <2>1, <2>2, <2>3, <1>c
<1>7. ASSUME NEW w \in Workers, LookUp(w) PROVE Inv'
  <2>1. JobsCalm
    <3>1. Busy(w) /\ At(w, "claimed")
      BY <1>7 DEF LookUp, Busy, AtRest
    <3>2. CASE Go(w, AfterLookUp(w))
      BY <3>1, <3>2, <1>t, GoCalm DEF AfterLookUp, InHand
    <3> QED  BY <1>7, <3>2, <1>l DEF LookUp
  <2>2. RowsCalm
    BY <1>7, <1>n DEF LookUp
  <2>3. RemsCalm
    BY <1>7, <1>r DEF LookUp
  <2> QED  BY <2>1, <2>2, <2>3, <1>c
<1>8. ASSUME NEW w \in Workers, BeginSend(w) PROVE Inv'
  <2>1. CASE HoldsNudge(w)
    BY <1>8, <2>1, BeginStep
  <2>2. CASE ~HoldsNudge(w)
    <3>1. Leave(w) /\ UNCHANGED <<nud, remote>>
      BY <1>8, <2>2 DEF BeginSend
    <3> QED  BY <3>1, <1>l, <1>n, <1>r, <1>c
  <2> QED  BY <2>1, <2>2
<1>9. ASSUME NEW w \in Workers, CheckBeforePost(w) PROVE Inv'
  <2>1. JobsCalm
    <3>1. Busy(w) /\ At(w, "sending")
      BY <1>9 DEF CheckBeforePost, Busy, AtRest
    <3>2. CASE Go(w, "posting")
      BY <3>1, <3>2, <1>t, GoCalm DEF InHand
    <3> QED  BY <1>9, <3>1, <3>2, <1>f DEF CheckBeforePost
  <2>2. RowsCalm
    BY <1>9, <1>n DEF CheckBeforePost
  <2>3. RemsCalm
    BY <1>9, <1>r DEF CheckBeforePost
  <2> QED  BY <2>1, <2>2, <2>3, <1>c
<1>10. ASSUME NEW w \in Workers, Post(w) PROVE Inv'
  BY <1>10, PostStep
<1>11. ASSUME NEW w \in Workers, PostAnswered(w) PROVE Inv'
  <2>1. JobsCalm
    <3>1. Busy(w) /\ remote[job[w].n].landed > 0 /\ Go(w, "marking")
      BY <1>11 DEF PostAnswered, Busy, AtRest
    <3> QED  BY <3>1, <1>t, GoCalm DEF InHand
  <2>2. RowsCalm
    BY <1>11, <1>n DEF PostAnswered
  <2>3. RemsCalm
    BY <1>11, <1>r DEF PostAnswered
  <2> QED  BY <2>1, <2>2, <2>3, <1>c
<1>12. ASSUME NEW w \in Workers, PostUnanswered(w) PROVE Inv'
  <2>1. JobsCalm
    BY <1>12, <1>f DEF PostUnanswered, Busy, AtRest
  <2>2. RowsCalm
    BY <1>12, <1>n DEF PostUnanswered
  <2>3. RemsCalm
    BY <1>12, <1>r DEF PostUnanswered
  <2> QED  BY <2>1, <2>2, <2>3, <1>c
<1>13. ASSUME NEW w \in Workers, MarkPosted(w) PROVE Inv'
  <2>1. JobsCalm
    BY <1>13, <1>l, <1>f DEF MarkPosted, Busy, AtRest
  <2>2. RowsCalm
    <3>1. job[w].n \in Nudges /\ nud[job[w].n] \in NudgeRow /\ remote[job[w].n].landed > 0
      BY <1>13, <1>b, <1>t DEF MarkPosted, Busy, AtRest, NudOK, Evidence
    <3> DEFINE row == [nud[job[w].n] EXCEPT !.status = "posted", !.owner = NoProc, !.sent = "no"]
    <3>2. CASE SetRow(job[w].n, row)
      <4>1. row \in NudgeRow /\ row.status = "posted" /\ row.gen = nud[job[w].n].gen /\ row.sent = "no"
        BY <3>1 DEF NudgeRow, Sent
      <4> HIDE DEF row
      <4>2. nud'[job[w].n] = row
        BY <3>1, <3>2, <1>t DEF SetRow, NudOK
      <4>3. RowCalm(job[w].n)
        BY <3>1, <4>1, <4>2 DEF RowCalm
      <4> QED  BY <3>1, <3>2, <4>1, <4>3, <1>t, RowWrite
    <3> QED  BY <1>13, <3>2, <1>n DEF MarkPosted
  <2>3. RemsCalm
    BY <1>13, <1>r DEF MarkPosted
  <2> QED  BY <2>1, <2>2, <2>3, <1>c
<1>14. ASSUME NEW w \in Workers, KeepQuarantine(w) PROVE Inv'
  <2>1. JobsCalm
    BY <1>14, <1>l DEF KeepQuarantine
  <2>2. RowsCalm
    <3>1. CASE HoldsNudge(w) /\ Quarantine(job[w].n)
      <4>1. job[w].n \in Nudges /\ nud[job[w].n].status = "posting"
        BY <1>14, <3>1, <1>b DEF KeepQuarantine, Busy, AtRest, HoldsNudge
      <4> QED  BY <3>1, <4>1, <1>t, DisposeCalm
    <3> QED  BY <1>14, <3>1, <1>n DEF KeepQuarantine
  <2>3. RemsCalm
    BY <1>14, <1>r DEF KeepQuarantine
  <2> QED  BY <2>1, <2>2, <2>3, <1>c
<1>15. ASSUME NEW w \in Workers, HandleNudgeError(w) PROVE Inv'
  <2>1. JobsCalm
    BY <1>15, <1>l DEF HandleNudgeError
  <2>2. RowsCalm
    <3> DEFINE Disposed == Quarantine(job[w].n) \/ FinishFailed(job[w].n) \/ Requeue(job[w].n)
    <3>1. CASE HoldsNudge(w) /\ Disposed
      <4>1. job[w].n \in Nudges /\ nud[job[w].n].status = "posting"
        BY <1>15, <3>1, <1>b DEF HandleNudgeError, Busy, AtRest, HoldsNudge
      <4> QED  BY <3>1, <4>1, <1>t, DisposeCalm
    <3>2. UNCHANGED nud \/ (HoldsNudge(w) /\ Disposed)
      BY <1>15 DEF HandleNudgeError
    <3> QED  BY <3>1, <3>2, <1>n
  <2>3. RemsCalm
    BY <1>15, <1>r DEF HandleNudgeError
  <2> QED  BY <2>1, <2>2, <2>3, <1>c
<1>16. ASSUME NEW w \in Workers, CallFails(w) PROVE Inv'
  <2>1. JobsCalm
    BY <1>16, <1>f DEF CallFails, Busy, AtRest
  <2>2. RowsCalm
    BY <1>16, <1>n DEF CallFails
  <2>3. RemsCalm
    BY <1>16, <1>r DEF CallFails
  <2> QED  BY <2>1, <2>2, <2>3, <1>c
<1>17. ASSUME NEW w \in Workers, DiskFails(w) PROVE Inv'
  <2>1. JobsCalm
    BY <1>17, <1>f, <1>l DEF DiskFails, Busy, AtRest
  <2>2. RowsCalm
    BY <1>17, <1>n DEF DiskFails
  <2>3. RemsCalm
    BY <1>17, <1>r DEF DiskFails
  <2> QED  BY <2>1, <2>2, <2>3, <1>c
<1>18. ASSUME NEW w \in Workers, Deadline(w) PROVE Inv'
  <2>1. JobsCalm
    <3> DEFINE j == [job[w] EXCEPT !.late = TRUE]
    <3>1. job' = [job EXCEPT ![w] = j] /\ Busy(w)
      BY <1>18 DEF Deadline, Busy
    <3>2. /\ j.pc = job[w].pc /\ j.n = job[w].n /\ j.gen = job[w].gen /\ j.again = job[w].again
          /\ j.announced = job[w].announced
          /\ job'[w] = j
      BY <3>1, <1>t DEF JobOK, Job
    <3> HIDE DEF j
    <3>3. JobCalm(w)
      BY <3>1, <3>2, <1>t DEF JobCalm, Evidence
    <3> QED  BY <3>1, <3>3, <1>t, JobMove
  <2>2. RowsCalm
    BY <1>18, <1>n DEF Deadline
  <2>3. RemsCalm
    BY <1>18, <1>r DEF Deadline
  <2> QED  BY <2>1, <2>2, <2>3, <1>c
<1>19. ASSUME NEW p \in Procs, Start(p) PROVE Inv'
  <2>1. JobsCalm
    BY <1>19, <1>j DEF Start, Aside
  <2>2. RowsCalm
    BY <1>19, <1>n DEF Start, Aside
  <2>3. RemsCalm
    BY <1>19, <1>r DEF Start, Aside
  <2> QED  BY <2>1, <2>2, <2>3, <1>c
<1>20. ASSUME NEW p \in Procs, RenewServiceLease(p) PROVE Inv'
  <2>1. JobsCalm
    BY <1>20, <1>j DEF RenewServiceLease, Aside
  <2>2. RowsCalm
    BY <1>20, <1>n DEF RenewServiceLease, Aside
  <2>3. RemsCalm
    BY <1>20, <1>r DEF RenewServiceLease, Aside
  <2> QED  BY <2>1, <2>2, <2>3, <1>c
<1>21. ASSUME NEW p \in Procs, Stop(p) PROVE Inv'
  <2>1. JobsCalm
    BY <1>21, <1>j DEF Stop, Aside
  <2>2. RowsCalm
    BY <1>21, <1>n DEF Stop, Aside
  <2>3. RemsCalm
    BY <1>21, <1>r DEF Stop, Aside
  <2> QED  BY <2>1, <2>2, <2>3, <1>c
<1>22. ASSUME NEW p \in Procs, StopFinishes(p) PROVE Inv'
  <2>1. JobsCalm
    BY <1>22, <1>j DEF StopFinishes, Aside
  <2>2. RowsCalm
    BY <1>22, <1>n DEF StopFinishes, Aside
  <2>3. RemsCalm
    BY <1>22, <1>r DEF StopFinishes, Aside
  <2> QED  BY <2>1, <2>2, <2>3, <1>c
<1>23. ASSUME NEW p \in Procs, RecoverAndServe(p) PROVE Inv'
  <2>1. JobsCalm
    BY <1>23, <1>t, <1>j, RestartCalm DEF RecoverAndServe, Aside, AtRest
  <2>2. RowsCalm
    BY <1>23, <1>t, <1>n, RecoverCalm DEF RecoverAndServe, Aside
  <2>3. RemsCalm
    BY <1>23, <1>r DEF RecoverAndServe, Aside
  <2> QED  BY <2>1, <2>2, <2>3, <1>c
<1>24. ASSUME NEW p \in Procs, Crash(p) PROVE Inv'
  <2>1. JobsCalm
    BY <1>24, <1>t, RestartCalm DEF Crash, AtRest
  <2>2. RowsCalm
    BY <1>24, <1>n DEF Crash
  <2>3. RemsCalm
    BY <1>24, <1>r DEF Crash
  <2> QED  BY <2>1, <2>2, <2>3, <1>c
<1>25. ASSUME LeaseExpires PROVE Inv'
  <2>1. JobsCalm
    BY <1>25, <1>j DEF LeaseExpires, Aside
  <2>2. RowsCalm
    BY <1>25, <1>n DEF LeaseExpires, Aside
  <2>3. RemsCalm
    BY <1>25, <1>r DEF LeaseExpires, Aside
  <2> QED  BY <2>1, <2>2, <2>3, <1>c
<1>26. ASSUME NEW n \in Nudges, CreateNudge(n) PROVE Inv'
  <2>1. JobsCalm
    BY <1>26, <1>j DEF CreateNudge
  <2>2. RowsCalm
    <3> DEFINE row == [nud[n] EXCEPT !.status = "queued"]
    <3>1. nud[n] \in NudgeRow /\ SetRow(n, row)
      BY <1>26, <1>t DEF CreateNudge, NudOK
    <3>2. row \in NudgeRow /\ row.status = "queued" /\ row.gen = nud[n].gen /\ row.sent = nud[n].sent /\ row.sent = "no"
      BY <1>26, <3>1, <1>t DEF NudgeRow, Sent, QueuedUnsent, CreateNudge
    <3> HIDE DEF row
    <3>3. nud'[n] = row
      BY <3>1, <1>t DEF SetRow, NudOK
    <3>4. RowCalm(n)
      BY <1>26, <3>2, <3>3, <1>t DEF RowCalm, QueuedUnsent, PostedMeansSeen, CreateNudge
    <3> QED  BY <3>1, <3>2, <3>4, <1>t, RowWrite
  <2>3. RemsCalm
    BY <1>26, <1>r DEF CreateNudge
  <2> QED  BY <2>1, <2>2, <2>3, <1>c
<1>27. ASSUME NEW n \in Nudges, WindowCloses(n) PROVE Inv'
  <2>1. JobsCalm
    BY <1>27, <1>j DEF WindowCloses
  <2>2. RowsCalm
    <3> DEFINE row == [nud[n] EXCEPT !.sent = "past"]
    <3>1. nud[n] \in NudgeRow /\ SetRow(n, row)
      BY <1>27, <1>t DEF WindowCloses, NudOK
    <3>2. row \in NudgeRow /\ row.status = nud[n].status /\ row.gen = nud[n].gen /\ row.sent = "past"
      BY <1>27, <3>1, <1>t DEF NudgeRow, Sent, QueuedUnsent, WindowCloses
    <3> HIDE DEF row
    <3>3. nud'[n] = row
      BY <3>1, <1>t DEF SetRow, NudOK
    <3>4. RowCalm(n)
      BY <1>27, <3>2, <3>3, <1>t DEF RowCalm, QueuedUnsent, PostedMeansSeen, WindowCloses
    <3> QED  BY <3>1, <3>2, <3>4, <1>t, RowWrite
  <2>3. RemsCalm
    BY <1>27, <1>r DEF WindowCloses
  <2> QED  BY <2>1, <2>2, <2>3, <1>c
<1>28. ASSUME NEW n \in Nudges, CommentAppears(n) PROVE Inv'
  <2>1. JobsCalm
    BY <1>28, <1>j DEF CommentAppears
  <2>2. RowsCalm
    BY <1>28, <1>n DEF CommentAppears
  <2>3. RemsCalm
    <3> DEFINE f == remote[n].flying
               l == remote[n].landed
    <3>1. f \in Nat /\ l \in Nat /\ f > 0
      BY <1>28, <1>t DEF RemOK, CommentAppears
    <3>2. remote' = [remote EXCEPT ![n] = [flying |-> f - 1, landed |-> l + 1]]
      BY <1>28 DEF CommentAppears
    <3>3. remote'[n].flying = f - 1 /\ remote'[n].landed = l + 1
      BY <3>2, <1>t DEF RemOK
    <3>4. RemCalm(n)
      BY <3>1, <3>3 DEF RemCalm, Silent
    <3>5. ASSUME NEW m \in Nudges, m # n PROVE RemCalm(m)
      <4>1. remote'[m] = remote[m] /\ remote[m].flying \in Nat /\ remote[m].landed \in Nat
        BY <3>2, <3>5, <1>t DEF RemOK
      <4> QED  BY <4>1 DEF RemCalm, Silent
    <3> QED  BY <3>4, <3>5 DEF RemsCalm
  <2> QED  BY <2>1, <2>2, <2>3, <1>c
<1>29. ASSUME NEW n \in Nudges, RequestIsLost(n) PROVE Inv'
  <2>1. JobsCalm
    BY <1>29, <1>j DEF RequestIsLost
  <2>2. RowsCalm
    BY <1>29, <1>n DEF RequestIsLost
  <2>3. RemsCalm
    <3> DEFINE f == remote[n].flying
               l == remote[n].landed
    <3>1. f \in Nat /\ l \in Nat /\ f > 0
      BY <1>29, <1>t DEF RemOK, RequestIsLost
    <3>2. remote' = [remote EXCEPT ![n] = [remote[n] EXCEPT !.flying = f - 1]]
      BY <1>29 DEF RequestIsLost
    <3>3. remote'[n].flying = f - 1 /\ remote'[n].landed = l
      BY <3>2, <1>t DEF RemOK
    <3>4. RemCalm(n)
      BY <3>1, <3>3 DEF RemCalm, Silent
    <3>5. ASSUME NEW m \in Nudges, m # n PROVE RemCalm(m)
      <4>1. remote'[m] = remote[m] /\ remote[m].flying \in Nat /\ remote[m].landed \in Nat
        BY <3>2, <3>5, <1>t DEF RemOK
      <4> QED  BY <4>1 DEF RemCalm, Silent
    <3> QED  BY <3>4, <3>5 DEF RemsCalm
  <2> QED  BY <2>1, <2>2, <2>3, <1>c
<1>30. ASSUME NEW n \in Nudges, RetryIsDue(n) PROVE Inv'
  <2>1. JobsCalm
    BY <1>30, <1>j DEF RetryIsDue
  <2>2. RowsCalm
    BY <1>30, <1>n DEF RetryIsDue
  <2>3. RemsCalm
    BY <1>30, <1>r DEF RetryIsDue
  <2> QED  BY <2>1, <2>2, <2>3, <1>c
<1>31. CASE UNCHANGED vars
  BY <1>31, <1>j, <1>n, <1>r, <1>c DEF vars
<1> QED
  BY <1>1, <1>2, <1>3, <1>4, <1>5, <1>6, <1>7, <1>8, <1>9, <1>10, <1>11, <1>12, <1>13, <1>14, <1>15, <1>16,
     <1>17, <1>18, <1>19, <1>20, <1>21, <1>22, <1>23, <1>24, <1>25, <1>26, <1>27, <1>28, <1>29, <1>30, <1>31
     DEF Next, WorkerStep, EngineStep

(* Only a worker that was turned away, or one whose error came before its  *)
(* send, gives up.                                                         *)
LEMMA GivesUp ==
  ASSUME TypeOK, Inv, [Next]_vars, NEW n \in Nudges,
         nud[n].status # "failed", nud'[n].status = "failed"
  PROVE  \/ remote[n] = [flying |-> 0, landed |-> 0]
         \/ \E p \in Procs : eng[p].phase # "down" /\ ~eng[p].entitled
<1>t. JobOK /\ NudOK /\ RemOK /\ (\A m \in Nudges : nud[m] \in NudgeRow)
  BY DEF TypeOK, JobOK, NudOK, RemOK
<1>k. ASSUME UNCHANGED nud PROVE FALSE
  BY <1>k
<1>p. ASSUME NEW m \in Nudges, NEW row \in NudgeRow, SetRow(m, row), row.status # "failed" PROVE FALSE
  BY <1>p, <1>t DEF SetRow, NudOK
<1>q. ASSUME NEW m \in Nudges, Quarantine(m) \/ Requeue(m) PROVE FALSE
  <2>1. \A st \in {"queued", "reconciliation_required"} :
          /\ [nud[m] EXCEPT !.status = st, !.owner = NoProc] \in NudgeRow
          /\ [nud[m] EXCEPT !.status = st, !.owner = NoProc].status = st
    BY <1>t DEF NudgeRow
  <2> QED  BY <1>q, <2>1, <1>p DEF Quarantine, Requeue
<1>f. ASSUME NEW m \in Nudges, FinishFailed(m) PROVE m = n
  BY <1>f, <1>t DEF FinishFailed, SetRow, NudOK
<1>r. ASSUME NEW p, NEW f, RecoverInterruptedNudges(p, f) PROVE FALSE
  <2>1. nud'[n] = IF Interrupted(n, f) THEN Recovered(nud[n]) ELSE nud[n]
    BY <1>r DEF RecoverInterruptedNudges
  <2>2. Recovered(nud[n]).status # "failed"
    BY <1>t DEF Recovered, NudgeRow
  <2> QED  BY <2>1, <2>2
<1>1. ASSUME NEW w \in Workers, TurnAway(w) PROVE \E p \in Procs : eng[p].phase # "down" /\ ~eng[p].entitled
  BY <1>1 DEF TurnAway, MayProcess, ServiceLeaseOwned, Workers
<1>2. ASSUME NEW w \in Workers, HandleNudgeError(w) PROVE remote[n] = [flying |-> 0, landed |-> 0]
  <2>1. job[w].n \in Nudges /\ Busy(w)
    BY <1>2, <1>t DEF HandleNudgeError, At, JobOK, Busy, AtRest
  <2>2. HoldsNudge(w) /\ ~Uncertain(w) /\ FinishFailed(job[w].n)
    BY <1>2, <2>1, <1>k, <1>q DEF HandleNudgeError, nudgeVars
  <2>3. job[w].n = n
    BY <2>1, <2>2, <1>f
  <2>4. nud[n].sent = "no" /\ nud[n].status = "posting"
    BY <2>1, <2>2, <2>3 DEF Inv, Recorded, Current, HoldsNudge, Uncertain
  <2>5. Silent(n)
    BY <2>4 DEF Inv, Quiet
  <2> QED  BY <2>5, <1>t DEF Silent, RemOK
<1>3. ASSUME NEW w \in Workers, ClaimNudge(w) PROVE FALSE
  <2> PICK m \in Nudges :
        SetRow(m, [nud[m] EXCEPT !.status = "posting", !.owner = w[1],
                                 !.fence = eng[w[1]].fence, !.gen = nud[m].gen + 1])
    BY <1>3 DEF ClaimNudge
  <2>1. nud'[n].status = nud[n].status \/ nud'[n].status = "posting"
    BY <1>t DEF SetRow, NudOK, NudgeRow
  <2> QED  BY <2>1
<1>4. ASSUME NEW w \in Workers, BeginSend(w) PROVE FALSE
  <2>1. job[w].n \in Nudges
    BY <1>4, <1>t DEF BeginSend, At, JobOK, AtRest
  <2>2. CASE UNCHANGED nud
    BY <2>2, <1>k
  <2>3. CASE ~UNCHANGED nud
    <3> DEFINE row == [nud[job[w].n] EXCEPT !.sent = "open"]
    <3>1. SetRow(job[w].n, row)
      BY <1>4, <2>3 DEF BeginSend
    <3>2. row \in NudgeRow /\ (row.status = nud[job[w].n].status \/ row.status = "posted")
      BY <2>1, <1>t DEF NudgeRow, Sent
    <3> HIDE DEF row
    <3>3. nud'[n].status = nud[n].status \/ nud'[n].status = "posted"
      BY <2>1, <3>1, <3>2, <1>t DEF SetRow, NudOK
    <3> QED  BY <3>3
  <2> QED  BY <2>2, <2>3
<1>5. ASSUME NEW w \in Workers, MarkPosted(w) PROVE FALSE
  <2>1. job[w].n \in Nudges
    BY <1>5, <1>t DEF MarkPosted, At, JobOK, AtRest
  <2>2. CASE UNCHANGED nud
    BY <2>2, <1>k
  <2>3. CASE ~UNCHANGED nud
    <3> DEFINE row == [nud[job[w].n] EXCEPT !.status = "posted", !.owner = NoProc, !.sent = "no"]
    <3>1. SetRow(job[w].n, row)
      BY <1>5, <2>3 DEF MarkPosted
    <3>2. row \in NudgeRow /\ (row.status = nud[job[w].n].status \/ row.status = "posted")
      BY <2>1, <1>t DEF NudgeRow, Sent
    <3> HIDE DEF row
    <3>3. nud'[n].status = nud[n].status \/ nud'[n].status = "posted"
      BY <2>1, <3>1, <3>2, <1>t DEF SetRow, NudOK
    <3> QED  BY <3>3
  <2> QED  BY <2>2, <2>3
<1>6. ASSUME NEW w \in Workers, KeepQuarantine(w) PROVE FALSE
  <2>1. job[w].n \in Nudges
    BY <1>6, <1>t DEF KeepQuarantine, At, JobOK, AtRest
  <2> QED  BY <1>6, <2>1, <1>k, <1>q DEF KeepQuarantine, nudgeVars
<1>7. ASSUME NEW m \in Nudges, CreateNudge(m) PROVE FALSE
  <2>1. [nud[m] EXCEPT !.status = "queued"] \in NudgeRow
        /\ [nud[m] EXCEPT !.status = "queued"].status = "queued"
    BY <1>t DEF NudgeRow
  <2> QED  BY <1>7, <2>1, <1>p DEF CreateNudge
<1>13. ASSUME NEW m \in Nudges, WindowCloses(m) PROVE FALSE
  <2> DEFINE row == [nud[m] EXCEPT !.sent = "past"]
  <2>1. SetRow(m, row) /\ row.status = nud[m].status
    BY <1>13, <1>t DEF WindowCloses, NudgeRow
  <2> HIDE DEF row
  <2>2. nud'[n].status = nud[n].status
    BY <2>1, <1>t DEF SetRow, NudOK
  <2> QED  BY <2>2
<1>8. ASSUME NEW w \in Workers, RecoverExpiredWork(w) PROVE FALSE
  BY <1>8, <1>r DEF RecoverExpiredWork
<1>9. ASSUME NEW p \in Procs, RecoverAndServe(p) PROVE FALSE
  BY <1>9, <1>k, <1>r DEF RecoverAndServe, Aside
<1>10. ASSUME NEW w \in Workers,
              \/ WorkerReturns(w) \/ NothingToClaim(w) \/ Abandon(w) \/ LookUp(w) \/ CheckBeforePost(w)
              \/ Post(w) \/ PostAnswered(w) \/ PostUnanswered(w) \/ CallFails(w) \/ DiskFails(w)
              \/ Deadline(w)
       PROVE  FALSE
  BY <1>10, <1>k DEF WorkerReturns, NothingToClaim, Abandon, LookUp, CheckBeforePost, Post,
        PostAnswered, PostUnanswered, CallFails, DiskFails, Deadline, StoreAside
<1>11. ASSUME NEW p \in Procs,
              Start(p) \/ RenewServiceLease(p) \/ StopFinishes(p) \/ Stop(p) \/ Crash(p)
       PROVE  FALSE
  BY <1>11, <1>k DEF Start, RenewServiceLease, StopFinishes, Stop, Crash, Aside
<1>12. ASSUME LeaseExpires \/ (\E m \in Nudges : CommentAppears(m) \/ RequestIsLost(m) \/ RetryIsDue(m))
              \/ UNCHANGED vars
       PROVE  FALSE
  BY <1>12, <1>k DEF LeaseExpires, Aside, CommentAppears, RequestIsLost, RetryIsDue, vars
<1> QED
  BY <1>1, <1>2, <1>3, <1>4, <1>5, <1>6, <1>7, <1>8, <1>9, <1>10, <1>11, <1>12, <1>13
     DEF Next, WorkerStep, EngineStep

LEMMA Initially == Init => TypeOK /\ Inv
<1> SUFFICES ASSUME Init PROVE TypeOK /\ Inv
  OBVIOUS
<1>1. lease \in LeaseRow /\ EngOK
  BY DEF Init, EngineLeaseInit, LeaseInit, LeaseRow, EngOK, Down, Phases
<1>2. \A n \in Nudges : nud[n].status = "none" /\ nud[n].gen = 0 /\ nud[n].sent = "no"
        /\ remote[n].flying = 0 /\ remote[n].landed = 0
  BY DEF Init
<1>3. nud \in [Nudges -> NudgeRow] /\ due \subseteq Nudges /\ remote \in [Nudges -> [flying : Nat, landed : Nat]]
  BY DEF Init, NudgeRow, Sent
<1>4. \A w \in Workers : job[w] = Resting("gone")
  BY DEF Init
<1>5. Resting("gone") \in Job /\ Resting("gone").pc = "gone" /\ Resting("gone").n = 0
  BY DEF Resting, Job, Places
<1>6. job \in [Workers -> Job]
  BY <1>5 DEF Init
<1>7. TypeOK
  BY <1>1, <1>3, <1>4, <1>5, <1>6 DEF TypeOK, EngOK, AtRest
<1>8. \A w \in Workers : job[w].pc = "gone"
  BY <1>4, <1>5
<1>9. Inv
  BY <1>2, <1>8 DEF Inv, Tickets, Distinct, QueuedUnsent, Quiet, Unannounced, Recorded, OneSender, Evidence,
        AtMostOneNotification, PostedMeansSeen, Busy, AtRest, At, InHand, Silent
<1> QED  BY <1>7, <1>9

(* Rows, jobs, engines and the lease keep their types.                     *)
THEOREM TypeCorrect == Spec => []TypeOK
BY Initially, TypeStep, PTL DEF Spec

(* The inductive invariant, on which the theorems below rest.              *)
THEOREM InvCorrect == Spec => []Inv
<1>1. Init => TypeOK /\ Inv
  BY Initially
<1>2. (TypeOK /\ Inv) /\ [Next]_vars => (TypeOK /\ Inv)'
  BY TypeStep, InvStep
<1> QED  BY <1>1, <1>2, PTL DEF Spec

(* However a notification is claimed, interrupted, taken over, looked up   *)
(* and retried, no more than one comment is ever made for it.              *)
THEOREM OneNotification == Spec => []AtMostOneNotification
<1>1. Inv => AtMostOneNotification
  BY DEF Inv
<1> QED  BY <1>1, InvCorrect, PTL

(* A notification is requeued only where nothing was, or can still be,     *)
(* sent for it.                                                            *)
THEOREM QueuedQuiet == Spec => []QueuedMeansUnsent
<1>1. TypeOK /\ Inv => QueuedMeansUnsent
  <2> SUFFICES ASSUME TypeOK, Inv, NEW n \in Nudges, nud[n].status = "queued"
               PROVE  /\ remote[n] = [flying |-> 0, landed |-> 0]
                      /\ \A w \in Workers : job[w].pc \in InHand => job[w].n # n
    BY DEF QueuedMeansUnsent, InHand
  <2>1. Silent(n) /\ \A w \in Workers : job[w].pc \in InHand => job[w].n # n
    BY DEF Inv, QueuedUnsent, Quiet
  <2>2. remote[n] \in [flying : Nat, landed : Nat]
    BY DEF TypeOK
  <2>3. remote[n] = [flying |-> 0, landed |-> 0]
    BY <2>1, <2>2 DEF Silent
  <2> QED  BY <2>1, <2>3
<1> QED  BY <1>1, TypeCorrect, InvCorrect, PTL

(* A notification is given up unsent, unless its repository was withdrawn. *)
THEOREM GivenUpIsUnsent == Spec => GivenUpUnsent
<1> DEFINE GivenUp ==
      \A n \in Nudges : nud[n].status # "failed" /\ nud'[n].status = "failed" =>
        \/ remote[n] = [flying |-> 0, landed |-> 0]
        \/ \E p \in Procs : eng[p].phase # "down" /\ ~eng[p].entitled
<1>1. TypeOK /\ Inv /\ [Next]_vars => GivenUp
  BY GivesUp
<1>2. TypeOK /\ Inv /\ [Next]_vars => [GivenUp]_vars
  BY <1>1
<1> QED  BY <1>2, TypeCorrect, InvCorrect, PTL DEF Spec, GivenUpUnsent

(* A notification is closed as posted only when its comment exists.        *)
THEOREM PostedIsSeen == Spec => []PostedMeansSeen
<1>1. Inv => PostedMeansSeen
  BY DEF Inv
<1> QED  BY <1>1, InvCorrect, PTL


================================================================================
