--------------------------- MODULE ReviewEngineProofs ---------------------------
(***************************************************************************)
(* The safety of ReviewEngine for any number of processes, workers,        *)
(* reviews, comments, executions and lease terms, and for any faults: the  *)
(* engine uses the store as ReviewStore allows, it makes at most one copy  *)
(* of each comment, it implements Delivery, and it plans from one revision.*)
(*                                                                         *)
(* The argument: a row of the outbox leaves "pending" once, in the step in *)
(* which one worker commits to its one POST (Announced, OneSender); what   *)
(* is still pending has therefore never been sent (Unsent), what is posted *)
(* has been seen (Seen), and a worker on its way to a send has everything  *)
(* before it posted (Behind).                                              *)
(***************************************************************************)
EXTENDS ReviewEngine, ReviewStoreProofs

Heads   == Revisions \cup {NoRevision}
Classes == {"retry", "canceled", "lost", "hard", "access", "head", "inflight", "notready", "reconcile"}

WorkerRow == [pc : PCs, r : Nat, fence : Nat, gen : Nat, prep : BOOLEAN, head : Heads, files : Heads,
              diff : Heads, k : Items, err : SUBSET Classes, late : BOOLEAN]

Claimed(j) == j.r \in Reviews /\ j.fence \in 1 .. MaxFence /\ j.gen \in 1 .. MaxGen

RowOK(j) ==
  /\ j \in WorkerRow
  /\ IF j.pc \in AtRest THEN j.r = 0 ELSE Claimed(j)
  /\ j.err # {} => j.pc \in Handling
  /\ j.pc = "failing" => j.err # {}

EngineRow == [phase : Phases, fence : 0 .. lease.fence, entitled : BOOLEAN]

Tables ==
  /\ TypeOK
  /\ lease.fence \in 0 .. MaxFence /\ (lease.owner \in Procs => lease.fence >= 1)
  /\ eng \in [Procs -> EngineRow]
  /\ wk \in [Workers -> WorkerRow] /\ \A w \in Workers : RowOK(wk[w])
  /\ prs \in [PRs -> Revisions]
  /\ remote \in [Reviews -> [Items -> [flying : Nat, landed : Nat]]]

(***************************************************************************)
(* Comments.                                                               *)
(***************************************************************************)
Ahead     == {"none", "pending"}
Sending   == {"sending", "posting"}
Committed == Sending \cup {"awaiting", "marking", "uncertain"}
Heading   == {"preflight", "confirming", "beginning"}

Silent(r, k) == remote[r][k].flying = 0 /\ remote[r][k].landed = 0

Unsent == \A r \in Reviews, k \in Items : pub[r][k].status \in Ahead => Silent(r, k)

Seen == \A r \in Reviews, k \in Items : pub[r][k].status = "posted" => remote[r][k].landed > 0

(* A row once announced is never sendable again.                           *)
Announced(j) == j.pc \in Committed => pub[j.r][j.k].status \notin Ahead

Evident(j) == j.pc = "marking" => remote[j.r][j.k].landed > 0

Behind(j) == j.pc \in Heading => \A i \in Items : i < j.k => pub[j.r][i].status = "posted"

OneSender ==
  \A w \in Workers : wk[w].pc \in Sending =>
    /\ Silent(wk[w].r, wk[w].k)
    /\ \A v \in Workers : wk[v].pc \in Sending /\ wk[v].r = wk[w].r /\ wk[v].k = wk[w].k => v = w

Sends ==
  /\ Unsent /\ Seen /\ OneSender /\ AtMostOneComment
  /\ \A w \in Workers : Announced(wk[w]) /\ Evident(wk[w]) /\ Behind(wk[w])

(***************************************************************************)
(* Revisions.  What was read lies between two looks at the pull request,   *)
(* whose pushes are counted and whose seconds pass: unless a push shares   *)
(* the second of an earlier update, who sees the second of a revision sees *)
(* that revision.                                                          *)
(***************************************************************************)
Now(j) == prs[rev[j.r].pr]

Alike(u, v) == "same second" \notin Faults => u.push = v.push

Earlier(u, v) == u.push <= v.push /\ u.second <= v.second /\ (u.second = v.second => Alike(u, v))

Reading == {"recording", "acking", "listing", "files", "rechecking", "diff", "agent", "finalcheck", "preparing"}

Between(j) ==
  /\ j.pc \in Reading => j.head \in Revisions /\ Earlier(j.head, Now(j))
  /\ j.pc \in {"rechecking", "diff", "agent", "finalcheck", "preparing"} =>
       j.files \in Revisions /\ j.head.push <= j.files.push /\ j.files.push <= Now(j).push
  /\ j.pc \in {"diff", "agent", "finalcheck", "preparing"} => Alike(j.files, j.head)
  /\ j.pc \in {"agent", "finalcheck", "preparing"} =>
       j.diff \in Revisions /\ j.head.push <= j.diff.push /\ j.diff.push <= Now(j).push
  /\ j.pc = "preparing" => Alike(j.diff, j.head)

Reads == \A w \in Workers : Between(wk[w])

Inv == Tables /\ PlanWhole /\ Sends /\ Reads

(***************************************************************************)
(* Steps.  A step of the engine is calm if every worker is left with what  *)
(* its place asks for, nobody takes up a send, and the store is used as it *)
(* allows, with care: a send begins when all before it is posted, and what *)
(* is recorded of a comment is recorded of one that was sent and seen.     *)
(***************************************************************************)
Fits(j) == RowOK(j) /\ Announced(j) /\ Evident(j) /\ Behind(j) /\ Between(j)

Same(j, i) == j.r = i.r /\ j.k = i.k

Apt(w) ==
  /\ Fits(wk'[w])
  /\ wk'[w].pc \in Sending => wk[w].pc \in Sending /\ Same(wk'[w], wk[w])
  /\ wk[w].pc = "preparing" /\ wk'[w].pc = "planned" => rev'[wk[w].r].commit = wk[w].head

Careful ==
  \A r \in Reviews, k \in Items :
    /\ pub'[r][k].status = "sending" /\ pub[r][k].status # "sending" =>
         \A i \in Items : i < k => pub[r][i].status = "posted"
    /\ pub'[r][k].status = "posted" /\ pub[r][k].status # "posted" =>
         pub[r][k].status \in Uncertain /\ remote[r][k].landed > 0
    /\ pub'[r][k].status = "reconciliation_required" => pub[r][k].status \in Uncertain

EngOK == eng' \in [Procs -> [phase : Phases, fence : 0 .. lease'.fence, entitled : BOOLEAN]]

Calm ==
  /\ [Next]_vars /\ Careful /\ EngOK
  /\ wk' \in [Workers -> WorkerRow] /\ \A w \in Workers : Apt(w)
  /\ UNCHANGED <<prs, remote>>

(* The lease row grows and an owner has a term.                            *)
LEMMA LeaseStays ==
  ASSUME Tables, [Next]_vars
  PROVE  /\ lease'.fence \in 0 .. MaxFence /\ lease'.fence >= lease.fence
         /\ lease'.owner \in Procs => lease'.fence >= 1
<1>0. lease \in LeaseRow /\ lease.fence \in Nat /\ MaxFence \in Nat
  BY LeaseAssumption DEF Tables, TypeOK, LeaseRow
<1>1. lease' = lease \/ LeaseNext
  <2>1. CASE LeaseStep \/ UNCHANGED vars
    BY <2>1 DEF LeaseStep, vars
  <2>2. CASE QueueStep
    BY <2>2 DEF QueueStep, CreateReview, RetryDue, RecoverInterruptedReviews, ClaimNextQueuedReview
  <2>3. ASSUME NEW r \in Reviews, NEW t \in Ticket, OutboxStep(r, t) PROVE lease' = lease
    BY <2>3 DEF OutboxStep, PrepareReviewPublication, ClaimPending, ExpireSend, BeginPublicationSend,
                MarkPublicationPosted, MarkPublicationReconciliationRequired
  <2>4. ASSUME NEW r \in Reviews, NEW t \in Ticket,
               FinishStep(r, t) \/ \E v \in Revisions : SetReviewRevision(r, t, v)
        PROVE  lease' = lease
    BY <2>4 DEF FinishStep, SetReviewRevision, FinishReviewReconciliationRequired, FinishReviewDone,
                FinishReviewFailed, RequeueReview
  <2>5. ASSUME NEW r \in Reviews, NEW k \in Items, HandoffElapses(r, k) PROVE lease' = lease
    BY <2>5 DEF HandoffElapses
  <2> QED  BY <2>1, <2>2, <2>3, <2>4, <2>5 DEF Next
<1>2. CASE lease' = lease
  BY <1>0, <1>2 DEF Tables
<1>3. ASSUME NEW p \in Procs, Acquire(p)
      PROVE  lease'.fence = lease.fence + 1 /\ lease.fence < MaxFence
  BY <1>3 DEF Acquire
<1>4. ASSUME Extend \/ Lapse PROVE lease'.fence = lease.fence /\ lease'.owner = lease.owner
  BY <1>0, <1>4 DEF Extend, Lapse, LeaseRow
<1> QED  BY <1>0, <1>1, <1>2, <1>3, <1>4 DEF LeaseNext, Tables

LEMMA StoreKeeps ==
  ASSUME Inv, [Next]_vars
  PROVE  TypeOK' /\ PlanWhole' /\ NoRewind /\ KeepsPull
BY TypeStep, PlanWholeStep, NoRewindStep, KeepsPullStep DEF Inv, Tables

(* What the invariant says of a worker.                                    *)
LEMMA Fitting ==
  ASSUME Inv, NEW w \in Workers
  PROVE  Fits(wk[w]) /\ wk[w] \in WorkerRow
BY DEF Inv, Tables, Sends, Reads, Fits, RowOK

LEMMA CalmStep ==
  ASSUME Inv, Calm
  PROVE  Inv'
<1>1. TypeOK' /\ PlanWhole' /\ NoRewind /\ KeepsPull
  BY StoreKeeps DEF Calm
<1>2. /\ (lease.fence \in 0 .. MaxFence)' /\ (lease.owner \in Procs => lease.fence >= 1)'
  BY LeaseStays DEF Inv, Calm
<1>3. \A w \in Workers : RowOK(wk'[w]) /\ Announced(wk'[w]) /\ Evident(wk'[w]) /\ Behind(wk'[w]) /\ Between(wk'[w])
  BY DEF Calm, Apt, Fits
<1>4. prs' = prs /\ remote' = remote
  BY DEF Calm
<1>5. Tables'
  <2>1. \A w \in Workers : RowOK(wk[w])'
    BY <1>3 DEF RowOK
  <2>2. (eng \in [Procs -> EngineRow])'
    BY DEF Calm, EngOK, EngineRow
  <2>3. (prs \in [PRs -> Revisions])' /\ (remote \in [Reviews -> [Items -> [flying : Nat, landed : Nat]]])'
    BY <1>4 DEF Inv, Tables
  <2> QED  BY <1>1, <1>2, <2>1, <2>2, <2>3 DEF Tables, Calm
<1>6. \A w \in Workers : wk'[w].pc \in Committed \cup Heading \cup Reading
        => wk'[w].r \in Reviews /\ wk'[w].k \in Items
  <2> SUFFICES ASSUME NEW w \in Workers,
                      wk'[w].pc \in Committed \cup Heading \cup Reading
               PROVE  wk'[w].r \in Reviews /\ wk'[w].k \in Items
    OBVIOUS
  <2>1. wk'[w].pc \notin AtRest
    BY DEF Committed, Sending, Heading, Reading, AtRest
  <2>2. wk'[w].r \in Reviews
    BY <1>3, <2>1 DEF RowOK, Claimed
  <2>3. wk'[w] \in WorkerRow
    BY <1>3 DEF RowOK
  <2> QED  BY <2>2, <2>3 DEF WorkerRow
<1>s. \A r \in Reviews, k \in Items : pub[r][k].status \in Ahead \cup Uncertain \cup {"posted"}
  BY DEF Inv, Tables, TypeOK, Publication, Ahead, Uncertain
<1>7. Unsent'
  BY <1>1, <1>4, <1>s DEF Inv, Sends, Unsent, Silent, NoRewind, Ahead, Uncertain
<1>8. Seen'
  BY <1>4 DEF Inv, Sends, Seen, Calm, Careful
<1>9. OneSender'
  <2> SUFFICES ASSUME NEW w \in Workers, wk'[w].pc \in Sending
               PROVE  /\ remote'[wk'[w].r][wk'[w].k].flying = 0 /\ remote'[wk'[w].r][wk'[w].k].landed = 0
                      /\ \A v \in Workers :
                           wk'[v].pc \in Sending /\ wk'[v].r = wk'[w].r /\ wk'[v].k = wk'[w].k => v = w
    BY DEF OneSender, Silent
  <2>1. \A v \in Workers : wk'[v].pc \in Sending =>
          wk[v].pc \in Sending /\ wk'[v].r = wk[v].r /\ wk'[v].k = wk[v].k
    BY DEF Calm, Apt, Same
  <2> QED  BY <2>1, <1>4 DEF Inv, Sends, OneSender, Silent
<1>10. AtMostOneComment'
  BY <1>4 DEF Inv, Sends, AtMostOneComment
<1>11. \A w \in Workers : Announced(wk[w])'
  <2> SUFFICES ASSUME NEW w \in Workers, wk'[w].pc \in Committed
               PROVE  pub'[wk'[w].r][wk'[w].k].status \notin Ahead
    BY DEF Announced
  <2>1. wk'[w].r \in Reviews /\ wk'[w].k \in Items
    BY <1>6
  <2>2. pub[wk'[w].r][wk'[w].k].status \notin Ahead
    BY <1>3 DEF Announced
  <2> QED  BY <2>1, <2>2, <1>1, <1>s DEF NoRewind, Ahead, Uncertain
<1>12. \A w \in Workers : Evident(wk[w])'
  BY <1>3, <1>4 DEF Evident
<1>13. \A w \in Workers : Behind(wk[w])'
  <2> SUFFICES ASSUME NEW w \in Workers, wk'[w].pc \in Heading, NEW i \in Items, i < wk'[w].k
               PROVE  pub'[wk'[w].r][i].status = "posted"
    BY DEF Behind
  <2>1. wk'[w].r \in Reviews
    BY <1>6
  <2> QED  BY <2>1, <1>1, <1>3 DEF NoRewind, Behind
<1>14. \A w \in Workers : Between(wk[w])'
  <2> SUFFICES ASSUME NEW w \in Workers,
                 wk'[w].pc \in Reading
               PROVE  Between(wk[w])'
    BY DEF Between, Reading
  <2>1. wk'[w].r \in Reviews
    BY <1>6
  <2>2. Now(wk[w])' = Now(wk'[w])
    BY <2>1, <1>1, <1>4 DEF Now, KeepsPull
  <2> QED  BY <1>3, <2>2 DEF Between
<1> QED  BY <1>1, <1>5, <1>7, <1>8, <1>9, <1>10, <1>11, <1>12, <1>13, <1>14 DEF Inv, Sends, Reads
(***************************************************************************)
(* One worker moves.                                                       *)
(***************************************************************************)

LEMMA MoveCalm ==
  ASSUME Inv, NEW w \in Workers, NEW new, wk' = [wk EXCEPT ![w] = new],
         Fits(new),
         new.pc \in Sending => wk[w].pc \in Sending /\ Same(new, wk[w]),
         wk[w].pc = "preparing" /\ new.pc = "planned" => rev'[wk[w].r].commit = wk[w].head,
         [Next]_vars, Careful, EngOK, Elsewhere
  PROVE  Calm
<1>1. wk \in [Workers -> WorkerRow] /\ new \in WorkerRow
  BY DEF Inv, Tables, Fits, RowOK
<1>2. wk'[w] = new /\ \A v \in Workers : v # w => wk'[v] = wk[v]
  BY <1>1
<1>3. wk' \in [Workers -> WorkerRow]
  BY <1>1
<1>4. ASSUME NEW v \in Workers, v # w PROVE Apt(v)
  BY <1>2, <1>4, Fitting DEF Apt, Same
<1>5. Apt(w)
  BY <1>2 DEF Apt
<1> QED  BY <1>3, <1>4, <1>5 DEF Calm, Elsewhere

(* The engine's own record.                                                *)
LEMMA EngineKept ==
  ASSUME Inv, NEW p \in Procs, UNCHANGED eng \/ Look(p) \/ LookInVain(p), [Next]_vars
  PROVE  EngOK
<1>1. lease'.fence >= lease.fence /\ lease.fence \in Nat /\ lease'.fence \in Nat
  BY LeaseStays, LeaseAssumption DEF Inv, Tables
<1>2. \A n \in 0 .. lease.fence : n \in 0 .. lease'.fence
  BY <1>1
<1>3. \A e \in EngineRow : e \in [phase : Phases, fence : 0 .. lease'.fence, entitled : BOOLEAN]
  BY <1>2 DEF EngineRow
<1>4. eng \in [Procs -> EngineRow]
  BY DEF Inv, Tables
<1>5. PICK e \in EngineRow : e.fence = eng[p].fence /\ eng' \in {eng, [eng EXCEPT ![p] = e]}
  <2>1. eng[p] \in EngineRow
    BY <1>4
  <2>2. \A ph \in Phases : [eng[p] EXCEPT !.phase = ph] \in EngineRow
                          /\ [eng[p] EXCEPT !.phase = ph].fence = eng[p].fence
    BY <2>1 DEF EngineRow
  <2>3. eng[p].phase \in Phases /\ "lost" \in Phases
    BY <2>1 DEF EngineRow, Phases
  <2>4. eng' = eng \/ \E ph \in Phases : eng' = [eng EXCEPT ![p] = [eng[p] EXCEPT !.phase = ph]]
    <3>1. CASE Look(p)
      <4> DEFINE ph == IF eng[p].phase = "running" /\ ~HoldsLease(p, eng[p].fence) THEN "lost" ELSE eng[p].phase
      <4>1. ph \in Phases
        BY <2>3
      <4>2. eng' = [eng EXCEPT ![p] = [eng[p] EXCEPT !.phase = ph]]
        BY <3>1 DEF Look
      <4> HIDE DEF ph
      <4> QED  BY <4>1, <4>2
    <3>2. CASE LookInVain(p)
      BY <2>3, <3>2 DEF LookInVain
    <3> QED  BY <3>1, <3>2
  <2>5. CASE eng' = eng
    BY <2>1, <2>5
  <2>6. ASSUME NEW ph \in Phases, eng' = [eng EXCEPT ![p] = [eng[p] EXCEPT !.phase = ph]]
        PROVE  \E e \in EngineRow : e.fence = eng[p].fence /\ eng' \in {eng, [eng EXCEPT ![p] = e]}
    <3> DEFINE e == [eng[p] EXCEPT !.phase = ph]
    <3>1. e \in EngineRow /\ e.fence = eng[p].fence
      BY <2>2
    <3>2. eng' = [eng EXCEPT ![p] = e]
      BY <2>6
    <3> HIDE DEF e
    <3> QED  BY <3>1, <3>2
  <2> QED  BY <2>4, <2>5, <2>6
<1>6. eng' \in [Procs -> EngineRow]
  BY <1>4, <1>5
<1>7. eng' \in [Procs -> [phase : Phases, fence : 0 .. lease'.fence, entitled : BOOLEAN]]
  <2> DEFINE Row == [phase : Phases, fence : 0 .. lease'.fence, entitled : BOOLEAN]
  <2>1. \A g \in EngineRow : g \in Row
    BY <1>3
  <2> HIDE DEF Row
  <2>2. eng' \in [Procs -> Row]
    BY <1>6, <2>1
  <2> QED  BY <2>2 DEF Row
<1> QED  BY <1>7 DEF EngOK

LEMMA StoreIdle == UNCHANGED vars => [Next]_vars /\ Careful
BY DEF vars, Careful, Uncertain

(* What a worker holds when it is not resting.                             *)
LEMMA Holding ==
  ASSUME Inv, NEW w \in Workers, wk[w].pc \notin AtRest
  PROVE  /\ wk[w].r \in Reviews /\ wk[w].k \in Items /\ TicketOf(w) \in Ticket
         /\ TicketOf(w).owner = w[1] /\ w[1] \in Procs
<1>1. RowOK(wk[w]) /\ wk[w] \in WorkerRow /\ w[1] \in Procs
  BY Fitting DEF Fits, Workers
<1>2. Claimed(wk[w])
  BY <1>1 DEF RowOK
<1>3. wk[w].k \in Items
  BY <1>1 DEF WorkerRow
<1> QED  BY <1>1, <1>2, <1>3 DEF Claimed, TicketOf, Ticket

(* Records of a worker, one update at a time.                              *)
LEMMA GoRecord ==
  ASSUME NEW j \in WorkerRow, NEW pc \in PCs
  PROVE  /\ [j EXCEPT !.pc = pc] \in WorkerRow /\ [j EXCEPT !.pc = pc].pc = pc
         /\ Same([j EXCEPT !.pc = pc], j) /\ [j EXCEPT !.pc = pc].err = j.err
         /\ (Claimed([j EXCEPT !.pc = pc]) <=> Claimed(j))
         /\ [j EXCEPT !.pc = pc].head = j.head /\ [j EXCEPT !.pc = pc].files = j.files
         /\ [j EXCEPT !.pc = pc].diff = j.diff
BY DEF WorkerRow, Same, Claimed

LEMMA GoCalm ==
  ASSUME Inv, NEW w \in Workers, NEW pc \in PCs \ {"failing"}, Go(w, pc),
         wk[w].pc \notin AtRest \cup Handling, pc \notin AtRest,
         pc \in Committed => pub[wk[w].r][wk[w].k].status \notin Ahead,
         pc \in Sending => wk[w].pc \in Sending,
         pc = "marking" => remote[wk[w].r][wk[w].k].landed > 0,
         pc \in Heading => wk[w].pc \in Heading,
         pc \in Reading => Between([wk[w] EXCEPT !.pc = pc]),
         wk[w].pc = "preparing" /\ pc = "planned" => rev'[wk[w].r].commit = wk[w].head,
         [Next]_vars, Careful, EngOK, Elsewhere
  PROVE  Calm
<1> DEFINE new == [wk[w] EXCEPT !.pc = pc]
<1>1. wk' = [wk EXCEPT ![w] = new]
  BY DEF Go
<1>2. wk[w] \in WorkerRow /\ RowOK(wk[w]) /\ Behind(wk[w])
  BY Fitting DEF Fits
<1>3. /\ new \in WorkerRow /\ new.pc = pc /\ Same(new, wk[w]) /\ new.err = wk[w].err
      /\ Claimed(new) <=> Claimed(wk[w])
  BY <1>2, GoRecord
<1>4. pc \notin Reading => Between(new)
  BY <1>3 DEF Between, Reading
<1>5. Between(new)
  BY <1>4
<1> HIDE DEF new
<1>6. RowOK(new)
  BY <1>2, <1>3 DEF RowOK
<1>7. Announced(new) /\ Evident(new)
  BY <1>3 DEF Announced, Evident, Same
<1>8. Behind(new)
  BY <1>2, <1>3 DEF Behind, Same
<1> QED  BY <1>1, <1>3, <1>5, <1>6, <1>7, <1>8, MoveCalm DEF Fits

LEMMA RaiseCalm ==
  ASSUME Inv, NEW w \in Workers, NEW errs \in SUBSET Classes, errs # {}, wk[w].pc \notin AtRest,
         \/ Raise(w, errs)
         \/ Doubt(w, errs) /\ wk[w].pc \in Committed,
         [Next]_vars, Careful, EngOK, Elsewhere
  PROVE  Calm
<1>0. PICK pc \in Handling : wk' = [wk EXCEPT ![w] = [wk[w] EXCEPT !.pc = pc, !.err = errs]]
                             /\ (pc = "uncertain" => wk[w].pc \in Committed)
  BY DEF Raise, Doubt, Handling
<1> DEFINE new == [wk[w] EXCEPT !.pc = pc, !.err = errs]
<1>1. wk' = [wk EXCEPT ![w] = new]
  BY <1>0
<1>2. wk[w] \in WorkerRow /\ RowOK(wk[w]) /\ Announced(wk[w])
  BY Fitting DEF Fits
<1>3. pc \in PCs
  BY DEF PCs
<1>4. new \in WorkerRow /\ new.pc = pc /\ Same(new, wk[w]) /\ new.err = errs
      /\ (Claimed(new) <=> Claimed(wk[w]))
  BY <1>2, <1>3 DEF WorkerRow, Same, Claimed
<1> HIDE DEF new
<1>5. RowOK(new)
  BY <1>2, <1>4 DEF RowOK, Handling, AtRest
<1>6. Announced(new)
  BY <1>0, <1>2, <1>4 DEF Announced, Same, Handling, Committed, Sending
<1>7. Evident(new) /\ Behind(new) /\ Between(new)
  BY <1>4 DEF Evident, Behind, Between, Handling, Heading, Reading
<1>8. new.pc \notin Sending /\ new.pc # "planned"
  BY <1>4 DEF Handling, Sending
<1> QED  BY <1>1, <1>5, <1>6, <1>7, <1>8, MoveCalm DEF Fits

LEMMA Rested ==
  ASSUME NEW pc \in AtRest
  PROVE  Fits(Resting(pc)) /\ Resting(pc).pc = pc
<1>1. Resting(pc).pc = pc /\ Resting(pc).err = {} /\ Resting(pc).r = 0
  BY DEF Resting
<1>2. Resting(pc) \in WorkerRow
  <2>1. pc \in PCs /\ 0 \in Items /\ 0 \in Nat /\ FALSE \in BOOLEAN /\ NoRevision \in Heads /\ {} \in SUBSET Classes
    BY StoreAssumption DEF PCs, Items, Heads
  <2> QED  BY <2>1 DEF Resting, WorkerRow
<1>3. pc \notin Committed \cup Heading \cup Reading /\ pc # "marking" /\ pc # "failing"
  BY DEF AtRest, Committed, Sending, Heading, Reading
<1>4. RowOK(Resting(pc))
  BY <1>1, <1>2, <1>3 DEF RowOK
<1>5. Between(Resting(pc))
  BY <1>1, <1>3 DEF Between, Reading
<1> QED  BY <1>1, <1>3, <1>4, <1>5 DEF Fits, Announced, Evident, Behind

LEMMA LeaveCalm ==
  ASSUME Inv, NEW w \in Workers, Leave(w), [Next]_vars, Careful, EngOK, Elsewhere
  PROVE  Calm
<1>1. "idle" \in AtRest /\ "idle" \notin Sending /\ "idle" # "planned"
  BY DEF AtRest, Sending
<1> QED  BY <1>1, Rested, MoveCalm DEF Leave

(* Between one claim and the next.                                         *)
LEMMA RestCalm ==
  ASSUME Inv, NEW w \in Workers, NEW pc \in AtRest, wk[w].pc \in AtRest, Go(w, pc),
         [Next]_vars, Careful, EngOK, Elsewhere
  PROVE  Calm
<1> DEFINE new == [wk[w] EXCEPT !.pc = pc]
<1>1. wk' = [wk EXCEPT ![w] = new]
  BY DEF Go
<1>2. wk[w] \in WorkerRow /\ RowOK(wk[w]) /\ pc \in PCs
  BY Fitting DEF Fits, PCs
<1>3. new \in WorkerRow /\ new.pc = pc /\ Same(new, wk[w]) /\ new.err = wk[w].err
  BY <1>2, GoRecord
<1> HIDE DEF new
<1>4. pc \notin Committed \cup Heading \cup Reading /\ pc # "marking" /\ pc # "failing" /\ pc # "planned"
      /\ pc \notin Handling /\ wk[w].pc \notin Handling
  BY DEF AtRest, Committed, Sending, Heading, Reading, Handling
<1>5. RowOK(new)
  BY <1>2, <1>3, <1>4 DEF RowOK, Same
<1>6. Between(new)
  BY <1>3, <1>4 DEF Between, Reading
<1>7. pc \notin Sending
  BY <1>4 DEF Committed
<1> QED  BY <1>1, <1>3, <1>4, <1>5, <1>6, <1>7, MoveCalm DEF Fits, Announced, Evident, Behind

LEMMA StayCalm ==
  ASSUME Inv, UNCHANGED wk, [Next]_vars, Careful, EngOK, Elsewhere
  PROVE  Calm
<1>1. wk' \in [Workers -> WorkerRow]
  BY DEF Inv, Tables
<1>2. \A w \in Workers : Apt(w)
  BY Fitting DEF Apt, Same
<1> QED  BY <1>1, <1>2 DEF Calm, Elsewhere

LEMMA PubIdle == UNCHANGED pub => Careful
BY DEF Careful, Uncertain

(* One row of the outbox is written with care.                             *)
LEMMA CarefulWrite ==
  ASSUME Inv, NEW r \in Reviews, NEW k \in Items, NEW row, SetPub(r, k, row),
         row.status # "sending",
         row.status = "posted" => pub[r][k].status \in Uncertain /\ remote[r][k].landed > 0,
         row.status = "reconciliation_required" => pub[r][k].status \in Uncertain
  PROVE  Careful
<1>1. pub \in [Reviews -> [Items -> Publication]]
  BY DEF Inv, Tables, TypeOK
<1>2. \A q \in Reviews, j \in Items : q # r \/ j # k => pub'[q][j] = pub[q][j]
  BY <1>1 DEF SetPub
<1>3. pub'[r][k] = row
  BY <1>1 DEF SetPub
<1>4. ASSUME NEW q \in Reviews, NEW j \in Items, q # r \/ j # k
      PROVE  pub'[q][j].status = pub[q][j].status
  BY <1>2, <1>4
<1> QED  BY <1>3, <1>4 DEF Careful, Uncertain

(* What an action of the store is, seen from the engine.                   *)
LEMMA ClaimedStep ==
  ASSUME NEW r \in Reviews, NEW t \in Ticket,
         \/ \E v \in Revisions : SetReviewRevision(r, t, v)
         \/ OutboxStep(r, t) \/ FinishStep(r, t)
  PROVE  [Next]_vars
BY DEF Next

LEMMA FailsCalm ==
  ASSUME Inv, NEW w \in Workers, NEW errs \in SUBSET Classes, errs # {},
         Fails(w, errs) \/ (wk[w].pc \in DropPoints /\ Leave(w)),
         [Next]_vars, Careful, EngOK, Elsewhere
  PROVE  Calm
<1>1. CASE wk[w].pc \in RaisePoints /\ Raise(w, errs)
  <2>1. wk[w].pc \notin AtRest
    BY <1>1 DEF RaisePoints, AtRest
  <2> QED  BY <1>1, <2>1, RaiseCalm
<1>2. CASE wk[w].pc \in MarkerPoints /\ Raise(w, errs \cup {"reconcile"})
  <2>1. wk[w].pc \notin AtRest
    BY <1>2 DEF MarkerPoints, AtRest
  <2>2. errs \cup {"reconcile"} \in SUBSET Classes /\ errs \cup {"reconcile"} # {}
    BY DEF Classes
  <2> QED  BY <1>2, <2>1, <2>2, RaiseCalm
<1>3. CASE wk[w].pc \in SendPoints /\ Doubt(w, errs)
  <2>1. wk[w].pc \notin AtRest /\ wk[w].pc \in Committed
    BY <1>3 DEF SendPoints, AtRest, Committed, Sending
  <2> QED  BY <1>3, <2>1, RaiseCalm
<1>4. CASE wk[w].pc \in DropPoints /\ Leave(w)
  BY <1>4, LeaveCalm
<1> QED  BY <1>1, <1>2, <1>3, <1>4 DEF Fails

LEMMA ErrorClasses == \A w \in Workers : SideEffectError(w) \in SUBSET Classes
BY DEF SideEffectError, ContextError, Classes

(* A step that leaves the store alone.                                     *)
LEMMA Idle ==
  ASSUME Inv, NEW p \in Procs, UNCHANGED vars, UNCHANGED eng \/ Look(p) \/ LookInVain(p)
  PROVE  [Next]_vars /\ Careful /\ EngOK
BY StoreIdle, EngineKept

LEMMA CheckFailsCalm ==
  ASSUME Inv, NEW w \in Workers, CheckFails(w)
  PROVE  Calm
<1>1. w[1] \in Procs
  BY DEF Workers
<1>2. [Next]_vars /\ Careful /\ EngOK /\ Elsewhere
  BY <1>1, Idle DEF CheckFails
<1> QED  BY <1>2, ErrorClasses, FailsCalm DEF CheckFails

LEMMA TroubleCalm ==
  ASSUME Inv, NEW w \in Workers, GithubFails(w) \/ DiskFails(w) \/ Deadline(w)
  PROVE  Calm
<1>1. w[1] \in Procs
  BY DEF Workers
<1>2. [Next]_vars /\ Careful /\ EngOK /\ Elsewhere
  BY <1>1, Idle DEF GithubFails, DiskFails, Deadline
<1>3. CASE GithubFails(w)
  <2>1. PICK c \in {"retry", "hard"} \cap Faults : Fails(w, {c})
    BY <1>3 DEF GithubFails
  <2>2. {c} \in SUBSET Classes
    BY DEF Classes
  <2> QED  BY <1>2, <2>1, <2>2, FailsCalm
<1>4. CASE DiskFails(w)
  <2>1. {"hard"} \in SUBSET Classes
    BY DEF Classes
  <2>2. CASE At(w, "uncertain") /\ Raise(w, wk[w].err \cup {"reconcile"})
    <3>1. wk[w].err \in SUBSET Classes
      BY Fitting DEF WorkerRow
    <3>2. wk[w].err \cup {"reconcile"} \in SUBSET Classes
      BY <3>1 DEF Classes
    <3>3. wk[w].pc \notin AtRest
      BY <2>2 DEF At, AtRest
    <3> QED  BY <1>2, <2>2, <3>2, <3>3, RaiseCalm
  <2>3. CASE At(w, "recording") /\ Raise(w, {"hard"})
    <3>1. wk[w].pc \notin AtRest
      BY <2>3 DEF At, AtRest
    <3> QED  BY <1>2, <2>1, <2>3, <3>1, RaiseCalm
  <2>4. CASE Leave(w)
    BY <1>2, <2>4, LeaveCalm
  <2> QED  BY <1>2, <1>4, <2>1, <2>2, <2>3, <2>4, FailsCalm DEF DiskFails
<1>5. CASE Deadline(w)
  <2> DEFINE new == [wk[w] EXCEPT !.late = TRUE]
  <2>1. wk' = [wk EXCEPT ![w] = new]
    BY <1>5 DEF Deadline
  <2>2. wk[w] \in WorkerRow /\ Fits(wk[w])
    BY Fitting
  <2>3. /\ new \in WorkerRow /\ new.pc = wk[w].pc /\ Same(new, wk[w]) /\ new.err = wk[w].err
        /\ (Claimed(new) <=> Claimed(wk[w]))
        /\ new.head = wk[w].head /\ new.files = wk[w].files /\ new.diff = wk[w].diff
    BY <2>2 DEF WorkerRow, Same, Claimed
  <2> HIDE DEF new
  <2>4. RowOK(new)
    BY <2>2, <2>3 DEF RowOK, Fits, Same
  <2>5. Announced(new) /\ Evident(new) /\ Behind(new)
    BY <2>2, <2>3 DEF Announced, Evident, Behind, Fits, Same
  <2>6. Between(new)
    BY <2>2, <2>3 DEF Between, Fits, Same, Now
  <2> QED  BY <1>2, <2>1, <2>3, <2>4, <2>5, <2>6, MoveCalm DEF Fits
<1> QED  BY <1>3, <1>4, <1>5

LEMMA TermHeld ==
  ASSUME Inv, NEW p \in Procs, NEW f, HoldsLease(p, f)
  PROVE  f \in 1 .. MaxFence
<1>1. lease.fence = f /\ lease.owner \in Procs
  BY DEF HoldsLease
<1>2. lease.fence \in 0 .. MaxFence /\ lease.fence >= 1
  BY <1>1 DEF Inv, Tables
<1> QED  BY <1>1, <1>2, LeaseAssumption

LEMMA LoopCalm ==
  ASSUME Inv, NEW w \in Workers,
         WorkerReturns(w) \/ RecoverExpiredWork(w) \/ NothingToClaim(w)
  PROVE  Calm
<1>1. w[1] \in Procs
  BY DEF Workers
<1>2. "gone" \in AtRest /\ "recovered" \in AtRest /\ "idle" \in AtRest
  BY DEF AtRest
<1>3. CASE WorkerReturns(w)
  BY <1>1, <1>2, <1>3, Idle, RestCalm DEF WorkerReturns, At
<1>4. CASE NothingToClaim(w)
  BY <1>1, <1>2, <1>4, Idle, RestCalm DEF NothingToClaim, At
<1>5. CASE RecoverExpiredWork(w)
  <2>1. eng[w[1]].fence \in 1 .. MaxFence
    BY <1>1, <1>5, TermHeld DEF RecoverExpiredWork, RecoverInterruptedReviews
  <2>2. [Next]_vars
    BY <1>1, <1>5, <2>1 DEF RecoverExpiredWork, Next, QueueStep
  <2>3. Careful
    BY <1>5, PubIdle DEF RecoverExpiredWork, RecoverInterruptedReviews
  <2>4. EngOK
    BY <1>1, <1>5, <2>2, EngineKept DEF RecoverExpiredWork
  <2> QED  BY <1>2, <1>5, <2>2, <2>3, <2>4, RestCalm DEF RecoverExpiredWork, At
<1> QED  BY <1>3, <1>4, <1>5

LEMMA ClaimCalm ==
  ASSUME Inv, NEW w \in Workers, ClaimReview(w)
  PROVE  Calm
<1>1. w[1] \in Procs
  BY DEF Workers
<1> DEFINE f == eng[w[1]].fence
           new(r) == [Resting("claimed") EXCEPT !.r = r, !.fence = f, !.gen = rev[r].gen + 1,
                        !.prep = Prepared(r), !.head = rev[r].head]
<1>2. PICK r \in Reviews : ClaimNextQueuedReview(r, w[1], f) /\ wk' = [wk EXCEPT ![w] = new(r)]
  BY DEF ClaimReview
<1>3. f \in 1 .. MaxFence
  BY <1>1, <1>2, TermHeld DEF ClaimNextQueuedReview
<1>4. rev[r] \in ReviewRow
  BY DEF Inv, Tables, TypeOK
<1>5. rev[r].gen + 1 \in 1 .. MaxGen /\ rev[r].head \in Heads
  <2>1. rev[r].gen \in Nat /\ rev[r].head \in Heads
    BY <1>4 DEF ReviewRow, Heads
  <2>2. rev[r].gen < MaxGen
    BY <1>2 DEF ClaimNextQueuedReview, Claimable
  <2> QED  BY <2>1, <2>2, StoreAssumption
<1>6. /\ new(r).pc = "claimed" /\ new(r).r = r /\ new(r).fence = f /\ new(r).gen = rev[r].gen + 1
      /\ new(r).err = {}
  BY DEF Resting
<1>7. new(r) \in WorkerRow
  <2>1. "claimed" \in PCs /\ r \in Nat /\ f \in Nat /\ rev[r].gen + 1 \in Nat /\ Prepared(r) \in BOOLEAN
        /\ 0 \in Items /\ NoRevision \in Heads /\ {} \in SUBSET Classes /\ FALSE \in BOOLEAN
    BY <1>3, <1>5, StoreAssumption, LeaseAssumption DEF PCs, RaisePoints, Reviews, Items, Heads, Prepared
  <2> QED  BY <1>5, <2>1 DEF Resting, WorkerRow
<1>8. Claimed(new(r))
  BY <1>3, <1>5, <1>6 DEF Claimed
<1>9. [Next]_vars
  BY <1>1, <1>2, <1>3 DEF Next, QueueStep
<1>10. Careful
  BY <1>2, PubIdle DEF ClaimNextQueuedReview
<1>11. EngOK /\ Elsewhere
  BY <1>1, <1>9, EngineKept DEF ClaimReview
<1>12. "claimed" \notin AtRest \cup Committed \cup Heading \cup Reading /\ "claimed" # "marking"
       /\ "claimed" # "failing" /\ "claimed" # "planned" /\ "claimed" \notin Sending
  BY DEF AtRest, Committed, Sending, Heading, Reading
<1> HIDE DEF new
<1>13. RowOK(new(r))
  BY <1>6, <1>7, <1>8, <1>12 DEF RowOK
<1>14. Between(new(r))
  BY <1>6, <1>12 DEF Between, Reading
<1>15. Fits(new(r))
  BY <1>6, <1>12, <1>13, <1>14 DEF Fits, Announced, Evident, Behind
<1> QED  BY <1>2, <1>6, <1>9, <1>10, <1>11, <1>12, <1>15, MoveCalm

(* The pull request of the review in hand.                                 *)
LEMMA PullKnown ==
  ASSUME Inv, NEW w \in Workers, wk[w].pc \notin AtRest
  PROVE  PullOf(w) \in Revisions /\ PullOf(w) = Now(wk[w])
<1>1. wk[w].r \in Reviews
  BY Holding
<1>2. rev[wk[w].r] \in ReviewRow
  BY <1>1 DEF Inv, Tables, TypeOK
<1>3. rev[wk[w].r].pr \in PRs
  BY <1>2 DEF ReviewRow
<1>4. PullOf(w) \in Revisions
  BY <1>3 DEF PullOf, Inv, Tables
<1> QED  BY <1>4 DEF PullOf, Now

LEMMA Pushes == \A v \in Revisions : v.push \in Nat /\ v.second \in Nat
BY EngineAssumption

(* What was read between two alike revisions is alike to them.             *)
LEMMA Squeezed ==
  ASSUME NEW u \in Revisions, NEW a \in Revisions, NEW b \in Revisions,
         a.push <= u.push, u.push <= b.push, Alike(a, b)
  PROVE  Alike(u, a)
<1>1. u.push \in Nat /\ a.push \in Nat /\ b.push \in Nat
  BY Pushes
<1>2. ASSUME a.push = b.push PROVE u.push = a.push
  BY <1>1, <1>2
<1> QED  BY <1>2 DEF Alike

LEMMA VerifyCalm ==
  ASSUME Inv, NEW w \in Workers, Verify(w)
  PROVE  Calm
<1>1. w[1] \in Procs
  BY DEF Workers
<1>2. wk[w].pc = "claimed" /\ UNCHANGED vars /\ UNCHANGED eng /\ Elsewhere
  BY DEF Verify, Check, At
<1>3. [Next]_vars /\ Careful /\ EngOK
  BY <1>1, <1>2, Idle
<1>4. wk[w].pc \notin AtRest \cup Handling /\ wk[w].pc # "preparing"
  BY <1>2 DEF AtRest, Handling
<1>5. ASSUME NEW c \in Classes, Raise(w, {c}) PROVE Calm
  BY <1>2, <1>3, <1>4, <1>5, RaiseCalm
<1>6. CASE Go(w, "settling")
  <2>1. "settling" \in PCs \ {"failing"} /\ "settling" \notin AtRest \cup Committed \cup Heading \cup Reading
        /\ "settling" \notin Sending /\ "settling" # "marking"
    BY DEF PCs, MarkerPoints, AtRest, Committed, Sending, Heading, Reading
  <2> QED  BY <1>2, <1>3, <1>4, <1>6, <2>1, GoCalm
<1>7. CASE wk' = [wk EXCEPT ![w].pc = "recording", ![w].head = PullOf(w)]
  <2> DEFINE new == [wk[w] EXCEPT !.pc = "recording", !.head = PullOf(w)]
  <2>1. wk' = [wk EXCEPT ![w] = new]
    BY <1>7
  <2>2. wk[w] \in WorkerRow /\ RowOK(wk[w])
    BY Fitting DEF Fits
  <2>3. PullOf(w) \in Heads
    BY <1>4, PullKnown DEF Heads
  <2>4. "recording" \in PCs
    BY DEF PCs
  <2>5. new \in WorkerRow /\ new.pc = "recording" /\ new.err = wk[w].err /\ (Claimed(new) <=> Claimed(wk[w]))
    BY <2>2, <2>3, <2>4 DEF WorkerRow, Claimed
  <2>6. "recording" \notin AtRest \cup Committed \cup Heading /\ "recording" \notin Sending
        /\ "recording" # "marking" /\ "recording" # "failing" /\ "recording" # "planned"
    BY DEF AtRest, Committed, Sending, Heading
  <2>9. new.head = PullOf(w) /\ Now(new) = Now(wk[w])
    BY <2>2 DEF WorkerRow, Now
  <2> HIDE DEF new
  <2>7. RowOK(new)
    BY <1>4, <2>2, <2>5, <2>6 DEF RowOK
  <2>8. Between(new)
    <3>1. PullOf(w) \in Revisions /\ Now(new) = PullOf(w) /\ Earlier(PullOf(w), PullOf(w))
      BY <1>4, <2>9, PullKnown, Pushes DEF Earlier, Alike
    <3> QED  BY <2>5, <2>9, <3>1 DEF Between
  <2> QED  BY <1>2, <1>3, <2>1, <2>5, <2>6, <2>7, <2>8, MoveCalm DEF Fits, Announced, Evident, Behind
<1>8. "access" \in Classes /\ "head" \in Classes
  BY DEF Classes
<1> QED  BY <1>5, <1>6, <1>7, <1>8 DEF Verify

(* Reading on.                                                             *)
LEMMA GoReading ==
  ASSUME Inv, NEW w \in Workers, NEW pc \in Reading, Go(w, pc), wk[w].pc \notin AtRest \cup Handling,
         Between([wk[w] EXCEPT !.pc = pc]), [Next]_vars, Careful, EngOK, Elsewhere
  PROVE  Calm
<1>1. pc \in PCs
  BY DEF Reading, PCs, RaisePoints, DropPoints
<1>2. /\ pc # "failing" /\ pc # "marking" /\ pc # "planned"
      /\ pc \notin AtRest /\ pc \notin Committed /\ pc \notin Sending /\ pc \notin Heading
  BY DEF AtRest, Committed, Sending, Heading, Reading
<1> QED  BY <1>1, <1>2, GoCalm

LEMMA RecordCalm ==
  ASSUME Inv, NEW w \in Workers, RecordRevision(w)
  PROVE  Calm
<1>1. w[1] \in Procs
  BY DEF Workers
<1>2. wk[w].pc = "recording" /\ UNCHANGED eng /\ Elsewhere
  BY DEF RecordRevision, At
<1>3. wk[w].pc \notin AtRest \cup Handling /\ wk[w].pc # "preparing"
  BY <1>2 DEF AtRest, Handling
<1>4. CASE SetReviewRevision(wk[w].r, TicketOf(w), wk[w].head) /\ Go(w, "acking")
  <2>1. wk[w].r \in Reviews /\ TicketOf(w) \in Ticket
    BY <1>3, Holding
  <2>2. wk[w].head \in Revisions
    BY <1>2, Fitting DEF Fits, Between, Reading
  <2>3. [Next]_vars
    BY <1>4, <2>1, <2>2, ClaimedStep
  <2>4. Careful
    BY <1>4, PubIdle DEF SetReviewRevision
  <2>5. EngOK
    BY <1>1, <1>2, <2>3, EngineKept
  <2> DEFINE new == [wk[w] EXCEPT !.pc = "acking"]
  <2>6. "acking" \in PCs /\ "acking" \in Reading
    BY DEF PCs, RaisePoints, Reading
  <2>7. wk[w] \in WorkerRow /\ Between(wk[w]) /\ new.pc = "acking" /\ Same(new, wk[w]) /\ new.head = wk[w].head
    BY <2>6, Fitting, GoRecord DEF Fits
  <2> HIDE DEF new
  <2>8. Between(new)
    BY <1>2, <2>7 DEF Between, Same, Now, Reading
  <2> QED  BY <1>2, <1>3, <1>4, <2>3, <2>4, <2>5, <2>6, <2>8, GoReading DEF new
<1>5. CASE Raise(w, {"lost"}) /\ UNCHANGED vars
  <2>1. {"lost"} \in SUBSET Classes
    BY DEF Classes
  <2> QED  BY <1>1, <1>2, <1>3, <1>5, <2>1, Idle, RaiseCalm
<1> QED  BY <1>4, <1>5 DEF RecordRevision

(* Places that ask nothing of a worker but its claim.                      *)
Plain == {"settling", "resuming", "planned", "publishing", "reconciling"}

LEMMA GoPlain ==
  ASSUME Inv, NEW w \in Workers, NEW pc \in Plain, Go(w, pc), wk[w].pc \notin AtRest \cup Handling,
         wk[w].pc = "preparing" /\ pc = "planned" => rev'[wk[w].r].commit = wk[w].head,
         [Next]_vars, Careful, EngOK, Elsewhere
  PROVE  Calm
<1>1. pc \in PCs
  BY DEF Plain, PCs, RaisePoints, MarkerPoints, DropPoints
<1>2. /\ pc # "failing" /\ pc # "marking"
      /\ pc \notin AtRest /\ pc \notin Committed /\ pc \notin Sending /\ pc \notin Heading /\ pc \notin Reading
  BY DEF Plain, AtRest, Committed, Sending, Heading, Reading
<1> QED  BY <1>1, <1>2, GoCalm

LEMMA HeadChangedCalm ==
  ASSUME Inv, NEW w \in Workers, HeadChanged(w)
  PROVE  Calm
<1>1. w[1] \in Procs /\ UNCHANGED vars
  BY DEF Workers, HeadChanged
<1>2. UNCHANGED eng /\ Elsewhere
  BY DEF HeadChanged, Check
<1>3. [Next]_vars /\ Careful /\ EngOK
  BY <1>1, <1>2, Idle
<1>4. CASE Check(w, "resuming") /\ Go(w, "settling")
  <2>1. wk[w].pc \notin AtRest \cup Handling /\ "settling" \in Plain /\ "settling" # "planned"
    BY <1>4 DEF Check, At, AtRest, Handling, Plain
  <2> QED  BY <1>2, <1>3, <1>4, <2>1, GoPlain
<1>5. ASSUME NEW pc \in {"acking", "listing", "rechecking", "finalcheck", "preflight", "confirming"},
             Check(w, pc), Raise(w, {"head"})
      PROVE  Calm
  <2>1. wk[w].pc \notin AtRest /\ {"head"} \in SUBSET Classes
    BY <1>5 DEF Check, At, AtRest, Classes
  <2> QED  BY <1>2, <1>3, <1>5, <2>1, RaiseCalm
<1> QED  BY <1>4, <1>5 DEF HeadChanged

LEMMA HeadUnchangedCalm ==
  ASSUME Inv, NEW w \in Workers, HeadUnchanged(w)
  PROVE  Calm
<1>1. w[1] \in Procs /\ UNCHANGED vars
  BY DEF Workers, HeadUnchanged
<1>2. UNCHANGED eng /\ Elsewhere
  BY DEF HeadUnchanged, Check
<1>3. [Next]_vars /\ Careful /\ EngOK
  BY <1>1, <1>2, Idle
<1>4. wk[w].pc \in {"acking", "resuming", "listing", "rechecking", "finalcheck"}
  BY DEF HeadUnchanged, Check, At
<1>5. wk[w].pc \notin AtRest \cup Handling /\ wk[w].pc # "preparing"
  BY <1>4 DEF AtRest, Handling
<1>6. ASSUME NEW pc \in {"resuming", "planned"}, Go(w, pc) PROVE Calm
  <2>1. pc \in Plain
    BY DEF Plain
  <2> QED  BY <1>2, <1>3, <1>5, <1>6, <2>1, GoPlain
<1>7. ASSUME NEW pc \in {"listing", "files", "diff", "preparing"}, Go(w, pc), wk[w].pc # "resuming",
             pc = "diff" => wk[w].pc = "rechecking",
             pc = "preparing" => wk[w].pc = "finalcheck"
      PROVE  Calm
  <2> DEFINE j == wk[w]
             new == [j EXCEPT !.pc = pc]
  <2>1. j \in WorkerRow /\ Between(j)
    BY Fitting DEF Fits
  <2>2. pc \in PCs
    BY DEF PCs, RaisePoints, DropPoints
  <2>3. /\ new.pc = pc /\ Same(new, j)
        /\ new.head = j.head /\ new.files = j.files /\ new.diff = j.diff
    BY <2>1, <2>2, GoRecord
  <2>4. Now(new) = Now(j)
    BY <2>3 DEF Now, Same
  <2>5. j.head \in Revisions /\ Earlier(j.head, Now(j)) /\ Now(j) \in Revisions
    BY <1>4, <1>5, <1>7, <2>1, PullKnown DEF Between, Reading
  <2>6. Alike(j.head, Now(j))
    BY <1>5, <2>5, PullKnown DEF HeadUnchanged, Current, SameRevision, Earlier
  <2>7. pc \in {"diff", "preparing"} =>
          /\ j.files \in Revisions /\ j.head.push <= j.files.push /\ j.files.push <= Now(j).push
          /\ Alike(j.files, j.head)
    <3> SUFFICES ASSUME pc \in {"diff", "preparing"} PROVE
          /\ j.files \in Revisions /\ j.head.push <= j.files.push /\ j.files.push <= Now(j).push
          /\ Alike(j.files, j.head)
      OBVIOUS
    <3>1. j.pc \in {"rechecking", "finalcheck"}
      BY <1>7
    <3>2. j.files \in Revisions /\ j.head.push <= j.files.push /\ j.files.push <= Now(j).push
      BY <2>1, <3>1 DEF Between
    <3>3. Alike(j.files, j.head)
      BY <2>5, <2>6, <3>2, Squeezed
    <3> QED  BY <3>2, <3>3
  <2>8. pc = "preparing" =>
          /\ j.diff \in Revisions /\ j.head.push <= j.diff.push /\ j.diff.push <= Now(j).push
          /\ Alike(j.diff, j.head)
    <3> SUFFICES ASSUME pc = "preparing" PROVE
          /\ j.diff \in Revisions /\ j.head.push <= j.diff.push /\ j.diff.push <= Now(j).push
          /\ Alike(j.diff, j.head)
      OBVIOUS
    <3>1. j.pc = "finalcheck"
      BY <1>7
    <3>2. j.diff \in Revisions /\ j.head.push <= j.diff.push /\ j.diff.push <= Now(j).push
      BY <2>1, <3>1 DEF Between
    <3>3. Alike(j.diff, j.head)
      BY <2>5, <2>6, <3>2, Squeezed
    <3> QED  BY <3>2, <3>3
  <2> HIDE DEF new, j
  <2>11. Between(new)
    BY <1>7, <2>3, <2>4, <2>5, <2>7, <2>8 DEF Between
  <2>9. Between([wk[w] EXCEPT !.pc = pc])
    BY <2>11 DEF new, j
  <2>10. pc \in Reading
    BY DEF Reading
  <2> QED  BY <1>2, <1>3, <1>5, <1>7, <2>9, <2>10, GoReading
<1> QED  BY <1>6, <1>7 DEF HeadUnchanged, Check, At

LEMMA ReadInputsCalm ==
  ASSUME Inv, NEW w \in Workers, ReadInputs(w)
  PROVE  Calm
<1>1. w[1] \in Procs /\ UNCHANGED vars
  BY DEF Workers, ReadInputs
<1>2. UNCHANGED eng /\ Elsewhere /\ wk[w].pc \in {"files", "diff"}
  BY DEF ReadInputs, Check, At
<1>3. [Next]_vars /\ Careful /\ EngOK
  BY <1>1, <1>2, Idle
<1>4. wk[w].pc \notin AtRest \cup Handling
  BY <1>2 DEF AtRest, Handling
<1> DEFINE j == wk[w]
           v == PullOf(w)
<1>5. j \in WorkerRow /\ RowOK(j) /\ Between(j)
  BY Fitting DEF Fits
<1>6. v \in Revisions /\ v \in Heads /\ v = Now(j)
  BY <1>4, PullKnown DEF Heads
<1>7. PICK new \in WorkerRow :
        /\ wk' = [wk EXCEPT ![w] = new]
        /\ new.r = j.r /\ new.err = j.err /\ new.head = j.head /\ (Claimed(new) <=> Claimed(j))
        /\ \/ j.pc = "files" /\ new.pc = "rechecking" /\ new.files = v
           \/ j.pc = "diff" /\ new.pc = "agent" /\ new.files = j.files /\ new.diff = v
  <2>1. CASE Check(w, "files") /\ wk' = [wk EXCEPT ![w].pc = "rechecking", ![w].files = v]
    <3> DEFINE n == [j EXCEPT !.pc = "rechecking", !.files = v]
    <3>1. "rechecking" \in PCs
      BY DEF PCs, RaisePoints
    <3>2. n \in WorkerRow /\ n.pc = "rechecking" /\ n.files = v
          /\ n.r = j.r /\ n.err = j.err /\ n.head = j.head /\ (Claimed(n) <=> Claimed(j))
      BY <1>5, <1>6, <3>1 DEF WorkerRow, Claimed
    <3>3. wk' = [wk EXCEPT ![w] = n] /\ j.pc = "files"
      BY <2>1 DEF Check, At
    <3> HIDE DEF n, j, v
    <3> QED  BY <3>2, <3>3
  <2>2. CASE Check(w, "diff") /\ wk' = [wk EXCEPT ![w].pc = "agent", ![w].diff = v]
    <3> DEFINE n == [j EXCEPT !.pc = "agent", !.diff = v]
    <3>1. "agent" \in PCs
      BY DEF PCs, RaisePoints
    <3>2. n \in WorkerRow /\ n.pc = "agent" /\ n.diff = v /\ n.files = j.files
          /\ n.r = j.r /\ n.err = j.err /\ n.head = j.head /\ (Claimed(n) <=> Claimed(j))
      BY <1>5, <1>6, <3>1 DEF WorkerRow, Claimed
    <3>3. wk' = [wk EXCEPT ![w] = n] /\ j.pc = "diff"
      BY <2>2 DEF Check, At
    <3> HIDE DEF n, j, v
    <3> QED  BY <3>2, <3>3
  <2> QED  BY <2>1, <2>2 DEF ReadInputs
<1>8. new.pc \in {"rechecking", "agent"} /\ new.pc \notin AtRest \cup Committed \cup Heading
      /\ new.pc \notin Sending /\ new.pc \notin {"marking", "failing", "planned"}
  BY <1>7 DEF AtRest, Committed, Sending, Heading
<1>9. j.head \in Revisions /\ Earlier(j.head, Now(j))
  BY <1>2, <1>5 DEF Between, Reading
<1>10. j.pc = "diff" => /\ j.files \in Revisions /\ Alike(j.files, j.head)
                        /\ j.head.push <= j.files.push /\ j.files.push <= Now(j).push
  BY <1>5 DEF Between
<1> HIDE DEF j, v
<1>11. RowOK(new)
  BY <1>4, <1>5, <1>7, <1>8 DEF RowOK, j
<1>12. Now(new) = Now(j)
  BY <1>7 DEF Now
<1>13. Between(new)
  BY <1>6, <1>7, <1>9, <1>10, <1>12, Pushes DEF Between, Earlier
<1> QED  BY <1>2, <1>3, <1>7, <1>8, <1>11, <1>13, MoveCalm DEF Fits, Announced, Evident, Behind

LEMMA RunAgentCalm ==
  ASSUME Inv, NEW w \in Workers, RunAgent(w)
  PROVE  Calm
<1>1. w[1] \in Procs /\ UNCHANGED vars
  BY DEF Workers, RunAgent
<1>2. UNCHANGED eng /\ Elsewhere /\ wk[w].pc = "agent"
  BY DEF RunAgent, Check, At
<1>3. [Next]_vars /\ Careful /\ EngOK
  BY <1>1, <1>2, Idle
<1>4. wk[w].pc \notin AtRest \cup Handling
  BY <1>2 DEF AtRest, Handling
<1>5. ASSUME NEW c \in {"access", "head"}, Raise(w, {c}) PROVE Calm
  <2>1. {c} \in SUBSET Classes
    BY DEF Classes
  <2> QED  BY <1>2, <1>3, <1>4, <1>5, <2>1, RaiseCalm
<1>6. CASE Go(w, "finalcheck")
  <2> DEFINE new == [wk[w] EXCEPT !.pc = "finalcheck"]
  <2>1. wk[w] \in WorkerRow /\ Between(wk[w])
    BY Fitting DEF Fits
  <2>2. "finalcheck" \in PCs /\ "finalcheck" \in Reading
    BY DEF PCs, RaisePoints, Reading
  <2>3. /\ new.pc = "finalcheck" /\ Same(new, wk[w])
        /\ new.head = wk[w].head /\ new.files = wk[w].files /\ new.diff = wk[w].diff
    BY <2>1, <2>2, GoRecord
  <2> HIDE DEF new
  <2>4. Between(new)
    BY <1>2, <2>1, <2>3 DEF Between, Same, Now, Reading
  <2> QED  BY <1>2, <1>3, <1>4, <1>6, <2>2, <2>4, GoReading DEF new
<1> QED  BY <1>5, <1>6 DEF RunAgent

LEMMA PrepareCalm ==
  ASSUME Inv, NEW w \in Workers, PreparePublication(w)
  PROVE  Calm
<1>1. w[1] \in Procs /\ UNCHANGED eng /\ Elsewhere /\ wk[w].pc = "preparing" /\ Go(w, "planned")
  BY DEF Workers, PreparePublication, Check, At
<1>2. wk[w].pc \notin AtRest \cup Handling
  BY <1>1 DEF AtRest, Handling
<1> DEFINE r == wk[w].r
           v == wk[w].head
<1>3. PICK n \in Items : PrepareReviewPublication(r, TicketOf(w), n, v)
  BY DEF PreparePublication
<1>4. r \in Reviews /\ TicketOf(w) \in Ticket
  BY <1>2, Holding
<1>5. v \in Revisions
  BY <1>1, Fitting DEF Fits, Between, Reading
<1>6. [Next]_vars
  BY <1>3, <1>4, <1>5, ClaimedStep DEF OutboxStep, Items
<1>7. Careful
  <2>1. \A q \in Reviews, k \in Items : pub'[q][k] = pub[q][k] \/ pub'[q][k].status \in Ahead
    BY <1>3, <1>4 DEF PrepareReviewPublication, Inv, Tables, TypeOK, Ahead, Unowned, Absent
  <2> QED  BY <2>1 DEF Careful, Ahead, Uncertain
<1>8. EngOK
  BY <1>1, <1>6, EngineKept
<1>9. rev'[r].commit = v
  <2>1. rev[r] \in ReviewRow
    BY <1>4 DEF Inv, Tables, TypeOK
  <2>2. [rev[r] EXCEPT !.commit = v].commit = v
    BY <2>1 DEF ReviewRow
  <2>3. rev' = [rev EXCEPT ![r] = [rev[r] EXCEPT !.commit = v]]
    BY <1>3 DEF PrepareReviewPublication, SetRow
  <2> QED  BY <1>4, <2>2, <2>3 DEF Inv, Tables, TypeOK
<1>10. "planned" \in Plain
  BY DEF Plain
<1> QED  BY <1>1, <1>2, <1>6, <1>7, <1>8, <1>9, <1>10, GoPlain

(* What has a comment, or may have one, is not waiting to be sent.         *)
LEMMA FoundIsAnnounced ==
  ASSUME Inv, NEW r \in Reviews, NEW k \in Items, remote[r][k].landed > 0
  PROVE  pub[r][k].status \notin Ahead
<1>1. remote[r][k].landed # 0
  OBVIOUS
<1> QED  BY <1>1 DEF Inv, Sends, Unsent, Silent

LEMMA PostedWithCare ==
  ASSUME Inv, NEW r \in Reviews, NEW k \in Items, NEW t \in Ticket,
         MarkPublicationPosted(r, k, t), remote[r][k].landed > 0
  PROVE  Careful /\ [Next]_vars
<1>1. pub[r][k].status \notin Ahead
  BY FoundIsAnnounced
<1>2. pub[r][k].status \in Uncertain
  BY <1>1 DEF MarkPublicationPosted, Owned, Ahead, Uncertain
<1>3. Unowned("posted").status = "posted"
  BY DEF Unowned
<1>4. Careful
  BY <1>2, <1>3, CarefulWrite DEF MarkPublicationPosted
<1> QED  BY <1>4, ClaimedStep DEF OutboxStep

LEMMA ExpiredWithCare ==
  ASSUME Inv, NEW r \in Reviews, NEW k \in Items, NEW t \in Ticket, ExpireSend(r, k, t)
  PROVE  Careful /\ [Next]_vars
<1>1. Unowned("reconciliation_required").status = "reconciliation_required" /\ pub[r][k].status \in Uncertain
  BY DEF Unowned, ExpireSend, Uncertain
<1>2. Careful
  BY <1>1, CarefulWrite DEF ExpireSend
<1> QED  BY <1>2, ClaimedStep DEF OutboxStep

LEMMA QuietSteps ==
  ASSUME Inv, NEW w \in Workers,
         StartPublishing(w) \/ Preflight(w) \/ CheckBeforePost(w) \/ PostAnswered(w) \/ PostUnanswered(w)
  PROVE  Calm
<1>1. w[1] \in Procs /\ UNCHANGED vars /\ UNCHANGED eng /\ Elsewhere
  BY DEF Workers, StartPublishing, Preflight, CheckBeforePost, PostAnswered, PostUnanswered, Check
<1>2. [Next]_vars /\ Careful /\ EngOK
  BY <1>1, Idle
<1>3. CASE StartPublishing(w)
  <2>1. wk[w].pc = "planned"
    BY <1>3 DEF StartPublishing, Check, At
  <2>2. wk[w].pc \notin AtRest \cup Handling /\ "publishing" \in Plain
    BY <2>1 DEF AtRest, Handling, Plain
  <2> QED  BY <1>1, <1>2, <1>3, <2>1, <2>2, GoPlain DEF StartPublishing
<1>4. CASE Preflight(w)
  <2>1. wk[w].pc \in Heading /\ wk[w].pc \notin AtRest \cup Handling /\ wk[w].pc # "preparing"
    BY <1>4 DEF Preflight, Check, At, Heading, AtRest, Handling
  <2>2. wk[w].r \in Reviews /\ wk[w].k \in Items
    BY <2>1, Holding
  <2>3. CASE MarkerFound(wk[w].r, wk[w].k)
    <3>1. Go(w, "marking")
      BY <1>4, <2>3 DEF Preflight
    <3>2. pub[wk[w].r][wk[w].k].status \notin Ahead /\ remote[wk[w].r][wk[w].k].landed > 0
      BY <2>2, <2>3, FoundIsAnnounced DEF MarkerFound
    <3>3. "marking" \in PCs \ {"failing"} /\ "marking" \notin AtRest \cup Heading \cup Reading
          /\ "marking" \notin Sending /\ "marking" # "planned"
      BY DEF PCs, SendPoints, AtRest, Heading, Reading, Sending
    <3> QED  BY <1>1, <1>2, <2>1, <3>1, <3>2, <3>3, GoCalm
  <2>4. CASE ~MarkerFound(wk[w].r, wk[w].k)
    <3>1. PICK pc \in {"confirming", "beginning"} : Go(w, pc)
      BY <1>4, <2>4 DEF Preflight
    <3>2. pc \in PCs \ {"failing"} /\ pc \notin AtRest \cup Committed \cup Reading
          /\ pc \notin Sending /\ pc # "planned" /\ pc # "marking"
      BY DEF PCs, RaisePoints, AtRest, Committed, Reading, Sending
    <3> QED  BY <1>1, <1>2, <2>1, <3>1, <3>2, GoCalm
  <2> QED  BY <2>3, <2>4
<1>5. ASSUME wk[w].pc \in Committed, wk[w].pc \notin AtRest \cup Handling
      PROVE  pub[wk[w].r][wk[w].k].status \notin Ahead
  BY <1>5, Fitting DEF Fits, Announced
<1>6. CASE CheckBeforePost(w)
  <2>1. wk[w].pc = "sending" /\ Go(w, "posting")
    BY <1>6 DEF CheckBeforePost, Check, At
  <2>2. wk[w].pc \in Committed /\ wk[w].pc \in Sending /\ wk[w].pc \notin AtRest \cup Handling
    BY <2>1 DEF Committed, Sending, AtRest, Handling
  <2>3. "posting" \in PCs \ {"failing"} /\ "posting" \notin AtRest \cup Heading \cup Reading
        /\ "posting" # "planned" /\ "posting" # "marking"
    BY DEF PCs, AtRest, Heading, Reading
  <2> QED  BY <1>1, <1>2, <1>5, <2>1, <2>2, <2>3, GoCalm
<1>7. CASE PostAnswered(w)
  <2>1. wk[w].pc = "awaiting" /\ Go(w, "marking") /\ remote[wk[w].r][wk[w].k].landed > 0
    BY <1>7 DEF PostAnswered, At
  <2>2. wk[w].pc \in Committed /\ wk[w].pc \notin AtRest \cup Handling
    BY <2>1 DEF Committed, Sending, AtRest, Handling
  <2>3. "marking" \in PCs \ {"failing"} /\ "marking" \notin AtRest \cup Heading \cup Reading
        /\ "marking" \notin Sending /\ "marking" # "planned"
    BY DEF PCs, SendPoints, AtRest, Heading, Reading, Sending
  <2> QED  BY <1>1, <1>2, <1>5, <2>1, <2>2, <2>3, GoCalm
<1>8. CASE PostUnanswered(w)
  <2>1. wk[w].pc \in Committed /\ wk[w].pc \notin AtRest /\ {"retry"} \in SUBSET Classes
    BY <1>8 DEF PostUnanswered, At, Committed, Sending, AtRest, Classes
  <2> QED  BY <1>1, <1>2, <1>8, <2>1, RaiseCalm DEF PostUnanswered
<1> QED  BY <1>3, <1>4, <1>6, <1>7, <1>8

LEMMA NextPublicationCalm ==
  ASSUME Inv, NEW w \in Workers, NextPublication(w)
  PROVE  Calm
<1>1. w[1] \in Procs /\ UNCHANGED eng /\ Elsewhere /\ wk[w].pc = "publishing"
  BY DEF Workers, NextPublication, Check, At
<1>2. wk[w].pc \notin AtRest \cup Handling
  BY <1>1 DEF AtRest, Handling
<1> DEFINE r == wk[w].r
           t == TicketOf(w)
           new(pc, k) == [wk[w] EXCEPT !.pc = pc, !.k = k]
<1>3. r \in Reviews /\ t \in Ticket
  BY <1>2, Holding
<1>4. PICK k \in Items :
        /\ First(r, k, Outstanding(r))
        /\ \/ pub[r][k].status = "reconciliation_required" /\ wk' = [wk EXCEPT ![w] = new("reconciling", k)]
              /\ UNCHANGED vars
           \/ ExpireSend(r, k, t) /\ wk' = [wk EXCEPT ![w] = new("reconciling", k)]
           \/ ClaimPending(r, k, t) /\ wk' = [wk EXCEPT ![w] = new("preflight", k)]
           \/ Raise(w, {"inflight"}) /\ UNCHANGED vars
  BY DEF NextPublication
<1>5. \A i \in Items : i < k => pub[r][i].status = "posted"
  <2> SUFFICES ASSUME NEW i \in Items, i < k PROVE pub[r][i].status = "posted"
    OBVIOUS
  <2>1. k \in Outstanding(r) /\ i \notin Outstanding(r)
    BY <1>4, StoreAssumption DEF First, Items, Outstanding
  <2>2. pub[r][k].status # "none"
    BY <2>1 DEF Outstanding
  <2>3. pub[r][i].status # "none"
    BY <1>3, <2>2 DEF Inv, PlanWhole
  <2> QED  BY <2>1, <2>3 DEF Outstanding
<1>6. wk[w] \in WorkerRow /\ RowOK(wk[w])
  BY Fitting DEF Fits
<1>7. ASSUME NEW pc \in {"reconciling", "preflight"}
      PROVE  Fits(new(pc, k)) /\ new(pc, k).pc = pc
  <2>1. pc \in PCs
    BY DEF PCs, MarkerPoints, RaisePoints
  <2>2. /\ new(pc, k) \in WorkerRow /\ new(pc, k).pc = pc /\ new(pc, k).k = k /\ new(pc, k).r = r
        /\ new(pc, k).err = wk[w].err /\ (Claimed(new(pc, k)) <=> Claimed(wk[w]))
    BY <1>6, <2>1 DEF WorkerRow, Claimed
  <2>3. pc \notin AtRest \cup Committed \cup Reading /\ pc # "failing" /\ pc # "marking"
    BY DEF AtRest, Committed, Sending, Reading
  <2> HIDE DEF new, r
  <2>4. RowOK(new(pc, k))
    BY <1>2, <1>6, <2>2, <2>3 DEF RowOK
  <2>5. Between(new(pc, k))
    BY <2>2, <2>3 DEF Between, Reading
  <2>6. Behind(new(pc, k))
    BY <1>5, <2>2 DEF Behind
  <2> QED  BY <2>2, <2>3, <2>4, <2>5, <2>6 DEF Fits, Announced, Evident
<1>8. "reconciling" \notin Sending /\ "preflight" \notin Sending /\ {"inflight"} \in SUBSET Classes
  BY DEF Sending, Classes
<1> HIDE DEF new, r, t
<1>9. CASE UNCHANGED vars /\ wk' = [wk EXCEPT ![w] = new("reconciling", k)]
  BY <1>1, <1>7, <1>8, <1>9, Idle, MoveCalm
<1>10. CASE ExpireSend(r, k, t) /\ wk' = [wk EXCEPT ![w] = new("reconciling", k)]
  <2>1. Careful /\ [Next]_vars
    BY <1>3, <1>10, ExpiredWithCare
  <2>2. EngOK
    BY <1>1, <2>1, EngineKept
  <2> QED  BY <1>1, <1>7, <1>8, <1>10, <2>1, <2>2, MoveCalm
<1>11. CASE ClaimPending(r, k, t) /\ wk' = [wk EXCEPT ![w] = new("preflight", k)]
  <2>1. Owned("pending", t).status = "pending"
    BY DEF Owned
  <2>2. Careful
    BY <1>3, <1>11, <2>1, CarefulWrite DEF ClaimPending
  <2>3. [Next]_vars
    BY <1>3, <1>11, ClaimedStep DEF OutboxStep
  <2>4. EngOK
    BY <1>1, <2>3, EngineKept
  <2> QED  BY <1>1, <1>7, <1>8, <1>11, <2>2, <2>3, <2>4, MoveCalm
<1>12. CASE Raise(w, {"inflight"}) /\ UNCHANGED vars
  BY <1>1, <1>2, <1>8, <1>12, Idle, RaiseCalm
<1> QED  BY <1>4, <1>9, <1>10, <1>11, <1>12

LEMMA MarkPostedCalm ==
  ASSUME Inv, NEW w \in Workers, MarkPosted(w)
  PROVE  Calm
<1>1. w[1] \in Procs /\ UNCHANGED eng /\ Elsewhere /\ wk[w].pc = "marking" /\ Go(w, "publishing")
  BY DEF Workers, MarkPosted, Check, At
<1>2. wk[w].pc \notin AtRest \cup Handling /\ wk[w].pc # "preparing" /\ "publishing" \in Plain
  BY <1>1 DEF AtRest, Handling, Plain
<1>3. wk[w].r \in Reviews /\ wk[w].k \in Items /\ TicketOf(w) \in Ticket
  BY <1>2, Holding
<1>4. remote[wk[w].r][wk[w].k].landed > 0
  BY <1>1, Fitting DEF Fits, Evident
<1>5. Careful /\ [Next]_vars
  BY <1>3, <1>4, PostedWithCare DEF MarkPosted
<1>6. EngOK
  BY <1>1, <1>5, EngineKept
<1> QED  BY <1>1, <1>2, <1>5, <1>6, GoPlain

LEMMA UncertainCalm ==
  ASSUME Inv, NEW w \in Workers, PublicationUncertain(w)
  PROVE  Calm
<1>1. w[1] \in Procs /\ UNCHANGED eng /\ Elsewhere /\ wk[w].pc = "uncertain"
  BY DEF Workers, PublicationUncertain, At
<1>2. wk[w].pc \notin AtRest /\ wk[w].pc \in Committed
  BY <1>1 DEF AtRest, Committed
<1> DEFINE r == wk[w].r
           k == wk[w].k
           t == TicketOf(w)
<1>3. r \in Reviews /\ k \in Items /\ t \in Ticket
  BY <1>2, Holding
<1>4. wk[w].err \in SUBSET Classes
  BY Fitting DEF WorkerRow
<1>5. CASE MarkPublicationReconciliationRequired(r, k, t) /\ Raise(w, wk[w].err \cup {"reconcile"})
  <2>1. pub[r][k].status \notin Ahead
    BY <1>2, Fitting DEF Fits, Announced
  <2>2. pub[r][k].status \in Uncertain /\ Unowned("reconciliation_required").status = "reconciliation_required"
    BY <1>5, <2>1 DEF MarkPublicationReconciliationRequired, Ahead, Uncertain, Unowned
  <2>3. Careful
    BY <1>3, <1>5, <2>2, CarefulWrite DEF MarkPublicationReconciliationRequired
  <2>4. [Next]_vars
    BY <1>3, <1>5, ClaimedStep DEF OutboxStep
  <2>5. EngOK
    BY <1>1, <2>4, EngineKept
  <2>6. wk[w].err \cup {"reconcile"} \in SUBSET Classes
    BY <1>4 DEF Classes
  <2> QED  BY <1>1, <1>2, <1>5, <2>3, <2>4, <2>5, <2>6, RaiseCalm
<1>6. CASE Raise(w, wk[w].err \cup {"reconcile", "lost"}) /\ UNCHANGED vars
  <2>1. wk[w].err \cup {"reconcile", "lost"} \in SUBSET Classes
    BY <1>4 DEF Classes
  <2> QED  BY <1>1, <1>2, <1>6, <2>1, Idle, RaiseCalm
<1> QED  BY <1>5, <1>6 DEF PublicationUncertain

LEMMA FinishCalm ==
  ASSUME Inv, NEW w \in Workers, FinishReview(w)
  PROVE  Calm
<1>1. w[1] \in Procs /\ UNCHANGED eng /\ Elsewhere /\ wk[w].pc = "publishing"
  BY DEF Workers, FinishReview, Check, At
<1>2. wk[w].pc \notin AtRest
  BY <1>1 DEF AtRest
<1>3. wk[w].r \in Reviews /\ TicketOf(w) \in Ticket
  BY <1>2, Holding
<1>4. [Next]_vars
  BY <1>3, ClaimedStep DEF FinishReview, FinishStep
<1>5. Careful
  BY PubIdle DEF FinishReview, FinishReviewDone
<1>6. EngOK
  BY <1>1, <1>4, EngineKept
<1> QED  BY <1>1, <1>4, <1>5, <1>6, LeaveCalm DEF FinishReview

LEMMA ReconcileCalm ==
  ASSUME Inv, NEW w \in Workers, ReconcilePublication(w)
  PROVE  Calm
<1>1. w[1] \in Procs /\ UNCHANGED eng /\ Elsewhere /\ wk[w].pc = "reconciling"
  BY DEF Workers, ReconcilePublication, Check, At
<1>2. wk[w].pc \notin AtRest \cup Handling /\ wk[w].pc # "preparing" /\ "publishing" \in Plain
      /\ {"reconcile"} \in SUBSET Classes
  BY <1>1 DEF AtRest, Handling, Plain, Classes
<1>3. wk[w].r \in Reviews /\ wk[w].k \in Items /\ TicketOf(w) \in Ticket
  BY <1>2, Holding
<1>4. CASE MarkerFound(wk[w].r, wk[w].k) /\ MarkPublicationPosted(wk[w].r, wk[w].k, TicketOf(w))
           /\ Go(w, "publishing")
  <2>1. Careful /\ [Next]_vars
    BY <1>3, <1>4, PostedWithCare DEF MarkerFound
  <2>2. EngOK
    BY <1>1, <2>1, EngineKept
  <2> QED  BY <1>1, <1>2, <1>4, <2>1, <2>2, GoPlain
<1>5. CASE Raise(w, {"reconcile"}) /\ UNCHANGED vars
  BY <1>1, <1>2, <1>5, Idle, RaiseCalm
<1> QED  BY <1>4, <1>5 DEF ReconcilePublication

LEMMA SettleCalm ==
  ASSUME Inv, NEW w \in Workers, SettlePrepared(w)
  PROVE  Calm
<1>1. w[1] \in Procs /\ UNCHANGED eng /\ Elsewhere /\ wk[w].pc = "settling"
  BY DEF Workers, SettlePrepared, Check, At
<1>2. wk[w].pc \notin AtRest
  BY <1>1 DEF AtRest
<1> DEFINE r == wk[w].r
<1>3. r \in Reviews /\ TicketOf(w) \in Ticket
  BY <1>2, Holding
<1>4. ASSUME NEW errs \in {{"head"}, {"reconcile", "inflight"}, {"reconcile"}}, Raise(w, errs), UNCHANGED vars
      PROVE  Calm
  <2>1. errs \in SUBSET Classes /\ errs # {}
    BY DEF Classes
  <2> QED  BY <1>1, <1>2, <1>4, <2>1, Idle, RaiseCalm
<1>5. ASSUME NEW k \in Items, ExpireSend(r, k, TicketOf(w)), UNCHANGED wk PROVE Calm
  <2>1. Careful /\ [Next]_vars
    BY <1>3, <1>5, ExpiredWithCare
  <2> QED  BY <1>1, <1>5, <2>1, EngineKept, StayCalm
<1>6. ASSUME NEW k \in Items, MarkerFound(r, k), MarkPublicationPosted(r, k, TicketOf(w)), UNCHANGED wk
      PROVE  Calm
  <2>1. Careful /\ [Next]_vars
    BY <1>3, <1>6, PostedWithCare DEF MarkerFound
  <2> QED  BY <1>1, <1>6, <2>1, EngineKept, StayCalm
<1> QED  BY <1>4, <1>5, <1>6 DEF SettlePrepared

LEMMA RequeueKeeps ==
  ASSUME Inv, NEW r \in Reviews, NEW t \in Ticket, RequeueReview(r, t)
  PROVE  \A q \in Reviews, k \in Items : pub'[q][k].status = pub[q][k].status
BY DEF RequeueReview, DropClaim, Unowned, Inv, Tables, TypeOK

LEMMA HandleCalm ==
  ASSUME Inv, NEW w \in Workers, HandleReviewError(w)
  PROVE  Calm
<1>1. w[1] \in Procs /\ Look(w[1]) /\ Elsewhere /\ wk[w].pc = "failing" /\ Leave(w)
  BY DEF Workers, HandleReviewError, At
<1>2. wk[w].pc \notin AtRest
  BY <1>1 DEF AtRest
<1> DEFINE r == wk[w].r
           t == TicketOf(w)
<1>3. r \in Reviews /\ t \in Ticket
  BY <1>2, Holding
<1>4. CASE UNCHANGED vars
  BY <1>1, <1>4, Idle, LeaveCalm
<1>5. CASE FinishReviewReconciliationRequired(r, t) \/ FinishReviewFailed(r, t) \/ RequeueReview(r, t)
  <2>1. [Next]_vars
    BY <1>3, <1>5, ClaimedStep DEF FinishStep
  <2>2. ASSUME UNCHANGED pub PROVE Careful
    BY <2>2, PubIdle
  <2>3. ASSUME RequeueReview(r, t) PROVE Careful
    <3>1. \A q \in Reviews, k \in Items : pub'[q][k].status = pub[q][k].status
      BY <1>3, <2>3, RequeueKeeps
    <3> QED  BY <3>1 DEF Careful, Uncertain
  <2>4. Careful
    BY <1>5, <2>2, <2>3 DEF FinishReviewReconciliationRequired, FinishReviewFailed
  <2> QED  BY <1>1, <2>1, <2>4, EngineKept, LeaveCalm
<1> QED  BY <1>4, <1>5 DEF HandleReviewError

(***************************************************************************)
(* The engine and the clocks.                                              *)
(***************************************************************************)

(* Workers keep to themselves when the engine moves.                       *)
LEMMA AsideCalm ==
  ASSUME Inv, lease' = lease \/ LeaseNext, Aside, EngOK
  PROVE  Calm
<1>1. [Next]_vars
  BY DEF Aside, Next, LeaseStep, storeVars, vars
<1>2. Careful
  BY PubIdle DEF Aside
<1> QED  BY <1>1, <1>2, StayCalm DEF Aside

(* Workers of one process start over.                                      *)
LEMMA RestartCalm ==
  ASSUME Inv, NEW p, NEW pc \in AtRest,
         wk' = [w \in Workers |-> IF w[1] = p THEN Resting(pc) ELSE wk[w]],
         [Next]_vars, Careful, EngOK, Elsewhere
  PROVE  Calm
<1>1. Fits(Resting(pc)) /\ Resting(pc).pc = pc /\ Resting(pc) \in WorkerRow
  BY Rested DEF Fits, RowOK
<1>2. pc \notin Sending /\ pc # "planned"
  BY DEF AtRest, Sending
<1>3. \A w \in Workers : wk'[w] = Resting(pc) \/ wk'[w] = wk[w]
  OBVIOUS
<1>4. wk' \in [Workers -> WorkerRow]
  BY <1>1 DEF Inv, Tables
<1>5. \A w \in Workers : Apt(w)
  BY <1>1, <1>2, <1>3, Fitting DEF Apt, Same
<1> QED  BY <1>4, <1>5 DEF Calm, Elsewhere

(* The record of an engine is replaced by one of a term already granted.   *)
LEMMA EngineWrite ==
  ASSUME Inv, NEW p \in Procs, NEW ph \in Phases, NEW f \in 0 .. lease'.fence, NEW e \in BOOLEAN,
         eng' = [eng EXCEPT ![p] = [phase |-> ph, fence |-> f, entitled |-> e]], [Next]_vars
  PROVE  EngOK
<1> DEFINE Row == [phase : Phases, fence : 0 .. lease'.fence, entitled : BOOLEAN]
           row == [phase |-> ph, fence |-> f, entitled |-> e]
<1>1. lease'.fence >= lease.fence /\ lease.fence \in Nat /\ lease'.fence \in Nat
  BY LeaseStays, LeaseAssumption DEF Inv, Tables
<1>2. \A n \in 0 .. lease.fence : n \in 0 .. lease'.fence
  BY <1>1
<1>3. eng \in [Procs -> Row]
  BY <1>2 DEF Inv, Tables, EngineRow
<1>4. row \in Row
  OBVIOUS
<1> HIDE DEF Row, row
<1>5. eng' \in [Procs -> Row]
  BY <1>3, <1>4 DEF row
<1> QED  BY <1>5 DEF EngOK, Row

LEMMA EnginePhase ==
  ASSUME Inv, NEW p \in Procs, NEW ph \in Phases, eng' = [eng EXCEPT ![p].phase = ph], [Next]_vars
  PROVE  EngOK
<1>1. lease'.fence >= lease.fence /\ lease.fence \in Nat /\ lease'.fence \in Nat
  BY LeaseStays, LeaseAssumption DEF Inv, Tables
<1>2. \A n \in 0 .. lease.fence : n \in 0 .. lease'.fence
  BY <1>1
<1>3. eng[p] \in EngineRow /\ eng \in [Procs -> EngineRow]
  BY DEF Inv, Tables
<1> DEFINE Row == [phase : Phases, fence : 0 .. lease'.fence, entitled : BOOLEAN]
           row == [eng[p] EXCEPT !.phase = ph]
<1>4. row \in Row
  BY <1>2, <1>3 DEF EngineRow
<1>5. eng \in [Procs -> Row]
  BY <1>2, <1>3 DEF EngineRow
<1>6. eng' = [eng EXCEPT ![p] = row]
  OBVIOUS
<1> HIDE DEF Row, row
<1>7. eng' \in [Procs -> Row]
  BY <1>4, <1>5, <1>6
<1> QED  BY <1>7 DEF EngOK, Row

LEMMA PhasesNamed ==
  {"down", "starting", "running", "lost", "stopping"} = Phases
BY DEF Phases

LEMMA EngineCalm ==
  ASSUME Inv, NEW p \in Procs,
         Start(p) \/ RenewServiceLease(p) \/ Stop(p) \/ StopFinishes(p)
  PROVE  Calm
<1>0. lease \in LeaseRow /\ lease.fence \in 0 .. MaxFence /\ 0 \in 0 .. lease'.fence
  <2>1. lease \in LeaseRow /\ lease.fence \in 0 .. MaxFence
    BY DEF Inv, Tables, TypeOK
  <2>2. Aside /\ (lease' = lease \/ LeaseNext)
    BY DEF Start, RenewServiceLease, Stop, StopFinishes, AcquireToStart, Renew, CancelToStop,
           ReleaseToStop, LeaseNext
  <2>3. [Next]_vars
    BY <2>2 DEF Aside, Next, LeaseStep, storeVars, vars
  <2>4. lease'.fence \in 0 .. MaxFence
    BY <2>3, LeaseStays DEF Inv
  <2> QED  BY <2>1, <2>4, LeaseAssumption
<1>1. CASE Start(p)
  <2>1. Acquire(p) /\ Aside /\ LeaseNext
    BY <1>1 DEF Start, AcquireToStart, LeaseNext
  <2>2. [Next]_vars
    BY <2>1 DEF Aside, Next, LeaseStep, storeVars
  <2>3. lease'.fence = lease.fence + 1
    BY <1>0, <2>1 DEF Acquire
  <2>4. lease.fence + 1 \in 0 .. lease'.fence
    BY <1>0, <2>3, LeaseAssumption
  <2>5. PICK e \in BOOLEAN :
          eng' = [eng EXCEPT ![p] = [phase |-> "starting", fence |-> lease.fence + 1, entitled |-> e]]
    BY <1>1 DEF Start, AcquireToStart
  <2>6. EngOK
    BY <2>2, <2>4, <2>5, EngineWrite, PhasesNamed
  <2> QED  BY <2>1, <2>6, AsideCalm
<1>2. CASE RenewServiceLease(p)
  <2>1. Aside /\ (lease' = lease \/ LeaseNext)
    BY <1>2 DEF RenewServiceLease, Renew, LeaseNext
  <2>2. [Next]_vars
    BY <2>1 DEF Aside, Next, LeaseStep, storeVars, vars
  <2>3. UNCHANGED eng \/ Look(p)
    BY <1>2 DEF RenewServiceLease, Renew
  <2> QED  BY <2>1, <2>2, <2>3, EngineKept, AsideCalm
<1>3. CASE Stop(p)
  <2>1. Aside /\ lease' = lease /\ eng' = [eng EXCEPT ![p].phase = "stopping"]
    BY <1>3 DEF Stop, CancelToStop
  <2>2. [Next]_vars
    BY <2>1 DEF Aside, vars
  <2> QED  BY <2>1, <2>2, EnginePhase, PhasesNamed, AsideCalm
<1>4. CASE StopFinishes(p)
  <2>1. Aside /\ (lease' = lease \/ LeaseNext) /\ eng' = [eng EXCEPT ![p] = Down]
    BY <1>4 DEF StopFinishes, ReleaseToStop, LeaseNext
  <2>2. [Next]_vars
    BY <2>1 DEF Aside, Next, LeaseStep, storeVars, vars
  <2>3. EngOK
    BY <1>0, <2>1, <2>2, EngineWrite, PhasesNamed DEF Down
  <2> QED  BY <2>1, <2>3, AsideCalm
<1> QED  BY <1>1, <1>2, <1>3, <1>4

LEMMA EngineIdle ==
  ASSUME Inv, UNCHANGED eng, [Next]_vars
  PROVE  EngOK
<1>1. lease'.fence >= lease.fence /\ lease.fence \in Nat /\ lease'.fence \in Nat
  BY LeaseStays, LeaseAssumption DEF Inv, Tables
<1>2. \A n \in 0 .. lease.fence : n \in 0 .. lease'.fence
  BY <1>1
<1> QED  BY <1>2 DEF EngOK, Inv, Tables, EngineRow

LEMMA ExpireCalm ==
  ASSUME Inv, LeaseExpires
  PROVE  Calm
<1>1. Aside /\ LeaseNext /\ UNCHANGED eng
  BY DEF LeaseExpires, Expire, LeaseNext
<1>2. [Next]_vars
  BY <1>1 DEF Aside, Next, LeaseStep, storeVars, vars
<1> QED  BY <1>1, <1>2, EngineIdle, AsideCalm

LEMMA ServeCalm ==
  ASSUME Inv, NEW p \in Procs, RecoverAndServe(p)
  PROVE  Calm
<1>1. CASE Refused(p) /\ UNCHANGED lease /\ Aside
  <2>1. eng' = [eng EXCEPT ![p] = Down]
    BY <1>1 DEF Refused
  <2>2. [Next]_vars
    BY <1>1 DEF Aside, vars
  <2>3. 0 \in 0 .. lease'.fence
    BY <1>1, LeaseAssumption DEF Inv, Tables
  <2>4. EngOK
    BY <2>1, <2>2, <2>3, EngineWrite, PhasesNamed DEF Down
  <2> QED  BY <1>1, <2>4, AsideCalm
<1>2. CASE /\ Serve(p) /\ RecoverInterruptedReviews(p, eng[p].fence)
           /\ wk' = [w \in Workers |-> IF w[1] = p THEN Resting("idle") ELSE wk[w]]
           /\ Elsewhere
  <2>1. eng[p].fence \in 1 .. MaxFence
    BY <1>2, TermHeld DEF RecoverInterruptedReviews
  <2>2. [Next]_vars
    BY <1>2, <2>1 DEF Next, QueueStep
  <2>3. Careful
    BY <1>2, PubIdle DEF RecoverInterruptedReviews
  <2>4. EngOK
    BY <1>2, <2>2, EnginePhase, PhasesNamed DEF Serve
  <2>5. "idle" \in AtRest
    BY DEF AtRest
  <2> QED  BY <1>2, <2>2, <2>3, <2>4, <2>5, RestartCalm
<1> QED  BY <1>1, <1>2 DEF RecoverAndServe

LEMMA CrashCalm ==
  ASSUME Inv, NEW p \in Procs, Crash(p)
  PROVE  Calm
<1>1. UNCHANGED vars /\ eng' = [eng EXCEPT ![p] = Down] /\ Elsewhere
  BY DEF Crash, Die, storeVars, vars
<1>2. [Next]_vars /\ Careful
  BY <1>1, StoreIdle
<1>3. 0 \in 0 .. lease'.fence
  BY <1>1, LeaseAssumption DEF Inv, Tables, vars
<1>4. EngOK
  BY <1>1, <1>2, <1>3, EngineWrite, PhasesNamed DEF Down
<1>5. "gone" \in AtRest
  BY DEF AtRest
<1> QED  BY <1>1, <1>2, <1>4, <1>5, RestartCalm DEF Crash

LEMMA QueueCalm ==
  ASSUME Inv, NEW r \in Reviews,
         Requested(r) \/ RetryIsDue(r) \/ \E k \in Items : WindowCloses(r, k)
  PROVE  Calm
<1>1. UNCHANGED <<eng, wk>> /\ Elsewhere
  BY DEF Requested, RetryIsDue, WindowCloses, engineVars, Elsewhere
<1>2. [Next]_vars
  BY DEF Requested, RetryIsDue, WindowCloses, Next, QueueStep
<1>3. Careful
  BY PubIdle DEF Requested, RetryIsDue, WindowCloses, CreateReview, RetryDue, HandoffElapses
<1>4. EngOK
  <2>1. lease' = lease
    BY DEF Requested, RetryIsDue, WindowCloses, CreateReview, RetryDue, HandoffElapses
  <2> QED  BY <1>1, <2>1 DEF EngOK, Inv, Tables, EngineRow
<1> QED  BY <1>1, <1>2, <1>3, <1>4, StayCalm

(***************************************************************************)
(* Steps that are not calm: a send is taken up, GitHub answers, the pull   *)
(* request moves.                                                          *)
(***************************************************************************)

(* The comments of one publication change.                                 *)
LEMMA RemoteStep ==
  ASSUME Inv, NEW r \in Reviews, NEW k \in Items, NEW row \in [flying : Nat, landed : Nat],
         remote' = [remote EXCEPT ![r][k] = row],
         row.flying + row.landed <= 1, row.landed >= remote[r][k].landed,
         pub[r][k].status \notin Ahead,
         UNCHANGED vars, UNCHANGED eng, UNCHANGED prs,
         wk' \in [Workers -> WorkerRow],
         \A w \in Workers :
           /\ Fits(wk'[w])
           /\ wk'[w].pc \in Sending =>
                wk[w].pc \in Sending /\ Same(wk'[w], wk[w]) /\ (wk[w].r # r \/ wk[w].k # k)
  PROVE  Inv'
<1>1. /\ lease' = lease /\ rev' = rev /\ pub' = pub /\ due' = due /\ fresh' = fresh
      /\ eng' = eng /\ prs' = prs
  BY DEF vars
<1>2. remote \in [Reviews -> [Items -> [flying : Nat, landed : Nat]]]
  BY DEF Inv, Tables
<1>3. remote' \in [Reviews -> [Items -> [flying : Nat, landed : Nat]]]
  BY <1>2
<1>4. remote'[r][k] = row /\ \A q \in Reviews, i \in Items : q # r \/ i # k => remote'[q][i] = remote[q][i]
  BY <1>2
<1>5. \A q \in Reviews, i \in Items : remote'[q][i].landed >= remote[q][i].landed
                                      /\ remote[q][i].landed \in Nat /\ remote'[q][i].landed \in Nat
  BY <1>2, <1>3, <1>4
<1>6. TypeOK' /\ PlanWhole'
  BY <1>1 DEF Inv, Tables, TypeOK, PlanWhole
<1>7. Tables'
  <2>1. \A w \in Workers : RowOK(wk[w])'
    BY DEF Fits, RowOK
  <2>2. (lease.fence \in 0 .. MaxFence)' /\ (lease.owner \in Procs => lease.fence >= 1)'
    BY <1>1 DEF Inv, Tables
  <2>3. (eng \in [Procs -> EngineRow])' /\ (prs \in [PRs -> Revisions])'
    BY <1>1 DEF Inv, Tables, EngineRow
  <2> QED  BY <1>3, <1>6, <2>1, <2>2, <2>3 DEF Tables
<1>8. \A w \in Workers : wk'[w].pc \in Committed \cup Heading \cup Reading
        => wk'[w].r \in Reviews /\ wk'[w].k \in Items
  <2> SUFFICES ASSUME NEW w \in Workers, wk'[w].pc \in Committed \cup Heading \cup Reading
               PROVE  wk'[w].r \in Reviews /\ wk'[w].k \in Items
    OBVIOUS
  <2>1. wk'[w].pc \notin AtRest
    BY DEF Committed, Sending, Heading, Reading, AtRest
  <2>2. wk'[w].r \in Reviews
    BY <2>1 DEF Fits, RowOK, Claimed
  <2> QED  BY <2>2 DEF WorkerRow
<1>9. Unsent'
  BY <1>1, <1>4 DEF Inv, Sends, Unsent, Silent
<1>10. Seen'
  <2> SUFFICES ASSUME NEW q \in Reviews, NEW i \in Items, pub[q][i].status = "posted"
               PROVE  remote'[q][i].landed > 0
    BY <1>1 DEF Seen
  <2>1. remote[q][i].landed > 0
    BY DEF Inv, Sends, Seen
  <2> QED  BY <1>5, <2>1
<1>11. OneSender'
  <2> SUFFICES ASSUME NEW w \in Workers, wk'[w].pc \in Sending
               PROVE  /\ remote'[wk'[w].r][wk'[w].k].flying = 0 /\ remote'[wk'[w].r][wk'[w].k].landed = 0
                      /\ \A v \in Workers :
                           wk'[v].pc \in Sending /\ wk'[v].r = wk'[w].r /\ wk'[v].k = wk'[w].k => v = w
    BY DEF OneSender, Silent
  <2>1. \A v \in Workers : wk'[v].pc \in Sending =>
          wk[v].pc \in Sending /\ wk'[v].r = wk[v].r /\ wk'[v].k = wk[v].k /\ (wk[v].r # r \/ wk[v].k # k)
    BY DEF Same
  <2>2. wk'[w].r \in Reviews /\ wk'[w].k \in Items
    BY <1>8 DEF Committed
  <2>3. remote'[wk'[w].r][wk'[w].k] = remote[wk'[w].r][wk'[w].k]
    BY <1>4, <2>1, <2>2
  <2> QED  BY <2>1, <2>3 DEF Inv, Sends, OneSender, Silent
<1>12. AtMostOneComment'
  BY <1>4 DEF Inv, Sends, AtMostOneComment
<1>13. \A w \in Workers : Announced(wk[w])'
  BY <1>1 DEF Fits, Announced
<1>14. \A w \in Workers : Evident(wk[w])'
  <2> SUFFICES ASSUME NEW w \in Workers, wk'[w].pc = "marking"
               PROVE  remote'[wk'[w].r][wk'[w].k].landed > 0
    BY DEF Evident
  <2>1. wk'[w].r \in Reviews /\ wk'[w].k \in Items
    BY <1>8 DEF Committed
  <2>2. remote[wk'[w].r][wk'[w].k].landed > 0
    BY DEF Fits, Evident
  <2> QED  BY <1>5, <2>1, <2>2
<1>15. \A w \in Workers : Behind(wk[w])'
  BY <1>1 DEF Fits, Behind
<1>16. \A w \in Workers : Between(wk[w])'
  BY <1>1 DEF Fits, Between, Now
<1> QED  BY <1>6, <1>7, <1>9, <1>10, <1>11, <1>12, <1>13, <1>14, <1>15, <1>16 DEF Inv, Sends, Reads

LEMMA PostStep ==
  ASSUME Inv, NEW w \in Workers, Post(w)
  PROVE  Inv'
<1>1. wk[w].pc = "posting" /\ Go(w, "awaiting") /\ UNCHANGED vars /\ UNCHANGED eng /\ UNCHANGED prs
  BY DEF Post, At
<1>2. wk[w].pc \in Sending /\ wk[w].pc \in Committed /\ wk[w].pc \notin AtRest \cup Handling
  BY <1>1 DEF Sending, Committed, AtRest, Handling
<1> DEFINE r == wk[w].r
           k == wk[w].k
           row == [remote[r][k] EXCEPT !.flying = @ + 1]
           new == [wk[w] EXCEPT !.pc = "awaiting"]
<1>3. r \in Reviews /\ k \in Items
  BY <1>2, Holding
<1>4. Silent(r, k) /\ \A v \in Workers : wk[v].pc \in Sending /\ wk[v].r = r /\ wk[v].k = k => v = w
  BY <1>2 DEF Inv, Sends, OneSender
<1>5. remote \in [Reviews -> [Items -> [flying : Nat, landed : Nat]]]
  BY DEF Inv, Tables
<1>6. remote[r][k] \in [flying : Nat, landed : Nat]
  BY <1>3, <1>5
<1>7. row \in [flying : Nat, landed : Nat] /\ row.flying = 1 /\ row.landed = 0 /\ remote[r][k].landed = 0
  BY <1>4, <1>6 DEF Silent
<1>8. remote' = [remote EXCEPT ![r][k] = row]
  BY DEF Post
<1>9. pub[r][k].status \notin Ahead
  BY <1>2, Fitting DEF Fits, Announced
<1>10. wk[w] \in WorkerRow /\ RowOK(wk[w]) /\ "awaiting" \in PCs
  BY Fitting DEF Fits, PCs, SendPoints
<1>11. /\ new \in WorkerRow /\ new.pc = "awaiting" /\ Same(new, wk[w]) /\ new.err = wk[w].err
       /\ (Claimed(new) <=> Claimed(wk[w]))
  BY <1>10, GoRecord
<1>12. wk' = [wk EXCEPT ![w] = new]
  BY <1>1 DEF Go
<1> HIDE DEF row, new
<1>13. "awaiting" \notin AtRest \cup Heading \cup Reading \cup Sending /\ "awaiting" # "marking" /\ "awaiting" # "failing"
  BY DEF AtRest, Heading, Reading, Sending
<1>14. Fits(new)
  <2>1. RowOK(new)
    BY <1>2, <1>10, <1>11, <1>13 DEF RowOK
  <2>2. Between(new)
    BY <1>11, <1>13 DEF Between, Reading
  <2>3. Announced(new)
    BY <1>9, <1>11 DEF Announced, Same
  <2> QED  BY <1>11, <1>13, <2>1, <2>2, <2>3 DEF Fits, Evident, Behind
<1>15. wk \in [Workers -> WorkerRow]
  BY DEF Inv, Tables
<1>16. wk' \in [Workers -> WorkerRow] /\ wk'[w] = new /\ \A v \in Workers : v # w => wk'[v] = wk[v]
  BY <1>11, <1>12, <1>15
<1>17. ASSUME NEW v \in Workers
       PROVE  /\ Fits(wk'[v])
              /\ wk'[v].pc \in Sending =>
                   wk[v].pc \in Sending /\ Same(wk'[v], wk[v]) /\ (wk[v].r # r \/ wk[v].k # k)
  <2>1. CASE v = w
    BY <1>11, <1>13, <1>14, <1>16, <2>1
  <2>2. CASE v # w
    BY <1>4, <1>16, <2>2, Fitting DEF Same
  <2> QED  BY <2>1, <2>2
<1>18. row.flying + row.landed <= 1 /\ row.landed >= remote[r][k].landed
  BY <1>7
<1>19. wk' \in [Workers -> WorkerRow]
  BY <1>16
<1>20. row \in [flying : Nat, landed : Nat]
  BY <1>7
<1> HIDE DEF r, k
<1> QED  BY <1>1, <1>3, <1>8, <1>9, <1>17, <1>18, <1>19, <1>20, RemoteStep, Zenon

LEMMA GithubStep ==
  ASSUME Inv, NEW r \in Reviews, NEW k \in Items, CommentAppears(r, k) \/ RequestIsLost(r, k)
  PROVE  /\ Inv'
         /\ CommentAppears(r, k) => remote[r][k].landed = 0 /\ pub[r][k].status \in Uncertain
<1>1. UNCHANGED vars /\ UNCHANGED eng /\ UNCHANGED prs /\ UNCHANGED wk /\ remote[r][k].flying > 0
  BY DEF CommentAppears, RequestIsLost
<1>2. remote \in [Reviews -> [Items -> [flying : Nat, landed : Nat]]]
  BY DEF Inv, Tables
<1>3. remote[r][k] \in [flying : Nat, landed : Nat]
  BY <1>2
<1>4. remote[r][k].flying = 1 /\ remote[r][k].landed = 0
  BY <1>1, <1>3 DEF Inv, Sends, AtMostOneComment
<1>5. pub[r][k].status \notin Ahead
  BY <1>4 DEF Inv, Sends, Unsent, Silent
<1>6. pub[r][k].status # "posted"
  BY <1>4 DEF Inv, Sends, Seen
<1>7. pub[r][k].status \in Uncertain
  BY <1>5, <1>6 DEF Inv, Tables, TypeOK, Publication, Ahead, Uncertain
<1>8. PICK row \in [flying : Nat, landed : Nat] :
        remote' = [remote EXCEPT ![r][k] = row] /\ row.flying = 0
        /\ row.landed <= 1 /\ row.landed >= remote[r][k].landed
  <2>1. CASE CommentAppears(r, k)
    <3> DEFINE row == [flying |-> remote[r][k].flying - 1, landed |-> remote[r][k].landed + 1]
    <3>1. row \in [flying : Nat, landed : Nat] /\ row.flying = 0 /\ row.landed = 1
      BY <1>4
    <3>2. remote' = [remote EXCEPT ![r][k] = row]
      BY <2>1 DEF CommentAppears
    <3>3. row.landed <= 1 /\ row.landed >= remote[r][k].landed
      BY <1>4, <3>1
    <3> HIDE DEF row
    <3> QED  BY <3>1, <3>2, <3>3, Zenon
  <2>2. CASE RequestIsLost(r, k)
    <3> DEFINE row == [remote[r][k] EXCEPT !.flying = @ - 1]
    <3>1. row \in [flying : Nat, landed : Nat] /\ row.flying = 0 /\ row.landed = 0
      BY <1>3, <1>4
    <3>2. remote' = [remote EXCEPT ![r][k] = row]
      BY <2>2 DEF RequestIsLost
    <3>3. row.landed <= 1 /\ row.landed >= remote[r][k].landed
      BY <1>4, <3>1
    <3> HIDE DEF row
    <3> QED  BY <3>1, <3>2, <3>3, Zenon
  <2> QED  BY <2>1, <2>2
<1>9. \A w \in Workers : wk[w].pc \in Sending => wk[w].r # r \/ wk[w].k # k
  BY <1>4 DEF Inv, Sends, OneSender, Silent
<1>10. wk' \in [Workers -> WorkerRow]
  BY <1>1 DEF Inv, Tables
<1>11. \A w \in Workers :
         /\ Fits(wk'[w])
         /\ wk'[w].pc \in Sending =>
              wk[w].pc \in Sending /\ Same(wk'[w], wk[w]) /\ (wk[w].r # r \/ wk[w].k # k)
  BY <1>1, <1>9, Fitting DEF Same
<1>12. row.flying + row.landed <= 1
  BY <1>8
<1>13. Inv'
  BY <1>1, <1>5, <1>8, <1>10, <1>11, <1>12, RemoteStep
<1> QED  BY <1>4, <1>7, <1>13

(* The pull request only moves on.                                         *)
Onward(u, v) ==
  /\ u.push <= v.push /\ u.second <= v.second
  /\ u = v \/ u.second # v.second \/ "same second" \in Faults

LEMMA OnwardKeeps ==
  ASSUME NEW u \in Revisions, NEW a \in Revisions, NEW b \in Revisions, Onward(a, b)
  PROVE  /\ u.push <= a.push => u.push <= b.push
         /\ Earlier(u, a) => Earlier(u, b)
<1>1. u.push \in Nat /\ u.second \in Nat
  BY Pushes
<1>2. a.push \in Nat /\ a.second \in Nat
  BY Pushes
<1>3. b.push \in Nat /\ b.second \in Nat
  BY Pushes
<1>4. a.push <= b.push /\ a.second <= b.second
  BY DEF Onward
<1>5. u.push <= a.push => u.push <= b.push
  BY <1>1, <1>2, <1>3, <1>4
<1>6. ASSUME Earlier(u, a) PROVE u.push <= b.push /\ u.second <= b.second
  BY <1>1, <1>2, <1>3, <1>4, <1>6 DEF Earlier
<1>7. ASSUME Earlier(u, a), u.second = b.second PROVE Alike(u, b)
  <2>1. u.second <= a.second /\ (u.second = a.second => Alike(u, a))
    BY <1>7 DEF Earlier
  <2>2. a.second = b.second /\ u.second = a.second
    BY <1>1, <1>2, <1>3, <1>4, <1>7, <2>1
  <2>3. a = b \/ "same second" \in Faults
    BY <2>2 DEF Onward
  <2> QED  BY <2>1, <2>2, <2>3 DEF Alike
<1> QED  BY <1>5, <1>6, <1>7 DEF Earlier

LEMMA PullStep ==
  ASSUME Inv, NEW x \in PRs, PullMoves(x)
  PROVE  Inv'
<1>1. UNCHANGED vars /\ UNCHANGED eng /\ UNCHANGED wk /\ UNCHANGED remote
  BY DEF PullMoves
<1>2. lease' = lease /\ rev' = rev /\ pub' = pub /\ due' = due /\ fresh' = fresh
  BY <1>1 DEF vars
<1>3. prs \in [PRs -> Revisions] /\ prs[x] \in Revisions
  BY DEF Inv, Tables
<1>4. prs[x].sha \in Shas /\ prs[x].push \in 0 .. MaxPush /\ prs[x].second \in 0 .. MaxSecond
  BY <1>3, EngineAssumption
<1>5. PICK s \in Shas, n \in 0 .. MaxPush, t \in 0 .. MaxSecond :
        /\ prs' = [prs EXCEPT ![x].sha = s, ![x].push = n, ![x].second = t]
        /\ n >= prs[x].push /\ t >= prs[x].second
        /\ t = prs[x].second => "same second" \in Faults
  <2>1. CASE /\ prs[x].push < MaxPush
             /\ \E s \in Shas \ {prs[x].sha}, t \in {prs[x].second, prs[x].second + 1} :
                  /\ t = prs[x].second => "same second" \in Faults
                  /\ t <= MaxSecond
                  /\ prs' = [prs EXCEPT ![x].sha = s, ![x].push = @ + 1, ![x].second = t]
    <3>1. PICK s \in Shas \ {prs[x].sha}, t \in {prs[x].second, prs[x].second + 1} :
            /\ t = prs[x].second => "same second" \in Faults
            /\ t <= MaxSecond
            /\ prs' = [prs EXCEPT ![x].sha = s, ![x].push = @ + 1, ![x].second = t]
      BY <2>1
    <3>2. prs[x].push + 1 \in 0 .. MaxPush /\ prs[x].push + 1 >= prs[x].push
          /\ t \in 0 .. MaxSecond /\ t >= prs[x].second
      <4> DEFINE p == prs[x].push
                 d == prs[x].second
      <4>1. p < MaxPush
        BY <2>1
      <4>4. t <= MaxSecond
        BY <3>1
      <4>5. MaxPush \in Nat /\ MaxSecond \in Nat
        BY EngineAssumption
      <4>6. p \in Nat /\ d \in Nat
        BY <1>4, <4>5
      <4>2. t = d \/ t = d + 1
        BY <3>1
      <4> HIDE DEF p, d
      <4>3. p + 1 \in 0 .. MaxPush /\ p + 1 >= p /\ t \in 0 .. MaxSecond /\ t >= d
        BY <4>1, <4>2, <4>4, <4>5, <4>6
      <4> QED  BY <4>3 DEF p, d
    <3>3. prs' = [prs EXCEPT ![x].sha = s, ![x].push = prs[x].push + 1, ![x].second = t]
      BY <3>1
    <3> QED  BY <3>1, <3>2, <3>3
  <2>2. CASE prs[x].second < MaxSecond /\ prs' = [prs EXCEPT ![x].second = @ + 1]
    <3>1. prs[x].second + 1 \in 0 .. MaxSecond /\ prs[x].second + 1 >= prs[x].second
          /\ prs[x].second + 1 # prs[x].second /\ prs[x].push >= prs[x].push
      BY <1>4, <2>2, EngineAssumption
    <3>2. prs[x] = [prs[x] EXCEPT !.sha = prs[x].sha, !.push = prs[x].push]
      BY <1>3, EngineAssumption
    <3>3. prs' = [prs EXCEPT ![x].sha = prs[x].sha, ![x].push = prs[x].push, ![x].second = prs[x].second + 1]
      BY <2>2, <1>3, <3>2, EngineAssumption
    <3> QED  BY <1>4, <3>1, <3>3
  <2> QED  BY <2>1, <2>2 DEF PullMoves
<1> DEFINE v == [prs[x] EXCEPT !.sha = s, !.push = n, !.second = t]
<1>11. v \in Revisions /\ v.push = n /\ v.second = t
  <2>1. prs[x] \in [sha : Shas, push : 0 .. MaxPush, second : 0 .. MaxSecond]
    BY <1>3, EngineAssumption
  <2>2. v \in [sha : Shas, push : 0 .. MaxPush, second : 0 .. MaxSecond] /\ v.push = n /\ v.second = t
    BY <2>1
  <2> QED  BY <2>2, EngineAssumption
<1>12. prs' = [prs EXCEPT ![x] = v]
  BY <1>3, <1>5
<1> HIDE DEF v
<1>6. prs' \in [PRs -> Revisions]
      /\ \A y \in PRs : Onward(prs[y], prs'[y])
  <2>1. prs' \in [PRs -> Revisions] /\ prs'[x] = v /\ \A y \in PRs : y # x => prs'[y] = prs[y]
    BY <1>3, <1>11, <1>12
  <2>2. Onward(prs[x], v)
    <3>1. prs[x].second \in Nat /\ v.second \in Nat /\ prs[x].push \in Nat /\ v.push \in Nat
      BY <1>3, <1>11, Pushes
    <3>2. prs[x].push <= v.push /\ prs[x].second <= v.second
      BY <1>5, <1>11, <3>1
    <3>3. v.second = prs[x].second => "same second" \in Faults
      BY <1>5, <1>11
    <3> QED  BY <3>2, <3>3 DEF Onward
  <2>4. ASSUME NEW u \in Revisions PROVE Onward(u, u)
    <3>1. u.push \in Nat /\ u.second \in Nat
      BY Pushes
    <3> QED  BY <3>1 DEF Onward
  <2> QED  BY <1>3, <2>1, <2>2, <2>4
<1>7. TypeOK' /\ PlanWhole'
  BY <1>2 DEF Inv, Tables, TypeOK, PlanWhole
<1>8. Tables'
  <2>1. \A w \in Workers : RowOK(wk[w])'
    BY <1>1 DEF Inv, Tables, RowOK
  <2>2. (lease.fence \in 0 .. MaxFence)' /\ (lease.owner \in Procs => lease.fence >= 1)'
    BY <1>2 DEF Inv, Tables
  <2>3. (eng \in [Procs -> EngineRow])' /\ (wk \in [Workers -> WorkerRow])'
    BY <1>1, <1>2 DEF Inv, Tables, EngineRow
  <2>4. (remote \in [Reviews -> [Items -> [flying : Nat, landed : Nat]]])'
    BY <1>1 DEF Inv, Tables
  <2> QED  BY <1>6, <1>7, <2>1, <2>2, <2>3, <2>4 DEF Tables
<1>9. Sends'
  <2>1. \A w \in Workers : (Announced(wk[w]) /\ Evident(wk[w]) /\ Behind(wk[w]))'
    BY <1>1, <1>2 DEF Inv, Sends, Announced, Evident, Behind
  <2>2. Unsent' /\ Seen' /\ OneSender' /\ AtMostOneComment'
    BY <1>1, <1>2 DEF Inv, Sends, Unsent, Seen, OneSender, AtMostOneComment, Silent
  <2> QED  BY <2>1, <2>2 DEF Sends
<1>10. Reads'
  <2> SUFFICES ASSUME NEW w \in Workers, wk[w].pc \in Reading PROVE Between(wk[w])'
    BY <1>1 DEF Reads, Between, Reading
  <2> DEFINE j == wk[w]
             y == rev[j.r].pr
  <2>1. j.pc \notin AtRest
    BY DEF Reading, AtRest
  <2>2. y \in PRs
    <3>1. rev[j.r] \in ReviewRow
      BY <2>1, Holding DEF Inv, Tables, TypeOK
    <3> QED  BY <3>1 DEF ReviewRow
  <2>3. /\ prs'[y] \in Revisions /\ prs[y] \in Revisions
        /\ Onward(prs[y], prs'[y])
    BY <1>3, <1>6, <2>2
  <2>4. Between(j)
    BY Fitting DEF Fits
  <2>5. Now(wk[w])' = prs'[y] /\ Now(j) = prs[y] /\ wk'[w] = j
    BY <1>1, <1>2 DEF Now
  <2>6. ASSUME NEW u \in Revisions, Earlier(u, prs[y]) PROVE Earlier(u, prs'[y])
    BY <2>3, <2>6, OnwardKeeps
  <2>7. ASSUME NEW u \in Revisions, u.push <= prs[y].push PROVE u.push <= prs'[y].push
    BY <2>3, <2>7, OnwardKeeps
  <2>8. Between(wk[w])'
    <3> HIDE DEF j, y
    <3>1. /\ j.pc \in Reading => Earlier(j.head, prs'[y])
          /\ j.pc \in {"rechecking", "diff", "agent", "finalcheck", "preparing"} => j.files.push <= prs'[y].push
          /\ j.pc \in {"agent", "finalcheck", "preparing"} => j.diff.push <= prs'[y].push
      BY <2>4, <2>5, <2>6, <2>7 DEF Between
    <3> QED  BY <2>4, <2>5, <3>1 DEF Between, Earlier, Alike, Reading
  <2> QED  BY <1>1, <2>8
<1> QED  BY <1>7, <1>8, <1>9, <1>10 DEF Inv

(* A send is taken up: its row was pending, so nothing of it is out, and   *)
(* nobody else is at it.                                                   *)
LEMMA BeginStep ==
  ASSUME Inv, NEW w \in Workers, BeginSend(w)
  PROVE  /\ Inv' /\ [Next]_vars /\ Careful /\ UNCHANGED <<prs, remote>>
         /\ wk[w].pc = "beginning" /\ \A v \in Workers : v # w => wk'[v] = wk[v]
<1>1. w[1] \in Procs /\ UNCHANGED eng /\ UNCHANGED prs /\ UNCHANGED remote
      /\ wk[w].pc = "beginning" /\ Go(w, "sending")
  BY DEF Workers, BeginSend, Check, At, Elsewhere
<1>2. wk[w].pc \notin AtRest \cup Handling /\ wk[w].pc \in Heading
  BY <1>1 DEF AtRest, Handling, Heading
<1> DEFINE r == wk[w].r
           k == wk[w].k
           t == TicketOf(w)
           new == [wk[w] EXCEPT !.pc = "sending"]
<1>3. r \in Reviews /\ k \in Items /\ t \in Ticket /\ BeginPublicationSend(r, k, t)
  BY <1>2, Holding DEF BeginSend
<1>4. pub[r][k].status = "pending" /\ lease' = lease /\ rev' = rev
  BY <1>3 DEF BeginPublicationSend, Owned
<1>5. pub'[r][k].status = "sending"
      /\ \A q \in Reviews, i \in Items : q # r \/ i # k => pub'[q][i] = pub[q][i]
  BY <1>3 DEF BeginPublicationSend, SetPub, Owned, Inv, Tables, TypeOK
<1>6. \A i \in Items : i < k => pub[r][i].status = "posted"
  BY <1>2, Fitting DEF Fits, Behind
<1>7. Careful
  BY <1>5, <1>6 DEF Careful, Uncertain
<1>8. [Next]_vars
  BY <1>3, ClaimedStep DEF OutboxStep
<1>9. TypeOK' /\ PlanWhole' /\ NoRewind /\ KeepsPull
  BY <1>8, StoreKeeps
<1>10. wk[w] \in WorkerRow /\ RowOK(wk[w]) /\ "sending" \in PCs
  BY Fitting DEF Fits, PCs, SendPoints
<1>11. /\ new \in WorkerRow /\ new.pc = "sending" /\ Same(new, wk[w]) /\ new.err = wk[w].err
       /\ (Claimed(new) <=> Claimed(wk[w]))
  BY <1>10, GoRecord
<1>12. wk' = [wk EXCEPT ![w] = new] /\ wk \in [Workers -> WorkerRow]
  BY <1>1 DEF Go, Inv, Tables
<1> HIDE DEF new
<1>13. wk' \in [Workers -> WorkerRow] /\ wk'[w] = new /\ \A v \in Workers : v # w => wk'[v] = wk[v]
  BY <1>11, <1>12
<1>14. "sending" \notin AtRest \cup Heading \cup Reading /\ "sending" # "marking" /\ "sending" # "failing"
  BY DEF AtRest, Heading, Reading
<1>15. \A v \in Workers : RowOK(wk'[v])
  <2>1. RowOK(new)
    BY <1>2, <1>10, <1>11, <1>14 DEF RowOK
  <2> QED  BY <1>13, <2>1, Fitting DEF Fits
<1>16. Tables'
  <2>1. \A v \in Workers : RowOK(wk[v])'
    BY <1>15 DEF RowOK
  <2>2. (lease.fence \in 0 .. MaxFence)' /\ (lease.owner \in Procs => lease.fence >= 1)'
    BY <1>4 DEF Inv, Tables
  <2>3. (eng \in [Procs -> EngineRow])' /\ (prs \in [PRs -> Revisions])'
        /\ (remote \in [Reviews -> [Items -> [flying : Nat, landed : Nat]]])'
    BY <1>1, <1>4 DEF Inv, Tables, EngineRow
  <2> QED  BY <1>9, <1>13, <2>1, <2>2, <2>3 DEF Tables
<1>17. Silent(r, k)
  BY <1>3, <1>4 DEF Inv, Sends, Unsent, Ahead
<1>18. \A v \in Workers : wk[v].pc \in Sending => wk[v].r # r \/ wk[v].k # k
  <2> SUFFICES ASSUME NEW v \in Workers, wk[v].pc \in Sending, wk[v].r = r, wk[v].k = k PROVE FALSE
    OBVIOUS
  <2>1. pub[wk[v].r][wk[v].k].status \notin Ahead
    BY Fitting DEF Fits, Announced, Committed
  <2> QED  BY <1>4, <2>1 DEF Ahead
<1>19. OneSender'
  <2> SUFFICES ASSUME NEW u \in Workers, wk'[u].pc \in Sending
               PROVE  /\ remote[wk'[u].r][wk'[u].k].flying = 0 /\ remote[wk'[u].r][wk'[u].k].landed = 0
                      /\ \A v \in Workers :
                           wk'[v].pc \in Sending /\ wk'[v].r = wk'[u].r /\ wk'[v].k = wk'[u].k => v = u
    BY <1>1 DEF OneSender, Silent
  <2>1. CASE u = w
    BY <1>11, <1>13, <1>17, <1>18, <2>1 DEF Silent, Same
  <2>2. CASE u # w
    BY <1>11, <1>13, <1>18, <2>2 DEF Silent, Same, Inv, Sends, OneSender
  <2> QED  BY <2>1, <2>2
<1>20. Unsent'
  <2> SUFFICES ASSUME NEW q \in Reviews, NEW i \in Items, pub'[q][i].status \in Ahead
               PROVE  remote[q][i].flying = 0 /\ remote[q][i].landed = 0
    BY <1>1 DEF Unsent, Silent
  <2>1. pub[q][i].status \in Ahead
    BY <1>5 DEF Ahead
  <2> QED  BY <2>1 DEF Inv, Sends, Unsent, Silent
<1>21. Seen'
  <2> SUFFICES ASSUME NEW q \in Reviews, NEW i \in Items, pub'[q][i].status = "posted"
               PROVE  remote[q][i].landed > 0
    BY <1>1 DEF Seen
  <2>1. pub[q][i].status = "posted"
    BY <1>5
  <2> QED  BY <2>1 DEF Inv, Sends, Seen
<1>22. AtMostOneComment'
  BY <1>1 DEF Inv, Sends, AtMostOneComment
<1>23. ASSUME NEW v \in Workers
       PROVE  Announced(wk[v])' /\ Evident(wk[v])' /\ Behind(wk[v])' /\ Between(wk[v])'
  <2>1. CASE v = w
    <3>1. wk'[v].pc = "sending" /\ wk'[v].r = r /\ wk'[v].k = k
      BY <1>11, <1>13, <2>1 DEF Same
    <3>2. Announced(wk[v])'
      BY <1>5, <3>1 DEF Announced, Ahead
    <3>3. Between(wk[v])'
      BY <1>14, <3>1 DEF Between, Reading
    <3> QED  BY <1>14, <3>1, <3>2, <3>3 DEF Evident, Behind
  <2>2. CASE v # w
    <3>1. wk'[v] = wk[v] /\ Fits(wk[v]) /\ wk[v] \in WorkerRow
      BY <1>13, <2>2, Fitting
    <3>2. \A q \in Reviews, i \in Items : pub[q][i].status \notin Ahead => pub'[q][i].status \notin Ahead
      BY <1>4, <1>5 DEF Ahead
    <3>3. \A q \in Reviews, i \in Items : pub[q][i].status = "posted" => pub'[q][i].status = "posted"
      BY <1>9 DEF NoRewind
    <3>4. wk[v].pc \in Committed \cup Heading => wk[v].r \in Reviews /\ wk[v].k \in Items
      <4>1. wk[v].pc \in Committed \cup Heading => wk[v].pc \notin AtRest
        BY DEF Committed, Sending, Heading, AtRest
      <4> QED  BY <4>1, Holding
    <3>5. Announced(wk[v])'
      BY <3>1, <3>2, <3>4 DEF Fits, Announced
    <3>6. Behind(wk[v])'
      BY <3>1, <3>3, <3>4 DEF Fits, Behind
    <3>7. Evident(wk[v])'
      BY <1>1, <3>1 DEF Fits, Evident
    <3>8. Between(wk[v])'
      BY <1>1, <1>4, <3>1 DEF Fits, Between, Now
    <3> QED  BY <3>5, <3>6, <3>7, <3>8
  <2> QED  BY <2>1, <2>2
<1>24. Inv'
  BY <1>9, <1>16, <1>19, <1>20, <1>21, <1>22, <1>23 DEF Inv, Sends, Reads
<1> QED  BY <1>1, <1>7, <1>8, <1>13, <1>24

(***************************************************************************)
(* Every step.                                                             *)
(***************************************************************************)

(* What is planned is planned for the head that was read.                  *)
Planned == \A w \in Workers : wk[w].pc = "preparing" /\ wk'[w].pc = "planned" => rev'[wk[w].r].commit = wk[w].head

LandedSame == \A r \in Reviews, k \in Items : remote'[r][k].landed = remote[r][k].landed

Shows ==
  \/ LandedSame
  \/ UNCHANGED vars /\ \E r \in Reviews, k \in Items : CommentAppears(r, k) /\ remote[r][k].landed = 0
                                                       /\ pub[r][k].status \in Uncertain

Sound == Inv' /\ [Next]_vars /\ Careful /\ Planned /\ Shows

LEMMA CalmSound == Inv /\ Calm => Sound
<1> SUFFICES ASSUME Inv, Calm PROVE Sound
  OBVIOUS
<1>1. Inv'
  BY CalmStep
<1>2. [Next]_vars /\ Careful /\ Shows
  BY DEF Calm, Shows, LandedSame
<1>3. Planned
  BY DEF Calm, Apt, Planned
<1> QED  BY <1>1, <1>2, <1>3 DEF Sound

LEMMA WorkerSound ==
  ASSUME Inv, NEW w \in Workers, WorkerStep(w)
  PROVE  Sound
<1>1. CASE CheckFails(w)
  BY <1>1, CheckFailsCalm, CalmSound
<1>2. CASE WorkerReturns(w) \/ RecoverExpiredWork(w) \/ NothingToClaim(w)
  BY <1>2, LoopCalm, CalmSound
<1>3. CASE ClaimReview(w)
  BY <1>3, ClaimCalm, CalmSound
<1>4. CASE Verify(w) \/ RecordRevision(w)
  BY <1>4, VerifyCalm, RecordCalm, CalmSound
<1>5. CASE HeadChanged(w) \/ HeadUnchanged(w)
  BY <1>5, HeadChangedCalm, HeadUnchangedCalm, CalmSound
<1>6. CASE ReadInputs(w) \/ RunAgent(w) \/ PreparePublication(w)
  BY <1>6, ReadInputsCalm, RunAgentCalm, PrepareCalm, CalmSound
<1>7. CASE StartPublishing(w) \/ Preflight(w) \/ CheckBeforePost(w) \/ PostAnswered(w) \/ PostUnanswered(w)
  BY <1>7, QuietSteps, CalmSound
<1>8. CASE NextPublication(w) \/ MarkPosted(w) \/ PublicationUncertain(w)
  BY <1>8, NextPublicationCalm, MarkPostedCalm, UncertainCalm, CalmSound
<1>9. CASE FinishReview(w) \/ ReconcilePublication(w) \/ SettlePrepared(w) \/ HandleReviewError(w)
  BY <1>9, FinishCalm, ReconcileCalm, SettleCalm, HandleCalm, CalmSound
<1>10. CASE BeginSend(w)
  <2>1. Inv' /\ [Next]_vars /\ Careful /\ UNCHANGED <<prs, remote>>
        /\ wk[w].pc = "beginning" /\ \A v \in Workers : v # w => wk'[v] = wk[v]
    BY <1>10, BeginStep
  <2>2. Planned
    BY <2>1 DEF Planned
  <2>3. Shows
    BY <2>1 DEF Shows, LandedSame
  <2> QED  BY <2>1, <2>2, <2>3 DEF Sound
<1>11. CASE Post(w)
  <2>1. UNCHANGED vars /\ wk[w].pc = "posting" /\ Go(w, "awaiting")
    BY <1>11 DEF Post, At
  <2>2. [Next]_vars /\ Careful
    BY <2>1, StoreIdle
  <2>3. \A v \in Workers : v # w => wk'[v] = wk[v]
    BY <2>1 DEF Go, Inv, Tables
  <2>4. Planned
    BY <2>1, <2>3 DEF Planned
  <2>5. LandedSame
    <3>1. remote \in [Reviews -> [Items -> [flying : Nat, landed : Nat]]]
      BY DEF Inv, Tables
    <3> DEFINE row == [remote[wk[w].r][wk[w].k] EXCEPT !.flying = @ + 1]
    <3>2. wk[w].r \in Reviews /\ wk[w].k \in Items
      BY <2>1, Holding DEF AtRest
    <3>3. remote[wk[w].r][wk[w].k] \in [flying : Nat, landed : Nat]
      BY <3>1, <3>2
    <3>4. row.landed = remote[wk[w].r][wk[w].k].landed
      BY <3>3
    <3>5. remote' = [remote EXCEPT ![wk[w].r][wk[w].k] = row]
      BY <1>11 DEF Post
    <3> HIDE DEF row
    <3> QED  BY <3>1, <3>4, <3>5 DEF LandedSame
  <2> QED  BY <1>11, <2>2, <2>4, <2>5, PostStep DEF Sound, Shows
<1> QED
  BY <1>1, <1>2, <1>3, <1>4, <1>5, <1>6, <1>7, <1>8, <1>9, <1>10, <1>11 DEF WorkerStep

LEMMA EnvironmentSound ==
  ASSUME Inv,
         \/ \E r \in Reviews, k \in Items : CommentAppears(r, k) \/ RequestIsLost(r, k)
         \/ \E x \in PRs : PullMoves(x)
  PROVE  Sound
<1>1. UNCHANGED vars /\ UNCHANGED wk
  BY DEF CommentAppears, RequestIsLost, PullMoves
<1>2. [Next]_vars /\ Careful
  BY <1>1, StoreIdle
<1>3. Planned
  BY <1>1 DEF Planned
<1>4. ASSUME NEW r \in Reviews, NEW k \in Items, CommentAppears(r, k) PROVE Inv' /\ Shows
  BY <1>1, <1>4, GithubStep DEF Shows
<1>5. ASSUME NEW r \in Reviews, NEW k \in Items, RequestIsLost(r, k) PROVE Inv' /\ Shows
  <2>1. remote \in [Reviews -> [Items -> [flying : Nat, landed : Nat]]]
    BY DEF Inv, Tables
  <2> DEFINE row == [remote[r][k] EXCEPT !.flying = @ - 1]
  <2>2. remote[r][k] \in [flying : Nat, landed : Nat]
    BY <2>1
  <2>3. row.landed = remote[r][k].landed
    BY <2>2
  <2>4. remote' = [remote EXCEPT ![r][k] = row]
    BY <1>5 DEF RequestIsLost
  <2> HIDE DEF row
  <2>5. LandedSame
    BY <2>1, <2>3, <2>4 DEF LandedSame
  <2> QED  BY <1>5, <2>5, GithubStep DEF Shows
<1>6. ASSUME NEW x \in PRs, PullMoves(x) PROVE Inv' /\ Shows
  BY <1>6, PullStep DEF Shows, LandedSame, PullMoves
<1> QED  BY <1>2, <1>3, <1>4, <1>5, <1>6 DEF Sound

LEMMA EverySound ==
  ASSUME Inv, [EngineNext]_allVars
  PROVE  Sound
<1>1. CASE UNCHANGED allVars
  <2>1. UNCHANGED vars /\ UNCHANGED eng /\ UNCHANGED wk /\ Elsewhere
    BY <1>1 DEF allVars, vars, Elsewhere
  <2>2. EngOK
    BY <2>1 DEF EngOK, vars, Inv, Tables, EngineRow
  <2> QED  BY <2>1, <2>2, StoreIdle, StayCalm, CalmSound
<1>2. CASE Trouble
  BY <1>2, TroubleCalm, CalmSound DEF Trouble
<1>3. CASE \E w \in Workers : WorkerStep(w)
  BY <1>3, WorkerSound
<1>4. ASSUME NEW p \in Procs, EngineStep(p) \/ Stop(p) \/ Crash(p) PROVE Sound
  BY <1>4, EngineCalm, ServeCalm, CrashCalm, CalmSound DEF EngineStep
<1>5. CASE LeaseExpires
  BY <1>5, ExpireCalm, CalmSound
<1>6. CASE \/ \E r \in Reviews : Requested(r) \/ RetryIsDue(r)
           \/ \E r \in Reviews, k \in Items : WindowCloses(r, k)
  BY <1>6, QueueCalm, CalmSound
<1>7. CASE \/ \E r \in Reviews, k \in Items : CommentAppears(r, k) \/ RequestIsLost(r, k)
           \/ \E x \in PRs : PullMoves(x)
  BY <1>7, EnvironmentSound
<1> QED  BY <1>1, <1>2, <1>3, <1>4, <1>5, <1>6, <1>7 DEF EngineNext, Smooth

LEMMA InitSound == EngineInit => Inv
<1> SUFFICES ASSUME EngineInit PROVE Inv
  OBVIOUS
<1>1. TypeOK /\ PlanWhole
  <2>1. TypeOK
    BY TypeInit DEF EngineInit
  <2>2. PlanWhole
    BY DEF EngineInit, Init, PlanWhole, Absent
  <2> QED  BY <2>1, <2>2
<1>2. lease.fence = 0 /\ lease.owner \notin Procs
  BY LeaseAssumption DEF EngineInit, Init, LeaseInit
<1>3. eng \in [Procs -> EngineRow]
  <2>1. Down \in EngineRow
    BY <1>2 DEF Down, EngineRow, Phases
  <2> QED  BY <2>1 DEF EngineInit, EngineLeaseInit
<1>4. "gone" \in AtRest
  BY DEF AtRest
<1>5. Fits(Resting("gone")) /\ Resting("gone").pc = "gone" /\ Resting("gone") \in WorkerRow
  BY <1>4, Rested DEF Fits, RowOK
<1>6. wk \in [Workers -> WorkerRow] /\ \A w \in Workers : wk[w] = Resting("gone")
  BY <1>5 DEF EngineInit
<1>7. prs \in [PRs -> Revisions]
  <2>1. \A s \in Shas : [sha |-> s, push |-> 0, second |-> 0] \in Revisions
    BY EngineAssumption
  <2> QED  BY <2>1 DEF EngineInit
<1>8. remote \in [Reviews -> [Items -> [flying : Nat, landed : Nat]]]
      /\ \A r \in Reviews, k \in Items : remote[r][k].flying = 0 /\ remote[r][k].landed = 0
  BY DEF EngineInit
<1>9. \A w \in Workers : Fits(wk[w]) /\ wk[w].pc \notin Sending
  BY <1>5, <1>6 DEF Sending
<1>10. Tables
  BY <1>1, <1>2, <1>3, <1>6, <1>7, <1>8, <1>9, LeaseAssumption DEF Tables, Fits
<1>11. \A r \in Reviews, k \in Items : pub[r][k].status # "posted"
  BY DEF EngineInit, Init, Absent
<1>12. Sends
  BY <1>8, <1>9, <1>11 DEF Sends, Unsent, Seen, Silent, OneSender, AtMostOneComment, Fits
<1> QED  BY <1>1, <1>9, <1>10, <1>12 DEF Inv, Reads, Fits

LEMMA InvAlways == EngineSpec => []Inv
<1>1. Inv /\ [EngineNext]_allVars => Inv'
  BY EverySound DEF Sound
<1> QED  BY <1>1, InitSound, PTL DEF EngineSpec

(***************************************************************************)
(* What follows.                                                           *)
(***************************************************************************)

(* The engine's tables and the registers of its workers keep their types;  *)
(* in particular a worker holds a claim exactly while it works on a review *)
(* and an error only while it handles one.                                 *)
THEOREM EngineTypeCorrect == EngineSpec => []EngineTypeOK
<1>1. Inv => EngineTypeOK
  <2> SUFFICES ASSUME Inv PROVE EngineTypeOK
    OBVIOUS
  <2>1. eng \in [Procs -> [phase : Phases, fence : 0 .. lease.fence, entitled : BOOLEAN]]
    BY DEF Inv, Tables, EngineRow
  <2>2. TypeOK /\ prs \in [PRs -> Revisions] /\ remote \in [Reviews -> [Items -> [flying : Nat, landed : Nat]]]
    BY DEF Inv, Tables
  <2>3. ASSUME NEW w \in Workers
        PROVE  /\ wk[w].pc \in PCs
               /\ wk[w].pc \in AtRest <=> wk[w].r = 0
               /\ wk[w].r # 0 => TicketOf(w) \in Ticket /\ wk[w].r \in Reviews
               /\ wk[w].err # {} => wk[w].pc \in Handling
               /\ At(w, "failing") => wk[w].err # {}
    <3>1. RowOK(wk[w]) /\ wk[w] \in WorkerRow
      BY Fitting DEF Fits
    <3>2. wk[w].pc \in PCs
      BY <3>1 DEF WorkerRow
    <3>3. wk[w].pc \notin AtRest => wk[w].r \in Reviews /\ wk[w].r # 0 /\ TicketOf(w) \in Ticket
      BY Holding, StoreAssumption DEF Reviews
    <3>4. wk[w].pc \in AtRest => wk[w].r = 0
      BY <3>1 DEF RowOK
    <3> QED  BY <3>1, <3>2, <3>3, <3>4 DEF RowOK, At
  <2> QED  BY <2>1, <2>2, <2>3 DEF EngineTypeOK
<1> QED  BY <1>1, InvAlways, PTL

(* A comment is never posted twice, counting requests still on their way:  *)
(* not by a second worker or process, not after a crash, a lost reply, a   *)
(* late request or a takeover, for any number of each.                     *)
THEOREM PostedOnce == EngineSpec => []AtMostOneComment
<1>1. Inv => AtMostOneComment
  BY DEF Inv, Sends
<1> QED  BY <1>1, InvAlways, PTL

(* The engine uses its store as ReviewStore allows, so what is proved of   *)
(* the store, whatever its callers, holds of the engine.                   *)
THEOREM UsesStore == EngineSpec => Spec
<1>1. EngineInit => Init
  BY DEF EngineInit
<1>2. Inv /\ [EngineNext]_allVars => [Next]_vars
  BY EverySound DEF Sound
<1> QED  BY <1>1, <1>2, InvAlways, PTL DEF EngineSpec, Spec

(* While the engine runs: one active review per pull request, an outbox    *)
(* that never takes an announced comment back, a finished review that      *)
(* stays as it is, and no term that writes over another's.                 *)
THEOREM EngineKeepsStore ==
  EngineSpec => [](OneActivePerPR /\ DoneMeansDelivered) /\ OutboxNeverRewinds /\ TerminalIsFinal /\ OldTermsAreFenced
BY UsesStore, ActiveUnique, Delivered, NeverRewinds, Final, Fencing, PTL

(* PlanFromOneRevision, as a predicate on one step.                        *)
OneRevision ==
  \A w \in Workers :
    At(w, "preparing") /\ wk'[w].pc = "planned" =>
      /\ wk[w].files.push = rev'[wk[w].r].commit.push
      /\ wk[w].diff.push = rev'[wk[w].r].commit.push

(* What is planned for a revision was read from that revision, however     *)
(* often it is pushed to meanwhile: each input was read between two looks  *)
(* that found the same commit and the same second.  Without the assumption *)
(* two pushes within one second can bring a commit back unnoticed.         *)
THEOREM PlansFromOneRevision ==
  ASSUME "same second" \notin Faults
  PROVE  EngineSpec => PlanFromOneRevision
<1>1. Inv /\ [EngineNext]_allVars => [OneRevision]_allVars
  <2> SUFFICES ASSUME Inv, [EngineNext]_allVars, NEW w \in Workers, wk[w].pc = "preparing", wk'[w].pc = "planned"
               PROVE  /\ wk[w].files.push = rev'[wk[w].r].commit.push
                      /\ wk[w].diff.push = rev'[wk[w].r].commit.push
    BY DEF OneRevision, At
  <2>1. rev'[wk[w].r].commit = wk[w].head
    BY EverySound DEF Sound, Planned
  <2>2. wk[w].files.push = wk[w].head.push /\ wk[w].diff.push = wk[w].head.push
    BY Fitting DEF Fits, Between, Alike
  <2> QED  BY <2>1, <2>2
<1> QED  BY <1>1, InvAlways, PTL DEF EngineSpec, PlanFromOneRevision, OneRevision

(***************************************************************************)
(* The engine implements Delivery: what Delivery calls outcome, mark and   *)
(* comments, of the engine's tables.                                       *)
(***************************************************************************)
Outcomes == [r \in Reviews |-> Outcome(r)]
Marks    == [r \in Reviews |-> [k \in Items |-> Mark(r, k)]]
Shown    == [r \in Reviews |-> [k \in Items |-> remote[r][k].landed]]

OutcomeOf(s) == IF s \in Terminal THEN s ELSE "open"
MarkOf(s)    == IF s = "none" THEN "absent" ELSE IF s = "pending" THEN "planned"
                ELSE IF s = "posted" THEN "yes" ELSE "maybe"

LEMMA OutcomeSeen == Outcomes = [r \in Reviews |-> OutcomeOf(rev[r].status)]
BY DEF Outcomes, Outcome, OutcomeOf

LEMMA MarkSeen == Inv => Marks = [r \in Reviews |-> [k \in Items |-> MarkOf(pub[r][k].status)]]
<1> SUFFICES ASSUME Inv, NEW r \in Reviews, NEW k \in Items PROVE Mark(r, k) = MarkOf(pub[r][k].status)
  BY DEF Marks
<1>1. pub[r][k] \in Publication
  BY DEF Inv, Tables, TypeOK
<1>2. pub[r][k].status \in {"none", "pending", "sending", "posted", "reconciliation_required"}
  BY <1>1 DEF Publication
<1> QED  BY <1>2 DEF Mark, MarkOf, Uncertain

LEMMA MarkSeenNext == Inv' => Marks' = [r \in Reviews |-> [k \in Items |-> MarkOf(pub'[r][k].status)]]
<1>1. (Marks = [r \in Reviews |-> [k \in Items |-> MarkOf(pub[r][k].status)]])'
      <=> Marks' = [r \in Reviews |-> [k \in Items |-> MarkOf(pub'[r][k].status)]]
  OBVIOUS
<1>2. Inv' => (Marks = [r \in Reviews |-> [k \in Items |-> MarkOf(pub[r][k].status)]])'
  BY MarkSeen, PTL
<1> QED  BY <1>1, <1>2

(* Nothing of it changes.                                                  *)
LEMMA ViewSame ==
  ASSUME Inv, Inv', LandedSame,
         \A r \in Reviews : OutcomeOf(rev'[r].status) = OutcomeOf(rev[r].status),
         \A r \in Reviews, k \in Items : MarkOf(pub'[r][k].status) = MarkOf(pub[r][k].status)
  PROVE  UNCHANGED <<Outcomes, Marks, Shown>>
<1>1. Outcomes' = Outcomes
  BY DEF Outcomes, Outcome, OutcomeOf
<1>2. Marks' = [r \in Reviews |-> [k \in Items |-> MarkOf(pub'[r][k].status)]]
  BY MarkSeenNext
<1>3. Marks' = Marks
  BY <1>2, MarkSeen
<1>4. Shown' = Shown
  BY DEF Shown, LandedSame
<1> QED  BY <1>1, <1>3, <1>4

LEMMA Stutters ==
  ASSUME Inv, Inv', LandedSame,
         \A r \in Reviews : \/ rev'[r].status = rev[r].status
                            \/ rev'[r].status \notin Terminal /\ rev[r].status \notin Terminal,
         \A r \in Reviews, k \in Items : \/ pub'[r][k].status = pub[r][k].status
                                         \/ pub'[r][k].status \in Uncertain /\ pub[r][k].status \in Uncertain
  PROVE  [Promise!Next]_(Promise!dvars)
<1>1. \A r \in Reviews : OutcomeOf(rev'[r].status) = OutcomeOf(rev[r].status)
  BY DEF OutcomeOf
<1>2. \A s \in Uncertain : MarkOf(s) = "maybe"
  BY DEF MarkOf, Uncertain
<1>3. \A r \in Reviews, k \in Items : MarkOf(pub'[r][k].status) = MarkOf(pub[r][k].status)
  BY <1>2
<1>4. UNCHANGED <<Outcomes, Marks, Shown>>
  BY <1>1, <1>3, ViewSame
<1> QED  BY <1>4 DEF Promise!dvars, Outcomes, Marks, Shown

(* One row written.                                                        *)
LEMMA RowWritten ==
  ASSUME Inv, NEW r \in Reviews, NEW row, SetRow(r, row)
  PROVE  rev'[r] = row /\ \A q \in Reviews : q # r => rev'[q] = rev[q]
BY DEF SetRow, Inv, Tables, TypeOK

LEMMA PubWritten ==
  ASSUME Inv, NEW r \in Reviews, NEW k \in Items, NEW row, SetPub(r, k, row)
  PROVE  pub'[r][k] = row /\ \A q \in Reviews, i \in Items : q # r \/ i # k => pub'[q][i] = pub[q][i]
BY DEF SetPub, Inv, Tables, TypeOK

(* The steps Delivery does not see.                                        *)
LEMMA HiddenStep ==
  ASSUME Inv, Inv', LandedSame, Careful,
         \/ LeaseStep \/ QueueStep \/ UNCHANGED vars
         \/ \E r \in Reviews, k \in Items : HandoffElapses(r, k)
         \/ \E r \in Reviews, t \in Ticket :
              \/ \E v \in Revisions : SetReviewRevision(r, t, v)
              \/ FinishReviewReconciliationRequired(r, t) \/ RequeueReview(r, t)
              \/ \E k \in Items : \/ ClaimPending(r, k, t) \/ ExpireSend(r, k, t)
                                  \/ MarkPublicationReconciliationRequired(r, k, t)
  PROVE  [Promise!Next]_(Promise!dvars)
<1>0. \A r \in Reviews : rev[r] \in ReviewRow
  BY DEF Inv, Tables, TypeOK
<1>1. ASSUME UNCHANGED pub, NEW r \in Reviews, NEW row, SetRow(r, row),
             row.status \notin Terminal, rev[r].status \notin Terminal
      PROVE  [Promise!Next]_(Promise!dvars)
  <2>1. \A q \in Reviews : rev'[q].status = rev[q].status
                           \/ (rev'[q].status \notin Terminal /\ rev[q].status \notin Terminal)
    BY <1>1, RowWritten
  <2> QED  BY <1>1, <2>1, Stutters
<1>2. ASSUME UNCHANGED rev, UNCHANGED pub PROVE [Promise!Next]_(Promise!dvars)
  BY <1>2, Stutters
<1>3. CASE LeaseStep \/ UNCHANGED vars \/ \E r \in Reviews, k \in Items : HandoffElapses(r, k)
  BY <1>2, <1>3 DEF LeaseStep, storeVars, vars, HandoffElapses
<1>4. CASE \E r \in Reviews : RetryDue(r)
  BY <1>2, <1>4 DEF RetryDue
<1>5. ASSUME NEW r \in Reviews, CreateReview(r) PROVE [Promise!Next]_(Promise!dvars)
  <2>1. [rev[r] EXCEPT !.status = "queued"].status = "queued"
    BY <1>0 DEF ReviewRow
  <2> QED  BY <1>1, <1>5, <2>1 DEF CreateReview, Terminal
<1>6. ASSUME NEW p \in Procs, NEW f \in 1 .. MaxFence, RecoverInterruptedReviews(p, f)
      PROVE  [Promise!Next]_(Promise!dvars)
  <2>1. \A r \in Reviews : [rev[r] EXCEPT !.status = "queued", !.owner = NoProc].status = "queued"
    BY <1>0 DEF ReviewRow
  <2>2. \A r \in Reviews : rev'[r].status = rev[r].status
                           \/ (rev'[r].status = "queued" /\ rev[r].status = "running")
    BY <1>6, <2>1 DEF RecoverInterruptedReviews, Interrupted
  <2> QED  BY <1>6, <2>2, Stutters DEF RecoverInterruptedReviews, Terminal
<1>7. ASSUME NEW r \in Reviews, NEW p \in Procs, NEW f \in 1 .. MaxFence, ClaimNextQueuedReview(r, p, f)
      PROVE  [Promise!Next]_(Promise!dvars)
  <2>1. \A g : [rev[r] EXCEPT !.status = "running", !.owner = p, !.fence = f, !.gen = g].status = "running"
    BY <1>0 DEF ReviewRow
  <2> QED  BY <1>1, <1>7, <2>1 DEF ClaimNextQueuedReview, Claimable, Terminal
<1>8. ASSUME NEW r \in Reviews, NEW t \in Ticket, NEW v \in Revisions, SetReviewRevision(r, t, v)
      PROVE  [Promise!Next]_(Promise!dvars)
  <2>1. [rev[r] EXCEPT !.head = v].status = rev[r].status
    BY <1>0 DEF ReviewRow
  <2> QED  BY <1>1, <1>8, <2>1 DEF SetReviewRevision, HoldsReview, Terminal
<1>9. ASSUME NEW r \in Reviews, NEW t \in Ticket, FinishReviewReconciliationRequired(r, t)
      PROVE  [Promise!Next]_(Promise!dvars)
  <2>1. [rev[r] EXCEPT !.status = "reconciliation_required", !.owner = NoProc].status = "reconciliation_required"
    BY <1>0 DEF ReviewRow
  <2> QED  BY <1>1, <1>9, <2>1 DEF FinishReviewReconciliationRequired, HoldsReview, Terminal
<1>10. ASSUME NEW r \in Reviews, NEW t \in Ticket, RequeueReview(r, t)
       PROVE  [Promise!Next]_(Promise!dvars)
  <2>1. [rev[r] EXCEPT !.status = "queued", !.owner = NoProc].status = "queued"
    BY <1>0 DEF ReviewRow
  <2> DEFINE row == [rev[r] EXCEPT !.status = "queued", !.owner = NoProc]
  <2>2. SetRow(r, row) /\ row.status \notin Terminal /\ rev[r].status \notin Terminal
    BY <1>10, <2>1 DEF RequeueReview, HoldsReview, Terminal
  <2> HIDE DEF row
  <2>4. \A q \in Reviews : rev'[q].status = rev[q].status
                           \/ (rev'[q].status \notin Terminal /\ rev[q].status \notin Terminal)
    BY <2>2, RowWritten
  <2>3. \A q \in Reviews, k \in Items : pub'[q][k].status = pub[q][k].status
    BY <1>10, RequeueKeeps
  <2> QED  BY <2>3, <2>4, Stutters
<1>11. ASSUME NEW r \in Reviews, NEW k \in Items, NEW row, SetPub(r, k, row), UNCHANGED rev,
              row.status = pub[r][k].status \/ (row.status \in Uncertain /\ pub[r][k].status \in Uncertain)
       PROVE  [Promise!Next]_(Promise!dvars)
  <2>1. \A q \in Reviews, i \in Items : pub'[q][i].status = pub[q][i].status
                                        \/ (pub'[q][i].status \in Uncertain /\ pub[q][i].status \in Uncertain)
    BY <1>11, PubWritten
  <2> QED  BY <1>11, <2>1, Stutters
<1>12. ASSUME NEW r \in Reviews, NEW t \in Ticket, NEW k \in Items,
              \/ ClaimPending(r, k, t) \/ ExpireSend(r, k, t) \/ MarkPublicationReconciliationRequired(r, k, t)
       PROVE  [Promise!Next]_(Promise!dvars)
  <2>1. CASE ClaimPending(r, k, t)
    <3>1. Owned("pending", t).status = "pending"
      BY DEF Owned
    <3> QED  BY <1>11, <2>1, <3>1 DEF ClaimPending
  <2> DEFINE row == Unowned("reconciliation_required")
  <2>2. row.status = "reconciliation_required" /\ row.status \in Uncertain
    BY DEF Unowned, Uncertain
  <2> HIDE DEF row
  <2>3. CASE ExpireSend(r, k, t)
    <3>1. SetPub(r, k, row) /\ UNCHANGED rev /\ pub[r][k].status \in Uncertain
      BY <2>3 DEF ExpireSend, row, Uncertain
    <3> QED  BY <1>11, <2>2, <3>1
  <2>4. CASE MarkPublicationReconciliationRequired(r, k, t)
    <3>1. SetPub(r, k, row) /\ UNCHANGED rev
      BY <2>4 DEF MarkPublicationReconciliationRequired, row
    <3>2. pub'[r][k].status = "reconciliation_required"
      BY <2>2, <3>1, PubWritten
    <3>3. pub[r][k].status \in Uncertain
      BY <3>2 DEF Careful
    <3> QED  BY <1>11, <2>2, <3>1, <3>3
  <2> QED  BY <1>12, <2>1, <2>3, <2>4
<1> QED  BY <1>3, <1>4, <1>5, <1>6, <1>7, <1>8, <1>9, <1>10, <1>12 DEF QueueStep

(***************************************************************************)
(* The steps it sees.                                                      *)
(***************************************************************************)
LEMMA ViewTypes ==
  ASSUME Inv
  PROVE  /\ Outcomes \in [Reviews -> {"open", "done", "failed"}]
         /\ Marks \in [Reviews -> [Items -> {"absent", "planned", "maybe", "yes"}]]
         /\ Shown \in [Reviews -> [Items -> Nat]]
<1>1. Outcomes \in [Reviews -> {"open", "done", "failed"}]
  BY OutcomeSeen DEF OutcomeOf, Terminal
<1>2. \A s : MarkOf(s) \in {"absent", "planned", "maybe", "yes"}
  BY DEF MarkOf
<1>3. Marks \in [Reviews -> [Items -> {"absent", "planned", "maybe", "yes"}]]
  BY <1>2, MarkSeen
<1>4. Shown \in [Reviews -> [Items -> Nat]]
  BY DEF Shown, Inv, Tables
<1> QED  BY <1>1, <1>3, <1>4

(* One cell, or one row, of a table of tables.                             *)
LEMMA CellWritten ==
  ASSUME NEW R, NEW I, NEW V, NEW f \in [R -> [I -> V]], NEW g \in [R -> [I -> V]],
         NEW r \in R, NEW k \in I, NEW v,
         \A q \in R, i \in I : g[q][i] = IF q = r /\ i = k THEN v ELSE f[q][i]
  PROVE  g = [f EXCEPT ![r][k] = v]
<1> DEFINE h == [f EXCEPT ![r][k] = v]
<1>1. h[r] = [f[r] EXCEPT ![k] = v] /\ \A q \in R : q # r => h[q] = f[q]
  OBVIOUS
<1>2. h = [q \in R |-> h[q]] /\ g = [q \in R |-> g[q]]
  OBVIOUS
<1>3. g[r] = [i \in I |-> g[r][i]] /\ f[r] = [i \in I |-> f[r][i]]
  OBVIOUS
<1>4. g[r] = [f[r] EXCEPT ![k] = v]
  BY <1>3
<1>5. \A q \in R : q # r => g[q] = f[q]
  <2> SUFFICES ASSUME NEW q \in R, q # r PROVE g[q] = f[q]
    OBVIOUS
  <2>1. g[q] \in [I -> V] /\ f[q] \in [I -> V] /\ \A i \in I : g[q][i] = f[q][i]
    OBVIOUS
  <2> QED  BY <2>1
<1> HIDE DEF h
<1>6. \A q \in R : g[q] = h[q]
  BY <1>1, <1>4, <1>5
<1>7. g = h
  BY <1>2, <1>6
<1> QED  BY <1>7 DEF h

LEMMA LineWritten ==
  ASSUME NEW R, NEW I, NEW V, NEW f \in [R -> [I -> V]], NEW g \in [R -> [I -> V]],
         NEW r \in R, NEW row, g[r] = row,
         \A q \in R, i \in I : q # r => g[q][i] = f[q][i]
  PROVE  g = [f EXCEPT ![r] = row]
<1>1. \A q \in R : q # r => g[q] = f[q]
  <2> SUFFICES ASSUME NEW q \in R, q # r PROVE g[q] = f[q]
    OBVIOUS
  <2>1. g[q] \in [I -> V] /\ f[q] \in [I -> V] /\ \A i \in I : g[q][i] = f[q][i]
    OBVIOUS
  <2> QED  BY <2>1
<1> QED  BY <1>1

LEMMA ViewTypesNow ==
  Inv => /\ Marks \in [Reviews -> [Items -> {"absent", "planned", "maybe", "yes"}]]
         /\ Shown \in [Reviews -> [Items -> Nat]]
BY ViewTypes

LEMMA ViewTypesNext ==
  Inv' => /\ Marks' \in [Reviews -> [Items -> {"absent", "planned", "maybe", "yes"}]]
          /\ Shown' \in [Reviews -> [Items -> Nat]]
<1>1. Inv' => (/\ Marks \in [Reviews -> [Items -> {"absent", "planned", "maybe", "yes"}]]
               /\ Shown \in [Reviews -> [Items -> Nat]])'
  BY ViewTypesNow, PTL
<1> QED  BY <1>1

LEMMA AsPlan ==
  ASSUME NEW r \in Reviews, NEW n \in Items, Outcomes[r] = "open",
         \A k \in Items : Marks[r][k] = "absent",
         Marks' = [Marks EXCEPT ![r] = [k \in Items |-> IF k <= n THEN "planned" ELSE "absent"]],
         UNCHANGED <<Outcomes, Shown>>
  PROVE  Promise!Next
BY DEF Promise!Next, Promise!Plan, Promise!Items, Items, Outcomes, Marks, Shown

LEMMA AsSubmit ==
  ASSUME NEW r \in Reviews, NEW k \in Items, Outcomes[r] = "open",
         Marks[r][k] = "planned", \A j \in 0 .. k - 1 : Marks[r][j] = "yes",
         Marks' = [Marks EXCEPT ![r][k] = "maybe"], UNCHANGED <<Outcomes, Shown>>
  PROVE  Promise!Next
BY DEF Promise!Next, Promise!Submit, Promise!Items, Items, Outcomes, Marks, Shown

LEMMA AsConfirm ==
  ASSUME NEW r \in Reviews, NEW k \in Items, Outcomes[r] = "open",
         Marks[r][k] = "maybe", Shown[r][k] = 1,
         Marks' = [Marks EXCEPT ![r][k] = "yes"], UNCHANGED <<Outcomes, Shown>>
  PROVE  Promise!Next
BY DEF Promise!Next, Promise!Confirm, Promise!Items, Items, Outcomes, Marks, Shown

LEMMA AsAppear ==
  ASSUME NEW r \in Reviews, NEW k \in Items, Marks[r][k] = "maybe", Shown[r][k] = 0,
         Shown' = [Shown EXCEPT ![r][k] = 1], UNCHANGED <<Outcomes, Marks>>
  PROVE  Promise!Next
BY DEF Promise!Next, Promise!Appear, Promise!Items, Items, Outcomes, Marks, Shown

LEMMA AsComplete ==
  ASSUME NEW r \in Reviews, Outcomes[r] = "open", Marks[r][0] = "yes",
         \A k \in Items : Marks[r][k] \in {"absent", "yes"},
         Outcomes' = [Outcomes EXCEPT ![r] = "done"], UNCHANGED <<Marks, Shown>>
  PROVE  Promise!Next
BY DEF Promise!Next, Promise!Complete, Promise!Items, Items, Outcomes, Marks, Shown

LEMMA AsGiveUp ==
  ASSUME NEW r \in Reviews, Outcomes[r] = "open",
         Outcomes' = [Outcomes EXCEPT ![r] = "failed"], UNCHANGED <<Marks, Shown>>
  PROVE  Promise!Next
BY DEF Promise!Next, Promise!GiveUp, Promise!Items, Items, Outcomes, Marks, Shown

LEMMA PlanStep ==
  ASSUME Inv, Inv', LandedSame, NEW r \in Reviews, NEW t \in Ticket, NEW n \in Items, NEW v \in Revisions,
         PrepareReviewPublication(r, t, n, v)
  PROVE  [Promise!Next]_(Promise!dvars)
<1>1. rev[r].status = "running" /\ SetRow(r, [rev[r] EXCEPT !.commit = v])
  BY DEF PrepareReviewPublication, HoldsReview
<1>2. rev[r] \in ReviewRow
  BY DEF Inv, Tables, TypeOK
<1>3. [rev[r] EXCEPT !.commit = v].status = rev[r].status
  BY <1>2 DEF ReviewRow
<1>4. \A q \in Reviews : rev'[q].status = rev[q].status
  BY <1>1, <1>3, RowWritten
<1>5. Outcomes' = Outcomes
  BY <1>4 DEF Outcomes, Outcome
<1>6. Outcomes[r] = "open"
  BY <1>1, OutcomeSeen DEF OutcomeOf, Terminal
<1>7. \A k \in Items : pub[r][k].status = "none"
  <2>1. pub[r][0].status = "none" /\ 0 \in Items
    BY StoreAssumption DEF PrepareReviewPublication, Prepared, Items
  <2>2. \A k \in Items : k = 0 \/ 0 < k
    BY StoreAssumption DEF Items
  <2> QED  BY <2>1, <2>2 DEF Inv, PlanWhole
<1>8. \A k \in Items : Marks[r][k] = "absent"
  BY <1>7, MarkSeen DEF MarkOf
<1>9. /\ pub'[r] = [k \in Items |-> IF k <= n THEN Unowned("pending") ELSE Absent]
      /\ \A q \in Reviews : q # r => pub'[q] = pub[q]
  BY DEF PrepareReviewPublication, Inv, Tables, TypeOK
<1>10. \A k \in Items : pub'[r][k].status = IF k <= n THEN "pending" ELSE "none"
  BY <1>9 DEF Unowned, Absent
<1>11. Marks' = [q \in Reviews |-> [k \in Items |-> MarkOf(pub'[q][k].status)]]
  BY MarkSeenNext
<1>12. \A k \in Items : MarkOf(pub'[r][k].status) = IF k <= n THEN "planned" ELSE "absent"
  BY <1>10 DEF MarkOf
<1>13. Marks' = [Marks EXCEPT ![r] = [k \in Items |-> IF k <= n THEN "planned" ELSE "absent"]]
  <2>1. Marks'[r] = [k \in Items |-> IF k <= n THEN "planned" ELSE "absent"]
    BY <1>11, <1>12
  <2>2. \A q \in Reviews, k \in Items : q # r => Marks'[q][k] = Marks[q][k]
    BY <1>9, <1>11, MarkSeen
  <2> DEFINE row == [k \in Items |-> IF k <= n THEN "planned" ELSE "absent"]
  <2>3. Marks'[r] = row
    BY <2>1
  <2> HIDE DEF row
  <2>4. Marks' = [Marks EXCEPT ![r] = row]
    BY <2>2, <2>3, ViewTypes, ViewTypesNext, LineWritten
  <2> QED  BY <2>4 DEF row
<1>14. Shown' = Shown
  BY DEF Shown, LandedSame
<1> QED  BY <1>5, <1>6, <1>8, <1>13, <1>14, AsPlan

(* One mark changes.                                                       *)
LEMMA MarkWritten ==
  ASSUME Inv, Inv', NEW r \in Reviews, NEW k \in Items, NEW row, SetPub(r, k, row)
  PROVE  Marks' = [Marks EXCEPT ![r][k] = MarkOf(row.status)]
<1>1. pub'[r][k] = row /\ \A q \in Reviews, i \in Items : q # r \/ i # k => pub'[q][i] = pub[q][i]
  BY PubWritten
<1>2. Marks = [q \in Reviews |-> [i \in Items |-> MarkOf(pub[q][i].status)]]
  BY MarkSeen
<1>3. Marks' = [q \in Reviews |-> [i \in Items |-> MarkOf(pub'[q][i].status)]]
  BY MarkSeenNext
<1>4. \A q \in Reviews, i \in Items :
        Marks'[q][i] = IF q = r /\ i = k THEN MarkOf(row.status) ELSE Marks[q][i]
  BY <1>1, <1>2, <1>3
<1> QED  BY <1>4, ViewTypes, ViewTypesNext, CellWritten

LEMMA SubmitStep ==
  ASSUME Inv, Inv', LandedSame, Careful, NEW r \in Reviews, NEW k \in Items, NEW t \in Ticket,
         BeginPublicationSend(r, k, t)
  PROVE  [Promise!Next]_(Promise!dvars)
<1>1. rev[r].status = "running" /\ rev' = rev /\ pub[r][k].status = "pending"
      /\ SetPub(r, k, Owned("sending", t))
  BY DEF BeginPublicationSend, HoldsReview, Owned
<1>2. Owned("sending", t).status = "sending" /\ MarkOf("sending") = "maybe"
  BY DEF Owned, MarkOf
<1>3. Marks' = [Marks EXCEPT ![r][k] = "maybe"]
  BY <1>1, <1>2, MarkWritten
<1>4. Outcomes' = Outcomes
  BY <1>1 DEF Outcomes, Outcome
<1>5. Outcomes[r] = "open"
  BY <1>1, OutcomeSeen DEF OutcomeOf, Terminal
<1>6. Marks[r][k] = "planned"
  BY <1>1, MarkSeen DEF MarkOf
<1>7. pub'[r][k].status = "sending"
  BY <1>1, <1>2, PubWritten
<1>8. \A i \in Items : i < k => pub[r][i].status = "posted"
  BY <1>1, <1>7 DEF Careful
<1>9. \A j \in 0 .. k - 1 : j \in Items /\ j < k
  BY StoreAssumption DEF Items
<1>10. \A j \in 0 .. k - 1 : Marks[r][j] = "yes"
  BY <1>8, <1>9, MarkSeen DEF MarkOf
<1>11. Shown' = Shown
  BY DEF Shown, LandedSame
<1> QED  BY <1>3, <1>4, <1>5, <1>6, <1>10, <1>11, AsSubmit

LEMMA ConfirmStep ==
  ASSUME Inv, Inv', LandedSame, Careful, NEW r \in Reviews, NEW k \in Items, NEW t \in Ticket,
         MarkPublicationPosted(r, k, t)
  PROVE  [Promise!Next]_(Promise!dvars)
<1>1. rev[r].status = "running" /\ rev' = rev /\ SetPub(r, k, Unowned("posted")) /\ pub[r][k].status # "posted"
  BY DEF MarkPublicationPosted, HoldsReview, Owned
<1>2. Unowned("posted").status = "posted" /\ MarkOf("posted") = "yes"
  BY DEF Unowned, MarkOf
<1>3. Marks' = [Marks EXCEPT ![r][k] = "yes"]
  BY <1>1, <1>2, MarkWritten
<1>4. Outcomes' = Outcomes
  BY <1>1 DEF Outcomes, Outcome
<1>5. Outcomes[r] = "open"
  BY <1>1, OutcomeSeen DEF OutcomeOf, Terminal
<1>6. pub'[r][k].status = "posted"
  BY <1>1, <1>2, PubWritten
<1>7. pub[r][k].status \in Uncertain /\ remote[r][k].landed > 0
  BY <1>1, <1>6 DEF Careful
<1>8. Marks[r][k] = "maybe"
  BY <1>7, MarkSeen DEF MarkOf, Uncertain
<1>9. Shown[r][k] = 1
  <2>1. remote[r][k] \in [flying : Nat, landed : Nat]
    BY DEF Inv, Tables
  <2>2. remote[r][k].landed = 1
    BY <1>7, <2>1 DEF Inv, Sends, AtMostOneComment
  <2> QED  BY <2>2 DEF Shown
<1>10. Shown' = Shown
  BY DEF Shown, LandedSame
<1> QED  BY <1>3, <1>4, <1>5, <1>8, <1>9, <1>10, AsConfirm

LEMMA OutcomeStep ==
  ASSUME Inv, Inv', LandedSame, NEW r \in Reviews, NEW t \in Ticket,
         FinishReviewDone(r, t) \/ FinishReviewFailed(r, t)
  PROVE  [Promise!Next]_(Promise!dvars)
<1>1. rev[r].status = "running" /\ pub' = pub
  BY DEF FinishReviewDone, FinishReviewFailed, HoldsReview
<1>2. rev[r] \in ReviewRow
  BY DEF Inv, Tables, TypeOK
<1>3. Outcomes[r] = "open"
  BY <1>1, OutcomeSeen DEF OutcomeOf, Terminal
<1>4. Shown' = Shown
  BY DEF Shown, LandedSame
<1>5. Marks' = Marks
  BY <1>1, MarkSeen, MarkSeenNext
<1>6. ASSUME NEW s \in Terminal, SetRow(r, [rev[r] EXCEPT !.status = s])
      PROVE  Outcomes' = [Outcomes EXCEPT ![r] = s]
  <2>1. [rev[r] EXCEPT !.status = s].status = s
    BY <1>2 DEF ReviewRow
  <2>2. rev'[r].status = s /\ \A q \in Reviews : q # r => rev'[q] = rev[q]
    BY <1>6, <2>1, RowWritten
  <2>3. Outcomes' = [q \in Reviews |-> OutcomeOf(rev'[q].status)]
    BY DEF Outcomes, Outcome, OutcomeOf
  <2>4. OutcomeOf(s) = s
    BY DEF OutcomeOf
  <2> QED  BY <2>2, <2>3, <2>4, OutcomeSeen
<1>7. CASE FinishReviewFailed(r, t)
  <2>1. Outcomes' = [Outcomes EXCEPT ![r] = "failed"]
    BY <1>6, <1>7 DEF FinishReviewFailed, Terminal
  <2> QED  BY <1>3, <1>4, <1>5, <2>1, AsGiveUp
<1>8. CASE FinishReviewDone(r, t)
  <2>1. Outcomes' = [Outcomes EXCEPT ![r] = "done"]
    BY <1>6, <1>8 DEF FinishReviewDone, Terminal
  <2>2. pub[r][0].status = "posted" /\ \A k \in Items : pub[r][k].status \in {"none", "posted"}
    BY <1>8 DEF FinishReviewDone, AllPosted
  <2>3. 0 \in Items
    BY StoreAssumption DEF Items
  <2>4. Marks[r][0] = "yes" /\ \A k \in Items : Marks[r][k] \in {"absent", "yes"}
    BY <2>2, <2>3, MarkSeen DEF MarkOf
  <2> QED  BY <1>3, <1>4, <1>5, <2>1, <2>4, AsComplete
<1> QED  BY <1>7, <1>8

LEMMA AppearStep ==
  ASSUME Inv, Inv', UNCHANGED vars, NEW r \in Reviews, NEW k \in Items, CommentAppears(r, k),
         remote[r][k].landed = 0, pub[r][k].status \in Uncertain
  PROVE  [Promise!Next]_(Promise!dvars)
<1>1. rev' = rev /\ pub' = pub
  BY DEF vars
<1>2. Outcomes' = Outcomes
  BY <1>1 DEF Outcomes, Outcome
<1>3. Marks' = Marks
  BY <1>1, MarkSeen, MarkSeenNext
<1>4. Marks[r][k] = "maybe" /\ Shown[r][k] = 0
  BY MarkSeen DEF MarkOf, Uncertain, Shown
<1>5. remote \in [Reviews -> [Items -> [flying : Nat, landed : Nat]]]
  BY DEF Inv, Tables
<1> DEFINE row == [flying |-> remote[r][k].flying - 1, landed |-> remote[r][k].landed + 1]
<1>6. remote' = [remote EXCEPT ![r][k] = row] /\ row.landed = 1
  BY DEF CommentAppears
<1> HIDE DEF row
<1>7. \A q \in Reviews, i \in Items :
        remote'[q][i].landed = IF q = r /\ i = k THEN 1 ELSE remote[q][i].landed
  BY <1>5, <1>6
<1>8. \A q \in Reviews, i \in Items : Shown'[q][i] = IF q = r /\ i = k THEN 1 ELSE Shown[q][i]
  BY <1>7 DEF Shown
<1>9. Shown' = [Shown EXCEPT ![r][k] = 1]
  BY <1>8, ViewTypes, ViewTypesNext, CellWritten
<1> QED  BY <1>2, <1>3, <1>4, <1>9, AsAppear

LEMMA PromiseStep ==
  ASSUME Inv, Sound
  PROVE  [Promise!Next]_(Promise!dvars)
<1>1. Inv' /\ [Next]_vars /\ Careful /\ Shows
  BY DEF Sound
<1>2. ASSUME UNCHANGED vars, NEW r \in Reviews, NEW k \in Items, CommentAppears(r, k),
             remote[r][k].landed = 0, pub[r][k].status \in Uncertain
      PROVE  [Promise!Next]_(Promise!dvars)
  BY <1>1, <1>2, AppearStep
<1>3. ASSUME LandedSame PROVE [Promise!Next]_(Promise!dvars)
  <2>1. ASSUME NEW r \in Reviews, NEW t \in Ticket, NEW n \in Items, NEW v \in Revisions,
               PrepareReviewPublication(r, t, n, v)
        PROVE  [Promise!Next]_(Promise!dvars)
    BY <1>1, <1>3, <2>1, PlanStep
  <2>2. ASSUME NEW r \in Reviews, NEW t \in Ticket, NEW k \in Items,
               BeginPublicationSend(r, k, t) \/ MarkPublicationPosted(r, k, t)
        PROVE  [Promise!Next]_(Promise!dvars)
    BY <1>1, <1>3, <2>2, SubmitStep, ConfirmStep
  <2>3. ASSUME NEW r \in Reviews, NEW t \in Ticket, FinishReviewDone(r, t) \/ FinishReviewFailed(r, t)
        PROVE  [Promise!Next]_(Promise!dvars)
    BY <1>1, <1>3, <2>3, OutcomeStep
  <2>4. ASSUME \/ LeaseStep \/ QueueStep \/ UNCHANGED vars
               \/ \E r \in Reviews, k \in Items : HandoffElapses(r, k)
               \/ \E r \in Reviews, t \in Ticket :
                    \/ \E v \in Revisions : SetReviewRevision(r, t, v)
                    \/ FinishReviewReconciliationRequired(r, t) \/ RequeueReview(r, t)
                    \/ \E k \in Items : \/ ClaimPending(r, k, t) \/ ExpireSend(r, k, t)
                                        \/ MarkPublicationReconciliationRequired(r, k, t)
        PROVE  [Promise!Next]_(Promise!dvars)
    BY <1>1, <1>3, <2>4, HiddenStep
  <2> QED  BY <1>1, <2>1, <2>2, <2>3, <2>4 DEF Next, OutboxStep, FinishStep, Items
<1> QED  BY <1>1, <1>2, <1>3 DEF Shows

(* What Delivery promises a reader of the pull request is kept by the      *)
(* engine and its store through every crash, takeover, lost reply, late    *)
(* request and retry: comments appear at most once and in order, nothing   *)
(* is believed to have appeared that has not, and a review is done only    *)
(* when all of it has.                                                     *)
THEOREM DeliveryImplemented == EngineSpec => ImplementsDelivery
<1>1. EngineInit => Promise!Init
  <2> SUFFICES ASSUME EngineInit PROVE Promise!Init
    OBVIOUS
  <2>1. \A r \in Reviews : rev[r].status = "none"
    BY DEF EngineInit, Init
  <2>2. \A r \in Reviews, k \in Items : pub[r][k].status = "none"
    BY DEF EngineInit, Init, Absent
  <2>3. \A r \in Reviews, k \in Items : remote[r][k].landed = 0
    BY DEF EngineInit
  <2>4. Outcomes = [r \in Reviews |-> "open"]
    BY <2>1 DEF Outcomes, Outcome, Terminal
  <2>5. Marks = [r \in Reviews |-> [k \in Items |-> "absent"]]
    BY <2>2, InitSound, MarkSeen DEF MarkOf
  <2>6. Shown = [r \in Reviews |-> [k \in Items |-> 0]]
    BY <2>3 DEF Shown
  <2> QED  BY <2>4, <2>5, <2>6 DEF Promise!Init, Promise!Items, Items, Outcomes, Marks, Shown
<1>2. Inv /\ [EngineNext]_allVars => [Promise!Next]_(Promise!dvars)
  BY EverySound, PromiseStep
<1>3. [Promise!Next]_(Promise!dvars) => [Promise!Visible => Promise!Next]_(Promise!dvars)
  OBVIOUS
<1> QED  BY <1>1, <1>2, <1>3, InvAlways, PTL DEF EngineSpec, ImplementsDelivery, Promise!Spec

(***************************************************************************)
(* What an execution knows of the effects in its outbox.  A worker whose   *)
(* ticket is the number of the row's current execution is alone with it,   *)
(* and nobody else announces a comment there meanwhile; an execution that  *)
(* found no plan therefore knows every effect there can be, which are its  *)
(* own.                                                                    *)
(***************************************************************************)

Busy(j) == j.pc \notin AtRest
Mine(j) == Busy(j) /\ rev[j.r].status = "running" /\ rev[j.r].gen = j.gen

MineNext(j) == Busy(j) /\ rev'[j.r].status = "running" /\ rev'[j.r].gen = j.gen
Left(r)     == {k \in Items : pub'[r][k].status \in Uncertain}

Before == {"claimed", "recording", "acking", "planned", "publishing"}
Early  == {"listing", "files", "rechecking", "diff", "agent", "finalcheck", "preparing"}
OnWay  == {"sending", "posting", "awaiting", "marking"}
Later  == {"resuming", "settling", "reconciling"}

Accounted(j, U) ==
  \/ U = {}
  \/ j.err \cap {"reconcile", "lost"} # {}
  \/ j.prep

(* What is known where a worker stands.                                    *)
Stands(pc, prep, k, U) ==
  /\ pc \in Before  => prep \/ U = {}
  /\ pc \in Early   => ~prep /\ U = {}
  /\ pc \in Heading => U = {}
  /\ pc \in OnWay   => U \subseteq {k}
  /\ pc \in Later   => prep

Known(j, U) ==
  /\ Stands(j.pc, j.prep, j.k, U)
  /\ j.pc = "failing" => Accounted(j, U)

Tickets == \A w \in Workers : Busy(wk[w]) => wk[w].gen <= rev[wk[w].r].gen

Distinct ==
  \A v, w \in Workers :
    Busy(wk[v]) /\ Busy(wk[w]) /\ wk[v].r = wk[w].r /\ wk[v].gen = wk[w].gen => v = w

InOrder ==
  \A r \in Reviews, i, k \in Items :
    pub[r][k].status \in Uncertain \cup {"posted"} /\ i < k => pub[r][i].status = "posted"

Accounts == \A w \in Workers : Mine(wk[w]) => Known(wk[w], Unsettled(wk[w].r))

Books == Tickets /\ Distinct /\ InOrder /\ Accounts

(* Fewer effects are as well known.                                        *)
LEMMA KnownLess ==
  ASSUME NEW j, NEW U, NEW V \in SUBSET U, Known(j, U)
  PROVE  Known(j, V)
BY DEF Known, Stands, Accounted

LEMMA Places ==
  \A pc \in Before \cup Early \cup Heading \cup OnWay \cup Later :
     pc \notin AtRest /\ pc # "failing" /\ pc # "uncertain" /\ pc \in PCs
BY DEF Before, Early, Heading, OnWay, Later, AtRest, PCs, RaisePoints, MarkerPoints, SendPoints,
       DropPoints

LEMMA InOrderStep ==
  ASSUME Inv, InOrder, Sound
  PROVE  InOrder'
<1>1. NoRewind /\ Careful
  BY StoreKeeps DEF Sound
<1>2. SUFFICES ASSUME NEW r \in Reviews, NEW i \in Items, NEW k \in Items,
                      pub'[r][k].status \in Uncertain \cup {"posted"}, i < k
               PROVE  pub'[r][i].status = "posted"
  BY DEF InOrder
<1>3. pub[r][i].status = "posted"
  <2>1. CASE pub[r][k].status \in Uncertain \cup {"posted"}
    BY <1>2, <2>1 DEF InOrder
  <2>2. CASE pub[r][k].status \notin Uncertain \cup {"posted"}
    BY <1>1, <1>2, <2>2 DEF Careful, Uncertain
  <2> QED  BY <2>1, <2>2
<1> QED  BY <1>1, <1>3 DEF NoRewind

(* The numbers of executions are numbers.                                  *)
LEMMA Numbers ==
  ASSUME Inv, Inv', NEW v \in Workers, Busy(wk[v])
  PROVE  wk[v].r \in Reviews /\ wk[v].gen \in Nat /\ rev[wk[v].r].gen \in Nat /\ rev'[wk[v].r].gen \in Nat
<1>1. wk[v].r \in Reviews
  BY Holding DEF Busy
<1>2. wk[v].gen \in Nat
  BY Fitting DEF WorkerRow
<1>3. rev[wk[v].r] \in ReviewRow /\ rev'[wk[v].r] \in ReviewRow
  BY <1>1 DEF Inv, Tables, TypeOK
<1> QED  BY <1>1, <1>2, <1>3 DEF ReviewRow

(* Where no worker takes on a review, the books are kept if each worker    *)
(* that is still at its own knows what is left of its effects.             *)
LEMMA KeptBooks ==
  ASSUME Inv, Books, Sound,
         \A v \in Workers : Busy(wk'[v]) => Busy(wk[v]) /\ wk'[v].r = wk[v].r /\ wk'[v].gen = wk[v].gen,
         \A v \in Workers : Busy(wk'[v]) /\ Mine(wk[v]) => Known(wk'[v], Left(wk[v].r))
  PROVE  Books'
<1>1. KeepsRuns /\ KeepsPull
  BY KeepsRunsStep, StoreKeeps DEF Sound, Inv, Tables
<1>2. \A v \in Workers : Busy(wk[v]) =>
        wk[v].r \in Reviews /\ wk[v].gen \in Nat /\ rev[wk[v].r].gen \in Nat /\ rev'[wk[v].r].gen \in Nat
  BY Numbers DEF Sound
<1>3. Tickets'
  <2> SUFFICES ASSUME NEW v \in Workers, Busy(wk'[v]) PROVE wk'[v].gen <= rev'[wk'[v].r].gen
    BY DEF Tickets, Busy
  <2>1. Busy(wk[v]) /\ wk'[v].r = wk[v].r /\ wk'[v].gen = wk[v].gen
    OBVIOUS
  <2>2. wk[v].gen <= rev[wk[v].r].gen /\ rev'[wk[v].r].gen >= rev[wk[v].r].gen
    BY <1>1, <1>2, <2>1 DEF Books, Tickets, KeepsRuns
  <2> QED  BY <1>2, <2>1, <2>2
<1>4. Distinct'
  <2> SUFFICES ASSUME NEW u \in Workers, NEW v \in Workers, Busy(wk'[u]), Busy(wk'[v]),
                      wk'[u].r = wk'[v].r, wk'[u].gen = wk'[v].gen
               PROVE  u = v
    BY DEF Distinct, Busy
  <2> QED  BY DEF Books, Distinct
<1>5. InOrder'
  BY InOrderStep DEF Books
<1>6. Accounts'
  <2> SUFFICES ASSUME NEW v \in Workers, MineNext(wk'[v]) PROVE Known(wk'[v], Left(wk'[v].r))
    BY DEF Accounts, Mine, MineNext, Busy, Known, Stands, Accounted, Unsettled, Left
  <2>1. Busy(wk'[v]) /\ Busy(wk[v]) /\ wk'[v].r = wk[v].r /\ wk'[v].gen = wk[v].gen
    BY DEF MineNext
  <2>2. wk[v].gen <= rev[wk[v].r].gen /\ rev'[wk[v].r].gen >= rev[wk[v].r].gen
    BY <1>1, <1>2, <2>1 DEF Books, Tickets, KeepsRuns
  <2>3. rev'[wk[v].r].gen = wk[v].gen /\ rev'[wk[v].r].status = "running"
    BY <2>1 DEF MineNext
  <2>4. rev[wk[v].r].gen = wk[v].gen
    BY <1>2, <2>1, <2>2, <2>3
  <2>5. rev[wk[v].r].status = "running"
    BY <1>1, <1>2, <2>1, <2>3, <2>4 DEF KeepsRuns
  <2> QED  BY <2>1, <2>4, <2>5 DEF Mine
<1> QED  BY <1>3, <1>4, <1>5, <1>6 DEF Books

(* A worker alone with its execution knows what the others leave of its    *)
(* effects as well as before.                                              *)
LEMMA StillKnown ==
  ASSUME Inv, Books, NEW v \in Workers, Mine(wk[v]),
         NEW w \in Workers, v # w,
         \A r \in Reviews : Left(r) \subseteq Unsettled(r) \/ (Mine(wk[w]) /\ r = wk[w].r)
  PROVE  Known(wk[v], Left(wk[v].r))
<1>1. Known(wk[v], Unsettled(wk[v].r)) /\ wk[v].r \in Reviews
  BY Holding DEF Books, Accounts, Mine, Busy
<1>2. ASSUME Mine(wk[w]), wk[v].r = wk[w].r PROVE FALSE
  BY <1>2 DEF Books, Distinct, Mine
<1>3. Left(wk[v].r) \in SUBSET Unsettled(wk[v].r)
  BY <1>1, <1>2
<1> QED  BY <1>1, <1>3, KnownLess

LEMMA TendBooks ==
  ASSUME Inv, Books, Sound, NEW w \in Workers, NEW new, wk' = [wk EXCEPT ![w] = new],
         Busy(new) => Busy(wk[w]) /\ new.r = wk[w].r /\ new.gen = wk[w].gen,
         Busy(new) /\ Mine(wk[w]) => Known(new, Left(wk[w].r)),
         \A r \in Reviews : Left(r) \subseteq Unsettled(r) \/ (Mine(wk[w]) /\ r = wk[w].r)
  PROVE  Books'
<1>1. wk'[w] = new /\ \A v \in Workers : v # w => wk'[v] = wk[v]
  BY DEF Inv, Tables
<1>2. \A v \in Workers : Busy(wk'[v]) => Busy(wk[v]) /\ wk'[v].r = wk[v].r /\ wk'[v].gen = wk[v].gen
  BY <1>1
<1>3. \A v \in Workers : Busy(wk'[v]) /\ Mine(wk[v]) => Known(wk'[v], Left(wk[v].r))
  BY <1>1, StillKnown
<1> QED  BY <1>2, <1>3, KeptBooks

(* Workers that come to rest, and rows that lose effects.                  *)
LEMMA RestBooks ==
  ASSUME Inv, Books, Sound,
         \A v \in Workers : wk'[v] = wk[v] \/ ~Busy(wk'[v]),
         \A r \in Reviews : Left(r) \subseteq Unsettled(r)
  PROVE  Books'
<1>1. \A v \in Workers : Busy(wk'[v]) => wk'[v] = wk[v]
  OBVIOUS
<1>2. \A v \in Workers : Busy(wk'[v]) /\ Mine(wk[v]) => Known(wk'[v], Left(wk[v].r))
  <2> SUFFICES ASSUME NEW v \in Workers, Busy(wk'[v]), Mine(wk[v]) PROVE Known(wk'[v], Left(wk[v].r))
    OBVIOUS
  <2>1. wk[v].r \in Reviews
    BY Holding DEF Mine, Busy
  <2>2. Known(wk[v], Unsettled(wk[v].r)) /\ Left(wk[v].r) \in SUBSET Unsettled(wk[v].r)
    BY <2>1 DEF Books, Accounts
  <2> QED  BY <1>1, <2>2, KnownLess
<1> QED  BY <1>1, <1>2, KeptBooks

LEMMA Fields ==
  ASSUME NEW j \in WorkerRow, NEW pc, NEW errs
  PROVE  /\ [j EXCEPT !.pc = pc].pc = pc /\ [j EXCEPT !.pc = pc].r = j.r /\ [j EXCEPT !.pc = pc].gen = j.gen
         /\ [j EXCEPT !.pc = pc].prep = j.prep /\ [j EXCEPT !.pc = pc].k = j.k
         /\ [j EXCEPT !.pc = pc, !.err = errs].pc = pc /\ [j EXCEPT !.pc = pc, !.err = errs].r = j.r
         /\ [j EXCEPT !.pc = pc, !.err = errs].gen = j.gen /\ [j EXCEPT !.pc = pc, !.err = errs].prep = j.prep
         /\ [j EXCEPT !.pc = pc, !.err = errs].err = errs
BY DEF WorkerRow

LEMMA LeftSame == UNCHANGED pub => \A r \in Reviews : Left(r) = Unsettled(r)
BY DEF Left, Unsettled

LEMMA LeftWrite ==
  ASSUME Inv, NEW r \in Reviews, NEW k \in Items, NEW row, SetPub(r, k, row),
         row.status \in Uncertain => pub[r][k].status \in Uncertain
  PROVE  \A q \in Reviews : Left(q) \subseteq Unsettled(q)
BY PubWritten DEF Left, Unsettled

(* A worker that moves on under its claim.                                 *)
LEMMA GoBooks ==
  ASSUME Inv, Books, Sound, NEW w \in Workers, NEW pc, Go(w, pc), Busy(wk[w]), pc # "failing",
         Mine(wk[w]) => Stands(pc, wk[w].prep, wk[w].k, Left(wk[w].r)),
         \A r \in Reviews : Left(r) \subseteq Unsettled(r) \/ (Mine(wk[w]) /\ r = wk[w].r)
  PROVE  Books'
<1> DEFINE new == [wk[w] EXCEPT !.pc = pc]
<1>1. wk[w] \in WorkerRow
  BY Fitting
<1>2. /\ new.pc = pc /\ new.r = wk[w].r /\ new.gen = wk[w].gen /\ new.prep = wk[w].prep
      /\ new.k = wk[w].k
  BY <1>1, Fields
<1>3. wk' = [wk EXCEPT ![w] = new]
  BY DEF Go
<1> HIDE DEF new
<1>4. Mine(wk[w]) => Known(new, Left(wk[w].r))
  BY <1>2 DEF Known
<1> QED  BY <1>2, <1>3, <1>4, TendBooks

LEMMA RaiseBooks ==
  ASSUME Inv, Books, Sound, NEW w \in Workers, NEW errs, Raise(w, errs), Busy(wk[w]),
         Mine(wk[w]) => \/ errs \cap {"reconcile", "lost"} # {} \/ Unsettled(wk[w].r) = {}
                        \/ wk[w].prep,
         \A r \in Reviews : Left(r) \subseteq Unsettled(r)
  PROVE  Books'
<1> DEFINE new == [wk[w] EXCEPT !.pc = "failing", !.err = errs]
<1>1. wk[w] \in WorkerRow /\ wk[w].r \in Reviews
  BY Fitting, Holding DEF Busy
<1>2. /\ new.pc = "failing" /\ new.r = wk[w].r /\ new.gen = wk[w].gen /\ new.prep = wk[w].prep
      /\ new.err = errs
  BY <1>1, Fields
<1>3. wk' = [wk EXCEPT ![w] = new]
  BY DEF Raise
<1> HIDE DEF new
<1>4. "failing" \notin Before \cup Early \cup Heading \cup OnWay \cup Later
  BY DEF Before, Early, Heading, OnWay, Later
<1>5. Mine(wk[w]) => Known(new, Left(wk[w].r))
  BY <1>1, <1>2, <1>4 DEF Known, Stands, Accounted
<1> QED  BY <1>2, <1>3, <1>4, <1>5, TendBooks

LEMMA DoubtBooks ==
  ASSUME Inv, Books, Sound, NEW w \in Workers, NEW errs, Doubt(w, errs), Busy(wk[w]),
         \A r \in Reviews : Left(r) \subseteq Unsettled(r)
  PROVE  Books'
<1> DEFINE new == [wk[w] EXCEPT !.pc = "uncertain", !.err = errs]
<1>1. wk[w] \in WorkerRow
  BY Fitting
<1>2. new.pc = "uncertain" /\ new.r = wk[w].r /\ new.gen = wk[w].gen /\ new.prep = wk[w].prep
  BY <1>1, Fields
<1>3. wk' = [wk EXCEPT ![w] = new]
  BY DEF Doubt
<1> HIDE DEF new
<1>4. "uncertain" \notin Before \cup Early \cup Heading \cup OnWay \cup Later /\ "uncertain" # "failing"
  BY DEF Before, Early, Heading, OnWay, Later
<1>5. Mine(wk[w]) => Known(new, Left(wk[w].r))
  BY <1>2, <1>4 DEF Known, Stands
<1> QED  BY <1>2, <1>3, <1>5, TendBooks

(* A worker that leaves a review to the row.                               *)
LEMMA LeaveBooks ==
  ASSUME Inv, Books, Sound, NEW w \in Workers, Leave(w),
         \A r \in Reviews : Left(r) \subseteq Unsettled(r)
  PROVE  Books'
<1>1. ~Busy(Resting("idle"))
  BY DEF Busy, Resting, AtRest
<1>2. \A v \in Workers : wk'[v] = wk[v] \/ wk'[v] = Resting("idle")
  BY DEF Leave, Inv, Tables
<1> QED  BY <1>1, <1>2, RestBooks

LEMMA FailsBooks ==
  ASSUME Inv, Books, Sound, NEW w \in Workers, NEW errs,
         Fails(w, errs) \/ (wk[w].pc \in DropPoints /\ Leave(w)),
         UNCHANGED vars
  PROVE  Books'
<1>1. \A r \in Reviews : Left(r) \subseteq Unsettled(r)
  BY LeftSame DEF vars
<1>2. CASE wk[w].pc \in RaisePoints /\ Raise(w, errs)
  <2>1. Busy(wk[w])
    BY <1>2 DEF Busy, RaisePoints, AtRest
  <2>2. wk[w].pc \in Before \cup Early \cup Heading \cup Later
    BY <1>2 DEF RaisePoints, Before, Early, Heading, Later
  <2>3. Mine(wk[w]) => Unsettled(wk[w].r) = {} \/ wk[w].prep
    BY <2>2 DEF Books, Accounts, Known, Stands
  <2> QED  BY <1>1, <1>2, <2>1, <2>3, RaiseBooks
<1>3. CASE wk[w].pc \in MarkerPoints /\ Raise(w, errs \cup {"reconcile"})
  <2>1. Busy(wk[w])
    BY <1>3 DEF Busy, MarkerPoints, AtRest
  <2>2. (errs \cup {"reconcile"}) \cap {"reconcile", "lost"} # {}
    OBVIOUS
  <2> QED  BY <1>1, <1>3, <2>1, <2>2, RaiseBooks
<1>4. CASE wk[w].pc \in SendPoints /\ Doubt(w, errs)
  <2>1. Busy(wk[w])
    BY <1>4 DEF Busy, SendPoints, AtRest
  <2> QED  BY <1>1, <1>4, <2>1, DoubtBooks
<1>5. CASE wk[w].pc \in DropPoints /\ Leave(w)
  BY <1>1, <1>5, LeaveBooks
<1> QED  BY <1>2, <1>3, <1>4, <1>5 DEF Fails

LEMMA CheckFailsBooks ==
  ASSUME Inv, Books, Sound, NEW w \in Workers, CheckFails(w)
  PROVE  Books'
BY FailsBooks DEF CheckFails

LEMMA TroubleBooks ==
  ASSUME Inv, Books, Sound, NEW w \in Workers, GithubFails(w) \/ DiskFails(w) \/ Deadline(w)
  PROVE  Books'
<1>0. UNCHANGED vars /\ \A r \in Reviews : Left(r) \subseteq Unsettled(r)
  BY LeftSame DEF GithubFails, DiskFails, Deadline, vars
<1>1. CASE GithubFails(w)
  BY <1>0, <1>1, FailsBooks DEF GithubFails
<1>2. CASE DiskFails(w)
  <2>1. CASE At(w, "uncertain") /\ Raise(w, wk[w].err \cup {"reconcile"})
    <3>1. Busy(wk[w])
      BY <2>1 DEF At, Busy, AtRest
    <3>2. (wk[w].err \cup {"reconcile"}) \cap {"reconcile", "lost"} # {}
      OBVIOUS
    <3> QED  BY <1>0, <2>1, <3>1, <3>2, RaiseBooks
  <2>2. CASE At(w, "recording") /\ Raise(w, {"hard"})
    <3>1. Busy(wk[w]) /\ wk[w].pc \in Before
      BY <2>2 DEF At, Busy, AtRest, Before
    <3>2. Mine(wk[w]) => wk[w].prep \/ Unsettled(wk[w].r) = {}
      BY <3>1 DEF Books, Accounts, Known, Stands
    <3> QED  BY <1>0, <2>2, <3>1, <3>2, RaiseBooks
  <2>3. CASE Leave(w)
    BY <1>0, <2>3, LeaveBooks
  <2> QED  BY <1>0, <1>2, <2>1, <2>2, <2>3, FailsBooks DEF DiskFails
<1>3. CASE Deadline(w)
  <2> DEFINE new == [wk[w] EXCEPT !.late = TRUE]
  <2>1. wk[w] \in WorkerRow
    BY Fitting
  <2>2. /\ new.pc = wk[w].pc /\ new.r = wk[w].r /\ new.gen = wk[w].gen /\ new.prep = wk[w].prep
        /\ new.k = wk[w].k /\ new.err = wk[w].err
    BY <2>1 DEF WorkerRow
  <2>3. wk' = [wk EXCEPT ![w] = new]
    BY <1>3 DEF Deadline
  <2> HIDE DEF new
  <2>5. \A r \in Reviews : Left(r) = Unsettled(r)
    BY <1>0, LeftSame DEF vars
  <2>6. Busy(new) => Busy(wk[w]) /\ wk[w].r \in Reviews
    BY <2>2, Holding DEF Busy
  <2>7. Busy(new) /\ Mine(wk[w]) => Known(new, Left(wk[w].r))
    BY <2>2, <2>5, <2>6 DEF Books, Accounts, Known, Accounted
  <2> QED  BY <2>2, <2>3, <2>5, <2>6, <2>7, TendBooks
<1> QED  BY <1>1, <1>2, <1>3

(* What a worker alone with its execution knows where it stands.           *)
LEMMA KnownNow ==
  ASSUME Books, NEW w \in Workers, Mine(wk[w])
  PROVE  Known(wk[w], Unsettled(wk[w].r))
BY DEF Books, Accounts

LEMMA Unmoved ==
  ASSUME UNCHANGED vars
  PROVE  \A r \in Reviews : Left(r) = Unsettled(r) /\ Left(r) \subseteq Unsettled(r)
BY LeftSame DEF vars

LEMMA VerifyBooks ==
  ASSUME Inv, Books, Sound, NEW w \in Workers, Verify(w)
  PROVE  Books'
<1>1. wk[w].pc = "claimed" /\ UNCHANGED vars
  BY DEF Verify, Check, At
<1>2. Busy(wk[w]) /\ "claimed" \in Before /\ wk[w].r \in Reviews
  BY <1>1, Holding DEF Busy, AtRest, Before
<1>3. Mine(wk[w]) => wk[w].prep \/ Unsettled(wk[w].r) = {}
  BY <1>1, <1>2, KnownNow DEF Known, Stands
<1>4. CASE ~eng[w[1]].entitled /\ Raise(w, {"access"})
  BY <1>1, <1>2, <1>3, <1>4, Unmoved, RaiseBooks
<1>5. CASE wk[w].prep /\ Go(w, "settling")
  <2>1. "settling" \notin Before \cup Early \cup Heading \cup OnWay /\ "settling" # "failing"
    BY DEF Before, Early, Heading, OnWay
  <2>2. \A U : Stands("settling", wk[w].prep, wk[w].k, U)
    BY <1>5, <2>1 DEF Stands
  <2> QED  BY <1>1, <1>2, <1>5, <2>1, <2>2, Unmoved, GoBooks
<1>6. CASE ~wk[w].prep /\ Raise(w, {"head"})
  BY <1>1, <1>2, <1>3, <1>6, Unmoved, RaiseBooks
<1>7. CASE wk' = [wk EXCEPT ![w].pc = "recording", ![w].head = PullOf(w)]
  <2> DEFINE new == [wk[w] EXCEPT !.pc = "recording", !.head = PullOf(w)]
  <2>1. wk[w] \in WorkerRow
    BY Fitting
  <2>2. new.pc = "recording" /\ new.r = wk[w].r /\ new.gen = wk[w].gen /\ new.prep = wk[w].prep
    BY <2>1 DEF WorkerRow
  <2>3. wk' = [wk EXCEPT ![w] = new]
    BY <1>7
  <2> HIDE DEF new
  <2>4. "recording" \notin Early \cup Heading \cup OnWay \cup Later /\ "recording" # "failing"
    BY DEF Early, Heading, OnWay, Later
  <2>5. Mine(wk[w]) => Known(new, Left(wk[w].r))
    BY <1>1, <1>2, <1>3, <2>2, <2>4, Unmoved DEF Known, Stands
  <2> QED  BY <1>1, <1>2, <2>2, <2>3, <2>5, Unmoved, TendBooks
<1> QED  BY <1>4, <1>5, <1>6, <1>7 DEF Verify

LEMMA RecordBooks ==
  ASSUME Inv, Books, Sound, NEW w \in Workers, RecordRevision(w)
  PROVE  Books'
<1>1. wk[w].pc = "recording" /\ UNCHANGED pub
  BY DEF RecordRevision, At, SetReviewRevision, vars
<1>2. Busy(wk[w]) /\ wk[w].pc \in Before /\ wk[w].r \in Reviews
  BY <1>1, Holding DEF Busy, AtRest, Before
<1>3. \A r \in Reviews : Left(r) = Unsettled(r)
  BY <1>1, LeftSame
<1>4. CASE Go(w, "acking")
  <2>1. "acking" \notin Early \cup Heading \cup OnWay \cup Later /\ "acking" # "failing"
    BY DEF Early, Heading, OnWay, Later
  <2>2. Mine(wk[w]) => Stands("acking", wk[w].prep, wk[w].k, Left(wk[w].r))
    BY <1>2, <1>3, <2>1, KnownNow DEF Known, Stands
  <2> QED  BY <1>2, <1>3, <1>4, <2>1, <2>2, GoBooks
<1>5. CASE Raise(w, {"lost"})
  BY <1>2, <1>3, <1>5, RaiseBooks
<1> QED  BY <1>4, <1>5 DEF RecordRevision

LEMMA HeadChangedBooks ==
  ASSUME Inv, Books, Sound, NEW w \in Workers, HeadChanged(w)
  PROVE  Books'
<1>1. UNCHANGED vars
  BY DEF HeadChanged
<1>2. CASE wk[w].pc = "resuming" /\ Go(w, "settling")
  <2>1. "settling" \notin Before \cup Early \cup Heading \cup OnWay /\ "settling" # "failing"
    BY DEF Before, Early, Heading, OnWay
  <2>2. Busy(wk[w]) /\ wk[w].pc \in Later
    BY <1>2 DEF Busy, AtRest, Later
  <2>3. \A U : Mine(wk[w]) => Stands("settling", wk[w].prep, wk[w].k, U)
    BY <2>1, <2>2, KnownNow DEF Stands, Known
  <2> QED  BY <1>1, <1>2, <2>1, <2>2, <2>3, Unmoved, GoBooks
<1>3. CASE wk[w].pc \in Early \cup Heading /\ Raise(w, {"head"})
  <2>1. Busy(wk[w])
    BY <1>3, Places DEF Busy
  <2>2. Mine(wk[w]) => Unsettled(wk[w].r) = {}
    BY <1>3, KnownNow DEF Known, Stands
  <2> QED  BY <1>1, <1>3, <2>1, <2>2, Unmoved, RaiseBooks
<1>4. CASE wk[w].pc = "acking" /\ Raise(w, {"head"})
  <2>1. Busy(wk[w]) /\ wk[w].pc \in Before
    BY <1>4 DEF Busy, AtRest, Before
  <2>3. Mine(wk[w]) => wk[w].prep \/ Unsettled(wk[w].r) = {}
    BY <2>1, KnownNow DEF Known, Stands
  <2> QED  BY <1>1, <1>4, <2>1, <2>3, Unmoved, RaiseBooks
<1> QED  BY <1>2, <1>3, <1>4 DEF HeadChanged, Check, At, Early, Heading

LEMMA HeadUnchangedBooks ==
  ASSUME Inv, Books, Sound, NEW w \in Workers, HeadUnchanged(w)
  PROVE  Books'
<1>1. UNCHANGED vars
  BY DEF HeadUnchanged
<1>2. ASSUME NEW pc, Go(w, pc), Busy(wk[w]), pc # "failing",
             Mine(wk[w]) => Stands(pc, wk[w].prep, wk[w].k, Unsettled(wk[w].r))
      PROVE  Books'
  <2>1. wk[w].r \in Reviews
    BY <1>2, Holding DEF Busy
  <2> QED  BY <1>1, <1>2, <2>1, Unmoved, GoBooks
<1>3. CASE At(w, "acking") /\ Go(w, IF wk[w].prep THEN "resuming" ELSE "listing")
  <2>1. wk[w].pc \in Before /\ Busy(wk[w])
    BY <1>3 DEF At, Before, Busy, AtRest
  <2>2. Mine(wk[w]) => wk[w].prep \/ Unsettled(wk[w].r) = {}
    BY <2>1, KnownNow DEF Known, Stands
  <2>3. CASE wk[w].prep
    <3>1. Go(w, "resuming")
      BY <1>3, <2>3
    <3>2. "resuming" \notin Before \cup Early \cup Heading \cup OnWay
      BY DEF Before, Early, Heading, OnWay
    <3> QED  BY <1>2, <2>1, <2>3, <3>1, <3>2 DEF Stands
  <2>4. CASE ~wk[w].prep
    <3>1. Go(w, "listing")
      BY <1>3, <2>4
    <3>2. "listing" \notin Before \cup Heading \cup OnWay \cup Later
      BY DEF Before, Later, Heading, OnWay
    <3> QED  BY <1>2, <2>1, <2>2, <2>4, <3>1, <3>2 DEF Stands
  <2> QED  BY <2>3, <2>4
<1>4. CASE At(w, "resuming") /\ Go(w, "planned")
  <2>1. wk[w].pc \in Later /\ Busy(wk[w])
    BY <1>4 DEF At, Later, Busy, AtRest
  <2>2. "planned" \notin Early \cup Heading \cup OnWay \cup Later
    BY DEF Early, Heading, OnWay, Later
  <2>3. Mine(wk[w]) => wk[w].prep
    BY <2>1, KnownNow DEF Known, Stands
  <2> QED  BY <1>2, <1>4, <2>1, <2>2, <2>3 DEF Stands
<1>5. ASSUME NEW pc \in Early, Go(w, pc), wk[w].pc \in Early PROVE Books'
  <2>1. Busy(wk[w]) /\ pc # "failing"
    BY <1>5, Places DEF Busy
  <2>2. pc \notin Before \cup Heading \cup OnWay \cup Later
    BY <1>5 DEF Early, Before, Later, Heading, OnWay
  <2>3. Mine(wk[w]) => ~wk[w].prep /\ Unsettled(wk[w].r) = {}
    BY <1>5, KnownNow DEF Known, Stands
  <2> QED  BY <1>2, <1>5, <2>1, <2>2, <2>3 DEF Stands
<1> QED  BY <1>3, <1>4, <1>5 DEF HeadUnchanged, Check, At, Early

LEMMA ReadInputsBooks ==
  ASSUME Inv, Books, Sound, NEW w \in Workers, ReadInputs(w)
  PROVE  Books'
<1>1. UNCHANGED vars /\ wk[w].pc \in Early
  BY DEF ReadInputs, Check, At, Early
<1>2. Busy(wk[w]) /\ wk[w] \in WorkerRow /\ wk[w].r \in Reviews
  BY <1>1, Places, Fitting, Holding DEF Busy
<1>3. Mine(wk[w]) => ~wk[w].prep /\ Unsettled(wk[w].r) = {}
  BY <1>1, KnownNow DEF Known, Stands
<1>4. ASSUME NEW new, wk' = [wk EXCEPT ![w] = new], new.pc \in Early, new.r = wk[w].r, new.gen = wk[w].gen,
             new.prep = wk[w].prep
      PROVE  Books'
  <2>1. new.pc \notin Before \cup Heading \cup OnWay \cup Later /\ new.pc # "failing"
    BY <1>4 DEF Early, Before, Later, Heading, OnWay
  <2>2. Mine(wk[w]) => Known(new, Left(wk[w].r))
    BY <1>1, <1>2, <1>3, <1>4, <2>1, Unmoved DEF Known, Stands
  <2> QED  BY <1>1, <1>2, <1>4, <2>2, Unmoved, TendBooks
<1>5. CASE wk' = [wk EXCEPT ![w].pc = "rechecking", ![w].files = PullOf(w)]
  <2> DEFINE new == [wk[w] EXCEPT !.pc = "rechecking", !.files = PullOf(w)]
  <2>1. new.pc = "rechecking" /\ new.r = wk[w].r /\ new.gen = wk[w].gen /\ new.prep = wk[w].prep
    BY <1>2 DEF WorkerRow
  <2>2. wk' = [wk EXCEPT ![w] = new]
    BY <1>5
  <2> HIDE DEF new
  <2>3. "rechecking" \in Early
    BY DEF Early
  <2> QED  BY <1>4, <2>1, <2>2, <2>3
<1>6. CASE wk' = [wk EXCEPT ![w].pc = "agent", ![w].diff = PullOf(w)]
  <2> DEFINE new == [wk[w] EXCEPT !.pc = "agent", !.diff = PullOf(w)]
  <2>1. new.pc = "agent" /\ new.r = wk[w].r /\ new.gen = wk[w].gen /\ new.prep = wk[w].prep
    BY <1>2 DEF WorkerRow
  <2>2. wk' = [wk EXCEPT ![w] = new]
    BY <1>6
  <2> HIDE DEF new
  <2>3. "agent" \in Early
    BY DEF Early
  <2> QED  BY <1>4, <2>1, <2>2, <2>3
<1> QED  BY <1>5, <1>6 DEF ReadInputs

LEMMA RunAgentBooks ==
  ASSUME Inv, Books, Sound, NEW w \in Workers, RunAgent(w)
  PROVE  Books'
<1>1. UNCHANGED vars /\ wk[w].pc = "agent"
  BY DEF RunAgent, Check, At
<1>2. wk[w].pc \in Early /\ Busy(wk[w]) /\ wk[w].r \in Reviews
  BY <1>1, Holding DEF Early, Busy, AtRest
<1>3. Mine(wk[w]) => ~wk[w].prep /\ Unsettled(wk[w].r) = {}
  BY <1>2, KnownNow DEF Known, Stands
<1>4. ASSUME NEW errs, Raise(w, errs) PROVE Books'
  BY <1>1, <1>2, <1>3, <1>4, Unmoved, RaiseBooks
<1>5. CASE Go(w, "finalcheck")
  <2>1. "finalcheck" \notin Before \cup Heading \cup OnWay \cup Later /\ "finalcheck" # "failing"
    BY DEF Before, Later, Heading, OnWay
  <2>2. Mine(wk[w]) => Stands("finalcheck", wk[w].prep, wk[w].k, Left(wk[w].r))
    BY <1>1, <1>2, <1>3, <2>1, Unmoved DEF Stands
  <2> QED  BY <1>1, <1>2, <1>5, <2>1, <2>2, Unmoved, GoBooks
<1> QED  BY <1>4, <1>5 DEF RunAgent

LEMMA HolderIsMine ==
  ASSUME NEW w \in Workers, Busy(wk[w]), HoldsReview(wk[w].r, TicketOf(w))
  PROVE  Mine(wk[w])
BY DEF HoldsReview, TicketOf, Mine

LEMMA PrepareBooks ==
  ASSUME Inv, Books, Sound, NEW w \in Workers, PreparePublication(w)
  PROVE  Books'
<1>1. wk[w].pc = "preparing" /\ Go(w, "planned")
  BY DEF PreparePublication, Check, At
<1>2. Busy(wk[w]) /\ wk[w].r \in Reviews
  BY <1>1, Holding DEF Busy, AtRest
<1>3. PICK n \in Items : PrepareReviewPublication(wk[w].r, TicketOf(w), n, wk[w].head)
  BY DEF PreparePublication
<1>4. \A q \in Reviews, k \in Items : pub'[q][k] = pub[q][k] \/ pub'[q][k].status \in Ahead
  BY <1>2, <1>3 DEF PrepareReviewPublication, Inv, Tables, TypeOK, Ahead, Unowned, Absent
<1>5. \A q \in Reviews : Left(q) \subseteq Unsettled(q)
  BY <1>4 DEF Left, Unsettled, Ahead, Uncertain
<1>6. \A k \in Items : pub'[wk[w].r][k].status \in Ahead
  BY <1>2, <1>3 DEF PrepareReviewPublication, Inv, Tables, TypeOK, Ahead, Unowned, Absent
<1>7. Left(wk[w].r) = {}
  BY <1>6 DEF Left, Ahead, Uncertain
<1>8. "planned" \notin Early \cup Heading \cup OnWay \cup Later /\ "planned" # "failing"
  BY DEF Early, Heading, OnWay, Later
<1>9. Stands("planned", wk[w].prep, wk[w].k, Left(wk[w].r))
  BY <1>7, <1>8 DEF Stands
<1> QED  BY <1>1, <1>2, <1>5, <1>8, <1>9, GoBooks

LEMMA QuietBooks ==
  ASSUME Inv, Books, Sound, NEW w \in Workers,
         StartPublishing(w) \/ Preflight(w) \/ CheckBeforePost(w) \/ PostAnswered(w) \/ PostUnanswered(w) \/ Post(w)
  PROVE  Books'
<1>1. UNCHANGED vars
  BY DEF StartPublishing, Preflight, CheckBeforePost, PostAnswered, PostUnanswered, Post
<1>2. /\ \A r \in Reviews : Left(r) = Unsettled(r)
      /\ \A r \in Reviews : Left(r) \subseteq Unsettled(r)
  BY <1>1, Unmoved
<1>3. CASE PostUnanswered(w)
  <2>1. Busy(wk[w]) /\ Doubt(w, {"retry"})
    BY <1>3 DEF PostUnanswered, At, Busy, AtRest
  <2> QED  BY <1>2, <2>1, DoubtBooks
<1>4. ASSUME NEW pc, Go(w, pc), Busy(wk[w]), pc # "failing",
             Mine(wk[w]) => Stands(pc, wk[w].prep, wk[w].k, Unsettled(wk[w].r))
      PROVE  Books'
  <2>1. wk[w].r \in Reviews
    BY <1>4, Holding DEF Busy
  <2> QED  BY <1>2, <1>4, <2>1, GoBooks
<1>5. CASE StartPublishing(w)
  <2>1. wk[w].pc \in Before /\ Busy(wk[w]) /\ Go(w, "publishing")
    BY <1>5 DEF StartPublishing, Check, At, Before, Busy, AtRest
  <2>2. "publishing" \notin Early \cup Heading \cup OnWay \cup Later
    BY DEF Early, Heading, OnWay, Later
  <2>3. Mine(wk[w]) => Stands("publishing", wk[w].prep, wk[w].k, Unsettled(wk[w].r))
    BY <2>1, <2>2, KnownNow DEF Known, Stands
  <2> QED  BY <1>4, <2>1, <2>3
<1>6. CASE Preflight(w)
  <2>1. wk[w].pc \in Heading /\ Busy(wk[w])
    BY <1>6 DEF Preflight, Check, At, Heading, Busy, AtRest
  <2>2. PICK pc \in {"marking", "confirming", "beginning"} : Go(w, pc)
    BY <1>6 DEF Preflight
  <2>3. pc \notin Before \cup Early \cup Later /\ pc # "failing"
    BY <2>2 DEF Early, Before, Later
  <2>4. Mine(wk[w]) => Stands(pc, wk[w].prep, wk[w].k, Unsettled(wk[w].r))
    BY <2>1, <2>3, KnownNow DEF Known, Stands
  <2> QED  BY <1>4, <2>1, <2>2, <2>3, <2>4
<1>7. CASE CheckBeforePost(w) \/ Post(w) \/ PostAnswered(w)
  <2>1. wk[w].pc \in OnWay /\ Busy(wk[w])
    BY <1>7 DEF CheckBeforePost, Post, PostAnswered, Check, At, OnWay, Busy, AtRest
  <2>2. PICK pc \in OnWay : Go(w, pc)
    BY <1>7 DEF CheckBeforePost, Post, PostAnswered, OnWay
  <2>3. pc \notin Before \cup Early \cup Later \cup Heading /\ pc # "failing"
    BY <2>2 DEF Early, Before, Later, Heading, OnWay
  <2>4. Mine(wk[w]) => Stands(pc, wk[w].prep, wk[w].k, Unsettled(wk[w].r))
    BY <2>1, <2>3, KnownNow DEF Known, Stands
  <2> QED  BY <1>4, <2>1, <2>2, <2>3, <2>4
<1> QED  BY <1>3, <1>5, <1>6, <1>7

(* Effects come in the order of the plan: the first publication that is    *)
(* still to be sent has none after it.                                     *)
LEMMA NoneBeyond ==
  ASSUME Inv, Books, NEW r \in Reviews, NEW k \in Items, First(r, k, Outstanding(r)),
         pub[r][k].status = "pending"
  PROVE  Unsettled(r) = {}
<1> SUFFICES ASSUME NEW i \in Items, pub[r][i].status \in Uncertain PROVE FALSE
  BY DEF Unsettled
<1>1. i # k /\ i \in Outstanding(r)
  BY DEF Uncertain, Outstanding
<1>2. k <= i /\ i \in Nat /\ k \in Nat
  BY <1>1, StoreAssumption DEF First, Items
<1>3. k < i
  BY <1>1, <1>2
<1> QED  BY <1>3 DEF Books, InOrder

LEMMA NextPublicationBooks ==
  ASSUME Inv, Books, Sound, NEW w \in Workers, NextPublication(w)
  PROVE  Books'
<1>1. wk[w].pc = "publishing"
  BY DEF NextPublication, Check, At
<1>2. Busy(wk[w]) /\ wk[w].r \in Reviews /\ wk[w].pc \in Before /\ wk[w] \in WorkerRow
  BY <1>1, Holding, Fitting DEF Busy, AtRest, Before
<1>3. Mine(wk[w]) => wk[w].prep \/ Unsettled(wk[w].r) = {}
  BY <1>2, KnownNow DEF Known, Stands
<1> DEFINE r == wk[w].r
           t == TicketOf(w)
<1>5. PICK k \in Items :
        /\ First(r, k, Outstanding(r))
        /\ \/ /\ pub[r][k].status = "reconciliation_required" /\ UNCHANGED vars
              /\ wk' = [wk EXCEPT ![w].pc = "reconciling", ![w].k = k]
           \/ ExpireSend(r, k, t) /\ wk' = [wk EXCEPT ![w].pc = "reconciling", ![w].k = k]
           \/ ClaimPending(r, k, t) /\ wk' = [wk EXCEPT ![w].pc = "preflight", ![w].k = k]
           \/ Raise(w, {"inflight"}) /\ UNCHANGED vars
  BY Zenon DEF NextPublication
<1>6. ASSUME NEW pc, wk' = [wk EXCEPT ![w].pc = pc, ![w].k = k], pc # "failing",
             \A q \in Reviews : Left(q) \subseteq Unsettled(q),
             Mine(wk[w]) => Stands(pc, wk[w].prep, k, Left(r))
      PROVE  Books'
  <2> DEFINE new == [wk[w] EXCEPT !.pc = pc, !.k = k]
  <2>1. /\ new.pc = pc /\ new.r = wk[w].r /\ new.gen = wk[w].gen /\ new.prep = wk[w].prep
        /\ new.k = k
    BY <1>2 DEF WorkerRow
  <2>2. wk' = [wk EXCEPT ![w] = new]
    BY <1>6
  <2> HIDE DEF new
  <2>3. Mine(wk[w]) => Known(new, Left(wk[w].r))
    BY <1>6, <2>1 DEF Known
  <2> QED  BY <1>2, <1>6, <2>1, <2>2, <2>3, TendBooks
<1>7. "reconciling" \notin Before \cup Early \cup Heading \cup OnWay
      /\ "preflight" \notin Before \cup Early \cup OnWay \cup Later
      /\ "reconciling" # "failing" /\ "preflight" # "failing"
  BY DEF Before, Early, Heading, OnWay, Later
<1>8. ASSUME pub[r][k].status \in Uncertain, \A q \in Reviews : Left(q) \subseteq Unsettled(q),
             wk' = [wk EXCEPT ![w].pc = "reconciling", ![w].k = k]
      PROVE  Books'
  <2>1. k \in Unsettled(r)
    BY <1>8 DEF Unsettled
  <2>2. Mine(wk[w]) => Stands("reconciling", wk[w].prep, k, Left(r))
    BY <1>3, <1>7, <2>1 DEF Stands
  <2> QED  BY <1>6, <1>7, <1>8, <2>2
<1>9. ASSUME UNCHANGED vars PROVE \A q \in Reviews : Left(q) = Unsettled(q) /\ Left(q) \subseteq Unsettled(q)
  BY <1>9, LeftSame DEF vars
<1>10. CASE /\ pub[r][k].status = "reconciliation_required" /\ UNCHANGED vars
            /\ wk' = [wk EXCEPT ![w].pc = "reconciling", ![w].k = k]
  BY <1>8, <1>9, <1>10 DEF Uncertain
<1>11. CASE ExpireSend(r, k, t) /\ wk' = [wk EXCEPT ![w].pc = "reconciling", ![w].k = k]
  <2>1. pub[r][k].status \in Uncertain /\ SetPub(r, k, Unowned("reconciliation_required"))
    BY <1>11 DEF ExpireSend, Uncertain
  <2>2. \A q \in Reviews : Left(q) \subseteq Unsettled(q)
    BY <1>2, <2>1, LeftWrite
  <2> QED  BY <1>8, <1>11, <2>1, <2>2
<1>12. CASE ClaimPending(r, k, t) /\ wk' = [wk EXCEPT ![w].pc = "preflight", ![w].k = k]
  <2>1. pub[r][k].status = "pending" /\ SetPub(r, k, Owned("pending", t))
    BY <1>12 DEF ClaimPending
  <2>2. Owned("pending", t).status \notin Uncertain
    BY DEF Owned, Uncertain
  <2>3. \A q \in Reviews : Left(q) \subseteq Unsettled(q)
    BY <1>2, <2>1, <2>2, LeftWrite
  <2>4. Left(r) = {}
    BY <1>2, <1>5, <2>1, <2>3, NoneBeyond
  <2>5. Stands("preflight", wk[w].prep, k, Left(r))
    BY <1>7, <2>4 DEF Stands
  <2> QED  BY <1>6, <1>7, <1>12, <2>3, <2>5
<1>13. CASE Raise(w, {"inflight"}) /\ UNCHANGED vars
  BY <1>2, <1>3, <1>9, <1>13, RaiseBooks
<1> QED  BY <1>5, <1>10, <1>11, <1>12, <1>13

LEMMA BeginBooks ==
  ASSUME Inv, Books, Sound, NEW w \in Workers, BeginSend(w)
  PROVE  Books'
<1>1. wk[w].pc = "beginning" /\ Go(w, "sending")
  BY DEF BeginSend, Check, At
<1>2. Busy(wk[w]) /\ wk[w].r \in Reviews /\ wk[w].k \in Items /\ wk[w].pc \in Heading
  BY <1>1, Holding DEF Busy, AtRest, Heading
<1>3. Mine(wk[w])
  BY <1>2, HolderIsMine DEF BeginSend, BeginPublicationSend
<1>4. Unsettled(wk[w].r) = {}
  BY <1>2, <1>3, KnownNow DEF Known, Stands
<1>5. \A q \in Reviews, i \in Items : q # wk[w].r \/ i # wk[w].k => pub'[q][i] = pub[q][i]
  BY <1>2, PubWritten DEF BeginSend, BeginPublicationSend
<1>6. \A q \in Reviews : Left(q) \subseteq Unsettled(q) \/ q = wk[w].r
  BY <1>5 DEF Left, Unsettled
<1>7. Left(wk[w].r) \subseteq {wk[w].k}
  BY <1>2, <1>4, <1>5 DEF Left, Unsettled
<1>8. "sending" \notin Before \cup Early \cup Heading \cup Later /\ "sending" # "failing"
  BY DEF Before, Early, Heading, Later
<1>9. Stands("sending", wk[w].prep, wk[w].k, Left(wk[w].r))
  BY <1>7, <1>8 DEF Stands
<1> QED  BY <1>1, <1>2, <1>3, <1>6, <1>8, <1>9, GoBooks

(* A comment that is recorded is one effect less.                          *)
LEMMA LeftPosted ==
  ASSUME Inv, NEW r \in Reviews, NEW k \in Items, NEW t, MarkPublicationPosted(r, k, t)
  PROVE  /\ \A q \in Reviews : Left(q) \subseteq Unsettled(q)
         /\ Left(r) \subseteq Unsettled(r) \ {k}
<1>1. SetPub(r, k, Unowned("posted")) /\ Unowned("posted").status \notin Uncertain
  BY DEF MarkPublicationPosted, Unowned, Uncertain
<1>2. pub'[r][k] = Unowned("posted")
  BY <1>1, PubWritten
<1> QED  BY <1>1, <1>2, LeftWrite DEF Left

LEMMA MarkPostedBooks ==
  ASSUME Inv, Books, Sound, NEW w \in Workers, MarkPosted(w)
  PROVE  Books'
<1>1. wk[w].pc = "marking" /\ Go(w, "publishing")
  BY DEF MarkPosted, Check, At
<1>2. Busy(wk[w]) /\ wk[w].r \in Reviews /\ wk[w].k \in Items /\ wk[w].pc \in OnWay
  BY <1>1, Holding DEF Busy, AtRest, OnWay
<1>3. /\ \A q \in Reviews : Left(q) \subseteq Unsettled(q)
      /\ Left(wk[w].r) \subseteq Unsettled(wk[w].r) \ {wk[w].k}
  BY <1>2, LeftPosted DEF MarkPosted
<1>4. Mine(wk[w]) => Left(wk[w].r) = {}
  BY <1>2, <1>3, KnownNow DEF Known, Stands
<1>5. "publishing" \notin Early \cup Heading \cup OnWay \cup Later /\ "publishing" # "failing"
  BY DEF Early, Heading, OnWay, Later
<1>6. Mine(wk[w]) => Stands("publishing", wk[w].prep, wk[w].k, Left(wk[w].r))
  BY <1>4, <1>5 DEF Stands
<1> QED  BY <1>1, <1>2, <1>3, <1>5, <1>6, GoBooks

LEMMA UncertainBooks ==
  ASSUME Inv, Books, Sound, NEW w \in Workers, PublicationUncertain(w)
  PROVE  Books'
<1>1. wk[w].pc = "uncertain"
  BY DEF PublicationUncertain, At
<1>2. Busy(wk[w]) /\ wk[w].r \in Reviews /\ wk[w].k \in Items
  BY <1>1, Holding DEF Busy, AtRest
<1>4. ASSUME NEW errs, Raise(w, errs), "reconcile" \in errs, \A q \in Reviews : Left(q) \subseteq Unsettled(q)
      PROVE  Books'
  BY <1>2, <1>4, RaiseBooks
<1>5. CASE /\ MarkPublicationReconciliationRequired(wk[w].r, wk[w].k, TicketOf(w))
           /\ Raise(w, wk[w].err \cup {"reconcile"})
  <2>1. SetPub(wk[w].r, wk[w].k, Unowned("reconciliation_required"))
    BY <1>5 DEF MarkPublicationReconciliationRequired
  <2>2. pub[wk[w].r][wk[w].k].status \notin Ahead
    BY <1>1, Fitting DEF Fits, Announced, Committed
  <2>3. pub[wk[w].r][wk[w].k].status \in Uncertain
    BY <1>5, <2>2 DEF MarkPublicationReconciliationRequired, Ahead, Uncertain
  <2>4. \A q \in Reviews : Left(q) \subseteq Unsettled(q)
    BY <1>2, <2>1, <2>3, LeftWrite
  <2> QED  BY <1>4, <1>5, <2>4
<1>6. CASE Raise(w, wk[w].err \cup {"reconcile", "lost"}) /\ UNCHANGED vars
  <2>1. \A q \in Reviews : Left(q) \subseteq Unsettled(q)
    BY <1>6, LeftSame DEF vars
  <2> QED  BY <1>4, <1>6, <2>1
<1> QED  BY <1>5, <1>6 DEF PublicationUncertain

LEMMA ReconcileBooks ==
  ASSUME Inv, Books, Sound, NEW w \in Workers, ReconcilePublication(w)
  PROVE  Books'
<1>1. wk[w].pc = "reconciling"
  BY DEF ReconcilePublication, Check, At
<1>2. Busy(wk[w]) /\ wk[w].r \in Reviews /\ wk[w].k \in Items /\ wk[w].pc \in Later
  BY <1>1, Holding DEF Busy, AtRest, Later
<1>3. CASE MarkPublicationPosted(wk[w].r, wk[w].k, TicketOf(w)) /\ Go(w, "publishing")
  <2>1. \A q \in Reviews : Left(q) \subseteq Unsettled(q)
    BY <1>2, <1>3, LeftPosted
  <2>2. "publishing" \notin Early \cup Heading \cup OnWay \cup Later /\ "publishing" # "failing"
    BY DEF Early, Heading, OnWay, Later
  <2>3. Mine(wk[w]) => Stands("publishing", wk[w].prep, wk[w].k, Left(wk[w].r))
    BY <1>2, <2>2, KnownNow DEF Known, Stands
  <2> QED  BY <1>1, <1>2, <1>3, <2>1, <2>2, <2>3, GoBooks
<1>4. CASE Raise(w, {"reconcile"}) /\ UNCHANGED vars
  BY <1>2, <1>4, Unmoved, RaiseBooks
<1> QED  BY <1>3, <1>4 DEF ReconcilePublication

LEMMA SettleBooks ==
  ASSUME Inv, Books, Sound, NEW w \in Workers, SettlePrepared(w)
  PROVE  Books'
<1>1. wk[w].pc = "settling"
  BY DEF SettlePrepared, Check, At
<1>2. Busy(wk[w]) /\ wk[w].r \in Reviews
  BY <1>1, Holding DEF Busy, AtRest
<1>4. ASSUME UNCHANGED wk, \A q \in Reviews : Left(q) \subseteq Unsettled(q) PROVE Books'
  BY <1>4, RestBooks
<1>5. ASSUME UNCHANGED vars, NEW errs, Raise(w, errs), "reconcile" \in errs \/ Unsettled(wk[w].r) = {} PROVE Books'
  BY <1>2, <1>5, Unmoved, RaiseBooks
<1>6. ASSUME NEW k \in Items, ExpireSend(wk[w].r, k, TicketOf(w)), UNCHANGED wk PROVE Books'
  <2>1. pub[wk[w].r][k].status \in Uncertain /\ SetPub(wk[w].r, k, Unowned("reconciliation_required"))
    BY <1>6 DEF ExpireSend, Uncertain
  <2>2. \A q \in Reviews : Left(q) \subseteq Unsettled(q)
    BY <1>2, <2>1, LeftWrite
  <2> QED  BY <1>4, <1>6, <2>2
<1>7. ASSUME NEW k \in Items, MarkPublicationPosted(wk[w].r, k, TicketOf(w)), UNCHANGED wk PROVE Books'
  <2>1. \A q \in Reviews : Left(q) \subseteq Unsettled(q)
    BY <1>2, <1>7, LeftPosted
  <2> QED  BY <1>4, <1>7, <2>1
<1> QED  BY <1>5, <1>6, <1>7 DEF SettlePrepared

LEMMA FinishBooks ==
  ASSUME Inv, Books, Sound, NEW w \in Workers, FinishReview(w)
  PROVE  Books'
<1>1. UNCHANGED pub /\ Leave(w)
  BY DEF FinishReview, FinishReviewDone
<1>2. \A q \in Reviews : Left(q) \subseteq Unsettled(q)
  BY <1>1, LeftSame
<1> QED  BY <1>1, <1>2, LeaveBooks

LEMMA HandleBooks ==
  ASSUME Inv, Books, Sound, NEW w \in Workers, HandleReviewError(w)
  PROVE  Books'
<1>1. wk[w].pc = "failing" /\ Leave(w)
  BY DEF HandleReviewError, At
<1>2. wk[w].r \in Reviews /\ TicketOf(w) \in Ticket
  BY <1>1, Holding DEF AtRest
<1>4. \A q \in Reviews : Left(q) \subseteq Unsettled(q)
  <2>1. ASSUME UNCHANGED pub PROVE \A q \in Reviews : Left(q) \subseteq Unsettled(q)
    BY <2>1, LeftSame
  <2>2. ASSUME RequeueReview(wk[w].r, TicketOf(w)) PROVE \A q \in Reviews : Left(q) \subseteq Unsettled(q)
    BY <1>2, <2>2, RequeueKeeps DEF Left, Unsettled
  <2> QED
    BY <2>1, <2>2 DEF HandleReviewError, vars, FinishReviewReconciliationRequired, FinishReviewFailed
<1> QED  BY <1>1, <1>4, LeaveBooks

LEMMA LoopBooks ==
  ASSUME Inv, Books, Sound, NEW w \in Workers,
         WorkerReturns(w) \/ RecoverExpiredWork(w) \/ NothingToClaim(w)
  PROVE  Books'
<1>1. UNCHANGED pub
  BY DEF WorkerReturns, RecoverExpiredWork, NothingToClaim, vars, RecoverInterruptedReviews
<1>2. \A q \in Reviews : Left(q) \subseteq Unsettled(q)
  BY <1>1, LeftSame
<1>3. PICK pc \in AtRest : Go(w, pc)
  BY DEF WorkerReturns, RecoverExpiredWork, NothingToClaim, AtRest
<1> DEFINE new == [wk[w] EXCEPT !.pc = pc]
<1>4. new.pc = pc
  BY Fitting, Fields
<1>5. \A v \in Workers : wk'[v] = wk[v] \/ (v = w /\ wk'[v] = new)
  BY <1>3 DEF Go, Inv, Tables
<1> HIDE DEF new
<1>6. ~Busy(new)
  BY <1>3, <1>4 DEF Busy
<1> QED  BY <1>2, <1>5, <1>6, RestBooks

LEMMA EngineBooks ==
  ASSUME Inv, Books, Sound, NEW p \in Procs, EngineStep(p) \/ Stop(p) \/ Crash(p)
  PROVE  Books'
<1>1. UNCHANGED pub
  BY DEF EngineStep, Start, RecoverAndServe, RenewServiceLease, StopFinishes, Stop, Crash, Aside,
         storeVars, RecoverInterruptedReviews
<1>2. \A q \in Reviews : Left(q) \subseteq Unsettled(q)
  BY <1>1, LeftSame
<1>3. \A v \in Workers : wk'[v] = wk[v] \/ wk'[v] = Resting("idle") \/ wk'[v] = Resting("gone")
  BY DEF EngineStep, Start, RecoverAndServe, RenewServiceLease, StopFinishes, Stop, Crash, Aside
<1>4. \A pc \in AtRest : ~Busy(Resting(pc))
  BY DEF Busy, Resting
<1>5. \A v \in Workers : wk'[v] = wk[v] \/ ~Busy(wk'[v])
  BY <1>3, <1>4 DEF AtRest
<1> QED  BY <1>2, <1>5, RestBooks

LEMMA EnvironmentBooks ==
  ASSUME Inv, Books, Sound,
         \/ LeaseExpires
         \/ \E r \in Reviews : Requested(r) \/ RetryIsDue(r)
         \/ \E r \in Reviews, k \in Items : WindowCloses(r, k) \/ CommentAppears(r, k) \/ RequestIsLost(r, k)
         \/ \E x \in PRs : PullMoves(x)
         \/ UNCHANGED allVars
  PROVE  Books'
<1>1. UNCHANGED <<wk, pub>>
  BY DEF LeaseExpires, Requested, RetryIsDue, WindowCloses, CommentAppears, RequestIsLost, PullMoves,
         allVars, Expire, Aside, CreateReview, RetryDue, HandoffElapses, engineVars, vars
<1>2. \A q \in Reviews : Left(q) \subseteq Unsettled(q)
  BY <1>1, LeftSame
<1> QED  BY <1>1, <1>2, RestBooks

(* A new execution has a number of its own, and without a plan it has no   *)
(* effect to account for.                                                  *)
LEMMA ClaimBooks ==
  ASSUME Inv, Books, Sound, NEW w \in Workers, ClaimReview(w)
  PROVE  Books'
<1>1. ~Busy(wk[w])
  BY DEF ClaimReview, At, Busy, AtRest
<1>2. PICK r \in Reviews :
        /\ ClaimNextQueuedReview(r, w[1], eng[w[1]].fence)
        /\ wk' = [wk EXCEPT ![w] = [Resting("claimed") EXCEPT
                    !.r = r, !.fence = eng[w[1]].fence, !.gen = rev[r].gen + 1,
                    !.prep = Prepared(r), !.head = rev[r].head]]
  BY DEF ClaimReview
<1> DEFINE new == [Resting("claimed") EXCEPT
                    !.r = r, !.fence = eng[w[1]].fence, !.gen = rev[r].gen + 1,
                    !.prep = Prepared(r), !.head = rev[r].head]
<1>3. new.pc = "claimed" /\ new.r = r /\ new.gen = rev[r].gen + 1 /\ new.prep = Prepared(r)
  BY DEF Resting
<1>4. wk' = [wk EXCEPT ![w] = new]
  BY <1>2
<1> HIDE DEF new
<1>5. wk'[w] = new /\ \A v \in Workers : v # w => wk'[v] = wk[v]
  BY <1>4 DEF Inv, Tables
<1>6. KeepsRuns /\ KeepsPull
  BY KeepsRunsStep, StoreKeeps DEF Sound, Inv, Tables
<1>7. rev[r].gen \in Nat /\ rev'[r].gen = rev[r].gen + 1 /\ \A q \in Reviews : q # r => rev'[q] = rev[q]
  <2> DEFINE row == [rev[r] EXCEPT !.status = "running", !.owner = w[1], !.fence = eng[w[1]].fence,
                                   !.gen = rev[r].gen + 1]
  <2>1. rev[r] \in ReviewRow
    BY DEF Inv, Tables, TypeOK
  <2>2. row.gen = rev[r].gen + 1 /\ rev[r].gen \in Nat
    BY <2>1 DEF ReviewRow
  <2>3. SetRow(r, row)
    BY <1>2 DEF ClaimNextQueuedReview
  <2> HIDE DEF row
  <2> QED  BY <2>2, <2>3, RowWritten
<1>8. UNCHANGED pub /\ \A q \in Reviews : Left(q) = Unsettled(q)
  BY <1>2, LeftSame DEF ClaimNextQueuedReview
<1>9. \A v \in Workers : Busy(wk[v]) =>
        wk[v].r \in Reviews /\ wk[v].gen \in Nat /\ rev[wk[v].r].gen \in Nat /\ rev'[wk[v].r].gen \in Nat
  BY Numbers DEF Sound
<1>10. \A v \in Workers : Busy(wk[v]) => wk[v].gen <= rev[wk[v].r].gen
  BY DEF Books, Tickets
<1>11. \A v \in Workers : Busy(wk[v]) /\ wk[v].r = r => wk[v].gen < new.gen
  BY <1>3, <1>7, <1>9, <1>10
<1>12. Tickets'
  <2> SUFFICES ASSUME NEW v \in Workers, Busy(wk'[v]) PROVE wk'[v].gen <= rev'[wk'[v].r].gen
    BY DEF Tickets, Busy
  <2>1. CASE v = w
    BY <1>3, <1>5, <1>7, <2>1
  <2>2. CASE v # w
    <3>1. wk'[v] = wk[v] /\ Busy(wk[v])
      BY <1>5, <2>2
    <3>2. rev'[wk[v].r].gen >= rev[wk[v].r].gen
      BY <1>6, <1>9, <3>1 DEF KeepsRuns
    <3> QED  BY <1>9, <1>10, <3>1, <3>2
  <2> QED  BY <2>1, <2>2
<1>13. Distinct'
  <2> SUFFICES ASSUME NEW u \in Workers, NEW v \in Workers, Busy(wk'[u]), Busy(wk'[v]),
                      wk'[u].r = wk'[v].r, wk'[u].gen = wk'[v].gen
               PROVE  u = v
    BY DEF Distinct, Busy
  <2>1. ASSUME NEW x \in Workers, x # w, Busy(wk[x]), wk[x].r = r, wk[x].gen = new.gen PROVE FALSE
    BY <1>3, <1>7, <1>9, <1>11, <2>1
  <2>2. CASE u # w /\ v # w
    BY <1>5, <2>2 DEF Books, Distinct
  <2>3. CASE u = w /\ v # w
    BY <1>3, <1>5, <2>1, <2>3
  <2>4. CASE u # w /\ v = w
    BY <1>3, <1>5, <2>1, <2>4
  <2> QED  BY <2>2, <2>3, <2>4
<1>14. InOrder'
  BY InOrderStep DEF Books
<1>15. Accounts'
  <2> SUFFICES ASSUME NEW v \in Workers, MineNext(wk'[v]) PROVE Known(wk'[v], Left(wk'[v].r))
    BY DEF Accounts, Mine, MineNext, Busy, Known, Stands, Accounted, Unsettled, Left
  <2>1. CASE v = w
    <3>1. "claimed" \notin Early \cup Heading \cup OnWay \cup Later /\ "claimed" # "failing"
      BY DEF Early, Heading, OnWay, Later
    <3>2. ~Prepared(r) => Unsettled(r) = {}
      <4> SUFFICES ASSUME ~Prepared(r), NEW k \in Items, pub[r][k].status \in Uncertain PROVE FALSE
        BY DEF Unsettled
      <4>1. pub[r][0].status = "none" /\ pub[r][k].status # "none"
        BY DEF Prepared, Uncertain
      <4>2. 0 \in Items /\ (k # 0 => 0 < k)
        BY StoreAssumption DEF Items
      <4> QED  BY <4>1, <4>2 DEF Inv, PlanWhole
    <3> QED  BY <1>3, <1>5, <1>8, <2>1, <3>1, <3>2 DEF Known, Stands
  <2>2. CASE v # w
    <3>1. wk'[v] = wk[v] /\ Busy(wk[v])
      BY <1>5, <2>2 DEF MineNext
    <3>2. rev'[wk[v].r].gen = wk[v].gen
      BY <3>1 DEF MineNext
    <3>3. wk[v].r # r
      BY <1>3, <1>7, <1>9, <1>11, <3>1, <3>2
    <3>4. Mine(wk[v])
      BY <1>7, <1>9, <3>1, <3>3 DEF MineNext, Mine
    <3> QED  BY <1>8, <1>9, <3>1, <3>4 DEF Books, Accounts
  <2> QED  BY <2>1, <2>2
<1> QED  BY <1>12, <1>13, <1>14, <1>15 DEF Books

LEMMA WorkerBooks ==
  ASSUME Inv, Books, Sound, NEW w \in Workers, WorkerStep(w)
  PROVE  Books'
<1>1. CASE CheckFails(w) \/ ClaimReview(w) \/ HandleReviewError(w) \/ FinishReview(w)
  BY <1>1, CheckFailsBooks, ClaimBooks, HandleBooks, FinishBooks
<1>2. CASE WorkerReturns(w) \/ RecoverExpiredWork(w) \/ NothingToClaim(w)
  BY <1>2, LoopBooks
<1>3. CASE Verify(w) \/ RecordRevision(w) \/ HeadChanged(w) \/ HeadUnchanged(w)
  BY <1>3, VerifyBooks, RecordBooks, HeadChangedBooks, HeadUnchangedBooks
<1>4. CASE ReadInputs(w) \/ RunAgent(w) \/ PreparePublication(w)
  BY <1>4, ReadInputsBooks, RunAgentBooks, PrepareBooks
<1>5. CASE StartPublishing(w) \/ Preflight(w) \/ CheckBeforePost(w) \/ PostAnswered(w) \/ PostUnanswered(w) \/ Post(w)
  BY <1>5, QuietBooks
<1>6. CASE NextPublication(w) \/ BeginSend(w) \/ MarkPosted(w) \/ PublicationUncertain(w)
  BY <1>6, NextPublicationBooks, BeginBooks, MarkPostedBooks, UncertainBooks
<1>7. CASE ReconcilePublication(w) \/ SettlePrepared(w)
  BY <1>7, ReconcileBooks, SettleBooks
<1> QED  BY <1>1, <1>2, <1>3, <1>4, <1>5, <1>6, <1>7 DEF WorkerStep

LEMMA EveryBooks ==
  ASSUME Inv, Books, [EngineNext]_allVars
  PROVE  Books'
<1>0. Sound
  BY EverySound
<1>1. CASE Trouble
  BY <1>0, <1>1, TroubleBooks DEF Trouble
<1>2. CASE \E w \in Workers : WorkerStep(w)
  BY <1>0, <1>2, WorkerBooks
<1>3. CASE \E p \in Procs : EngineStep(p) \/ Stop(p) \/ Crash(p)
  BY <1>0, <1>3, EngineBooks
<1>4. CASE \/ LeaseExpires
           \/ \E r \in Reviews : Requested(r) \/ RetryIsDue(r)
           \/ \E r \in Reviews, k \in Items : WindowCloses(r, k) \/ CommentAppears(r, k) \/ RequestIsLost(r, k)
           \/ \E x \in PRs : PullMoves(x)
           \/ UNCHANGED allVars
  BY <1>0, <1>4, EnvironmentBooks
<1> QED  BY <1>1, <1>2, <1>3, <1>4 DEF EngineNext, Smooth

LEMMA InitBooks == EngineInit => Books
<1> SUFFICES ASSUME EngineInit PROVE Books
  OBVIOUS
<1>1. \A w \in Workers : ~Busy(wk[w])
  BY DEF EngineInit, Resting, Busy, AtRest
<1>2. InOrder
  BY DEF EngineInit, Init, InOrder, Absent, Uncertain
<1> QED  BY <1>1, <1>2 DEF Books, Tickets, Distinct, Accounts, Mine

LEMMA BooksAlways == EngineSpec => [](Inv /\ Books)
<1>1. Inv /\ Books /\ [EngineNext]_allVars => (Inv /\ Books)'
  BY EverySound, EveryBooks DEF Sound
<1>2. EngineInit => Inv /\ Books
  BY InitSound, InitBooks
<1> QED  BY <1>1, <1>2, PTL DEF EngineSpec

(***************************************************************************)
(* How a review ends.                                                      *)
(***************************************************************************)

Opens == \A r \in Reviews : rev[r].status \notin Terminal => rev'[r].status \notin Terminal

Ends(r) == rev[r].status \notin Terminal /\ rev'[r].status \in Terminal

LEMMA OpenRow ==
  ASSUME Inv, NEW r \in Reviews, NEW row, SetRow(r, row), row.status \notin Terminal
  PROVE  Opens
BY RowWritten DEF Opens

LEMMA OpenSame == UNCHANGED rev => Opens
BY DEF Opens

(* The ways a row is written that do not end it.                           *)
LEMMA OpenWrites ==
  ASSUME Inv, NEW r \in Reviews,
         \/ \E t : RequeueReview(r, t) \/ FinishReviewReconciliationRequired(r, t)
         \/ \E t, v : SetReviewRevision(r, t, v)
         \/ \E t, n, v : PrepareReviewPublication(r, t, n, v)
         \/ \E p, f : ClaimNextQueuedReview(r, p, f)
         \/ CreateReview(r)
  PROVE  Opens
<1>1. rev[r] \in ReviewRow
  BY DEF Inv, Tables, TypeOK
<1>2. \A v :
        /\ [rev[r] EXCEPT !.status = "queued"].status = "queued"
        /\ [rev[r] EXCEPT !.status = "queued", !.owner = NoProc].status = "queued"
        /\ [rev[r] EXCEPT !.status = "reconciliation_required", !.owner = NoProc].status = "reconciliation_required"
        /\ [rev[r] EXCEPT !.head = v].status = rev[r].status
        /\ [rev[r] EXCEPT !.commit = v].status = rev[r].status
  BY <1>1 DEF ReviewRow
<1>3. "queued" \notin Terminal /\ "running" \notin Terminal /\ "reconciliation_required" \notin Terminal
  BY DEF Terminal
<1>4. CASE \E t : RequeueReview(r, t) \/ FinishReviewReconciliationRequired(r, t)
  BY <1>2, <1>3, <1>4, OpenRow DEF RequeueReview, FinishReviewReconciliationRequired
<1>5. CASE \E t, v : SetReviewRevision(r, t, v)
  <2>1. PICK t, v : SetReviewRevision(r, t, v)
    BY <1>5
  <2>2. rev[r].status = "running" /\ SetRow(r, [rev[r] EXCEPT !.head = v])
    BY <2>1 DEF SetReviewRevision, HoldsReview
  <2> DEFINE row == [rev[r] EXCEPT !.head = v]
  <2>3. row.status = "running"
    BY <1>2, <2>2
  <2> HIDE DEF row
  <2> QED  BY <1>3, <2>2, <2>3, OpenRow DEF row
<1>6. CASE \E t, n, v : PrepareReviewPublication(r, t, n, v)
  <2>1. PICK t, n, v : PrepareReviewPublication(r, t, n, v)
    BY <1>6
  <2>2. rev[r].status = "running" /\ SetRow(r, [rev[r] EXCEPT !.commit = v])
    BY <2>1 DEF PrepareReviewPublication, HoldsReview
  <2> DEFINE row == [rev[r] EXCEPT !.commit = v]
  <2>3. row.status = "running"
    BY <1>2, <2>2
  <2> HIDE DEF row
  <2> QED  BY <1>3, <2>2, <2>3, OpenRow DEF row
<1>7. CASE \E p, f : ClaimNextQueuedReview(r, p, f)
  <2>1. PICK p, f : ClaimNextQueuedReview(r, p, f)
    BY <1>7
  <2> DEFINE row == [rev[r] EXCEPT !.status = "running", !.owner = p, !.fence = f, !.gen = rev[r].gen + 1]
  <2>2. SetRow(r, row)
    BY <2>1 DEF ClaimNextQueuedReview
  <2>3. row.status = "running"
    BY <1>1 DEF ReviewRow
  <2> HIDE DEF row
  <2> QED  BY <1>3, <2>2, <2>3, OpenRow
<1>8. CASE CreateReview(r)
  BY <1>2, <1>3, <1>8, OpenRow DEF CreateReview
<1> QED  BY <1>4, <1>5, <1>6, <1>7, <1>8

LEMMA RecoveryOpens ==
  ASSUME Inv, NEW p, NEW f, RecoverInterruptedReviews(p, f)
  PROVE  Opens
<1> DEFINE back(r) == [rev[r] EXCEPT !.status = "queued", !.owner = NoProc]
<1>1. \A r \in Reviews : back(r).status = "queued"
  BY DEF Inv, Tables, TypeOK, ReviewRow
<1>2. rev' = [r \in Reviews |-> IF Interrupted(r, f) THEN back(r) ELSE rev[r]]
  BY Zenon DEF RecoverInterruptedReviews
<1> HIDE DEF back
<1>3. \A r \in Reviews : rev'[r] = rev[r] \/ rev'[r].status = "queued"
  BY <1>1, <1>2
<1> QED  BY <1>3 DEF Opens, Terminal

(* Only a worker that finishes its review or hands an error on ends one.   *)
LEMMA WhoEnds ==
  ASSUME Inv, [EngineNext]_allVars
  PROVE  Opens \/ \E w \in Workers : FinishReview(w) \/ (HandleReviewError(w) /\ FinishReviewFailed(wk[w].r, TicketOf(w)))
<1>1. ASSUME NEW w \in Workers, GithubFails(w) \/ DiskFails(w) \/ Deadline(w) \/ CheckFails(w) PROVE Opens
  BY <1>1, OpenSame DEF GithubFails, DiskFails, Deadline, CheckFails, vars
<1>2. ASSUME NEW w \in Workers, WorkerReturns(w) \/ RecoverExpiredWork(w) \/ NothingToClaim(w) PROVE Opens
  BY <1>2, OpenSame, RecoveryOpens DEF WorkerReturns, RecoverExpiredWork, NothingToClaim, vars
<1>3. ASSUME NEW w \in Workers,
             Verify(w) \/ HeadChanged(w) \/ HeadUnchanged(w) \/ ReadInputs(w) \/ RunAgent(w) \/ StartPublishing(w)
               \/ Preflight(w) \/ CheckBeforePost(w) \/ PostAnswered(w) \/ PostUnanswered(w) \/ Post(w)
      PROVE  Opens
  BY <1>3, OpenSame DEF Verify, HeadChanged, HeadUnchanged, ReadInputs, RunAgent, StartPublishing,
       Preflight, CheckBeforePost, PostAnswered, PostUnanswered, Post, vars
<1>4. ASSUME NEW w \in Workers, NextPublication(w) \/ BeginSend(w) \/ MarkPosted(w) \/ PublicationUncertain(w)
                                  \/ ReconcilePublication(w) \/ SettlePrepared(w)
      PROVE  Opens
  <2>1. UNCHANGED rev
    BY <1>4 DEF NextPublication, BeginSend, MarkPosted, PublicationUncertain, ReconcilePublication, SettlePrepared,
         ExpireSend, ClaimPending, BeginPublicationSend, MarkPublicationPosted,
         MarkPublicationReconciliationRequired, vars
  <2> QED  BY <2>1, OpenSame
<1>5. ASSUME NEW w \in Workers, ClaimReview(w) PROVE Opens
  BY <1>5, OpenWrites DEF ClaimReview
<1>6. ASSUME NEW w \in Workers, RecordRevision(w) \/ PreparePublication(w) PROVE Opens
  <2>1. wk[w].r \in Reviews
    BY <1>6, Holding DEF RecordRevision, PreparePublication, Check, At, AtRest
  <2> QED  BY <1>6, <2>1, OpenWrites, OpenSame DEF RecordRevision, PreparePublication, vars
<1>7. ASSUME NEW w \in Workers, HandleReviewError(w), ~FinishReviewFailed(wk[w].r, TicketOf(w)) PROVE Opens
  <2>1. wk[w].r \in Reviews
    BY <1>7, Holding DEF HandleReviewError, At, AtRest
  <2> QED  BY <1>7, <2>1, OpenWrites, OpenSame DEF HandleReviewError, vars
<1>8. ASSUME NEW w \in Workers, WorkerStep(w)
      PROVE  Opens \/ FinishReview(w) \/ (HandleReviewError(w) /\ FinishReviewFailed(wk[w].r, TicketOf(w)))
  BY <1>1, <1>2, <1>3, <1>4, <1>5, <1>6, <1>7, <1>8 DEF WorkerStep
<1>9. ASSUME NEW p \in Procs, EngineStep(p) \/ Stop(p) \/ Crash(p) PROVE Opens
  BY <1>9, OpenSame, RecoveryOpens DEF EngineStep, Start, RecoverAndServe, RenewServiceLease, StopFinishes, Stop, Crash,
       Aside, storeVars
<1>10. ASSUME \/ LeaseExpires
              \/ \E r \in Reviews : RetryIsDue(r)
              \/ \E r \in Reviews, k \in Items : WindowCloses(r, k) \/ CommentAppears(r, k) \/ RequestIsLost(r, k)
              \/ \E x \in PRs : PullMoves(x)
              \/ UNCHANGED allVars
       PROVE  Opens
  BY <1>10, OpenSame DEF LeaseExpires, RetryIsDue, WindowCloses, CommentAppears, RequestIsLost, PullMoves,
       allVars, Aside, RetryDue, HandoffElapses, vars
<1>11. ASSUME NEW r \in Reviews, Requested(r) PROVE Opens
  BY <1>11, OpenWrites DEF Requested
<1> QED  BY <1>1, <1>8, <1>9, <1>10, <1>11 DEF EngineNext, Trouble, Smooth

(* A worker that fails a review has resumed it, and has not come to doubt  *)
(* one of its effects since.                                               *)
LEMMA WhoFails ==
  ASSUME Inv, Books, NEW w \in Workers, HandleReviewError(w), FinishReviewFailed(wk[w].r, TicketOf(w)),
         Unsettled(wk[w].r) # {}
  PROVE  /\ At(w, "failing") /\ wk[w].prep /\ "reconcile" \notin wk[w].err
<1>1. At(w, "failing") /\ HoldsReview(wk[w].r, TicketOf(w)) /\ wk[w].r \in Reviews
  BY Holding DEF HandleReviewError, FinishReviewFailed, At, AtRest
<1>2. Mine(wk[w])
  BY <1>1, HolderIsMine DEF Busy, At, AtRest
<1>3. Accounted(wk[w], Unsettled(wk[w].r))
  BY <1>1, <1>2, KnownNow DEF Known, At
<1>4. rev'[wk[w].r].status = "failed"
  <2>1. [rev[wk[w].r] EXCEPT !.status = "failed"].status = "failed"
    BY <1>1 DEF Inv, Tables, TypeOK, ReviewRow
  <2> QED  BY <1>1, <2>1, RowWritten DEF FinishReviewFailed
<1>5. rev[wk[w].r].status = "running"
  BY <1>1 DEF HoldsReview
<1>6. Disposition(w) = "fail"
  <2>1. ~UNCHANGED vars
    BY <1>4, <1>5 DEF vars
  <2>2. ~RequeueReview(wk[w].r, TicketOf(w)) /\ ~FinishReviewReconciliationRequired(wk[w].r, TicketOf(w))
    <3>1. \A s \in {"queued", "reconciliation_required"} :
            [rev[wk[w].r] EXCEPT !.status = s, !.owner = NoProc].status = s
      BY <1>1 DEF Inv, Tables, TypeOK, ReviewRow
    <3> QED  BY <1>1, <1>4, <3>1, RowWritten DEF RequeueReview, FinishReviewReconciliationRequired
  <2> QED  BY <2>1, <2>2 DEF HandleReviewError
<1>7. "lost" \notin wk[w].err /\ ~NeedsReconciliation(w)
  BY <1>6 DEF Disposition
<1>8. "reconcile" \notin wk[w].err
  BY <1>7 DEF NeedsReconciliation
<1> QED  BY <1>1, <1>3, <1>7, <1>8 DEF Accounted

LEMMA FinishedIsSettled ==
  ASSUME Inv, NEW w \in Workers, FinishReview(w)
  PROVE  Unsettled(wk[w].r) = {}
BY DEF FinishReview, FinishReviewDone, AllPosted, Unsettled, Uncertain

(* The row that ends is the one its worker holds.                          *)
LEMMA EndsHeld ==
  ASSUME Inv, NEW w \in Workers, FinishReview(w) \/ FinishReviewFailed(wk[w].r, TicketOf(w)), At(w, "failing") \/ At(w, "publishing"),
         NEW r \in Reviews, Ends(r)
  PROVE  wk[w].r = r
<1>1. wk[w].r \in Reviews
  BY Holding DEF At, AtRest
<1>2. \A q \in Reviews : q # wk[w].r => rev'[q] = rev[q]
  BY <1>1, RowWritten DEF FinishReview, FinishReviewDone, FinishReviewFailed
<1> QED  BY <1>2 DEF Ends

Stranding(w, r) ==
  /\ At(w, "failing") /\ wk[w].r = r
  /\ wk[w].prep /\ "reconcile" \notin wk[w].err

LEMMA EndStep ==
  ASSUME Inv, Books, [EngineNext]_allVars, NEW r \in Reviews, Ends(r), Unsettled(r) # {}
  PROVE  \E w \in Workers : Stranding(w, r)
<1>1. PICK w \in Workers : FinishReview(w) \/ (HandleReviewError(w) /\ FinishReviewFailed(wk[w].r, TicketOf(w)))
  BY WhoEnds DEF Ends, Opens
<1>2. wk[w].r = r
  BY <1>1, EndsHeld DEF FinishReview, HandleReviewError, Check
<1>3. ~FinishReview(w)
  BY <1>2, FinishedIsSettled
<1> QED  BY <1>1, <1>2, <1>3, WhoFails DEF Stranding

Resumed ==
  \A r \in Reviews : Ends(r) /\ Unsettled(r) # {} => \E w \in Workers : Stranding(w, r)

(* handleReviewError (engine.go): whatever goes wrong, an execution        *)
(* accounts for every effect of a plan it made itself.  A review is given  *)
(* up over an uncertain comment only by an execution that resumed an       *)
(* earlier plan and never got to look for that comment.                    *)
THEOREM OnlyResumptionsStrand == EngineSpec => OnlyResumptionStrands
<1>1. Inv /\ Books /\ [EngineNext]_allVars => [Resumed]_allVars
  BY EndStep DEF Resumed
<1> QED  BY <1>1, BooksAlways, PTL DEF EngineSpec, OnlyResumptionStrands, Resumed, Ends, Stranding

================================================================================
