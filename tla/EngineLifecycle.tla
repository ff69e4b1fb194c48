---------------------------- MODULE EngineLifecycle ----------------------------
(***************************************************************************)
(* The goroutines, locks and channels of src/internal/bot/engine.go: what  *)
(* Start launches, how Ready, the renewal goroutine and the workers find   *)
(* that the lease is gone, how Stop drains them, and how the wake channel  *)
(* and the poll timer bring a waiting worker back to the queue.            *)
(*                                                                         *)
(* startMu is held across steps only by Start, which asks the database     *)
(* under it; every other critical section is one step that finds the lock  *)
(* free.  A term is one successful Start: its number stands for the owner  *)
(* token, drawn afresh, and for the fence.                                 *)
(***************************************************************************)
EXTENDS Naturals, FiniteSets

CONSTANTS
  Workers,     \* the worker goroutines that one Start launches
  Renewal,     \* its renewal goroutine
  Callers,     \* goroutines that call Start, Stop and Ready
  Impatient,   \* those whose context for Stop has a deadline
  Free,        \* nobody: the lock is free
  MaxTerm,     \* bound on the successful Starts
  Scopes       \* what is explored together, see scope

ASSUME LifecycleAssumption ==
  /\ Renewal \notin Workers
  /\ Impatient \subseteq Callers
  /\ Free \notin Callers
  /\ MaxTerm \in Nat
  /\ Scopes \subseteq [callers : SUBSET Callers, calls : SUBSET {"Start", "Stop", "Ready"}, terms : 0..MaxTerm,
                      workers : SUBSET Workers, kinds : SUBSET {"review", "nudge"}]

VARIABLES
  scope,      \* bounds of this behaviour: who calls what, how many Starts, of which workers, what arrives
  mu,         \* startMu: who holds it
  eng,        \* the fields startMu guards; owner 0 is the empty token
  terms,      \* the fence of the lease row
  row,        \* the term whose lease is current in the database, 0 if none
  cancelled,  \* the terms whose context is cancelled
  run,        \* run[t][g]: where goroutine g of term t is
  stop,       \* stop[t]: how far the shutdown of term t has come
  doubted,    \* the terms whose lease somebody asked about in vain
  unreleased, \* the terms whose release failed
  call,       \* call[c]: what caller c is doing, and for which term
  wake,       \* the wake channel holds a token
  due,        \* the kinds of work with a row that may be claimed
  unsignalled \* the kinds committed by a handler that has not signalled yet

vars == <<scope, mu, eng, terms, row, cancelled, run, stop, doubted, unreleased, call, wake, due, unsignalled>>
work == <<wake, due, unsignalled>>

Terms      == 1..MaxTerm
Goroutines == Workers \cup {Renewal}
Kinds      == {"review", "nudge"}
Other(k)   == IF k = "review" THEN "nudge" ELSE "review"

WorkerPlaces == {"top", "asking", "first", "second", "other", "working", "waiting", "napping"}
CallerPlaces == {"away", "acquiring", "recovering", "draining", "awaiting", "reading", "asking"}
StopPlaces   == {"none", "cancelling", "waiting", "resetting", "closing", "closed"}

NotRunning == [place |-> "gone", term |-> 0, prefer |-> "review"]
Away       == [place |-> "away", term |-> 0]

Fields  == [started : BOOLEAN, stopping : BOOLEAN, ready : BOOLEAN, owner : 0..MaxTerm, stopDone : 0..MaxTerm]
Routine == [place : WorkerPlaces \cup {"gone", "ticking"}, term : 0..MaxTerm, prefer : Kinds]
Calling == [place : CallerPlaces, term : 0..MaxTerm]

TypeOK ==
  /\ scope \in Scopes
  /\ mu \in Callers \cup {Free}
  /\ eng \in Fields
  /\ terms \in 0..MaxTerm /\ row \in 0..MaxTerm
  /\ cancelled \subseteq Terms /\ doubted \subseteq Terms /\ unreleased \subseteq Terms
  /\ run \in [Terms -> [Goroutines -> Routine]]
  /\ stop \in [Terms -> StopPlaces]
  /\ call \in [Callers -> Calling]
  /\ wake \in BOOLEAN /\ due \subseteq Kinds /\ unsignalled \subseteq Kinds

Init ==
  /\ scope \in Scopes
  /\ mu = Free
  /\ eng = [started |-> FALSE, stopping |-> FALSE, ready |-> FALSE, owner |-> 0, stopDone |-> 0]
  /\ terms = 0 /\ row = 0
  /\ cancelled = {} /\ doubted = {} /\ unreleased = {}
  /\ run = [t \in Terms |-> [g \in Goroutines |-> NotRunning]]
  /\ stop = [t \in Terms |-> "none"]
  /\ call = [c \in Callers |-> Away]
  /\ wake = FALSE /\ due = {} /\ unsignalled = {}

-------------------------------------------------------------------------------
(* What several operations share.                                          *)

Alive(t) == {g \in Goroutines : run[t][g].place # "gone"}

(* wg.Wait returns: the wait group counts the goroutines of every term.    *)
Drained == \A t \in Terms : Alive(t) = {}

(* currentLease: nothing unless the engine is started and ready.           *)
CurrentLease == IF eng.started /\ eng.ready THEN eng.owner ELSE 0

(* Mutant: whoever finds a lease gone cancels the present work.            *)
LosePresent(owner) ==
  /\ mu = Free
  /\ doubted' = doubted \cup {owner}
  /\ IF eng.started \/ eng.stopping
     THEN /\ eng' = [eng EXCEPT !.ready = FALSE]
          /\ cancelled' = cancelled \cup {eng.owner}
     ELSE UNCHANGED <<eng, cancelled>>

(* loseServiceLease: a loss of another owner than the present one, or of a *)
(* finished one, is ignored.  The cancel function is read under the lock.  *)
Lose(owner) ==
  /\ mu = Free
  /\ doubted' = doubted \cup {owner}
  /\ IF eng.owner = owner /\ (eng.started \/ eng.stopping)
     THEN /\ eng' = [eng EXCEPT !.ready = FALSE]
          /\ cancelled' = cancelled \cup {owner}
     ELSE UNCHANGED <<eng, cancelled>>

Keep == UNCHANGED <<eng, cancelled, doubted>>

At(c, place)    == call[c].place = place
Calls(c, op)    == op \in scope.calls /\ At(c, "away") /\ mu = Free
Goto(c, place)  == call' = [call EXCEPT ![c].place = place]
Return(c)       == call' = [call EXCEPT ![c] = Away]

(* The lease row outside this engine: it expires when it is not renewed in *)
(* time, whether or not another process takes it.                          *)
Lapse ==
  /\ row # 0
  /\ row' = 0
  /\ UNCHANGED <<mu, eng, terms, cancelled, run, stop, doubted, unreleased, call, work>>

-------------------------------------------------------------------------------
(* Start                                                                   *)

(* Mutant: Start does not wait for a shutdown under way.                   *)
StartLockAtOnce(c) ==
  /\ Calls(c, "Start")
  /\ ~eng.started
  /\ terms < scope.terms
  /\ mu' = c
  /\ Goto(c, "acquiring")
  /\ UNCHANGED <<eng, terms, row, cancelled, run, stop, doubted, unreleased, work>>

StartLock(c) ==
  /\ Calls(c, "Start")
  /\ ~(eng.started \/ eng.stopping)
  /\ terms < scope.terms
  /\ mu' = c
  /\ Goto(c, "acquiring")
  /\ UNCHANGED <<eng, terms, row, cancelled, run, stop, doubted, unreleased, work>>

(* The lease is free, or the call fails or finds another holder.           *)
StartAcquire(c) ==
  /\ At(c, "acquiring")
  /\ \/ /\ row = 0
        /\ terms' = terms + 1 /\ row' = terms + 1
        /\ call' = [call EXCEPT ![c] = [place |-> "recovering", term |-> terms + 1]]
        /\ UNCHANGED mu
     \/ /\ mu' = Free /\ Return(c)
        /\ UNCHANGED <<terms, row>>
  /\ UNCHANGED <<eng, cancelled, run, stop, doubted, unreleased, work>>

(* Recovery succeeded under the lease: the fields are set and the          *)
(* goroutines launched before the lock is given up.                        *)
StartLaunch(c) ==
  LET t == call[c].term IN
  /\ At(c, "recovering")
  /\ row = t
  /\ eng' = [eng EXCEPT !.started = TRUE, !.ready = TRUE, !.owner = t]
  /\ run' = [run EXCEPT ![t] = [g \in Goroutines |->
               IF g = Renewal THEN [NotRunning EXCEPT !.place = "ticking"]
               ELSE IF g \in scope.workers THEN [NotRunning EXCEPT !.place = "top"] ELSE NotRunning]]
  /\ mu' = Free /\ Return(c)
  /\ UNCHANGED <<terms, row, cancelled, stop, doubted, unreleased, work>>

(* releaseOnError: recovery failed, or the lease ran out under it; the     *)
(* release may fail as well.                                               *)
StartFail(c) ==
  /\ At(c, "recovering")
  /\ row' \in {row, IF row = call[c].term THEN 0 ELSE row}
  /\ mu' = Free /\ Return(c)
  /\ UNCHANGED <<eng, terms, cancelled, run, stop, doubted, unreleased, work>>

-------------------------------------------------------------------------------
(* Ready                                                                   *)

ReadyRead(c) ==
  /\ Calls(c, "Ready")
  /\ eng.started /\ eng.ready
  /\ call' = [call EXCEPT ![c] = [place |-> "asking", term |-> eng.owner]]
  /\ UNCHANGED <<mu, eng, terms, row, cancelled, run, stop, doubted, unreleased, work>>

(* The database is asked without the lock; no answer counts as a loss.     *)
ReadyAnswer(c) ==
  /\ At(c, "asking")
  /\ \/ row = call[c].term /\ Keep
     \/ Lose(call[c].term)
  /\ Return(c)
  /\ UNCHANGED <<mu, terms, row, run, stop, unreleased, work>>

-------------------------------------------------------------------------------
(* Stop                                                                    *)

StopEnter(c) ==
  /\ Calls(c, "Stop")
  /\ \/ /\ eng.stopping
        /\ call' = [call EXCEPT ![c] = [place |-> "awaiting", term |-> eng.stopDone]]
        /\ UNCHANGED <<eng, stop>>
     \/ /\ ~eng.stopping /\ eng.started
        /\ eng' = [eng EXCEPT !.stopping = TRUE, !.started = FALSE, !.ready = FALSE, !.stopDone = eng.owner]
        /\ stop' = [stop EXCEPT ![eng.owner] = "cancelling"]
        /\ call' = [call EXCEPT ![c] = [place |-> "draining", term |-> eng.owner]]
  /\ UNCHANGED <<mu, terms, row, cancelled, run, doubted, unreleased, work>>

StopCancel(t) ==
  /\ stop[t] = "cancelling"
  /\ cancelled' = cancelled \cup {t}
  /\ stop' = [stop EXCEPT ![t] = "waiting"]
  /\ UNCHANGED <<mu, eng, terms, row, run, doubted, unreleased, call, work>>

(* Mutant: the caller that times out takes the shutdown with it.           *)
StopAbandoned(c) ==
  /\ c \in Impatient
  /\ \/ At(c, "awaiting") /\ UNCHANGED stop
     \/ /\ At(c, "draining") /\ stop[call[c].term] = "waiting"
        /\ stop' = [stop EXCEPT ![call[c].term] = "none"]
  /\ Return(c)
  /\ UNCHANGED <<mu, eng, terms, row, cancelled, run, doubted, unreleased, work>>

(* The caller's deadline passes: the wait for the workers goes on without  *)
(* the caller that began it, but only as long as it is still a wait.       *)
StopTimeout(c) ==
  /\ c \in Impatient
  /\ \/ At(c, "awaiting")
     \/ At(c, "draining") /\ stop[call[c].term] = "waiting"
  /\ Return(c)
  /\ UNCHANGED <<mu, eng, terms, row, cancelled, run, stop, doubted, unreleased, work>>

(* Mutant: the lease is released while workers may still use it.           *)
FinishReleaseEarly(t) ==
  /\ stop[t] = "waiting"
  /\ row' = (IF row = t THEN 0 ELSE row)
  /\ stop' = [stop EXCEPT ![t] = "resetting"]
  /\ UNCHANGED <<mu, eng, terms, cancelled, run, doubted, unreleased, call, work>>

(* finish, run by the caller or by the cleanup it left behind: release the *)
(* lease, reset the fields, close the channel.                             *)
FinishRelease(t) ==
  /\ stop[t] = "waiting" /\ Drained
  /\ \/ row' = (IF row = t THEN 0 ELSE row) /\ UNCHANGED unreleased
     \/ unreleased' = unreleased \cup {t} /\ UNCHANGED row
  /\ stop' = [stop EXCEPT ![t] = "resetting"]
  /\ UNCHANGED <<mu, eng, terms, cancelled, run, doubted, call, work>>

FinishReset(t) ==
  /\ stop[t] = "resetting" /\ mu = Free
  /\ eng' = [eng EXCEPT !.stopping = FALSE, !.ready = FALSE, !.owner = 0, !.stopDone = 0]
  /\ stop' = [stop EXCEPT ![t] = "closing"]
  /\ UNCHANGED <<mu, terms, row, cancelled, run, doubted, unreleased, call, work>>

FinishClose(t) ==
  /\ stop[t] = "closing"
  /\ stop' = [stop EXCEPT ![t] = "closed"]
  /\ UNCHANGED <<mu, eng, terms, row, cancelled, run, doubted, unreleased, call, work>>

StopSee(c) ==
  /\ call[c].place \in {"draining", "awaiting"}
  /\ stop[call[c].term] = "closed"
  /\ Goto(c, "reading")
  /\ UNCHANGED <<mu, eng, terms, row, cancelled, run, stop, doubted, unreleased, work>>

StopReturn(c) ==
  /\ At(c, "reading") /\ mu = Free
  /\ Return(c)
  /\ UNCHANGED <<mu, eng, terms, row, cancelled, run, stop, doubted, unreleased, work>>

-------------------------------------------------------------------------------
(* The renewal goroutine                                                   *)

Move(t, g, place) == run' = [run EXCEPT ![t][g].place = place]
Leave(t, g)       == run' = [run EXCEPT ![t][g] = NotRunning]

RenewalExit(t) ==
  /\ run[t][Renewal].place = "ticking"
  /\ t \in cancelled
  /\ Leave(t, Renewal)
  /\ UNCHANGED <<mu, eng, terms, row, cancelled, stop, doubted, unreleased, call, work>>

(* A tick at which there is no current lease, or the row is another's,     *)
(* ends the goroutine, and so does an error of the renewal.  A renewal     *)
(* that is granted changes nothing here.                                   *)
RenewalTick(t) ==
  /\ run[t][Renewal].place = "ticking" /\ mu = Free
  /\ row # CurrentLease \/ CurrentLease = 0
  /\ IF CurrentLease = 0 THEN Keep ELSE Lose(CurrentLease)
  /\ Leave(t, Renewal)
  /\ UNCHANGED <<mu, terms, row, stop, unreleased, call, work>>

RenewalFails(t) ==
  /\ run[t][Renewal].place = "ticking"
  /\ CurrentLease # 0 /\ Lose(CurrentLease)
  /\ Leave(t, Renewal)
  /\ UNCHANGED <<mu, terms, row, stop, unreleased, call, work>>

-------------------------------------------------------------------------------
(* A worker                                                                *)

Worker(t, w, place) == w \in Workers /\ run[t][w].place = place

(* The loop's first line reads the fields of serviceLeaseOwned; then the   *)
(* database is asked about the owner read.                                 *)
Top(t, w) ==
  /\ Worker(t, w, "top") /\ mu = Free
  /\ IF t \in cancelled \/ (~eng.started /\ eng.stopping)
     THEN Leave(t, w)
     ELSE run' = [run EXCEPT ![t][w] = [@ EXCEPT !.place = "asking", !.term = eng.owner]]
  /\ UNCHANGED <<mu, eng, terms, row, cancelled, stop, doubted, unreleased, call, work>>

(* The worker goes on when the database confirms the lease and the         *)
(* transactions of recoverExpiredWork do, which take the owner anew.       *)
Ask(t, w) ==
  /\ Worker(t, w, "asking") /\ mu = Free
  /\ \/ /\ row = run[t][w].term /\ row = CurrentLease
        /\ run' = [run EXCEPT ![t][w] = [@ EXCEPT !.place = "first", !.term = 0]]
        /\ Keep
     \/ row # run[t][w].term /\ Lose(run[t][w].term) /\ Leave(t, w)
     \/ row = run[t][w].term /\ CurrentLease = 0 /\ Leave(t, w) /\ Keep
  /\ UNCHANGED <<mu, terms, row, stop, unreleased, call, work>>

(* One of these checks gets no answer.                                     *)
AskFails(t, w) ==
  /\ Worker(t, w, "asking")
  /\ \E owner \in {run[t][w].term, CurrentLease} \ {0} : Lose(owner)
  /\ Leave(t, w)
  /\ UNCHANGED <<mu, terms, row, stop, unreleased, call, work>>

(* claimAndProcess: the preferred kind, then the other.  A claim that      *)
(* fails or finds no lease counts as finding nothing.                      *)
Wanted(t, w) ==
  IF run[t][w].place = "first" THEN run[t][w].prefer ELSE Other(run[t][w].prefer)

Claiming(t, w) == w \in Workers /\ run[t][w].place \in {"first", "second", "other"}

Claim(t, w) ==
  /\ Claiming(t, w) /\ mu = Free
  /\ t \notin cancelled
  /\ CurrentLease # 0 /\ row = CurrentLease
  /\ Wanted(t, w) \in due
  /\ due' = due \ {Wanted(t, w)}
  /\ Move(t, w, "working")
  /\ UNCHANGED <<mu, eng, terms, row, cancelled, stop, doubted, unreleased, call, wake, unsignalled>>

(* Mutant: the worker never changes its preference.                        *)
TurnNot(t, w, place) == run' = [run EXCEPT ![t][w].place = place]

Turn(t, w, place) ==
  run' = [run EXCEPT ![t][w] = [@ EXCEPT !.place = place, !.prefer = Other(run[t][w].prefer)]]

GoOn(t, w) ==
  CASE run[t][w].place = "first"  -> Move(t, w, "second")
    [] run[t][w].place = "second" -> Turn(t, w, "waiting")
    [] run[t][w].place = "other"  -> Turn(t, w, "napping")

FindNothing(t, w) ==
  /\ Claiming(t, w) /\ mu = Free
  /\ CurrentLease = 0 \/ row # CurrentLease \/ t \in cancelled \/ Wanted(t, w) \notin due
  /\ GoOn(t, w)
  /\ IF CurrentLease # 0 /\ row # CurrentLease THEN Lose(CurrentLease) ELSE Keep
  /\ UNCHANGED <<mu, terms, row, stop, unreleased, call, work>>

(* mayProcess gets no answer, which counts as a loss.                      *)
MayProcessFails(t, w) ==
  /\ Claiming(t, w)
  /\ CurrentLease # 0 /\ Lose(CurrentLease)
  /\ GoOn(t, w)
  /\ UNCHANGED <<mu, terms, row, stop, unreleased, call, work>>

(* A claim that fails for another reason is logged: the worker tries the   *)
(* other kind ("other"), and waits with work left behind ("napping").      *)
ClaimFails(t, w) ==
  /\ Claiming(t, w)
  /\ IF run[t][w].place = "first" THEN Move(t, w, "other") ELSE Turn(t, w, "napping")
  /\ UNCHANGED <<mu, eng, terms, row, cancelled, stop, doubted, unreleased, call, work>>

(* What was claimed is processed to an end that leaves nothing due.        *)
Finish(t, w) ==
  /\ Worker(t, w, "working")
  /\ Turn(t, w, "top")
  /\ UNCHANGED <<mu, eng, terms, row, cancelled, stop, doubted, unreleased, call, work>>

Waiting(t, w) == w \in Workers /\ run[t][w].place \in {"waiting", "napping"}

WaitEnds(t, w) ==
  /\ Waiting(t, w)
  /\ t \in cancelled
  /\ Leave(t, w)
  /\ UNCHANGED <<mu, eng, terms, row, cancelled, stop, doubted, unreleased, call, work>>

Wake(t, w) ==
  /\ Waiting(t, w)
  /\ wake
  /\ wake' = FALSE
  /\ Move(t, w, "top")
  /\ UNCHANGED <<mu, eng, terms, row, cancelled, stop, doubted, unreleased, call, due, unsignalled>>

PollTimer(t, w) ==
  /\ Waiting(t, w)
  /\ Move(t, w, "top")
  /\ UNCHANGED <<mu, eng, terms, row, cancelled, stop, doubted, unreleased, call, work>>

-------------------------------------------------------------------------------
(* A webhook handler commits a row and calls Enqueue or EnqueueNudge,      *)
(* which never blocks: a channel that is full needs no second token.       *)

Commit(k) ==
  /\ k \in scope.kinds \ due
  /\ due' = due \cup {k}
  /\ unsignalled' = unsignalled \cup {k}
  /\ UNCHANGED <<mu, eng, terms, row, cancelled, run, stop, doubted, unreleased, call, wake>>

(* Mutant: the channel has no buffer, so only a waiting worker is reached. *)
SignalUnbuffered(k) ==
  /\ k \in unsignalled
  /\ unsignalled' = unsignalled \ {k}
  /\ wake' = (wake \/ \E t \in Terms, w \in Workers : run[t][w].place \in {"waiting", "napping"})
  /\ UNCHANGED <<mu, eng, terms, row, cancelled, run, stop, doubted, unreleased, call, due>>

Signal(k) ==
  /\ k \in unsignalled
  /\ unsignalled' = unsignalled \ {k}
  /\ wake' = TRUE
  /\ UNCHANGED <<mu, eng, terms, row, cancelled, run, stop, doubted, unreleased, call, due>>

-------------------------------------------------------------------------------
StartNext(c) == StartLock(c) \/ StartAcquire(c) \/ StartLaunch(c) \/ StartFail(c)

StopNext(c) == StopEnter(c) \/ StopTimeout(c) \/ StopSee(c) \/ StopReturn(c)

Shutdown(t) == StopCancel(t) \/ FinishRelease(t) \/ FinishReset(t) \/ FinishClose(t)

WorkerNext(t, w) ==
  \/ Top(t, w) \/ Ask(t, w)
  \/ Claim(t, w) \/ FindNothing(t, w)
  \/ Finish(t, w)
  \/ WaitEnds(t, w) \/ Wake(t, w) \/ PollTimer(t, w)

WorkerErrs(t, w) == AskFails(t, w) \/ MayProcessFails(t, w) \/ ClaimFails(t, w)

Next ==
  /\ UNCHANGED scope
  /\ \/ Lapse
     \/ \E c \in scope.callers : StartNext(c) \/ ReadyRead(c) \/ ReadyAnswer(c) \/ StopNext(c)
     \/ \E t \in Terms : Shutdown(t) \/ RenewalExit(t) \/ RenewalTick(t) \/ RenewalFails(t)
     \/ \E t \in Terms, w \in Workers : WorkerNext(t, w) \/ WorkerErrs(t, w)
     \/ \E k \in Kinds : Commit(k) \/ Signal(k)

Spec == Init /\ [][Next]_vars

(* Goroutines are scheduled and every database call and every review has a *)
(* time limit; deadlines and poll timers run out, and the database does    *)
(* not fail each claim of a kind.  Nothing is assumed of signals: the poll *)
(* timer alone must do.                                                    *)
CallProceeds(c) ==
  \/ StartAcquire(c) \/ StartLaunch(c) \/ StartFail(c)
  \/ ReadyAnswer(c)
  \/ StopTimeout(c) \/ StopSee(c)

ClaimOf(k) == \E t \in Terms, w \in Workers : Wanted(t, w) = k /\ Claim(t, w)

Fairness ==
  /\ \A c \in Callers : WF_vars(UNCHANGED scope /\ CallProceeds(c))
  /\ WF_vars(UNCHANGED scope /\ \E t \in Terms : Shutdown(t))
  /\ WF_vars(UNCHANGED scope /\ \E t \in Terms : RenewalExit(t) \/ RenewalTick(t))
  /\ \A w \in Workers : WF_vars(UNCHANGED scope /\ \E t \in Terms : WorkerNext(t, w))
  /\ \A k \in Kinds : SF_vars(UNCHANGED scope /\ ClaimOf(k))

FairSpec == Spec /\ Fairness

-------------------------------------------------------------------------------
(* A goroutine only runs while the engine is started or being stopped, and *)
(* under the owner it was launched with: a restart never finds goroutines  *)
(* of the term before, and the answer TRUE that serviceLeaseOwned gives of *)
(* an engine nobody started (engine.go:337) never reaches a worker.        *)
OneGeneration ==
  \A t \in Terms : Alive(t) # {} => eng.owner = t /\ (eng.started \/ eng.stopping)

(* Stop (engine.go:182-185): who returns from it other than by its         *)
(* deadline leaves no goroutine of the stopped term, nor its lease behind  *)
(* unless the release failed, whoever did the draining.                    *)
StoppedMeansReleased ==
  \A c \in Callers : At(c, "reading") =>
    Alive(call[c].term) = {} /\ (row # call[c].term \/ call[c].term \in unreleased)

(* loseServiceLease (engine.go:318): a check that began under one start of *)
(* the engine and fails under the next does not cancel the next one's      *)
(* work.  A context is cancelled by Stop or for its own term's lease.      *)
OnlyOwnLoss ==
  \A t \in cancelled : t \in doubted \/ stop[t] # "none"

(* signal (engine.go:378), the select in worker: however a commit and its  *)
(* signal fall between a worker's last claim and its wait, and although    *)
(* the channel holds one token for any number of signals, workers that all *)
(* wait because they found nothing leave a token for what was announced.   *)
NoLostWakeup ==
  \A t \in Terms :
    /\ CurrentLease = t /\ t \notin cancelled
    /\ \A w \in scope.workers : run[t][w].place = "waiting"
    /\ due \ unsignalled # {}
    => wake

(* Stop (engine.go:186) comes to its last lines: of callers with a         *)
(* deadline and without one, of the one that drains and those that wait    *)
(* for it, whoever gave up before.                                         *)
StopReturns ==
  \A c \in Callers : call[c].place \in {"draining", "awaiting"} ~> call[c].place \in {"reading", "away"}

(* worker (engine.go:386): as long as the engine serves, work of either    *)
(* kind is claimed in the end, although work of the other kind never stops *)
(* to arrive and although signals are lost: wake is only an optimization.  *)
DueIsClaimed ==
  \A k \in Kinds : k \in due ~> (k \notin due \/ CurrentLease = 0 \/ row # CurrentLease)

===============================================================================
