------------------------- MODULE EngineLifecycleProofs -------------------------
(***************************************************************************)
(* The safety properties of EngineLifecycle for every number of workers,   *)
(* callers and terms.                                                      *)
(*                                                                         *)
(* The fields that startMu guards and the shutdowns under way determine    *)
(* each other: a shutdown that has not reset the fields belongs to the     *)
(* owner, and whoever holds the lock inside Start finds the engine at      *)
(* rest.  From there no goroutine of another term than the owner's lives.  *)
(***************************************************************************)
EXTENDS EngineLifecycle, TLAPS

(* A caller inside Start has the lock to itself, the engine is at rest,    *)
(* and the term it may launch is the last one and was never stopped.       *)
StartAlone ==
  \A c \in Callers :
    /\ call[c].place \in {"acquiring", "recovering"} => mu = c /\ ~eng.started /\ ~eng.stopping
    /\ At(c, "acquiring") => terms < scope.terms
    /\ At(c, "recovering") => /\ call[c].term = terms /\ terms \in Terms /\ stop[terms] = "none"
    /\ call[c].place \in {"draining", "awaiting", "reading", "asking"} => call[c].term \in Terms
    /\ At(c, "reading") => stop[call[c].term] = "closed"

(* The fields and the owner's shutdown.                                    *)
FieldsAgree ==
  /\ eng.started => ~eng.stopping /\ eng.owner \in Terms /\ stop[eng.owner] = "none"
  /\ eng.stopping => eng.owner \in Terms /\ eng.stopDone = eng.owner
  /\ eng.owner <= terms

(* How far each shutdown has come.                                         *)
ShutdownsInOrder ==
  \A t \in Terms :
    /\ stop[t] \in {"cancelling", "waiting", "resetting"} => eng.stopping /\ eng.owner = t
    /\ stop[t] = "resetting" => Drained
    /\ stop[t] \in {"resetting", "closing", "closed"} => Alive(t) = {} /\ (row # t \/ t \in unreleased)
    /\ t > terms => stop[t] = "none"

(* A worker asks about its own term, and was launched with the others.     *)
WorkersKnow ==
  \A t \in Terms, g \in Goroutines :
    /\ run[t][g].place = "asking" => g \in Workers /\ run[t][g].term = t
    /\ g \in Workers /\ run[t][g].place # "gone" => g \in scope.workers /\ run[t][g].place # "ticking"

Control ==
  /\ TypeOK
  /\ StartAlone /\ FieldsAgree /\ ShutdownsInOrder /\ WorkersKnow
  /\ OneGeneration /\ OnlyOwnLoss

(***************************************************************************)
(* Types.                                                                  *)
(***************************************************************************)
LEMMA Bounds ==
  /\ MaxTerm \in Nat /\ Terms \subseteq Nat /\ 0 \notin Terms
  /\ \A t \in Nat : t \in Terms <=> t >= 1 /\ t <= MaxTerm
  /\ \A t \in 0..MaxTerm : t \in Nat /\ (t = 0 \/ t \in Terms)
  /\ 0 \in 0..MaxTerm /\ \A t \in Terms : t \in 0..MaxTerm
  /\ \A s \in Scopes : s.terms \in 0..MaxTerm /\ s.callers \subseteq Callers /\ s.workers \subseteq Workers
BY LifecycleAssumption DEF Terms

LEMMA FieldRecords ==
  \A e \in Fields :
    /\ e.started \in BOOLEAN /\ e.stopping \in BOOLEAN /\ e.ready \in BOOLEAN
    /\ e.owner \in 0..MaxTerm /\ e.stopDone \in 0..MaxTerm
    /\ [e EXCEPT !.ready = FALSE] \in Fields
    /\ \A t \in 0..MaxTerm : [e EXCEPT !.started = TRUE, !.ready = TRUE, !.owner = t] \in Fields
    /\ \A t \in 0..MaxTerm : [e EXCEPT !.stopping = TRUE, !.started = FALSE, !.ready = FALSE, !.stopDone = t] \in Fields
    /\ [e EXCEPT !.stopping = FALSE, !.ready = FALSE, !.owner = 0, !.stopDone = 0] \in Fields
<1> SUFFICES ASSUME NEW e \in Fields
             PROVE  /\ e.started \in BOOLEAN /\ e.stopping \in BOOLEAN /\ e.ready \in BOOLEAN
                    /\ e.owner \in 0..MaxTerm /\ e.stopDone \in 0..MaxTerm
                    /\ [e EXCEPT !.ready = FALSE] \in Fields
                    /\ \A t \in 0..MaxTerm : [e EXCEPT !.started = TRUE, !.ready = TRUE, !.owner = t] \in Fields
                    /\ \A t \in 0..MaxTerm : [e EXCEPT !.stopping = TRUE, !.started = FALSE, !.ready = FALSE, !.stopDone = t] \in Fields
                    /\ [e EXCEPT !.stopping = FALSE, !.ready = FALSE, !.owner = 0, !.stopDone = 0] \in Fields
  OBVIOUS
<1>1. /\ e.started \in BOOLEAN /\ e.stopping \in BOOLEAN /\ e.ready \in BOOLEAN
      /\ e.owner \in 0..MaxTerm /\ e.stopDone \in 0..MaxTerm
  BY DEF Fields
<1>2. [e EXCEPT !.ready = FALSE] \in Fields
  BY DEF Fields
<1>3. \A t \in 0..MaxTerm : [e EXCEPT !.started = TRUE, !.ready = TRUE, !.owner = t] \in Fields
  BY DEF Fields
<1>4. \A t \in 0..MaxTerm : [e EXCEPT !.stopping = TRUE, !.started = FALSE, !.ready = FALSE, !.stopDone = t] \in Fields
  BY DEF Fields
<1>5. [e EXCEPT !.stopping = FALSE, !.ready = FALSE, !.owner = 0, !.stopDone = 0] \in Fields
  <2>1. \A z \in 0..MaxTerm : [e EXCEPT !.stopping = FALSE, !.ready = FALSE, !.owner = z, !.stopDone = z] \in Fields
    BY DEF Fields
  <2> QED  BY <2>1, Bounds
<1> QED  BY <1>1, <1>2, <1>3, <1>4, <1>5

LEMMA CallRecords ==
  /\ Away \in Calling /\ Away.place = "away"
  /\ \A p \in CallerPlaces, t \in 0..MaxTerm : [place |-> p, term |-> t] \in Calling
  /\ \A k \in Calling : /\ k.term \in 0..MaxTerm
                        /\ \A p \in CallerPlaces : [k EXCEPT !.place = p] \in Calling
<1>1. Away \in Calling /\ Away.place = "away"
  BY Bounds DEF Calling, Away, CallerPlaces
<1>2. \A p \in CallerPlaces, t \in 0..MaxTerm : [place |-> p, term |-> t] \in Calling
  BY DEF Calling
<1>3. \A k \in Calling, p \in CallerPlaces : k.term \in 0..MaxTerm /\ [k EXCEPT !.place = p] \in Calling
  BY DEF Calling
<1>4. \A k \in Calling : k.term \in 0..MaxTerm
  BY DEF Calling
<1> QED  BY <1>1, <1>2, <1>3, <1>4

LEMMA RoutineRecords ==
  /\ NotRunning \in Routine /\ NotRunning.place = "gone"
  /\ [NotRunning EXCEPT !.place = "ticking"] \in Routine
  /\ [NotRunning EXCEPT !.place = "top"] \in Routine
  /\ \A r \in Routine :
       /\ r.term \in 0..MaxTerm /\ r.prefer \in Kinds
       /\ \A p \in WorkerPlaces : /\ [r EXCEPT !.place = p] \in Routine
                                  /\ [r EXCEPT !.place = p, !.prefer = Other(r.prefer)] \in Routine
                                  /\ \A t \in 0..MaxTerm : [r EXCEPT !.place = p, !.term = t] \in Routine
<1>1. NotRunning \in Routine /\ NotRunning.place = "gone"
  BY Bounds DEF NotRunning, Routine, Kinds
<1>2. [NotRunning EXCEPT !.place = "ticking"] \in Routine /\ [NotRunning EXCEPT !.place = "top"] \in Routine
  BY Bounds DEF NotRunning, Routine, Kinds, WorkerPlaces
<1>3. \A r \in Routine : r.term \in 0..MaxTerm /\ r.prefer \in Kinds
  BY DEF Routine
<1>4. \A r \in Routine, p \in WorkerPlaces : [r EXCEPT !.place = p] \in Routine
  BY DEF Routine
<1>5. \A r \in Routine, p \in WorkerPlaces : [r EXCEPT !.place = p, !.prefer = Other(r.prefer)] \in Routine
  BY DEF Routine, Other, Kinds
<1>6. \A r \in Routine, p \in WorkerPlaces, t \in 0..MaxTerm : [r EXCEPT !.place = p, !.term = t] \in Routine
  BY DEF Routine
<1> QED  BY <1>1, <1>2, <1>3, <1>4, <1>5, <1>6

(***************************************************************************)
(* The steps that leave the lock, the terms and the shutdowns alone.       *)
(***************************************************************************)

(* A loss only makes the engine unready, and cancels no other term.        *)
Doubting == Keep \/ \E owner \in Terms : Lose(owner)

LEMMA DoubtingKeeps ==
  ASSUME Control, Doubting
  PROVE  /\ eng' \in Fields
         /\ eng'.started = eng.started /\ eng'.stopping = eng.stopping
         /\ eng'.owner = eng.owner /\ eng'.stopDone = eng.stopDone
         /\ cancelled' \subseteq Terms /\ doubted' \subseteq Terms
         /\ \A t \in cancelled' : t \in cancelled \/ t \in doubted'
         /\ doubted \subseteq doubted'
<1>1. CASE Keep
  BY <1>1 DEF Keep, Control, TypeOK
<1>2. ASSUME NEW owner \in Terms, Lose(owner)
      PROVE  /\ eng' \in Fields
             /\ eng'.started = eng.started /\ eng'.stopping = eng.stopping
             /\ eng'.owner = eng.owner /\ eng'.stopDone = eng.stopDone
             /\ cancelled' \subseteq Terms /\ doubted' \subseteq Terms
             /\ \A t \in cancelled' : t \in cancelled \/ t \in doubted'
             /\ doubted \subseteq doubted'
  <2>1. eng' = [eng EXCEPT !.ready = FALSE] \/ eng' = eng
    BY <1>2 DEF Lose
  <2>2. eng \in Fields
    BY DEF Control, TypeOK
  <2>3. /\ eng' \in Fields
        /\ eng'.started = eng.started /\ eng'.stopping = eng.stopping
        /\ eng'.owner = eng.owner /\ eng'.stopDone = eng.stopDone
    <3>1. eng' \in Fields
      BY <2>1, <2>2, FieldRecords
    <3>2. CASE eng' = eng
      BY <3>1, <3>2
    <3>3. CASE eng' = [eng EXCEPT !.ready = FALSE]
      BY <2>2, <3>1, <3>3 DEF Fields
    <3> QED  BY <2>1, <3>2, <3>3
  <2> QED  BY <1>2, <2>3 DEF Lose, Control, TypeOK
<1> QED  BY <1>1, <1>2 DEF Doubting

(* A goroutine that is alive moves, or returns.                            *)
LEMMA GoroutineMoves ==
  ASSUME Control, NEW t \in Terms, NEW g \in Goroutines, NEW new \in Routine,
         run' = [run EXCEPT ![t][g] = new], run[t][g].place # "gone",
         new.place = "asking" => g \in Workers /\ new.term = t,
         g \in Workers => new.place # "ticking",
         Doubting,
         UNCHANGED <<scope, mu, terms, row, stop, unreleased, call>>,
         wake' \in BOOLEAN, due' \subseteq Kinds, unsignalled' \subseteq Kinds
  PROVE  Control'
<1>1. /\ run' \in [Terms -> [Goroutines -> Routine]]
      /\ \A u \in Terms, h \in Goroutines : run'[u][h] = IF u = t /\ h = g THEN new ELSE run[u][h]
  BY DEF Control, TypeOK
<1>2. \A u \in Terms : Alive(u)' \subseteq Alive(u)
  BY <1>1 DEF Alive
<1>3. TypeOK'
  BY <1>1, DoubtingKeeps DEF Control, TypeOK
<1>4. StartAlone' /\ FieldsAgree'
  BY DoubtingKeeps DEF Control, StartAlone, FieldsAgree, At
<1>5. ShutdownsInOrder'
  BY <1>2, DoubtingKeeps DEF Control, ShutdownsInOrder, Drained
<1>6. WorkersKnow'
  BY <1>1 DEF Control, WorkersKnow
<1>7. OneGeneration'
  BY <1>2, DoubtingKeeps DEF Control, OneGeneration
<1>8. OnlyOwnLoss'
  BY DoubtingKeeps DEF Control, OnlyOwnLoss
<1> QED  BY <1>3, <1>4, <1>5, <1>6, <1>7, <1>8 DEF Control

(* A caller moves outside the lock, or leaves it.                          *)
LEMMA CallerMoves ==
  ASSUME Control, NEW c \in Callers, NEW new \in Calling,
         call' = [call EXCEPT ![c] = new],
         new.place \notin {"acquiring", "recovering"},
         new.place \in {"draining", "awaiting", "reading", "asking"} => new.term \in Terms,
         new.place = "reading" => stop[new.term] = "closed",
         mu' = mu \/ (mu' = Free /\ mu = c),
         row' \in {row, 0},
         Doubting,
         UNCHANGED <<scope, terms, run, stop, unreleased, work>>
  PROVE  Control'
<1>1. /\ call' \in [Callers -> Calling]
      /\ \A d \in Callers : call'[d] = IF d = c THEN new ELSE call[d]
  BY DEF Control, TypeOK
<1>2. TypeOK'
  BY <1>1, DoubtingKeeps, Bounds DEF Control, TypeOK, work
<1>3. StartAlone'
  BY <1>1, DoubtingKeeps DEF Control, StartAlone, At
<1>4. FieldsAgree' /\ OneGeneration' /\ OnlyOwnLoss' /\ WorkersKnow'
  BY DoubtingKeeps DEF Control, FieldsAgree, OneGeneration, OnlyOwnLoss, Alive, WorkersKnow
<1>5. ShutdownsInOrder'
  BY DoubtingKeeps, Bounds DEF Control, ShutdownsInOrder, Drained, Alive
<1> QED  BY <1>2, <1>3, <1>4, <1>5 DEF Control

(***************************************************************************)
(* Start.                                                                  *)
(***************************************************************************)
LEMMA LockStep ==
  ASSUME Control, NEW c \in Callers, StartLock(c), UNCHANGED scope
  PROVE  Control'
<1>1. /\ mu = Free /\ mu' = c /\ ~eng.started /\ ~eng.stopping /\ terms < scope.terms
      /\ call[c] \in Calling /\ call[c].place = "away"
      /\ call' = [call EXCEPT ![c].place = "acquiring"]
      /\ UNCHANGED <<scope, eng, terms, row, cancelled, run, stop, doubted, unreleased, work>>
  BY DEF StartLock, Calls, At, Goto, Control, TypeOK
<1>2. [call[c] EXCEPT !.place = "acquiring"] \in Calling /\ Free \notin Callers
  BY <1>1, CallRecords, LifecycleAssumption DEF CallerPlaces
<1>3. /\ call' \in [Callers -> Calling] /\ call'[c].place = "acquiring"
      /\ \A d \in Callers \ {c} : call'[d] = call[d]
  BY <1>1, <1>2 DEF Control, TypeOK, Calling
<1>4. TypeOK'
  BY <1>1, <1>3 DEF Control, TypeOK, work
<1>5. StartAlone'
  BY <1>1, <1>2, <1>3 DEF Control, StartAlone, At
<1>6. FieldsAgree' /\ OneGeneration' /\ OnlyOwnLoss' /\ WorkersKnow' /\ ShutdownsInOrder'
  BY <1>1 DEF Control, FieldsAgree, OneGeneration, OnlyOwnLoss, Alive, WorkersKnow, ShutdownsInOrder, Drained
<1> QED  BY <1>4, <1>5, <1>6 DEF Control

LEMMA AcquireStep ==
  ASSUME Control, NEW c \in Callers, StartAcquire(c), UNCHANGED scope
  PROVE  Control'
<1>1. CASE mu' = Free /\ Return(c) /\ UNCHANGED <<terms, row>>
  <2>1. mu = c
    BY DEF StartAcquire, At, Control, StartAlone
  <2>2. UNCHANGED <<eng, cancelled, run, stop, doubted, unreleased, work>>
    BY DEF StartAcquire
  <2>3. row' \in {row, 0} /\ Doubting
    BY <1>1, <2>2 DEF Doubting, Keep
  <2> QED  BY <1>1, <2>1, <2>2, <2>3, CallerMoves, CallRecords DEF Return
<1>2. ASSUME row = 0, terms' = terms + 1, row' = terms + 1,
             call' = [call EXCEPT ![c] = [place |-> "recovering", term |-> terms + 1]],
             UNCHANGED mu
      PROVE  Control'
  <2>1. /\ mu = c /\ ~eng.started /\ ~eng.stopping /\ terms < scope.terms
        /\ terms \in Nat /\ scope.terms \in Nat /\ scope.terms <= MaxTerm
        /\ UNCHANGED <<scope, mu, eng, cancelled, run, stop, doubted, unreleased, work>>
    BY <1>2, Bounds DEF StartAcquire, At, Control, StartAlone, TypeOK
  <2>2. terms + 1 \in Terms /\ terms + 1 > terms /\ terms + 1 \in 0..MaxTerm /\ terms' \in 0..MaxTerm
    BY <1>2, <2>1, Bounds
  <2>3. stop[terms + 1] = "none"
    BY <2>2 DEF Control, ShutdownsInOrder
  <2>4. [place |-> "recovering", term |-> terms + 1] \in Calling
    BY <2>2, CallRecords DEF CallerPlaces
  <2>5. /\ call' \in [Callers -> Calling]
        /\ call'[c] = [place |-> "recovering", term |-> terms + 1]
        /\ \A d \in Callers \ {c} : call'[d] = call[d]
    BY <1>2, <2>4 DEF Control, TypeOK
  <2>6. TypeOK'
    BY <1>2, <2>1, <2>2, <2>5 DEF Control, TypeOK, work
  <2>7. \A d \in Callers \ {c} : call[d].place \notin {"acquiring", "recovering"}
    BY <2>1 DEF Control, StartAlone
  <2>8. StartAlone'
    BY <1>2, <2>1, <2>2, <2>3, <2>5, <2>7 DEF Control, StartAlone, At
  <2>9. FieldsAgree' /\ OneGeneration' /\ OnlyOwnLoss' /\ WorkersKnow'
    <3>1. eng.owner \in Nat
      BY FieldRecords, Bounds DEF Control, TypeOK
    <3>2. FieldsAgree'
      BY <1>2, <2>1, <3>1 DEF Control, FieldsAgree
    <3> QED  BY <2>1, <3>2 DEF Control, OneGeneration, OnlyOwnLoss, Alive, WorkersKnow
  <2>10. ShutdownsInOrder'
    <3>1. \A t \in Terms : t > terms' => t > terms
      BY <1>2, <2>1, Bounds
    <3>2. \A t \in Terms : stop[t] # "none" => row' # t
      BY <1>2, <2>3
    <3> QED  BY <1>2, <2>1, <3>1, <3>2 DEF Control, ShutdownsInOrder, Alive, Drained
  <2> QED  BY <2>6, <2>8, <2>9, <2>10 DEF Control
<1> QED  BY <1>1, <1>2 DEF StartAcquire

LEMMA FailStep ==
  ASSUME Control, NEW c \in Callers, StartFail(c), UNCHANGED scope
  PROVE  Control'
<1>1. mu = c /\ mu' = Free
  BY DEF StartFail, At, Control, StartAlone
<1>2. UNCHANGED <<eng, terms, cancelled, run, stop, doubted, unreleased, work>> /\ row' \in {row, 0}
  BY DEF StartFail
<1>3. Doubting
  BY <1>2 DEF Doubting, Keep
<1> QED  BY <1>1, <1>2, <1>3, CallerMoves, CallRecords DEF StartFail, Return

(* A launch finds every goroutine of the past gone.                        *)
LEMMA LaunchStep ==
  ASSUME Control, NEW c \in Callers, StartLaunch(c), UNCHANGED scope
  PROVE  Control'
<1> DEFINE t == call[c].term
           launched == [g \in Goroutines |->
                          IF g = Renewal THEN [NotRunning EXCEPT !.place = "ticking"]
                          ELSE IF g \in scope.workers THEN [NotRunning EXCEPT !.place = "top"] ELSE NotRunning]
<1>1. /\ mu = c /\ ~eng.started /\ ~eng.stopping
      /\ t = terms /\ t \in Terms /\ stop[t] = "none" /\ row = t
  BY DEF StartLaunch, At, Control, StartAlone
<1>2. /\ eng' = [eng EXCEPT !.started = TRUE, !.ready = TRUE, !.owner = t]
      /\ run' = [run EXCEPT ![t] = launched] /\ call' = [call EXCEPT ![c] = Away] /\ mu' = Free
      /\ UNCHANGED <<scope, terms, row, cancelled, stop, doubted, unreleased, work>>
  BY DEF StartLaunch, Return
<1>3. launched \in [Goroutines -> Routine]
  BY RoutineRecords
<1>4. /\ Renewal \notin Workers /\ scope.workers \subseteq Workers
      /\ \A g \in Goroutines : /\ launched[g].place # "asking"
                               /\ g \in Workers /\ launched[g].place # "gone" =>
                                    g \in scope.workers /\ launched[g].place # "ticking"
  BY LifecycleAssumption, Bounds DEF NotRunning, Control, TypeOK
<1> HIDE DEF launched, t
<1>5. /\ run' \in [Terms -> [Goroutines -> Routine]] /\ run'[t] = launched
      /\ \A u \in Terms \ {t} : run'[u] = run[u]
  BY <1>1, <1>2, <1>3 DEF Control, TypeOK
<1>6. /\ call' \in [Callers -> Calling] /\ call'[c].place = "away"
      /\ \A d \in Callers \ {c} : call'[d] = call[d] /\ call[d].place \notin {"acquiring", "recovering"}
  BY <1>1, <1>2, CallRecords DEF Control, TypeOK, StartAlone
<1>7. /\ eng' \in Fields /\ eng'.started /\ ~eng'.stopping /\ eng'.owner = t
  <2>1. eng \in Fields /\ t \in 0..MaxTerm
    BY <1>1, Bounds DEF Control, TypeOK
  <2>2. eng' \in Fields
    BY <1>2, <2>1, FieldRecords
  <2> QED  BY <1>1, <1>2, <2>1, <2>2 DEF Fields
<1>8. \A u \in Terms : Alive(u) = {}
  BY <1>1 DEF Control, OneGeneration
<1>9. \A u \in Terms \ {t} : Alive(u)' = {}
  BY <1>5, <1>8 DEF Alive
<1>10. TypeOK'
  BY <1>2, <1>5, <1>6, <1>7 DEF Control, TypeOK, work
<1>11. StartAlone'
  BY <1>2, <1>6 DEF Control, StartAlone, At
<1>12. FieldsAgree'
  BY <1>1, <1>2, <1>7, Bounds DEF FieldsAgree, Control, TypeOK
<1>13. ShutdownsInOrder'
  BY <1>1, <1>2, <1>9 DEF Control, ShutdownsInOrder
<1>14. WorkersKnow'
  BY <1>2, <1>4, <1>5 DEF Control, WorkersKnow
<1>15. OneGeneration' /\ OnlyOwnLoss'
  BY <1>2, <1>7, <1>9 DEF Control, OneGeneration, OnlyOwnLoss
<1> QED  BY <1>10, <1>11, <1>12, <1>13, <1>14, <1>15 DEF Control

LEMMA ReadyStep ==
  ASSUME Control, NEW c \in Callers, ReadyRead(c) \/ ReadyAnswer(c), UNCHANGED scope
  PROVE  Control'
<1>1. CASE ReadyRead(c)
  <2>1. eng.owner \in Terms /\ eng.owner \in 0..MaxTerm
    BY <1>1, Bounds DEF ReadyRead, Control, FieldsAgree
  <2>2. [place |-> "asking", term |-> eng.owner] \in Calling
    BY <2>1, CallRecords DEF CallerPlaces
  <2>3. /\ UNCHANGED <<scope, mu, eng, terms, row, cancelled, run, stop, doubted, unreleased, work>> /\ Doubting
        /\ call' = [call EXCEPT ![c] = [place |-> "asking", term |-> eng.owner]]
    BY <1>1 DEF ReadyRead, Doubting, Keep
  <2> DEFINE new == [place |-> "asking", term |-> eng.owner]
  <2>4. new \in Calling /\ new.place = "asking" /\ new.term \in Terms /\ call' = [call EXCEPT ![c] = new]
    BY <2>1, <2>2, <2>3
  <2>5. mu' = mu /\ row' \in {row, 0} /\ UNCHANGED <<scope, terms, run, stop, unreleased, work>>
    BY <2>3
  <2> HIDE DEF new
  <2> QED  BY <2>3, <2>4, <2>5, CallerMoves
<1>2. CASE ReadyAnswer(c)
  <2>1. call[c].term \in Terms
    BY <1>2 DEF ReadyAnswer, At, Control, StartAlone
  <2>2. Doubting
    BY <1>2, <2>1 DEF ReadyAnswer, Doubting
  <2>3. /\ mu' = mu /\ row' \in {row, 0} /\ UNCHANGED <<scope, terms, run, stop, unreleased, work>>
        /\ call' = [call EXCEPT ![c] = Away]
    BY <1>2 DEF ReadyAnswer, Return
  <2>4. Away \in Calling /\ Away.place = "away"
    BY CallRecords
  <2> QED  BY <2>2, <2>3, <2>4, CallerMoves
<1> QED  BY <1>1, <1>2

(***************************************************************************)
(* Stop.                                                                   *)
(***************************************************************************)

(* A caller that goes where it returns from, or back.                      *)
LEMMA StopCallerStep ==
  ASSUME Control, NEW c \in Callers, StopTimeout(c) \/ StopSee(c) \/ StopReturn(c), UNCHANGED scope
  PROVE  Control'
<1>1. /\ UNCHANGED <<mu, eng, terms, row, cancelled, run, stop, doubted, unreleased, work>>
      /\ Doubting /\ mu' = mu /\ row' \in {row, 0}
  BY DEF StopTimeout, StopSee, StopReturn, Doubting, Keep
<1>2. CASE StopTimeout(c) \/ StopReturn(c)
  <2>1. call' = [call EXCEPT ![c] = Away] /\ Away \in Calling /\ Away.place = "away"
    BY <1>2, CallRecords DEF StopTimeout, StopReturn, Return
  <2> QED  BY <1>1, <2>1, CallerMoves
<1>3. CASE StopSee(c)
  <2> DEFINE new == [call[c] EXCEPT !.place = "reading"]
  <2>1. call[c] \in Calling /\ call[c].term \in Terms /\ stop[call[c].term] = "closed"
    BY <1>3 DEF StopSee, Control, TypeOK, StartAlone
  <2>2. new \in Calling /\ new.place = "reading" /\ new.term = call[c].term
    BY <2>1, CallRecords DEF CallerPlaces, Calling
  <2>3. call' = [call EXCEPT ![c] = new]
    BY <1>3 DEF StopSee, Goto
  <2> HIDE DEF new
  <2> QED  BY <1>1, <2>1, <2>2, <2>3, CallerMoves
<1> QED  BY <1>2, <1>3

(* A shutdown goes one place further, and what that place asks holds.      *)
LEMMA ShutdownMoves ==
  ASSUME Control, NEW t \in Terms, NEW place \in StopPlaces \ {"none"},
         stop' = [stop EXCEPT ![t] = place],
         stop[t] # "closed",
         stop[t] # "none" \/ (place = "cancelling" /\ t = eng.owner /\ mu = Free),
         place \in {"cancelling", "waiting", "resetting"} => eng'.stopping /\ eng'.owner = t,
         place = "resetting" => Drained,
         place \in {"resetting", "closing", "closed"} => Alive(t) = {} /\ (row' # t \/ t \in unreleased'),
         eng' \in Fields, ~eng'.started, eng'.owner <= terms,
         \A u \in Terms : Alive(u) # {} => eng'.owner = u /\ eng'.stopping,
         eng'.stopping => eng'.owner = t /\ eng'.stopDone = t,
         \A u \in Terms \ {t} : stop[u] \notin {"cancelling", "waiting", "resetting"},
         row' \in {row, 0}, cancelled' \in {cancelled, cancelled \cup {t}},
         unreleased' \in {unreleased, unreleased \cup {t}},
         t <= terms,
         \A c \in Callers : call[c].place \notin {"acquiring", "recovering"} \/ (~eng'.stopping /\ place # "cancelling"),
         \/ call' = call
         \/ \E c \in Callers, new \in Calling :
              new.place = "draining" /\ new.term = t /\ call' = [call EXCEPT ![c] = new],
         UNCHANGED <<scope, mu, terms, run, doubted, work>>
  PROVE  Control'
<1>1. /\ stop' \in [Terms -> StopPlaces] /\ stop'[t] = place
      /\ \A u \in Terms \ {t} : stop'[u] = stop[u]
      /\ \A u \in Terms : Alive(u)' = Alive(u)
  BY DEF Control, TypeOK, Alive
<1>2. /\ call' \in [Callers -> Calling]
      /\ \A d \in Callers : call'[d] = call[d] \/ (call'[d].place = "draining" /\ call'[d].term = t)
  BY DEF Control, TypeOK
<1>3. TypeOK'
  BY <1>1, <1>2, Bounds DEF Control, TypeOK, work
<1>4. StartAlone'
  <2> SUFFICES ASSUME NEW d \in Callers
               PROVE  /\ call'[d].place \in {"acquiring", "recovering"} => mu' = d /\ ~eng'.started /\ ~eng'.stopping
                      /\ call'[d].place = "acquiring" => terms' < scope'.terms
                      /\ call'[d].place = "recovering" => call'[d].term = terms' /\ terms' \in Terms /\ stop'[terms'] = "none"
                      /\ call'[d].place \in {"draining", "awaiting", "reading", "asking"} => call'[d].term \in Terms
                      /\ call'[d].place = "reading" => stop'[call'[d].term] = "closed"
    BY DEF StartAlone, At
  <2>1. CASE call'[d] = call[d]
    <3>1. /\ call[d].place \in {"acquiring", "recovering"} => mu = d /\ ~eng.started /\ ~eng.stopping
          /\ call[d].place = "acquiring" => terms < scope.terms
          /\ call[d].place = "recovering" => call[d].term = terms /\ terms \in Terms /\ stop[terms] = "none"
          /\ call[d].place \in {"draining", "awaiting", "reading", "asking"} => call[d].term \in Terms
          /\ call[d].place = "reading" => stop[call[d].term] = "closed"
      BY DEF Control, StartAlone, At
    <3>2. call[d].place = "recovering" => terms # t
      BY <3>1
    <3>3. call[d].place = "reading" => call[d].term # t
      BY <3>1
    <3> QED  BY <1>1, <2>1, <3>1, <3>2, <3>3
  <2>2. CASE call'[d].place = "draining" /\ call'[d].term = t
    BY <2>2
  <2> QED  BY <1>2, <2>1, <2>2
<1>5. FieldsAgree'
  BY DEF FieldsAgree
<1>6. ShutdownsInOrder'
  <2>1. Drained' <=> Drained
    BY <1>1 DEF Drained
  <2>2. t \in Nat /\ terms \in Nat /\ 0 \notin Terms
    BY Bounds DEF Control, TypeOK
  <2>3. \A u \in Terms \ {t} : stop'[u] \in {"closing", "closed"} =>
          Alive(u)' = {} /\ (row' # u \/ u \in unreleased')
    BY <1>1, <2>2 DEF Control, ShutdownsInOrder
  <2>4. \A u \in Terms \ {t} : u > terms' => stop'[u] = "none"
    BY <1>1 DEF Control, ShutdownsInOrder
  <2>5. /\ stop'[t] \in {"cancelling", "waiting", "resetting"} => eng'.stopping /\ eng'.owner = t
        /\ stop'[t] = "resetting" => Drained'
        /\ stop'[t] \in {"resetting", "closing", "closed"} => Alive(t)' = {} /\ (row' # t \/ t \in unreleased')
        /\ ~(t > terms')
    BY <1>1, <2>1, <2>2
  <2> QED  BY <1>1, <2>3, <2>4, <2>5 DEF ShutdownsInOrder
<1>7. WorkersKnow' /\ OnlyOwnLoss'
  BY <1>1 DEF Control, WorkersKnow, OnlyOwnLoss
<1>8. OneGeneration'
  BY <1>1 DEF OneGeneration
<1> QED  BY <1>3, <1>4, <1>5, <1>6, <1>7, <1>8 DEF Control

LEMMA EnterStep ==
  ASSUME Control, NEW c \in Callers, StopEnter(c), UNCHANGED scope
  PROVE  Control'
<1>1. mu = Free /\ eng \in Fields /\ UNCHANGED <<scope, mu, terms, row, cancelled, run, doubted, unreleased, work>>
  BY DEF StopEnter, Calls, Control, TypeOK
<1>2. \A d \in Callers : call[d].place \notin {"acquiring", "recovering"}
  BY <1>1, LifecycleAssumption DEF Control, StartAlone
<1>3. ASSUME eng.stopping, call' = [call EXCEPT ![c] = [place |-> "awaiting", term |-> eng.stopDone]],
             UNCHANGED <<eng, stop>>
      PROVE  Control'
  <2> DEFINE new == [place |-> "awaiting", term |-> eng.stopDone]
  <2>1. eng.stopDone \in Terms /\ eng.stopDone \in 0..MaxTerm
    BY <1>3, Bounds DEF Control, FieldsAgree
  <2>2. new \in Calling /\ new.place = "awaiting" /\ new.term \in Terms /\ call' = [call EXCEPT ![c] = new]
    BY <1>3, <2>1, CallRecords DEF CallerPlaces
  <2>3. mu' = mu /\ row' \in {row, 0} /\ UNCHANGED <<scope, terms, run, stop, unreleased, work>> /\ Doubting
    BY <1>1, <1>3 DEF Doubting, Keep
  <2> HIDE DEF new
  <2> QED  BY <2>2, <2>3, CallerMoves
<1>4. ASSUME ~eng.stopping, eng.started,
             eng' = [eng EXCEPT !.stopping = TRUE, !.started = FALSE, !.ready = FALSE, !.stopDone = eng.owner],
             stop' = [stop EXCEPT ![eng.owner] = "cancelling"],
             call' = [call EXCEPT ![c] = [place |-> "draining", term |-> eng.owner]]
      PROVE  Control'
  <2> DEFINE t == eng.owner
             new == [place |-> "draining", term |-> t]
  <2>1. t \in Terms /\ t \in 0..MaxTerm /\ stop[t] = "none" /\ t <= terms
    BY <1>4, Bounds DEF Control, FieldsAgree
  <2>2. new \in Calling /\ new.place = "draining" /\ new.term = t /\ call' = [call EXCEPT ![c] = new]
    BY <1>4, <2>1, CallRecords DEF CallerPlaces
  <2>3. eng' \in Fields /\ eng'.stopping /\ ~eng'.started /\ eng'.owner = t /\ eng'.stopDone = t
    <3>1. eng' \in Fields
      BY <1>1, <1>4, <2>1, FieldRecords
    <3> QED  BY <1>1, <1>4, <3>1 DEF Fields
  <2>4. \A u \in Terms : stop[u] \notin {"cancelling", "waiting", "resetting"}
    BY <1>4 DEF Control, ShutdownsInOrder
  <2>5. \A u \in Terms : Alive(u) # {} => t = u
    BY DEF Control, OneGeneration
  <2>6. "cancelling" \in StopPlaces \ {"none"} /\ stop' = [stop EXCEPT ![t] = "cancelling"]
    BY <1>4 DEF StopPlaces
  <2>7. /\ row' \in {row, 0} /\ cancelled' \in {cancelled, cancelled \cup {t}}
        /\ unreleased' \in {unreleased, unreleased \cup {t}}
        /\ UNCHANGED <<scope, mu, terms, run, doubted, work>>
    BY <1>1
  <2> HIDE DEF t, new
  <2>8. mu = Free /\ t = eng.owner
    BY <1>1 DEF t
  <2>9. \E d \in Callers, k \in Calling : k.place = "draining" /\ k.term = t /\ call' = [call EXCEPT ![d] = k]
    BY <2>2
  <2> QED  BY <1>2, <2>1, <2>3, <2>4, <2>5, <2>6, <2>7, <2>8, <2>9, ShutdownMoves
<1> QED  BY <1>3, <1>4 DEF StopEnter

(* What a shutdown under way says of the fields.                           *)
LEMMA UnderWay ==
  ASSUME Control, NEW t \in Terms, stop[t] \in {"cancelling", "waiting", "resetting"}
  PROVE  /\ eng \in Fields /\ eng.stopping /\ ~eng.started /\ eng.owner = t /\ eng.stopDone = t /\ t <= terms
         /\ \A u \in Terms \ {t} : stop[u] \notin {"cancelling", "waiting", "resetting"}
         /\ \A u \in Terms : Alive(u) # {} => eng.owner = u
         /\ \A c \in Callers : call[c].place \notin {"acquiring", "recovering"}
<1>1. eng \in Fields /\ eng.stopping /\ ~eng.started /\ eng.owner = t /\ eng.stopDone = t /\ t <= terms
  BY DEF Control, TypeOK, ShutdownsInOrder, FieldsAgree
<1>2. \A u \in Terms \ {t} : stop[u] \notin {"cancelling", "waiting", "resetting"}
  BY <1>1 DEF Control, ShutdownsInOrder
<1>3. \A u \in Terms : Alive(u) # {} => eng.owner = u
  BY DEF Control, OneGeneration
<1>4. \A c \in Callers : call[c].place \notin {"acquiring", "recovering"}
  BY <1>1 DEF Control, StartAlone
<1> QED  BY <1>1, <1>2, <1>3, <1>4

LEMMA CancelStep ==
  ASSUME Control, NEW t \in Terms, StopCancel(t), UNCHANGED scope
  PROVE  Control'
<1>1. stop[t] = "cancelling" /\ stop' = [stop EXCEPT ![t] = "waiting"] /\ cancelled' = cancelled \cup {t}
  BY DEF StopCancel
<1>2. UNCHANGED <<scope, mu, eng, terms, row, run, doubted, unreleased, call, work>>
  BY DEF StopCancel
<1>3. "waiting" \in StopPlaces \ {"none"}
  BY DEF StopPlaces
<1> QED  BY <1>1, <1>2, <1>3, UnderWay, ShutdownMoves

LEMMA ReleaseStep ==
  ASSUME Control, NEW t \in Terms, FinishRelease(t), UNCHANGED scope
  PROVE  Control'
<1>1. stop[t] = "waiting" /\ Drained /\ stop' = [stop EXCEPT ![t] = "resetting"]
  BY DEF FinishRelease
<1>2. UNCHANGED <<scope, mu, eng, terms, cancelled, run, doubted, call, work>>
  BY DEF FinishRelease
<1>3. Alive(t) = {} /\ "resetting" \in StopPlaces \ {"none"}
  BY <1>1 DEF Drained, StopPlaces
<1>4. /\ row' \in {row, 0} /\ unreleased' \in {unreleased, unreleased \cup {t}}
      /\ row' # t \/ t \in unreleased'
  BY Bounds DEF FinishRelease
<1> QED  BY <1>1, <1>2, <1>3, <1>4, UnderWay, ShutdownMoves

LEMMA ResetStep ==
  ASSUME Control, NEW t \in Terms, FinishReset(t), UNCHANGED scope
  PROVE  Control'
<1>1. /\ stop[t] = "resetting" /\ stop' = [stop EXCEPT ![t] = "closing"]
      /\ eng' = [eng EXCEPT !.stopping = FALSE, !.ready = FALSE, !.owner = 0, !.stopDone = 0]
  BY DEF FinishReset
<1>2. UNCHANGED <<scope, mu, terms, row, cancelled, run, doubted, unreleased, call, work>>
  BY DEF FinishReset
<1>3. Drained /\ Alive(t) = {} /\ (row # t \/ t \in unreleased) /\ "closing" \in StopPlaces \ {"none"}
  BY <1>1 DEF Control, ShutdownsInOrder, StopPlaces
<1>4. /\ eng \in Fields /\ ~eng.started /\ t <= terms /\ t \in Nat /\ terms \in Nat
      /\ \A u \in Terms \ {t} : stop[u] \notin {"cancelling", "waiting", "resetting"}
      /\ \A c \in Callers : call[c].place \notin {"acquiring", "recovering"}
  BY <1>1, UnderWay, Bounds DEF Control, TypeOK
<1>5. eng' \in Fields /\ ~eng'.started /\ ~eng'.stopping /\ eng'.owner = 0
  <2>1. eng' \in Fields
    BY <1>1, <1>4, FieldRecords
  <2> QED  BY <1>1, <1>4, <2>1 DEF Fields
<1>6. \A u \in Terms : Alive(u) = {}
  BY <1>3 DEF Drained
<1>7. eng'.owner <= terms /\ row' \in {row, 0} /\ cancelled' = cancelled /\ unreleased' = unreleased
  BY <1>2, <1>4, <1>5
<1> QED  BY <1>1, <1>2, <1>3, <1>4, <1>5, <1>6, <1>7, ShutdownMoves

LEMMA CloseStep ==
  ASSUME Control, NEW t \in Terms, FinishClose(t), UNCHANGED scope
  PROVE  Control'
<1>1. /\ stop[t] = "closing" /\ stop' = [stop EXCEPT ![t] = "closed"]
      /\ UNCHANGED <<scope, mu, eng, terms, row, cancelled, run, doubted, unreleased, call, work>>
  BY DEF FinishClose
<1>2. /\ stop' \in [Terms -> StopPlaces] /\ stop'[t] = "closed"
      /\ \A u \in Terms \ {t} : stop'[u] = stop[u]
      /\ \A u \in Terms : Alive(u)' = Alive(u)
  BY <1>1 DEF Control, TypeOK, StopPlaces, Alive
<1>3. TypeOK'
  BY <1>1, <1>2 DEF Control, TypeOK, work
<1>4. StartAlone'
  BY <1>1, <1>2 DEF Control, StartAlone, At
<1>5. FieldsAgree' /\ OneGeneration' /\ OnlyOwnLoss' /\ WorkersKnow'
  BY <1>1, <1>2 DEF Control, FieldsAgree, OneGeneration, OnlyOwnLoss, WorkersKnow
<1>6. ShutdownsInOrder'
  BY <1>1, <1>2 DEF Control, ShutdownsInOrder, Drained
<1> QED  BY <1>3, <1>4, <1>5, <1>6 DEF Control

(* What touches neither the engine nor its goroutines.                     *)
LEMMA OutsideStep ==
  ASSUME Control, UNCHANGED scope, Lapse \/ \E k \in Kinds : Commit(k) \/ Signal(k)
  PROVE  Control'
<1>1. /\ UNCHANGED <<mu, eng, terms, cancelled, run, stop, doubted, unreleased, call>>
      /\ row' \in {row, 0} /\ wake' \in BOOLEAN /\ due' \subseteq Kinds /\ unsignalled' \subseteq Kinds
  BY DEF Lapse, Commit, Signal, work, Control, TypeOK
<1>2. TypeOK'
  BY <1>1, Bounds DEF Control, TypeOK
<1>3. StartAlone' /\ FieldsAgree' /\ OneGeneration' /\ OnlyOwnLoss' /\ WorkersKnow'
  BY <1>1 DEF Control, StartAlone, At, FieldsAgree, OneGeneration, OnlyOwnLoss, WorkersKnow, Alive
<1>4. ShutdownsInOrder'
  BY <1>1, Bounds DEF Control, ShutdownsInOrder, Drained, Alive
<1> QED  BY <1>2, <1>3, <1>4 DEF Control

(***************************************************************************)
(* The goroutines.                                                         *)
(***************************************************************************)

(* An owner that somebody could ask about.                                 *)
LEMMA OwnerIsTerm ==
  ASSUME Control
  PROVE  /\ CurrentLease # 0 => CurrentLease \in Terms /\ CurrentLease = eng.owner /\ eng.started /\ eng.ready
         /\ \A t \in Terms, g \in Goroutines : run[t][g].place # "gone" => eng.owner = t /\ (eng.started \/ eng.stopping)
<1>1. CurrentLease # 0 => CurrentLease \in Terms /\ CurrentLease = eng.owner /\ eng.started /\ eng.ready
  BY DEF CurrentLease, Control, FieldsAgree
<1>2. \A t \in Terms, g \in Goroutines : run[t][g].place # "gone" => eng.owner = t /\ (eng.started \/ eng.stopping)
  BY DEF Control, OneGeneration, Alive
<1> QED  BY <1>1, <1>2

LEMMA LeavingKeeps ==
  ASSUME Control, NEW t \in Terms, NEW g \in Goroutines, run[t][g].place # "gone", Leave(t, g), Doubting,
         UNCHANGED <<scope, mu, terms, row, stop, unreleased, call, work>>
  PROVE  Control'
<1>1. NotRunning \in Routine /\ NotRunning.place = "gone"
  BY RoutineRecords
<1>2. run' = [run EXCEPT ![t][g] = NotRunning]
  BY DEF Leave
<1>3. wake' \in BOOLEAN /\ due' \subseteq Kinds /\ unsignalled' \subseteq Kinds
  BY DEF work, Control, TypeOK
<1>4. UNCHANGED <<scope, mu, terms, row, stop, unreleased, call>>
  OBVIOUS
<1> QED  BY <1>1, <1>2, <1>3, <1>4, GoroutineMoves

LEMMA RenewalStep ==
  ASSUME Control, NEW t \in Terms, RenewalExit(t) \/ RenewalTick(t) \/ RenewalFails(t), UNCHANGED scope
  PROVE  Control'
<1>1. run[t][Renewal].place # "gone" /\ Renewal \in Goroutines /\ Leave(t, Renewal)
  BY DEF RenewalExit, RenewalTick, RenewalFails, Goroutines
<1>2. Doubting
  BY OwnerIsTerm DEF RenewalExit, RenewalTick, RenewalFails, Doubting, Keep
<1>3. UNCHANGED <<scope, mu, terms, row, stop, unreleased, call, work>>
  BY DEF RenewalExit, RenewalTick, RenewalFails
<1> QED  BY <1>1, <1>2, <1>3, LeavingKeeps

(* A worker that goes on within its loop.                                  *)
LEMMA WorkerMoves ==
  ASSUME Control, NEW t \in Terms, NEW w \in Workers, run[t][w].place # "gone",
         NEW place \in WorkerPlaces \ {"asking"},
         Move(t, w, place) \/ Turn(t, w, place), Doubting,
         UNCHANGED <<scope, mu, terms, row, stop, unreleased, call>>,
         wake' \in BOOLEAN, due' \subseteq Kinds, unsignalled' \subseteq Kinds
  PROVE  Control'
<1>1. w \in Goroutines /\ run[t][w] \in Routine
  BY DEF Goroutines, Control, TypeOK
<1>2. CASE Move(t, w, place)
  <2>1. run' = [run EXCEPT ![t][w] = [run[t][w] EXCEPT !.place = place]]
    BY <1>2 DEF Move
  <2>2. [run[t][w] EXCEPT !.place = place] \in Routine /\ [run[t][w] EXCEPT !.place = place].place = place
    BY <1>1, RoutineRecords DEF Routine
  <2>3. place # "asking" /\ place # "ticking"
    BY DEF WorkerPlaces
  <2> QED  BY <1>1, <2>1, <2>2, <2>3, GoroutineMoves
<1>3. CASE Turn(t, w, place)
  <2> DEFINE turned == [run[t][w] EXCEPT !.place = place, !.prefer = Other(run[t][w].prefer)]
  <2>1. run' = [run EXCEPT ![t][w] = turned]
    BY <1>3 DEF Turn
  <2>2. turned \in Routine /\ turned.place = place
    BY <1>1, RoutineRecords DEF Routine
  <2>3. place # "asking" /\ place # "ticking"
    BY DEF WorkerPlaces
  <2> HIDE DEF turned
  <2> QED  BY <1>1, <2>1, <2>2, <2>3, GoroutineMoves
<1> QED  BY <1>2, <1>3

LEMMA TopStep ==
  ASSUME Control, NEW t \in Terms, NEW w \in Workers, Top(t, w), UNCHANGED scope
  PROVE  Control'
<1>1. /\ run[t][w].place = "top" /\ w \in Goroutines /\ run[t][w] \in Routine
      /\ UNCHANGED <<scope, mu, eng, terms, row, cancelled, stop, doubted, unreleased, call, work>> /\ Doubting
  BY DEF Top, Worker, Goroutines, Control, TypeOK, Doubting, Keep
<1>2. CASE Leave(t, w)
  BY <1>1, <1>2, LeavingKeeps
<1>3. CASE run' = [run EXCEPT ![t][w] = [@ EXCEPT !.place = "asking", !.term = eng.owner]]
  <2> DEFINE new == [run[t][w] EXCEPT !.place = "asking", !.term = eng.owner]
  <2>1. eng.owner = t /\ eng.owner \in 0..MaxTerm
    BY <1>1, OwnerIsTerm, Bounds
  <2>2. new \in Routine /\ new.place = "asking" /\ new.term = t
    <3>1. new \in Routine
      BY <1>1, <2>1, RoutineRecords DEF WorkerPlaces
    <3> QED  BY <1>1, <2>1, <3>1 DEF Routine
  <2>3. run' = [run EXCEPT ![t][w] = new]
    BY <1>3
  <2>4. wake' \in BOOLEAN /\ due' \subseteq Kinds /\ unsignalled' \subseteq Kinds
    BY <1>1 DEF work, Control, TypeOK
  <2> HIDE DEF new
  <2> QED  BY <1>1, <2>2, <2>3, <2>4, GoroutineMoves
<1> QED  BY <1>2, <1>3 DEF Top

LEMMA AskStep ==
  ASSUME Control, NEW t \in Terms, NEW w \in Workers, Ask(t, w) \/ AskFails(t, w), UNCHANGED scope
  PROVE  Control'
<1>1. /\ run[t][w].place = "asking" /\ run[t][w].term = t /\ w \in Goroutines /\ run[t][w] \in Routine
      /\ UNCHANGED <<scope, mu, terms, row, stop, unreleased, call, work>>
  BY DEF Ask, AskFails, Worker, Goroutines, Control, TypeOK, WorkersKnow
<1>2. Doubting
  BY <1>1, OwnerIsTerm DEF Ask, AskFails, Doubting
<1>3. CASE Leave(t, w)
  BY <1>1, <1>2, <1>3, LeavingKeeps
<1>4. CASE run' = [run EXCEPT ![t][w] = [@ EXCEPT !.place = "first", !.term = 0]]
  <2> DEFINE new == [run[t][w] EXCEPT !.place = "first", !.term = 0]
  <2>1. new \in Routine /\ new.place = "first"
    BY <1>1, RoutineRecords, Bounds DEF Routine, WorkerPlaces
  <2>2. run' = [run EXCEPT ![t][w] = new]
    BY <1>4
  <2>3. wake' \in BOOLEAN /\ due' \subseteq Kinds /\ unsignalled' \subseteq Kinds
    BY <1>1 DEF work, Control, TypeOK
  <2> HIDE DEF new
  <2> QED  BY <1>1, <1>2, <2>1, <2>2, <2>3, GoroutineMoves
<1> QED  BY <1>3, <1>4 DEF Ask, AskFails

LEMMA ClaimStep ==
  ASSUME Control, NEW t \in Terms, NEW w \in Workers,
         Claim(t, w) \/ FindNothing(t, w) \/ MayProcessFails(t, w) \/ ClaimFails(t, w), UNCHANGED scope
  PROVE  Control'
<1>1. /\ run[t][w].place \in {"first", "second", "other"} /\ UNCHANGED <<scope, mu, terms, row, stop, unreleased, call>>
      /\ wake' \in BOOLEAN /\ due' \subseteq Kinds /\ unsignalled' \subseteq Kinds
  BY DEF Claim, FindNothing, MayProcessFails, ClaimFails, Claiming, work, Control, TypeOK
<1>2. Doubting
  BY OwnerIsTerm DEF Claim, FindNothing, MayProcessFails, ClaimFails, Doubting, Keep
<1>3. \E place \in WorkerPlaces \ {"asking"} : Move(t, w, place) \/ Turn(t, w, place)
  <2>1. CASE Claim(t, w)
    BY <2>1 DEF Claim, WorkerPlaces
  <2>2. CASE FindNothing(t, w) \/ MayProcessFails(t, w)
    <3>1. GoOn(t, w)
      BY <2>2 DEF FindNothing, MayProcessFails
    <3> QED  BY <1>1, <3>1 DEF GoOn, WorkerPlaces
  <2>3. CASE ClaimFails(t, w)
    BY <2>3 DEF ClaimFails, WorkerPlaces
  <2> QED  BY <2>1, <2>2, <2>3
<1> QED  BY <1>1, <1>2, <1>3, WorkerMoves

LEMMA LoopStep ==
  ASSUME Control, NEW t \in Terms, NEW w \in Workers,
         Finish(t, w) \/ WaitEnds(t, w) \/ Wake(t, w) \/ PollTimer(t, w), UNCHANGED scope
  PROVE  Control'
<1>1. /\ run[t][w].place # "gone" /\ w \in Goroutines
      /\ UNCHANGED <<scope, mu, terms, row, stop, unreleased, call>> /\ Doubting
      /\ wake' \in BOOLEAN /\ due' \subseteq Kinds /\ unsignalled' \subseteq Kinds
  BY DEF Finish, WaitEnds, Wake, PollTimer, Worker, Waiting, Goroutines, Doubting, Keep, work, Control, TypeOK
<1>2. CASE WaitEnds(t, w)
  BY <1>1, <1>2, LeavingKeeps DEF WaitEnds
<1>3. CASE Finish(t, w) \/ Wake(t, w) \/ PollTimer(t, w)
  <2>1. "top" \in WorkerPlaces \ {"asking"} /\ (Move(t, w, "top") \/ Turn(t, w, "top"))
    BY <1>3 DEF Finish, Wake, PollTimer, WorkerPlaces
  <2> QED  BY <1>1, <2>1, WorkerMoves
<1> QED  BY <1>2, <1>3

LEMMA ControlStep == Control /\ [Next]_vars => Control'
<1> SUFFICES ASSUME Control, [Next]_vars PROVE Control'
  OBVIOUS
<1>1. CASE UNCHANGED vars
  BY <1>1 DEF vars, Control, TypeOK, StartAlone, At, FieldsAgree, ShutdownsInOrder, WorkersKnow, OneGeneration,
              OnlyOwnLoss, Drained, Alive
<1>2. ASSUME Next PROVE Control'
  <2>1. UNCHANGED scope /\ scope.callers \subseteq Callers
    BY <1>2, Bounds DEF Next, Control, TypeOK
  <2>2. ASSUME NEW c \in Callers, StartNext(c) \/ ReadyRead(c) \/ ReadyAnswer(c) \/ StopNext(c) PROVE Control'
    BY <2>1, <2>2, LockStep, AcquireStep, LaunchStep, FailStep, ReadyStep, EnterStep, StopCallerStep
       DEF StartNext, StopNext
  <2>3. ASSUME NEW t \in Terms, Shutdown(t) PROVE Control'
    BY <2>1, <2>3, CancelStep, ReleaseStep, ResetStep, CloseStep DEF Shutdown
  <2>4. ASSUME NEW t \in Terms, RenewalExit(t) \/ RenewalTick(t) \/ RenewalFails(t) PROVE Control'
    BY <2>1, <2>4, RenewalStep
  <2>5. ASSUME NEW t \in Terms, NEW w \in Workers, WorkerNext(t, w) \/ WorkerErrs(t, w) PROVE Control'
    BY <2>1, <2>5, TopStep, AskStep, ClaimStep, LoopStep DEF WorkerNext, WorkerErrs
  <2> QED  BY <1>2, <2>1, <2>2, <2>3, <2>4, <2>5, OutsideStep DEF Next
<1> QED  BY <1>1, <1>2

LEMMA ControlInit == Init => Control
<1> SUFFICES ASSUME Init PROVE Control
  OBVIOUS
<1>1. TypeOK
  <2>1. /\ eng \in Fields /\ scope \in Scopes /\ mu \in Callers \cup {Free}
        /\ terms \in 0..MaxTerm /\ row \in 0..MaxTerm
    BY Bounds DEF Init, Fields
  <2>2. run \in [Terms -> [Goroutines -> Routine]] /\ call \in [Callers -> Calling] /\ stop \in [Terms -> StopPlaces]
    BY RoutineRecords, CallRecords DEF Init, StopPlaces
  <2>3. /\ cancelled \subseteq Terms /\ doubted \subseteq Terms /\ unreleased \subseteq Terms
        /\ wake \in BOOLEAN /\ due \subseteq Kinds /\ unsignalled \subseteq Kinds
    BY DEF Init
  <2> QED  BY <2>1, <2>2, <2>3 DEF TypeOK
<1>2. StartAlone /\ FieldsAgree
  BY CallRecords, Bounds DEF Init, StartAlone, At, FieldsAgree
<1>3. \A t \in Terms : Alive(t) = {} /\ stop[t] = "none"
  BY RoutineRecords DEF Init, Alive
<1>4. ShutdownsInOrder /\ OneGeneration /\ OnlyOwnLoss
  BY <1>3 DEF ShutdownsInOrder, OneGeneration, OnlyOwnLoss, Init
<1>5. WorkersKnow
  BY RoutineRecords DEF Init, WorkersKnow
<1> QED  BY <1>1, <1>2, <1>4, <1>5 DEF Control

LEMMA Controlled == Spec => []Control
BY ControlInit, ControlStep, PTL DEF Spec

(* The fields, the goroutines and the callers keep their types.            *)
THEOREM TypeCorrect == Spec => []TypeOK
<1>1. Control => TypeOK
  BY DEF Control
<1> QED  BY <1>1, Controlled, PTL

(* Start and Stop: a goroutine lives only under the owner it was launched  *)
(* with, however many callers start and stop the engine at once.           *)
THEOREM Generations == Spec => []OneGeneration
<1>1. Control => OneGeneration
  BY DEF Control
<1> QED  BY <1>1, Controlled, PTL

(* Stop: who returns from it leaves neither goroutines nor a lease that    *)
(* could be released, whoever did the draining.                            *)
THEOREM Released == Spec => []StoppedMeansReleased
<1>1. Control => StoppedMeansReleased
  BY DEF Control, StartAlone, ShutdownsInOrder, StoppedMeansReleased, At
<1> QED  BY <1>1, Controlled, PTL

(* loseServiceLease: no check of an earlier start cancels the work of a    *)
(* later one.                                                              *)
THEOREM OwnLoss == Spec => []OnlyOwnLoss
<1>1. Control => OnlyOwnLoss
  BY DEF Control
<1> QED  BY <1>1, Controlled, PTL

(***************************************************************************)
(* Signals.                                                                *)
(*                                                                         *)
(* Work that was announced and is still due is covered by a token or by a  *)
(* worker that will ask for it before it waits on the channel alone: one   *)
(* anywhere in its loop, one that will come back because the poll timer    *)
(* found it napping, or one whose second claim asks for that very kind.    *)
(***************************************************************************)
Covers(t, w, k) ==
  \/ run[t][w].place \in {"top", "asking", "first", "other", "working", "napping"}
  \/ run[t][w].place = "second" /\ Wanted(t, w) = k

Covered(k) ==
  \A t \in Terms : CurrentLease = t /\ t \notin cancelled => \E w \in scope.workers : Covers(t, w, k)

Wakeful ==
  \/ wake
  \/ \A k \in due \ unsignalled : scope.workers # {} /\ Covered(k)

(* Steps that start nothing and cover what was covered.                    *)
LEMMA CoverKept ==
  ASSUME Wakeful, UNCHANGED scope, wake' = wake,
         due' \ unsignalled' \subseteq due \ unsignalled,
         CurrentLease' \in {CurrentLease, 0}, cancelled \subseteq cancelled',
         \A k \in due' \ unsignalled', t \in Terms, w \in scope.workers :
           CurrentLease' = t /\ t \notin cancelled' /\ Covers(t, w, k) => Covers(t, w, k)'
  PROVE  Wakeful'
<1>1. SUFFICES ASSUME ~wake', NEW k \in due' \ unsignalled'
               PROVE  scope'.workers # {} /\ Covered(k)'
  BY DEF Wakeful
<1>2. scope'.workers # {} /\ Covered(k)
  BY <1>1 DEF Wakeful
<1>3. ASSUME NEW t \in Terms, CurrentLease' = t, t \notin cancelled'
      PROVE  \E w \in scope'.workers : Covers(t, w, k)'
  <2>1. CurrentLease = t /\ t \notin cancelled
    BY <1>3, Bounds
  <2>2. PICK w \in scope.workers : Covers(t, w, k)
    BY <1>2, <2>1 DEF Covered
  <2> QED  BY <1>1, <1>3, <2>2
<1> QED  BY <1>2, <1>3 DEF Covered

(* A loss takes the lease away from those who work under it.               *)
LEMMA DoubtingDims ==
  ASSUME Control, Doubting
  PROVE  /\ CurrentLease' \in {CurrentLease, 0} /\ cancelled \subseteq cancelled'
         /\ \A owner \in Terms : Lose(owner) /\ eng.owner = owner => CurrentLease' = 0
<1>1. CASE Keep
  <2>1. CurrentLease' = CurrentLease /\ cancelled' = cancelled
    BY <1>1 DEF Keep, CurrentLease
  <2>2. ASSUME NEW owner \in Terms, Lose(owner), eng.owner = owner PROVE CurrentLease' = 0
    <3>1. CASE eng.started
      <4>1. eng' = [eng EXCEPT !.ready = FALSE] /\ eng \in Fields
        BY <2>2, <3>1 DEF Lose, Control, TypeOK
      <4>2. ~eng'.ready
        BY <4>1 DEF Fields
      <4> QED  BY <4>2 DEF CurrentLease
    <3>2. CASE ~eng.started
      BY <1>1, <3>2 DEF Keep, CurrentLease
    <3> QED  BY <3>1, <3>2
  <2> QED  BY <2>1, <2>2
<1>2. ASSUME NEW lost \in Terms, Lose(lost)
      PROVE  /\ CurrentLease' \in {CurrentLease, 0} /\ cancelled \subseteq cancelled'
             /\ \A owner \in Terms : Lose(owner) /\ eng.owner = owner => CurrentLease' = 0
  <2>1. cancelled \subseteq cancelled'
    BY <1>2 DEF Lose
  <2>2. CASE eng' = eng /\ ~(eng.owner = lost /\ (eng.started \/ eng.stopping))
    <3>1. CurrentLease' = CurrentLease
      BY <2>2 DEF CurrentLease
    <3>2. ASSUME NEW owner \in Terms, Lose(owner), eng.owner = owner PROVE CurrentLease' = 0
      <4>1. CASE eng.started \/ eng.stopping
        <5>1. eng' = [eng EXCEPT !.ready = FALSE] /\ eng \in Fields
          BY <3>2, <4>1 DEF Lose, Control, TypeOK
        <5>2. ~eng'.ready
          BY <5>1 DEF Fields
        <5> QED  BY <5>2 DEF CurrentLease
      <4>2. CASE ~eng.started
        BY <2>2, <4>2 DEF CurrentLease
      <4> QED  BY <4>1, <4>2
    <3> QED  BY <2>1, <3>1, <3>2
  <2>3. CASE eng' = [eng EXCEPT !.ready = FALSE]
    <3>1. ~eng'.ready
      BY <2>3 DEF Control, TypeOK, Fields
    <3> QED  BY <2>1, <3>1 DEF CurrentLease
  <2> QED  BY <1>2, <2>2, <2>3 DEF Lose
<1> QED  BY <1>1, <1>2 DEF Doubting

(* Steps in which no worker moves.                                         *)
LEMMA WakefulIdle ==
  ASSUME Wakeful, UNCHANGED scope, wake' = wake,
         due' \ unsignalled' \subseteq due \ unsignalled,
         CurrentLease' \in {CurrentLease, 0}, cancelled \subseteq cancelled',
         \A t \in Terms, w \in Workers : run'[t][w] = run[t][w],
         scope.workers \subseteq Workers
  PROVE  Wakeful'
BY CoverKept DEF Covers, Wanted

LEMMA WakefulOutside ==
  ASSUME Control, Wakeful, UNCHANGED scope, Lapse \/ \E k \in Kinds : Commit(k) \/ Signal(k)
  PROVE  Wakeful'
<1>1. CASE \E k \in Kinds : Signal(k)
  BY <1>1 DEF Signal, Wakeful
<1>2. CASE Lapse \/ \E k \in Kinds : Commit(k)
  <2>1. /\ wake' = wake /\ due' \ unsignalled' \subseteq due \ unsignalled
        /\ UNCHANGED <<eng, cancelled, run>>
    BY <1>2 DEF Lapse, Commit, work
  <2>2. CurrentLease' = CurrentLease
    BY <2>1 DEF CurrentLease
  <2> QED  BY <2>1, <2>2, WakefulIdle, Bounds DEF Control, TypeOK
<1> QED  BY <1>1, <1>2

LEMMA WakefulCallers ==
  ASSUME Control, Wakeful, UNCHANGED scope, NEW c \in Callers,
         StartNext(c) \/ ReadyRead(c) \/ ReadyAnswer(c) \/ StopNext(c)
  PROVE  Wakeful'
<1>0. scope.workers \subseteq Workers
  BY Bounds DEF Control, TypeOK
<1>1. CASE StartLaunch(c)
  <2> DEFINE t == call[c].term
  <2>1. /\ t = terms /\ t \in Terms /\ At(c, "recovering")
        /\ eng' = [eng EXCEPT !.started = TRUE, !.ready = TRUE, !.owner = t]
        /\ UNCHANGED <<cancelled, work>>
    BY <1>1 DEF StartLaunch, Control, StartAlone
  <2>2. CurrentLease' = t
    <3>1. eng \in Fields
      BY DEF Control, TypeOK
    <3>2. eng'.started /\ eng'.ready /\ eng'.owner = t
      BY <2>1, <3>1 DEF Fields
    <3> QED  BY <3>2 DEF CurrentLease
  <2>3. \A w \in scope.workers : run'[t][w].place = "top"
    <3>1. \A w \in scope.workers : w \in Goroutines /\ w # Renewal
      BY <1>0, LifecycleAssumption DEF Goroutines
    <3>2. run'[t] = [g \in Goroutines |->
               IF g = Renewal THEN [NotRunning EXCEPT !.place = "ticking"]
               ELSE IF g \in scope.workers THEN [NotRunning EXCEPT !.place = "top"] ELSE NotRunning]
      BY <1>1, <2>1 DEF StartLaunch, Control, TypeOK
    <3>3. [NotRunning EXCEPT !.place = "top"].place = "top"
      BY DEF NotRunning
    <3> QED  BY <3>1, <3>2, <3>3
  <2>4. \A k \in Kinds : scope.workers # {} => Covered(k)'
    BY <2>2, <2>3 DEF Covered, Covers
  <2>5. wake' = wake /\ due' = due /\ unsignalled' = unsignalled /\ due \subseteq Kinds
    BY <2>1 DEF work, Control, TypeOK
  <2> QED  BY <2>4, <2>5 DEF Wakeful
<1>2. CASE ~StartLaunch(c)
  <2>1. UNCHANGED <<run, work>>
    BY <1>2 DEF StartNext, StartLock, StartAcquire, StartFail, ReadyRead, ReadyAnswer, StopNext, StopEnter,
                StopTimeout, StopSee, StopReturn
  <2>2. CurrentLease' \in {CurrentLease, 0} /\ cancelled \subseteq cancelled'
    <3>1. CASE ReadyAnswer(c)
      <4>1. call[c].term \in Terms
        BY <3>1 DEF ReadyAnswer, At, Control, StartAlone
      <4>2. Doubting
        BY <3>1, <4>1 DEF ReadyAnswer, Doubting
      <4> QED  BY <4>2, DoubtingDims
    <3>2. CASE StopEnter(c) /\ eng' # eng
      <4>1. eng' = [eng EXCEPT !.stopping = TRUE, !.started = FALSE, !.ready = FALSE, !.stopDone = eng.owner]
            /\ eng \in Fields /\ cancelled' = cancelled
        BY <3>2 DEF StopEnter, Control, TypeOK
      <4>2. ~eng'.started
        BY <4>1 DEF Fields
      <4> QED  BY <4>1, <4>2 DEF CurrentLease
    <3>3. CASE eng' = eng /\ cancelled' = cancelled
      BY <3>3 DEF CurrentLease
    <3> QED  BY <1>2, <3>1, <3>2, <3>3 DEF StartNext, StartLock, StartAcquire, StartFail, ReadyRead, StopNext,
                StopEnter, StopTimeout, StopSee, StopReturn
  <2> QED  BY <1>0, <2>1, <2>2, WakefulIdle DEF work
<1> QED  BY <1>1, <1>2

LEMMA WakefulShutdown ==
  ASSUME Control, Wakeful, UNCHANGED scope, NEW t \in Terms, Shutdown(t)
  PROVE  Wakeful'
<1>1. UNCHANGED <<run, work>> /\ cancelled \subseteq cancelled' /\ scope.workers \subseteq Workers
  BY Bounds DEF Shutdown, StopCancel, FinishRelease, FinishReset, FinishClose, Control, TypeOK
<1>2. CurrentLease' \in {CurrentLease, 0}
  <2>1. CASE FinishReset(t)
    <3>1. eng'.owner = 0
      BY <2>1 DEF FinishReset, Control, TypeOK, Fields
    <3> QED  BY <3>1 DEF CurrentLease
  <2>2. CASE eng' = eng
    BY <2>2 DEF CurrentLease
  <2> QED  BY <2>1, <2>2 DEF Shutdown, StopCancel, FinishRelease, FinishClose
<1> QED  BY <1>1, <1>2, WakefulIdle DEF work

LEMMA WakefulRenewal ==
  ASSUME Control, Wakeful, UNCHANGED scope, NEW t \in Terms, RenewalExit(t) \/ RenewalTick(t) \/ RenewalFails(t)
  PROVE  Wakeful'
<1>1. run' = [run EXCEPT ![t][Renewal] = NotRunning] /\ UNCHANGED work
  BY DEF RenewalExit, RenewalTick, RenewalFails, Leave
<1>2. \A u \in Terms, w \in Workers : run'[u][w] = run[u][w]
  BY <1>1, LifecycleAssumption DEF Control, TypeOK, Goroutines
<1>3. Doubting
  BY OwnerIsTerm DEF RenewalExit, RenewalTick, RenewalFails, Doubting, Keep
<1>4. scope.workers \subseteq Workers
  BY Bounds DEF Control, TypeOK
<1> QED  BY <1>1, <1>2, <1>3, <1>4, DoubtingDims, WakefulIdle DEF work

(* A worker moves: either it goes on covering what it covered, or the      *)
(* lease is gone.                                                          *)
LEMMA WakefulMove ==
  ASSUME Control, Wakeful, UNCHANGED scope, NEW t \in Terms, NEW w \in Workers, NEW new \in Routine,
         run' = [run EXCEPT ![t][w] = new],
         wake' = wake, due' \subseteq due, unsignalled' = unsignalled, Doubting,
         \/ CurrentLease' = 0
         \/ t \in cancelled'
         \/ new.place \in {"top", "asking", "first", "other", "working", "napping"}
         \/ run[t][w].place = "waiting"
         \/ run[t][w].place = "second" /\ Wanted(t, w) \notin due'
         \/ /\ run[t][w].place = "first" /\ new.place = "second"
            /\ new.prefer = run[t][w].prefer /\ run[t][w].prefer \notin due'
  PROVE  Wakeful'
<1>1. w \in Goroutines /\ scope.workers \subseteq Workers /\ Workers \subseteq Goroutines
  BY Bounds DEF Goroutines, Control, TypeOK
<1>2. \A u \in Terms, v \in Goroutines : run'[u][v] = IF u = t /\ v = w THEN new ELSE run[u][v]
  BY <1>1 DEF Control, TypeOK
<1>3. ASSUME NEW k \in due' \ unsignalled', NEW u \in Terms, NEW v \in scope.workers,
             CurrentLease' = u, u \notin cancelled', Covers(u, v, k)
      PROVE  Covers(u, v, k)'
  <2>1. CASE u # t \/ v # w
    <3>1. run'[u][v] = run[u][v]
      BY <1>1, <1>2, <2>1
    <3> QED  BY <1>3, <3>1 DEF Covers, Wanted
  <2>2. CASE u = t /\ v = w
    <3>1. run'[t][w] = new /\ CurrentLease' # 0 /\ t \notin cancelled'
      BY <1>1, <1>2, <1>3, <2>2, Bounds
    <3>2. CASE new.place \in {"top", "asking", "first", "other", "working", "napping"}
      BY <2>2, <3>1, <3>2 DEF Covers
    <3>3. ~(run[t][w].place = "waiting") /\ ~(run[t][w].place = "second" /\ Wanted(t, w) \notin due')
      BY <1>3, <2>2 DEF Covers
    <3>4. CASE /\ run[t][w].place = "first" /\ new.place = "second"
               /\ new.prefer = run[t][w].prefer /\ run[t][w].prefer \notin due'
      <4>1. k \in Kinds /\ run[t][w].prefer \in Kinds /\ k # run[t][w].prefer
        BY <1>1, <3>4, RoutineRecords DEF Control, TypeOK
      <4>2. Wanted(t, w)' = Other(run[t][w].prefer) /\ Other(run[t][w].prefer) = k
        BY <3>1, <3>4, <4>1 DEF Wanted, Other, Kinds
      <4> QED  BY <2>2, <3>1, <3>4, <4>2 DEF Covers
    <3> QED  BY <3>1, <3>2, <3>3, <3>4
  <2> QED  BY <2>1, <2>2
<1>4. due' \ unsignalled' \subseteq due \ unsignalled
  OBVIOUS
<1> QED  BY <1>3, <1>4, DoubtingDims, CoverKept

(* The worker that takes the token covers every kind itself.               *)
LEMMA WakefulWake ==
  ASSUME Control, Wakeful, UNCHANGED scope, NEW t \in Terms, NEW w \in Workers, Wake(t, w)
  PROVE  Wakeful'
<1>1. /\ w \in Goroutines /\ run[t][w].place # "gone" /\ run[t][w] \in Routine
      /\ run' = [run EXCEPT ![t][w] = [run[t][w] EXCEPT !.place = "top"]]
      /\ UNCHANGED <<eng, cancelled>>
  BY DEF Wake, Waiting, Move, Goroutines, Control, TypeOK
<1>2. run'[t][w].place = "top"
  <2>1. [run[t][w] EXCEPT !.place = "top"].place = "top"
    BY <1>1 DEF Routine
  <2> QED  BY <1>1, <2>1 DEF Control, TypeOK
<1>3. w \in scope.workers
  BY <1>1 DEF Control, WorkersKnow
<1>4. \A u \in Terms : CurrentLease' = u => u = t
  BY <1>1, OwnerIsTerm, Bounds DEF CurrentLease
<1>5. \A k : Covered(k)'
  BY <1>2, <1>3, <1>4 DEF Covered, Covers
<1> QED  BY <1>3, <1>5 DEF Wakeful

LEMMA WakefulTop ==
  ASSUME Control, Wakeful, UNCHANGED scope, NEW t \in Terms, NEW w \in Workers, Top(t, w)
  PROVE  Wakeful'
<1>1. /\ run[t][w] \in Routine /\ run[t][w].place = "top" /\ NotRunning \in Routine
      /\ UNCHANGED <<eng, cancelled, doubted, work>> /\ eng.owner \in 0..MaxTerm
  BY RoutineRecords, FieldRecords DEF Top, Worker, Goroutines, Control, TypeOK
<1>2. Doubting
  BY <1>1 DEF Doubting, Keep
<1>3. CASE (t \in cancelled \/ (~eng.started /\ eng.stopping)) /\ Leave(t, w)
  <2>1. t \in cancelled' \/ CurrentLease' = 0
    BY <1>1, <1>3 DEF CurrentLease
  <2> QED  BY <1>1, <1>2, <1>3, <2>1, WakefulMove DEF Leave, work
<1>4. CASE run' = [run EXCEPT ![t][w] = [@ EXCEPT !.place = "asking", !.term = eng.owner]]
  <2> DEFINE new == [run[t][w] EXCEPT !.place = "asking", !.term = eng.owner]
  <2>1. new \in Routine
    BY <1>1, RoutineRecords DEF WorkerPlaces
  <2>2. new.place = "asking"
    BY <1>1 DEF Routine
  <2>3. run' = [run EXCEPT ![t][w] = new]
    BY <1>4
  <2> HIDE DEF new
  <2> QED  BY <1>1, <1>2, <2>1, <2>2, <2>3, WakefulMove DEF work
<1> QED  BY <1>3, <1>4 DEF Top

LEMMA WakefulAsk ==
  ASSUME Control, Wakeful, UNCHANGED scope, NEW t \in Terms, NEW w \in Workers, Ask(t, w) \/ AskFails(t, w)
  PROVE  Wakeful'
<1>1. /\ run[t][w] \in Routine /\ run[t][w].place = "asking" /\ run[t][w].term = t /\ NotRunning \in Routine
      /\ eng.owner = t /\ UNCHANGED work
  <2>1. run[t][w] \in Routine /\ run[t][w].place = "asking" /\ run[t][w].term = t /\ UNCHANGED work /\ w \in Goroutines
    BY DEF Ask, AskFails, Worker, Goroutines, Control, TypeOK, WorkersKnow
  <2>2. eng.owner = t
    BY <2>1, OwnerIsTerm
  <2> QED  BY <2>1, <2>2, RoutineRecords
<1>2. Doubting
  BY <1>1, OwnerIsTerm DEF Ask, AskFails, Doubting
<1>3. CASE Leave(t, w) /\ (CurrentLease' = 0)
  BY <1>1, <1>2, <1>3, WakefulMove DEF Leave, work
<1>4. CASE run' = [run EXCEPT ![t][w] = [@ EXCEPT !.place = "first", !.term = 0]]
  <2> DEFINE new == [run[t][w] EXCEPT !.place = "first", !.term = 0]
  <2>1. new \in Routine
    BY <1>1, RoutineRecords, Bounds DEF WorkerPlaces
  <2>2. new.place = "first"
    BY <1>1 DEF Routine
  <2>3. run' = [run EXCEPT ![t][w] = new]
    BY <1>4
  <2> HIDE DEF new
  <2> QED  BY <1>1, <1>2, <2>1, <2>2, <2>3, WakefulMove DEF work
<1>5. CASE Leave(t, w) /\ CurrentLease = 0
  <2>1. CurrentLease' = 0
    BY <1>2, <1>5, DoubtingDims
  <2> QED  BY <1>3, <1>5, <2>1
<1>6. CASE Leave(t, w) /\ \E owner \in {t, CurrentLease} \ {0} : Lose(owner)
  <2>1. PICK owner \in {t, CurrentLease} \ {0} : Lose(owner)
    BY <1>6
  <2>2. owner \in Terms /\ eng.owner = owner
    BY <1>1, <2>1, OwnerIsTerm
  <2> QED  BY <1>2, <1>3, <1>6, <2>1, <2>2, DoubtingDims
<1> QED  BY <1>1, <1>3, <1>4, <1>5, <1>6, Bounds DEF Ask, AskFails

LEMMA WakefulClaim ==
  ASSUME Control, Wakeful, UNCHANGED scope, NEW t \in Terms, NEW w \in Workers,
         Claim(t, w) \/ FindNothing(t, w) \/ MayProcessFails(t, w) \/ ClaimFails(t, w)
  PROVE  Wakeful'
<1>1. /\ run[t][w].place \in {"first", "second", "other"} /\ run[t][w] \in Routine
      /\ wake' = wake /\ due' \subseteq due /\ unsignalled' = unsignalled
  BY DEF Claim, FindNothing, MayProcessFails, ClaimFails, Claiming, work, Goroutines, Control, TypeOK
<1>2. Doubting
  BY OwnerIsTerm DEF Claim, FindNothing, MayProcessFails, ClaimFails, Doubting, Keep
<1> DEFINE moved(p)  == [run[t][w] EXCEPT !.place = p]
           turned(p) == [run[t][w] EXCEPT !.place = p, !.prefer = Other(run[t][w].prefer)]
<1>3. ASSUME NEW p \in WorkerPlaces
      PROVE  /\ moved(p) \in Routine /\ moved(p).place = p /\ moved(p).prefer = run[t][w].prefer
             /\ turned(p) \in Routine /\ turned(p).place = p
             /\ Move(t, w, p) => run' = [run EXCEPT ![t][w] = moved(p)]
             /\ Turn(t, w, p) => run' = [run EXCEPT ![t][w] = turned(p)]
  <2>1. moved(p) \in Routine /\ turned(p) \in Routine
    BY <1>1, RoutineRecords
  <2>2. moved(p).place = p /\ moved(p).prefer = run[t][w].prefer /\ turned(p).place = p
    BY <1>1 DEF Routine
  <2>3. Move(t, w, p) => run' = [run EXCEPT ![t][w] = moved(p)]
    BY DEF Move
  <2>4. Turn(t, w, p) => run' = [run EXCEPT ![t][w] = turned(p)]
    BY DEF Turn
  <2> QED  BY <2>1, <2>2, <2>3, <2>4
<1>4. {"second", "waiting", "napping", "other", "working"} \subseteq WorkerPlaces
  BY DEF WorkerPlaces
<1> HIDE DEF moved, turned
<1>5. CASE Move(t, w, "working") \/ Move(t, w, "other")
  BY <1>1, <1>2, <1>3, <1>4, <1>5, WakefulMove
<1>6. CASE Turn(t, w, "napping")
  BY <1>1, <1>2, <1>3, <1>4, <1>6, WakefulMove
<1>7. CASE /\ GoOn(t, w) /\ due' = due
           /\ CurrentLease' = 0 \/ t \in cancelled' \/ Wanted(t, w) \notin due
  <2>1. CASE run[t][w].place = "first" /\ Move(t, w, "second")
    <3>1. Wanted(t, w) = run[t][w].prefer
      BY <2>1 DEF Wanted
    <3> QED  BY <1>1, <1>2, <1>3, <1>4, <1>7, <2>1, <3>1, WakefulMove
  <2>2. CASE run[t][w].place = "second" /\ Turn(t, w, "waiting")
    BY <1>1, <1>2, <1>3, <1>4, <1>7, <2>2, WakefulMove
  <2>3. CASE run[t][w].place = "other" /\ Turn(t, w, "napping")
    BY <1>6, <2>3
  <2> QED  BY <1>1, <1>7, <2>1, <2>2, <2>3 DEF GoOn
<1>8. CASE FindNothing(t, w)
  <2>1. GoOn(t, w) /\ due' = due
    BY <1>8 DEF FindNothing, work
  <2>2. CASE CurrentLease # 0 /\ row # CurrentLease
    <3>1. Lose(CurrentLease) /\ CurrentLease \in Terms /\ eng.owner = CurrentLease
      BY <1>8, <2>2, OwnerIsTerm DEF FindNothing
    <3> QED  BY <1>2, <1>7, <2>1, <3>1, DoubtingDims
  <2>3. CASE CurrentLease = 0 \/ row = CurrentLease
    <3>1. CurrentLease = 0 \/ t \in cancelled \/ Wanted(t, w) \notin due
      BY <1>8, <2>3 DEF FindNothing
    <3> QED  BY <1>2, <1>7, <2>1, <3>1, DoubtingDims
  <2> QED  BY <2>2, <2>3
<1>9. CASE MayProcessFails(t, w)
  <2>1. GoOn(t, w) /\ due' = due /\ Lose(CurrentLease) /\ CurrentLease \in Terms /\ eng.owner = CurrentLease
    BY <1>9, OwnerIsTerm DEF MayProcessFails, work
  <2> QED  BY <1>2, <1>7, <2>1, DoubtingDims
<1> QED  BY <1>5, <1>6, <1>8, <1>9 DEF Claim, ClaimFails

LEMMA WakefulLoop ==
  ASSUME Control, Wakeful, UNCHANGED scope, NEW t \in Terms, NEW w \in Workers,
         Finish(t, w) \/ WaitEnds(t, w) \/ PollTimer(t, w)
  PROVE  Wakeful'
<1>1. /\ run[t][w] \in Routine /\ NotRunning \in Routine /\ Doubting
      /\ UNCHANGED work
  BY RoutineRecords DEF Finish, WaitEnds, PollTimer, Doubting, Keep, Goroutines, Control, TypeOK
<1>2. CASE WaitEnds(t, w)
  <2>1. t \in cancelled' /\ run' = [run EXCEPT ![t][w] = NotRunning]
    BY <1>2 DEF WaitEnds, Leave
  <2> QED  BY <1>1, <2>1, WakefulMove DEF work
<1>3. CASE Finish(t, w) \/ PollTimer(t, w)
  <2>1. \E new \in Routine : new.place = "top" /\ run' = [run EXCEPT ![t][w] = new]
    <3> DEFINE moved  == [run[t][w] EXCEPT !.place = "top"]
               turned == [run[t][w] EXCEPT !.place = "top", !.prefer = Other(run[t][w].prefer)]
    <3>1. moved \in Routine /\ turned \in Routine
      BY <1>1, RoutineRecords DEF WorkerPlaces
    <3>2. moved.place = "top" /\ turned.place = "top"
      BY <1>1 DEF Routine
    <3>3. run' = [run EXCEPT ![t][w] = moved] \/ run' = [run EXCEPT ![t][w] = turned]
      BY <1>3 DEF Finish, PollTimer, Move, Turn
    <3> HIDE DEF moved, turned
    <3> QED  BY <3>1, <3>2, <3>3
  <2>2. PICK new \in Routine : new.place = "top" /\ run' = [run EXCEPT ![t][w] = new]
    BY <2>1
  <2> QED  BY <1>1, <2>2, WakefulMove DEF work
<1> QED  BY <1>2, <1>3

LEMMA WakefulStep == Control /\ Wakeful /\ [Next]_vars => Wakeful'
<1> SUFFICES ASSUME Control, Wakeful, [Next]_vars PROVE Wakeful'
  OBVIOUS
<1>1. CASE UNCHANGED vars
  BY <1>1 DEF vars, Wakeful, Covered, Covers, Wanted, CurrentLease
<1>2. ASSUME Next PROVE Wakeful'
  <2>1. UNCHANGED scope /\ scope.callers \subseteq Callers
    BY <1>2, Bounds DEF Next, Control, TypeOK
  <2>2. ASSUME NEW t \in Terms, NEW w \in Workers, WorkerNext(t, w) \/ WorkerErrs(t, w) PROVE Wakeful'
    BY <2>1, <2>2, WakefulTop, WakefulAsk, WakefulClaim, WakefulLoop, WakefulWake DEF WorkerNext, WorkerErrs
  <2> QED  BY <1>2, <2>1, <2>2, WakefulOutside, WakefulCallers, WakefulShutdown, WakefulRenewal DEF Next
<1> QED  BY <1>1, <1>2

(* signal and the select in worker: announced work that is due never finds *)
(* all workers waiting on an empty channel, however commits, signals,      *)
(* claims, losses and restarts interleave.                                 *)
THEOREM WakeupKept == Spec => []NoLostWakeup
<1>1. Init => Wakeful
  BY DEF Init, Wakeful
<1>2. Control /\ Wakeful => NoLostWakeup
  <2> SUFFICES ASSUME Wakeful, NEW t \in Terms, CurrentLease = t, t \notin cancelled,
                      \A w \in scope.workers : run[t][w].place = "waiting", due \ unsignalled # {}, ~wake
               PROVE  FALSE
    BY DEF NoLostWakeup
  <2>1. PICK k \in due \ unsignalled : Covered(k)
    BY DEF Wakeful
  <2>2. PICK w \in scope.workers : Covers(t, w, k)
    BY <2>1 DEF Covered
  <2> QED  BY <2>2 DEF Covers
<1> QED  BY <1>1, <1>2, Controlled, WakefulStep, PTL DEF Spec

================================================================================
