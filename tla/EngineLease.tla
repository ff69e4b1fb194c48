------------------------------ MODULE EngineLease ------------------------------
(***************************************************************************)
(* An engine process and its lease: the life of src/internal/bot/engine.go *)
(* from Start to Stop or a crash, as far as the lease and the contexts of  *)
(* its workers are concerned.  ReviewEngine and NudgeOutbox add the        *)
(* workers and what they do.                                               *)
(*                                                                         *)
(* The owner token, drawn afresh by every Start, is the process: the fence *)
(* tells two starts of one process apart.                                  *)
(***************************************************************************)
EXTENDS LeaseTerm

CONSTANT Faults   \* what the environment may do, see below

ASSUME FaultAssumption ==
  Faults \subseteq {"crash", "stop", "pause", "deadline", "disk", "revoke", "retry",
                    "hard", "lost reply", "lost request", "late request", "push",
                    "same second", "touch"}

VARIABLE eng   \* eng[p]: phase of process p, its term, and what its configuration grants

Phases == {"down", "starting", "running", "lost", "stopping"}

Down == [phase |-> "down", fence |-> 0, entitled |-> TRUE]

EngineLeaseInit ==
  /\ LeaseInit
  /\ eng = [p \in Procs |-> Down]

(* serviceLeaseOwned: a stopping engine owns nothing; otherwise the store  *)
(* is asked, and a negative answer cancels the engine's context.           *)
ServiceLeaseOwned(p) == eng[p].phase \in {"running", "lost"} /\ HoldsLease(p, eng[p].fence)

Look(p) ==
  eng' = [eng EXCEPT ![p].phase =
            IF @ = "running" /\ ~HoldsLease(p, eng[p].fence) THEN "lost" ELSE @]

(* The store could not be asked: the engine takes that for a loss.         *)
LookInVain(p) ==
  /\ eng[p].phase = "running"
  /\ eng' = [eng EXCEPT ![p].phase = "lost"]

(* Start acquires the lease under the configuration of this process.       *)
AcquireToStart(p) ==
  /\ eng[p].phase = "down"
  /\ Acquire(p)
  /\ lease'.state = "live" \/ ("pause" \in Faults /\ lease'.fence < MaxFence)
  /\ \E e \in {TRUE} \cup (IF "revoke" \in Faults THEN {FALSE} ELSE {}) :
       eng' = [eng EXCEPT ![p] = [phase |-> "starting", fence |-> lease.fence + 1, entitled |-> e]]

(* Its recovery was accepted, or refused because the lease is gone.        *)
Serve(p)  == eng[p].phase = "starting" /\ eng' = [eng EXCEPT ![p].phase = "running"]

Refused(p) ==
  /\ eng[p].phase = "starting"
  /\ ~HoldsLease(p, eng[p].fence)
  /\ eng' = [eng EXCEPT ![p] = Down]

(* renewServiceLease: the row is extended, possibly after its expiry has   *)
(* passed, or the engine finds it is no longer the owner.                  *)
Renew(p) ==
  /\ eng[p].phase = "running"
  /\ \/ /\ lease.owner = p /\ lease.fence = eng[p].fence /\ lease.state = "lapsed"
        /\ Extend
        /\ UNCHANGED eng
     \/ ~HoldsLease(p, eng[p].fence) /\ Look(p) /\ UNCHANGED lease

(* Stop and a crash are bounded by the terms left for a successor.         *)
CancelToStop(p) ==
  /\ "stop" \in Faults
  /\ eng[p].phase \in {"running", "lost"}
  /\ lease.fence < MaxFence
  /\ eng' = [eng EXCEPT ![p].phase = "stopping"]
  /\ UNCHANGED lease

(* Once every worker has returned, the lease is released.                  *)
ReleaseToStop(p) ==
  /\ eng[p].phase = "stopping"
  /\ eng' = [eng EXCEPT ![p] = Down]
  /\ IF HoldsLease(p, eng[p].fence) THEN Lapse ELSE UNCHANGED lease

Die(p) ==
  /\ "crash" \in Faults
  /\ eng[p].phase # "down"
  /\ lease.fence < MaxFence
  /\ eng' = [eng EXCEPT ![p] = Down]
  /\ UNCHANGED lease

(* A lease is renewed well within its duration unless the process pauses.  *)
Expire ==
  /\ Lapse
  /\ \/ "pause" \in Faults /\ lease.fence < MaxFence
     \/ eng[lease.owner].phase \notin {"starting", "running"}
     \/ eng[lease.owner].fence # lease.fence
  /\ UNCHANGED eng

==============================================================================
