------------------------------ MODULE LeaseTerm ------------------------------
(***************************************************************************)
(* What the singleton service lease promises to everything built on it,    *)
(* without clocks: a row that names an owner and a fencing term, and       *)
(* whether a check of that row can still succeed ("live") or its expiry    *)
(* has passed ("lapsed").                                                  *)
(*                                                                         *)
(* Source: src/internal/store/leases.go.  ServiceLease is the same row     *)
(* with its expiry time and the clocks of the processes that use it, and   *)
(* implements this module; ReviewStore runs its transactions against it.   *)
(***************************************************************************)
EXTENDS Naturals

CONSTANTS
  Procs,     \* engine processes that share the database
  NoProc,    \* the empty owner token
  MaxFence   \* bound: ownership epochs in a behaviour

ASSUME LeaseAssumption == NoProc \notin Procs /\ MaxFence \in Nat

VARIABLE lease   \* the service_leases row

LeaseRow == [owner : Procs \cup {NoProc}, fence : Nat, state : {"live", "lapsed"}]

LeaseInit == lease = [owner |-> NoProc, fence |-> 0, state |-> "lapsed"]

(* An expired or absent lease is taken under the next fencing term.  The   *)
(* grant may be dead on arrival: its expiry counts from a time read before *)
(* the statement ran.                                                      *)
Acquire(p) ==
  /\ lease.state = "lapsed"
  /\ lease.fence < MaxFence
  /\ \E s \in {"live", "lapsed"} :
       lease' = [owner |-> p, fence |-> lease.fence + 1, state |-> s]

(* A renewal by the recorded owner.  It can commit after the row's expiry  *)
(* has passed: the clock it compares with was read before it ran.          *)
Extend ==
  /\ lease.owner \in Procs
  /\ lease' = [lease EXCEPT !.state = "live"]

(* The expiry passes, or the owner releases: the row and its fence stay.   *)
Lapse ==
  /\ lease.state = "live"
  /\ lease' = [lease EXCEPT !.state = "lapsed"]

LeaseNext == (\E p \in Procs : Acquire(p)) \/ Extend \/ Lapse

LeaseSpec == LeaseInit /\ [][LeaseNext]_lease

(* The check every fenced transaction starts with.                         *)
HoldsLease(p, fence) ==
  lease.state = "live" /\ lease.owner = p /\ lease.fence = fence

==============================================================================
