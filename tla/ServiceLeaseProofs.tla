-------------------------- MODULE ServiceLeaseProofs --------------------------
(***************************************************************************)
(* Proofs about the service lease, for every set of processes, every lease *)
(* duration and every number of epochs.  TermInv is the inductive core:    *)
(* fences only grow, so a remembered term that equals the row's fence can  *)
(* only be the one granted to the row's owner.                             *)
(***************************************************************************)
EXTENDS ServiceLease, TLAPS

(* The store's rows and the processes' memory keep their types.            *)
THEOREM TypeCorrect == Spec => []TypeOK
<1>1. Init => TypeOK
  BY ServiceLeaseAssumption DEF Init, TypeOK, NoRow, NoCall, Kinds
<1>2. TypeOK /\ [Next]_vars => TypeOK'
  <2> SUFFICES ASSUME TypeOK, [Next]_vars PROVE TypeOK'
    OBVIOUS
  <2> USE ServiceLeaseAssumption DEF TypeOK, NoCall, Return
  <2>1. CASE Tick
    <3>1. now' \in Nat
      BY <2>1 DEF Tick
    <3> QED  BY <2>1, <3>1 DEF Tick
  <2>2. ASSUME NEW p \in Procs, NEW kind \in Kinds, Call(p, kind) PROVE TypeOK'
    BY <2>2 DEF Call, Kinds
  <2>3. ASSUME NEW p \in Procs, AcquireServiceLease(p) PROVE TypeOK'
    BY <2>3 DEF AcquireServiceLease, NextRow
  <2>4. ASSUME NEW p \in Procs, RenewServiceLease(p) PROVE TypeOK'
    BY <2>4 DEF RenewServiceLease
  <2>5. ASSUME NEW p \in Procs, FencedTransaction(p) PROVE TypeOK'
    BY <2>5 DEF FencedTransaction
  <2>6. ASSUME NEW p \in Procs, ReleaseServiceLease(p) PROVE TypeOK'
    BY <2>6 DEF ReleaseServiceLease, Released
  <2>7. ASSUME NEW p \in Procs, Crash(p) PROVE TypeOK'
    BY <2>7 DEF Crash
  <2>8. CASE UNCHANGED vars
    BY <2>8 DEF vars
  <2> QED  BY <2>1, <2>2, <2>3, <2>4, <2>5, <2>6, <2>7, <2>8 DEF Next
<1> QED  BY <1>1, <1>2, PTL DEF Spec

(* One step keeps TermInv.  Acquisition is the case with substance: the    *)
(* new fence exceeds every remembered one, so it is remembered by nobody   *)
(* but the new owner.                                                      *)
LEMMA TermInvStep == TypeOK /\ TermInv /\ [Next]_vars => TermInv'
<1> SUFFICES ASSUME TypeOK, TermInv, [Next]_vars PROVE TermInv'
  OBVIOUS
<1> USE DEF TypeOK, TermInv, TermsNeverShared
<1>1. CASE Tick
  BY <1>1 DEF Tick
<1>2. ASSUME NEW p \in Procs, NEW kind \in Kinds, Call(p, kind) PROVE TermInv'
  BY <1>2 DEF Call
<1>3. ASSUME NEW p \in Procs, AcquireServiceLease(p) PROVE TermInv'
  <2>1. CASE UNCHANGED <<row, term>>
    BY <1>3, <2>1 DEF AcquireServiceLease
  <2>2. CASE row' = NextRow(p, call[p].at) /\ term' = [term EXCEPT ![p] = row.fence + 1]
    <3>1. row'.fence = row.fence + 1 /\ row'.owner = p
      BY <2>2 DEF NextRow
    <3>2. applied' = applied
      BY <1>3 DEF AcquireServiceLease
    <3>3. \A q \in Procs : q # p => term'[q] = term[q] /\ term[q] < row'.fence
      BY <2>2, <3>1
    <3>4. term'[p] = row'.fence
      BY <2>2, <3>1
    <3> QED  BY <3>1, <3>2, <3>3, <3>4
  <2> QED  BY <1>3, <2>1, <2>2 DEF AcquireServiceLease
<1>4. ASSUME NEW p \in Procs, RenewServiceLease(p) PROVE TermInv'
  BY <1>4 DEF RenewServiceLease
<1>5. ASSUME NEW p \in Procs, FencedTransaction(p) PROVE TermInv'
  BY <1>5 DEF FencedTransaction, Authorised
<1>6. ASSUME NEW p \in Procs, ReleaseServiceLease(p) PROVE TermInv'
  BY <1>6 DEF ReleaseServiceLease, Released
<1>7. ASSUME NEW p \in Procs, Crash(p) PROVE TermInv'
  BY <1>7 DEF Crash
<1>8. CASE UNCHANGED vars
  BY <1>8 DEF vars
<1> QED  BY <1>1, <1>2, <1>3, <1>4, <1>5, <1>6, <1>7, <1>8 DEF Next

(* The inductive invariant holds of every behaviour, with any clock.       *)
THEOREM TermInvariant == Spec => []TermInv
<1>1. Init => TermInv
  BY DEF Init, TermInv, TermsNeverShared, NoRow
<1> QED  BY <1>1, TermInvStep, TypeCorrect, PTL DEF Spec

(* No fencing term is ever held by two processes.                          *)
THEOREM TermsUnique == Spec => []TermsNeverShared
<1>1. TermInv => TermsNeverShared
  BY DEF TermInv
<1> QED  BY <1>1, TermInvariant, PTL

(* Fenced transactions commit in the order of their terms.                 *)
THEOREM Fencing == Spec => EffectsFollowTerms
<1>1. TypeOK /\ TermInv /\ [Next]_vars => [applied' >= applied]_vars
  <2> SUFFICES ASSUME TypeOK, TermInv, Next PROVE applied' >= applied
    BY DEF TypeOK
  <2> QED
    BY DEF Next, Tick, Call, AcquireServiceLease, RenewServiceLease, FencedTransaction,
           ReleaseServiceLease, Crash, Authorised, TypeOK, TermInv
<1> QED  BY <1>1, TypeCorrect, TermInvariant, PTL DEF Spec, EffectsFollowTerms

(* Under a clock that never goes back, every recorded reading is in the    *)
(* past.  A fence of 0 means that there is no row.                         *)
PastReadings ==
  /\ \A p \in Procs : call[p].at <= now
  /\ row.fence = 0 => row = NoRow

LEMMA PastReadingsInvariant == Steady => (Spec => []PastReadings)
<1> SUFFICES ASSUME Steady PROVE Spec => []PastReadings
  OBVIOUS
<1>1. Init => PastReadings
  BY DEF Init, PastReadings, NoCall, NoRow
<1>2. TypeOK /\ PastReadings /\ [Next]_vars => PastReadings'
  <2> SUFFICES ASSUME TypeOK, PastReadings, [Next]_vars PROVE PastReadings'
    OBVIOUS
  <2> USE DEF TypeOK, PastReadings, NoCall, Return
  <2>1. CASE Tick
    BY <2>1 DEF Tick
  <2>2. ASSUME NEW p \in Procs, NEW kind \in Kinds, Call(p, kind) PROVE PastReadings'
    BY <2>2 DEF Call
  <2>3. ASSUME NEW p \in Procs, AcquireServiceLease(p) PROVE PastReadings'
    BY <2>3, ServiceLeaseAssumption DEF AcquireServiceLease, NextRow
  <2>4. ASSUME NEW p \in Procs, RenewServiceLease(p) PROVE PastReadings'
    <3>1. Authorised(p, call[p].at) => row.fence # 0
      BY ServiceLeaseAssumption DEF Authorised, NoRow
    <3>2. row'.fence = row.fence
      BY <2>4 DEF RenewServiceLease
    <3>3. row.fence = 0 => row' = row
      BY <2>4, <3>1 DEF RenewServiceLease
    <3> QED  BY <2>4, <3>2, <3>3 DEF RenewServiceLease
  <2>5. ASSUME NEW p \in Procs, FencedTransaction(p) PROVE PastReadings'
    BY <2>5 DEF FencedTransaction
  <2>6. ASSUME NEW p \in Procs, ReleaseServiceLease(p) PROVE PastReadings'
    <3>1. Authorised(p, call[p].at) => row.fence # 0
      BY ServiceLeaseAssumption DEF Authorised, NoRow
    <3>2. row'.fence = row.fence
      BY <2>6 DEF ReleaseServiceLease, Released
    <3>3. row.fence = 0 => row' = row
      BY <2>6, <3>1 DEF ReleaseServiceLease
    <3> QED  BY <2>6, <3>2, <3>3 DEF ReleaseServiceLease
  <2>7. ASSUME NEW p \in Procs, Crash(p) PROVE PastReadings'
    BY <2>7 DEF Crash
  <2>8. CASE UNCHANGED vars
    BY <2>8 DEF vars
  <2> QED  BY <2>1, <2>2, <2>3, <2>4, <2>5, <2>6, <2>7, <2>8 DEF Next
<1> QED  BY <1>1, <1>2, TypeCorrect, PTL DEF Spec

(* A takeover finds the previous term really expired.                      *)
THEOREM NoPreemption == Steady => (Spec => NeverPreempted)
<1> SUFFICES ASSUME Steady PROVE Spec => NeverPreempted
  OBVIOUS
<1>1. TypeOK /\ PastReadings /\ [Next]_vars => [row'.fence # row.fence => row.expires <= now]_vars
  <2> SUFFICES ASSUME TypeOK, PastReadings, Next, row'.fence # row.fence
               PROVE  row.expires <= now
    OBVIOUS
  <2>1. PICK p \in Procs : AcquireServiceLease(p)
    BY DEF Next, Tick, Call, RenewServiceLease, FencedTransaction, ReleaseServiceLease,
           Released, Crash, TypeOK
  <2>2. Vacant(call[p].at)
    BY <2>1 DEF AcquireServiceLease
  <2> QED  BY <2>2 DEF Vacant, PastReadings, TypeOK, NoRow
<1> QED  BY <1>1, TypeCorrect, PastReadingsInvariant, PTL DEF Spec, NeverPreempted

(* The lease row with its clocks implements the clock-free LeaseTerm.  A   *)
(* step that leaves owner and fence alone can only move its state, and     *)
(* only a renewal by the recorded owner revives it.                        *)
THEOREM ImplementsLeaseTerm == Steady => (Spec => KeepsLeaseTerm)
<1> SUFFICES ASSUME Steady PROVE Spec => KeepsLeaseTerm
  OBVIOUS
<1> DEFINE mapped == [owner |-> row.owner, fence |-> row.fence, state |-> LeaseState]
<1>1. Init => Abstract!LeaseInit
  <2>1. Init => LeaseState = "lapsed"
    BY DEF Init, NoRow, LeaseState
  <2> QED  BY <2>1 DEF Init, NoRow, Abstract!LeaseInit
<1>2. ASSUME TypeOK, PastReadings, [Next]_vars
      PROVE  [Abstract!LeaseNext]_mapped
  <2> USE <1>2
  <2>1. LeaseState \in {"live", "lapsed"} /\ LeaseState' \in {"live", "lapsed"}
    BY DEF LeaseState
  <2>2. ASSUME row' = row, now' = now
        PROVE  UNCHANGED mapped
    <3>1. LeaseState' = LeaseState
      BY <2>2 DEF LeaseState
    <3> QED  BY <2>2, <3>1
  <2>3. ASSUME NEW p \in Procs, AcquireServiceLease(p), row' # row
        PROVE  Abstract!Acquire(p)
    <3>1. /\ Vacant(call[p].at)
          /\ row.fence < MaxFence
          /\ row' = NextRow(p, call[p].at)
      BY <2>3 DEF AcquireServiceLease
    <3>2. LeaseState = "lapsed"
      BY <3>1 DEF Vacant, NoRow, LeaseState, TypeOK, PastReadings
    <3>3. row'.owner = p /\ row'.fence = row.fence + 1
      BY <3>1 DEF NextRow
    <3> QED  BY <2>1, <3>1, <3>2, <3>3 DEF Abstract!Acquire
  <2>4. ASSUME row'.owner = row.owner, row'.fence = row.fence, LeaseState' = "live" => LeaseState = "live"
        PROVE  Abstract!Lapse \/ UNCHANGED mapped
    <3>1. CASE LeaseState' = LeaseState
      BY <2>4, <3>1
    <3>2. CASE LeaseState = "live" /\ LeaseState' = "lapsed"
      BY <2>4, <3>2 DEF Abstract!Lapse
    <3> QED  BY <2>1, <2>4, <3>1, <3>2
  <2>5. ASSUME NEW p \in Procs, RenewServiceLease(p), row' # row
        PROVE  Abstract!Extend \/ Abstract!Lapse \/ UNCHANGED mapped
    <3>1. /\ row.owner = p
          /\ row'.owner = row.owner
          /\ row'.fence = row.fence
      BY <2>5 DEF RenewServiceLease, Authorised, TypeOK
    <3>2. CASE LeaseState' = "live"
      BY <3>1, <3>2 DEF Abstract!Extend
    <3>3. CASE LeaseState' = "lapsed"
      BY <3>1, <3>3, <2>4
    <3> QED  BY <2>1, <3>2, <3>3
  <2>6. ASSUME NEW p \in Procs, ReleaseServiceLease(p), row' # row
        PROVE  Abstract!Lapse \/ UNCHANGED mapped
    <3>1. row' = [row EXCEPT !.expires = call[p].at] /\ now' = now
      BY <2>6 DEF ReleaseServiceLease, Released
    <3>2. row'.owner = row.owner /\ row'.fence = row.fence
      BY <3>1 DEF TypeOK
    <3>3. LeaseState' = "lapsed"
      BY <3>1 DEF LeaseState, TypeOK, PastReadings
    <3> QED  BY <3>2, <3>3, <2>4
  <2>7. ASSUME Tick
        PROVE  Abstract!Lapse \/ UNCHANGED mapped
    <3>1. row' = row /\ now' >= now
      BY <2>7 DEF Tick, TypeOK
    <3>2. LeaseState' = "live" => LeaseState = "live"
      BY <2>7, <3>1 DEF Tick, LeaseState, TypeOK
    <3> QED  BY <3>1, <3>2, <2>4
  <2>8. \/ row' = row /\ now' = now
        \/ Tick
        \/ \E p \in Procs : /\ row' # row
                            /\ \/ AcquireServiceLease(p)
                               \/ RenewServiceLease(p)
                               \/ ReleaseServiceLease(p)
    BY DEF Next, vars, Call, FencedTransaction, Crash, AcquireServiceLease,
           RenewServiceLease, ReleaseServiceLease
  <2> QED  BY <2>2, <2>3, <2>5, <2>6, <2>7, <2>8 DEF Abstract!LeaseNext
<1> QED
  BY <1>1, <1>2, TypeCorrect, PastReadingsInvariant, PTL
  DEF Spec, KeepsLeaseTerm, Abstract!LeaseSpec
==============================================================================
