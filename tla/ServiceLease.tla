----------------------------- MODULE ServiceLease -----------------------------
(***************************************************************************)
(* The singleton service lease of src/internal/store/leases.go, with time. *)
(*                                                                         *)
(* Every store operation reads the wall clock first (time.Now, before the  *)
(* transaction begins or the statement is executed) and runs afterwards:   *)
(* it may have waited for another writer in between.  So each operation is *)
(* two steps here, Call(p, kind) which records the time it saw, and the    *)
(* commit, which compares the row with that time.                          *)
(***************************************************************************)
EXTENDS Naturals

CONSTANTS
  Procs,     \* processes; each is one engine that may crash and start again
  NoProc,    \* no owner: the row does not exist yet
  TTL,       \* lease duration (30 seconds in the engine)
  MaxTime,   \* bound: readings of the wall clock
  MaxFence,  \* bound: ownership epochs
  Steady     \* TRUE: the clock never goes back; FALSE: it may be set to any time

ASSUME ServiceLeaseAssumption ==
  /\ NoProc \notin Procs
  /\ TTL \in Nat \ {0}
  /\ MaxTime \in Nat /\ MaxFence \in Nat
  /\ Steady \in BOOLEAN

VARIABLES
  now,       \* the wall clock
  row,       \* the service_leases row
  term,      \* term[p]: the fence p was granted and still remembers, 0 if none
  call,      \* call[p]: p's store operation under way and the time it read
  applied    \* fence of the last fenced transaction that committed

vars == <<now, row, term, call, applied>>

Kinds == {"acquire", "renew", "use", "release"}
NoCall == [kind |-> "none", at |-> 0]
NoRow  == [owner |-> NoProc, fence |-> 0, expires |-> 0]

TypeOK ==
  /\ now \in Nat
  /\ row \in [owner : Procs \cup {NoProc}, fence : Nat, expires : Nat]
  /\ term \in [Procs -> Nat]
  /\ call \in [Procs -> [kind : Kinds \cup {"none"}, at : Nat]]
  /\ applied \in Nat

Init ==
  /\ now = 0
  /\ row = NoRow
  /\ term = [p \in Procs |-> 0]
  /\ call = [p \in Procs |-> NoCall]
  /\ applied = 0

(***************************************************************************)
(* The statements.                                                         *)
(***************************************************************************)

(* The upsert's condition: no row, or one that expired by the time read.   *)
Vacant(at) == row.fence = 0 \/ row.expires <= at

(* Mutant: a takeover keeps the fence.                                     *)
SameTermRow(p, at) ==
  [owner |-> p, fence |-> IF row.fence = 0 THEN 1 ELSE row.fence, expires |-> at + TTL]

NextRow(p, at) == [owner |-> p, fence |-> row.fence + 1, expires |-> at + TTL]

(* Mutant: any live lease authorises.                                      *)
AuthorisedByAny(p, at) == row.expires > at

(* owner_token, fence and expires_at all match: the condition of a         *)
(* renewal, of a release and of every fenced transaction.                  *)
Authorised(p, at) ==
  row.owner = p /\ row.fence = term[p] /\ row.expires > at

(* Mutants: the row is deleted; the expiry is put safely in the past.      *)
RowDeleted(at) == NoRow
Released(at) == [row EXCEPT !.expires = at]

(***************************************************************************)
(* The steps.                                                              *)
(***************************************************************************)

(* An operation starts: an engine without a term acquires; one that has a  *)
(* term renews it, runs a fenced transaction, or releases it.              *)
Call(p, kind) ==
  /\ call[p] = NoCall
  /\ (kind = "acquire") <=> (term[p] = 0)
  /\ call' = [call EXCEPT ![p] = [kind |-> kind, at |-> now]]
  /\ UNCHANGED <<now, row, term, applied>>

Return(p) == call' = [call EXCEPT ![p] = NoCall]

AcquireServiceLease(p) ==
  /\ call[p].kind = "acquire"
  /\ Return(p)
  /\ \/ /\ Vacant(call[p].at)
        /\ row.fence < MaxFence
        /\ row' = NextRow(p, call[p].at)
        /\ term' = [term EXCEPT ![p] = row.fence + 1]
     \/ /\ ~Vacant(call[p].at)
        /\ UNCHANGED <<row, term>>
  /\ UNCHANGED <<now, applied>>

(* A refused renewal leaves the row alone; the engine's workers still hold *)
(* the term they were started with and find out at their next check.       *)
RenewServiceLease(p) ==
  /\ call[p].kind = "renew"
  /\ Return(p)
  /\ \/ /\ Authorised(p, call[p].at)
        /\ row' = [row EXCEPT !.expires = call[p].at + TTL]
     \/ ~Authorised(p, call[p].at) /\ UNCHANGED row
  /\ UNCHANGED <<now, term, applied>>

(* A store transaction that begins with requireServiceLeaseTx: the check   *)
(* and the effect commit together or not at all.                           *)
FencedTransaction(p) ==
  /\ call[p].kind = "use"
  /\ Return(p)
  /\ \/ /\ Authorised(p, call[p].at)
        /\ applied' = term[p]
     \/ ~Authorised(p, call[p].at) /\ UNCHANGED applied
  /\ UNCHANGED <<now, row, term>>

ReleaseServiceLease(p) ==
  /\ call[p].kind = "release"
  /\ Return(p)
  /\ \/ Authorised(p, call[p].at) /\ row' = Released(call[p].at)
     \/ ~Authorised(p, call[p].at) /\ UNCHANGED row
  /\ term' = [term EXCEPT ![p] = 0]
  /\ UNCHANGED <<now, applied>>

(* The process dies with whatever it was doing; the row stays as it is.    *)
Crash(p) ==
  /\ term[p] # 0 \/ call[p] # NoCall
  /\ term' = [term EXCEPT ![p] = 0]
  /\ Return(p)
  /\ UNCHANGED <<now, row, applied>>

Tick ==
  /\ now' \in (IF Steady THEN {now + 1} ELSE 0 .. MaxTime)
  /\ now' <= MaxTime
  /\ UNCHANGED <<row, term, call, applied>>

Next ==
  \/ Tick
  \/ \E p \in Procs :
       \/ \E kind \in Kinds : Call(p, kind)
       \/ AcquireServiceLease(p)
       \/ RenewServiceLease(p)
       \/ FencedTransaction(p)
       \/ ReleaseServiceLease(p)
       \/ Crash(p)

Spec == Init /\ [][Next]_vars

(***************************************************************************)
(* Properties.                                                             *)
(***************************************************************************)

(* "The fence is never reused, including after an orderly release": two    *)
(* processes that both believe they hold the lease never hold the same     *)
(* term, whatever the clock did.                                           *)
TermsNeverShared ==
  \A p, q \in Procs : term[p] # 0 /\ term[p] = term[q] => p = q

(* Fencing: once a transaction of a later term has committed, none of an   *)
(* earlier term does.  The check compares a time read before the           *)
(* transaction ran, so this rests on the fence and not on the clock.       *)
EffectsFollowTerms == [][applied' >= applied]_vars

(* On a clock that never goes back, the lease is only ever taken over once *)
(* it has really expired, although every comparison uses an earlier time.  *)
NeverPreempted == [][row'.fence # row.fence => row.expires <= now]_vars

(* On such a clock, the row keeps the promise of LeaseTerm.                *)
LeaseState == IF row.expires > now THEN "live" ELSE "lapsed"

Abstract == INSTANCE LeaseTerm WITH
  lease <- [owner |-> row.owner, fence |-> row.fence, state |-> LeaseState]

KeepsLeaseTerm == Abstract!LeaseSpec

(* The strengthening that makes TermsNeverShared inductive: a remembered   *)
(* term is at most the row's, and the row's own term is its owner's.       *)
TermInv ==
  /\ TermsNeverShared
  /\ applied <= row.fence
  /\ \A p \in Procs : term[p] <= row.fence
  /\ \A p \in Procs : term[p] # 0 /\ term[p] = row.fence => row.owner = p

==============================================================================
