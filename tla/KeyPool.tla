-------------------------------- MODULE KeyPool --------------------------------
(***************************************************************************)
(* The pool of API keys: the zen_keys table of src/internal/store/keys.go, *)
(* src/internal/pool/pool.go, and its two users: runWithPool of            *)
(* src/internal/bot/engine.go, called by several workers at a time, and    *)
(* the administrator's requests in src/internal/server/api.go.             *)
(***************************************************************************)
EXTENDS Naturals, FiniteSets

CONSTANTS
  Ids,        \* bound: row ids, handed out by SQLite
  KeyUsers,   \* the workers that run reviews
  Cooldown,   \* CooldownOnExhausted
  Pause,      \* how long a worker may take from one of its statements to the next
  KeyRows,    \* bound: the rows ever inserted that someone still remembers
  NoRow,
  MaxUses,    \* bound: uses of a key in a day
  MaxNow,     \* bound: readings of the clock
  MaxDays     \* bound: dates

ASSUME KeyPoolAssumption ==
  /\ Ids \subseteq Nat \ {0}
  /\ {Cooldown, Pause, MaxUses, MaxNow, MaxDays} \subseteq Nat
  /\ NoRow \notin KeyRows
  /\ 2 * Pause < Cooldown

VARIABLES
  now, today,  \* the clock, and the date it shows
  keys,        \* zen_keys by id, with NoRow where there is no row
  jobs,        \* what each worker's runWithPool is doing
  steady,      \* keys that any request of this day could have had (history variable)
  handed       \* uses of each key handed out this day (history variable)

keyVars == <<now, today, keys, jobs, steady, handed>>

NoKey == [row |-> NoRow, uses |-> 0, day |-> 0, rest |-> 0, off |-> FALSE]

(* row tells the rows apart that have had an id one after the other.  The  *)
(* secret in a row is left out: no step looks at it, and two rows may well *)
(* hold the same one.                                                      *)
(*                                                                         *)
(* turn counts the loop of runWithPool, worn is the row its first turn     *)
(* used up, since the last time it looked at the clock.                    *)
AtEase == [pc |-> "idle", turn |-> 0, id |-> 0, row |-> NoRow, worn |-> NoRow, since |-> 0]

KeyPoolInit ==
  /\ now = 1 /\ today = 1
  /\ keys = [i \in Ids |-> NoKey]
  /\ jobs = [w \in KeyUsers |-> AtEase]
  /\ steady = {}
  /\ handed = [i \in Ids |-> 0]

Live(i) == keys[i].row # NoRow

(* todayUTC                                                                *)
Today(i) == IF keys[i].day = today THEN keys[i].uses ELSE 0

(* Eligible for a request that read the clock at t.                        *)
Usable(i, t) == Live(i) /\ ~keys[i].off /\ keys[i].rest <= t

(* Mutant: the first eligible key.                                         *)
FirstUsable(i, t) == Usable(i, t) /\ \A j \in Ids : Usable(j, t) => i <= j

LeastUsed(i, t) ==
  /\ Usable(i, t)
  /\ \A j \in Ids : Usable(j, t) =>
       Today(i) < Today(j) \/ (Today(i) = Today(j) /\ i <= j)

(* Mutant: the key rests until the moment of its failure.                  *)
RestFromNow(t) == t

RestUntil(t) == t + Cooldown

(***************************************************************************)
(* runWithPool.  Entitlement and lease are looked at again before every    *)
(* step that matters; whatever they answer, a worker may stop there.       *)
(***************************************************************************)

Ask(w) ==
  /\ jobs[w].pc = "idle"
  /\ jobs' = [jobs EXCEPT ![w] = [AtEase EXCEPT !.pc = "asking", !.turn = 1, !.since = now]]
  /\ UNCHANGED <<now, today, keys, steady, handed>>

(* AcquireKey selects and counts in one statement, with a clock read       *)
(* before it.                                                              *)
AcquireKey(w) ==
  /\ jobs[w].pc = "asking"
  /\ \E t \in jobs[w].since .. now, i \in Ids :
       /\ LeastUsed(i, t)
       /\ Today(i) < MaxUses   \* bound
       /\ keys' = [keys EXCEPT ![i].uses = Today(i) + 1, ![i].day = today]
       /\ handed' = [handed EXCEPT ![i] = @ + 1]
       /\ jobs' = [jobs EXCEPT ![w].pc = "running", ![w].id = i,
                                  ![w].row = keys[i].row, ![w].since = 0]
  /\ UNCHANGED <<now, today, steady>>

PoolIsEmpty(w) ==
  /\ jobs[w].pc = "asking"
  /\ \E t \in jobs[w].since .. now : \A i \in Ids : ~Usable(i, t)
  /\ jobs' = [jobs EXCEPT ![w] = AtEase]
  /\ UNCHANGED <<now, today, keys, steady, handed>>

(* The reviewer reports ErrQuota; the end of the key's rest is computed    *)
(* before it is written.                                                   *)
QuotaIsGone(w) ==
  /\ jobs[w].pc = "running"
  /\ jobs' = [jobs EXCEPT ![w].pc = "resting", ![w].since = now]
  /\ UNCHANGED <<now, today, keys, steady, handed>>

(* The second turn, or the end of the loop.                                *)
AfterRest(w) ==
  IF jobs[w].turn = 2 THEN AtEase
  ELSE [AtEase EXCEPT !.pc = "asking", !.turn = 2, !.worn = jobs[w].row, !.since = now]

(* CoolKey writes to whatever row has that id now.                         *)
CoolKey(w) ==
  /\ jobs[w].pc = "resting"
  /\ LET i == jobs[w].id IN
       /\ keys' = IF Live(i) THEN [keys EXCEPT ![i].rest = RestUntil(jobs[w].since)] ELSE keys
       /\ steady' = steady \ {i}
  /\ jobs' = [jobs EXCEPT ![w] = AfterRest(w)]
  /\ UNCHANGED <<now, today, handed>>

(* A result, another error, a lost lease, a deadline, a refused requester. *)
StopUsing(w) ==
  /\ jobs[w].pc # "idle"
  /\ jobs' = [jobs EXCEPT ![w] = AtEase]
  /\ UNCHANGED <<now, today, keys, steady, handed>>

(***************************************************************************)
(* The administrator, and time.                                            *)
(***************************************************************************)

(* The table has no AUTOINCREMENT: a row gets one more than the highest    *)
(* id, which is that of the last row if it was deleted.                    *)
NextId(i) ==
  /\ \A j \in Ids : Live(j) => j < i
  /\ i = 1 \/ \E j \in Ids : Live(j) /\ j + 1 = i

Known ==
  {keys[i].row : i \in Ids} \cup {jobs[w].row : w \in KeyUsers} \cup {jobs[w].worn : w \in KeyUsers}

(* AddKey inserts a row for any secret, one that the pool has already, or  *)
(* has had, included; x is the new row, which is none of those that exist  *)
(* or that a worker remembers.                                             *)
AddKey ==
  \E i \in Ids, x \in KeyRows \ Known :
    /\ NextId(i)
    /\ keys' = [keys EXCEPT ![i] = [NoKey EXCEPT !.row = x]]
    /\ handed' = [handed EXCEPT ![i] = 0]
    /\ steady' = steady \ {i}
    /\ UNCHANGED <<now, today, jobs>>

DeleteKey(i) ==
  /\ Live(i)
  /\ keys' = [keys EXCEPT ![i] = NoKey]
  /\ handed' = [handed EXCEPT ![i] = 0]
  /\ steady' = steady \ {i}
  /\ UNCHANGED <<now, today, jobs>>

DisableKey(i) ==
  /\ Live(i)
  /\ \E off \in BOOLEAN : keys' = [keys EXCEPT ![i].off = off]
  /\ steady' = steady \ {i}
  /\ UNCHANGED <<now, today, jobs, handed>>

(* Every clock that a request under way may still compare with is past the *)
(* end of the key's rest.                                                  *)
Rested(i) ==
  /\ Usable(i, now)
  /\ \A w \in KeyUsers : jobs[w].pc = "asking" => keys[i].rest <= jobs[w].since

(* A worker that is about to write or to ask does so within Pause.         *)
KeyTick ==
  /\ now < MaxNow
  /\ \A w \in KeyUsers : jobs[w].pc \in {"resting", "asking"} => now < jobs[w].since + Pause
  /\ now' = now + 1
  /\ \/ UNCHANGED <<today, steady, handed>>
     \/ /\ today < MaxDays
        /\ today' = today + 1
        /\ steady' = {i \in Ids : Rested(i)}
        /\ handed' = [i \in Ids |-> 0]
  /\ UNCHANGED <<keys, jobs>>

KeyPoolNext ==
  \/ \E w \in KeyUsers :
       Ask(w) \/ AcquireKey(w) \/ PoolIsEmpty(w) \/ QuotaIsGone(w) \/ CoolKey(w) \/ StopUsing(w)
  \/ AddKey
  \/ \E i \in Ids : DeleteKey(i) \/ DisableKey(i)
  \/ KeyTick

KeyPoolSpec == KeyPoolInit /\ [][KeyPoolNext]_keyVars

(***************************************************************************)
(* Properties.                                                             *)
(***************************************************************************)

KeyRow == [row : KeyRows \cup {NoRow}, uses : Nat, day : Nat, rest : Nat, off : BOOLEAN]
Job == [pc : {"idle", "asking", "running", "resting"}, turn : {0, 1, 2}, id : Ids \cup {0},
        row : KeyRows \cup {NoRow}, worn : KeyRows \cup {NoRow}, since : Nat]

KeysTypeOK ==
  /\ now \in Nat /\ today \in Nat
  /\ keys \in [Ids -> KeyRow]
  /\ jobs \in [KeyUsers -> Job]
  /\ steady \subseteq Ids
  /\ handed \in [Ids -> Nat]

(* Concurrent workers do not crowd one key: of two keys that were free for *)
(* every request of a day, neither is ever used twice more than the other. *)
LoadIsBalanced == \A i, j \in steady : Today(i) <= Today(j) + 1

(* The counter an administrator reads is the number of times the key was   *)
(* handed out that day: no use is lost to a concurrent one or to midnight, *)
(* and a row that reuses an id starts afresh.                              *)
UsesAreCounted == \A i \in Ids : Today(i) = handed[i]

(* The second turn of runWithPool runs on another row of the pool than the *)
(* one whose quota was gone, even if another worker, late with an older    *)
(* report, shortens that row's rest, or its id belongs to another row by   *)
(* now.  It says nothing of secrets: one that was added twice, or deleted  *)
(* and added again, is two rows, and the second turn may get it again.     *)
SecondKeyDiffers ==
  \A w \in KeyUsers :
    jobs[w].pc = "running" /\ jobs[w].turn = 2 => jobs[w].row # jobs[w].worn

================================================================================
