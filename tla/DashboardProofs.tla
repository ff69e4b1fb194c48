---------------------------- MODULE DashboardProofs ----------------------------
(***************************************************************************)
(* Proofs about what the website and the workers share besides the queue:  *)
(* the pool of keys, the connect attempts that add to it, and sessions;    *)
(* for any number of keys, workers, callbacks, accounts and browsers.      *)
(***************************************************************************)
EXTENDS OrcaConnect, Sessions, FiniteSetTheorems, TLAPS

(***************************************************************************)
(* The pool.                                                               *)
(***************************************************************************)

(* No clock anybody remembers is ahead of the present one, and the use     *)
(* counters are those of some day up to today.                             *)
Past ==
  /\ now >= 1 /\ today >= 1
  /\ \A w \in KeyUsers : jobs[w].since <= now
  /\ \A i \in Ids : keys[i].day <= today

(* The hypothesis LeastUsed needs about a key that was always there to be  *)
(* chosen: it is usable by every clock a request may still compare with.   *)
AlwaysUsable ==
  \A i \in steady :
    /\ Usable(i, now)
    /\ \A w \in KeyUsers : jobs[w].pc = "asking" => keys[i].rest <= jobs[w].since

(* No two ids are the same row, and a worker that holds one, or is about   *)
(* to rest it, knows its id: the row never has another.                    *)
KnowsItsRow ==
  /\ \A i, j \in Ids : keys[i].row = keys[j].row => keys[i].row = NoRow \/ i = j
  /\ \A w \in KeyUsers : jobs[w].pc \in {"running", "resting"} =>
       /\ jobs[w].row # NoRow
       /\ \A i \in Ids : keys[i].row = jobs[w].row => i = jobs[w].id

(* The rest of the key a worker used up outlasts the pause it may make     *)
(* before it asks again, whoever wrote it last.                            *)
WornRests ==
  \A w \in KeyUsers :
    /\ jobs[w].pc = "asking" => now <= jobs[w].since + Pause
    /\ jobs[w].pc = "resting" => now <= jobs[w].since + Pause
    /\ jobs[w].pc = "asking" /\ jobs[w].turn = 2 =>
         /\ jobs[w].worn # NoRow
         /\ \A i \in Ids : keys[i].row = jobs[w].worn => keys[i].rest > jobs[w].since + Pause

PoolInv ==
  /\ KeysTypeOK /\ Past /\ AlwaysUsable
  /\ UsesAreCounted /\ LoadIsBalanced
  /\ KnowsItsRow /\ WornRests /\ SecondKeyDiffers

(* What a restart of the server does to the pool.                          *)
WorkersForgotten ==
  /\ jobs' = [w \in KeyUsers |-> AtEase]
  /\ UNCHANGED <<now, today, keys, steady, handed>>

PoolNext == KeyPoolNext \/ WorkersForgotten

(* The updates that the actions make to one job or row.                    *)
LEMMA JobRecords ==
  /\ AtEase \in Job
  /\ \A j \in Job, n \in Nat :
       /\ [j EXCEPT !.pc = "resting", !.since = n] \in Job
       /\ \A i \in Ids, x \in KeyRows : [j EXCEPT !.pc = "running", !.id = i, !.row = x, !.since = 0] \in Job
  /\ \A n \in Nat, x \in KeyRows \cup {NoRow} :
       /\ [AtEase EXCEPT !.pc = "asking", !.turn = 1, !.since = n] \in Job
       /\ [AtEase EXCEPT !.pc = "asking", !.turn = 2, !.worn = x, !.since = n] \in Job
<1>1. \A j \in Job, n \in Nat : [j EXCEPT !.pc = "resting", !.since = n] \in Job
  BY DEF Job
<1>2. \A j \in Job, i \in Ids, x \in KeyRows :
        [j EXCEPT !.pc = "running", !.id = i, !.row = x, !.since = 0] \in Job
  BY DEF Job
<1>3. \A n \in Nat : [AtEase EXCEPT !.pc = "asking", !.turn = 1, !.since = n] \in Job
  BY DEF Job, AtEase
<1>4. \A n \in Nat, x \in KeyRows \cup {NoRow} :
        [AtEase EXCEPT !.pc = "asking", !.turn = 2, !.worn = x, !.since = n] \in Job
  BY DEF Job, AtEase
<1>5. AtEase \in Job
  BY DEF Job, AtEase
<1> QED  BY <1>1, <1>2, <1>3, <1>4, <1>5

LEMMA RowRecords ==
  /\ NoKey \in KeyRow
  /\ \A x \in KeyRows : [NoKey EXCEPT !.row = x] \in KeyRow
  /\ \A row \in KeyRow, n \in Nat, d \in Nat : [row EXCEPT !.uses = n, !.day = d] \in KeyRow
  /\ \A row \in KeyRow, n \in Nat : [row EXCEPT !.rest = n] \in KeyRow
  /\ \A row \in KeyRow, off \in BOOLEAN : [row EXCEPT !.off = off] \in KeyRow
<1>1. NoKey \in KeyRow /\ \A x \in KeyRows : [NoKey EXCEPT !.row = x] \in KeyRow
  BY DEF KeyRow, NoKey
<1>2. \A row \in KeyRow, n \in Nat, d \in Nat : [row EXCEPT !.uses = n, !.day = d] \in KeyRow
  BY DEF KeyRow
<1>3. \A row \in KeyRow, n \in Nat : [row EXCEPT !.rest = n] \in KeyRow
  BY DEF KeyRow
<1>4. \A row \in KeyRow, off \in BOOLEAN : [row EXCEPT !.off = off] \in KeyRow
  BY DEF KeyRow
<1> QED  BY <1>1, <1>2, <1>3, <1>4

(* The pool's variables keep their types.                                  *)
LEMMA KeysTyped == KeysTypeOK /\ [PoolNext]_keyVars => KeysTypeOK'
<1> SUFFICES ASSUME KeysTypeOK, [PoolNext]_keyVars PROVE KeysTypeOK'
  OBVIOUS
<1> USE KeyPoolAssumption DEF KeysTypeOK
<1>a. /\ \A w \in KeyUsers : jobs[w] \in Job
      /\ \A i \in Ids : keys[i] \in KeyRow
  OBVIOUS
<1>b. \A i \in Ids : keys[i].row \in KeyRows \cup {NoRow} /\ Today(i) \in Nat
  BY <1>a DEF KeyRow, Today
<1>c. \A w \in KeyUsers : jobs[w].row \in KeyRows \cup {NoRow} /\ jobs[w].since \in Nat
  BY <1>a DEF Job
<1>1. ASSUME NEW w \in KeyUsers, Ask(w) PROVE KeysTypeOK'
  BY <1>1, JobRecords DEF Ask
<1>2. ASSUME NEW w \in KeyUsers, AcquireKey(w) PROVE KeysTypeOK'
  <2>1. PICK i \in Ids, t \in jobs[w].since .. now :
          /\ LeastUsed(i, t)
          /\ keys' = [keys EXCEPT ![i].uses = Today(i) + 1, ![i].day = today]
          /\ handed' = [handed EXCEPT ![i] = @ + 1]
          /\ jobs' = [jobs EXCEPT ![w].pc = "running", ![w].id = i, ![w].row = keys[i].row, ![w].since = 0]
    BY <1>2 DEF AcquireKey
  <2>2. keys[i].row \in KeyRows
    BY <2>1, <1>b DEF LeastUsed, Usable, Live
  <2>3. jobs' \in [KeyUsers -> Job]
    <3>1. jobs' = [jobs EXCEPT ![w] = [jobs[w] EXCEPT !.pc = "running", !.id = i, !.row = keys[i].row, !.since = 0]]
      BY <2>1
    <3> QED  BY <2>2, <3>1, <1>a, JobRecords
  <2>4. keys' \in [Ids -> KeyRow]
    <3>1. keys' = [keys EXCEPT ![i] = [keys[i] EXCEPT !.uses = Today(i) + 1, !.day = today]]
      BY <2>1
    <3>2. [keys[i] EXCEPT !.uses = Today(i) + 1, !.day = today] \in KeyRow
      <4>1. keys[i] \in KeyRow /\ Today(i) + 1 \in Nat /\ today \in Nat
        BY <1>a, <1>b
      <4> QED  BY <4>1, RowRecords
    <3> QED  BY <3>1, <3>2
  <2>5. handed' \in [Ids -> Nat]
    BY <2>1
  <2> QED  BY <1>2, <2>3, <2>4, <2>5 DEF AcquireKey
<1>3. ASSUME NEW w \in KeyUsers, PoolIsEmpty(w) PROVE KeysTypeOK'
  BY <1>3, JobRecords DEF PoolIsEmpty
<1>4. ASSUME NEW w \in KeyUsers, QuotaIsGone(w) PROVE KeysTypeOK'
  <2>1. jobs' = [jobs EXCEPT ![w] = [jobs[w] EXCEPT !.pc = "resting", !.since = now]]
    BY <1>4 DEF QuotaIsGone
  <2>2. jobs' \in [KeyUsers -> Job]
    BY <2>1, <1>a, JobRecords
  <2> QED  BY <1>4, <2>2 DEF QuotaIsGone
<1>5. ASSUME NEW w \in KeyUsers, CoolKey(w) PROVE KeysTypeOK'
  <2>1. AfterRest(w) \in Job
    BY <1>c, JobRecords DEF AfterRest
  <2>2. RestUntil(jobs[w].since) \in Nat
    BY <1>c DEF RestUntil
  <2>3. jobs' \in [KeyUsers -> Job]
    BY <1>5, <2>1 DEF CoolKey
  <2>4. keys' \in [Ids -> KeyRow]
    <3>1. CASE keys' = keys
      BY <3>1
    <3>2. CASE keys' = [keys EXCEPT ![jobs[w].id] = [keys[jobs[w].id] EXCEPT !.rest = RestUntil(jobs[w].since)]]
      BY <3>2, <2>2, <1>a, RowRecords
    <3> QED  BY <1>5, <3>1, <3>2 DEF CoolKey
  <2> QED  BY <1>5, <2>3, <2>4 DEF CoolKey
<1>6. ASSUME NEW w \in KeyUsers, StopUsing(w) PROVE KeysTypeOK'
  BY <1>6, JobRecords DEF StopUsing
<1>7. CASE AddKey
  <2>1. PICK i \in Ids, x \in KeyRows :
          /\ keys' = [keys EXCEPT ![i] = [NoKey EXCEPT !.row = x]]
          /\ handed' = [handed EXCEPT ![i] = 0]
          /\ steady' = steady \ {i}
    BY <1>7 DEF AddKey
  <2>2. keys' \in [Ids -> KeyRow]
    BY <2>1, RowRecords
  <2>3. handed' \in [Ids -> Nat]
    BY <2>1
  <2> QED  BY <1>7, <2>1, <2>2, <2>3 DEF AddKey
<1>8. ASSUME NEW i \in Ids, DeleteKey(i) PROVE KeysTypeOK'
  BY <1>8, RowRecords DEF DeleteKey
<1>9. ASSUME NEW i \in Ids, DisableKey(i) PROVE KeysTypeOK'
  <2>1. PICK off \in BOOLEAN : keys' = [keys EXCEPT ![i] = [keys[i] EXCEPT !.off = off]]
    BY <1>9 DEF DisableKey
  <2>2. keys' \in [Ids -> KeyRow]
    BY <2>1, <1>a, RowRecords
  <2> QED  BY <1>9, <2>2 DEF DisableKey
<1>10. CASE KeyTick
  <2>1. now' \in Nat
    BY <1>10 DEF KeyTick
  <2>2. today' \in Nat
    BY <1>10 DEF KeyTick
  <2>3. handed' \in [Ids -> Nat] /\ steady' \subseteq Ids
    <3>1. CASE UNCHANGED <<steady, handed>>
      BY <3>1
    <3>2. CASE steady' = {i \in Ids : Rested(i)} /\ handed' = [i \in Ids |-> 0]
      BY <3>2
    <3> QED  BY <1>10, <3>1, <3>2 DEF KeyTick
  <2> QED  BY <1>10, <2>1, <2>2, <2>3 DEF KeyTick
<1>11. CASE WorkersForgotten
  BY <1>11, JobRecords DEF WorkersForgotten
<1>12. CASE UNCHANGED keyVars
  BY <1>12 DEF keyVars
<1> QED  BY <1>1, <1>2, <1>3, <1>4, <1>5, <1>6, <1>7, <1>8, <1>9, <1>10, <1>11, <1>12 DEF PoolNext, KeyPoolNext

(* One step keeps PoolInv.                                                 *)
LEMMA PoolStep == PoolInv /\ [PoolNext]_keyVars => PoolInv'
<1> SUFFICES ASSUME PoolInv, [PoolNext]_keyVars PROVE PoolInv'
  OBVIOUS
<1>t. KeysTypeOK'
  BY KeysTyped DEF PoolInv
<1>a. /\ jobs \in [KeyUsers -> Job] /\ keys \in [Ids -> KeyRow] /\ handed \in [Ids -> Nat]
      /\ now \in Nat /\ today \in Nat /\ steady \subseteq Ids /\ Ids \subseteq Nat
      /\ Pause \in Nat /\ Cooldown \in Nat /\ 2 * Pause < Cooldown
  BY KeyPoolAssumption DEF PoolInv, KeysTypeOK
<1>b. \A i \in Ids : /\ keys[i].row \in KeyRows \cup {NoRow}
                     /\ keys[i].uses \in Nat /\ keys[i].day \in Nat /\ keys[i].rest \in Nat
                     /\ Today(i) \in Nat
  BY <1>a DEF KeyRow, Today
<1>c. \A w \in KeyUsers : /\ jobs[w].row \in KeyRows \cup {NoRow} /\ jobs[w].worn \in KeyRows \cup {NoRow}
                          /\ jobs[w].since \in Nat
  BY <1>a DEF Job
<1>p. Past
  BY DEF PoolInv
<1>1. ASSUME NEW w \in KeyUsers, Ask(w) PROVE PoolInv'
  <2> USE <1>1, <1>a, <1>b, <1>c, <1>p DEF Ask, AtEase, PoolInv
  <2>1. Past'
    BY DEF Past
  <2>2. AlwaysUsable'
    BY DEF AlwaysUsable, Usable, Live
  <2>3. UsesAreCounted' /\ LoadIsBalanced'
    BY DEF UsesAreCounted, LoadIsBalanced, Today
  <2>4. KnowsItsRow'
    BY DEF KnowsItsRow
  <2>5. WornRests' /\ SecondKeyDiffers'
    BY DEF WornRests, SecondKeyDiffers
  <2> QED  BY <1>t, <2>1, <2>2, <2>3, <2>4, <2>5
<1>2. ASSUME NEW w \in KeyUsers, AcquireKey(w) PROVE PoolInv'
  <2>1. PICK i \in Ids, t \in jobs[w].since .. now :
          /\ LeastUsed(i, t)
          /\ keys' = [keys EXCEPT ![i].uses = Today(i) + 1, ![i].day = today]
          /\ handed' = [handed EXCEPT ![i] = @ + 1]
          /\ jobs' = [jobs EXCEPT ![w].pc = "running", ![w].id = i, ![w].row = keys[i].row, ![w].since = 0]
    BY <1>2 DEF AcquireKey
  <2>2. UNCHANGED <<now, today, steady>> /\ jobs[w].pc = "asking"
    BY <1>2 DEF AcquireKey
  <2>3. /\ t \in Nat /\ jobs[w].since <= t /\ t <= now
        /\ keys[i].row # NoRow /\ keys[i].rest <= t
    BY <2>1, <1>a, <1>c DEF LeastUsed, Usable, Live
  <2>4. /\ \A j \in Ids : keys'[j].row = keys[j].row /\ keys'[j].rest = keys[j].rest /\ keys'[j].off = keys[j].off
        /\ \A j \in Ids \ {i} : keys'[j] = keys[j]
        /\ keys'[i].uses = Today(i) + 1 /\ keys'[i].day = today
    BY <2>1, <1>a DEF KeyRow
  <2>5. /\ \A v \in KeyUsers \ {w} : jobs'[v] = jobs[v]
        /\ jobs'[w].pc = "running" /\ jobs'[w].id = i /\ jobs'[w].row = keys[i].row /\ jobs'[w].since = 0
        /\ jobs'[w].turn = jobs[w].turn /\ jobs'[w].worn = jobs[w].worn
    BY <2>1, <1>a DEF Job
  <2>6. Past'
    BY <2>2, <2>4, <2>5, <1>a, <1>b, <1>c, <1>p DEF Past
  <2>7. AlwaysUsable'
    BY <2>2, <2>4, <2>5, <1>a DEF PoolInv, AlwaysUsable, Usable, Live
  <2>8. \A j \in Ids : Today(j)' = IF j = i THEN Today(i) + 1 ELSE Today(j)
    BY <2>2, <2>4 DEF Today
  <2>9. UsesAreCounted'
    BY <2>1, <2>8, <1>a DEF PoolInv, UsesAreCounted
  <2>10. \A j \in steady : Today(i) <= Today(j)
    <3> TAKE j \in steady
    <3>1. Usable(j, t)
      BY <2>2, <2>3, <1>a, <1>b, <1>c DEF PoolInv, AlwaysUsable, Usable
    <3> QED  BY <2>1, <3>1, <1>a, <1>b DEF LeastUsed
  <2>11. LoadIsBalanced'
    BY <2>2, <2>8, <2>10, <1>a, <1>b DEF PoolInv, LoadIsBalanced
  <2>12. KnowsItsRow'
    BY <2>3, <2>4, <2>5 DEF PoolInv, KnowsItsRow
  <2>13. jobs[w].turn = 2 => keys[i].row # jobs[w].worn
    BY <2>2, <2>3, <1>a, <1>b, <1>c DEF PoolInv, WornRests
  <2>14. WornRests' /\ SecondKeyDiffers'
    BY <2>2, <2>4, <2>5, <2>13 DEF PoolInv, WornRests, SecondKeyDiffers
  <2> QED  BY <1>t, <2>6, <2>7, <2>9, <2>11, <2>12, <2>14 DEF PoolInv
<1>3. ASSUME NEW w \in KeyUsers, PoolIsEmpty(w) \/ StopUsing(w) PROVE PoolInv'
  <2>1. /\ jobs' = [jobs EXCEPT ![w] = AtEase]
        /\ UNCHANGED <<now, today, keys, steady, handed>>
    BY <1>3 DEF PoolIsEmpty, StopUsing
  <2> USE <2>1, <1>a, <1>b, <1>c, <1>p DEF AtEase, PoolInv
  <2>2. Past'
    BY DEF Past
  <2>3. AlwaysUsable'
    BY DEF AlwaysUsable, Usable, Live
  <2>4. UsesAreCounted' /\ LoadIsBalanced'
    BY DEF UsesAreCounted, LoadIsBalanced, Today
  <2>5. KnowsItsRow'
    BY DEF KnowsItsRow
  <2>6. WornRests' /\ SecondKeyDiffers'
    BY DEF WornRests, SecondKeyDiffers
  <2> QED  BY <1>t, <2>2, <2>3, <2>4, <2>5, <2>6
<1>4. ASSUME NEW w \in KeyUsers, QuotaIsGone(w) PROVE PoolInv'
  <2>1. /\ UNCHANGED <<now, today, keys, steady, handed>>
        /\ \A v \in KeyUsers \ {w} : jobs'[v] = jobs[v]
        /\ jobs[w].pc = "running" /\ jobs'[w].pc = "resting" /\ jobs'[w].since = now
        /\ jobs'[w].row = jobs[w].row /\ jobs'[w].id = jobs[w].id
    BY <1>4, <1>a DEF QuotaIsGone, Job
  <2> USE <2>1, <1>a, <1>b, <1>c, <1>p DEF PoolInv
  <2>2. Past'
    BY DEF Past
  <2>3. AlwaysUsable'
    BY DEF AlwaysUsable, Usable, Live
  <2>4. UsesAreCounted' /\ LoadIsBalanced'
    BY DEF UsesAreCounted, LoadIsBalanced, Today
  <2>5. KnowsItsRow'
    BY DEF KnowsItsRow
  <2>6. WornRests' /\ SecondKeyDiffers'
    BY DEF WornRests, SecondKeyDiffers
  <2> QED  BY <1>t, <2>2, <2>3, <2>4, <2>5, <2>6
<1>5. ASSUME NEW w \in KeyUsers, CoolKey(w) PROVE PoolInv'
  <2> DEFINE i == jobs[w].id
             end == jobs[w].since + Cooldown
  <2>1. /\ jobs[w].pc = "resting" /\ jobs[w].row # NoRow
        /\ now <= jobs[w].since + Pause /\ jobs[w].since <= now
    BY <1>5 DEF CoolKey, PoolInv, KnowsItsRow, WornRests, Past
  <2>2. /\ UNCHANGED <<now, today, handed>> /\ steady' = steady \ {i}
        /\ \A v \in KeyUsers \ {w} : jobs'[v] = jobs[v]
        /\ jobs'[w].pc \in {"idle", "asking"} /\ jobs'[w].since <= now
        /\ jobs'[w].pc = "asking" => jobs'[w].since = now /\ jobs'[w].worn = jobs[w].row
    BY <1>5, <1>a DEF CoolKey, AfterRest, AtEase
  <2>3. \A j \in Ids : /\ keys'[j].row = keys[j].row /\ keys'[j].off = keys[j].off
                       /\ keys'[j].uses = keys[j].uses /\ keys'[j].day = keys[j].day
                       /\ keys'[j].rest = IF j = i /\ Live(i) THEN end ELSE keys[j].rest
    BY <1>5, <1>a DEF CoolKey, RestUntil, KeyRow
  <2>4. Past'
    BY <2>2, <2>3, <1>a, <1>c, <1>p DEF Past
  <2>5. AlwaysUsable'
    BY <2>2, <2>3, <1>a, <1>b, <1>c DEF PoolInv, AlwaysUsable, Usable, Live
  <2>6. \A j \in Ids : Today(j)' = Today(j)
    BY <2>2, <2>3 DEF Today
  <2>7. UsesAreCounted' /\ LoadIsBalanced'
    BY <2>2, <2>6, <1>a DEF PoolInv, UsesAreCounted, LoadIsBalanced
  <2>8. KnowsItsRow'
    BY <2>2, <2>3 DEF PoolInv, KnowsItsRow
  <2>9. end > now + Pause
    BY <2>1, <1>a, <1>c
  <2>10. ASSUME NEW v \in KeyUsers, jobs'[v].pc = "asking", jobs'[v].turn = 2
         PROVE  /\ jobs'[v].worn # NoRow
                /\ \A j \in Ids : keys'[j].row = jobs'[v].worn => keys'[j].rest > jobs'[v].since + Pause
    <3>1. CASE v = w
      <4>1. \A j \in Ids : keys[j].row = jobs[w].row => j = i /\ Live(i)
        BY <2>1 DEF PoolInv, KnowsItsRow, Live
      <4> QED  BY <3>1, <4>1, <2>1, <2>2, <2>3, <2>9, <2>10
    <3>2. CASE v # w
      <4>1. jobs[v].since <= now
        BY DEF PoolInv, Past
      <4> QED  BY <3>2, <4>1, <2>2, <2>3, <2>9, <2>10, <1>a, <1>c DEF PoolInv, WornRests
    <3> QED  BY <3>1, <3>2
  <2>11. WornRests'
    BY <2>2, <2>10, <1>a DEF PoolInv, WornRests
  <2>12. SecondKeyDiffers'
    BY <2>2 DEF PoolInv, SecondKeyDiffers
  <2> QED  BY <1>t, <2>4, <2>5, <2>7, <2>8, <2>11, <2>12 DEF PoolInv
<1>6. CASE AddKey
  <2>1. PICK i \in Ids, x \in KeyRows \ Known :
          /\ keys' = [keys EXCEPT ![i] = [NoKey EXCEPT !.row = x]]
          /\ handed' = [handed EXCEPT ![i] = 0]
          /\ steady' = steady \ {i}
          /\ UNCHANGED <<now, today, jobs>>
    BY <1>6 DEF AddKey
  <2>2. /\ \A j \in Ids \ {i} : keys'[j] = keys[j]
        /\ keys'[i].row = x /\ keys'[i].uses = 0 /\ keys'[i].day = 0 /\ keys'[i].rest = 0
    BY <2>1, <1>a DEF NoKey
  <2>3. /\ \A j \in Ids : keys[j].row # x
        /\ \A w \in KeyUsers : jobs[w].row # x /\ jobs[w].worn # x
    BY <2>1 DEF Known
  <2>4. Past'
    BY <2>1, <2>2, <1>a, <1>p DEF Past
  <2>5. AlwaysUsable'
    BY <2>1, <2>2, <1>a DEF PoolInv, AlwaysUsable, Usable, Live
  <2>6. \A j \in Ids : Today(j)' = IF j = i THEN 0 ELSE Today(j)
    BY <2>1, <2>2 DEF Today
  <2>7. UsesAreCounted' /\ LoadIsBalanced'
    BY <2>1, <2>6, <1>a DEF PoolInv, UsesAreCounted, LoadIsBalanced
  <2>8. KnowsItsRow' /\ WornRests' /\ SecondKeyDiffers'
    BY <2>1, <2>2, <2>3 DEF PoolInv, KnowsItsRow, WornRests, SecondKeyDiffers
  <2> QED  BY <1>t, <2>4, <2>5, <2>7, <2>8 DEF PoolInv
<1>7. ASSUME NEW i \in Ids, DeleteKey(i) PROVE PoolInv'
  <2>1. /\ keys' = [keys EXCEPT ![i] = NoKey]
        /\ handed' = [handed EXCEPT ![i] = 0]
        /\ steady' = steady \ {i}
        /\ UNCHANGED <<now, today, jobs>>
    BY <1>7 DEF DeleteKey
  <2>2. /\ \A j \in Ids \ {i} : keys'[j] = keys[j]
        /\ keys'[i].row = NoRow /\ keys'[i].uses = 0 /\ keys'[i].day = 0
    BY <2>1, <1>a DEF NoKey
  <2>3. Past'
    BY <2>1, <2>2, <1>a, <1>p DEF Past
  <2>4. AlwaysUsable'
    BY <2>1, <2>2, <1>a DEF PoolInv, AlwaysUsable, Usable, Live
  <2>5. \A j \in Ids : Today(j)' = IF j = i THEN 0 ELSE Today(j)
    BY <2>1, <2>2 DEF Today
  <2>6. UsesAreCounted' /\ LoadIsBalanced'
    BY <2>1, <2>5, <1>a DEF PoolInv, UsesAreCounted, LoadIsBalanced
  <2>7. KnowsItsRow' /\ WornRests' /\ SecondKeyDiffers'
    BY <2>1, <2>2 DEF PoolInv, KnowsItsRow, WornRests, SecondKeyDiffers
  <2> QED  BY <1>t, <2>3, <2>4, <2>6, <2>7 DEF PoolInv
<1>8. ASSUME NEW i \in Ids, DisableKey(i) PROVE PoolInv'
  <2>1. /\ steady' = steady \ {i}
        /\ UNCHANGED <<now, today, jobs, handed>>
        /\ \A j \in Ids \ {i} : keys'[j] = keys[j]
        /\ \A j \in Ids : /\ keys'[j].row = keys[j].row /\ keys'[j].rest = keys[j].rest
                          /\ keys'[j].uses = keys[j].uses /\ keys'[j].day = keys[j].day
    BY <1>8, <1>a DEF DisableKey, KeyRow
  <2>2. Past'
    BY <2>1, <1>p DEF Past
  <2>3. AlwaysUsable'
    BY <2>1, <1>a DEF PoolInv, AlwaysUsable, Usable, Live
  <2>4. \A j \in Ids : Today(j)' = Today(j)
    BY <2>1 DEF Today
  <2>5. UsesAreCounted' /\ LoadIsBalanced'
    BY <2>1, <2>4, <1>a DEF PoolInv, UsesAreCounted, LoadIsBalanced
  <2>6. KnowsItsRow' /\ WornRests' /\ SecondKeyDiffers'
    BY <2>1 DEF PoolInv, KnowsItsRow, WornRests, SecondKeyDiffers
  <2> QED  BY <1>t, <2>2, <2>3, <2>5, <2>6 DEF PoolInv
<1>9. CASE KeyTick
  <2>1. /\ now' = now + 1 /\ UNCHANGED <<keys, jobs>>
        /\ \A w \in KeyUsers : jobs[w].pc \in {"resting", "asking"} => now < jobs[w].since + Pause
    BY <1>9 DEF KeyTick
  <2>2. KnowsItsRow' /\ WornRests' /\ SecondKeyDiffers'
    <3>1. KnowsItsRow' /\ SecondKeyDiffers'
      BY <2>1 DEF PoolInv, KnowsItsRow, SecondKeyDiffers
    <3>2. ASSUME NEW w \in KeyUsers, jobs[w].pc \in {"resting", "asking"} PROVE now + 1 <= jobs[w].since + Pause
      BY <3>2, <2>1, <1>a, <1>c, KeyPoolAssumption
    <3>3. WornRests'
      BY <2>1, <3>2 DEF PoolInv, WornRests
    <3> QED  BY <3>1, <3>3
  <2>3. CASE UNCHANGED <<today, steady, handed>>
    <3>1. Past'
      BY <2>1, <2>3, <1>a, <1>c, <1>p DEF Past
    <3>2. AlwaysUsable'
      BY <2>1, <2>3, <1>a, <1>b, <1>c DEF PoolInv, AlwaysUsable, Usable, Live
    <3>3. UsesAreCounted' /\ LoadIsBalanced'
      BY <2>1, <2>3 DEF PoolInv, UsesAreCounted, LoadIsBalanced, Today
    <3> QED  BY <1>t, <2>2, <3>1, <3>2, <3>3 DEF PoolInv
  <2>4. CASE today' = today + 1 /\ steady' = {i \in Ids : Rested(i)} /\ handed' = [i \in Ids |-> 0]
    <3>1. Past'
      BY <2>1, <2>4, <1>a, <1>b, <1>c, <1>p DEF Past
    <3>2. AlwaysUsable'
      BY <2>1, <2>4, <1>a, <1>b, <1>c DEF AlwaysUsable, Rested, Usable, Live
    <3>3. \A j \in Ids : Today(j)' = 0
      BY <2>1, <2>4, <1>a, <1>b, <1>p DEF Past, Today
    <3>4. UsesAreCounted' /\ LoadIsBalanced'
      BY <2>4, <3>3 DEF UsesAreCounted, LoadIsBalanced
    <3> QED  BY <1>t, <2>2, <3>1, <3>2, <3>4 DEF PoolInv
  <2> QED  BY <1>9, <2>3, <2>4 DEF KeyTick
<1>10. CASE WorkersForgotten
  <2> USE <1>10, <1>a, <1>b, <1>c, <1>p DEF WorkersForgotten, AtEase, PoolInv
  <2>1. Past'
    BY DEF Past
  <2>2. AlwaysUsable'
    BY DEF AlwaysUsable, Usable, Live
  <2>3. UsesAreCounted' /\ LoadIsBalanced'
    BY DEF UsesAreCounted, LoadIsBalanced, Today
  <2>4. KnowsItsRow' /\ WornRests' /\ SecondKeyDiffers'
    BY DEF KnowsItsRow, WornRests, SecondKeyDiffers
  <2> QED  BY <1>t, <2>1, <2>2, <2>3, <2>4
<1>11. CASE UNCHANGED keyVars
  BY <1>11, <1>t DEF keyVars, PoolInv, Past, AlwaysUsable, Usable, Live, UsesAreCounted, LoadIsBalanced, Today,
                     KnowsItsRow, WornRests, SecondKeyDiffers
<1> QED  BY <1>1, <1>2, <1>3, <1>4, <1>5, <1>6, <1>7, <1>8, <1>9, <1>10, <1>11 DEF PoolNext, KeyPoolNext

LEMMA PoolInit == KeyPoolInit => PoolInv
<1> SUFFICES ASSUME KeyPoolInit PROVE PoolInv
  OBVIOUS
<1> USE DEF KeyPoolInit
<1>1. KeysTypeOK
  BY JobRecords, RowRecords DEF KeysTypeOK
<1>2. Past /\ AlwaysUsable /\ KnowsItsRow /\ WornRests /\ SecondKeyDiffers
  BY DEF Past, AlwaysUsable, KnowsItsRow, WornRests, SecondKeyDiffers, NoKey, AtEase
<1>3. UsesAreCounted /\ LoadIsBalanced
  BY DEF UsesAreCounted, LoadIsBalanced, Today, NoKey
<1> QED  BY <1>1, <1>2, <1>3 DEF PoolInv

(* Of the pool, a connect attempt does nothing but add keys and restart.   *)
LEMMA OrcaIsPool == [OrcaNext]_<<keyVars, orcaVars>> => [PoolNext]_keyVars
<1> SUFFICES ASSUME [OrcaNext]_<<keyVars, orcaVars>> PROVE [PoolNext]_keyVars
  OBVIOUS
<1>1. CASE KeyPoolNext
  BY <1>1 DEF PoolNext
<1>2. ASSUME NEW s \in Connects, ConnectURL(s) \/ \E c \in Callbacks : TakeVerifier(c, s) PROVE UNCHANGED keyVars
  BY <1>2 DEF ConnectURL, TakeVerifier
<1>3. ASSUME NEW c \in Callbacks, ExchangeFails(c) PROVE UNCHANGED keyVars
  BY <1>3 DEF ExchangeFails
<1>4. ASSUME NEW c \in Callbacks, StoreConnectedKey(c) PROVE PoolNext
  BY <1>4 DEF StoreConnectedKey, PoolNext, KeyPoolNext
<1>5. CASE RestartServer
  BY <1>5 DEF RestartServer, PoolNext, WorkersForgotten
<1>6. CASE UNCHANGED <<keyVars, orcaVars>>
  BY <1>6
<1> QED  BY <1>1, <1>2, <1>3, <1>4, <1>5, <1>6 DEF OrcaNext

LEMMA PoolInvariant == OrcaSpec => []PoolInv
<1>1. OrcaInit => PoolInv
  BY PoolInit DEF OrcaInit
<1>2. PoolInv /\ [OrcaNext]_<<keyVars, orcaVars>> => PoolInv'
  BY PoolStep, OrcaIsPool
<1> QED  BY <1>1, <1>2, PTL DEF OrcaSpec

(* Rows, jobs and clocks of the pool keep their types.                     *)
THEOREM KeysTypeCorrect == OrcaSpec => []KeysTypeOK
<1>1. PoolInv => KeysTypeOK
  BY DEF PoolInv
<1> QED  BY <1>1, PoolInvariant, PTL

(* AcquireKey spreads the load: of two keys that any request of a day      *)
(* could have had, neither is ever used twice more than the other.         *)
THEOREM Balanced == OrcaSpec => []LoadIsBalanced
<1>1. PoolInv => LoadIsBalanced
  BY DEF PoolInv
<1> QED  BY <1>1, PoolInvariant, PTL

(* The day's counter of a key is the number of times it was handed out.    *)
THEOREM Counted == OrcaSpec => []UsesAreCounted
<1>1. PoolInv => UsesAreCounted
  BY DEF PoolInv
<1> QED  BY <1>1, PoolInvariant, PTL

(* The second turn of runWithPool never gets the row that the first wore   *)
(* out, provided a worker's two pauses are shorter than a cooldown; it may *)
(* get another row that an administrator gave the same secret.             *)
THEOREM SecondKey == OrcaSpec => []SecondKeyDiffers
<1>1. PoolInv => SecondKeyDiffers
  BY DEF PoolInv
<1> QED  BY <1>1, PoolInvariant, PTL

(***************************************************************************)
(* Connect attempts.                                                       *)
(***************************************************************************)

OrcaTypeOK ==
  /\ pending \in [Connects -> Nat] /\ minted \in [Connects -> Nat]
  /\ callback \in [Callbacks -> Connects \cup {NoConnect}]
  /\ connected \in [Connects -> Nat]

(* An attempt is pending, or in the hands of one callback, or has added    *)
(* its key, and is never minted again.                                     *)
AttemptInv ==
  /\ OrcaTypeOK /\ now \in Nat /\ now >= 1
  /\ OneKeyPerConnect
  /\ \A s \in Connects :
       /\ minted[s] = 0 => pending[s] = 0 /\ connected[s] = 0
       /\ pending[s] # 0 => connected[s] = 0
       /\ \A c \in Callbacks : callback[c] = s => minted[s] # 0 /\ pending[s] = 0 /\ connected[s] = 0
  /\ \A c, d \in Callbacks : callback[c] = callback[d] => callback[c] = NoConnect \/ c = d

LEMMA AttemptStep == AttemptInv /\ PoolInv /\ PoolInv' /\ [OrcaNext]_<<keyVars, orcaVars>> => AttemptInv'
<1> SUFFICES ASSUME AttemptInv, PoolInv, PoolInv', [OrcaNext]_<<keyVars, orcaVars>> PROVE AttemptInv'
  OBVIOUS
<1>a. now' \in Nat /\ now' >= 1 /\ ConnectTTL \in Nat /\ NoConnect \notin Connects
  BY OrcaAssumption DEF PoolInv, KeysTypeOK, Past
<1> USE <1>a DEF AttemptInv, OrcaTypeOK, OneKeyPerConnect
<1>1. CASE UNCHANGED orcaVars
  BY <1>1 DEF orcaVars
<1>2. ASSUME NEW s \in Connects, ConnectURL(s) PROVE AttemptInv'
  <2>1. \A t \in Connects : pending'[t] = pending[t] \/ pending'[t] = 0 \/ t = s
    BY <1>2 DEF ConnectURL
  <2>2. pending' \in [Connects -> Nat] /\ minted' \in [Connects -> Nat] /\ minted'[s] # 0
    BY <1>2 DEF ConnectURL, Redeemable
  <2>3. \A c \in Callbacks : callback[c] # s
    BY <1>2 DEF ConnectURL
  <2> QED  BY <1>2, <2>1, <2>2, <2>3 DEF ConnectURL
<1>3. ASSUME NEW c \in Callbacks, NEW s \in Connects, TakeVerifier(c, s) PROVE AttemptInv'
  BY <1>3 DEF TakeVerifier
<1>4. ASSUME NEW c \in Callbacks, ExchangeFails(c) PROVE AttemptInv'
  BY <1>4 DEF ExchangeFails
<1>5. ASSUME NEW c \in Callbacks, StoreConnectedKey(c) PROVE AttemptInv'
  BY <1>5 DEF StoreConnectedKey
<1>6. CASE RestartServer
  BY <1>6 DEF RestartServer
<1> QED  BY <1>1, <1>2, <1>3, <1>4, <1>5, <1>6 DEF OrcaNext

(* takeVerifier and the exchange: however often, and from however many     *)
(* tabs, the callback of an attempt is loaded, it adds at most one key.    *)
THEOREM OneKey == OrcaSpec => []OneKeyPerConnect
<1>1. OrcaInit => AttemptInv
  BY OrcaAssumption DEF OrcaInit, KeyPoolInit, AttemptInv, OrcaTypeOK, OneKeyPerConnect
<1>2. AttemptInv => OneKeyPerConnect
  BY DEF AttemptInv
<1> QED  BY <1>1, <1>2, AttemptStep, PoolInvariant, PTL DEF OrcaSpec

(***************************************************************************)
(* Sessions.                                                               *)
(***************************************************************************)

(* Each place of a callback has what the places before it found out.       *)
SigninKnows ==
  \A h \in Signins :
    /\ signin[h].pc # "idle" => signin[h].browser \in Browsers /\ signin[h].state \in OAuthStates
    /\ signin[h].pc = "upserting" => signin[h].account \in Accounts /\ signin[h].login \in Logins
    /\ signin[h].pc = "opening" =>
         /\ signin[h].account \in Accounts /\ signin[h].user \in Rows
         /\ users[signin[h].user].account = signin[h].account

(* A state that was consumed is no longer in the table, and never returns. *)
ConsumedOnce ==
  /\ OneLoginPerState
  /\ \A s \in OAuthStates :
       /\ oauth[s].expires # 0 => consumed[s] = 0
       /\ s \notin drawn => oauth[s].expires = 0 /\ consumed[s] = 0

(* What a browser holds was drawn, and what a logout took back is gone.    *)
RevokedIsGone ==
  /\ \A b \in Browsers : Held(b) \subseteq drawn
  /\ \A t \in revoked \cap Tokens : session[t] = NoSession
  /\ \A s \in revoked \cap OAuthStates : oauth[s].expires = 0

(* SessionsAreOwn, field by field, and the rows that sessions lead to.     *)
OwnRows ==
  /\ \A t \in Tokens : session[t] # NoSession =>
       session[t].user \in Rows /\ session[t].by \in Accounts /\ users[session[t].user].account = session[t].by
  /\ \A u, v \in Rows : users[u].account = users[v].account => users[u].account = Nobody \/ u = v
  /\ \A u, v \in Rows : users[u].login = users[v].login => users[u].login = Nobody \/ u = v

SiteInv ==
  /\ SiteTypeOK /\ instant >= 1
  /\ SigninKnows /\ ConsumedOnce /\ RevokedIsGone /\ OwnRows

(* There is a row for every account: if one has none, a row is free.       *)
LEMMA RowIsFree ==
  ASSUME SiteTypeOK, OwnRows, NEW a \in Accounts, \A u \in Rows : users[u].account # a
  PROVE  NewRow \in Rows /\ users[NewRow].account = Nobody
<1>1. SUFFICES ASSUME \A u \in Rows : users[u].account # Nobody PROVE FALSE
  BY DEF NewRow
<1> DEFINE others == Accounts \ {a}
           f == [u \in Rows |-> users[u].account]
<1>2. IsFiniteSet(Accounts) /\ Cardinality(Accounts) \in Nat
  BY SessionsAssumption, FS_CardinalityType
<1>3. IsFiniteSet(others) /\ Cardinality(others) = Cardinality(Accounts) - 1
  BY <1>2, FS_RemoveElement
<1>4. IsFiniteSet(Rows) /\ Cardinality(Rows) = Cardinality(Accounts)
  <2>1. Cardinality(Rows) = IF 1 > Cardinality(Accounts) THEN 0 ELSE Cardinality(Accounts) - 1 + 1
    BY <1>2, FS_Interval DEF Rows
  <2>2. IsFiniteSet(Rows)
    BY <1>2, FS_Interval DEF Rows
  <2> QED  BY <1>2, <2>1, <2>2
<1>5. f \in [Rows -> others]
  BY <1>1 DEF SiteTypeOK, Account
<1>6. Cardinality(others) < Cardinality(Rows)
  BY <1>2, <1>3, <1>4
<1>7. PICK u \in Rows, v \in Rows : u # v /\ f[u] = f[v]
  <2> HIDE DEF f, others
  <2> QED  BY <1>3, <1>4, <1>5, <1>6, FS_PigeonHole
<1>8. users[u].account = users[v].account
  BY <1>7
<1> QED  BY <1>1, <1>7, <1>8 DEF OwnRows

(* What a token or state that was never drawn is.                          *)
LEMMA Drawing ==
  ASSUME NEW S, ~S \subseteq drawn
  PROVE  Fresh(S) \in S /\ Fresh(S) \notin drawn
BY DEF Fresh

(* Upserted gives the account its row, keeps that of every other account,  *)
(* and keeps accounts and names apart.                                     *)
LEMMA UpsertedOwns ==
  ASSUME SiteTypeOK, OwnRows, NEW a \in Accounts, NEW l \in Logins
  PROVE  LET to == Upserted(a, l) IN
         /\ to.row \in Rows /\ to.users \in [Rows -> Account]
         /\ to.users[to.row].account = a
         /\ \A v \in Rows : users[v].account # Nobody => to.users[v].account = users[v].account
         /\ \A u, v \in Rows : to.users[u].account = to.users[v].account => to.users[u].account = Nobody \/ u = v
         /\ \A u, v \in Rows : to.users[u].login = to.users[v].login => to.users[u].login = Nobody \/ u = v
<1> DEFINE row == IF RowOf(a) # {} THEN CHOOSE v \in RowOf(a) : TRUE ELSE NewRow
           new == [v \in Rows |->
                     IF v = row THEN [account |-> a, login |-> l]
                     ELSE IF users[v].login = l THEN [users[v] EXCEPT !.login = Nobody] ELSE users[v]]
<1>1. Upserted(a, l) = [row |-> row, users |-> new]
  BY DEF Upserted
<1>2. /\ row \in Rows
      /\ users[row].account \in {a, Nobody}
      /\ \A v \in Rows : users[v].account = a => v = row
  <2>1. CASE RowOf(a) # {}
    BY <2>1, SessionsAssumption DEF RowOf, OwnRows
  <2>2. CASE RowOf(a) = {}
    <3>1. \A u \in Rows : users[u].account # a
      BY <2>2 DEF RowOf
    <3> QED  BY <2>2, <3>1, RowIsFree
  <2> QED  BY <2>1, <2>2
<1> HIDE DEF row
<1>3. /\ \A v \in Rows : users[v] \in Account
      /\ a # Nobody /\ l # Nobody
  BY SessionsAssumption DEF SiteTypeOK
<1>4. /\ new[row].account = a /\ new[row].login = l
      /\ \A v \in Rows \ {row} : /\ new[v].account = users[v].account
                                /\ new[v].login = IF users[v].login = l THEN Nobody ELSE users[v].login
  BY <1>2, <1>3 DEF Account
<1>5. new \in [Rows -> Account]
  BY <1>3 DEF Account
<1> HIDE DEF new
<1>6. \A v \in Rows : users[v].account # Nobody => new[v].account = users[v].account
  BY <1>2, <1>4
<1>7. \A u, v \in Rows : new[u].account = new[v].account => new[u].account = Nobody \/ u = v
  BY <1>2, <1>4 DEF OwnRows
<1>8. \A u, v \in Rows : new[u].login = new[v].login => new[u].login = Nobody \/ u = v
  BY <1>2, <1>3, <1>4 DEF OwnRows
<1> QED  BY <1>1, <1>2, <1>4, <1>5, <1>6, <1>7, <1>8

(* The updates of a callback's record and of a cookie keep their types.    *)
LEMMA SiteRecords ==
  /\ NoSignin \in Signin /\ NoAttempt \in Attempt /\ NoSession \in Session /\ NoCookies \in Cookies
  /\ \A r \in Signin : /\ [r EXCEPT !.pc = "exchanging"] \in Signin
                       /\ \A u \in Rows : [r EXCEPT !.pc = "opening", !.user = u] \in Signin
                       /\ \A a \in Accounts, l \in Logins :
                            [r EXCEPT !.pc = "upserting", !.account = a, !.login = l] \in Signin
  /\ \A b \in Browsers, s \in OAuthStates :
       [NoSignin EXCEPT !.pc = "consuming", !.browser = b, !.state = s] \in Signin
  /\ \A k \in Cookies : /\ \A s \in OAuthStates \cup {Nobody} : [k EXCEPT !.state = s] \in Cookies
                        /\ k.state \in OAuthStates \cup {Nobody} /\ k.token \in Tokens \cup {Nobody}
<1>1. NoSignin \in Signin /\ NoAttempt \in Attempt /\ NoSession \in Session /\ NoCookies \in Cookies
  BY DEF NoSignin, Signin, NoAttempt, Attempt, NoSession, Session, NoCookies, Cookies
<1>2. \A r \in Signin : /\ [r EXCEPT !.pc = "exchanging"] \in Signin
                        /\ \A u \in Rows : [r EXCEPT !.pc = "opening", !.user = u] \in Signin
  BY DEF Signin
<1>3. \A r \in Signin, a \in Accounts, l \in Logins :
        [r EXCEPT !.pc = "upserting", !.account = a, !.login = l] \in Signin
  BY DEF Signin
<1>4. \A b \in Browsers, s \in OAuthStates :
        [NoSignin EXCEPT !.pc = "consuming", !.browser = b, !.state = s] \in Signin
  BY DEF Signin, NoSignin
<1>5. \A k \in Cookies : /\ \A s \in OAuthStates \cup {Nobody} : [k EXCEPT !.state = s] \in Cookies
                         /\ k.state \in OAuthStates \cup {Nobody} /\ k.token \in Tokens \cup {Nobody}
  BY DEF Cookies
<1> QED  BY <1>1, <1>2, <1>3, <1>4, <1>5

LEMMA SiteInit == SessionsInit => SiteInv
<1> SUFFICES ASSUME SessionsInit PROVE SiteInv
  OBVIOUS
<1>1. SiteTypeOK /\ instant >= 1
  <2>1. [account |-> Nobody, login |-> Nobody] \in Account
    BY DEF Account
  <2>2. users \in [Rows -> Account]
    BY <2>1 DEF SessionsInit
  <2>3. /\ oauth \in [OAuthStates -> Attempt] /\ session \in [Tokens -> Session]
        /\ jar \in [Browsers -> Cookies] /\ signin \in [Signins -> Signin]
    BY SiteRecords DEF SessionsInit
  <2>4. /\ instant \in Nat /\ instant >= 1 /\ profile \in [Accounts -> Logins]
        /\ drawn \subseteq OAuthStates \cup Tokens /\ consumed \in [OAuthStates -> Nat] /\ revoked \subseteq drawn
    BY DEF SessionsInit
  <2> QED  BY <2>2, <2>3, <2>4 DEF SiteTypeOK
<1>2. SigninKnows /\ ConsumedOnce
  BY DEF SessionsInit, SigninKnows, ConsumedOnce, OneLoginPerState, NoSignin, NoAttempt
<1>3. RevokedIsGone
  BY DEF SessionsInit, RevokedIsGone, Held, NoCookies
<1>4. OwnRows
  BY DEF SessionsInit, OwnRows
<1> QED  BY <1>1, <1>2, <1>3, <1>4 DEF SiteInv

(***************************************************************************)
(* One lemma per step of the website.                                      *)
(***************************************************************************)
LEMMA LoginStep ==
  ASSUME SiteInv, NEW b \in Browsers, OAuthLogin(b)
  PROVE  SiteInv'
<1> DEFINE s == Fresh(OAuthStates)
<1>1. s \in OAuthStates /\ s \notin drawn /\ s # Nobody
  BY Drawing, SessionsAssumption DEF OAuthLogin
<1>2. /\ \A q \in OAuthStates : oauth'[q] = IF q = s THEN [client |-> ClientOf[b], expires |-> instant + StateTTL]
                                            ELSE IF q \in Pending THEN oauth[q] ELSE NoAttempt
      /\ jar' = [jar EXCEPT ![b].state = s] /\ drawn' = drawn \cup {s}
      /\ UNCHANGED <<instant, profile, users, session, signin, consumed, revoked>>
      /\ DOMAIN oauth' = OAuthStates
  BY DEF OAuthLogin
<1>3. oauth' \in [OAuthStates -> Attempt]
  <2>1. [client |-> ClientOf[b], expires |-> instant + StateTTL] \in Attempt
    BY SessionsAssumption DEF SiteInv, SiteTypeOK, Attempt
  <2>2. \A q \in OAuthStates : oauth[q] \in Attempt
    BY DEF SiteInv, SiteTypeOK
  <2> QED  BY <2>1, <2>2, SiteRecords DEF OAuthLogin
<1> HIDE DEF s
<1>4. jar' \in [Browsers -> Cookies]
  BY <1>1, <1>2, SiteRecords DEF SiteInv, SiteTypeOK
<1>5. SiteTypeOK'
  BY <1>1, <1>2, <1>3, <1>4 DEF SiteInv, SiteTypeOK
<1>6. SigninKnows' /\ OwnRows'
  BY <1>2 DEF SiteInv, SigninKnows, OwnRows, Rows
<1>7. ConsumedOnce'
  BY <1>1, <1>2 DEF SiteInv, ConsumedOnce, OneLoginPerState, NoAttempt
<1>8. RevokedIsGone'
  <2>1. \A c \in Browsers : Held(c)' \subseteq drawn'
    <3> TAKE c \in Browsers
    <3>1. jar[c] \in Cookies /\ Held(c) \subseteq drawn
      BY DEF SiteInv, SiteTypeOK, RevokedIsGone
    <3>2. jar'[c].token = jar[c].token /\ jar'[c].state \in {jar[c].state, s}
      BY <1>2, <3>1 DEF SiteInv, SiteTypeOK, Cookies
    <3> QED  BY <1>2, <3>1, <3>2 DEF Held
  <2>2. s \notin revoked
    BY <1>1 DEF SiteInv, SiteTypeOK
  <2> QED  BY <1>2, <2>1, <2>2 DEF SiteInv, RevokedIsGone, NoAttempt
<1> QED  BY <1>2, <1>5, <1>6, <1>7, <1>8 DEF SiteInv

(* A step that changes cookies only to forget a state, and callbacks only  *)
(* to end one.                                                             *)
LEMMA ForgettingStep ==
  ASSUME SiteInv, UNCHANGED <<instant, profile, drawn, consumed, revoked>>, UNCHANGED tables,
         jar' = jar \/ \E b \in Browsers : jar' = [jar EXCEPT ![b].state = Nobody],
         signin' = signin \/ \E h \in Signins : signin' = [signin EXCEPT ![h] = NoSignin]
  PROVE  SiteInv'
<1>1. jar' \in [Browsers -> Cookies]
  <2>1. ASSUME NEW b \in Browsers, jar' = [jar EXCEPT ![b].state = Nobody] PROVE jar' \in [Browsers -> Cookies]
    <3>1. jar[b] \in Cookies /\ [jar[b] EXCEPT !.state = Nobody] \in Cookies
      BY SiteRecords DEF SiteInv, SiteTypeOK
    <3> QED  BY <2>1, <3>1 DEF SiteInv, SiteTypeOK
  <2> QED  BY <2>1 DEF SiteInv, SiteTypeOK
<1>2. signin' \in [Signins -> Signin] /\ \A h \in Signins : signin'[h] = signin[h] \/ signin'[h] = NoSignin
  BY SiteRecords DEF SiteInv, SiteTypeOK
<1>3. SiteTypeOK'
  BY <1>1, <1>2 DEF SiteInv, SiteTypeOK, tables, Rows
<1>4. \A b \in Browsers : Held(b)' \subseteq drawn
  <2> TAKE b \in Browsers
  <2>1. jar[b] \in Cookies /\ Held(b) \subseteq drawn
    BY DEF SiteInv, SiteTypeOK, RevokedIsGone
  <2>2. jar'[b].token = jar[b].token /\ jar'[b].state \in {jar[b].state, Nobody}
    BY <2>1 DEF SiteInv, SiteTypeOK, Cookies
  <2> QED  BY <2>1, <2>2 DEF Held
<1>5. SigninKnows'
  BY <1>2 DEF SiteInv, SigninKnows, NoSignin, tables, Rows
<1>6. ConsumedOnce' /\ OwnRows'
  BY DEF SiteInv, ConsumedOnce, OneLoginPerState, OwnRows, tables, Rows
<1>7. RevokedIsGone'
  BY <1>4 DEF SiteInv, RevokedIsGone, tables
<1> QED  BY <1>3, <1>5, <1>6, <1>7 DEF SiteInv

LEMMA ArriveStep ==
  ASSUME SiteInv, NEW h \in Signins, NEW b \in Browsers, Arrive(h, b)
  PROVE  SiteInv'
<1>1. jar[b].state \in OAuthStates
  BY SiteRecords DEF Arrive, SiteInv, SiteTypeOK
<1> DEFINE new == [NoSignin EXCEPT !.pc = "consuming", !.browser = b, !.state = jar[b].state]
<1>2. /\ new \in Signin /\ new.pc = "consuming" /\ new.browser = b /\ new.state = jar[b].state
  BY <1>1, SiteRecords DEF NoSignin
<1>3. /\ signin' = [signin EXCEPT ![h] = new]
      /\ UNCHANGED <<instant, profile, jar, drawn, consumed, revoked>> /\ UNCHANGED tables
  BY DEF Arrive
<1> HIDE DEF new
<1>4. SiteTypeOK'
  BY <1>2, <1>3 DEF SiteInv, SiteTypeOK, tables, Rows
<1>5. SigninKnows'
  BY <1>1, <1>2, <1>3 DEF SiteInv, SiteTypeOK, SigninKnows, tables, Rows
<1>6. ConsumedOnce' /\ OwnRows' /\ RevokedIsGone'
  BY <1>3 DEF SiteInv, ConsumedOnce, OneLoginPerState, OwnRows, RevokedIsGone, Held, tables, Rows
<1> QED  BY <1>3, <1>4, <1>5, <1>6 DEF SiteInv

LEMMA ConsumeStep ==
  ASSUME SiteInv, NEW h \in Signins, Consume(h)
  PROVE  SiteInv'
<1> DEFINE s == signin[h].state
           new == [signin[h] EXCEPT !.pc = "exchanging"]
<1>1. signin[h] \in Signin /\ signin[h].pc = "consuming" /\ s \in OAuthStates /\ oauth[s].expires > instant
  BY DEF Consume, SiteInv, SiteTypeOK, SigninKnows, Pending
<1>2. new \in Signin /\ new.pc = "exchanging" /\ new.browser = signin[h].browser /\ new.state = s
  BY <1>1, SiteRecords DEF Signin
<1>3. /\ oauth' = [oauth EXCEPT ![s] = NoAttempt]
      /\ consumed' = [consumed EXCEPT ![s] = @ + 1]
      /\ signin' = [signin EXCEPT ![h] = new]
      /\ UNCHANGED <<instant, profile, users, session, jar, drawn, revoked>>
  BY DEF Consume
<1> HIDE DEF new, s
<1>4. SiteTypeOK'
  <2>1. signin' \in [Signins -> Signin]
    BY <1>2, <1>3 DEF SiteInv, SiteTypeOK
  <2>2. oauth' \in [OAuthStates -> Attempt]
    BY <1>1, <1>3, SiteRecords DEF SiteInv, SiteTypeOK
  <2>3. consumed' \in [OAuthStates -> Nat]
    BY <1>1, <1>3 DEF SiteInv, SiteTypeOK
  <2> QED  BY <1>3, <2>1, <2>2, <2>3 DEF SiteInv, SiteTypeOK, Rows
<1>5. SigninKnows'
  BY <1>1, <1>2, <1>3 DEF SiteInv, SiteTypeOK, SigninKnows, Rows, s
<1>6. consumed[s] = 0 /\ s \in drawn
  <2>1. oauth[s].expires # 0
    BY <1>1 DEF SiteInv, SiteTypeOK
  <2> QED  BY <1>1, <2>1 DEF SiteInv, ConsumedOnce
<1>7. ConsumedOnce'
  BY <1>1, <1>3, <1>6 DEF SiteInv, SiteTypeOK, ConsumedOnce, OneLoginPerState, NoAttempt
<1>8. OwnRows' /\ RevokedIsGone'
  BY <1>3 DEF SiteInv, SiteTypeOK, OwnRows, RevokedIsGone, Held, Rows, NoAttempt
<1> QED  BY <1>3, <1>4, <1>5, <1>7, <1>8 DEF SiteInv

LEMMA ExchangeStep ==
  ASSUME SiteInv, NEW h \in Signins, Exchange(h)
  PROVE  SiteInv'
<1>1. PICK a \in Accounts : signin' = [signin EXCEPT ![h].pc = "upserting", ![h].account = a, ![h].login = profile[a]]
  BY DEF Exchange
<1> DEFINE new == [signin[h] EXCEPT !.pc = "upserting", !.account = a, !.login = profile[a]]
<1>2. profile[a] \in Logins /\ signin[h] \in Signin /\ signin[h].pc = "exchanging"
  BY DEF SiteInv, SiteTypeOK, Exchange
<1>3. /\ new \in Signin /\ new.pc = "upserting" /\ new.account = a /\ new.login = profile[a]
      /\ new.browser = signin[h].browser /\ new.state = signin[h].state
  BY <1>2, SiteRecords DEF Signin
<1>4. /\ signin' = [signin EXCEPT ![h] = new]
      /\ UNCHANGED <<instant, profile, jar, drawn, consumed, revoked>> /\ UNCHANGED tables
  BY <1>1 DEF Exchange
<1> HIDE DEF new
<1>5. SiteTypeOK'
  BY <1>3, <1>4 DEF SiteInv, SiteTypeOK, tables, Rows
<1>6. SigninKnows'
  BY <1>2, <1>3, <1>4 DEF SiteInv, SiteTypeOK, SigninKnows, tables, Rows
<1>7. ConsumedOnce' /\ OwnRows' /\ RevokedIsGone'
  BY <1>4 DEF SiteInv, ConsumedOnce, OneLoginPerState, OwnRows, RevokedIsGone, Held, tables, Rows
<1> QED  BY <1>4, <1>5, <1>6, <1>7 DEF SiteInv

LEMMA UpsertStep ==
  ASSUME SiteInv, NEW h \in Signins, UpsertUser(h)
  PROVE  SiteInv'
<1> DEFINE a == signin[h].account
           to == Upserted(a, signin[h].login)
           new == [signin[h] EXCEPT !.pc = "opening", !.user = to.row]
<1>1. a \in Accounts /\ signin[h].login \in Logins /\ signin[h] \in Signin /\ signin[h].pc = "upserting" /\ a # Nobody
  BY SessionsAssumption DEF UpsertUser, SiteInv, SiteTypeOK, SigninKnows
<1>2. /\ to.row \in Rows /\ to.users \in [Rows -> Account]
      /\ to.users[to.row].account = a
      /\ \A v \in Rows : users[v].account # Nobody => to.users[v].account = users[v].account
      /\ \A u, v \in Rows : to.users[u].account = to.users[v].account => to.users[u].account = Nobody \/ u = v
      /\ \A u, v \in Rows : to.users[u].login = to.users[v].login => to.users[u].login = Nobody \/ u = v
  BY <1>1, UpsertedOwns DEF SiteInv
<1>3. /\ new \in Signin /\ new.pc = "opening" /\ new.account = a /\ new.user = to.row
      /\ new.browser = signin[h].browser /\ new.state = signin[h].state
  <2> HIDE DEF to
  <2> QED  BY <1>1, <1>2, SiteRecords DEF Signin
<1>4. /\ users' = to.users /\ signin' = [signin EXCEPT ![h] = new]
      /\ UNCHANGED <<instant, profile, oauth, session, jar, drawn, consumed, revoked>>
  BY DEF UpsertUser
<1> HIDE DEF new, to
<1>5. SiteTypeOK'
  BY <1>2, <1>3, <1>4 DEF SiteInv, SiteTypeOK, Rows
<1>6. SigninKnows'
  <2> SUFFICES ASSUME NEW g \in Signins
               PROVE  /\ signin'[g].pc # "idle" => signin'[g].browser \in Browsers /\ signin'[g].state \in OAuthStates
                      /\ signin'[g].pc = "upserting" => signin'[g].account \in Accounts /\ signin'[g].login \in Logins
                      /\ signin'[g].pc = "opening" =>
                           /\ signin'[g].account \in Accounts /\ signin'[g].user \in Rows
                           /\ users'[signin'[g].user].account = signin'[g].account
    BY DEF SigninKnows, Rows
  <2>1. CASE g = h
    BY <1>1, <1>2, <1>3, <1>4, <2>1 DEF SiteInv, SiteTypeOK, SigninKnows
  <2>2. CASE g # h
    <3>1. signin'[g] = signin[g]
      BY <1>4, <2>2 DEF SiteInv, SiteTypeOK
    <3> QED  BY <1>2, <1>4, <3>1, SessionsAssumption DEF SiteInv, SigninKnows
  <2> QED  BY <2>1, <2>2
<1>7. OwnRows'
  <2>1. \A t \in Tokens : session'[t] # NoSession =>
          session'[t].user \in Rows /\ session'[t].by \in Accounts /\ users'[session'[t].user].account = session'[t].by
    BY <1>2, <1>4, SessionsAssumption DEF SiteInv, OwnRows
  <2> QED  BY <1>2, <1>4, <2>1 DEF OwnRows, Rows
<1>8. ConsumedOnce' /\ RevokedIsGone'
  BY <1>4 DEF SiteInv, ConsumedOnce, OneLoginPerState, RevokedIsGone, Held
<1> QED  BY <1>4, <1>5, <1>6, <1>7, <1>8 DEF SiteInv

LEMMA CreateStep ==
  ASSUME SiteInv, NEW h \in Signins, CreateSession(h)
  PROVE  SiteInv'
<1> DEFINE t == Fresh(Tokens)
           b == signin[h].browser
           row == [user |-> signin[h].user, expires |-> instant + SessionTTL, by |-> signin[h].account]
           cookies == [state |-> Nobody, token |-> t]
<1>1. t \in Tokens /\ t \notin drawn
  BY Drawing DEF CreateSession
<1>2. /\ b \in Browsers /\ signin[h].account \in Accounts /\ signin[h].user \in Rows
      /\ users[signin[h].user].account = signin[h].account
  BY DEF CreateSession, SiteInv, SigninKnows
<1>3. /\ row \in Session /\ row.user \in Rows /\ row.by \in Accounts /\ users[row.user].account = row.by
      /\ cookies \in Cookies /\ cookies.state = Nobody /\ cookies.token = t
  BY <1>1, <1>2, SessionsAssumption DEF Session, Cookies, SiteInv, SiteTypeOK
<1>4. /\ session' = [session EXCEPT ![t] = row] /\ jar' = [jar EXCEPT ![b] = cookies]
      /\ drawn' = drawn \cup {t} /\ signin' = [signin EXCEPT ![h] = NoSignin]
      /\ UNCHANGED <<instant, profile, users, oauth, consumed, revoked>>
  BY DEF CreateSession
<1> HIDE DEF t, b, row, cookies
<1>5. SiteTypeOK'
  <2>1. session' \in [Tokens -> Session] /\ jar' \in [Browsers -> Cookies]
    BY <1>3, <1>4 DEF SiteInv, SiteTypeOK
  <2>2. signin' \in [Signins -> Signin]
    BY <1>4, SiteRecords DEF SiteInv, SiteTypeOK
  <2> QED  BY <1>1, <1>4, <2>1, <2>2 DEF SiteInv, SiteTypeOK, Rows
<1>6. SigninKnows'
  <2>1. \A g \in Signins : signin'[g] = signin[g] \/ signin'[g] = NoSignin
    BY <1>4 DEF SiteInv, SiteTypeOK
  <2> QED  BY <1>4, <2>1 DEF SiteInv, SigninKnows, NoSignin, Rows
<1>7. ConsumedOnce'
  BY <1>4 DEF SiteInv, ConsumedOnce, OneLoginPerState
<1>8. RevokedIsGone'
  <2>1. \A c \in Browsers : Held(c)' \subseteq drawn'
    BY <1>1, <1>3, <1>4 DEF SiteInv, SiteTypeOK, RevokedIsGone, Held
  <2>2. t \notin revoked
    BY <1>1 DEF SiteInv, SiteTypeOK
  <2>3. \A q \in revoked \cap Tokens : session'[q] = NoSession
    BY <1>4, <2>2 DEF SiteInv, SiteTypeOK, RevokedIsGone
  <2> QED  BY <1>4, <2>1, <2>3 DEF SiteInv, RevokedIsGone
<1>9. OwnRows'
  <2>1. \A q \in Tokens : session'[q] = session[q] \/ session'[q] = row
    BY <1>4 DEF SiteInv, SiteTypeOK
  <2> QED  BY <1>3, <1>4, <2>1 DEF SiteInv, OwnRows, Rows
<1> QED  BY <1>4, <1>5, <1>6, <1>7, <1>8, <1>9 DEF SiteInv

(* A step that only removes sessions, attempts and what browsers hold.     *)
LEMMA RemovingStep ==
  ASSUME SiteInv,
         \A t \in Tokens : session'[t] = session[t] \/ session'[t] = NoSession,
         \A s \in OAuthStates : oauth'[s] = oauth[s] \/ oauth'[s] = NoAttempt,
         \A b \in Browsers : jar'[b] = jar[b] \/ jar'[b] = NoCookies,
         SiteTypeOK',
         \A t \in (revoked' \ revoked) \cap Tokens : session'[t] = NoSession,
         \A s \in (revoked' \ revoked) \cap OAuthStates : oauth'[s] = NoAttempt,
         UNCHANGED <<instant, profile, users, signin, drawn, consumed>>
  PROVE  SiteInv'
<1>1. SigninKnows'
  BY DEF SiteInv, SigninKnows, Rows
<1>2. ConsumedOnce'
  BY DEF SiteInv, ConsumedOnce, OneLoginPerState, NoAttempt
<1>3. OwnRows'
  BY DEF SiteInv, OwnRows, Rows
<1>4. RevokedIsGone'
  <2>1. \A b \in Browsers : Held(b)' \subseteq drawn'
    BY DEF SiteInv, RevokedIsGone, Held, NoCookies
  <2>2. \A t \in revoked' \cap Tokens : session'[t] = NoSession
    BY DEF SiteInv, RevokedIsGone
  <2>3. \A s \in revoked' \cap OAuthStates : oauth'[s].expires = 0
    BY DEF SiteInv, RevokedIsGone, NoAttempt
  <2> QED  BY <2>1, <2>2, <2>3 DEF RevokedIsGone
<1> QED  BY <1>1, <1>2, <1>3, <1>4 DEF SiteInv

LEMMA LogoutStep ==
  ASSUME SiteInv, NEW b \in Browsers, Logout(b)
  PROVE  SiteInv'
<1>1. /\ session' = [t \in Tokens |-> IF t \in Held(b) THEN NoSession ELSE session[t]]
      /\ oauth' = [s \in OAuthStates |-> IF s \in Held(b) THEN NoAttempt ELSE oauth[s]]
      /\ revoked' = revoked \cup Held(b)
      /\ jar' = [jar EXCEPT ![b] = NoCookies]
      /\ UNCHANGED <<instant, profile, users, signin, drawn, consumed>>
  BY DEF Logout, Revocable
<1>2. Held(b) \subseteq drawn
  BY DEF SiteInv, RevokedIsGone
<1>3. session' \in [Tokens -> Session] /\ oauth' \in [OAuthStates -> Attempt] /\ jar' \in [Browsers -> Cookies]
  BY <1>1, SiteRecords DEF SiteInv, SiteTypeOK
<1>4. SiteTypeOK'
  BY <1>1, <1>2, <1>3 DEF SiteInv, SiteTypeOK, Rows
<1>5. \A c \in Browsers : jar'[c] = jar[c] \/ jar'[c] = NoCookies
  BY <1>1 DEF SiteInv, SiteTypeOK
<1> QED  BY <1>1, <1>4, <1>5, RemovingStep

LEMMA ExpiryStep ==
  ASSUME SiteInv, NEW b \in Browsers, SessionUser(b)
  PROVE  SiteInv'
<1>1. /\ session' = [session EXCEPT ![jar[b].token] = NoSession]
      /\ UNCHANGED <<instant, profile, users, oauth, jar, signin, drawn, consumed, revoked>>
  BY DEF SessionUser
<1>2. session' \in [Tokens -> Session]
  BY <1>1, SiteRecords DEF SiteInv, SiteTypeOK
<1>3. SiteTypeOK'
  BY <1>1, <1>2 DEF SiteInv, SiteTypeOK, Rows
<1>4. \A t \in Tokens : session'[t] = session[t] \/ session'[t] = NoSession
  BY <1>1 DEF SiteInv, SiteTypeOK
<1> QED  BY <1>1, <1>3, <1>4, RemovingStep

(* Time, and names at GitHub.                                              *)
LEMMA OutsideStep ==
  ASSUME SiteInv, InstantPasses \/ \E a \in Accounts : Rename(a)
  PROVE  SiteInv'
<1>1. UNCHANGED <<jar, signin, drawn, consumed, revoked>> /\ UNCHANGED tables
  BY DEF InstantPasses, Rename
<1>2. instant' \in Nat /\ instant' >= 1 /\ profile' \in [Accounts -> Logins]
  BY DEF InstantPasses, Rename, SiteInv, SiteTypeOK
<1>3. SiteTypeOK'
  BY <1>1, <1>2 DEF SiteInv, SiteTypeOK, tables, Rows
<1>4. SigninKnows' /\ ConsumedOnce' /\ OwnRows' /\ RevokedIsGone'
  BY <1>1 DEF SiteInv, SigninKnows, ConsumedOnce, OneLoginPerState, OwnRows, RevokedIsGone, Held, tables, Rows
<1> QED  BY <1>2, <1>3, <1>4 DEF SiteInv

LEMMA SiteStep == SiteInv /\ [SessionsNext]_siteVars => SiteInv'
<1> SUFFICES ASSUME SiteInv, [SessionsNext]_siteVars PROVE SiteInv'
  OBVIOUS
<1>1. CASE UNCHANGED siteVars
  BY <1>1, ForgettingStep DEF siteVars, tables
<1>2. ASSUME NEW b \in Browsers, OAuthLogin(b) \/ Mismatch(b) \/ SessionUser(b) \/ Logout(b) PROVE SiteInv'
  <2>1. CASE Mismatch(b)
    BY <2>1, ForgettingStep DEF Mismatch
  <2> QED  BY <1>2, <2>1, LoginStep, ExpiryStep, LogoutStep
<1>3. ASSUME NEW h \in Signins, NEW b \in Browsers, Arrive(h, b) PROVE SiteInv'
  BY <1>3, ArriveStep
<1>4. ASSUME NEW h \in Signins, ConsumeFails(h) PROVE SiteInv'
  BY <1>4, ForgettingStep DEF ConsumeFails
<1>5. ASSUME NEW h \in Signins, CallbackFails(h) PROVE SiteInv'
  <2>1. signin[h].pc # "idle"
    BY <1>5 DEF CallbackFails
  <2>2. signin[h].browser \in Browsers
    BY <2>1 DEF SiteInv, SigninKnows
  <2> QED  BY <1>5, <2>2, ForgettingStep DEF CallbackFails, Turned
<1>6. ASSUME NEW h \in Signins, Consume(h) \/ Exchange(h) \/ UpsertUser(h) \/ CreateSession(h) PROVE SiteInv'
  BY <1>6, ConsumeStep, ExchangeStep, UpsertStep, CreateStep
<1> QED  BY <1>1, <1>2, <1>3, <1>4, <1>5, <1>6, OutsideStep DEF SessionsNext

LEMMA SiteInvariant == SessionsSpec => []SiteInv
BY SiteInit, SiteStep, PTL DEF SessionsSpec

(* The tables and cookies keep their types.                                *)
THEOREM SiteTypeCorrect == SessionsSpec => []SiteTypeOK
<1>1. SiteInv => SiteTypeOK
  BY DEF SiteInv
<1> QED  BY <1>1, SiteInvariant, PTL

(* ConsumeOAuthState: of all the callbacks that carry a state, in however  *)
(* many tabs, one is let through.                                          *)
THEOREM OneLogin == SessionsSpec => []OneLoginPerState
<1>1. SiteInv => OneLoginPerState
  BY DEF SiteInv, ConsumedOnce
<1> QED  BY <1>1, SiteInvariant, PTL

(* UpsertUser and CreateSession: a session is that of the account that     *)
(* signed in, and rows share neither accounts nor names, whatever accounts *)
(* are renamed to.                                                         *)
THEOREM Own == SessionsSpec => []SessionsAreOwn
<1>1. SiteInv => SessionsAreOwn
  <2> SUFFICES ASSUME SiteInv PROVE SessionsAreOwn
    OBVIOUS
  <2>1. \A u, v \in Rows : u # v /\ users[u].account = users[v].account => users[u].account = Nobody
    BY DEF SiteInv, OwnRows
  <2>2. \A u, v \in Rows : u # v /\ users[u].login = users[v].login => users[u].login = Nobody
    BY DEF SiteInv, OwnRows
  <2>3. \A t \in Tokens : session[t] # NoSession => users[session[t].user].account = session[t].by
    BY DEF SiteInv, OwnRows
  <2>4. \A u, v \in Rows : u # v => \A f \in {"account", "login"} : users[u][f] = users[v][f] => users[u][f] = Nobody
    BY <2>1, <2>2
  <2> QED  BY <2>3, <2>4 DEF SessionsAreOwn
<1> QED  BY <1>1, SiteInvariant, PTL

(* handleLogout: neither the session nor the attempt that a logout took    *)
(* back ever lets anybody in again.                                        *)
THEOREM Revokes == SessionsSpec => LogoutRevokes
<1> DEFINE Forgotten == /\ \A t \in revoked \cap Tokens : session'[t] = NoSession
                        /\ \A s \in revoked \cap OAuthStates : consumed'[s] = consumed[s]
<1>1. SiteInv /\ SiteInv' /\ [SessionsNext]_siteVars => Forgotten
  <2> SUFFICES ASSUME SiteInv, SiteInv', [SessionsNext]_siteVars PROVE Forgotten
    OBVIOUS
  <2>1. revoked \subseteq revoked'
    BY DEF SessionsNext, siteVars, OAuthLogin, Mismatch, SessionUser, Logout, Arrive, Consume, ConsumeFails,
           CallbackFails, Exchange, UpsertUser, CreateSession, InstantPasses, Rename
  <2>2. \A t \in revoked \cap Tokens : session'[t] = NoSession
    BY <2>1 DEF SiteInv, RevokedIsGone
  <2>3. ASSUME NEW h \in Signins, Consume(h) PROVE \A s \in revoked \cap OAuthStates : consumed'[s] = consumed[s]
    <3>1. signin[h].state \in OAuthStates /\ oauth[signin[h].state].expires # 0
      BY <2>3 DEF Consume, Pending, SiteInv, SiteTypeOK
    <3>2. signin[h].state \notin revoked
      BY <3>1 DEF SiteInv, RevokedIsGone
    <3> QED  BY <2>3, <3>2 DEF Consume, SiteInv, SiteTypeOK
  <2>4. (\E h \in Signins : Consume(h)) \/ consumed' = consumed
    BY DEF SessionsNext, siteVars, OAuthLogin, Mismatch, SessionUser, Logout, Arrive, ConsumeFails,
           CallbackFails, Exchange, UpsertUser, CreateSession, InstantPasses, Rename
  <2> QED  BY <2>2, <2>3, <2>4
<1> QED  BY <1>1, SiteInvariant, PTL DEF SessionsSpec, LogoutRevokes

================================================================================
