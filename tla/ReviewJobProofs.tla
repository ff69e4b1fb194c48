---------------------------- MODULE ReviewJobProofs ----------------------------
(***************************************************************************)
(* What a call of Run keeps, for every archive, every limit and whatever   *)
(* the reviewer writes: NoneSurvives, TextIsComplete, CheckoutIsWhole and  *)
(* CheckoutIsBounded of Runner.  And what the functions that read its      *)
(* answer return, for every input: the properties of ReviewText.           *)
(*                                                                         *)
(* Run: the reviewer lives only while the call runs or reaps it            *)
(* (Confined), every way out of these two places waits for the process and *)
(* for both pipes, and a stream that was not cut is, kept and in the pipe  *)
(* taken together, what was said (Conserved). The checkout is at every     *)
(* entry what the entries before it hold (Unpacking), and its files and    *)
(* their bytes are what fetch has counted, or fewer (Sized).               *)
(*                                                                         *)
(* Text: what holds of an input read so far holds one item later, and so   *)
(* at its end. The scanner knows the blocks (Knows), the index is exact    *)
(* (Indexed), what is kept and published is counted (Kept, Pinned), and a  *)
(* byte starts a rune just where one ends (Starts).                        *)
(***************************************************************************)
EXTENDS Runner, ReviewText, SequenceTheorems, FiniteSetTheorems, WellFoundedInduction, TLAPS

Word  == UNION {Words[s] : s \in Streams}
Texts == Seq(Word)

Process == [engine : Engines, alive : BOOLEAN, doomed : BOOLEAN, exit : {"none", "ok", "failed", "killed"}, over : SUBSET Streams,
            said : [Streams -> Texts], pipe : [Streams -> Texts], kept : [Streams -> Texts]]

FetchOK(f) ==
  /\ DOMAIN f = DOMAIN NoFetch
  /\ f.attempt \in 0..Attempts
  /\ f.archive \in Archives \cup {NoFetch.archive}
  /\ f.error \in Errors

Shapes ==
  /\ pc \in Places
  /\ cancelled \in BOOLEAN /\ sealed \in BOOLEAN
  /\ FetchOK(fetch)
  /\ agent \in Process
  /\ result.error \in Errors
  /\ left \in Nat /\ calls \in 0..MaxCalls

(* Each call leaves at most one checkout, and only when it returns.        *)
Counted == IF pc = "idle" THEN left <= calls ELSE left < calls

(* The last attempt is not repeated, and none fails without an error.      *)
Retried ==
  /\ pc = "backoff" => fetch.attempt < Attempts
  /\ pc = "failed" => fetch.error # "none"

(* Only a tree that holds the diff is sealed.                              *)
Sealing ==
  /\ pc \in {"seal", "files", "start", "running", "reap"} => tree # Absent
  /\ sealed => pc \in {"files", "start", "running", "reap"}

Quiet == ~agent.alive /\ \A s \in Streams : agent.pipe[s] = <<>>

Confined == pc \notin {"running", "reap"} => Quiet

(* After "idle" the record of the process stays as the call left it.       *)
Conserved == \A s \in Streams \ agent.over : agent.said[s] = agent.kept[s] \o agent.pipe[s]

Answered ==
  pc = "idle" /\ calls > 0 /\ result.error = "none" => agent.exit = "ok" /\ result.text = Message(agent.engine, agent.said["stdout"])

Inv == Shapes /\ Counted /\ Retried /\ Sealing /\ Confined /\ Conserved /\ Answered

(***************************************************************************)
(* Records.                                                                *)
(***************************************************************************)
LEMMA Bounds ==
  /\ MaxCalls \in Nat /\ Attempts \in Nat /\ Attempts >= 1 /\ OutLimit \in Nat /\ MaxSaid \in Nat
  /\ 0 \in 0..MaxCalls /\ 0 \in 0..Attempts /\ 1 \in 0..Attempts
BY RunnerAssumption

LEMMA NoWords == <<>> \in Texts /\ <<>> \o <<>> = <<>>
<1>1. <<>> \in Seq(Word)
  OBVIOUS
<1> QED  BY <1>1, ConcatEmptySeq DEF Texts

(* What a call begins with.                                                *)
LEMMA Fresh ==
  /\ FetchOK(NoFetch) /\ FetchOK([NoFetch EXCEPT !.attempt = 1])
  /\ NoAgent \in Process /\ \A e \in Engines : [NoAgent EXCEPT !.alive = TRUE, !.engine = e] \in Process
  /\ Nothing.error \in Errors
<1>1. "none" \in Errors
  BY DEF Errors
<1>2. FetchOK(NoFetch) /\ FetchOK([NoFetch EXCEPT !.attempt = 1])
  BY <1>1, Bounds DEF FetchOK, NoFetch
<1>3. [s \in Streams |-> <<>>] \in [Streams -> Texts]
  BY NoWords
<1>4. NoAgent \in Process
  <2>1. "opencode2" \in Engines
    BY DEF Engines
  <2> QED  BY <1>3, <2>1 DEF NoAgent, Process
<1>5. \A e \in Engines : [NoAgent EXCEPT !.alive = TRUE, !.engine = e] \in Process
  BY <1>4 DEF Process
<1>6. Nothing.error \in Errors
  BY <1>1 DEF Nothing
<1> QED  BY <1>2, <1>4, <1>5, <1>6

LEMMA Silent ==
  ASSUME agent' \in {NoAgent} \cup {[NoAgent EXCEPT !.alive = TRUE, !.engine = e] : e \in Engines}
  PROVE  /\ Conserved' /\ \A s \in Streams : agent'.pipe[s] = <<>>
         /\ agent' = NoAgent => Quiet'
<1>3. agent'.said = NoAgent.said /\ agent'.kept = NoAgent.kept /\ agent'.pipe = NoAgent.pipe
  <2>1. CASE agent' = NoAgent
    BY <2>1
  <2>2. CASE \E e \in Engines : agent' = [NoAgent EXCEPT !.alive = TRUE, !.engine = e]
    BY <2>2 DEF NoAgent
  <2> QED  BY <2>1, <2>2
<1>1. \A s \in Streams : agent'.said[s] = <<>> /\ agent'.kept[s] = <<>> /\ agent'.pipe[s] = <<>>
  BY <1>3 DEF NoAgent
<1>2. agent' = NoAgent => ~agent'.alive
  BY DEF NoAgent
<1> QED  BY <1>1, <1>2, NoWords DEF Conserved, Quiet

LEMMA FetchWrites ==
  ASSUME NEW f, FetchOK(f)
  PROVE  /\ \A e \in Errors : FetchOK([f EXCEPT !.error = e]) /\ [f EXCEPT !.error = e].attempt = f.attempt
         /\ \A a \in Archives :
              FetchOK([f EXCEPT !.archive = a, !.at = 1, !.entries = 0, !.root = NoRoot, !.seen = {}, !.total = 0])
         /\ f.attempt < Attempts => FetchOK([f EXCEPT !.attempt = @ + 1, !.error = "none"])
         /\ FetchOK(Advance(f))
         /\ \A n, root, seen, total :
              /\ FetchOK([f EXCEPT !.entries = n, !.root = root, !.seen = seen])
              /\ FetchOK([f EXCEPT !.total = total])
<1>1. \A e \in Errors : FetchOK([f EXCEPT !.error = e]) /\ [f EXCEPT !.error = e].attempt = f.attempt
  BY DEF FetchOK, NoFetch
<1>2. \A a \in Archives :
        FetchOK([f EXCEPT !.archive = a, !.at = 1, !.entries = 0, !.root = NoRoot, !.seen = {}, !.total = 0])
  BY DEF FetchOK, NoFetch
<1>3. f.attempt < Attempts => FetchOK([f EXCEPT !.attempt = @ + 1, !.error = "none"])
  <2>a. "none" \in Errors
    BY DEF Errors
  <2>b. f.attempt \in 0..Attempts
    BY DEF FetchOK
  <2>c. f.attempt < Attempts => f.attempt + 1 \in 0..Attempts
    BY <2>b, Bounds
  <2>1. "none" \in Errors /\ (f.attempt < Attempts => f.attempt + 1 \in 0..Attempts)
    BY <2>a, <2>c
  <2>2. f.attempt < Attempts => FetchOK([f EXCEPT !.attempt = f.attempt + 1, !.error = "none"])
    <3>1. DOMAIN f = DOMAIN NoFetch /\ "attempt" \in DOMAIN f /\ "error" \in DOMAIN f /\ "archive" \in DOMAIN f
      BY DEF FetchOK, NoFetch
    <3> QED  BY <2>1, <3>1 DEF FetchOK
  <2> QED  BY <2>2
<1>4. FetchOK(Advance(f))
  BY DEF FetchOK, NoFetch, Advance
<1>5. \A n, root, seen, total :
        /\ FetchOK([f EXCEPT !.entries = n, !.root = root, !.seen = seen])
        /\ FetchOK([f EXCEPT !.total = total])
  BY DEF FetchOK, NoFetch
<1> QED  BY <1>1, <1>2, <1>3, <1>4, <1>5

LEMMA ResultRecords ==
  \A e, t : [error |-> e, text |-> t].error = e /\ [error |-> e, text |-> t].text = t
OBVIOUS

(***************************************************************************)
(* The ways of the call.                                                   *)
(***************************************************************************)

(* Every way out.                                                          *)
LEMMA Returning ==
  ASSUME Inv, pc # "idle", Quiet, NEW e \in Errors, NEW t, Return(e, t),
         e = "none" => agent.exit = "ok" /\ t = Message(agent.engine, agent.said["stdout"])
  PROVE  Inv'
<1>1. /\ pc' = "idle" /\ result' = [error |-> e, text |-> t] /\ left' \in {left, left + 1}
      /\ tree' = Absent /\ sealed' = FALSE /\ UNCHANGED <<cancelled, fetch, agent, calls>>
  BY DEF Return
<1>2. left < calls /\ left \in Nat /\ calls \in Nat
  BY Bounds DEF Inv, Counted, Shapes
<1>3. Shapes'
  <2>1. result'.error \in Errors
    BY <1>1, ResultRecords
  <2>2. left' \in Nat
    BY <1>1, <1>2
  <2> QED  BY <1>1, <2>1, <2>2 DEF Inv, Shapes, Places
<1>4. Counted' /\ Retried' /\ Sealing'
  BY <1>1, <1>2 DEF Counted, Retried, Sealing
<1>5. Confined' /\ Conserved'
  BY <1>1 DEF Inv, Confined, Quiet, Conserved
<1>6. Answered'
  BY <1>1, ResultRecords DEF Answered
<1> QED  BY <1>3, <1>4, <1>5, <1>6 DEF Inv

(* Without a reviewer the call goes from place to place.                   *)
LEMMA Proceeding ==
  ASSUME Inv, pc \notin {"idle", "running", "reap"}, pc' \in Places \ {"idle", "running", "reap"},
         FetchOK(fetch'), pc' = "backoff" => fetch'.attempt < Attempts, pc' = "failed" => fetch'.error # "none",
         pc' \in {"seal", "files", "start"} => tree' # Absent,
         sealed' \in BOOLEAN, sealed' => pc' \in {"files", "start"},
         UNCHANGED <<cancelled, agent, result, left, calls>>
  PROVE  Inv'
<1>1. Shapes'
  BY DEF Inv, Shapes
<1>2. Counted' /\ Retried' /\ Sealing'
  BY DEF Inv, Counted, Retried, Sealing
<1>3. Confined' /\ Conserved' /\ Answered'
  BY DEF Inv, Confined, Quiet, Conserved, Answered
<1> QED  BY <1>1, <1>2, <1>3 DEF Inv

LEMMA Failing ==
  ASSUME Inv, pc \in {"request", "extract"}, NEW e \in Errors \ {"none"}, Fail(e)
  PROVE  Inv'
<1>1. FetchOK(fetch) /\ pc \notin {"files", "start", "running", "reap"} /\ sealed = FALSE
  BY DEF Inv, Shapes, Sealing
<1>2. /\ FetchOK(fetch') /\ fetch'.error # "none" /\ pc' = "failed" /\ sealed' = FALSE
      /\ UNCHANGED <<cancelled, agent, result, left, calls>>
  <2>1. fetch' = [fetch EXCEPT !.error = e] /\ pc' = "failed" /\ UNCHANGED <<result, disk>>
    BY DEF Fail
  <2>2. [fetch EXCEPT !.error = e].error = e
    BY <1>1 DEF FetchOK, NoFetch
  <2> QED  BY <1>1, <2>1, <2>2, FetchWrites DEF disk
<1>3. pc' \in Places \ {"idle", "running", "reap"} /\ pc \notin {"idle", "running", "reap"}
  BY <1>2 DEF Places
<1> QED  BY <1>2, <1>3, Proceeding

(* The steps of a call in one of these places leave the seal alone.        *)
LEMMA Unsealed ==
  ASSUME Inv, pc \in {"request", "extract", "failed", "backoff", "harden", "diff", "seal"}
  PROVE  sealed = FALSE /\ Quiet /\ pc \notin {"idle", "running", "reap"} /\ FetchOK(fetch)
BY DEF Inv, Sealing, Confined, Shapes

LEMMA IdleStep ==
  ASSUME Inv, Refuse \/ Begin \/ Cancel
  PROVE  Inv'
<1>1. CASE Refuse
  <2>1. PICK e \in {"sandbox", "io"} : result' = [error |-> e, text |-> <<>>]
    BY <1>1 DEF Refuse
  <2>2. result'.error \in Errors /\ result'.error # "none"
    <3>1. e \in Errors /\ e # "none"
      BY DEF Errors
    <3> QED  BY <2>1, <3>1, NoWords, ResultRecords
  <2>3. /\ pc = "idle" /\ calls < MaxCalls /\ calls' = calls + 1 /\ cancelled' = FALSE
        /\ agent' = NoAgent /\ fetch' = NoFetch /\ UNCHANGED <<pc, tree, sealed, left>>
    BY <1>1 DEF Refuse
  <2>4. calls \in Nat /\ left \in Nat /\ left <= calls
    BY <2>3, Bounds DEF Inv, Shapes, Counted
  <2>5. Shapes'
    <3>1. calls' \in 0..MaxCalls /\ left' \in Nat
      BY <2>3, <2>4, Bounds
    <3>2. FetchOK(fetch') /\ agent' \in Process /\ cancelled' \in BOOLEAN
      BY <2>3, Fresh
    <3> QED  BY <2>2, <2>3, <3>1, <3>2 DEF Inv, Shapes
  <2>6. Counted' /\ Retried' /\ Sealing'
    BY <2>3, <2>4 DEF Inv, Counted, Retried, Sealing
  <2>7. Confined' /\ Conserved'
    BY <2>3, Silent DEF Confined
  <2>8. Answered'
    BY <2>2 DEF Answered
  <2> QED  BY <2>5, <2>6, <2>7, <2>8 DEF Inv
<1>2. CASE Begin
  <2>1. /\ pc = "idle" /\ calls < MaxCalls /\ calls' = calls + 1 /\ cancelled' = FALSE /\ pc' = "request"
        /\ agent' = NoAgent /\ result' = Nothing /\ fetch' = [NoFetch EXCEPT !.attempt = 1]
        /\ UNCHANGED <<tree, sealed, left>>
    BY <1>2 DEF Begin
  <2>2. calls \in Nat /\ left \in Nat /\ left <= calls
    BY <2>1, Bounds DEF Inv, Shapes, Counted
  <2>3. Shapes'
    <3>1. calls' \in 0..MaxCalls /\ left' \in Nat
      BY <2>1, <2>2, Bounds
    <3>2. FetchOK(fetch') /\ agent' \in Process /\ cancelled' \in BOOLEAN /\ result'.error \in Errors
      BY <2>1, Fresh
    <3> QED  BY <2>1, <3>1, <3>2 DEF Inv, Shapes, Places
  <2>4. Counted' /\ Retried' /\ Sealing'
    BY <2>1, <2>2 DEF Inv, Counted, Retried, Sealing
  <2>5. Confined' /\ Conserved' /\ Answered'
    BY <2>1, Silent DEF Confined, Answered
  <2> QED  BY <2>3, <2>4, <2>5 DEF Inv
<1>3. CASE Cancel
  BY <1>3 DEF Cancel, Inv, Shapes, Counted, Retried, Sealing, Confined, Quiet, Conserved, Answered
<1> QED  BY <1>1, <1>2, <1>3

LEMMA DownloadStep ==
  ASSUME Inv, Download
  PROVE  Inv'
<1>1. CASE RequestFails
  <2>1. ReadError \in Errors \ {"none"}
    BY DEF ReadError, Errors
  <2> QED  BY <1>1, <2>1, Failing DEF RequestFails
<1>2. CASE Request
  <2>1. PICK a \in Archives : IF a.length > MaxArchive THEN Fail("too large") ELSE OpenDestination(a)
    BY <1>2 DEF Request
  <2>2. pc = "request" /\ {"too large", "io"} \subseteq Errors \ {"none"}
    BY <1>2 DEF Request, Errors
  <2>3. CASE Fail("too large") \/ Fail("io")
    BY <2>2, <2>3, Failing
  <2>4. CASE /\ pc' = "extract"
             /\ fetch' = [fetch EXCEPT !.archive = a, !.at = 1, !.entries = 0, !.root = NoRoot, !.seen = {}, !.total = 0]
             /\ UNCHANGED <<result, disk>>
    <3>1. /\ FetchOK(fetch') /\ sealed' = FALSE /\ pc' \in Places \ {"idle", "running", "reap"}
          /\ UNCHANGED <<cancelled, agent, result, left, calls>>
      BY <2>2, <2>4, Unsealed, FetchWrites DEF disk, Inv, Shapes, Places
    <3> QED  BY <2>2, <2>4, <3>1, Proceeding
  <2> QED  BY <2>1, <2>3, <2>4 DEF OpenDestination
<1>3. CASE Retry
  <2>1. pc = "failed" /\ Quiet /\ sealed = FALSE /\ FetchOK(fetch) /\ fetch.error \in Errors \ {"none"}
    BY <1>3, Unsealed DEF Retry, FetchOK, Inv, Retried
  <2>2. CASE (fetch.error = "too large" \/ fetch.attempt = Attempts) /\ Return(fetch.error, <<>>)
    <3> QED  BY <2>1, <2>2, NoWords, Returning
  <2>3. CASE Return("cancelled", <<>>)
    <3>1. "cancelled" \in Errors /\ "cancelled" # "none"
      BY DEF Errors
    <3> QED  BY <2>1, <2>3, <3>1, NoWords, Returning
  <2>4. CASE fetch.attempt # Attempts /\ pc' = "backoff" /\ UNCHANGED <<fetch, tree, result, disk>>
    <3>1. fetch'.attempt < Attempts
      BY <2>1, <2>4, Bounds DEF FetchOK
    <3>2. /\ FetchOK(fetch') /\ sealed' = FALSE /\ pc' \in Places \ {"idle", "running", "reap"}
          /\ UNCHANGED <<cancelled, agent, result, left, calls>>
      BY <2>1, <2>4 DEF disk, Places
    <3> QED  BY <2>1, <2>4, <3>1, <3>2, Proceeding
  <2> QED  BY <1>3, <2>2, <2>3, <2>4 DEF Retry
<1>4. CASE BackoffCancelled
  <2>1. pc = "backoff" /\ Quiet /\ "cancelled" \in Errors /\ "cancelled" # "none" /\ Return("cancelled", <<>>)
    BY <1>4, Unsealed DEF BackoffCancelled, Errors
  <2> QED  BY <2>1, NoWords, Returning
<1>5. CASE BackoffEnds
  <2>1. pc = "backoff" /\ sealed = FALSE /\ FetchOK(fetch) /\ fetch.attempt < Attempts
    BY <1>5, Unsealed DEF BackoffEnds, Inv, Retried
  <2>2. /\ FetchOK(fetch') /\ sealed' = FALSE /\ pc' = "request"
        /\ UNCHANGED <<cancelled, agent, result, left, calls>>
    BY <1>5, <2>1, FetchWrites DEF BackoffEnds, disk
  <2>3. pc' \in Places \ {"idle", "running", "reap"}
    BY <2>2 DEF Places
  <2> QED  BY <2>1, <2>2, <2>3, Proceeding
<1> QED  BY <1>1, <1>2, <1>3, <1>4, <1>5 DEF Download

LEMMA UnpackStep ==
  ASSUME Inv, Unpacks
  PROVE  Inv'
<1>1. /\ pc = "extract" /\ sealed = FALSE /\ FetchOK(fetch)
      /\ {"io", "too large", "rejected", ReadError, Excess} \subseteq Errors \ {"none"}
  BY Unsealed DEF Unpacks, Extract, ExtractFails, Extracted, Errors, ReadError, Excess
<1>2. CASE \E e \in {"io", "too large", "rejected", ReadError, Excess} : Fail(e)
  BY <1>1, <1>2, Failing
<1>3. CASE /\ FetchOK(fetch') /\ pc' \in {pc, "harden"} /\ UNCHANGED <<result, disk>>
  <2>1. /\ sealed' = FALSE /\ pc' \in Places \ {"idle", "running", "reap"}
        /\ UNCHANGED <<cancelled, agent, result, left, calls>>
    BY <1>1, <1>3 DEF disk, Places
  <2> QED  BY <1>1, <1>3, <2>1, Proceeding
<1>4. CASE Extract
  <2> DEFINE e == fetch.archive.entries[fetch.at]
  <2>1. Unpack(e)
    BY <1>4 DEF Extract
  <2> HIDE DEF e
  <2>2. FetchOK(Advance(fetch)) /\ FetchOK(Taken(e)) /\ \A n : FetchOK([Taken(e) EXCEPT !.total = n])
    BY <1>1, FetchWrites DEF Taken
  <2>3. FetchOK([Taken(e) EXCEPT !.total = @ + e.size])
    BY <2>2
  <2> QED  BY <1>2, <1>3, <2>1, <2>2, <2>3 DEF Unpack, MakeDir, WriteFile
<1>5. CASE ExtractFails
  BY <1>2, <1>5 DEF ExtractFails
<1>6. CASE Extracted
  BY <1>1, <1>2, <1>3, <1>6 DEF Extracted
<1> QED  BY <1>4, <1>5, <1>6 DEF Unpacks

LEMMA PrepareStep ==
  ASSUME Inv, Prepare
  PROVE  Inv'
<1>1. /\ pc \in {"harden", "diff", "seal", "files", "start"} /\ pc \notin {"idle", "running", "reap"}
      /\ FetchOK(fetch) /\ Quiet /\ {"io", "sandbox", "cancelled"} \subseteq Errors \ {"none"}
  BY DEF Prepare, HardenCheckout, WriteDiff, Step, MakeReadOnly, NewSandboxFiles, PrepareFails, StartAgent, Inv,
         Shapes, Confined, Errors
<1>2. CASE Return("io", <<>>) \/ Return("sandbox", <<>>) \/ Return("cancelled", <<>>)
  BY <1>1, <1>2, NoWords, Returning
<1>3. CASE HardenCheckout
  <2>1. /\ pc' \in Places \ {"idle", "running", "reap"} /\ pc' \notin {"seal", "files", "start", "backoff", "failed"}
        /\ sealed' = FALSE /\ FetchOK(fetch') /\ UNCHANGED <<cancelled, agent, result, left, calls>>
    BY <1>1, <1>3, Unsealed DEF HardenCheckout, Step, Places
  <2> QED  BY <1>1, <2>1, Proceeding
<1>4. CASE WriteDiff
  <2>1. CASE /\ Step("diff", "seal") /\ UNCHANGED <<fetch, sealed>>
             /\ tree' = {n \in tree : n.path # <<DiffName>>} \cup {TheDiff}
    <3>1. /\ pc' = "seal" /\ tree' # Absent /\ sealed' = FALSE /\ FetchOK(fetch')
          /\ UNCHANGED <<cancelled, agent, result, left, calls>>
      BY <1>1, <2>1, Unsealed DEF Step, Absent
    <3>2. pc' \in Places \ {"idle", "running", "reap"} /\ pc' # "backoff"
      BY <3>1 DEF Places
    <3> QED  BY <1>1, <3>1, <3>2, Proceeding
  <2> QED  BY <1>2, <1>4, <2>1 DEF WriteDiff
<1>5. CASE MakeReadOnly \/ NewSandboxFiles
  <2>1. /\ pc' \in {"files", "start"} /\ tree # Absent /\ tree' = tree /\ sealed' \in BOOLEAN /\ FetchOK(fetch')
        /\ UNCHANGED <<cancelled, agent, result, left, calls>>
    BY <1>1, <1>5 DEF MakeReadOnly, NewSandboxFiles, Step, Inv, Sealing, Shapes
  <2>2. pc' \in Places \ {"idle", "running", "reap"} /\ pc' # "backoff"
    BY <2>1 DEF Places
  <2> QED  BY <1>1, <2>1, <2>2, Proceeding
<1>6. CASE PrepareFails
  BY <1>2, <1>6 DEF PrepareFails
<1>7. CASE StartAgent
  <2>1. CASE /\ pc = "start" /\ pc' = "running"
             /\ \E e \in Engines : agent' = [NoAgent EXCEPT !.alive = TRUE, !.engine = e]
             /\ UNCHANGED <<fetch, tree, sealed, result, cancelled, left, calls>>
    <3>1. agent' \in Process
      BY <2>1, Fresh
    <3>2. Shapes' /\ Counted' /\ Retried' /\ Sealing'
      BY <2>1, <3>1 DEF Inv, Shapes, Places, Counted, Retried, Sealing
    <3>3. Confined' /\ Conserved' /\ Answered'
      BY <2>1, Silent DEF Confined, Answered
    <3> QED  BY <3>2, <3>3 DEF Inv
  <2> QED  BY <1>2, <1>7, <2>1 DEF StartAgent
<1> QED  BY <1>3, <1>4, <1>5, <1>6, <1>7 DEF Prepare

(***************************************************************************)
(* The reviewer and what is read from it.                                  *)
(***************************************************************************)

(* Whatever happens to the process while the call runs or reaps it.        *)
LEMMA ProcessMoves ==
  ASSUME Inv, pc \in {"running", "reap"}, agent' \in Process, Conserved', pc' \in {pc, "reap"},
         UNCHANGED <<fetch, tree, sealed, result, cancelled, left, calls>>
  PROVE  Inv'
<1>1. pc' \in {"running", "reap"}
  OBVIOUS
<1>2. Shapes' /\ Counted' /\ Retried'
  BY <1>1 DEF Inv, Shapes, Places, Counted, Retried
<1>3. Sealing' /\ Confined' /\ Answered'
  BY <1>1 DEF Inv, Sealing, Confined, Answered
<1> QED  BY <1>2, <1>3 DEF Inv

LEMMA AgentStep ==
  ASSUME Inv, Agent
  PROVE  Inv'
<1>1. /\ agent.alive /\ pc \in {"running", "reap"} /\ agent \in Process
      /\ UNCHANGED <<pc, fetch, tree, sealed, result, cancelled, left, calls>>
  BY DEF Agent, AgentWrites, AgentExits, AgentDies, Acts, Inv, Confined, Quiet, Shapes
<1>2. ASSUME NEW s \in Streams, AgentWrites(s) PROVE Inv'
  <2>1. PICK chunk \in UNION {[1..n -> Words[s]] : n \in 1..MaxSaid - Len(agent.said[s])} :
               agent' = [agent EXCEPT !.pipe[s] = chunk, !.said[s] = @ \o chunk]
    BY <1>2 DEF AgentWrites
  <2>2. chunk \in Texts /\ agent.pipe[s] = <<>>
    <3>1. PICK n \in 1..MaxSaid - Len(agent.said[s]) : chunk \in [1..n -> Words[s]]
      OBVIOUS
    <3>2. n \in Nat /\ chunk \in [1..n -> Word]
      BY <3>1 DEF Word
    <3>3. chunk \in Seq(Word)
      BY <3>2, IsASeq
    <3> QED  BY <1>2, <3>3 DEF AgentWrites, Texts
  <2>3. agent.said[s] \in Texts /\ agent.kept[s] \in Texts /\ agent.said[s] \o chunk \in Texts
    <3>1. agent.said[s] \in Texts /\ agent.kept[s] \in Texts
      BY <1>1 DEF Process
    <3> QED  BY <2>2, <3>1, ConcatProperties DEF Texts
  <2>4. agent' \in Process
    BY <1>1, <2>1, <2>2, <2>3 DEF Process
  <2>5. /\ agent'.over = agent.over /\ agent'.kept = agent.kept
        /\ \A t \in Streams : /\ agent'.said[t] = IF t = s THEN agent.said[s] \o chunk ELSE agent.said[t]
                              /\ agent'.pipe[t] = IF t = s THEN chunk ELSE agent.pipe[t]
    BY <1>1, <2>1 DEF Process
  <2>6. s \notin agent.over => agent.said[s] = agent.kept[s]
    BY <2>2, <2>3, ConcatEmptySeq DEF Inv, Conserved, Texts
  <2>7. Conserved'
    BY <2>5, <2>6 DEF Inv, Conserved
  <2> QED  BY <1>1, <2>4, <2>7, ProcessMoves
<1>3. CASE AgentExits \/ AgentDies
  <2>1. \E status \in {"ok", "failed", "killed"} : agent' = [agent EXCEPT !.alive = FALSE, !.exit = status]
    BY <1>3 DEF AgentExits, AgentDies
  <2>2. /\ agent' \in Process /\ agent'.over = agent.over /\ agent'.said = agent.said
        /\ agent'.kept = agent.kept /\ agent'.pipe = agent.pipe
    BY <1>1, <2>1 DEF Process
  <2>3. Conserved'
    BY <2>2 DEF Inv, Conserved
  <2> QED  BY <1>1, <2>2, <2>3, ProcessMoves
<1> QED  BY <1>2, <1>3 DEF Agent

LEMMA CollectStep ==
  ASSUME Inv, Collect
  PROVE  Inv'
<1>1. agent \in Process /\ OutLimit \in Nat
  BY Bounds DEF Inv, Shapes
<1>2. ASSUME NEW s \in Streams, CopyOutput(s) PROVE Inv'
  <2> DEFINE room == OutLimit - Len(agent.kept[s])
             new  == agent.pipe[s]
             part == SubSeq(new, 1, IF Len(new) > room THEN room ELSE Len(new))
  <2>1. /\ new # <<>>
        /\ agent' = [agent EXCEPT !.pipe[s] = <<>>, !.kept[s] = @ \o part,
                                  !.over = IF Len(new) > room THEN @ \cup {s} ELSE @,
                                  !.doomed = @ \/ Len(new) > room]
        /\ UNCHANGED <<pc, fetch, tree, sealed, result, cancelled, left, calls>>
    BY <1>2 DEF CopyOutput, Acts
  <2>2. pc \in {"running", "reap"}
    BY <2>1 DEF Inv, Confined, Quiet
  <2>3. new \in Seq(Word) /\ agent.kept[s] \in Seq(Word) /\ agent.said[s] \in Seq(Word) /\ Len(new) \in Nat /\ room \in Int
    BY <1>1, LenProperties DEF Process, Texts
  <2>4. part \in Seq(Word)
    <3>1. CASE Len(new) > room
      <4>1. part = SubSeq(new, 1, room)
        BY <3>1
      <4>2. \A i \in 1..room : new[i] \in Word
        BY <2>3, <3>1, ElementOfSeq
      <4> QED  BY <2>3, <3>1, <4>1, <4>2, SubSeqProperties
    <3>2. CASE ~(Len(new) > room)
      BY <2>3, <3>2, SubSeqFull
    <3> QED  BY <3>1, <3>2
  <2>5. ~(Len(new) > room) => part = new
    BY <2>3, SubSeqFull
  <2>6. agent.kept[s] \o part \in Texts /\ <<>> \in Texts
    BY <2>3, <2>4, ConcatProperties, NoWords DEF Texts
  <2> HIDE DEF new, room, part
  <2>7. agent' \in Process
    BY <1>1, <2>1, <2>6 DEF Process
  <2>8. /\ agent'.over = IF Len(new) > room THEN agent.over \cup {s} ELSE agent.over
        /\ agent'.said = agent.said
        /\ \A t \in Streams : /\ agent'.kept[t] = IF t = s THEN agent.kept[s] \o part ELSE agent.kept[t]
                              /\ agent'.pipe[t] = IF t = s THEN <<>> ELSE agent.pipe[t]
    BY <1>1, <2>1 DEF Process
  <2>9. Conserved'
    <3> SUFFICES ASSUME NEW t \in Streams \ agent'.over PROVE agent'.said[t] = agent'.kept[t] \o agent'.pipe[t]
      BY DEF Conserved
    <3>1. t \notin agent.over /\ (t = s => ~(Len(new) > room))
      BY <2>8
    <3>2. CASE t = s
      <4>1. agent.said[s] = agent.kept[s] \o new
        BY <3>1, <3>2 DEF Inv, Conserved, new
      <4>2. agent'.kept[s] = agent.kept[s] \o new /\ agent'.pipe[s] = <<>> /\ agent'.said[s] = agent.said[s]
        BY <2>5, <2>8, <3>1, <3>2
      <4>3. agent.kept[s] \o new \in Seq(Word)
        BY <2>3, ConcatProperties
      <4> QED  BY <3>2, <4>1, <4>2, <4>3, ConcatEmptySeq
    <3>3. CASE t # s
      BY <2>8, <3>1, <3>3 DEF Inv, Conserved
    <3> QED  BY <3>2, <3>3
  <2> QED  BY <2>1, <2>2, <2>7, <2>9, ProcessMoves
<1>3. CASE AgentDone
  <2> DEFINE text == IF Outcome = "none" THEN Message(agent.engine, agent.kept["stdout"]) ELSE <<>>
  <2>1. pc = "running" /\ Quiet /\ Return(Outcome, text)
    BY <1>3 DEF AgentDone, Waited, Quiet
  <2>2. Outcome \in Errors /\ (Outcome = "none" => agent.over = {} /\ agent.exit = "ok")
    BY DEF Outcome, Errors
  <2>3. "stdout" \in Streams /\ agent.kept["stdout"] \in Texts
    BY <1>1 DEF Process, Streams
  <2>4. Outcome = "none" => agent.kept["stdout"] = agent.said["stdout"]
    BY <2>1, <2>2, <2>3, ConcatEmptySeq DEF Inv, Conserved, Quiet, Texts
  <2>5. Outcome = "none" => text = Message(agent.engine, agent.said["stdout"])
    BY <2>4
  <2> HIDE DEF text
  <2> QED  BY <2>1, <2>2, <2>5, Returning
<1>4. CASE Kill
  <2>1. /\ pc = "running" /\ pc' = "reap" /\ agent' = [agent EXCEPT !.doomed = TRUE]
        /\ UNCHANGED <<fetch, tree, sealed, result, cancelled, left, calls>>
    BY <1>4 DEF Kill
  <2>2. /\ agent' \in Process /\ agent'.over = agent.over /\ agent'.said = agent.said
        /\ agent'.kept = agent.kept /\ agent'.pipe = agent.pipe
    BY <1>1, <2>1 DEF Process
  <2>3. Conserved'
    BY <2>2 DEF Inv, Conserved
  <2> QED  BY <2>1, <2>2, <2>3, ProcessMoves
<1>5. CASE Reap
  <2>1. pc = "reap" /\ Quiet /\ Return("cancelled", <<>>) /\ "cancelled" \in Errors /\ "cancelled" # "none"
    BY <1>5 DEF Reap, Waited, Quiet, Errors
  <2> QED  BY <2>1, NoWords, Returning
<1> QED  BY <1>2, <1>3, <1>4, <1>5 DEF Collect

LEMMA InvStep == Inv /\ [Next]_vars => Inv'
<1> SUFFICES ASSUME Inv, [Next]_vars PROVE Inv'
  OBVIOUS
<1>1. CASE UNCHANGED vars
  BY <1>1 DEF vars, Inv, Shapes, Counted, Retried, Sealing, Confined, Quiet, Conserved, Answered
<1> QED  BY <1>1, IdleStep, DownloadStep, UnpackStep, PrepareStep, AgentStep, CollectStep DEF Next

LEMMA InvInit == Init => Inv
<1> SUFFICES ASSUME Init PROVE Inv
  OBVIOUS
<1>1. Shapes
  BY Bounds, Fresh DEF Init, Shapes, Places
<1>2. Counted /\ Retried /\ Sealing /\ Answered
  BY DEF Init, Counted, Retried, Sealing, Answered
<1>3. Confined /\ Conserved
  <2>1. /\ ~agent.alive
        /\ \A s \in Streams : agent.said[s] = <<>> /\ agent.kept[s] = <<>> /\ agent.pipe[s] = <<>>
    BY DEF Init, NoAgent
  <2> QED  BY <2>1, NoWords DEF Confined, Quiet, Conserved
<1> QED  BY <1>1, <1>2, <1>3 DEF Inv

LEMMA Invariant == Spec => []Inv
BY InvInit, InvStep, PTL DEF Spec

(* The places of a call, its errors and its counts stay in their types.    *)
THEOREM TypeCorrect == Spec => []TypeOK
<1>1. Inv => TypeOK
  <2> SUFFICES ASSUME Inv PROVE TypeOK
    OBVIOUS
  <2>1. agent.alive \in BOOLEAN /\ agent.doomed \in BOOLEAN /\ agent.over \subseteq Streams
        /\ agent.exit \in {"none", "ok", "failed", "killed"} /\ result.error \in Errors
    BY DEF Inv, Shapes, Process
  <2>2. left \in 0..MaxCalls
    BY Bounds DEF Inv, Shapes, Counted
  <2>3. tree = Absent => ~sealed
    BY DEF Inv, Sealing
  <2> QED  BY <2>1, <2>2, <2>3 DEF Inv, Shapes, FetchOK, TypeOK
<1> QED  BY <1>1, Invariant, PTL

(* runSandboxedCommand: whoever returns has reaped its reviewer, and       *)
(* whoever returns early never started one.                                *)
THEOREM Reaped == Spec => []NoneSurvives
<1>1. Inv => NoneSurvives
  BY DEF Inv, Confined, Quiet, NoneSurvives, Returned
<1> QED  BY <1>1, Invariant, PTL

(* boundedBuffer and cmd.Wait: what a call that reports success returns is *)
(* taken from every line its reviewer wrote to stdout, not from a cut: the *)
(* texts of its events, if there are any, and otherwise all of it.         *)
THEOREM Complete == Spec => []TextIsComplete
<1>1. Inv => TextIsComplete
  BY DEF Inv, Answered, TextIsComplete, Returned
<1> QED  BY <1>1, Invariant, PTL

(***************************************************************************)
(* What a call has on the disk.                                            *)
(***************************************************************************)
Sized ==
  /\ pc = "idle" => tree = Absent
  /\ fetch.entries \in 0..MaxFiles /\ fetch.total \in 0..MaxBytes
  /\ IsFiniteSet(Files) /\ Cardinality(Files) <= fetch.entries
  /\ IsFiniteSet(Contents(Files)) /\ Cardinality(Contents(Files)) <= fetch.total
  /\ \A n \in Files : n.size \in 0..MaxFileBytes

LEMMA Limits == MaxFiles \in Nat /\ MaxBytes \in Nat /\ MaxFileBytes \in Nat /\ Attempts >= 1
BY RunnerAssumption

(* Removing files.                                                         *)
LEMMA Fewer ==
  ASSUME NEW S, NEW T, IsFiniteSet(S), IsFiniteSet(Contents(S)), T \subseteq S
  PROVE  /\ IsFiniteSet(T) /\ Cardinality(T) <= Cardinality(S)
         /\ IsFiniteSet(Contents(T)) /\ Cardinality(Contents(T)) <= Cardinality(Contents(S))
<1>1. Contents(T) \subseteq Contents(S)
  BY DEF Contents
<1> QED  BY <1>1, FS_Subset

(* Adding one file adds one to their number and its size to their bytes.   *)
LEMMA OneMore ==
  ASSUME NEW S, NEW n, IsFiniteSet(S), IsFiniteSet(Contents(S)), n.size \in Nat
  PROVE  /\ IsFiniteSet(S \cup {n}) /\ Cardinality(S \cup {n}) <= Cardinality(S) + 1
         /\ IsFiniteSet(Contents(S \cup {n}))
         /\ Cardinality(Contents(S \cup {n})) <= Cardinality(Contents(S)) + n.size
<1> DEFINE own == {n} \X (1..n.size)
<1>1. Contents(S \cup {n}) = Contents(S) \cup own
  BY DEF Contents
<1>2. IsFiniteSet(own) /\ Cardinality(own) = n.size
  <2>1. IsFiniteSet({n}) /\ Cardinality({n}) = 1
    BY FS_Singleton
  <2>2. IsFiniteSet(1..n.size) /\ Cardinality(1..n.size) = n.size
    BY FS_Interval
  <2>3. IsFiniteSet(own) /\ Cardinality(own) = Cardinality({n}) * Cardinality(1..n.size)
    BY <2>1, <2>2, FS_Product
  <2> QED  BY <2>1, <2>2, <2>3
<1> HIDE DEF own
<1>3. /\ IsFiniteSet(Contents(S) \cup own)
      /\ Cardinality(Contents(S) \cup own)
           = Cardinality(Contents(S)) + Cardinality(own) - Cardinality(Contents(S) \cap own)
  BY <1>2, FS_Union
<1>4. Cardinality(Contents(S) \cap own) \in Nat /\ Cardinality(Contents(S)) \in Nat
  <2>1. IsFiniteSet(Contents(S) \cap own)
    BY FS_Subset
  <2> QED  BY <2>1, FS_CardinalityType
<1>5. IsFiniteSet(S \cup {n}) /\ Cardinality(S \cup {n}) <= Cardinality(S) + 1
  <2>1. Cardinality(S) \in Nat
    BY FS_CardinalityType
  <2>2. /\ IsFiniteSet(S \cup {n})
        /\ Cardinality(S \cup {n}) = IF n \in S THEN Cardinality(S) ELSE Cardinality(S) + 1
    BY FS_AddElement
  <2> QED  BY <2>1, <2>2
<1>6. Cardinality(Contents(S) \cup own) <= Cardinality(Contents(S)) + n.size
  BY <1>2, <1>3, <1>4
<1> QED  BY <1>1, <1>3, <1>5, <1>6

LEMMA NoMoreFiles ==
  ASSUME Sized, Files' \subseteq Files, pc' = "idle" => tree' = Absent,
         fetch'.entries \in fetch.entries..MaxFiles, fetch'.total = fetch.total
  PROVE  Sized'
<1>1. /\ IsFiniteSet(Files') /\ Cardinality(Files') <= Cardinality(Files)
      /\ IsFiniteSet(Contents(Files')) /\ Cardinality(Contents(Files')) <= Cardinality(Contents(Files))
  BY Fewer DEF Sized
<1>2. Cardinality(Files') \in Nat /\ Cardinality(Contents(Files')) \in Nat
      /\ Cardinality(Files) \in Nat /\ Cardinality(Contents(Files)) \in Nat
  BY <1>1, FS_CardinalityType DEF Sized
<1>3. Contents(Files)' = Contents(Files')
  BY DEF Contents
<1>4. Cardinality(Files') <= fetch'.entries /\ Cardinality(Contents(Files')) <= fetch'.total
  BY <1>1, <1>2, Limits DEF Sized
<1>5. fetch'.entries \in 0..MaxFiles /\ fetch'.total \in 0..MaxBytes
  BY Limits DEF Sized
<1> QED  BY <1>1, <1>3, <1>4, <1>5 DEF Sized

LEMMA NoFiles ==
  ASSUME \A n \in tree' : n.kind # "file", pc' = "idle" => tree' = Absent,
         fetch'.entries \in 0..MaxFiles, fetch'.total \in 0..MaxBytes
  PROVE  Sized'
<1>1. Files' = {}
  BY DEF Files
<1>2. Contents(Files)' = {}
  BY <1>1 DEF Contents
<1>3. IsFiniteSet({}) /\ Cardinality({}) = 0
  BY FS_EmptySet
<1>4. \A n \in Files' : n.size \in 0..MaxFileBytes
  BY <1>1
<1>5. Cardinality(Files') <= fetch'.entries /\ Cardinality(Contents(Files)') <= fetch'.total
  BY <1>1, <1>2, <1>3, Limits
<1> QED  BY <1>1, <1>2, <1>3, <1>4, <1>5 DEF Sized

LEMMA OneMoreFile ==
  ASSUME Sized, Shapes, NEW e \in Entries, e.size <= MaxFileBytes, fetch.total + e.size <= MaxBytes,
         Files' \subseteq Files \cup {Node(Tail(e.path), "file", e.size)}, pc' # "idle",
         fetch'.entries = fetch.entries + 1, fetch.entries < MaxFiles, fetch'.total = fetch.total + e.size
  PROVE  Sized'
<1> DEFINE n == Node(Tail(e.path), "file", e.size)
           all == Files \cup {n}
<1>1. n.size = e.size /\ e.size \in Nat /\ n.size \in 0..MaxFileBytes
  BY Limits DEF Node, Entries
<1> HIDE DEF n
<1>2. /\ IsFiniteSet(all) /\ Cardinality(all) <= Cardinality(Files) + 1
      /\ IsFiniteSet(Contents(all)) /\ Cardinality(Contents(all)) <= Cardinality(Contents(Files)) + e.size
  BY <1>1, OneMore DEF Sized
<1>3. Files' \subseteq all
  BY DEF n
<1>4. \A m \in all : m.size \in 0..MaxFileBytes
  BY <1>1 DEF Sized
<1> HIDE DEF all
<1>5. /\ IsFiniteSet(Files') /\ Cardinality(Files') <= Cardinality(all)
      /\ IsFiniteSet(Contents(Files')) /\ Cardinality(Contents(Files')) <= Cardinality(Contents(all))
  BY <1>2, <1>3, Fewer
<1>6. /\ Cardinality(Files) \in Nat /\ Cardinality(Contents(Files)) \in Nat
      /\ Cardinality(all) \in Nat /\ Cardinality(Contents(all)) \in Nat
      /\ Cardinality(Files') \in Nat /\ Cardinality(Contents(Files')) \in Nat
  BY <1>2, <1>5, FS_CardinalityType DEF Sized
<1>7. Cardinality(Files') <= fetch'.entries /\ Cardinality(Contents(Files')) <= fetch'.total
  BY <1>1, <1>2, <1>5, <1>6, Limits DEF Sized
<1>8. fetch'.entries \in 0..MaxFiles /\ fetch'.total \in 0..MaxBytes
  BY <1>1, Limits DEF Sized
<1>9. Contents(Files)' = Contents(Files')
  BY DEF Contents
<1> QED  BY <1>3, <1>4, <1>5, <1>7, <1>8, <1>9 DEF Sized

(* The diff is no file of the archive.                                     *)
LEMMA FilesOnly ==
  /\ tree' = tree => Files' = Files
  /\ tree' = Trusted(tree) => Files' \subseteq Files
  /\ tree' = {n \in tree : n.path # <<DiffName>>} \cup {TheDiff} => Files' \subseteq Files
  /\ tree' = Absent => Files' \subseteq Files
BY DEF Files, TheDiff, Trusted, Absent

LEMMA FailSized ==
  ASSUME Sized, FetchOK(fetch), NEW e, Fail(e)
  PROVE  Sized'
<1>1. fetch'.entries = fetch.entries /\ fetch'.total = fetch.total
  BY DEF Fail, FetchOK, NoFetch
<1> QED  BY <1>1, FilesOnly, NoMoreFiles, Limits DEF Fail, Sized

LEMMA ReturnSized ==
  ASSUME Sized, NEW e, NEW t, Return(e, t)
  PROVE  Sized'
BY FilesOnly, NoMoreFiles, Limits DEF Return, Sized

LEMMA IdleSized ==
  ASSUME Sized, Inv, Refuse \/ Begin \/ Cancel
  PROVE  Sized'
<1>1. CASE Refuse \/ Begin
  <2>1. tree' = Absent /\ fetch'.entries = 0 /\ fetch'.total = 0
    BY <1>1 DEF Refuse, Begin, Sized, NoFetch
  <2> QED  BY <2>1, NoFiles, Limits DEF Absent
<1>2. CASE Cancel
  BY <1>2, FilesOnly, NoMoreFiles, Limits DEF Cancel, Sized
<1> QED  BY <1>1, <1>2

LEMMA DownloadSized ==
  ASSUME Sized, Inv, Download
  PROVE  Sized'
<1>0. FetchOK(fetch)
  BY DEF Inv, Shapes
<1>1. CASE \E e \in {ReadError, "too large", "io"} : Fail(e)
  BY <1>0, <1>1, FailSized
<1>2. CASE \E e \in {fetch.error, "cancelled"} : Return(e, <<>>)
  BY <1>2, ReturnSized
<1>3. CASE \E a \in Archives : OpenDestination(a)
  <2>1. PICK a \in Archives : OpenDestination(a)
    BY <1>3
  <2>2. CASE tree = Absent
    <3>1. /\ pc' = "extract" /\ tree' = {Node(<<>>, "dir", 0)}
          /\ fetch' = [fetch EXCEPT !.archive = a, !.at = 1, !.entries = 0, !.root = NoRoot, !.seen = {}, !.total = 0]
      BY <2>1, <2>2 DEF OpenDestination
    <3>2. fetch'.entries = 0 /\ fetch'.total = 0
      BY <1>0, <3>1 DEF FetchOK, NoFetch
    <3>3. \A n \in tree' : n.kind # "file"
      BY <3>1 DEF Node
    <3> QED  BY <3>1, <3>2, <3>3, NoFiles, Limits
  <2>3. CASE tree # Absent
    BY <1>1, <2>1, <2>3 DEF OpenDestination
  <2> QED  BY <2>2, <2>3
<1>4. CASE Retry
  <2>1. CASE pc' = "backoff" /\ UNCHANGED <<fetch, tree>>
    BY <2>1, FilesOnly, NoMoreFiles, Limits DEF Sized
  <2> QED  BY <1>2, <1>4, <2>1 DEF Retry
<1>5. CASE BackoffEnds
  <2>1. pc' = "request" /\ (tree' = tree \/ tree' = Absent) /\ fetch'.entries = fetch.entries /\ fetch'.total = fetch.total
    BY <1>0, <1>5 DEF BackoffEnds, FetchOK, NoFetch
  <2> QED  BY <2>1, FilesOnly, NoMoreFiles, Limits DEF Sized
<1> QED  BY <1>1, <1>2, <1>3, <1>4, <1>5 DEF Download, Request, RequestFails, BackoffCancelled

(* What is unpacked is what the entries up to here hold.                   *)
Past == {fetch.archive.entries[i] : i \in 1..fetch.at - 1}

Unpacking ==
  pc = "extract" =>
    /\ fetch.at \in Nat \ {0} /\ fetch.at <= Len(fetch.archive.entries) + 1
    /\ tree = Holding(Past)
    /\ \A n \in tree : n.kind = "file" => n.path \in fetch.seen

Ready ==
  /\ pc = "harden" => tree = Holding(Range(fetch.archive.entries))
  /\ pc = "diff" => tree = Trusted(Holding(Range(fetch.archive.entries)))
  /\ pc \in {"seal", "files", "start", "running", "reap"} => tree = Whole(fetch.archive)

LEMMA ItsEntries == FetchOK(fetch) => fetch.archive.entries \in Seq(Entries)
<1>1. NoFetch.archive.entries \in Seq(Entries)
  <2>1. NoFetch.archive.entries = <<>>
    BY DEF NoFetch
  <2> QED  BY <2>1
<1> QED  BY <1>1, ArchiveAssumption DEF FetchOK

LEMMA InHolding ==
  ASSUME NEW entries, NEW n
  PROVE  n \in Holding(entries) <=>
           \/ n = Node(<<>>, "dir", 0)
           \/ \E e \in entries :
                /\ e.type \in {"dir", "file"} /\ Len(e.path) > 1
                /\ \/ n = Node(Tail(e.path), e.type, IF e.type = "dir" THEN 0 ELSE e.size)
                   \/ e.type = "file" /\ \E p \in Parents(Tail(e.path)) : n = Node(p, "dir", 0)
<1> DEFINE under == {e \in entries : e.type \in {"dir", "file"} /\ Len(e.path) > 1}
           files == {Node(Tail(e.path), "file", e.size) : e \in {x \in under : x.type = "file"}}
           dirs  == {Node(Tail(e.path), "dir", 0) : e \in {x \in under : x.type = "dir"}}
           above == {Node(p, "dir", 0) : p \in {<<>>} \cup UNION {Parents(m.path) : m \in files}}
<1>1. Holding(entries) = files \cup dirs \cup above
  BY DEF Holding
<1>2. n \in files <=> \E e \in entries : e.type = "file" /\ Len(e.path) > 1 /\ n = Node(Tail(e.path), "file", e.size)
  OBVIOUS
<1>3. n \in dirs <=> \E e \in entries : e.type = "dir" /\ Len(e.path) > 1 /\ n = Node(Tail(e.path), "dir", 0)
  OBVIOUS
<1>4. \A e : Node(Tail(e.path), "file", e.size).path = Tail(e.path)
  BY DEF Node
<1>5. UNION {Parents(m.path) : m \in files}
        = UNION {Parents(Tail(e.path)) : e \in {x \in under : x.type = "file"}}
  BY <1>4
<1>6. n \in above <=>
        \/ n = Node(<<>>, "dir", 0)
        \/ \E e \in entries : e.type = "file" /\ Len(e.path) > 1 /\ \E p \in Parents(Tail(e.path)) : n = Node(p, "dir", 0)
  BY <1>5
<1> HIDE DEF files, dirs, above
<1> QED  BY <1>1, <1>2, <1>3, <1>6

LEMMA SameAttempt ==
  ASSUME fetch'.attempt = fetch.attempt
  PROVE  /\ \A path, kind, size : Node(path, kind, size)' = Node(path, kind, size)
         /\ \A entries : Holding(entries)' = Holding(entries)
         /\ \A a : Whole(a)' = Whole(a)
<1>1. \A path, kind, size : Node(path, kind, size)' = Node(path, kind, size)
  BY DEF Node
<1>2. \A entries : Holding(entries)' = Holding(entries)
  BY <1>1 DEF Holding
<1>3. \A a : Whole(a)' = Whole(a)
  BY <1>2 DEF Whole
<1> QED  BY <1>1, <1>2, <1>3

LEMMA PastGrows ==
  ASSUME fetch.at \in Nat \ {0}, fetch'.at = fetch.at + 1, fetch'.archive = fetch.archive
  PROVE  Past' = Past \cup {fetch.archive.entries[fetch.at]}
<1>1. 1..fetch'.at - 1 = (1..fetch.at - 1) \cup {fetch.at}
  OBVIOUS
<1> QED  BY <1>1 DEF Past

(* The fields of fetch after an entry.                                     *)
LEMMA AfterEntry ==
  ASSUME FetchOK(fetch), NEW e
  PROVE  /\ Advance(fetch).at = fetch.at + 1 /\ Taken(e).at = fetch.at + 1
         /\ Taken(e).entries = fetch.entries + 1
         /\ Taken(e).seen = fetch.seen \cup {Tail(e.path)}
         /\ \A f \in {Advance(fetch), Taken(e)} :
              f.archive = fetch.archive /\ f.attempt = fetch.attempt /\ f.total = fetch.total
         /\ Advance(fetch).entries = fetch.entries /\ Advance(fetch).seen = fetch.seen
         /\ \A t : LET f == [Taken(e) EXCEPT !.total = t]
                   IN /\ f.at = Taken(e).at /\ f.entries = Taken(e).entries /\ f.seen = Taken(e).seen
                      /\ f.archive = fetch.archive /\ f.attempt = fetch.attempt /\ f.total = t
BY DEF FetchOK, NoFetch, Advance, Taken

LEMMA HoldingNext ==
  ASSUME NEW e, fetch'.attempt = fetch.attempt, Past' = Past \cup {e}
  PROVE  Holding(Past)' = Holding(Past \cup {e})
BY DEF Holding, Node

LEMMA Kinds ==
  ASSUME NEW entries, NEW n \in Holding(entries)
  PROVE  n.kind = "dir" => n = Node(n.path, "dir", 0)
<1>1. \A p, k, z : Node(p, k, z).path = p /\ Node(p, k, z).kind = k
  BY DEF Node
<1> QED  BY <1>1, InHolding

LEMMA Beyond == \A s \in Seq(Names) : s = <<>> \/ Len(s) = 1 \/ Len(s) > 1
<1> SUFFICES ASSUME NEW s \in Seq(Names), s # <<>> PROVE Len(s) = 1 \/ Len(s) > 1
  OBVIOUS
<1>1. PICK k \in Nat \ {0} : k = Len(s)
  BY EmptySeq
<1>2. k = 1 \/ k > 1
  OBVIOUS
<1> QED  BY <1>1, <1>2

LEMMA EntryUnpacked ==
  ASSUME Inv, Unpacking, Extract, pc' = "extract"
  PROVE  Unpacking'
<1>1. PICK e : e = fetch.archive.entries[fetch.at]
  OBVIOUS
<1> DEFINE rel == Tail(e.path)
<1>2. /\ pc = "extract" /\ Unpack(e) /\ fetch.at <= Len(fetch.archive.entries) /\ FetchOK(fetch)
      /\ fetch.at \in Nat \ {0} /\ tree = Holding(Past)
      /\ \A n \in tree : n.kind = "file" => n.path \in fetch.seen
  BY <1>1 DEF Extract, More, Unpacking, Inv, Shapes
<1>3. fetch.archive.entries \in Seq(Entries) /\ Len(fetch.archive.entries) \in Nat /\ e \in Entries
  <2>1. fetch.archive.entries \in Seq(Entries)
    BY <1>2, ItsEntries
  <2> QED  BY <1>1, <1>2, <2>1, ElementOfSeq, LenProperties
<1>4. e.path \in Seq(Names) /\ Len(e.path) \in Nat
  BY <1>3, LenProperties DEF Entries
<1>5. \A x : ~Fail(x)
  <2> SUFFICES ASSUME NEW x, Fail(x) PROVE FALSE
    OBVIOUS
  <2>1. pc' = "failed"
    BY DEF Fail
  <2> QED  BY <2>1
<1>6. SUFFICES tree' = Holding(Past \cup {e}) /\ \A n \in tree' : n.kind = "file" => n.path \in fetch'.seen
  <2>1. \/ fetch' = Advance(fetch)
        \/ fetch' = Taken(e)
        \/ \E t : fetch' = [Taken(e) EXCEPT !.total = t]
    BY <1>2, <1>5 DEF Unpack, MakeDir, WriteFile
  <2>2. fetch'.at = fetch.at + 1 /\ fetch'.archive = fetch.archive /\ fetch'.attempt = fetch.attempt
    <3>1. ASSUME NEW t, fetch' = [Taken(e) EXCEPT !.total = t]
          PROVE  fetch'.at = fetch.at + 1 /\ fetch'.archive = fetch.archive /\ fetch'.attempt = fetch.attempt
      BY <1>2, <3>1, AfterEntry
    <3>2. CASE fetch' \in {Advance(fetch), Taken(e)}
      BY <1>2, <3>2, AfterEntry
    <3> QED  BY <2>1, <3>1, <3>2
  <2>3. Past' = Past \cup {e}
    BY <1>1, <1>2, <2>2, PastGrows
  <2>4. Holding(Past)' = Holding(Past \cup {e})
    BY <2>2, <2>3, HoldingNext
  <2>5. fetch'.at \in Nat \ {0} /\ fetch'.at <= Len(fetch'.archive.entries) + 1
    BY <1>2, <1>3, <2>2
  <2> QED  BY <2>4, <2>5 DEF Unpacking
<1>7. CASE Skip(e)
  <2>1. fetch' = Advance(fetch) /\ tree' = tree
    BY <1>2, <1>7 DEF Unpack
  <2>2. \A n : n \in Holding(Past \cup {e}) <=> n \in Holding(Past)
    BY <1>7, InHolding DEF Skip
  <2> QED  BY <1>2, <2>1, <2>2, AfterEntry
<1>8. CASE ~Skip(e) /\ e.type = "dir"
  <2>1. MakeDir(e, rel) /\ rel \notin fetch.seen /\ e.path # <<>>
    BY <1>2, <1>5, <1>8 DEF Unpack, Misplaced
  <2>2. /\ fetch' = Taken(e)
        /\ tree' = IF rel \in Paths({"dir", "file"}) THEN tree ELSE tree \cup {Node(rel, "dir", 0)}
    BY <1>5, <2>1 DEF MakeDir
  <2>3. Node(<<>>, "dir", 0) \in tree
    BY <1>2, InHolding
  <2>4. rel \in Paths({"dir", "file"}) => Node(rel, "dir", 0) \in tree
    <3> SUFFICES ASSUME NEW n \in tree, n.kind \in {"dir", "file"}, n.path = rel PROVE Node(rel, "dir", 0) \in tree
      BY DEF Paths
    <3>1. n.kind = "dir"
      BY <1>2, <2>1
    <3> QED  BY <1>2, <3>1, Kinds
  <2>5. Len(e.path) = 1 => rel = <<>>
    <3> SUFFICES ASSUME Len(e.path) = 1 PROVE rel = <<>>
      OBVIOUS
    <3>1. rel \in Seq(Names) /\ Len(rel) = 0
      BY <1>4, <2>1, HeadTailProperties
    <3> QED  BY <3>1, EmptySeq
  <2>6. tree' = tree \cup {Node(rel, "dir", 0)}
    BY <2>2, <2>4
  <2>7. Len(e.path) = 1 \/ Len(e.path) > 1
    BY <1>4, <2>1, Beyond
  <2>8. \A n : n \in Holding(Past \cup {e}) <=> n \in Holding(Past) \/ n = Node(rel, "dir", 0)
    <3> SUFFICES ASSUME NEW n
                 PROVE n \in Holding(Past \cup {e}) <=> n \in Holding(Past) \/ n = Node(rel, "dir", 0)
      OBVIOUS
    <3>1. CASE Len(e.path) = 1
      <4>1. n \in Holding(Past) => n \in Holding(Past \cup {e})
        BY InHolding
      <4>2. Node(<<>>, "dir", 0) \in Holding(Past)
        BY InHolding
      <4>3. ~(Len(e.path) > 1)
        BY <3>1
      <4>4. n \in Holding(Past \cup {e}) => n \in Holding(Past)
        BY <4>3, InHolding
      <4> QED  BY <2>5, <3>1, <4>1, <4>2, <4>4
    <3>2. CASE Len(e.path) > 1
      <4>1. n \in Holding(Past) \/ n = Node(rel, "dir", 0) => n \in Holding(Past \cup {e})
        BY <1>8, <3>2, InHolding
      <4>2. n \in Holding(Past \cup {e}) => n \in Holding(Past) \/ n = Node(rel, "dir", 0)
        BY <1>8, <3>2, InHolding
      <4> QED  BY <4>1, <4>2
    <3> QED  BY <2>7, <3>1, <3>2
  <2>9. Node(rel, "dir", 0).kind = "dir" /\ fetch'.seen = fetch.seen \cup {rel}
    BY <1>2, <2>2, AfterEntry DEF Node
  <2> QED  BY <1>2, <2>6, <2>8, <2>9
<1>9. CASE ~Skip(e) /\ e.type # "dir"
  <2> DEFINE new == Node(rel, "file", e.size)
  <2>1. WriteFile(e, rel) /\ rel \notin fetch.seen /\ e.path # <<>> /\ Len(e.path) # 1 /\ e.type = "file"
    BY <1>2, <1>5, <1>9 DEF Unpack, Misplaced
  <2>2. /\ fetch' = [Taken(e) EXCEPT !.total = @ + e.size]
        /\ tree' = tree \cup {new} \cup {Node(p, "dir", 0) : p \in Parents(rel) \ Paths({"dir"})}
    BY <1>5, <2>1 DEF WriteFile
  <2>3. Len(e.path) > 1
    BY <1>4, <2>1, Beyond
  <2>4. \A p \in Paths({"dir"}) : Node(p, "dir", 0) \in tree
    BY <1>2, Kinds DEF Paths
  <2>5. tree' = tree \cup {new} \cup {Node(p, "dir", 0) : p \in Parents(rel)}
    BY <2>2, <2>4
  <2>6. \A n : n \in Holding(Past \cup {e}) <=>
               \/ n \in Holding(Past) \/ n = new
               \/ \E p \in Parents(rel) : n = Node(p, "dir", 0)
    <3> SUFFICES ASSUME NEW n
                 PROVE  n \in Holding(Past \cup {e}) <=>
                           \/ n \in Holding(Past) \/ n = new
                           \/ \E p \in Parents(rel) : n = Node(p, "dir", 0)
      OBVIOUS
    <3>1. n \in Holding(Past) => n \in Holding(Past \cup {e})
      BY InHolding
    <3>2. n = new \/ (\E p \in Parents(rel) : n = Node(p, "dir", 0)) => n \in Holding(Past \cup {e})
      BY <2>1, <2>3, InHolding
    <3>3. n \in Holding(Past \cup {e}) =>
             \/ n \in Holding(Past) \/ n = new
             \/ \E p \in Parents(rel) : n = Node(p, "dir", 0)
      BY <2>1, <2>3, InHolding
    <3> QED  BY <3>1, <3>2, <3>3
  <2>7. /\ new.path = rel /\ \A p : Node(p, "dir", 0).kind # "file"
        /\ fetch'.seen = fetch.seen \cup {rel}
    BY <1>2, <2>2, AfterEntry DEF Node
  <2> HIDE DEF new
  <2>8. tree' = Holding(Past \cup {e})
    BY <1>2, <2>5, <2>6
  <2> QED  BY <1>2, <2>5, <2>7, <2>8
<1> QED  BY <1>7, <1>8, <1>9

LEMMA ExtractSized ==
  ASSUME Inv, Sized, Unpacking, Extract
  PROVE  Sized'
<1>1. PICK e : e = fetch.archive.entries[fetch.at]
  OBVIOUS
<1>2. /\ pc = "extract" /\ Unpack(e) /\ fetch.at <= Len(fetch.archive.entries) /\ FetchOK(fetch)
      /\ fetch.at \in Nat \ {0} /\ fetch.entries \in 0..MaxFiles
  BY <1>1 DEF Extract, More, Unpacking, Inv, Shapes, Sized
<1>3. e \in Entries
  <2>1. fetch.archive.entries \in Seq(Entries)
    BY <1>2, ItsEntries
  <2> QED  BY <1>1, <1>2, <2>1, ElementOfSeq, LenProperties
<1>4. CASE \E x : Fail(x)
  BY <1>2, <1>4, FailSized
<1>5. CASE fetch' = Advance(fetch) /\ tree' = tree /\ pc' = pc
  BY <1>2, <1>5, AfterEntry, FilesOnly, NoMoreFiles, Limits
<1>6. CASE MakeDir(e, Tail(e.path)) /\ ~(fetch.entries + 1 > MaxFiles)
  <2>1. CASE /\ fetch' = Taken(e) /\ pc' = pc
             /\ tree' \in {tree, tree \cup {Node(Tail(e.path), "dir", 0)}}
    <3>1. Files' \subseteq Files
      BY <2>1 DEF Files, Node, TheDiff
    <3>2. fetch'.entries = fetch.entries + 1 /\ fetch'.total = fetch.total
      BY <1>2, <2>1, AfterEntry
    <3>3. fetch'.entries \in fetch.entries..MaxFiles
      BY <1>2, <1>6, <3>2, Limits
    <3> QED  BY <1>2, <2>1, <3>1, <3>2, <3>3, NoMoreFiles
  <2> QED  BY <1>4, <1>6, <2>1 DEF MakeDir
<1>7. CASE WriteFile(e, Tail(e.path)) /\ ~(fetch.entries + 1 > MaxFiles)
  <2>1. CASE /\ fetch' = [Taken(e) EXCEPT !.total = @ + e.size] /\ pc' = pc /\ ~TooLarge(e)
             /\ tree' = tree \cup {Node(Tail(e.path), "file", e.size)}
                            \cup {Node(p, "dir", 0) : p \in Parents(Tail(e.path)) \ Paths({"dir"})}
    <3>1. Files' \subseteq Files \cup {Node(Tail(e.path), "file", e.size)}
      BY <2>1 DEF Files, Node, TheDiff
    <3>2. fetch'.entries = fetch.entries + 1 /\ fetch'.total = fetch.total + e.size
      BY <1>2, <2>1, AfterEntry
    <3>3. fetch.entries < MaxFiles
      BY <1>2, <1>7, Limits
    <3>4. e.size <= MaxFileBytes /\ fetch.total + e.size <= MaxBytes
      BY <1>3, <2>1, Limits DEF TooLarge, Sized, Entries
    <3> QED  BY <1>2, <1>3, <2>1, <3>1, <3>2, <3>3, <3>4, OneMoreFile DEF Inv
  <2> QED  BY <1>4, <1>7, <2>1 DEF WriteFile
<1> QED  BY <1>2, <1>4, <1>5, <1>6, <1>7 DEF Unpack

OnDisk == Sized /\ Unpacking /\ Ready

Made == {"seal", "files", "start", "running", "reap"}

LEMMA NotThere ==
  ASSUME pc' \notin {"extract", "harden", "diff"} \cup Made
  PROVE  Unpacking' /\ Ready'
BY DEF Unpacking, Ready, Made

LEMMA Untouched ==
  ASSUME OnDisk, pc' = pc \/ {pc, pc'} \subseteq Made \/ pc' \notin {"idle", "extract", "harden", "diff"} \cup Made,
         UNCHANGED <<fetch, tree>>
  PROVE  OnDisk'
<1>1. Sized'
  <2>1. pc' = "idle" => tree' = Absent
    BY DEF OnDisk, Sized, Made
  <2> QED  BY <2>1, FilesOnly, NoMoreFiles, Limits DEF OnDisk, Sized
<1>2. Past' = Past /\ \A a : Whole(a)' = Whole(a)
  BY SameAttempt DEF Past
<1>3. \A entries : Holding(entries)' = Holding(entries)
  BY SameAttempt
<1>4. Holding(Past)' = Holding(Past)
  BY <1>2 DEF Holding, Node
<1>5. Holding(Range(fetch.archive.entries))' = Holding(Range(fetch.archive.entries))
  BY DEF Holding, Node
<1>6. Whole(fetch.archive)' = Whole(fetch.archive)
  BY DEF Whole, Holding, Node
<1>7. Unpacking'
  BY <1>4 DEF OnDisk, Unpacking, Made
<1>8. Trusted(Holding(Range(fetch.archive.entries)))' = Trusted(Holding(Range(fetch.archive.entries)))
  BY <1>5 DEF Trusted
<1>9. Ready'
  BY <1>5, <1>6, <1>8 DEF OnDisk, Ready, Made
<1> QED  BY <1>1, <1>7, <1>9 DEF OnDisk

LEMMA WhatFails ==
  ASSUME OnDisk, Inv, \E e : Fail(e)
  PROVE  OnDisk'
<1>1. pc' = "failed"
  BY DEF Fail
<1>2. pc' \notin {"extract", "harden", "diff"} \cup Made
  BY <1>1 DEF Made
<1>3. Sized'
  BY FailSized DEF OnDisk, Inv, Shapes
<1> QED  BY <1>2, <1>3, NotThere DEF OnDisk

LEMMA WhoReturns ==
  ASSUME OnDisk, \E e, t : Return(e, t)
  PROVE  OnDisk'
<1>1. pc' = "idle" /\ Sized'
  BY ReturnSized DEF Return, OnDisk
<1>2. pc' \notin {"extract", "harden", "diff"} \cup Made
  BY <1>1 DEF Made
<1> QED  BY <1>1, <1>2, NotThere DEF OnDisk

LEMMA DownloadOnDisk ==
  ASSUME OnDisk, Inv, Download
  PROVE  OnDisk'
<1>1. Sized'
  BY DownloadSized DEF OnDisk
<1>2. CASE pc' # "extract"
  <2>1. pc' \in {"failed", "idle", "backoff", "request"}
    BY <1>2 DEF Download, Request, RequestFails, OpenDestination, Fail, Retry, Return, BackoffCancelled, BackoffEnds
  <2>2. pc' \notin {"extract", "harden", "diff"} \cup Made
    BY <2>1 DEF Made
  <2> QED  BY <1>1, <2>2, NotThere DEF OnDisk
<1>3. CASE pc' = "extract"
  <2>1. PICK a \in Archives : pc = "request" /\ OpenDestination(a)
    BY <1>3 DEF Download, Request, RequestFails, Fail, Retry, Return, BackoffCancelled, BackoffEnds
  <2>2. /\ tree' = {Node(<<>>, "dir", 0)}
        /\ fetch' = [fetch EXCEPT !.archive = a, !.at = 1, !.entries = 0, !.root = NoRoot, !.seen = {}, !.total = 0]
    BY <1>3, <2>1 DEF OpenDestination, Fail
  <2>3. fetch'.at = 1 /\ fetch'.archive = a /\ fetch'.attempt = fetch.attempt
    <3>1. FetchOK(fetch)
      BY DEF Inv, Shapes
    <3> QED  BY <2>2, <3>1 DEF FetchOK, NoFetch
  <2>4. Past' = {}
    <3>1. 1..fetch'.at - 1 = {}
      BY <2>3
    <3> QED  BY <3>1 DEF Past
  <2>5. \A n : n \in Holding({}) <=> n = Node(<<>>, "dir", 0)
    BY InHolding
  <2>6. Holding(Past)' = Holding({})
    BY <2>3, <2>4 DEF Holding, Node
  <2>7. tree' = Holding(Past)'
    BY <2>2, <2>5, <2>6
  <2>8. Len(fetch'.archive.entries) \in Nat
    BY <2>3, ArchiveAssumption, LenProperties
  <2>9. \A n \in tree' : n.kind # "file"
    BY <2>2 DEF Node
  <2>10. Unpacking'
    <3>1. fetch'.at \in Nat \ {0} /\ fetch'.at <= Len(fetch'.archive.entries) + 1
      BY <2>3, <2>8
    <3> QED  BY <2>7, <2>9, <3>1 DEF Unpacking
  <2>11. Ready'
    BY <1>3 DEF Ready
  <2> QED  BY <1>1, <2>10, <2>11 DEF OnDisk
<1> QED  BY <1>2, <1>3

LEMMA UnpackOnDisk ==
  ASSUME OnDisk, Inv, Unpacks
  PROVE  OnDisk'
<1>1. pc = "extract" /\ FetchOK(fetch)
  BY DEF Unpacks, Extract, ExtractFails, Extracted, Inv, Shapes
<1>2. CASE \E e : Fail(e)
  BY <1>2, WhatFails
<1>3. CASE Extract /\ pc' = pc
  <2>1. Sized' /\ Unpacking'
    BY <1>1, <1>3, ExtractSized, EntryUnpacked DEF OnDisk
  <2>2. Ready'
    BY <1>1, <1>3 DEF Ready
  <2> QED  BY <2>1, <2>2 DEF OnDisk
<1>4. CASE ~More /\ pc' = "harden" /\ UNCHANGED <<fetch, tree>>
  <2>1. fetch.archive.entries \in Seq(Entries) /\ Len(fetch.archive.entries) \in Nat
    BY <1>1, ItsEntries, LenProperties
  <2>2. fetch.at = Len(fetch.archive.entries) + 1
    BY <1>1, <1>4, <2>1 DEF More, OnDisk, Unpacking
  <2>3. Past = Range(fetch.archive.entries)
    <3>1. 1..fetch.at - 1 = 1..Len(fetch.archive.entries)
      BY <2>1, <2>2
    <3>2. DOMAIN fetch.archive.entries = 1..Len(fetch.archive.entries)
      BY <2>1, LenProperties
    <3> QED  BY <3>1, <3>2 DEF Past, Range
  <2>4. Holding(Range(fetch.archive.entries))' = Holding(Past)
    BY <1>4, <2>3 DEF Holding, Node
  <2>5. Ready' /\ Unpacking'
    BY <1>1, <1>4, <2>4 DEF Ready, Unpacking, OnDisk
  <2>6. Sized'
    BY <1>4, FilesOnly, NoMoreFiles, Limits DEF OnDisk, Sized
  <2> QED  BY <2>5, <2>6 DEF OnDisk
<1>5. CASE Extract
  <2>1. Unpack(fetch.archive.entries[fetch.at])
    BY <1>5 DEF Extract
  <2> QED  BY <1>2, <1>3, <1>5, <2>1 DEF Unpack, MakeDir, WriteFile
<1>6. CASE ExtractFails
  BY <1>2, <1>6 DEF ExtractFails
<1>7. CASE Extracted
  BY <1>2, <1>4, <1>7 DEF Extracted
<1> QED  BY <1>5, <1>6, <1>7 DEF Unpacks

LEMMA PathsOfNames ==
  ASSUME NEW entries \in SUBSET Entries, NEW n \in Holding(entries)
  PROVE  n.path \in Seq(Names)
<1>1. \A p, k, z : Node(p, k, z).path = p
  BY DEF Node
<1>2. CASE n = Node(<<>>, "dir", 0)
  BY <1>1, <1>2, EmptySeq
<1>3. ASSUME NEW e \in entries, Len(e.path) > 1,
             \/ n.path = Tail(e.path)
             \/ n.path \in Parents(Tail(e.path))
      PROVE  n.path \in Seq(Names)
  <2>1. e.path \in Seq(Names) /\ e.path # <<>>
    BY <1>3, EmptySeq DEF Entries
  <2>2. Tail(e.path) \in Seq(Names)
    BY <2>1, HeadTailProperties
  <2>3. ASSUME NEW k \in 0..Len(Tail(e.path)) - 1 PROVE SubSeq(Tail(e.path), 1, k) \in Seq(Names)
    <3> DEFINE rel == Tail(e.path)
    <3>1. rel \in Seq(Names) /\ Len(rel) \in Nat
      BY <2>2, LenProperties
    <3> HIDE DEF rel
    <3>2. k \in Int /\ k \in 0..Len(rel) - 1
      BY <2>3 DEF rel
    <3>3. \A i \in 1..k : rel[i] \in Names
      BY <3>1, <3>2, ElementOfSeq
    <3>4. SubSeq(rel, 1, k) \in Seq(Names)
      BY <3>2, <3>3, SubSeqProperties
    <3> QED  BY <3>4 DEF rel
  <2> QED  BY <1>3, <2>2, <2>3 DEF Parents
<1> QED  BY <1>1, <1>2, <1>3, InHolding

LEMMA PrepareOnDisk ==
  ASSUME OnDisk, Inv, Prepare
  PROVE  OnDisk'
<1>1. CASE \E e, t : Return(e, t)
  BY <1>1, WhoReturns
<1>2. CASE HardenCheckout
  <2>1. pc = "harden" /\ pc' = "diff" /\ tree' = Trusted(tree) /\ fetch' = fetch
    BY <1>2 DEF HardenCheckout, Step
  <2>2. tree' = Trusted(Holding(Range(fetch.archive.entries)))'
    BY <2>1 DEF OnDisk, Ready, Trusted, Holding, Node
  <2>3. Ready' /\ Unpacking'
    BY <2>1, <2>2 DEF Ready, Unpacking
  <2>4. Sized'
    BY <2>1, FilesOnly, NoMoreFiles, Limits DEF OnDisk, Sized
  <2> QED  BY <2>3, <2>4 DEF OnDisk
<1>3. CASE WriteDiff /\ pc' # "idle"
  <2>1. /\ pc = "diff" /\ pc' = "seal" /\ fetch' = fetch
        /\ tree' = {n \in tree : n.path # <<DiffName>>} \cup {TheDiff}
    BY <1>3 DEF WriteDiff, Step, Return
  <2> DEFINE all == Holding(Range(fetch.archive.entries))
  <2>2. Range(fetch.archive.entries) \in SUBSET Entries
    <3>1. fetch.archive.entries \in Seq(Entries)
      BY ItsEntries DEF Inv, Shapes
    <3> QED  BY <3>1, ElementOfSeq, LenProperties DEF Range
  <2>3. \A n \in all : (\A k \in 1..Len(n.path) : n.path[k] \notin Untrusted) <=> Range(n.path) \cap Untrusted = {}
    <3> SUFFICES ASSUME NEW n \in all
                 PROVE  (\A k \in 1..Len(n.path) : n.path[k] \notin Untrusted) <=> Range(n.path) \cap Untrusted = {}
      OBVIOUS
    <3>1. n.path \in Seq(Names)
      BY <2>2, PathsOfNames
    <3>2. DOMAIN n.path = 1..Len(n.path)
      BY <3>1, LenProperties
    <3> QED  BY <3>2 DEF Range
  <2>4. tree = {n \in all : Range(n.path) \cap Untrusted = {}}
    BY <2>1, <2>3 DEF OnDisk, Ready, Trusted
  <2>5. tree' = Whole(fetch.archive)
    BY <2>1, <2>4 DEF Whole
  <2>6. Whole(fetch.archive)' = Whole(fetch.archive)
    BY <2>1 DEF Whole, Holding, Node
  <2>7. Ready' /\ Unpacking'
    BY <2>1, <2>5, <2>6 DEF Ready, Unpacking
  <2>8. Sized'
    BY <2>1, FilesOnly, NoMoreFiles, Limits DEF OnDisk, Sized
  <2> QED  BY <2>7, <2>8 DEF OnDisk
<1>4. CASE MakeReadOnly \/ NewSandboxFiles
  <2>1. {pc, pc'} \subseteq Made /\ UNCHANGED <<fetch, tree>>
    BY <1>4 DEF MakeReadOnly, NewSandboxFiles, Step, Made
  <2> QED  BY <2>1, Untouched
<1>5. CASE StartAgent
  <2>1. CASE {pc, pc'} \subseteq Made /\ UNCHANGED <<fetch, tree>>
    BY <2>1, Untouched
  <2> QED  BY <1>1, <1>5, <2>1 DEF StartAgent, Made
<1>6. CASE PrepareFails
  BY <1>1, <1>6 DEF PrepareFails
<1>7. CASE WriteDiff
  BY <1>1, <1>3, <1>7 DEF WriteDiff, Step
<1> QED  BY <1>2, <1>4, <1>5, <1>6, <1>7 DEF Prepare

LEMMA OthersOnDisk ==
  ASSUME OnDisk, Inv, Agent \/ Collect \/ Refuse \/ Begin \/ Cancel
  PROVE  OnDisk'
<1>1. CASE \E e, t : Return(e, t)
  BY <1>1, WhoReturns
<1>2. CASE /\ pc' = pc \/ {pc, pc'} \subseteq Made
           /\ UNCHANGED <<fetch, tree>>
  BY <1>2, Untouched
<1>3. CASE Refuse \/ Begin
  <2>1. pc' \in {"idle", "request"} /\ Sized'
    BY <1>3, IdleSized DEF OnDisk, Refuse, Begin
  <2>2. pc' \notin {"extract", "harden", "diff"} \cup Made
    BY <2>1 DEF Made
  <2> QED  BY <2>1, <2>2, NotThere DEF OnDisk
<1>4. CASE Agent \/ Cancel
  BY <1>2, <1>4 DEF Agent, AgentWrites, AgentExits, AgentDies, Acts, Cancel
<1>5. CASE (\E s \in Streams : CopyOutput(s)) \/ Kill
  BY <1>2, <1>5 DEF CopyOutput, Acts, Kill, Made
<1>6. CASE AgentDone \/ Reap
  BY <1>1, <1>6 DEF AgentDone, Reap
<1> QED  BY <1>3, <1>4, <1>5, <1>6 DEF Collect

LEMMA OnDiskAlways == Spec => [](Inv /\ OnDisk)
<1>1. Init => Inv /\ OnDisk
  <2> SUFFICES ASSUME Init PROVE OnDisk
    BY InvInit
  <2>1. tree = {} /\ pc = "idle" /\ fetch.entries = 0 /\ fetch.total = 0
    BY DEF Init, NoFetch, Absent
  <2>2. Files = {} /\ Contents(Files) = {}
    BY <2>1 DEF Files, Contents
  <2>3. Sized
    BY <2>1, <2>2, FS_EmptySet, Limits DEF Sized, Absent
  <2> QED  BY <2>1, <2>3 DEF OnDisk, Unpacking, Ready
<1>2. Inv /\ OnDisk /\ [Next]_vars => (Inv /\ OnDisk)'
  <2> SUFFICES ASSUME Inv, OnDisk, [Next]_vars PROVE OnDisk'
    BY InvStep
  <2>1. CASE UNCHANGED vars
    BY <2>1, Untouched DEF vars
  <2> QED  BY <2>1, DownloadOnDisk, UnpackOnDisk, PrepareOnDisk, OthersOnDisk DEF Next
<1> QED  BY <1>1, <1>2, PTL DEF Spec

(* extractGitHubArchive, hardenCheckout and the diff: whatever was served, *)
(* retried or left behind, a reviewer that runs reads the whole archive,   *)
(* from one download, without what could instruct it, and the diff.        *)
THEOREM CheckoutWhole == Spec => []CheckoutIsWhole
<1>1. Inv /\ OnDisk => CheckoutIsWhole
  BY DEF Inv, Confined, Quiet, OnDisk, Ready, CheckoutIsWhole
<1> QED  BY <1>1, OnDiskAlways, PTL

(* The limits of extractGitHubArchive bound what a call has on the disk,   *)
(* through all of its attempts.                                            *)
THEOREM CheckoutBounded == Spec => []CheckoutIsBounded
<1>1. OnDisk => CheckoutIsBounded
  <2> SUFFICES ASSUME OnDisk PROVE CheckoutIsBounded
    OBVIOUS
  <2>1. Cardinality(Files) \in Nat /\ Cardinality(Contents(Files)) \in Nat
    BY FS_CardinalityType DEF OnDisk, Sized
  <2> QED  BY <2>1, Limits DEF OnDisk, Sized, CheckoutIsBounded
<1> QED  BY <1>1, OnDiskAlways, PTL


(***************************************************************************)
(* Review text. Each function of ReviewText that goes over its input item  *)
(* by item is a recursive function on the numbers of the items. That it is *)
(* unrolled one item at a time is shown for each by building the function  *)
(* up from 0 (the lemmas cannot share one, for lack of a parameter that is *)
(* an operator); from there Climb takes an invariant from the first item   *)
(* to the last.                                                            *)
(***************************************************************************)

LEMMA Descent ==
  ASSUME NEW T, T \subseteq Nat, T # {}
  PROVE  \E n \in T : \A m \in T : ~(m < n)
<1> DEFINE below == {p \in Nat \X Nat : p[1] < p[2]}
<1>1. OpToRel(<, Nat) = below
  BY DEF OpToRel
<1>2. IsWellFoundedOn(below, Nat)
  BY <1>1, NatLessThanWellFounded
<1> HIDE DEF below
<1>3. PICK n \in T : \A m \in T : <<m, n>> \notin below
  BY <1>2, WFMin
<1>4. ASSUME NEW m \in T, m < n PROVE FALSE
  BY <1>3, <1>4 DEF below
<1> QED  BY <1>3, <1>4

(* What holds at 0 and is passed on by each number holds up to n.          *)
LEMMA Climb ==
  ASSUME NEW n \in Nat, NEW T, 0 \in T, \A k \in 0..n - 1 : k \in T => k + 1 \in T
  PROVE  0..n \subseteq T
<1> SUFFICES ASSUME NEW m \in 0..n, m \notin T PROVE FALSE
  OBVIOUS
<1> DEFINE bad == {k \in 0..n : k \notin T}
<1>1. bad \subseteq Nat /\ bad # {}
  OBVIOUS
<1> HIDE DEF bad
<1>2. PICK k \in bad : \A j \in bad : ~(j < k)
  BY <1>1, Descent
<1>3. k \in 0..n /\ k \notin T
  BY DEF bad
<1>4. k - 1 \in 0..n - 1 /\ k - 1 < k /\ k - 1 \in 0..n /\ (k - 1) + 1 = k
  BY <1>3
<1>5. k - 1 \notin bad
  BY <1>2, <1>4
<1>6. k - 1 \in T
  BY <1>4, <1>5 DEF bad
<1> QED  BY <1>3, <1>4, <1>6

(* Scan is what reading the lines one by one gives. *)
LEMMA Scans ==
  ASSUME NEW m, Len(m) \in Nat
  PROVE  /\ Scan(m)[0] = NoFence
         /\ \A i \in 1..Len(m) : Scan(m)[i] = ReadLine(m, Scan(m)[i - 1], i)
<1> DEFINE Turn(s, i) == ReadLine(m, s, i)
           Is(f, n) == f = [i \in 0..n |-> IF i = 0 THEN NoFence ELSE Turn(f[i - 1], i)]
           T == {n \in Nat : \E f : Is(f, n)}
<1> HIDE DEF Turn
<1>1. 0 \in T
  <2> DEFINE f == [i \in 0..0 |-> NoFence]
  <2>1. \A i \in 0..0 : i = 0
    OBVIOUS
  <2>2. Is(f, 0)
    BY <2>1
  <2> QED  BY <2>2
<1>2. \A k \in 0..Len(m) - 1 : k \in T => k + 1 \in T
  <2> SUFFICES ASSUME NEW k \in Nat, k \in T PROVE k + 1 \in T
    OBVIOUS
  <2>1. PICK f : Is(f, k)
    OBVIOUS
  <2> DEFINE g == [i \in 0..k + 1 |-> IF i <= k THEN f[i] ELSE Turn(f[k], k + 1)]
  <2>2. \A i \in 0..k + 1 : g[i] = IF i = 0 THEN NoFence ELSE Turn(g[i - 1], i)
    <3> SUFFICES ASSUME NEW i \in 0..k + 1
                 PROVE  g[i] = IF i = 0 THEN NoFence ELSE Turn(g[i - 1], i)
      OBVIOUS
    <3>1. CASE i = 0
      BY <2>1, <3>1
    <3>2. CASE i \in 1..k
      BY <2>1, <3>2
    <3>3. CASE i = k + 1
      BY <2>1, <3>3
    <3> QED  BY <3>1, <3>2, <3>3
  <2>3. Is(g, k + 1)
    BY <2>2
  <2> HIDE DEF g
  <2>4. k + 1 \in Nat
    OBVIOUS
  <2> HIDE DEF Is
  <2> QED  BY <2>3, <2>4, Zenon
<1> HIDE DEF T
<1>3. 0..Len(m) \subseteq T
  BY <1>1, <1>2, Climb
<1>4. Len(m) \in T
  BY <1>3
<1>5. \E f : Is(f, Len(m))
  BY <1>4 DEF T
<1>6. Scan(m) = [i \in 0..Len(m) |-> IF i = 0 THEN NoFence ELSE Turn(Scan(m)[i - 1], i)]
  BY <1>5 DEF Scan, Turn
<1>7. Scan(m)[0] = NoFence /\ \A i \in 1..Len(m) : Scan(m)[i] = Turn(Scan(m)[i - 1], i)
  BY <1>6
<1> QED  BY <1>7 DEF Turn

(* So is Walk for a patch, *)
LEMMA Walks ==
  ASSUME NEW p, Len(p) \in Nat
  PROVE  /\ Walk(p)[0] = Outside
         /\ \A i \in 1..Len(p) : Walk(p)[i] = ReadDiffLine(Walk(p)[i - 1], p[i])
<1> DEFINE Turn(s, i) == ReadDiffLine(s, p[i])
           Is(f, n) == f = [i \in 0..n |-> IF i = 0 THEN Outside ELSE Turn(f[i - 1], i)]
           T == {n \in Nat : \E f : Is(f, n)}
<1> HIDE DEF Turn
<1>1. 0 \in T
  <2> DEFINE f == [i \in 0..0 |-> Outside]
  <2>1. \A i \in 0..0 : i = 0
    OBVIOUS
  <2>2. Is(f, 0)
    BY <2>1
  <2> QED  BY <2>2
<1>2. \A k \in 0..Len(p) - 1 : k \in T => k + 1 \in T
  <2> SUFFICES ASSUME NEW k \in Nat, k \in T PROVE k + 1 \in T
    OBVIOUS
  <2>1. PICK f : Is(f, k)
    OBVIOUS
  <2> DEFINE g == [i \in 0..k + 1 |-> IF i <= k THEN f[i] ELSE Turn(f[k], k + 1)]
  <2>2. \A i \in 0..k + 1 : g[i] = IF i = 0 THEN Outside ELSE Turn(g[i - 1], i)
    <3> SUFFICES ASSUME NEW i \in 0..k + 1
                 PROVE  g[i] = IF i = 0 THEN Outside ELSE Turn(g[i - 1], i)
      OBVIOUS
    <3>1. CASE i = 0
      BY <2>1, <3>1
    <3>2. CASE i \in 1..k
      BY <2>1, <3>2
    <3>3. CASE i = k + 1
      BY <2>1, <3>3
    <3> QED  BY <3>1, <3>2, <3>3
  <2>3. Is(g, k + 1)
    BY <2>2
  <2> HIDE DEF g
  <2>4. k + 1 \in Nat
    OBVIOUS
  <2> HIDE DEF Is
  <2> QED  BY <2>3, <2>4, Zenon
<1> HIDE DEF T
<1>3. 0..Len(p) \subseteq T
  BY <1>1, <1>2, Climb
<1>4. Len(p) \in T
  BY <1>3
<1>5. \E f : Is(f, Len(p))
  BY <1>4 DEF T
<1>6. Walk(p) = [i \in 0..Len(p) |-> IF i = 0 THEN Outside ELSE Turn(Walk(p)[i - 1], i)]
  BY <1>5 DEF Walk, Turn
<1>7. Walk(p)[0] = Outside /\ \A i \in 1..Len(p) : Walk(p)[i] = Turn(Walk(p)[i - 1], i)
  BY <1>6
<1> QED  BY <1>7 DEF Turn

(* Decodes for findings, *)
LEMMA DecodesAll ==
  ASSUME NEW c, Len(c) \in Nat
  PROVE  /\ Decodes(c)[0] = <<>>
         /\ \A i \in 1..Len(c) : Decodes(c)[i] = Decoded(c, Decodes(c)[i - 1], i)
<1> DEFINE Turn(s, i) == Decoded(c, s, i)
           Is(f, n) == f = [i \in 0..n |-> IF i = 0 THEN <<>> ELSE Turn(f[i - 1], i)]
           T == {n \in Nat : \E f : Is(f, n)}
<1> HIDE DEF Turn
<1>1. 0 \in T
  <2> DEFINE f == [i \in 0..0 |-> <<>>]
  <2>1. \A i \in 0..0 : i = 0
    OBVIOUS
  <2>2. Is(f, 0)
    BY <2>1
  <2> QED  BY <2>2
<1>2. \A k \in 0..Len(c) - 1 : k \in T => k + 1 \in T
  <2> SUFFICES ASSUME NEW k \in Nat, k \in T PROVE k + 1 \in T
    OBVIOUS
  <2>1. PICK f : Is(f, k)
    OBVIOUS
  <2> DEFINE g == [i \in 0..k + 1 |-> IF i <= k THEN f[i] ELSE Turn(f[k], k + 1)]
  <2>2. \A i \in 0..k + 1 : g[i] = IF i = 0 THEN <<>> ELSE Turn(g[i - 1], i)
    <3> SUFFICES ASSUME NEW i \in 0..k + 1
                 PROVE  g[i] = IF i = 0 THEN <<>> ELSE Turn(g[i - 1], i)
      OBVIOUS
    <3>1. CASE i = 0
      BY <2>1, <3>1
    <3>2. CASE i \in 1..k
      BY <2>1, <3>2
    <3>3. CASE i = k + 1
      BY <2>1, <3>3
    <3> QED  BY <3>1, <3>2, <3>3
  <2>3. Is(g, k + 1)
    BY <2>2
  <2> HIDE DEF g
  <2>4. k + 1 \in Nat
    OBVIOUS
  <2> HIDE DEF Is
  <2> QED  BY <2>3, <2>4, Zenon
<1> HIDE DEF T
<1>3. 0..Len(c) \subseteq T
  BY <1>1, <1>2, Climb
<1>4. Len(c) \in T
  BY <1>3
<1>5. \E f : Is(f, Len(c))
  BY <1>4 DEF T
<1>6. Decodes(c) = [i \in 0..Len(c) |-> IF i = 0 THEN <<>> ELSE Turn(Decodes(c)[i - 1], i)]
  BY <1>5 DEF Decodes, Turn
<1>7. Decodes(c)[0] = <<>> /\ \A i \in 1..Len(c) : Decodes(c)[i] = Turn(Decodes(c)[i - 1], i)
  BY <1>6
<1> QED  BY <1>7 DEF Turn

(* Comments for those that were kept, *)
LEMMA CommentsAll ==
  ASSUME NEW c, Len(c) \in Nat, NEW index
  PROVE  /\ Comments(c, index)[0] = <<>>
         /\ \A i \in 1..Len(c) :
              Comments(c, index)[i] =
                IF InDiff(index, c[i]) THEN Append(Comments(c, index)[i - 1], c[i]) ELSE Comments(c, index)[i - 1]
<1> DEFINE Turn(s, i) == IF InDiff(index, c[i]) THEN Append(s, c[i]) ELSE s
           Is(f, n) == f = [i \in 0..n |-> IF i = 0 THEN <<>> ELSE Turn(f[i - 1], i)]
           T == {n \in Nat : \E f : Is(f, n)}
<1> HIDE DEF Turn
<1>1. 0 \in T
  <2> DEFINE f == [i \in 0..0 |-> <<>>]
  <2>1. \A i \in 0..0 : i = 0
    OBVIOUS
  <2>2. Is(f, 0)
    BY <2>1
  <2> QED  BY <2>2
<1>2. \A k \in 0..Len(c) - 1 : k \in T => k + 1 \in T
  <2> SUFFICES ASSUME NEW k \in Nat, k \in T PROVE k + 1 \in T
    OBVIOUS
  <2>1. PICK f : Is(f, k)
    OBVIOUS
  <2> DEFINE g == [i \in 0..k + 1 |-> IF i <= k THEN f[i] ELSE Turn(f[k], k + 1)]
  <2>2. \A i \in 0..k + 1 : g[i] = IF i = 0 THEN <<>> ELSE Turn(g[i - 1], i)
    <3> SUFFICES ASSUME NEW i \in 0..k + 1
                 PROVE  g[i] = IF i = 0 THEN <<>> ELSE Turn(g[i - 1], i)
      OBVIOUS
    <3>1. CASE i = 0
      BY <2>1, <3>1
    <3>2. CASE i \in 1..k
      BY <2>1, <3>2
    <3>3. CASE i = k + 1
      BY <2>1, <3>3
    <3> QED  BY <3>1, <3>2, <3>3
  <2>3. Is(g, k + 1)
    BY <2>2
  <2> HIDE DEF g
  <2>4. k + 1 \in Nat
    OBVIOUS
  <2> HIDE DEF Is
  <2> QED  BY <2>3, <2>4, Zenon
<1> HIDE DEF T
<1>3. 0..Len(c) \subseteq T
  BY <1>1, <1>2, Climb
<1>4. Len(c) \in T
  BY <1>3
<1>5. \E f : Is(f, Len(c))
  BY <1>4 DEF T
<1>6. Comments(c, index) = [i \in 0..Len(c) |-> IF i = 0 THEN <<>> ELSE Turn(Comments(c, index)[i - 1], i)]
  BY <1>5 DEF Comments, Turn
<1>7. Comments(c, index)[0] = <<>> /\ \A i \in 1..Len(c) : Comments(c, index)[i] = Turn(Comments(c, index)[i - 1], i)
  BY <1>6
<1> QED  BY <1>7 DEF Turn

(* Encoding for runes, *)
LEMMA Encodes ==
  ASSUME NEW w, Len(w) \in Nat
  PROVE  /\ Encoding(w)[0] = <<>>
         /\ \A i \in 1..Len(w) : Encoding(w)[i] = Encoding(w)[i - 1] \o Rune(w[i])
<1> DEFINE Turn(s, i) == s \o Rune(w[i])
           Is(f, n) == f = [i \in 0..n |-> IF i = 0 THEN <<>> ELSE Turn(f[i - 1], i)]
           T == {n \in Nat : \E f : Is(f, n)}
<1> HIDE DEF Turn
<1>1. 0 \in T
  <2> DEFINE f == [i \in 0..0 |-> <<>>]
  <2>1. \A i \in 0..0 : i = 0
    OBVIOUS
  <2>2. Is(f, 0)
    BY <2>1
  <2> QED  BY <2>2
<1>2. \A k \in 0..Len(w) - 1 : k \in T => k + 1 \in T
  <2> SUFFICES ASSUME NEW k \in Nat, k \in T PROVE k + 1 \in T
    OBVIOUS
  <2>1. PICK f : Is(f, k)
    OBVIOUS
  <2> DEFINE g == [i \in 0..k + 1 |-> IF i <= k THEN f[i] ELSE Turn(f[k], k + 1)]
  <2>2. \A i \in 0..k + 1 : g[i] = IF i = 0 THEN <<>> ELSE Turn(g[i - 1], i)
    <3> SUFFICES ASSUME NEW i \in 0..k + 1
                 PROVE  g[i] = IF i = 0 THEN <<>> ELSE Turn(g[i - 1], i)
      OBVIOUS
    <3>1. CASE i = 0
      BY <2>1, <3>1
    <3>2. CASE i \in 1..k
      BY <2>1, <3>2
    <3>3. CASE i = k + 1
      BY <2>1, <3>3
    <3> QED  BY <3>1, <3>2, <3>3
  <2>3. Is(g, k + 1)
    BY <2>2
  <2> HIDE DEF g
  <2>4. k + 1 \in Nat
    OBVIOUS
  <2> HIDE DEF Is
  <2> QED  BY <2>3, <2>4, Zenon
<1> HIDE DEF T
<1>3. 0..Len(w) \subseteq T
  BY <1>1, <1>2, Climb
<1>4. Len(w) \in T
  BY <1>3
<1>5. \E f : Is(f, Len(w))
  BY <1>4 DEF T
<1>6. Encoding(w) = [i \in 0..Len(w) |-> IF i = 0 THEN <<>> ELSE Turn(Encoding(w)[i - 1], i)]
  BY <1>5 DEF Encoding, Turn
<1>7. Encoding(w)[0] = <<>> /\ \A i \in 1..Len(w) : Encoding(w)[i] = Turn(Encoding(w)[i - 1], i)
  BY <1>6
<1> QED  BY <1>7 DEF Turn

(* and Draws for the lines of a diagram. *)
LEMMA DrawsAll ==
  ASSUME NEW d, Len(d) \in Nat
  PROVE  /\ Draws(d)[0] = Blank
         /\ \A i \in 1..Len(d) : Draws(d)[i] = Drawn(Draws(d)[i - 1], d[i])
<1> DEFINE Turn(s, i) == Drawn(s, d[i])
           Is(f, n) == f = [i \in 0..n |-> IF i = 0 THEN Blank ELSE Turn(f[i - 1], i)]
           T == {n \in Nat : \E f : Is(f, n)}
<1> HIDE DEF Turn
<1>1. 0 \in T
  <2> DEFINE f == [i \in 0..0 |-> Blank]
  <2>1. \A i \in 0..0 : i = 0
    OBVIOUS
  <2>2. Is(f, 0)
    BY <2>1
  <2> QED  BY <2>2
<1>2. \A k \in 0..Len(d) - 1 : k \in T => k + 1 \in T
  <2> SUFFICES ASSUME NEW k \in Nat, k \in T PROVE k + 1 \in T
    OBVIOUS
  <2>1. PICK f : Is(f, k)
    OBVIOUS
  <2> DEFINE g == [i \in 0..k + 1 |-> IF i <= k THEN f[i] ELSE Turn(f[k], k + 1)]
  <2>2. \A i \in 0..k + 1 : g[i] = IF i = 0 THEN Blank ELSE Turn(g[i - 1], i)
    <3> SUFFICES ASSUME NEW i \in 0..k + 1
                 PROVE  g[i] = IF i = 0 THEN Blank ELSE Turn(g[i - 1], i)
      OBVIOUS
    <3>1. CASE i = 0
      BY <2>1, <3>1
    <3>2. CASE i \in 1..k
      BY <2>1, <3>2
    <3>3. CASE i = k + 1
      BY <2>1, <3>3
    <3> QED  BY <3>1, <3>2, <3>3
  <2>3. Is(g, k + 1)
    BY <2>2
  <2> HIDE DEF g
  <2>4. k + 1 \in Nat
    OBVIOUS
  <2> HIDE DEF Is
  <2> QED  BY <2>3, <2>4, Zenon
<1> HIDE DEF T
<1>3. 0..Len(d) \subseteq T
  BY <1>1, <1>2, Climb
<1>4. Len(d) \in T
  BY <1>3
<1>5. \E f : Is(f, Len(d))
  BY <1>4 DEF T
<1>6. Draws(d) = [i \in 0..Len(d) |-> IF i = 0 THEN Blank ELSE Turn(Draws(d)[i - 1], i)]
  BY <1>5 DEF Draws, Turn
<1>7. Draws(d)[0] = Blank /\ \A i \in 1..Len(d) : Draws(d)[i] = Turn(Draws(d)[i - 1], i)
  BY <1>6
<1> QED  BY <1>7 DEF Turn

(***************************************************************************)
(* The diagram: what was drawn fits.                                       *)
(***************************************************************************)

Lines == [message : BOOLEAN, length : Nat]
Glyphs(lines) == UNION {{i} \X (0..lines[i].length) : i \in 1..Len(lines)}

LEMMA TextBounds == {MaxFindings, MaxCandidates, MaxText, Marker, MaxDiagram, Head0} \subseteq Nat
BY TextAssumption

(* One more line is its newline and its length.                            *)
LEMMA OneMoreLine ==
  ASSUME NEW s \in Seq(Lines), NEW l \in Lines, IsFiniteSet(Glyphs(s))
  PROVE  IsFiniteSet(Glyphs(Append(s, l))) /\ Length(Append(s, l)) <= Length(s) + l.length + 1
<1> DEFINE n == Len(s)  t == Append(s, l)  own == {n + 1} \X (0..l.length)
<1>1. n \in Nat /\ Len(t) = n + 1 /\ t[n + 1] = l /\ (\A i \in 1..n : t[i] = s[i]) /\ l.length \in Nat
  BY AppendProperties, LenProperties DEF Lines
<1> HIDE DEF n, t
<1>2. Glyphs(t) = Glyphs(s) \cup own
  <2>1. 1..Len(t) = (1..n) \cup {n + 1}
    BY <1>1
  <2>2. Glyphs(t) = (UNION {{i} \X (0..t[i].length) : i \in 1..n}) \cup own
    <3>1. own = {n + 1} \X (0..t[n + 1].length)
      BY <1>1
    <3> HIDE DEF own
    <3> QED  BY <2>1, <3>1 DEF Glyphs
  <2>3. {{i} \X (0..t[i].length) : i \in 1..n} = {{i} \X (0..s[i].length) : i \in 1..n}
    BY <1>1
  <2> QED  BY <2>2, <2>3 DEF Glyphs, n
<1>3. IsFiniteSet(own) /\ Cardinality(own) = l.length + 1
  <2>1. IsFiniteSet({n + 1}) /\ Cardinality({n + 1}) = 1
    <3>1. \A x : IsFiniteSet({x}) /\ Cardinality({x}) = 1
      BY FS_Singleton
    <3> QED  BY <3>1
  <2>2. IsFiniteSet(0..l.length) /\ Cardinality(0..l.length) = l.length + 1
    <3>1. ASSUME NEW k \in Nat PROVE IsFiniteSet(0..k) /\ Cardinality(0..k) = k + 1
      BY FS_Interval
    <3> QED  BY <1>1, <3>1
  <2>3. IsFiniteSet(own) /\ Cardinality(own) = Cardinality({n + 1}) * Cardinality(0..l.length)
    BY <2>1, <2>2, FS_Product
  <2> QED  BY <1>1, <2>1, <2>2, <2>3
<1> HIDE DEF own
<1>4. /\ IsFiniteSet(Glyphs(s) \cup own)
      /\ Cardinality(Glyphs(s) \cup own)
           = Cardinality(Glyphs(s)) + Cardinality(own) - Cardinality(Glyphs(s) \cap own)
  BY <1>3, FS_Union
<1>5. Cardinality(Glyphs(s) \cap own) \in Nat /\ Cardinality(Glyphs(s)) \in Nat
  <2>1. IsFiniteSet(Glyphs(s) \cap own)
    BY FS_Intersection
  <2> QED  BY <2>1, FS_CardinalityType
<1>6. Length(t) = Head0 + Cardinality(Glyphs(t)) /\ Length(s) = Head0 + Cardinality(Glyphs(s))
  BY DEF Length, Glyphs
<1> QED  BY <1>1, <1>2, <1>3, <1>4, <1>5, <1>6, TextBounds DEF t

(* The lines kept are within the limit.                                    *)
Drawable(s) ==
  /\ s.kept \in Seq(Lines) /\ s.full \in BOOLEAN /\ IsFiniteSet(Glyphs(s.kept))
  /\ s.kept = <<>> \/ Length(s.kept) <= MaxDiagram

(* A line that is drawn leaves the diagram within its limit.               *)
LEMMA DrawnFits ==
  ASSUME NEW s, Drawable(s), s \in [kept : Seq(Lines), full : BOOLEAN], NEW l \in Lines
  PROVE  Drawable(Drawn(s, l)) /\ Drawn(s, l) \in [kept : Seq(Lines), full : BOOLEAN]
<1>1. CASE s.full \/ ~Fits(s.kept, l)
  <2>1. Drawn(s, l) = [s EXCEPT !.full = TRUE]
    BY <1>1 DEF Drawn
  <2> QED  BY <2>1 DEF Drawable
<1>2. CASE ~(s.full \/ ~Fits(s.kept, l))
  <2>1. Drawn(s, l) = [s EXCEPT !.kept = Append(@, l)] /\ Fits(s.kept, l)
    BY <1>2 DEF Drawn
  <2> DEFINE t == Append(s.kept, l)
  <2>2. t \in Seq(Lines)
    BY AppendProperties
  <2>3. IsFiniteSet(Glyphs(t)) /\ Length(t) <= Length(s.kept) + l.length + 1
    BY OneMoreLine DEF Drawable
  <2>4. Length(t) \in Int /\ Length(s.kept) \in Int /\ l.length \in Nat
    <3>1. Cardinality(Glyphs(t)) \in Nat /\ Cardinality(Glyphs(s.kept)) \in Nat
      BY <2>3, FS_CardinalityType DEF Drawable
    <3>2. Length(t) = Head0 + Cardinality(Glyphs(t)) /\ Length(s.kept) = Head0 + Cardinality(Glyphs(s.kept))
      BY DEF Length, Glyphs
    <3>3. l.length \in Nat
      BY DEF Lines
    <3> QED  BY <3>1, <3>2, <3>3, TextBounds
  <2>5. Length(t) <= MaxDiagram
    BY <2>1, <2>3, <2>4, TextBounds DEF Fits
  <2> HIDE DEF t
  <2>6. Drawn(s, l) = [s EXCEPT !.kept = t]
    BY <2>1 DEF t
  <2>7. Drawn(s, l).kept = t /\ Drawn(s, l).full = s.full
    BY <2>6
  <2> QED  BY <2>2, <2>3, <2>5, <2>6, <2>7 DEF Drawable
<1> QED  BY <1>1, <1>2

LEMMA FittingFits ==
  ASSUME NEW d \in Seq(Lines)
  PROVE  Drawable(Draws(d)[Len(d)])
<1> DEFINE Shape == [kept : Seq(Lines), full : BOOLEAN]
           T == {k \in 0..Len(d) : Drawable(Draws(d)[k]) /\ Draws(d)[k] \in Shape}
<1>1. Len(d) \in Nat
  BY LenProperties
<1>2. Draws(d)[0] = Blank /\ \A i \in 1..Len(d) : Draws(d)[i] = Drawn(Draws(d)[i - 1], d[i])
  BY <1>1, DrawsAll
<1>3. 0 \in T
  <2>1. Glyphs(<<>>) = {}
    BY DEF Glyphs
  <2>2. <<>> \in Seq(Lines) /\ IsFiniteSet({})
    BY EmptySeq, FS_EmptySet
  <2>3. Blank.kept = <<>> /\ Blank.full = FALSE /\ Blank \in Shape
    BY <2>2 DEF Blank
  <2>4. Drawable(Blank)
    BY <2>1, <2>2, <2>3 DEF Drawable
  <2> QED  BY <1>1, <1>2, <2>3, <2>4
<1>4. \A k \in 0..Len(d) - 1 : k \in T => k + 1 \in T
  <2> SUFFICES ASSUME NEW k \in 0..Len(d) - 1, k \in T PROVE k + 1 \in T
    OBVIOUS
  <2>1. k + 1 \in 1..Len(d) /\ (k + 1) - 1 = k /\ k + 1 \in 0..Len(d)
    BY <1>1
  <2>2. d[k + 1] \in Lines
    BY <2>1, ElementOfSeq
  <2>3. Draws(d)[k + 1] = Drawn(Draws(d)[k], d[k + 1])
    BY <1>2, <2>1
  <2>4. Drawable(Draws(d)[k]) /\ Draws(d)[k] \in Shape
    OBVIOUS
  <2> HIDE DEF Shape
  <2>5. Drawable(Draws(d)[k + 1]) /\ Draws(d)[k + 1] \in Shape
    BY <2>2, <2>3, <2>4, DrawnFits DEF Shape
  <2> QED  BY <2>1, <2>5
<1> HIDE DEF T
<1>5. 0..Len(d) \subseteq T
  BY <1>1, <1>3, <1>4, Climb
<1>6. Len(d) \in T
  BY <1>1, <1>5
<1> QED  BY <1>6 DEF T

(* What is posted as a diagram shows a message and fits.                   *)
LEMMA DiagramDrawable ==
  ASSUME NEW d \in Diagrams
  PROVE  LET out == NormalizeSequenceDiagram(d)
         IN  out # <<>> => HasMessage(out) /\ Length(out) <= MaxDiagram
<1>1. d \in Seq(Lines)
  BY TextAssumption DEF Lines
<1>2. Drawable(Draws(d)[Len(d)])
  BY <1>1, FittingFits
<1> QED  BY <1>2 DEF NormalizeSequenceDiagram, Fitting, Drawable

(* How many of a set of positions come up to one.                          *)
Until(S, k) == {j \in S : j <= k}
Tally(S, k) == Cardinality(Until(S, k))

(* The counting of finite sets, as the later proofs need it.               *)
LEMMA Sizes ==
  /\ \A T \in SUBSET Nat, n \in Nat : (\A j \in T : j <= n) => IsFiniteSet(T)
  /\ \A T : IsFiniteSet(T) => Cardinality(T) \in Nat
  /\ \A T, x : IsFiniteSet(T) /\ x \notin T => Cardinality(T \cup {x}) = Cardinality(T) + 1
  /\ \A T, U : IsFiniteSet(T) /\ U \subseteq T => IsFiniteSet(U) /\ Cardinality(U) <= Cardinality(T)
  /\ Cardinality({}) = 0
<1>1. \A T \in SUBSET Nat, n \in Nat : (\A j \in T : j <= n) => IsFiniteSet(T)
  BY FS_BoundedSetOfNaturals
<1>2. \A T : IsFiniteSet(T) => Cardinality(T) \in Nat
  BY FS_CardinalityType
<1>3. \A T, x : IsFiniteSet(T) /\ x \notin T => Cardinality(T \cup {x}) = Cardinality(T) + 1
  BY FS_AddElement
<1>4. \A T, U : IsFiniteSet(T) /\ U \subseteq T => IsFiniteSet(U) /\ Cardinality(U) <= Cardinality(T)
  BY FS_Subset
<1> QED  BY <1>1, <1>2, <1>3, <1>4, FS_EmptySet

(* The number of positions up to one more than k.                          *)
LEMMA Tallied ==
  ASSUME NEW S, \A j \in S : j \in Nat \ {0}, NEW k \in Nat
  PROVE  /\ IsFiniteSet(Until(S, k)) /\ Tally(S, k) \in Nat /\ Tally(S, 0) = 0
         /\ Tally(S, k + 1) = IF k + 1 \in S THEN Tally(S, k) + 1 ELSE Tally(S, k)
<1>1. ASSUME NEW i \in Nat PROVE IsFiniteSet(Until(S, i)) /\ Tally(S, i) \in Nat
  <2>1. Until(S, i) \in SUBSET Nat /\ \A j \in Until(S, i) : j <= i
    BY DEF Until
  <2>2. IsFiniteSet(Until(S, i))
    BY <2>1, Sizes
  <2> QED  BY <2>2, Sizes DEF Tally
<1>2. Tally(S, 0) = 0
  <2>1. Until(S, 0) = {}
    BY DEF Until
  <2> QED  BY <2>1, Sizes DEF Tally
<1>3. CASE k + 1 \in S
  <2>1. Until(S, k + 1) = Until(S, k) \cup {k + 1} /\ k + 1 \notin Until(S, k)
    BY <1>3 DEF Until
  <2>2. Cardinality(Until(S, k) \cup {k + 1}) = Cardinality(Until(S, k)) + 1
    <3>1. IsFiniteSet(Until(S, k))
      BY <1>1
    <3>2. \A x : x \notin Until(S, k) => Cardinality(Until(S, k) \cup {x}) = Cardinality(Until(S, k)) + 1
      BY <3>1, Sizes
    <3> QED  BY <2>1, <3>2
  <2> QED  BY <1>1, <1>2, <1>3, <2>1, <2>2 DEF Tally
<1>4. CASE k + 1 \notin S
  <2>1. Until(S, k + 1) = Until(S, k)
    BY <1>4 DEF Until
  <2> QED  BY <1>1, <1>2, <1>4, <2>1 DEF Tally
<1> QED  BY <1>3, <1>4

(* The position of a finding among the chosen ones is its own.             *)
LEMMA TallyGrows ==
  ASSUME NEW S, \A j \in S : j \in Nat \ {0}, NEW i \in Nat, NEW k \in Nat, i <= k
  PROVE  Tally(S, i) <= Tally(S, k) /\ (i \in S => Tally(S, i) >= 1)
<1>1. Tally(S, i) <= Tally(S, k)
  <2>1. IsFiniteSet(Until(S, k))
    BY Tallied
  <2>2. Until(S, i) \in SUBSET Until(S, k)
    BY DEF Until
  <2> QED  BY <2>1, <2>2, Sizes DEF Tally
<1>2. ASSUME i \in S PROVE Tally(S, i) >= 1
  <2>1. i - 1 \in Nat /\ (i - 1) + 1 = i
    BY <1>2
  <2>2. \A l \in Nat : l + 1 \in S => Tally(S, l) \in Nat /\ Tally(S, l + 1) = Tally(S, l) + 1
    BY Tallied
  <2>3. Tally(S, i - 1) \in Nat /\ Tally(S, i) = Tally(S, i - 1) + 1
    BY <1>2, <2>1, <2>2
  <2> QED  BY <2>3
<1> QED  BY <1>1, <1>2

Finding == [good : BOOLEAN, side : {"LEFT", "RIGHT"}, line : Int]

(* preparePublication does not look ahead.                                 *)
LEMMA CommentsPrefix ==
  ASSUME NEW s \in Seq(Finding), NEW x \in Finding, NEW index
  PROVE  \A k \in 0..Len(s) : Comments(Append(s, x), index)[k] = Comments(s, index)[k]
<1> DEFINE t == Append(s, x)
           T == {k \in 0..Len(s) : Comments(t, index)[k] = Comments(s, index)[k]}
<1>1. Len(s) \in Nat /\ Len(t) = Len(s) + 1 /\ \A i \in 1..Len(s) : t[i] = s[i]
  BY AppendProperties, LenProperties
<1> HIDE DEF t
<1>2. /\ Comments(s, index)[0] = <<>>
      /\ \A i \in 1..Len(s) :
           Comments(s, index)[i] = IF InDiff(index, s[i]) THEN Append(Comments(s, index)[i - 1], s[i])
                                   ELSE Comments(s, index)[i - 1]
  BY <1>1, CommentsAll
<1>3. /\ Comments(t, index)[0] = <<>>
      /\ \A i \in 1..Len(t) :
           Comments(t, index)[i] = IF InDiff(index, t[i]) THEN Append(Comments(t, index)[i - 1], t[i])
                                   ELSE Comments(t, index)[i - 1]
  BY <1>1, CommentsAll
<1>4. 0 \in T
  BY <1>1, <1>2, <1>3
<1>5. \A k \in 0..Len(s) - 1 : k \in T => k + 1 \in T
  <2> SUFFICES ASSUME NEW k \in 0..Len(s) - 1, k \in T PROVE k + 1 \in T
    OBVIOUS
  <2>1. k + 1 \in 1..Len(s) /\ k + 1 \in 1..Len(t) /\ (k + 1) - 1 = k /\ k + 1 \in 0..Len(s)
    BY <1>1
  <2>2. Comments(t, index)[k + 1] = Comments(s, index)[k + 1]
    BY <1>1, <1>2, <1>3, <2>1
  <2> QED  BY <2>1, <2>2
<1> HIDE DEF T
<1>6. 0..Len(s) \subseteq T
  BY <1>1, <1>4, <1>5, Climb
<1> QED  BY <1>6 DEF T, t

(* What it makes of one finding more.                                      *)
LEMMA PublishOneMore ==
  ASSUME NEW s \in Seq(Finding), NEW x \in Finding, NEW index
  PROVE  Publish(Append(s, x), index)
           = IF InDiff(index, x) THEN Append(Publish(s, index), x) ELSE Publish(s, index)
<1> DEFINE t == Append(s, x)
<1>1. Len(s) \in Nat /\ Len(t) = Len(s) + 1 /\ t[Len(s) + 1] = x
  BY AppendProperties, LenProperties
<1>2. Comments(t, index)[Len(s)] = Publish(s, index)
  BY <1>1, CommentsPrefix DEF Publish
<1> HIDE DEF t
<1>3. \A i \in 1..Len(t) :
        Comments(t, index)[i] = IF InDiff(index, t[i]) THEN Append(Comments(t, index)[i - 1], t[i])
                                ELSE Comments(t, index)[i - 1]
  BY <1>1, CommentsAll
<1>4. Len(s) + 1 \in 1..Len(t) /\ (Len(s) + 1) - 1 = Len(s)
  BY <1>1
<1>5. Comments(t, index)[Len(s) + 1] = IF InDiff(index, t[Len(s) + 1]) THEN Append(Comments(t, index)[Len(s)], t[Len(s) + 1])
                                ELSE Comments(t, index)[Len(s)]
  BY <1>3, <1>4
<1>6. Publish(t, index) = Comments(t, index)[Len(s) + 1]
  BY <1>1 DEF Publish
<1> QED  BY <1>1, <1>2, <1>5, <1>6 DEF t

LEMMA PublishNone == ASSUME NEW index PROVE Publish(<<>>, index) = <<>>
<1>1. Len(<<>>) = 0 /\ Len(<<>>) \in Nat
  OBVIOUS
<1> QED  BY <1>1, CommentsAll DEF Publish

Good(c) == {j \in 1..Len(c) : c[j].good}

(* After the first k findings: what was kept of them, and what of that is  *)
(* published.                                                              *)
Kept(c, k) ==
  LET kept == Decodes(c)[k]
  IN /\ kept \in Seq(Finding) /\ Len(kept) <= MaxFindings
     /\ k <= MaxCandidates =>
          Len(kept) = IF Tally(Good(c), k) <= MaxFindings THEN Tally(Good(c), k) ELSE MaxFindings

Pinned(c, index, k) ==
  LET out == Publish(Decodes(c)[k], index)
  IN /\ out \in Seq(Finding) /\ Len(out) <= Len(Decodes(c)[k]) /\ Len(out) = Tally(Chosen(c, index), k)
     /\ \A i \in Chosen(c, index) : i <= k => out[Tally(Chosen(c, index), i)] = c[i]

LEMMA ChosenOnes ==
  ASSUME NEW c \in Seq(Finding), NEW index
  PROVE  /\ \A i \in Chosen(c, index) : i \in 1..Len(c) /\ i \in Nat \ {0}
         /\ \A i \in Good(c) : i \in 1..Len(c) /\ i \in Nat \ {0}
         /\ \A i \in 1..Len(c) : i \in Chosen(c, index) <=> /\ i <= MaxCandidates /\ c[i].good /\ InDiff(index, c[i])
                                                            /\ Tally(Good(c), i) <= MaxFindings
<1>1. Len(c) \in Nat
  BY LenProperties
<1>2. ASSUME NEW i \in 1..Len(c) PROVE {j \in 1..i : c[j].good} = Until(Good(c), i)
  BY <1>1 DEF Until, Good
<1>3. \A i \in 1..Len(c) : Cardinality({j \in 1..i : c[j].good}) = Tally(Good(c), i)
  BY <1>2 DEF Tally
<1>4. \A i \in 1..Len(c) : i \in Chosen(c, index) <=> /\ i <= MaxCandidates /\ c[i].good /\ InDiff(index, c[i])
                                                      /\ Tally(Good(c), i) <= MaxFindings
  BY <1>3 DEF Chosen
<1>5. \A i \in Chosen(c, index) : i \in 1..Len(c) /\ i \in Nat \ {0}
  BY <1>1 DEF Chosen
<1>6. \A i \in Good(c) : i \in 1..Len(c) /\ i \in Nat \ {0}
  BY <1>1 DEF Good
<1> QED  BY <1>4, <1>5, <1>6

(* The next finding is kept when it is good, among the first, and there is *)
(* room, which is when it is one of the first MaxFindings good ones.       *)
LEMMA KeptNext ==
  ASSUME NEW c \in Seq(Finding), NEW k \in Nat, k + 1 \in 1..Len(c), Kept(c, k),
         Decodes(c)[k + 1] = Decoded(c, Decodes(c)[k], k + 1)
  PROVE  /\ Kept(c, k + 1)
         /\ Decodes(c)[k + 1] = IF /\ k + 1 <= MaxCandidates /\ c[k + 1].good
                                   /\ Tally(Good(c), k + 1) <= MaxFindings
                                THEN Append(Decodes(c)[k], c[k + 1]) ELSE Decodes(c)[k]
<1> DEFINE kept == Decodes(c)[k]  g == Tally(Good(c), k)  x == c[k + 1]
<1>1. /\ g \in Nat /\ k + 1 \in Good(c) <=> x.good
      /\ Tally(Good(c), k + 1) = IF x.good THEN g + 1 ELSE g
  <2>1. \A j \in Good(c) : j \in Nat \ {0}
    BY ChosenOnes
  <2>2. k + 1 \in Good(c) <=> x.good
    BY DEF Good
  <2> QED  BY <2>1, <2>2, Tallied
<1>2. x \in Finding /\ x.good \in BOOLEAN
  <2>1. x \in Finding
    BY ElementOfSeq
  <2> QED  BY <2>1 DEF Finding
<1>3. /\ kept \in Seq(Finding) /\ Len(kept) \in Nat /\ Len(kept) <= MaxFindings
      /\ k <= MaxCandidates => Len(kept) = IF g <= MaxFindings THEN g ELSE MaxFindings
  BY LenProperties DEF Kept
<1>4. Append(kept, x) \in Seq(Finding) /\ Len(Append(kept, x)) = Len(kept) + 1
  BY <1>2, <1>3, AppendProperties
<1>5. Decodes(c)[k + 1] = IF k + 1 > MaxCandidates \/ Len(kept) >= MaxFindings \/ ~x.good THEN kept
                          ELSE Append(kept, x)
  BY DEF Decoded, Full
<1> DEFINE next == Decodes(c)[k + 1]
<1> HIDE DEF kept, g, x, next
<1>6. MaxFindings \in Nat /\ MaxCandidates \in Nat
  BY TextBounds
<1>7. CASE k + 1 > MaxCandidates
  <2>1. next = kept
    BY <1>5, <1>7 DEF next
  <2> QED  BY <1>3, <1>6, <1>7, <2>1 DEF Kept, next, kept, g, x
<1>8. CASE k + 1 <= MaxCandidates /\ ~x.good
  <2>1. next = kept
    BY <1>5, <1>8 DEF next
  <2>2. Len(next) = IF Tally(Good(c), k + 1) <= MaxFindings THEN Tally(Good(c), k + 1) ELSE MaxFindings
    BY <1>1, <1>3, <1>6, <1>8, <2>1
  <2> QED  BY <1>3, <1>8, <2>1, <2>2 DEF Kept, next, kept, g, x
<1>9. CASE k + 1 <= MaxCandidates /\ x.good /\ Len(kept) >= MaxFindings
  <2>1. next = kept
    BY <1>5, <1>9 DEF next
  <2>2. Tally(Good(c), k + 1) = g + 1 /\ g >= MaxFindings
    BY <1>1, <1>3, <1>6, <1>9
  <2>3. Len(next) = MaxFindings /\ ~(Tally(Good(c), k + 1) <= MaxFindings)
    BY <1>1, <1>3, <1>6, <1>9, <2>1, <2>2
  <2> QED  BY <1>3, <1>9, <2>1, <2>3 DEF Kept, next, kept, g, x
<1>10. CASE k + 1 <= MaxCandidates /\ x.good /\ Len(kept) < MaxFindings
  <2>1. ~(k + 1 > MaxCandidates \/ Len(kept) >= MaxFindings \/ ~x.good)
    BY <1>3, <1>6, <1>10
  <2>2. next = Append(kept, x)
    BY <1>5, <2>1 DEF next
  <2>3. Tally(Good(c), k + 1) = g + 1 /\ Len(kept) = g
    BY <1>1, <1>3, <1>6, <1>10
  <2>4. Len(next) = Tally(Good(c), k + 1) /\ Tally(Good(c), k + 1) <= MaxFindings
    BY <1>1, <1>3, <1>4, <1>6, <1>10, <2>2, <2>3
  <2> QED  BY <1>4, <1>10, <2>2, <2>4 DEF Kept, next, kept, g, x
<1> QED  BY <1>2, <1>3, <1>6, <1>7, <1>8, <1>9, <1>10

(* The next finding is published when it was kept and is in the diff.      *)
LEMMA PinnedNext ==
  ASSUME NEW c \in Seq(Finding), NEW index, NEW k \in Nat, k + 1 \in 1..Len(c), Kept(c, k), Pinned(c, index, k),
         Decodes(c)[k + 1] = Decoded(c, Decodes(c)[k], k + 1)
  PROVE  Pinned(c, index, k + 1)
<1> DEFINE kept == Decodes(c)[k]  next == Decodes(c)[k + 1]  x == c[k + 1]  C == Chosen(c, index)
           out == Publish(kept, index)
           takes == /\ k + 1 <= MaxCandidates /\ x.good /\ Tally(Good(c), k + 1) <= MaxFindings
<1>1. next = IF takes THEN Append(kept, x) ELSE kept
  BY KeptNext
<1>2. x \in Finding /\ kept \in Seq(Finding) /\ Len(kept) \in Nat
  BY ElementOfSeq, LenProperties DEF Kept
<1>3. \A j \in C : j \in Nat \ {0}
  BY ChosenOnes
<1>4. k + 1 \in C <=> takes /\ InDiff(index, x)
  BY ChosenOnes
<1>5. Tally(C, k) \in Nat /\ Tally(C, k + 1) = IF k + 1 \in C THEN Tally(C, k) + 1 ELSE Tally(C, k)
  BY <1>3, Tallied
<1>6. /\ out \in Seq(Finding) /\ Len(out) \in Nat /\ Len(out) <= Len(kept) /\ Len(out) = Tally(C, k)
      /\ \A i \in C : i <= k => out[Tally(C, i)] = c[i]
  BY <1>5 DEF Pinned
<1>7. Publish(Append(kept, x), index) = IF InDiff(index, x) THEN Append(out, x) ELSE out
  BY <1>2, PublishOneMore
<1>8. Len(Append(kept, x)) = Len(kept) + 1
  BY <1>2, AppendProperties
<1> HIDE DEF kept, next, x, C, out, takes
<1>9. CASE takes /\ InDiff(index, x)
  <2>1. k + 1 \in C /\ Tally(C, k + 1) = Len(out) + 1
    BY <1>4, <1>5, <1>6, <1>9
  <2>2. Publish(next, index) = Append(out, x) /\ Len(next) = Len(kept) + 1
    BY <1>1, <1>7, <1>8, <1>9
  <2>3. /\ Append(out, x) \in Seq(Finding) /\ Len(Append(out, x)) = Len(out) + 1
        /\ (\A i \in 1..Len(out) : Append(out, x)[i] = out[i]) /\ Append(out, x)[Len(out) + 1] = x
    BY <1>2, <1>6, AppendProperties
  <2>4. ASSUME NEW i \in C, i <= k + 1 PROVE Append(out, x)[Tally(C, i)] = c[i]
    <3>1. CASE i = k + 1
      BY <2>1, <2>3, <3>1 DEF x
    <3>2. CASE i # k + 1
      <4>1. i \in Nat /\ i <= k
        BY <1>3, <2>4, <3>2
      <4>2. Tally(C, i) <= Tally(C, k) /\ Tally(C, i) >= 1
        BY <1>3, <4>1, TallyGrows
      <4>3. Tally(C, i) \in Nat
        BY <1>3, <4>1, Tallied
      <4>4. Tally(C, i) \in 1..Len(out)
        BY <1>5, <1>6, <4>2, <4>3
      <4> QED  BY <1>6, <2>3, <4>1, <4>4
    <3> QED  BY <3>1, <3>2
  <2>5. Len(Append(out, x)) <= Len(next)
    BY <1>2, <1>6, <2>2, <2>3
  <2> QED  BY <2>1, <2>2, <2>3, <2>4, <2>5 DEF Pinned, C, next
<1>10. CASE ~(takes /\ InDiff(index, x))
  <2>1. k + 1 \notin C /\ Tally(C, k + 1) = Len(out)
    BY <1>4, <1>5, <1>6, <1>10
  <2>2. Publish(next, index) = out /\ Len(kept) <= Len(next)
    BY <1>1, <1>2, <1>7, <1>8, <1>10 DEF out
  <2>3. ASSUME NEW i \in C, i <= k + 1 PROVE i <= k
    BY <1>3, <2>1, <2>3
  <2>4. Len(out) <= Len(next)
    <3>1. Len(next) \in Nat
      BY <1>1, <1>2, <1>8
    <3> QED  BY <1>2, <1>6, <2>2, <3>1
  <2> QED  BY <1>6, <2>1, <2>2, <2>3, <2>4 DEF Pinned, C, next
<1> QED  BY <1>9, <1>10

(* What is published of any findings is what PlanIsPinned asks for.        *)
LEMMA PlanPinned ==
  ASSUME NEW c \in Candidates, NEW index
  PROVE  LET out == Publish(Keep(c), index)
             chosen == Chosen(c, index)
         IN /\ Len(out) <= MaxFindings /\ Len(out) = Cardinality(chosen)
            /\ \A i \in chosen : out[Cardinality({j \in chosen : j <= i})] = c[i]
<1> DEFINE n == Len(c)
           T == {k \in 0..n : Kept(c, k) /\ Pinned(c, index, k)}
<1>1. c \in Seq(Finding) /\ n \in Nat
  <2>1. c \in Seq(Finding)
    BY TextAssumption DEF Finding
  <2> QED  BY <2>1, LenProperties
<1>2. Decodes(c)[0] = <<>> /\ \A i \in 1..n : Decodes(c)[i] = Decoded(c, Decodes(c)[i - 1], i)
  BY <1>1, DecodesAll
<1>3. /\ \A i \in Chosen(c, index) : i \in 1..n /\ i \in Nat \ {0}
      /\ \A i \in Good(c) : i \in Nat \ {0}
  BY <1>1, ChosenOnes
<1>4. 0 \in T
  <2>1. Tally(Chosen(c, index), 0) = 0 /\ Tally(Good(c), 0) = 0
    <3>1. 0 \in Nat
      OBVIOUS
    <3> QED  BY <1>3, <3>1, Tallied
  <2>2. <<>> \in Seq(Finding) /\ Len(<<>>) = 0
    BY EmptySeq
  <2>3. Kept(c, 0)
    BY <1>2, <2>1, <2>2, TextBounds DEF Kept
  <2>4. Pinned(c, index, 0)
    <3>1. Publish(Decodes(c)[0], index) = <<>>
      BY <1>2, PublishNone
    <3>2. \A i \in Chosen(c, index) : ~(i <= 0)
      BY <1>3
    <3>3. Publish(Decodes(c)[0], index) \in Seq(Finding) /\ Len(Publish(Decodes(c)[0], index)) = 0
      BY <2>2, <3>1
    <3>4. Len(Decodes(c)[0]) = 0
      BY <1>2, <2>2
    <3> QED  BY <2>1, <3>2, <3>3, <3>4 DEF Pinned
  <2> QED  BY <1>1, <2>3, <2>4
<1>5. \A k \in 0..n - 1 : k \in T => k + 1 \in T
  <2> SUFFICES ASSUME NEW k \in 0..n - 1, k \in T PROVE k + 1 \in T
    OBVIOUS
  <2>1. k \in Nat /\ k + 1 \in 1..n /\ k + 1 \in 0..n /\ (k + 1) - 1 = k
    BY <1>1
  <2>2. Decodes(c)[k + 1] = Decoded(c, Decodes(c)[k], k + 1)
    BY <1>2, <2>1
  <2>3. Kept(c, k) /\ Pinned(c, index, k)
    OBVIOUS
  <2>4. Kept(c, k + 1)
    BY <1>1, <2>1, <2>2, <2>3, KeptNext
  <2>5. Pinned(c, index, k + 1)
    BY <1>1, <2>1, <2>2, <2>3, PinnedNext
  <2> QED  BY <2>1, <2>4, <2>5
<1> HIDE DEF T
<1>6. 0..n \subseteq T
  BY <1>1, <1>4, <1>5, Climb
<1>7. Kept(c, n) /\ Pinned(c, index, n)
  BY <1>1, <1>6 DEF T
<1> DEFINE out == Publish(Decodes(c)[n], index)
<1>8. /\ Len(out) <= MaxFindings /\ Len(out) = Tally(Chosen(c, index), n)
      /\ \A i \in Chosen(c, index) : i <= n => out[Tally(Chosen(c, index), i)] = c[i]
  <2>1. Len(out) \in Nat /\ Len(Decodes(c)[n]) \in Nat
    BY <1>7, LenProperties DEF Kept, Pinned
  <2> QED  BY <1>7, <2>1, TextBounds DEF Kept, Pinned
<1>9. Until(Chosen(c, index), n) = Chosen(c, index)
  BY <1>1, <1>3 DEF Until
<1> HIDE DEF out
<1>10. Len(out) = Cardinality(Chosen(c, index))
  BY <1>8, <1>9 DEF Tally
<1>11. \A i \in Chosen(c, index) : out[Cardinality({j \in Chosen(c, index) : j <= i})] = c[i]
  BY <1>1, <1>3, <1>8 DEF Tally, Until
<1> QED  BY <1>8, <1>10, <1>11 DEF Keep, out

(* A way to tell the blocks of a message, as facts about line numbers, in  *)
(* which only a bare fence of three ends one.                              *)
Blocks(m, S) ==
  /\ \A b \in S : /\ b[1] \in 1..Len(m) /\ b[2] \in 1..Len(m) + 1 /\ b[1] < b[2]
                  /\ m[b[1]] \in Fences /\ (b[2] <= Len(m) => m[b[2]] = Bare)
                  /\ \A k \in 1..Len(m) : b[1] < k /\ k < b[2] => m[k] # Bare
  /\ \A k \in 1..Len(m) : m[k] \in Fences => \E b \in S : b[1] <= k /\ k <= b[2]
  /\ \A k \in 1..Len(m) : \A b, c \in S :
       b[1] <= k /\ k <= b[2] /\ c[1] <= k /\ k <= c[2] => b = c

(* The splits of a message without longer fences are blocks in this sense. *)
Short(m) == \A k \in 1..Len(m) : m[k] # Long

LEMMA SplitsAreBlocks ==
  ASSUME NEW m, Len(m) \in Nat, Short(m), NEW S \in Splits(m)
  PROVE  Blocks(m, S)
<1>0. \A j, k \in 1..Len(m) : Ends(m[j], m[k]) <=> m[k] = Bare
  BY DEF Ends, Short
<1>1. ASSUME NEW b \in S
      PROVE  /\ b[1] \in 1..Len(m) /\ b[2] \in 1..Len(m) + 1 /\ b[1] < b[2]
             /\ m[b[1]] \in Fences /\ (b[2] <= Len(m) => m[b[2]] = Bare)
             /\ \A k \in b[1] + 1..b[2] - 1 : m[k] # Bare
  <2>1. b \in (1..Len(m)) \X (1..Len(m) + 1) /\ IsBlock(m, b)
    BY DEF Splits
  <2>2. b[1] \in 1..Len(m) /\ b[2] \in 1..Len(m) + 1
    BY <2>1
  <2>3. /\ b[1] < b[2] /\ m[b[1]] \in Fences
        /\ b[2] <= Len(m) => Ends(m[b[1]], m[b[2]])
        /\ \A k \in b[1] + 1..b[2] - 1 : ~Ends(m[b[1]], m[k])
    BY <2>1 DEF IsBlock
  <2>4. b[2] <= Len(m) => m[b[2]] = Bare
    <3>1. b[2] <= Len(m) => b[2] \in 1..Len(m)
      BY <2>2
    <3> QED  BY <1>0, <2>2, <2>3, <3>1
  <2>5. ASSUME NEW k \in b[1] + 1..b[2] - 1 PROVE m[k] # Bare
    <3>1. k \in 1..Len(m)
      BY <2>2, <2>5
    <3> QED  BY <1>0, <2>2, <2>3, <2>5, <3>1
  <2> QED  BY <2>2, <2>3, <2>4, <2>5
<1>2. ASSUME NEW b \in S, NEW k \in 1..Len(m), b[1] < k, k < b[2] PROVE m[k] # Bare
  <2>1. k \in b[1] + 1..b[2] - 1
    BY <1>1, <1>2
  <2> QED  BY <1>1, <2>1
<1>3. \A b \in S, k \in 1..Len(m) : Inside(k, b) <=> b[1] <= k /\ k <= b[2]
  BY <1>1 DEF Inside
<1>4. \A k \in 1..Len(m) : /\ m[k] \in Fences => \E b \in S : Inside(k, b)
                           /\ \A b, c \in S : Inside(k, b) /\ Inside(k, c) => b = c
  BY DEF Splits
<1> QED  BY <1>1, <1>2, <1>3, <1>4 DEF Blocks

(* Every message splits: the blocks are told line by line.                 *)
Fenced(m) == {b \in (1..Len(m)) \X (1..Len(m) + 1) : IsBlock(m, b)}

SplitsTo(m, S, k) ==
  /\ S \in SUBSET Fenced(m)
  /\ \A b \in S : b[1] <= k
  /\ \A j \in 1..k : m[j] \in Fences => \E b \in S : Inside(j, b)
  /\ \A j \in 1..Len(m) : \A b, c \in S : Inside(j, b) /\ Inside(j, c) => b = c

LEMMA FenceBegins ==
  ASSUME NEW m, Len(m) \in Nat, NEW k \in 1..Len(m), m[k] \in Fences
  PROVE  \E b \in Fenced(m) : b[1] = k
<1> DEFINE T == {j \in k + 1..Len(m) + 1 : j <= Len(m) => Ends(m[k], m[j])}
<1>1. T \subseteq Nat /\ Len(m) + 1 \in T
  OBVIOUS
<1>2. PICK e \in T : \A j \in T : ~(j < e)
  BY <1>1, Descent
<1>3. e \in k + 1..Len(m) + 1 /\ (e <= Len(m) => Ends(m[k], m[e]))
  OBVIOUS
<1>4. ASSUME NEW j \in k + 1..e - 1 PROVE ~Ends(m[k], m[j])
  <2>1. j \in k + 1..Len(m) + 1 /\ j < e
    BY <1>3
  <2> QED  BY <1>2, <2>1
<1> HIDE DEF T
<1>5. IsBlock(m, <<k, e>>)
  <2>1. k < e
    BY <1>3
  <2> QED  BY <1>3, <1>4, <2>1 DEF IsBlock
<1>6. <<k, e>> \in Fenced(m) /\ <<k, e>>[1] = k
  <2>1. e \in 1..Len(m) + 1
    BY <1>3
  <2> QED  BY <1>5, <2>1 DEF Fenced
<1> QED  BY <1>6

LEMMA SplitsOneMore ==
  ASSUME NEW m, Len(m) \in Nat, NEW k \in 0..Len(m) - 1, NEW S, SplitsTo(m, S, k)
  PROVE  \E R : SplitsTo(m, R, k + 1)
<1>0. k + 1 \in 1..Len(m) /\ \A j \in 1..k + 1 : j \in 1..k \/ j = k + 1
  OBVIOUS
<1>1. \A b \in S : b[1] \in Nat /\ b[2] \in Nat /\ b[1] <= k /\ b[1] <= k + 1
  <2> SUFFICES ASSUME NEW b \in S PROVE b[1] \in Nat /\ b[2] \in Nat /\ b[1] <= k /\ b[1] <= k + 1
    OBVIOUS
  <2>1. b \in (1..Len(m)) \X (1..Len(m) + 1) /\ b[1] <= k
    BY DEF SplitsTo, Fenced
  <2>2. b[1] \in 1..Len(m) /\ b[2] \in 1..Len(m) + 1
    BY <2>1
  <2> QED  BY <2>1, <2>2
<1>2. CASE m[k + 1] \in Fences => \E b \in S : Inside(k + 1, b)
  <2>1. SplitsTo(m, S, k + 1)
    BY <1>0, <1>1, <1>2 DEF SplitsTo
  <2> QED  BY <2>1
<1>3. CASE m[k + 1] \in Fences /\ \A b \in S : ~Inside(k + 1, b)
  <2>1. PICK n \in Fenced(m) : n[1] = k + 1
    BY <1>0, <1>3, FenceBegins
  <2>2. n[2] \in Nat /\ k + 1 < n[2]
    <3>1. n \in (1..Len(m)) \X (1..Len(m) + 1) /\ n[1] < n[2]
      BY <2>1 DEF Fenced, IsBlock
    <3> QED  BY <2>1, <3>1
  <2> DEFINE R == S \cup {n}
  <2>3. R \in SUBSET Fenced(m)
    BY <2>1 DEF SplitsTo
  <2>4. \A b \in R : b[1] <= k + 1
    BY <1>1, <2>1
  <2>5. Inside(k + 1, n)
    BY <2>1, <2>2 DEF Inside
  <2>6. ASSUME NEW j \in 1..k + 1, m[j] \in Fences PROVE \E b \in R : Inside(j, b)
    <3>1. CASE j = k + 1
      BY <2>5, <3>1
    <3>2. CASE j \in 1..k
      BY <2>6, <3>2 DEF SplitsTo
    <3> QED  BY <1>0, <3>1, <3>2
  <2>7. ASSUME NEW j \in 1..Len(m), NEW b \in S, Inside(j, b) PROVE ~Inside(j, n)
    <3>1. ~(b[1] <= k + 1 /\ k + 1 <= b[2])
      BY <1>1, <1>3 DEF Inside
    <3>2. b[2] < k + 1 /\ j <= b[2]
      BY <1>1, <2>7, <3>1 DEF Inside
    <3> QED  BY <1>1, <2>1, <3>2 DEF Inside
  <2>8. \A j \in 1..Len(m) : \A b, c \in R : Inside(j, b) /\ Inside(j, c) => b = c
    BY <2>7 DEF SplitsTo
  <2> HIDE DEF R
  <2>9. SplitsTo(m, R, k + 1)
    BY <2>3, <2>4, <2>6, <2>8 DEF SplitsTo
  <2> QED  BY <2>9
<1> QED  BY <1>2, <1>3

LEMMA SplitsExist ==
  ASSUME NEW m, Len(m) \in Nat
  PROVE  Splits(m) # {}
<1> DEFINE T == {k \in 0..Len(m) : \E S : SplitsTo(m, S, k)}
<1>1. 0 \in T
  <2>1. SplitsTo(m, {}, 0)
    BY DEF SplitsTo
  <2> QED  BY <2>1
<1>2. \A k \in 0..Len(m) - 1 : k \in T => k + 1 \in T
  <2> SUFFICES ASSUME NEW k \in 0..Len(m) - 1, k \in T PROVE k + 1 \in T
    OBVIOUS
  <2>1. PICK S : SplitsTo(m, S, k)
    OBVIOUS
  <2>2. \E R : SplitsTo(m, R, k + 1)
    BY <2>1, SplitsOneMore
  <2>3. k + 1 \in 0..Len(m)
    OBVIOUS
  <2> QED  BY <2>2, <2>3
<1> HIDE DEF T
<1>3. 0..Len(m) \subseteq T
  BY <1>1, <1>2, Climb
<1>4. Len(m) \in T
  BY <1>3
<1>5. PICK S : SplitsTo(m, S, Len(m))
  BY <1>4 DEF T
<1>6. S \in Splits(m)
  BY <1>5 DEF SplitsTo, Splits, Fenced
<1> QED  BY <1>6

(* What the scanner knows after k lines: whether it is within a block, and *)
(* the answer in the last block that decodes.                              *)
Within(b, k)     == b[1] <= k /\ k < b[2]
AnswersBy(m, S, k) == {b \in S : Decodable(m, b) /\ b[2] <= k}

Found    == {<<>>} \cup {<<x>> : x \in STRING}
Readings == [open : BOOLEAN, json : BOOLEAN, at : Nat, found : Found]

Knows(m, S, s, k) ==
  /\ s \in Readings
  /\ (s.open <=> \E b \in S : Within(b, k))
  /\ \A b \in S : Within(b, k) => s.at = b[1] + 1 /\ s.json = (m[b[1]] \in JSONFences)
  /\ AnswersBy(m, S, k) = {} => s.found = <<>>
  /\ AnswersBy(m, S, k) # {} =>
       \E b \in AnswersBy(m, S, k) : (\A c \in AnswersBy(m, S, k) : c[1] <= b[1]) /\ s.found = <<m[b[1] + 1]>>

LEMMA ClosedFields ==
  ASSUME NEW s \in Readings, NEW f \in Found
  PROVE  LET t == [s EXCEPT !.open = FALSE, !.found = f]
         IN t \in Readings /\ t.open = FALSE /\ t.json = s.json /\ t.at = s.at /\ t.found = f
BY DEF Readings

(* A fence outside of every block begins one.                              *)
LEMMA Opens ==
  ASSUME NEW m, Len(m) \in Nat, NEW S, Blocks(m, S), NEW k \in Nat, k + 1 \in 1..Len(m),
         NEW s, Knows(m, S, s, k), ~s.open, m[k + 1] \in Fences
  PROVE  Knows(m, S, ReadLine(m, s, k + 1), k + 1)
<1> DEFINE t == ReadLine(m, s, k + 1)
<1>0. PICK j \in BOOLEAN : j <=> m[k + 1] \in JSONFences
  <2>1. CASE m[k + 1] \in JSONFences
    BY <2>1, TRUE \in BOOLEAN
  <2>2. CASE m[k + 1] \notin JSONFences
    BY <2>2, FALSE \in BOOLEAN
  <2> QED  BY <2>1, <2>2
<1>1. t = [s EXCEPT !.open = TRUE, !.json = j, !.at = (k + 1) + 1]
  BY <1>0 DEF ReadLine
<1>2. /\ t.open = TRUE /\ t.json = j /\ t.at = (k + 1) + 1 /\ t.found = s.found
      /\ t \in Readings
  <2>1. s \in Readings /\ j \in BOOLEAN /\ (k + 1) + 1 \in Nat
    BY DEF Knows
  <2> HIDE DEF t
  <2>2. PICK a \in Nat : a = (k + 1) + 1
    BY <2>1
  <2>3. t = [s EXCEPT !.open = TRUE, !.json = j, !.at = a]
    BY <1>1, <2>2, Zenon
  <2>4. t \in Readings /\ t.open = TRUE /\ t.json = j /\ t.at = a /\ t.found = s.found
    BY <2>1, <2>3 DEF Readings
  <2> QED  BY <2>2, <2>4
<1> HIDE DEF t
<1>3. PICK b \in S : b[1] <= k + 1 /\ k + 1 <= b[2]
  BY DEF Blocks
<1>4. b[1] = k + 1 /\ Within(b, k + 1)
  BY <1>3 DEF Knows, Blocks, Within
<1>5. \A c \in S : Within(c, k + 1) => c = b
  BY <1>3 DEF Blocks, Within
<1>6. \A c \in S : c[2] # k + 1
  <2> SUFFICES ASSUME NEW c \in S, c[2] = k + 1 PROVE FALSE
    OBVIOUS
  <2>1. c = b
    BY <1>3 DEF Blocks
  <2> QED  BY <1>4, <2>1 DEF Within
<1>7. AnswersBy(m, S, k + 1) = AnswersBy(m, S, k)
  BY <1>6 DEF AnswersBy, Blocks
<1>8. \A c \in S : Within(c, k + 1) => t.at = c[1] + 1 /\ t.json = (m[c[1]] \in JSONFences)
  BY <1>0, <1>2, <1>4, <1>5
<1>9. Knows(m, S, t, k + 1)
  BY <1>2, <1>4, <1>7, <1>8 DEF Knows
<1> QED  BY <1>9 DEF t

(* An answer is a single line.                                             *)
LEMMA OneLine ==
  ASSUME NEW m \in Seq(STRING), NEW a \in Nat \ {0}, NEW k \in 0..Len(m)
  PROVE  LET body == Decode(SubSeq(m, a, k))
         IN body # <<>> => body = <<m[a]>> /\ m[a] \in STRING
<1> DEFINE lines == SubSeq(m, a, k)
<1>1. Len(m) \in Nat
  BY LenProperties
<1>2. \A i \in a..k : m[i] \in STRING
  BY <1>1, ElementOfSeq
<1>3. /\ lines \in Seq(STRING) /\ Len(lines) = IF a <= k THEN k - a + 1 ELSE 0
      /\ \A i \in 1..k - a + 1 : lines[i] = m[a + i - 1]
  BY <1>1, <1>2, SubSeqProperties
<1> HIDE DEF lines
<1>4. CASE Len(lines) = 1
  <2>1. a \in a..k /\ 1 \in 1..k - a + 1 /\ a + 1 - 1 = a
    <3>1. (IF a <= k THEN k - a + 1 ELSE 0) = 1
      BY <1>3, <1>4, Zenon
    <3>2. k \in Nat
      BY <1>1
    <3> QED  BY <3>1, <3>2
  <2>2. lines[1] = m[a] /\ m[a] \in STRING
    BY <1>2, <1>3, <2>1
  <2>3. lines = <<lines[1]>>
    BY <1>3, <1>4
  <2> QED  BY <2>2, <2>3 DEF Decode, lines
<1>5. CASE Len(lines) # 1
  BY <1>5 DEF Decode, lines
<1> QED  BY <1>4, <1>5

(* The first bare fence within one ends it.                                *)
LEMMA ClosesBlock ==
  ASSUME NEW m \in Seq(STRING), Len(m) \in Nat, NEW S, Blocks(m, S), NEW k \in Nat, k + 1 \in 1..Len(m),
         NEW s, Knows(m, S, s, k), s.open, m[k + 1] = Bare
  PROVE  Knows(m, S, ReadLine(m, s, k + 1), k + 1)
<1> DEFINE t == ReadLine(m, s, k + 1)
           body == Decode(SubSeq(m, s.at, k))
           found == IF s.json /\ body # <<>> THEN body ELSE s.found
<1>1. t = [s EXCEPT !.open = FALSE, !.found = found]
  <2>1. (k + 1) - 1 = k
    OBVIOUS
  <2> QED  BY <2>1 DEF ReadLine, Closes
<1> HIDE DEF found, body
<1>2. PICK b \in S : Within(b, k)
  BY DEF Knows
<1>3. b[2] = k + 1 /\ b[1] <= k /\ b[1] \in 1..Len(m)
  BY <1>2 DEF Blocks, Within
<1>4. \A c \in S : ~Within(c, k + 1)
  <2> SUFFICES ASSUME NEW c \in S, Within(c, k + 1) PROVE FALSE
    OBVIOUS
  <2>1. c = b
    BY <1>2, <1>3 DEF Blocks, Within
  <2> QED  BY <1>3, <2>1 DEF Within
<1>5. \A c \in S : c[2] <= k => c[1] <= b[1]
  <2> SUFFICES ASSUME NEW c \in S, c[2] <= k, ~(c[1] <= b[1]) PROVE FALSE
    OBVIOUS
  <2>1. c[1] \in 1..Len(m) /\ b[1] <= c[1] /\ c[1] <= b[2] /\ c[1] <= c[2]
    BY <1>3 DEF Blocks
  <2>2. c = b
    BY <2>1 DEF Blocks
  <2> QED  BY <1>3, <2>2
<1>6. s.at = b[1] + 1 /\ s.json = (m[b[1]] \in JSONFences)
  BY <1>2 DEF Knows
<1>7. body # <<>> => body = <<m[b[1] + 1]>> /\ m[b[1] + 1] \in STRING
  <2>1. b[1] + 1 \in Nat \ {0} /\ k \in 0..Len(m)
    BY <1>3
  <2> QED  BY <1>6, <2>1, OneLine DEF body
<1>8. /\ t.open = FALSE /\ t.json = s.json /\ t.at = s.at /\ t.found = found
       /\ t \in Readings
  <2>1. s \in Readings /\ s.found \in Found
    BY DEF Knows, Readings
  <2>2. found \in Found
    BY <1>7, <2>1 DEF found, Found
  <2> HIDE DEF t
  <2> QED  BY <1>1, <2>1, <2>2, ClosedFields, Zenon
<1> HIDE DEF t
<1>9. Decodable(m, b) <=> s.json /\ body # <<>>
  <2>1. b[2] - 1 = k /\ b[2] <= Len(m)
    BY <1>3
  <2> QED  BY <1>6, <2>1 DEF Decodable, body
<1>10. \A c \in S : c[2] <= k + 1 <=> c[2] <= k \/ c = b
  <2>1. ASSUME NEW c \in S, c[2] = k + 1 PROVE c = b
    <3>1. c[1] <= k + 1 /\ k + 1 <= c[2] /\ b[1] <= k + 1 /\ k + 1 <= b[2]
      BY <1>3, <2>1 DEF Blocks
    <3> QED  BY <3>1 DEF Blocks
  <2> QED  BY <1>3, <2>1 DEF Blocks
<1>11. CASE Decodable(m, b)
  <2>1. found = body /\ body # <<>>
    BY <1>9, <1>11 DEF found
  <2>2. body = <<m[b[1] + 1]>>
    BY <1>7, <2>1
  <2>3. b \in AnswersBy(m, S, k + 1) /\ \A c \in AnswersBy(m, S, k + 1) : c[1] <= b[1]
    BY <1>3, <1>5, <1>10, <1>11 DEF AnswersBy
  <2>4. Knows(m, S, t, k + 1)
    BY <1>8, <1>4, <2>1, <2>2, <2>3 DEF Knows
  <2> QED  BY <2>4 DEF t
<1>12. CASE ~Decodable(m, b)
  <2>1. found = s.found
    BY <1>9, <1>12 DEF found
  <2>2. AnswersBy(m, S, k + 1) = AnswersBy(m, S, k)
    BY <1>10, <1>12 DEF AnswersBy
  <2>3. Knows(m, S, t, k + 1)
    BY <1>8, <1>4, <2>1, <2>2 DEF Knows
  <2> QED  BY <2>3 DEF t
<1> QED  BY <1>11, <1>12

(* Any other line changes nothing.                                         *)
LEMMA ReadsOn ==
  ASSUME NEW m, Len(m) \in Nat, NEW S, Blocks(m, S), NEW k \in Nat, k + 1 \in 1..Len(m),
         NEW s, Knows(m, S, s, k),
         ~(~s.open /\ m[k + 1] \in Fences), ~(s.open /\ m[k + 1] = Bare)
  PROVE  Knows(m, S, ReadLine(m, s, k + 1), k + 1)
<1>1. ReadLine(m, s, k + 1) = s
  BY DEF ReadLine, Closes
<1>2. m[k + 1] # Bare
  BY DEF Knows, Fences
<1>3. \A c \in S : c[2] # k + 1
  BY <1>2 DEF Blocks
<1>4. AnswersBy(m, S, k + 1) = AnswersBy(m, S, k)
  BY <1>3 DEF AnswersBy, Blocks
<1>5. \A c \in S : Within(c, k) => Within(c, k + 1)
  BY <1>3 DEF Blocks, Within
<1>6. ASSUME NEW c \in S, Within(c, k + 1) PROVE Within(c, k)
  <2>1. CASE s.open
    <3>1. PICK b \in S : Within(b, k)
      BY <2>1 DEF Knows
    <3>2. Within(b, k + 1)
      BY <1>5, <3>1
    <3>3. c = b
      BY <1>6, <3>2 DEF Blocks, Within
    <3> QED  BY <3>1, <3>3
  <2>2. CASE ~s.open
    <3>1. m[k + 1] \notin Fences
      BY <2>2
    <3>2. c[1] # k + 1
      BY <3>1 DEF Blocks
    <3> QED  BY <1>6, <3>2 DEF Blocks, Within
  <2>3. s.open \in BOOLEAN
    BY DEF Knows, Readings
  <2> QED  BY <2>1, <2>2
<1> QED  BY <1>1, <1>4, <1>5, <1>6 DEF Knows

(* So the scanner knows the blocks after every line,                       *)
LEMMA KnowsAlways ==
  ASSUME NEW m \in Seq(STRING), NEW S, Blocks(m, S)
  PROVE  Knows(m, S, Scan(m)[Len(m)], Len(m))
<1> DEFINE n == Len(m)
           T == {k \in 0..n : Knows(m, S, Scan(m)[k], k)}
<1>1. n \in Nat
  BY LenProperties
<1>2. Scan(m)[0] = NoFence /\ \A i \in 1..n : Scan(m)[i] = ReadLine(m, Scan(m)[i - 1], i)
  BY <1>1, Scans
<1>3. 0 \in T
  <2>1. \A b \in S : ~Within(b, 0) /\ ~(b[2] <= 0)
    BY <1>1 DEF Within, Blocks
  <2>2. AnswersBy(m, S, 0) = {}
    BY <2>1 DEF AnswersBy
  <2>3. NoFence \in Readings /\ NoFence.open = FALSE /\ NoFence.found = <<>>
    BY DEF NoFence, Readings, Found
  <2>4. Knows(m, S, NoFence, 0)
    BY <2>1, <2>2, <2>3 DEF Knows
  <2> QED  BY <1>1, <1>2, <2>4
<1>4. \A k \in 0..n - 1 : k \in T => k + 1 \in T
  <2> SUFFICES ASSUME NEW k \in 0..n - 1, k \in T PROVE k + 1 \in T
    OBVIOUS
  <2>1. k \in Nat /\ k + 1 \in 1..n /\ k + 1 \in 0..n /\ (k + 1) - 1 = k
    BY <1>1
  <2> DEFINE s == Scan(m)[k]
  <2>2. Scan(m)[k + 1] = ReadLine(m, s, k + 1) /\ Knows(m, S, s, k)
    BY <1>2, <2>1
  <2> HIDE DEF s
  <2>3. Knows(m, S, ReadLine(m, s, k + 1), k + 1)
    <3>1. CASE ~s.open /\ m[k + 1] \in Fences
      BY <1>1, <2>1, <2>2, <3>1, Opens
    <3>2. CASE s.open /\ m[k + 1] = Bare
      BY <1>1, <2>1, <2>2, <3>2, ClosesBlock
    <3>3. CASE ~(~s.open /\ m[k + 1] \in Fences) /\ ~(s.open /\ m[k + 1] = Bare)
      BY <1>1, <2>1, <2>2, <3>3, ReadsOn
    <3> QED  BY <3>1, <3>2, <3>3
  <2> QED  BY <2>1, <2>2, <2>3
<1> HIDE DEF T
<1>5. 0..n \subseteq T
  BY <1>1, <1>3, <1>4, Climb
<1>6. n \in T
  BY <1>1, <1>5
<1> QED  BY <1>6 DEF T

(* and after the last one which answer counts.                             *)
LEMMA AnswerCounts ==
  ASSUME NEW m \in Messages, Short(m), NEW S \in Splits(m)
  PROVE  LET answers == {b \in S : Decodable(m, b)}
             out     == ExtractReview(m)
         IN IF answers = {} THEN out = [summary |-> m, inline |-> FALSE]
            ELSE \E b \in answers : /\ \A c \in answers : c[1] <= b[1]
                                    /\ out = [summary |-> <<m[b[1] + 1]>>, inline |-> TRUE]
<1>1. m \in Seq(STRING) /\ Len(m) \in Nat
  <2>1. m \in Seq(STRING)
    BY TextAssumption
  <2> QED  BY <2>1, LenProperties
<1>2. Blocks(m, S)
  BY <1>1, SplitsAreBlocks
<1> DEFINE s == Scan(m)[Len(m)]
<1>3. Knows(m, S, s, Len(m))
  BY <1>1, <1>2, KnowsAlways
<1>4. AnswersBy(m, S, Len(m)) = {b \in S : Decodable(m, b)}
  <2>1. \A b \in S : Decodable(m, b) => b[2] <= Len(m)
    BY DEF Decodable
  <2> QED  BY <2>1 DEF AnswersBy
<1>5. ExtractReview(m) = IF s.found # <<>> THEN [summary |-> s.found, inline |-> TRUE]
                         ELSE [summary |-> m, inline |-> FALSE]
  BY DEF ExtractReview
<1> HIDE DEF s
<1>6. \A x : <<x>> # <<>>
  OBVIOUS
<1>7. CASE {b \in S : Decodable(m, b)} = {}
  BY <1>3, <1>4, <1>5, <1>7 DEF Knows
<1>8. CASE {b \in S : Decodable(m, b)} # {}
  <2>1. PICK b \in AnswersBy(m, S, Len(m)) :
          (\A c \in AnswersBy(m, S, Len(m)) : c[1] <= b[1]) /\ s.found = <<m[b[1] + 1]>>
    BY <1>3, <1>4, <1>8 DEF Knows
  <2>2. ExtractReview(m) = [summary |-> <<m[b[1] + 1]>>, inline |-> TRUE]
    BY <1>5, <1>6, <2>1
  <2> QED  BY <1>4, <1>8, <2>1, <2>2
<1> QED  BY <1>7, <1>8

DiffLine  == [kind : DiffKinds, old : Nat, new : Nat]
Heads     == {"@@", "bad @@"}
NewSide   == {"+", " "}
OldSide   == {"-", " "}

HeaderAt(p, k, h) == /\ h \in 0..k /\ (h = 0 \/ p[h].kind \in Heads)
                     /\ \A j \in h + 1..k : p[j].kind \notin Heads

(* The header of a line is the last one up to it.                          *)
LEMMA OneHeader ==
  ASSUME NEW p, NEW k \in Nat, NEW h, HeaderAt(p, k, h)
  PROVE  Header(p, k) = h
<1>1. ASSUME NEW g, HeaderAt(p, k, g) PROVE g = h
  <2>1. g \in 0..k /\ h \in 0..k
    BY <1>1 DEF HeaderAt
  <2>2. CASE g < h
    <3>1. h \in g + 1..k /\ h # 0
      BY <2>1, <2>2
    <3> QED  BY <1>1, <3>1 DEF HeaderAt
  <2>3. CASE h < g
    <3>1. g \in h + 1..k /\ g # 0
      BY <2>1, <2>3
    <3> QED  BY <1>1, <3>1 DEF HeaderAt
  <2> QED  BY <2>1, <2>2, <2>3
<1>2. Header(p, k) = CHOOSE g \in 0..k : HeaderAt(p, k, g)
  BY DEF Header, HeaderAt, Heads
<1>3. h \in 0..k
  BY DEF HeaderAt
<1> QED  BY <1>1, <1>2, <1>3

(* There is one, or 0.                                                     *)
LEMMA HeaderExists ==
  ASSUME NEW p, Len(p) \in Nat
  PROVE  \A k \in 0..Len(p) : HeaderAt(p, k, Header(p, k))
<1> DEFINE T == {k \in 0..Len(p) : \E h \in Nat : HeaderAt(p, k, h)}
<1>1. 0 \in T
  <2>1. HeaderAt(p, 0, 0)
    BY DEF HeaderAt
  <2> QED  BY <2>1
<1>2. \A k \in 0..Len(p) - 1 : k \in T => k + 1 \in T
  <2> SUFFICES ASSUME NEW k \in 0..Len(p) - 1, k \in T PROVE k + 1 \in T
    OBVIOUS
  <2>1. PICK h \in Nat : HeaderAt(p, k, h)
    OBVIOUS
  <2>2. k \in Nat /\ k + 1 \in 0..Len(p) /\ h \in 0..k
    BY <2>1 DEF HeaderAt
  <2>3. CASE p[k + 1].kind \in Heads
    <3>1. HeaderAt(p, k + 1, k + 1)
      BY <2>2, <2>3 DEF HeaderAt
    <3> QED  BY <2>2, <3>1
  <2>4. CASE p[k + 1].kind \notin Heads
    <3>1. HeaderAt(p, k + 1, h)
      BY <2>1, <2>2, <2>4 DEF HeaderAt
    <3> QED  BY <2>2, <3>1
  <2> QED  BY <2>3, <2>4
<1> HIDE DEF T
<1>3. 0..Len(p) \subseteq T
  BY <1>1, <1>2, Climb
<1>4. ASSUME NEW k \in 0..Len(p) PROVE HeaderAt(p, k, Header(p, k))
  <2>1. PICK h \in Nat : HeaderAt(p, k, h)
    BY <1>3 DEF T
  <2>2. k \in Nat
    OBVIOUS
  <2> QED  BY <2>1, <2>2, OneHeader
<1> QED  BY <1>4

(* The next line is its own header or has that of the line before.         *)
LEMMA HeaderNext ==
  ASSUME NEW p, Len(p) \in Nat, NEW k \in Nat, k + 1 \in 1..Len(p)
  PROVE  Header(p, k + 1) = IF p[k + 1].kind \in Heads THEN k + 1 ELSE Header(p, k)
<1>1. HeaderAt(p, k, Header(p, k)) /\ k + 1 \in Nat
  <2>1. k \in 0..Len(p)
    OBVIOUS
  <2> QED  BY <2>1, HeaderExists
<1>2. CASE p[k + 1].kind \in Heads
  <2>1. HeaderAt(p, k + 1, k + 1)
    BY <1>2 DEF HeaderAt
  <2> QED  BY <1>1, <1>2, <2>1, OneHeader
<1>3. CASE p[k + 1].kind \notin Heads
  <2>1. HeaderAt(p, k + 1, Header(p, k))
    BY <1>1, <1>3 DEF HeaderAt
  <2> QED  BY <1>1, <1>3, <2>1, OneHeader
<1> QED  BY <1>2, <1>3

(* The lines of one side between a header and a line.                      *)
Lying(p, h, k, side) == {j \in h + 1..k : p[j].kind \in side}
Count(p, h, k, side) == Cardinality(Lying(p, h, k, side))

(* The lines of one side since a header, one line later.                   *)
LEMMA SideCounted ==
  ASSUME NEW p, NEW h \in Nat, NEW k \in Nat, h <= k, NEW side
  PROVE  /\ Count(p, h, k, side) \in Nat /\ Count(p, k, k, side) = 0
         /\ Count(p, h, k + 1, side)
              = IF p[k + 1].kind \in side THEN Count(p, h, k, side) + 1 ELSE Count(p, h, k, side)
<1> DEFINE S == Lying(p, h, k + 1, side)
<1>1. \A j \in S : j \in Nat \ {0}
  BY DEF Lying
<1>2. Until(S, k) = Lying(p, h, k, side) /\ Until(S, k + 1) = S
  BY DEF Until, Lying
<1>3. k + 1 \in S <=> p[k + 1].kind \in side
  BY DEF Lying
<1>4. Lying(p, k, k, side) = {}
  BY DEF Lying
<1> HIDE DEF S
<1>5. Tally(S, k) \in Nat /\ Tally(S, k + 1) = IF k + 1 \in S THEN Tally(S, k) + 1 ELSE Tally(S, k)
  BY <1>1, Tallied
<1>6. Tally(S, k) = Count(p, h, k, side) /\ Tally(S, k + 1) = Count(p, h, k + 1, side)
  BY <1>2 DEF Tally, Count, S
<1>7. Count(p, k, k, side) = 0
  BY <1>4, Sizes DEF Count
<1> QED  BY <1>3, <1>5, <1>6, <1>7

NewNumber(p, k) == p[Header(p, k)].new + Since(p, k, NewSide)
OldNumber(p, k) == p[Header(p, k)].old + Since(p, k, OldSide)
RightOf(p, k)   == {NewNumber(p, i) : i \in Until(Shown(p, NewSide), k)}
LeftOf(p, k)    == {OldNumber(p, i) : i \in Until(Shown(p, OldSide), k)}

Indexes == [hunk : BOOLEAN, old : Int, new : Int, left : SUBSET Int, right : SUBSET Int]

(* After k lines, with h the last header: where the next line of each side *)
(* is, and the numbers of those shown so far.                              *)
InHunk(p, h) == h # 0 /\ p[h].kind = "@@"

Indexed(p, s, k) ==
  /\ s \in Indexes
  /\ s.hunk <=> InHunk(p, Header(p, k))
  /\ s.hunk => /\ s.new = p[Header(p, k)].new + Count(p, Header(p, k), k, NewSide)
               /\ s.old = p[Header(p, k)].old + Count(p, Header(p, k), k, OldSide)
  /\ s.right = RightOf(p, k) /\ s.left = LeftOf(p, k)

(* One line more.                                                          *)
LEMMA ShownNext ==
  ASSUME NEW p, Len(p) \in Nat, NEW k \in Nat, k + 1 \in 1..Len(p), NEW side
  PROVE  Until(Shown(p, side), k + 1)
           = IF p[k + 1].kind \in side /\ InHunk(p, Header(p, k + 1))
             THEN Until(Shown(p, side), k) \cup {k + 1} ELSE Until(Shown(p, side), k)
<1>1. k + 1 \in Shown(p, side) <=> p[k + 1].kind \in side /\ InHunk(p, Header(p, k + 1))
  BY DEF Shown, InHunk
<1>2. \A i \in Shown(p, side) : i \in Nat
  BY DEF Shown
<1>3. \A i \in Shown(p, side) : i <= k + 1 <=> i <= k \/ i = k + 1
  BY <1>2
<1> HIDE DEF Shown
<1>4. CASE k + 1 \in Shown(p, side)
  BY <1>1, <1>3, <1>4 DEF Until
<1>5. CASE k + 1 \notin Shown(p, side)
  BY <1>1, <1>3, <1>5 DEF Until
<1> QED  BY <1>4, <1>5

(* The numbers shown on both sides, after a line that adds none.           *)
LEMMA SidesNext ==
  ASSUME NEW p, Len(p) \in Nat, NEW k \in Nat, k + 1 \in 1..Len(p), NEW s, Indexed(p, s, k)
  PROVE  LET kind == p[k + 1].kind
             on   == kind \notin Heads /\ s.hunk
         IN /\ RightOf(p, k + 1) = IF kind \in NewSide /\ on THEN s.right \cup {s.new} ELSE s.right
            /\ LeftOf(p, k + 1)  = IF kind \in OldSide /\ on THEN s.left \cup {s.old} ELSE s.left
<1> DEFINE h == Header(p, k)  kind == p[k + 1].kind  on == kind \notin Heads /\ s.hunk
<1>1. Header(p, k + 1) = IF kind \in Heads THEN k + 1 ELSE h
  BY HeaderNext
<1>2. \A side \in {NewSide, OldSide} : kind \in side => kind \notin Heads
  BY DEF NewSide, OldSide, Heads
<1>3. ASSUME kind \notin Heads
      PROVE  \A side : Since(p, k + 1, side) = Count(p, h, k, side)
  <2>1. (k + 1) - 1 = k /\ Header(p, k + 1) = h
    BY <1>1, <1>3
  <2> QED  BY <2>1 DEF Since, Count, Lying
<1>4. ASSUME kind \in NewSide, on PROVE NewNumber(p, k + 1) = s.new
  BY <1>1, <1>3, <1>4 DEF NewNumber, Indexed
<1>5. ASSUME kind \in OldSide, on PROVE OldNumber(p, k + 1) = s.old
  BY <1>1, <1>3, <1>5 DEF OldNumber, Indexed
<1>6. \A side \in {NewSide, OldSide} :
        kind \in side => (InHunk(p, Header(p, k + 1)) <=> on)
  BY <1>1, <1>2 DEF Indexed
<1>7. s.right = RightOf(p, k) /\ s.left = LeftOf(p, k)
  BY DEF Indexed
<1>8. RightOf(p, k + 1) = IF kind \in NewSide /\ on THEN s.right \cup {s.new} ELSE s.right
  <2>1. Until(Shown(p, NewSide), k + 1) = IF kind \in NewSide /\ on THEN Until(Shown(p, NewSide), k) \cup {k + 1}
                                          ELSE Until(Shown(p, NewSide), k)
    BY <1>6, ShownNext
  <2> QED  BY <1>4, <1>7, <2>1 DEF RightOf
<1>9. LeftOf(p, k + 1) = IF kind \in OldSide /\ on THEN s.left \cup {s.old} ELSE s.left
  <2>1. Until(Shown(p, OldSide), k + 1) = IF kind \in OldSide /\ on THEN Until(Shown(p, OldSide), k) \cup {k + 1}
                                          ELSE Until(Shown(p, OldSide), k)
    BY <1>6, ShownNext
  <2> QED  BY <1>5, <1>7, <2>1 DEF LeftOf
<1> QED  BY <1>8, <1>9

(* A line of a hunk is shown, with the number counted so far.              *)
LEMMA NextShown ==
  ASSUME NEW p \in Seq(DiffLine), NEW k \in Nat, k + 1 \in 1..Len(p), NEW s, Indexed(p, s, k),
         NEW t \in Indexes, p[k + 1].kind \notin Heads, t.hunk = s.hunk,
         s.hunk => /\ t.new = IF p[k + 1].kind \in NewSide THEN s.new + 1 ELSE s.new
                   /\ t.old = IF p[k + 1].kind \in OldSide THEN s.old + 1 ELSE s.old,
         t.right = IF p[k + 1].kind \in NewSide /\ s.hunk THEN s.right \cup {s.new} ELSE s.right,
         t.left = IF p[k + 1].kind \in OldSide /\ s.hunk THEN s.left \cup {s.old} ELSE s.left
  PROVE  Indexed(p, t, k + 1)
<1> DEFINE h == Header(p, k)  kind == p[k + 1].kind
<1>1. Len(p) \in Nat
  BY LenProperties
<1>2. Header(p, k + 1) = h /\ h \in Nat /\ h <= k
  <2>1. k \in 0..Len(p)
    BY <1>1
  <2>2. HeaderAt(p, k, h)
    BY <1>1, <2>1, HeaderExists
  <2>3. h \in Nat /\ h <= k
    BY <2>2 DEF HeaderAt
  <2> QED  BY <1>1, <2>3, HeaderNext
<1>3. RightOf(p, k + 1) = t.right /\ LeftOf(p, k + 1) = t.left
  BY <1>1, SidesNext
<1>4. ASSUME s.hunk PROVE /\ t.new = p[h].new + Count(p, h, k + 1, NewSide)
                          /\ t.old = p[h].old + Count(p, h, k + 1, OldSide)
  <2>1. p[h].new \in Nat /\ p[h].old \in Nat
    <3>1. h \in 1..Len(p)
      BY <1>1, <1>2, <1>4 DEF Indexed, InHunk
    <3>2. p[h] \in DiffLine
      BY <3>1, ElementOfSeq
    <3> QED  BY <3>2 DEF DiffLine
  <2>2. \A side : /\ Count(p, h, k, side) \in Nat
                  /\ Count(p, h, k + 1, side) = IF kind \in side THEN Count(p, h, k, side) + 1 ELSE Count(p, h, k, side)
    BY <1>2, SideCounted
  <2>3. s.new = p[h].new + Count(p, h, k, NewSide) /\ s.old = p[h].old + Count(p, h, k, OldSide)
    BY <1>4 DEF Indexed
  <2>4. t.new = IF kind \in NewSide THEN s.new + 1 ELSE s.new
    BY <1>4
  <2>5. t.old = IF kind \in OldSide THEN s.old + 1 ELSE s.old
    BY <1>4
  <2> HIDE DEF h, kind
  <2>6. t.new = p[h].new + Count(p, h, k + 1, NewSide)
    <3>1. /\ Count(p, h, k, NewSide) \in Nat
          /\ Count(p, h, k + 1, NewSide) = IF kind \in NewSide THEN Count(p, h, k, NewSide) + 1 ELSE Count(p, h, k, NewSide)
      BY <2>2
    <3> QED  BY <2>1, <2>3, <2>4, <3>1
  <2>7. t.old = p[h].old + Count(p, h, k + 1, OldSide)
    <3>1. /\ Count(p, h, k, OldSide) \in Nat
          /\ Count(p, h, k + 1, OldSide) = IF kind \in OldSide THEN Count(p, h, k, OldSide) + 1 ELSE Count(p, h, k, OldSide)
      BY <2>2
    <3> QED  BY <2>1, <2>3, <2>5, <3>1
  <2> QED  BY <2>6, <2>7
<1>5. t.hunk <=> InHunk(p, h)
  BY DEF Indexed
<1> QED  BY <1>2, <1>3, <1>4, <1>5 DEF Indexed

(* Each line of a patch keeps the index exact,                             *)
LEMMA IndexedNext ==
  ASSUME NEW p \in Seq(DiffLine), NEW k \in Nat, k + 1 \in 1..Len(p), NEW s, Indexed(p, s, k)
  PROVE  Indexed(p, ReadDiffLine(s, p[k + 1]), k + 1)
<1> DEFINE line == p[k + 1]  t == ReadDiffLine(s, line)
<1>1. line \in DiffLine /\ Len(p) \in Nat
  BY ElementOfSeq, LenProperties
<1>2. line.kind \in DiffKinds /\ line.old \in Nat /\ line.new \in Nat
  BY <1>1 DEF DiffLine
<1>3. s \in Indexes /\ s.hunk \in BOOLEAN
  BY DEF Indexed, Indexes
<1>11. s.new \in Int /\ s.old \in Int /\ s.right \in SUBSET Int /\ s.left \in SUBSET Int
  BY <1>3 DEF Indexes
<1>4. ASSUME line.kind \in Heads, t \in Indexes, t.right = s.right, t.left = s.left,
             t.hunk <=> line.kind = "@@", t.hunk => t.new = line.new /\ t.old = line.old
      PROVE  Indexed(p, t, k + 1)
  <2>1. Header(p, k + 1) = k + 1
    BY <1>1, <1>4, HeaderNext
  <2>2. line.kind \notin NewSide /\ line.kind \notin OldSide
    BY <1>4 DEF Heads, NewSide, OldSide
  <2>3. RightOf(p, k + 1) = s.right /\ LeftOf(p, k + 1) = s.left
    BY <1>1, <2>2, SidesNext
  <2>4. \A side : Count(p, k + 1, k + 1, side) = 0
    BY SideCounted
  <2>5. t.hunk <=> InHunk(p, k + 1)
    BY <1>4 DEF InHunk
  <2>6. t.hunk => /\ t.new = p[k + 1].new + Count(p, k + 1, k + 1, NewSide)
                  /\ t.old = p[k + 1].old + Count(p, k + 1, k + 1, OldSide)
    BY <1>2, <1>4, <2>4
  <2> HIDE DEF t
  <2>7. t.right = RightOf(p, k + 1) /\ t.left = LeftOf(p, k + 1)
    BY <1>4, <2>3
  <2> QED  BY <1>4, <2>1, <2>5, <2>6, <2>7 DEF Indexed
<1> HIDE DEF line
<1>5. CASE line.kind = "@@"
  <2>1. t = [s EXCEPT !.hunk = TRUE, !.old = line.old, !.new = line.new]
    BY <1>5 DEF ReadDiffLine
  <2>2. t \in Indexes /\ t.right = s.right /\ t.left = s.left /\ t.hunk = TRUE /\ t.new = line.new /\ t.old = line.old
    <3>1. PICK o \in Int : o = line.old
      BY <1>2
    <3>2. PICK n \in Int : n = line.new
      BY <1>2
    <3>3. t = [s EXCEPT !.hunk = TRUE, !.old = o, !.new = n]
      BY <2>1, <3>1, <3>2
    <3> HIDE DEF t
    <3>4. t \in Indexes /\ t.right = s.right /\ t.left = s.left /\ t.hunk = TRUE /\ t.new = n /\ t.old = o
      BY <1>3, <3>3 DEF Indexes
    <3> QED  BY <3>1, <3>2, <3>4
  <2> HIDE DEF t
  <2>3. Indexed(p, t, k + 1)
    BY <1>4, <1>5, <2>2 DEF Heads
  <2> QED  BY <2>3 DEF t, line
<1>6. CASE line.kind = "bad @@"
  <2>1. t = [s EXCEPT !.hunk = FALSE]
    BY <1>6 DEF ReadDiffLine
  <2>2. t \in Indexes /\ t.right = s.right /\ t.left = s.left /\ t.hunk = FALSE
    BY <1>3, <2>1 DEF Indexes
  <2> HIDE DEF t
  <2>3. Indexed(p, t, k + 1)
    BY <1>4, <1>6, <2>2 DEF Heads
  <2> QED  BY <2>3 DEF t, line
<1>7. CASE line.kind \notin Heads /\ (~s.hunk \/ line.kind = "no newline")
  <2>1. t = s
    BY <1>2, <1>3, <1>7 DEF ReadDiffLine, Heads, DiffKinds
  <2>2. s.hunk => line.kind \notin NewSide /\ line.kind \notin OldSide
    BY <1>7 DEF NewSide, OldSide
  <2>3. Indexed(p, t, k + 1)
    BY <1>3, <1>7, <2>1, <2>2, NextShown DEF line
  <2> QED  BY <2>3 DEF line
<1>8. CASE s.hunk /\ line.kind = "+"
  <2>1. t = [s EXCEPT !.right = @ \cup {s.new}, !.new = @ + 1]
    BY <1>8 DEF ReadDiffLine
  <2>2. /\ t \in Indexes /\ t.hunk = s.hunk /\ t.new = s.new + 1 /\ t.old = s.old
        /\ t.right = s.right \cup {s.new} /\ t.left = s.left
    <3>1. PICK n \in Int : n = s.new + 1
      BY <1>11
    <3>2. PICK r \in SUBSET Int : r = s.right \cup {s.new}
      BY <1>11
    <3>3. t = [s EXCEPT !.right = r, !.new = n]
      BY <2>1, <3>1, <3>2
    <3> HIDE DEF t
    <3>4. t \in Indexes /\ t.hunk = s.hunk /\ t.new = n /\ t.old = s.old /\ t.right = r /\ t.left = s.left
      BY <1>3, <3>3 DEF Indexes
    <3> QED  BY <3>1, <3>2, <3>4
  <2> HIDE DEF t
  <2>3. line.kind \notin Heads /\ line.kind \in NewSide /\ line.kind \notin OldSide
    BY <1>8 DEF Heads, NewSide, OldSide
  <2>4. Indexed(p, t, k + 1)
    BY <1>8, <2>2, <2>3, NextShown DEF line
  <2> QED  BY <2>4 DEF t, line
<1>9. CASE s.hunk /\ line.kind = "-"
  <2>1. t = [s EXCEPT !.left = @ \cup {s.old}, !.old = @ + 1]
    BY <1>9 DEF ReadDiffLine
  <2>2. /\ t \in Indexes /\ t.hunk = s.hunk /\ t.new = s.new /\ t.old = s.old + 1
        /\ t.right = s.right /\ t.left = s.left \cup {s.old}
    <3>1. PICK o \in Int : o = s.old + 1
      BY <1>11
    <3>2. PICK l \in SUBSET Int : l = s.left \cup {s.old}
      BY <1>11
    <3>3. t = [s EXCEPT !.left = l, !.old = o]
      BY <2>1, <3>1, <3>2
    <3> HIDE DEF t
    <3>4. t \in Indexes /\ t.hunk = s.hunk /\ t.new = s.new /\ t.old = o /\ t.right = s.right /\ t.left = l
      BY <1>3, <3>3 DEF Indexes
    <3> QED  BY <3>1, <3>2, <3>4
  <2> HIDE DEF t
  <2>3. line.kind \notin Heads /\ line.kind \notin NewSide /\ line.kind \in OldSide
    BY <1>9 DEF Heads, NewSide, OldSide
  <2>4. Indexed(p, t, k + 1)
    BY <1>9, <2>2, <2>3, NextShown DEF line
  <2> QED  BY <2>4 DEF t, line
<1>10. CASE s.hunk /\ line.kind = " "
  <2>1. t = [s EXCEPT !.right = @ \cup {s.new}, !.left = @ \cup {s.old}, !.new = @ + 1, !.old = @ + 1]
    BY <1>10 DEF ReadDiffLine, Context
  <2>2. /\ t \in Indexes /\ t.hunk = s.hunk /\ t.new = s.new + 1 /\ t.old = s.old + 1
        /\ t.right = s.right \cup {s.new} /\ t.left = s.left \cup {s.old}
    <3>1. PICK o \in Int : o = s.old + 1
      BY <1>11
    <3>2. PICK n \in Int : n = s.new + 1
      BY <1>11
    <3>3. PICK l \in SUBSET Int : l = s.left \cup {s.old}
      BY <1>11
    <3>4. PICK r \in SUBSET Int : r = s.right \cup {s.new}
      BY <1>11
    <3>5. t = [s EXCEPT !.right = r, !.left = l, !.new = n, !.old = o]
      BY <2>1, <3>1, <3>2, <3>3, <3>4
    <3> HIDE DEF t
    <3>6. t \in Indexes /\ t.hunk = s.hunk /\ t.new = n /\ t.old = o /\ t.right = r /\ t.left = l
      BY <1>3, <3>5 DEF Indexes
    <3> QED  BY <3>1, <3>2, <3>3, <3>4, <3>6
  <2> HIDE DEF t
  <2>3. line.kind \notin Heads /\ line.kind \in NewSide /\ line.kind \in OldSide
    BY <1>10 DEF Heads, NewSide, OldSide
  <2>4. Indexed(p, t, k + 1)
    BY <1>10, <2>2, <2>3, NextShown DEF line
  <2> QED  BY <2>4 DEF t, line
<1> QED  BY <1>2, <1>3, <1>5, <1>6, <1>7, <1>8, <1>9, <1>10 DEF DiffKinds, Heads

(* so it is exact at the end of every patch.                               *)
LEMMA IndexExact ==
  ASSUME NEW p \in Patches
  PROVE  /\ Index(p).right = {p[Header(p, k)].new + Since(p, k, {"+", " "}) : k \in Shown(p, {"+", " "})}
         /\ Index(p).left  = {p[Header(p, k)].old + Since(p, k, {"-", " "}) : k \in Shown(p, {"-", " "})}
<1> DEFINE n == Len(p)
           T == {k \in 0..n : Indexed(p, Walk(p)[k], k)}
<1>1. p \in Seq(DiffLine) /\ n \in Nat
  <2>1. p \in Seq(DiffLine)
    BY TextAssumption DEF DiffLine
  <2> QED  BY <2>1, LenProperties
<1>2. Walk(p)[0] = Outside /\ \A i \in 1..n : Walk(p)[i] = ReadDiffLine(Walk(p)[i - 1], p[i])
  BY <1>1, Walks
<1>3. 0 \in T
  <2>1. HeaderAt(p, 0, 0)
    BY DEF HeaderAt
  <2>2. Header(p, 0) = 0
    BY <2>1, OneHeader
  <2>3. \A side : Until(Shown(p, side), 0) = {}
    BY <1>1 DEF Until, Shown
  <2>4. RightOf(p, 0) = {} /\ LeftOf(p, 0) = {}
    BY <2>3 DEF RightOf, LeftOf
  <2>5. Outside \in Indexes /\ Outside.hunk = FALSE /\ Outside.right = {} /\ Outside.left = {}
    BY DEF Outside, Indexes
  <2>6. Indexed(p, Outside, 0)
    BY <2>2, <2>4, <2>5 DEF Indexed, InHunk
  <2> QED  BY <1>1, <1>2, <2>6
<1>4. \A k \in 0..n - 1 : k \in T => k + 1 \in T
  <2> SUFFICES ASSUME NEW k \in 0..n - 1, k \in T PROVE k + 1 \in T
    OBVIOUS
  <2>1. k \in Nat /\ k + 1 \in 1..n /\ k + 1 \in 0..n /\ (k + 1) - 1 = k
    BY <1>1
  <2>2. Walk(p)[k + 1] = ReadDiffLine(Walk(p)[k], p[k + 1]) /\ Indexed(p, Walk(p)[k], k)
    BY <1>2, <2>1
  <2>3. Indexed(p, ReadDiffLine(Walk(p)[k], p[k + 1]), k + 1)
    BY <1>1, <2>1, <2>2, IndexedNext
  <2> QED  BY <2>1, <2>2, <2>3
<1> HIDE DEF T
<1>5. 0..n \subseteq T
  BY <1>1, <1>3, <1>4, Climb
<1>6. Indexed(p, Index(p), n)
  BY <1>1, <1>5 DEF T, Index
<1>7. \A side : Until(Shown(p, side), n) = Shown(p, side)
  BY <1>1 DEF Until, Shown
<1>8. /\ RightOf(p, n) = {NewNumber(p, k) : k \in Shown(p, NewSide)}
      /\ LeftOf(p, n) = {OldNumber(p, k) : k \in Shown(p, OldSide)}
  BY <1>7 DEF RightOf, LeftOf
<1>9. Index(p).right = RightOf(p, n) /\ Index(p).left = LeftOf(p, n)
  BY <1>6 DEF Indexed
<1> QED  BY <1>8, <1>9 DEF NewNumber, OldNumber, NewSide, OldSide

(* Where the runes of a string end, in bytes.                              *)
Width      == 1..4
RuneEnd(w, k)  == Len(Encoding(w)[k])

(* A rune starts with its first byte.                                      *)
LEMMA RuneBytes ==
  ASSUME NEW width \in Width
  PROVE  Rune(width) \in Seq(BOOLEAN) /\ Len(Rune(width)) = width /\ \A b \in 1..width : Rune(width)[b] <=> b = 1
<1>1. width \in Nat
  BY DEF Width
<1>2. Rune(width) \in [1..width -> BOOLEAN]
  BY DEF Rune
<1>3. Rune(width) \in Seq(BOOLEAN) /\ Len(Rune(width)) = width
  BY <1>1, <1>2
<1> QED  BY <1>3 DEF Rune

(* Each rune appends its bytes.                                            *)
LEMMA EncodingGrows ==
  ASSUME NEW w \in Seq(Width)
  PROVE  /\ \A k \in 0..Len(w) : Encoding(w)[k] \in Seq(BOOLEAN) /\ RuneEnd(w, k) \in Nat
         /\ Encoding(w)[0] = <<>> /\ RuneEnd(w, 0) = 0
         /\ \A k \in 0..Len(w) - 1 :
              /\ w[k + 1] \in Width /\ RuneEnd(w, k + 1) = RuneEnd(w, k) + w[k + 1]
              /\ Encoding(w)[k + 1] = Encoding(w)[k] \o Rune(w[k + 1])
              /\ \A b \in 1..RuneEnd(w, k) : Encoding(w)[k + 1][b] = Encoding(w)[k][b]
              /\ \A b \in 1..w[k + 1] : Encoding(w)[k + 1][RuneEnd(w, k) + b] = Rune(w[k + 1])[b]
<1> DEFINE N == Len(w)
           T == {k \in 0..N : Encoding(w)[k] \in Seq(BOOLEAN)}
<1>1. N \in Nat
  BY LenProperties
<1>2. Encoding(w)[0] = <<>> /\ \A i \in 1..N : Encoding(w)[i] = Encoding(w)[i - 1] \o Rune(w[i])
  BY <1>1, Encodes
<1>3. ASSUME NEW k \in 0..N - 1
      PROVE  w[k + 1] \in Width /\ Encoding(w)[k + 1] = Encoding(w)[k] \o Rune(w[k + 1])
  <2>1. k + 1 \in 1..N /\ (k + 1) - 1 = k
    BY <1>1
  <2>2. w[k + 1] \in Width
    BY <2>1, ElementOfSeq
  <2> QED  BY <1>2, <2>1, <2>2
<1>4. 0 \in T
  <2>1. <<>> \in Seq(BOOLEAN)
    BY EmptySeq
  <2>2. Encoding(w)[0] \in Seq(BOOLEAN)
    BY <1>2, <2>1, Zenon
  <2> QED  BY <1>1, <2>2
<1>5. \A k \in 0..N - 1 : k \in T => k + 1 \in T
  <2> SUFFICES ASSUME NEW k \in 0..N - 1, k \in T PROVE k + 1 \in T
    OBVIOUS
  <2>1. Encoding(w)[k] \in Seq(BOOLEAN) /\ Rune(w[k + 1]) \in Seq(BOOLEAN)
    BY <1>3, RuneBytes
  <2>2. Encoding(w)[k + 1] \in Seq(BOOLEAN)
    BY <1>3, <2>1, ConcatProperties
  <2> QED  BY <1>1, <2>2
<1> HIDE DEF T
<1>6. 0..N \subseteq T
  BY <1>1, <1>4, <1>5, Climb
<1>7. \A k \in 0..N : Encoding(w)[k] \in Seq(BOOLEAN) /\ RuneEnd(w, k) \in Nat
  <2>1. \A k \in 0..N : Encoding(w)[k] \in Seq(BOOLEAN)
    BY <1>6 DEF T
  <2>2. \A s \in Seq(BOOLEAN) : Len(s) \in Nat
    BY LenProperties
  <2> QED  BY <2>1, <2>2 DEF RuneEnd
<1>8. ASSUME NEW k \in 0..N - 1
      PROVE  /\ RuneEnd(w, k + 1) = RuneEnd(w, k) + w[k + 1]
             /\ \A b \in 1..RuneEnd(w, k) : Encoding(w)[k + 1][b] = Encoding(w)[k][b]
             /\ \A b \in 1..w[k + 1] : Encoding(w)[k + 1][RuneEnd(w, k) + b] = Rune(w[k + 1])[b]
  <2> DEFINE s == Encoding(w)[k]  r == Rune(w[k + 1])
  <2>1. s \in Seq(BOOLEAN) /\ r \in Seq(BOOLEAN) /\ Len(r) = w[k + 1] /\ w[k + 1] \in Nat /\ Len(s) \in Nat
    <3>1. k \in 0..N
      BY <1>1
    <3>2. s \in Seq(BOOLEAN) /\ Len(s) \in Nat
      BY <1>7, <3>1 DEF RuneEnd
    <3>3. w[k + 1] \in Width
      BY <1>3
    <3>4. w[k + 1] \in Nat
      BY <3>3 DEF Width
    <3>5. r \in Seq(BOOLEAN) /\ Len(r) = w[k + 1]
      BY <3>3, RuneBytes
    <3> QED  BY <3>2, <3>4, <3>5
  <2>2. Encoding(w)[k + 1] = s \o r
    BY <1>3
  <2> HIDE DEF s, r
  <2>3. /\ Len(s \o r) = Len(s) + Len(r)
        /\ \A i \in 1..Len(s) + Len(r) : (s \o r)[i] = IF i <= Len(s) THEN s[i] ELSE r[i - Len(s)]
    BY <2>1, ConcatProperties
  <2>4. \A b \in 1..Len(s) : (s \o r)[b] = s[b]
    BY <2>1, <2>3
  <2>5. \A b \in 1..Len(r) : (s \o r)[Len(s) + b] = r[b]
    <3> SUFFICES ASSUME NEW b \in 1..Len(r) PROVE (s \o r)[Len(s) + b] = r[b]
      OBVIOUS
    <3>1. Len(s) + b \in 1..Len(s) + Len(r) /\ ~(Len(s) + b <= Len(s)) /\ (Len(s) + b) - Len(s) = b
      BY <2>1
    <3> QED  BY <2>3, <3>1
  <2>6. RuneEnd(w, k) = Len(s) /\ RuneEnd(w, k + 1) = Len(s \o r)
    BY <2>2 DEF RuneEnd, s
  <2> QED  BY <2>1, <2>2, <2>3, <2>4, <2>5, <2>6 DEF s, r
<1> QED  BY <1>2, <1>3, <1>7, <1>8, EmptySeq DEF RuneEnd

(* A later rune ends later.                                                *)
LEMMA RuneEndGrows ==
  ASSUME NEW w \in Seq(Width), NEW i \in 0..Len(w)
  PROVE  \A k \in 0..Len(w) : i <= k => /\ RuneEnd(w, i) + (k - i) <= RuneEnd(w, k)
                                        /\ \A b \in 1..RuneEnd(w, i) : Encoding(w)[k][b] = Encoding(w)[i][b]
<1> DEFINE N == Len(w)
           Ahead(k) == i <= k => /\ RuneEnd(w, i) + (k - i) <= RuneEnd(w, k)
                                /\ \A b \in 1..RuneEnd(w, i) : Encoding(w)[k][b] = Encoding(w)[i][b]
           T == {k \in 0..N : Ahead(k)}
<1>1. N \in Nat
  BY LenProperties
<1>2. 0 \in T
  <2>1. RuneEnd(w, 0) = 0
    BY EncodingGrows
  <2>2. i <= 0 => i = 0
    BY <1>1
  <2>3. 0 + (0 - 0) <= 0
    OBVIOUS
  <2> QED  BY <1>1, <2>1, <2>2, <2>3
<1>3. \A k \in 0..N - 1 : k \in T => k + 1 \in T
  <2> SUFFICES ASSUME NEW k \in 0..N - 1, k \in T PROVE k + 1 \in T
    OBVIOUS
  <2>1. k \in 0..N /\ k + 1 \in 0..N
    BY <1>1
  <2>2. /\ RuneEnd(w, i) \in Nat /\ RuneEnd(w, k) \in Nat /\ RuneEnd(w, k + 1) \in Nat /\ w[k + 1] \in 1..4
        /\ RuneEnd(w, k + 1) = RuneEnd(w, k) + w[k + 1]
        /\ \A b \in 1..RuneEnd(w, k) : Encoding(w)[k + 1][b] = Encoding(w)[k][b]
    BY <2>1, EncodingGrows DEF Width
  <2>3. CASE i <= k
    <3>1. /\ RuneEnd(w, i) + (k - i) <= RuneEnd(w, k)
          /\ \A b \in 1..RuneEnd(w, i) : Encoding(w)[k][b] = Encoding(w)[i][b]
      BY <2>3
    <3>2. RuneEnd(w, i) + ((k + 1) - i) <= RuneEnd(w, k + 1) /\ RuneEnd(w, i) <= RuneEnd(w, k)
      BY <1>1, <2>2, <2>3, <3>1
    <3>3. \A b \in 1..RuneEnd(w, i) : Encoding(w)[k + 1][b] = Encoding(w)[i][b]
      BY <2>2, <3>1, <3>2
    <3> QED  BY <2>1, <3>2, <3>3
  <2>4. CASE i = k + 1
    BY <2>1, <2>2, <2>4
  <2>5. CASE i > k + 1
    BY <2>1, <2>5
  <2> QED  BY <2>3, <2>4, <2>5
<1> HIDE DEF T
<1>4. 0..N \subseteq T
  BY <1>1, <1>2, <1>3, Climb
<1> QED  BY <1>4 DEF T

(* A byte starts a rune just where the one before it ends.                 *)
LEMMA Starts ==
  ASSUME NEW w \in Seq(Width)
  PROVE  \A k \in 0..Len(w) : \A b \in 1..RuneEnd(w, k) : Encoding(w)[k][b] <=> \E j \in 0..k - 1 : b = RuneEnd(w, j) + 1
<1> DEFINE N == Len(w)
           Right(k) == \A b \in 1..RuneEnd(w, k) : Encoding(w)[k][b] <=> \E j \in 0..k - 1 : b = RuneEnd(w, j) + 1
           T == {k \in 0..N : Right(k)}
<1>1. N \in Nat
  BY LenProperties
<1>2. 0 \in T
  <2>1. RuneEnd(w, 0) = 0
    BY EncodingGrows
  <2> QED  BY <1>1, <2>1
<1>3. \A k \in 0..N - 1 : k \in T => k + 1 \in T
  <2> SUFFICES ASSUME NEW k \in 0..N - 1, k \in T PROVE k + 1 \in T
    OBVIOUS
  <2>1. k \in 0..N /\ k + 1 \in 0..N
    BY <1>1
  <2>2. /\ RuneEnd(w, k) \in Nat /\ w[k + 1] \in Width
        /\ RuneEnd(w, k + 1) = RuneEnd(w, k) + w[k + 1]
        /\ \A b \in 1..RuneEnd(w, k) : Encoding(w)[k + 1][b] = Encoding(w)[k][b]
        /\ \A b \in 1..w[k + 1] : Encoding(w)[k + 1][RuneEnd(w, k) + b] = Rune(w[k + 1])[b]
    BY <2>1, EncodingGrows
  <2>3. \A j \in 0..k - 1 : RuneEnd(w, j) \in Nat /\ RuneEnd(w, j) + 1 <= RuneEnd(w, k)
    <3> SUFFICES ASSUME NEW j \in 0..k - 1 PROVE RuneEnd(w, j) \in Nat /\ RuneEnd(w, j) + 1 <= RuneEnd(w, k)
      OBVIOUS
    <3>1. j \in 0..N /\ j <= k /\ k - j >= 1
      BY <1>1
    <3>2. RuneEnd(w, j) \in Nat /\ RuneEnd(w, j) + (k - j) <= RuneEnd(w, k)
      BY <2>1, <3>1, EncodingGrows, RuneEndGrows
    <3> QED  BY <2>2, <3>1, <3>2
  <2>4. Right(k + 1)
    <3> SUFFICES ASSUME NEW b \in 1..RuneEnd(w, k + 1)
                 PROVE  Encoding(w)[k + 1][b] <=> \E j \in 0..k : b = RuneEnd(w, j) + 1
      BY <2>1
    <3>1. CASE b <= RuneEnd(w, k)
      <4>1. b \in 1..RuneEnd(w, k)
        BY <2>2, <3>1
      <4>2. Encoding(w)[k + 1][b] = Encoding(w)[k][b] /\ (Encoding(w)[k][b] <=> \E j \in 0..k - 1 : b = RuneEnd(w, j) + 1)
        BY <2>2, <4>1
      <4>3. b # RuneEnd(w, k) + 1
        BY <2>2, <3>1
      <4>4. (\E j \in 0..k - 1 : b = RuneEnd(w, j) + 1) <=> (\E j \in 0..k : b = RuneEnd(w, j) + 1)
        BY <4>3
      <4> QED  BY <4>2, <4>4, Zenon
    <3>2. CASE ~(b <= RuneEnd(w, k))
      <4>1. PICK a \in 1..w[k + 1] : b = RuneEnd(w, k) + a
        <5>1. w[k + 1] \in Nat
          BY <2>2 DEF Width
        <5>2. b - RuneEnd(w, k) \in 1..w[k + 1] /\ b = RuneEnd(w, k) + (b - RuneEnd(w, k))
          BY <2>2, <3>2, <5>1
        <5> QED  BY <5>2
      <4>2. Encoding(w)[k + 1][b] = Rune(w[k + 1])[a]
        BY <2>2, <4>1
      <4>3. Rune(w[k + 1])[a] <=> a = 1
        BY <2>2, RuneBytes
      <4>4. a = 1 <=> \E j \in 0..k : b = RuneEnd(w, j) + 1
        <5>1. k \in 0..k /\ a \in Int
          OBVIOUS
        <5>2. ASSUME NEW j \in 0..k, b = RuneEnd(w, j) + 1 PROVE j = k
          BY <2>2, <2>3, <3>2, <5>2
        <5>3. a = 1 => b = RuneEnd(w, k) + 1
          BY <4>1
        <5>4. b = RuneEnd(w, k) + 1 => a = 1
          BY <2>2, <4>1
        <5> QED  BY <5>1, <5>2, <5>3, <5>4
      <4> QED  BY <4>2, <4>3, <4>4, Zenon
    <3> QED  BY <3>1, <3>2
  <2> QED  BY <2>1, <2>4
<1> HIDE DEF T
<1>4. 0..N \subseteq T
  BY <1>1, <1>2, <1>3, Climb
<1> QED  BY <1>4 DEF T

(* The first n runes.                                                      *)
LEMMA FirstRunes ==
  ASSUME NEW w \in Seq(Width), NEW n \in 0..Len(w)
  PROVE  Bytes(SubSeq(w, 1, n)) = Encoding(w)[n]
<1> DEFINE v == SubSeq(w, 1, n)
           T == {k \in 0..n : Encoding(v)[k] = Encoding(w)[k]}
<1>1. Len(w) \in Nat /\ n \in Nat /\ n <= Len(w)
  <2>1. Len(w) \in Nat
    BY LenProperties
  <2> QED  BY <2>1
<1>2. v \in Seq(Width) /\ Len(v) = n /\ \A i \in 1..n : v[i] = w[i]
  <2>1. \A i \in 1..n : w[i] \in Width
    BY <1>1, ElementOfSeq
  <2>2. /\ v \in Seq(Width) /\ Len(v) = IF 1 <= n THEN n - 1 + 1 ELSE 0
        /\ \A i \in 1..n - 1 + 1 : v[i] = w[1 + i - 1]
    BY <1>1, <2>1, SubSeqProperties
  <2> HIDE DEF v
  <2>3. n - 1 + 1 = n /\ (~(1 <= n) => n = 0) /\ \A i \in 1..n : 1 + i - 1 = i
    BY <1>1
  <2> QED  BY <2>2, <2>3
<1> HIDE DEF v
<1>3. /\ Encoding(w)[0] = <<>> /\ Encoding(v)[0] = <<>>
      /\ \A k \in 0..Len(w) - 1 : Encoding(w)[k + 1] = Encoding(w)[k] \o Rune(w[k + 1])
      /\ \A k \in 0..Len(v) - 1 : Encoding(v)[k + 1] = Encoding(v)[k] \o Rune(v[k + 1])
  BY <1>2, EncodingGrows
<1>4. 0 \in T
  BY <1>1, <1>3
<1>5. \A k \in 0..n - 1 : k \in T => k + 1 \in T
  <2> SUFFICES ASSUME NEW k \in 0..n - 1, k \in T PROVE k + 1 \in T
    OBVIOUS
  <2>1. k \in 0..Len(w) - 1 /\ k \in 0..Len(v) - 1 /\ k + 1 \in 1..n /\ k + 1 \in 0..n
    BY <1>1, <1>2
  <2>2. Encoding(v)[k + 1] = Encoding(w)[k + 1]
    BY <1>2, <1>3, <2>1
  <2> QED  BY <2>1, <2>2
<1> HIDE DEF T
<1>6. 0..n \subseteq T
  BY <1>1, <1>4, <1>5, Climb
<1>7. Encoding(v)[n] = Encoding(w)[n]
  BY <1>1, <1>6 DEF T
<1> QED  BY <1>2, <1>7 DEF Bytes, v

(* The runes after the first n.                                            *)
LEMMA LaterRunes ==
  ASSUME NEW w \in Seq(Width), NEW n \in 0..Len(w)
  PROVE  LET v == SubSeq(w, n + 1, Len(w))
         IN /\ Bytes(v) \in Seq(BOOLEAN) /\ Len(Bytes(v)) = RuneEnd(w, Len(w)) - RuneEnd(w, n)
            /\ \A b \in 1..RuneEnd(w, Len(w)) - RuneEnd(w, n) : Bytes(v)[b] = Bytes(w)[RuneEnd(w, n) + b]
<1> DEFINE N == Len(w)  v == SubSeq(w, n + 1, N)  B == Bytes(w)
           Same(k) == /\ RuneEnd(v, k) = RuneEnd(w, n + k) - RuneEnd(w, n)
                      /\ \A b \in 1..RuneEnd(w, n + k) - RuneEnd(w, n) : Encoding(v)[k][b] = B[RuneEnd(w, n) + b]
           T == {k \in 0..N - n : Same(k)}
<1>1. N \in Nat /\ n \in Nat /\ n <= N /\ N - n \in Nat
  <2>1. N \in Nat
    BY LenProperties
  <2> QED  BY <2>1
<1>2. v \in Seq(Width) /\ Len(v) = N - n /\ \A i \in 1..N - n : v[i] = w[n + i]
  <2>1. \A i \in n + 1..N : w[i] \in Width
    BY <1>1, ElementOfSeq
  <2>2. /\ v \in Seq(Width) /\ Len(v) = IF n + 1 <= N THEN N - (n + 1) + 1 ELSE 0
        /\ \A i \in 1..N - (n + 1) + 1 : v[i] = w[n + 1 + i - 1]
    BY <1>1, <2>1, SubSeqProperties
  <2> HIDE DEF v, N
  <2>3. N - (n + 1) + 1 = N - n /\ (~(n + 1 <= N) => N - n = 0) /\ \A i \in 1..N - n : n + 1 + i - 1 = n + i
    BY <1>1
  <2> QED  BY <2>2, <2>3
<1> HIDE DEF v
<1>3. /\ \A k \in 0..N : RuneEnd(w, k) \in Nat
      /\ \A k \in 0..N - 1 :
           /\ w[k + 1] \in Width /\ RuneEnd(w, k + 1) = RuneEnd(w, k) + w[k + 1]
           /\ \A b \in 1..w[k + 1] : Encoding(w)[k + 1][RuneEnd(w, k) + b] = Rune(w[k + 1])[b]
  BY EncodingGrows
<1>4. /\ RuneEnd(v, 0) = 0
      /\ \A k \in 0..Len(v) : Encoding(v)[k] \in Seq(BOOLEAN)
      /\ \A k \in 0..Len(v) - 1 :
           /\ RuneEnd(v, k + 1) = RuneEnd(v, k) + v[k + 1]
           /\ \A b \in 1..RuneEnd(v, k) : Encoding(v)[k + 1][b] = Encoding(v)[k][b]
           /\ \A b \in 1..v[k + 1] : Encoding(v)[k + 1][RuneEnd(v, k) + b] = Rune(v[k + 1])[b]
  BY <1>2, EncodingGrows
<1>5. 0 \in T
  <2>1. RuneEnd(w, n) \in Nat /\ n + 0 = n
    BY <1>1, <1>3
  <2>2. RuneEnd(w, n + 0) - RuneEnd(w, n) = 0
    BY <2>1
  <2> QED  BY <1>1, <1>4, <2>2
<1>6. \A k \in 0..N - n - 1 : k \in T => k + 1 \in T
  <2> SUFFICES ASSUME NEW k \in 0..N - n - 1, k \in T PROVE k + 1 \in T
    OBVIOUS
  <2>1. /\ k \in Nat /\ n + k \in 0..N - 1 /\ (n + k) + 1 \in 0..N /\ n + k \in 0..N
        /\ k \in 0..Len(v) - 1 /\ k + 1 \in 1..N - n /\ n + (k + 1) = (n + k) + 1 /\ k + 1 \in 0..N - n
    BY <1>1, <1>2
  <2>2. v[k + 1] = w[(n + k) + 1]
    BY <1>2, <2>1
  <2> DEFINE z == w[(n + k) + 1]  p == RuneEnd(w, n + k)  o == RuneEnd(w, n)
  <2>3. p \in Nat /\ o \in Nat /\ z \in Nat /\ RuneEnd(w, (n + k) + 1) = p + z
    <3>1. z \in Width /\ RuneEnd(w, (n + k) + 1) = p + z
      BY <1>3, <2>1
    <3>2. p \in Nat /\ o \in Nat
      BY <1>3, <2>1
    <3> HIDE DEF z
    <3> QED  BY <3>1, <3>2 DEF Width
  <2>4. RuneEnd(v, k) = p - o /\ \A b \in 1..p - o : Encoding(v)[k][b] = B[o + b]
    OBVIOUS
  <2>5. RuneEnd(v, k + 1) = p - o + z
    BY <1>4, <2>1, <2>2, <2>4
  <2>6. \A b \in 1..p + z : Encoding(w)[(n + k) + 1][b] = B[b]
    <3>1. (n + k) + 1 <= N /\ N \in 0..N
      BY <1>1, <2>1
    <3>2. \A b \in 1..RuneEnd(w, (n + k) + 1) : Encoding(w)[N][b] = Encoding(w)[(n + k) + 1][b]
      BY <2>1, <3>1, RuneEndGrows
    <3> QED  BY <2>3, <3>2 DEF Bytes
  <2>7. \A b \in 1..p - o : Encoding(v)[k + 1][b] = B[o + b]
    BY <1>4, <2>1, <2>4
  <2>8. \A a \in 1..z : Encoding(v)[k + 1][(p - o) + a] = B[o + ((p - o) + a)]
    <3> SUFFICES ASSUME NEW a \in 1..z PROVE Encoding(v)[k + 1][(p - o) + a] = B[o + ((p - o) + a)]
      OBVIOUS
    <3>1. Encoding(v)[k + 1][(p - o) + a] = Rune(z)[a]
      BY <1>4, <2>1, <2>2, <2>4
    <3>2. Encoding(w)[(n + k) + 1][p + a] = Rune(z)[a]
      BY <1>3, <2>1
    <3> HIDE DEF z, p, o, B
    <3>3. o + ((p - o) + a) = p + a /\ p + a \in 1..p + z
      BY <2>3
    <3> QED  BY <2>6, <3>1, <3>2, <3>3
  <2>9. Same(k + 1)
    <3> HIDE DEF z, p, o, B
    <3>1. \A b \in 1..(p + z) - o : Encoding(v)[k + 1][b] = B[o + b]
      <4> SUFFICES ASSUME NEW b \in 1..(p + z) - o PROVE Encoding(v)[k + 1][b] = B[o + b]
        OBVIOUS
      <4>1. CASE b <= p - o
        BY <2>3, <2>7, <4>1
      <4>2. CASE ~(b <= p - o)
        <5>1. b - (p - o) \in 1..z /\ (p - o) + (b - (p - o)) = b
          BY <2>3, <4>2
        <5>2. PICK a \in 1..z : b = (p - o) + a
          BY <5>1
        <5> QED  BY <2>8, <5>2
      <4> QED  BY <4>1, <4>2
    <3>2. p - o + z = (p + z) - o
      BY <2>3
    <3>3. RuneEnd(w, n + (k + 1)) = p + z
      BY <2>1, <2>3
    <3> QED  BY <2>5, <3>1, <3>2, <3>3 DEF o
  <2> HIDE DEF Same
  <2> QED  BY <2>1, <2>9
<1> HIDE DEF T
<1>7. 0..N - n \subseteq T
  BY <1>1, <1>5, <1>6, Climb
<1>8. Same(N - n) /\ n + (N - n) = N /\ N - n \in 0..Len(v)
  <2> HIDE DEF Same, N
  <2>1. n + (N - n) = N /\ N - n \in 0..Len(v) /\ N - n \in 0..N - n
    BY <1>1, <1>2
  <2> QED  BY <1>7, <2>1 DEF T
<1>9. Bytes(v) = Encoding(v)[N - n] /\ Len(Bytes(v)) = RuneEnd(v, N - n)
  BY <1>2 DEF Bytes, RuneEnd
<1> QED  BY <1>4, <1>8, <1>9 DEF v

(* Where a text can be cut: at its end, or before a byte that starts.      *)
LEMMA Edges ==
  ASSUME NEW w \in Seq(Width), NEW e \in 0..Len(Bytes(w))
  PROVE  (e = Len(Bytes(w)) \/ Bytes(w)[e + 1]) <=> \E k \in 0..Len(w) : e = RuneEnd(w, k)
<1> DEFINE N == Len(w)  B == Bytes(w)
<1>1. N \in Nat /\ Len(B) = RuneEnd(w, N) /\ Len(B) \in Nat
  <2>1. N \in Nat
    BY LenProperties
  <2> QED  BY <2>1, EncodingGrows DEF Bytes, RuneEnd
<1>2. \A k \in 0..N : RuneEnd(w, k) \in Nat
  BY EncodingGrows
<1>3. CASE e = Len(B)
  BY <1>1, <1>3
<1>4. CASE e # Len(B)
  <2>1. e + 1 \in 1..RuneEnd(w, N) /\ e \in Nat
    BY <1>1, <1>4
  <2>2. B[e + 1] <=> \E j \in 0..N - 1 : e + 1 = RuneEnd(w, j) + 1
    <3>1. B = Encoding(w)[N]
      BY DEF Bytes
    <3> HIDE DEF B
    <3> QED  BY <1>1, <2>1, <3>1, Starts
  <2>3. \A j \in 0..N : e + 1 = RuneEnd(w, j) + 1 <=> e = RuneEnd(w, j)
    BY <1>2, <2>1
  <2>4. \A j \in 0..N : e = RuneEnd(w, j) => j \in 0..N - 1
    BY <1>1, <1>4
  <2>5. (\E j \in 0..N - 1 : e + 1 = RuneEnd(w, j) + 1) <=> \E j \in 0..N : e = RuneEnd(w, j)
    BY <1>1, <2>3, <2>4
  <2> QED  BY <1>4, <2>2, <2>5, Zenon
<1> QED  BY <1>3, <1>4

(* A CHOOSE of the smallest or of the largest number finds it.             *)
LEMMA Least ==
  ASSUME NEW S, S # {}, \A x \in S : x \in Nat
  PROVE  LET n == CHOOSE x \in S : \A o \in S : x <= o
         IN n \in S /\ \A o \in S : n <= o
<1>1. S \subseteq Nat
  OBVIOUS
<1>2. PICK n \in S : \A m \in S : ~(m < n)
  BY <1>1, Descent
<1>3. \A o \in S : n <= o
  BY <1>2
<1>4. \E x \in S : \A o \in S : x <= o
  BY <1>3
<1> QED  BY <1>4

LEMMA Greatest ==
  ASSUME NEW S, S # {}, NEW max \in Nat, \A x \in S : x \in Nat /\ x <= max
  PROVE  LET n == CHOOSE x \in S : \A o \in S : o <= x
         IN n \in S /\ \A o \in S : o <= n
<1> DEFINE R == {max - x : x \in S}
<1>1. R \subseteq Nat /\ R # {}
  OBVIOUS
<1>2. PICK r \in R : \A m \in R : ~(m < r)
  <2> HIDE DEF R
  <2> QED  BY <1>1, Descent
<1>3. PICK n \in S : r = max - n
  BY <1>2
<1>4. \A o \in S : o <= n
  <2> SUFFICES ASSUME NEW o \in S, ~(o <= n) PROVE FALSE
    OBVIOUS
  <2>1. max - o \in R /\ max - o < r
    BY <1>3
  <2> QED  BY <1>2, <2>1
<1>5. \E x \in S : \A o \in S : o <= x
  BY <1>4
<1> QED  BY <1>5

(* Where a prefix and a suffix of whole runes begin and end.               *)
LEMMA Lengths ==
  ASSUME NEW w \in Seq(Width)
  PROVE  /\ Len(w) \in Nat /\ Bytes(w) \in Seq(BOOLEAN) /\ Bytes(w) = Encoding(w)[Len(w)]
         /\ Len(Bytes(w)) = RuneEnd(w, Len(w)) /\ Len(Bytes(w)) \in Nat /\ RuneEnd(w, 0) = 0
         /\ \A k \in 0..Len(w) : /\ RuneEnd(w, k) \in Nat /\ RuneEnd(w, k) <= Len(Bytes(w))
                                 /\ SubSeq(Bytes(w), 1, RuneEnd(w, k)) = Encoding(w)[k]
                                 /\ SubSeq(Bytes(w), RuneEnd(w, k) + 1, Len(Bytes(w))) = Bytes(SubSeq(w, k + 1, Len(w)))
                                 /\ Bytes(SubSeq(w, 1, k)) = Encoding(w)[k]
                                 /\ Len(Bytes(SubSeq(w, k + 1, Len(w)))) = Len(Bytes(w)) - RuneEnd(w, k)
<1> DEFINE N == Len(w)  B == Bytes(w)
<1>1. N \in Nat
  BY LenProperties
<1>2. \A k \in 0..N : Encoding(w)[k] \in Seq(BOOLEAN) /\ RuneEnd(w, k) \in Nat
  BY EncodingGrows
<1>3. B \in Seq(BOOLEAN) /\ B = Encoding(w)[N] /\ Len(B) = RuneEnd(w, N) /\ Len(B) \in Nat
  BY <1>1, <1>2 DEF Bytes, RuneEnd
<1>4. RuneEnd(w, 0) = 0
  BY EncodingGrows
<1>5. ASSUME NEW k \in 0..N
      PROVE  /\ RuneEnd(w, k) \in Nat /\ RuneEnd(w, k) <= Len(B)
             /\ SubSeq(B, 1, RuneEnd(w, k)) = Encoding(w)[k]
             /\ SubSeq(B, RuneEnd(w, k) + 1, Len(B)) = Bytes(SubSeq(w, k + 1, N))
             /\ Bytes(SubSeq(w, 1, k)) = Encoding(w)[k]
             /\ Len(Bytes(SubSeq(w, k + 1, N))) = Len(B) - RuneEnd(w, k)
  <2> DEFINE o == RuneEnd(w, k)  p == SubSeq(B, 1, o)  q == SubSeq(B, o + 1, Len(B))
             u == Encoding(w)[k]  v == Bytes(SubSeq(w, k + 1, N))
  <2>1. o \in Nat /\ u \in Seq(BOOLEAN) /\ Len(u) = o
    BY <1>2 DEF RuneEnd
  <2>2. o + (N - k) <= RuneEnd(w, N) /\ \A b \in 1..o : Encoding(w)[N][b] = u[b]
    <3>1. N \in 0..N /\ k <= N
      BY <1>1
    <3> QED  BY <3>1, RuneEndGrows
  <2>3. o <= Len(B) /\ \A b \in 1..o : B[b] = u[b]
    BY <1>1, <1>2, <1>3, <2>1, <2>2
  <2>4. \A b \in 1..Len(B) : B[b] \in BOOLEAN
    BY <1>3, ElementOfSeq
  <2>5. v \in Seq(BOOLEAN) /\ Len(v) = Len(B) - o /\ \A b \in 1..Len(B) - o : v[b] = B[o + b]
    BY <1>3, LaterRunes
  <2> HIDE DEF o, u, v, B
  <2>6. p = u
    <3>1. \A b \in 1..o : B[b] \in BOOLEAN
      BY <1>3, <2>1, <2>3, <2>4
    <3>2. /\ p \in Seq(BOOLEAN) /\ Len(p) = IF 1 <= o THEN o - 1 + 1 ELSE 0
          /\ \A b \in 1..o - 1 + 1 : p[b] = B[1 + b - 1]
      BY <2>1, <3>1, SubSeqProperties
    <3>3. (IF 1 <= o THEN o - 1 + 1 ELSE 0) = o /\ o - 1 + 1 = o /\ \A b \in 1..o : 1 + b - 1 = b
      BY <2>1
    <3> HIDE DEF p
    <3>4. Len(p) = Len(u) /\ \A b \in 1..Len(p) : p[b] = u[b]
      BY <2>1, <2>3, <3>2, <3>3
    <3> QED  BY <2>1, <3>2, <3>4, SeqEqual
  <2>7. q = v
    <3>1. \A b \in o + 1..Len(B) : B[b] \in BOOLEAN
      BY <1>3, <2>1, <2>3, <2>4
    <3>2. /\ q \in Seq(BOOLEAN) /\ Len(q) = IF o + 1 <= Len(B) THEN Len(B) - (o + 1) + 1 ELSE 0
          /\ \A b \in 1..Len(B) - (o + 1) + 1 : q[b] = B[o + 1 + b - 1]
      BY <1>3, <2>1, <3>1, SubSeqProperties
    <3>3. /\ (IF o + 1 <= Len(B) THEN Len(B) - (o + 1) + 1 ELSE 0) = Len(B) - o
          /\ Len(B) - (o + 1) + 1 = Len(B) - o /\ \A b \in 1..Len(B) - o : o + 1 + b - 1 = o + b
      BY <1>3, <2>1, <2>3
    <3> HIDE DEF q
    <3>4. Len(q) = Len(v) /\ \A b \in 1..Len(q) : q[b] = v[b]
      BY <2>5, <3>2, <3>3
    <3> QED  BY <2>5, <3>2, <3>4, SeqEqual
  <2>8. Bytes(SubSeq(w, 1, k)) = u
    BY FirstRunes DEF u
  <2> QED  BY <2>1, <2>3, <2>5, <2>6, <2>7, <2>8 DEF o, u, v, B
<1> QED  BY <1>1, <1>3, <1>4, <1>5

(* A head of a text is cut to the most whole runes that fit.               *)
LEMMA CutIsWhole ==
  ASSUME NEW w \in Seq(Width), NEW max \in Nat
  PROVE  \E n \in 0..Len(w) : /\ Cut(Bytes(w), max) = Encoding(w)[n] /\ RuneEnd(w, n) <= max
                              /\ \A k \in 0..Len(w) : RuneEnd(w, k) <= max => RuneEnd(w, k) <= RuneEnd(w, n)
<1> DEFINE N == Len(w)  B == Bytes(w)
<1>1. /\ N \in Nat /\ N \in 0..N /\ Len(B) = RuneEnd(w, N) /\ Len(B) \in Nat /\ B = Encoding(w)[N]
      /\ \A k \in 0..N : RuneEnd(w, k) \in Nat /\ RuneEnd(w, k) <= Len(B)
  BY Lengths
<1>2. CASE Len(B) <= max
  <2>1. Cut(B, max) = B
    BY <1>2 DEF Cut
  <2> QED  BY <1>1, <1>2, <2>1
<1>3. CASE ~(Len(B) <= max)
  <2> DEFINE ends == {e \in 0..max : e = 0 \/ B[e + 1]}
             end  == CHOOSE e \in ends : \A o \in ends : o <= e
  <2>1. Cut(B, max) = SubSeq(B, 1, end)
    BY <1>3 DEF Cut
  <2>2. \A e \in 0..max : e \in 0..Len(B) /\ e # Len(B)
    BY <1>1, <1>3
  <2>3. \A e \in 0..max : B[e + 1] <=> \E k \in 0..N : e = RuneEnd(w, k)
    BY <2>2, Edges
  <2>4. RuneEnd(w, 0) = 0 /\ 0 \in 0..N
    BY <1>1, Lengths
  <2>5. \A e \in ends : e \in Nat /\ e <= max /\ \E k \in 0..N : e = RuneEnd(w, k)
    BY <2>3, <2>4
  <2>6. \A k \in 0..N : RuneEnd(w, k) <= max => RuneEnd(w, k) \in ends
    BY <1>1, <2>3
  <2>7. 0 \in ends
    OBVIOUS
  <2> HIDE DEF ends
  <2>8. end \in ends /\ \A o \in ends : o <= end
    BY <2>5, <2>7, Greatest
  <2> HIDE DEF end
  <2>9. PICK n \in 0..N : end = RuneEnd(w, n)
    BY <2>5, <2>8
  <2>10. SubSeq(B, 1, RuneEnd(w, n)) = Encoding(w)[n]
    BY Lengths
  <2> QED  BY <2>1, <2>5, <2>6, <2>8, <2>9, <2>10
<1> QED  BY <1>2, <1>3

(* And so is a tail.                                                       *)
LEMMA TailIsWhole ==
  ASSUME NEW w \in Seq(Width), NEW max \in Nat
  PROVE  \E n \in 0..Len(w) : /\ TailOf(Bytes(w), max) = Bytes(SubSeq(w, n + 1, Len(w)))
                              /\ Len(Bytes(w)) - RuneEnd(w, n) <= max
                              /\ \A k \in 0..Len(w) : Len(Bytes(w)) - RuneEnd(w, k) <= max => RuneEnd(w, n) <= RuneEnd(w, k)
<1> DEFINE N == Len(w)  B == Bytes(w)
<1>1. /\ N \in Nat /\ N \in 0..N /\ 0 \in 0..N /\ B \in Seq(BOOLEAN) /\ Len(B) \in Nat
      /\ Len(B) = RuneEnd(w, N) /\ RuneEnd(w, 0) = 0
      /\ \A k \in 0..N : /\ RuneEnd(w, k) \in Nat /\ RuneEnd(w, k) <= Len(B)
                         /\ SubSeq(B, RuneEnd(w, k) + 1, Len(B)) = Bytes(SubSeq(w, k + 1, N))
  BY Lengths
<1>2. CASE max = 0
  <2>1. TailOf(B, max) = <<>>
    BY <1>2 DEF TailOf
  <2>2. SubSeq(B, Len(B) + 1, Len(B)) = <<>>
    <3>1. Len(B) + 1 \in Int /\ Len(B) \in Int /\ Len(B) < Len(B) + 1
      BY <1>1
    <3> HIDE DEF B
    <3> QED  BY <3>1, SubSeqEmpty
  <2>3. Bytes(SubSeq(w, N + 1, N)) = <<>>
    BY <1>1, <2>2
  <2>4. \A k \in 0..N : Len(B) - RuneEnd(w, k) <= max => RuneEnd(w, N) <= RuneEnd(w, k)
    BY <1>1, <1>2
  <2>5. Len(B) - RuneEnd(w, N) <= max
    BY <1>1
  <2> HIDE DEF B
  <2>6. TailOf(B, max) = Bytes(SubSeq(w, N + 1, N))
    BY <2>1, <2>3, Zenon
  <2>7. N \in 0..N
    BY <1>1
  <2> HIDE DEF N
  <2> QED  BY <2>4, <2>5, <2>6, <2>7, Zenon DEF N, B
<1>3. CASE max # 0 /\ Len(B) <= max
  <2>1. TailOf(B, max) = B
    BY <1>3 DEF TailOf
  <2>2. SubSeq(B, 1, Len(B)) = B
    <3> HIDE DEF B
    <3> QED  BY <1>1, SubSeqFull
  <2>3. Bytes(SubSeq(w, 0 + 1, N)) = B
    <3>1. 0 + 1 = 1
      OBVIOUS
    <3> QED  BY <1>1, <2>2, <3>1
  <2>4. Len(B) - RuneEnd(w, 0) <= max /\ \A k \in 0..N : RuneEnd(w, 0) <= RuneEnd(w, k)
    BY <1>1, <1>3
  <2> QED  BY <1>1, <2>1, <2>3, <2>4
<1>4. CASE max # 0 /\ ~(Len(B) <= max)
  <2> DEFINE starts == {s \in Len(B) - max..Len(B) : s = Len(B) \/ B[s + 1]}
             start  == CHOOSE s \in starts : \A o \in starts : s <= o
  <2>1. TailOf(B, max) = SubSeq(B, start + 1, Len(B))
    BY <1>4 DEF TailOf
  <2>2. \A s \in Len(B) - max..Len(B) : s \in 0..Len(B)
    BY <1>1, <1>4
  <2>3. \A s \in Len(B) - max..Len(B) : (s = Len(B) \/ B[s + 1]) <=> \E k \in 0..N : s = RuneEnd(w, k)
    BY <2>2, Edges
  <2>4. \A s \in starts : s \in Nat /\ Len(B) - s <= max /\ \E k \in 0..N : s = RuneEnd(w, k)
    BY <1>1, <2>2, <2>3
  <2>5. ASSUME NEW k \in 0..N, Len(B) - RuneEnd(w, k) <= max PROVE RuneEnd(w, k) \in starts
    <3>1. RuneEnd(w, k) \in Len(B) - max..Len(B)
      BY <1>1, <2>5
    <3>2. RuneEnd(w, k) = Len(B) \/ B[RuneEnd(w, k) + 1]
      BY <2>3, <3>1
    <3> QED  BY <3>1, <3>2
  <2>6. Len(B) \in starts
    BY <1>1
  <2> HIDE DEF starts
  <2>7. start \in starts /\ \A o \in starts : start <= o
    BY <2>4, <2>6, Least
  <2> HIDE DEF start
  <2>8. PICK n \in 0..N : start = RuneEnd(w, n)
    BY <2>4, <2>7
  <2>9. SubSeq(B, RuneEnd(w, n) + 1, Len(B)) = Bytes(SubSeq(w, n + 1, N))
    BY <1>1
  <2> QED  BY <2>1, <2>4, <2>5, <2>7, <2>8, <2>9
<1> QED  BY <1>2, <1>3, <1>4

(* The three cuts of one text.                                             *)
LEMMA TextIsCut ==
  ASSUME NEW w \in Strings, NEW max \in Nat
  PROVE  LET cut  == Cut(Bytes(w), max)
             tail == TailOf(Bytes(w), max)
         IN /\ Len(cut) <= max /\ Len(tail) <= max
            /\ \E n \in 0..Len(w) : cut = Bytes(SubSeq(w, 1, n))
            /\ \E n \in 1..Len(w) + 1 : tail = Bytes(SubSeq(w, n, Len(w)))
            /\ \A n \in 0..Len(w) :
                 /\ Len(Bytes(SubSeq(w, 1, n))) <= max => Len(Bytes(SubSeq(w, 1, n))) <= Len(cut)
                 /\ Len(Bytes(SubSeq(w, n + 1, Len(w)))) <= max => Len(Bytes(SubSeq(w, n + 1, Len(w)))) <= Len(tail)
<1> DEFINE N == Len(w)  B == Bytes(w)  cut == Cut(B, max)  tail == TailOf(B, max)
<1>1. w \in Seq(Width)
  BY TextAssumption DEF Width
<1>2. /\ N \in Nat /\ Len(B) \in Nat
      /\ \A k \in 0..N : /\ RuneEnd(w, k) \in Nat /\ Bytes(SubSeq(w, 1, k)) = Encoding(w)[k]
                         /\ Len(Bytes(SubSeq(w, k + 1, N))) = Len(B) - RuneEnd(w, k)
  BY <1>1, Lengths
<1>3. PICK n \in 0..N : /\ cut = Encoding(w)[n] /\ RuneEnd(w, n) <= max
                        /\ \A k \in 0..N : RuneEnd(w, k) <= max => RuneEnd(w, k) <= RuneEnd(w, n)
  BY <1>1, CutIsWhole
<1>4. PICK m \in 0..N : /\ tail = Bytes(SubSeq(w, m + 1, N)) /\ Len(B) - RuneEnd(w, m) <= max
                        /\ \A k \in 0..N : Len(B) - RuneEnd(w, k) <= max => RuneEnd(w, m) <= RuneEnd(w, k)
  BY <1>1, TailIsWhole
<1> HIDE DEF cut, tail, B
<1>5. Len(cut) = RuneEnd(w, n) /\ Len(tail) = Len(B) - RuneEnd(w, m)
  BY <1>2, <1>3, <1>4 DEF RuneEnd
<1>6. cut = Bytes(SubSeq(w, 1, n))
  BY <1>2, <1>3
<1>7. m + 1 \in 1..N + 1
  BY <1>2
<1>8. ASSUME NEW k \in 0..N
      PROVE  /\ Len(Bytes(SubSeq(w, 1, k))) <= max => Len(Bytes(SubSeq(w, 1, k))) <= Len(cut)
             /\ Len(Bytes(SubSeq(w, k + 1, N))) <= max => Len(Bytes(SubSeq(w, k + 1, N))) <= Len(tail)
  <2>1. Len(Bytes(SubSeq(w, 1, k))) = RuneEnd(w, k)
    BY <1>2 DEF RuneEnd
  <2>2. Len(Bytes(SubSeq(w, k + 1, N))) = Len(B) - RuneEnd(w, k) /\ RuneEnd(w, k) \in Nat /\ RuneEnd(w, m) \in Nat
    BY <1>2
  <2>3. RuneEnd(w, k) <= max => RuneEnd(w, k) <= RuneEnd(w, n)
    BY <1>3
  <2>4. Len(B) - RuneEnd(w, k) <= max => RuneEnd(w, m) <= RuneEnd(w, k)
    BY <1>4
  <2>5. Len(B) - RuneEnd(w, k) <= max => Len(B) - RuneEnd(w, k) <= Len(B) - RuneEnd(w, m)
    BY <1>2, <2>2, <2>4
  <2> QED  BY <1>5, <2>1, <2>2, <2>3, <2>5
<1>9. Len(cut) <= max /\ Len(tail) <= max
  BY <1>3, <1>4, <1>5
<1>10. \E k \in 1..N + 1 : tail = Bytes(SubSeq(w, k, N))
  BY <1>4, <1>7
<1> QED  BY <1>6, <1>8, <1>9, <1>10 DEF cut, tail, B

(* A text that is too long is cut to leave room for the marker.            *)
LEMMA TextIsShortened ==
  ASSUME NEW w \in Strings, NEW max \in Nat
  PROVE  LET short == Truncate(Bytes(w), max)
         IN /\ Len(short) <= max
            /\ Len(Bytes(w)) > max /\ max > Marker =>
                 \E head \in {SubSeq(short, 1, Len(short) - Marker)} :
                   (\E n \in 0..Len(w) : head = Bytes(SubSeq(w, 1, n))) /\ short = head \o MarkerBytes
<1> DEFINE B == Bytes(w)  short == Truncate(B, max)
<1>1. B \in Seq(BOOLEAN) /\ Len(B) \in Nat /\ Marker \in Nat
  <2>1. w \in Seq(Width)
    BY TextAssumption DEF Width
  <2> QED  BY <2>1, Lengths, TextBounds
<1>2. CASE Len(B) <= max
  BY <1>1, <1>2 DEF Truncate
<1>3. CASE ~(Len(B) <= max) /\ max <= Marker
  <2>1. short = Cut(B, max)
    BY <1>3 DEF Truncate
  <2>2. Len(Cut(B, max)) <= max
    BY TextIsCut
  <2> QED  BY <1>1, <1>3, <2>1, <2>2
<1>4. CASE ~(Len(B) <= max) /\ ~(max <= Marker)
  <2> DEFINE head == Cut(B, max - Marker)
  <2>1. short = head \o MarkerBytes
    BY <1>4 DEF Truncate
  <2>2. max - Marker \in Nat
    BY <1>1, <1>4
  <2>3. Len(head) <= max - Marker /\ \E n \in 0..Len(w) : head = Bytes(SubSeq(w, 1, n))
    BY <2>2, TextIsCut
  <2>4. head \in Seq(BOOLEAN)
    <3>1. w \in Seq(Width)
      BY TextAssumption DEF Width
    <3>2. \A k \in 0..Len(w) : Encoding(w)[k] \in Seq(BOOLEAN)
      BY <3>1, EncodingGrows
    <3>3. \A k \in 0..Len(w) : Bytes(SubSeq(w, 1, k)) = Encoding(w)[k]
      BY <3>1, Lengths
    <3> QED  BY <2>3, <3>2, <3>3
  <2>5. MarkerBytes \in Seq(BOOLEAN) /\ Len(MarkerBytes) = Marker
    <3>1. MarkerBytes \in [1..Marker -> BOOLEAN]
      BY DEF MarkerBytes
    <3> QED  BY <1>1, <3>1
  <2> DEFINE mb == MarkerBytes
  <2> HIDE DEF head, mb, short
  <2>6. /\ head \o mb \in Seq(BOOLEAN) /\ Len(head \o mb) = Len(head) + Len(mb) /\ Len(head) \in Nat
        /\ \A i \in 1..Len(head) + Len(mb) : (head \o mb)[i] = IF i <= Len(head) THEN head[i] ELSE mb[i - Len(head)]
    BY <2>4, <2>5, ConcatProperties, LenProperties DEF mb
  <2>7. Len(short) = Len(head) + Marker /\ Len(short) - Marker = Len(head) /\ short = head \o mb
    BY <1>1, <2>1, <2>5, <2>6 DEF mb
  <2>8. SubSeq(short, 1, Len(head)) = head
    <3>1. \A i \in 1..Len(head) : short[i] = head[i]
      BY <2>5, <2>6, <2>7 DEF mb
    <3>2. \A i \in 1..Len(head) : head[i] \in BOOLEAN
      BY <2>4, ElementOfSeq
    <3>3. \A i \in 1..Len(head) : short[i] \in BOOLEAN
      BY <3>1, <3>2
    <3> DEFINE p == SubSeq(short, 1, Len(head))
    <3>4. /\ p \in Seq(BOOLEAN) /\ Len(p) = IF 1 <= Len(head) THEN Len(head) - 1 + 1 ELSE 0
          /\ \A i \in 1..Len(head) - 1 + 1 : p[i] = short[1 + i - 1]
      BY <2>6, <3>3, SubSeqProperties
    <3>5. /\ (IF 1 <= Len(head) THEN Len(head) - 1 + 1 ELSE 0) = Len(head)
          /\ Len(head) - 1 + 1 = Len(head) /\ \A i \in 1..Len(head) : 1 + i - 1 = i
      BY <2>6
    <3> HIDE DEF p
    <3>6. Len(p) = Len(head) /\ \A i \in 1..Len(p) : p[i] = head[i]
      BY <3>1, <3>4, <3>5
    <3>7. p = head
      BY <2>4, <3>4, <3>6, SeqEqual
    <3> QED  BY <3>7 DEF p
  <2>9. Len(short) <= max
    BY <1>1, <2>3, <2>6, <2>7
  <2>10. SubSeq(short, 1, Len(short) - Marker) = head
    BY <2>7, <2>8
  <2> QED  BY <2>3, <2>7, <2>9, <2>10 DEF short, mb
<1> QED  BY <1>2, <1>3, <1>4

(* Every call returns what the four properties ask.                        *)
AsAsked == LastAnswerCounts /\ IndexIsExact /\ PlanIsPinned /\ CutsBetweenRunes /\ DiagramIsDrawable

(* One call of each function.                                              *)
LEMMA MessageAsked == ReadMessage => AsAsked'
<1> SUFFICES ASSUME ReadMessage PROVE AsAsked'
  OBVIOUS
<1>1. PICK m \in Messages : done' = [of |-> "message", input |-> m, out |-> ExtractReview(m)]
  BY DEF ReadMessage
<1>2. done'.of = "message" /\ done'.input = m /\ done'.out = ExtractReview(m)
  BY <1>1
<1>3. LastAnswerCounts'
  <2> SUFFICES ASSUME Short(m) PROVE IsLastAnswer(m, ExtractReview(m))
    BY <1>2 DEF LastAnswerCounts, Short
  <2>1. Len(m) \in Nat
    BY TextAssumption, LenProperties
  <2> QED  BY <2>1, AnswerCounts, SplitsExist DEF IsLastAnswer
<1> QED  BY <1>2, <1>3 DEF AsAsked, IndexIsExact, PlanIsPinned, CutsBetweenRunes, DiagramIsDrawable

LEMMA PatchAsked == ReadPatch => AsAsked'
<1> SUFFICES ASSUME ReadPatch PROVE AsAsked'
  OBVIOUS
<1>1. PICK p \in Patches : done' = [of |-> "patch", input |-> p, out |-> Index(p)]
  BY DEF ReadPatch
<1>2. done'.of = "patch" /\ done'.input = p /\ done'.out = Index(p)
  BY <1>1
<1>3. IndexIsExact'
  BY <1>2, IndexExact DEF IndexIsExact
<1> QED  BY <1>2, <1>3 DEF AsAsked, LastAnswerCounts, PlanIsPinned, CutsBetweenRunes, DiagramIsDrawable

LEMMA PlanAsked == PreparePlan => AsAsked'
<1> SUFFICES ASSUME PreparePlan PROVE AsAsked'
  OBVIOUS
<1>1. PICK c \in Candidates, p \in Patches :
        done' = [of |-> "plan", input |-> c, patch |-> p, out |-> Publish(Keep(c), Index(p))]
  BY DEF PreparePlan
<1>2. done'.of = "plan" /\ done'.input = c /\ done'.patch = p /\ done'.out = Publish(Keep(c), Index(p))
  BY <1>1
<1>3. PlanIsPinned'
  BY <1>2, PlanPinned DEF PlanIsPinned
<1> QED  BY <1>2, <1>3 DEF AsAsked, LastAnswerCounts, IndexIsExact, CutsBetweenRunes, DiagramIsDrawable

LEMMA TextAsked == CutText => AsAsked'
<1> SUFFICES ASSUME CutText PROVE AsAsked'
  OBVIOUS
<1>1. PICK w \in Strings, max \in 0..MaxText :
        done' = [of |-> "text", input |-> w, max |-> max, cut |-> Cut(Bytes(w), max),
                 tail |-> TailOf(Bytes(w), max), short |-> Truncate(Bytes(w), max)]
  BY DEF CutText
<1>2. /\ done'.of = "text" /\ done'.input = w /\ done'.max = max /\ done'.cut = Cut(Bytes(w), max)
      /\ done'.tail = TailOf(Bytes(w), max) /\ done'.short = Truncate(Bytes(w), max)
  BY <1>1
<1>3. max \in Nat
  BY TextBounds
<1> DEFINE B == Bytes(w)  cut == Cut(B, max)  tail == TailOf(B, max)  short == Truncate(B, max)
<1>4. /\ Len(cut) <= max /\ Len(tail) <= max
      /\ \E n \in 0..Len(w) : cut = Bytes(SubSeq(w, 1, n))
      /\ \E n \in 1..Len(w) + 1 : tail = Bytes(SubSeq(w, n, Len(w)))
      /\ \A n \in 0..Len(w) :
           /\ Len(Bytes(SubSeq(w, 1, n))) <= max => Len(Bytes(SubSeq(w, 1, n))) <= Len(cut)
           /\ Len(Bytes(SubSeq(w, n + 1, Len(w)))) <= max => Len(Bytes(SubSeq(w, n + 1, Len(w)))) <= Len(tail)
  BY <1>3, TextIsCut, Zenon
<1>5. /\ Len(short) <= max
      /\ Len(B) > max /\ max > Marker =>
           \E head \in {SubSeq(short, 1, Len(short) - Marker)} :
             (\E n \in 0..Len(w) : head = Bytes(SubSeq(w, 1, n))) /\ short = head \o MarkerBytes
  BY <1>3, TextIsShortened, Zenon
<1> HIDE DEF cut, tail, short
<1>6. /\ done'.input = w /\ done'.max = max /\ done'.cut = cut /\ done'.tail = tail /\ done'.short = short
  BY <1>2, Zenon DEF cut, tail, short
<1>7. CutsBetweenRunes'
  BY <1>4, <1>5, <1>6, Zenon DEF CutsBetweenRunes, WholeRunes, LastRunes
<1> QED  BY <1>2, <1>7 DEF AsAsked, LastAnswerCounts, IndexIsExact, PlanIsPinned, DiagramIsDrawable

LEMMA DiagramAsked == DrawDiagram => AsAsked'
<1> SUFFICES ASSUME DrawDiagram PROVE AsAsked'
  OBVIOUS
<1>1. PICK d \in Diagrams : done' = [of |-> "diagram", input |-> d, out |-> NormalizeSequenceDiagram(d)]
  BY DEF DrawDiagram
<1>2. done'.of = "diagram" /\ done'.input = d /\ done'.out = NormalizeSequenceDiagram(d)
  BY <1>1
<1>3. DiagramIsDrawable'
  BY <1>2, DiagramDrawable DEF DiagramIsDrawable
<1> QED  BY <1>2, <1>3 DEF AsAsked, LastAnswerCounts, IndexIsExact, PlanIsPinned, CutsBetweenRunes

LEMMA AsAskedAlways == TextSpec => []AsAsked
<1>1. TextInit => AsAsked
  BY DEF TextInit, NotYet, AsAsked, LastAnswerCounts, IndexIsExact, PlanIsPinned, CutsBetweenRunes, DiagramIsDrawable
<1>2. AsAsked /\ [TextNext]_done => AsAsked'
  <2>1. ASSUME AsAsked, UNCHANGED done
        PROVE  AsAsked'
    <3>1. LastAnswerCounts'
      BY <2>1, Zenon DEF AsAsked, LastAnswerCounts
    <3>2. IndexIsExact'
      BY <2>1, Zenon DEF AsAsked, IndexIsExact
    <3>3. PlanIsPinned'
      BY <2>1, Zenon DEF AsAsked, PlanIsPinned
    <3>4. CutsBetweenRunes'
      BY <2>1, Zenon DEF AsAsked, CutsBetweenRunes, WholeRunes, LastRunes
    <3>5. DiagramIsDrawable'
      BY <2>1, Zenon DEF AsAsked, DiagramIsDrawable
    <3> QED  BY <3>1, <3>2, <3>3, <3>4, <3>5 DEF AsAsked
  <2> QED  BY <2>1, MessageAsked, PatchAsked, PlanAsked, TextAsked, DiagramAsked DEF TextNext
<1> QED  BY <1>1, <1>2, PTL DEF TextSpec

(* Of any message whose fences are all of three backticks, whatever blocks *)
(* it has and whether or not the last is closed, parseFencedJSON reads the *)
(* last answer; one without any is shown as it is.  That every message has *)
(* its blocks is part of it.  With a longer fence it is not so.            *)
THEOREM LastAnswer == TextSpec => []LastAnswerCounts
<1>1. AsAsked => LastAnswerCounts
  BY DEF AsAsked
<1> QED  BY <1>1, AsAskedAlways, PTL

(* For any patch, parsePatch indexes exactly the lines that its hunks      *)
(* show, on both sides.                                                    *)
THEOREM ExactIndex == TextSpec => []IndexIsExact
<1>1. AsAsked => IndexIsExact
  BY DEF AsAsked
<1> QED  BY <1>1, AsAskedAlways, PTL

(* For any findings and any patch, what preparePublication posts inline is *)
(* what decodeReview may keep and the diff can hold, in order and once.    *)
THEOREM PinnedPlan == TextSpec => []PlanIsPinned
<1>1. AsAsked => PlanIsPinned
  BY DEF AsAsked
<1> QED  BY <1>1, AsAskedAlways, PTL

(* For any string and any limit, cutUTF8, tailUTF8 and truncateUTF8 return *)
(* the longest run of whole runes that fits; and a diagram that is posted  *)
(* shows a message and fits.                                               *)
THEOREM CleanCuts == TextSpec => []CutsAreClean
<1>1. AsAsked => CutsAreClean
  BY DEF AsAsked, CutsAreClean
<1> QED  BY <1>1, AsAskedAlways, PTL

===============================================================================
