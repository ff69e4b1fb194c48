-------------------------------- MODULE Runner --------------------------------
(***************************************************************************)
(* One worker's calls of Run in src/internal/runner/runner.go: download    *)
(* and unpack the archive of the reviewed commit, seal the tree, start the *)
(* reviewer in its sandbox, collect what it writes, and clean up.          *)
(*                                                                         *)
(* The reviewer process, GitHub and the file system are external: what     *)
(* they may do is chosen by \E.  Calls of different workers share nothing  *)
(* but the disk, because each makes a temporary directory of its own.      *)
(***************************************************************************)
EXTENDS Naturals, Sequences, FiniteSets, SequencesExt

CONSTANTS
  Archives,      \* what GitHub may serve: [length, bloated, entries]
  Names,         \* the names that a path in one is made of
  Words,         \* Words[s]: the lines the reviewer may write to stream s
  TextEvents,    \* those that are JSON with a text of the assistant
  WhiteLine,     \* the one of white space only
  Untrusted,     \* the names isUntrustedInstructionOrConfig recognises
  DiffName,      \* review-diff.patch
  MaxArchive,    \* maxCheckoutArchiveBytes
  MaxFiles,      \* maxCheckoutFiles
  MaxFileBytes,  \* maxCheckoutFileBytes
  MaxBytes,      \* maxCheckoutBytes
  OutLimit,      \* maxAgentOutputBytes
  Attempts,      \* checkoutAttempts
  Privileged,    \* the service runs as root
  MaxSaid,       \* bound on what the reviewer writes to one stream
  MaxCalls       \* bound on the calls of Run

ASSUME RunnerAssumption ==
  /\ {MaxArchive, MaxFiles, MaxFileBytes, MaxBytes, OutLimit, MaxSaid, MaxCalls} \subseteq Nat
  /\ Attempts \in Nat \ {0}
  /\ DiffName \notin Untrusted
  /\ WhiteLine \notin TextEvents
  /\ Privileged \in BOOLEAN

(* What the readers of gzip and tar make of any bytes: an entry has a      *)
(* type, a name, a size and perhaps a link name.                           *)
Entries == [type : STRING, path : Seq(Names), size : Nat, link : BOOLEAN]

ASSUME ArchiveAssumption ==
  \A a \in Archives : a.length \in Nat /\ a.bloated \in BOOLEAN /\ a.entries \in Seq(Entries)

VARIABLES
  pc,        \* where the call is
  cancelled, \* the context of the call is done
  fetch,     \* the download: which attempt, of which archive, how far it is unpacked
  tree,      \* the nodes on the disk: the checkout directory, path <<>>, and what lies below it
  sealed,    \* makeReadOnly has run over it
  agent,     \* the reviewer process, its pipes and the two boundedBuffers
  result,    \* what the call returned
  left,      \* checkouts of earlier calls that are still on the disk
  calls      \* calls so far

vars == <<pc, cancelled, fetch, tree, sealed, agent, result, left, calls>>
disk == <<sealed, agent, left, calls, cancelled>>

Streams == {"stdout", "stderr"}
Absent  == {}
NoRoot  == "no root yet"
Places  == {"idle", "request", "extract", "failed", "backoff", "harden", "diff", "seal", "files", "start",
            "running", "reap"}
Errors  == {"none", "io", "rejected", "too large", "cancelled", "sandbox", "output", "quota", "aborted", "failed"}

NoFetch == [attempt |-> 0, archive |-> [length |-> 0, bloated |-> FALSE, entries |-> <<>>], at |-> 1,
            entries |-> 0, root |-> NoRoot, seen |-> {}, total |-> 0, error |-> "none"]
Engines == {"opencode2", "pi"}
NoAgent == [engine |-> "opencode2", alive |-> FALSE, doomed |-> FALSE, exit |-> "none", over |-> {},
            said |-> [s \in Streams |-> <<>>], pipe |-> [s \in Streams |-> <<>>], kept |-> [s \in Streams |-> <<>>]]
Nothing == [error |-> "none", text |-> <<>>]

Init ==
  /\ pc = "idle"
  /\ cancelled = FALSE
  /\ fetch = NoFetch
  /\ tree = Absent
  /\ sealed = FALSE
  /\ agent = NoAgent
  /\ result = Nothing
  /\ left = 0
  /\ calls = 0

(***************************************************************************)
(* Return: every way out of Run ends in os.RemoveAll of the temporary      *)
(* directory.  Without privilege nothing can be unlinked from a directory  *)
(* that makeReadOnly has made 0555, and the error is dropped.              *)
(***************************************************************************)
Unremovable == sealed /\ tree # Absent /\ ~Privileged

Return(error, text) ==
  /\ pc' = "idle"
  /\ result' = [error |-> error, text |-> text]
  /\ left' = IF Unremovable THEN left + 1 ELSE left
  /\ tree' = Absent
  /\ sealed' = FALSE
  /\ UNCHANGED <<cancelled, fetch, agent, calls>>

(* The options are refused, the runtime is not trusted, or MkdirTemp fails. *)
Refuse ==
  /\ pc = "idle" /\ calls < MaxCalls
  /\ \E e \in {"sandbox", "io"} : result' = [error |-> e, text |-> <<>>]
  /\ calls' = calls + 1
  /\ cancelled' = FALSE
  /\ agent' = NoAgent
  /\ fetch' = NoFetch
  /\ UNCHANGED <<pc, tree, sealed, left>>

(* A temporary directory of its own.                                       *)
Begin ==
  /\ pc = "idle" /\ calls < MaxCalls
  /\ calls' = calls + 1
  /\ cancelled' = FALSE
  /\ agent' = NoAgent
  /\ result' = Nothing
  /\ fetch' = [NoFetch EXCEPT !.attempt = 1]
  /\ pc' = "request"
  /\ UNCHANGED <<tree, sealed, left>>

(* Environment: the deadline of the review, a lost lease, a shutdown.      *)
Cancel ==
  /\ pc # "idle" /\ ~cancelled
  /\ cancelled' = TRUE
  /\ UNCHANGED <<pc, fetch, tree, sealed, agent, result, left, calls>>

(***************************************************************************)
(* checkoutGitHubArchive: up to Attempts downloads into a cleaned          *)
(* destination.                                                            *)
(***************************************************************************)
Fail(error) ==
  /\ pc' = "failed"
  /\ fetch' = [fetch EXCEPT !.error = error]
  /\ UNCHANGED <<tree, result, disk>>

Node(path, kind, size) == [path |-> path, kind |-> kind, size |-> size, by |-> fetch.attempt]
Paths(kinds)  == {n.path : n \in {m \in tree : m.kind \in kinds}}
Parents(path) == {SubSeq(path, 1, k) : k \in 0..Len(path) - 1}
Contents(nodes) == UNION {{n} \X (1..n.size) : n \in nodes}

(* archiveReadError: the context explains a broken stream first.           *)
ReadError == IF cancelled THEN "cancelled" ELSE "rejected"

(* No answer, no redirect to the exact archive, or not a gzip response.    *)
RequestFails == pc = "request" /\ Fail(ReadError)

(* Mutant: a destination that is already there is used as it is.           *)
OpenAnyDestination(a) ==
  /\ pc' = "extract"
  /\ fetch' = [fetch EXCEPT !.archive = a, !.at = 1, !.entries = 0, !.root = NoRoot, !.seen = {}, !.total = 0]
  /\ tree' = tree \cup {Node(<<>>, "dir", 0)}
  /\ UNCHANGED <<result, disk>>

(* os.Mkdir of the destination fails when it exists.                       *)
OpenDestination(a) ==
  IF tree # Absent
  THEN Fail("io")
  ELSE /\ pc' = "extract"
       /\ fetch' = [fetch EXCEPT !.archive = a, !.at = 1, !.entries = 0, !.root = NoRoot, !.seen = {}, !.total = 0]
       /\ tree' = {Node(<<>>, "dir", 0)}
       /\ UNCHANGED <<result, disk>>

Request ==
  /\ pc = "request" /\ ~cancelled
  /\ \E a \in Archives : IF a.length > MaxArchive THEN Fail("too large") ELSE OpenDestination(a)

(* The wait before the next attempt, unless the error is final.            *)
Retry ==
  /\ pc = "failed"
  /\ IF fetch.error = "too large" \/ fetch.attempt = Attempts
       THEN Return(fetch.error, <<>>)
     ELSE IF cancelled
       THEN Return("cancelled", <<>>)
     ELSE /\ pc' = "backoff"
          /\ UNCHANGED <<fetch, tree, result, disk>>

BackoffCancelled == pc = "backoff" /\ cancelled /\ Return("cancelled", <<>>)

(* The timer fires; an error of RemoveAll is dropped.                      *)
BackoffEnds ==
  /\ pc = "backoff"
  /\ \E t \in {Absent, tree} : tree' = t
  /\ fetch' = [fetch EXCEPT !.attempt = @ + 1, !.error = "none"]
  /\ pc' = "request"
  /\ UNCHANGED <<result, disk>>

(***************************************************************************)
(* extractGitHubArchive, one entry at a time.  An entry's path is the      *)
(* sequence of its names, <<>> when archiveEntryPath refuses it by itself  *)
(* (absolute, not canonical, with .. or a backslash).                      *)
(***************************************************************************)
Misplaced(e) ==
  \/ e.path = <<>> \/ e.link
  \/ fetch.root # NoRoot /\ Head(e.path) # fetch.root
  \/ Len(e.path) = 1 /\ e.type # "dir"

(* Mutant: the size of the entry itself is left out.                       *)
TooLargeBefore(e) == e.size > MaxFileBytes \/ fetch.total > MaxBytes

TooLarge(e) == e.size > MaxFileBytes \/ fetch.total + e.size > MaxBytes

Skip(e) == e.type = "global"

Advance(f) == [f EXCEPT !.at = @ + 1]

Taken(e) == [Advance(fetch) EXCEPT !.entries = @ + 1, !.root = Head(e.path), !.seen = @ \cup {Tail(e.path)}]

(* A directory: Mkdir needs its parent and bears that it exists.           *)
MakeDir(e, rel) ==
  IF ~(Parents(rel) \subseteq Paths({"dir"}))
  THEN Fail("io")
  ELSE /\ tree' = IF rel \in Paths({"dir", "file"}) THEN tree ELSE tree \cup {Node(rel, "dir", 0)}
       /\ fetch' = Taken(e)
       /\ UNCHANGED <<pc, result, disk>>

(* A regular file: MkdirAll of its parents, then O_EXCL.                   *)
WriteFile(e, rel) ==
  IF TooLarge(e) THEN Fail("too large")
  ELSE IF Parents(rel) \cap Paths({"file"}) # {} \/ rel \in Paths({"dir", "file"}) THEN Fail("io")
  ELSE /\ tree' = tree \cup {Node(rel, "file", e.size)} \cup {Node(p, "dir", 0) : p \in Parents(rel) \ Paths({"dir"})}
       /\ fetch' = [Taken(e) EXCEPT !.total = @ + e.size]
       /\ UNCHANGED <<pc, result, disk>>

Unpack(e) ==
  IF Skip(e)
    THEN fetch' = Advance(fetch) /\ UNCHANGED <<pc, tree, result, disk>>
  ELSE IF fetch.entries + 1 > MaxFiles
    THEN Fail("too large")
  ELSE IF Misplaced(e) \/ Tail(e.path) \in fetch.seen \/ e.type \notin {"dir", "file"} \/ (e.type = "dir" /\ e.size # 0)
    THEN Fail("rejected")
  ELSE IF e.type = "dir"
    THEN MakeDir(e, Tail(e.path))
    ELSE WriteFile(e, Tail(e.path))

More == fetch.at <= Len(fetch.archive.entries)

Extract == pc = "extract" /\ More /\ Unpack(fetch.archive.entries[fetch.at])

(* The stream breaks, or it expands past what the limits allow.            *)
Excess == IF cancelled THEN "cancelled" ELSE "too large"

ExtractFails ==
  /\ pc = "extract"
  /\ \/ Fail(ReadError)
     \/ fetch.archive.bloated /\ Fail(Excess)

(* End of the archive, and of the stream behind it.                        *)
Extracted ==
  /\ pc = "extract" /\ ~More
  /\ IF fetch.root = NoRoot THEN Fail("rejected")
     ELSE IF fetch.archive.bloated THEN Fail(Excess)
     ELSE /\ pc' = "harden"
          /\ UNCHANGED <<fetch, tree, result, disk>>

(***************************************************************************)
(* The checkout is made safe to read: instruction files out, the diff of   *)
(* the server in, everything read-only, credentials beside it.             *)
(***************************************************************************)
Step(from, to) == pc = from /\ pc' = to /\ UNCHANGED <<result, cancelled, agent, left, calls>>

Trusted(nodes) == {n \in nodes : \A k \in 1..Len(n.path) : n.path[k] \notin Untrusted}

HardenCheckout ==
  /\ Step("harden", "diff")
  /\ tree' = Trusted(tree)
  /\ UNCHANGED <<fetch, sealed>>

TheDiff == [path |-> <<DiffName>>, kind |-> "file", size |-> 0, by |-> 0]

(* os.WriteFile truncates a file of that name; a directory is in the way.  *)
WriteDiff ==
  IF <<DiffName>> \in Paths({"dir"})
  THEN pc = "diff" /\ Return("io", <<>>)
  ELSE /\ Step("diff", "seal")
       /\ tree' = {n \in tree : n.path # <<DiffName>>} \cup {TheDiff}
       /\ UNCHANGED <<fetch, sealed>>

MakeReadOnly ==
  /\ Step("seal", "files")
  /\ sealed' = TRUE
  /\ UNCHANGED <<fetch, tree>>

NewSandboxFiles == Step("files", "start") /\ UNCHANGED <<fetch, tree, sealed>>

(* One of these fails, or bubblewrap cannot be started.                    *)
PrepareFails ==
  \/ pc \in {"harden", "diff", "seal", "files"} /\ Return("io", <<>>)
  \/ pc = "start" /\ Return("sandbox", <<>>)

(***************************************************************************)
(* The reviewer, in a process group of its own.                            *)
(***************************************************************************)
StartAgent ==
  IF cancelled
  THEN pc = "start" /\ Return("cancelled", <<>>)
  ELSE /\ pc = "start"
       /\ pc' = "running"
       /\ \E e \in Engines : agent' = [NoAgent EXCEPT !.alive = TRUE, !.engine = e]
       /\ UNCHANGED <<fetch, tree, sealed, result, cancelled, left, calls>>

Acts == UNCHANGED <<pc, fetch, tree, sealed, result, cancelled, left, calls>>

(* External: the reviewer writes a chunk, exits, or is killed.             *)
AgentWrites(s) ==
  /\ agent.alive /\ agent.pipe[s] = <<>>
  /\ \E chunk \in UNION {[1..n -> Words[s]] : n \in 1..MaxSaid - Len(agent.said[s])} :
       agent' = [agent EXCEPT !.pipe[s] = chunk, !.said[s] = @ \o chunk]
  /\ Acts

AgentExits ==
  /\ agent.alive
  /\ \E status \in IF agent.doomed THEN {"ok", "failed", "killed"} ELSE {"ok", "failed"} :
       agent' = [agent EXCEPT !.alive = FALSE, !.exit = status]
  /\ Acts

AgentDies ==
  /\ agent.alive /\ agent.doomed
  /\ agent' = [agent EXCEPT !.alive = FALSE, !.exit = "killed"]
  /\ Acts

(* boundedBuffer.Write by the copying goroutine of the stream: what does   *)
(* not fit is dropped, and the process group is killed.                    *)
CopyOutput(s) ==
  LET room == OutLimit - Len(agent.kept[s])
      new  == agent.pipe[s]
  IN /\ new # <<>>
     /\ agent' = [agent EXCEPT !.pipe[s] = <<>>,
                               !.kept[s] = @ \o SubSeq(new, 1, IF Len(new) > room THEN room ELSE Len(new)),
                               !.over = IF Len(new) > room THEN @ \cup {s} ELSE @,
                               !.doomed = @ \/ Len(new) > room]
     /\ Acts

(* cmd.Wait returns when the process is reaped and both pipes are drained. *)
Waited == ~agent.alive /\ \A s \in Streams : agent.pipe[s] = <<>>

(* Mutant: the limits are looked at only when the process failed.          *)
OutcomeByStatus ==
  IF agent.exit = "ok" THEN "none"
  ELSE IF agent.over # {} THEN "output"
  ELSE "failed"

Outcome ==
  IF agent.over # {} THEN "output"
  ELSE IF agent.exit = "ok" THEN "none"
  ELSE IF "quota" \in Range(agent.kept["stderr"]) THEN "quota"
  ELSE IF "aborted" \in Range(agent.kept["stdout"]) THEN "aborted"
  ELSE "failed"

(* The texts of the lines that are events with one; every other line, a    *)
(* broken one too, is passed over, unless there is none with a text.       *)
IsText(line) == line \in TextEvents

ExtractText(lines) ==
  LET texts == SelectSeq(lines, IsText)
  IN IF texts = <<>> THEN lines ELSE texts

TrimSpace(lines) ==
  LET solid == {i \in 1..Len(lines) : lines[i] # WhiteLine}
  IN IF solid = {} THEN <<>> ELSE SubSeq(lines, Min(solid), Max(solid))

(* What is taken for the review: pi prints its final message only.         *)
Message(engine, lines) == IF engine = "pi" THEN TrimSpace(lines) ELSE ExtractText(lines)

AgentDone ==
  /\ pc = "running" /\ Waited
  /\ Return(Outcome, IF Outcome = "none" THEN Message(agent.engine, agent.kept["stdout"]) ELSE <<>>)

(* Mutant: the call returns as soon as it has sent the signal.             *)
KillAndReturn ==
  /\ pc = "running" /\ cancelled
  /\ pc' = "idle"
  /\ agent' = [agent EXCEPT !.doomed = TRUE]
  /\ result' = [error |-> "cancelled", text |-> <<>>]
  /\ tree' = Absent
  /\ sealed' = FALSE
  /\ UNCHANGED <<fetch, cancelled, left, calls>>

(* Mutant: the signal reaches the launcher and not its group.              *)
KillLauncher ==
  /\ pc = "running" /\ cancelled
  /\ pc' = "reap"
  /\ UNCHANGED <<fetch, tree, sealed, agent, result, cancelled, left, calls>>

(* ctx.Done: the group is killed and the call waits for it.                *)
Kill ==
  /\ pc = "running" /\ cancelled
  /\ pc' = "reap"
  /\ agent' = [agent EXCEPT !.doomed = TRUE]
  /\ UNCHANGED <<fetch, tree, sealed, result, cancelled, left, calls>>

Reap == pc = "reap" /\ Waited /\ Return("cancelled", <<>>)

Agent    == (\E s \in Streams : AgentWrites(s)) \/ AgentExits \/ AgentDies
Download == Request \/ RequestFails \/ Retry \/ BackoffCancelled \/ BackoffEnds
Unpacks  == Extract \/ ExtractFails \/ Extracted
Prepare  == HardenCheckout \/ WriteDiff \/ MakeReadOnly \/ NewSandboxFiles \/ PrepareFails \/ StartAgent
Collect  == (\E s \in Streams : CopyOutput(s)) \/ AgentDone \/ Kill \/ Reap

Next == Refuse \/ Begin \/ Cancel \/ Download \/ Unpacks \/ Prepare \/ Agent \/ Collect

Spec == Init /\ [][Next]_vars

(* Requests answer or time out; a killed process dies; the code is         *)
(* scheduled.  Nothing makes the reviewer stop, or the context end.        *)
Fairness ==
  /\ WF_vars(Request \/ RequestFails) /\ WF_vars(Retry) /\ WF_vars(BackoffEnds) /\ WF_vars(BackoffCancelled)
  /\ WF_vars(Unpacks) /\ WF_vars(Prepare)
  /\ WF_vars(AgentDies)
  /\ WF_vars(\E s \in Streams : CopyOutput(s)) /\ WF_vars(AgentDone \/ Kill) /\ WF_vars(Reap)

FairSpec == Spec /\ Fairness

(***************************************************************************)
(* Properties.                                                             *)
(***************************************************************************)
Returned == pc = "idle" /\ calls > 0

(* Every variable stays in its type.                                       *)
TypeOK ==
  /\ pc \in Places
  /\ {cancelled, sealed, agent.alive, agent.doomed} \subseteq BOOLEAN
  /\ fetch.attempt \in 0..Attempts
  /\ fetch.archive \in Archives \cup {NoFetch.archive}
  /\ fetch.error \in Errors /\ result.error \in Errors
  /\ tree = Absent => ~sealed
  /\ agent.over \subseteq Streams
  /\ agent.exit \in {"none", "ok", "failed", "killed"}
  /\ left \in 0..MaxCalls /\ calls \in 0..MaxCalls

(* The reviewer reads exactly one archive, whole and from one download,    *)
(* without the files that could instruct it, and the diff of the server,   *)
(* whatever broke off before, whichever RemoveAll failed.                  *)
Holding(entries) ==
  LET under == {e \in entries : e.type \in {"dir", "file"} /\ Len(e.path) > 1}
      files == {Node(Tail(e.path), "file", e.size) : e \in {x \in under : x.type = "file"}}
  IN files \cup {Node(Tail(e.path), "dir", 0) : e \in {x \in under : x.type = "dir"}}
           \cup {Node(p, "dir", 0) : p \in {<<>>} \cup UNION {Parents(n.path) : n \in files}}

Whole(a) ==
  {n \in Holding(Range(a.entries)) : Range(n.path) \cap Untrusted = {} /\ n.path # <<DiffName>>} \cup {TheDiff}

CheckoutIsWhole == agent.alive => tree = Whole(fetch.archive)

(* Whatever a pull request holds, and through all attempts, one call has   *)
(* no more on the disk than the limits say: of files, and of their bytes.  *)
Files == {n \in tree : n.kind = "file" /\ n # TheDiff}

CheckoutIsBounded ==
  /\ Cardinality(Files) <= MaxFiles
  /\ Cardinality(Contents(Files)) <= MaxBytes
  /\ \A n \in Files : n.size <= MaxFileBytes

(* What Run returns as the review was made of all the reviewer wrote, by a *)
(* process that ended by itself and well: of every text event, or of the   *)
(* whole output.  It is never made of what was kept of an output that was  *)
(* cut, although killing it and its exit race.  (Lines that are no text    *)
(* events are left out by the code on purpose, and broken events with      *)
(* them.)                                                                  *)
TextIsComplete ==
  Returned /\ result.error = "none" =>
    agent.exit = "ok" /\ result.text = Message(agent.engine, agent.said["stdout"])

(* When Run returns, its reviewer is gone: none reads a checkout that is   *)
(* being removed, or spends a key that is already handed to another.       *)
NoneSurvives == Returned => ~agent.alive

(* Every checkout on the disk belongs to a call under way: temporary disk  *)
(* for the largest pull request of each worker is enough.                  *)
NoCheckoutIsLeft == left = 0

(* A call whose context ends returns, wherever it is: it waits for no      *)
(* download, back-off or reviewer.                                         *)
CancelReturns == cancelled ~> pc = "idle"

===============================================================================
