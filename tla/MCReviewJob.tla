------------------------------ MODULE MCReviewJob ------------------------------
(* What a worker does between claiming a review and publishing it: the     *)
(* calls of Run, and apart from them the functions that read what Run      *)
(* returned, which keep no state between them.                             *)
EXTENDS Runner, ReviewText

CONSTANTS r, other, a, b, agentsmd, patch

(* Small archives, one of each kind that the limits, the rules of          *)
(* extractGitHubArchive and the names in a repository tell apart.          *)
Entry(type, path, size) == [type |-> type, path |-> path, size |-> size, link |-> FALSE]
Dir(path)        == Entry("dir", path, 0)
File(path, size) == Entry("file", path, size)
Archive(entries) == [length |-> 1, bloated |-> FALSE, entries |-> entries]
Link             == [File(<<r, b>>, 0) EXCEPT !.link = TRUE]

Plain      == Archive(<<Entry("global", <<>>, 0), Dir(<<r>>), Dir(<<r, b>>), File(<<r, b, a>>, 1), File(<<r, patch>>, 1)>>)
Instructed == Archive(<<File(<<r, b, agentsmd>>, 1), File(<<r, agentsmd, a>>, 1), File(<<r, a>>, 1)>>)
Refused    == {Archive(<<>>), Archive(<<Dir(<<r>>), Link>>), Archive(<<Dir(<<r>>), Dir(<<other>>)>>),
               Archive(<<File(<<r, a>>, 1), File(<<r, a>>, 1)>>), Archive(<<Entry("fifo", <<r, a>>, 0)>>)}
Clashing   == {Archive(<<File(<<r, a, b>>, 1), File(<<r, a>>, 1)>>), Archive(<<Dir(<<r, a, b>>)>>),
               Archive(<<File(<<r, patch, a>>, 1)>>)}
Oversized  == {Archive(<<File(<<r, a>>, 2), File(<<r, b>>, 2)>>), Archive(<<File(<<r, a>>, 3)>>),
               Archive(<<File(<<r, a>>, 0), File(<<r, b>>, 0), File(<<r, patch>>, 0), File(<<r, other>>, 0)>>),
               [Plain EXCEPT !.length = 2], [Archive(<<File(<<r, a>>, 1)>>) EXCEPT !.bloated = TRUE]}

MCArchives == {Plain, Instructed} \cup Refused \cup Clashing \cup Oversized
MCNames    == {r, other, a, b, agentsmd, patch}
MCWords    == [stdout |-> {"text", "more", "aborted", "white"}, stderr |-> {"quota"}]

(* Messages of up to six lines, patches of up to five, and so on.             *)
UpTo(n, S)  == UNION {[1..k -> S] : k \in 0..n}
DiffLines   == {[kind |-> k, old |-> 0, new |-> 0] : k \in {"+", "-", " ", "no newline", "bad @@"}}
                 \cup {[kind |-> "@@", old |-> 0, new |-> 1], [kind |-> "@@", old |-> 5, new |-> 3]}
Findings    == {[good |-> FALSE, side |-> "RIGHT", line |-> 1]}
                 \cup [good : {TRUE}, side : {"LEFT", "RIGHT"}, line : {0, 1}]
MCMessages  == UpTo(6, {"prose", "fence", "json fence", "text fence", "long fence", "first", "second"})
MCPatches   == UpTo(5, DiffLines)
MCFindings  == UpTo(4, Findings)
MCStrings   == UpTo(4, 1..4)
MCDiagrams  == UpTo(4, [message : BOOLEAN, length : {1, 2}])

JobInit == Init /\ TextInit
JobNext == \/ done = NotYet /\ Next /\ UNCHANGED done
           \/ calls = 0 /\ TextNext /\ UNCHANGED vars
JobSpec == JobInit /\ [][JobNext]_<<vars, done>> /\ Fairness

===============================================================================
