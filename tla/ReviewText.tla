------------------------------ MODULE ReviewText ------------------------------
(***************************************************************************)
(* From what the reviewer wrote to what may be posted: the fence scanner   *)
(* and the bounds of src/internal/review/parse.go, the line index of       *)
(* diffmap.go, and the filter of preparePublication in bot/engine.go.      *)
(*                                                                         *)
(* Each action is one call of one function on one input of a set that the  *)
(* configuration gives; the properties compare what it returned with a     *)
(* definition of what it should return.                                    *)
(*                                                                         *)
(* Text is what the code can tell apart: a message is a sequence of line   *)
(* kinds, a patch one of diff lines, a string the widths of its runes.     *)
(***************************************************************************)
EXTENDS Integers, Sequences, FiniteSets

CONSTANTS
  Messages,       \* sequences of lines: prose, fences, and Answers
  Answers,        \* lines that are JSON of the agreed contract
  Patches,        \* sequences of [kind, old, new]; old and new matter in a hunk header
  Candidates,     \* sequences of findings [good, side, line]
  Strings,        \* sequences of rune widths, in bytes
  Diagrams,       \* sequences of [message, length]
  MaxFindings, MaxCandidates,
  MaxText, Marker,  \* a byte limit, and the width of the truncation marker
  MaxDiagram, Head0 \* maxSequenceDiagramBytes, and the length of its first line

DiffKinds == {"@@", "bad @@", "+", "-", " ", "no newline"}

(* A string is made of runes of one to four bytes; a line number that is   *)
(* not positive, or not in the diff, is a finding's own business.          *)
ASSUME TextAssumption ==
  /\ Messages \subseteq Seq(STRING)
  /\ Patches \subseteq Seq([kind : DiffKinds, old : Nat, new : Nat])
  /\ Candidates \subseteq Seq([good : BOOLEAN, side : {"LEFT", "RIGHT"}, line : Int])
  /\ Strings \subseteq Seq(1..4)
  /\ Diagrams \subseteq Seq([message : BOOLEAN, length : Nat])
  /\ {MaxFindings, MaxCandidates, MaxText, Marker, MaxDiagram, Head0} \subseteq Nat

VARIABLE done   \* the call that was made: function, input and result

NotYet   == [of |-> "nothing"]
TextInit == done = NotYet

(***************************************************************************)
(* parseFencedJSON, one line at a time.                                    *)
(***************************************************************************)
Bare       == "fence"        \* three backticks
Long       == "long fence"   \* four or more
Fences     == {Bare, "json fence", "text fence", Long}
JSONFences == {Bare, "json fence"}

NoFence == [open |-> FALSE, json |-> FALSE, at |-> 0, found |-> <<>>]

(* decodeReview of the lines between two fences: one JSON object.          *)
Decode(body) == IF Len(body) = 1 /\ body[1] \in Answers THEN body ELSE <<>>

(* Mutant: a fence of any language closes the block.                       *)
ClosesAny(line) == line \in Fences

Closes(line) == line = Bare

ReadLine(lines, s, i) ==
  LET line == lines[i]
      body == Decode(SubSeq(lines, s.at, i - 1))
  IN IF ~s.open /\ line \in Fences
       THEN [s EXCEPT !.open = TRUE, !.json = line \in JSONFences, !.at = i + 1]
     ELSE IF s.open /\ Closes(line)
       THEN [s EXCEPT !.open = FALSE, !.found = IF s.json /\ body # <<>> THEN body ELSE @]
     ELSE s

(* What is known after each line.                                          *)
Scan(lines) ==
  LET after[i \in 0..Len(lines)] == IF i = 0 THEN NoFence ELSE ReadLine(lines, after[i - 1], i)
  IN after

(* The last block that decodes, or else the whole message as the summary.  *)
ExtractReview(lines) ==
  LET scan == Scan(lines)[Len(lines)]
  IN IF scan.found # <<>> THEN [summary |-> scan.found, inline |-> TRUE]
     ELSE [summary |-> lines, inline |-> FALSE]

ReadMessage ==
  /\ done = NotYet
  /\ \E m \in Messages : done' = [of |-> "message", input |-> m, out |-> ExtractReview(m)]

(***************************************************************************)
(* parsePatch: which line numbers of either side are part of the diff.     *)
(***************************************************************************)
Outside == [hunk |-> FALSE, old |-> 0, new |-> 0, left |-> {}, right |-> {}]

(* Mutant: a context line is not counted on the old side.                  *)
ContextRight(s) == [s EXCEPT !.right = @ \cup {s.new}, !.left = @ \cup {s.old}, !.new = @ + 1]

Context(s) == [s EXCEPT !.right = @ \cup {s.new}, !.left = @ \cup {s.old}, !.new = @ + 1, !.old = @ + 1]

ReadDiffLine(s, line) ==
  CASE line.kind = "@@"       -> [s EXCEPT !.hunk = TRUE, !.old = line.old, !.new = line.new]
    [] line.kind = "bad @@"   -> [s EXCEPT !.hunk = FALSE]
    [] ~s.hunk /\ line.kind \notin {"@@", "bad @@"} -> s
    [] s.hunk /\ line.kind = "no newline" -> s
    [] s.hunk /\ line.kind = "+"  -> [s EXCEPT !.right = @ \cup {s.new}, !.new = @ + 1]
    [] s.hunk /\ line.kind = "-"  -> [s EXCEPT !.left = @ \cup {s.old}, !.old = @ + 1]
    [] s.hunk /\ line.kind = " "  -> Context(s)

Walk(patch) ==
  LET after[i \in 0..Len(patch)] == IF i = 0 THEN Outside ELSE ReadDiffLine(after[i - 1], patch[i])
  IN after

Index(patch) == Walk(patch)[Len(patch)]

ReadPatch ==
  /\ done = NotYet
  /\ \E p \in Patches : done' = [of |-> "patch", input |-> p, out |-> Index(p)]

(***************************************************************************)
(* decodeReview keeps the first good findings, and preparePublication of   *)
(* those the ones GitHub can pin to the diff.                              *)
(***************************************************************************)

(* Mutant: the limit is looked at after the finding is kept.               *)
FullLate(kept) == Len(kept) > MaxFindings

Full(kept) == Len(kept) >= MaxFindings

Decoded(findings, kept, i) ==
  IF i > MaxCandidates \/ Full(kept) \/ ~findings[i].good THEN kept ELSE Append(kept, findings[i])

Decodes(findings) ==
  LET after[i \in 0..Len(findings)] == IF i = 0 THEN <<>> ELSE Decoded(findings, after[i - 1], i)
  IN after

Keep(findings) == Decodes(findings)[Len(findings)]

InDiff(index, f) == f.line >= 1 /\ f.line \in IF f.side = "LEFT" THEN index.left ELSE index.right

Comments(findings, index) ==
  LET after[i \in 0..Len(findings)] ==
        IF i = 0 THEN <<>>
        ELSE IF InDiff(index, findings[i]) THEN Append(after[i - 1], findings[i])
        ELSE after[i - 1]
  IN after

Publish(findings, index) == Comments(findings, index)[Len(findings)]

PreparePlan ==
  /\ done = NotYet
  /\ \E c \in Candidates, p \in {q \in Patches : Len(q) = 2} :
       done' = [of |-> "plan", input |-> c, patch |-> p, out |-> Publish(Keep(c), Index(p))]

(***************************************************************************)
(* cutUTF8, tailUTF8 and truncateUTF8 on the bytes of a string: TRUE where *)
(* a rune starts.                                                          *)
(***************************************************************************)
Rune(width) == [b \in 1..width |-> b = 1]

Encoding(widths) ==
  LET after[i \in 0..Len(widths)] == IF i = 0 THEN <<>> ELSE after[i - 1] \o Rune(widths[i])
  IN after

Bytes(widths) == Encoding(widths)[Len(widths)]

(* Mutant: the cut is made where the limit is.                             *)
CutAt(bytes, max) == IF max = 0 THEN <<>> ELSE IF Len(bytes) <= max THEN bytes ELSE SubSeq(bytes, 1, max)

(* Go indexes from 0: value[end] is the first byte that goes.              *)
Cut(bytes, max) ==
  IF Len(bytes) <= max THEN bytes
  ELSE LET ends == {e \in 0..max : e = 0 \/ bytes[e + 1]}
       IN SubSeq(bytes, 1, CHOOSE e \in ends : \A o \in ends : o <= e)

TailOf(bytes, max) ==
  IF max = 0 THEN <<>>
  ELSE IF Len(bytes) <= max THEN bytes
  ELSE LET starts == {s \in Len(bytes) - max..Len(bytes) : s = Len(bytes) \/ bytes[s + 1]}
       IN SubSeq(bytes, (CHOOSE s \in starts : \A o \in starts : s <= o) + 1, Len(bytes))

MarkerBytes == [b \in 1..Marker |-> b = 1]

Truncate(bytes, max) ==
  IF Len(bytes) <= max THEN bytes
  ELSE IF max <= Marker THEN Cut(bytes, max)
  ELSE Cut(bytes, max - Marker) \o MarkerBytes

CutText ==
  /\ done = NotYet
  /\ \E w \in Strings, max \in 0..MaxText :
       done' = [of |-> "text", input |-> w, max |-> max, cut |-> Cut(Bytes(w), max),
                tail |-> TailOf(Bytes(w), max), short |-> Truncate(Bytes(w), max)]

(***************************************************************************)
(* normalizeSequenceDiagram: lines while they fit, or else the fixed       *)
(* diagram (no lines here).                                                *)
(***************************************************************************)
HasMessage(lines) == \E i \in 1..Len(lines) : lines[i].message

(* The head, and each line after its newline.                              *)
Length(lines) == Head0 + Cardinality(UNION {{i} \X (0..lines[i].length) : i \in 1..Len(lines)})

Fits(lines, line) == Length(lines) + line.length + 1 <= MaxDiagram

(* The first line that does not fit ends the loop.                         *)
Drawn(s, line) ==
  IF s.full \/ ~Fits(s.kept, line) THEN [s EXCEPT !.full = TRUE] ELSE [s EXCEPT !.kept = Append(@, line)]

Blank == [kept |-> <<>>, full |-> FALSE]

Draws(lines) ==
  LET after[i \in 0..Len(lines)] == IF i = 0 THEN Blank ELSE Drawn(after[i - 1], lines[i])
  IN after

Fitting(lines) == Draws(lines)[Len(lines)].kept

NormalizeSequenceDiagram(lines) ==
  IF HasMessage(lines) /\ HasMessage(Fitting(lines)) THEN Fitting(lines) ELSE <<>>

DrawDiagram ==
  /\ done = NotYet
  /\ \E d \in Diagrams : done' = [of |-> "diagram", input |-> d, out |-> NormalizeSequenceDiagram(d)]

TextNext == ReadMessage \/ ReadPatch \/ PreparePlan \/ CutText \/ DrawDiagram
TextSpec == TextInit /\ [][TextNext]_done

(***************************************************************************)
(* Properties.                                                             *)
(***************************************************************************)

(* The blocks of a message in Markdown, told by where they are rather than *)
(* by reading on: disjoint pairs, each from a fence to the next one of     *)
(* backticks alone that is as long, or to behind the last line, such that  *)
(* every fence begins, ends or lies inside one.                            *)
Ends(fence, line) == line = Long \/ (line = Bare /\ fence # Long)
IsBlock(m, b) == /\ b[1] < b[2] /\ m[b[1]] \in Fences
                 /\ b[2] <= Len(m) => Ends(m[b[1]], m[b[2]])
                 /\ \A k \in b[1] + 1..b[2] - 1 : ~Ends(m[b[1]], m[k])
Inside(k, b)  == k \in b[1]..b[2]
Splits(m)     == {S \in SUBSET {b \in (1..Len(m)) \X (1..Len(m) + 1) : IsBlock(m, b)} :
                    \A k \in 1..Len(m) :
                      /\ m[k] \in Fences => \E b \in S : Inside(k, b)
                      /\ \A b, c \in S : Inside(k, b) /\ Inside(k, c) => b = c}

(* A block that is closed, fenced as JSON and holds an answer.             *)
Decodable(m, b) ==
  b[2] <= Len(m) /\ m[b[1]] \in JSONFences /\ Decode(SubSeq(m, b[1] + 1, b[2] - 1)) # <<>>

IsLastAnswer(m, out) ==
  /\ Splits(m) # {}
  /\ \A S \in Splits(m) :
       LET answers == {b \in S : Decodable(m, b)}
       IN IF answers = {} THEN out = [summary |-> m, inline |-> FALSE]
          ELSE \E b \in answers : /\ \A c \in answers : c[1] <= b[1]
                                  /\ out = [summary |-> <<m[b[1] + 1]>>, inline |-> TRUE]

(* Of a message whose fences are all of three backticks, as the prompt     *)
(* asks, the last answer is read, whatever examples and quoted answers     *)
(* precede it and whether or not its last block is closed; one without any *)
(* is shown as it is.  After a longer fence that is not so.                *)
LastAnswerCounts ==
  done.of = "message" /\ (\A k \in 1..Len(done.input) : done.input[k] # Long) =>
    IsLastAnswer(done.input, done.out)

(* "It looks for the last fenced JSON block" (parse.go:64), in any message. *)
LastBlockIsRead == done.of = "message" => IsLastAnswer(done.input, done.out)

(* A comment can be pinned exactly to the lines the hunks show: the number *)
(* of a line is the start of its hunk plus the lines of that side since.   *)
Header(p, k) == CHOOSE h \in 0..k : /\ h = 0 \/ p[h].kind \in {"@@", "bad @@"}
                                    /\ \A j \in h + 1..k : p[j].kind \notin {"@@", "bad @@"}
Shown(p, side) ==
  {k \in 1..Len(p) : p[k].kind \in side /\ Header(p, k) # 0 /\ p[Header(p, k)].kind = "@@"}
Since(p, k, side) == Cardinality({j \in Header(p, k) + 1..k - 1 : p[j].kind \in side})

IndexIsExact ==
  done.of = "patch" =>
    LET p == done.input IN
    /\ done.out.right = {p[Header(p, k)].new + Since(p, k, {"+", " "}) : k \in Shown(p, {"+", " "})}
    /\ done.out.left  = {p[Header(p, k)].old + Since(p, k, {"-", " "}) : k \in Shown(p, {"-", " "})}

(* What is posted inline: of the first MaxCandidates findings the first    *)
(* MaxFindings good ones, and of these each that is on a line of the diff, *)
(* in their order, once.                                                   *)
Chosen(c, index) ==
  {i \in 1..Len(c) : /\ i <= MaxCandidates /\ c[i].good /\ InDiff(index, c[i])
                     /\ Cardinality({j \in 1..i : c[j].good}) <= MaxFindings}

PlanIsPinned ==
  done.of = "plan" =>
    LET chosen == Chosen(done.input, Index(done.patch))
    IN /\ Len(done.out) <= MaxFindings /\ Len(done.out) = Cardinality(chosen)
       /\ \A i \in chosen : done.out[Cardinality({j \in chosen : j <= i})] = done.input[i]

(* No limit splits a rune, and none gives away more than one: a text is    *)
(* cut to the longest run of whole runes that fits, marker included.       *)
WholeRunes(bytes) == \E n \in 0..Len(done.input) : bytes = Bytes(SubSeq(done.input, 1, n))
LastRunes(bytes)  == \E n \in 1..Len(done.input) + 1 : bytes = Bytes(SubSeq(done.input, n, Len(done.input)))

CutsBetweenRunes ==
  done.of = "text" =>
    /\ Len(done.cut) <= done.max /\ Len(done.tail) <= done.max /\ Len(done.short) <= done.max
    /\ WholeRunes(done.cut) /\ LastRunes(done.tail)
    /\ \A n \in 0..Len(done.input) :
         /\ Len(Bytes(SubSeq(done.input, 1, n))) <= done.max =>
              Len(Bytes(SubSeq(done.input, 1, n))) <= Len(done.cut)
         /\ Len(Bytes(SubSeq(done.input, n + 1, Len(done.input)))) <= done.max =>
              Len(Bytes(SubSeq(done.input, n + 1, Len(done.input)))) <= Len(done.tail)
    /\ Len(Bytes(done.input)) > done.max /\ done.max > Marker =>
         \E head \in {SubSeq(done.short, 1, Len(done.short) - Marker)} :
           WholeRunes(head) /\ done.short = head \o MarkerBytes

(* A diagram is posted only if it shows a message within the limit.        *)
DiagramIsDrawable ==
  done.of = "diagram" /\ done.out # <<>> => HasMessage(done.out) /\ Length(done.out) <= MaxDiagram

(* Whatever is cut to a limit is still what its reader can take: text that *)
(* decodes, a diagram that draws.                                          *)
CutsAreClean == CutsBetweenRunes /\ DiagramIsDrawable

===============================================================================
