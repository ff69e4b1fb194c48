# Formal verification of the review bot

The bot listens to GitHub webhooks, queues code reviews in SQLite, runs a
reviewer agent in a sandbox, and posts its findings as comments on a pull
request. Everything that could go wrong in public goes wrong at one place: the
comment that is posted twice, lost, posted for a commit that is no longer there,
or forgotten by the process that sent it. The development in this directory
models the parts of the program that keep this from happening: the service
lease, webhook intake, the durable queue and its outboxes, and the engine's
workers, over a GitHub that loses, delays and answers late. Around them it models
what those workers rely on: how the engine starts and stops them, how one of them
runs a reviewer and reads its answer, the pool of API keys they share, and the
sessions of the people who administer it.

* [Inventory](#inventory): the program's parts, their state, their hazards
* [Modules](#modules): which module models what
* [Runs](#runs): what TLC checks, the bounds and why they are enough
* [Fairness](#fairness)
* [Proofs](#proofs): what is proved for every value of the constants
* [Where the code and its documents differ](#where-the-code-and-its-documents-differ)
* [Not modelled](#not-modelled)
* [Plan](#plan)

## Inventory

| component | code | state | operations |
|---|---|---|---|
| service lease | `internal/store/leases.go` | one row: owner token, fence, expiry | acquire, renew, release, the check every fenced transaction starts with |
| review queue | `internal/store/reviews.go`, index in `store.go` | `reviews`: status, generation, owner and fence of the claim, revision, next attempt | create, claim the oldest that is due, recover, set revision, requeue, quarantine, finish done or failed |
| publication outbox | `internal/store/reviews.go` | `review_publications`: status, owner, fence, send started | prepare, claim for send, begin send, mark posted, mark uncertain |
| access-notification outbox | `internal/store/reviews.go` | `access_nudges` | create once, claim, mark sending, mark posted, requeue, recover, fail |
| webhook intake | `internal/server/webhook.go`, `CreateReviewWithAdmission` | `webhook_deliveries`, quotas counted over `reviews` | accept, deduplicate, refuse, queue a review or a notification, purge markers |
| engine | `internal/bot/engine.go` | lease term, contexts, worker goroutines, renewal goroutine | start, recover, work, renew, lose the lease, stop |
| worker | `internal/bot/engine.go` | the claimed review or notification, what it has read of the pull request | verify, read, run the agent, plan, publish, reconcile, dispose of errors |
| engine life cycle | `internal/bot/engine.go`, `cmd/samik-bot` | `startMu` and the fields it guards, contexts, wait group, wake channel | start, ready, stop with and without a deadline, signal, poll |
| GitHub client | `internal/gh` | token cache | read a pull request, look a marker up, post a comment, retry reads |
| key pool | `internal/pool`, `internal/store/keys.go`, `runWithPool` | `zen_keys`: uses of a day, rest, disabled | choose the least used, cool, try a second key, add, disable, delete |
| sessions | `internal/server/auth.go`, `internal/store/users.go` | `users`, `sessions`, `oauth_states`, cookies | log in, consume a state once, look a session up, log out |
| Orca connection | `internal/orca`, `internal/server/partner.go` | verifiers in memory | mint, take once, exchange, add the key to the pool |
| reviewer process | `internal/runner` | a checkout, a process group, two bounded buffers | download, unpack, seal, run, limit output, kill, clean up |
| review text | `internal/review` | none | find the answer, bound it, map lines to the diff |
| dashboard | `internal/server/api.go`, `web/` | none of its own | render the store |

**Interaction.** The webhook handler and the engine share only the database: the
handler inserts a row and signals, the workers claim. Processes share only the
database too, through the singleton lease: the process that holds it may write,
and every write repeats the check `(owner, fence, not expired)` in its own
transaction. A worker calls GitHub between transactions, so whatever it knows
may be stale when it writes; the row's claim `(owner, fence, generation)` decides
whether it still may. Workers of one process share its lock and its wake channel,
and with the administrator's requests the rows of the key pool. A comment carries an opaque marker, by which a later
process finds out whether an uncertain POST took effect.

**What is hard.**

* *Time.* The lease check compares with a clock read before the transaction
  began. Processes pause. Clocks step.
* *Interleaving.* A worker of a lost lease runs on beside its successor. Two
  workers of one engine share a queue. The pull request moves between reads.
* *Crashes.* Between the row that announces a send, the request, and the row that
  acknowledges it, a process may die at any point.
* *Unreliable calls.* A reply is lost, a request is lost, or it takes effect after
  the client gave up and another process has looked for its comment.
* *Goroutines.* Stop drains workers and the renewal goroutine while they, Ready and
  another Start want the lock; a check that began under one start answers under
  the next.
* *A process of somebody else's.* The reviewer floods its pipes, hangs, dies or is
  killed while its output is being read; a download breaks off halfway.
* *Partial failure.* One of several comments is posted; SQLite or GitHub fails
  one call of a sequence; a deadline passes at any check.
* *Liveness.* A row whose owner died must be recovered, a retried one must be
  settled, an unsettled one must not starve the rest.

`PROJECT.json` lists each hazard at its line with the properties that cover it.

**What makes each part correct.** *Lease*: terms are never shared or reused and
writes of a later term are never followed by one of an earlier. *Queue*: one
active review per pull request, finished is final, only the current claim
writes. *Outbox*: what may have been sent is never sendable again; done means the
whole plan is acknowledged. *Engine*: each comment appears at most once, in
order; a plan comes from one revision; an uncertain comment is forgotten neither by
the execution that sent it nor by recovery; every queued review is settled in the end. *Notifications*: as the outbox, for one
comment. *Intake*: a trigger makes at most one review, however often it is
delivered. *Life cycle*: nothing outlives its term, who returns from Stop leaves a
released lease, no wakeup is lost. *Key pool*: keys wear evenly, and a run that used
one up gets another row of the pool. *Sessions*: a login state is used once, a session is that of
the account that signed in, and a logout takes back what the browser holds.
*Reviewer*: what is posted is made of all it wrote about the whole of one
checkout, and it does not survive its call. *Text*: the last answer counts, and
comments are pinned to lines of the diff.

## Modules

```
LeaseTerm <---(implements)--- ServiceLease <--- ServiceLeaseProofs
   ^   ^
   |   +------------- EngineLease <--- NudgeOutbox <--- NudgeOutboxProofs
   |                       ^
ReviewStore <--------------+--- ReviewEngine ---(implements)---> Delivery
   ^                                ^
   |                                +--- MCReviewEngine
   |                                |
ReviewStoreProofs <--------- ReviewEngineProofs

EngineLifecycle <--- EngineLifecycleProofs        Intake <--- IntakeProofs

KeyPool <--- OrcaConnect, Sessions <--- DashboardProofs, MCDashboard

Runner, ReviewText <--- ReviewJobProofs, MCReviewJob

                                              A <--- B: B extends A
```

**`LeaseTerm`** is what the lease promises without clocks: a fence that grows with
each owner, and whether a check can still succeed. **`ServiceLease`** is the row of
`leases.go` with its expiry. Each store operation is two steps, the reading of
the clock and the transaction that compares with it, since `time.Now` is called
before the statement is executed. Constant `Steady` says whether the clock may
be set back.

**`ReviewStore`** has the rows of `reviews` (`rev`) and `review_publications`
(`pub`), one action per store method. Its `Next` lets any ticket (owner, fence,
generation) call any method at any time, so what holds there holds whatever the
engine does. `due` stands for `next_attempt_at`, `fresh` for a `send_started_at`
less than `OutboundHandoffTimeout` old. A plan's items are numbered: 0 is the
summary, k the k-th inline comment; `MaxInline` bounds them. Message bodies,
findings and models are left out.

**`EngineLease`** is an engine process and its lease: starting, serving, renewing,
losing the lease, stopping, crashing. `eng` holds each process's phase, its term,
and whether its configuration admits the requesters. Both modules that have
workers extend it and add what a step does to them.

**`ReviewEngine`** composes the store's actions into the program of `engine.go`:
`wk` holds each worker's place in
`processClaimedReview` or `publishPrepared` with what it has read, `prs` the pull
requests, `remote` the requests under way and the comments they made. Program
counters are named for what the worker does next:

| place | code |
|---|---|
| `idle`, `recovered`, `gone` | `worker`, `recoverExpiredWork`, `claimAndProcessReview` |
| `claimed`, `recording`, `acking`, `resuming` | `processClaimedReview` up to the second revision check |
| `listing`, `files`, `rechecking`, `diff`, `agent`, `finalcheck` | the reads, `runWithPool`, the check after it |
| `preparing`, `planned`, `publishing` | `preparePublication`, `publishPrepared` |
| `preflight`, `confirming`, `beginning`, `sending`, `posting`, `awaiting`, `marking` | one publication, from its claim to its acknowledgement |
| `reconciling`, `settling` | `reconcilePublication`, `reconcilePreparedPublications` |
| `uncertain`, `failing` | `publicationUncertain`, `handleReviewError` |

A lease check and the read that follows it are one step; a check and the POST
that follows it are two, because that is where a pause matters. An error is the
set of classes `handleReviewError` distinguishes ("lost", "reconcile",
"inflight", "head", "access", "retry", "hard", "canceled"). Which of the two a
context error is depends on what ended the context: the review's deadline
("retry") or the engine's cancellation ("canceled"). A database that fails
(`DiskFails`) makes a hard error of most transactions; when it is the one that was to
record the disposition, the row stays `running`. A revision is a commit, the number
of pushes that led to it, which no program sees, and the second of `updated_at`, all
that GitHub gives of it: the token is the commit and the second. The owner token,
drawn afresh by each start, is the process: the fence tells two starts of one
process apart. Constant `Faults` names what the environment may do in a run.

**`NudgeOutbox`** has the rows of `access_nudges` (`nud`), the workers that carry
them (`job`) and GitHub (`remote`). A notification is a single comment, so its
row is queue and outbox at once, and `send_started_at` (`sent`: empty, within the
handoff window, older) is all that separates a claim that may simply be repeated
from one whose comment may exist. `claimed` is a worker up to the marker
search, `beginning` one that has found nothing, then `sending`, `posting`,
`awaiting`, `marking`; `quarantining` retains an uncertain row, `failing` is
`handleNudgeError`.

**`Intake`** is what happens before a row is queued. A webhook request is three
steps: `Gate` (who the sender is, at that moment), `Stamp` (the `created_at` the
transaction will write) and the transaction itself, `CreateReview`, `CreateNudge`
or `AnswerDuplicate`, whose first write is the delivery's marker. `reviews` keeps
of each row what admission asks of it, so the engine's work on a row is
`ReviewMoves`. `entitled` merges the two gates, the users table and the access
lists, since both end in a notification. `decided` is a history variable: when a
delivery was last decided, which its marker says only until it is purged.

**`Delivery`** is the promise to a reader of the pull request, and
`ReviewEngine!Promise` the refinement mapping.

**`EngineLifecycle`** looks at the same engine from inside one process, where
`EngineLease` takes a start, a loss and a stop for single steps. It has `startMu`,
the fields it guards, a context, goroutines and a shutdown for each term (a
successful Start; its number stands for the owner token), the callers of Start,
Ready and Stop, and the wake channel. A critical section is one step, except that of
Start, which keeps the lock while it asks the database. The rows are abstracted to
`due`, the kinds of work that some row has ready, and `unsignalled`, the kinds whose
handler has committed and not signalled yet. `doubted` is a history variable: the
terms whose lease somebody asked about in vain.

**`Runner`** is a call of `Run`: `fetch` is the download and how far it is unpacked,
`tree` the nodes on the disk, `agent` the process with what it has said, what is in
each pipe and what each `boundedBuffer` kept. What `Run` returns is not that output but
a `Message` made of it: for pi, its lines without the white space around them
(`TrimSpace`); otherwise the text events among them, every other line and every broken
event left out in silence, or the output as it is if there are none (`ExtractText`). A
line is an event with one text, a white one or anything else; `collectTexts` walks a Go
map, whose order is random, so of an event with several texts the order is not the
code's to give. Archives are sets of small entries, one
for each rule and limit of `extractGitHubArchive`, over the path components `Names`
(`ArchiveAssumption` gives an entry its shape); the reviewer may write, flood, exit or
hang, and the context may end anywhere.

**`ReviewText`** are the functions between that answer and a plan, one call per
behaviour, each compared with a definition of what it should return: the last
fenced block of the contract (fences of three backticks, bare or with a language,
and longer ones; tildes and inline code that begins a line with three backticks are not
in the alphabet), the line numbers of a patch, the findings that may be
posted, the cuts at a byte limit. A loop of the code is a recursive function from the
number of items read to what is known then (`Scan`, `Walk`, `Decodes`, `Comments`,
`Draws`), which is what lets it be reasoned about for every input.

**`KeyPool`** is `zen_keys` under several `runWithPool` at once and an administrator
who adds, disables and deletes; the clock is read before each statement, and SQLite
may give a new key the id of a deleted one. Its keys are *rows*, told apart whatever id
they have; the secret in one is left out, as no step reads it. Nothing in the code
keeps an administrator from adding a secret twice, or again after it was deleted: that
makes two rows, and whatever is said of two keys, `SecondKeyDiffers` included, is said
of two rows. **`OrcaConnect`** extends it with the
connect attempts whose keys end in the pool. **`Sessions`** is signing in and out: a
callback is several steps with GitHub between them, while the account is renamed,
another tab logs in, or the browser logs out.

## Runs

Each `.cfg` belongs to the MC module its name begins with.

* `lease` - three processes, two more than hold the lease at a time: one that
  holds it, one that works on with a term it lost, one that acquires. Four
  readings of the clock and a lease of two let a lease expire, be taken and
  expire again. Terms are never shared, effects follow terms, nobody is preempted,
  and `LeaseTerm` is implemented. For a clock that is set back the first two are
  proved (below).
* `engine` - two processes and one review, in two slices, told apart by its pull
  request; the run's action constraint (`Slices`) is what each leaves out. A quiet one:
  two processes over three terms of a summary and an inline comment, in which processes
  crash, stop and pause and requests are lost, late or lose their reply. Three terms are
  needed for a ticket that is two owners old, and three executions for one that is
  recovered and then retried. A moving one: one process at a time, since a plan is
  made from what one execution has read, and every fault. While nobody touches
  the pull request, three terms and an inline comment in which reads of GitHub and
  SQLite fail and deadlines pass besides; when it moves or requesters lose access, two
  terms, two executions and a summary, with two pushes and two seconds of updates, so that
  it may leave a commit and come back to it between any two reads. In all of it
  the engine implements `Delivery`, makes no comment twice, never rewinds the outbox,
  takes from an older term only what recovery may take, and plans from one revision;
  and no execution but one that resumed the review ends it over an uncertain comment
  (`OnlyResumptionStrands`). That none ever does (`NoStrandedEffects`) is what the code's
  comment asks for and the code does not do: see `engine_force_push`. Left out of
  both slices is "same second", without which `PlanFromOneRevision` does not
  hold: two pushes, there and back, within one second of `updated_at`.
* `engine_pair` - two workers of one engine, two reviews of the same or of two pull
  requests, a crash or shutdown and lost replies, under fairness. A crash is
  possible as long as a term is left for the successor. No pauses: an engine that
  lost its lease stays down until something outside restarts it, which no
  fairness of this program justifies.
* `nudge` - one notification, two processes of two workers, two terms, up to three
  executions and two attempts, every fault. Two workers of one engine are needed
  for a claim that is taken over within a term; notifications do not interact
  except through the queue's order, and the proofs below cover any number. It is
  posted at most once, closed as posted only on the evidence of its comment, and
  given up only unsent, unless the repository was withdrawn from the configuration.
* `intake` - two requests at a time, three comments with one delivery each: two
  of one user in two repositories, another user on the first pull request, and
  every limit one, so that the user's quota, the repository's, the queue and the
  trigger each refuse something the others would admit. Three readings of the
  clock with an hour and a retention of one let a row leave the hour and a marker
  be purged, after which the same comment is delivered as if under a new ID.
* `lifecycle` - three slices: two callers that start, stop and ask over two terms (a
  stop that one gives up and another completes, a start after it, a check of the
  first term that answers in the second); one worker with reviews and notifications;
  and two workers with one kind of work, for the token of the wake channel that two of
  them wait for. Liveness (`StopReturns`, `DueIsClaimed`) is checked in all of them.
* `review_job` - two calls of `Run` over fifteen archives: one for each rule, one for
  each limit just exceeded. An output limit of two words with three said is
  exceeded on either stream, while the other is whole; the lines are two texts, a white
  one and what a failing reviewer says, under either engine. And every message of up to six
  lines of seven kinds, patch of five, four findings, strings of four runes: enough for two blocks
  that each open, hold an answer and close, for two hunks, for one finding beyond the
  limit, and for a limit inside each width of rune.
* `dashboard` - three slices that share no state: two workers and two ids for three
  rows of keys, so that an id is used twice, over two days; two connect attempts with two
  callbacks at a time; two accounts with three names in the tabs of one browser. A
  single browser is enough for a callback that meets another's cookie, since two tabs
  share them, and the proofs cover any number.
* `engine_force_push`, `engine_timeout`, `runner_leftover`, `text_fences` - the divergences below.

Deadlock is not checked: at their bounds the models stop, and a settled system
with no further reviews has nothing to do. Processes are interchangeable in
everything but liveness, so the safety runs use symmetry, except where a
refinement is checked with a mapping that is itself symmetric.

Every property has a mutant in `PROJECT.json`: an edit of one definition, such as
a dropped comparison or a recovery that does not wait, that breaks it. Type
invariants are proved, not run; so are, without a run, some properties that each step shows at once: `TerminalIsFinal`, `DoneMeansDelivered`,
`ClaimedUnderTerm`, `NeverPreempted`, `QueuedMeansUnsent`, `UsesAreCounted`.

## Fairness

`ReviewEngine!FairSpec` assumes weak fairness of each worker's next step (goroutines are
scheduled and every call the code makes has a timeout), of starting a process
that is down and of its recovery (the service manager restarts it), of an
expired lease's expiry being noticed, of `next_attempt_at` and handoff windows
passing (clocks advance), and of GitHub deciding a request that it received. It
assumes nothing of crashes, lost replies, errors or pushes. One outcome is
excepted from `QueuedIsSettled`: the quarantine of a comment that was announced and
never appeared, which `docs/operations.md` leaves to an operator.

`EngineLifecycle!Fairness`: goroutines and callers are scheduled, every database call
and every review has a time limit, and the poll timer fires. That claims of one kind
succeed again and again needs strong fairness, since a worker may be refused in
between. Nothing is assumed of signals: `DueIsClaimed` rests on the poll timer alone,
and what the signals add is the safety property `NoLostWakeup`.

`Runner!Fairness`: requests answer or time out, a killed process dies, the code is
scheduled. Nothing makes the reviewer stop or the context end.

## Proofs

The modules named `*Proofs` are checked by TLAPS from the assumptions named in the
modules (`NoProc \notin Procs`, sizes are naturals, a lease lasts longer than
nothing, a revision is a commit with the pushes before it and a second, an entry, a
patch or a message has the shape its reader is given). No bound is assumed of any
constant.

* *Lease.* `TermsNeverShared` is not inductive: it says nothing of a process that
  remembers a term nobody else has. `TermInv` adds that no remembered term or
  applied effect exceeds the row's fence, and that who remembers the row's fence is
  its owner. `Fencing` and `TermsUnique` follow without any assumption on the
  clock; `NoPreemption` and `ImplementsLeaseTerm` need `Steady` and one more invariant,
  that every time an operation carries is in the past.
* *Store.* `TypeCorrect` first. `ActiveUnique` goes by the transitions that make a
  row active (only creation, which asks the index). `Delivered` needs `PlanWhole`:
  an unprepared review has no inline rows either. `NeverRewinds`, `Final` and
  `Fencing` are action properties proved one method at a time from the shapes a
  row or publication can be given (`RowWrite`, `PubWrite`).

* *Engine.* The composition of lease, store, engine, workers and GitHub, for any number
  of processes, workers, reviews, comments and terms, and for any faults. `Inv` has the
  tables' types (`Tables`), `PlanWhole`, what holds of comments (`Sends`) and what holds
  of revisions (`Reads`). That at most one copy of a comment exists (`PostedOnce`) rests
  on `Unsent`: what is still pending has nobody's request under way and no comment; on
  `Announced`: the one step that takes a row out of pending is the one by which a
  worker commits to its POST, and nothing puts the row back; and on `OneSender`, since
  that worker's request has not left yet and nobody else may commit. `Behind` says that a
  worker on its way to a send has all before it posted, from which comments appear in
  order. `PlansFromOneRevision` counts pushes: what was read lies `Between` two looks
  that found the same token. It assumes that "same second" is not a fault, that is,
  that a push comes in a later second than the update before it: then, of two looks
  with the same second, no push lies between (`Onward`). Without it, the token of
  `gh/client.go` cannot tell, and the theorem is false. Most steps are *calm* again, and disposed of by what they write;
  claims, announcements, POSTs, reads and GitHub's own steps are taken one by one. As every
  step is one of the store or none (`UsesStore`), the store's theorems hold of the engine
  (`EngineKeepsStore`). `DeliveryImplemented` then goes by what a step changes in the view
  that `Promise` takes: nothing (`HiddenStep`), or exactly one action of `Delivery`.
* *What the engine forgets.* A finished review with an uncertain comment is the one loss
  the code admits (see below), and `OnlyResumptionsStrand` says how far it goes, under
  any faults: only an execution that resumed the review, and so read its unsettled
  rows, ends it over one; never the execution that sent the comment, nor recovery. It
  needs `Books`, which says what each worker knows of the uncertain rows of the
  execution it holds alone (`Tickets`, `Distinct`): none before it sends, at most the one
  on its way, and on an error that one is among what the error says, or the plan was a
  resumed one (`Accounts`). There is no theorem that nothing is forgotten: the code
  forgets.
* *Notifications.* `AtMostOneNotification` is proved of the whole composition of
  lease, engine, workers and GitHub, for any number of each and for any faults, clocks
  that stop and requests that arrive arbitrarily late included. It is far from
  inductive: `Inv` says that executions are told apart by their generations
  (`Tickets`, `Distinct`), that a row without a recorded send has no comment and
  nobody in the act (`Quiet`), that a worker about to announce a send finds none
  recorded (`Unannounced`), and that the one that announced it is from then on
  the only one that will post (`OneSender`). All but three actions are *calm*: no
  job takes on more than it had, no row goes back, no request leaves; `CalmStep`
  disposes of them together, and a claim, an announcement and a POST are taken
  one by one. `GivenUpUnsent` is an action property that needs `Recorded`: who has
  announced nothing finds no send on its row.

* *Intake.* The limits are counts over rows, so each transaction is shown to add one
  row to a count it found below its limit, by a clock no earlier than the row's.
  Whatever else happens leaves triggers and dates alone and makes no closed row
  active (`Kept`), from which `OneReviewPerTrigger` follows as well;
  `ReplaysAreDropped` needs what a purged marker tells about the clock
  (`MarkersTell`).
* *Keys, connections, sessions.* `SecondKeyDiffers` says nothing of the time at which
  the first key failed. `PoolInv` adds that who holds a key knows its row, whatever
  id it has by now (`KnowsItsRow`), and that the rest of a used-up key outlasts the
  pause before the second request, whoever wrote it last (`WornRests`): this is where
  `2 * Pause < Cooldown` is needed, because the report of another worker may shorten
  a rest. It is proved of rows; a secret that an administrator put into two of them
  may well get both turns. `SessionsAreOwn` goes by `SigninKnows`: what a callback carries from one step
  to the next is still the account that GitHub named.
* *Life cycle.* `Control` relates the fields to the shutdowns: one that has not reset
  the fields belongs to the owner, and who holds the lock inside Start finds the
  engine at rest. From there no goroutine of another term lives (`OneGeneration`), nobody
  returns from Stop before the release (`StoppedMeansReleased`), and a check that fails
  cancels its own term (`OnlyOwnLoss`). `NoLostWakeup` needs more than who waits: announced work that is
  still due has left a token, or there is a worker that will ask for it before it waits
  on the channel alone (`Wakeful`, `Covers`).
* *Reviewer.* The process lives only at two places of a call (`Confined`), every way out
  of them waits for it and for both pipes, and a stream that was not cut is, kept and in
  the pipe together, what was said (`Conserved`), so that the message returned is that of
  all that was said, whatever `ExtractText` leaves out of it. `CheckoutIsWhole` and
  `CheckoutIsBounded` hold for any archive and any limits: after each entry the disk
  is what the entries before it hold (`Unpacking`), which takes every kind of
  entry and every rule that refuses one; its files are as many as `fetch` has counted,
  and their bytes no more (`Sized`), through failed attempts and clean-ups too.
* *Text.* The four properties of `ReviewText` are proved for every message, patch, list of
  findings, string and diagram. The functions are unrolled one item at a time (`Scans`,
  `Walks` and so on), and `Climb` takes from the first item to the last what one item
  passes on to the next. For the scanner that is `Knows`: inside a block it remembers
  where the block began and whether it is JSON, and it has found the last answer that
  ended so far. The property tells blocks by where fences stand, so the proof has to
  show that the scanner opens where a block begins and closes where it ends, the last
  one perhaps never. It is about messages whose fences have three backticks (`Short`);
  for longer ones it is false (below). For the
  index it is `Indexed`: the counters are the start of the hunk plus the lines of each
  side since. For a plan, `Kept` and `Pinned` count what was kept and what of it is in
  the diff. For the cuts, `Starts`: a byte starts a rune just where the one before it
  ends, so the scan for a boundary stops at the longest run that fits.

Model-checked only: liveness (`QueuedIsSettled`, `StopReturns`, `DueIsClaimed`,
`CancelReturns`), which is beyond this prover. Each safety property of a passing run is a
theorem.

## Where the code and its documents differ

* **A push strands an effect** (`engine_force_push`). The comment at
  `engine.go:1259` says that a force-push must not strand a sending publication.
  The comparison at 640 honours it; the second check, at 659, hands the changed
  head to `handleReviewError`, which fails the review.
* **A silent return strands a row** (`engine_timeout`). At some checks
  `processClaimedReview` returns without a disposition. When the deadline is what
  failed the check, the row stays `running` under a fence that recovery does not
  take, until the process is restarted. `processClaimedNudge` returns in silence at
  the same kind of check.
* **Each review leaves its checkout** (`runner_leftover`). `makeReadOnly` gives the
  directories of a checkout mode 0555; the deferred `os.RemoveAll` of a service that is
  not root cannot unlink anything in them, and its error is dropped (`runner.go:216`,
  `runner.go:1112`). `docs/operations.md` has the service run unprivileged, makes the
  checkout temporary, and asks for disk for the largest pull request.
* **A longer fence hides the answer** (`text_fences`). `parse.go:64` says that
  `parseFencedJSON` looks for the last fenced JSON block. A fence of four or more
  backticks, as Markdown has around an example that shows a fence, opens a block for
  the scanner too, but only three bare backticks close it: it swallows what follows,
  the answer's own fence included, and the message is posted as it is. Nor does such a
  fence close a block of three, as it would in Markdown; that is the shorter
  counterexample TLC finds. `LastAnswerCounts` holds of
  messages without such fences.

Met while modelling, without a run of their own:

* Withdrawn access, exhausted attempts or a hard error on a resumed review fail it
  while a publication is uncertain (`engine.go:604`, `engine.go:1121`), as a push does;
  `docs/operations.md` says that only a marker and a comment ID close such a delivery.
* `updated_at` has a resolution of one second. `gh/client.go:102` says that the token
  tells a head that went away and came back ("ABA movement") from one that stayed; when
  both pushes fall into the second of the last update before them, it does not.
* When SQLite fails the transaction by which a worker requeues, quarantines or fails its
  review (`engine.go:1105`, `1132`, `1347`), the row stays `running` under the live
  fence, as after a silent return.
* A broken line among the reviewer's events is dropped without a trace
  (`runner.go:1192`), as every line that is no text event is: the review is then
  made of the rest.
* Findings outside the diff count against the limit of ten before `InDiff` removes
  them, so valid ones after them are not posted.
* A repository with a directory named `review-diff.patch` cannot be reviewed: writing
  the diff fails.
* `CoolKey` names a key by its id (`keys.go:172`), and SQLite may reuse a deleted one: a
  late report then cools a key that did nothing. A late report of an older exhaustion
  shortens a rest that a newer one began.
* A logout during a callback that has consumed its state does not stop the session
  that the callback then makes; `OneLoginPerState` counts consumptions and does not see
  it. The late error answer of one attempt clears the cookie
  of a newer one. A stale profile read can put an old login name back, or retire
  another row's name; the account a session belongs to is not affected.
* The revision token changes with any update of the pull request
  (`gh/client.go:111`), comments included: deliberately conservative, at the price of
  a retry.

## Not modelled

* The web dashboard and its API render the store; the configuration and the sealing of
  keys are parsing and encryption. None keeps state that a decision reads.
* The migrations of the schema run in one transaction before anything else has the
  database.
* What bubblewrap permits, and the checks of the staged runtime in `sandbox.go`, are
  facts about an operating system.
* Prompt and comment wording, the checks of a finding's fields, reactions and
  progress events do not influence any decision of the modelled parts.
* In the GitHub client, paging, the retry transport and token refresh: to the engine
  each is a call that answers, fails for now or fails for good.

## Plan

Done in this order: lease, queue and outbox, engine, notifications, intake; then life
cycle, reviewer and text, key pool, connections, sessions, their proofs, the proofs of
the composed engine and its refinement of `Delivery`, and last what the engine can
strand, the checkout and the text. What is left, by what it would add:

1. The access-notification outbox as an implementation of the same promise to a reader
   (`Delivery` with one comment), and `EngineLifecycle` as one of the coarser start, loss and
   stop of `EngineLease`.
2. The retry transport of the GitHub client, between a call and the class of its error.
