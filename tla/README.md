# A verification project for typryx

typryx answers small classification questions ("is this call safe?", "how good is this
reply, 0 to 3?") through a paid or stubbed model backend, keeps every answer and the truth
later reported for it in an append-only ledger, and measures from that ledger how calibrated
the answers are. A reverse proxy asks it before a `decide` request goes on to wardryx, and
adds the answer as a signal.

This directory holds TLA+ models of that program, the TLC runs that check them on small
instances and TLAPS proofs of what matters most for every instance. `PROJECT.json` is the
index: components, runs, mutants (for each checked property, a plausible bug of the code that
breaks it), the map from definitions to source lines, hazards, findings and theorems.

## 1. The system: an inventory

| Component | Code | State | Operations |
|---|---|---|---|
| ledger | `internal/ledger` | `answers.ndjson`, `outcomes.ndjson`, `index`, `outcomeExists`, `mu` | `Open` (truncate a torn tail, refuse a malformed line, build the index), `PutAnswer`, `PutOutcome`, `GetAnswer` |
| service | `internal/service` | the two caps (`Cap`, `UsdCap`), failure counters | `Ask`, `Outcome`, `Counts` |
| journal | `internal/record` | its file, `skipped`, `failed` | `Emit` |
| training log and export | `internal/traininglog` | `training.ndjson` | `Put`, `Export` |
| calibration | `internal/calibration` | none; reads the ledger's files | `Run` |
| question templates | `internal/template` | the registry, read only | `LoadDir`, `Validate`, `Get`, `Filter`, `NewFreeformEgress` |
| backends | `internal/backend` | none between asks | `Ask` of jev, openai-logprobs and stub |
| wardryx proxy | `internal/wardryxproxy` | counters, once-per-class log, skip log | `ServeHTTP`, `Stats` |
| door | `internal/door` | the key table, read only | `ParseKeys`, `Allow`, `Identity`, `RefuseOpenBind` |
| HTTP API | `internal/api` | none between requests | the routes, the door in front of them, the credential in `_meta` |
| MCP server | `internal/mcp` | none between requests | `ExtractMetaKey`, `NeedsNoCredential`, `ServeMCP`, `call`, `dispatch` |
| process and command line | `cmd/typryx` | the configuration, the open files, the server | load the configuration, open, serve, shut down; `calibration`, `export`, `connect` |

**How they interact.** The HTTP API, the MCP server and the proxy each run one goroutine per
request and call `Service.Ask` or `Service.Outcome` directly. The service calls its backend
outside every lock, then writes the ledger, the training log and the journal one after the
other. The handlers share the caps and the counters (each under its own mutex or an atomic),
the ledger (one mutex over check, append, fsync and index) and the two other files.
Calibration and export are separate commands: they open the files the running service appends
to, read one after the other, and share no lock with it. The process itself loads its
configuration, opens journal, ledger and training log in that order, serves until a signal or a
listener failure, and closes them in the reverse order of its `defer`s.

**What is hard about it, and what makes each part correct.**

* *Ledger*: a crash anywhere, its own recovery included; failed and short writes; a failed
  fsync after a successful write; two callers with one truth. Correct when what a client was
  told is on disk and stays there, a truth is counted once, memory is what a restart would
  load, and no crash makes the next start refuse.
* *Service*: check-then-act over a whole backend call, windows that roll over meanwhile,
  deadlines against late answers against hang-ups, partial failure of three sinks. Correct
  when spend and calls are bounded, each ask leaves one record that says what its caller was
  told, every loss is counted, and every ask ends.
* *Readers*: two files read at two moments, rounding tolerance, two implementations of argmax
  and three of "does this truth fit". Correct when they agree with what was served and
  accepted, and when every line is accounted for.
* *Backends*: retries, waits, a timer racing a context, hostile or odd numbers, money spent on
  unusable replies. Correct when bounded, stopped by the context, honest about cost, and when
  what they build is a distribution.
* *Proxy*: counters and a log shared by racing requests. Correct when every ask and skip is
  accounted for and the log is neither silent nor flooded.
* *Front ends*: one message parsed by three pieces of code that read it differently, rewritten
  between them, and a door that asks for nothing unless the operator configured it. Correct when
  a call is made only in the name of the credential that came with it, nothing runs that was
  judged as something else, and an ask means the same over HTTP and MCP.
* *Process*: a start that fails half way; a shutdown that gives up; files closed, or the process
  killed, under handlers. Correct when a refused start has touched and left open nothing, when a
  file is closed under a handler only where the timeout or the listener forced it, and when what
  is lost is counted.

`PROJECT.json` lists 40 places where this bites, each with its line and the properties that
watch it. Three have no property, each with the reason.

## 2. Modules

| Module | Models | Extends |
|---|---|---|
| `Ledger` | the ledger with its two callers in the service, crashes and I/O errors | |
| `OutcomeBook` | abstract: what a ledger promises | |
| `LedgerBook` | the refinement mapping from `Ledger` to `OutcomeBook` | `Ledger` |
| `Service` | `Ask` for several handlers at once | |
| `Lifetime` | the process around those handlers: signal, shutdown, closes, kill, next start | `Service` |
| `Startup` | from the environment to a listening socket: configuration, templates, key table, files | |
| `Door` | one request to the process that came up: routes, door, MCP rewriting and dispatch | `Startup` |
| `Answers` | pure functions: keys of a question, both argmaxes, the truth checks, Brier, bins, probability check | |
| `Reports` | answers and outcomes being recorded while calibration or export reads | `Answers` |
| `Backend` | one `Ask` of jev or openai-logprobs against an arbitrary server | `Answers` |
| `Proxy` | the wardryx proxy for several requests at once | |
| `Ledger_proofs` | theorems about the ledger and its refinement | `LedgerBook` |
| `Service_proofs` | theorems about the asks and about the process around them | `Lifetime` |
| `Door_proofs` | theorems about the start and about one request | `Door` |
| `Reports_proofs` | theorems about the readers | `Reports`, `Answers_proofs` |
| `Backend_proofs` | theorems about the backends | `Backend`, `Answers_proofs` |
| `Proxy_proofs` | theorems about the proxy | `Proxy`, `Sums` |
| `Answers_proofs` | lemmas about the pure functions, and that calibration's argmax is the service's | `Answers`, `Sums` |
| `Sums` | lemmas: induction over numbers and finite sets, sums | |
| `MC...` | inputs and symmetry for TLC | the module each checks |

### Ledger

A file is the sequence of its lines: *whole*, *torn* (no newline; always last) or *malformed*.
`file[f]` is what the operating system shows and `durable[f]` how many lines survive a power
loss. `Open` is `TruncateAnswers`, `TruncateOutcomes`, then `LoadIndex` or `RefuseToOpen`; the
process may be killed between any two. A handler enters with `Answered` (an ask that got its
answer) or `OutcomeAsked` (`GetAnswer` found the id), takes `mu` and, in the same step as the
check it protects, writes: `WriteLine`, `WriteError`, `ShortWrite` or `OutcomeExists`. Then
`SyncLine` or `SyncError` with the lock held, and `ServeAnswer` or `ConfirmOutcome` tells the
client. `Kill` may come in the middle of a write and leave a torn line; `PowerLoss` leaves the
durable lines and any prefix of the rest, a torn line included. `served`, `kept` and
`confirmed` are history: what clients were told.

`OutcomeBook` has no files, locks or crashes: entries settle, are never removed or replaced,
and a client is told of an entry only once it is there. The mapping takes the *durable* lines
as the book's entries, so an entry settles at the fsync (or when a crash turns out to have
written it back), not at the write.

### Service

One step is what a handler does between two critical sections or blocking calls: `Receive`
(the gates, in the code's order), `Take` (hourly cap), `CheckSpend` (`overLimit`),
`BackendReplies`, `ChargeSpend` (`add`), `SettleUnanswered` or `SettleAnswer` (which reason
wins; the probability check), `PutAnswer`, `PutTraining`, one `Emit`, `Return`. `CallerLeaves`,
`DeadlineFires`, `HourPasses` and `DayChanges` may happen at any time. Clocks are reduced to
what the code asks of them: whether the window is over, whether the day is another.
`missing` and `windowCalls` are history variables the properties compare with.

### Lifetime

`Lifetime` composes with `Service`'s handlers and their files. `main` goes from *serving*
through *draining* (after `Signal`) or at once (`ListenerFails`) to *closing* and *exited*.
`ShutdownDrained` is `srv.Shutdown` returning nil, which it does when no handler is busy;
`ShutdownGivesUp` is its context of ten seconds running out, at any time. `CloseNext` closes
the ledger, the journal, then the training log: the order in which the `defer`s run. Handlers
are not told: one that goes on finds a closed file, and its write fails and is counted
(`ClosedFail`). `Kill` may come between any two steps of a handler, `Restart` after any end of
the process; counters and caps are in memory and begin again. What an ask leaves behind is
in `h` until then, so the invariants see it at the moment of the kill.

### Startup and Door

`env` is what the process is given: settings as the kinds the code tells apart (a number is
unset, malformed, negative, zero, positive or NaN), the template directory as the sequence of
its files, `TYPRYX_KEYS` as the sequence of its entries, and for each file whether it opens.
`LoadConfig` is `loadConfigAt` and, for the proxy, the rest of `loadProxyConfig`: configuration
errors exit 2, the open bind exits 1 after everything else was checked (and before the proxy's
own settings). `OpenJournal`, `OpenLedger` and `OpenTraining` are `buildService`; the last two
close what was opened before them when they fail. `touched` is history: which files were ever
opened, and so possibly truncated.

`Door` runs one request at a time through the process `Startup` left: the handlers share
nothing here. A message is a record of what its parsers look at: whether it is one JSON value,
a value followed by more bytes, garbage or too large; its id; its method; its `_meta` entry; its
arguments. `RouteMCP` strips the entry (`Forwarded`), judges what is left (`Judged`,
`NeedsNoCredential`), and only then knocks. `ServeMCP` and `ServeV1` parse again, each in its own
way: `HttpCall` keeps a state's bytes, `McpCall` decodes into `any` and marshals again. `Judge`
is what the service makes of the call, up to its caps, and `Egress` what `Filter` lets through.

### Answers and Reports

A question is its type and number of keys, a probability an integer in units of 1/`Unit`.
`Answers` holds the service's `argmax` (ties by the question's order) and calibration's (ties
by sorted key), `validateTruth`, `truthKeyFor` and `truthFits`, which are three independent
judgements of one JSON value, and `ValidCriteria`, which limits a score to ten levels.
`Reports` records asks, truths and readers in any order; a reader takes the length of its
first file at one step and of its second at another. The functions of the two commands
(`Items`, `Bin`, `Tally`, `Rows`...) are then state functions over those snapshots.

### Backend

`Start`, `Send`, a `Reply` or `RequestFails`, then reading (`ReadAnswer`, `ReadNoAnswer`,
`ReadGarbage`) or waiting, until the select is ready (`SelectReady`) by its timer or by the
context, and goes on with `Resume` or `Abandon`; either when both are ready, as Go picks. The
clock `now` counts from the start of the ask, the timer is an instant of it, and `ends` is the
one at which the context is done, by its deadline or because the caller left; any one is
possible. `Tick` moves the clock while Ask is blocked, on the server or in the select, and
stops when it can run: computing takes no time, and a select is left when it is ready.
Retry-After seconds are multiplied and wrapped to `DurationBits` bits as `time.Duration` wraps
at 64. `probabilitiesFor` and the jev reader are given as what they make of a reply.

### Proxy

`Receive` (key, path, body size, JSON, room for one more signal), the ask (`AskAnswers` or
`AskFails` with a class), `SkipTruncated` for bodies read only in part, `WriteLine` for log
lines (the decision is made under `mu`, the line is written outside), `Recovered`, and the
upstream's answer or failure. `recovery` is history: what was written and counted when an
answer last cleared `logged`. The clock of a skip is read when the request comes and its lock
taken later, as in the code.

### What the models abstract

Texts, digests, wording and metering headers are dropped. Hash chaining of the journal is an
imported library's. The journal and the training log are always configured in `Service` and
`Lifetime` (without a training log its step is skipped; a journal that is not configured writes and
counts nothing, `Disabled` in the code); `Startup` has every file configured or not. An fsync that
succeeds makes all of its file durable, a line whose own fsync failed included, and a power loss
keeps a prefix of what was not synced: kernels and disks may do worse. An outcome comes for an id
that some client was told: ids are random, and the one a kill kept from its client, which `Open`
indexes again if its line was written, is nobody's to report on. Failures of sinks are chosen freely
up to a bound. Probabilities are integers; the effect of binary rounding is a `Rounding` constant in
`Backend` and the tolerance in `Answers`. `settings` in `Startup` stands for whether the backend's
own settings are complete and well formed: which of them is not is a matter of the message, and so
is what is wrong with the proxy's `upstream`. `Lifetime` does not hold the contents of the ledger: a
kill inside a write is `Ledger`'s. There is one process; two on one directory are left to section 5.

## 3. Runs

| Run | Question | Bounds |
|---|---|---|
| `ledger_crash` | After kills and power losses anywhere: kept answers and confirmed truths on disk, counted once, no orphan by loss, restart accepted, index equals file; the ledger implements the book; every `Put` returns | 2 ids, 2 truths, 2 handlers, 2 crashes, clean write errors |
| `ledger_faults` | With failed fsyncs and short writes as well: one confirmation per answer, durable lines untouched | the same, 1 crash, every error |
| `ledger_sync_error` (violation) | "A truth is counted once" when fsync fails | no crash |
| `ledger_short_write` (violation) | The next start accepts what the program wrote | 1 restart |
| `lifetime` | Counters exact; each ask leaves one record matching its result; files closed under nobody but for the timeout or the listener; lines in their order wherever a kill comes | 2 handlers, 4 kinds of ask, 3 kinds of reply, no caps (those are `service_caps`), 1 failure of each sort, any number of restarts |
| `service_caps` | Spend and hourly calls bounded; every ask returns | 2 handlers, both limits 2, cost 0 or 2, a reply that is served and one that fails the probability check |
| `service_overshoot` (violation) | The day overshoots by at most one call | 3 handlers |
| `reports` | Served = scored, accepted = scored and exported but for null, all lines reported, Brier in range, exported label is the truth | 1 id, all types, edge probabilities, every JSON kind |
| `proxy` | Asks and skips accounted for, a class that fails is logged, and again if it fails after a recovery, and no oftener than once and once for each answer; signals within wardryx's cap | 3 handlers, 3 requests, clock to 2 |
| `backend` | Retries and waits bounded, cost reported, distributions valid, no attempt or wait past the end of the context, always returns | 3 attempts, 7 questions, edge masses and headers, a context that ends at 4 moments |
| `door` | A refused start touched nothing; an agent is its credential's; the credential is stripped; the front ends agree; only named fields leave | 380 environments, 1098 requests, one change at a time around a base for what only the start looks at |
| `door_notification` (violation) | A message without an id is never executed | the same |

**Why the bounds are enough for the questions.** The ledger's hazards need two writers and
two lines (one to be lost or duplicated, one to run into it); two crashes put one into the
recovery from another, and an id or a truth more is interchangeable with these. The caps'
hazards need one handler past a check while another passes or while the window rolls; a third
handler is what separates "one call" from "one call for each handler". A cost of 2 against a
limit of 2 makes one call spend the day. A proxy line is written outside the lock, so the
interesting interleavings have two failures and one recovery: three requests. The backend's
three attempts are the code's own constant; Retry-After values take one of each kind (none,
zero, inside the cap, past it, wrapping negative, wrapping short), and the context ends at once,
during the first wait, between or during the waits, or after all of them. Probabilities include the
sum at either edge of the tolerance and just past it, ties, missing and foreign keys, and
values out of range. A score of eleven levels is offered so that `ValidCriteria` refuses it;
the tie between levels "2" and "10" is what it protects the two argmaxes from.

The process's hazards need two handlers: one that holds Shutdown up and one that is done, or that
comes after. `MaxFaults` is 1 for each sort of failure; a write to a closed file fails through the
same step, so one process loses at most one write of a sort, and a second handler whose file is
closed as well stays where it is until the process ends. Of the four requests one is refused at a
gate, two differ in whether they may be trained on, and one has no agent; which gate it is makes no
difference to the process, and `LifeKeepsRecords` is for every request. For the door, every
combination of key table, bind, opt-ins and request is there; a request is judged alone, so one at a
time is enough, and two keys (one with an identity, one without) and a stranger's are all that the
table tells apart.

`MaxLines` (outcome lines), `MaxCrashes`, `MaxFaults`, `MaxRequests` and `MaxClock` are the only
bounds in guards, and one without a constant: in `Reports`, a failed fsync leaves at most one
outcome line of an id outside `outcomeExists`, so that an id has at most two lines. Symmetry is used
where handlers, ids or truths are interchangeable and only in runs without liveness properties
(`lifetime` permutes its handlers).

Deadlock is not checked where the system may really stop: a ledger that refused to open or
has drawn every id with every truth in place, a proxy after its last request, a backend call
that returned, a start that was refused. The service, its process and the readers are checked
for it.

**Fairness.** *Ledger*: a goroutine that can take a step takes it (weak fairness of each
handler); clients and crashes owe nothing. *Service*: handlers run, the ask's timer fires
(`context.WithTimeout` around every backend call), and a backend returns once its context is
done. It need not answer before. That last assumption is what `BackendReturns` checks in
`Backend`, from the runtime running the goroutine, time passing, and `net/http` returning
from a request or a read whose context is done; the server owes nothing. The stub backend does
not block.

### Findings

Each is in `PROJECT.json` with the line it contradicts. Four have a run:

1. *A truth counted twice* (`ledger_sync_error`): an outcome whose fsync failed is in the file
   and not in `outcomeExists`; the caller is told 500, retries, and a second line is appended.
   Calibration scores both. What still holds is `ConfirmedOnceEver`, and the export drops the
   answer as duplicated.
2. *A full disk makes the next start refuse* (`ledger_short_write`): a partly written line is
   not cut off while the process lives, the next line runs on from it, and `Open` refuses the
   result as corruption that is "not a crash artifact".
3. *The daily cap overshoots by a call for each handler* (`service_overshoot`), not by one.
4. *A notification is executed* (`door_notification`): a `tools/call` without an id that carries
   a key in `_meta` gets `"id":null` when the message is marshalled again without the key, is a
   request from there on, and is asked and answered. The credential is still required and the
   identity still its own (`AgentIsTheCredentials`).

Found while modelling and stated without a run, because the property would restate one line of
code, or because a broader property already describes exactly where it ends:

* a truth of `null` is accepted for score and noul questions and then skipped by the export
  (`AcceptedTruthUsable` says that nothing else is);
* two skip lines of the proxy may fall inside the interval: the clock is read before the lock;
* calibration calls an outcome an orphan when its answer was appended between the two reads;
* the proxy's own deadline is recorded as a hang-up;
* a billed jev reply without a usable answer costs nothing on the day's account;
* a Retry-After of more than about 9.2e9 seconds wraps;
* the journal's counts are logged before the handlers have drained;
* `TYPRYX_MAX_USD_PER_DAY=NaN` passes every check and caps nothing;
* the call that reaches the daily cap is served, not refused, and the next one is refused;
* a message followed by more bytes keeps its `_meta` key on the way to the MCP server
  (`CredentialStripped` says that no other does, and that such a one needed the header);
* the schema of `ask_freeform` calls criteria an object, which a score question refuses.

## 4. Proofs

Every invariant and action property that a passing run checks is also a theorem, for every
value of the constants the named assumptions of the modules admit, and so is the refinement
`ImplementsBook`. TLC evaluates those assumptions in every run. TLC also finds each
inductive invariant true of the run's instance, under the same assumption on `Faults` where its
theorem makes one. All of the proofs have the same shape: the initial states satisfy the
invariant, each action keeps it (one lemma or step for each action), and it implies the property.

### The ledger (`Ledger_proofs`)

For any sets of ids, truths and handlers and any number of crashes. Three theorems hold under
every I/O error and every crash:

* `TypeOKHolds`. `TypeOK` alone is not inductive, because `LoadIndex` collects ids out of the
  file and an index entry must be an id. `TypeInv` adds that whole lines name an id and that a
  busy handler carries one.
* `DurableLinesKept` (`DurableLinesStay`), from the type invariant and one lemma for each way a
  file changes: truncation, append, a torn tail, a power loss.
* `ConfirmedOnce` (`ConfirmedOnceEver`). `OnceEverInv` adds that an id anyone was told of, or is
  about to be, is in `outcomeExists`; that the handler in its fsync has an id that is not; and
  that no two handlers are about to confirm one id. After a restart the first of these comes
  from the file: what was confirmed is on disk, or the file does not parse and nobody is up.

The others need an assumption on `Faults`, and the findings show it to be needed: with the
excluded fault alone, TLC finds each of these properties violated on the instance of
`ledger_crash`.

* `CountedOnce` (`OutcomeCountedOnce`), unless an fsync fails. `OnceInv`: each whole outcome line
  is of an id in `outcomeExists`, or of the handler that holds the lock and is about to put it
  there. The writer's check reads the memory, and only this ties the memory to the file, across
  `Open` as well.
* `RestartsAccepted` (`RestartAccepted`), unless a write is short. `CleanInv`: what is torn is
  the last line, there is none after `Open` has cut the file, and only a process that is up
  writes.
* `KeptAnswersStay` and `ConfirmedTruthsStay`, unless a write is short. `ToldInv` follows a line
  from the write to the fsync to the reply: in the file before the first, durable after.
* With clean write errors only (`PlainFaults`): `IndexMatchesFile` (`IndexIsTheFile`), where
  `IndexInv` allows for the line whose fsync has not returned; `OutcomesHaveAnswers`
  (`OutcomeHasAnswer`), which needs that an id is drafted by one handler and served only after
  the fate of its line is decided, so that a truth is only ever taken for an answer that is
  durable; and `LedgerImplementsBook` (`ImplementsBook`): every action is matched with `Settle`,
  `Keep`, `Confirm` or a stutter. A crash may be a `Settle`, when it turns out to have written
  lines back that were never fsynced.

### Asks and the process (`Service_proofs`)

For any finite set of handlers, any limits, costs and numbers of failures.

* `TypeCorrect`, and `LifeTypes` for the process.
* `DailySpend` (`SpendBounded`). `SpendInv` counts the handlers between check and charge: what is
  spent, plus a full cost for each of them, stays below the limit plus a full cost for each
  handler. `Costs \subseteq 0 .. MaxCost` is the assumption about the world.
* `HourlyCalls` (`HourlyCallsBounded`). `HourInv` adds the handlers that hold a slot and have not
  called yet: calls and held slots of a window are at most the slots taken in it and one more for
  each handler but the one that opened it, which took its slot from the new window.
* `RecordsMatch` (`RecordMatchesResult`). `RecordInv` says for each step of an ask what is on
  record there, and that a reason is given once and not replaced.
* `CountersAddUp` (`CountersComplete`), by the number of handlers that have lost a write.
* `LifeKeepsRecords`, `RecordsInOrder` (`RecordsFollowTheLedger`) and `NobodyIsClosedUnder`
  (`ClosedUnderNobody`), in a process that may be signalled, killed and restarted at any step.
  A write to a closed file disturbs `RecordInv` and the counters no more than one that fails, and
  a process that ends takes both along; `ProcessInv` keeps why the process left its select, and
  that a `Shutdown` that returned nil found no handler at work and leaves none to begin.

### The start and the door (`Door_proofs`)

For any environments, identities and requests.

* `RefusedTouchesNothing`, from `StartInv`: what may be open is a function of how far
  `buildService` has come, and a file is only touched once no configuration error is left.
* `DoorTypes`; `AgentOfTheCredential` (`AgentIsTheCredentials`) and `CredentialNotForwarded`
  (`CredentialStripped`), from `DoorInv`, which says of the message that was handed on how it came
  out of the one on the wire and that the door was passed with the credential of the latter;
  `FieldsLeaveByName` (`OnlyNamedFieldsLeave`), from the uniqueness of template ids that the
  start checked; `BothDoorsAgree` (`DoorsAgree`), by comparing the two decodings argument by
  argument. `DoorsAgree` excepts, besides what decoding into `any` loses, a template beside a
  free-form question: `/v1/ask` ignores it, and `ask_freeform` refuses a property it has not.

### The reports (`Answers_proofs`, `Reports_proofs`)

For any ids, templates, replies and truths, and any interleaving of the readers.

* `TypeInv` and `LinesInv`: every line of a file fits the ask whose id it bears (a distribution
  that was accepted and the answer derived from it; a templated ask; a truth that was accepted).
* `ScoredAsServed` (`ServedAnswerIsScored`) rests on `argmaxIsServed`: the first greatest in the
  question's order is the first greatest by sorted key, for options because they are sorted, for
  score levels because the ten that `Validate` admits have one digit.
* `TruthsAreUsable`, `LabelIsTheTruth`, `ReportsTypes`.
* `OutcomesReported` (`EveryOutcomeReported`) adds up, over bins and then over groups, the
  outcomes in each: `binIndexIs` puts every confidence in one bin, `SumParts` adds the parts up.
* `BrierIsBounded` (`BrierWithinTolerance`), for up to 255 options. `SquaresSum`: shares that add
  up to at most `u + w`, none above `u`, have squares that add up to at most `u * u + w * w`. By
  induction, a set whose sum `a` has not reached `u` has squares of at most `a * a`, one past it
  at most `u * u + (a - u) * (a - u)`. The term of the truth is added apart.

### The backends (`Backend_proofs`)

For any questions, reply bodies, Retry-After values and number of attempts.

* `BackendTypes` and `IdleIsBounded` (`IdleBounded`), from one reply for every attempt made
  (`RepliesInv`) and one cap for every wait (`WaitInv`). `DelayIs` bounds `retryDelay` for every
  Retry-After, those whose product wraps included, because the cap is applied after the product.
* `RetriesFitTheDeadline` (`NoRetryPastDeadline`), from `TimeInv`: what has been waited is behind
  the clock, or is what the timer is set for, and the clock does not pass the end of the context.
  That rests on the select being ready as soon as either of its two is; with the timer alone, TLC
  finds a wait that outlives the context.
* `UsageIsReported` (`UsageReported`) and `BuiltIsAccepted` (`BuiltIsADistribution`), from
  `ResultInv`: nothing is billed before the end, and a result fits what its reply cost.
  `probabilitiesForIs` rests on `SharesAddUp`: each share is rounded down and loses less than one
  unit, and together they lose less than one for each option but one. That stays within the
  tolerance because a unit is assumed to be that fine (`MaxLetterLabels - 1 <= Tolerance`); for the
  code's 26 letters and tolerance of 1e-3, any unit of 1/25000 or finer is.

### The proxy (`Proxy_proofs`)

For any handlers, requests, classes of failure and bounds.

* `ProxyTypes`; `EveryAskIsCounted` (`AllAccountedFor`), where each step's effect on three sums
  (counters over classes, lines, handlers about to write one) comes from `Sums`.
* `EveryReasonIsLogged` (`LoggedUntilRecovery`). `SinceInv` ties the memory of what was logged to
  the log: a class in `logged`, or counted since it was last cleared, has a line since then or one
  about to be written. The bound on the lines is not inductive: between an answer and the clearing
  of the log after it, which takes another lock, other handlers go on. `OnceInv` counts the lines of
  a class written, being written and still allowed, an answered handler that has not cleared the log
  among the last.

### Induction

The library's induction theorems take an operator as a parameter, which the provers cannot
instantiate. `Sums` states induction with *sets* in that place (`NatInduct`, `SetInduct`: a set
that contains 0, and n + 1 with n, contains every number) and derives it from `WFMin` and the
well-foundedness of `<`. That is enough for what the models compute by recursion over finite
data: `SumsExist` and `SumIs` show that `MapThenSumSet`, which is defined by a recursive function,
is the sum it is meant to be; `DoublesExist` does the same for `Doubled`, the powers of two.

**Only model-checked**: liveness (`PutReturns`, `AskReturns`, `BackendReturns`), which is out of
the prover's reach; and that the four findings happen.

## 5. Not modelled, and the plan

Not modelled: the subcommands `connect`, `calibration`, `export` and `templates check` around
the operations that are modelled (flags and printed output), examples and scripts, the text of
prompts and logs, digests and versions of templates, calibration's means, ECE and drift verdicts
(sums of reals over items that are modelled), the stub's hash-driven distribution.

The order of work was: the ledger first (its promises are what everything else relies on),
then the service, the readers that judge what both recorded, the backend whose return the
service assumes, the proxy, and then what surrounds them: the start, the front ends and the
process's end. What is left, in order:

1. **Two processes on one ledger directory**: `Open` of one against the writes of the other, an
   index each. Which of the ledger's invariants need there to be one process.
2. **Calibration's means**: that the ECE is within 0 .. 1, which the lemmas on sums can now show.
3. **The training log's own truncation at `Open`**, which repeats the ledger's with one file.
