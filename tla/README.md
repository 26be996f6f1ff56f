# alpha-sentinel in TLA+

Models of the parts of alpha-sentinel that decide whether something may be
signed, executed or accepted, the TLC runs that check them on small instances,
and the theorems that TLAPS proves about them for instances of any size.

Everything is read from the code under `src/`. Paths below are relative to it.

## 1. The system

alpha-sentinel is two authorization systems (one in JavaScript, one in Python)
and monitoring tools around them. The parts share no process; they meet in
files.

| | component | state it keeps | operations | who it talks to |
|---|---|---|---|---|
| A | durable journal, `state/store.js` | a hash-chained journal file; in memory the records, the last hash, the data and the version | `apply`, recovery at construction | the file system; one daemon (nothing stops a second) |
| B | authorization daemon, `core/daemon.js`, `core/lifecycle.js`, `core/router-adapter.js`, `core/policy.js`, `core/validator.js`, `simulation/boundary.js`, `security/transition-evidence.js` | none of its own: the lifecycle lives in A | `propose` to `verify`, one per edge of ten states | A; injected authorizer, build function, simulator, clock; signed evidence from two outside keys |
| C | persistent lifecycle and Zernio router, `state/persistent-lifecycle.js`, `core/zernio-router-adapter.js` | an audit file; in memory a record per proposal and the webhook ids seen | lifecycle calls, asynchronous schedule and publish, status polls, webhooks | a remote service that answers late, and calls back |
| D | signing pipeline, `security_boundary/` (`pipeline.py`, `store.py`, `approval.py`, `proposal.py`, ...) | an SQLite table of request id, fingerprint, proposal, transaction and `signing_attempted` | `execute` | router, simulator, approval provider, signer; other processes on the same table |
| E | risk and policy gates, `risk.py`, `policy.py`; checks of what collaborators answer, `router.py`, `simulation.py`, `execution.py`, `models.py` | none | `evaluate`, `authorize`, `validate_built_transaction`, `simulate`, `validate` | steps of D |
| F | signed result verifier, `security/signed-result-verifier.js` | claim files and a result journal | `verifySignedResult` | other workers on the same directory |
| G | metric follower, `tools/monitoring/tail.py` | an offset, an inode and a partial line | `poll` | a file somebody else appends to, truncates and rotates |
| H | alert delivery, `integrated_alerts.py`, `webhook.py` | cooldowns per sink, in a dictionary for rules and a bounded cache for observations; totals | measure the disk, read lines, `ingest`, `dispatch_observation`, `run_watch` | the follower (G) or a file, sinks that are slow and fail |
| I | security detector, `security_detector.py`, `security_events.py` | bounded tables: recent failures per source, a weighted baseline per metric | `parse`, `ingest_raw_log` | called by H for each line; its observations go back to H |
| - | coverage recorder, labelling scripts, benchmark, web page, CI | none that outlives a call | | |

What is hard in each of them, and what makes each of them right:

* **A** A line is written, then synced, and only then does memory advance. The
  process may die in between, `writeSync` may write less than asked, `fsync`
  may fail, power may be cut, two processes may append. Right means: what was
  reported as accepted is in whatever journal recovery accepts.
* **B** Every operation reads the lifecycle, hands control to injected code,
  and writes the lifecycle. Injected code may call the daemon again. Right
  means: one declared edge at a time, on the state that was read; recorded
  facts never change; simulations and evidence are about the bound
  transaction; nothing happens before the timelock is over; a good proposal
  can always be completed.
* **C** Memory is advanced before the file; one webhook makes up to three
  records; a webhook may overtake the response of the request it is about;
  `scheduleApproved` and `executeApproved` may be in flight together. A line is
  hashed before JSON drops its undefined fields, and a replay drops empty ones.
  Right means: replaying the file rebuilds the memory; one post per proposal,
  after its timelock; and a verdict that is the fate of the post.
* **D** Several processes run `execute` for the same request id; each may stop
  anywhere and be resumed by another with an empty unlock table. Right means:
  one signature per request, of the pair stored first, with an approval of that
  pair, after its timelock.
* **E** Boundaries: zero, the limit, one beyond, rounding of the gas price, two
  different limits.
* **F** Workers race for one id, die between file operations, and meet each
  other's half-written claims; writes may fall short, power may be cut, and the
  names of the journal and of the claims directory are never fsynced. Right
  means: accepted at most once, for good; and accepted in the end, unless the
  result grew too old, its claim was abandoned, another was left empty, or the
  journal is torn.
* **G** The file changes between two polls and between the two halves of one.
  Right means: each complete line once, whole and in order.
* **H** Time passes while a sink takes an alert: the clock that checks a cooldown
  is not the clock that stamps the delivery, and a cache entry may expire between
  the purge and its check. A receiver may have an alert whose delivery counts as
  failed. Right means: a sink is spared an alert only after it took the same
  one, for a cooldown, unless the cache was full, and then the entry that goes is
  the one with the least left; a failure of one sink, value or cycle hides
  nothing of the others and shows in the exit status.
* **I** Every table is bounded, so evidence is given up: by age, by the limit per
  source, by eviction of the source longest unused. Right means: an observation
  is raised exactly when the failures still known call for it, tells when
  evidence was given up, and no outlier has moved the baseline it was measured
  against.

`PROJECT.json` lists every component and, under `hazards`, every place that is
hard to test, with the properties that watch it.

## 2. Modules

```
AcceptedLog            what a durable store promises          (abstract)
  ^ refined by  DurableState          state/store.js
  ^ refined by  AuthorizationDaemon   the daemon over its store
AtMostOnceSigning      what the signing boundary promises     (abstract)
  ^ refined by  SigningPipeline       security_boundary/pipeline.py, store.py
                  EXTENDS TransactionChecks     router.py, simulation.py, execution.py, models.py
                  EXTENDS RiskPolicy            risk.py and policy.py
ResultClaims           security/signed-result-verifier.js
PublishOnce            what the router promises per proposal  (abstract)
  ^ refined by  ZernioRouter          core/zernio-router-adapter.js
                  EXTENDS PersistentLifecycle   state/persistent-lifecycle.js
MetricFollower         tools/monitoring/tail.py
Monitor                integrated_alerts.py: run_watch, line loops, totals, exit status
  EXTENDS AlertDelivery     integrated_alerts.py: IntegratedAlertPipeline; webhook.py
  EXTENDS SecurityDetector  security_detector.py, security_events.py
            both EXTEND PythonLibrary   the monotonic clock and OrderedDict
DurableStateProofs, AuthorizationDaemonProofs, SigningPipelineProofs, ResultClaimsProofs,
ZernioRouterProofs, MetricFollowerProofs, MonitorProofs
                       theorems, each EXTENDS the module it is named after
SecurityDetectorProofs theorems about the detector inside Monitor, EXTENDS MonitorProofs
MC*                    instances for TLC
```

Definitions called *Faulty* in the modules are variants of a model definition
with a plausible bug. No specification uses them; they are there to show that
each property can fail.

### DurableState

One variable per thing that survives (`file`, `newline`, `synced`, `linked`) and
per process one for the place in `apply` (`stage`), one for its memory (`mem`)
and one for the transition being appended (`pending`). `apply` is four steps:
`Write` (or `ShortWrite`: the return value of `writeSync` is not looked at),
`Fsync` (or `FsyncError`), `Commit`. `Recover` is the constructor on an existing
path, and is possible only when `_verifyRecord` passes for every line. A record
hash is injective and covers the previous hash, so in the model it *is* the
sequence of all transitions so far. `Crash`, `PowerFailure`,
`PowerFailureLosesFile` and `Rot` are the environment.

### AuthorizationDaemon

The lifecycle values recorded in memory (`records`), the lines on disk
(`journal`), a clock, and `calls`: the JavaScript call stack, one frame per
daemon call that waits in an injected function. The `now` a caller passes is an
instant or `NotATime`, which stands for whatever `<` does not place before any
time (NaN, a word, the null a replay makes of it). An operation runs up to its
first injected function and pushes a frame with what it holds (version,
lifecycle, `now`); only the top frame can go on, and any new call is pushed on
top of it. `Return` has one action per thing an injected function may answer.
`Throw` pops a frame without any other effect, which is every refusal and error
after an injected function has run.

### SigningPipeline

The table (`store`), the place and locals of every process (`worker`), the clock
and a history of signer calls. `execute` is split at each database statement
and around each collaborator. `End` is a refusal, an exception or a crash at any
step. `Begin` is everything before the first write: the gates on the intent
(`Admitted`), the router, which may build any transaction for any proposal, and
the checks of it. A proposal and the transaction built for it are one record, the
pair. The signer may answer with a payload signed for another transaction.

### RiskPolicy and TransactionChecks

No state. `Permitted`, `RiskScore`, `Evaluate` and `Authorizes` are the arithmetic
of `RiskEngine.evaluate` and `Policy.authorize`; `GatesAccept` is how `execute`
composes them. They are compared with `WithinLimits`, the limits as a reviewer
would write them down. `ValidBuilt`, `SimulationPasses` and `Validated` are the
checks of what the router, the simulator and the signer answer; an address is an
account and how it is written, because two checks compare addresses before and
after normalisation.

### ResultClaims

Per id the claim file (`absent`, `empty`, `written`) and which of them are fsynced
(`pinned`); the journal as it reads now and as it was last fsynced (`journal`,
`durable`), each the ids of its lines and how it ends: `whole`, `open` (only the
newline is missing, and the next write spoils the line) or `torn` (`JSON.parse`
throws, line 17, for every result). Per worker the next step, the id it verifies
and the claim files it has listed and not yet read. The write of a line
(`AppendJournal`, `ShortAppend`) and its fsync (`FlushJournal`) are two steps.
`PowerFailure` keeps of the journal what was fsynced and any part of the rest, and
of a claim that is not pinned nothing, an empty file or all. `linked` has the names,
of the journal and of the `.claims` directory, that an earlier power failure has
left on disk: the code fsyncs neither directory that holds them, so where
`NamesDurable` is FALSE a power failure may take either with all it leads to; `lost`
remembers which. `Expire` makes a result older than `maxAgeMs`.

### PersistentLifecycle and ZernioRouter

`PersistentLifecycle` has the records in memory (`mem`), what `_recover` would
make of the audit file (`disk`) and whether its hash chain still verifies
(`chain`: `whole`; `behind`, the hash in memory misses the last line; `broken`, a
line continues an earlier one or is torn; `tampered`, a line does not have its
hash). A method is a sequence of steps, each a record, the audit line appended
after it and whether the file holds that line as it was hashed (`exact`): the line
of an approval whose id is undefined, or of a webhook that names no event, it does
not. `Returns` takes all steps, `Throws` stops at an append that fails, with none
or half of the line written, or at a failed fsync, `Dies` between two lines.
`Replay` is one line of `_recover`: it knows only what the line carries, and it
restores no approval without an id. `Replayable` is what that leaves of a record.
`ApprovalIds` has what callers pass as `approvalId`: an id, an empty one, none.
`unlock` is a history variable, the end of the last timelock that `startTimelock`
returned.

`ZernioRouter` adds the webhook ids seen, the calls of `scheduleApproved` and
`executeApproved` in flight (`call`), requests whose caller is gone (`late`) and
the posts of the external service. `Send` is the code before the `await`,
`Recorded` the code after it, and anything may come in between. The service keeps
one post per request id and answers a repeated id with the existing post, which
is what `extractPostId` expects of it; that part is an assumption, not code.
It settles a post as one of `Outcomes` (published, failed, cancelled), and its
webhooks tell of that or of one of `OtherEvents`. `getExecutionStatus` (`Poll`) has
no event for a cancelled post.

### MetricFollower

The file as a sequence of generations (from creation or truncation to the next),
each with an inode that may be reused, the cursor as the fields of
`MetricFileFollower`, and the histories the properties compare it with. `poll` is
`Open` (up to the comparison of `fstat` with the cursor) and `Read`; the writer
runs in between. `WouldHide` is the assumption on the writer that the class
documents: a truncated or replaced file does not grow past the cursor unseen.
`EachLineOnce` compares the incremental splitting with the lines of the whole
file.

### SecurityDetector, AlertDelivery and Monitor

A line is a record of the fields the digester finds in it, each absent, malformed
or a value; `NormalizedEvent` and `Rejected` are `LogDigester.parse` on it.
`sources` and `series` are the two ordered dictionaries of the engine and of its
anomaly detector, oldest entry first, and `IngestEvent` is all of
`ingest_raw_log`: prune, touch or make the source (`Seen`), score the metrics
(`Scored`, `Processed`), remember the failure (`Remembered`), raise. Baselines are
kept exactly, as integers over a power of the denominator of alpha, so no score is
rounded. `log` is a history of lines and observations; the properties recompute
from it what the tables should still know.

`AlertDelivery` has the two cooldown tables and `work`, what the nested loops of
`ingest` and `dispatch_observation` have left to do. A purge, a suppression, the
call of a sink (`Emit`) and its return (`Delivered`, `Failed`) are steps of their
own, so that time can pass between them; `offers` is the history of outcomes.
`unconfirmed` is a delivery that raised although the receiver has the alert.

`Monitor` puts them together as `run_watch` does: measure the disk, read the lines
of a batch one by one, each delivered before the next is read, add up the report,
next cycle. One-shot mode is one cycle. A scenario (constant `Scenarios`) bounds
what the surroundings may do in a behaviour.

## 3. Runs

| run | instance | what it shows |
|---|---|---|
| `durable_writers` | 2 processes, 2 values, 3 lines, 2 faults | nothing acknowledged is lost silently, memory never runs ahead of the file |
| `durable_single` | 1 process, 4 lines, 2 faults | crashes alone never make the file unreadable; the store implements `AcceptedLog` |
| `durable_newfile` | the first run's question where fsync does not persist a new name | **violated**, see findings |
| `daemon_reentrant` | 2 ids, 2 payloads, calls three deep, 1 storage failure, crashes, time frozen | no stale snapshot is applied, no edge skipped, no fact replaced, `AcceptedLog` implemented |
| `daemon_outcomes` | 2 payloads, 2 chain transactions, instants 0..2 and a `now` that is no time, evidence at most 1 old, calls two deep, crashes | order and timelock, evidence about the bound transaction; a well-formed proposal reaches VERIFIED unless it was approved at no time |
| `signing_race` | 2 processes, 2 requests, a small and a large intent, 2 proposals, seconds 0..3 | one signature per request, of the stored pair, after the lock, within every limit, although the router and the signer answer for other transactions; rows never change; `AtMostOnceSigning` implemented; the gates accept exactly what is within limits 6, 10, 2 gwei and hard limit 5, for every input around them |
| `signing_deadline` | 1 process | **violated**: an expired proposal can be signed |
| `results` | 2 workers, 2 ids, 3 deaths, power failures or short writes, names not durable | accepted a second time only after both records were lost by name; on record for as long as the names last; accepted in the end but for the exceptions it names |
| `zernio_safety` | 1 proposal, approval ids given and empty, webhooks without an event, 1 failed or torn append, 1 crash, instants 0..2, three states set by hand | a file that holds its lines as they were hashed is accepted and rebuilds the memory; nothing is sent before the timelock is over |
| `zernio_publish` | 1 proposal, all kinds of approval ids and outcomes, both methods in flight, 1 crash, time 0..1 | `PublishOnce` implemented; posts are recorded and judged |
| `follower` | 2 generations of 3 bytes, 2 inodes, reads of 2, lines of 1, 1 failed open or read | each line once, returned or counted as rejected, the cursor catches up |
| `monitor` | seven scenarios of 1 to 3 cycles and up to 6 lines, instants 0..3; 2 sinks, 3 rules; tables of 2 sources, 4 failures, 2 series, 3 cache entries | observations follow the log, baselines are the weighted means of the samples that were no outliers, cooldowns follow successes, the cache gives up what would expire first, failures hide nothing |

**Why the bounds are enough.** Two appenders and three lines hold every shape of
conflict there is between two memories and one file: a line of one in the place
of the other's, before it and after it. Two faults are the fewest that can hide
one another, such as a torn line that a later write completes. Three nested
calls are an operation inside an operation inside an operation; the version
check compares two numbers, and depth three already has a frame that is stale by
more than one. Instants 0..2 hold before, at and after the shortest unlock time,
and evidence that is too old, just in time and in the future; the signing runs go
one further. Two processes, two
requests and two proposals give the race to save, the race to claim, a resumed
request and an approval that was given for another pair. Limits between 2 and 10
with inputs from below zero to above them hold every comparison on both sides.
Two workers put one in each phase of the claim protocol while the other creates,
has its claim half-written, or comes late, and three faults are one more than it
takes to lose both records of a result and leave the next claim of it half-made.
Proposals of the lifecycle share only the hash
chain, and whose line breaks it makes no difference, so one proposal is enough;
both methods and one crash at every line give every overlap of two requests, and
a retry after each. Webhooks that name no event are in `zernio_safety`, approval
ids that are undefined (a line not as it was hashed, like theirs) and outcomes other
than published in `zernio_publish`, each where they decide a property; events
of a kind that changes no state (`"other"`) are in no run, only in the theorems. Three bytes and lines of one give lines that are empty, fit,
are too long, and are cut by a read of two at every place. The scenarios of
`monitor` (`MCMonitor.tla`) each fill one table: five failures for a limit of
four, three sources for a table of two, three series for a table of two, four
cache entries for a capacity of three, and time to let windows, cooldowns and
time-to-live end exactly, just before and just after an event. Window 3 and
cooldown 2 differ so that an entry can expire in between. Time passes inside a
delivery only in the scenarios about slow sinks; elsewhere it passes between
lines. Where a theorem is proved (section 5) no bound is
left.

**Deadlock** is checked except where the system stops by design or by a bound: a
refused journal waits for an operator (`DurableState`, `AuthorizationDaemon` with
faults), an audit file is refused (`ZernioRouter`), the journal or the clock is
full, all results are in, too old or refused (`ResultClaims`),
the last cycle is over (`Monitor`), every proposal is signed or refused and the
bound on proposals is reached (`SigningPipeline`).

**Fairness.** `AuthorizationDaemon!Fairness`: strong fairness on the operation
the lifecycle waits for, and on injected functions agreeing, because nested
calls and crashes disable them again and again. It is an assumption on the
callers (they retry) and on the collaborators (they do not refuse for ever); the
code itself never waits. A crashed daemon is restarted and a call always
returns. `ResultClaims!Fairness`: a worker that has begun goes on, which is what
a running process does, and a result is delivered again and again for as long as
it may be begun, which ends when it is too old. `ZernioRouter!Fairness`: the owner publishes again until the execution is
recorded and then asks for the status (`getExecutionStatus`), and one of the
attempts is served and answered; nothing is assumed of webhooks.
`MetricFollower!FairSpec`: `run_watch` polls again and again. The other specifications state safety only, without fairness.

## 4. Findings

* `durable_newfile`: `_append` syncs the file and never its directory. Where a
  new name is not persisted by the fsync of its file, a power failure after the
  first acknowledged transitions leaves no file, and recovery takes a missing
  file for an empty journal, against the comment at `state/store.js:12`. All
  other results about the journal assume `DirEntryDurable`.
* `signing_deadline`: the deadline is compared before the claim and the call of
  the signer, not with them, so a slow database lets an expired proposal be
  signed, against `security_boundary/README.md:46`.

Met while modelling. The models behave like this, and the properties that would
otherwise be wrong name it as an exception:

* `resimulate` and `approve` refuse only `now < unlockAt` (`core/daemon.js:34`,
  `:53`). NaN or a word is not smaller than anything, so with it the lifecycle
  becomes RE_SIMULATED and APPROVED while the timelock is active, which
  `tests/daemon-lifecycle.test.js:61` does not expect. Nothing is executed early,
  because no evidence is accepted after such an approval
  (`security/transition-evidence.js:41`); for the same reason the proposal stays
  APPROVED for good (`EventuallyVerified`).
* `_append` hashes fields that are undefined and `JSON.stringify` does not write
  them (`state/persistent-lifecycle.js:22`). After `approve(id)` without an
  `approvalId`, or a correlated webhook without `event`, the constructor throws
  `AUDIT_EVENT_TAMPERED` on a file that nobody touched, and so does
  `verifyAuditChain`, although `tests/zernio-router-v1.test.js:35` calls the chain
  "valid after reconciliation" (`RestartRebuildsMemory`, `ShutOut`).
* An approval whose id is null or empty is journalled but not restored
  (`state/persistent-lifecycle.js:23`): after a restart the proposal is APPROVED
  without an approval, and nothing sends or approves it again (`PostIsRecorded`).
* A cancelled post whose `post.cancelled` webhook comes before the answer that
  names the post, or is lost, is never judged: `getExecutionStatus` maps
  `cancelled` to no event (`SettledIsJudged` speaks of the other outcomes).
* A short write, or a power failure between write and fsync, tears the result
  journal (`security/signed-result-verifier.js:44`), and from then on line 17
  throws for every result (`EveryResultAccepted`).
* The name of a new result journal and that of a new `.claims` directory are never
  fsynced (`:32`, `:43-44`). Where that matters, as in `durable_newfile`, a power
  failure may take both, and a redelivery is accepted a second time
  (`SecondAcceptanceNeedsBothLosses`).

Nothing in the repository says otherwise of these:

* An absent lifecycle of the daemon reads as PROPOSED, so `authorize` and
  `validate` succeed before any `propose`, and leave a lifecycle that can be
  neither proposed nor bound.
* `PersistentLifecycle.transition` may enter TIMELOCKED without `startTimelock`;
  `clock() < null` is false, so a lock that was never started is over.
* A process that dies inside `recordWebhook` for a status answer leaves its event
  id in the file; later status answers are duplicates, and only a webhook with
  another id can finish the proposal (`CutShort` in `ZernioRouter`).
* A proposal that is rejected while its request is on its way is posted.

## 5. Proofs

Every theorem is about all behaviours of a specification: `Spec => []P` for an
invariant, `Spec => [][A]_vars` or a refinement `Spec => ImplementsX` where the
property is one. Each holds for every value of the constants that satisfies the
named assumptions of the modules: `ConstantsAssumption` (the bounds are naturals,
`None` and the other markers are not values), `FragmentAssumption`,
`NoneAssumption`, `LimitsAssumption` (limits are naturals, inputs integers),
`LifecycleAssumption` and `RouterAssumption`, `FollowerAssumption`,
`TimeAssumption`, `DetectorAssumption` (what the constructor accepts, and a source
outlives its window), `DeliveryAssumption`, `ScenarioAssumption` (a line has every
field, and a measurement is a number, absent or malformed; there is at least one
cycle). TLC evaluates all of them on every run. A theorem that needs more states it
as a hypothesis.

* **DurableStateProofs**: `JournalTyped`, `NothingAcceptedIsLost`
  (`NoSilentLoss`) and `MemoryFollowsJournal` (`MemoryIsJournalled`), the last two
  assuming `DirEntryDurable`. Neither invariant is inductive. The strengthening says
  what is true of *unreadable* files too: whichever log was acknowledged, either
  the file holds it line by line, or the file has a defect that no later step
  repairs. Appending never repairs a line, and a power failure cuts only lines
  after the synced ones, so the invariant has to tie acknowledged logs to the
  synced part, and each `stage` to what the process has written.
  `CrashesRecover` (`CrashesAreRecoverable`) counts processes, so it assumes that
  there are finitely many; its invariant `Alone` says what one writer without
  faults leaves in its file at each stage. `OneWriterImplementsLog`
  (`ImplementsAcceptedLog`), for a single writer and with faults: `Told` ties what
  the writer was told to what any restart that succeeds will read.
* **AuthorizationDaemonProofs**: `DaemonTyped`, `OneEdge`, `FactsArePermanent`,
  `BoundAndSimulated`, `UnlockComesFirst` (`NothingBeforeUnlock`),
  `EvidenceIsAboutThis` and `DaemonImplementsLog`, for calls nested to any depth
  and whatever `now` the callers pass: a re-simulation or approval at a time is not
  before the unlock time, and an execution, for which one at no time does not do,
  is not either. The difficulty is that
  most of the call stack is out of date: `FrameSound` says of every waiting frame
  that the lifecycle it holds is the record of the version it read, or one that
  may follow it, so that when the version is still the current one, which is all
  `apply` checks, the result follows the last record. `FactsByState` and
  `FactsAgree` say which facts a lifecycle carries in which state and how they
  agree; `LogSound` says both of a whole log, one edge at a time and nothing
  forgotten. When the journal is one that recovery accepts (`Intact`), its lines
  are such a log too and continue the memory and what was acknowledged.
* **SigningPipelineProofs**: `PipelineTyped`, `SignedAtMostOnce`,
  `StoredPairSigned`, `SignedAfterTimelock`, `RowsNeverChange`, and
  `PipelineImplementsBoundary`. The inductive invariant says which facts a
  process carries from step to step (its row exists from `reread` on, its pair is
  the row's from `simulate` on, its approval is its pair from `deadline` on, it
  alone holds the claim at `sign`, the lock is over from `resimulate` on), that a
  signature excludes a process at `sign` for the same request, and that every
  pair was made for the fingerprint it is stored with.
  `SignedStaysWithinLimits` (`SignedWithinLimits`) needs a second invariant over
  the first: every pair a process, a row or a signature holds passed the gates
  and the validation of the built transaction when it was made, possibly in
  another process that was told another exposure and gas price.
  `GatesRightForEveryLimit` (`AcceptedIffWithinLimits`) carries over two theorems
  about the gates alone, arithmetic with the limits as variables: flooring a gas
  price and comparing gwei accepts what is below the next gwei, and an integer
  quotient grows with its dividend.
* **ResultClaimsProofs**: `ClaimsTyped`, `OneRecordSuffices`
  (`SecondAcceptanceNeedsBothLosses`) and `AcceptancesRecorded`
  (`AcceptanceIsOnRecord`) on any file system; and, from the first of them,
  `ResultsAcceptedOnce`: at most once where `NamesDurable`. The inductive invariant
  gives the claim file one owner from `write` to `accept`, says how far the owner's
  claim and line are on disk at each step, and that neither an owner nor a worker
  about to become one works on an accepted id unless both names are lost. Each
  record refuses by itself, so the two halves of the invariant are each conditional
  on one name only.
* **ZernioRouterProofs**: `RouterTyped`, `RestartRebuilds`
  (`RestartRebuildsMemory`), `RestartAfterCompleteCalls`, `SentAfterUnlock` and
  `RouterImplementsPublishOnce`. `RestartRebuilds` says that without a failed append
  a file that is not `tampered` is whole and folds to `Replayable` of the memory;
  `Rebuilt` is the invariant, and it needs `Orderly` (no simulation without a
  transaction, no approval in a state before APPROVED) to know that a line that
  carries no value overwrites none. `RestartAfterCompleteCalls` adds that where every
  approval has an id and every webhook an event no file is ever `tampered`, and
  memory and file are equal. After a failed append memory is ahead of the
  file, by several lines if more appends fail, so the other theorems relate the two
  by `InStep`. A
  method is a chain of one to three steps, and `ReachedInStep` covers a failure
  or a death between any two of them. The refinement holds with failed appends
  too. It assumes that VERIFIED is not among the states set by hand:
  `transition` would grant it, and it does so in the code. `SentAfterUnlock`
  rests on the one way into BROADCAST, `recordExternalExecution`.
* **MetricFollowerProofs**: `FollowerTyped` and `LinesOnce` (`EachLineOnce`), for
  reads, lines and files of any size. `EachLineOnce` is about the file as a whole,
  the code about chunks: `Followed` says what has been returned of the generation
  under the cursor, and `Mid` extends it into a chunk that is being split, where
  `discard` means either that reading began inside a line or that the line was
  already counted as too long. `Shorter` says that a generation replaced under the
  same identity is shorter than the offset, which is what `WouldHide` assumes and
  the comparison of sizes relies on. What splitting a chunk returns is proved by
  induction over the chunk.
* **MonitorProofs**: `CooldownsHold` (`CooldownsAreKept`), `SoonestGoesFirst`
  (`EvictsSoonestToExpire`) and `NothingIsHidden` (`FailuresHideNothing`), for any
  rules, sinks, capacities, lines, answers and times. The tables and the offers made say the same of each other: an entry
  stands for a delivery (`CacheSound`, `RulesSound`), and a delivery that still
  counts has its entry unless the cache gave it up (`CacheComplete`,
  `RulesComplete`). `EmitFresh` carries what the check before an emit found over
  the time the sink takes. The cache is sorted by expiry because a renewed entry
  moves to the end and all are given the same time, so the first is the one to
  give up. `FailuresHideNothing` compares totals with histories when the pipeline
  is idle; `Tallies` extends that to every moment: for each rule and sink, and for
  all observations together, what was offered and what the loops have still to
  offer is what the lines and readings so far call for, and the reports of the
  cycle and of the run together count each fault once. The lemmas under it say
  how many tasks of a kind a concatenation, a tail or a flattened list has. It
  rests on rules and sinks being pairwise different (`DeliveryAssumption`): a rule
  listed twice is offered twice.

* **SecurityDetectorProofs**: `ObservationsHold` (`ObservationsFollowTheLog`),
  `BaselinesHold` (`BaselineIsWeighted`) and `TypesHold` (`Monitor!TypeOK`), for any
  lines, times, limits and smoothing factor. The properties recompute from the
  whole log what the code keeps in bounded tables, so the invariants say what the
  tables are of any log, and each step is shown for the log with one line more.
  *Sources* (`SourcesSound`): the table is in the order of last use
  (`ByLastUse`), and an address that is not in it was last used a window ago or
  before as many others as the table holds (`ForgottenRightly`); that is what
  makes `losses` in `FailuresFor`, which is about the log alone, agree with the
  eviction of the first entry (`FirstGivesWay`, `ForgottenKnowsNothing`). An entry
  remembers the latest of the failures that count, all or as many as fit
  (`Remembers`), whatever it does not remember is told for a window (`GivenUp`),
  and it tells of nothing else (`Truncated`). Pruning may come later than time
  passes, so the tables are sound for some time up to the clock.
  *Baselines* (`SeriesSound`): an entry is the weighted mean and variance of the
  last `count` of its samples (`Averaged`). One sample more multiplies every old
  weight; `LeansEvenOut` (weighted deviations from the mean cancel) is what lets
  `SampleAdds` reduce the new sum of squares to the code's one-line update. Inside
  a line the loop over the metrics has dealt with some series and not with others
  (`Half`), and a sample counts exactly if the alerts of the line, complete only
  after the loop, do not report it (`MetricIs`, `OutliersHit`).
  *Types*: with the above and `ProgressInv`, one entry per key (`KeysAre`).

Induction over data is done where a theorem needs it, in first-order form: `Least`
(a set of naturals has a least element, from the well-foundedness of `<`) and the
set of lengths up to which a claim holds. It covers what `FlattenSeq`, `Kept`, the
fold over the metrics of an event and the splitting of a chunk return, and powers
and sums of any length (`PowerIs`, `TotalMixed`).

Only model-checked:

* liveness (`EventuallyVerified`, `EveryResultAccepted`, `SettledIsJudged`,
  `PostIsRecorded`, `CatchesUp`): fairness and ENABLED are outside what TLAPS
  can prove here.

The two properties that are violated are refuted by TLC's counterexamples. Every
invariant and every action property of the passing runs is stated by a theorem.

## 6. Not modelled, and known limits

* The default `ProposalStore` is `:memory:`; the model is about a file-backed
  one. With the default, nothing survives a restart and nothing is shared.
* `LifecycleCoordinator.advance` can be called directly with any metadata; the
  daemon never does, and the model has only the daemon.
* `propose` stores `proposalHash` and `payload` unchecked; the model treats them
  as unrelated values.
* `now` in `resimulate` and `approve` is what the caller says: in the model a
  natural up to the bound, or `NotATime`. A negative number or a fraction is left
  out: it is compared with the lock like its neighbours, and after an approval at a
  fraction, as at `NotATime`, no evidence is accepted.
* Clocks only go forward.
* `verifySignedResult` without a journal keeps ids in a `Set` in one
  process, sequentially.
* A claim that a short write cut counts as written: its own result finds it by the
  name of the file. A cut id that is itself the id of another result, which would be
  refused, is left out; so are the half-written lines other readers see while a
  write is going on.
* How old a result may be (`maxAgeMs`) is only whether it is too old yet.
* Bytes of a metric file that do not decode (rejected where lines too long are),
  and paths that are not regular files.
* `transition` of the persistent lifecycle is called without a payload. Of fields
  that may be undefined or empty the model has the two an outside caller supplies,
  `approvalId` and `event`.
* Calldata syntax, field formats and digests are abstracted: a digest is what it
  is of, a malformed field makes an attempt end. `BroadcastGateway` and `Verifier`
  in `security_boundary/execution.py` are interfaces nothing implements.
* The exposure of the portfolio is an argument of `execute`; nothing in the
  repository keeps it, so whether two requests in flight together exceed the limit
  cannot be said of this code.
* Monitoring: the command line, the wording of alerts, the grammar of the log
  formats, source timestamps, content hashes, HTTP itself, and rounding of floating
  point numbers. `Monitor` reads lines from anywhere; that the follower returns
  each line once is the business of `MetricFollower`. One disk path; each other path
  is another rule.
* The bound on a metric file is at least two bytes (`FollowerAssumption`), as the
  files a behaviour may begin with have up to two.
* A rule is its own key in the table of cooldowns, where the code takes the
  identities of rule and sink, and rules and sinks are pairwise different. Those of
  `main` are too, unless `--disk-path` is given twice with the same path, which
  `integrated_alerts.py:381-384` does not notice: that makes two rules alike, each with
  a cooldown of its own, which the model would take for one. Nothing is shown of that
  case; there every alert of the disk goes out twice.
* Labelling scripts (`auto_labeler.py`, `typesafe_labeler.py`), `pipeline_utils.py`,
  the benchmark, the coverage recorder, web page and CI: a remote call repeated by
  a library, checks of its answer, tensor arithmetic, presentation. None keeps
  state between calls or shares any.

## 7. Plan

Done: all components that keep state, checked, with proofs of every invariant,
action property and refinement the runs check. Worth adding when the code grows:
a second disk path, one `IntegratedAlertPipeline` fed by two streams, and a
`ProposalStore` whose collaborators keep the portfolio's exposure themselves.
