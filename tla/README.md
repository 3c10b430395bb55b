# A verification development of polymorph-test

polymorph-test runs test suites that are WebAssembly components, on several
hosts, and decides from their results whether a corpus is green. This directory
holds TLA+ models of the parts that decide it, the TLC instances that check
them, and proofs that TLAPS checks.

The question behind all of it: **can a run, a fold or an aggregate look green,
or say something of a case, that did not happen?** A suite may trap, hang,
drift or be killed at any point, cases run on several threads or in several
workers of a page, and half a dozen tools hand each other files. Each tool is
tested on its own; these models are about the orders, the cuts and the
combinations nobody wrote a test for.

## The system

| Part | Code | State it keeps | What is hard about it |
|---|---|---|---|
| Contract | `wit/tests.wit` | none | a case returns one verdict; diagnostics are sideband |
| Context provider | `components/provider` | one writer per pair, in a slot, and a closed flag | a writer taken during an await; calls that overlap, are given up or go on late |
| Composed runner | `components/runner-cli` | the case at hand, its diagnostics, counters | a biased race between diagnostics and the case; a trap ends everything |
| Host runner | `crates/component-test-runner` | sessions (instances), worker threads, results, counters | threads, a pool of instances, traps, two guards, a process killed at any point |
| Results fold | `crates/component-test-results` | one document | torn and cut streams, two runs in a file, open cases |
| Lockfile, names, tags | `crates/component-test-formats`, `-core` | the inventory: exact cases and rows of generated ones | overlapping rows, coverage of names nobody pinned |
| Manifest, aggregator | `crates/component-test-formats` | the corpus: documents of several targets | targets that are missing, shed cases, fail as declared, or do not schedule |
| Command line | `crates/component-test-cli` | files | verdicts gathered from several checks; lockfiles of other builds; bumps that fail half-way |
| JS harness, page pool, browser driver | `js/viewer`, `js/browser-driver.mjs` | workers of a page, a watchdog | sharded runs, abandoned attempts, promises nobody awaits |
| Guest SDK and macro | `crates/component-test-sdk*` | the scopes of nested modules; the registry of a suite | inherited marks, declarations that collide, generated cases, two paths from source to runner |
| Renderers | `matrix.rs`, `junit.rs`, the viewer | none | views that summarise: one word for many cases, two words for many statuses |

How they interact: the macro turns a suite's source into records in the artifact
and a registry in the instance; `lock` scans the former into a lockfile. A
runner (host, composed or JS) enumerates a suite through
the contract, runs its cases, lending each a context, and writes a **stream**:
an envelope, one event per census case, a terminator. The **fold** reads the
stream and the lockfile into a document, adding the cases a cut run did not
come to. The **aggregator** joins one document per target with the lockfile and
the manifest, and the renderers show what both made of it. The stream is the one interface all three share, so it has a
specification of its own, `CensusStream`: both Rust runners are shown to
implement it and the fold reads what it allows.

What makes each part correct:

- *runners*: every census case has exactly one event, in order, telling what
  happened to that case, whatever the threads and the other cases did; no case
  runs in an instance an earlier one wounded; nothing is retried; a run with
  both guards armed ends; a case that has returned is reported.
- *provider*: what a reporter was told is delivered is in the case's event;
  only overlapping calls lose messages; a waiting call does not wait for ever.
- *fold*: nothing reported is lost, nothing is invented but the open cases of a
  cut run, and green means a whole run that matches the inventory.
- *aggregator*: green is earned by every target that must be there, all targets
  have the same census, and how a runner schedules makes no difference.
- *views*: what is quiet on the page or in the report is no failure, and what
  several roles report of a case is as red as the worst of them.
- *macro and registry*: the nearest mark of a feature wins; what is accepted at
  compile time registers at run time, with the marks the inventory shows.
- *lock*: a lockfile, written or quietly checked, accepts a full run of the
  suite, and a check does not complain of a relinked artifact.
- *browser side*: what the driver returns is whole and in order, whatever timed
  out; what is not whole is thrown; and it returns or throws at last.
- *budget*: a phase is charged its own CPU time, and ended in time.
- *pins*: a complete bump makes the gate pass whatever happened before, and a
  gate that passes on fresh lockfiles saw one revision.

PROJECT.json lists every component with its status, and 40 hazards with the
properties that cover them.

## The modules

| Module | Models | In the code |
|---|---|---|
| `CensusStream` | what a runner promises a reader: the abstract specification | the results contract as the runners produce it |
| `SuiteRunner` | the host runner, sequential and parallel | `run_suite_opts`, `serve_case`, `run_case`, `new_session`, the guards |
| `BudgetMeter` | the execution budget of the host runner | `new_store`'s callback, `EpochTicker`, `start_budget_phase` |
| `ContextProvider` | the reference provider and its stream | `diagnostic`, `diagnostics`, `new_context`, `Drop` |
| `ComposedRunner` | the composed runner over that provider | `run`, `run_case`; EXTENDS `ContextProvider` |
| `Lockfile` | names, tags, validation and coverage, as operators | `validate`, `check_coverage`, `prefix_of`, `applies` |
| `CaseNames` | the grammar of segments, as operators | `is_wit_label`, `validate_segment`, `ident_to_segment` |
| `SuiteMacro` | `#[suite]` on a source | `walk_items`, `merge_scope`, `validate` of the macro; EXTENDS `Lockfile`, `CaseNames` |
| `SuiteRegistry` | the artifact: records and registry | the expansion, `Registry`, `CaseName::prefixed`; EXTENDS `SuiteMacro` |
| `LockCommand` | inventory, `lock`, `--check`, `--enumerate`, edits | `inventory.rs`, `lock`; EXTENDS `SuiteRegistry` |
| `ResultsFold` | the fold, its input written by `CensusStream`'s actions | `fold_jsonl`, the `fold` command |
| `ResultsViews` | several roles in one document, and the JUnit report | `fold_roles`, `junit`; EXTENDS `ResultsFold` |
| `Aggregate` | the aggregator and its command, over folded runs | `aggregate`, `aggregate_cmd`, the manifest |
| `Matrix` | the page rendered of the aggregate | `matrix.rs`; EXTENDS `Aggregate` |
| `JsHarness` | the case loop in a page's workers | `runCases`, `browser-worker.mjs` |
| `PagePool` | the page: shards, order, merge, report | `page-runner.mjs`, `mergeCounts`; EXTENDS `JsHarness` |
| `BrowserDriver` | the driver of the page | `runPageHarness`; EXTENDS `PagePool` |
| `PinsBump` | bump, lockfile updates and gate | `pins.rs` |
| `*Proofs` | theorems about `SuiteRunner`, `BudgetMeter`, `ComposedRunner`, `ResultsFold` with the report of `ResultsViews`, `Aggregate` with `Matrix`, `BrowserDriver` with its page, `PinsBump`, `LockCommand` with macro and registry | |
| `MC*` | instances of these for TLC | |

**SuiteRunner.** The census is `1..N`. Per worker: the cases left of its stripe
(`todo`), the case it serves (`at`), where `serve_case` is (`step`) and the
session slot (`session`: how many cases it served, how many it knows, the
diagnostics in its store, whether a trap or a guard wounded it). The emitting
loop is at census index `next`; `sent` is the channel and `results` what was
collected from it. `phase` is where `run_suite_opts` is. With one job the loop
serves the cases itself; with more, workers serve stripes and the loop starts
when all are done. `fate`, `runs` and `said` are history: how each case really
ended, how often it was called and how many diagnostics it reported.
`CreateSession` instantiates and enumerates again, and may fail, hang or know
fewer cases; `CallCase` calls the export, after the check of its name;
`Diagnose` is the host function; `FinishCase` ends the call by any of the fates
the armed guards permit. `Kill` is the process dying.

**BudgetMeter.** `SuiteRunner` only knows that a spinning call is ended; this is
how. Time passes in units (`RunWasm`, `RunHost`, `RunOther`), each of which a
thread may or may not use for the store; the ticker advances `epoch`, late by at
most `Lateness`; code that runs past `deadline` calls back. `own`, `hosted` and
`stray` are history: what the phase really used, what of that in host functions,
where nothing checks the epoch, and what the thread of the last sample computed
for others meanwhile.

**ContextProvider, ComposedRunner.** A pair's stream is a rendezvous: a write
that meets a read is done at once and its message then is with the reader
(`buffer`), who is not told of it yet and for whom the read is still under way
(`reading`); a write that comes first keeps the writer out of the slot
(`writing`) until it is read and its call has gone on (`copied`, `Resume`). The
runner core is one task: it starts reads, takes messages, and takes the case's
outcome only when the stream is not ready for it, as the biased race does: a
read is under way, though the poll in which the case returned may have met it
with a message. `DropContext` and the drain follow, and the drain fetches such a
message, or that of a call the case left waiting. `fate` is history: what became of each message.

**SuiteMacro, SuiteRegistry, LockCommand.** A source is the sequence of its
items, modules closed by an "end"; `stack` is the recursion of `walk_items`, a
frame its name prefix and its marks. `Validate` refuses or lets the suite
through to `Compile`, which leaves the records in any order the linker may.
`Register` builds the registry case by case, and panics as `Registry` does.
`EnumerateSuite` makes a listing, `Lock` and `Check` use it or not, and `Edit`
puts another source, or the same, in place while listing and lockfile stay.

**ResultsFold, ResultsViews.** The input file is written by the actions of
`CensusStream` under an envelope, and left with any of the tails a run can leave
(nothing, a torn line, a run error and terminator, a terminator, a terminator
and the next run's envelope), possibly below an earlier run's envelope. The fold
reads it line by line (`pos`), or gives up where the code bails, then opens the
exact cases no line named, then `Judge` decides the exit code. The views are
operators over the document: `FoldRoles` merges it with what other roles may
have reported (`Partners`), `Testsuite` is its JUnit report, of documents
nobody judged, too.

**Aggregate, Matrix.** Documents are joined one at a time, in the command line's
order, as the code does; declaration checks come first, the silent and shed
targets last. A document is the fold's of one run (`Document`): runs are records
of enumerated names, outcomes, the features the runner took for missing, whether
it schedules at all, and where it was cut. `Matrix` is operators over the
result: the words of cells, which of them are uniform, which rows collapse, and
the sections below.

**JsHarness, PagePool, BrowserDriver.** Three programs in three processes. Per
worker: where its loop is (`worker`, `at`), its `counts`, the attempts it gave
up that still run (`abandoned`) and its messages on the way (`channel`). The
page takes messages of any worker in any order (`TakeEvent`, `TakeCounts`,
`TakeError`), sorts and merges when the last shard is in, and reports; the sort
is stable, and an event's `Place` says where it puts it. The
driver is loading the page or awaiting the report, a promise that is pending,
resolved or rejected; `quiet` is the heartbeat's age against the stall timeout.
`verdict` is history: what first came of each executed case.

**PinsBump.** A file is a sequence of lines, a line its hashes, whether it
names a pin, and the commit that a tag or an abbreviated revision on it means;
a pin may name no commit at all. `BumpFile` truncates and `Write` writes; `Fail` may come at any
time. `CargoUpdate` and `NpmInstall` are the lockfiles' owners; `RunGate` reads
only lockfiles.

## The runs

| Run | Instance | Distinct states | Question |
|---|---|---|---|
| `seq` | 3 cases, 1 job, granularity 0-2, all guards, fates and births | 596,081 | does every way a case or a session can end become that case's event, and the run end? |
| `par` | 4 cases, 2-3 jobs, pool of 2 | 342,246 | is any interleaving of workers visible in the stream? |
| `pool` (violation) | as `par` | stops at the violation | is the number of jobs invisible? |
| `budget` | 2 threads, budgets none and 3 units, ticks of 2, late by 1, up to 2 thread changes, 7 units of time | 3,225,752 | is a phase charged what it used, and ended in time? |
| `composed` | 2 cases of up to 3 messages | 7,926 | is what the reader read reported, whoever wins the race, and does a case that returned get reported? |
| `givesup` (violation) | the same, cases may give calls up | 19,575 | and if a case gives a call up? |
| `suite` | 4 levels of marks, 15 declarations in pairs, 10 refused sources, an edit | 29,082 | does what the macro accepts run, and does its lockfile accept that run? |
| `fold` | 2 cases, 4 lockfiles and none, every cut and tail, 3 other roles | 311,136 | does a green fold mean a whole run, and do its views show what it does? |
| `aggregate` | 2 documents of 3 targets, 3 lockfiles, 4 manifests | 749,984 | is a green corpus earned, and does the page hide anything? |
| `panic` (violation) | as `aggregate` | stops at the violation | is an invalid lockfile only reported? |
| `page` | 6 pages of 1-2 suites, 1-2 workers, up to 4 cases | 509,452 | is what the driver returns whole, what it awaits thrown, and does it settle? |
| `pins` | 3 files, 21 trees, 2 bumps | 101,487 | does a bump heal, and does the gate see skew? |

**Why the bounds are enough.** Isolation and attribution relate two cases of
one instance, and recycling a third: three cases at granularities 0, 1 and 2.
Stripes need more cases than workers and workers of unequal load: four cases on
two and three workers, with the pool of two below and at the number of jobs. A
diagnostic per case shows misattribution; the loss of one needs the second
message, the order of a third. The fold's rules are about one name against the
rest and one line against its neighbours: two names of the inventory, one under
a row, and one no name at all. The aggregator compares targets in pairs: two
documents, of the same target or of two, or of a target nobody declared. The
macro's scopes differ at the third level for the first time (an outer mark
turned round twice), and its checks are on pairs of declarations, so every
ordered pair of fifteen is tried, at the top and beneath a module. A page's
faults are about one worker against another and one suite after another: two of
each, with stripes of unequal length, one of them empty under a filter. A bump's
history matters only through what the last one left: two bumps. The meter's
slack is the tick, the lateness and a change of thread; with the second change
a store can return to the thread of its last sample, which in between computed
for others; the budget is longer
than one tick and its lateness and shorter than the time that passes, so it can
both be met and exceeded in one phase and the next, and the bound the property
states is met exactly.

Numbers that grow are bounded by `N`, `MaxDiags`, `MaxDocs`, `MaxJobs`,
`MaxBuilds`, `MaxBumps`, `MaxWall` and `MaxMoves`. They cut a behaviour short
only in the last four and in `MaxDiags`: a case reports no more messages, a
suite is not edited, a tree not bumped again, time stops.

**Fairness.** `SuiteRunner`: weak fairness of the main thread and of each
worker's serving, which is what the operating system's scheduler gives
threads; none for a case's reports or for a kill. A call that burns CPU or
waits for ever has no fair way out but a guard, so `GuardedRunEnds` assumes both
guards armed, as the command line arms them by default. `ComposedRunner`: weak
fairness of the runner core and of the provider's calls, which the embedding
polls; none of the case, so a case may never return, and none of traps.
`BrowserDriver`: weak fairness of Node's and Playwright's own timers (the
watchdog's interval, `goto`'s timeout) and of the driver going on once what it
awaits is there; none of the page, its workers or its cases, so all of them may
hang, and `Settles` rests on the watchdog alone. The other modules are loops
over files, and state no liveness.

## Disagreements met

Each violation run shows one disagreement between the code and what the
repository says of it; PROJECT.json quotes both.

- `pool`: jobs are not bounded by the pool's 32 instances; the worker too many
  fails its cases as traps.
- `panic`: a lockfile entry with contradictory marks is reported and then
  unwrapped.
- `givesup`: a case that gives up a waiting diagnostic call ends the stream;
  the composed runner's race then never polls the case again.

Others are visible in the models without a run of their own:

- A parallel run keeps finished results back until every worker is done
  (runner `lib.rs` 946-951), so a kill loses more than the cases an abandoned run
  "never got to" (`docs/runner-policy.md` 38): `Kill` while `phase` is
  "serving". `WriteThrough` is about sequential runs.
- The fold attributes open cases to the last result *with an abnormal end*
  (results `lib.rs` 315-325), not to "the last executed case if it failed
  abnormally" (308-309).
- An unknown status is a warning for the aggregator (`aggregate.rs` 264-268),
  though line 19 lists it among the gates that refuse: for leaves of an open row
  no other check notices the missing result. `GreenIsEarned` therefore speaks of
  the cases the lockfile lists (`Listed`) and of the results there are.
- "A cell is uniform when every member renders the same word" (`matrix.rs`
  102-103): the code looks at the members that have a result. `NothingHidden`
  shows that this differs only where the page lists validation errors.
- After `page.goto` failed, `settled` is never set (`browser-driver.mjs`
  216-247): the watchdog goes on and later rejects a promise nobody awaits, which
  can end the Node process of a caller that caught the error. `AwaitedIsThrown`
  permits that case and excludes all others.
- The pool has no guard for an empty census, as `runSuiteJsonl` has
  (`harness.mjs` 375): a suite without cases is reported as done, with an
  envelope and a terminator.
- The workflow's action refs are rewritten by `pins bump` but are in no
  lockfile, so the gate cannot see them stale.
- "The delta between consecutive samples on the same thread is the case's own
  execution" (runner `lib.rs` 44-46): not for a store that leaves a thread and
  is back on it at the next sample, when the delta has what the thread computed
  for others meanwhile. It takes an embedding that moves the future between
  threads. `BudgetIsCpu` charges a phase up to `Chargeable`, which says so;
  that the comment is right of fewer than two moves is `DeltaIsOwnUnmigrated`.
- Of an npm lockfile the gate wants some revision, not one for every package
  that needs one: a package whose declaration means no commit goes unnoticed
  beside one whose does. `GateSeesSkew` is about the revisions that are there.

## What is proved

For every value of the constants the modules' assumptions allow. These say what
types the constants have, and beyond that: a run of `Runs` has no more outcomes
than names, and as many if it is whole (`AggregateAssumption`); the pages'
suites have keys of their own, and without a filter every case is selected
(`HarnessAssumption`); there are finitely many files, and a `Cargo.toml` among
them, which the command line requires (`PinsAssumption`); a WIT label may end a
name (`NameAssumption`); a tick takes time (`MeterAssumption`); a suite's items
are items, and an "end" closes a module that is open (`SourcesAssumption`,
`BuildsAssumption`), as braces do.

- **Host runner**: `TypeOK`, `Isolation`, `NoRetry`, `TruthfulStream`,
  `EveryIndexHasResult`, `PoolSuffices`, `ImplementsCensusStream`,
  `WriteThrough`, `TruthfulSummary`. None is
  inductive: that an event is truthful depends on the result in the channel,
  that one on the log in a session's store, and that on the log having been
  empty when the case was called. `RunInv` says where a case is at each moment,
  in named parts: excluded and never touched, pending at exactly one worker
  (`Assigned`, `Untouched`), running with its own log in a slot fit for it
  (`Slots`, `Running`), waiting as one result that tells the truth (`Waiting`,
  `Told`), or printed (`Printed`), and nowhere else (`Covered`, `Joined`).
  Refinement adds where the envelope is (`HeaderInv`); the pool needs that
  surplus workers hold nothing and that a worker that creates an instance has
  given its last one back (`GivenBack` in `PoolInv`), and counts the instances of
  all workers, its own included, with `FiniteSetTheorems`; write-through, that with one job the case served is the
  one to print (`Sequential`); the summary, that every counter is the number of
  printed events of its status (`Tally`).
- **Budget**: `BudgetIsCpu`, and `DeltaIsOwn` of stores that move less than
  twice. `MeterInv` relates the charge to the last sample and to the clocks of
  all threads. From above (`NotTooMuch`): what a comparable sample would add now
  is, with the charge, no more than the phase's own and `stray`. From below
  (`NotTooLittle`): what is not charged yet was used since the last tick, or in
  a slack for each change of thread, or is in the delta to come. Without a clock
  the charge is a number of ticks, each after one slack at most (`ByTheTick`).
- **Fold**: `TypeOK`, `InventedAreOpen`, `NothingLost`, `GreenMeansComplete`
  from `FoldInv`: what a producer can have written (`Written`), that what was
  read is in the document and, until something is invented, in order (`ReadIn`,
  `InOrder`), and that a terminator on a cut stream is preceded by a run error
  (`Ended`). That a green fold has each inventory name once then follows from
  coverage.
- **JUnit report**: `NeverGreener` from `FoldInv` and one lemma about the report
  as a sequence: its testcases are those of the results and of the transport
  problems and no other (`ReportHas`), whatever order the set of unknown words
  is written in. A report without failures and errors is then of a document that
  has a terminator and no run error, and `Ended` makes that a whole run.
- **Fold of roles**: `RolesAgree`, of a document and any results of other roles.
  It is about operators on data: positions of a finite set in order are each of
  them once (`OrderOfSet`), so each case has one first report (`FirstReports`) and
  the reports of a case are all of its reports (`OnlyThese`); the earliest of the
  worst exists (`WinnerWorst`), and putting it first loses nobody (`PutFirst`).
- **Aggregator**: `TypeOK`, `GreenIsEarned`, `SameCensus` from `Inv`: each
  joined document has its failures, or its results and its excuses, on record
  (`AllAccounted`), and the verdict is what the record says (`Judged`). That each
  case the lockfile lists has a result follows from coverage; of a leaf of an
  open row nothing is claimed but that its result, if there is one, is fine.
  `SameCensus` goes by leaf agreement and the exact-case check. `RunnerParity`
  compares what two documents of the same outcome become.
- **Page of the aggregate**: `NothingHidden`. `PageInv` has that every result
  comes from a document (`Origins`), that one without a column is an error
  (`Strangers`), and that the verdict is neither more nor less than errors and
  failures (`Verdict`). The counts on the page are a fold over the target's
  words; `CountsAddUp` shows that they add up to the results that are there.
- **Composed runner and provider**: `TypeOK`, `NothingReadIsLost`,
  `OneAtATimeIsHeard`, `ImplementsCensusStream`, with or without cases that
  give up calls. `Channel` says that a waiting call holds the writer, that no other call waits and
  that its message is newer than all that were read, which makes a list in the order
  of reading a list in the order of reporting; `Heard` that what was read is in
  the list or is the one message in the buffer; `Writable` that a running
  case's writer is in the slot or held by a call.
- **Page and driver**: `TypeOK` of workers, channels, page and driver
  (`Typed`), which has the arithmetic of the stripes in it; the action property
  `AwaitedIsThrown`, from `ReturnedSettled`: a driver that returned has a settled
  report, so nothing can reject it any more; and `ReturnedIsWhole`. For this one
  a page that runs keeps, of each worker (`Kept`), an event of each case of its
  stripe it is done with, once, with what is due, among those it has and those on
  their way (`Ledger`), counters that are their numbers (`Tally`), and counts that
  come after all events and only at the end (`Closing`); the suites that are done
  are whole (`WholeIn`). Each case is in one stripe (`SomeStripe`, `OneStripe`),
  so the counts of complete stripes add up to the census's (`StripesAddUp`), and
  an event's place when they are sorted is its index (`Sorted`). What is due does
  not change after the report of a whole, since its workers are terminated then
  (`PageKept`), and the driver returns what it heard (`DriverKept`).
- **Pins**: `GateSeesSkew`, `BumpHeals`. A gate that passed stays one that would
  pass (`GateStands`). `BumpInv` has that all but the full hashes on pins is as
  it was (`AllKept`), that the files a bump is done with hold its revision and no
  other (`Bumps`), and that a file that was refused has no full hash
  (`Refuses`); fresh lockfiles then hold that revision and no other.
- **Macro, registry, inventory**: `TypeOK`, `AcceptedSuiteRuns`, `TagsAgree`, for
  every grammar of names, every source and any number of edits. `LockInv` has
  that what the walk collected is typed and every merged scope has a feature once
  (`Walked`), that an expanded suite was accepted (`Expanded`), and that the
  registry has what was registered so far and the artifact a record of each
  declaration (`Linked`). The rest is about names: of two prefixes of one name,
  one is the other or is under it (`Nested`), so leaves of different generators
  are apart (`LeavesApart`), each registration is of one case or one leaf
  (`Decoded`), and two with one name make their generator unsound (`Distinct`).
  `QuietCheckCovers` speaks of a lockfile written builds ago: five more invariants
  carry it. The walk is a function of the source (`Determined`: what is collected
  is the last of the steps that `AfterItem` makes from the first item on, and two
  such walks of one source are equal), so a committed lockfile is what its source
  and listing make of it (`FromOrigin`) and no drift is seen where there is none
  (`NoFalseAlarm`); a listing of this build is the registry's (`Remembered`) and a
  command that was content compared equal files (`Matched`). `NearestMarkWins` is
  about nesting of any depth: frame d + 1 of the stack is that of the d-th open
  module, which `Len(stack) - d` modules are open in (`Framing`), so leaving one
  closes the innermost, and a frame's scope is what is in force there; from which
  follows what a declaration is marked with, at the place its number says (`Marked`).

The library's induction theorems take an operator as a parameter, which no
installed prover can instantiate. Where a theorem is about something computed by
recursion the proofs take the least counterexample instead (`LeastNumber`), and
a recursive function is shown to be its closed form (`SumUnfolds`) or to exist
(`Recursion`), from which follows what `Retain` and the library's `FlattenSeq`
return (`Retained`, `Flattened`).

**Only model-checked**: all liveness (`GuardedRunEnds`, `WaitingEnds`,
`ReturnIsReported`, `Settles`), since temporal reasoning from fairness and ENABLED
is out of the prover's reach, and the runs that expect a violation. RECURSIVE
operators would be out of reach too, and no module here declares one. Sorting is
written with places and ranks (`Place`, `Ascending`) and not with the library's
operators on top of TLC's `SortSeq`, which the prover has no definition of.

## What the models take for granted

- Enumeration is in the same order in every instance, as `wit/tests.wit`
  demands; an instance may enumerate fewer cases, but not others in their place.
- `Pool` counts sessions; the allocator's other limits are not reached first.
- A name is a sequence of segments. In the runs on streams and lockfiles only
  whether a segment is a label counts; `suite` has segments of characters, in
  classes. The length limits of segments and names are left out. `Covers` is
  defined for any lockfile, valid or not.
- A lockfile's marks are the artifact's. A run the fold refuses stops the
  aggregate command, so the aggregator sees documents only.
- Warnings never reach a verdict and are left out, as are seeds, durations and
  the artifact's hash; of details and diagnostics only whose they are is kept.
- A row function registers what it registers through `generated_named`; one that
  called `Registry::case` could register a name no record covers.
- `emit` converts any stream; of those with a lockfile only one that validates is
  tried, since an invalid one stops the fold before.
- A worker's messages arrive in order, and none after it is terminated. A given-up
  attempt's diagnostics go to a list nobody reads. An unhandled rejection ends the
  Node process, as it does by default.
- The store's WebAssembly code checks the epoch before every unit of time; the
  ticker is late by no more than `Lateness`.
- Cargo and npm write what the files declare, one block of lines a package, the
  block's lines indented deeper than its first.
- The composed runner writes JSONL; one write to stdout is one step. A read and
  a write that meet complete at once; the component runtime drops a call's
  future, and the writer in it, when the call is cancelled; a stream that ended
  stays ready. A call may outlive its case's return: the provider's `closed`
  flag is there for that.

## Not modelled, and why

- `compose` and `wizen` call wasm tooling on files in a straight line and keep
  no state; `suite.js` is generated; the actions and workflows run on a CI
  service; the fixtures are inputs, whose ways to end are among the models'.
- `ct-runner` and `run.rs` parse options and turn a summary into an exit code;
  the polyengine and node runners instantiate a suite and call the loop that
  `JsHarness` models with one worker.
- The viewer is a DOM over results the aggregator made, and `viewer-aggregate` a
  call of it.
- The length limits of names, `normalize_segment` (which nothing here calls),
  escaping, markdown and XML, and the parsing of TOML, JSON and WebAssembly:
  data that no property tells apart.
- Launching browsers and serving files: what goes wrong there is thrown before
  there is a page. If the launch fails, the server it was started with stays.

## The plan

1. `SuiteRunner`, `CensusStream`, `Lockfile`, `ResultsFold`, `Aggregate`,
   `ContextProvider`, `ComposedRunner` and their proofs: done.
2. `SuiteMacro`, `SuiteRegistry`, `LockCommand`; `ResultsViews`, `Matrix`;
   `JsHarness`, `PagePool`, `BrowserDriver`; `BudgetMeter`, `PinsBump`: modelled
   and checked.
3. Theorems of all safety and action properties: done.
4. To prove next: the composition of runner, fold and aggregator as one theorem: a
   green corpus of streams that implement `CensusStream` was really run.

## Running it

`tlc -config <file>.cfg <module>` for each run of PROJECT.json, and
`tlapm <module>Proofs.tla` for the proofs.
