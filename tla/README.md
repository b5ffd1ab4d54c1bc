# Verification of the BlazeX component runtime

BlazeX runs component trees ("roots") in the browser: an Elixir coordinator per root evaluates
components, hands a candidate tree to a renderer, and promotes it when the renderer acknowledges
it. The repository also holds the programs that decide what counts as accepted: generators,
validators, recorders and gates in Python, which read and write one tree of files that people edit
meanwhile. This directory holds TLA+ models of the parts of both that keep state and react to events
in an order nobody controls, TLC runs that check them on small instances, and TLAPS proofs of what
matters most for every size of instance. `PROJECT.json` lists the components, the runs, the source
lines each definition stands for and the hazards; this file explains them.

All paths are relative to the repository; `component/` stands for
`packages/blazex_core/lib/blazex/component/`, `tools/` for `docs/research/70-tools/`, `repro/` for
`integration/reproducibility/`, `toolchain/` for `profiles/browser_phoenix/toolchain/`.

## 1. Inventory

| Part | State it keeps | Operations | Modelled by |
|---|---|---|---|
| Root scheduling (`component/root_schedule.ex`, `scheduling_intents.ex`) | queue, active item, reservation, result slots, receipts, producer sequences | admit, supersede, select, reserve, follow-ups, results, finish | `RootSchedule` |
| Root timers (`component/root_timers.ex`) | registered timers, serial of registrations | preflight, install, cancel, wake, finish a tick | `RootTimers` |
| Root coordinator (`component/root_process.ex`, `root_port.ex`) | status, accepted and pending candidate, attempt, intents of the candidate, the schedule and the timers | boot, drain, deadline, owned tick, acknowledge, enqueue, update, replace, stop, runtime loss | `RootProcess` |
| Root guardian (`component/root_guardian.ex`) | last snapshot and work list it was sent, monitor of the coordinator | forward a call, take a checkpoint, notice an exit, cancel what was left, kill | `RootGuardian` |
| Action ledger and runtime (`component/action_ledger.ex`, `action_runtime.ex`, `action.ex`) | pending requests and their timers, leases and their owners, watermarks | prepare, commit, complete, time out, cancel, transfer, release, prune, close | `ActionRoot` |
| Command plane (`packages/blazex_phoenix/lib/blazex/phoenix/session_registry.ex`, `command_admission.ex`, `command_execution.ex`, with the plugs and the channel of `profiles/browser_phoenix`) | live sessions; receipts and their counts; the counter, retained results, events, subscribers | issue, authorize, rotate, revoke, admit, execute, subscribe, publish, reset | `CommandPlane` |
| Browser runtime scope and root handles (`js/blazex_runtime/src/runtime-registry.js`, `root-lifecycle.js`) | entry and scope of the registry, runtimes by generation, handles with their last acknowledged intent and queue | open, lose, replace, replay, fall back, close; register, mount, update, dispose | `BrowserScope` |
| Runtime startup, bridge, frame (`runtime-startup.js`, `host-bridge.js`, `runtime-frame-port.js`) | stages of one startup, pending requests | start, request, time out, shut down | seen by `BrowserScope` as what succeeds, fails, or is lost |
| DOM transactions and interaction (`dom-root-queue.js`, `atomic-dom.js`, `interaction-stream.js`) | queue, projection and epoch of a root | submit, plan, apply, dispose | planned |
| Local view facade (`component/local_view.ex`) | none of its own; finds guardians by root name under a supervisor | start, call, replace, release | planned |
| Recovery (`component/recovery_*.ex`, `cleanup_outcome.ex`, `release_ticket.ex`) | latest checkpoint, actions and cleanup state; restart budget and fallback | crash, retry, automatic restart, paged cleanup, fallback | planned |
| DOM renderer (`packages/blazex_renderer_dom/lib`) | retained tree, session of numbered transactions | lower, reconcile, replay, preserve focus and selection | planned |
| Component contracts, evaluation, tree composition (`packages/blazex_core/lib/blazex/core/evaluator.ex`, `packages/blazex_ui_tree/lib`) | none | pure validation and evaluation | seen as the evaluator port: any result it may give |
| Recovery coordinator (`js/blazex_runtime/src/recovery-coordinator.js`) | attempts and running operations by correlation, generation | run, replace the generation, stop | planned |
| Loading (`manifest-loader.js`, `artifact-acquisition.js`, `runtime-loader.js`) | one sequence of stages | load, verify, cancel | a startup of `BrowserScope` |
| Effect contracts and tracker (`packages/blazex_effects/lib`) | the provider's own tracker | request, complete, release | the provider of `ActionRoot` |
| Renderer session, headless and LiveView renderers (`packages/blazex_renderer*`) | a session value | render, negotiate | planned with the DOM session |
| Host and runtime identity, test helpers | none | | not modelled |
| Component classification (`tools/validate_component_catalog.py`, `validate_component_classification.py`) | one classification, the walk's visiting and visited families | validate products and totals, walk the prerequisites | `FamilyClassification`, `PrerequisiteWalk` |
| Planning documents and acceptance registry (`tools/generate_*.py`, `validate_*.py` of BH-00, `planning_policy.py`, `check_all.py`) | the documents on disk, each with the digests of those it rests on | edit, generate (two writes), validate, check everything of BH-00 | `AcceptanceRegistry`, `PlanningDocuments` |
| BH-05 phases (`tools/generate_bh05_*.py`, `validate_bh05_*.py`, `record_bh05_phase*.py`) | working tree, execution record, published gates and completion, commits | generate the authority, edit, record gates, publish, merge | `Bh05Phases`, `PhaseGates` |
| Clean rebuild (`repro/run_clean_rebuild.py`) | source tree, caches, commands and logs of a run, its server | build, start and stop the server, replay scenarios, regenerate, tamper and restore, record | `CleanRebuild` |
| Evidence of BH-01 Phases 9 and 10 (`integration/benchmarks/*_phase9.py`, `repro/*_phase10*.py`, `compare_clean_rebuilds.py`, `toolchain/verify_phase9.py`) | raw measurements and the records derived from them | summarise, analyse, evaluate, compare, close, review, version, decide, two gates | `EvidenceChain` |
| Phase records of BH-01 (`tools/validate_bh01_activation.py`, `toolchain/verify_phase2.py` … `verify_phase9.py`) | completion records, authorizations, milestone rows, git history | complete, authorize, edit, commit, amend, run a gate | `PhaseRecords` |
| Validators of single documents (`tools/validate_browser_product_envelope.py`, `validate_archive.py`, `bh0*_history.py`) | none | one pass over files | not modelled |
| Build pipeline, static delivery | none across calls | sequential checks of files | not modelled |
| `blazex_forms`, `_data`, `_charts`, `_surfaces`, `_ui`, `_plug` | none: a README each | | not modelled |

### How the parts interact

* A caller calls the **guardian**, which forwards the call to the **coordinator** and blocks for up
  to 60 s. The coordinator sends checkpoints (work lists, finished receipts, snapshots) to the
  guardian as plain messages, and notifications and outcomes to the host port. The two are linked;
  a coordinator that ends is noticed by the blocked call, by the exit signal, or by both.
* The coordinator calls the **evaluator** and the **renderer** synchronously; a commit, a rejection
  or nothing at all comes back later as a call. A deadline message it sent itself may come first.
* Capacity is checked when a candidate is prepared and used when it commits. In between the queue
  grows through callers and through the coordinator's own timers.
* A committed candidate's **actions** go to effect providers; their results, time-outs and
  cancellations race for the one terminal result of a request, and bring leases.
* An HTTP request of the **command plane** is a process that calls three servers one after the other.
  So is a log-out. Nothing spans the three calls.
* In the browser the **registry** owns scopes and their runtimes, the **root handles** send requests
  through the bridge of the runtime they are bound to. Their functions are asynchronous and interleave
  at every `await`; losses come from a listener of the runtime or as a report of the host, a close
  from the page.
* The **Python programs** share nothing but files. A generator reads its inputs, computes every text,
  and writes them one by one; a validator reads everything again; a digest in one document is what
  ties it to another. People edit, commit and amend between any two reads. A **recorder** runs for
  hours, a **clean rebuild** shares ports and directories with whatever else runs on the host.

### Behaviours that are hard, and what makes each part correct

* *Accounting through many exits.* Work leaves a root by commit, rejection, supersession,
  cancellation, pruning or closing: exactly one outcome each (`ExactlyOneOutcome`), committed only
  when its candidate was accepted (`ShownIsCommitted`), within all budgets (`BudgetsHold`).
* *Check now, use later.* Reservations for follow-ups and for results must hold whatever happens
  in between (`BudgetsHold`, `SlotsFit`, `CeilingsHold`).
* *An unreliable renderer.* Acknowledgements that are lost, late or repeated must not separate the
  accepted tree from the one shown (`ShownIsCommitted`), nor clean a generation twice or never
  (`RetiredOnce`).
* *Timers that fire while they are cancelled.* One wake-up or one tick per timer
  (`OneWakePerTimer`).
* *A crash between any two messages.* No second outcome, none forgotten, a terminal record that stays,
  no caller left waiting (`OutcomesAccounted`, `TerminalIsKept`, `NothingHangs`).
* *Resources with an owner that may vanish.* Each lease is held once or was released once, by a live
  owner (`LeasesAreOwned`); a request ends once and cannot wait without a time-out
  (`RequestsEndOnce`).
* *Duplicate and concurrent commands.* The counter changes once per command, the answer never varies,
  subscribers miss nothing (`CommandsAreIdempotent`, `StreamIsWhole`, `CapacityIsTrue`).
* *Progress.* Admitted work is resolved although acknowledgements may be lost
  (`AdmittedIsResolved`).
* *Asynchronous functions that overtake each other.* A runtime that dies while it starts, while the roots
  are replayed into it, or while the scope closes: it is released once (`ReleasedOnce`), the scope is
  never ready by halves (`ReadyIsWhole`), what roots show is what was acknowledged
  (`RootsAreShown`), nothing reopens a closed scope (`ClosedIsFinal`), and closes, recoveries and
  callers that wait for the startup come to an end (`ScopeSettles`).
* *A local check for a global rule.* The classification compares single edges; what it accepts must
  be right at any distance, and a cycle must be met (`AcceptedIsSound`, `RefusedHasCause`, `WalkEnds`).
* *Documents that go stale.* A pass must be true of the whole chain, and what makes it fail must be
  mendable (`ReleaseIsTrue`, `HistoryIsKept`, `RepairsSuffice`, `GatesMeanFresh`, `OneSweepRepairs`).
* *Evidence taken over hours.* A final verdict means that the gates passed on what it judges, on top
  of accepted phases (`AcceptedWasPassed`, `EarlierAreAccepted`, `CleanRunIsTaken`); a record is of
  one run in a source of its own (`RecordIsWhole`, `TreeIsOwn`), whose server is stopped
  (`ServerIsTold`, `RunEnds`).
* *History.* Later work does not undo an accepted phase, and an accepted phase does not rest on
  commits that are not delivered (`HashesStayAccepted`, `OnThisBranch`).

`PROJECT.json` "hazards" places every one of these at the line where it bites, with the properties
that catch it, and says why where none does.

## 2. The modules and how they correspond to the code

| Module | Stands for | State | One action is |
|---|---|---|---|
| `RootSchedule` | `root_schedule.ex`, `scheduling_intents.ex` | operators over the coordinator's record | (operators) |
| `RootTimers` | `root_timers.ex` | operators over the coordinator's record | (operators) |
| `RootProcess` | `root_process.ex`, with the renderer port as environment | `root` (the GenServer's state), `renderer` (what the port holds and shows) | one `handle_call` or `handle_info`, `settle/1` included |
| `RootContract` | what the owner of a root relies on | version, attempt, open transition, receipts, resolved, closed | any step the promise allows |
| `RootGuardian` | `root_guardian.ex` and the emissions of the coordinator it watches | `worker`, `guardian`, `box` (mailbox), `host` (what the host heard) | one emission of the coordinator, or one message or callback stage of the guardian |
| `ActionRoot` | `action_ledger.ex`, `action_runtime.ex`, `action.ex` in the coordinator | `root` (schedule, pending requests, leases), `provider` | one handler |
| `CommandPlane` | `session_registry.ex`, `command_admission.ex`, `command_execution.ex` and the plugs and channel that call them | the three servers, the call each client makes next, the clock | one `GenServer.call` served |
| `BrowserScope` | `runtime-registry.js`, `root-lifecycle.js` | `entry` (registry entry and scope), `runtimes`, `roots` (handles) | the code between two `await`s |
| `FamilyClassification` | the tables and rules of `validate_component_catalog.py` and `validate_component_classification.py` | operators over a classification | (operators) |
| `PrerequisiteWalk` | `_validate_graph` | the classification, the stack of `visit`, visited families, verdict | enter a family, judge one prerequisite, return |
| `AcceptanceRegistry` | `generate_acceptance_registry.py`, `planning_policy.py`, the rules of `validate_quality_acceptance.py` | operators over the documents | (operators) |
| `PlanningDocuments` | the BH-00 generators and validators, as `check_all.py` runs them, the author | `disk` (the documents by name), `gen` (the generator at work) | an edit, or one write of a generator |
| `Bh05Phases` | what differs between the twelve generators, validators and recorders of BH-05 | tables | (operators) |
| `PhaseGates` | what they have in common | the tree, `log` (execution.json), recorder, publisher, commits | one read of the digests, one gate, one write |
| `CleanRebuild` | `run_clean_rebuild.py` | run per context, source trees, caches, servers, records | one command of a run, one poll of its server |
| `EvidenceChain` | the programs of BH-01 Phases 9 and 10 | `disk`, `job` (the program at work), which gates passed | load, one write, one gate, an edit |
| `PhaseRecords` | the gates of BH-01 Phases 1 to 9 and git | commits, branch, working tree, index, records, authorizations, rows | an edit, commit, amend, completion, authorization |
| `MC…` | small instances: envelopes, plans, documents, symmetry | | |
| `…Proofs` | theorems about the module it is named for; `PhaseProofs` about `PhaseRecords` and `PhaseGates`, `EvidenceProofs` about `CleanRebuild` and `EvidenceChain`, `PlanningProofs` about `PrerequisiteWalk` and `PlanningDocuments` | | |

`RootProcess` extends `RootSchedule` and `RootTimers`, as the coordinator's record embeds the two
structures; `ActionRoot` extends `RootSchedule`, because a result takes a slot of the schedule.
`RootProcess` implements `RootContract` (property `ImplementsContract`, an `INSTANCE ... WITH`):
version is the accepted generation and revision, open is "a candidate is pending", resolved is the
set of receipts that have an outcome. `PrerequisiteWalk` and `AcceptanceRegistry` extend
`FamilyClassification`, and `PlanningDocuments` extends `AcceptanceRegistry`: a command of
`check_all.py` is one of their operators, applied to what is on disk. `PhaseGates` is one state machine
over the tables of `Bh05Phases`, so that each of the twelve phases is checked with its own gates,
inputs and checks.

### Atomicity

* **Handlers of the coordinator** are atomic in `RootProcess` and `ActionRoot`. A GenServer runs one
  callback at a time, and the evaluator, the renderer's `submit` and the providers are called
  synchronously within it; the answer each of them gives (accept, refuse, raise) is an input of the
  action. `settle/1`, which ends almost every handler, is part of the action. `Drain` is the message
  the coordinator sends itself; it is enabled when the code has sent it.
* **A crash** cannot be seen at that grain, so `RootGuardian` has a finer one: a handler decides and
  writes its script, and each checkpoint, outcome and notification of the script is a step of its
  own, in the order of the source. `Crash` cuts the script anywhere. Which handler runs is left open
  there (any legal one may), because `RootProcess` is about that.
* **A timer or deadline** that was cancelled may still be in the mailbox: `OwnedTick(key, epoch,
  tick)` and `Deadline(seq)` may be handled with every identity ever armed, and the code's own
  checks must recognise the stale ones.
* **The renderer** commits or rejects the transaction it holds in its own time, and the
  acknowledgement is a call that may come never, once, twice, or with another correlation.
* **A request of the command plane** holds the name of its next call and what it captured from the
  calls before (the session, the time). Calls of other clients come in between. The clock moves at
  any time, so what was captured may be old.
* **An asynchronous JavaScript function** is cut at each `await`. A promise that is settled and the
  continuation that waits for it form one action, since no browser task runs between the two; a
  startup, a request, a shutdown or a dispose settles in an action of its own. The exception is the
  catch of `openOrFallback` (`FallBack`): it hangs on the promise of `open`, which settles some
  microtasks after that of the startup, and others go on before it, a close that waits for the
  startup always (`runtime-registry.js:118-125`, `229`).
* **A Python program** is cut at each write, and where it waits (a gate, a command, a poll). What it
  reads before its first write it reads at one instant, except that the recorder reads the digests
  twice; validators and gates judge one instant. This leaves out an edit in the middle of one
  validation.

### What is abstracted

Payloads, digests, schema hashes, names and diagnostics are members of small sets, because no
property tells two of them apart; ordinals and receipts are numbers. A tree is the set of its
component identities; what a component computes is any plan of the constant `Plans`. The queue of
the schedule is a set of items with distinct receipts: the source keeps a list sorted by admission,
and every use of the order is a use of the receipt. Every identity keeps its schema digest across
candidates. The command plane has the one command the code executes, the increment of a counter.
Auditing, telemetry and metrics counters are left out.

A digest is the contents it is of, so two are equal exactly when the contents are. A source, a
measurement or a report has a version or one of a few qualities; a generated document is a record of
what it was generated from. In `PlanningDocuments` wording is kept only where a bounded amendment
changes it. In `PhaseRecords` the history is linear, files are changed and never removed, and what a
gate executes (builds, suites, browsers) is whether the contents it is executed on are sound.

History fields are kept only to state properties: `outcomes`, `reported`, `published` and `retired`
of `root`; `host` of `RootGuardian`; `provider` of `ActionRoot`; `stream`, `applied`, `answers` and
`revoked` of `CommandPlane`; `acked` and `releases` of `BrowserScope`; `seen` of the execution record
in `PhaseGates`, `builders` in `CleanRebuild`, `passed` and `sweep` in `EvidenceChain`. No guard reads
them, with two exceptions: `provider` says which lease ids were handed out, as providers never repeat
one, and `acked` says whether the owner of a root was given its handle, without which it can ask
nothing.

## 3. The runs

Every `cfg` begins with a sentence that says what the instance contains. Each property of a passing run has a
mutant in `PROJECT.json`: the same module with one definition changed the way a bug would (a guard
dropped, a release forgotten, an order swapped), which the run refutes.

| Run | Instance | States |
|---|---|---|
| `root_process` | two components, one timer id, receipts up to 3, 4 attempts, 2 generations, total limit 3, with and without policy | 172,198 |
| `root_live` | receipts up to 2, 3 attempts, with fairness | 13,096 |
| `guardian` | two receipts, crashes and time-outs, with fairness | 429,963 |
| `actions` | two components, two lease ids, two request sequences, receipts up to 4 | 262,590 |
| `commands` | two clients (one a channel), two sessions, five requests, one clock tick; up to symmetry | 3,714,036 |
| `browser_scope` | two roots, two trees, one replacement, three operations asked, with fairness | 176,969 |
| `classification` | every classification of three families over four products, with up to four prerequisites, one of them absent | 233,900 |
| `planning` | two of three families, three milestones, two edits, one interrupted generator | 47,304 |
| `phases` | all twelve phases in pairs, two edits, failures or interruptions in each | 7,878,908 |
| `rebuild` | two contexts, two sources, one port, three runs, two faults | 537,605 |
| `evidence` | four edited files, two edits, one program stopped half way, one jump out of order | 101,984 |
| `records` | two paths with two contents, three commits, three edits, nine phases | 1,741,260 |

All of them hold.

### What the runs show

* **`root_process`.** External events, messages, timer starts and cancellations meet candidates
  that emit messages and timers, replacements, stops, losses of the runtime, late ticks, and
  acknowledgements that are lost, repeated or expired. `ExactlyOneOutcome`: no path to the end of a
  piece of work forgets it or reports it twice. `BudgetsHold`: no interleaving overdraws the
  queue, and the capacity checked before submission still exists at the commit, so that the matches in
  `apply_intents` cannot fail. `ShownIsCommitted`: accepted tree and shown tree do not drift apart, and
  "committed" is reported of the work whose candidate was accepted and of no other.
  `OneWakePerTimer`: a timer neither stalls nor bursts. `RetiredOnce`: each generation is cleaned up
  once and never while it is in use. `ImplementsContract`: versions advance by one and only by the end of
  the open transition, outcomes are final, a closed root owes nothing and stays closed.
* **`root_live`.** Work admitted to a scheduled root gets an outcome, although the renderer may
  never answer.
* **`guardian`.** For a crash between any two emissions and a call that may be too late: nobody
  hears two outcomes, receipts given to callers are accounted for, the first terminal record stays,
  the loss is noticed, callers are answered.
* **`actions`.** Requests end once, with room for their result, under an armed time-out; leases
  have live owners and are given back once, through transfer, pruning, replacement and closing.
* **`commands`.** Commands sent twice, by concurrent requests of sessions that expire, rotate, log
  out or are reset between any two calls.
* **`browser_scope`.** A scope that is opened, loses its runtime, replaces it, replays its roots,
  loses it again, is closed while any of this goes on, with roots in every stage of their own queue,
  and with callers of `openOrFallback` that wait for the startup and record a fallback when it fails,
  be the scope closed meanwhile or not. `ClosedIsFinal`: such a caller is all that still changes a closed
  scope, and only one that never ran; no runtime starts in it and it takes no root.
* **`classification`.** The verdict of the walk, step by step, against the transitive rules stated
  without a walk (`Sound`): nothing accepted breaks them, nothing is refused that keeps them, and the
  crash on a deferred family (its package has no entry in `PACKAGE_DEPENDENCIES`) is met only by
  classifications that break them as well.
* **`planning`.** `ReleaseIsTrue`: a pass of every BH-00 command of `check_all.py` means that the published
  index names the registry the sources give *now*, and that registry answers for exactly the locked
  families; no combination of an interrupted generator and later edits passes with an old link.
  `RepairsSuffice`: no two digests keep making each other stale.
* **`phases`.** `AcceptedWasPassed`: a final verdict is of sources that every gate ran on, although only
  the digests before and after are recorded. It assumes that no source returns to what it was (an
  edit makes a version there never was) and, for the same reason, speaks of the phases whose
  authority is never rewritten; divergence 7 is the other ones.
  `EarlierAreAccepted`: where the recorder verifies its replay checkouts, no phase is final on top of
  one that is not, whatever was merged. `CleanRunIsTaken`: the two hand-kept lists of gates agree in
  all twelve phases.
* **`rebuild`.** A record is complete, each log digest that of its own finished log, and nobody else
  built in its source, though runs fail, are interrupted, are repeated with an old source, and meet
  the servers of others.
* **`evidence`.** Both gates together catch every stale record, for each of them alone misses some;
  and taking every program once, in the order of the phases, repairs whatever was there.
* **`records`.** Why the gates both look digests up in the log and test ancestry: the first keeps accepted
  phases accepted, the second refuses what a rewritten history dropped.

### Bounds, and why they are enough

* `MaxReceipt`, `MaxSerial`, `MaxTick`, `MaxAttempt` and `MaxGeneration` stop the counters of a
  root. The first three are guards of the code too (it refuses beyond the largest safe integer); at
  these sizes the refusal itself is explored. The last two only end the exploration: a root whose
  attempts or generations are used up closes its schedule and cancels its candidate before the
  correlation is refused (`root_process.ex:249-258`, `363`, `483-515`), which is not modelled. Three receipts with a total limit of 3 give a full
  queue, one active item with reserved follow-ups, and a caller that is refused. Two generations
  give a replacement, and work addressed to the generation before.
* One timer id and one owner suffice for timers, as `RootTimers` treats keys independently except for the limit
  `MaxTimers`, which one timer reaches.
* In `ActionRoot` two components are needed for a transfer, two leases for a ceiling, two sequences
  for a request that outlives another.
* In `CommandPlane` the limits are small so that each is reached: two sessions fill the registry, two
  executions the retained results, one event the log, one subscriber the list. Five requests allow a
  duplicate, a log-out or reset, and a subscription in one behaviour. One tick of the clock lets
  a session expire. Clients and sessions are interchangeable, hence the symmetry, and no temporal
  property is checked with it.
* In `BrowserScope`, two roots are needed for a replay that fails half-way, and `MaxReplacements = 1`
  is the value in the source. Three operations asked register and mount one root and ask a
  second thing while the first is pending. The same instance with four operations (1.0 million
  states) was also explored without a violation.
* In `PrerequisiteWalk`, three families with four prerequisites give every cycle of length one to
  three, paths of length two on which only the far end breaks a rule, and an absent prerequisite
  behind a sound one. The four products are a pair of tiers, packages that may and may not depend on
  one another, and a deferral.
* In `PlanningDocuments` two edits change two links of the chain, or one link twice; one interrupted
  generator leaves half of its outputs.
* In `PhaseGates` phases are explored in pairs because a phase reads only the commit before it and
  the verdicts before that; every phase occurs, as the first or the second. Two troubles per phase
  are two edits at any two moments, an edit and a failed gate, or an interruption and an edit before
  the retry.
* In `CleanRebuild` three runs on two sources and one port make a run meet both a used source and the
  server of another run; two faults interrupt a run and its repetition, or a run and a server.
* In `EvidenceChain` the four edited files are the measurements that all depends on, the artifacts that
  the reports depend on, the ledger that only later records read, and one generated record.
* In `PhaseRecords` three commits are a base, one that is amended away, and its replacement.

`CHECK_DEADLOCK FALSE` in every cfg: a disposed root, a root whose deadline was its last event, a
closed scope, a bounded set of requests, a walk with its verdict, a merged phase, a finished rebuild all
really stop.

### Fairness

* `RootProcess`: the process handles the message it sent itself (`Drain`), `Boot`, and a deadline that was armed and
  not cancelled, as Erlang delivers timer messages. Nothing is assumed of callers, evaluator or
  renderer; that is why `AdmittedIsResolved` rests on the deadline.
* `RootGuardian`: the coordinator takes the call that waits for it and goes on with its handler
  unless it is killed, the guardian works through its mailbox and what it began. `Crash`, `Call` and `CallTimesOut` have no
  fairness.
* `BrowserScope`: startups, requests and shutdowns settle, because each of them has a time-out in
  the source, and an asynchronous function continues when what it awaits has settled, the catch of
  `openOrFallback` too. Losses, callers and closes have none; nor has the time-out of a shutdown, so `ScopeSettles` does not lean on it.
* `PrerequisiteWalk`: the walk goes on (`WF_vars(Next)`), one process with nothing to wait for.
* `CleanRebuild`: a run goes on, and the 90 s of the readiness loop pass whatever the loop sees
  (`SF_vars(ReadinessEnds)`). Servers may hang, die or answer at any time or never.

## 4. The proofs

The theorems hold for every value of the constants: any components, limits, envelopes, plans; any
files, contents and bindings; any number of roots, runtimes, runs and sources. The assumptions are the
named `ASSUME`s of the modules (limits are natural numbers, envelopes are external items of the item
type, plans propose typed candidates; the files a record binds are files); TLC evaluates them in the
runs. `RootAssumption` says two things more of what the scheduling code lets through: a control of a
timer is never supersedable (`timer?/1`, `root_schedule.ex:291`, and `scheduling_intents.ex:43`), and
the intents of a candidate are messages or controls of timers (`scheduling_intents.ex:24` and `53`).
`DocumentsAssumption` says that the locked counts of packages are of packages that may be built, as in
`EXPECTED_FINAL_COUNTS` (`validate_component_classification.py:64`), and that records with the locked
totals exist for every snapshot of the locked size: without them no author could finish.
`GatesAssumption` says that the last phase is not a first one, and that sources can be good. Where a theorem has a hypothesis besides, it is stated below.

| Module | Theorem | Property |
|---|---|---|
| `RootProcessProofs` | `TypeCorrect`, `OutcomesExact` | `TypeOK` and `ExactlyOneOutcome` of `RootProcess` |
| | `BudgetsAlwaysHold`, `OneWakeAlways` | `BudgetsHold`, `OneWakePerTimer` |
| | `RootAndPortAgree` | the inductive invariant |
| | `RootShowsCommitted`, `RootRetiresOnce` | `ShownIsCommitted`, `RetiredOnce` |
| | `RootImplementsContract` | `ImplementsContract`: every step of `RootProcess` is a step of `RootContract` or a stutter |
| `ActionRootProofs` | `LedgerInOrder` | the inductive invariant |
| | `ResultsAlwaysFit`, `RequestsEnd`, `CeilingsAreKept`, `LeasesAreKept` | `SlotsFit`, `RequestsEndOnce`, `CeilingsHold`, `LeasesAreOwned` |
| `RootGuardianProofs` | `GuardianInvariant` | the inductive invariant |
| | `OutcomesAreAccounted`, `TerminalRecordIsKept` | `OutcomesAccounted`, `TerminalIsKept` of `RootGuardian` |
| `CommandPlaneProofs` | `CapacityIsAlwaysTrue`, `CommandsAlwaysIdempotent`, `StreamIsAlwaysWhole` | `CapacityIsTrue`, `CommandsAreIdempotent`, `StreamIsWhole` |
| `BrowserScopeProofs` | `ScopeInOrder` | the inductive invariant |
| | `RuntimesReleasedOnce`, `ReadyAsAWhole`, `RootsShowWhatWasAcknowledged`, `ClosedForGood` | `ReleasedOnce`, `ReadyIsWhole`, `RootsAreShown`, `ClosedIsFinal` |
| `EvidenceProofs` | `RebuildsInOrder`, `ChainIsKept` | the inductive invariants of `CleanRebuild` and `EvidenceChain` |
| | `RecordsAreWhole`, `SourcesAreOwn`, `ServersAreTold` | `RecordIsWhole`, `TreeIsOwn`, `ServerIsTold` |
| | `SweepsRepair`, `GatesFindStale` | `OneSweepRepairs`, `GatesMeanFresh` |
| `PlanningProofs` | `AcceptedIsAlwaysSound`, `RefusedHasAlwaysCause` | `AcceptedIsSound`, `RefusedHasCause` |
| | `PassIsTrue`, `AmendmentKeepsHistory`, `NothingLeftPasses` | `ReleaseIsTrue`, `HistoryIsKept`, `RepairsSuffice` |
| `PhaseProofs` | `CitesTheDelivery`, `AcceptedHashesStay` | `OnThisBranch`, `HashesStayAccepted` |
| | `RecordsAreTrue` | the inductive invariant of `PhaseGates` |
| | `AcceptedWasRun`, `AcceptedAreBelow`, `CleanRunsAreTaken` | `AcceptedWasPassed`, `EarlierAreAccepted`, `CleanRunIsTaken` |

Each inductive invariant was checked by TLC on the instance of its run before it was proved.

* **`TypeCorrect == Spec => []TypeOK`** (`RootProcessProofs`). One lemma per helper says that it maps a
  typed record to a typed record, and one step per action combines them. It is not only shape:
  receipts stay within the last safe integer (`Headroom`), attempts and generations within theirs,
  timers keep the tick and serial they were armed with.
* **`OutcomesExact == Spec => []ExactlyOneOutcome`** (`RootProcessProofs`). The property is not
  inductive: a step that resolves the active work needs to know that its candidate is pending, and a
  handler passes through states in which an item has left the queue and was not yet reported. The
  inductive invariant is

      IInv == TypeOK /\ Ledger(root, {}) /\ Quiet(root)

  `Ledger(s, owed)` is the property with a set of receipts still *owed* an outcome: handlers take
  items out (`owed` grows), then report them (`DebtsPaid`). `Quiet` says that active work has its
  transaction pending and that without a policy nothing is queued. Most helpers do not touch the
  books at all, which the `...Books` lemmas say once (`Books(t) = Books(s)`); the others (`AppendedLedger`,
  `InternalLedger`, `SettleActiveLedger`, `PruneLedger`, `CloseScheduleLedger`, `AdmittedLedger`,
  `SelectedLedger`) are the places where accounting happens. `InitIInv`, `NextIInv` and
  `IInv => ExactlyOneOutcome` give the theorem.
* **`BudgetsAlwaysHold == Spec => []BudgetsHold`** (`RootProcessProofs`). Capacity is checked when a
  candidate is submitted and used when it commits; in between callers, wake-ups and cancellations change
  the queue, the receipts and the timers. `Promised` says what stays true of the candidate in flight: as
  many messages as are reserved, a receipt for each, and timer intents that still pass their preflight.
  The last is the delicate part. A cancellation removes a timer and voids the starts of it among the
  intents, and the preflight must survive both: `KeysAfterShrinks` shows that after each intent no more
  timers are registered than before, so that keys stay free and a place stays left
  (`PreflightShrinks`). Work that is appended takes the places of the reservation it replaces
  (`WithinAppended`). From `Budgeted` follows that `apply_intents/2` cannot fail, which is what
  `ReservationHolds` says.
* **`OneWakeAlways == Spec => []OneWakePerTimer`** (`RootProcessProofs`). The property does not hold inside a
  handler, and it is not inductive. The tick of a timer that was cancelled stays queued until `settle/1`
  prunes it, a commit may move the tree away from the owners of timers, and nothing in it says that the
  tick which is waited for survives the pruning. `Ticking` is what every step of a handler keeps: a
  firing timer has a live tick with its epoch, its count, and the generation and target of its registration
  (`Marks`), no timer has two ticks, the item that runs is never a stale tick, and no tick or registration
  can be superseded. Most steps take work and timers away, but no tick of a timer that stays (`Less`,
  `LessTicking`); the others are the end of the active item (`FinishedTicking`), the registration of timers,
  follow-ups, wake-ups and admission. `PrunePunctual` then shows that pruning removes exactly the stale
  ticks: a tick that marks a timer of the accepted tree has the generation and ends of that timer, hence is
  deliverable. The invariant between handlers is `Punctual`, with `IInv`.
* **A root and its port** (`RootProcessProofs`). What the port shows says nothing by itself of what the
  root accepted: an answer may be late, lost, repeated, or about a transition long dropped. `TreeInv`
  adds to `IInv` what an answer may rely on. `Awaited`: the pending candidate is the last transition
  tried (its number is the attempt) and follows the accepted version. `Agrees`: so an answer that names
  that number tells what the port did with that candidate, and any other answer is ignored. `Told`: the
  active item carries the correlation of the pending candidate, so that comparing it with the accepted
  one after the candidate is gone tells whether the work committed. `CleanedUp`: exactly the generations
  before the accepted one, and after disposal that one too, were retired. Inside a handler `Told` does
  not hold, as the outcome of the active item is still owed: `Owes` is what holds there, and `settle/1`
  turns it into `Told` (`SettleTold`). Every handler accepts what was pending, tries one more
  transition, or leaves the tree alone (`Moves`), which `Tried` and `Dropped` say of its parts.
* **`RootImplementsContract`** rests on `TreeInv` and on two facts about each handler besides: outcomes
  only grow, with receipts (`Grows`), and a root that ends disposed or failed has nothing left to do
  (`Closed`, `NextGrows`). `InitContract` and `NextContract` then map `Init` and every step through the
  refinement mapping.
* **The action ledger** (`ActionRootProofs`). None of the four properties is inductive. A candidate is
  validated and reserved for when it is prepared and carried out when it commits; time-outs, results,
  admissions and pruning change the ledger in between. The invariant `Sound` therefore says what the
  plan in flight may still rely on. `Room` and `Ceil` hold *with its reservations added in*, so that
  the appends of the commit cannot fail and its requests stay below the ceilings. `PlanFits` says that
  its requests are above the watermark of their owner and that it transfers leases the ledger holds, each
  once. `Flight` says that a candidate is in flight exactly while the root awaits the renderer, and
  that a replacement's has nothing to carry out. `RequestFits` ties what was requested, what was
  answered and what is pending to the watermark, which is why no request is made twice although
  refused candidates and time-outs leave no other trace. Handlers pass through states in which only the
  part `Ledger` holds; `SettledIdle`, `SettledInFlight` and `TailFits` show that `settle/1` restores
  the rest by pruning or closing. `MaxGeneration` is at least 1, as a root starts in generation 1.
* **A guardian and its coordinator** (`RootGuardianProofs`). After a crash the guardian cancels what
  its last list of work says, and the messages in its mailbox may still change that list. The
  invariant therefore speaks of the list it *would* have if it drained the mailbox now (`View`, defined
  by quantifiers over the messages; `DrainedIsListed` shows that `drain_checkpoints/1` computes it, and
  `ListedAppend` and `ListedTail` what a message changes). `Once`: a receipt the host was told of, or
  will be told of before the next list, is not on `View` and no list still to come brings it back.
  `Owed`: a receipt that a caller was given, or that waits in a reply, was told, is due in the
  script of the handler, or is live, and then every list to come has it. `Ends` and `Phases` say who
  may still speak. That each handler keeps this is proved once for all of them: `Handled` says that a
  handler settles some receipts, reports each once after the guardian has forgotten it, and ends
  with the list of what is live (`BootFits` to `RefuseFits`; `ReportAll` needs that ranks enumerate a
  set, `Ranked`); every step of the guardian that reports nothing is one case of `QuietKeeps`. The one
  exception in the properties is in the code: a coordinator that is merely late is reported as crashed
  before it is killed.
* **The command plane** (`CommandPlaneProofs`). No request is served as a whole: between its calls
  the session may be revoked, the servers reset, the same command executed by another client. The
  invariant therefore asks nothing of a request in progress but that its call fits (`CallFits`), and
  speaks of each server alone; a caller that was authorized long ago finds a server that is sound
  whatever it asks. `Counted` ties the counts to the records and gives a key one record; adding,
  forgetting and resetting keep it (`CountedAdd`, `CountedForgets`, `CountedNone`). That a command
  changes the counter once is not a matter of the retained results, which a log-out drops: each command
  applied since the counter was zero expected the number of those before it (`CommandsFit`), so the same
  command cannot be fresh twice. Answers are retained results, and these are one for each key. For the
  streams, `EventsAreLast` says that the kept events are the last ones and in order, whatever the limit
  dropped; then those after a cursor that is not too old follow it without a gap (`LaterIsNext`), and the
  next event goes on from there (`WholeGoesOn`).
* **A scope of the page** (`BrowserScopeProofs`). The theorems have the hypothesis `~Contenders`: nobody
  calls `openOrFallback` for the scope under another identity or on its close. Without it they are
  false, which is divergence 6; the run makes the same assumption. The invariant cuts the
  asynchronous functions at their `await`s: `Shape`, `ClosingFits` and `Holding` say what state, close,
  recovery and held runtime go together; `Accounted` counts the releases of each runtime given, but for
  the one that is held; `HandleFits` and `Hosted` say where each root stands in its own queue and on
  which runtime. `ClosedForGood` follows because in a closed scope no startup, recovery or close can
  still be waiting. A caller of `openOrFallback` can, if the startup failed: `Shape` says that such a
  scope never ran, so it holds no runtime and no root when it becomes a fallback. That a stopped scope
  stays stopped is therefore no theorem, but divergence 8.
* **A clean rebuild** (`EvidenceProofs`). A record is written at the end of a run, so the invariant
  follows the run through its program: `ProgressFits` says which commands are done, `DigestsFit` which
  digest is still owed and that the log of the server takes no more lines once it was told to end,
  `SourcesFit` that a source at work has one builder and one never built in has none. What was written
  stays true because the source of a record is no longer an archive and nobody works in it
  (`RecordsFit`).
* **A chain of records** (`EvidenceProofs`). The twelve programs write seventeen derived files,
  each from files that others may change afterwards, so a file may be stale although its program left it right.
  The files have an order in which each follows from those before it (`Rank`, `InputsAreBefore`), and
  the programs write along it (`OutputsInOrder`). A program builds all its outputs in memory and
  writes them one by one; between the writes the disk is neither old nor new. `ChainInv`
  therefore looks at a program that nobody disturbed through the files as it will leave them (`Target`):
  there its own outputs are right (`Repairs`), and if the sweep has passed it, it writes what is there
  already (`Repeats`), so that the programs before it stay right (`FreshTo`). An edit ends the
  sweep. Of the gates it says that one that counts as passed would pass now (`Passes`); that both together
  then look at everything, what is compared with files built in memory included, is `GatesFindStale`.
* **The walk over prerequisites** (`PlanningProofs`). `Reachable` is an iteration, of which
  three facts are needed: it exists (`IterationExists`), it stays inside every set that has the
  prerequisites of its members (`InsideClosed`), and it has the end of every path of at most as many
  edges as there are families (`AlongPath`); each is shown by the least number of steps that would fail. The
  invariant says of the stack that each frame is of a family of its own which the frame before it needs
  (`StackFits`), of a frame that what it has taken is allowed and visited, or is the next frame
  (`Judged`), and of the visited families that they need visited ones only and can be ranked above those
  they need (`VisitedFits`, `Ranked`). A rank rules out cycles and the tables are transitive
  (`AllowedIsTransitive`), which makes what is accepted sound (`DescentIsSound`); a prerequisite
  that is still on the stack closes a path back to itself, no longer than the stack, which has no more
  frames than there are families (`CycleIsUnsound`). `DocumentAssumption` says that the records are of
  the catalogue's families, which the validator compares before it walks.
* **`PassIsTrue`** and **`AmendmentKeepsHistory`** (`PlanningProofs`) hold of any documents whatever: what a
  pass of all commands means follows from the checks of these commands, digest by digest, from
  the release index back to the sources (`ReleaseStands`, `BoundIsOnDisk`, `BuiltFrom`), and no invariant
  makes up for a check that is missing. For the history, `HistoryRestored` shows that taking the bounded
  amendments out of a registry gives the registry of the historical roadmap, milestone by milestone.
* **`NothingLeftPasses == DocumentsSpec => []RepairsSuffice`** (`PlanningProofs`). That author and
  generators have nothing left to write says only that each document equals what its program would
  write from the others. That the validators accept these needs to know what an author may have written:
  `DocumentsInv` says that every authored document is one of its kind (`IsCatalog`, `IsDocument`, `IsQuality`),
  that the release and entry of the contract are at a stage at which earlier sections left them (`IsContract`),
  and that a generator at work holds texts for its own files (`GeneratorFits`). `RestCatalog` to
  `RestContract` then go along the chain, and `CommittedIsAccepted` is the heart of it: the registry that
  the generator builds from coherent documents is one that the validator, which has rules of its own,
  accepts. The invariant is not vacuous: documents with another snapshot than the first one do come to rest.
* **A phase and its record** (`PhaseProofs`). `execution.json` has the digests before and after the
  gates, and `AcceptedWasPassed` speaks of the sources *at* each gate. `RecordsAreTrue` proves `GatesInv`,
  which has for the log of the recorder and for the published gates of every phase:
  `IsTraced`, every source that a gate ran on lies between the sources at the start of the run and those of
  now; and `RowsFit`, the rows are the executed gates in order, a gate that passed on good sources showed
  what it must (`ShowsFit`), and a replay that passed found its phase accepted or a mended checkout
  (`ReplayFits`). "Between" is an order (`NotAfter`): versions only grow, a version has one content
  (`TreeFits`), and authority only grows where it is exclusive; the index is left out because it may
  return to what it was, and is fixed while the recorder runs. Equal digests before and after then leave one
  possibility for what came in between (`NotAfterEachOther`). Where authority is rewritten in place the
  order fails, which is divergence 7. `CleanRunsAreTaken` also needs that in every phase
  the gates that are run are those that the validator requires, which `TablesFit` shows table by table.
* **`CitesTheDelivery == Spec => []OnThisBranch`** (`PhaseProofs`). A passing gate has tested
  that the recorded revision is an ancestor, so a digest that `git show` finds there is of a commit on
  the branch. It needs that branches consist of commits that were made and that a commit keeps its
  tree, which is `TypeOK` (`TypeCorrect`) and `CommitKeepsTrees`.
* **`AcceptedHashesStay == Spec => HashesStayAccepted`**, an action property. Only a step that shortens
  the branch can take a version out of the log; every other step appends to it, or changes records
  that `HashesHold` of Phases 6 to 9 does not read (lemmas `TreesAreKept`, `RecordsAreKept`,
  `HashesStay`).

### Only model-checked

Every invariant and every action property that a run checks is a theorem. Five properties are not, all of
them liveness under fairness, which needs `ENABLED` and is out of the prover's reach: `AdmittedIsResolved`,
`NothingHangs`, `ScopeSettles`, `WalkEnds` and `RunEnds`. `RepairsSuffice` is about documents that are at
rest, which `AtRest` says by comparing each document with what would be written (`Settled`), not with
`ENABLED`. There is no liveness property of `ActionRoot`; `RequestsAreTimed`, part of `RequestsEndOnce`, is
the safety part of it: a request never waits without an armed time-out.

## 5. Divergences

Disagreements between the code and what the repository says of it, met while modelling. The modules
keep the properties that state what the repository says; no run lists them, because they do not hold.
Each is reproduced by adding the property to the named `.cfg` in place of its properties, with the
constants given here. `plans/` stands for `docs/research/60-planning/01-browser-host/`.

1. **A stopping root may come back.** `root_process.ex:244` dispatches a replacement
   whatever the status; a root that waits for the acknowledgement of its disposal takes the new
   candidate and becomes ready. `plans/bh-05-…/root-lifecycle-contract.md:67` allows from stopping
   only disposed or failed, and line 92 publishes no new candidate "after terminal admission closes".
   `StoppingIsFinal`: `RootProcess.cfg` with `Modes = {TRUE}`, `MaxAttempt = 3`, `MaxReceipt = 2`.
2. **A cancellation leaves earlier starts in the queue.** The `timer_cancel` intent
   of a candidate cancels the armed timer and its ticks (`root_process.ex:823`); a `timer_start`
   queued earlier arms it again. `plans/bh-05-…/scheduling-contract.md:121`: "Explicit cancellation
   also removes earlier queued and candidate-only registrations for that owner/ID".
   `CancelRemovesEarlierStarts`, as 1.
3. **A reported failure is reported again as a crash.** A coordinator that fails
   tells the host and exits; a call that the guardian makes before it handles the exit takes the crash
   path (`root_guardian.ex:66`), overwrites the error and tells the host "crashed".
   `root-lifecycle-contract.md:47-48`: the guardian "preserves redacted terminal metadata".
   `FailureIsNotACrash`: `RootGuardian.cfg` with `MaxReceipt = 1`, `Crashes = FALSE`,
   `Timeouts = FALSE`, specification `Spec`.
4. **A result refused at dispatch keeps its leases.** `run_next/1` (`root_process.ex:611`) reports it
   rejected without `finish_result/3`. `action-contract.md:104-106`: "If its callback transition is
   rejected, newly acquired leases are released rather than leaked." `RejectedResultsRelease`:
   `ActionRoot.cfg` with `LeaseIds = {"l"}`, `MessageLimit = 2`, `MaxReceipt = 3`.
5. **What was authorized before a log-out may be kept after it.** The three
   calls of `invalidate/2` and `revoke_current/1` (`session_plug.ex:167`) span nothing; a subscription or command
   served after them stays. `plans/bh-07-…/server-push-contract.md:48`: "logout/session replacement
   revokes their subscription and private execution records". `LogoutRevokes`: `CommandPlane.cfg`.
6. **A refused caller makes a scope leak its runtime.** `openOrFallback`
   (`runtime-registry.js:118`) records a fallback on whatever entry the scope has when its own open
   throws; closing then takes the fallback path, which does not release.
   `plans/bh-03-…/phase-05-implementation-evidence.md:26-27`: the registry "releases the runtime
   exactly once on every terminal path". `ReleasedOnTerminal`: `BrowserScope.cfg` with
   `Roots = {r1}`, `Trees = {"a"}`, `Contenders = TRUE`, `MaxAsked = 1`, specification `Spec`.
7. **A record is source-frozen only if nothing changes back.** The recorder compares digests before and
   after. Where the authority may be rewritten, it can be changed during the gates and be regenerated
   before they end, which leaves no trace. `record_bh05_phase1.py:1` promises "source-frozen" gates. `SourceFrozen`: `PhaseGates.cfg` with `Firsts = {1}`, `MaxTrouble = 1`.
8. **A stopped scope becomes a fallback.** `openOrFallback` is called, the scope is closed while it
   starts, and the startup fails. The close waits for the promise of the startup itself and goes on
   first (`runtime-registry.js:229`, `243-249`: stopped); then `open` rejects, and the catch
   (`121-124`) records the fallback on the stopped entry, as `#recordFallback` asks only for a state
   that is not fallback (`324`). A later close returns the promise of the first. The comment at
   `231` says "Closing retains a stopped tombstone". `StoppedIsFinal`: `BrowserScope.cfg` with
   `Roots = {r1}`, `Trees = {"a"}`, `MaxAsked = 1`, specification `Spec`.

Observed as well, without a property: the gates of BH-01 Phases 4 and 5 do not read their
authorization files, though the files exist; no gate from Phase 3 on passes while the row of the phase
after it is "in progress"; the hashes of Phases 2, 4 and 5 do not stay accepted when the recorded
revision does not have the digested contents; the row checks of Phase 2 match anywhere in the
milestone; `verify_phase10.py` does not compare the report digests of the clean records with the present
reports (hence `GatesMeanFresh` leaves the clean records themselves out); `compare_clean_rebuilds.py:22`
accepts a record compared with itself; the digest of the restored profile
(`run_clean_rebuild.py:287`) is recorded and compared with nothing.

## 6. Not modelled, and why

* *Left for the plan below:* recovery (restart budget, cleanup, release ticket), the local view
  facade, the queue of DOM transactions, the DOM renderer's session of transactions, the
  recovery coordinator of the browser and the effect tracker.
* *In modelled parts:* the scope intents and the recovery configuration of the coordinator; the
  cumulative metrics of the schedule; the ring of past correlations in the action ledger, which is
  representation; proofs of sessions, auditing and the validation of envelopes in the command
  plane, and a restart of one of its servers alone; the limits of 16 scopes and 64 roots and the
  stages of a startup in the browser; in the Python programs, checks of wording and layout, what a gate
  or a build computes, and an edit in the middle of one validation.
* *In `RootSchedule` and `ActionRoot`:* a `:parent` route is not looked up again (`root_schedule.ex:153-163`;
  the other routes and the role follow from the identities and digests, which are), though an item may
  be refused at dispatch; the owner of a cancellation is compared with its digest, where the code
  compares its identity only (`action_ledger.ex:414-418`).
* *In `RootGuardian`:* a handler that only announces what it did, with nothing to report.
* *In the planning programs:* the validators and generators of BH-01 to BH-07 that `check_all.py`
  also finds by their names (it passes less often with them); the `normative_summary` of a requirement,
  which the historical registry does not restore (`generate_acceptance_registry.py:627-657`).
* *In `CleanRebuild`:* containers that outlive the client of a run that was killed; that the first
  commands leave nothing in the source (a source counts as used from the first one); two runs given
  one source at the same time, which the README beside the program asks people not to do.
* *In `EvidenceChain`:* two pages and eight views are one file each; further digests of the hand-written
  completion record; a measurement edited under the revision it already has.
* *In `PhaseRecords`:* the wording of rows (a row is its state, so the alternatives that Phases 4, 6 and 7
  accept are one), the activation of the repository and the verifiers that gates call. Leaving these
  out lets gates pass more often: what is shown of a pass is shown of more passes.
* *Left out for good:* component contracts, props, slots, evaluation and tree composition are pure
  functions which the root sees as any result of the evaluator; the build pipeline, static delivery,
  and the validators of single documents (product envelope, archive, the pinned history of BH-03 and
  BH-04) are one pass over files with no state; `blazex_forms`, `_data`, `_charts`, `_surfaces`,
  `_ui` and `_plug` hold no code.

## 7. Plan

In the order of importance. Done: 1 `RootSchedule`, `RootTimers`, `RootProcess` and `RootContract`;
2 `RootGuardian`; 3 `ActionRoot`; 4 `CommandPlane`; 5 `BrowserScope`; the programs that accept:
`PrerequisiteWalk`, `PlanningDocuments`, `PhaseGates`, `CleanRebuild`, `EvidenceChain`, `PhaseRecords`;
the theorems above.

6. **`Recovery`**: `recovery_guardian.ex`, `recovery_policy.ex`, `recovery_runtime.ex` (crash,
   automatic and asked retries within a window, fallback, stop) over an abstract coordinator; then
   `recovery_cleanup.ex` (leases released page by page, only the failed suffix forced, with a
   deadline). Properties: the restart budget holds over any window, a lease is released once over
   all coordinators, terminal stays terminal, every crash ends in a restart or a terminal state.
   Abstract specification: a supervisor that either runs one coordinator or is terminal.
7. **`LocalViews`**: `local_view.ex` with concurrent callers, composed with an abstract guardian.
   `release_terminal` and `vacant` check and then act (`local_view.ex:89-111`, `126-143`).
8. **`DomQueue`**: `dom-root-queue.js`, transactions planned asynchronously and applied in order,
   with disposal and replacement in between; an abstract specification of one projection per root.
9. **`ContinuitySession`**: numbering, acknowledgement and replay of DOM transactions.
10. **`Attempts`**: `recovery-coordinator.js`, whose failing attempts do not look whether they are stale.

Theorems: the safety properties of these modules, each with its module. Of what is modelled, nothing is
left to prove within the prover's reach. None of the modules with a theorem reaches a recursive operator.
