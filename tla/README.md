# TLA+ models of the NetMon core

NetMon is one asyncio process beside one database.  It polls a school district's
network, folds the verdicts into `device_state`, turns lasting bad states into
alerts, runs audited remediation workflows against cameras and switch ports, and
rolls firmware out to batches of cameras.  A web interface shows all of it and
edits some.  These modules model the parts that decide something on the basis of
what they remember, and whose mistakes a unit test would hardly show:

| part | code | modules |
|---|---|---|
| the native poller and its hysteresis | `poller/` | `Poller`, `MCPoller`, `PollerProofs` |
| the alert engine and its notifications | `engine/`, `state.py` | `AlertBook` (abstract), `AlertEngine`, `MCAlertEngine`, `AlertEngineProofs` |
| the workflow runner, its history guards and its approvals | `automation/`, `api/automation.py` | `Automation`, `MCAutomation`, `AutomationProofs` |
| camera firmware batches | `cameras/`, `api/camera_ops.py` | `Rollout` (abstract), `CameraBatch`, `MCCameraBatch`, `CameraBatchProofs` |
| the web interface: pages that show | `frontend/src/` | `Views` |
| ...: the workflow editor and its handlers | `frontend/src/pages/automation.jsx`, `api/automation.py` | `WorkflowPage`, `WorkflowPageProofs` |
| ...: bulk camera operations and their handlers | `frontend/src/pages/camera_ops.jsx`, `api/camera_ops.py`, `cameras/ops.py` | `CameraOpsPage`, `CameraOpsPageProofs` |
| ...: the site map and its editor | `frontend/src/pages/map.jsx` | `MapEditor`, `MapEditorProofs` |
| ...: the buttons that act on a device, and the audited handlers | `frontend/src/actions.jsx`, `pages/ap_detail.jsx`, `pages/camera_detail.jsx`, `api/actions.py`, `actions.py` | `DeviceActions` |

`Console` composes the five modules of the web interface, and `ConsoleProofs` proves
about it what holds of its parts (of `DeviceActions` too, which has no proof module of
its own).

(Python paths in this file are relative to the package `src/netmon/`, all others to
`src/`.)

Check a configuration with `tlc -config X.cfg M`, a proof with `tlapm M.tla`.

## 1. Inventory

The concurrency of the program has five sources, and every hazard below comes
from one of them:

* **tasks** of the supervisor, coroutines that interleave at each `await`;
* **worker threads** (`asyncio.to_thread`, and synchronous FastAPI endpoints),
  which interleave between any two database calls and survive the cancellation of
  the task that started them;
* **the database**, where each call of the access layer is a transaction of its
  own (`db.py`), so an operation of two statements can be seen, or cut, in half;
* **restarts**, planned (settings apply) or not: memory is lost, tables stay;
* **the browser**: one thread of callbacks per page, but every request is an
  await, answers come in any order or not at all, and what they find is the page
  as it is by then.

| component | state | operations | what makes it hard | what makes it correct |
|---|---|---|---|---|
| Native poller (`poller/poller.py`, `hysteresis.py`, `probes.py`) | tracker per dimension (settled value, two streaks), `_loaded`; rows of `device_state`, `state_events`, `collector_health` | ping sweep, snmp sweep, seeding, verdict write | registry read before an await and applied after it; two statements per verdict; time-outs; restarts | damping survives all of that; contested addresses are refused; blindness is never health |
| Alert engine (`engine/engine.py`, `rules.py`) | nothing in memory beyond a cycle; `alerts` | one evaluation cycle | runs in a thread while writers go on; time-outs leave threads behind; everything is computed from reads of different moments | one open alert per rule and device, opened only for what lasted, closed only for what ended, and in the end exactly what is due |
| Notifier (`engine/notify.py`) | `notifications` | record, mail | the mail may raise and abort the cycle | one notification per alert |
| Automation runner (`automation/runner.py`) | `workflow_runs`, `action_proposals` | cycle: resume, expire, scan, open, walk, close | walks cut by exceptions, cancellation and restarts; flags and graphs edited while a run is parked | one run per device; shadow runs act on nothing; parked runs move on |
| Guards (`automation/guards.py`) | none; they read the runs | G1 to G10 | G7 and G8 count other runs by their status, which goes on changing | the cooldown and the fleet rate limit hold |
| Graphs, context (`automation/graph.py`, `context.py`) | the workflow's document | parse, evaluate a predicate | edits while a run is parked on a node | a run never continues on a node that is gone |
| Approvals (`api/automation.py`) | the proposals and the runs' status | approve, dismiss, enable, edit | the device is awaited between the check and the record | decided once; run released with its proposal |
| Audited actions (`actions.py`, `api/actions.py`, `frontend/src/actions.jsx`) | `action_audit`; the state and result of each button | reboot, PoE cycle, reevaluate, restart port | the page goes on to another device under an open question or a call; refusals, time-outs and failing writes after the call went out; restarts | what was agreed to is what is done; row and button tell what happened |
| Supervisor (`supervisor.py`, `health.py`, `collectors/base.py`) | tasks, statuses | start, stop, restart, time-out | cancelling a task does not stop its thread | one live instance per task |
| State store (`state.py`, `db.py`) | `device_state`, `state_events` | write_state, write_states, tie-break | two writers of one dimension, unbatched events | event log agrees with the rows |
| Reachability (`reachability.py`) | `reachability` dimension | classify, recompute | two dimensions read at one moment and written later | the tier is that of some moment |
| Camera batches (`cameras/`, `api/camera_ops.py`) | batches, items, the table of running tasks | create, start, run canary and rings, abort | abort from another thread, coroutines behind a semaphore, exceptions that leave coroutines behind, restart, an id read back in another transaction | a staged roll: nobody before the rings ahead of it passed, nobody twice; each run ends; what the rows say is so |
| Firmware images (`cameras/firmware.py`, `platforms.py`, `vendors/`) | files, tables | store, look up, send, read back | - | - |
| Live subscription (`collectors/ess_live.py`, `ws*.py`) | staged deltas | snapshot, delta, flush, reconnect | failed flush put back under newer deltas; second writer | newest value wins |
| Source collectors (`collectors/*`, `poller/snmp_inventory.py`) | tokens, pass counters | collect | I/O and field mapping | - |
| Port memory (`automation/portmemory.py`, `uplink.py`, `macmatch.py`) | remembered ports | sample, look up | ageing | - |
| Settings and restart (`settings.py`, `api/settings.py`, `app.py`, `config.py`, `secretbox.py`) | settings overrides, the running stack | save, apply | a second stack beside the remains of the first | one stack |
| Sessions and sign-on (`auth/`, `api/auth_routes.py`, `api/deps.py`) | sessions | create, look up, purge, destroy | expiry against requests | a destroyed session never answers |
| Migrations (`migrate.py`, `migrations/`) | `schema_migrations` | apply | a crash inside a migration | each applied once |
| History (`history.py`) | samples | sample, retain | - | - |
| Topology, sites, snapshots, seeding (`topology.py`, `siteresolve.py`, `snapshot*.py`, `seed.py`) | derived tables | join, import | - | - |
| Read API (`api/*`) | none | queries | - | - |
| Pages that show (`frontend/src/`) | rows or an error per effect, the selected subject | ask on mount, on a timer, on a change of the subject; show | late and reordered answers, failures between good ones | the selected subject is shown, errors go away, every page catches up |
| Workflow editor (`pages/automation.jsx`) | the graph drawn, its dirty flag; the list and the detail | select, edit, save, switch | four requests of different age share one editor; read-merge-write of the switches | no graph under another's name; nothing goes live unasked |
| Bulk camera page (`pages/camera_ops.jsx`) | the open batch, one busy flag | create, open, start, deploy, abort | chains of requests overlap and outlive the page | what goes live was rehearsed; a batch has its own cameras |
| Site map (`pages/map.jsx`) | the map shown, the mode, the working path in a ref, the drawn lines, the details form | poll, edit, save, drag | effects re-run on any of them; answers late | each link's path, form and line are its own; the map converges |

Interactions.  The supervisor runs the poller, the collectors, the engine and
the automation runner as separate tasks.  The poller and the collectors write
`device_state` and `state_events`; the engine reads both and writes `alerts`;
the runner reads `device_state` and its own runs, calls Milestone, and leaves
proposals; operators decide proposals through request handlers, which write the
same tables as the runner.  A batch is a task too, started and aborted by
handlers.  The pages call the handlers and read the tables through the API.
Apart from the table of running batches no component calls another through
memory: the database is the shared state.

`PROJECT.json` lists each component with its status and reason, and every hazard
with the line where it bites and the properties that cover it.

## 2. The models

In every module one step is at most one statement that changes the database (or
one await); steps that change only local variables are merged with the statement
they prepare when nothing else could see the difference.

### 2.1 Poller

| model | code |
|---|---|
| `registry`, `alive` | the `devices` rows a sweep would select; whether the host of an address answers |
| `tracker`, `loaded` | `HysteresisTracker._state` of each dimension, `Poller._loaded` |
| `pc`, `targets`, `results`, `todo`, `pending` | the sweep's local variables and where it stands |
| `row`, `logged`, `health` | `device_state.value`, `new_value` of the newest event, `collector_health` |
| `seen`, `budget` | history of the observed verdicts; what is left of the bounds |

`Count`, `Flips`, `Target`, `Observe` are `HysteresisTracker.observe`.
`StartSweep` is a sweep up to its await: seed once, read the registry, call the
prober.  `ProbeReturns` is the return of the await with any subset of hosts heard
from: the check that somebody was heard (`Blind`), and the rows to write
(`Writable`: an address asked, heard, and not contested).  `Write` observes and
upserts one row, `LogEvent` inserts the event of a transition in a transaction of
its own, `FinishSweep` records success.  `ProbeFails`, `Timeout`, `WriteRaises`,
`LogRaises` and `Crash` are the ways a sweep ends early, with exactly what each
leaves behind: `Timeout` records nothing, as `CancelledError` is not an
`Exception`; `WriteRaises` has moved the tracker already.  `EditRegistry` and
`HostChanges` are the environment.  `LoopFree` says that past its await a sweep
does not yield the event loop, so only one sweep is in `apply` at a time.

Streaks saturate at `Window`, which no threshold exceeds, so the saturation
cannot be observed.

### 2.2 AlertEngine

| model | code |
|---|---|
| `value`, `unlogged`, `steady`, `dated` | `device_state.value`; keys whose event is not inserted yet; pairs whose value really has lasted the rule's `min_duration_s`; pairs of which the event log says so |
| `enabled`, `ruleOn`, `maint` | enabled devices and rules, maintenance windows |
| `alert`, `noted` | newest alert of each (rule, device), its notifications |
| `cycle`, `awaited` | the locals of `_run_cycle` per worker thread; the thread the supervisor awaits |
| `doubted`, `budget` | history: open alerts that were not due at some moment since they opened |

Durations are reduced to what the gate distinguishes: `Age` makes a pair old
enough, a new event makes it young again, and a cycle compares with the clock it
read at its start (`ripe`).  The steps of a cycle are its database calls in
their order: flags (`StartCycle`), rules (`LoadRules`), per rule the matching
rows (`BeginRule`), per device the gate (`HeldSince`; `NotHeld`, `Held`), the
insert (`OpenAlert`, or `OpenAlertRefused` by the `open_key` index), the
notification (`Notify`, `NotifyRaises` when the mail is refused, `NotifyRefused`
when the alert was closed meanwhile), the closes (`BeginClose`, `CloseAlert`,
`EndRule`), and last the orphans (`BeginOrphans`).  `Timeout` frees the
supervisor and leaves the thread running, which is how two cycles overlap.
`DeviceDown` is the tie-break of `state.py`.

Writers are the environment here: `WriteState` stores a value with its event (the
`Batched` keys: `write_states`, which stores the status of cameras) or before it
(`WriteEvent` follows: `write_state` and the poller).  Operators and
maintenance windows are `Operator`.

`AlertBook` is the abstract specification: of each rule and device the newest
alert, how often it was told of, and which open alerts have had their reason gone.
Its moves are `Open` (none is open), `Tell` (an open alert nobody was told of) and
`Close` (one that was told of and whose reason has been gone at some moment), and
the reasons go whenever they like (`World`).  `AlertEngine` instantiates it with
`alert` and `noted` as they are and `doubted` for `resolved`
(`Book == INSTANCE AlertBook WITH resolved <- doubted`, `IsAlertBook == Book!Spec`):
`OpenAlert` is an `Open`, `Notify` and `NotifyRaises` a `Tell`, `CloseAlert` a
`Close` or, when the alert has been closed by another, nothing, and every other step
leaves the two tables alone.

### 2.3 Automation

| model | code |
|---|---|
| `enabled`, `shadow`, `graph` | the row of one workflow |
| `runs` | `workflow_runs`: status, device, shadow flag, cursor, whether the wait has elapsed, age class |
| `proposal`, `overdue` | `action_proposals` of each run, and whether `expires_at` has passed |
| `sent` | runs that have sent a call to Milestone |
| `runner` | the locals of a cycle and of the walk inside it |
| `op` | the approve and dismiss handlers in flight |

A cycle is `BeginCycle` (read the due runs), `Resume` or `Abandon` of each,
`ExpireProposals`, `LoadWorkflow`, then `SkipDevice` or `OpenRun` for every
device that matches, and `EndCycle`.  A walk visits one node per step:
`VisitStop`, `VisitAlert`, `VisitBranch`, `VisitWait`, and for an action node the
guards (`Refuse`, `Allowed`), then `ShadowAction`, `Propose`, or `AskTasks`,
`SendUpdate`, `UpdateAnswered` with their awaits between.  `CloseRun` stores the
outcome.  `WalkRaises`, `CycleRaises`, `Timeout` and `Crash` end a walk or a
cycle early and leave the run as it is in the table.  An approval is `Decide`
(read it pending), `Dispatched` / `DispatchRefused` / `DispatchFails` (the awaited
call), `RecordDecision`, `ReleaseRun`: four statements, between which the runner
and other handlers run.

Of the guards, the two that read the history of runs are modelled by their
queries (`CoolingDown` is G7, `AtRateLimit` is G8, over the clock the walk read
when it began).  The others read the present only and are the nondeterministic
`Refuse`; a predicate may take either arm.  Graphs are constants in parsed form;
`CameraWorkflow` in `MCAutomation` is the workflow the program seeds.

### 2.4 CameraBatch and Rollout

| model | code |
|---|---|
| `Cameras`, `RingOf` | the items in their order; canaries are ring 0, then rings of `ring_size` |
| `dry`, `status`, `item` | `camera_batches`, `camera_batch_items` |
| `task`, `co` | `BatchRunner` and the locals of `run`; where each item's coroutine stands |
| `handler` | the abort request on its worker thread, between its statements |
| `uploads`, `result` | what the cameras were sent, what each coroutine returned |
| `stranded`, `budget` | history: `running` was written over an abort, or the write that was to replace it failed; the bounds |

A run is `StartBatch`, `TaskGuards` (or `TaskRefused`), `MarkRunning`,
`ReadRings`, then for each ring `BeginRing` (a coroutine per item, all of them
queued at once), and `EndRing` when `gather` returns, `EndRings`, `MarkDone`.  An
item waits for a permit (`HasPermit`), then is `StartItem`, `Upload`,
`VerifyItem`, or one of the early ends `Rehearse`, `NoProfile`, `RefuseItem`.
`ItemRaises` ends one coroutine; with `TaskFails` the first exception reaches the
except clause while the ring's other coroutines go on.  A halt, of a ring that stopped
or of that clause, sets the flag (`Halt`) and then writes the batch (`HaltRow`) and the
items that wait (`HaltItems`); the clause writes the items at work besides (`FailRest`).
Each is a transaction, between which an abort may come, and each may raise
(`RunRaises`), as may the read of the row, the guards, the write of `running`, the read
of the rings and the write of `done`: inside the `try` (`InTry`) the except clause
begins, everywhere else the task is over with its rows as they are.  `RequestAbort`,
`AbortRow`, `AbortItems` are the three moments of an abort, which the task and its
coroutines run between; `AbortFails` is a write of it that raises.  The database calls
of the task block the event loop, so the coroutines run only while the task waits, has
not begun or is over (`LoopFree`).  `Crash` loses task, coroutines and handler; the
rows stay, and nothing adopts them.

`Rollout` is the abstract specification: the cameras, how often each was sent the
image and what became of it, and nothing of tasks, permits, rows or aborts.
`CameraBatch` implements it under the mapping that forgets the rest
(`Roll == INSTANCE Rollout`, `IsStagedRoll == Roll!Spec`).

### 2.5 Views

Some forty components of the web interface are the same few effects: ask when
mounted, when the subject changes, on a timer; store rows or an error.  They
differ in eight choices, which are the fields of a `View` record: asks for a
subject (`keyed`), waits for a pause in typing (`wait`), discards late answers in
its clean-up (`drops`), empties itself for a new subject (`clears`), has a timer
(`polls`), what a failure does (`onError`), whether a good answer takes the error
away (`heals`), and whether it has actions of its own (`acts`).  Each record is
read off its component, which `map` names.  The actions are common: `Mount`,
`Unmount`, `Select`, `SelectFirst` (the switches page picks one itself), `Typed`,
`Poll`, `Answer`, `Fail`, `Act`, `ActFails`, and `Change`, which is the rest of the
program.  A row is what it is about and the revision it was read at.

### 2.6 WorkflowPage

`wf` is the `workflows` table; `page` and `editor` are the component state;
`flight` are answers on their way, `puts` and `posts` the saves and switches in
the hands of the API.  A save is `Save`, `ReadVersion`, `StoreGraph`: the handler
reads the version and writes the row in two transactions, whatever came between.  A
switch is `ToggleEnabled`, `GoLive` or `BackToShadow`, `ReadSwitches`,
`StoreSwitches`: the switch that is not in the request is written back as it was
read.  `DetailArrives` and `ListArrives` contain the effect by which the editor
takes a graph over.  `SwitchTab` and `ClosePage` take the editor away with its
edits; what it sent goes on.

### 2.7 CameraOpsPage

`page` is the open batch, the busy flag and the error; each click starts a chain of
requests in `chains`, which carries where it is, and whether the page it began on
is still there (`mine`).  `InsertBatch`, `ReadMaxId`, `InsertItems` are the three
transactions of `create_batch`; `PostStart`, `PostAbort`, `GetDetail` the other
handlers.  `ChainRefused` and `ChainBreaks` are how a chain ends early; what it has
done stays.  Of the batch itself only `BatchRuns` and `BatchEnds` are left, the rest
is `CameraBatch`.

### 2.8 MapEditor

`srv` is the registry, `data` what the page has of it, `mode` the edit mode with
the open link, `work` the ref with the working path (and `workPathLinkId`),
`drawn` the lines on the canvas, `form` and `prime` the details form and the
request that fills it, `polls`, `refetches`, `writes` the requests under way.
Effects run after the state change that triggers them, so they are operators that
the actions use: `WorkAfter` takes or drops the working path, `Redraw` draws the
lines from the data but not the edited one, `DrawWork` draws the edited one from the
ref, `ChangeMode` also primes or clears the form.  `EnterEdit` tears the poll down
with what it waits for; `refetch` has no such guard, and neither has
`RefetchArrives`.

A fetch of the map is one request for the sites and one for the links, answered at
different moments in either order: `PollRead` (`RefetchRead`) is the first of the two,
`PollReadRest` (`RefetchReadRest`) the second, and `Torn` puts the sites of one moment
together with the links of the other.  `sited` are the links both of whose ends are
enabled sites; so an answer may list a link without its ends.  Such a link has a panel
(`PanelOf`) and a place in the list, but neither a line nor handles (`Shown`,
`Handles`), and no working path of its own: `WorkAfter` leaves the ref as it is.  The
first answer is such a one for the links of `Bare`.  The third request, for the event
feed, is left out, and so is an answer without any site at all, for which the layer
effect returns before it draws: some site is always on the map.

### 2.9 DeviceActions

| model | code |
|---|---|
| `caps` | `_capsCache`, `_capsPromise`: unknown, the actions on or off, or a failure remembered as the answer |
| `page`, `loads` | the camera or access-point page: the id in the URL, `cam` or `device`, what names the endpoint and its port (`pf`, `switch_port`; `wireless`), `error`; its requests |
| `button` | `state` and `result` of each `ActionButton` |
| `calls` | a click's POST: what was asked under which heading, its body, the handler, the connection, the audit row, whether it was sent and carried out, the reply |

`Drawn` says when the page renders a button; React keeps a button's state for as long
as it is rendered in the same place and drops it otherwise (`Redrawn`), which every
action that changes the page applies.  `Select` empties the page of a camera
(`setCam(null)`) and not that of an access point.  `Press`, `Confirm`, `Cancel` are the
clicks; `Run` posts the body of the moment.  The handler is `NotAuthorised`, or
`Enter` (the row is inserted) and then `Refuse`, `LookupFails` or `Send`, and after the
await `Accepted`, `NotFound`, `Unanswered` or `Unreadable`; `WriteFails` is a failing
insert or update of the row, `Drop` a broken connection, `Crash` a restart.  `Told` is
the promise that finds its button, if that is still there, and `Reading` what it makes
of the answer.  Of a body only the device it names is kept, and the uplink of a device
is a port of its own.

### 2.10 Console

The router shows one page at a time, and pages share no state (each keeps its own in
its component).  So the five modules are the parts of one run, `part` says which of
them a behaviour is about, and the others stay at their initial state: the state
space is the sum of theirs and not the product.  What two *users* do to the same
table is in the modules themselves, where a page can be left while its requests go
on and, in `CameraOpsPage` and `WorkflowPage`, be opened again beside them;
`MapEditor` has `OtherAdmin`.

## 3. What the runs check

| run | instance | properties |
|---|---|---|
| `poller_damping` | 1 device, 1 address, thresholds 3 and 2 (the defaults), 1 edit, 1 time-out, 2 crashes | `TypeOK`, `SettlesExactly`, `RowIsSettled`, `RowDamped`, `Converges` |
| `poller_contested` | 3 devices (2 of one camera), 2 addresses, both sweeps, snmp unconfigured, 1 failing call | `BlindNotHealthy`, `ContestedRefused` |
| `engine_cycle` | 1 thread, a rule on a batched status and one on the poller's ping, one device, 3 value changes, 1 operator action, 1 refused mail | `TypeOK`, `NotifiedOnce`, `OpensOnlyHeld`, `IsAlertBook` |
| `engine_live` | 2 threads, 1 rule, unbatched writers, and one each of time-out, crash, operator action, refused mail | `AlertsFollowState` |
| `automation_runs` | seeded camera workflow or a single-action one, 1 device, 2 runs, 2 edits, 1 fault, 1 operator | `TypeOK`, `OneRunPerDevice`, `ShadowIsSilent`, `ReleasedByDecision`, `ParkedRunsMoveOn` |
| `automation_guards` | a workflow that acts, waits and alerts, or one that proposes; 2 devices (symmetric), 3 runs, limit 1, 1 edit, 1 fault, 1 operator | `CooldownHolds`, `RateLimitHolds` |
| `automation_forgotten` | single-action workflow, 1 run | `NoRunForgotten`, violated |
| `automation_decided_twice` | single-action workflow, 2 operators | `DecidedOnce`, violated |
| `camera_batch` | 6 cameras: 2 canaries, a ring of 3 behind 2 permits, a last one; share 50; 1 abort, 2 exceptions, 1 restart | `TypeOK`, `RunningHasTask`, `DoneIsComplete`, `IsStagedRoll`, `EveryRunEnds` |
| `camera_abort` | 3 cameras, 1 permit, 1 abort | `AbortStopsItems`, violated |
| `console` | views of 2 subjects, 2 workflows, 2 images and 2 batches, 2 links (one of them first listed without an end), 2 devices with 2 buttons (each with its own bounds) | `TypesOK`, `ShowsSelected`, `HealsAfterFailure`, `CatchesUp`, `SavesOwnGraph`, `NeverLiveUnasked`, `LiveIsRehearsed`, `PathsStayHome`, `FormIsOwnOnceLoaded`, `EditedLineIsDrawn`, `PathEditsSurvive`, `MapConverges`, `ActsOnOwn`, `AuditTellsTruth`, `ButtonTellsTruth`, `WorkingEnds` |
| `actions_ap` | 2 access points, reboot and PoE cycle, 1 selection | `PoeTargetsOwnPort`, violated |

**Poller.**  `SettlesExactly`: a full run of equal verdicts leaves the tracker on its
side, and a settled up or down is left for the other only by such a run.  `RowDamped`: a row flips between up and down only
with a full threshold of agreeing verdicts observed by this process.
`RowIsSettled`: once loaded, memory and table agree, so a restart resumes.
`Converges`: a device whose uncontested host stays as it is comes to be recorded
so, for good.  `ContestedRefused`: no verdict of an address that two physical
devices claimed at the sweep's read is ever written.  `BlindNotHealthy`: success
is recorded only by a sweep that asked nobody or heard somebody.

**Engine.**  `NotifiedOnce`: each open alert past its cycle's notify step has
exactly one notification.  `OpensOnlyHeld`: where the writer stores value and event
together, an alert is opened only on a value that has really lasted.  `IsAlertBook`:
the cycle implements `AlertBook`, so no alert is opened beside an open one, none is
told of twice, and one that closes was told of and was at some moment since its
opening not due (`ClosesOnlyResolved` is that last clause by itself).
`AlertsFollowState`: once the world is still, the open alerts become, and stay,
exactly the due ones.

**Automation.**  `OneRunPerDevice` (W9): one run or pending proposal per device.
`ShadowIsSilent`: a run opened in shadow sends nothing and proposes nothing.
`ReleasedByDecision`: a run leaves `awaiting_approval` only with its proposal
decided.  `ParkedRunsMoveOn`: every parked run is resumed or abandoned.
`CooldownHolds` (G7): as the spec states it, of what runs did and not of what their
status says; checked, and proved, where no action follows another.  `RateLimitHolds`
(G8): when a run acts, fewer than the limit of others have, counted when the call goes
out and not when G8 was asked; in between the task list is awaited, waits elapse and
operators decide.  It counts the actions that G8's query can see.  Those it cannot
(`Unseen`) are real and exempted: of a run that was cut short and still says `running`,
and of one that parked, or was refused at a later node, after its call was sent.  The
run has all but the last of these.

**Camera batches.**  `IsStagedRoll`: the batch implements `Rollout`, so nobody is
sent the image twice, nobody in a rehearsal, and nobody before the rings ahead of
it concluded and passed.  That the canaries are a gate is its special case for
ring 0 (`CanaryGate`, which is proved).  `RunningHasTask`: rows that say `running` have
a task or an abort at work behind them, also when a halt fails half-way inside the
`try` or a coroutine raises while another does.  What it exempts is real: a restart,
after which nothing adopts the batch; an abort that came between the task's guard and
its first write, which `running` overwrites; and a failure of the one statement after
which nothing replaces `running` any more (`stranded`; the four are listed below).
`DoneIsComplete`: `done` is not said with items still pending or running.
`EveryRunEnds`: the permits are handed on however an item ends, and a run ends.

**What the pages show.**  `ShowsSelected`: the panels of one device, port or camera
never show another one's rows under its name.  It is claimed of the five views that
discard late answers and empty themselves (switch data, port, camera, its alerts, its
snapshot).  It does not hold of the tabs of a switch that use `tabFetch`
(`switches.jsx:673`): their late answers are stored, and another switch's rows stay
until the tab is left.  `HealsAfterFailure`: an error of one failed request does not
outlast the next good answer.  It leaves out the pages whose error nothing clears: the
AP detail, the camera detail, Global, Settings, Registry and the list of runs, which
show the error until they are left.  `CatchesUp`: views with a timer come to show the
selected subject as it is, though Events does not discard the answers for an earlier
filter; and those without a timer that discard late answers end on the rows of the
last selection, empty, or behind an error.

**Workflow editor.**  `SavesOwnGraph`: no workflow is stored with a graph drawn for
another.  `NeverLiveUnasked`: a workflow is out of shadow only if somebody pressed Go
live for it.  Not claimed, because not so: an Enable beside a Back to shadow may undo
the latter (the handler writes both columns, `api/automation.py:228`); edits made
while a save or a reload of the list is under way are replaced by the stored graph.

**Bulk camera page.**  `LiveIsRehearsed`: a batch that may write to cameras is of an
image whose dry run came back done.  That it goes live only once is not so: the links
of the list clear the one busy flag, and a second deployment can begin beside the
first.

**Site map.**  `PathsStayHome`: the path stored for a link was drawn for it, unless it
was saved from the panel of a link that had no line (`stray`, see the limits below).
`PathEditsSurvive`, `EditedLineIsDrawn`: whatever arrives, the link or its ends missing
from it or not, the open link keeps its dragged waypoints, and is drawn with them when
it is drawn.  `FormIsOwnOnceLoaded`: once the answer is
in, the form is that of the open link.  `MapConverges`: after
editing, the map comes to show the registry.  Not claimed: Cancel does not empty the
ref, so a cancelled path comes back when the same link is opened next; until its
own answer comes, the form of a link opened straight from another has that link's
fields, and saving writes them; a detach answered late blanks the ports of the form
that is there by then; a refetch read before a save and answered after it shows the
old position until the next fetch.

**Buttons that act.**  `ActsOnOwn`: what is agreed to on a camera's page is done to the
camera it was asked about, which is the one in the heading, and a button there never
speaks of a call made for another camera.  It holds because
`setCam(null)` takes the buttons, and with them their questions, away.  Neither is
claimed of the page of an access point, where a confirm opened for one survives into
the next.  `AuditTellsTruth`: whatever was sent has a row, `refused` means that nothing
was, `ok` that the source acted, and `pending` is left only by a restart or a failing
write.  `ButtonTellsTruth`: a button's yes and no agree with the row, and it says no
without a doubt only of what was not carried out.  Exempted, because real:
PacketFence's 404, which its client takes for an empty answer and the handler for a
success (`pf_client.py:66`); and a 500 after the call went out (the write of the
outcome failing, a reply that is not JSON), which is shown as a plain failure.
`WorkingEnds`: no button says "Working" for ever.  Not claimed: one failed request for
the capabilities hides every button until the page is loaded anew (`actions.jsx:23`).

### Bounds

Every bound is a constant with `Max` in its name, and `budget` holds what is left
of it.  They suffice for the following reasons.

* The poller treats devices independently except for contested addresses, which
  need two devices on one address, a third elsewhere, and two physical devices
  among them; the default thresholds are used as they are, and `seen` is as long
  as the larger one.  Two crashes allow a crash during the recovery from one.
  There are `MaxTimeouts` and `MaxEdits` of one because a sweep carries no state
  across its end except the tracker.
* The engine treats pairs of rule and device independently except through the
  loop over rules, for which two rules are needed, and through one exception that
  ends the cycle for all.  Two threads are the least that overlap; the third
  change of a value allows a pair to match, recover and match again under one
  cycle.
* The runner's runs meet only through `HasLiveRun`, G7 and G8.  Two runs on one
  device, or two on two devices with a limit of one, are the least for which
  each can refuse and allow; the third run of `automation_guards` lets one expire
  from the window while another is inside it.  One fault cuts one walk short at any of
  its steps.

* Six cameras are the least with two canaries (one exception leaves a coroutine
  behind), a ring with more items than permits in which 50 percent tolerates one
  failure of three and not two, and a ring behind that one.  One abort overlaps with
  the start, a halt or an exception; of two exceptions the second meets the handling
  of the first, or an abort under way.
* Views meet only through the subject and the error of their component: two
  subjects, and two answers of one view under way, are what it takes for one to
  overtake another; one failure and one change of the data have both a before and an
  after.
* Two workflows, two links and two images are the least that can be mixed up.  Two
  batches are the least for which `MAX(id)` is another's.  Three clicks in the
  workflow editor allow an edit, a selection and an edit, or a switch beside a switch;
  `mapBudget` allows a dragged waypoint or a field, and a save; one of the two links is
  listed without an end at first, so a path can be saved from its panel without another
  change of the registry.
* Calls meet only in the button, and a button has one call at a time: one click in
  `console`, two devices and two selections are what it takes for an answer to find
  another device's button, and two buttons are one with and one without a question.  One
  fault is a broken connection, a failing write, a failing answer or a restart; the
  buttons left out (`ap_reboot`, `poe_cycle`) differ in the look-ups before the call.
  `actions_ap` has those two.

The engine is split: safety over two rules in one thread, liveness over two
threads and one rule, since both at once exceed what can be checked in minutes.

### Fairness

* Poller: strong fairness of starting a sweep and of the sweep hearing from every
  host.  `_run_loop` runs a task again for ever, whatever happened to the previous
  run, and a prober is not assumed to hear every host in any particular sweep, only
  again and again.  The applying steps are weakly fair: nothing but a crash or
  an exception stops them.  `Converges` is not claimed for a device on a contested
  address.
* Engine: the supervisor starts cycles again (weak fairness of `StartCycle`), a
  running thread runs on, a writer that stored a value reaches the insert of its
  event (its loss is the first of the limits below), and time passes.
* Runner: the cycle goes on (awaits return or time out) and waits elapse.
  Operators are not assumed to act.
* Batch: the event loop runs the task and the coroutines on, and every request to a
  camera has a time-out.  An abort is not assumed to go on.
* Actions: a handler goes on (every client has a time-out), and the browser hands an
  answer or the end of a connection to the promise that waits for it.
* Pages: the browser's timers fire, a request is answered or fails, the pause in
  typing ends, and the effect that selects the first switch runs.  Of the map, a poll
  is again and again read and shown (strong fairness: a poll may fail any number of
  times, but not for ever, and edit mode may drop it).

No fairness is put on faults, operators or the network.

### What the code does otherwise

Four runs end in a counterexample, each against a sentence of the repository that
`PROJECT.json` quotes.

1. `automation_forgotten`: expiry of a proposal leaves its run
   `awaiting_approval`, which blocks the device.
2. `automation_decided_twice`: while an approval awaits the device, the proposal
   is still pending and can be decided again.
3. `camera_abort`: every item of a ring is queued at once; one that the abort has
   marked skipped still gets its permit, goes back to `running` and is sent the
   image.
4. `actions_ap`: the page of an access point keeps the wireless answer of the one
   before until its own comes, and for good if that fails; meanwhile Cycle PoE acts on
   the old one's port under the new one's name.

More limits are known from configurations that are not kept as runs:

* `LogMatchesRow` of `Poller` fails with one crash: a restart between the upsert and
  the event insert loses the transition, as the restarted tracker is seeded with the
  new value (`poller.py:193-222`);
* `RowDamped` fails with `MaxDbErrors = 1` and a failing upsert: the tracker has
  already moved, and the row flips later without an event, on a single verdict
  (`poller.py:194`);
* `NotifiedOnce` fails with `MaxCrashes = 1`: a restart between an alert's insert and
  its notification leaves an open alert nobody is told of (`engine.py:167`), and a later
  cycle closes it untold, so `IsAlertBook` fails as well;
* `CooldownHolds` fails with a graph that acts, waits and then proposes: a run that
  acted and is refused at a later node ends as `refused`, which G7 skips
  (`guards.py:198`).  The seeded camera workflow is such a graph; what holds of it is
  `ProposalsCool`, which is proved of every graph;
* without its exemption `RateLimitHolds` fails: a walk that raises after its call or
  its proposal, or is lost to a restart, leaves its run `running`, and a run that parks
  or is refused after its call is `waiting` or `refused`; G8 counts `done` and
  `awaiting_approval` alone (`guards.py:216-222`);
* without `stranded` in it `RunningHasTask` fails, in five steps: start, guards,
  `running` (`cameras/runner.py:186`), and the read of the rings raises
  (`cameras/runner.py:188`), which lies outside the `try`.  The same comes of the write
  of `done` (209), of the batch's row in the except clause (198, by way of 259; the
  item writes after it leave items behind and not the batch), and of the row write of an
  abort that has told the runner to stop: the task then ends without writing anything;
* without `stray` in it `PathsStayHome` fails: with a path of one link in the ref,
  Cancel, and a link opened from the list that the last answer gave without one of its
  sites, the condition of `map.jsx:604` keeps the ref as it is, the panel is there with
  its Save path (`map.jsx:728`), and `saveLinkPath` (`map.jsx:469-474`) stores the
  first link's waypoints under the second;
* of the keys that are not batched, `OpensOnlyHeld` does not hold: between a value and
  its event the gate dates the new value by the old event (`state.py:194-209`), so an
  alert can open at once;
* `ClosesOnlyResolved` fails with two threads and one time-out: the abandoned cycle
  goes on with what it read, and closes the alert its successor has just opened
  (`engine.py:136`).  It also fails for a rule that asks for both up and down of a
  status stored row by row: the flags a cycle read at its start do not confirm a down
  it reads later;
* with two threads the second `INSERT` of an alert is stopped by the index
  `open_key` alone (`OpenAlertRefused`), at the price of the rest of that cycle;
* `NamesItsCameras` of `CameraOpsPage` fails with two cameras and two clicks: of two
  batches created at the same moment both can read the newer `MAX(id)`, one gets the
  cameras of both and the other none (`cameras/ops.py:301`).

## 4. What is proved

`PollerProofs` proves, for every registry, every pair of thresholds, every set of
devices, addresses and dimensions, and every value of the bounds:

| theorem | statement |
|---|---|
| `TypeCorrect` | `Spec => []TypeOK` |
| `ThresholdsSettle` | `Spec => SettlesExactly` |
| `RestartResumes` | `Spec => []RowIsSettled`, provided no database call raises (`MaxDbErrors = 0`) |
| `RowIsDamped` | `Spec => RowDamped`, under the same proviso |
| `ContestedNeverWritten` | `Spec => ContestedRefused` |
| `BlindNeverHealthy` | `Spec => BlindNotHealthy` |

They rest on the assumptions `ThresholdAssumption`, `BoundAssumption` and
`RegistryAssumption` of `Poller`.  The proviso is needed: `RowDamped` fails with one
failing upsert, as told above.

None of these invariants is inductive.  `IInv` strengthens `TypeOK` by

* `Streaks`: each streak counter counts exactly the newest equal verdicts of the
  history, which is what relates a counter to a claim about the past;
* `SettledByStreaks`: a streak at its threshold has settled its entry;
* `Unprimed`: before the first sweep of a process the tracker is empty and no
  sweep is running, so that seeding cannot overwrite counted verdicts;
* `Visits`: a row still to visit has an address and a verdict.

`ObserveStreaks` and `ObserveSettles` are the lemmas about the tracker; one lemma
per kind of step (`EndSweepInv`, `ObserveRowInv`, `LoadInv`, ...) carries `IInv`
through `Next`, and `Invariance` concludes.  `RestartResumes` adds `RowIsSettled`
to it.  `RowIsDamped` needs it because a flip of the row is a flip of
the entry only when row and entry agreed before.  The last two theorems need
`AppliedInv`, which keeps what `ProbeReturns` checked true for as long as the sweep
applies its verdicts, whatever the registry becomes meanwhile.

`AutomationProofs` proves, for every set of devices, of graphs and of operators'
requests, and for every number of runs, edits and faults:

| theorem | statement |
|---|---|
| `TypeCorrect` | `Spec => []TypeOK` |
| `OneRunOpen` | `Spec => []OneRunPerDevice` |
| `ShadowSilent` | `Spec => []ShadowIsSilent` |
| `ReleaseByDecision` | `Spec => ReleasedByDecision` |
| `CooldownIsKept` | `Spec => CooldownHolds`, for graphs with `LastAction` |
| `RateIsLimited` | `Spec => RateLimitHolds`, for every graph and any faults |
| `ProposalsCoolDown` | `Spec => ProposalsCool`, for every graph and any faults |

They rest on `WorkflowAssumption` (graphs are well formed, as `graph.py` checks
when it parses one) and `BoundAssumption`.  `IInv` has one part per owner of state:

* `TablesInv`: types, `OneRunPerDevice`, `ShadowIsSilent`, and `ParkedOK`: a parked
  run has proposed nothing, so a resumed walk may still propose;
* `RunnerInv`: the runs noted as due stay parked until their turn; a walk carries
  its own run's shadow flag, not the workflow's, which is what makes an edit of
  the flag harmless; a walk has proposed nothing unless it ends awaiting approval;
* `HandlersInv`: a handler in flight has a proposal to decide, and one about to
  release a run has seen its proposal decided.

The lemmas `RewriteRun` (a step that rewrites one run and makes it no busier) and
`DecideStep` (a step that at most decides proposals) carry most steps of the runner
and of the operators; `OpenRunInv` is the one step where a device becomes busy,
and rests on the guard `HasLiveRun`.

G7 and G8 ask for the runs that acted by their present status, so what they miss
depends on what a run may become after it has acted.  For G7 that is a matter of the
graphs: `LastAction(After)` says of them that an action leads into a set `After` of
nodes, from which there is no way to another action or proposal.  `PastAction` carries
this over to behaviours: a run that has acted is past its last action, whether it walks
or is parked, and is never refused.  `CooledInv` then says that the answer of G7 is still
right when the awaited call goes out.  `LastAction` is needed, as told above.
`ProposedInv` does without it: a proposal ends its walk, so a run that has proposed is
never refused (`ProposersStand`).  `CountedInv` is the same of G8, for every graph and any
faults: `CountIsEnough` shows that what is not `Unseen` is counted when G8 is asked, and
`UnseenStays` that nothing comes into sight during the await: a parked run is resumed
only by the cycle, which is waiting, and a run left `running` is closed by nobody.

`AlertEngineProofs` proves, for every set of devices, rules and threads:

| theorem | statement | proviso |
|---|---|---|
| `TypeCorrect` | `Spec => []TypeOK` | none |
| `GateHolds` | `Spec => OpensOnlyHeld` | none |
| `AlertsNotifiedOnce` | `Spec => []NotifiedOnce` | `MaxCrashes = 0`, `MaxTimeouts = 0` |
| `ClosedOnlyWhenResolved` | `Spec => ClosesOnlyResolved` | `DownIsNews`, `MaxTimeouts = 0` |
| `ImplementsAlertBook` | `Spec => IsAlertBook`: initial states map to initial states, and every step to a move of `AlertBook` or a stutter | `DownIsNews`, `MaxCrashes = 0`, `MaxTimeouts = 0` |

They rest on `EngineAssumption` and `BoundAssumption`.  `TypeOK` is inductive here,
because it says which locals each location of a cycle has in use (`LocalsOK`).
`GateHolds` needs `GateInv`: of batched keys the event log, and the view that each
cycle under way has of it, never makes a value older than it is; overlapping cycles,
restarts and the other writers do not matter to it.

The others are about one thread at work at a time (`Solo`; `AloneStep` says what
a step leaves to the other threads, `AsideStep` what the writers leave to a cycle).
`AlertsNotifiedOnce` needs `NoteInv`: between an alert's insert and its notification
nothing closes, reopens or notifies it, and an alert about to be notified has not
been.  `ClosedOnlyWhenResolved` needs `ResolvedInv`, which relates everything a cycle
has read to what is so now.  `Ahead(t, p)`: the cycle has yet to decide about the
alert.  `Missed(t, p)`: what it has read will make it close the alert, that is, the
event was too young at its start, the flags did not confirm the device, or the rule
has passed it over.  `ThreadInv`: an open alert that is ahead and missed was not due
at some moment, so is any alert listed to close that still has its id, and a cycle
opens alerts only for devices it has matched.  The steps that need an argument are
those of the others: a new event makes a pair less ripe and not due at once, and a
status that turns to down was no due match before or is none after (`DownIsNews`:
no rule asks for both up and down of a status that is not batched; the seeded rules
ask for one value).  Crashes are allowed.  `ImplementsAlertBook` puts the two invariants
together: `TableMoves` names the statements that write the tables,
`TablesKeepBook` maps each, and in `CloseIsBooked` the alert that closes has been told
of by `NoteInv`, as the closing thread is the only one at work, and has been not due
by `ThreadInv`; `Doubts` is the book's `World`.  The provisos are needed: `NotifiedOnce` fails
with one crash, `ClosesOnlyResolved` with one time-out or without `DownIsNews`, as
told above.

`CameraBatchProofs` proves, for every sequence of cameras, every number of canaries,
ring size, number of permits and share of failures, and every number of aborts,
exceptions and restarts:

| theorem | statement |
|---|---|
| `TypeCorrect` | `Spec => []TypeOK` |
| `CanaryIsGate` | `Spec => []CanaryGate` |
| `RunningHasItsTask` | `Spec => []RunningHasTask` |
| `DoneCoversAll` | `Spec => []DoneIsComplete` |
| `ImplementsRollout` | `Spec => IsStagedRoll`: initial states map to initial states, and every step to a step of `Rollout` or a stutter |

They rest on `RollAssumption` and `BoundAssumption`.  `IInv` adds to `TypeOK`
`FreshInv` (before the rings begin no camera has been touched: a batch that is run
again after a refusal starts from nothing), `ItemsInv` (what a coroutine knows of its
camera and why it was let start: the rings before its own are cleared), `RingsInv`
(what lies ahead of the task is whole rings, untouched; what lies behind it has
concluded and passed) and `HaltInv`.  The hard step is that a ring's verdict, once
given, is not changed by the coroutines an exception left behind: `Cleared` looks at
rings in which every result is known, and a known result is never replaced.
`RunningHasItsTask` needs `HaltInv`: a run that was told to stop while its row says
`running` has an abort heading for the row, and after the first write of a halt the row
says `aborted`.

`WorkflowPageProofs` proves `GraphsAreOwn` (`Spec => []SavesOwnGraph`) and
`LiveWasAsked` (`Spec => []NeverLiveUnasked`), for any workflows and bounds
(`WorkflowAssumption`, `BoundAssumption`), and `TypesHold`.  `GraphInv` follows the graph: every answer,
the page, the editor and every save have it under its own workflow's name, and the
editor holds that of the detail it is shown with.  `LiveInv`: a request that leaves
shadow was agreed to, and so was what any request has read.  `SavingInv` is what the
types need besides: the editor says that it saves just while its save is under way.

`CameraOpsPageProofs` proves `LiveWasRehearsed` (`Spec => []LiveIsRehearsed`) without
assumptions.  `SeenInv`: whatever was ever read of a finished dry run, on the page or
in an answer, is of a rehearsed image; `ChainInv`: so is what a deployment under way
carries.  Both are needed because the page deploys what it shows, which may be old.
`TypesHold` (`BoundAssumption`) adds `RowsInv`: no row, chain of requests or answer
under way refers to a batch that is not there, and `RowsKept`: none goes away.

`MapEditorProofs` proves `PathsAreHome` (`PathsStayHome`), `FormIsOwn`
(`FormIsOwnOnceLoaded`) and `LineIsDrawn` (`EditedLineIsDrawn`), for any links and any
number of requests under way (`LinkAssumption`, `BoundAssumption`).  The invariant
follows a path on its way round: registry, fetched map, working path, request,
registry (`SrvInv`, `MapsInv`, `EditInv`, `WritesInv`); `FormInv` says that the answer
awaited for the form is the open link's.  `EditsSurvive` (`PathEditsSurvive`) goes
through the steps one by one: those that change the working path of a link that is
open before and after spend an edit.  `TypesHold` adds `ClosedInv`: outside the editor
nothing is open or picked, inside it nothing is polled.

`ConsoleProofs` states these of the composition, the specification the run `console`
checks (the path edits as `PathEditsAreKept`, the types as `TypesHold`), and adds four
of its own: `ShowsTheSelected` (`ConsoleSpec => []ShowsSelected`)
for any subjects, and for any devices, buttons and bounds `ActionsAreOwn`
(`ActsOnOwn`), `AuditIsTrue` (`AuditTellsTruth`) and `ButtonsAreTrue`
(`ButtonTellsTruth`).  `FlightInv` is the reason for the first:
every request of these views that may still be answered is about the subject selected
now.  The others follow from `ActionInv`: `PageInv` (a camera's page shows the camera of
its URL, or is waiting for it), `ButtonInv` (a button that has been used is drawn, and
what it asked or ran is of that camera; what it says was the answer of a call that is
over) and `CallOK` (how far a call has come, with its row and its reply).  The handler's
steps share one lemma, `MoveKeeps`: one call moves on, keeps whom it is about, and a
reply once given.  For the parts, `Console`
takes each page's specification from its proof module, `ConsoleStep` shows that a step
of the console is a step of each part or leaves it alone, and `PartsInvariant` puts
the inductive invariants together.  `TypesHold` also needs the types of the views,
`TypesInvariant`: what a step asks for is of the views that are mounted after it, and
an answer is no newer than the data.  They assume `PartsAssumption`, which is the
assumptions of the parts, and `CompAssumption` of `Views`, that "no component" is none.

Every invariant and action property that a passing run checks is proved, some under
the provisos of the tables, which the runs meet.  Only model-checked is liveness
(`Converges`, `AlertsFollowState`, `ParkedRunsMoveOn`, `EveryRunEnds`,
`HealsAfterFailure`, `CatchesUp`, `MapConverges`, `WorkingEnds`), which is out of the
prover's reach here, and of course that the four violated properties are violated.

## 5. What is not modelled

Out of scope for good: probe command lines, SNMP and HTTP parsing, message texts,
read-only queries, and of the web interface everything that turns rows into markup:
layout, sorting and filtering of tables, formatting, charts, tiles and geometry, the
node canvas, the themes.  That is most of the interface's lines, and none of it
decides anything.  The page prototypes under `reference/assets/` and
`docs/design/` are drafts of these pages, in no build of the program, and the render
checks (`frontend/render-check.mjs`) are tests; they are not modelled either, so the
share of JavaScript lines that the models stand for is low by nature.

Abstracted: predicates of a workflow and guards other than G7 and G8 (any answer, at
any time), several workflows at once (live runs, G7 and G8 are counted per workflow), clock arithmetic (replaced
by what comparisons tell apart), pre-flight, image and read-back of a camera (any of
their outcomes), the fields of the forms in the registry and settings pages.  Of the
buttons that act, those of the camera and access-point pages are `DeviceActions`; the
same component on the switch page is drawn per port and behaves as there, and is
left out.  Acknowledging a problem or an alarm is `Act` and `ActFails` of `Views`.  The
tabs of the camera page, which also take the buttons away, are left out of
`DeviceActions`: an answer without an endpoint has the same effect.  The
fallback of the duration gate to `updated_at` for a row with no event
(`engine.py:100`) is not in `AlertEngine`: there every value is dated by an event.

## 6. Plan

What is left, most important first.

1. `EssLive` and `StateStore`: staged deltas, failed flush, two writers of
   `source_status`.
2. `Supervisor`: start, stop, apply under its lock, with the threads that survive;
   composition with `AlertEngine`, which assumes its effect today.
3. `CooldownHolds` for the graphs that act, wait and then only propose: which runs G7
   misses there, and for how long.
4. A quiet cycle of the engine: what its tables are when nothing changed while it ran,
   the safety half of `AlertsFollowState`.
5. Poller and engine composed, with unbatched events and the `updated_at` fallback.
6. `Reachability`, `Sessions`, `Migrate`: small modules, as parts of one run in the
   manner of `Console`.
