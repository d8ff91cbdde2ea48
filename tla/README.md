# Kinatio: specifications, model checking and proofs

This directory holds the formal models of Kinatio, a Linux monitoring console in Python. The
models are TLA+ modules translated from the code in `kinatio/`; TLC checks them on small
instances and the TLA+ proof system (TLAPS) checks proofs of their main safety properties for
every value of their parameters. `PROJECT.json` ties every definition to the lines it models,
every property to the run that checks it, and lists the hazards of the code.

## 1. The system

```
 host commands ── SafeSubprocessRunner ── collectors ── CollectorScheduler ── SystemStateStore ─┬─ TUI (app.py, ui/)
 sudo ─────────── SudoAuthCoordinator ── collection gate ──────┘                                ├─ CLI (cli/main.py)
                                                                                                └─ JSONStateCache (disk)
```

Everything runs on one asyncio event loop; concurrency is the interleaving of tasks where they
await. There are no threads.

| component | state | operations | interacts with | what is hard |
|---|---|---|---|---|
| `runtime/store.py` state store | version, last change, current event, normalized state, two bounded lists | `replace_state`, `update_*`, `append_*`, `wait_for_change[_notice]`, `snapshot` | written by scheduler and session, read by both interfaces | lost wakeups, timeouts racing changes, summaries of several changes |
| `runtime/scheduler.py` scheduler | one task per collector, its failure count, the stop event | `start`, `stop`, `refresh_now`, the periodic and the stream loop | collectors, gate, store | concurrent collections of one collector, backoff, shutdown in mid-collection |
| `execution/auth.py` sudo session | `SudoAuthState` | `refresh` (probe), `authenticate` | the runner; `app.py` keeps a copy the gate reads | credentials lapse outside the program; overlapping probes |
| `runtime/bootstrap.py` | - | service construction, redaction, restore | store, cache, session | every path that locks must redact |
| `app.py`, `ui/modals.py` TUI | selected section, views, pane, locks, observed version | key handlers, mount and unmount, observer task | all of the above | two tasks of the interface share `_refresh_lock`, the selection and `auth_state` across awaits |
| `runtime/cache.py` cache | one file | `load`, `save`, quarantine | disk, other Kinatio processes | crash, full disk, two processes |
| `execution/subprocess.py` runner | child processes | `run`, `stream_lines` | the host | timeouts, cancellation, full pipes |
| `cli/main.py` CLI | - | status, scan, show, unlock, ... | scheduler, store, cache | order of unlock and refresh |
| `execution/backends.py`, `runtime/context.py` | - | detection of service manager, package manager, log source | the host | precedence |
| `collectors/*` | - | `collect`, `stream`, `check_availability` | runner | fallback chains, partial output |
| `ui/sections.py`, `ui/layout.py`, `ui/log_noise.py`, `sections.py` | detail views | tables, sorting, filters, rendering | the TUI | cursor and filter state while rows change |
| `domain/models.py`, `config.py` | - | data definitions, validation | all | - |

What makes the modelled components correct:

- **store** - a waiter is woken by every change after the version it named, and told "quiet"
  only while there is none; a summary names all that was written; lists keep the newest items.
- **scheduler** - nothing deferred begins, on any path; a collector is collected again whatever
  happened; a record that says "running" will be overwritten; `stop()` returns.
- **command line and cache** - a file is replaced whole or not at all, whatever fails and whoever
  else writes; privileged data is shown only by a run that unlocked and collected it; success
  means that the report is there.
- **runner and collectors** - no process is left behind; what was cut off is not reported as
  whole; a report claims the access and the availability it had; a collection ends.
- **views and pane** - the pane shows the view on top of the stack and the store's data; a
  background redraw keeps the cursor.
- **navigation** - selection, lists, views and focus agree, whatever messages are still on their
  way; navigation comes to rest.
- **session** - nothing privileged before the first unlock; every locking step redacts; a lapse
  of sudo is noticed; the interface never hangs on its lock.

## 2. The modules

| module | models | contents |
|---|---|---|
| `ChangeNotice` | (abstract) | what a task that waits for changes is promised |
| `StateStore` | `runtime/store.py` | every operation that writes or waits |
| `GatedCollections` | (abstract) | what the collection gate promises, whoever collects |
| `CollectorScheduler` | `runtime/scheduler.py`, `_build_health` | the scheduler and its tasks |
| `PrivilegedSession` | `app.py`, `runtime/bootstrap.py`, `execution/auth.py`, `ui/modals.py` | the sudo session of the TUI, composed of the message pump, the observer and the collections behind the gate |
| `SectionPolicies` | `sections.py`, tables of `bootstrap.py` and `ui/layout.py` | the tables of categories, sections and fields, with what is derived from them |
| `AtomicFile` | (abstract) | what the writers of a file promise its readers |
| `CommandLine` | `cli/main.py`, `runtime/cache.py`, `runtime/bootstrap.py` | runs of `status` and `scan` that share the cache and an output file |
| `SubprocessRunner` | `execution/subprocess.py` | one caller of `run()` or `stream_lines()` and its processes |
| `BackendDetection` | `execution/backends.py`, `runtime/context.py`, `config.py` | which backend of each kind a host is taken to use, by the context and by the collectors |
| `HostCollectors` | `collectors/` | the commands of each collector, what it keeps and what it claims; composes the two modules above |
| `DetailPane` | `app.py`, `ui/sections.py` | views, tables, their keys, and the two tasks that redraw the pane |
| `Navigation` | `app.py` | lists, selection, views, focus, and the rebuilding of the sidebar |
| `StateStoreProofs`, `CollectorSchedulerProofs`, `PrivilegedSessionProofs`, `CommandLineProofs`, `HostCollectorsProofs`, `NavigationProofs`, `DetailPaneProofs` | | theorems and proofs |
| `MC*` | | the instances TLC checks |

In each module an action is what a task does from one suspension to the next. The store's lock
is never held across a suspension (`async with self._lock` around code that awaits nothing), so
acquiring it never suspends and each store operation is one step; that also makes the
snapshot-then-replace of `redact_locked_privileged_state` one step.

Some definitions have a faulty form before them (`SignalNewEvent` before `SignalChange`, ...):
the bug a property is there to catch. The models do not use them; substituting one makes TLC
find its property violated, which shows that the property does speak about the code.

### StateStore

`version`, `lastChange` and `changed`/`fired` are `_version`, `_last_change` and `_changed`
(an `asyncio.Event`, by identity). The contents of the state are abstracted to `writtenAt`, the
version that last wrote each piece, which is what summaries are judged against, and to the two
bounded lists. A waiting task has a program counter, the version it named, the event it captured
and the notice it was given. `WaitForChange`, `Wake`, `Timeout` and `Cancel` are the entry, the
loop, the timeout and the cancellation of `wait_for_change_notice` and `wait_for_change`.

`ChangeNotice` says the same without events: a caller asks with a version, may be told a newer
one once there is one, may be told "quiet" while there is none, or withdraws; and a caller that
could be told is told in the end. `StateStore` refines it with `pc` and `notice` mapped to
request states (`KeepsPromise`).

### CollectorScheduler

`task`, `failures` and `health` are the tasks, their local `consecutive_failures` and the store's
`collector_health`. `flight[c]` is the set of callers whose `_collect_once(c)` awaits `collect()`;
`older`, `superseded` and `stale` are history that tells whether a published value is older than
the one it replaced. `_collect_once` is two steps: `BeginAll` (gate, availability, "running") and
`CollectDone` (publication). `Verdicts` are the outcomes of the first: begun, deferred by the
gate, or backend unavailable. Failure counts above `FailureCap` are not told apart. `refresh_now`
has no condition on the state of the scheduler, so in the model a refresh may begin before the bootstrap,
during it, or during and after the shutdown; that `App` refreshes only in between is the order of
its own calls, which `AppSpec` in `MCCollectorScheduler` adds for the run of finding 2.

`GatedCollections` says what the gate is for, without tasks, timers or records: a collection begins and
a stream opens only while the session is not locked, and what has begun goes on until it ends. Both
modules that collect refine it (`KeepsGate`). `CollectorScheduler` opens and closes the gate
whenever it likes; `PrivilegedSession` has the session behind the gate, and keeps of the scheduler's
collections what `GatedCollections` keeps. So what the session assumes of its collections is not
more than what the scheduler has been shown to do. A step of a handler that settles its own answer and
then collects is one `Begin`, which opens the gate first.

### PrivilegedSession

The message pump runs mount, key handlers, dialog callbacks and unmount one after another
(`pump`); the observer task runs beside it (`observer`). Both settle answers of sudo, collect and
redraw. `data` says which collectors' values the store holds, `pane` whether the screen shows
privileged data, `drawing` the pane being exchanged under `_refresh_lock`, `disk` the kind of the
cache file. `unseen` abstracts `version != _observed_version`. `auth` distinguishes the wordings
of `SudoAuthState`, because the poll compares whole states, messages included. Collections of
the deferred collectors are those of `CollectorScheduler` reduced to their beginning and end.
The time of a poll, a timeout or a minimal redraw interval may always have passed.

Views, tables and navigation are in `DetailPane` and `Navigation`.

### SectionPolicies

The constant tables, kept as functions, and the functions derived from them under the source's
names. Three assumptions about tables that are kept by hand in different files are evaluated on the
real tables: `TablesAgree` (the check `sections.py` makes at import) here; in `DetailPane`,
`DrawnIsRelevant` (a field a section draws is one whose change concerns it) and `SignedIsDrawn` (which
sections draw a field that no signature covers). `backend_status` and `timestamp` are in neither the
payloads nor the relevant fields of the code; `DrawnIsRelevant` excludes them by name (`Unsigned`).

### CommandLine and AtomicFile

A run is one process with a program counter `pc`, the state of its session (`auth`, `store`,
`attempted`, `shown`) and of the file it is writing (`target`, `temp`, `named`). `Start` is the
validation of the arguments; `LoadExists`, `LoadReads` and `Quarantine` are `JSONStateCache.load`
with the redaction of `prime_runtime_store`; `Probe`, `EnterPassword`, `Collect` and `Follow` the
session; `MakeDirectory` ... `UnlinkTemp` the calls of `save` and of `_write_output_file`, one
action each, since a process may be killed or the machine lose power between two. `named` is
`temp_path`, which the code assigns after `fsync`. A file is abstracted to the subsystems it holds
data of, whether it is whole and whether it was synced. The program never syncs the directory, so
`cacheDisk` and `reportDisk` hold every content the name may have after a power failure.

`AtomicFile` is the promise: a file is what was found, absent, or the whole of an acceptable
content, also after a power failure. Both files of `CommandLine` refine it (`FilesAreAtomic`); what
is acceptable in the cache holds no privileged data.

The section tables are constants of `CommandLine`, with the assumptions a run needs of them; the
instance gives them values from `SectionPolicies`. `RedactionCovers` states that what waits for an
unlock is also what the redaction clears - two tables of the code.

### SubprocessRunner, BackendDetection, HostCollectors

`phase` is where the coroutine is: in the first `communicate()`, in the second one after a kill
(`drain`), in a stream, or in the closing of one. `child` is the process, `held` says that a
descendant keeps the pipes open, and `abandoned` that a call ended while its child ran on. `Timeout`
has the four outcomes of the `except` clause: killed, refused (sudo, put in front by the runner or
called by name by the security collector), exited with the pipes still open, and nothing left to
kill. A result is the class of its return code and how much of the output there is.

`HostCollectors` makes one collection at a time (or holds the log stream): `Commands` are the
commands of a plan in order, `Wanted` which of them depend on earlier results, and the
`*_report` operators what each collector makes of the results: what it keeps, the access level and
the availability it claims. `context` is detected at the start, the collectors detect their
backends on each collection, and the network collector only once. Sudo may lapse and commands may
be uninstalled at any step.

### DetailPane

`stack` is `_detail_stack`, `pane` what `#detail-content-host` holds, `row` the table's own cursor
and `queue` the table's messages on their way to the app: the table moves its cursor at once, the
app hears of it later. `Refreshes` are the paths through `_refresh_from_store` and
`_render_detail_content`: not concerned, deferred, drawn into the widgets that are there, or drawn after
replacing them (`swap`, across an await, under `_refresh_lock`). `state` gives each field the
version that wrote it and, for a table, its entries; `passedOver` is history: the versions that no
notice named. An entry is a number; a query is the set of entries it matches.

### Navigation

`listed`, `snapshot` and `index` are the lists as they are on the screen, `queue` the Highlighted
and Selected messages, `at` where the pump and the observer are in `_refresh_from_store` and
`_rebuild_section_list`. Mounting the items of the new sidebar is one action per item, because a
refresh of the other task may find it half rebuilt. The poll, the unlock key and the password of the
dialog ask sudo (`PollBegins`, `UnlockKey`, `DialogEnds`); with the answer they set both cursors under
no lock (`ProbeEnds`). While the dialog is open keys go to it. `_sync_focus` is scheduled again when
there is no table to focus (`TableMayBeMissing`). `crowded` is history for the liveness property.
That a refresh or a poll reaches the lists behind the open dialog is Textual's behaviour since
`App.query` searches the default screen; under older versions the syncs under a dialog do nothing.

## 3. What TLC checks

| run | configuration | shows |
|---|---|---|
| `state_store` | three subsystems, two collectors (one is `logs`), a notice waiter and a state waiter, limits 2, 3 changes | all store properties and the refinement |
| `scheduler` | a periodic collector and the log stream, both gated, the stream's backend sometimes missing, one refresh at any time | all scheduler properties, and that the scheduler keeps `GatedCollections` |
| `scheduler_overflow` | the same, float range scaled down | violation: see findings |
| `scheduler_stale` | the same without the missing backend, and refreshes only between bootstrap and shutdown, as `App` calls them | violation: see findings |
| `session` | sections Overview, Logs (table, streaming collector) and Audit (static, periodic collector), all cache files | the session's safety, and that its collections keep `GatedCollections` |
| `session_liveness` | Overview and Logs, no cache file | the session's liveness |
| `session_race`, `session_pane` | the same | violations: see findings |
| `command_line` | two processes, the first with seven command lines that between them take every branch, one fault, four of the real sections | files, secrecy, freshness, what success means |
| `collectors` | eleven collectors on five hosts that between them have every backend | what reports claim, children, the end of a collection |
| `pane` | the log table and the Storage section, two changes, two keys | pane, data and cursor |
| `navigation` | Overview, Operations (its first section is a table) and Security (all behind sudo), three keys | selection, lists, rest |

**Bounds.** Three changes let a waiter miss one, be woken by one and time out during another; two
waiters show that one's answer does not depend on the other's; a limit of two overflows within
three appends. One periodic and one streaming collector cover the kinds of task; collectors do not
interact except through the shared gate, and one refresh suffices for two collections of one
collector at once (refresh against task, refresh against bootstrap).
`FailureCap` 2 is beyond the first doubling; the overflow run has `MaxExponent` 2 with a cap of 4
so that the boundary is crossed. Two privileged collectors of different kinds and a table next
to a static pane cover the branches of redaction and drawing; the session has no counters, so its
state space is complete for that instance.

`MaxFaults` 1 allows one failing call, kill, interrupt or power failure next to any number of failed
removals, at every step of either process; the second process is there to change the cache under
the first. `CommandLineProofs` proves the same for any number of faults and processes. Two `Items`
give the collectors that repeat a command a first and a later repetition; the hosts include one
without sudo, one without `tail`, and one without anything. In the pane, `LogWindow` 2 with two
entries of which one may repeat fills the window; two changes let a notice pass one over; two keys
open a detail and come back, or change the view twice. In the navigation, three keys are enough to
choose a category, open a detail and come back, and for two different highlights to be on their
way at once; `MaxMessages` bounds the messages waiting when a key is pressed or the observer starts, and two are
enough for that.

`CHECK_DEADLOCK FALSE` is set for the session and the command line only: there the program ends.

**Fairness.** The event loop runs what is ready: a woken waiter (`Wake`), the end of the bootstrap,
the cancellation of tasks, the steps of the pump and the observer. Timers expire (`PeriodicTurn`,
`StreamTurn`, `Poll`). Collections and sudo's commands end because they run under a timeout
(`SafeSubprocessRunner.run`). A refresh of the pump is strongly fair because waiters of an
`asyncio.Lock` are served first in, first out; without it TLC shows the observer taking
`_refresh_lock` again and again. No fairness is assumed of the user, of sudo's expiry, of a
store's writers, of the end of a stream or of a call of `stop()`.

That commands end under their timeout is `CollectionEnds` in `HostCollectors`: its fairness is
that of the event loop, of the timer and of a killed process, never of a child that runs or of a
descendant that keeps the pipes. In `Navigation` messages are handled and refreshes go on (weak),
and `_refresh_lock` is granted in the order of waiting (strong); keys, background changes
and polls are not assumed to occur; sudo's answer to a probe is, since it runs under a timeout.

`ExpiryNoticed` is about a quiet store: the observer polls only when its wait for a change times
out (app.py:1208-1214).

**Exceptions the properties name.** Where the code gives up on something, a property says so
instead of leaving it out of the model; removing the exception makes TLC show the case:

- `TemporariesAreCleaned`: a write or a sync that fails leaves the temporary file behind, because
  `temp_path` is not yet known.
- `RequestedIsCollected`: next to a section without a subsystem of its own (`scan all`), logs are not
  collected, even with `--unlock` (main.py:427).
- `ChildrenAreReaped`: a cancelled `run()` leaves its child, and so does a `kill()` of sudo that is
  refused.
- `CollectionEnds`: after the kill `communicate()` has no timeout, so a descendant that keeps the
  pipes open blocks the collector.
- `TruncatedIsNotWhole`: the service managers, `lspci` and `lsusb` are read whatever their return code,
  and so are `sudo -n -l` and its probe for `sudo_summary` (security.py:70) and the firewall's commands for
  their summary (backends.py:137-176), also when they were cut off. Besides, `process.returncode or -9`
  keeps the code of a child that had exited while a descendant held its pipes open past the timeout; if
  that is a code its reader expects (dnf's 100), the output so far passes for the whole.
- `AvailabilityIsHonest`: a package inventory that failed, a systemd or runit that says nothing, and
  an error message of `auditctl` count as available.
- `PaneIsCurrent`: the fields written by a version no notice named (notices name the last change
  only, store.py:144), and a section marked as pending. It speaks of the fields that are both drawn and in
  the signature (`Covered`). Four sections draw others: Hardware power and storage, Runtime Backends
  `backend_status`, and Overview and Events the `timestamp` of the last write; those are shown as they were when the
  pane was last drawn (`SignedIsDrawn`).
- `KeepsSelection`: while a message of the table is on its way, and after a search, sort or filter
  that changed nothing.
- `NavigationSettles`: when two different highlights are on their way at once (a key and a background
  refresh, or two quick keys), each one's handler moves the cursor back and posts the other anew,
  for ever. Nothing suppresses them: `_navigation_sync_in_progress` is never seen set by a handler.

## 4. What is proved

For every set of subsystems, collectors, sections, waiters, processes and hosts and every limit
(under the named assumptions of the modules, which TLC evaluates on each run):

| theorem | states |
|---|---|
| `TypeCorrect`, `WakeupsAreNotLost`, `SummariesAreComplete`, `OneStepNoticesAreComplete`, `NewestAreRetained` | the store's invariants |
| `ImplementsPromise` | every step of the store is a step of `ChangeNotice` or a stutter |
| `AppendBoundedProperties` | length and items of a bounded append |
| `SchedulerTypeCorrect`, `RunningRecordsAreOverwritten` | the scheduler's invariants |
| `OnlyOverflowEndsTasks` | below the overflow, no failure ends a task (`TasksOutliveFailures`) |
| `GateHoldsOnEveryPath` | nothing deferred begins while the gate is closed |
| `SchedulerKeepsTheGate`, `SessionKeepsTheGate` | every step of either is a step of `GatedCollections` or a stutter |
| `SessionTypeCorrect`, `NothingPrivilegedBeforeUnlock` | the session's invariants |
| `LockingClearsTheStore` | every step that locks empties the store of privileged values |
| `CommandLineTypeCorrect`, `LockedReportsAreClean`, `ReportsAreFresh`, `TemporariesAreRemoved`, `ScansCollectWhatIsAsked`, `SuccessNeedsTheReport` | the command line's properties, all that its run checks |
| `FilesImplementAtomicFile` | every step on the two files is a step of `AtomicFile` or a stutter |
| `ChildrenAreAccounted`, `BackendsAreTheContexts` | the collectors' invariants |
| `TruncatedIsLeftOut`, `AccessIsAsClaimed`, `AvailabilityIsAsClaimed` | what a report may hold and claim |
| `SelectionStaysConsistent`, `ListsShowWhatIsSelected`, `NavigationTypeCorrect` | the navigation's safety: the selection is consistent, and the lists show it once nothing is on its way |
| `PaneShowsTheTop` | the pane shows the view on top of the stack, whichever task drew it |
| `PaneStaysCurrent` | the data drawn is the store's once both tasks rest, but for the exceptions named above |
| `SelectionIsKept`, `RowKeysAreUnique` | a background redraw leaves the cursor on its row; no two rows have one key |

**Store.** `IInv` adds to the properties that events are set in the order of their creation and
the current one is not set (`FiredBeforeCurrent`), which makes "captured the current event" mean
"will be woken", and that no stamp, argument or notice is of a version yet to come
(`NothingFromTheFuture`), without which a notice of the current version could not be known to
cover a step. The refinement follows from the same invariant, step by step. The order of the lists
needs only that their items are past versions (`ItemsArePast`): the operations reduce to four
effects on them, which one lemma (`ListsKept`) joins.

**Scheduler.** `IInv` adds which task states each phase allows (`TasksMatchPhase`), that a task in
`collecting` has its collection in flight (`FlightsBelongToTheirTask`) and why a task ended by
itself (`TasksEndForAReason`). Collections begin and end in many actions but through two
operators, so two lemmas (`BeginEffect`, `DoneEffect`) say once what these do and every action's
proof cites them. `OnlyOverflowEndsTasks` is stated with the hypothesis that no failure count
exceeds `MaxExponent`: without it the statement is false (finding 1). The refinement of
`GatedCollections` follows `Next`: steps that begin collections (`BeginningIsBegin`), steps that end some
(`EndingIsEnd`, any step that begins none), and the lock. While the gate is closed the action
property `GateHolds` already says that a step begins nothing, so only an open gate needs the cases.

**Session.** `SessionInv` adds that an unlocked session was unlocked by an answer
(`UnlockedByAnAnswer`) - so nothing can begin behind the gate before the first unlock - and that
the observer starts after the bootstrap (`ObserverStartsLate`) - so it cannot hold the lock when
it is created. The actions fall into three kinds, each with a frame lemma: those that only move
(`Moves`), those that settle or collect (`Collects`), and the refreshes (`DrawEffect`).
`LockingClearsTheStore` rests on a lemma that only a step that settles an answer changes
`auth_state`. The refinement of `GatedCollections` has the same three kinds of step: the answer a
handler settles decides whether its collections are a `Begin` or its lock a `Toggle`
(`GatheringImplementsGate`).

**Command line.** `IInv` is, but for the two files, a conjunction of parts that speak of one process
each, and a step changes one process, so a step has to be looked at only for the parts it can
disturb: `Secret` (nothing is collected or shown early, without sudo nothing deferred is collected,
what is privileged in a store was collected), `Tidy` (which temporary file there is at which place)
and `Served` (the request is valid and has been served after the collection). `OnDisk` says that
everything that has one of the two names was synced, which is why a power failure leaves a whole
file although the directory is never synced. The refinement follows: a replacement installs an
acceptable content because of `Secret` and `TempMatchesPlace`.

**Collectors.** `CollectionInv` connects the runner with the plan: the command in progress is the
plan's next one (`RunnerFollowsPlan`), and each result belongs to its command, is sudo's only if sudo
ran it, and has never the code 0 if it was cut off (`ResultsAreGenuine`). The properties of reports
then follow by looking at each collector's report. `BackendInv` says that until a command is removed
the context is the host's; that the two detections agree is a lemma on the tables. Availability
needs, besides, that the packages collector goes by a manager it knows (`PackagePlan`).

**Navigation.** `NavigationInv` adds what may be in the lists and in the queue (`ListsAreListed`: a
message names a category of the list or a section of one of them, so the selection it makes is
consistent) and where the tasks may be (`RebuildIsOfCategory`). The latter is needed for the index
the pump sets after a rebuild of its own, which is not clamped: the pump is then the only one that
could have changed the category.

That the lists show the selection holds only when nothing is on its way, so `ListsFollow` says what
holds before: a list's cursor is on the selection, or the last message of that list names where its
cursor is (`LastTells`). Taking a message either selects what it names or finds it selected
(`TakenIsShown`); syncing the cursors posts a message for each one it moves (`SyncShows`); and a rebuilt
sidebar is mounted from the first item on by one task at a time (`MountsInOrder`), so it cannot come
to rest half built. `PumpHasSynced` states this of the places where the pump has no rebuild before it:
elsewhere the sidebar may be that of the category before. The types of the remaining variables come
last, with both invariants as hypotheses.

**Pane.** A signature is compared instead of what it signs, and that of an opened view has neither
its search nor its sort, so equal signatures do not by themselves mean that the pane shows the view.
`PaneInv` says why they do here: there is no way from one opened view to another but over the list,
and the pump draws that before the next key (`Fits`); a signature tells the kind and section of its
content (`Signs`); and no widgets are being replaced while the pump is at rest, because the kind
of the pane changes only with the view.

`PaneIsCurrent` needs `CurrentInv` besides: a field that is not drawn as the store has it has been
written since the last refresh began, or by a version the notices passed over, or the section is
pending (`Follows`, and its form for a pump at rest). That rests on the store's bookkeeping
(`VersionsInOrder`, `NoticeIsHonest`: every version between the observed one and the notice's is a
passed-over one) and on `CoveredIsRelevant`, that a change of a drawn field concerns its section, which
`DrawnIsRelevant` assumes of the tables. `SelectionIsKept` reduces to the redraw of a table in
place (`RedrawnInPlace`), where the cursor is looked up by its key. That this finds one row only is
`RowKeysAreUnique`. A key is a pair of an entry and a number there, and a string `name-number` in the
code (ui/sections.py:816): the theorem says nothing of an entry whose own name reads like that of a
repeated other one.

Only model-checked: the liveness properties (`PeriodicRecurs`, `StreamsReopen`,
`LifecycleCompletes`, `InterfaceResponds`, `ExpiryNoticed`, `CollectionEnds`, `NavigationSettles`, the
fairness part of `KeepsPromise` of the store), which are outside what the proof system handles, and
`TasksOutliveFailures` without the hypothesis of its theorem (it is false beyond the overflow). Every
invariant and every action property of a passing run is otherwise the subject of a theorem. The type
invariants of the session, the command line and the navigation are proved and left out of the runs,
whose time goes to the properties that could be wrong. Two type
invariants are neither checked nor proved: that of `HostCollectors`, because a command sudo is asked
for need not be one of the tools of the model, and that of `DetailPane`, because the rows of a table
are sorted by the community modules' `SortSeq`, whose result is a sequence of entries only by
an induction over the entries.

## 5. Findings

1. **Backoff overflow** (`scheduler_overflow`; scheduler.py:187). After 1024 failures in a row
   `interval * 2**n` raises `OverflowError` outside any handler and the collector's task is gone.
2. **An older value may replace a newer one** (`scheduler_stale`; scheduler.py:236). A refresh and a
   periodic turn collect concurrently and publish in the order they end.
3. **The store does not stay redacted** (`session_race`; scheduler.py:119, 235). A running stream,
   or a collection in flight, publishes privileged data after the session has been locked.
4. **A locked pane may stay on the screen** (`session_pane`; app.py:1046). Unlock key, sudo
   found locked, dialog cancelled: no later notice or poll redraws the pane.

Met while modelling, and described by the exceptions above or by the model itself, without a run of
their own: the notice summarizes the last change only, though the docstring at store.py:48 speaks
of what changed since the caller looked; `scan hardware` draws power and storage, which it does not
collect; a cache file that is not UTF-8 raises `UnicodeDecodeError` on every start; a good snapshot
may be quarantined when another process has just replaced a bad one; the Hardware pane is redrawn
for the hardware only, although it draws power and storage too, and Runtime Backends not for
`backend_status`; the security report shows what `sudo -n -l` said before it was cut off; building a table sets the view's
cursor, so "follow newest" no longer moves it after the first drawing; Enter on an empty table opens
a detail of the row that says it is empty; kill() of a child under sudo is refused and the child
runs on.

## 6. Not modelled, and the plan

Not modelled: the parsing of command output (text processing without state) and what collectors
read from psutil and /proc; layout and rendering (`ui/layout.py`), which format a state into text
without keeping any, beyond the fields they read; the data classes and their validation; labels,
key hints and notifications of the TUI; `sections` and `tui` of the command line; the installer.
Delays are not modelled anywhere: a timer may expire at any time.

What is left, in this order:

1. An abstract specification of a command (`SubprocessRunner` from its caller's point of view: asked,
   answered once, or raised) and the runner shown to implement it; with it the types of `HostCollectors`,
   over all commands instead of those of the model's hosts.
2. The selection of `Navigation` as the source of the section `PrivilegedSession` and `DetailPane` draw:
   the three share it, and each chooses it freely now.
3. A busy store in `PrivilegedSession`: a bound on how late a lapse of sudo is noticed there.
