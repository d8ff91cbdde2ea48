------------------------- MODULE CollectorScheduler -------------------------
(***************************************************************************)
(* The collector scheduler (runtime/scheduler.py): the bootstrap           *)
(* collection of every collector, the task each collector then has, the    *)
(* refreshes the interfaces ask for, and the shutdown.                     *)
(*                                                                         *)
(* Everything runs on one event loop, so a step is what a task does from   *)
(* one suspension to the next.  The store's operations never suspend (see  *)
(* StateStore): a collection is two steps, the one that consults the gate  *)
(* and marks the collector running, and the one that publishes its result. *)
(* A task's timer may expire at any time.                                  *)
(*                                                                         *)
(* Of the store this module keeps the collectors' health records; the      *)
(* versions, events and values are StateStore's matter.                    *)
(*                                                                         *)
(* The scheduler itself has no order of calls.  This module assumes of its *)
(* callers that start() is called once and stop() once, after start() has  *)
(* returned, as App.on_mount and on_unmount do (app.py:250-277);           *)
(* refresh_now() may be called at any time, by any number of callers.      *)
(*                                                                         *)
(* BuildHealthUnfiltered, BeginAllUngated, CollectErrorUnrecorded,         *)
(* PeriodicDoneReturning, StreamEndsForGood and CancelTaskUnlessStreaming  *)
(* are faulty forms of the definition that follows each; the model does    *)
(* not use them.                                                           *)
(***************************************************************************)
EXTENDS Integers, FiniteSets

CONSTANTS
    Collectors,     \* the collectors, by name
    Streaming,      \* those with `streaming' set, which get a stream task
    Gated,          \* those the collection gate defers while sudo is locked
    Unreliable,     \* those whose check_availability() may report a missing backend
    Refreshers,     \* concurrent calls of refresh_now()
    MaxExponent,    \* greatest n for which 2**n converts to a float (1023)
    FailureCap      \* bound of the model: longer runs of failures are not told apart

ASSUME CollectorsAssumption ==
    /\ Streaming \subseteq Collectors
    /\ Gated \subseteq Collectors
    /\ Unreliable \subseteq Collectors
    /\ Refreshers \cap {"start", "task"} = {}
    /\ MaxExponent \in Nat
    /\ FailureCap \in Nat \ {0}

\* Who may have a collection of a collector in flight.
Callers == Refreshers \cup {"start", "task"}

VARIABLES
    phase,        \* where the scheduler is in its life
    locked,       \* TRUE while the collection gate defers the Gated collectors
    task,         \* state of each collector's task in _tasks
    failures,     \* its consecutive_failures
    flight,       \* the callers whose _collect_once(c) awaits collect()
    older,        \* per caller in flight, those in flight already when it began
    superseded,   \* those in flight although a collection begun later has published
    stale,        \* TRUE if what c last published is older than what it replaced
    health        \* collector_health[c]: status and last_completed_status

vars == <<phase, locked, task, failures, flight, older, superseded, stale, health>>

Ended == {"done", "gave up", "crashed"}

-----------------------------------------------------------------------------
(* Health records, delays and failure counts. *)

\* _build_health: only a completed collection changes last_completed_status.
BuildHealthUnfiltered(h, status) == [status |-> status, last |-> status]

BuildHealth(h, status) ==
    [status |-> status,
     last |-> IF status \in {"ok", "error"} THEN status ELSE h.last]

\* _next_failure_count: "ok" and "deferred" reset it.
NextFailureCount(result, n) ==
    IF result \in {"error", "unavailable"} THEN IF n < FailureCap THEN n + 1 ELSE n
    ELSE 0

\* _periodic_delay multiplies a float by 2**n: an OverflowError above MaxExponent, which
\* _run_periodic does not catch.
AfterTurn(n) == IF n > MaxExponent THEN "crashed" ELSE "sleeping"

\* _stream_retry_delay uses 2**max(n - 1, 0).  The handler of the OverflowError asks for
\* the delay again and ends the task.
AfterStream(n) == IF n - 1 > MaxExponent THEN "crashed" ELSE "waiting"

-----------------------------------------------------------------------------
(* _collect_once. *)

Deferred(c) == locked /\ c \in Gated

\* What the first step of a collection can come to.
Verdicts(c) ==
    IF Deferred(c) THEN {"deferred"}
    ELSE {"begun"} \cup (IF c \in Unreliable THEN {"unavailable"} ELSE {})

StatusOf(verdict) ==
    CASE verdict = "deferred" -> "idle"
      [] verdict = "unavailable" -> "error"
      [] verdict = "begun" -> "running"

\* The first step of the collections that `caller' gathers, up to their await.
BeginAllUngated(targets, caller, verdict) ==
    /\ verdict \in [targets -> {"begun"}]
    /\ flight' = [c \in Collectors |->
                    IF c \in targets THEN flight[c] \cup {caller} ELSE flight[c]]
    /\ health' = [c \in Collectors |->
                    IF c \in targets THEN BuildHealth(health[c], "running") ELSE health[c]]
    /\ UNCHANGED <<older, superseded, stale>>

BeginAll(targets, caller, verdict) ==
    LET begun == {c \in targets : verdict[c] = "begun"}
    IN  /\ \A c \in targets : verdict[c] \in Verdicts(c)
        /\ flight' = [c \in Collectors |->
                        IF c \in begun THEN flight[c] \cup {caller} ELSE flight[c]]
        /\ older' = [c \in Collectors |->
                        IF c \in begun THEN [older[c] EXCEPT ![caller] = flight[c]]
                        ELSE older[c]]
        /\ health' = [c \in Collectors |->
                        IF c \in targets
                        THEN BuildHealth(health[c], StatusOf(verdict[c])) ELSE health[c]]
        /\ UNCHANGED <<superseded, stale>>

\* The caller's collection of c is no longer in flight.
Leave(c, caller) ==
    /\ flight' = [flight EXCEPT ![c] = @ \ {caller}]
    /\ older' = [older EXCEPT ![c] =
                   [x \in Callers |-> IF x = caller THEN {} ELSE older[c][x] \ {caller}]]

\* The last step: collect() has returned a value or raised.
CollectErrorUnrecorded(c, caller, result) ==
    /\ caller \in flight[c]
    /\ Leave(c, caller)
    /\ health' = IF result = "ok" THEN [health EXCEPT ![c] = BuildHealth(@, "ok")]
                 ELSE health
    /\ UNCHANGED <<superseded, stale>>

CollectDone(c, caller, result) ==
    /\ caller \in flight[c]
    /\ Leave(c, caller)
    /\ health' = [health EXCEPT ![c] = BuildHealth(@, result)]
    /\ IF result = "ok"
       THEN /\ stale' = [stale EXCEPT ![c] = caller \in superseded[c]]
            /\ superseded' = [superseded EXCEPT ![c] = (@ \cup older[c][caller]) \ {caller}]
       ELSE /\ superseded' = [superseded EXCEPT ![c] = @ \ {caller}]
            /\ UNCHANGED stale

-----------------------------------------------------------------------------
(* start() and refresh_now(). *)

\* start() is called once; nothing in the scheduler orders it with refresh_now().
Start ==
    /\ phase = "new"
    /\ phase' = "starting"
    /\ \E verdict \in [Collectors -> {"begun", "deferred", "unavailable"}] :
          BeginAll(Collectors, "start", verdict)
    /\ UNCHANGED <<locked, task, failures>>

\* The bootstrap collections are over: one task per collector is created.
TasksReady ==
    /\ phase = "starting"
    /\ \A c \in Collectors : "start" \notin flight[c]
    /\ phase' = "running"
    /\ task' = [c \in Collectors |-> IF c \in Streaming THEN "waiting" ELSE "sleeping"]
    /\ UNCHANGED <<locked, failures, flight, older, superseded, stale, health>>

\* Without a subsystem every collector that does not stream, else the one that has it.
RefreshTargets == {Collectors \ Streaming} \cup {{c} : c \in Collectors}

RefreshNow(r) ==
    /\ \A c \in Collectors : r \notin flight[c]
    /\ \E targets \in RefreshTargets :
          \E verdict \in [targets -> {"begun", "deferred", "unavailable"}] :
             BeginAll(targets, r, verdict)
    /\ UNCHANGED <<phase, locked, task, failures>>

FinishCollect(c, caller, result) ==
    /\ caller # "task"
    /\ CollectDone(c, caller, result)
    /\ UNCHANGED <<phase, locked, task, failures>>

-----------------------------------------------------------------------------
(* _run_periodic. *)

\* The delay has passed.  A deferred or unavailable collection is over at once.
PeriodicTurn(c) ==
    /\ phase = "running"
    /\ task[c] = "sleeping"
    /\ \E v \in Verdicts(c) :
          /\ BeginAll({c}, "task", [x \in {c} |-> v])
          /\ IF v = "begun"
             THEN /\ task' = [task EXCEPT ![c] = "collecting"]
                  /\ UNCHANGED failures
             ELSE LET n == NextFailureCount(v, failures[c])
                  IN  /\ failures' = [failures EXCEPT ![c] = n]
                      /\ task' = [task EXCEPT ![c] = AfterTurn(n)]
    /\ UNCHANGED <<phase, locked>>

PeriodicDoneReturning(c, result) ==
    /\ phase = "running"
    /\ task[c] = "collecting"
    /\ CollectDone(c, "task", result)
    /\ LET n == NextFailureCount(result, failures[c])
       IN  /\ failures' = [failures EXCEPT ![c] = n]
           /\ task' = [task EXCEPT ![c] = IF result = "ok" THEN AfterTurn(n) ELSE "done"]
    /\ UNCHANGED <<phase, locked>>

PeriodicDone(c, result) ==
    /\ phase = "running"
    /\ task[c] = "collecting"
    /\ CollectDone(c, "task", result)
    /\ LET n == NextFailureCount(result, failures[c])
       IN  /\ failures' = [failures EXCEPT ![c] = n]
           /\ task' = [task EXCEPT ![c] = AfterTurn(n)]
    /\ UNCHANGED <<phase, locked>>

-----------------------------------------------------------------------------
(* _run_stream. *)

\* The top of the loop: the task has just been created, or a delay has passed.
StreamTurn(c) ==
    /\ phase = "running"
    /\ task[c] = "waiting"
    /\ \E v \in Verdicts(c) :
          /\ health' = [health EXCEPT ![c] = BuildHealth(@, StatusOf(v))]
          /\ \/ /\ v = "deferred"
                /\ failures' = [failures EXCEPT ![c] = 0]
                /\ UNCHANGED task
             \/ /\ v = "unavailable"
                /\ failures' = [failures EXCEPT ![c] = NextFailureCount(v, @)]
                /\ task' = [task EXCEPT ![c] = "gave up"]
             \/ /\ v = "begun"
                /\ task' = [task EXCEPT ![c] = "streaming"]
                /\ UNCHANGED failures
    /\ UNCHANGED <<phase, locked, flight, older, superseded, stale>>

\* The stream ends or raises: an error either way, and a retry after a delay.
StreamEndsForGood(c) ==
    /\ phase = "running"
    /\ task[c] = "streaming"
    /\ health' = [health EXCEPT ![c] = BuildHealth(@, "error")]
    /\ task' = [task EXCEPT ![c] = "done"]
    /\ UNCHANGED <<phase, locked, failures, flight, older, superseded, stale>>

StreamEnds(c) ==
    /\ phase = "running"
    /\ task[c] = "streaming"
    /\ health' = [health EXCEPT ![c] = BuildHealth(@, "error")]
    /\ LET n == NextFailureCount("error", failures[c])
       IN  /\ failures' = [failures EXCEPT ![c] = n]
           /\ task' = [task EXCEPT ![c] = AfterStream(n)]
    /\ UNCHANGED <<phase, locked, flight, older, superseded, stale>>

-----------------------------------------------------------------------------
(* stop(), as App.on_unmount calls it: the refreshes of the observer task have been *)
(* cancelled before, and the others go on.                                          *)

Stop(cancelled) ==
    /\ phase = "running"
    /\ phase' = "stopping"
    /\ flight' = [c \in Collectors |-> flight[c] \ cancelled]
    /\ older' = [c \in Collectors |-> [x \in Callers |->
                   IF x \in cancelled THEN {} ELSE older[c][x] \ cancelled]]
    /\ superseded' = [c \in Collectors |-> superseded[c] \ cancelled]
    /\ UNCHANGED <<locked, task, failures, stale, health>>

\* A cancelled task raises CancelledError where it waits; what it awaited is dropped and
\* its health record stays as it is.
CancelTaskUnlessStreaming(c) ==
    /\ phase = "stopping"
    /\ task[c] \notin Ended \cup {"streaming"}
    /\ task' = [task EXCEPT ![c] = "done"]
    /\ Leave(c, "task")
    /\ superseded' = [superseded EXCEPT ![c] = @ \ {"task"}]
    /\ UNCHANGED <<phase, locked, failures, stale, health>>

CancelTask(c) ==
    /\ phase = "stopping"
    /\ task[c] \notin Ended
    /\ task' = [task EXCEPT ![c] = "done"]
    /\ Leave(c, "task")
    /\ superseded' = [superseded EXCEPT ![c] = @ \ {"task"}]
    /\ UNCHANGED <<phase, locked, failures, stale, health>>

StopEnds ==
    /\ phase = "stopping"
    /\ \A c \in Collectors : task[c] \in Ended
    /\ phase' = "stopped"
    /\ UNCHANGED <<locked, task, failures, flight, older, superseded, stale, health>>

\* The interface's sudo state, which the gate reads, changes.
ToggleLock ==
    /\ locked' = ~locked
    /\ UNCHANGED <<phase, task, failures, flight, older, superseded, stale, health>>

-----------------------------------------------------------------------------
Init ==
    /\ phase = "new"
    /\ locked \in BOOLEAN
    /\ task = [c \in Collectors |-> "none"]
    /\ failures = [c \in Collectors |-> 0]
    /\ flight = [c \in Collectors |-> {}]
    /\ older = [c \in Collectors |-> [x \in Callers |-> {}]]
    /\ superseded = [c \in Collectors |-> {}]
    /\ stale = [c \in Collectors |-> FALSE]
    /\ health = [c \in Collectors |-> [status |-> "idle", last |-> "idle"]]

Next ==
    \/ Start
    \/ TasksReady
    \/ \E r \in Refreshers : RefreshNow(r)
    \/ \E c \in Collectors :
          \/ \E caller \in Callers, result \in {"ok", "error"} : FinishCollect(c, caller, result)
          \/ c \notin Streaming /\ PeriodicTurn(c)
          \/ \E result \in {"ok", "error"} : PeriodicDone(c, result)
          \/ c \in Streaming /\ StreamTurn(c)
          \/ StreamEnds(c)
          \/ CancelTask(c)
    \/ \E cancelled \in SUBSET Refreshers : Stop(cancelled)
    \/ StopEnds
    \/ ToggleLock

\* The event loop runs what is ready, timers expire, and a collection ends: its commands
\* run under a timeout.  Nothing ends a stream, asks for a refresh or stops the scheduler.
Fairness ==
    /\ WF_vars(TasksReady)
    /\ WF_vars(StopEnds)
    /\ \A c \in Collectors :
          /\ \A caller \in Callers : WF_vars(\E result \in {"ok", "error"} : FinishCollect(c, caller, result))
          /\ WF_vars(c \notin Streaming /\ PeriodicTurn(c))
          /\ WF_vars(\E result \in {"ok", "error"} : PeriodicDone(c, result))
          /\ WF_vars(c \in Streaming /\ StreamTurn(c))
          /\ WF_vars(CancelTask(c))

Spec == Init /\ [][Next]_vars
FairSpec == Spec /\ Fairness

-----------------------------------------------------------------------------
(* Properties. *)

Phases == {"new", "starting", "running", "stopping", "stopped"}
Statuses == {"idle", "running", "ok", "error"}
Health == [status : Statuses, last : Statuses \ {"running"}]

PeriodicStates == {"none", "sleeping", "collecting", "done", "crashed"}
StreamStates == {"none", "waiting", "streaming", "gave up", "done", "crashed"}

TypeOK ==
    /\ phase \in Phases
    /\ locked \in BOOLEAN
    /\ task \in [Collectors -> PeriodicStates \cup StreamStates]
    /\ \A c \in Collectors :
          task[c] \in IF c \in Streaming THEN StreamStates ELSE PeriodicStates
    /\ failures \in [Collectors -> 0 .. FailureCap]
    /\ flight \in [Collectors -> SUBSET Callers]
    /\ older \in [Collectors -> [Callers -> SUBSET Callers]]
    /\ superseded \in [Collectors -> SUBSET Callers]
    /\ stale \in [Collectors -> BOOLEAN]
    /\ health \in [Collectors -> Health]

\* Until the scheduler stops, a collector shown as running has a collection in flight or
\* a stream that runs: whichever caller began last, one that is still in flight will
\* overwrite the record when it ends.
RunningIsInFlight ==
    phase \notin {"stopping", "stopped"} =>
        \A c \in Collectors :
            health[c].status = "running" => flight[c] # {} \/ task[c] = "streaming"

\* No failure ends a collector's task; only a stream whose backend is missing gives up.
TasksOutliveFailures ==
    phase = "running" =>
        \A c \in Collectors :
            task[c] \in Ended => task[c] = "gave up" /\ c \in Streaming \cap Unreliable

\* While the gate is closed nothing that it defers begins, whoever asks: the bootstrap, a
\* periodic task, a stream task or a refresh (KeepsGate, below, implies it, and says more).
GateHolds ==
    [][\A c \in Gated : locked =>
          /\ flight'[c] \subseteq flight[c]
          /\ task'[c] = "streaming" => task[c] = "streaming"]_vars

\* Of the collectors behind the gate the scheduler is an implementation of GatedCollections: a
\* refresh that gathers several, the bootstrap, the tasks and their cancellation included.
GateOfScheduler == INSTANCE GatedCollections
    WITH flight <- [c \in Gated |-> flight[c]], open <- {c \in Gated : task[c] = "streaming"}
KeepsGate == GateOfScheduler!Spec

\* A periodic collector that can be collected is collected again and again, whatever the
\* results were.
PeriodicRecurs ==
    \A c \in Collectors \ (Streaming \cup Unreliable) :
        <>[](phase = "running" /\ ~Deferred(c)) => []<>(task[c] = "collecting")

\* A stream that ended or failed is opened again, unless its backend was missing.
StreamsReopen ==
    \A c \in Streaming :
        <>[](phase = "running" /\ ~Deferred(c) /\ task[c] # "gave up")
            => []<>(task[c] = "streaming")

\* The bootstrap ends and stop() returns.
LifecycleCompletes ==
    /\ phase = "starting" ~> phase \in {"running", "stopping", "stopped"}
    /\ phase = "stopping" ~> phase = "stopped"

\* store.py says the store "owns the latest normalized system state": what a collector last
\* published is not older than what it replaced.
LatestWins == \A c \in Collectors : ~stale[c]

-----------------------------------------------------------------------------
(* The inductive invariant behind the safety properties. *)

\* Tasks exist from the end of the bootstrap on, are cancelled only by stop(), and have
\* all ended when it returns.
TasksMatchPhase ==
    \A c \in Collectors :
        /\ phase \in {"new", "starting"} <=> task[c] = "none"
        /\ phase = "running" => task[c] # "done"
        /\ phase = "stopped" => task[c] \in Ended

\* A task has in flight what it awaits and nothing else; the bootstrap's collections are
\* over when start() returns.
FlightsBelongToTheirTask ==
    \A c \in Collectors :
        /\ "task" \in flight[c] <=> task[c] = "collecting"
        /\ "start" \in flight[c] => phase = "starting"

\* A task that ended by itself gave up a stream whose backend was missing, or failed more
\* often in a row than a float can be doubled.
TasksEndForAReason ==
    \A c \in Collectors :
        /\ task[c] = "gave up" => c \in Unreliable
        /\ task[c] = "crashed" => failures[c] > MaxExponent

IInv ==
    /\ TypeOK
    /\ TasksMatchPhase
    /\ FlightsBelongToTheirTask
    /\ RunningIsInFlight
    /\ TasksEndForAReason
=============================================================================
