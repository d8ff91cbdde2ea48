----------------------------- MODULE StateStore -----------------------------
(***************************************************************************)
(* The in-memory state store (runtime/store.py, class SystemStateStore)    *)
(* and the tasks that wait on it.                                          *)
(*                                                                         *)
(* Every operation of the store runs under one asyncio.Lock and awaits     *)
(* nothing while it holds it, so the lock is never contended and each      *)
(* operation is one step.  A task suspends only in `await waiter.wait()'.  *)
(*                                                                         *)
(* What a piece of the state contains does not matter here, only when it   *)
(* was last written: `writtenAt' maps each piece to the version that wrote *)
(* it.  The two lists hold, for each item, the version that appended it.   *)
(*                                                                         *)
(* SignalNewEvent, AppendKeepingOldest, AppendEventUnannounced,            *)
(* AppendEventAsSubsystem and TimeoutWithoutLook are faulty forms of the   *)
(* operation that follows: the model does not use them, they are there to  *)
(* show that the properties would notice.                                  *)
(***************************************************************************)
EXTENDS Integers, Sequences, FiniteSets

CONSTANTS
    Subsystems,      \* fields of SystemState; "logs" and "runtime" are among them
    Collectors,      \* names of the collectors that have a health record
    SubsystemOf,     \* the field each collector publishes
    Waiters,         \* tasks that wait for changes
    StateWaiters,    \* those that call wait_for_change and get the whole state
    EventLimit,      \* append_event's limit
    LogLimit,        \* append_log_entry's limit; the configuration allows 0 and less
    MaxVersion       \* bound of the model: number of changes explored

ASSUME NamesAssumption ==
    /\ {"logs", "runtime"} \subseteq Subsystems
    /\ SubsystemOf \in [Collectors -> Subsystems]
    /\ StateWaiters \subseteq Waiters

ASSUME LimitsAssumption ==
    /\ EventLimit \in Nat \ {0}
    /\ LogLimit \in Int
    /\ MaxVersion \in Nat

VARIABLES
    version,         \* _version
    lastChange,      \* _last_change, a StoreChange
    changed,         \* _changed, as the identity of the asyncio.Event
    fired,           \* the events that have been set
    writtenAt,       \* _state: the version at which each piece was last written
    events,          \* _state.events
    logs,            \* _state.logs.entries
    pc,              \* where each waiting task is
    since,           \* its argument `version'
    waiter,          \* the event it captured before it suspended
    notice           \* the StoreChange it was answered with

storeVars == <<version, lastChange, changed, fired, writtenAt, events, logs>>
waiterVars == <<pc, since, waiter, notice>>
vars == <<storeVars, waiterVars>>

-----------------------------------------------------------------------------
(* StoreChange, and the pieces of the state it speaks of. *)

StoreChange == [version : Nat, subsystems : SUBSET Subsystems,
                collectors : SUBSET Collectors, events : BOOLEAN, backends : BOOLEAN]

Stamps == [subsystems : [Subsystems -> Nat], collectors : [Collectors -> Nat],
           events : Nat, backends : Nat]

Summary(subsystems, collectors, ev, backends) ==
    [version |-> version + 1, subsystems |-> subsystems, collectors |-> collectors,
     events |-> ev, backends |-> backends]

\* StoreChange(version=v), which names no piece.
EmptyChange(v) ==
    [version |-> v, subsystems |-> {}, collectors |-> {}, events |-> FALSE, backends |-> FALSE]

\* The whole state as an answer: it leaves nothing out.
WholeState(v) ==
    [version |-> v, subsystems |-> Subsystems, collectors |-> Collectors,
     events |-> TRUE, backends |-> TRUE]

\* What an operation writes: the pieces themselves, not what it says of them.
Write(subsystems, collectors, ev, backends) ==
    writtenAt' =
        [subsystems |-> [s \in Subsystems |-> IF s \in subsystems THEN version + 1
                                              ELSE writtenAt.subsystems[s]],
         collectors |-> [c \in Collectors |-> IF c \in collectors THEN version + 1
                                              ELSE writtenAt.collectors[c]],
         events |-> IF ev THEN version + 1 ELSE writtenAt.events,
         backends |-> IF backends THEN version + 1 ELSE writtenAt.backends]

\* _signal_change_locked: a new event takes the place of the current one, which is set.
SignalNewEvent(change) ==
    /\ version' = version + 1
    /\ lastChange' = change
    /\ changed' = changed + 1
    /\ fired' = fired \cup {changed + 1}

SignalChange(change) ==
    /\ version' = version + 1
    /\ lastChange' = change
    /\ changed' = changed + 1
    /\ fired' = fired \cup {changed}

\* _append_bounded_locked: the oldest items make room for the new one.
AppendKeepingOldest(items, item, limit) ==
    IF limit <= 0 THEN <<>>
    ELSE LET longer == Append(items, item)
         IN  IF Len(longer) > limit THEN SubSeq(longer, 1, limit) ELSE longer

AppendBounded(items, item, limit) ==
    IF limit <= 0 THEN <<>>
    ELSE LET longer == Append(items, item)
             overflow == Len(longer) - limit
         IN  IF overflow > 0 THEN SubSeq(longer, overflow + 1, Len(longer)) ELSE longer

-----------------------------------------------------------------------------
(* The operations that write. *)

ReplaceState(kept) ==
    /\ Write(Subsystems, Collectors, TRUE, TRUE)
    /\ events' = kept
    /\ logs' = <<>>
    /\ SignalChange(Summary(Subsystems, Collectors, TRUE, TRUE))

UpdateSubsystem(s) ==
    /\ Write({s}, {}, FALSE, FALSE)
    /\ UNCHANGED <<events, logs>>
    /\ SignalChange(Summary({s}, {}, FALSE, FALSE))

\* With a value when the collection succeeded, without one otherwise.  A collected
\* LogsState brings a list of its own, here of one entry.
UpdateCollection(c, withValue) ==
    LET published == IF withValue THEN {SubsystemOf[c]} ELSE {}
    IN  /\ Write(published, {c}, FALSE, FALSE)
        /\ logs' = IF "logs" \in published THEN <<version + 1>> ELSE logs
        /\ UNCHANGED events
        /\ SignalChange(Summary(published, {c}, FALSE, FALSE))

UpdateHealth(c) ==
    /\ Write({}, {c}, FALSE, FALSE)
    /\ UNCHANGED <<events, logs>>
    /\ SignalChange(Summary({}, {c}, FALSE, FALSE))

SetBackendStatus ==
    /\ Write({}, {}, FALSE, TRUE)
    /\ UNCHANGED <<events, logs>>
    /\ SignalChange(Summary({"runtime"}, {}, FALSE, TRUE))

UpdateRuntimeContext ==
    /\ Write({"runtime"}, {}, FALSE, TRUE)
    /\ UNCHANGED <<events, logs>>
    /\ SignalChange(Summary({"runtime"}, {}, FALSE, TRUE))

AppendEventUnannounced ==
    /\ Write({}, {}, TRUE, FALSE)
    /\ events' = AppendBounded(events, version + 1, EventLimit)
    /\ UNCHANGED logs
    /\ SignalChange(Summary({}, {}, FALSE, FALSE))

AppendEventAsSubsystem ==
    /\ Write({}, {}, TRUE, FALSE)
    /\ events' = AppendBounded(events, version + 1, EventLimit)
    /\ UNCHANGED logs
    /\ SignalChange(Summary({"events"}, {}, TRUE, FALSE))

AppendEvent ==
    /\ Write({}, {}, TRUE, FALSE)
    /\ events' = AppendBounded(events, version + 1, EventLimit)
    /\ UNCHANGED logs
    /\ SignalChange(Summary({}, {}, TRUE, FALSE))

AppendLogEntry ==
    /\ Write({"logs"}, {}, FALSE, FALSE)
    /\ logs' = AppendBounded(logs, version + 1, LogLimit)
    /\ UNCHANGED events
    /\ SignalChange(Summary({"logs"}, {}, FALSE, FALSE))

\* replace_state installs a redacted state, whose log is empty and whose
\* events are those it had or, at startup, those of the cache file.
Change ==
    /\ version < MaxVersion
    /\ \/ \E kept \in {<<>>, events} : ReplaceState(kept)
       \/ \E s \in Subsystems \ {"logs", "runtime"} : UpdateSubsystem(s)
       \/ \E c \in Collectors, withValue \in BOOLEAN : UpdateCollection(c, withValue)
       \/ \E c \in Collectors : UpdateHealth(c)
       \/ SetBackendStatus
       \/ UpdateRuntimeContext
       \/ AppendEvent
       \/ AppendLogEntry
    /\ UNCHANGED waiterVars

-----------------------------------------------------------------------------
(* The operations that wait. *)

\* A task's local variables are reset once it has no more use for them.
NoEvent == -1

\* What a waiting task is told now.
Answer(w) == IF w \in StateWaiters THEN WholeState(version) ELSE lastChange

\* The body of the loop under the lock: answer, or capture the current event.
CheckVersion(w, v) ==
    /\ since' = [since EXCEPT ![w] = v]
    /\ \/ /\ version > v
          /\ pc' = [pc EXCEPT ![w] = "answered"]
          /\ notice' = [notice EXCEPT ![w] = Answer(w)]
          /\ waiter' = [waiter EXCEPT ![w] = NoEvent]
       \/ /\ version <= v
          /\ pc' = [pc EXCEPT ![w] = "blocked"]
          /\ waiter' = [waiter EXCEPT ![w] = changed]
          /\ notice' = [notice EXCEPT ![w] = EmptyChange(0)]
    /\ UNCHANGED storeVars

\* A call: the caller names a version it has seen.
WaitForChange(w, v) ==
    /\ pc[w] # "blocked"
    /\ v \in 0 .. version
    /\ CheckVersion(w, v)

\* The event the task waits on is set: it runs the loop again.
Wake(w) ==
    /\ pc[w] = "blocked"
    /\ waiter[w] \in fired
    /\ CheckVersion(w, since[w])

\* The timeout expires, perhaps after the event was set: one last look.
TimeoutWithoutLook(w) ==
    /\ pc[w] = "blocked"
    /\ pc' = [pc EXCEPT ![w] = "answered"]
    /\ notice' = [notice EXCEPT ![w] = IF w \in StateWaiters THEN WholeState(version)
                                       ELSE EmptyChange(version)]
    /\ waiter' = [waiter EXCEPT ![w] = NoEvent]
    /\ UNCHANGED <<storeVars, since>>

Timeout(w) ==
    /\ pc[w] = "blocked"
    /\ pc' = [pc EXCEPT ![w] = "answered"]
    /\ notice' = [notice EXCEPT ![w] =
                     IF w \in StateWaiters \/ version > since[w] THEN Answer(w)
                     ELSE EmptyChange(version)]
    /\ waiter' = [waiter EXCEPT ![w] = NoEvent]
    /\ UNCHANGED <<storeVars, since>>

\* The waiting task is cancelled: asyncio raises CancelledError in wait().
Cancel(w) ==
    /\ pc[w] = "blocked"
    /\ pc' = [pc EXCEPT ![w] = "idle"]
    /\ since' = [since EXCEPT ![w] = 0]
    /\ waiter' = [waiter EXCEPT ![w] = NoEvent]
    /\ UNCHANGED <<storeVars, notice>>

-----------------------------------------------------------------------------
Init ==
    /\ version = 0
    /\ lastChange = EmptyChange(0)
    /\ changed = 0
    /\ fired = {}
    /\ writtenAt = [subsystems |-> [s \in Subsystems |-> 0],
                    collectors |-> [c \in Collectors |-> 0], events |-> 0, backends |-> 0]
    /\ events = <<>>
    /\ logs = <<>>
    /\ pc = [w \in Waiters |-> "idle"]
    /\ since = [w \in Waiters |-> 0]
    /\ waiter = [w \in Waiters |-> NoEvent]
    /\ notice = [w \in Waiters |-> EmptyChange(0)]

Next ==
    \/ Change
    \/ \E w \in Waiters :
          \/ \E v \in 0 .. MaxVersion : WaitForChange(w, v)
          \/ Wake(w)
          \/ Timeout(w)
          \/ Cancel(w)

\* The event loop runs every task whose event is set.  Nothing makes a caller
\* call, a collector change the state, or a timeout exist.
Fairness == \A w \in Waiters : WF_vars(Wake(w))

Spec == Init /\ [][Next]_vars
FairSpec == Spec /\ Fairness
-----------------------------------------------------------------------------
(* Properties. *)

TypeOK ==
    /\ version \in 0 .. MaxVersion
    /\ lastChange \in StoreChange
    /\ changed \in Nat
    /\ fired \in SUBSET Nat
    /\ writtenAt \in Stamps
    /\ events \in Seq(Nat)
    /\ logs \in Seq(Nat)
    /\ pc \in [Waiters -> {"idle", "blocked", "answered"}]
    /\ since \in [Waiters -> Nat]
    /\ waiter \in [Waiters -> Int]
    /\ notice \in [Waiters -> StoreChange]

\* No wakeup is lost and none is spurious: a blocked task's event is set exactly when
\* something has changed since the version it named, and until then it is the very event
\* the next change will set.  _signal_change_locked swaps the event before setting the
\* old one, and the waiters capture it after they have compared versions.
NoLostWakeup ==
    \A w \in Waiters : pc[w] = "blocked" =>
        /\ waiter[w] \in fired <=> version > since[w]
        /\ waiter[w] \notin fired => waiter[w] = changed

\* The pieces written after version v.
WrittenSince(v) ==
    [subsystems |-> {s \in Subsystems : writtenAt.subsystems[s] > v},
     collectors |-> {c \in Collectors : writtenAt.collectors[c] > v},
     events |-> writtenAt.events > v, backends |-> writtenAt.backends > v]

\* A change summary names every piece written after version v.
Covers(change, v) ==
    LET written == WrittenSince(v)
    IN  /\ written.subsystems \subseteq change.subsystems
        /\ written.collectors \subseteq change.collectors
        /\ written.events => change.events
        /\ written.backends => change.backends

\* Every operation announces all it writes: _last_change carries the current version
\* and names each piece that version wrote.
SummaryCoversLastChange ==
    /\ lastChange.version = version
    /\ version > 0 => Covers(lastChange, version - 1)

\* A notice that is still current is complete when it skips no version, and an answer
\* that names the version asked about (a quiet timeout) is given only when nothing was
\* written.  The observer of the TUI relies on both.
CurrentNoticeCoversOneStep ==
    \A w \in Waiters :
        pc[w] = "answered" /\ notice[w].version = version /\ version <= since[w] + 1
            => Covers(notice[w], since[w])

\* The two lists stay within their limits and keep the newest items in order.
StrictlyIncreasing(items) == \A i, j \in 1 .. Len(items) : i < j => items[i] < items[j]

RetainsNewest ==
    /\ Len(events) <= EventLimit
    /\ StrictlyIncreasing(events) /\ StrictlyIncreasing(logs)
    /\ LogLimit > 0 => Len(logs) <= LogLimit
    /\ logs # <<>> => logs[Len(logs)] = writtenAt.subsystems["logs"]
    /\ lastChange.events /\ lastChange.subsystems = {}
          => events # <<>> /\ events[Len(events)] = version

\* The abstract promise, with events and captured waiters hidden.
requestState ==
    [w \in Waiters |-> CASE pc[w] = "blocked" -> "waiting"
                         [] pc[w] = "answered" -> "told"
                         [] pc[w] = "idle" -> "idle"]

toldVersion == [w \in Waiters |-> notice[w].version]

Promise == INSTANCE ChangeNotice WITH pc <- requestState, told <- toldVersion

\* The waiting tasks see what ChangeNotice promises: a task that waits is answered with
\* a newer version once there is one, and told "quiet" only while there is none.
KeepsPromise == Promise!Spec

-----------------------------------------------------------------------------
(* The inductive invariant behind the safety properties. *)

\* Events are set in the order they are created and the current one is not set.
FiredBeforeCurrent == \A e \in fired : e < changed

\* Nothing carries a version that does not exist yet.
NothingFromTheFuture ==
    /\ \A s \in Subsystems : writtenAt.subsystems[s] <= version
    /\ \A c \in Collectors : writtenAt.collectors[c] <= version
    /\ writtenAt.events <= version
    /\ writtenAt.backends <= version
    /\ \A w \in Waiters : since[w] <= version /\ notice[w].version <= version

\* The items of a list are changes that have been made.
ItemsArePast(items) == \A i \in 1 .. Len(items) : items[i] <= version

ListsInv == RetainsNewest /\ ItemsArePast(events) /\ ItemsArePast(logs)

IInv ==
    /\ TypeOK
    /\ FiredBeforeCurrent
    /\ NothingFromTheFuture
    /\ NoLostWakeup
    /\ SummaryCoversLastChange
    /\ CurrentNoticeCoversOneStep
=============================================================================
