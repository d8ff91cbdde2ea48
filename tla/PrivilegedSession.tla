-------------------------- MODULE PrivilegedSession --------------------------
(***************************************************************************)
(* The sudo session of the TUI (app.py, runtime/bootstrap.py,              *)
(* execution/auth.py): what the privileged collectors have published, what *)
(* the detail pane shows of it and what reaches the cache file, while the  *)
(* session is unlocked, expires and is unlocked again.                     *)
(*                                                                         *)
(* Two tasks act for the interface: the message pump, which runs the       *)
(* mount, unmount and key handlers one after the other, and the observer   *)
(* (_observe_state).  They interleave where they await: a sudo probe, a    *)
(* collection, _refresh_lock, or the widgets of a pane being exchanged.    *)
(* Of the scheduler this module keeps the collections of the collectors    *)
(* the gate defers (see CollectorScheduler); of the state, whether a       *)
(* privileged collector's value is in it.  Time is not modelled: a poll    *)
(* interval may have passed whenever the code looks.                       *)
(*                                                                         *)
(* SettleWithoutRedaction, MountTrustingCache, BeginUngated, DrawnLocked   *)
(* and PollWhenLocked are faulty forms of the definition that follows      *)
(* each; the model does not use them.                                      *)
(***************************************************************************)
EXTENDS FiniteSets

CONSTANTS
    Sections,       \* what the sidebar offers
    Privileged,     \* the sections that require authentication
    CollectorOf,    \* the collector of each privileged section
    Interactive,    \* the sections shown as a table, whose background redraws may be deferred
    Followable,     \* the section whose newest rows can be followed: the log
    Home,           \* the section shown first
    Collectors,     \* the collectors the gate defers (DEFERRED_SUBSYSTEMS)
    Streaming,      \* those that stream: the log collector
    LeftOnDisk      \* what an earlier run, or another version, may have left as the cache file

ASSUME SessionAssumption ==
    /\ Privileged \subseteq Sections
    /\ Followable \subseteq Interactive /\ Interactive \subseteq Sections
    /\ Home \in Sections \ Privileged
    /\ CollectorOf \in [Privileged -> Collectors]
    /\ Streaming \subseteq Collectors
    /\ LeftOnDisk \subseteq {"absent", "corrupt", "redacted", "private"}

VARIABLES
    sudo,           \* sudo's own credentials: cached or lapsed, or no sudo on the host (external)
    auth,           \* auth_state, told apart as _poll_... compares it: status and message
    unlockedOnce,   \* TRUE once auth_state has been authenticated
    answer,         \* per task, the answer of the sudo command it awaits
    previous,       \* previous_state of the poll
    pump,           \* where the message pump is
    observer,       \* where the observer task is
    selected,       \* selected_section
    live, follow,   \* live_updates_enabled and follow_enabled of the view
    pane,           \* what the detail pane holds: its kind, and whether it shows privileged data
    drawing,        \* the pane being mounted, by the task that holds _refresh_lock
    unseen,         \* TRUE if the store's version is not _observed_version
    streaming,      \* TRUE while a log stream is open
    flight,         \* per collector, who has a collection of it in flight
    data,           \* the collectors whose collected value is in the store
    disk            \* the cache file

sessionVars == <<auth, unlockedOnce, answer, previous>>
viewVars == <<selected, live, follow>>
paneVars == <<pane, drawing>>
collectVars == <<streaming, flight>>
vars == <<sudo, sessionVars, pump, observer, viewVars, paneVars, unseen, collectVars, data, disk>>

Tasks == {"pump", "observer"}
Callers == Tasks \cup {"task"}

\* SudoAuthState values, by their wording: "checking" before the first probe; "locked",
\* "timed out" and "unlocked" are a probe's, "rejected" and "accepted" authenticate()'s.
AuthStates == {"checking", "unavailable", "locked", "timed out", "rejected", "unlocked", "accepted"}
Authenticated(a) == a \in {"unlocked", "accepted"}

NoPane == [by |-> "nobody", kind |-> "static", secret |-> FALSE]

Locked(section) == section \in Privileged /\ ~Authenticated(auth)

-----------------------------------------------------------------------------
(* The sudo session. *)

SettleWithoutRedaction(task) ==
    /\ answer[task] # "none"
    /\ auth' = answer[task]
    /\ unlockedOnce' = (unlockedOnce \/ Authenticated(answer[task]))
    /\ answer' = [answer EXCEPT ![task] = "none"]
    /\ UNCHANGED <<data, unseen>>

\* An answer becomes auth_state, and redact_locked_privileged_state empties the store's
\* privileged values unless it is an authenticated one.  replace_state counts as a change
\* unless nothing was left to clear.
Settle(task) ==
    /\ answer[task] # "none"
    /\ auth' = answer[task]
    /\ unlockedOnce' = (unlockedOnce \/ Authenticated(answer[task]))
    /\ answer' = [answer EXCEPT ![task] = "none"]
    /\ IF Authenticated(answer[task]) THEN UNCHANGED <<data, unseen>>
       ELSE /\ data' = {}
            /\ unseen' \in IF data = {} THEN {unseen, TRUE} ELSE {TRUE}

\* auth.refresh(): sudo -n -v runs some time between the call and the answer; one that does
\* not return in time counts as a refusal.
Probing(task) ==
    \/ task = "pump" /\ pump \in {"mount probe", "unlock probe"}
    \/ task = "observer" /\ observer = "probe"

ProbeAnswers ==
    CASE sudo = "missing" -> {"unavailable"}
      [] sudo = "lapsed" -> {"locked"}
      [] sudo = "cached" -> {"unlocked", "timed out"}

ProbeSudo(task) ==
    /\ Probing(task) /\ answer[task] = "none"
    /\ \E said \in ProbeAnswers : answer' = [answer EXCEPT ![task] = said]
    /\ UNCHANGED <<sudo, auth, unlockedOnce, previous, pump, observer, viewVars, paneVars,
                   unseen, collectVars, data, disk>>

\* auth.authenticate(): sudo -S -v, with the password the user entered.
CheckPassword ==
    /\ pump = "password" /\ answer["pump"] = "none"
    /\ \/ /\ answer' = [answer EXCEPT !["pump"] = IF sudo = "missing" THEN "unavailable"
                                                 ELSE "rejected"]
          /\ UNCHANGED sudo
       \/ /\ sudo # "missing"
          /\ answer' = [answer EXCEPT !["pump"] = "accepted"]
          /\ sudo' = "cached"
    /\ UNCHANGED <<auth, unlockedOnce, previous, pump, observer, viewVars, paneVars, unseen,
                   collectVars, data, disk>>

\* sudo's credentials expire, or are renewed from elsewhere.
SudoChanges ==
    /\ sudo # "missing"
    /\ sudo' \in {"cached", "lapsed"} \ {sudo}
    /\ UNCHANGED <<sessionVars, pump, observer, viewVars, paneVars, unseen, collectVars, data,
                   disk>>

-----------------------------------------------------------------------------
(* Collections of the deferred collectors. *)

BeginUngated(caller, targets, a) ==
    flight' = [c \in Collectors |-> IF c \in targets THEN flight[c] \cup {caller} ELSE flight[c]]

\* The collections that refresh_now or start() gathers, behind the gate as of `a'.
Begin(caller, targets, a) ==
    flight' = [c \in Collectors |->
                 IF c \in targets /\ Authenticated(a) THEN flight[c] \cup {caller}
                 ELSE flight[c]]

InFlight(caller) == {c \in Collectors : caller \in flight[c]}

\* A collection ends and is published, with a value if it succeeded.
CollectEnds(c, caller) ==
    /\ caller \in flight[c]
    /\ flight' = [flight EXCEPT ![c] = @ \ {caller}]
    /\ data' \in {data, data \cup {c}}
    /\ unseen' = TRUE
    /\ UNCHANGED <<sudo, sessionVars, pump, observer, viewVars, paneVars, streaming, disk>>

\* The tasks run from the end of the bootstrap to the shutdown.
TasksRun == pump \notin {"new", "mount probe", "bootstrap", "stopping", "ended"}

TaskCollects(c) ==
    /\ TasksRun
    /\ c \notin Streaming /\ "task" \notin flight[c]
    /\ Authenticated(auth)
    /\ Begin("task", {c}, auth)
    /\ unseen' = TRUE
    /\ UNCHANGED <<sudo, sessionVars, pump, observer, viewVars, paneVars, streaming, data, disk>>

\* The gate is consulted when a stream is opened, not while it runs.
StreamOpens ==
    /\ TasksRun /\ Streaming # {}
    /\ ~streaming /\ Authenticated(auth)
    /\ streaming' = TRUE
    /\ unseen' = TRUE
    /\ UNCHANGED <<sudo, sessionVars, pump, observer, viewVars, paneVars, flight, data, disk>>

StreamLine ==
    /\ streaming
    /\ data' = data \cup Streaming
    /\ unseen' = TRUE
    /\ UNCHANGED <<sudo, sessionVars, pump, observer, viewVars, paneVars, collectVars, disk>>

StreamEnds ==
    /\ streaming
    /\ streaming' = FALSE
    /\ unseen' = TRUE
    /\ UNCHANGED <<sudo, sessionVars, pump, observer, viewVars, paneVars, flight, data, disk>>

\* Any other collector publishes.
OtherChange ==
    /\ TasksRun
    /\ unseen' = TRUE
    /\ UNCHANGED <<sudo, sessionVars, pump, observer, viewVars, paneVars, collectVars, data, disk>>

-----------------------------------------------------------------------------
(* _refresh_from_store. *)

\* What _render_detail_content shows of the store now.
Content ==
    [kind |-> IF selected \in Interactive /\ ~Locked(selected) THEN "table" ELSE "static",
     secret |-> /\ selected \in Privileged /\ ~Locked(selected)
                /\ CollectorOf[selected] \in data]

\* Where a task goes when its refresh is over.
Rest(task) ==
    /\ pump' = IF task = "pump" THEN "idle" ELSE pump
    /\ observer' = IF task = "observer" THEN "waiting" ELSE observer

\* With _refresh_lock: a pane of the same kind is updated in place, another one is unmounted
\* and mounted, which awaits.
Draw(task) ==
    /\ unseen' = FALSE
    /\ IF Content.kind = pane.kind
       THEN /\ pane' = Content
            /\ Rest(task)
            /\ UNCHANGED drawing
       ELSE /\ pane' = [pane EXCEPT !.secret = FALSE]
            /\ drawing' = [by |-> task, kind |-> Content.kind, secret |-> Content.secret]
            /\ pump' = IF task = "pump" THEN "drawing" ELSE pump
            /\ observer' = IF task = "observer" THEN "drawing" ELSE observer

DrawnLocked(task) ==
    /\ drawing.by = task
    /\ pane' = [kind |-> drawing.kind, secret |-> drawing.secret]
    /\ Rest(task)
    /\ UNCHANGED <<sudo, sessionVars, viewVars, unseen, collectVars, data, disk, drawing>>

Drawn(task) ==
    /\ drawing.by = task
    /\ pane' = [kind |-> drawing.kind, secret |-> drawing.secret]
    /\ drawing' = NoPane
    /\ Rest(task)
    /\ UNCHANGED <<sudo, sessionVars, viewVars, unseen, collectVars, data, disk>>

\* _should_defer_detail_refresh: the table is paused, or neither followed nor drawn long ago.
MayDefer == selected \in Interactive /\ (~live \/ (selected \in Followable /\ ~follow))
MustDefer == selected \in Interactive /\ ~live

\* A background refresh of the observer; `relevant' as _store_change_affects_detail has it.
Background(relevant) ==
    \/ /\ relevant /\ ~MustDefer
       /\ Draw("observer")
    \/ /\ ~relevant \/ MayDefer
       /\ unseen' = FALSE
       /\ Rest("observer")
       /\ UNCHANGED paneVars

-----------------------------------------------------------------------------
(* The message pump. *)

MountTrustingCache ==
    /\ pump = "new"
    /\ data' = IF disk = "private" THEN Collectors ELSE {}
    /\ disk' = IF disk = "corrupt" THEN "absent" ELSE disk
    /\ pump' = "mount probe"
    /\ UNCHANGED <<sudo, sessionVars, observer, viewVars, paneVars, unseen, collectVars>>

\* on_mount: prime_runtime_store redacts whatever the file holds; a corrupt one is set aside.
Mount ==
    /\ pump = "new"
    /\ data' = {}
    /\ disk' = IF disk = "corrupt" THEN "absent" ELSE disk
    /\ pump' = "mount probe"
    /\ UNCHANGED <<sudo, sessionVars, observer, viewVars, paneVars, unseen, collectVars>>

\* ... then the first probe, and the bootstrap collections.
MountProbed ==
    /\ pump = "mount probe"
    /\ Settle("pump")
    /\ Begin("pump", Collectors, answer["pump"])
    /\ pump' = "bootstrap"
    /\ UNCHANGED <<sudo, previous, observer, viewVars, paneVars, streaming, disk>>

BootstrapReturns ==
    /\ pump = "bootstrap" /\ InFlight("pump") = {}
    /\ pump' = "refresh" /\ observer' = "waiting"
    /\ UNCHANGED <<sudo, sessionVars, viewVars, paneVars, unseen, collectVars, data, disk>>

\* action_refresh_now.
PressRefresh ==
    /\ pump = "idle"
    /\ Begin("pump", Collectors \ Streaming, auth)
    /\ unseen' = TRUE
    /\ pump' = "collect"
    /\ UNCHANGED <<sudo, sessionVars, observer, viewVars, paneVars, streaming, data, disk>>

\* _activate_category and _activate_section, down to the new view of _reset_detail_stack.
Choose(section) ==
    /\ pump = "idle" /\ section # selected
    /\ selected' = section
    /\ live' = TRUE /\ follow' = TRUE
    /\ pump' = "refresh"
    /\ UNCHANGED <<sudo, sessionVars, observer, paneVars, unseen, collectVars, data, disk>>

\* action_toggle_live_updates, action_toggle_follow and action_cycle_sort, which stops following.
ChangeView ==
    /\ pump = "idle" /\ selected \in Interactive
    /\ \/ live' = ~live /\ UNCHANGED follow
       \/ /\ follow' \in IF selected \in Followable THEN {~follow, FALSE} ELSE {follow}
          /\ UNCHANGED live
    /\ pump' = "refresh"
    /\ UNCHANGED <<sudo, sessionVars, observer, selected, paneVars, unseen, collectVars, data,
                   disk>>

\* action_unlock_section: probe first, ask for the password only if that does not unlock.
PressUnlock ==
    /\ pump = "idle" /\ selected \in Privileged
    /\ pump' = "unlock probe"
    /\ UNCHANGED <<sudo, sessionVars, observer, viewVars, paneVars, unseen, collectVars, data,
                   disk>>

UnlockProbed ==
    /\ pump = "unlock probe"
    /\ Settle("pump")
    /\ pump' = IF Authenticated(answer["pump"]) THEN "refresh" ELSE "modal"
    /\ UNCHANGED <<sudo, previous, observer, viewVars, paneVars, collectVars, disk>>

\* The dialog is cancelled, or submitted.  (An empty password is rejected without sudo.)
Dismiss ==
    /\ pump = "modal"
    /\ pump' \in {"idle", "password"}
    /\ UNCHANGED <<sudo, sessionVars, observer, viewVars, paneVars, unseen, collectVars, data,
                   disk>>

\* _handle_unlock_result.
PasswordChecked ==
    /\ pump = "password"
    /\ Settle("pump")
    /\ Begin("pump", {CollectorOf[selected]}, answer["pump"])
    /\ pump' = IF Authenticated(answer["pump"]) THEN "collect" ELSE "idle"
    /\ UNCHANGED <<sudo, previous, observer, viewVars, paneVars, streaming, disk>>

PumpCollected ==
    /\ pump = "collect" /\ InFlight("pump") = {}
    /\ pump' = "refresh"
    /\ UNCHANGED <<sudo, sessionVars, observer, viewVars, paneVars, unseen, collectVars, data,
                   disk>>

PumpRefreshes ==
    /\ pump = "refresh" /\ drawing = NoPane
    /\ Draw("pump")
    /\ UNCHANGED <<sudo, sessionVars, viewVars, collectVars, data, disk>>

\* on_unmount: the observer is cancelled, with what it awaits.
Quit ==
    /\ pump = "idle"
    /\ pump' = "stopping" /\ observer' = "off"
    /\ flight' = [c \in Collectors |-> flight[c] \ {"observer"}]
    /\ answer' = [answer EXCEPT !["observer"] = "none"]
    /\ drawing' = NoPane
    /\ UNCHANGED <<sudo, auth, unlockedOnce, previous, viewVars, pane, unseen, streaming, data,
                   disk>>

\* ... the scheduler is stopped and a redacted snapshot saved; cache.save() may fail.
Save ==
    /\ pump = "stopping"
    /\ pump' = "ended"
    /\ flight' = [c \in Collectors |-> {}]
    /\ streaming' = FALSE
    /\ disk' \in {"redacted", disk}
    /\ UNCHANGED <<sudo, sessionVars, observer, viewVars, paneVars, unseen, data>>

-----------------------------------------------------------------------------
(* The observer. *)

\* Its notice names the last change only: whether it concerns the selected section varies,
\* unless the section is locked (_store_change_affects_detail).
Relevance == IF Locked(selected) THEN {FALSE} ELSE BOOLEAN

Notice ==
    /\ observer = "waiting" /\ unseen /\ drawing = NoPane
    /\ \E relevant \in Relevance : Background(relevant)
    /\ UNCHANGED <<sudo, sessionVars, viewVars, collectVars, data, disk>>

\* The pump holds _refresh_lock.  If the version moves on meanwhile the notice is dropped,
\* and everything counts as changed.
NoticeBlocked ==
    /\ observer = "waiting" /\ unseen /\ drawing # NoPane
    /\ observer' = "notice"
    /\ unseen' = FALSE
    /\ UNCHANGED <<sudo, sessionVars, pump, viewVars, paneVars, collectVars, data, disk>>

NoticeUnblocked ==
    /\ observer = "notice" /\ drawing = NoPane
    /\ \E relevant \in IF unseen THEN {TRUE} ELSE Relevance : Background(relevant)
    /\ UNCHANGED <<sudo, sessionVars, viewVars, collectVars, data, disk>>

\* _poll_selected_section_auth_state, when nothing has changed for a while.
PollWhenLocked ==
    /\ observer = "waiting" /\ ~unseen
    /\ Locked(selected)
    /\ observer' = "probe"
    /\ previous' = auth
    /\ UNCHANGED <<sudo, auth, unlockedOnce, answer, pump, viewVars, paneVars, unseen,
                   collectVars, data, disk>>

Poll ==
    /\ observer = "waiting" /\ ~unseen
    /\ selected \in Privileged
    /\ observer' = "probe"
    /\ previous' = auth
    /\ UNCHANGED <<sudo, auth, unlockedOnce, answer, pump, viewVars, paneVars, unseen,
                   collectVars, data, disk>>

PollProbed ==
    /\ observer = "probe"
    /\ Settle("observer")
    /\ LET changed == answer["observer"] # previous
           collects == changed /\ Authenticated(answer["observer"]) /\ selected \in Privileged
       IN  /\ Begin("observer", IF collects THEN {CollectorOf[selected]} ELSE {},
                    answer["observer"])
           /\ observer' = IF ~changed THEN "waiting" ELSE IF collects THEN "collect" ELSE "redraw"
    /\ previous' = "checking"
    /\ UNCHANGED <<sudo, pump, viewVars, paneVars, streaming, disk>>

ObserverCollected ==
    /\ observer = "collect" /\ InFlight("observer") = {}
    /\ observer' = "redraw"
    /\ UNCHANGED <<sudo, sessionVars, pump, viewVars, paneVars, unseen, collectVars, data, disk>>

ObserverRedraws ==
    /\ observer = "redraw" /\ drawing = NoPane
    /\ Background(TRUE)
    /\ UNCHANGED <<sudo, sessionVars, viewVars, collectVars, data, disk>>

\* The process is killed: nothing is saved.
Crash ==
    /\ pump # "ended"
    /\ pump' = "ended" /\ observer' = "off"
    /\ flight' = [c \in Collectors |-> {}]
    /\ streaming' = FALSE
    /\ drawing' = NoPane
    /\ answer' = [t \in Tasks |-> "none"]
    /\ UNCHANGED <<sudo, auth, unlockedOnce, previous, viewVars, pane, unseen, data, disk>>

-----------------------------------------------------------------------------
Init ==
    /\ sudo \in {"cached", "lapsed", "missing"}
    /\ auth = "checking" /\ unlockedOnce = FALSE /\ previous = "checking"
    /\ answer = [t \in Tasks |-> "none"]
    /\ pump = "new" /\ observer = "off"
    /\ selected = Home /\ live = TRUE /\ follow = TRUE
    /\ pane = [kind |-> "static", secret |-> FALSE] /\ drawing = NoPane
    /\ unseen = TRUE
    /\ streaming = FALSE /\ flight = [c \in Collectors |-> {}]
    /\ data = {}
    /\ disk \in LeftOnDisk

UserActs ==
    \/ PressRefresh
    \/ \E section \in Sections : Choose(section)
    \/ ChangeView
    \/ PressUnlock
    \/ Dismiss
    \/ Quit

PumpActs ==
    \/ Mount \/ MountProbed \/ BootstrapReturns
    \/ UnlockProbed \/ CheckPassword \/ PasswordChecked
    \/ PumpCollected \/ PumpRefreshes \/ Drawn("pump") \/ Save

ObserverActs ==
    \/ Notice \/ NoticeBlocked \/ NoticeUnblocked
    \/ PollProbed \/ ObserverCollected \/ ObserverRedraws \/ Drawn("observer")

CollectorActs ==
    \/ \E c \in Collectors : TaskCollects(c)
    \/ StreamOpens \/ StreamLine \/ StreamEnds \/ OtherChange

Next ==
    \/ UserActs \/ PumpActs \/ ObserverActs \/ CollectorActs
    \/ Poll
    \/ \E task \in Tasks : ProbeSudo(task)
    \/ \E c \in Collectors, caller \in Callers : CollectEnds(c, caller)
    \/ SudoChanges \/ Crash

\* The event loop runs what is ready, a poll interval passes, sudo answers within its timeout
\* and a collection ends.  The queue of asyncio.Lock is first in first out, so a refresh of the
\* pump gets its turn.  The user, the other collectors and sudo's expiry are not fair.
Fairness ==
    /\ SF_vars(PumpRefreshes)
    /\ WF_vars(PumpActs) /\ WF_vars(ObserverActs) /\ WF_vars(Poll)
    /\ \A task \in Tasks : WF_vars(ProbeSudo(task))
    /\ \A c \in Collectors, caller \in Callers : WF_vars(CollectEnds(c, caller))

Spec == Init /\ [][Next]_vars
FairSpec == Spec /\ Fairness

-----------------------------------------------------------------------------
(* Properties. *)

PumpStates == {"new", "mount probe", "bootstrap", "unlock probe", "modal", "password", "collect",
               "refresh", "drawing", "idle", "stopping", "ended"}
ObserverStates == {"off", "waiting", "notice", "probe", "collect", "redraw", "drawing"}
Pane == [kind : {"static", "table"}, secret : BOOLEAN]

TypeOK ==
    /\ sudo \in {"cached", "lapsed", "missing"} /\ unlockedOnce \in BOOLEAN
    /\ auth \in AuthStates /\ previous \in AuthStates
    /\ answer \in [Tasks -> AuthStates \cup {"none"}]
    /\ pump \in PumpStates /\ observer \in ObserverStates
    /\ selected \in Sections /\ live \in BOOLEAN /\ follow \in BOOLEAN
    /\ pane \in Pane
    /\ drawing \in [by : Tasks \cup {"nobody"}, kind : {"static", "table"}, secret : BOOLEAN]
    /\ unseen \in BOOLEAN /\ streaming \in BOOLEAN
    /\ flight \in [Collectors -> SUBSET Callers]
    /\ data \in SUBSET Collectors
    /\ disk \in {"absent", "corrupt", "redacted", "private"}

\* A step that locks the session empties the store of privileged values, whichever task takes
\* it: the unlock key, a refused password or the observer's poll.
LockingClears ==
    [][Authenticated(auth) /\ ~Authenticated(auth') => data' = {}]_vars

\* Until the session is unlocked for the first time nothing privileged is in the store, on
\* its way to it or on the screen, whatever the cache file held.
NothingBeforeUnlock ==
    ~unlockedOnce =>
        /\ data = {} /\ ~streaming
        /\ \A c \in Collectors : flight[c] = {}
        /\ ~pane.secret /\ ~drawing.secret

\* The collections of the session are those of GatedCollections, which CollectorScheduler also
\* implements: none begins behind the gate, be it an unlock, a poll or an expiry that races it.
GateOfSession == INSTANCE GatedCollections
    WITH Gated <- Collectors, locked <- ~Authenticated(auth),
         open <- IF streaming THEN Streaming ELSE {}
KeepsGate == GateOfSession!Spec

\* The invariant behind them: the pane being drawn belongs to the task that awaits it, an
\* unlocked session was unlocked by an answer, and the observer starts after the bootstrap.
LockHolderDraws ==
    \A task \in Tasks :
        drawing.by = task <=> (IF task = "pump" THEN pump ELSE observer) = "drawing"
UnlockedByAnAnswer == Authenticated(auth) => unlockedOnce
ObserverStartsLate == pump \in {"new", "mount probe", "bootstrap"} => observer = "off"
SessionInv ==
    /\ TypeOK /\ NothingBeforeUnlock /\ LockHolderDraws
    /\ UnlockedByAnAnswer /\ ObserverStartsLate

\* A handler the pump runs ends: the key handlers come back for the next key.
InterfaceResponds ==
    pump \in PumpStates \ {"idle", "modal", "ended"} ~> pump \in {"idle", "modal", "ended"}

\* While a privileged section is shown and the store is quiet, the loss of sudo's credentials
\* is noticed.
ExpiryNoticed ==
    <>[](sudo = "lapsed" /\ pump = "idle" /\ selected \in Privileged /\ ~unseen)
        => <>[]~Authenticated(auth)

\* "Privileged subsystems fail closed" (README.md): the store holds no privileged value while
\* the session is locked.
FailsClosed == ~Authenticated(auth) => data = {}

\* "Privileged data is hidden until sudo authentication is unlocked" (bootstrap.py): when the
\* session stays locked, and nothing else keeps the observer from polling, the pane in the end
\* shows none of it.
LockedPaneIsHidden ==
    <>[](~Authenticated(auth) /\ pump = "idle" /\ ~unseen) => <>[]~pane.secret
=============================================================================
