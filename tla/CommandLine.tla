----------------------------- MODULE CommandLine -----------------------------
(***************************************************************************)
(* Runs of the command line interface (cli/main.py) that share the state   *)
(* cache (runtime/cache.py) and an output file.                            *)
(*                                                                         *)
(* A run is one process: it loads the cache, probes sudo, perhaps asks for *)
(* the password, collects, saves the redacted snapshot and emits its       *)
(* report.  Both files are replaced the same way, call by call.  Each call *)
(* may fail; a process may be killed between two of them; the machine may  *)
(* lose power, and with it the data of files that were not synced and the  *)
(* latest changes of the directory, which the program never syncs.         *)
(*                                                                         *)
(* A file's content is abstracted to the subsystems it holds data of.      *)
(*                                                                         *)
(* The definitions named after a fault (SyncSkipped, PrimeTrusting, ...)   *)
(* are faulty forms of the one they precede; the model does not use them.  *)
(***************************************************************************)
EXTENDS Naturals, FiniteSets

CONSTANTS
    Runs,          \* processes
    Sections,      \* sections the command line knows, SECTIONS
    Privileged,    \* PRIVILEGED_SECTIONS
    Subsystems,    \* fields of SystemState
    Collected,     \* subsystems that have a collector
    Streaming,     \* those whose collector is a streaming one
    Deferred,      \* DEFERRED_SUBSYSTEMS, what the collection gate asks about
    Redacted,      \* _LOCKED_PRIVILEGED_SUBSYSTEMS, what the redaction clears
    SubsystemOf,   \* the subsystem of a section's policy, or NoSubsystem
    NoSubsystem,
    PayloadOf,     \* the subsystems section_payload_data returns
    RenderedOf,    \* the subsystems format_state_section reads
    StatusBar,     \* the subsystems format_status_bar reads
    RequestsOf,    \* the command lines each process may be started with
    HeldBefore,    \* what the cache of an earlier run may hold
    MaxFaults      \* bound of the model: failing calls but unlink, kills, interrupts, power losses

Earlier == "earlier"
Unresolved == {"all", "unknown"}

Request == [command : {"status", "scan"}, targets : SUBSET (Sections \cup Unresolved),
            cached : BOOLEAN, json : BOOLEAN, unlock : BOOLEAN, follow : BOOLEAN,
            output : BOOLEAN]

ASSUME RequestsAssumption ==
    /\ RequestsOf \in [Runs -> SUBSET Request]
    /\ HeldBefore \subseteq SUBSET Subsystems
    /\ MaxFaults \in Nat

ASSUME SectionsAssumption ==
    /\ Privileged \subseteq Sections
    /\ Sections \cap Unresolved = {}
    /\ SubsystemOf \in [Sections -> Subsystems \cup {NoSubsystem}]
    /\ NoSubsystem \notin Subsystems
    /\ PayloadOf \in [Sections -> SUBSET Subsystems]
    /\ RenderedOf \in [Sections -> SUBSET Subsystems]
    /\ StatusBar \subseteq Subsystems
    /\ "runtime" \in Subsystems \ Collected
    /\ "logs" \in Subsystems
    /\ "Logs" \in Sections => SubsystemOf["Logs"] = "logs"
    /\ Collected \subseteq Subsystems
    /\ Streaming \subseteq Collected
    /\ Earlier \notin Runs

\* Two tables kept by hand: what waits for an unlock must also be what is cleared.
ASSUME RedactionCovers ==
    /\ Deferred \subseteq Redacted
    /\ Redacted \subseteq Collected

VARIABLES
    cache, report,          \* what a reader of each file finds now
    cacheDisk, reportDisk,  \* what it may find after a power failure
    faults,                 \* how many there have been
    request,                \* the arguments of a process
    pc, exit,               \* where it is, and how it ended
    cancelled,              \* Ctrl+C was pressed: the next await raises
    auth,                   \* context.auth_state.status
    store,                  \* the subsystems its store holds data of
    attempted,              \* those it collected, successfully or not
    shown,                  \* those its report shows
    target,                 \* the file it is writing
    temp,                   \* its temporary files
    named,                  \* temp_path is assigned
    failed                  \* the calls that failed while it wrote each file

files == <<cache, report, cacheDisk, reportDisk>>
session == <<request, cancelled, auth, store, attempted, shown>>
writing == <<target, temp, named, failed>>
vars == <<files, faults, session, pc, exit, writing>>

-----------------------------------------------------------------------------
(* Files. *)

Targets == {"cache", "report"}

Content == [kind : {"whole", "torn", "corrupt", "undecodable", "absent"},
            by : Runs \cup {Earlier}, holds : SUBSET Subsystems, synced : BOOLEAN]

Foreign(kind) == [kind |-> kind, by |-> Earlier, holds |-> {}, synced |-> TRUE]
Absent == Foreign("absent")

\* The cache of an earlier run, of a version that may have redacted less; or a damaged one.
FoundCaches ==
    {Absent, Foreign("corrupt"), Foreign("undecodable")}
        \cup {[kind |-> "whole", by |-> Earlier, holds |-> held, synced |-> TRUE] :
                 held \in HeldBefore}

FoundReports == {[Absent EXCEPT !.kind = "whole"]}

\* What the power failure leaves of a file that the directory still names.
Surviving(content) ==
    IF content.synced THEN content ELSE [content EXCEPT !.kind = "torn", !.synced = TRUE]

Fault == faults < MaxFaults /\ faults' = faults + 1

-----------------------------------------------------------------------------
(* The request: _resolve_section_names, _validate_follow_usage. *)

Resolves(targets) ==
    /\ targets # {}
    /\ "unknown" \notin targets
    /\ "all" \in targets => targets = {"all"}

SectionNames(r) == IF "all" \in request[r].targets THEN Sections ELSE request[r].targets

FollowIsValid(r) ==
    request[r].follow =>
        /\ ~request[r].cached /\ ~request[r].json /\ ~request[r].output
        /\ SectionNames(r) = {"Logs"}

Authenticated(r) == auth[r] = "authenticated"

At(r, label) == pc[r] = label /\ exit[r] = "running"
Goto(r, label) == pc' = [pc EXCEPT ![r] = label] /\ UNCHANGED exit
Exit(r, code) == pc' = [pc EXCEPT ![r] = "ended"] /\ exit' = [exit EXCEPT ![r] = code]

Start(r) ==
    /\ At(r, "start")
    /\ IF request[r].command = "scan" /\ (~Resolves(request[r].targets) \/ ~FollowIsValid(r))
       THEN Exit(r, "error")
       ELSE Goto(r, "load")
    /\ UNCHANGED <<files, faults, session, writing>>

-----------------------------------------------------------------------------
(* prime_runtime_store: JSONStateCache.load, the redaction of what it      *)
(* returns, and the detection of the runtime context.                      *)

PrimeTrusting(r, held) == store' = [store EXCEPT ![r] = held \cup {"runtime"}]

Prime(r, held) == store' = [store EXCEPT ![r] = (held \ Redacted) \cup {"runtime"}]

LoadExists(r) ==
    /\ At(r, "load")
    /\ IF cache = Absent
       THEN Prime(r, {}) /\ Goto(r, "probe")
       ELSE Goto(r, "read") /\ UNCHANGED store
    /\ UNCHANGED <<files, faults, request, cancelled, auth, attempted, shown, writing>>

\* A file that is gone, unreadable or not a SystemState leads to the quarantine; one that is
\* not UTF-8 raises UnicodeDecodeError, which load() does not catch.
LoadReads(r) ==
    /\ At(r, "read")
    /\ \/ /\ cache.kind = "whole"
          /\ Prime(r, cache.holds)
          /\ Goto(r, "probe")
          /\ UNCHANGED faults
       \/ /\ cache.kind = "undecodable"
          /\ Exit(r, "traceback")
          /\ UNCHANGED <<store, faults>>
       \/ /\ cache.kind \in {"torn", "corrupt", "absent"}
          /\ Goto(r, "quarantine")
          /\ UNCHANGED <<store, faults>>
       \/ /\ Fault                        \* read_text raises OSError
          /\ Goto(r, "quarantine")
          /\ UNCHANGED store
    /\ UNCHANGED <<files, request, cancelled, auth, attempted, shown, writing>>

\* _quarantine_corrupt_cache moves away whatever has the name by now, or fails to.
Quarantine(r) ==
    /\ At(r, "quarantine")
    /\ \/ cache' = Absent /\ cacheDisk' = cacheDisk \cup {Absent} /\ UNCHANGED faults
       \/ Fault /\ UNCHANGED <<cache, cacheDisk>>
    /\ Prime(r, {})
    /\ Goto(r, "probe")
    /\ UNCHANGED <<report, reportDisk, request, cancelled, auth, attempted, shown,
                   writing>>

-----------------------------------------------------------------------------
(* The sudo session and the collection. *)

MustUnlock(r, status) ==
    /\ request[r].unlock
    /\ SectionNames(r) \cap Privileged # {}
    /\ status # "authenticated"

\* Where a run goes once it knows what it may collect; _follow_logs insists on sudo.
Proceed(r, status) ==
    CASE request[r].command = "status" -> Goto(r, "save")
      [] request[r].command = "scan" /\ request[r].follow ->
            IF status = "authenticated" THEN Goto(r, "collect") ELSE Exit(r, "error")
      [] OTHER -> Goto(r, IF request[r].cached THEN "save" ELSE "collect")

\* auth.refresh(), the redaction of the store, and _maybe_unlock_sections up to the prompt.
Probe(r) ==
    /\ At(r, "probe") /\ ~cancelled[r]
    /\ \E status \in {"unavailable", "locked", "authenticated"} :
        /\ auth' = [auth EXCEPT ![r] = status]
        /\ store' = [store EXCEPT ![r] = IF status = "authenticated" THEN @ ELSE @ \ Redacted]
        /\ IF request[r].command = "scan" /\ MustUnlock(r, status)
           THEN IF status = "unavailable" THEN Exit(r, "error") ELSE Goto(r, "password")
           ELSE Proceed(r, status)
    /\ UNCHANGED <<files, faults, request, cancelled, attempted, shown, writing>>

\* _prompt_for_sudo: context.auth_state changes only on success.
EnterPassword(r) ==
    /\ At(r, "password") /\ ~cancelled[r]
    /\ \/ /\ auth' = [auth EXCEPT ![r] = "authenticated"]
          /\ Proceed(r, "authenticated")
       \/ /\ Exit(r, "error")
          /\ UNCHANGED auth
    /\ UNCHANGED <<files, faults, request, cancelled, store, attempted, shown, writing>>

\* _refresh_sections: everything that does not stream when a section has no subsystem of its
\* own, otherwise the subsystems of the sections; _follow_logs asks for the logs.
RefreshTargetsOfFirst(r) ==
    IF request[r].follow THEN {"logs"} \cap Collected
    ELSE {SubsystemOf[CHOOSE s \in SectionNames(r) : TRUE]} \cap Collected

RefreshTargets(r) ==
    IF request[r].follow THEN {"logs"} \cap Collected
    ELSE IF \E s \in SectionNames(r) : SubsystemOf[s] = NoSubsystem THEN Collected \ Streaming
    ELSE {SubsystemOf[s] : s \in SectionNames(r)} \cap Collected

\* The collection gate of _create_cli_runtime.
MayCollectAll(r) == Collected
MayCollect(r) == IF Authenticated(r) THEN Collected ELSE Collected \ Deferred

\* The collections end, each with a value or without one.
Collect(r) ==
    /\ At(r, "collect") /\ ~cancelled[r]
    /\ LET begun == RefreshTargets(r) \cap MayCollect(r)
       IN  /\ attempted' = [attempted EXCEPT ![r] = begun]
           /\ \E values \in SUBSET begun : store' = [store EXCEPT ![r] = @ \cup values]
    /\ Goto(r, IF request[r].follow THEN "follow" ELSE "save")
    /\ UNCHANGED <<files, faults, request, cancelled, auth, shown, writing>>

\* _print_section and then the stream, until it ends; nothing is saved.
Follow(r) ==
    /\ At(r, "follow") /\ ~cancelled[r]
    /\ shown' = [shown EXCEPT ![r] = (RenderedOf["Logs"] \cup StatusBar) \cap store[r]]
    /\ Exit(r, "ok")
    /\ UNCHANGED <<files, faults, request, cancelled, auth, store, attempted, writing>>

-----------------------------------------------------------------------------
(* Replacing a file: JSONStateCache.save and _write_output_file, which     *)
(* differ in what they do about a failure.                                 *)

Open(r, file) ==
    /\ target' = [target EXCEPT ![r] = file]
    /\ named' = [named EXCEPT ![r] = FALSE]
    /\ Goto(r, "mkdir")

BeginSave(r) ==
    /\ At(r, "save")
    /\ Open(r, "cache")
    /\ UNCHANGED <<files, faults, session, temp, failed>>

\* After the last call, or after a failure: the cache does without, a report does not.
FinishSilently(r, ok) ==
    IF target[r] = "cache" THEN Goto(r, "emit") ELSE Exit(r, "ok")

Finish(r, ok) ==
    IF target[r] = "cache" THEN Goto(r, "emit")
    ELSE Exit(r, IF ok THEN "ok" ELSE "error")

Note(r, call) == failed' = [failed EXCEPT ![r][target[r]] = @ \cup {call}]

\* except OSError: the temporary file is removed when temp_path is known.
CallFailsUncleaned(r, call) == Fault /\ Note(r, call) /\ Finish(r, FALSE)

CallFails(r, call) ==
    /\ Fault
    /\ Note(r, call)
    /\ IF named[r] THEN Goto(r, "unlink") ELSE Finish(r, FALSE)

TempIs(r, state) == temp' = [temp EXCEPT ![r][target[r]] = state]

\* mkdir is outside the handler.
MakeDirectory(r) ==
    /\ At(r, "mkdir")
    /\ \/ Goto(r, "create") /\ UNCHANGED faults
       \/ Fault /\ Exit(r, "traceback")
    /\ UNCHANGED <<files, session, writing>>

CreateTemp(r) ==
    /\ At(r, "create")
    /\ \/ TempIs(r, "open") /\ Goto(r, "write") /\ UNCHANGED <<failed, faults>>
       \/ CallFails(r, "create") /\ UNCHANGED temp
    /\ UNCHANGED <<files, session, target, named>>

WriteTemp(r) ==
    /\ At(r, "write")
    /\ \/ TempIs(r, "written") /\ Goto(r, "sync") /\ UNCHANGED <<failed, faults>>
       \/ CallFails(r, "write") /\ UNCHANGED temp
    /\ UNCHANGED <<files, session, target, named>>

\* temp_path is assigned after fsync, so a failure up to here leaves the file behind.
SyncSkipped(r) ==
    /\ At(r, "sync")
    /\ named' = [named EXCEPT ![r] = TRUE]
    /\ Goto(r, "chmod")
    /\ UNCHANGED <<files, faults, session, target, temp, failed>>

SyncTemp(r) ==
    /\ At(r, "sync")
    /\ \/ TempIs(r, "synced") /\ named' = [named EXCEPT ![r] = TRUE] /\ Goto(r, "chmod")
          /\ UNCHANGED <<failed, faults>>
       \/ CallFails(r, "sync") /\ UNCHANGED <<temp, named>>
    /\ UNCHANGED <<files, session, target>>

\* Closing the file, and its mode.
ChmodTemp(r) ==
    /\ At(r, "chmod")
    /\ \/ Goto(r, "replace") /\ UNCHANGED <<failed, faults>>
       \/ CallFails(r, "chmod")
    /\ UNCHANGED <<files, session, target, temp, named>>

\* state_for_persistence, or the rendered report.
PayloadOfRun(r) ==
    [kind |-> "whole", by |-> r, synced |-> temp[r][target[r]] = "synced",
     holds |-> IF target[r] = "cache" THEN store[r] \ Redacted ELSE shown[r]]

Replace(r) ==
    /\ At(r, "replace")
    /\ \/ /\ IF target[r] = "cache"
             THEN /\ cache' = PayloadOfRun(r)
                  /\ cacheDisk' = cacheDisk \cup {PayloadOfRun(r)}
                  /\ UNCHANGED <<report, reportDisk>>
             ELSE /\ report' = PayloadOfRun(r)
                  /\ reportDisk' = reportDisk \cup {PayloadOfRun(r)}
                  /\ UNCHANGED <<cache, cacheDisk>>
          /\ TempIs(r, "none")
          /\ Goto(r, "chmodTarget")
          /\ UNCHANGED <<failed, faults>>
       \/ /\ CallFails(r, "replace")
          /\ UNCHANGED <<cache, cacheDisk, report, reportDisk, temp>>
    /\ UNCHANGED <<session, target, named>>

ChmodTarget(r) ==
    /\ At(r, "chmodTarget")
    /\ \/ Finish(r, TRUE) /\ UNCHANGED <<failed, faults>>
       \/ CallFails(r, "chmodTarget")
    /\ UNCHANGED <<files, session, target, temp, named>>

UnlinkTemp(r) ==
    /\ At(r, "unlink")
    /\ \/ TempIs(r, "none") /\ UNCHANGED failed
       \/ Note(r, "unlink") /\ UNCHANGED temp
    /\ Finish(r, FALSE)
    /\ UNCHANGED <<files, faults, session, target, named>>

-----------------------------------------------------------------------------
(* The report. *)

SectionIsLocked(r, s) == s \in Privileged /\ ~Authenticated(r)

\* JSON shows the data of a locked section too, as the redaction left it.
ReportOf(r) ==
    IF request[r].command = "status" THEN (StatusBar \cup {"runtime"}) \cap store[r]
    ELSE IF request[r].json THEN (UNION {PayloadOf[s] : s \in SectionNames(r)}) \cap store[r]
    ELSE (StatusBar \cup UNION {RenderedOf[s] : s \in {t \in SectionNames(r) :
                                                          ~SectionIsLocked(r, t)}}) \cap store[r]

Emit(r) ==
    /\ At(r, "emit")
    /\ shown' = [shown EXCEPT ![r] = ReportOf(r)]
    /\ IF request[r].output
       THEN Open(r, "report")
       ELSE Exit(r, "ok") /\ UNCHANGED <<target, named>>
    /\ UNCHANGED <<files, faults, request, cancelled, auth, store, attempted, temp, failed>>

-----------------------------------------------------------------------------
(* Interruptions. *)

Awaiting == {"probe", "password", "collect", "follow"}

\* The first Ctrl+C cancels the main task: asyncio.run raises KeyboardInterrupt when it ends.
Interrupt(r) ==
    /\ exit[r] = "running" /\ pc[r] # "start" /\ ~cancelled[r]
    /\ Fault
    /\ cancelled' = [cancelled EXCEPT ![r] = TRUE]
    /\ UNCHANGED <<files, request, auth, store, attempted, shown, pc, exit, writing>>

AwaitRaises(r) ==
    /\ cancelled[r] /\ exit[r] = "running" /\ pc[r] \in Awaiting
    /\ Exit(r, "interrupted")
    /\ UNCHANGED <<files, faults, session, writing>>

\* A signal that the process does not handle, or a second Ctrl+C.
Kill(r) ==
    /\ exit[r] = "running" /\ pc[r] # "start"
    /\ Fault
    /\ Exit(r, "killed")
    /\ UNCHANGED <<files, session, writing>>

\* Processes that have not begun are started after the reboot.
PowerLoss ==
    /\ Fault
    /\ \E found \in {Surviving(c) : c \in cacheDisk} : cache' = found /\ cacheDisk' = {found}
    /\ \E found \in {Surviving(c) : c \in reportDisk} : report' = found /\ reportDisk' = {found}
    /\ LET running == {r \in Runs : exit[r] = "running" /\ pc[r] # "start"}
       IN  /\ pc' = [r \in Runs |-> IF r \in running THEN "ended" ELSE pc[r]]
           /\ exit' = [r \in Runs |-> IF r \in running THEN "killed" ELSE exit[r]]
    /\ UNCHANGED <<session, writing>>

-----------------------------------------------------------------------------

Init ==
    /\ cache \in FoundCaches /\ cacheDisk = {cache}
    /\ report \in FoundReports /\ reportDisk = {report}
    /\ faults = 0
    /\ request \in {f \in [Runs -> UNION {RequestsOf[r] : r \in Runs}] :
                       \A r \in Runs : f[r] \in RequestsOf[r]}
    /\ pc = [r \in Runs |-> "start"]
    /\ exit = [r \in Runs |-> "running"]
    /\ cancelled = [r \in Runs |-> FALSE]
    /\ auth = [r \in Runs |-> "locked"]
    /\ store = [r \in Runs |-> {}]
    /\ attempted = [r \in Runs |-> {}]
    /\ shown = [r \in Runs |-> {}]
    /\ target = [r \in Runs |-> "cache"]
    /\ temp = [r \in Runs |-> [file \in Targets |-> "none"]]
    /\ named = [r \in Runs |-> FALSE]
    /\ failed = [r \in Runs |-> [file \in Targets |-> {}]]

Prepares(r) ==
    \/ Start(r) \/ LoadExists(r) \/ LoadReads(r) \/ Quarantine(r)
    \/ Probe(r) \/ EnterPassword(r) \/ Collect(r) \/ Follow(r)

Writes(r) ==
    \/ BeginSave(r) \/ MakeDirectory(r) \/ CreateTemp(r) \/ WriteTemp(r) \/ SyncTemp(r)
    \/ ChmodTemp(r) \/ Replace(r) \/ ChmodTarget(r) \/ UnlinkTemp(r) \/ Emit(r)

Next ==
    \/ \E r \in Runs : Prepares(r) \/ Writes(r) \/ Interrupt(r) \/ AwaitRaises(r) \/ Kill(r)
    \/ PowerLoss

Spec == Init /\ [][Next]_vars

-----------------------------------------------------------------------------
(* Properties. *)

ExitCodes == {"running", "ok", "error", "traceback", "interrupted", "killed"}
Labels == {"start", "load", "read", "quarantine", "probe", "password", "collect", "follow",
           "save", "mkdir", "create", "write", "sync", "chmod", "replace", "chmodTarget",
           "unlink", "emit", "ended"}
Calls == {"create", "write", "sync", "chmod", "replace", "chmodTarget", "unlink"}

\* Types of the files and of the processes' locals; a store never holds more than the fields
\* of SystemState.
TypeOK ==
    /\ cache \in Content /\ cacheDisk \subseteq Content
    /\ report \in Content /\ reportDisk \subseteq Content
    /\ faults \in Nat
    /\ request \in [Runs -> Request]
    /\ pc \in [Runs -> Labels] /\ exit \in [Runs -> ExitCodes]
    /\ cancelled \in [Runs -> BOOLEAN]
    /\ auth \in [Runs -> {"unavailable", "locked", "authenticated"}]
    /\ store \in [Runs -> SUBSET Subsystems]
    /\ attempted \in [Runs -> SUBSET Collected]
    /\ shown \in [Runs -> SUBSET Subsystems]
    /\ target \in [Runs -> Targets]
    /\ temp \in [Runs -> [Targets -> {"none", "open", "written", "synced"}]]
    /\ named \in [Runs -> BOOLEAN]
    /\ failed \in [Runs -> [Targets -> SUBSET Calls]]

\* The cache file is at any time what was found, absent, or one whole synced snapshot without
\* privileged data; the output file is at any time what was found or one whole report
\* (cache.py:48-53, main.py:331-337).
CacheFile == INSTANCE AtomicFile WITH
    content <- cache, onDisk <- cacheDisk, Contents <- Content, Absent <- Absent,
    Acceptable <- {c \in Content : c.kind = "whole" /\ c.synced /\ c.holds \cap Deferred = {}}

ReportFile == INSTANCE AtomicFile WITH
    content <- report, onDisk <- reportDisk, Contents <- Content, Absent <- Absent,
    Acceptable <- {c \in Content : c.kind = "whole" /\ c.synced}

FilesAreAtomic == CacheFile!Spec /\ ReportFile!Spec

\* What a run without sudo reports holds no privileged data, in any format, whatever the cache
\* held and whichever section's payload includes it (main.py:184, 268, 545).
LockedReportsHideData ==
    \A r \in Runs : ~Authenticated(r) => shown[r] \cap Deferred = {}

\* Privileged data in a report was collected by the run itself, after sudo had been unlocked;
\* what an older cache still holds never gets there (bootstrap.py:179).
PrivilegedDataIsFresh ==
    \A r \in Runs : shown[r] \cap Deferred \subseteq attempted[r]

\* A run ends well only when the output file holds a whole report of such a run
\* (main.py:319-344): a failed write is never reported as success.
SuccessMeansWritten ==
    [][\A r \in Runs :
        (exit[r] = "running" /\ exit'[r] = "ok" /\ request[r].output)
            => report'.kind = "whole" /\ report'.by \in Runs]_vars

\* A run that was not killed leaves a temporary file behind only where the code gives up on
\* it: a failure before temp_path is assigned, or of its removal (cache.py:38-58).
TemporariesAreCleaned ==
    \A r \in Runs, file \in Targets :
        (exit[r] \in {"ok", "error", "traceback"} /\ temp[r][file] # "none")
            => failed[r][file] \cap {"write", "sync", "unlink"} # {}

\* A scan that ends well has collected what it was asked for and may see.  The exception is
\* the code's: next to a section without a subsystem of its own, streaming collectors are
\* left out (main.py:426, scheduler.py:59).
RequestedIsCollected ==
    \A r \in Runs :
        (exit[r] = "ok" /\ request[r].command = "scan" /\ ~request[r].cached)
            => \A s \in SectionNames(r) :
                 \/ SubsystemOf[s] \in attempted[r] \cup {NoSubsystem}
                 \/ SubsystemOf[s] \notin Collected
                 \/ SubsystemOf[s] \in Deferred /\ ~Authenticated(r)
                 \/ /\ SubsystemOf[s] \in Streaming
                    /\ \E t \in SectionNames(r) : SubsystemOf[t] = NoSubsystem

-----------------------------------------------------------------------------
(* The inductive invariant behind the safety properties. *)

Early == {"start", "load", "read", "quarantine", "probe", "password", "collect"}
WritesTemp == {"write", "sync", "chmod", "replace", "unlink"}

\* A process that is over is nowhere else.
EndedIsOver(r) == exit[r] # "running" => pc[r] = "ended"

\* Nothing is collected or shown before the collection, and without sudo nothing deferred;
\* what is privileged in a store or a report was collected.
NothingYet(r) == pc[r] \in Early => attempted[r] = {} /\ shown[r] = {}
LockedCollectsNothing(r) == ~Authenticated(r) => attempted[r] \cap Deferred = {}
StoreIsFresh(r) == (store[r] \cup shown[r]) \cap Deferred \subseteq attempted[r]

\* The temporary file is synced and its name known from fsync on; one that is there is being
\* written, was given up, or is that of a process that was stopped.
TempMatchesPlace(r) ==
    /\ pc[r] \in {"chmod", "replace"} => temp[r][target[r]] = "synced"
    /\ pc[r] \in {"chmod", "replace", "chmodTarget"} => named[r]
TempsAreAccounted(r) ==
    \A file \in Targets : temp[r][file] # "none" =>
        \/ failed[r][file] \cap {"write", "sync", "unlink"} # {}
        \/ exit[r] \in {"killed", "interrupted"}
        \/ file = target[r] /\ pc[r] \in WritesTemp

\* A scan that has begun has a valid request, and only a scan unlocks, collects or follows.
RequestIsValid(r) ==
    /\ (pc[r] \notin {"start", "ended"} \/ exit[r] = "ok") /\ request[r].command = "scan"
          => FollowIsValid(r)
    /\ pc[r] \in {"password", "collect", "follow"} => request[r].command = "scan"
    /\ pc[r] = "follow" => request[r].follow

\* After the collection a scan has collected what it asked for and may see.
CollectedAsAsked(r) ==
    /\ pc[r] \notin Early \cup {"ended"} \/ exit[r] = "ok"
    /\ request[r].command = "scan" /\ ~request[r].cached
    => attempted[r] = RefreshTargets(r) \cap MayCollect(r)

Secret(r) == NothingYet(r) /\ LockedCollectsNothing(r) /\ StoreIsFresh(r)
Tidy(r) == TempMatchesPlace(r) /\ TempsAreAccounted(r)
Served(r) == RequestIsValid(r) /\ CollectedAsAsked(r)

\* Whatever has one of the two names is synced, and a report just replaced is there.
DisksAreSynced ==
    /\ \A c \in cacheDisk : c.synced
    /\ \A c \in reportDisk : c.synced
ReportIsThere ==
    \A r \in Runs : pc[r] = "chmodTarget" /\ target[r] = "report"
        => report.kind = "whole" /\ report.by \in Runs
OnDisk == DisksAreSynced /\ ReportIsThere

IInv ==
    /\ TypeOK
    /\ \A r \in Runs : EndedIsOver(r) /\ Secret(r) /\ Tidy(r) /\ Served(r)
    /\ OnDisk
=============================================================================
