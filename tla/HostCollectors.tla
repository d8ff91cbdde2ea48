--------------------------- MODULE HostCollectors ---------------------------
(***************************************************************************)
(* Collections of the collectors that run commands (collectors/...): which *)
(* commands each runs, in which order and depending on what; what it keeps *)
(* of their output; and what it says of its own access and availability.   *)
(*                                                                         *)
(* A plan is a collector with the backend it has detected.  One collection *)
(* is modelled at a time, or the log stream; the host may change under it: *)
(* sudo's credentials lapse, a command is uninstalled.  What the           *)
(* collectors read without a command (psutil, /proc) is left out, and so   *)
(* is the form of what they parse.                                         *)
(*                                                                         *)
(* logs_reportBySession and containers_reportUnchecked are faulty forms of *)
(* the definitions after them; the model does not use them.                *)
(***************************************************************************)
EXTENDS SubprocessRunner, BackendDetection

CONSTANTS
    Collectors,    \* the collectors that run commands, and "follow", the log stream
    Hosts,         \* the hosts considered
    Items,         \* disks of lsblk, service directories of runit
    Removable      \* bound of the model: the commands that may be uninstalled meanwhile

ASSUME HostsAssumption ==
    /\ \A host \in Hosts : host.commands \subseteq Tools
    /\ Items \in Nat
    /\ Removable \subseteq Tools

VARIABLES
    host,       \* the commands and files there are
    removed,    \* a command has been uninstalled
    unlocked,   \* sudo runs commands without a password
    context,    \* RuntimeContext, detected at the start
    firewall,   \* the network collector's backend: detected once and kept
    plan,       \* the collector and its backend
    results,    \* what the calls made so far came to
    report      \* what collect() returned, or that it raised

environment == <<host, removed, unlocked, context>>
vars == <<runner, environment, firewall, plan, results, report>>

Unresolved == "unresolved"
NoPlan == [collector |-> "none", backend |-> NoBackend]

\* A call that is not made gives its collector nothing.
Skipped == NoResult

Run(tool) == [tool |-> tool, sudo |-> FALSE]
RunWithSudo(tool) == [tool |-> tool, sudo |-> TRUE]
Repeat(cmd) == [i \in 1..Items |-> cmd]

\* How the collectors judge a result: _command_succeeded, and the tests of the return code.
Succeeded(r) == r.returncode = "zero" /\ ~r.timed_out
Zero(r) == r.returncode = "zero"
ZeroOrExpected(r) == r.returncode \in {"zero", "expected"}
Silent(r) == r.stdout = "nothing"
Said(r) == ~Silent(r) \/ r.stderr
InTime(r) == ~r.missing_dependency /\ ~r.timed_out

-----------------------------------------------------------------------------
(* The commands of each plan, in order. *)

logs_commands(backend) ==
    LET tool == IF backend = "syslog" THEN "tail" ELSE backend
    IN  IF backend = NoBackend THEN <<>> ELSE <<RunWithSudo(tool), Run(tool)>>

services_commands(backend) ==
    CASE backend = "systemd"  -> <<Run("systemctl"), Run("systemctl")>>
      [] backend = "openrc"   -> <<Run("rc-status")>>
      [] backend = "runit"    -> Repeat(Run("sv"))
      [] backend = "sysvinit" -> <<Run("service")>>
      [] OTHER -> <<>>

audit_commands ==
    <<Run("sestatus"), Run("aa-status"), Run("systemctl"), RunWithSudo("auditctl"), Run("auditctl")>>

security_commands == <<Run("sudo"), Run("sudo")>>

\* The inventory, the updates, the details of the sample.
packages_commands(manager) ==
    CASE manager = "dpkg"   -> <<Run("dpkg-query"), Run("apt"), Run("dpkg-query")>>
      [] manager = "rpm"    -> <<Run("rpm"), Run("dnf"), Run("rpm")>>
      [] manager = "pacman" -> <<Run("pacman"), Run("pacman"), Run("pacman")>>
      [] manager = "apk"    -> <<Run("apk"), Run("apk")>>
      [] OTHER -> <<>>

containers_commands(runtime) ==
    IF runtime = NoBackend THEN <<>> ELSE <<Run(runtime), Run(runtime)>>

network_commands(backend) ==
    <<Run("ip")>> \o (CASE backend = "ufw"       -> <<Run("ufw")>>
                        [] backend = "firewalld" -> <<Run("firewall-cmd")>>
                        [] backend = "nftables"  -> <<Run("systemctl"), Run("nft")>>
                        [] OTHER -> <<>>)

hardware_commands == <<Run("lspci"), Run("lsusb"), Run("nvidia-smi"), Run("nvidia-smi")>>

storage_commands == <<Run("lsblk")>> \o Repeat(Run("smartctl"))

sessions_commands == <<Run("last")>>

Commands(p) ==
    CASE p.collector = "logs"       -> logs_commands(p.backend)
      [] p.collector = "services"   -> services_commands(p.backend)
      [] p.collector = "audit"      -> audit_commands
      [] p.collector = "security"   -> security_commands
      [] p.collector = "packages"   -> packages_commands(p.backend)
      [] p.collector = "containers" -> containers_commands(p.backend)
      [] p.collector = "network"    -> network_commands(p.backend)
      [] p.collector = "hardware"   -> hardware_commands
      [] p.collector = "storage"    -> storage_commands
      [] p.collector = "sessions"   -> sessions_commands
      [] OTHER -> <<>>

\* The backend each collector goes by.
BackendOf(collector) ==
    CASE collector \in {"logs", "follow"} -> detect_log_backend(log_backend_precedence, host)
      [] collector = "services" -> detect_service_manager(service_manager_precedence, host)
      [] collector = "packages" -> detect_manager(package_manager_precedence, host)
      [] collector = "containers" -> detect_runtime(container_runtime_precedence, host)
      [] collector = "network" ->
            IF firewall = Unresolved THEN detect_firewall_backend(firewall_backend_precedence, host)
            ELSE firewall
      [] OTHER -> NoBackend

\* The updates of apt are read at return code 0, those of the others also at the code that
\* says whether there are any.
UpdatesRead(manager, r) == IF manager = "dpkg" THEN Zero(r) ELSE ZeroOrExpected(r)

\* _prioritize_sample_entries takes from both lists; without entries there are no details.
SampleIsEmpty(manager, inventory, updates) ==
    /\ ~(Zero(inventory) /\ inventory.stdout = "whole")
    /\ ~(UpdatesRead(manager, updates) /\ updates.stdout = "whole")

\* Whether call i of the plan is made, after what the earlier ones came to.
Wanted(p, i) ==
    CASE p.collector = "logs" /\ i = 2 -> ~Succeeded(results[1])
      [] p.backend = "runit" -> \A j \in 1..(i - 1) : ~results[j].missing_dependency
      [] p.collector = "audit" /\ i = 5 ->
            ~Succeeded(results[4]) /\ ~results[4].missing_dependency
      [] p.collector = "packages" /\ i = 3 ->
            ~SampleIsEmpty(p.backend, results[1], results[2])
      [] p.collector = "containers" /\ i = 2 -> Zero(results[1])
      [] p.collector = "hardware" /\ i = 4 -> Zero(results[3]) /\ results[3].stdout = "whole"
      [] p.collector = "storage" /\ i > 1 -> Zero(results[1]) /\ results[1].stdout = "whole"
      [] OTHER -> TRUE

\* json.loads on output that is no JSON; nothing at all is read as an empty list.
Unreadable(p, i, r) ==
    /\ (p.collector = "network" /\ i = 1) \/ p.collector = "storage"
    /\ Zero(r) /\ r.stdout = "odd"

-----------------------------------------------------------------------------
(* What each collector reports: whether it calls itself available, the     *)
(* access it claims, and the calls its data rests on, whose success or     *)
(* standard output is in it.  Call 0 stands for what it reads without a    *)
(* command.  What a command says on stderr is an error message, also where *)
(* a field shows it: audit_status, the summaries of sudo and the firewall. *)

State(available, access, kept) ==
    [kind |-> "state", available |-> available, access |-> access, kept |-> kept]
Exception == [kind |-> "raised", available |-> FALSE, access |-> "none", kept |-> {}]
NoReport == [kind |-> "nothing", available |-> FALSE, access |-> "none", kept |-> {}]

KeptOf(Keeps(_)) == {i \in DOMAIN results : Keeps(results[i])}

logs_reportBySession(backend) ==
    IF backend = NoBackend \/ ~\E i \in DOMAIN results : Succeeded(results[i])
    THEN {State(FALSE, "none", {})}
    ELSE {State(TRUE, IF unlocked THEN "elevated" ELSE "partial", KeptOf(Succeeded))}

\* _collect_command_history; syslog without tail is read directly.
logs_report(backend) ==
    IF backend = NoBackend THEN {State(FALSE, "none", {})}
    ELSE IF backend = "syslog" /\ "tail" \notin host.commands
         THEN {State(TRUE, "partial", {0}), State(FALSE, "partial", {})}
    ELSE IF Succeeded(results[1]) THEN {State(TRUE, "elevated", {1})}
    ELSE IF Succeeded(results[2]) THEN {State(TRUE, "partial", {2})}
    ELSE {State(FALSE, "partial", {})}

services_report(backend) ==
    LET none == State(FALSE, "none", {})
        all == State(TRUE, "none", DOMAIN results)
        missing(i) == results[i].missing_dependency
    IN  CASE backend = "systemd" -> IF missing(1) THEN none ELSE all
          [] backend \in {"openrc", "sysvinit"} ->
                IF missing(1) \/ (~Zero(results[1]) /\ Silent(results[1])) THEN none ELSE all
          [] backend = "runit" -> IF \E i \in DOMAIN results : missing(i) THEN none ELSE all
          [] OTHER -> none

\* The first line of stderr passes for a status.
audit_report ==
    LET access == IF Succeeded(results[4]) THEN "elevated"
                  ELSE IF results[4].missing_dependency THEN "none" ELSE "partial"
        kept == {i \in {1} : Zero(results[i]) /\ results[i].stdout = "whole"}
                  \cup {i \in {2} : Zero(results[i])}
                  \cup {i \in {3} : ZeroOrExpected(results[i])}
                  \cup {i \in {4, 5} : Succeeded(results[i])}
                  \cup {i \in {0} : "/sys/module/apparmor" \in host.paths}
        stderr == access = "partial" /\ (results[4].stderr \/ results[5].stderr)
    IN  State(kept # {} \/ stderr, access, kept)

\* sudo_summary shows the first of four: stdout and stderr of `sudo -n -l', stderr and stdout
\* of the probe, however either ended.
sudo_summary ==
    IF ~Silent(results[2]) THEN {2}
    ELSE IF results[2].stderr \/ results[1].stderr \/ Silent(results[1]) THEN {}
    ELSE {1}

security_report == State(TRUE, "none", {0} \cup KeptOf(Succeeded) \cup sudo_summary)

packages_report(manager) ==
    State(manager # NoBackend, "none",
          {i \in DOMAIN results : IF i = 2 THEN UpdatesRead(manager, results[i])
                                  ELSE Zero(results[i])})

containers_reportUnchecked(runtime) ==
    IF runtime = NoBackend \/ results[1].missing_dependency
    THEN State(FALSE, "none", {})
    ELSE State(TRUE, "none", KeptOf(Zero))

containers_report(runtime) ==
    IF runtime = NoBackend \/ ~Zero(results[1])
    THEN State(FALSE, "none", {})
    ELSE State(TRUE, "none", KeptOf(Zero))

\* read_firewall_status goes by what it could read in time to say whether the firewall is on.
\* Its summary shows what the command said, however it ended; that of nftables the ruleset,
\* else the state of the service, with nft's output if that says it was denied, else
\* whatever either said.
FirewallEnabled == {i \in 2..Len(results) : InTime(results[i]) /\ (i = 3 => Zero(results[i]))}

FirewallSummary(backend, denied) ==
    IF backend # "nftables" THEN 2..Len(results)
    ELSE IF Zero(results[3]) /\ ~Silent(results[3]) THEN {3}
    ELSE IF Said(results[2]) /\ InTime(results[2]) THEN IF denied THEN {2, 3} ELSE {2}
    ELSE IF Said(results[3]) THEN {3} ELSE {2}

network_report(backend) ==
    {State(TRUE, "none",
           {0} \cup {i \in {1} : Zero(results[i])} \cup FirewallEnabled
               \cup {i \in FirewallSummary(backend, denied) : ~Silent(results[i])}) :
        denied \in BOOLEAN}

hardware_report ==
    State(TRUE, "none",
          {0} \cup {i \in DOMAIN results : IF i \in {1, 2} THEN ~results[i].missing_dependency
                                           ELSE Zero(results[i])})

storage_report == State(TRUE, "none", {0} \cup KeptOf(Zero))

sessions_report == State(TRUE, "none", {0} \cup KeptOf(ZeroOrExpected))

ReportsOf(p) ==
    CASE p.collector = "logs"       -> logs_report(p.backend)
      [] p.collector = "services"   -> {services_report(p.backend)}
      [] p.collector = "audit"      -> {audit_report}
      [] p.collector = "security"   -> {security_report}
      [] p.collector = "packages"   -> {packages_report(p.backend)}
      [] p.collector = "containers" -> {containers_report(p.backend)}
      [] p.collector = "network"    -> network_report(p.backend)
      [] p.collector = "hardware"   -> {hardware_report}
      [] p.collector = "storage"    -> {storage_report}
      [] p.collector = "sessions"   -> {sessions_report}
      [] OTHER -> {NoReport}

-----------------------------------------------------------------------------
(* A collection. *)

InProgress == plan # NoPlan

Begin(collector) ==
    /\ ~InProgress
    /\ plan' = [collector |-> collector, backend |-> BackendOf(collector)]
    /\ firewall' = IF collector = "network" THEN BackendOf(collector) ELSE firewall
    /\ report' = NoReport
    /\ UNCHANGED <<runner, environment, results>>

Collecting == InProgress /\ plan.collector # "follow" /\ phase = "idle"

Call ==
    /\ Collecting /\ answer = Nothing
    /\ Len(results) < Len(Commands(plan))
    /\ LET i == Len(results) + 1
       IN  IF Wanted(plan, i)
           THEN /\ \/ CallMissing(Commands(plan)[i], host.commands)
                   \/ CallSpawns(Commands(plan)[i], host.commands)
                /\ UNCHANGED results
           ELSE results' = Append(results, Skipped) /\ UNCHANGED runner
    /\ UNCHANGED <<environment, firewall, plan, report>>

Ended(newReport) == plan' = NoPlan /\ results' = <<>> /\ report' = newReport

TakeAnswer ==
    /\ Collecting /\ answer # Nothing
    /\ AnswerTaken
    /\ IF answer.kind = "raised" \/ Unreadable(plan, Len(results) + 1, answer.result)
       THEN Ended(Exception)
       ELSE results' = Append(results, answer.result) /\ UNCHANGED <<plan, report>>
    /\ UNCHANGED <<environment, firewall>>

Return ==
    /\ Collecting /\ answer = Nothing
    /\ Len(results) = Len(Commands(plan))
    /\ \E newReport \in ReportsOf(plan) : Ended(newReport)
    /\ UNCHANGED <<runner, environment, firewall>>

\* LogsCollector.stream: it ends with the stream, or when no backend can be followed.
StreamCommand(backend) == RunWithSudo(IF backend = "syslog" THEN "tail" ELSE backend)

Following == InProgress /\ plan.collector = "follow"

Follow ==
    /\ Following /\ phase = "idle" /\ answer = Nothing
    /\ IF plan.backend = NoBackend
       THEN Ended(Exception) /\ UNCHANGED runner
       ELSE /\ StreamOpens(StreamCommand(plan.backend), host.commands)
            /\ UNCHANGED <<plan, results, report>>
    /\ UNCHANGED <<environment, firewall>>

FollowEnds ==
    /\ Following /\ answer # Nothing
    /\ Ended(Exception)
    /\ AnswerTaken
    /\ UNCHANGED <<environment, firewall>>

-----------------------------------------------------------------------------
(* The processes and the host. *)

\* What the command in progress may exit with: sudo runs nothing while it is locked, and
\* finds its command or says so.
ExitsNow ==
    LET bad == {[e EXCEPT !.executed_with_sudo = command.sudo] : e \in {x \in Exits : x.returncode = "bad"}}
    IN  IF \/ AsRoot(command) /\ ~unlocked
           \/ command.tool \notin host.commands
        THEN {e \in bad : e.stderr}
        ELSE {[e EXCEPT !.executed_with_sudo = command.sudo] : e \in Exits}

Steps(A) == A /\ UNCHANGED <<environment, firewall, plan, results, report>>

RunnerSteps ==
    \/ Completes \/ Drained \/ StreamEnds \/ StreamDrained
RunnerMayStep ==
    \/ ChildExits(ExitsNow) \/ DescendantExits \/ Cancelled
    \/ StreamChildStops \/ StreamClosed \/ CloseCancelled

SudoLapses ==
    /\ unlocked' = ~unlocked
    /\ UNCHANGED <<runner, host, removed, context, firewall, plan, results, report>>

CommandRemoved ==
    /\ removed' = TRUE
    /\ \E tool \in host.commands \cap Removable : host' = [host EXCEPT !.commands = @ \ {tool}]
    /\ UNCHANGED <<runner, unlocked, context, firewall, plan, results, report>>

-----------------------------------------------------------------------------

Init ==
    /\ Idle
    /\ host \in Hosts /\ removed = FALSE
    /\ unlocked \in BOOLEAN
    /\ context = detect_runtime_context(host)
    /\ firewall = Unresolved
    /\ plan = NoPlan /\ results = <<>> /\ report = NoReport

Collects == Call \/ TakeAnswer \/ Return \/ Follow \/ FollowEnds

Next ==
    \/ \E collector \in Collectors : Begin(collector)
    \/ Collects
    \/ Steps(RunnerSteps) \/ Steps(RunnerMayStep) \/ Steps(Timeout) \/ Steps(KilledChildExits)
    \/ SudoLapses \/ CommandRemoved

\* The event loop runs what is ready, timers fire, and a killed process ends.  Nothing says
\* that a child exits, nor that a descendant lets go of the pipes.
Fairness ==
    /\ WF_vars(Collects)
    /\ WF_vars(Steps(RunnerSteps))
    /\ WF_vars(Steps(Timeout))
    /\ WF_vars(Steps(KilledChildExits))

Spec == Init /\ [][Next]_vars
FairSpec == Spec /\ Fairness

-----------------------------------------------------------------------------
(* Properties. *)

Reports == [kind : {"state", "raised", "nothing"}, available : BOOLEAN,
            access : {"none", "partial", "elevated"}, kept : SUBSET Nat]

\* Types of the runner's and the collection's state.
TypeOK ==
    /\ RunnerTypeOK
    /\ host \in [commands : SUBSET Tools, paths : SUBSET STRING]
    /\ removed \in BOOLEAN
    /\ unlocked \in BOOLEAN
    /\ results \in Seq(CommandResult)
    /\ report \in Reports

\* A process outlives the call that started it only when run() was cancelled, or when a
\* process under sudo could not be killed (subprocess.py:88-99, 138-142).
ChildrenAreReaped == abandoned \in {"nothing", "cancelled", "not permitted"}

\* A collection that has begun ends, or a descendant of a command keeps its pipes open
\* (subprocess.py:90): however slow the commands are.
CollectionEnds == (InProgress /\ ~Following) ~> (~InProgress \/ Following \/ held)

\* The calls that are read whatever their return code and however far the command got: the
\* service managers (services.py:78-153), lspci and lsusb (hardware.py:107), sudo's for its
\* summary (security.py:70) and the firewall's for theirs (backends.py:137-176).
ReadsAnything(p, i) ==
    \/ p.collector \in {"services", "security"}
    \/ p.collector = "hardware" /\ i \in {1, 2}
    \/ p.collector = "network" /\ i > 1

\* Of a command that was cut off, or that failed half way, no output is in a report, except of
\* those that are read whatever there is: the service managers, lspci, lsusb, and the summaries
\* of sudo and the firewall; and of a command whose child had exited with a code that its reader
\* expects besides 0 when a descendant kept the pipes open past the timeout (subprocess.py:96,
\* packages.py:114).
TruncatedIsNotWhole == [][
    (report' # report /\ report'.kind = "state") =>
        \A i \in report'.kept \ {0} :
            (results[i].timed_out \/ results[i].stdout = "part") =>
                ReadsAnything(plan, i) \/ results[i].returncode = "expected"]_vars

\* What is said to be collected with elevated access came from a command that sudo ran to its
\* end, and with partial access from none: also when the credentials lapse between the two
\* attempts.
AccessIsHonest == [][
    (report' # report /\ report'.kind = "state") =>
        LET elevated == {i \in report'.kept \ {0} : results[i].executed_with_sudo}
        IN  /\ report'.access = "elevated" <=> elevated # {}
            /\ \A i \in elevated : Succeeded(results[i])]_vars

\* A report that calls itself available holds something that was read, and one that does not
\* holds nothing.  The exceptions are the code's: an inventory of packages that failed, one
\* of systemd or runit that said nothing, and an error message of auditctl all count as
\* available.
AvailabilityIsHonest == [][
    (report' # report /\ report'.kind = "state") =>
        IF report'.available
        THEN \/ \E i \in report'.kept : i = 0 \/ ZeroOrExpected(results[i]) \/ ~Silent(results[i])
             \/ plan.backend \in {"dpkg", "rpm", "pacman", "apk", "systemd", "runit"}
             \/ (plan.collector = "audit" /\ \E i \in {4, 5} : results[i].stderr)
        ELSE report'.kept = {}]_vars

\* The runtime context and the collectors, which detect their backends apart, name the same
\* ones as long as nothing is uninstalled (context.py:14, packages.py:55, containers.py:81).
BackendsAgree ==
    (~removed /\ InProgress) =>
        plan.backend = CASE plan.collector \in {"logs", "follow"} -> context.log_backend
                         [] plan.collector = "services" -> context.service_manager
                         [] plan.collector = "packages" -> context.package_manager
                         [] plan.collector = "containers" -> context.container_runtime
                         [] plan.collector = "network" -> context.firewall_backend
                         [] OTHER -> NoBackend

-----------------------------------------------------------------------------
(* The inductive invariants behind the safety properties. *)

\* What a call comes to belongs to its command: success under sudo is sudo's, and what was cut
\* off never the code 0.
Genuine(r, cmd) ==
    /\ r \in CommandResult
    /\ r.executed_with_sudo => cmd.sudo
    /\ Succeeded(r) => r.executed_with_sudo = cmd.sudo
    /\ r.timed_out \/ r.stdout = "part" => r.returncode # "zero"

NextCommand == Commands(plan)[Len(results) + 1]

\* The runner works on the next call of the plan, and only while there is one.
RunnerFollowsPlan ==
    /\ answer \in {Nothing} \cup {Returned(r) : r \in CommandResult} \cup {Raises(w) : w \in Raised}
    /\ answer # Nothing => phase = "idle" /\ InProgress
    /\ phase \in {"communicate", "drain"} =>
          /\ Len(results) < Len(Commands(plan))
          /\ command = NextCommand
    /\ phase \in {"idle", "communicate", "drain"} \/ Following
    /\ status \in CommandResult
    /\ phase = "communicate" =>
          \/ child = "running"
          \/ child = "exited" /\ Genuine(status, command)

\* The answers taken so far, and the one that waits, are those of the plan's calls.
ResultsAreGenuine ==
    /\ results \in Seq(CommandResult) /\ Len(results) <= Len(Commands(plan))
    /\ \A i \in 1 .. Len(results) : Genuine(results[i], Commands(plan)[i])
    /\ answer.kind = "result" /\ ~Following =>
          Len(results) < Len(Commands(plan)) /\ Genuine(answer.result, NextCommand)

CollectionInv == RunnerFollowsPlan /\ ResultsAreGenuine

\* Until a command is removed the host is the one that was looked at.
HostIsAsDetected ==
    ~removed => /\ context = detect_runtime_context(host)
                /\ firewall \in {Unresolved, context.firewall_backend}

BackendInv == HostIsAsDetected /\ BackendsAgree
=============================================================================
