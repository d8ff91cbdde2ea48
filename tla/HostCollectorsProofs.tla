------------------------ MODULE HostCollectorsProofs ------------------------
(***************************************************************************)
(* Proofs about the collectors that run commands, for any hosts and any    *)
(* number of disks and service directories.                                *)
(***************************************************************************)
EXTENDS HostCollectors, TLAPS

-----------------------------------------------------------------------------
(* The tables of commands. *)

\* A list of one command repeated is a list of that command.
LEMMA RepeatShape ==
    ASSUME NEW cmd
    PROVE  /\ Repeat(cmd) \in Seq({cmd}) /\ Len(Repeat(cmd)) = Items
           /\ \A i \in 1 .. Items : Repeat(cmd)[i] = cmd
  BY HostsAssumption DEF Repeat

\* Only the first attempt at the logs and one of the audit run under sudo.
LEMMA CommandShape ==
    ASSUME NEW p
    PROVE  /\ Len(Commands(p)) \in Nat
           /\ \A i \in 1 .. Len(Commands(p)) :
                /\ Commands(p)[i].sudo \in BOOLEAN
                /\ Commands(p)[i].sudo <=>
                      (p.collector = "logs" /\ i = 1) \/ (p.collector = "audit" /\ i = 4)
           /\ p.collector = "logs" => Len(Commands(p)) = IF p.backend = NoBackend THEN 0 ELSE 2
           /\ p.collector = "audit" => Len(Commands(p)) = 5
           /\ p.collector \in {"follow", "none"} => Len(Commands(p)) = 0
<1> DEFINE Unprivileged(list) ==
        Len(list) \in Nat /\ \A i \in 1 .. Len(list) : list[i].sudo = FALSE
<1>1. CASE p.collector = "logs"
  <2>1. Commands(p) = logs_commands(p.backend)
    BY <1>1 DEF Commands
  <2>2. CASE p.backend = NoBackend
    <3>1. Commands(p) = <<>>
      BY <2>1, <2>2 DEF logs_commands
    <3> QED
      BY <1>1, <2>2, <3>1
  <2>3. CASE p.backend # NoBackend
    <3>1. PICK tool : Commands(p) = <<[tool |-> tool, sudo |-> TRUE],
                                      [tool |-> tool, sudo |-> FALSE]>>
      BY <2>1, <2>3 DEF logs_commands, Run, RunWithSudo
    <3>2. Len(Commands(p)) = 2 /\ Commands(p)[1].sudo = TRUE /\ Commands(p)[2].sudo = FALSE
      BY <3>1
    <3>3. \A i \in 1 .. 2 : i = 1 \/ (i = 2 /\ i # 1)
      OBVIOUS
    <3>4. \A i \in 1 .. 2 : Commands(p)[i].sudo \in BOOLEAN /\ (Commands(p)[i].sudo <=> i = 1)
      BY <3>2, <3>3, Zenon
    <3>5. Len(Commands(p)) \in Nat
      BY <3>2
    <3> QED
      BY <1>1, <2>3, <3>2, <3>4, <3>5
  <2> QED
    BY <2>2, <2>3
<1>2. CASE p.collector = "audit"
  <2>1. Commands(p) = audit_commands
    BY <1>2 DEF Commands
  <2>2. /\ Len(Commands(p)) = 5
        /\ Commands(p)[1].sudo = FALSE /\ Commands(p)[2].sudo = FALSE
        /\ Commands(p)[3].sudo = FALSE
        /\ Commands(p)[4].sudo = TRUE /\ Commands(p)[5].sudo = FALSE
    BY <2>1 DEF audit_commands, Run, RunWithSudo
  <2>3. \A i \in 1 .. 5 : (i = 4) \/ (i # 4 /\ (i = 1 \/ i = 2 \/ i = 3 \/ i = 5))
    OBVIOUS
  <2>4. \A i \in 1 .. 5 : Commands(p)[i].sudo \in BOOLEAN /\ (Commands(p)[i].sudo <=> i = 4)
    BY <2>2, <2>3, Zenon
  <2>5. Len(Commands(p)) \in Nat
    BY <2>2
  <2> QED
    BY <1>2, <2>2, <2>4, <2>5
<1>3. CASE p.collector = "services"
  <2>1. Commands(p) = services_commands(p.backend)
    BY <1>3 DEF Commands
  <2>2. Unprivileged(Commands(p))
    <3>1. CASE p.backend = "runit"
      <4>1. Commands(p) = Repeat(Run("sv"))
        BY <2>1, <3>1 DEF services_commands
      <4>2. Len(Repeat(Run("sv"))) = Items /\ \A i \in 1 .. Items : Repeat(Run("sv"))[i] = Run("sv")
        BY RepeatShape
      <4>3. Run("sv").sudo = FALSE
        BY DEF Run
      <4> QED
        BY <4>1, <4>2, <4>3, HostsAssumption
    <3>2. CASE p.backend # "runit"
      BY <2>1, <3>2 DEF services_commands, Run
    <3> QED
      BY <3>1, <3>2
  <2> QED
    BY <1>3, <2>2
<1>4. CASE p.collector = "security"
  <2>1. Commands(p) = security_commands
    BY <1>4 DEF Commands
  <2>2. Unprivileged(Commands(p))
    BY <2>1 DEF security_commands, Run
  <2> QED
    BY <1>4, <2>2
<1>5. CASE p.collector = "packages"
  <2>1. Commands(p) = packages_commands(p.backend)
    BY <1>5 DEF Commands
  <2>2. Unprivileged(Commands(p))
    BY <2>1 DEF packages_commands, Run
  <2> QED
    BY <1>5, <2>2
<1>6. CASE p.collector = "containers"
  <2>1. Commands(p) = containers_commands(p.backend)
    BY <1>6 DEF Commands
  <2>2. Unprivileged(Commands(p))
    BY <2>1 DEF containers_commands, Run
  <2> QED
    BY <1>6, <2>2
<1>7. CASE p.collector = "network"
  <2>1. Commands(p) = network_commands(p.backend)
    BY <1>7 DEF Commands
  <2>2. Unprivileged(Commands(p))
    BY <2>1 DEF network_commands, Run
  <2> QED
    BY <1>7, <2>2
<1>8. CASE p.collector = "hardware"
  <2>1. Commands(p) = hardware_commands
    BY <1>8 DEF Commands
  <2>2. Unprivileged(Commands(p))
    BY <2>1 DEF hardware_commands, Run
  <2> QED
    BY <1>8, <2>2
<1>9. CASE p.collector = "storage"
  <2>1. Commands(p) = storage_commands
    BY <1>9 DEF Commands
  <2>2. Unprivileged(Commands(p))
    <3>1. Repeat(Run("smartctl")) \in Seq({Run("smartctl"), Run("lsblk")})
      BY HostsAssumption DEF Repeat
    <3>2. /\ Commands(p) \in Seq({Run("smartctl"), Run("lsblk")})
          /\ Len(Commands(p)) = 1 + Len(Repeat(Run("smartctl")))
      BY <2>1, <3>1 DEF storage_commands
    <3> QED
      BY <3>2 DEF Run
  <2> QED
    BY <1>9, <2>2
<1>10. CASE p.collector = "sessions"
  <2>1. Commands(p) = sessions_commands
    BY <1>10 DEF Commands
  <2>2. Unprivileged(Commands(p))
    BY <2>1 DEF sessions_commands, Run
  <2> QED
    BY <1>10, <2>2
<1>11. CASE p.collector \notin {"logs", "services", "audit", "security", "packages", "containers",
                                "network", "hardware", "storage", "sessions"}
  <2>1. Commands(p) = <<>>
    BY <1>11 DEF Commands
  <2> QED
    BY <1>11, <2>1
<1> QED
  BY <1>1, <1>2, <1>3, <1>4, <1>5, <1>6, <1>7, <1>8, <1>9, <1>10, <1>11

\* How many commands a plan has, where a report depends on it.
LEMMA CommandCounts ==
    ASSUME NEW p
    PROVE  /\ p.collector = "services" /\ p.backend \in {"openrc", "sysvinit"} =>
                 Len(Commands(p)) = 1
           /\ p.collector = "containers" /\ p.backend # NoBackend => Len(Commands(p)) = 2
           /\ p.collector = "packages" /\ p.backend = NoBackend => Len(Commands(p)) = 0
           /\ p.collector = "security" => Len(Commands(p)) = 2
           /\ p.collector = "network" => Len(Commands(p)) >= 1
           /\ p.collector = "network" /\ p.backend = "nftables" => Len(Commands(p)) = 3
  BY DEF Commands, services_commands, containers_commands, packages_commands, security_commands,
         network_commands, NoBackend

-----------------------------------------------------------------------------
(* The processes. *)

\* A process outlives the call that started it only when that was cancelled or may not kill it.
THEOREM ChildrenAreAccounted == Spec => []ChildrenAreReaped
<1>1. Init => ChildrenAreReaped
  BY DEF Init, Idle, ChildrenAreReaped
<1>2. ChildrenAreReaped /\ [Next]_vars => ChildrenAreReaped'
  <2> SUFFICES ASSUME ChildrenAreReaped, [Next]_vars PROVE ChildrenAreReaped'
    OBVIOUS
  <2> USE DEF ChildrenAreReaped, runner
  <2>1. ASSUME NEW collector \in Collectors, Begin(collector) PROVE ChildrenAreReaped'
    BY <2>1 DEF Begin
  <2>2. CASE Collects
    BY <2>2 DEF Collects, Call, TakeAnswer, Return, Follow, FollowEnds, CallMissing, CallSpawns,
                AnswerTaken, StreamOpens
  <2>3. CASE RunnerSteps
    BY <2>3 DEF RunnerSteps, Completes, Drained, StreamEnds, StreamDrained, Closing, Ends
  <2>4. CASE RunnerMayStep
    BY <2>4 DEF RunnerMayStep, ChildExits, DescendantExits, Cancelled, StreamChildStops,
                StreamClosed, CloseCancelled, Closing, Ends
  <2>5. CASE Timeout \/ KilledChildExits
    BY <2>5 DEF Timeout, KilledChildExits, Ends
  <2>6. CASE SudoLapses \/ CommandRemoved
    BY <2>6 DEF SudoLapses, CommandRemoved
  <2>7. CASE UNCHANGED vars
    BY <2>7 DEF vars
  <2> QED
    BY <2>1, <2>2, <2>3, <2>4, <2>5, <2>6, <2>7 DEF Next, Steps
<1> QED
  BY <1>1, <1>2, PTL DEF Spec

-----------------------------------------------------------------------------
(* The backends. *)

\* The packages and containers collectors look for the same commands as the runtime context.
LEMMA DetectionsAgree ==
    ASSUME NEW h
    PROVE  /\ detect_manager(package_manager_precedence, h)
                = detect_named_backend(package_manager_precedence, PACKAGE_MANAGER_COMMANDS, h)
           /\ detect_runtime(container_runtime_precedence, h)
                = detect_named_backend(container_runtime_precedence, CONTAINER_RUNTIME_COMMANDS, h)
<1>1. \A i \in DOMAIN package_manager_precedence :
         package_manager_precedence[i] \in {"dpkg", "rpm", "pacman", "apk"}
  BY DEF package_manager_precedence
<1>2. \A i \in DOMAIN container_runtime_precedence :
         container_runtime_precedence[i] \in {"docker", "podman"}
  BY DEF container_runtime_precedence
<1>3. \A manager \in {"dpkg", "rpm", "pacman", "apk"} :
         HasCommand(PACKAGE_MANAGER_COMMANDS, manager, h)
           <=> \/ manager = "dpkg" /\ "dpkg-query" \in h.commands
               \/ manager \in {"rpm", "pacman", "apk"} /\ manager \in h.commands
  BY DEF HasCommand, PACKAGE_MANAGER_COMMANDS
<1>4. \A runtime \in {"docker", "podman"} :
         HasCommand(CONTAINER_RUNTIME_COMMANDS, runtime, h) <=> runtime \in h.commands
  BY DEF HasCommand, CONTAINER_RUNTIME_COMMANDS
<1>5. {i \in DOMAIN package_manager_precedence :
         HasCommand(PACKAGE_MANAGER_COMMANDS, package_manager_precedence[i], h)}
      = {i \in DOMAIN package_manager_precedence :
           \/ package_manager_precedence[i] = "dpkg" /\ "dpkg-query" \in h.commands
           \/ /\ package_manager_precedence[i] \in {"rpm", "pacman", "apk"}
              /\ package_manager_precedence[i] \in h.commands}
  BY <1>1, <1>3
<1>6. {i \in DOMAIN container_runtime_precedence :
         HasCommand(CONTAINER_RUNTIME_COMMANDS, container_runtime_precedence[i], h)}
      = {i \in DOMAIN container_runtime_precedence :
           container_runtime_precedence[i] \in h.commands}
  BY <1>2, <1>4
<1>7. detect_manager(package_manager_precedence, h)
        = detect_named_backend(package_manager_precedence, PACKAGE_MANAGER_COMMANDS, h)
  <2> DEFINE named == {i \in DOMAIN package_manager_precedence :
                         HasCommand(PACKAGE_MANAGER_COMMANDS, package_manager_precedence[i], h)}
             own == {i \in DOMAIN package_manager_precedence :
                         \/ package_manager_precedence[i] = "dpkg" /\ "dpkg-query" \in h.commands
                         \/ /\ package_manager_precedence[i] \in {"rpm", "pacman", "apk"}
                            /\ package_manager_precedence[i] \in h.commands}
             first(found) == IF found = {} THEN NoBackend
                             ELSE package_manager_precedence[
                                    CHOOSE i \in found : \A j \in found : i <= j]
  <2>1. detect_named_backend(package_manager_precedence, PACKAGE_MANAGER_COMMANDS, h) = first(named)
    BY DEF detect_named_backend, FirstWith
  <2>2. detect_manager(package_manager_precedence, h) = first(own)
    BY DEF detect_manager, FirstWith
  <2>3. named = own
    BY <1>5
  <2> HIDE DEF named, own, first
  <2> QED
    BY <2>1, <2>2, <2>3
<1>8. detect_runtime(container_runtime_precedence, h)
        = detect_named_backend(container_runtime_precedence, CONTAINER_RUNTIME_COMMANDS, h)
  <2> DEFINE named == {i \in DOMAIN container_runtime_precedence :
                         HasCommand(CONTAINER_RUNTIME_COMMANDS, container_runtime_precedence[i], h)}
             own == {i \in DOMAIN container_runtime_precedence :
                         container_runtime_precedence[i] \in h.commands}
             first(found) == IF found = {} THEN NoBackend
                             ELSE container_runtime_precedence[
                                    CHOOSE i \in found : \A j \in found : i <= j]
  <2>1. detect_named_backend(container_runtime_precedence, CONTAINER_RUNTIME_COMMANDS, h)
           = first(named)
    BY DEF detect_named_backend, FirstWith
  <2>2. detect_runtime(container_runtime_precedence, h) = first(own)
    BY DEF detect_runtime, FirstWith
  <2>3. named = own
    BY <1>6
  <2> HIDE DEF named, own, first
  <2> QED
    BY <2>1, <2>2, <2>3
<1> QED
  BY <1>7, <1>8

\* Until a command is removed, every collector goes by the backend of the runtime context.
THEOREM BackendsAreTheContexts == Spec => []BackendsAgree
<1> DEFINE Agreed == removed \in BOOLEAN /\ BackendInv
<1>1. Init => Agreed
  BY DEF Init, BackendInv, HostIsAsDetected, BackendsAgree, InProgress
<1>2. Agreed /\ [Next]_vars => Agreed'
  <2> SUFFICES ASSUME Agreed, [Next]_vars PROVE Agreed'
    OBVIOUS
  <2> USE DEF BackendInv, InProgress, environment
  <2>1. ASSUME NEW collector \in Collectors, Begin(collector) PROVE Agreed'
    <3>1. UNCHANGED <<host, removed, context>> /\ plan'.collector = collector
          /\ plan'.backend = BackendOf(collector)
          /\ firewall' = IF collector = "network" THEN BackendOf(collector) ELSE firewall
      BY <2>1 DEF Begin
    <3>2. CASE removed
      BY <3>1, <3>2 DEF HostIsAsDetected, BackendsAgree
    <3>3. CASE ~removed
      <4>1. context = detect_runtime_context(host)
            /\ firewall \in {Unresolved, context.firewall_backend}
        BY <3>3 DEF HostIsAsDetected
      <4>2. collector = "network" => BackendOf(collector) = context.firewall_backend
        BY <4>1 DEF BackendOf, detect_runtime_context
      <4>3. HostIsAsDetected'
        BY <3>1, <4>1, <4>2 DEF HostIsAsDetected
      <4>4. BackendsAgree'
        BY <3>1, <4>1, <4>2, DetectionsAgree DEF BackendsAgree, BackendOf, detect_runtime_context
      <4> QED
        BY <3>1, <4>3, <4>4
    <3> QED
      BY <3>2, <3>3
  <2>2. CASE Collects
    <3>1. UNCHANGED <<host, removed, context, firewall>> /\ plan' \in {plan, NoPlan}
      BY <2>2 DEF Collects, Call, TakeAnswer, Return, Follow, FollowEnds, Ended
    <3> QED
      BY <3>1 DEF HostIsAsDetected, BackendsAgree
  <2>3. CASE UNCHANGED <<environment, firewall, plan>>
    BY <2>3 DEF HostIsAsDetected, BackendsAgree
  <2>4. CASE SudoLapses
    BY <2>4 DEF SudoLapses, HostIsAsDetected, BackendsAgree
  <2>5. CASE CommandRemoved
    BY <2>5 DEF CommandRemoved, HostIsAsDetected, BackendsAgree
  <2> QED
    BY <2>1, <2>2, <2>3, <2>4, <2>5 DEF Next, Steps, vars
<1>3. Agreed => BackendsAgree
  BY DEF BackendInv
<1> HIDE DEF Agreed
<1> QED
  BY <1>1, <1>2, <1>3, PTL DEF Spec

-----------------------------------------------------------------------------
(* What is reported of the commands.  The runner and the plan keep in      *)
(* step: the answer that comes is that of the next command.                *)

\* Without a plan, and for the stream, there is no command to run.
LEMMA NoPlanNoCommands ==
    /\ Len(Commands(NoPlan)) = 0
    /\ Following => Len(Commands(plan)) = 0
    /\ ~InProgress => Len(Commands(plan)) = 0
  BY CommandShape DEF NoPlan, Following, InProgress

\* The results that the runner makes up belong to their command.
LEMMA MadeUpResults ==
    ASSUME NEW cmd, NEW sudo \in BOOLEAN, cmd.sudo = sudo
    PROVE  /\ Genuine(Skipped, cmd)
           /\ Genuine([Missing EXCEPT !.executed_with_sudo = sudo], cmd)
           /\ \A rc \in Codes \ {"zero"}, out \in Outputs, err \in BOOLEAN :
                Genuine([NoResult EXCEPT !.returncode = rc, !.stdout = out, !.stderr = err,
                                         !.timed_out = TRUE, !.executed_with_sudo = sudo], cmd)
<1> USE DEF NoResult, CommandResult, Codes, Outputs
<1>1. Genuine(Skipped, cmd) /\ Genuine([Missing EXCEPT !.executed_with_sudo = sudo], cmd)
  BY DEF Genuine, Skipped, Missing, Succeeded
<1>2. ASSUME NEW rc \in Codes \ {"zero"}, NEW out \in Outputs, NEW err \in BOOLEAN
      PROVE  Genuine([NoResult EXCEPT !.returncode = rc, !.stdout = out, !.stderr = err,
                                      !.timed_out = TRUE, !.executed_with_sudo = sudo], cmd)
  <2> DEFINE said == [NoResult EXCEPT !.returncode = rc, !.stdout = out, !.stderr = err]
             r == [said EXCEPT !.timed_out = TRUE, !.executed_with_sudo = sudo]
  <2>1. said \in CommandResult /\ said.returncode = rc
    BY <1>2
  <2> HIDE DEF said
  <2>2. r \in CommandResult /\ r.timed_out = TRUE /\ r.returncode = rc
        /\ r.executed_with_sudo = sudo
    BY <2>1
  <2> HIDE DEF r
  <2>3. Genuine(r, cmd)
    BY <1>2, <2>2 DEF Genuine, Succeeded
  <2> QED
    BY <2>3 DEF r, said
<1> QED
  BY <1>1, <1>2

\* So do those of a process that exits on its own.
LEMMA ExitsAreGenuine ==
    ASSUME command.sudo \in BOOLEAN
    PROVE  \A e \in ExitsNow : Genuine(e, command)
<1>1. \A e \in Exits : /\ e \in CommandResult /\ ~e.timed_out
                       /\ e.stdout = "part" => e.returncode = "bad"
  <2> DEFINE Fit(e) == /\ e \in CommandResult /\ ~e.timed_out
                       /\ e.stdout = "part" => e.returncode = "bad"
  <2>1. \A out \in {"nothing", "whole", "odd"} :
           Fit([NoResult EXCEPT !.returncode = "zero", !.stdout = out])
    BY DEF NoResult, CommandResult, Codes, Outputs
  <2>2. \A out \in {"nothing", "whole"} :
           Fit([NoResult EXCEPT !.returncode = "expected", !.stdout = out])
    BY DEF NoResult, CommandResult, Codes, Outputs
  <2>3. /\ Fit(NoResult) /\ Fit([NoResult EXCEPT !.stdout = "part"])
        /\ Fit([NoResult EXCEPT !.stderr = TRUE])
    BY DEF NoResult, CommandResult, Codes, Outputs
  <2> HIDE DEF Fit
  <2>4. \A e \in Exits : Fit(e)
    BY <2>1, <2>2, <2>3 DEF Exits
  <2> QED
    BY <2>4 DEF Fit
<1>2. \A e \in Exits : Genuine([e EXCEPT !.executed_with_sudo = command.sudo], command)
  BY <1>1 DEF Genuine, CommandResult, Succeeded
<1> QED
  BY <1>2 DEF ExitsNow

\* The three kinds of answers are told apart.
LEMMA AnswerKinds ==
    /\ Nothing.kind = "nothing"
    /\ \A r : /\ Returned(r).kind = "result" /\ Returned(r).result = r
             /\ Returned(r) # Nothing
    /\ \A w : Raises(w).kind = "raised" /\ Raises(w) # Nothing
<1>1. Nothing.kind = "nothing"
  BY DEF Nothing
<1>2. \A r : Returned(r).kind = "result" /\ Returned(r).result = r
  BY DEF Returned
<1>3. \A w : Raises(w).kind = "raised"
  BY DEF Raises
<1>4. "nothing" # "result" /\ "nothing" # "raised"
  OBVIOUS
<1> QED
  BY <1>1, <1>2, <1>3, <1>4, Zenon

\* What a process leaves before it has exited is a result.
LEMMA NoResultIsOne == NoResult \in CommandResult
  BY DEF NoResult, CommandResult, Codes, Outputs

\* Initially nothing is in progress.
LEMMA CollectionInitially == Init => CollectionInv
<1> SUFFICES ASSUME Init PROVE CollectionInv
  OBVIOUS
<1>1. phase = "idle" /\ answer = Nothing /\ results = <<>> /\ plan = NoPlan
  BY DEF Init, Idle
<1>2. Len(Commands(plan)) = 0 /\ Len(results) = 0 /\ results \in Seq(CommandResult)
  BY <1>1, NoPlanNoCommands
<1> QED
  BY <1>1, <1>2, AnswerKinds, NoResultIsOne
     DEF Init, Idle, CollectionInv, RunnerFollowsPlan, ResultsAreGenuine

\* Taking up a plan, calling, taking an answer and returning.
LEMMA CollectsStep ==
    ASSUME CollectionInv, Collects
    PROVE  CollectionInv'
<1> DEFINE cmds == Commands(plan)
<1> USE DEF CollectionInv, RunnerFollowsPlan, ResultsAreGenuine, runner
<1>1. Len(cmds) \in Nat /\ \A i \in 1 .. Len(cmds) : cmds[i].sudo \in BOOLEAN
  BY CommandShape
<1>2. Len(results) \in Nat
  OBVIOUS
<1>3. ASSUME Ended(report'), phase' = "idle", answer' = Nothing, status' = status
      PROVE  CollectionInv'
  <2>1. results' = <<>> /\ plan' = NoPlan
    BY <1>3 DEF Ended
  <2>2. Len(Commands(plan')) = 0
    BY <2>1, NoPlanNoCommands
  <2>3. Len(results') = 0 /\ results' \in Seq(CommandResult)
    BY <2>1
  <2> QED
    BY <1>3, <2>2, <2>3, AnswerKinds
<1>4. CASE Call
  <2>1. Len(results) + 1 \in 1 .. Len(cmds) /\ NextCommand.sudo \in BOOLEAN
    BY <1>1, <1>2, <1>4 DEF Call, NextCommand
  <2>2. UNCHANGED <<plan>> /\ phase = "idle" /\ InProgress /\ ~Following /\ answer = Nothing
    BY <1>4 DEF Call, Collecting, Following
  <2>3. CASE CallMissing(NextCommand, host.commands) /\ UNCHANGED results
    <3>1. answer' = Returned([Missing EXCEPT !.executed_with_sudo = NextCommand.sudo])
          /\ UNCHANGED <<phase, command, child, status, held, abandoned>>
      BY <2>3 DEF CallMissing
    <3>2. Genuine([Missing EXCEPT !.executed_with_sudo = NextCommand.sudo], NextCommand)
      BY <2>1, MadeUpResults
    <3>3. PICK r \in CommandResult : answer' = Returned(r) /\ Genuine(r, NextCommand)
      BY <3>1, <3>2 DEF Genuine
    <3>4. NextCommand' = NextCommand
      BY <2>2, <2>3 DEF NextCommand
    <3>5. /\ answer'.kind = "result" /\ answer'.result = r
          /\ answer' \in {Returned(x) : x \in CommandResult}
      BY <3>3, AnswerKinds
    <3>6. phase' = "idle" /\ Len(results) < Len(cmds)
      BY <1>1, <1>2, <2>1, <2>2, <3>1
    <3>7. RunnerFollowsPlan'
      BY <2>2, <2>3, <3>1, <3>5, <3>6 DEF InProgress
    <3> QED
      BY <2>2, <2>3, <3>3, <3>4, <3>5, <3>6, <3>7
  <2>4. CASE CallSpawns(NextCommand, host.commands) /\ UNCHANGED results
    <3>1. \/ phase' = "communicate" /\ command' = NextCommand /\ child' = "running"
             /\ answer' = Nothing
          \/ answer' = Raises("spawn") /\ phase' = "idle"
      BY <2>2, <2>4 DEF CallSpawns
    <3>4. status' = status
      BY <2>4 DEF CallSpawns
    <3>2. NextCommand' = NextCommand
      BY <2>2, <2>4 DEF NextCommand
    <3>3. Len(results) < Len(cmds)
      BY <1>1, <1>2, <2>1
    <3> QED
      BY <2>1, <2>2, <2>4, <3>1, <3>2, <3>3, <3>4, AnswerKinds DEF Raised, InProgress, Following
  <2>5. CASE results' = Append(results, Skipped) /\ UNCHANGED runner
    <3>1. Genuine(Skipped, NextCommand) /\ Skipped \in CommandResult
      BY <2>1, MadeUpResults DEF Genuine
    <3>2. results' \in Seq(CommandResult) /\ Len(results') = Len(results) + 1
          /\ \A i \in 1 .. Len(results') : results'[i] = IF i = Len(results) + 1 THEN Skipped
                                                         ELSE results[i]
      BY <2>5, <3>1
    <3>3. \A i \in 1 .. Len(results') : Genuine(results'[i], cmds[i])
      BY <1>2, <3>1, <3>2 DEF NextCommand
    <3> QED
      BY <1>1, <1>2, <2>1, <2>2, <2>5, <3>2, <3>3, AnswerKinds DEF InProgress, Following
  <2> QED
    BY <1>4, <2>3, <2>4, <2>5 DEF Call, NextCommand
<1>5. CASE TakeAnswer
  <2>1. /\ phase = "idle" /\ answer' = Nothing /\ answer # Nothing /\ ~Following /\ InProgress
        /\ UNCHANGED <<phase, command, child, status, held>>
    <3>1. Collecting /\ answer # Nothing /\ AnswerTaken
      BY <1>5 DEF TakeAnswer
    <3> QED
      BY <3>1 DEF Collecting, AnswerTaken, Following
  <2>2. CASE Ended(Exception)
    BY <1>3, <2>1, <2>2 DEF Ended
  <2>3. CASE results' = Append(results, answer.result) /\ UNCHANGED <<plan, report>>
              /\ answer.kind = "result"
    <3>1. Len(results) < Len(cmds) /\ Genuine(answer.result, NextCommand)
          /\ answer.result \in CommandResult
      BY <2>1, <2>3 DEF Genuine
    <3>2. results' \in Seq(CommandResult) /\ Len(results') = Len(results) + 1
          /\ \A i \in 1 .. Len(results') : results'[i] = IF i = Len(results) + 1
                                                         THEN answer.result ELSE results[i]
      BY <2>3, <3>1
    <3>3. \A i \in 1 .. Len(results') : Genuine(results'[i], cmds[i])
      BY <1>2, <3>1, <3>2 DEF NextCommand
    <3> QED
      BY <1>1, <1>2, <2>1, <2>3, <3>1, <3>2, <3>3, AnswerKinds DEF InProgress, Following
  <2>4. answer.kind \in {"result", "raised"}
    BY <2>1, AnswerKinds
  <2> QED
    BY <1>5, <2>2, <2>3, <2>4 DEF TakeAnswer
<1>6. CASE Return
  BY <1>3, <1>6 DEF Return, Collecting, Ended
<1>7. CASE Follow
  <2>1. phase = "idle" /\ answer = Nothing
    BY <1>7 DEF Follow
  <2>2. CASE Ended(Exception) /\ UNCHANGED runner
    BY <1>3, <2>1, <2>2 DEF Ended
  <2>3. CASE StreamOpens(StreamCommand(plan.backend), host.commands)
             /\ UNCHANGED <<plan, results, report>>
    BY <1>7, <2>1, <2>3
       DEF Follow, StreamOpens, Raises, Raised, Nothing, Following, InProgress
  <2> QED
    BY <1>7, <2>2, <2>3 DEF Follow
<1>8. CASE FollowEnds
  <2>1. phase' = "idle" /\ answer' = Nothing /\ status' = status
    BY <1>8 DEF FollowEnds, AnswerTaken
  <2> QED
    BY <1>3, <1>8, <2>1 DEF FollowEnds, Ended
<1> QED
  BY <1>4, <1>5, <1>6, <1>7, <1>8 DEF Collects

\* A call that ends leaves an answer that belongs to its command, or an exception.
LEMMA EndsStep ==
    ASSUME CollectionInv, NEW how, NEW ending, Ends(how, ending), phase # "idle",
           UNCHANGED <<plan, results>>,
           \/ how \in {Raises(w) : w \in Raised}
           \/ \E r \in CommandResult : how = Returned(r) /\ (Following \/ Genuine(r, command))
    PROVE  CollectionInv'
<1> USE DEF CollectionInv, RunnerFollowsPlan, ResultsAreGenuine
<1>1. InProgress
  BY CommandShape, NoPlanNoCommands DEF Following
<1>2. phase' = "idle" /\ answer' = how /\ status' \in CommandResult
  BY NoResultIsOne DEF Ends
<1>3. CASE Following
  BY <1>1, <1>2, <1>3, NoPlanNoCommands DEF Following, InProgress, Nothing, Returned, Raises
<1>4. CASE ~Following
  <2>1. Len(results) < Len(Commands(plan)) /\ command = NextCommand
    BY <1>4
  <2> QED
    BY <1>1, <1>2, <1>4, <2>1, AnswerKinds DEF Following, InProgress, NextCommand
<1> QED
  BY <1>3, <1>4

\* The steps of the processes.
LEMMA RunnerStep ==
    ASSUME CollectionInv, RunnerSteps \/ RunnerMayStep \/ Timeout \/ KilledChildExits,
           UNCHANGED <<plan, results>>
    PROVE  CollectionInv'
<1> USE DEF CollectionInv, RunnerFollowsPlan, ResultsAreGenuine
<1>1. phase \in {"communicate", "drain"} =>
          /\ command.sudo \in BOOLEAN /\ ~Following /\ InProgress
          /\ child = "exited" =>
                \A out \in Outputs, err \in BOOLEAN : Genuine(TimedOutResult(out, err), command)
  <2>1. ASSUME phase \in {"communicate", "drain"}
        PROVE  Len(results) + 1 \in 1 .. Len(Commands(plan)) /\ command = NextCommand
               /\ ~Following /\ InProgress
    BY <2>1, NoPlanNoCommands, CommandShape
  <2>2. ASSUME phase \in {"communicate", "drain"} PROVE command.sudo \in BOOLEAN
    BY <2>1, <2>2, CommandShape DEF NextCommand
  <2>3. ASSUME phase \in {"communicate", "drain"}, NEW out \in Outputs, NEW err \in BOOLEAN
        PROVE  Genuine(TimedOutResult(out, err), command)
    <3> DEFINE rc == IF status.returncode = "zero" THEN "bad" ELSE status.returncode
    <3>1. rc \in Codes \ {"zero"}
      BY DEF CommandResult, Codes
    <3> HIDE DEF rc
    <3>2. Genuine([NoResult EXCEPT !.returncode = rc, !.stdout = out, !.stderr = err,
                                   !.timed_out = TRUE, !.executed_with_sudo = command.sudo], command)
      BY <2>2, <2>3, <3>1, MadeUpResults
    <3> QED
      BY <3>2 DEF TimedOutResult, rc
  <2> QED
    BY <2>1, <2>2, <2>3
<1>2. CASE Completes
  BY <1>1, <1>2, EndsStep DEF Completes, Genuine
<1>3. CASE Drained
  <2>1. PICK out \in {"nothing", "part"}, err \in BOOLEAN :
           Ends(Returned(TimedOutResult(out, err)), "returned")
    BY <1>3 DEF Drained
  <2>2. Genuine(TimedOutResult(out, err), command)
    BY <1>1, <1>3 DEF Drained, Outputs
  <2> QED
    BY <1>3, <2>1, <2>2, EndsStep DEF Drained, Genuine
<1>4. ASSUME NEW ending, Closing(ending), phase = "stream",
             ending \in {Raises("cancelled"), Returned([NoResult EXCEPT !.returncode = "zero"])}
      PROVE  CollectionInv'
  <2>1. Following /\ [NoResult EXCEPT !.returncode = "zero"] \in CommandResult
    BY <1>4 DEF NoResult, CommandResult, Codes, Outputs
  <2>2. CASE child' = "killed" /\ phase' = "close"
             /\ UNCHANGED <<command, status, held, abandoned, answer>>
    BY <1>4, <2>1, <2>2 DEF Following, InProgress, NextCommand
  <2>3. CASE Ends(Raises("not permitted"), "not permitted")
    BY <1>4, <2>1, <2>3, EndsStep DEF Raised
  <2>4. CASE Ends(ending, "returned")
    BY <1>4, <2>1, <2>4, EndsStep DEF Raised
  <2> QED
    BY <1>4, <2>2, <2>3, <2>4 DEF Closing
<1>5. CASE StreamEnds \/ StreamClosed
  BY <1>4, <1>5 DEF StreamEnds, StreamClosed
<1>6. CASE StreamDrained \/ CloseCancelled \/ Cancelled
  BY <1>6, EndsStep DEF StreamDrained, CloseCancelled, Cancelled, Raised
<1>7. CASE ChildExits(ExitsNow)
  <2>1. Genuine(status', command) /\ status' \in CommandResult
    BY <1>1, <1>7, ExitsAreGenuine DEF ChildExits, Genuine
  <2> QED
    BY <1>7, <2>1 DEF ChildExits, Following, InProgress, NextCommand
<1>8. CASE DescendantExits \/ KilledChildExits \/ StreamChildStops
  BY <1>8 DEF DescendantExits, KilledChildExits, StreamChildStops, Following, InProgress,
              NextCommand
<1>9. CASE Timeout
  <2>1. CASE phase' = "drain" /\ UNCHANGED <<command, status, answer>>
    BY <1>9, <2>1 DEF Timeout, Following, InProgress, NextCommand
  <2>2. CASE Ends(Raises("not permitted"), "not permitted")
             \/ Ends(Raises("no such process"), "no such process")
    BY <1>9, <2>2, EndsStep DEF Timeout, Raised
  <2> QED
    BY <1>9, <2>1, <2>2 DEF Timeout
<1> QED
  BY <1>2, <1>3, <1>5, <1>6, <1>7, <1>8, <1>9 DEF RunnerSteps, RunnerMayStep

\* In every reachable state the answers belong to the calls of the plan.
THEOREM AnswersBelongToTheirCalls == Spec => []CollectionInv
<1>1. CollectionInv /\ [Next]_vars => CollectionInv'
  <2> SUFFICES ASSUME CollectionInv, [Next]_vars PROVE CollectionInv'
    OBVIOUS
  <2>1. ASSUME NEW collector \in Collectors, Begin(collector) PROVE CollectionInv'
    <3>1. phase = "idle" /\ answer = Nothing /\ Len(results) = 0 /\ results \in Seq(CommandResult)
      BY <2>1, NoPlanNoCommands
         DEF Begin, CollectionInv, RunnerFollowsPlan, ResultsAreGenuine, Following
    <3>2. UNCHANGED <<runner, results>> /\ Len(Commands(plan')) \in Nat
      BY <2>1, CommandShape DEF Begin
    <3> QED
      BY <3>1, <3>2, AnswerKinds DEF runner, CollectionInv, RunnerFollowsPlan, ResultsAreGenuine
  <2>2. CASE Collects
    BY <2>2, CollectsStep
  <2>3. CASE Steps(RunnerSteps) \/ Steps(RunnerMayStep) \/ Steps(Timeout) \/ Steps(KilledChildExits)
    BY <2>3, RunnerStep DEF Steps
  <2>4. CASE UNCHANGED <<runner, plan, results>>
    BY <2>4 DEF runner, CollectionInv, RunnerFollowsPlan, ResultsAreGenuine, NextCommand,
                InProgress, Following
  <2> QED
    BY <2>1, <2>2, <2>3, <2>4 DEF Next, SudoLapses, CommandRemoved, vars
<1> QED
  BY <1>1, CollectionInitially, PTL DEF Spec

\* Who reports: a collection that has made, or left out, all its calls.
LEMMA WhoReports ==
    ASSUME CollectionInv, [Next]_vars, report' # report, report'.kind = "state"
    PROVE  /\ report' \in ReportsOf(plan)
           /\ Len(results) = Len(Commands(plan)) /\ results \in Seq(CommandResult)
           /\ \A i \in 1 .. Len(results) : Genuine(results[i], Commands(plan)[i])
<1>1. Exception.kind # "state" /\ NoReport.kind # "state"
  BY DEF Exception, NoReport
<1>2. Return
  BY <1>1 DEF Next, Begin, Collects, Call, TakeAnswer, Follow, FollowEnds, Ended, Steps, SudoLapses,
              CommandRemoved, vars
<1> QED
  BY <1>2 DEF Return, Ended, CollectionInv, ResultsAreGenuine

\* What a report keeps, by collector: of the logs, the first attempt that succeeded; of the
\* others, the calls their readers accept.
LEMMA WhatIsKept ==
    ASSUME CollectionInv, [Next]_vars, report' # report, report'.kind = "state",
           NEW i \in report'.kept \ {0}
    PROVE  /\ i \in 1 .. Len(results)
           /\ results[i].returncode # "bad" \/ ReadsAnything(plan, i)
           /\ plan.collector \in {"logs", "audit"} /\ Commands(plan)[i].sudo => Succeeded(results[i])
<1>1. /\ report' \in ReportsOf(plan)
      /\ Len(results) = Len(Commands(plan)) /\ results \in Seq(CommandResult)
      /\ DOMAIN results = 1 .. Len(results)
  BY WhoReports
<1> USE DEF State, KeptOf, Zero, ZeroOrExpected, Succeeded
<1>2. CASE plan.collector = "logs"
  <2>1. report' \in logs_report(plan.backend)
    BY <1>1, <1>2 DEF ReportsOf
  <2>2. Len(results) = IF plan.backend = NoBackend THEN 0 ELSE 2
    BY <1>1, <1>2, CommandShape
  <2>3. i \in {1, 2} /\ Succeeded(results[i]) /\ plan.backend # NoBackend
    BY <2>1 DEF logs_report
  <2> QED
    BY <2>2, <2>3
<1>3. CASE plan.collector = "services"
  <2>1. report' = services_report(plan.backend)
    BY <1>1, <1>3 DEF ReportsOf
  <2>2. i \in DOMAIN results
    BY <2>1 DEF services_report
  <2> QED
    BY <1>1, <1>3, <2>2 DEF ReadsAnything
<1>4. CASE plan.collector = "audit"
  <2>1. report' = audit_report
    BY <1>1, <1>4 DEF ReportsOf
  <2>2. Len(results) = 5 /\ \A j \in 1 .. 5 : Commands(plan)[j].sudo <=> j = 4
    BY <1>1, <1>4, CommandShape
  <2>3. \/ i \in {1, 2} /\ Zero(results[i])
        \/ i = 3 /\ ZeroOrExpected(results[i])
        \/ i \in {4, 5} /\ Succeeded(results[i])
    <3>1. report'.kept = {j \in {1} : Zero(results[j]) /\ results[j].stdout = "whole"}
                           \cup {j \in {2} : Zero(results[j])}
                           \cup {j \in {3} : ZeroOrExpected(results[j])}
                           \cup {j \in {4, 5} : Succeeded(results[j])}
                           \cup {j \in {0} : "/sys/module/apparmor" \in host.paths}
      BY <2>1 DEF audit_report
    <3>2. \/ i \in {1, 2} /\ Zero(results[i])
          \/ i = 3 /\ ZeroOrExpected(results[i])
          \/ i \in {4, 5} /\ Succeeded(results[i])
          \/ i = 0
      BY <3>1
    <3> QED
      BY <3>2
  <2> QED
    BY <2>2, <2>3
<1>5. CASE plan.collector = "security"
  <2>1. report' = security_report
    BY <1>1, <1>5 DEF ReportsOf
  <2>2. i \in DOMAIN results \/ i \in sudo_summary
    BY <2>1 DEF security_report
  <2>3. Len(results) = 2
    BY <1>1, <1>5, CommandCounts
  <2>4. i \in {1, 2}
    BY <1>1, <2>2, <2>3 DEF sudo_summary
  <2> QED
    BY <1>5, <2>3, <2>4 DEF ReadsAnything
<1>6. CASE plan.collector = "packages"
  <2>1. report' = packages_report(plan.backend)
    BY <1>1, <1>6 DEF ReportsOf
  <2> QED
    BY <1>1, <1>6, <2>1 DEF packages_report, UpdatesRead
<1>7. CASE plan.collector = "containers"
  <2>1. report' = containers_report(plan.backend)
    BY <1>1, <1>7 DEF ReportsOf
  <2> QED
    BY <1>1, <1>7, <2>1 DEF containers_report
<1>8. CASE plan.collector = "network"
  <2>1. PICK denied \in BOOLEAN :
           report' = State(TRUE, "none",
                           {0} \cup {j \in {1} : Zero(results[j])} \cup FirewallEnabled
                               \cup {j \in FirewallSummary(plan.backend, denied) :
                                        ~Silent(results[j])})
    BY <1>1, <1>8 DEF ReportsOf, network_report
  <2>2. /\ Len(results) >= 1
        /\ plan.backend = "nftables" => Len(results) = 3
    BY <1>1, <1>8, CommandCounts
  <2>3. \/ i = 1 /\ Zero(results[1])
        \/ i \in FirewallEnabled
        \/ i \in FirewallSummary(plan.backend, denied)
    BY <2>1
  <2>4. FirewallEnabled \subseteq 2 .. Len(results)
    BY DEF FirewallEnabled
  <2>5. FirewallSummary(plan.backend, denied) \subseteq 2 .. Len(results)
    BY <1>1, <2>2 DEF FirewallSummary
  <2>6. (i = 1 /\ Zero(results[1])) \/ i \in 2 .. Len(results)
    BY <2>3, <2>4, <2>5
  <2> QED
    BY <1>1, <1>8, <2>2, <2>6 DEF ReadsAnything
<1>9. CASE plan.collector = "hardware"
  <2>1. report' = hardware_report
    BY <1>1, <1>9 DEF ReportsOf
  <2> QED
    BY <1>1, <1>9, <2>1 DEF hardware_report, ReadsAnything
<1>10. CASE plan.collector = "storage"
  <2>1. report' = storage_report
    BY <1>1, <1>10 DEF ReportsOf
  <2> QED
    BY <1>1, <1>10, <2>1 DEF storage_report
<1>11. CASE plan.collector = "sessions"
  <2>1. report' = sessions_report
    BY <1>1, <1>11 DEF ReportsOf
  <2> QED
    BY <1>1, <1>11, <2>1 DEF sessions_report
<1>12. CASE plan.collector \notin {"logs", "services", "audit", "security", "packages",
                                   "containers", "network", "hardware", "storage", "sessions"}
  BY <1>1, <1>12 DEF ReportsOf, NoReport
<1> QED
  BY <1>2, <1>3, <1>4, <1>5, <1>6, <1>7, <1>8, <1>9, <1>10, <1>11, <1>12

\* Nothing of a command that was cut off is in a report, except where the reader takes anything:
\* services, lspci and lsusb, the summaries of sudo and of the firewall; or where the code that
\* an exited child left before its pipes closed is one its reader expects besides 0.
THEOREM TruncatedIsLeftOut == Spec => TruncatedIsNotWhole
<1> DEFINE Whole == (report' # report /\ report'.kind = "state") =>
        \A i \in report'.kept \ {0} :
            (results[i].timed_out \/ results[i].stdout = "part") =>
                ReadsAnything(plan, i) \/ results[i].returncode = "expected"
<1>1. CollectionInv /\ [Next]_vars => [Whole]_vars
  <2> SUFFICES ASSUME CollectionInv, [Next]_vars, report' # report, report'.kind = "state",
                      NEW i \in report'.kept \ {0},
                      results[i].timed_out \/ results[i].stdout = "part"
               PROVE  ReadsAnything(plan, i) \/ results[i].returncode = "expected"
    OBVIOUS
  <2>1. i \in 1 .. Len(results) /\ (results[i].returncode # "bad" \/ ReadsAnything(plan, i))
    BY WhatIsKept
  <2>2. Genuine(results[i], Commands(plan)[i])
    BY <2>1, WhoReports
  <2> QED
    BY <2>1, <2>2 DEF Genuine, CommandResult, Codes
<1> HIDE DEF Whole
<1>2. Spec => [][Whole]_vars
  BY <1>1, AnswersBelongToTheirCalls, PTL DEF Spec
<1> QED
  BY <1>2 DEF Whole, TruncatedIsNotWhole

\* The access a report claims is that of the commands it read.
THEOREM AccessIsAsClaimed == Spec => AccessIsHonest
<1>1. CollectionInv /\ [Next]_vars =>
        [(report' # report /\ report'.kind = "state") =>
            LET elevated == {i \in report'.kept \ {0} : results[i].executed_with_sudo}
            IN  /\ report'.access = "elevated" <=> elevated # {}
                /\ \A i \in elevated : Succeeded(results[i])]_vars
  <2> SUFFICES ASSUME CollectionInv, [Next]_vars, report' # report, report'.kind = "state"
               PROVE  LET elevated == {i \in report'.kept \ {0} : results[i].executed_with_sudo}
                      IN  /\ report'.access = "elevated" <=> elevated # {}
                          /\ \A i \in elevated : Succeeded(results[i])
    OBVIOUS
  <2>1. /\ report' \in ReportsOf(plan)
        /\ Len(results) = Len(Commands(plan))
        /\ \A i \in 1 .. Len(results) : Genuine(results[i], Commands(plan)[i])
    BY WhoReports
  <2>2. \A i \in report'.kept \ {0} : i \in 1 .. Len(results)
    BY WhatIsKept
  <2>3. \A i \in report'.kept \ {0} : results[i].executed_with_sudo =>
           /\ Commands(plan)[i].sudo
           /\ (plan.collector = "logs" /\ i = 1) \/ (plan.collector = "audit" /\ i = 4)
           /\ Succeeded(results[i])
    BY <2>1, <2>2, CommandShape, WhatIsKept DEF Genuine
  <2>4. report'.access = "elevated" =>
           \E i \in report'.kept \ {0} : results[i].executed_with_sudo
    <3>1. CASE plan.collector = "logs" /\ report'.access = "elevated"
      <4>1. Succeeded(results[1]) /\ report'.kept = {1}
        BY <2>1, <3>1 DEF ReportsOf, logs_report, State
      <4>2. Commands(plan)[1].sudo /\ 1 \in 1 .. Len(results)
        BY <2>1, <2>2, <3>1, <4>1, CommandShape
      <4> QED
        BY <2>1, <4>1, <4>2 DEF Genuine
    <3>2. CASE plan.collector = "audit" /\ report'.access = "elevated"
      <4>1. report' = audit_report
        BY <2>1, <3>2 DEF ReportsOf
      <4>2. Succeeded(results[4]) /\ 4 \in report'.kept
        BY <3>2, <4>1 DEF audit_report, State
      <4>3. Commands(plan)[4].sudo /\ 4 \in 1 .. Len(results)
        <5>1. Len(Commands(plan)) = 5 /\ 4 \in 1 .. 5
          BY <3>2, CommandShape
        <5> QED
          BY <2>1, <3>2, <5>1, CommandShape
      <4> QED
        BY <2>1, <4>2, <4>3 DEF Genuine
    <3>3. CASE plan.collector \notin {"logs", "audit"}
      <4>1. report' \in {services_report(plan.backend), security_report,
                         packages_report(plan.backend), containers_report(plan.backend),
                         hardware_report, storage_report, sessions_report, NoReport}
            \/ report' \in network_report(plan.backend)
        BY <2>1, <3>3 DEF ReportsOf
      <4>2. \A available, kept : State(available, "none", kept).access # "elevated"
        BY DEF State
      <4>3. report'.access # "elevated"
        <5>1. services_report(plan.backend).access # "elevated"
          BY <4>2 DEF services_report
        <5>2. packages_report(plan.backend).access # "elevated"
          BY <4>2 DEF packages_report
        <5>3. containers_report(plan.backend).access # "elevated"
          BY <4>2 DEF containers_report
        <5>4. /\ security_report.access # "elevated"
              /\ \A r \in network_report(plan.backend) : r.access # "elevated"
              /\ hardware_report.access # "elevated" /\ storage_report.access # "elevated"
              /\ sessions_report.access # "elevated" /\ NoReport.access # "elevated"
          BY <4>2 DEF security_report, network_report, hardware_report, storage_report,
                      sessions_report, NoReport
        <5> QED
          BY <4>1, <5>1, <5>2, <5>3, <5>4
      <4> QED
        BY <4>3
    <3> QED
      BY <3>1, <3>2, <3>3
  <2>5. (\E i \in report'.kept \ {0} : results[i].executed_with_sudo) =>
           report'.access = "elevated"
    <3> SUFFICES ASSUME NEW i \in report'.kept \ {0}, results[i].executed_with_sudo
                 PROVE  report'.access = "elevated"
      OBVIOUS
    <3>1. CASE plan.collector = "logs" /\ i = 1
      <4>1. Succeeded(results[1]) /\ 1 \in report'.kept
        BY <2>3, <3>1
      <4> QED
        BY <2>1, <3>1, <4>1 DEF ReportsOf, logs_report, State
    <3>2. CASE plan.collector = "audit" /\ i = 4
      <4>1. Succeeded(results[4]) /\ report' = audit_report
        BY <2>1, <2>3, <3>2 DEF ReportsOf
      <4> QED
        BY <4>1 DEF audit_report, State
    <3> QED
      BY <2>3, <3>1, <3>2
  <2> QED
    BY <2>3, <2>4, <2>5
<1> QED
  BY <1>1, AnswersBelongToTheirCalls, PTL DEF Spec, AccessIsHonest

-----------------------------------------------------------------------------
(* Availability. *)

\* The packages collector goes by one of the four managers it knows, or by none.
PackagePlan == plan.collector = "packages" => plan.backend \in
                  {NoBackend, "dpkg", "rpm", "pacman", "apk"}

LEMMA ManagersAreKnown ==
    ASSUME NEW h
    PROVE  detect_manager(package_manager_precedence, h) \in
              {NoBackend, "dpkg", "rpm", "pacman", "apk"}
<1> DEFINE found == {i \in DOMAIN package_manager_precedence :
                        \/ package_manager_precedence[i] = "dpkg" /\ "dpkg-query" \in h.commands
                        \/ /\ package_manager_precedence[i] \in {"rpm", "pacman", "apk"}
                           /\ package_manager_precedence[i] \in h.commands}
           best == CHOOSE i \in found : \A j \in found : i <= j
<1>1. detect_manager(package_manager_precedence, h)
        = IF found = {} THEN NoBackend ELSE package_manager_precedence[best]
  BY DEF detect_manager, FirstWith
<1>2. found \subseteq {1, 2, 3, 4}
  BY DEF package_manager_precedence
<1>3. found # {} => \E i \in found : \A j \in found : i <= j
  <2>1. CASE 1 \in found
    BY <1>2, <2>1
  <2>2. CASE 1 \notin found /\ 2 \in found
    BY <1>2, <2>2
  <2>3. CASE 1 \notin found /\ 2 \notin found /\ 3 \in found
    BY <1>2, <2>3
  <2>4. CASE 1 \notin found /\ 2 \notin found /\ 3 \notin found
    BY <1>2, <2>4
  <2> QED
    BY <2>1, <2>2, <2>3, <2>4
<1>4. found # {} => best \in found
  <2> HIDE DEF found
  <2> QED
    BY <1>3
<1>5. found # {} => package_manager_precedence[best] \in {"dpkg", "rpm", "pacman", "apk"}
  BY <1>4
<1> HIDE DEF found, best
<1> QED
  BY <1>1, <1>5

LEMMA PackagePlansHold == Spec => []PackagePlan
<1>1. Init => PackagePlan
  BY DEF Init, PackagePlan, NoPlan
<1>2. PackagePlan /\ [Next]_vars => PackagePlan'
  <2> SUFFICES ASSUME PackagePlan, [Next]_vars PROVE PackagePlan'
    OBVIOUS
  <2>1. ASSUME NEW collector \in Collectors, Begin(collector) PROVE PackagePlan'
    <3>1. plan' = [collector |-> collector, backend |-> BackendOf(collector)]
      BY <2>1 DEF Begin
    <3>2. collector = "packages" =>
             BackendOf(collector) = detect_manager(package_manager_precedence, host)
      BY DEF BackendOf
    <3> QED
      BY <3>1, <3>2, ManagersAreKnown DEF PackagePlan
  <2>2. CASE plan' = plan \/ plan' = NoPlan
    BY <2>2 DEF PackagePlan, NoPlan
  <2> QED
    BY <2>1, <2>2 DEF Next, Collects, Call, TakeAnswer, Return, Follow, FollowEnds, Ended, Steps,
                      SudoLapses, CommandRemoved, vars
<1> QED
  BY <1>1, <1>2, PTL DEF Spec

\* A report is available when something was read, and holds nothing when it is not.
THEOREM AvailabilityIsAsClaimed == Spec => AvailabilityIsHonest
<1>1. CollectionInv /\ PackagePlan /\ [Next]_vars =>
        [(report' # report /\ report'.kind = "state") =>
            IF report'.available
            THEN \/ \E i \in report'.kept : i = 0 \/ ZeroOrExpected(results[i]) \/ ~Silent(results[i])
                 \/ plan.backend \in {"dpkg", "rpm", "pacman", "apk", "systemd", "runit"}
                 \/ (plan.collector = "audit" /\ \E i \in {4, 5} : results[i].stderr)
            ELSE report'.kept = {}]_vars
  <2> DEFINE Read == \E i \in report'.kept :
                        i = 0 \/ ZeroOrExpected(results[i]) \/ ~Silent(results[i])
             Excepted == \/ plan.backend \in {"dpkg", "rpm", "pacman", "apk", "systemd", "runit"}
                         \/ plan.collector = "audit" /\ \E i \in {4, 5} : results[i].stderr
  <2> SUFFICES ASSUME CollectionInv, PackagePlan, [Next]_vars,
                      report' # report, report'.kind = "state"
               PROVE  IF report'.available THEN Read \/ Excepted ELSE report'.kept = {}
    OBVIOUS
  <2>1. /\ report' \in ReportsOf(plan) /\ Len(results) = Len(Commands(plan))
        /\ results \in Seq(CommandResult) /\ DOMAIN results = 1 .. Len(results)
    BY WhoReports
  <2> USE DEF State, Succeeded, Zero, ZeroOrExpected
  <2>2. CASE plan.collector = "logs"
    <3>1. report' \in logs_report(plan.backend)
      BY <2>1, <2>2 DEF ReportsOf
    <3> QED
      BY <3>1 DEF logs_report
  <2>3. CASE plan.collector = "services"
    <3>1. report' = services_report(plan.backend)
      BY <2>1, <2>3 DEF ReportsOf
    <3>2. CASE plan.backend \in {"openrc", "sysvinit"}
      <4>1. Len(Commands(plan)) = 1 /\ DOMAIN results = 1 .. 1
        <5>1. Len(Commands(plan)) = 1
          BY <2>3, <3>2, CommandCounts
        <5> QED
          BY <2>1, <5>1
      <4>2. \/ report'.available = FALSE /\ report'.kept = {}
            \/ /\ report'.kept = DOMAIN results
               /\ Zero(results[1]) \/ ~Silent(results[1])
        BY <3>1, <3>2 DEF services_report
      <4>3. ~report'.available => report'.kept = {}
        BY <3>1, <3>2 DEF services_report
      <4>4. report'.available => report'.kept = DOMAIN results
        BY <3>1, <3>2 DEF services_report
      <4>5. report'.available => 1 \in report'.kept
        BY <4>1, <4>4
      <4> QED
        BY <4>2, <4>3, <4>5
    <3>3. CASE plan.backend \in {"systemd", "runit"}
      BY <3>1, <3>3 DEF services_report
    <3>4. CASE plan.backend \notin {"openrc", "sysvinit", "systemd", "runit"}
      BY <3>1, <3>4 DEF services_report
    <3> QED
      BY <3>2, <3>3, <3>4
  <2>4. CASE plan.collector = "audit"
    <3>1. report' = audit_report
      BY <2>1, <2>4 DEF ReportsOf
    <3>2. report'.available =>
             report'.kept # {} \/ (results[4].stderr \/ results[5].stderr)
      BY <3>1 DEF audit_report
    <3>3. ~report'.available => report'.kept = {}
      BY <3>1 DEF audit_report
    <3>4. \A i \in report'.kept : i = 0 \/ ZeroOrExpected(results[i])
      BY <3>1 DEF audit_report
    <3> QED
      BY <2>4, <3>2, <3>3, <3>4
  <2>5. CASE plan.collector \in {"security", "network", "hardware", "storage", "sessions"}
    <3>1. report' \in {security_report, hardware_report, storage_report, sessions_report}
          \/ report' \in network_report(plan.backend)
      BY <2>1, <2>5 DEF ReportsOf
    <3>2. report'.available = TRUE /\ 0 \in report'.kept
      <4>1. \A access, kept : /\ State(TRUE, access, {0} \cup kept).available = TRUE
                              /\ 0 \in State(TRUE, access, {0} \cup kept).kept
        OBVIOUS
      <4>2. CASE report' = security_report
        BY <4>1, <4>2 DEF security_report
      <4>3. CASE report' \in network_report(plan.backend)
        BY <4>1, <4>3 DEF network_report
      <4>4. CASE report' = hardware_report
        BY <4>1, <4>4 DEF hardware_report
      <4>5. CASE report' = storage_report
        BY <4>1, <4>5 DEF storage_report
      <4>6. CASE report' = sessions_report
        BY <4>1, <4>6 DEF sessions_report
      <4> QED
        BY <3>1, <4>2, <4>3, <4>4, <4>5, <4>6
    <3> QED
      BY <3>2
  <2>6. CASE plan.collector = "packages"
    <3>1. report' = packages_report(plan.backend)
      BY <2>1, <2>6 DEF ReportsOf
    <3>2. report'.available <=> plan.backend # NoBackend
      BY <3>1 DEF packages_report
    <3>3. report'.kept \subseteq DOMAIN results
      BY <3>1 DEF packages_report
    <3>4. plan.backend = NoBackend => report'.kept = {}
      BY <2>1, <2>6, <3>3, CommandCounts
    <3> QED
      BY <2>6, <3>2, <3>4 DEF PackagePlan
  <2>7. CASE plan.collector = "containers"
    <3>1. report' = containers_report(plan.backend)
      BY <2>1, <2>7 DEF ReportsOf
    <3>2. CASE plan.backend = NoBackend \/ ~Zero(results[1])
      BY <3>1, <3>2 DEF containers_report
    <3>3. CASE plan.backend # NoBackend /\ Zero(results[1])
      <4>1. 1 \in DOMAIN results
        BY <2>1, <2>7, <3>3, CommandCounts
      <4>2. 1 \in report'.kept
        BY <3>1, <3>3, <4>1 DEF containers_report, KeptOf
      <4>3. report'.available = TRUE
        BY <3>1, <3>3 DEF containers_report
      <4> QED
        BY <3>3, <4>2, <4>3
    <3> QED
      BY <3>2, <3>3
  <2>8. CASE plan.collector \notin {"logs", "services", "audit", "security", "packages",
                                   "containers", "network", "hardware", "storage", "sessions"}
    BY <2>1, <2>8 DEF ReportsOf, NoReport
  <2> QED
    BY <2>2, <2>3, <2>4, <2>5, <2>6, <2>7, <2>8
<1> QED
  BY <1>1, AnswersBelongToTheirCalls, PackagePlansHold, PTL DEF Spec, AvailabilityIsHonest
=============================================================================
