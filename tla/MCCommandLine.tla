---------------------------- MODULE MCCommandLine ----------------------------
(***************************************************************************)
(* The command line over a part of the real section tables: a section      *)
(* without a subsystem of its own whose payload includes privileged data,  *)
(* an ordinary one, a privileged one and the streaming one.                *)
(***************************************************************************)
EXTENDS CommandLine, TLC

Tables == INSTANCE SectionPolicies

MCSections == {"Overview", "Hardware", "Security", "Logs"} \cap Tables!SECTIONS
MCSubsystems == {"hardware", "security", "logs", "runtime"}
MCPrivileged == MCSections \cap Tables!PRIVILEGED_SECTIONS
MCCollected == MCSubsystems \cap Tables!build_collectors
MCDeferred == MCSubsystems \cap Tables!DEFERRED_SUBSYSTEMS
MCRedacted == MCSubsystems \cap Tables!LOCKED_PRIVILEGED_SUBSYSTEMS
MCStreaming == Tables!StreamingSubsystems
MCSubsystemOf == [s \in MCSections |-> Tables!SECTION_POLICIES[s].subsystem]
MCPayloadOf == [s \in MCSections |-> MCSubsystems \cap Tables!section_payload_data(s)]
MCRenderedOf == [s \in MCSections |-> MCSubsystems \cap Tables!RenderedFields(s)]
MCStatusBar == MCSubsystems \cap Tables!StatusBarSubsystems

Line(command, targets) ==
    [command |-> command, targets |-> targets, cached |-> FALSE, json |-> FALSE,
     unlock |-> FALSE, follow |-> FALSE, output |-> FALSE]

\* The first process writes reports; the second one only shares the cache.
MCRequestsOf == [r \in Runs |->
    IF r = "reporter"
    THEN          {[Line("scan", {"all"}) EXCEPT !.unlock = TRUE, !.output = TRUE],
                   [Line("scan", {"Overview"}) EXCEPT !.json = TRUE, !.output = TRUE],
                   [Line("scan", {"Hardware", "Security"}) EXCEPT !.unlock = TRUE],
                   [Line("scan", {"Logs"}) EXCEPT !.cached = TRUE, !.json = TRUE],
                   [Line("scan", {"Logs"}) EXCEPT !.unlock = TRUE, !.follow = TRUE],
                   [Line("scan", {"Logs", "Hardware"}) EXCEPT !.follow = TRUE],
                   Line("scan", {"all", "Logs"})}
    ELSE {Line("status", {})}]
MCHeldBefore == {MCSubsystems}
=============================================================================
