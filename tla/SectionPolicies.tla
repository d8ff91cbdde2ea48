--------------------------- MODULE SectionPolicies ---------------------------
(***************************************************************************)
(* The tables that say which sections there are, what each shows and what  *)
(* it may show before sudo is unlocked (sections.py), what the renderers   *)
(* read (ui/layout.py) and which collectors serve them                     *)
(* (runtime/bootstrap.py).  The tables are maintained by hand in several   *)
(* places; the other modules take their parameters from here, so that the  *)
(* assumptions they make about them are evaluated on the real tables.      *)
(***************************************************************************)
EXTENDS Sequences, FiniteSets, TLC

None == "none"

CATEGORY_POLICIES ==
       "Overview"       :> <<"Overview">>
    @@ "Health"         :> <<"System Health", "Hardware", "Performance", "Storage", "Power">>
    @@ "Operations"     :> <<"Processes", "Services", "Containers", "Sessions", "Events">>
    @@ "Network"        :> <<"Network Summary", "Interfaces", "Routes & DNS",
                             "Ports & Connections", "Firewall">>
    @@ "Security"       :> <<"Security Posture", "Access & Identity", "Exposure", "Audit">>
    @@ "Administration" :> <<"System", "Kernel", "Packages", "Logs", "Runtime Backends">>

\* payload: the subsystems of payload_data when the payload is combined, {} otherwise.
\* updated: updated_at_subsystems.
Policy(category, subsystem, mode, payload, updated) ==
    [category |-> category, subsystem |-> subsystem, mode |-> mode, payload |-> payload,
     updated |-> updated, requiresAuth |-> FALSE, collection |-> "eager",
     followable |-> FALSE, cliVisible |-> TRUE]

Plain(category, subsystem) == Policy(category, subsystem, "subsystem", {}, {})
Combined(category, subsystem, subsystems) ==
    Policy(category, subsystem, "combined", subsystems, subsystems)
RequiringAuth(policy) ==
    [policy EXCEPT !.requiresAuth = TRUE, !.collection = "defer_until_unlock"]
TuiOnly(policy) == [policy EXCEPT !.cliVisible = FALSE]

SECTION_POLICIES ==
       "Overview"            :> Combined("Overview", None,
                                    {"hardware", "os_state", "processes", "services", "security",
                                     "network", "storage", "packages", "containers", "sessions",
                                     "audit", "runtime"})
    @@ "System Health"       :> TuiOnly(Combined("Health", "os_state",
                                    {"hardware", "os_state", "runtime", "processes", "services"}))
    @@ "System"              :> Combined("Administration", "os_state", {"os_state", "runtime"})
    @@ "Hardware"            :> [Plain("Health", "hardware")
                                    EXCEPT !.updated = {"hardware", "power", "storage"}]
    @@ "Performance"         :> Combined("Health", None, {"hardware", "os_state", "processes"})
    @@ "Network"             :> Plain("Network", "network")
    @@ "Network Summary"     :> TuiOnly(Combined("Network", "network", {"network", "runtime"}))
    @@ "Interfaces"          :> TuiOnly(Plain("Network", "network"))
    @@ "Routes & DNS"        :> TuiOnly(Plain("Network", "network"))
    @@ "Ports & Connections" :> TuiOnly(Plain("Network", "network"))
    @@ "Firewall"            :> Combined("Network", "network", {"network", "runtime"})
    @@ "Processes"           :> Plain("Operations", "processes")
    @@ "Services"            :> Plain("Operations", "services")
    @@ "Storage"             :> Plain("Health", "storage")
    @@ "Logs"                :> [RequiringAuth(Plain("Administration", "logs"))
                                    EXCEPT !.followable = TRUE]
    @@ "Security"            :> RequiringAuth(Plain("Security", "security"))
    @@ "Security Posture"    :> TuiOnly(RequiringAuth(Plain("Security", "security")))
    @@ "Access & Identity"   :> TuiOnly(RequiringAuth(Plain("Security", "security")))
    @@ "Exposure"            :> TuiOnly(RequiringAuth(Plain("Security", "security")))
    @@ "Sessions"            :> Plain("Operations", "sessions")
    @@ "Power"               :> Plain("Health", "power")
    @@ "Kernel"              :> Plain("Administration", "os_state")
    @@ "Packages"            :> Plain("Administration", "packages")
    @@ "Runtime Backends"    :> TuiOnly(Combined("Administration", "runtime",
                                    {"runtime", "services", "logs", "packages", "network",
                                     "audit", "containers"}))
    @@ "Audit"               :> RequiringAuth(Plain("Security", "audit"))
    @@ "Containers"          :> Plain("Operations", "containers")
    @@ "Events"              :> Policy("Operations", None, "events", {}, {})

AllSections == DOMAIN SECTION_POLICIES
TOP_LEVEL_CATEGORIES == DOMAIN CATEGORY_POLICIES

SectionsWhere(Holds(_)) == {s \in AllSections : Holds(SECTION_POLICIES[s])}

SECTIONS == SectionsWhere(LAMBDA policy : policy.cliVisible)
FOLLOWABLE_SECTIONS == SectionsWhere(LAMBDA policy : policy.followable)
PRIVILEGED_SECTIONS == SectionsWhere(LAMBDA policy : policy.requiresAuth)

DEFERRED_SUBSYSTEMS ==
    {SECTION_POLICIES[s].subsystem : s \in SectionsWhere(LAMBDA policy :
        /\ policy.requiresAuth
        /\ policy.collection = "defer_until_unlock"
        /\ policy.subsystem # None)}

get_category_sections(category) == CATEGORY_POLICIES[category]
get_default_section(category) == Head(get_category_sections(category))
get_section_category(section) == SECTION_POLICIES[section].category

Listed(section, category) ==
    \E i \in DOMAIN get_category_sections(category) : get_category_sections(category)[i] = section

get_tui_visible_section(section) ==
    IF Listed(section, get_section_category(section)) THEN section
    ELSE get_default_section(get_section_category(section))

\* The check at import: every listed section has a policy that names its category.
ASSUME TablesAgree ==
    \A category \in TOP_LEVEL_CATEGORIES : \A i \in DOMAIN get_category_sections(category) :
        LET section == get_category_sections(category)[i]
        IN  section \in AllSections /\ get_section_category(section) = category

\* The fields whose data section_payload_data returns: the JSON report, and what the
\* signature of a static pane is computed from.
section_payload_data(section) ==
    LET policy == SECTION_POLICIES[section]
    IN  CASE policy.mode = "events" -> {"events"}
          [] policy.mode = "combined" -> policy.payload
          [] policy.mode = "subsystem" -> {policy.subsystem}

\* What a change must touch to concern the section, and what section_updated_at takes the
\* latest of.
RelevantSubsystems(section) ==
    LET policy == SECTION_POLICIES[section]
    IN  IF policy.mode = "events" THEN {"events"}
        ELSE IF policy.updated # {} THEN policy.updated
        ELSE IF policy.payload # {} THEN policy.payload
        ELSE IF policy.subsystem # None THEN {policy.subsystem}
        ELSE {}

\* The fields of the state that format_state_section and the interactive tables read.
RenderedFields(section) ==
    CASE section = "Overview" ->
            {"hardware", "os_state", "processes", "services", "security", "network", "storage",
             "packages", "containers", "sessions", "audit", "runtime", "timestamp"}
      [] section = "System Health" -> {"hardware", "os_state", "runtime", "processes", "services"}
      [] section = "System" -> {"os_state", "runtime"}
      [] section = "Hardware" -> {"hardware", "power", "storage"}
      [] section = "Performance" -> {"hardware", "os_state", "processes"}
      [] section = "Firewall" -> {"network", "runtime"}
      [] section = "Runtime Backends" -> {"runtime", "backend_status"}
      [] section = "Events" -> {"events", "timestamp"}
      [] OTHER -> {SECTION_POLICIES[section].subsystem}

-----------------------------------------------------------------------------
(* The collectors, by the subsystem each serves, and what bootstrap redacts. *)

build_collectors ==
    {"hardware", "os_state", "processes", "network", "services", "logs", "storage", "security",
     "sessions", "power", "packages", "audit", "containers"}

StreamingSubsystems == {"logs"}

LOCKED_PRIVILEGED_SUBSYSTEMS == {"logs", "security", "audit"}

\* The fields of SystemState that hold data.
SystemState == build_collectors \cup {"runtime"}

\* The sections drawn as a table of rows, and what format_status_bar shows of any state.
INTERACTIVE_SECTIONS == {"Processes", "Services", "Logs", "Network", "Interfaces", "Packages"}
StatusBarSubsystems == {"security", "services"}
=============================================================================
