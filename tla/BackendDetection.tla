-------------------------- MODULE BackendDetection --------------------------
(***************************************************************************)
(* Which backend of each kind a host is taken to use                       *)
(* (execution/backends.py, runtime/context.py and the collectors' own      *)
(* detection).  A host is the commands `which' finds and the files that    *)
(* exist.  Each kind has an order of preference, which the configuration   *)
(* may change; the first backend with a sign of it is the one.             *)
(***************************************************************************)
EXTENDS Naturals, Sequences, FiniteSets

NoBackend == "none"

\* AppConfig's defaults.
service_manager_precedence == <<"systemd", "openrc", "runit", "sysvinit">>
log_backend_precedence == <<"journalctl", "syslog", "dmesg">>
firewall_backend_precedence == <<"ufw", "firewalld", "nftables">>
package_manager_precedence == <<"dpkg", "rpm", "pacman", "apk">>
container_runtime_precedence == <<"docker", "podman">>
security_backend_precedence == <<"selinux", "apparmor", "sudo">>

SERVICE_MANAGER_COMMANDS ==
    [systemd |-> "systemctl", openrc |-> "rc-service", runit |-> "sv", sysvinit |-> "service"]
SERVICE_MANAGER_SENTINELS ==
    [systemd |-> {"/run/systemd/system"},
     openrc |-> {"/run/openrc"},
     runit |-> {"/run/runit", "/etc/runit", "/etc/service", "/var/service"},
     sysvinit |-> {"/etc/init.d"}]
LOG_BACKEND_COMMANDS == [journalctl |-> "journalctl", dmesg |-> "dmesg"]
SYSLOG_PATHS == {"/var/log/syslog", "/var/log/messages"}
FIREWALL_COMMANDS == [ufw |-> "ufw", firewalld |-> "firewall-cmd", nftables |-> "nft"]
PACKAGE_MANAGER_COMMANDS ==
    [dpkg |-> "dpkg-query", rpm |-> "rpm", pacman |-> "pacman", apk |-> "apk"]
CONTAINER_RUNTIME_COMMANDS == [docker |-> "docker", podman |-> "podman"]
SECURITY_BACKEND_COMMANDS ==
    [selinux |-> {"getenforce", "sestatus"}, apparmor |-> {"aa-status"}, sudo |-> {"sudo"}]
SECURITY_SENTINELS ==
    [selinux |-> {"/sys/fs/selinux", "/etc/selinux/config"},
     apparmor |-> {"/sys/module/apparmor", "/etc/apparmor"},
     sudo |-> {}]

\* The first of the order that shows a sign; NoBackend when none does.
FirstWith(precedence, Sign(_)) ==
    LET found == {i \in DOMAIN precedence : Sign(precedence[i])}
    IN  IF found = {} THEN NoBackend
        ELSE precedence[CHOOSE i \in found : \A j \in found : i <= j]

HasCommand(commands, backend, host) ==
    backend \in DOMAIN commands /\ commands[backend] \in host.commands

detect_service_manager(precedence, host) ==
    FirstWith(precedence, LAMBDA backend :
        \/ backend \in DOMAIN SERVICE_MANAGER_SENTINELS
           /\ SERVICE_MANAGER_SENTINELS[backend] \cap host.paths # {}
        \/ HasCommand(SERVICE_MANAGER_COMMANDS, backend, host))

detect_log_backend(precedence, host) ==
    FirstWith(precedence, LAMBDA backend :
        \/ backend = "syslog" /\ SYSLOG_PATHS \cap host.paths # {}
        \/ HasCommand(LOG_BACKEND_COMMANDS, backend, host))

detect_firewall_backend(precedence, host) ==
    FirstWith(precedence, LAMBDA backend : HasCommand(FIREWALL_COMMANDS, backend, host))

\* _detect_named_backend of the runtime context.
detect_named_backend(precedence, commands, host) ==
    FirstWith(precedence, LAMBDA backend : HasCommand(commands, backend, host))

\* The packages and containers collectors detect theirs on their own.  (The first form is a
\* faulty one; the model does not use it.)
detect_managerByName(precedence, host) ==
    FirstWith(precedence, LAMBDA manager : manager \in host.commands)

detect_manager(precedence, host) ==
    FirstWith(precedence, LAMBDA manager :
        \/ manager = "dpkg" /\ "dpkg-query" \in host.commands
        \/ manager \in {"rpm", "pacman", "apk"} /\ manager \in host.commands)

detect_runtime(precedence, host) ==
    FirstWith(precedence, LAMBDA runtime : runtime \in host.commands)

detect_security_backend(precedence, host) ==
    FirstWith(precedence, LAMBDA backend :
        /\ backend \in DOMAIN SECURITY_BACKEND_COMMANDS
        /\ \/ SECURITY_SENTINELS[backend] \cap host.paths # {}
           \/ SECURITY_BACKEND_COMMANDS[backend] \cap host.commands # {})

\* detect_runtime_context; the distribution's own metadata is left out.
detect_runtime_context(host) ==
    [service_manager |-> detect_service_manager(service_manager_precedence, host),
     log_backend |-> detect_log_backend(log_backend_precedence, host),
     package_manager |->
        detect_named_backend(package_manager_precedence, PACKAGE_MANAGER_COMMANDS, host),
     firewall_backend |-> detect_firewall_backend(firewall_backend_precedence, host),
     security_backend |-> detect_security_backend(security_backend_precedence, host),
     container_runtime |->
        detect_named_backend(container_runtime_precedence, CONTAINER_RUNTIME_COMMANDS, host)]
=============================================================================
