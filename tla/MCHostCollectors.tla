-------------------------- MODULE MCHostCollectors --------------------------
(***************************************************************************)
(* Hosts that between them have every backend, without sudo among them,    *)
(* without `tail' and without anything.                                    *)
(***************************************************************************)
EXTENDS HostCollectors

MCTools == {"sudo", "journalctl", "tail", "systemctl", "rc-status", "sv", "service", "sestatus",
            "aa-status", "auditctl", "dpkg-query", "apt", "rpm", "dnf", "pacman", "apk", "docker",
            "podman", "ip", "ufw", "firewall-cmd", "nft", "dmesg", "lspci", "lsusb", "nvidia-smi",
            "lsblk", "smartctl", "last"}
MCCollectors == {"logs", "follow", "services", "audit", "security", "packages", "containers",
                 "network", "hardware", "storage", "sessions"}

Debian == [commands |-> {"sudo", "journalctl", "systemctl", "auditctl", "dpkg-query", "apt",
                         "docker", "ip", "ufw", "lspci", "nvidia-smi", "lsblk", "smartctl",
                         "last"},
           paths |-> {"/run/systemd/system"}]
Fedora == [commands |-> {"sudo", "dmesg", "service", "rpm", "dnf", "podman", "ip", "firewall-cmd",
                         "sestatus"},
           paths |-> {"/sys/module/apparmor"}]
Alpine == [commands |-> {"sudo", "tail", "rc-status", "apk", "nft", "systemctl"},
           paths |-> {"/run/openrc", "/var/log/messages"}]
Void == [commands |-> {"sv", "pacman", "aa-status"}, paths |-> {"/var/log/syslog"}]
Bare == [commands |-> {}, paths |-> {"/etc/init.d"}]
MCHosts == {Debian, Fedora, Alpine, Void, Bare}
=============================================================================
