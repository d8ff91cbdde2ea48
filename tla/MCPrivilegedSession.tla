------------------------ MODULE MCPrivilegedSession ------------------------
(***************************************************************************)
(* The session on small instances: the overview, the log table and the     *)
(* audit section, with the log stream and the periodic audit collector.    *)
(***************************************************************************)
EXTENDS PrivilegedSession

MCCollectorOf == [s \in Privileged |-> s]
=============================================================================
