---------------------------- MODULE MCStateStore ----------------------------
(***************************************************************************)
(* The state store on a small instance: one ordinary collector and the     *)
(* logs collector, one task that waits for notices and one that waits for  *)
(* the state, and a few changes.                                           *)
(***************************************************************************)
EXTENDS StateStore

MCSubsystems == {"hardware", "logs", "runtime"}
MCSubsystemOf == [c \in Collectors |-> c]
=============================================================================
