--------------------------- MODULE GatedCollections ---------------------------
(***************************************************************************)
(* What the collection gate promises about the privileged collectors,      *)
(* whoever runs them: a collection of theirs begins, and a stream of       *)
(* theirs is opened, only while the session is not locked, on behalf of    *)
(* one caller at a time; what has begun goes on until it ends or is        *)
(* cancelled, whatever becomes of the lock.  When the gate is asked, and   *)
(* what a collection brings, is left to the implementations                *)
(* (CollectorScheduler, PrivilegedSession).                                *)
(***************************************************************************)

CONSTANTS Gated,      \* the collectors the gate defers while the session is locked
          Callers     \* who may ask for a collection

VARIABLES locked,     \* TRUE while the gate is closed
          flight,     \* [Gated -> the callers with a collection of it in flight]
          open        \* the collectors whose stream is open

vars == <<locked, flight, open>>

Init ==
    /\ locked \in BOOLEAN
    /\ flight = [c \in Gated |-> {}]
    /\ open = {}

Collections == [Gated -> SUBSET Callers]

\* A caller gathers collections, maybe in the step that settled its own request to unlock.
Begin(caller) ==
    /\ locked' = FALSE
    /\ flight' \in Collections
    /\ \A c \in Gated : flight'[c] \in {flight[c], flight[c] \cup {caller}}
    /\ UNCHANGED open

Open ==
    /\ locked = FALSE
    /\ open \subseteq open' /\ open' \subseteq Gated
    /\ UNCHANGED <<locked, flight>>

\* Collections end, or the task or the interface they belong to does.
End ==
    /\ flight' \in Collections
    /\ \A c \in Gated : flight'[c] \subseteq flight[c]
    /\ open' \subseteq open
    /\ UNCHANGED locked

Toggle ==
    /\ locked' = ~locked
    /\ UNCHANGED <<flight, open>>

Next == (\E caller \in Callers : Begin(caller)) \/ Open \/ End \/ Toggle

Spec == Init /\ [][Next]_vars
=============================================================================
