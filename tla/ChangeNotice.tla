---------------------------- MODULE ChangeNotice ----------------------------
(***************************************************************************)
(* What the state store promises to the tasks that wait for a change: a    *)
(* request for something newer than version `since' is answered with a     *)
(* newer version once there is one, and an answer that is not newer is     *)
(* given only by a timeout, while nothing has changed.  How a waiting task *)
(* is woken is left to the implementation (StateStore).                    *)
(***************************************************************************)
EXTENDS Integers

CONSTANT Waiters      \* the tasks that call wait_for_change[_notice]

VARIABLES version,    \* the number of changes published so far
          pc,         \* [Waiters -> {"idle", "waiting", "told"}]
          since,      \* the version each request named
          told        \* the version each answer carried

vars == <<version, pc, since, told>>

Init ==
    /\ version = 0
    /\ pc = [w \in Waiters |-> "idle"]
    /\ since = [w \in Waiters |-> 0]
    /\ told = [w \in Waiters |-> 0]

Publish ==
    /\ version' = version + 1
    /\ UNCHANGED <<pc, since, told>>

\* The caller names a version it has seen; it is answered at once when a newer
\* one is already there.
Ask(w, v) ==
    /\ pc[w] # "waiting"
    /\ since' = [since EXCEPT ![w] = v]
    /\ \/ /\ version > v
          /\ pc' = [pc EXCEPT ![w] = "told"]
          /\ told' = [told EXCEPT ![w] = version]
       \/ /\ version <= v
          /\ pc' = [pc EXCEPT ![w] = "waiting"]
          /\ told' = [told EXCEPT ![w] = 0]
    /\ UNCHANGED version

Tell(w) ==
    /\ pc[w] = "waiting"
    /\ version > since[w]
    /\ pc' = [pc EXCEPT ![w] = "told"]
    /\ told' = [told EXCEPT ![w] = version]
    /\ UNCHANGED <<version, since>>

\* A timeout may answer a request while nothing newer exists.
ReportQuiet(w) ==
    /\ pc[w] = "waiting"
    /\ version <= since[w]
    /\ pc' = [pc EXCEPT ![w] = "told"]
    /\ told' = [told EXCEPT ![w] = version]
    /\ UNCHANGED <<version, since>>

Withdraw(w) ==
    /\ pc[w] = "waiting"
    /\ pc' = [pc EXCEPT ![w] = "idle"]
    /\ since' = [since EXCEPT ![w] = 0]
    /\ UNCHANGED <<version, told>>

Next ==
    \/ Publish
    \/ \E w \in Waiters :
          \/ \E v \in 0 .. version : Ask(w, v)
          \/ Tell(w)
          \/ ReportQuiet(w)
          \/ Withdraw(w)

Spec == Init /\ [][Next]_vars /\ \A w \in Waiters : WF_vars(Tell(w))
=============================================================================
