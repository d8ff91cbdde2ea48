------------------------ MODULE MCCollectorScheduler ------------------------
(***************************************************************************)
(* The scheduler on a small instance: a periodic collector and the log     *)
(* stream, both gated, the stream's backend sometimes missing.             *)
(***************************************************************************)
EXTENDS CollectorScheduler

MCCollectors == {"audit", "logs"}

\* App's own order of calls: the keys that refresh are handled after on_mount, which awaits
\* start(), and before on_unmount, which calls stop() (app.py:250-281).
RefreshesWhileRunning ==
    \A c \in Collectors : flight'[c] \cap Refreshers \subseteq flight[c] \/ phase = "running"

\* The scheduler as App calls it.
AppSpec == Init /\ [][Next /\ RefreshesWhileRunning]_vars
=============================================================================
