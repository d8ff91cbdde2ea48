---------------------- MODULE CollectorSchedulerProofs ----------------------
(***************************************************************************)
(* Proofs about the scheduler, for any collectors, any of them gated,      *)
(* streaming or unreliable, and any number of concurrent refreshes.        *)
(*                                                                         *)
(* Collections begin and end in several places of the code, always through *)
(* _collect_once.  Lemmas BeginEffect and DoneEffect say what its two      *)
(* steps do to the collectors, and each action's proof uses them.          *)
(***************************************************************************)
EXTENDS CollectorScheduler, TLAPS

-----------------------------------------------------------------------------
(* The two steps of _collect_once. *)

\* A health record built for a status has that status.
LEMMA HealthType ==
    ASSUME NEW h \in Health, NEW status \in Statuses
    PROVE  BuildHealth(h, status) \in Health /\ BuildHealth(h, status).status = status
  BY DEF BuildHealth, Health, Statuses

\* The failure count stays within its cap.
LEMMA FailureCountType ==
    ASSUME NEW result, NEW n \in 0 .. FailureCap
    PROVE  NextFailureCount(result, n) \in 0 .. FailureCap
  BY CollectorsAssumption DEF NextFailureCount

\* What the first step of the collections gathered by `caller' does to every collector.
BeginsFor(targets, caller, verdict) ==
    /\ flight' \in [Collectors -> SUBSET Callers]
    /\ older' \in [Collectors -> [Callers -> SUBSET Callers]]
    /\ superseded' = superseded /\ stale' = stale
    /\ health' \in [Collectors -> Health]
    /\ \A c \in Collectors :
          /\ flight'[c] = flight[c] \/ flight'[c] = flight[c] \cup {caller}
          /\ caller \in flight'[c] /\ caller \notin flight[c]
                => c \in targets /\ verdict[c] = "begun"
          /\ c \in targets /\ verdict[c] = "begun" => caller \in flight'[c]
          /\ health'[c].status = "running"
                => health[c].status = "running" \/ caller \in flight'[c]
          /\ Deferred(c) => flight'[c] = flight[c]

\* The first step has that effect.
LEMMA BeginEffect ==
    ASSUME TypeOK, NEW targets \in SUBSET Collectors, NEW caller \in Callers, NEW verdict,
           BeginAll(targets, caller, verdict)
    PROVE  BeginsFor(targets, caller, verdict)
<1> DEFINE begun == {c \in targets : verdict[c] = "begun"}
<1>1. /\ flight \in [Collectors -> SUBSET Callers]
      /\ older \in [Collectors -> [Callers -> SUBSET Callers]]
      /\ health \in [Collectors -> Health]
  BY DEF TypeOK
<1>2. /\ \A c \in targets : verdict[c] \in Verdicts(c)
      /\ flight' = [c \in Collectors |->
                      IF c \in begun THEN flight[c] \cup {caller} ELSE flight[c]]
      /\ older' = [c \in Collectors |->
                      IF c \in begun THEN [older[c] EXCEPT ![caller] = flight[c]]
                      ELSE older[c]]
      /\ health' = [c \in Collectors |->
                      IF c \in targets
                      THEN BuildHealth(health[c], StatusOf(verdict[c])) ELSE health[c]]
      /\ UNCHANGED <<superseded, stale>>
  BY DEF BeginAll
<1>3. \A c \in targets : /\ StatusOf(verdict[c]) \in Statuses
                         /\ StatusOf(verdict[c]) = "running" <=> c \in begun
                         /\ Deferred(c) => c \notin begun
  BY <1>2 DEF Verdicts, StatusOf, Statuses
<1>4. \A c \in targets : /\ BuildHealth(health[c], StatusOf(verdict[c])) \in Health
                         /\ BuildHealth(health[c], StatusOf(verdict[c])).status = "running"
                               <=> c \in begun
  BY <1>1, <1>3, HealthType
<1>5. flight' \in [Collectors -> SUBSET Callers]
  BY <1>1, <1>2
<1>6. older' \in [Collectors -> [Callers -> SUBSET Callers]]
  BY <1>1, <1>2
<1>7. health' \in [Collectors -> Health]
  BY <1>1, <1>2, <1>4
<1> QED
  BY <1>1, <1>2, <1>3, <1>4, <1>5, <1>6, <1>7 DEF BeginsFor

\* A collection that leaves keeps the bookkeeping well-typed.
LEMMA LeaveType ==
    ASSUME TypeOK, NEW c \in Collectors, NEW caller \in Callers, Leave(c, caller)
    PROVE  /\ flight' \in [Collectors -> SUBSET Callers]
           /\ older' \in [Collectors -> [Callers -> SUBSET Callers]]
           /\ flight'[c] = flight[c] \ {caller}
           /\ \A d \in Collectors \ {c} : flight'[d] = flight[d]
  BY DEF TypeOK, Leave

\* What its last step does.
DoneFor(c, caller, result) ==
    /\ caller \in flight[c]
    /\ flight' \in [Collectors -> SUBSET Callers]
    /\ older' \in [Collectors -> [Callers -> SUBSET Callers]]
    /\ superseded' \in [Collectors -> SUBSET Callers]
    /\ stale' \in [Collectors -> BOOLEAN]
    /\ health' \in [Collectors -> Health]
    /\ flight'[c] = flight[c] \ {caller}
    /\ \A d \in Collectors \ {c} : flight'[d] = flight[d] /\ health'[d] = health[d]
    /\ health'[c].status = result

\* What the second step of a collection does.
LEMMA DoneEffect ==
    ASSUME TypeOK, NEW c \in Collectors, NEW caller \in Callers,
           NEW result \in {"ok", "error"}, CollectDone(c, caller, result)
    PROVE  DoneFor(c, caller, result)
<1>1. /\ caller \in flight[c]
      /\ Leave(c, caller)
      /\ health' = [health EXCEPT ![c] = BuildHealth(health[c], result)]
  BY DEF CollectDone
<1>2. BuildHealth(health[c], result) \in Health /\ BuildHealth(health[c], result).status = result
  BY HealthType DEF TypeOK, Statuses
<1>3. /\ health' \in [Collectors -> Health]
      /\ health'[c].status = result
      /\ \A d \in Collectors \ {c} : health'[d] = health[d]
  BY <1>1, <1>2 DEF TypeOK
<1>4. superseded' \in [Collectors -> SUBSET Callers] /\ stale' \in [Collectors -> BOOLEAN]
  <2>1. CASE result = "ok"
    <3>1. /\ stale' = [stale EXCEPT ![c] = caller \in superseded[c]]
          /\ superseded' = [superseded EXCEPT ![c] = (superseded[c] \cup older[c][caller]) \ {caller}]
      BY <2>1 DEF CollectDone
    <3>2. older[c][caller] \in SUBSET Callers /\ superseded[c] \in SUBSET Callers
      BY DEF TypeOK
    <3> QED
      BY <3>1, <3>2 DEF TypeOK
  <2>2. CASE result # "ok"
    <3>1. stale' = stale /\ superseded' = [superseded EXCEPT ![c] = superseded[c] \ {caller}]
      BY <2>2 DEF CollectDone
    <3> QED
      BY <3>1 DEF TypeOK
  <2> QED
    BY <2>1, <2>2
<1> QED
  BY <1>1, <1>3, <1>4, LeaveType DEF DoneFor

-----------------------------------------------------------------------------
(* Every action preserves the inductive invariant. *)

\* The invariant holds before the scheduler starts.
LEMMA InitIInv == Init => IInv
<1> SUFFICES ASSUME Init PROVE IInv
  OBVIOUS
<1>1. TypeOK
  BY CollectorsAssumption DEF Init, TypeOK, Phases, Health, Statuses, PeriodicStates, StreamStates
<1>2. TasksMatchPhase
  BY DEF Init, TasksMatchPhase
<1>3. FlightsBelongToTheirTask /\ RunningIsInFlight /\ TasksEndForAReason
  BY DEF Init, FlightsBelongToTheirTask, RunningIsInFlight, TasksEndForAReason
<1> QED
  BY <1>1, <1>2, <1>3 DEF IInv

\* start() begins the bootstrap.
LEMMA StartPreserves ==
    ASSUME IInv, Start
    PROVE  IInv'
<1> USE DEF IInv
<1>1. PICK verdict \in [Collectors -> {"begun", "deferred", "unavailable"}] :
         BeginAll(Collectors, "start", verdict)
  BY DEF Start
<1>2. "start" \in Callers
  BY DEF Callers
<1>3. /\ phase = "new" /\ phase' = "starting"
      /\ UNCHANGED <<locked, task, failures>>
  BY DEF Start
<1>4. BeginsFor(Collectors, "start", verdict)
  BY <1>1, <1>2, BeginEffect
<1>5. TypeOK'
  BY <1>3, <1>4 DEF TypeOK, Phases, BeginsFor
<1>6. TasksMatchPhase' /\ TasksEndForAReason'
  BY <1>3 DEF TasksMatchPhase, TasksEndForAReason
<1>7. FlightsBelongToTheirTask'
  BY <1>3, <1>4 DEF FlightsBelongToTheirTask, BeginsFor
<1>8. RunningIsInFlight'
  BY <1>3, <1>4 DEF RunningIsInFlight, BeginsFor
<1> QED
  BY <1>5, <1>6, <1>7, <1>8

\* The tasks are created.
LEMMA TasksReadyPreserves ==
    ASSUME IInv, TasksReady
    PROVE  IInv'
<1> USE DEF IInv
<1>1. /\ phase = "starting" /\ phase' = "running"
      /\ \A c \in Collectors : "start" \notin flight[c]
      /\ task' = [c \in Collectors |-> IF c \in Streaming THEN "waiting" ELSE "sleeping"]
      /\ UNCHANGED <<locked, failures, flight, older, superseded, stale, health>>
  BY DEF TasksReady
<1>2. \A c \in Collectors : task[c] = "none"
  BY <1>1 DEF TasksMatchPhase
<1>3. TypeOK'
  BY <1>1 DEF TypeOK, Phases, PeriodicStates, StreamStates
<1>4. TasksMatchPhase' /\ TasksEndForAReason'
  BY <1>1 DEF TasksMatchPhase, TasksEndForAReason
<1>5. FlightsBelongToTheirTask'
  BY <1>1, <1>2 DEF FlightsBelongToTheirTask
<1>6. RunningIsInFlight'
  BY <1>1, <1>2 DEF RunningIsInFlight
<1> QED
  BY <1>3, <1>4, <1>5, <1>6

\* A refresh is asked for.
LEMMA RefreshNowPreserves ==
    ASSUME IInv, NEW r \in Refreshers, RefreshNow(r)
    PROVE  IInv'
<1> USE DEF IInv
<1>1. PICK targets \in RefreshTargets :
         \E verdict \in [targets -> {"begun", "deferred", "unavailable"}] :
            BeginAll(targets, r, verdict)
  BY DEF RefreshNow
<1>2. PICK verdict : BeginAll(targets, r, verdict)
  BY <1>1
<1>3. targets \in SUBSET Collectors
  BY <1>1 DEF RefreshTargets
<1>4. r \in Callers /\ r # "task" /\ r # "start"
  BY CollectorsAssumption DEF Callers
<1>5. UNCHANGED <<phase, locked, task, failures>>
  BY DEF RefreshNow
<1>6. BeginsFor(targets, r, verdict)
  BY <1>2, <1>3, <1>4, BeginEffect
<1>7. TypeOK'
  BY <1>5, <1>6 DEF TypeOK, BeginsFor
<1>8. TasksMatchPhase' /\ TasksEndForAReason'
  BY <1>5 DEF TasksMatchPhase, TasksEndForAReason
<1>9. FlightsBelongToTheirTask'
  BY <1>4, <1>5, <1>6 DEF FlightsBelongToTheirTask, BeginsFor
<1>10. RunningIsInFlight'
  BY <1>5, <1>6 DEF RunningIsInFlight, BeginsFor
<1> QED
  BY <1>7, <1>8, <1>9, <1>10

\* A collection of a refresh or of the bootstrap ends.
LEMMA FinishCollectPreserves ==
    ASSUME IInv, NEW c \in Collectors, NEW caller \in Callers, NEW result \in {"ok", "error"},
           FinishCollect(c, caller, result)
    PROVE  IInv'
<1> USE DEF IInv
<1>1. /\ caller # "task"
      /\ CollectDone(c, caller, result)
      /\ UNCHANGED <<phase, locked, task, failures>>
  BY DEF FinishCollect
<1>2. DoneFor(c, caller, result)
  BY <1>1, DoneEffect
<1>3. TypeOK'
  BY <1>1, <1>2 DEF TypeOK, DoneFor
<1>4. TasksMatchPhase' /\ TasksEndForAReason'
  BY <1>1 DEF TasksMatchPhase, TasksEndForAReason
<1>5. FlightsBelongToTheirTask'
  BY <1>1, <1>2 DEF FlightsBelongToTheirTask, DoneFor
<1>6. RunningIsInFlight'
  BY <1>1, <1>2 DEF RunningIsInFlight, DoneFor
<1> QED
  BY <1>3, <1>4, <1>5, <1>6

\* Where a periodic task is after a turn.
LEMMA AfterTurnCases ==
    ASSUME NEW n \in Nat
    PROVE  AfterTurn(n) = "sleeping" \/ (AfterTurn(n) = "crashed" /\ n > MaxExponent)
  BY DEF AfterTurn

\* Where a stream task is after its stream.
LEMMA AfterStreamCases ==
    ASSUME NEW n \in Nat
    PROVE  AfterStream(n) = "waiting" \/ (AfterStream(n) = "crashed" /\ n > MaxExponent)
  BY CollectorsAssumption DEF AfterStream

\* A periodic task begins a collection.
LEMMA PeriodicTurnPreserves ==
    ASSUME IInv, NEW c \in Collectors, PeriodicTurn(c)
    PROVE  IInv'
<1> USE DEF IInv
<1>1. PICK v \in Verdicts(c) :
         /\ BeginAll({c}, "task", [x \in {c} |-> v])
         /\ IF v = "begun"
            THEN /\ task' = [task EXCEPT ![c] = "collecting"]
                 /\ UNCHANGED failures
            ELSE LET n == NextFailureCount(v, failures[c])
                 IN  /\ failures' = [failures EXCEPT ![c] = n]
                     /\ task' = [task EXCEPT ![c] = AfterTurn(n)]
  BY DEF PeriodicTurn
<1>2. /\ phase = "running" /\ phase' = "running" /\ locked' = locked
      /\ task[c] = "sleeping"
      /\ "task" \in Callers
  BY DEF PeriodicTurn, Callers
<1>3. c \notin Streaming /\ failures[c] \in 0 .. FailureCap
  BY <1>2 DEF TypeOK, StreamStates
<1>4. /\ failures' \in [Collectors -> 0 .. FailureCap]
      /\ \A d \in Collectors \ {c} : failures'[d] = failures[d] /\ task'[d] = task[d]
      /\ task' \in [Collectors -> PeriodicStates \cup StreamStates]
      /\ v = "begun" => task'[c] = "collecting"
      /\ v # "begun" => task'[c] \in {"sleeping", "crashed"}
      /\ task'[c] = "crashed" => failures'[c] > MaxExponent
  <2>1. CASE v = "begun"
    BY <1>1, <2>1 DEF TypeOK, PeriodicStates
  <2>2. CASE v # "begun"
    <3> DEFINE n == NextFailureCount(v, failures[c])
    <3>1. n \in 0 .. FailureCap /\ n \in Nat
      BY <1>3, FailureCountType, CollectorsAssumption
    <3>2. AfterTurn(n) = "sleeping" \/ (AfterTurn(n) = "crashed" /\ n > MaxExponent)
      BY <3>1, AfterTurnCases
    <3>3. failures' = [failures EXCEPT ![c] = n] /\ task' = [task EXCEPT ![c] = AfterTurn(n)]
      BY <1>1, <2>2
    <3> HIDE DEF n
    <3> QED
      BY <2>2, <3>1, <3>2, <3>3 DEF TypeOK, PeriodicStates
  <2> QED
    BY <2>1, <2>2
<1>5. BeginsFor({c}, "task", [x \in {c} |-> v])
  BY <1>1, <1>2, BeginEffect
<1>6. "task" \notin flight[c]
  BY <1>2 DEF FlightsBelongToTheirTask
<1>7. TypeOK'
  BY <1>2, <1>3, <1>4, <1>5 DEF TypeOK, PeriodicStates, BeginsFor
<1>8. TasksMatchPhase'
  BY <1>2, <1>4 DEF TasksMatchPhase
<1>9. FlightsBelongToTheirTask'
  BY <1>2, <1>4, <1>5, <1>6 DEF FlightsBelongToTheirTask, BeginsFor
<1>10. RunningIsInFlight'
  BY <1>2, <1>4, <1>5 DEF RunningIsInFlight, BeginsFor
<1>11. TasksEndForAReason'
  BY <1>4 DEF TasksEndForAReason
<1> QED
  BY <1>7, <1>8, <1>9, <1>10, <1>11

\* A periodic task's collection ends.
LEMMA PeriodicDonePreserves ==
    ASSUME IInv, NEW c \in Collectors, NEW result \in {"ok", "error"}, PeriodicDone(c, result)
    PROVE  IInv'
<1> USE DEF IInv
<1> DEFINE n == NextFailureCount(result, failures[c])
<1>1. /\ phase = "running" /\ phase' = "running" /\ locked' = locked
      /\ task[c] = "collecting"
      /\ CollectDone(c, "task", result)
      /\ failures' = [failures EXCEPT ![c] = n]
      /\ task' = [task EXCEPT ![c] = AfterTurn(n)]
  BY DEF PeriodicDone
<1>2. "task" \in Callers /\ c \notin Streaming
  BY <1>1 DEF Callers, TypeOK, StreamStates
<1>3. n \in 0 .. FailureCap /\ n \in Nat
  BY FailureCountType, CollectorsAssumption DEF TypeOK
<1>4. AfterTurn(n) = "sleeping" \/ (AfterTurn(n) = "crashed" /\ n > MaxExponent)
  BY <1>3, AfterTurnCases
<1>5. DoneFor(c, "task", result)
  BY <1>1, <1>2, DoneEffect
<1> HIDE DEF n
<1>6. TypeOK'
  BY <1>1, <1>2, <1>3, <1>4, <1>5 DEF TypeOK, PeriodicStates, DoneFor
<1>7. TasksMatchPhase' /\ TasksEndForAReason'
  BY <1>1, <1>3, <1>4 DEF TasksMatchPhase, TasksEndForAReason, TypeOK
<1>8. FlightsBelongToTheirTask'
  BY <1>1, <1>2, <1>4, <1>5 DEF FlightsBelongToTheirTask, TypeOK, DoneFor
<1>9. RunningIsInFlight'
  BY <1>1, <1>2, <1>4, <1>5 DEF RunningIsInFlight, TypeOK, DoneFor
<1> QED
  BY <1>6, <1>7, <1>8, <1>9

\* A stream task opens its stream.
LEMMA StreamTurnPreserves ==
    ASSUME IInv, NEW c \in Collectors, StreamTurn(c)
    PROVE  IInv'
<1> USE DEF IInv
<1>1. /\ phase = "running" /\ task[c] = "waiting"
      /\ UNCHANGED <<phase, locked, flight, older, superseded, stale>>
  BY DEF StreamTurn
<1>2. PICK v \in Verdicts(c) :
         /\ health' = [health EXCEPT ![c] = BuildHealth(@, StatusOf(v))]
         /\ \/ /\ v = "deferred"
               /\ failures' = [failures EXCEPT ![c] = 0]
               /\ UNCHANGED task
            \/ /\ v = "unavailable"
               /\ failures' = [failures EXCEPT ![c] = NextFailureCount(v, @)]
               /\ task' = [task EXCEPT ![c] = "gave up"]
            \/ /\ v = "begun"
               /\ task' = [task EXCEPT ![c] = "streaming"]
               /\ UNCHANGED failures
  BY DEF StreamTurn
<1>3. c \in Streaming
  BY <1>1 DEF TypeOK, PeriodicStates
<1>4. /\ StatusOf(v) \in Statuses
      /\ StatusOf(v) = "running" => v = "begun"
      /\ v = "unavailable" => c \in Unreliable
  BY <1>2 DEF Verdicts, StatusOf, Statuses
<1>5. /\ BuildHealth(health[c], StatusOf(v)) \in Health
      /\ BuildHealth(health[c], StatusOf(v)).status = StatusOf(v)
  BY <1>4, HealthType DEF TypeOK
<1>6. /\ health' \in [Collectors -> Health]
      /\ health'[c].status = "running" => task'[c] = "streaming"
      /\ \A d \in Collectors \ {c} : health'[d] = health[d]
  BY <1>2, <1>4, <1>5 DEF TypeOK
<1>7. /\ failures' \in [Collectors -> 0 .. FailureCap]
      /\ \A d \in Collectors \ {c} : failures'[d] = failures[d] /\ task'[d] = task[d]
      /\ task' \in [Collectors -> PeriodicStates \cup StreamStates]
      /\ task'[c] \in {"waiting", "gave up", "streaming"}
      /\ task'[c] = "gave up" => c \in Unreliable
  <2>1. 0 \in 0 .. FailureCap /\ NextFailureCount(v, failures[c]) \in 0 .. FailureCap
    BY FailureCountType, CollectorsAssumption DEF TypeOK
  <2> QED
    BY <1>1, <1>2, <1>4, <2>1 DEF TypeOK, StreamStates
<1>8. TypeOK'
  BY <1>1, <1>3, <1>6, <1>7 DEF TypeOK, StreamStates
<1>9. TasksMatchPhase' /\ TasksEndForAReason'
  BY <1>1, <1>7 DEF TasksMatchPhase, TasksEndForAReason
<1>10. FlightsBelongToTheirTask'
  BY <1>1, <1>7 DEF FlightsBelongToTheirTask
<1>11. RunningIsInFlight'
  BY <1>1, <1>6, <1>7 DEF RunningIsInFlight
<1> QED
  BY <1>8, <1>9, <1>10, <1>11

\* A stream ends.
LEMMA StreamEndsPreserves ==
    ASSUME IInv, NEW c \in Collectors, StreamEnds(c)
    PROVE  IInv'
<1> USE DEF IInv
<1> DEFINE n == NextFailureCount("error", failures[c])
<1>1. /\ phase = "running" /\ task[c] = "streaming"
      /\ health' = [health EXCEPT ![c] = BuildHealth(@, "error")]
      /\ failures' = [failures EXCEPT ![c] = n]
      /\ task' = [task EXCEPT ![c] = AfterStream(n)]
      /\ UNCHANGED <<phase, locked, flight, older, superseded, stale>>
  BY DEF StreamEnds
<1>2. c \in Streaming
  BY <1>1 DEF TypeOK, PeriodicStates
<1>3. n \in 0 .. FailureCap /\ n \in Nat
  BY FailureCountType, CollectorsAssumption DEF TypeOK
<1>4. AfterStream(n) = "waiting" \/ (AfterStream(n) = "crashed" /\ n > MaxExponent)
  BY <1>3, AfterStreamCases
<1>5. BuildHealth(health[c], "error") \in Health /\ BuildHealth(health[c], "error").status = "error"
  BY HealthType DEF TypeOK, Statuses
<1> HIDE DEF n
<1>6. TypeOK'
  BY <1>1, <1>2, <1>3, <1>4, <1>5 DEF TypeOK, StreamStates
<1>7. TasksMatchPhase' /\ TasksEndForAReason'
  BY <1>1, <1>3, <1>4 DEF TasksMatchPhase, TasksEndForAReason, TypeOK
<1>8. FlightsBelongToTheirTask'
  BY <1>1, <1>4 DEF FlightsBelongToTheirTask, TypeOK
<1>9. RunningIsInFlight'
  BY <1>1, <1>5 DEF RunningIsInFlight, TypeOK
<1> QED
  BY <1>6, <1>7, <1>8, <1>9

\* stop() sets the event.
LEMMA StopPreserves ==
    ASSUME IInv, NEW cancelled \in SUBSET Refreshers, Stop(cancelled)
    PROVE  IInv'
<1> USE DEF IInv
<1>1. /\ phase = "running" /\ phase' = "stopping"
      /\ flight' = [c \in Collectors |-> flight[c] \ cancelled]
      /\ older' = [c \in Collectors |-> [x \in Callers |->
                     IF x \in cancelled THEN {} ELSE older[c][x] \ cancelled]]
      /\ superseded' = [c \in Collectors |-> superseded[c] \ cancelled]
      /\ UNCHANGED <<locked, task, failures, stale, health>>
  BY DEF Stop
<1>2. "task" \notin cancelled /\ "start" \notin cancelled
  BY CollectorsAssumption
<1>3. older' \in [Collectors -> [Callers -> SUBSET Callers]]
  BY <1>1 DEF TypeOK
<1>4. TypeOK'
  BY <1>1, <1>3 DEF TypeOK, Phases
<1>5. TasksMatchPhase' /\ TasksEndForAReason'
  BY <1>1 DEF TasksMatchPhase, TasksEndForAReason
<1>6. FlightsBelongToTheirTask'
  BY <1>1, <1>2 DEF FlightsBelongToTheirTask
<1>7. RunningIsInFlight'
  BY <1>1 DEF RunningIsInFlight
<1> QED
  BY <1>4, <1>5, <1>6, <1>7

\* A task is cancelled.
LEMMA CancelTaskPreserves ==
    ASSUME IInv, NEW c \in Collectors, CancelTask(c)
    PROVE  IInv'
<1> USE DEF IInv
<1>1. /\ phase = "stopping"
      /\ task' = [task EXCEPT ![c] = "done"]
      /\ Leave(c, "task")
      /\ superseded' = [superseded EXCEPT ![c] = @ \ {"task"}]
      /\ UNCHANGED <<phase, locked, failures, stale, health>>
  BY DEF CancelTask
<1>2. /\ flight' \in [Collectors -> SUBSET Callers]
      /\ older' \in [Collectors -> [Callers -> SUBSET Callers]]
      /\ flight'[c] = flight[c] \ {"task"}
      /\ \A d \in Collectors \ {c} : flight'[d] = flight[d]
  BY <1>1, LeaveType DEF Callers
<1>3. TypeOK'
  BY <1>1, <1>2 DEF TypeOK, PeriodicStates, StreamStates
<1>4. TasksMatchPhase' /\ TasksEndForAReason'
  BY <1>1 DEF TasksMatchPhase, TasksEndForAReason, TypeOK, Ended
<1>5. FlightsBelongToTheirTask'
  BY <1>1, <1>2 DEF FlightsBelongToTheirTask, TypeOK
<1>6. RunningIsInFlight'
  BY <1>1 DEF RunningIsInFlight
<1> QED
  BY <1>3, <1>4, <1>5, <1>6

\* stop() returns.
LEMMA StopEndsPreserves ==
    ASSUME IInv, StopEnds
    PROVE  IInv'
<1> USE DEF IInv
<1>1. /\ phase = "stopping" /\ phase' = "stopped"
      /\ \A c \in Collectors : task[c] \in Ended
      /\ UNCHANGED <<locked, task, failures, flight, older, superseded, stale, health>>
  BY DEF StopEnds
<1>2. TypeOK'
  BY <1>1 DEF TypeOK, Phases
<1>3. TasksMatchPhase' /\ TasksEndForAReason'
  BY <1>1 DEF TasksMatchPhase, TasksEndForAReason
<1>4. FlightsBelongToTheirTask'
  BY <1>1 DEF FlightsBelongToTheirTask
<1>5. RunningIsInFlight'
  BY <1>1 DEF RunningIsInFlight
<1> QED
  BY <1>2, <1>3, <1>4, <1>5

\* A step that leaves all but the gate alone.
LEMMA QuietPreserves ==
    ASSUME IInv, ToggleLock \/ UNCHANGED vars
    PROVE  IInv'
<1>1. /\ UNCHANGED <<phase, task, failures, flight, older, superseded, stale, health>>
      /\ locked' \in BOOLEAN
  BY DEF ToggleLock, vars, IInv, TypeOK
<1> QED
  BY <1>1 DEF IInv, TypeOK, TasksMatchPhase, FlightsBelongToTheirTask, RunningIsInFlight,
              TasksEndForAReason

\* Every step keeps the invariant: one case per action.
LEMMA NextPreservesIInv == IInv /\ [Next]_vars => IInv'
<1> SUFFICES ASSUME IInv, [Next]_vars PROVE IInv'
  OBVIOUS
<1>1. CASE Start
  BY <1>1, StartPreserves
<1>2. CASE TasksReady
  BY <1>2, TasksReadyPreserves
<1>3. CASE \E r \in Refreshers : RefreshNow(r)
  BY <1>3, RefreshNowPreserves
<1>4. ASSUME NEW c \in Collectors,
             \/ \E caller \in Callers, result \in {"ok", "error"} : FinishCollect(c, caller, result)
             \/ c \notin Streaming /\ PeriodicTurn(c)
             \/ \E result \in {"ok", "error"} : PeriodicDone(c, result)
             \/ c \in Streaming /\ StreamTurn(c)
             \/ StreamEnds(c)
             \/ CancelTask(c)
      PROVE  IInv'
  BY <1>4, FinishCollectPreserves, PeriodicTurnPreserves, PeriodicDonePreserves,
     StreamTurnPreserves, StreamEndsPreserves, CancelTaskPreserves
<1>5. CASE \E cancelled \in SUBSET Refreshers : Stop(cancelled)
  BY <1>5, StopPreserves
<1>6. CASE StopEnds
  BY <1>6, StopEndsPreserves
<1>7. CASE ToggleLock \/ UNCHANGED vars
  BY <1>7, QuietPreserves
<1> QED
  BY <1>1, <1>2, <1>3, <1>4, <1>5, <1>6, <1>7 DEF Next

-----------------------------------------------------------------------------
(* The theorems. *)

\* The inductive invariant holds in every reachable state.
THEOREM SchedulerInvariance == Spec => []IInv
  BY InitIInv, NextPreservesIInv, PTL DEF Spec

\* Type correctness: among others, no collector's last completed status is ever "running",
\* and a periodic collector's task is never in a state of a stream's.
THEOREM SchedulerTypeCorrect == Spec => []TypeOK
<1>1. IInv => TypeOK
  BY DEF IInv
<1> QED
  BY <1>1, SchedulerInvariance, PTL

\* However bootstrap, periodic tasks, streams and refreshes of one collector interleave,
\* its health never stays "running" with nothing left in flight to overwrite it.
THEOREM RunningRecordsAreOverwritten == Spec => []RunningIsInFlight
<1>1. IInv => RunningIsInFlight
  BY DEF IInv
<1> QED
  BY <1>1, SchedulerInvariance, PTL

\* As long as no collector has failed more than MaxExponent times in a row, no failure has
\* ended a task: the overflow of the backoff is the only way.
THEOREM OnlyOverflowEndsTasks ==
    Spec => []((\A c \in Collectors : failures[c] <= MaxExponent) => TasksOutliveFailures)
<1>1. IInv => ((\A c \in Collectors : failures[c] <= MaxExponent) => TasksOutliveFailures)
  <2> SUFFICES ASSUME IInv, \A c \in Collectors : failures[c] <= MaxExponent,
                      phase = "running", NEW c \in Collectors, task[c] \in Ended
               PROVE  task[c] = "gave up" /\ c \in Streaming \cap Unreliable
    BY DEF TasksOutliveFailures
  <2>1. task[c] # "done"
    BY DEF IInv, TasksMatchPhase
  <2>2. task[c] # "crashed"
    <3>1. failures[c] \in Int /\ MaxExponent \in Int /\ failures[c] <= MaxExponent
      BY CollectorsAssumption DEF IInv, TypeOK
    <3>2. task[c] = "crashed" => failures[c] > MaxExponent
      BY DEF IInv, TasksEndForAReason
    <3> QED
      BY <3>1, <3>2
  <2>3. task[c] = "gave up"
    BY <2>1, <2>2 DEF Ended
  <2> QED
    BY <2>3 DEF IInv, TypeOK, TasksEndForAReason, PeriodicStates
<1> QED
  BY <1>1, SchedulerInvariance, PTL

-----------------------------------------------------------------------------
(* The gate. *)

\* A step does not begin a collection or a stream of c.
NothingBegins(c) ==
    /\ flight'[c] \subseteq flight[c]
    /\ task'[c] = "streaming" => task[c] = "streaming"

\* Every step keeps the gate: nothing deferred begins.
LEMMA StepKeepsGate ==
    ASSUME IInv, Next, NEW g \in Gated, locked
    PROVE  NothingBegins(g)
<1>1. /\ g \in Collectors /\ Deferred(g)
      /\ TypeOK
      /\ \A c \in Collectors : \A v \in Verdicts(c) : c = g => v = "deferred"
  BY CollectorsAssumption DEF Deferred, Verdicts, IInv
<1>2. CASE Start
  <2>1. PICK verdict : BeginAll(Collectors, "start", verdict)
    BY <1>2 DEF Start
  <2>2. BeginsFor(Collectors, "start", verdict)
    BY <1>1, <2>1, BeginEffect DEF Callers
  <2>3. task' = task
    BY <1>2 DEF Start
  <2> QED
    BY <1>1, <2>2, <2>3 DEF BeginsFor, NothingBegins
<1>3. CASE TasksReady
  BY <1>1, <1>3 DEF TasksReady, NothingBegins
<1>4. ASSUME NEW r \in Refreshers, RefreshNow(r)
      PROVE  NothingBegins(g)
  <2>1. PICK targets \in RefreshTargets :
           \E verdict \in [targets -> {"begun", "deferred", "unavailable"}] :
              BeginAll(targets, r, verdict)
    BY <1>4 DEF RefreshNow
  <2>2. targets \in SUBSET Collectors /\ r \in Callers
    BY <2>1 DEF RefreshTargets, Callers
  <2>3. PICK verdict : BeginAll(targets, r, verdict)
    BY <2>1
  <2>4. BeginsFor(targets, r, verdict)
    BY <1>1, <2>2, <2>3, BeginEffect
  <2>5. task' = task
    BY <1>4 DEF RefreshNow
  <2> QED
    BY <1>1, <2>4, <2>5 DEF BeginsFor, NothingBegins
<1>5. ASSUME NEW c \in Collectors, NEW caller \in Callers, NEW result \in {"ok", "error"},
             FinishCollect(c, caller, result)
      PROVE  NothingBegins(g)
  <2>1. DoneFor(c, caller, result) /\ task' = task
    BY <1>1, <1>5, DoneEffect DEF FinishCollect
  <2> QED
    BY <1>1, <2>1 DEF DoneFor, NothingBegins
<1>6. ASSUME NEW c \in Collectors, PeriodicTurn(c)
      PROVE  NothingBegins(g)
  <2>1. PICK v \in Verdicts(c) :
           /\ BeginAll({c}, "task", [x \in {c} |-> v])
           /\ IF v = "begun" THEN task' = [task EXCEPT ![c] = "collecting"]
              ELSE task' = [task EXCEPT ![c] = AfterTurn(NextFailureCount(v, failures[c]))]
    BY <1>6 DEF PeriodicTurn
  <2>2. BeginsFor({c}, "task", [x \in {c} |-> v])
    BY <1>1, <2>1, BeginEffect DEF Callers
  <2>3. task'[g] = "streaming" => task[g] = "streaming"
    BY <1>1, <2>1 DEF TypeOK, AfterTurn
  <2> QED
    BY <1>1, <2>2, <2>3 DEF BeginsFor, NothingBegins
<1>7. ASSUME NEW c \in Collectors, NEW result \in {"ok", "error"}, PeriodicDone(c, result)
      PROVE  NothingBegins(g)
  <2>1. /\ CollectDone(c, "task", result)
        /\ task' = [task EXCEPT ![c] = AfterTurn(NextFailureCount(result, failures[c]))]
    BY <1>7 DEF PeriodicDone
  <2>2. DoneFor(c, "task", result)
    BY <1>1, <2>1, DoneEffect DEF Callers
  <2> QED
    BY <1>1, <2>1, <2>2 DEF DoneFor, NothingBegins, TypeOK, AfterTurn
<1>8. ASSUME NEW c \in Collectors, StreamTurn(c)
      PROVE  NothingBegins(g)
  <2>1. /\ flight' = flight
        /\ c = g => task' = task
        /\ c # g => task'[g] = task[g]
    BY <1>1, <1>8 DEF StreamTurn, TypeOK
  <2> QED
    BY <1>1, <2>1 DEF NothingBegins
<1>9. ASSUME NEW c \in Collectors, StreamEnds(c)
      PROVE  NothingBegins(g)
  BY <1>1, <1>9 DEF StreamEnds, NothingBegins, TypeOK, AfterStream
<1>10. ASSUME NEW cancelled \in SUBSET Refreshers, Stop(cancelled)
       PROVE  NothingBegins(g)
  BY <1>1, <1>10 DEF Stop, NothingBegins
<1>11. ASSUME NEW c \in Collectors, CancelTask(c)
       PROVE  NothingBegins(g)
  BY <1>1, <1>11 DEF CancelTask, Leave, NothingBegins, TypeOK
<1>12. CASE StopEnds \/ ToggleLock
  BY <1>12 DEF StopEnds, ToggleLock, NothingBegins
<1> QED
  BY <1>2, <1>3, <1>4, <1>5, <1>6, <1>7, <1>8, <1>9, <1>10, <1>11, <1>12 DEF Next

\* While sudo is locked nothing that the gate defers begins, on any of the paths that
\* collect: bootstrap, periodic task, stream or refresh.
THEOREM GateHoldsOnEveryPath == Spec => GateHolds
<1>1. IInv /\ [Next]_vars =>
         [\A c \in Gated : locked =>
            /\ flight'[c] \subseteq flight[c]
            /\ task'[c] = "streaming" => task[c] = "streaming"]_vars
  BY StepKeepsGate DEF NothingBegins
<1> QED
  BY <1>1, SchedulerInvariance, PTL DEF Spec, GateHolds

-----------------------------------------------------------------------------
(* The scheduler implements GatedCollections. *)

USE DEF GateOfScheduler!Collections

\* Where the tasks of the gated collectors stream the same ones stream afterwards.
StreamsStay == \A c \in Gated : task'[c] = "streaming" <=> task[c] = "streaming"

\* A step that gathers collections for one caller, while the gate is open, is a Begin.
LEMMA BeginningIsBegin ==
    ASSUME NEW caller \in Callers, NEW targets, NEW verdict,
           BeginsFor(targets, caller, verdict), StreamsStay, ~locked, locked' = FALSE
    PROVE  GateOfScheduler!Next
<1>1. /\ [c \in Gated |-> flight'[c]] \in [Gated -> SUBSET Callers]
      /\ \A c \in Gated : flight'[c] \in {flight[c], flight[c] \cup {caller}}
  BY CollectorsAssumption DEF BeginsFor
<1>2. {c \in Gated : task'[c] = "streaming"} = {c \in Gated : task[c] = "streaming"}
  BY DEF StreamsStay
<1>3. GateOfScheduler!Begin(caller)
  BY <1>1, <1>2 DEF GateOfScheduler!Begin
<1> QED  BY <1>3 DEF GateOfScheduler!Next

\* A step in which nothing behind the gate begins is an End, of what it ends or of nothing.
LEMMA EndingIsEnd ==
    ASSUME TypeOK', locked' = locked, \A c \in Gated : NothingBegins(c)
    PROVE  GateOfScheduler!Next
<1>1. [c \in Gated |-> flight'[c]] \in [Gated -> SUBSET Callers]
  BY CollectorsAssumption DEF TypeOK
<1>2. /\ \A c \in Gated : flight'[c] \subseteq flight[c]
      /\ {c \in Gated : task'[c] = "streaming"} \subseteq {c \in Gated : task[c] = "streaming"}
  BY DEF NothingBegins
<1>3. GateOfScheduler!End
  BY <1>1, <1>2 DEF GateOfScheduler!End
<1> QED  BY <1>3 DEF GateOfScheduler!Next

\* Every step of the scheduler is one that the gate allows.
LEMMA StepImplementsGate ==
    ASSUME IInv, IInv', Next
    PROVE  GateOfScheduler!Next
<1>1. TypeOK /\ TypeOK' /\ locked \in BOOLEAN
  BY DEF IInv, TypeOK
<1>2. CASE ToggleLock
  <2>1. GateOfScheduler!Toggle
    BY <1>2 DEF ToggleLock, GateOfScheduler!Toggle
  <2> QED  BY <2>1 DEF GateOfScheduler!Next
<1>3. ASSUME locked, locked' = locked PROVE GateOfScheduler!Next
  BY <1>1, <1>3, StepKeepsGate, EndingIsEnd
<1>4. CASE Start
  <2>1. PICK verdict : BeginAll(Collectors, "start", verdict)
    BY <1>4 DEF Start
  <2>2. BeginsFor(Collectors, "start", verdict)
    BY <1>1, <2>1, BeginEffect DEF Callers
  <2>3. task' = task /\ locked' = locked
    BY <1>4 DEF Start
  <2> QED  BY <1>1, <1>3, <2>2, <2>3, BeginningIsBegin DEF StreamsStay, Callers
<1>5. ASSUME NEW r \in Refreshers, RefreshNow(r) PROVE GateOfScheduler!Next
  <2>1. PICK targets \in RefreshTargets :
           \E verdict \in [targets -> {"begun", "deferred", "unavailable"}] :
              BeginAll(targets, r, verdict)
    BY <1>5 DEF RefreshNow
  <2>2. targets \in SUBSET Collectors /\ r \in Callers
    BY <2>1 DEF RefreshTargets, Callers
  <2>3. PICK verdict : BeginAll(targets, r, verdict)
    BY <2>1
  <2>4. BeginsFor(targets, r, verdict)
    BY <1>1, <2>2, <2>3, BeginEffect
  <2>5. task' = task /\ locked' = locked
    BY <1>5 DEF RefreshNow
  <2> QED  BY <1>1, <1>3, <2>2, <2>4, <2>5, BeginningIsBegin DEF StreamsStay
<1>6. ASSUME NEW c \in Collectors, PeriodicTurn(c) PROVE GateOfScheduler!Next
  <2>1. PICK v \in Verdicts(c) :
           /\ BeginAll({c}, "task", [x \in {c} |-> v])
           /\ IF v = "begun" THEN task' = [task EXCEPT ![c] = "collecting"]
              ELSE task' = [task EXCEPT ![c] = AfterTurn(NextFailureCount(v, failures[c]))]
    BY <1>6 DEF PeriodicTurn
  <2>2. BeginsFor({c}, "task", [x \in {c} |-> v])
    BY <1>1, <2>1, BeginEffect DEF Callers
  <2>3. task[c] = "sleeping" /\ locked' = locked
    BY <1>6 DEF PeriodicTurn
  <2>4. StreamsStay
    BY <1>1, <2>1, <2>3, CollectorsAssumption DEF TypeOK, AfterTurn, StreamsStay
  <2> QED  BY <1>1, <1>3, <2>2, <2>3, <2>4, BeginningIsBegin DEF Callers
<1>7. ASSUME NEW c \in Collectors, StreamTurn(c) PROVE GateOfScheduler!Next
  <2>1. /\ UNCHANGED <<locked, flight>>
        /\ task[c] = "waiting"
        /\ task' = task \/ task' = [task EXCEPT ![c] = "gave up"]
                        \/ task' = [task EXCEPT ![c] = "streaming"]
    BY <1>7 DEF StreamTurn
  <2>2. {x \in Gated : task[x] = "streaming"} \subseteq {x \in Gated : task'[x] = "streaming"}
    BY <1>1, <2>1, CollectorsAssumption DEF TypeOK
  <2>3. ASSUME ~locked PROVE GateOfScheduler!Open
    BY <1>1, <2>1, <2>2, <2>3 DEF GateOfScheduler!Open
  <2> QED  BY <1>1, <1>3, <2>1, <2>3 DEF GateOfScheduler!Next
<1>8. ASSUME NEW c \in Collectors, NEW caller \in Callers, NEW result \in {"ok", "error"},
             FinishCollect(c, caller, result)
      PROVE  GateOfScheduler!Next
  <2>1. DoneFor(c, caller, result) /\ task' = task /\ locked' = locked
    BY <1>1, <1>8, DoneEffect DEF FinishCollect
  <2>2. \A g \in Gated : NothingBegins(g)
    BY <2>1, CollectorsAssumption DEF DoneFor, NothingBegins
  <2> QED  BY <1>1, <2>1, <2>2, EndingIsEnd
<1>9. ASSUME NEW c \in Collectors, NEW result \in {"ok", "error"}, PeriodicDone(c, result)
      PROVE  GateOfScheduler!Next
  <2>1. /\ CollectDone(c, "task", result) /\ locked' = locked
        /\ task' = [task EXCEPT ![c] = AfterTurn(NextFailureCount(result, failures[c]))]
    BY <1>9 DEF PeriodicDone
  <2>2. DoneFor(c, "task", result)
    BY <1>1, <2>1, DoneEffect DEF Callers
  <2>3. \A g \in Gated : NothingBegins(g)
    BY <1>1, <2>1, <2>2, CollectorsAssumption DEF DoneFor, NothingBegins, TypeOK, AfterTurn
  <2> QED  BY <1>1, <2>1, <2>3, EndingIsEnd
<1>10. ASSUME NEW c \in Collectors, StreamEnds(c) PROVE GateOfScheduler!Next
  <2>1. locked' = locked /\ \A g \in Gated : NothingBegins(g)
    BY <1>1, <1>10, CollectorsAssumption DEF StreamEnds, NothingBegins, TypeOK, AfterStream
  <2> QED  BY <1>1, <2>1, EndingIsEnd
<1>11. ASSUME NEW cancelled \in SUBSET Refreshers, Stop(cancelled) PROVE GateOfScheduler!Next
  <2>1. locked' = locked /\ \A g \in Gated : NothingBegins(g)
    BY <1>11, CollectorsAssumption DEF Stop, NothingBegins
  <2> QED  BY <1>1, <2>1, EndingIsEnd
<1>12. ASSUME NEW c \in Collectors, CancelTask(c) PROVE GateOfScheduler!Next
  <2>1. locked' = locked /\ \A g \in Gated : NothingBegins(g)
    BY <1>1, <1>12, CollectorsAssumption DEF CancelTask, Leave, NothingBegins, TypeOK
  <2> QED  BY <1>1, <2>1, EndingIsEnd
<1>13. CASE TasksReady \/ StopEnds
  <2>1. locked' = locked /\ \A g \in Gated : NothingBegins(g)
    BY <1>13, CollectorsAssumption DEF TasksReady, StopEnds, NothingBegins
  <2> QED  BY <1>1, <2>1, EndingIsEnd
<1> QED
  BY <1>2, <1>4, <1>5, <1>6, <1>7, <1>8, <1>9, <1>10, <1>11, <1>12, <1>13 DEF Next

\* Of the collectors behind the gate the scheduler implements GatedCollections: each step maps
\* to a step of it or to a stutter, for any collectors, callers and verdicts.
THEOREM SchedulerKeepsTheGate == Spec => KeepsGate
<1>1. Init => GateOfScheduler!Init
  <2> SUFFICES ASSUME Init PROVE GateOfScheduler!Init
    OBVIOUS
  <2>1. [c \in Gated |-> flight[c]] = [c \in Gated |-> {}] /\ {c \in Gated : task[c] = "streaming"} = {}
    BY CollectorsAssumption DEF Init
  <2> QED  BY <2>1 DEF Init, GateOfScheduler!Init
<1>2. IInv /\ IInv' /\ [Next]_vars => [GateOfScheduler!Next]_GateOfScheduler!vars
  <2>1. ASSUME UNCHANGED vars PROVE UNCHANGED GateOfScheduler!vars
    BY <2>1 DEF vars, GateOfScheduler!vars
  <2> QED  BY <2>1, StepImplementsGate
<1> QED
  BY <1>1, <1>2, SchedulerInvariance, PTL DEF Spec, KeepsGate, GateOfScheduler!Spec
=============================================================================
