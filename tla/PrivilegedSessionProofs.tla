----------------------- MODULE PrivilegedSessionProofs -----------------------
(***************************************************************************)
(* Proofs about the sudo session, for any sections and any collectors      *)
(* behind the gate.  The inductive invariant is SessionInv: what is in the *)
(* store, in flight or on the screen before the first unlock is nothing,   *)
(* because an answer that unlocks is recorded in the step that uses it.    *)
(***************************************************************************)
EXTENDS PrivilegedSession, TLAPS

-----------------------------------------------------------------------------
(* The steps the actions are made of. *)

\* An answer a handler uses is one sudo gave.
LEMMA AnswerType ==
    ASSUME TypeOK, NEW task \in Tasks, answer[task] # "none"
    PROVE  answer[task] \in AuthStates
  BY DEF TypeOK, AuthStates

\* What taking an answer does, whichever task takes it.
LEMMA SettleEffect ==
    ASSUME TypeOK, UnlockedByAnAnswer, NEW task \in Tasks, Settle(task)
    PROVE  /\ auth' = answer[task] /\ auth' \in AuthStates
           /\ unlockedOnce' \in BOOLEAN /\ (unlockedOnce => unlockedOnce')
           /\ UnlockedByAnAnswer'
           /\ answer' \in [Tasks -> AuthStates \cup {"none"}]
           /\ data' \in SUBSET Collectors /\ unseen' \in BOOLEAN
           /\ data = {} => data' = {}
           /\ ~Authenticated(auth') => data' = {}
<1>1. answer[task] \in AuthStates
  BY AnswerType DEF Settle
<1>2. unlockedOnce \in BOOLEAN /\ unseen \in BOOLEAN /\ data \in SUBSET Collectors
  BY DEF TypeOK
<1>3. unlockedOnce' \in BOOLEAN /\ (unlockedOnce => unlockedOnce') /\ UnlockedByAnAnswer'
  BY <1>2 DEF Settle, UnlockedByAnAnswer, Authenticated
<1>4. answer' \in [Tasks -> AuthStates \cup {"none"}]
  BY DEF Settle, TypeOK
<1>5. /\ data' \in SUBSET Collectors /\ unseen' \in BOOLEAN
      /\ data = {} => data' = {}
      /\ ~Authenticated(auth') => data' = {}
  BY <1>2 DEF Settle, Authenticated
<1> QED  BY <1>1, <1>3, <1>4, <1>5 DEF Settle

\* Nothing begins behind a gate that is shut.
LEMMA BeginEffect ==
    ASSUME TypeOK, NEW caller \in Callers, NEW targets, NEW a, Begin(caller, targets, a)
    PROVE  /\ flight' \in [Collectors -> SUBSET Callers]
           /\ ~Authenticated(a) => flight' = flight
<1>1. flight \in [Collectors -> SUBSET Callers]
  BY DEF TypeOK
<1>2. flight' \in [Collectors -> SUBSET Callers]
  BY <1>1 DEF Begin
<1>3. ASSUME ~Authenticated(a) PROVE flight' = flight
  BY <1>1, <1>3 DEF Begin
<1> QED  BY <1>2, <1>3

\* A pane shows privileged data only of an unlocked session and from the store.
LEMMA ContentType ==
    ASSUME TypeOK
    PROVE  Content \in Pane /\ (Content.secret => data # {} /\ Authenticated(auth))
<1>1. Content.secret = (/\ selected \in Privileged /\ ~Locked(selected)
                        /\ CollectorOf[selected] \in data)
  BY DEF Content
<1>2. Content \in Pane
  BY DEF Content, Pane
<1>3. Content.secret => data # {} /\ Authenticated(auth)
  BY <1>1 DEF Locked
<1> QED  BY <1>2, <1>3

\* What a refresh does not touch.
Untouched ==
    /\ sudo' = sudo /\ disk' = disk /\ data' = data
    /\ auth' = auth /\ unlockedOnce' = unlockedOnce /\ answer' = answer
    /\ previous' = previous /\ selected' = selected /\ live' = live /\ follow' = follow
    /\ streaming' = streaming /\ flight' = flight

\* What a refresh with _refresh_lock free leaves the pane and the lock in.
LEMMA DrawEffect ==
    ASSUME SessionInv, NEW task \in Tasks, drawing = NoPane, Draw(task),
           pump \notin {"new", "mount probe", "bootstrap"},
           Untouched
    PROVE  SessionInv'
<1>1. Content \in Pane /\ (Content.secret => data # {} /\ Authenticated(auth))
  BY ContentType DEF SessionInv
<1>2. /\ pane \in Pane /\ pump \in PumpStates /\ observer \in ObserverStates
      /\ pump # "drawing" /\ observer # "drawing"
  BY DEF SessionInv, TypeOK, LockHolderDraws, Tasks, NoPane
<1>3. /\ unseen' \in BOOLEAN /\ sudo' = sudo /\ disk' = disk /\ data' = data
      /\ auth' = auth /\ unlockedOnce' = unlockedOnce /\ answer' = answer
      /\ previous' = previous /\ selected' = selected /\ live' = live /\ follow' = follow
      /\ streaming' = streaming /\ flight' = flight
  BY DEF Draw, Untouched
<1>4. /\ NothingBeforeUnlock /\ LockHolderDraws /\ UnlockedByAnAnswer /\ ObserverStartsLate
      /\ unlockedOnce \in BOOLEAN
  BY DEF SessionInv, TypeOK
<1>5. UnlockedByAnAnswer'
  BY <1>3, <1>4 DEF UnlockedByAnAnswer, Authenticated
<1>6. ~unlockedOnce => ~Content.secret
  BY <1>1, <1>4 DEF NothingBeforeUnlock
<1>7. /\ ~unlockedOnce' => /\ data' = {} /\ ~streaming'
                           /\ \A c \in Collectors : flight'[c] = {}
      /\ ~unlockedOnce' => ~Content.secret
  BY <1>3, <1>4, <1>6 DEF NothingBeforeUnlock
<1>8. CASE Content.kind = pane.kind
  <2>1. pane' = Content /\ drawing' = NoPane /\ Rest(task)
    BY <1>8 DEF Draw
  <2>2. TypeOK'
    BY <1>1, <1>2, <1>3, <2>1
       DEF SessionInv, TypeOK, Rest, Tasks, PumpStates, ObserverStates, NoPane
  <2>3. NothingBeforeUnlock'
    BY <1>7, <2>1 DEF NothingBeforeUnlock, NoPane
  <2>4. LockHolderDraws'
    BY <1>2, <2>1 DEF LockHolderDraws, Rest, Tasks, NoPane
  <2>5. ObserverStartsLate'
    BY <2>1 DEF ObserverStartsLate, Rest, Tasks
  <2> QED  BY <1>5, <2>2, <2>3, <2>4, <2>5 DEF SessionInv
<1>9. CASE Content.kind # pane.kind
  <2>1. /\ pane' = [pane EXCEPT !.secret = FALSE]
        /\ drawing' = [by |-> task, kind |-> Content.kind, secret |-> Content.secret]
        /\ pump' = IF task = "pump" THEN "drawing" ELSE pump
        /\ observer' = IF task = "observer" THEN "drawing" ELSE observer
    BY <1>9 DEF Draw
  <2>2. /\ pane' \in Pane /\ ~pane'.secret
        /\ drawing' \in [by : Tasks \cup {"nobody"}, kind : {"static", "table"},
                          secret : BOOLEAN]
        /\ drawing'.by = task /\ drawing'.secret = Content.secret
    BY <1>1, <1>2, <2>1 DEF Pane
  <2>3. TypeOK'
    BY <1>2, <1>3, <2>1, <2>2
       DEF SessionInv, TypeOK, Tasks, PumpStates, ObserverStates
  <2>4. NothingBeforeUnlock'
    BY <1>7, <2>2 DEF NothingBeforeUnlock
  <2>5. LockHolderDraws'
    BY <1>2, <2>1, <2>2 DEF LockHolderDraws, Tasks
  <2>6. ObserverStartsLate'
    BY <2>1 DEF ObserverStartsLate, Tasks
  <2> QED  BY <1>5, <2>3, <2>4, <2>5, <2>6 DEF SessionInv
<1> QED  BY <1>8, <1>9

-----------------------------------------------------------------------------
(* Every action keeps the invariant. *)

\* A step that moves a task, or changes the view, an answer or a notice, and nothing that the
\* invariant relates.
Moves ==
    /\ pump' \in PumpStates /\ observer' \in ObserverStates
    /\ pump' = "drawing" <=> pump = "drawing"
    /\ observer' = "drawing" <=> observer = "drawing"
    /\ pump' \in {"new", "mount probe", "bootstrap"} => pump' = pump /\ observer' = observer
    /\ selected' \in Sections /\ live' \in BOOLEAN /\ follow' \in BOOLEAN
    /\ sudo' \in {"cached", "lapsed", "missing"} /\ previous' \in AuthStates
    /\ answer' \in [Tasks -> AuthStates \cup {"none"}] /\ unseen' \in BOOLEAN
    /\ auth' = auth /\ unlockedOnce' = unlockedOnce /\ pane' = pane /\ drawing' = drawing
    /\ streaming' = streaming /\ flight' = flight /\ data' = data /\ disk' = disk

\* Such a step keeps the invariant.
LEMMA MovesKeep ==
    ASSUME SessionInv, Moves
    PROVE  SessionInv'
<1>1. TypeOK'
  BY DEF SessionInv, TypeOK, Moves
<1>2. NothingBeforeUnlock' /\ UnlockedByAnAnswer'
  BY DEF SessionInv, NothingBeforeUnlock, UnlockedByAnAnswer, Moves
<1>3. LockHolderDraws'
  BY DEF SessionInv, LockHolderDraws, Moves, Tasks
<1>4. ObserverStartsLate'
  BY DEF SessionInv, ObserverStartsLate, Moves
<1> QED  BY <1>1, <1>2, <1>3, <1>4 DEF SessionInv

\* The key handlers up to their first await, and their return.
LEMMA PumpMoves ==
    ASSUME SessionInv,
           \/ \E section \in Sections : Choose(section)
           \/ ChangeView \/ PressUnlock \/ Dismiss \/ PumpCollected
    PROVE  Moves
<1> USE DEF SessionInv, sessionVars, viewVars, paneVars, collectVars
<1>1. /\ pump' \in {"refresh", "unlock probe", "idle", "password"}
      /\ pump # "drawing" /\ observer' = observer
      /\ UNCHANGED <<sudo, auth, unlockedOnce, answer, previous, pane, drawing, unseen,
                     streaming, flight, data, disk>>
  BY DEF Choose, ChangeView, PressUnlock, Dismiss, PumpCollected
<1>2. selected' \in Sections /\ live' \in BOOLEAN /\ follow' \in BOOLEAN
  BY DEF Choose, ChangeView, PressUnlock, Dismiss, PumpCollected, TypeOK
<1>3. pump' \in PumpStates
  BY <1>1 DEF PumpStates
<1> QED  BY <1>1, <1>2, <1>3 DEF Moves, TypeOK

\* The observer between its awaits.
LEMMA ObserverMoves ==
    ASSUME SessionInv, NoticeBlocked \/ Poll \/ ObserverCollected
    PROVE  Moves
<1> USE DEF SessionInv, sessionVars, viewVars, paneVars, collectVars
<1>1. /\ observer' \in {"notice", "probe", "redraw"}
      /\ observer # "off" /\ observer # "drawing" /\ pump' = pump
      /\ unseen' \in BOOLEAN /\ previous' \in AuthStates
      /\ UNCHANGED <<sudo, auth, unlockedOnce, answer, selected, live, follow, pane, drawing,
                     streaming, flight, data, disk>>
  BY DEF NoticeBlocked, Poll, ObserverCollected, TypeOK
<1>2. observer' \in ObserverStates
  BY <1>1 DEF ObserverStates
<1> QED  BY <1>1, <1>2 DEF Moves, TypeOK, ObserverStartsLate

\* sudo's commands and its credentials.
LEMMA SudoMoves ==
    ASSUME SessionInv,
           CheckPassword \/ SudoChanges \/ \E task \in Tasks : ProbeSudo(task)
    PROVE  Moves
<1> USE DEF SessionInv, sessionVars, viewVars, paneVars, collectVars
<1>1. sudo' \in {"cached", "lapsed", "missing"}
  BY DEF CheckPassword, SudoChanges, ProbeSudo, TypeOK
<1>2. answer' \in [Tasks -> AuthStates \cup {"none"}]
  BY DEF CheckPassword, SudoChanges, ProbeSudo, ProbeAnswers, TypeOK, AuthStates
<1>3. UNCHANGED <<auth, unlockedOnce, previous, pump, observer, selected, live, follow, pane,
                  drawing, unseen, streaming, flight, data, disk>>
  BY DEF CheckPassword, SudoChanges, ProbeSudo
<1> QED  BY <1>1, <1>2, <1>3 DEF Moves, TypeOK

\* A step that collects, or takes an answer and may begin to collect.
Collects ==
    /\ pump' \in PumpStates /\ observer' \in ObserverStates
    /\ pump' = "drawing" <=> pump = "drawing"
    /\ observer' = "drawing" <=> observer = "drawing"
    /\ ObserverStartsLate'
    /\ auth' \in AuthStates /\ unlockedOnce' \in BOOLEAN /\ (unlockedOnce => unlockedOnce')
    /\ UnlockedByAnAnswer'
    /\ answer' \in [Tasks -> AuthStates \cup {"none"}] /\ previous' \in AuthStates
    /\ streaming' \in BOOLEAN /\ flight' \in [Collectors -> SUBSET Callers]
    /\ data' \in SUBSET Collectors /\ unseen' \in BOOLEAN
    /\ ~unlockedOnce' => /\ data = {} => data' = {}
                         /\ ~streaming => ~streaming'
                         /\ \A c \in Collectors : flight[c] = {} => flight'[c] = {}
    /\ sudo' = sudo /\ selected' = selected /\ live' = live /\ follow' = follow
    /\ pane' = pane /\ drawing' = drawing /\ disk' = disk

\* Such a step keeps the invariant.
LEMMA CollectsKeep ==
    ASSUME SessionInv, Collects
    PROVE  SessionInv'
<1>1. TypeOK'
  BY DEF SessionInv, TypeOK, Collects
<1>2. NothingBeforeUnlock'
  BY DEF SessionInv, NothingBeforeUnlock, Collects
<1>3. LockHolderDraws'
  BY DEF SessionInv, LockHolderDraws, Collects, Tasks
<1>4. UnlockedByAnAnswer' /\ ObserverStartsLate'
  BY DEF Collects
<1> QED  BY <1>1, <1>2, <1>3, <1>4 DEF SessionInv

\* The collectors and their streams.
LEMMA CollectorCollects ==
    ASSUME SessionInv,
           \/ \E c \in Collectors : TaskCollects(c)
           \/ StreamOpens \/ StreamLine \/ StreamEnds \/ OtherChange
           \/ \E c \in Collectors, caller \in Callers : CollectEnds(c, caller)
    PROVE  Collects
<1> USE DEF sessionVars, viewVars, paneVars, collectVars
<1>1. /\ UNCHANGED <<sudo, auth, unlockedOnce, answer, previous, pump, observer, selected, live,
                     follow, pane, drawing, disk>>
      /\ unseen' = TRUE
  BY DEF TaskCollects, StreamOpens, StreamLine, StreamEnds, OtherChange, CollectEnds
<1>2. streaming' \in BOOLEAN /\ data' \in SUBSET Collectors
  BY SessionAssumption
     DEF TaskCollects, StreamOpens, StreamLine, StreamEnds, OtherChange, CollectEnds,
         SessionInv, TypeOK
<1>3. /\ flight' \in [Collectors -> SUBSET Callers]
      /\ ~unlockedOnce => /\ data = {} => data' = {}
                          /\ ~streaming => ~streaming'
                          /\ \A c \in Collectors : flight[c] = {} => flight'[c] = {}
  <2>1. CASE \E c \in Collectors : TaskCollects(c)
    <3>1. PICK c \in Collectors : TaskCollects(c)
      BY <2>1
    <3>2. flight' \in [Collectors -> SUBSET Callers] /\ Authenticated(auth)
      BY <3>1, BeginEffect DEF TaskCollects, Callers, SessionInv
    <3> QED  BY <3>2 DEF SessionInv, UnlockedByAnAnswer
  <2>2. CASE \E c \in Collectors, caller \in Callers : CollectEnds(c, caller)
    <3>1. PICK c \in Collectors, caller \in Callers : CollectEnds(c, caller)
      BY <2>2
    <3>2. flight' \in [Collectors -> SUBSET Callers] /\ flight[c] # {}
      BY <3>1 DEF CollectEnds, SessionInv, TypeOK
    <3> QED  BY <3>2 DEF SessionInv, NothingBeforeUnlock
  <2>3. CASE StreamOpens \/ StreamLine \/ StreamEnds \/ OtherChange
    BY <2>3 DEF StreamOpens, StreamLine, StreamEnds, OtherChange, SessionInv, TypeOK,
                UnlockedByAnAnswer, NothingBeforeUnlock
  <2> QED  BY <2>1, <2>2, <2>3
<1> QED  BY <1>1, <1>2, <1>3
         DEF Collects, SessionInv, TypeOK, UnlockedByAnAnswer, ObserverStartsLate

\* The handlers that collect at the user's request, or once sudo has answered.
LEMMA HandlerCollects ==
    ASSUME SessionInv,
           PressRefresh \/ MountProbed \/ UnlockProbed \/ PasswordChecked \/ PollProbed
    PROVE  Collects
<1> USE DEF sessionVars, viewVars, paneVars, collectVars
<1>1. /\ pump' \in PumpStates /\ observer' \in ObserverStates
      /\ pump' = "drawing" <=> pump = "drawing"
      /\ observer' = "drawing" <=> observer = "drawing"
      /\ ObserverStartsLate'
  <2>1. CASE PollProbed
    <3>1. observer = "probe" /\ pump' = pump /\ observer' \in {"waiting", "collect", "redraw"}
      BY <2>1 DEF PollProbed
    <3>2. pump \in PumpStates /\ pump \notin {"new", "mount probe", "bootstrap"}
      BY <3>1 DEF SessionInv, TypeOK, ObserverStartsLate
    <3> QED  BY <3>1, <3>2 DEF ObserverStates, ObserverStartsLate
  <2>2. CASE PressRefresh \/ MountProbed \/ UnlockProbed \/ PasswordChecked
    <3>1. /\ observer' = observer /\ pump # "drawing"
          /\ pump' \in {"bootstrap", "refresh", "modal", "collect", "idle"}
          /\ pump' = "bootstrap" => pump = "mount probe"
      BY <2>2 DEF PressRefresh, MountProbed, UnlockProbed, PasswordChecked
    <3>2. pump' \in PumpStates /\ observer' \in ObserverStates
      BY <3>1 DEF PumpStates, SessionInv, TypeOK
    <3> QED  BY <3>1, <3>2 DEF SessionInv, ObserverStartsLate
  <2> QED  BY <2>1, <2>2
<1>2. /\ UNCHANGED <<sudo, selected, live, follow, pane, drawing, streaming, disk>>
      /\ previous' \in AuthStates
  BY DEF PressRefresh, MountProbed, UnlockProbed, PasswordChecked, PollProbed, SessionInv,
         TypeOK, AuthStates
<1>3. CASE PressRefresh
  <2>1. /\ UNCHANGED <<auth, unlockedOnce, answer, data>> /\ unseen' = TRUE
        /\ Begin("pump", Collectors \ Streaming, auth)
    BY <1>3 DEF PressRefresh
  <2>2. flight' \in [Collectors -> SUBSET Callers] /\ (~Authenticated(auth) => flight' = flight)
    BY <2>1, BeginEffect DEF SessionInv, Callers, Tasks
  <2> QED  BY <1>1, <1>2, <2>1, <2>2 DEF Collects, SessionInv, TypeOK, UnlockedByAnAnswer
<1>4. CASE MountProbed \/ UnlockProbed \/ PasswordChecked \/ PollProbed
  <2>1. PICK task \in Tasks :
           /\ Settle(task)
           /\ flight' = flight \/ \E targets : Begin(task, targets, answer[task])
    BY <1>4 DEF MountProbed, UnlockProbed, PasswordChecked, PollProbed, Tasks
  <2>2. /\ auth' = answer[task] /\ auth' \in AuthStates
        /\ unlockedOnce' \in BOOLEAN /\ (unlockedOnce => unlockedOnce')
        /\ UnlockedByAnAnswer'
        /\ answer' \in [Tasks -> AuthStates \cup {"none"}]
        /\ data' \in SUBSET Collectors /\ unseen' \in BOOLEAN
        /\ data = {} => data' = {}
    BY <2>1, SettleEffect DEF SessionInv
  <2>3. /\ flight' \in [Collectors -> SUBSET Callers]
        /\ ~Authenticated(answer[task]) => flight' = flight
    <3>1. CASE flight' = flight
      BY <3>1 DEF SessionInv, TypeOK
    <3>2. CASE \E targets : Begin(task, targets, answer[task])
      BY <3>2, BeginEffect DEF SessionInv, Callers
    <3> QED  BY <2>1, <3>1, <3>2
  <2>4. ~unlockedOnce' => flight' = flight
    BY <2>2, <2>3 DEF UnlockedByAnAnswer
  <2> QED  BY <1>1, <1>2, <2>2, <2>3, <2>4 DEF Collects, SessionInv, TypeOK
<1> QED  BY <1>3, <1>4

\* The pane is mounted and _refresh_lock released.
LEMMA DrawnKeeps ==
    ASSUME SessionInv, NEW task \in Tasks, Drawn(task)
    PROVE  SessionInv'
<1>1. pump' \in PumpStates /\ observer' \in ObserverStates
  BY DEF Drawn, Rest, SessionInv, TypeOK, PumpStates, ObserverStates, Tasks
<1>2. /\ pane' \in Pane
      /\ drawing' \in [by : Tasks \cup {"nobody"}, kind : {"static", "table"}, secret : BOOLEAN]
  BY DEF Drawn, SessionInv, TypeOK, Pane, NoPane
<1>4. TypeOK'
  BY <1>1, <1>2 DEF Drawn, SessionInv, TypeOK, sessionVars, viewVars, collectVars
<1>5. NothingBeforeUnlock'
  <2>1. unlockedOnce' = unlockedOnce /\ data' = data /\ streaming' = streaming /\ flight' = flight
    BY DEF Drawn, sessionVars, collectVars
  <2>2. pane'.secret = drawing.secret /\ drawing'.secret = FALSE
    BY DEF Drawn, NoPane
  <2> QED BY <2>1, <2>2 DEF SessionInv, NothingBeforeUnlock
<1>6. LockHolderDraws'
  <2>1. drawing.by = task
    BY DEF Drawn
  <2>2. /\ (task = "pump" => pump' = "idle" /\ observer' = observer /\ observer # "drawing")
        /\ (task = "observer" => observer' = "waiting" /\ pump' = pump /\ pump # "drawing")
        /\ drawing' = NoPane
    BY <2>1 DEF Drawn, Rest, SessionInv, LockHolderDraws, Tasks
  <2> QED BY <2>2 DEF LockHolderDraws, Tasks, NoPane
<1>7. UnlockedByAnAnswer'
  BY DEF Drawn, SessionInv, UnlockedByAnAnswer, sessionVars
<1>8. ObserverStartsLate'
  <2>1. task = "observer" => pump' = pump /\ observer = "drawing"
    BY DEF Drawn, Rest, SessionInv, LockHolderDraws, Tasks
  <2>2. task = "pump" => pump' = "idle"
    BY DEF Drawn, Rest
  <2> QED BY <2>1, <2>2 DEF SessionInv, ObserverStartsLate, Tasks
<1> QED BY <1>4, <1>5, <1>6, <1>7, <1>8 DEF SessionInv

\* The refreshes, which take _refresh_lock while it is free.
LEMMA RefreshesKeep ==
    ASSUME SessionInv, PumpRefreshes \/ Notice \/ NoticeUnblocked \/ ObserverRedraws
    PROVE  SessionInv'
<1> USE DEF sessionVars, viewVars, paneVars, collectVars
<1>1. Untouched /\ drawing = NoPane
  BY DEF PumpRefreshes, Notice, NoticeUnblocked, ObserverRedraws, Untouched
<1>2. CASE PumpRefreshes
  BY <1>1, <1>2, DrawEffect DEF PumpRefreshes, Tasks
<1>3. CASE Notice \/ NoticeUnblocked \/ ObserverRedraws
  <2>1. /\ observer \in {"waiting", "notice", "redraw"}
        /\ pump \notin {"new", "mount probe", "bootstrap"}
    BY <1>3 DEF Notice, NoticeUnblocked, ObserverRedraws, SessionInv, ObserverStartsLate
  <2>2. PICK relevant : Background(relevant)
    BY <1>3 DEF Notice, NoticeUnblocked, ObserverRedraws
  <2>3. CASE Draw("observer")
    BY <1>1, <2>1, <2>3, DrawEffect DEF Tasks
  <2>4. CASE unseen' = FALSE /\ Rest("observer") /\ UNCHANGED paneVars
    <3>1. pump' = pump /\ observer' = "waiting"
      BY <2>4 DEF Rest
    <3>2. observer' \in ObserverStates
      BY <3>1 DEF ObserverStates
    <3>3. Moves
      BY <1>1, <2>1, <2>4, <3>1, <3>2 DEF Untouched, Moves, SessionInv, TypeOK
    <3> QED  BY <3>3, MovesKeep
  <2> QED  BY <2>2, <2>3, <2>4 DEF Background
<1> QED  BY <1>2, <1>3

\* The beginning of the program.
LEMMA MountKeeps ==
    ASSUME SessionInv, Mount
    PROVE  SessionInv'
<1> USE DEF sessionVars, viewVars, paneVars, collectVars
<1>1. pump' \in PumpStates /\ disk' \in {"absent", "corrupt", "redacted", "private"}
  BY DEF Mount, PumpStates, SessionInv, TypeOK
<1>2. TypeOK'
  BY <1>1 DEF Mount, SessionInv, TypeOK
<1>3. NothingBeforeUnlock' /\ UnlockedByAnAnswer' /\ ObserverStartsLate'
  BY DEF Mount, SessionInv, NothingBeforeUnlock, UnlockedByAnAnswer, ObserverStartsLate
<1>4. LockHolderDraws'
  BY DEF Mount, SessionInv, LockHolderDraws, Tasks
<1> QED  BY <1>2, <1>3, <1>4 DEF SessionInv

\* The end of the bootstrap, which starts the observer.
LEMMA BootstrapReturnsKeeps ==
    ASSUME SessionInv, BootstrapReturns
    PROVE  SessionInv'
<1>1. pump' \in PumpStates /\ observer' \in ObserverStates
  BY DEF BootstrapReturns, PumpStates, ObserverStates
<1>6. LockHolderDraws'
  BY DEF BootstrapReturns, SessionInv, LockHolderDraws, ObserverStartsLate, Tasks, paneVars
<1>4. TypeOK'
  BY <1>1 DEF BootstrapReturns, SessionInv, TypeOK, sessionVars, viewVars, paneVars, collectVars
<1>7. NothingBeforeUnlock' /\ UnlockedByAnAnswer' /\ ObserverStartsLate'
  BY DEF BootstrapReturns, SessionInv, NothingBeforeUnlock, UnlockedByAnAnswer,
         ObserverStartsLate, sessionVars, viewVars, paneVars, collectVars
<1> QED BY <1>4, <1>6, <1>7 DEF SessionInv

\* on_unmount cancels the observer and whatever it was doing.
LEMMA QuitKeeps ==
    ASSUME SessionInv, Quit
    PROVE  SessionInv'
<1>1. pump' \in PumpStates /\ observer' \in ObserverStates
  BY DEF Quit, PumpStates, ObserverStates
<1>2. flight' \in [Collectors -> SUBSET Callers]
  BY DEF Quit, SessionInv, TypeOK
<1>3. /\ answer' \in [Tasks -> AuthStates \cup {"none"}]
      /\ drawing' \in [by : Tasks \cup {"nobody"}, kind : {"static", "table"}, secret : BOOLEAN]
  BY DEF Quit, SessionInv, TypeOK, NoPane
<1>4. TypeOK'
  BY <1>1, <1>2, <1>3 DEF Quit, SessionInv, TypeOK, viewVars
<1>5. NothingBeforeUnlock'
  <2>1. (\A c \in Collectors : flight[c] = {}) => (\A c \in Collectors : flight'[c] = {})
    BY DEF Quit
  <2> QED BY <2>1 DEF Quit, SessionInv, NothingBeforeUnlock, NoPane, viewVars
<1>6. LockHolderDraws'
  BY DEF Quit, SessionInv, LockHolderDraws, Tasks, NoPane
<1>7. UnlockedByAnAnswer' /\ ObserverStartsLate'
  BY DEF Quit, SessionInv, UnlockedByAnAnswer, ObserverStartsLate
<1> QED BY <1>4, <1>5, <1>6, <1>7 DEF SessionInv

\* The end of on_unmount.
LEMMA SaveKeeps ==
    ASSUME SessionInv, Save
    PROVE  SessionInv'
<1> USE DEF sessionVars, viewVars, paneVars, collectVars
<1>1. /\ pump' \in PumpStates /\ disk' \in {"absent", "corrupt", "redacted", "private"}
      /\ flight' \in [Collectors -> SUBSET Callers]
  BY DEF Save, PumpStates, SessionInv, TypeOK
<1>2. TypeOK'
  BY <1>1 DEF Save, SessionInv, TypeOK
<1>3. NothingBeforeUnlock' /\ UnlockedByAnAnswer' /\ ObserverStartsLate'
  BY DEF Save, SessionInv, NothingBeforeUnlock, UnlockedByAnAnswer, ObserverStartsLate
<1>4. LockHolderDraws'
  BY DEF Save, SessionInv, LockHolderDraws, Tasks
<1> QED  BY <1>2, <1>3, <1>4 DEF SessionInv

\* The process is killed.
LEMMA CrashKeeps ==
    ASSUME SessionInv, Crash
    PROVE  SessionInv'
<1>1. pump' \in PumpStates /\ observer' \in ObserverStates
  BY DEF Crash, PumpStates, ObserverStates
<1>2. flight' \in [Collectors -> SUBSET Callers]
  BY DEF Crash
<1>3. /\ answer' \in [Tasks -> AuthStates \cup {"none"}]
      /\ drawing' \in [by : Tasks \cup {"nobody"}, kind : {"static", "table"}, secret : BOOLEAN]
  BY DEF Crash, NoPane
<1>4. TypeOK'
  BY <1>1, <1>2, <1>3 DEF Crash, SessionInv, TypeOK, viewVars
<1>5. NothingBeforeUnlock'
  BY DEF Crash, SessionInv, NothingBeforeUnlock, NoPane
<1>6. LockHolderDraws'
  BY DEF Crash, LockHolderDraws, Tasks, NoPane
<1>7. UnlockedByAnAnswer' /\ ObserverStartsLate'
  BY DEF Crash, SessionInv, UnlockedByAnAnswer, ObserverStartsLate
<1> QED BY <1>4, <1>5, <1>6, <1>7 DEF SessionInv

\* A step of something else.
LEMMA StutterKeeps ==
    ASSUME SessionInv, UNCHANGED vars
    PROVE  SessionInv'
<1>1. Moves
  BY DEF vars, sessionVars, viewVars, paneVars, collectVars, Moves, SessionInv, TypeOK,
         ObserverStartsLate
<1> QED  BY <1>1, MovesKeep

\* Every step keeps the invariant: one case per group of actions.
LEMMA StepKeeps ==
    ASSUME SessionInv, [Next]_vars
    PROVE  SessionInv'
<1>1. CASE UserActs
  BY <1>1, PumpMoves, MovesKeep, HandlerCollects, CollectsKeep, QuitKeeps DEF UserActs
<1>2. CASE PumpActs
  BY <1>2, MountKeeps, HandlerCollects, CollectsKeep, BootstrapReturnsKeeps, SudoMoves,
     MovesKeep, PumpMoves, RefreshesKeep, DrawnKeeps, SaveKeeps
     DEF PumpActs, Tasks
<1>3. CASE ObserverActs
  BY <1>3, RefreshesKeep, ObserverMoves, MovesKeep, HandlerCollects, CollectsKeep, DrawnKeeps
     DEF ObserverActs, Tasks
<1>4. CASE CollectorActs \/ \E c \in Collectors, caller \in Callers : CollectEnds(c, caller)
  BY <1>4, CollectorCollects, CollectsKeep DEF CollectorActs
<1>5. CASE Poll \/ SudoChanges \/ \E task \in Tasks : ProbeSudo(task)
  BY <1>5, ObserverMoves, SudoMoves, MovesKeep
<1>6. CASE Crash
  BY <1>6, CrashKeeps
<1>7. CASE UNCHANGED vars
  BY <1>7, StutterKeeps
<1> QED  BY <1>1, <1>2, <1>3, <1>4, <1>5, <1>6, <1>7 DEF Next

\* The invariant holds when the program starts.
LEMMA InitHolds == Init => SessionInv
<1> SUFFICES ASSUME Init PROVE SessionInv
  OBVIOUS
<1>1. pump \in PumpStates /\ observer \in ObserverStates /\ pane \in Pane /\ auth \in AuthStates
  BY DEF Init, PumpStates, ObserverStates, Pane, AuthStates
<1>2. TypeOK
  BY <1>1, SessionAssumption DEF Init, TypeOK, NoPane
<1>3. NothingBeforeUnlock /\ LockHolderDraws /\ UnlockedByAnAnswer /\ ObserverStartsLate
  BY DEF Init, NothingBeforeUnlock, LockHolderDraws, UnlockedByAnAnswer, ObserverStartsLate,
         Authenticated, NoPane, Tasks
<1> QED  BY <1>2, <1>3 DEF SessionInv

-----------------------------------------------------------------------------
(* The theorems. *)

\* SessionInv holds in every reachable state.
THEOREM SessionInvariance == Spec => []SessionInv
<1> QED  BY InitHolds, StepKeeps, PTL DEF Spec

\* The tasks, the answers they await, the pane and the cache file stay what they should be.
THEOREM SessionTypeCorrect == Spec => []TypeOK
<1>1. SessionInv => TypeOK
  BY DEF SessionInv
<1> QED  BY <1>1, SessionInvariance, PTL

\* Until the first unlock nothing privileged is in the store, on its way to it or on the screen,
\* whatever cache file the program started from.
THEOREM NothingPrivilegedBeforeUnlock == Spec => []NothingBeforeUnlock
<1>1. SessionInv => NothingBeforeUnlock
  BY DEF SessionInv
<1> QED  BY <1>1, SessionInvariance, PTL

\* Of the steps of the program, only one that takes an answer of sudo changes auth_state.
LEMMA AuthChangesBySettling ==
    ASSUME [Next]_vars
    PROVE  auth' = auth \/ \E task \in Tasks : Settle(task)
<1> USE DEF sessionVars, viewVars, paneVars, collectVars
<1>1. CASE MountProbed \/ UnlockProbed \/ PasswordChecked \/ PollProbed
  BY <1>1 DEF MountProbed, UnlockProbed, PasswordChecked, PollProbed, Tasks
<1>2. CASE UserActs
  BY <1>2 DEF UserActs, PressRefresh, Choose, ChangeView, PressUnlock, Dismiss, Quit
<1>3. CASE Mount \/ BootstrapReturns \/ CheckPassword \/ PumpCollected \/ Save
  BY <1>3 DEF Mount, BootstrapReturns, CheckPassword, PumpCollected, Save
<1>4. CASE PumpRefreshes \/ Drawn("pump") \/ Drawn("observer") \/ Notice \/ NoticeBlocked
           \/ NoticeUnblocked \/ ObserverCollected \/ ObserverRedraws
  BY <1>4 DEF PumpRefreshes, Drawn, Notice, NoticeBlocked, NoticeUnblocked, ObserverCollected,
              ObserverRedraws
<1>5. CASE CollectorActs \/ \E c \in Collectors, caller \in Callers : CollectEnds(c, caller)
  BY <1>5 DEF CollectorActs, TaskCollects, StreamOpens, StreamLine, StreamEnds, OtherChange,
              CollectEnds
<1>6. CASE Poll \/ SudoChanges \/ Crash \/ UNCHANGED vars \/ \E task \in Tasks : ProbeSudo(task)
  BY <1>6 DEF Poll, SudoChanges, Crash, vars, ProbeSudo
<1> QED  BY <1>1, <1>2, <1>3, <1>4, <1>5, <1>6 DEF Next, PumpActs, ObserverActs

\* Whichever task locks the session, and whatever the other is doing, the store is emptied of
\* privileged values in the same step.
THEOREM LockingClearsTheStore == Spec => LockingClears
<1>1. ASSUME SessionInv, [Next]_vars, Authenticated(auth), ~Authenticated(auth')
      PROVE  data' = {}
  <2>1. PICK task \in Tasks : Settle(task)
    BY <1>1, AuthChangesBySettling
  <2> QED  BY <1>1, <2>1, SettleEffect DEF SessionInv
<1>2. SessionInv /\ [Next]_vars
        => [Authenticated(auth) /\ ~Authenticated(auth') => data' = {}]_vars
  BY <1>1
<1> QED  BY <1>2, SessionInvariance, PTL DEF Spec, LockingClears

-----------------------------------------------------------------------------
(* The session implements GatedCollections. *)

USE DEF GateOfSession!Collections

\* The step brings nothing new through the gate: collections and the stream at most end.
NothingBegins ==
    /\ auth' = auth
    /\ \A c \in Collectors : flight'[c] \subseteq flight[c]
    /\ streaming' => streaming

\* A step in which nothing begins is an End, of what it ends or of nothing.
LEMMA EndingIsEnd ==
    ASSUME TypeOK', NothingBegins
    PROVE  GateOfSession!Next
<1>1. flight' \in [Collectors -> SUBSET Callers]
  BY DEF TypeOK
<1>2. (~Authenticated(auth))' = ~Authenticated(auth)
  BY DEF NothingBegins, Authenticated
<1>3. (IF streaming' THEN Streaming ELSE {}) \subseteq (IF streaming THEN Streaming ELSE {})
  BY DEF NothingBegins
<1>4. GateOfSession!End
  BY <1>1, <1>2, <1>3 DEF GateOfSession!End, NothingBegins
<1> QED  BY <1>4 DEF GateOfSession!Next

\* A step that gathers collections as a state `a' allows it is a Begin if that state unlocks:
\* auth_state is then `a' already, be it from before or settled by the same step.
LEMMA BeginningIsBegin ==
    ASSUME TypeOK, NEW caller \in Callers, NEW targets, NEW a, Begin(caller, targets, a),
           Authenticated(a), auth' = a, streaming' = streaming
    PROVE  GateOfSession!Next
<1>1. flight' \in [Collectors -> SUBSET Callers]
  BY BeginEffect
<1>2. \A c \in Collectors : flight'[c] \in {flight[c], flight[c] \cup {caller}}
  BY DEF Begin
<1>3. (~Authenticated(auth))' = FALSE
  BY DEF Authenticated
<1>4. GateOfSession!Begin(caller)
  BY <1>1, <1>2, <1>3 DEF GateOfSession!Begin
<1> QED  BY <1>4 DEF GateOfSession!Next

\* A step that only takes an answer toggles the lock, or leaves it as it is.
LEMMA LockingIsToggle ==
    ASSUME TypeOK, flight' = flight, streaming' = streaming
    PROVE  GateOfSession!Next
<1>1. CASE Authenticated(auth') <=> Authenticated(auth)
  <2>1. (~Authenticated(auth))' = ~Authenticated(auth)
    BY <1>1 DEF Authenticated
  <2>2. flight \in [Collectors -> SUBSET Callers]
    BY DEF TypeOK
  <2>3. GateOfSession!End
    BY <2>1, <2>2 DEF GateOfSession!End
  <2> QED  BY <2>3 DEF GateOfSession!Next
<1>2. CASE ~(Authenticated(auth') <=> Authenticated(auth))
  <2>1. (~Authenticated(auth))' = ~(~Authenticated(auth))
    BY <1>2 DEF Authenticated
  <2>2. GateOfSession!Toggle
    BY <2>1 DEF GateOfSession!Toggle
  <2> QED  BY <2>2 DEF GateOfSession!Next
<1> QED  BY <1>1, <1>2

\* A handler that collects under a state that may unlock.
LEMMA GatheringImplementsGate ==
    ASSUME TypeOK, NEW caller \in Callers, NEW targets, NEW a, Begin(caller, targets, a),
           auth' = a, streaming' = streaming
    PROVE  GateOfSession!Next
<1>1. CASE Authenticated(a)
  BY <1>1, BeginningIsBegin
<1>2. CASE ~Authenticated(a)
  BY <1>2, BeginEffect, LockingIsToggle
<1> QED  BY <1>1, <1>2

\* Every step of the session is one that the gate allows: one case per group of actions.
LEMMA StepImplementsGate ==
    ASSUME SessionInv, SessionInv', Next
    PROVE  GateOfSession!Next
<1> USE DEF sessionVars, viewVars, paneVars, collectVars
<1>1. TypeOK /\ TypeOK'
  BY DEF SessionInv
<1>2. CASE MountProbed \/ PasswordChecked \/ PollProbed
  <2>1. PICK task \in Tasks : \E targets : /\ Settle(task)
                                           /\ Begin(task, targets, answer[task])
                                           /\ streaming' = streaming
    BY <1>2 DEF MountProbed, PasswordChecked, PollProbed, Tasks
  <2>2. PICK targets : Begin(task, targets, answer[task])
    BY <2>1
  <2>3. auth' = answer[task] /\ task \in Callers
    BY <2>1 DEF Settle, Callers
  <2> QED  BY <1>1, <2>1, <2>2, <2>3, GatheringImplementsGate
<1>3. CASE UnlockProbed
  BY <1>1, <1>3, LockingIsToggle DEF UnlockProbed
<1>4. CASE PressRefresh
  <2>1. Begin("pump", Collectors \ Streaming, auth) /\ auth' = auth /\ streaming' = streaming
    BY <1>4 DEF PressRefresh
  <2> QED  BY <1>1, <2>1, GatheringImplementsGate DEF Callers, Tasks
<1>5. ASSUME NEW c \in Collectors, TaskCollects(c) PROVE GateOfSession!Next
  <2>1. Begin("task", {c}, auth) /\ auth' = auth /\ streaming' = streaming
    BY <1>5 DEF TaskCollects
  <2> QED  BY <1>1, <2>1, GatheringImplementsGate DEF Callers
<1>6. CASE StreamOpens
  <2>1. /\ Authenticated(auth) /\ ~streaming /\ streaming'
        /\ auth' = auth /\ flight' = flight
    BY <1>6 DEF StreamOpens
  <2>2. (~Authenticated(auth)) = FALSE /\ (~Authenticated(auth))' = ~Authenticated(auth)
    BY <2>1 DEF Authenticated
  <2>3. GateOfSession!Open
    BY <2>1, <2>2, SessionAssumption DEF GateOfSession!Open
  <2> QED  BY <2>3 DEF GateOfSession!Next
<1>7. CASE \E c \in Collectors, caller \in Callers : CollectEnds(c, caller)
  <2>1. PICK c \in Collectors : \E caller \in Callers : CollectEnds(c, caller)
    BY <1>7
  <2>2. NothingBegins
    BY <1>1, <2>1 DEF CollectEnds, NothingBegins, TypeOK
  <2> QED  BY <1>1, <2>2, EndingIsEnd
<1>8. ASSUME UNCHANGED <<auth, flight, streaming>> PROVE GateOfSession!Next
  BY <1>1, <1>8, LockingIsToggle
<1>9. CASE \/ \E section \in Sections : Choose(section)
           \/ ChangeView \/ PressUnlock \/ Dismiss \/ Mount \/ BootstrapReturns \/ CheckPassword
           \/ PumpCollected \/ PumpRefreshes
  BY <1>8, <1>9 DEF Choose, ChangeView, PressUnlock, Dismiss, Mount, BootstrapReturns,
                    CheckPassword, PumpCollected, PumpRefreshes
<1>10. CASE Notice \/ NoticeBlocked \/ NoticeUnblocked \/ ObserverCollected \/ ObserverRedraws
            \/ Drawn("pump") \/ Drawn("observer")
  BY <1>8, <1>10 DEF Notice, NoticeBlocked, NoticeUnblocked, ObserverCollected,
                     ObserverRedraws, Drawn
<1>11. CASE StreamLine \/ OtherChange \/ Poll \/ SudoChanges
            \/ \E task \in Tasks : ProbeSudo(task)
  BY <1>8, <1>11 DEF StreamLine, OtherChange, Poll, SudoChanges, ProbeSudo
<1>12. CASE StreamEnds \/ Quit \/ Save \/ Crash
  <2>1. NothingBegins
    BY <1>12 DEF StreamEnds, Quit, Save, Crash, NothingBegins
  <2> QED  BY <1>1, <2>1, EndingIsEnd
<1> QED
  BY <1>2, <1>3, <1>4, <1>5, <1>6, <1>7, <1>8, <1>9, <1>10, <1>11, <1>12
     DEF Next, UserActs, PumpActs, ObserverActs, CollectorActs

\* The session implements GatedCollections: whatever the pump, the observer and the collectors'
\* tasks interleave, each step maps to a step of it or to a stutter.
THEOREM SessionKeepsTheGate == Spec => KeepsGate
<1>1. Init => GateOfSession!Init
  BY DEF Init, GateOfSession!Init, Authenticated
<1>2. SessionInv /\ SessionInv' /\ [Next]_vars => [GateOfSession!Next]_GateOfSession!vars
  <2>1. ASSUME UNCHANGED vars PROVE UNCHANGED GateOfSession!vars
    BY <2>1 DEF vars, sessionVars, collectVars, GateOfSession!vars, Authenticated
  <2> QED  BY <2>1, StepImplementsGate
<1> QED
  BY <1>1, <1>2, SessionInvariance, PTL DEF Spec, KeepsGate, GateOfSession!Spec
=============================================================================
