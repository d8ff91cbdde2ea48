-------------------------- MODULE CommandLineProofs --------------------------
(***************************************************************************)
(* Proofs about the command line, for any processes, command lines and     *)
(* section tables that fit the assumptions.                                *)
(***************************************************************************)
EXTENDS CommandLine, TLAPS

USE DEF At, Goto, Exit, files, session, writing

-----------------------------------------------------------------------------
(* Types. *)

\* What the assumptions say about the section tables, in the form the proofs need.
LEMMA ConstantTypes ==
    /\ Deferred \subseteq Redacted /\ Redacted \subseteq Collected /\ Deferred \subseteq Subsystems
    /\ Collected \subseteq Subsystems /\ "runtime" \in Subsystems
    /\ StatusBar \subseteq Subsystems
  BY SectionsAssumption, RedactionCovers

\* What is found, and what a power failure leaves, is a content, and synced.
LEMMA ContentTypes ==
    /\ Absent \in Content /\ Absent.kind = "absent" /\ Absent.synced
    /\ \A c \in FoundCaches \cup FoundReports : c \in Content /\ c.synced
    /\ \A c \in Content : Surviving(c) \in Content /\ Surviving(c).synced
<1>1. HeldBefore \subseteq SUBSET Subsystems
  BY RequestsAssumption
<1>2. Absent \in Content /\ Absent.kind = "absent" /\ Absent.synced
  BY DEF Content, Absent, Foreign
<1>3. ASSUME NEW c \in FoundCaches PROVE c \in Content /\ c.synced
  <2>1. CASE c \in {Absent, Foreign("corrupt"), Foreign("undecodable")}
    <3>1. \A kind \in {"absent", "corrupt", "undecodable"} :
             Foreign(kind) \in Content /\ Foreign(kind).synced
      BY DEF Content, Foreign
    <3> QED
      BY <2>1, <3>1 DEF Absent
  <2>2. ASSUME NEW held \in HeldBefore,
               c = [kind |-> "whole", by |-> Earlier, holds |-> held, synced |-> TRUE]
        PROVE  c \in Content /\ c.synced
    BY <1>1, <2>2 DEF Content
  <2> QED
    BY <1>3, <2>1, <2>2 DEF FoundCaches
<1>4. ASSUME NEW c \in FoundReports PROVE c \in Content /\ c.synced
  BY <1>2, <1>4 DEF Content, FoundReports
<1>5. ASSUME NEW c \in Content PROVE Surviving(c) \in Content /\ Surviving(c).synced
  BY <1>5 DEF Content, Surviving
<1> QED
  BY <1>2, <1>3, <1>4, <1>5

\* Counting a fault keeps the counter a number.
LEMMA FaultType ==
    ASSUME TypeOK, Fault
    PROVE  faults' \in Nat
  BY DEF TypeOK, Fault

\* Where a process goes, and what a step of writing does to its locals.
LEMMA PlaceType ==
    ASSUME TypeOK, NEW r \in Runs
    PROVE  /\ \A label \in Labels : Goto(r, label) =>
                pc' \in [Runs -> Labels] /\ exit' \in [Runs -> ExitCodes]
           /\ \A code \in ExitCodes : Exit(r, code) =>
                pc' \in [Runs -> Labels] /\ exit' \in [Runs -> ExitCodes]
<1>1. pc \in [Runs -> Labels] /\ exit \in [Runs -> ExitCodes]
  BY DEF TypeOK
<1>2. "ended" \in Labels
  BY DEF Labels
<1>3. ASSUME NEW label \in Labels, Goto(r, label)
      PROVE  pc' \in [Runs -> Labels] /\ exit' \in [Runs -> ExitCodes]
  BY <1>1, <1>3
<1>4. ASSUME NEW code \in ExitCodes, Exit(r, code)
      PROVE  pc' \in [Runs -> Labels] /\ exit' \in [Runs -> ExitCodes]
  BY <1>1, <1>2, <1>4
<1> QED
  BY <1>3, <1>4

\* A step on the temporary file keeps its type.
LEMMA TempType ==
    ASSUME TypeOK, NEW r \in Runs, NEW state \in {"none", "open", "written", "synced"},
           TempIs(r, state)
    PROVE  temp' \in [Runs -> [Targets -> {"none", "open", "written", "synced"}]]
<1>1. temp[r] \in [Targets -> {"none", "open", "written", "synced"}] /\ target[r] \in Targets
  BY DEF TypeOK
<1>2. [temp[r] EXCEPT ![target[r]] = state] \in [Targets -> {"none", "open", "written", "synced"}]
  BY <1>1
<1> QED
  BY <1>2 DEF TypeOK, TempIs

\* Noting a failed call keeps the type of the notes.
LEMMA NoteType ==
    ASSUME TypeOK, NEW r \in Runs, NEW call \in Calls, Note(r, call)
    PROVE  failed' \in [Runs -> [Targets -> SUBSET Calls]]
<1>1. failed[r] \in [Targets -> SUBSET Calls] /\ target[r] \in Targets
  BY DEF TypeOK
<1>2. [failed[r] EXCEPT ![target[r]] = failed[r][target[r]] \cup {call}]
         \in [Targets -> SUBSET Calls]
  BY <1>1
<1> QED
  BY <1>2 DEF TypeOK, Note

\* So does the end of a replacement for the places of the processes,
LEMMA FinishType ==
    ASSUME TypeOK, NEW r \in Runs, NEW ok, Finish(r, ok)
    PROVE  pc' \in [Runs -> Labels] /\ exit' \in [Runs -> ExitCodes]
  BY PlaceType DEF Finish, Labels, ExitCodes

\* and a failing call for all it changes.
LEMMA CallFailsType ==
    ASSUME TypeOK, NEW r \in Runs, NEW call \in Calls, CallFails(r, call)
    PROVE  /\ faults' \in Nat /\ failed' \in [Runs -> [Targets -> SUBSET Calls]]
           /\ pc' \in [Runs -> Labels] /\ exit' \in [Runs -> ExitCodes]
<1>1. faults' \in Nat /\ failed' \in [Runs -> [Targets -> SUBSET Calls]]
  BY FaultType, NoteType DEF CallFails
<1>2. pc' \in [Runs -> Labels] /\ exit' \in [Runs -> ExitCodes]
  BY FinishType, PlaceType DEF CallFails, Labels
<1> QED
  BY <1>1, <1>2

\* What a process installs is a content.
LEMMA PayloadType ==
    ASSUME TypeOK, NEW r \in Runs
    PROVE  PayloadOfRun(r) \in Content
  BY DEF TypeOK, PayloadOfRun, Content

\* A report shows nothing that the store does not hold.
LEMMA ReportType ==
    ASSUME TypeOK, NEW r \in Runs
    PROVE  ReportOf(r) \subseteq store[r] /\ ReportOf(r) \subseteq Subsystems
<1>1. store[r] \subseteq Subsystems
  BY DEF TypeOK
<1>2. ReportOf(r) \subseteq store[r]
  <2>1. CASE request[r].command = "status"
    BY <2>1 DEF ReportOf
  <2>2. CASE request[r].command # "status" /\ request[r].json
    BY <2>2 DEF ReportOf
  <2>3. CASE request[r].command # "status" /\ ~request[r].json
    BY <2>3 DEF ReportOf
  <2> QED
    BY <2>1, <2>2, <2>3
<1> QED
  BY <1>1, <1>2

\* The types hold initially ...
LEMMA TypeInitially == Init => TypeOK
<1> SUFFICES ASSUME Init PROVE TypeOK
  OBVIOUS
<1>1. cache \in Content /\ report \in Content
  BY ContentTypes DEF Init
<1>2. request \in [Runs -> Request]
  BY RequestsAssumption DEF Init
<1> QED
  BY <1>1, <1>2 DEF Init, TypeOK, Targets, Labels, ExitCodes

\* ... and every step keeps them.
LEMMA TypeStep == TypeOK /\ [Next]_vars => TypeOK'
<1> SUFFICES ASSUME TypeOK, [Next]_vars PROVE TypeOK'
  OBVIOUS
<1> DEFINE Places == pc' \in [Runs -> Labels] /\ exit' \in [Runs -> ExitCodes]
<1> DEFINE Typed(field) == field \in [Runs -> SUBSET Subsystems]
<1> USE DEF TypeOK
<1>1. ASSUME NEW r \in Runs, Start(r) PROVE TypeOK'
  <2>1. Places
    BY <1>1, PlaceType DEF Start, Labels, ExitCodes
  <2> QED
    BY <1>1, <2>1 DEF Start
<1>2. ASSUME NEW r \in Runs, LoadExists(r) PROVE TypeOK'
  <2>1. Places
    BY <1>2, PlaceType DEF LoadExists, Labels
  <2>2. Typed(store')
    <3>1. ({} \ Redacted) \cup {"runtime"} \subseteq Subsystems
      BY ConstantTypes
    <3>2. \/ store' = [store EXCEPT ![r] = ({} \ Redacted) \cup {"runtime"}]
          \/ UNCHANGED store
      BY <1>2 DEF LoadExists, Prime
    <3> QED
      BY <3>1, <3>2
  <2> QED
    BY <1>2, <2>1, <2>2 DEF LoadExists
<1>3. ASSUME NEW r \in Runs, LoadReads(r) PROVE TypeOK'
  <2>1. Places
    BY <1>3, PlaceType DEF LoadReads, Labels, ExitCodes
  <2>2. Typed(store')
    <3>1. cache.holds \subseteq Subsystems
      BY DEF Content
    <3>2. (cache.holds \ Redacted) \cup {"runtime"} \subseteq Subsystems
      BY <3>1, ConstantTypes
    <3> QED
      BY <1>3, <3>2 DEF LoadReads, Prime
  <2>3. faults' \in Nat
    BY <1>3, FaultType DEF LoadReads
  <2> QED
    BY <1>3, <2>1, <2>2, <2>3 DEF LoadReads
<1>4. ASSUME NEW r \in Runs, Quarantine(r) PROVE TypeOK'
  <2>1. Places
    BY <1>4, PlaceType DEF Quarantine, Labels
  <2>2. Typed(store')
    BY <1>4, ConstantTypes DEF Quarantine, Prime
  <2>3. faults' \in Nat /\ cache' \in Content /\ cacheDisk' \subseteq Content
    BY <1>4, FaultType, ContentTypes DEF Quarantine
  <2> QED
    BY <1>4, <2>1, <2>2, <2>3 DEF Quarantine
<1>5. ASSUME NEW r \in Runs, Probe(r) PROVE TypeOK'
  <2>1. Places
    BY <1>5, PlaceType DEF Probe, Proceed, Labels, ExitCodes
  <2>2. Typed(store') /\ auth' \in [Runs -> {"unavailable", "locked", "authenticated"}]
    BY <1>5 DEF Probe
  <2> QED
    BY <1>5, <2>1, <2>2 DEF Probe
<1>6. ASSUME NEW r \in Runs, EnterPassword(r) PROVE TypeOK'
  <2>1. Places
    BY <1>6, PlaceType DEF EnterPassword, Proceed, Labels, ExitCodes
  <2> QED
    BY <1>6, <2>1 DEF EnterPassword
<1>7. ASSUME NEW r \in Runs, Collect(r) PROVE TypeOK'
  <2>1. Places
    BY <1>7, PlaceType DEF Collect, Labels
  <2>2. Typed(store') /\ attempted' \in [Runs -> SUBSET Collected]
    BY <1>7, ConstantTypes DEF Collect, MayCollect
  <2> QED
    BY <1>7, <2>1, <2>2 DEF Collect
<1>8. ASSUME NEW r \in Runs, Follow(r) PROVE TypeOK'
  <2>1. Places
    BY <1>8, PlaceType DEF Follow, ExitCodes
  <2>2. Typed(shown')
    BY <1>8 DEF Follow
  <2> QED
    BY <1>8, <2>1, <2>2 DEF Follow
<1>9. ASSUME NEW r \in Runs, BeginSave(r) PROVE TypeOK'
  <2>1. Places
    BY <1>9, PlaceType DEF BeginSave, Open, Labels
  <2> QED
    BY <1>9, <2>1 DEF BeginSave, Open, Targets
<1>10. ASSUME NEW r \in Runs, MakeDirectory(r) PROVE TypeOK'
  <2>1. Places /\ faults' \in Nat
    BY <1>10, PlaceType, FaultType DEF MakeDirectory, Labels, ExitCodes
  <2> QED
    BY <1>10, <2>1 DEF MakeDirectory
<1>11. ASSUME NEW r \in Runs, CreateTemp(r) PROVE TypeOK'
  <2>1. /\ Places /\ faults' \in Nat /\ failed' \in [Runs -> [Targets -> SUBSET Calls]]
        /\ temp' \in [Runs -> [Targets -> {"none", "open", "written", "synced"}]]
    BY <1>11, PlaceType, CallFailsType, TempType, FinishType, NoteType DEF CreateTemp, Labels, Calls
  <2> QED
    BY <1>11, <2>1 DEF CreateTemp
<1>12. ASSUME NEW r \in Runs, WriteTemp(r) PROVE TypeOK'
  <2>1. /\ Places /\ faults' \in Nat /\ failed' \in [Runs -> [Targets -> SUBSET Calls]]
        /\ temp' \in [Runs -> [Targets -> {"none", "open", "written", "synced"}]]
    BY <1>12, PlaceType, CallFailsType, TempType, FinishType, NoteType DEF WriteTemp, Labels, Calls
  <2> QED
    BY <1>12, <2>1 DEF WriteTemp
<1>13. ASSUME NEW r \in Runs, SyncTemp(r) PROVE TypeOK'
  <2>1. /\ Places /\ faults' \in Nat /\ failed' \in [Runs -> [Targets -> SUBSET Calls]]
        /\ temp' \in [Runs -> [Targets -> {"none", "open", "written", "synced"}]]
    BY <1>13, PlaceType, CallFailsType, TempType, FinishType, NoteType DEF SyncTemp, Labels, Calls
  <2> QED
    BY <1>13, <2>1 DEF SyncTemp
<1>14. ASSUME NEW r \in Runs, ChmodTemp(r) PROVE TypeOK'
  <2>1. /\ Places /\ faults' \in Nat /\ failed' \in [Runs -> [Targets -> SUBSET Calls]]
        /\ temp' \in [Runs -> [Targets -> {"none", "open", "written", "synced"}]]
    BY <1>14, PlaceType, CallFailsType, TempType, FinishType, NoteType DEF ChmodTemp, Labels, Calls
  <2> QED
    BY <1>14, <2>1 DEF ChmodTemp
<1>15. ASSUME NEW r \in Runs, Replace(r) PROVE TypeOK'
  <2>1. /\ Places /\ faults' \in Nat /\ failed' \in [Runs -> [Targets -> SUBSET Calls]]
        /\ temp' \in [Runs -> [Targets -> {"none", "open", "written", "synced"}]]
    BY <1>15, PlaceType, CallFailsType, TempType DEF Replace, Labels, Calls
  <2>2. /\ cache' \in Content /\ cacheDisk' \subseteq Content
        /\ report' \in Content /\ reportDisk' \subseteq Content
    BY <1>15, PayloadType DEF Replace
  <2> QED
    BY <1>15, <2>1, <2>2 DEF Replace
<1>16. ASSUME NEW r \in Runs, ChmodTarget(r) PROVE TypeOK'
  <2>1. /\ Places /\ faults' \in Nat /\ failed' \in [Runs -> [Targets -> SUBSET Calls]]
        /\ temp' \in [Runs -> [Targets -> {"none", "open", "written", "synced"}]]
    BY <1>16, PlaceType, CallFailsType, TempType, FinishType, NoteType
       DEF ChmodTarget, Labels, Calls
  <2> QED
    BY <1>16, <2>1 DEF ChmodTarget
<1>17. ASSUME NEW r \in Runs, UnlinkTemp(r) PROVE TypeOK'
  <2>1. /\ Places /\ faults' \in Nat /\ failed' \in [Runs -> [Targets -> SUBSET Calls]]
        /\ temp' \in [Runs -> [Targets -> {"none", "open", "written", "synced"}]]
    BY <1>17, PlaceType, CallFailsType, TempType, FinishType, NoteType DEF UnlinkTemp, Labels, Calls
  <2> QED
    BY <1>17, <2>1 DEF UnlinkTemp
<1>18. ASSUME NEW r \in Runs, Emit(r) PROVE TypeOK'
  <2>1. Places
    BY <1>18, PlaceType DEF Emit, Open, Labels, ExitCodes
  <2>2. ReportOf(r) \subseteq Subsystems
    BY ReportType
  <2>3. Typed(shown')
    BY <1>18, <2>2 DEF Emit
  <2>4. target' \in [Runs -> Targets] /\ named' \in [Runs -> BOOLEAN]
    BY <1>18 DEF Emit, Open, Targets
  <2> QED
    BY <1>18, <2>1, <2>3, <2>4 DEF Emit
<1>19. ASSUME NEW r \in Runs, Interrupt(r) PROVE TypeOK'
  BY <1>19, FaultType DEF Interrupt
<1>20. ASSUME NEW r \in Runs, AwaitRaises(r) PROVE TypeOK'
  BY <1>20, PlaceType DEF AwaitRaises, ExitCodes
<1>21. ASSUME NEW r \in Runs, Kill(r) PROVE TypeOK'
  BY <1>21, PlaceType, FaultType DEF Kill, ExitCodes
<1>22. ASSUME PowerLoss PROVE TypeOK'
  <2>1. /\ cache' \in Content /\ cacheDisk' \subseteq Content
        /\ report' \in Content /\ reportDisk' \subseteq Content
    BY <1>22, ContentTypes DEF PowerLoss
  <2>2. Places
    BY <1>22 DEF PowerLoss, Labels, ExitCodes
  <2> QED
    BY <1>22, <2>1, <2>2, FaultType DEF PowerLoss
<1>23. CASE UNCHANGED vars
  BY <1>23 DEF vars
<1> QED
  BY <1>1, <1>2, <1>3, <1>4, <1>5, <1>6, <1>7, <1>8, <1>9, <1>10, <1>11, <1>12, <1>13, <1>14,
     <1>15, <1>16, <1>17, <1>18, <1>19, <1>20, <1>21, <1>22, <1>23
     DEF Next, Prepares, Writes

-----------------------------------------------------------------------------
(* What one process does to its own state.  The groups of the invariant    *)
(* speak of one process each: its own steps keep them, and those of the    *)
(* others do not touch what they speak of.                                 *)

Acts(r) == Prepares(r) \/ Writes(r) \/ Interrupt(r) \/ AwaitRaises(r) \/ Kill(r)
Locals(r) == <<request[r], pc[r], exit[r], auth[r], store[r], attempted[r], shown[r], target[r],
               temp[r], named[r], failed[r]>>

\* A process changes nothing of another one.
LEMMA OthersStay ==
    ASSUME TypeOK, NEW r \in Runs, NEW q \in Runs \ {r}, Acts(r)
    PROVE  UNCHANGED Locals(q)
<1> USE DEF TypeOK, Locals
<1>1. CASE Start(r)
  BY <1>1 DEF Start
<1>2. CASE LoadExists(r)
  BY <1>2 DEF LoadExists, Prime
<1>3. CASE LoadReads(r)
  BY <1>3 DEF LoadReads, Prime
<1>4. CASE Quarantine(r)
  BY <1>4 DEF Quarantine, Prime
<1>5. CASE Probe(r)
  BY <1>5 DEF Probe, Proceed
<1>6. CASE EnterPassword(r)
  BY <1>6 DEF EnterPassword, Proceed
<1>7. CASE Collect(r)
  BY <1>7 DEF Collect
<1>8. CASE Follow(r)
  BY <1>8 DEF Follow
<1>9. CASE BeginSave(r)
  BY <1>9 DEF BeginSave, Open
<1>10. CASE MakeDirectory(r)
  BY <1>10 DEF MakeDirectory
<1>11. CASE CreateTemp(r)
  BY <1>11 DEF CreateTemp, CallFails, Finish, Note, TempIs
<1>12. CASE WriteTemp(r)
  BY <1>12 DEF WriteTemp, CallFails, Finish, Note, TempIs
<1>13. CASE SyncTemp(r)
  BY <1>13 DEF SyncTemp, CallFails, Finish, Note, TempIs
<1>14. CASE ChmodTemp(r)
  BY <1>14 DEF ChmodTemp, CallFails, Finish, Note, TempIs
<1>15. CASE Replace(r)
  BY <1>15 DEF Replace, CallFails, Finish, Note, TempIs
<1>16. CASE ChmodTarget(r)
  BY <1>16 DEF ChmodTarget, CallFails, Finish, Note, TempIs
<1>17. CASE UnlinkTemp(r)
  BY <1>17 DEF UnlinkTemp, Finish, Note, TempIs
<1>18. CASE Emit(r)
  BY <1>18 DEF Emit, Open
<1>19. CASE Interrupt(r)
  BY <1>19 DEF Interrupt
<1>20. CASE AwaitRaises(r)
  BY <1>20 DEF AwaitRaises
<1>21. CASE Kill(r)
  BY <1>21 DEF Kill
<1> QED
  BY <1>1, <1>2, <1>3, <1>4, <1>5, <1>6, <1>7, <1>8, <1>9, <1>10, <1>11, <1>12, <1>13, <1>14,
     <1>15, <1>16, <1>17, <1>18, <1>19, <1>20, <1>21
     DEF Acts, Prepares, Writes

\* A process that is over stays where it is.
LEMMA OverStep ==
    ASSUME TypeOK, NEW r \in Runs, EndedIsOver(r), Acts(r)
    PROVE  EndedIsOver(r)'
<1> USE DEF TypeOK, EndedIsOver
<1>1. CASE Start(r)
  BY <1>1 DEF Start
<1>2. CASE LoadExists(r)
  BY <1>2 DEF LoadExists
<1>3. CASE LoadReads(r)
  BY <1>3 DEF LoadReads
<1>4. CASE Quarantine(r)
  BY <1>4 DEF Quarantine
<1>5. CASE Probe(r)
  BY <1>5 DEF Probe, Proceed
<1>6. CASE EnterPassword(r)
  BY <1>6 DEF EnterPassword, Proceed
<1>7. CASE Collect(r)
  BY <1>7 DEF Collect
<1>8. CASE Follow(r)
  BY <1>8 DEF Follow
<1>9. CASE BeginSave(r)
  BY <1>9 DEF BeginSave, Open
<1>10. CASE MakeDirectory(r)
  BY <1>10 DEF MakeDirectory
<1>11. CASE CreateTemp(r)
  BY <1>11 DEF CreateTemp, CallFails, Finish
<1>12. CASE WriteTemp(r)
  BY <1>12 DEF WriteTemp, CallFails, Finish
<1>13. CASE SyncTemp(r)
  BY <1>13 DEF SyncTemp, CallFails, Finish
<1>14. CASE ChmodTemp(r)
  BY <1>14 DEF ChmodTemp, CallFails, Finish
<1>15. CASE Replace(r)
  BY <1>15 DEF Replace, CallFails, Finish
<1>16. CASE ChmodTarget(r)
  BY <1>16 DEF ChmodTarget, CallFails, Finish
<1>17. CASE UnlinkTemp(r)
  BY <1>17 DEF UnlinkTemp, Finish
<1>18. CASE Emit(r)
  BY <1>18 DEF Emit, Open
<1>19. CASE Interrupt(r)
  BY <1>19 DEF Interrupt
<1>20. CASE AwaitRaises(r)
  BY <1>20 DEF AwaitRaises
<1>21. CASE Kill(r)
  BY <1>21 DEF Kill
<1> QED
  BY <1>1, <1>2, <1>3, <1>4, <1>5, <1>6, <1>7, <1>8, <1>9, <1>10, <1>11, <1>12, <1>13, <1>14,
     <1>15, <1>16, <1>17, <1>18, <1>19, <1>20, <1>21
     DEF Acts, Prepares, Writes

\* Only the collection adds privileged data to a store, and only what it collected.
LEMMA SecretStep ==
    ASSUME TypeOK, NEW r \in Runs, Secret(r), Acts(r)
    PROVE  Secret(r)'
<1> USE DEF TypeOK, Secret, NothingYet, LockedCollectsNothing, StoreIsFresh, Early, Authenticated
<1>1. CASE Start(r)
  BY <1>1, ConstantTypes, ReportType DEF Start
<1>2. CASE LoadExists(r)
  <2>1. attempted[r] = {} /\ shown[r] = {} /\ UNCHANGED <<attempted, shown, auth>>
    BY <1>2 DEF LoadExists
  <2>2. \A held : ((held \ Redacted) \cup {"runtime"}) \cap Deferred = {}
    BY ConstantTypes, SectionsAssumption
  <2>3. (store' = store \/ store'[r] \cap Deferred = {})
    BY <1>2, <2>2 DEF LoadExists, Prime
  <2> QED
    BY <2>1, <2>3
<1>3. CASE LoadReads(r)
  <2>1. attempted[r] = {} /\ shown[r] = {} /\ UNCHANGED <<attempted, shown, auth>>
    BY <1>3 DEF LoadReads
  <2>2. \A held : ((held \ Redacted) \cup {"runtime"}) \cap Deferred = {}
    BY ConstantTypes, SectionsAssumption
  <2>3. (store' = store \/ store'[r] \cap Deferred = {})
    BY <1>3, <2>2 DEF LoadReads, Prime
  <2> QED
    BY <2>1, <2>3
<1>4. CASE Quarantine(r)
  <2>1. attempted[r] = {} /\ shown[r] = {} /\ UNCHANGED <<attempted, shown, auth>>
    BY <1>4 DEF Quarantine
  <2>2. \A held : ((held \ Redacted) \cup {"runtime"}) \cap Deferred = {}
    BY ConstantTypes, SectionsAssumption
  <2>3. (store' = store \/ store'[r] \cap Deferred = {})
    BY <1>4, <2>2 DEF Quarantine, Prime
  <2> QED
    BY <2>1, <2>3
<1>5. CASE Probe(r)
  BY <1>5, ConstantTypes, ReportType DEF Probe, Proceed
<1>6. CASE EnterPassword(r)
  BY <1>6, ConstantTypes, ReportType DEF EnterPassword, Proceed
<1>7. CASE Collect(r)
  BY <1>7, ConstantTypes, ReportType DEF Collect, MayCollect
<1>8. CASE Follow(r)
  BY <1>8, ConstantTypes, ReportType DEF Follow
<1>9. CASE BeginSave(r)
  BY <1>9, ConstantTypes, ReportType DEF BeginSave, Open
<1>10. CASE MakeDirectory(r)
  BY <1>10, ConstantTypes, ReportType DEF MakeDirectory
<1>11. CASE CreateTemp(r)
  BY <1>11, ConstantTypes, ReportType DEF CreateTemp, CallFails, Finish
<1>12. CASE WriteTemp(r)
  BY <1>12, ConstantTypes, ReportType DEF WriteTemp, CallFails, Finish
<1>13. CASE SyncTemp(r)
  BY <1>13, ConstantTypes, ReportType DEF SyncTemp, CallFails, Finish
<1>14. CASE ChmodTemp(r)
  BY <1>14, ConstantTypes, ReportType DEF ChmodTemp, CallFails, Finish
<1>15. CASE Replace(r)
  BY <1>15, ConstantTypes, ReportType DEF Replace, CallFails, Finish
<1>16. CASE ChmodTarget(r)
  BY <1>16, ConstantTypes, ReportType DEF ChmodTarget, CallFails, Finish
<1>17. CASE UnlinkTemp(r)
  BY <1>17, ConstantTypes, ReportType DEF UnlinkTemp, Finish
<1>18. CASE Emit(r)
  BY <1>18, ConstantTypes, ReportType DEF Emit, Open
<1>19. CASE Interrupt(r)
  BY <1>19, ConstantTypes, ReportType DEF Interrupt
<1>20. CASE AwaitRaises(r)
  BY <1>20, ConstantTypes, ReportType DEF AwaitRaises
<1>21. CASE Kill(r)
  BY <1>21, ConstantTypes, ReportType DEF Kill
<1> QED
  BY <1>1, <1>2, <1>3, <1>4, <1>5, <1>6, <1>7, <1>8, <1>9, <1>10, <1>11, <1>12, <1>13, <1>14,
     <1>15, <1>16, <1>17, <1>18, <1>19, <1>20, <1>21
     DEF Acts, Prepares, Writes

\* A noted call is among the failed ones of the file being written, and none is forgotten.
LEMMA NoteMarks ==
    ASSUME TypeOK, NEW r \in Runs, NEW call \in Calls, Note(r, call)
    PROVE  /\ call \in failed'[r][target[r]]
           /\ \A file \in Targets : failed[r][file] \subseteq failed'[r][file]
<1>1. failed[r] \in [Targets -> SUBSET Calls] /\ target[r] \in Targets
  BY DEF TypeOK
<1>2. failed'[r] = [failed[r] EXCEPT ![target[r]] = failed[r][target[r]] \cup {call}]
  BY DEF TypeOK, Note
<1> QED
  BY <1>1, <1>2

\* A temporary file that is there has an excuse.
LEMMA TidyStep ==
    ASSUME TypeOK, NEW r \in Runs, EndedIsOver(r), Tidy(r), Acts(r)
    PROVE  Tidy(r)'
<1> USE DEF TypeOK, EndedIsOver, Tidy, TempMatchesPlace, TempsAreAccounted, WritesTemp
<1>1. CASE Start(r)
  BY <1>1 DEF Start
<1>2. CASE LoadExists(r)
  BY <1>2 DEF LoadExists, Prime
<1>3. CASE LoadReads(r)
  BY <1>3 DEF LoadReads, Prime
<1>4. CASE Quarantine(r)
  BY <1>4 DEF Quarantine, Prime
<1>5. CASE Probe(r)
  BY <1>5 DEF Probe, Proceed
<1>6. CASE EnterPassword(r)
  BY <1>6 DEF EnterPassword, Proceed
<1>7. CASE Collect(r)
  BY <1>7 DEF Collect
<1>8. CASE Follow(r)
  BY <1>8 DEF Follow
<1>9. CASE BeginSave(r)
  BY <1>9 DEF BeginSave, Open
<1>10. CASE MakeDirectory(r)
  BY <1>10 DEF MakeDirectory
<1>11. CASE CreateTemp(r)
  BY <1>11 DEF CreateTemp, CallFails, Finish, Note, TempIs
<1>12. CASE WriteTemp(r)
  <2>1. exit[r] = "running" /\ pc[r] = "write" /\ UNCHANGED target
    BY <1>12 DEF WriteTemp
  <2>2. CASE TempIs(r, "written") /\ Goto(r, "sync") /\ UNCHANGED failed
    <3>1. temp'[r][target[r]] = "written" /\ pc'[r] = "sync" /\ exit'[r] = "running"
      BY <2>1, <2>2 DEF TempIs
    <3>2. \A file \in Targets \ {target[r]} : temp'[r][file] = temp[r][file]
      BY <2>2 DEF TempIs
    <3> QED
      BY <1>12, <2>1, <2>2, <3>1, <3>2 DEF WriteTemp
  <2>3. CASE CallFails(r, "write") /\ UNCHANGED temp
    <3>1. /\ "write" \in failed'[r][target[r]]
          /\ \A file \in Targets : failed[r][file] \subseteq failed'[r][file]
      BY <2>3, NoteMarks DEF CallFails, Calls
    <3>2. pc'[r] \in {"unlink", "emit", "ended"}
      BY <2>3 DEF CallFails, Finish
    <3>3. \A file \in Targets : temp[r][file] # "none" =>
             failed'[r][file] \cap {"write", "sync", "unlink"} # {}
      BY <2>1, <3>1
    <3> QED
      BY <2>1, <2>3, <3>2, <3>3
  <2> QED
    BY <1>12, <2>2, <2>3 DEF WriteTemp
<1>13. CASE SyncTemp(r)
  <2>1. exit[r] = "running" /\ pc[r] = "sync" /\ UNCHANGED target
    BY <1>13 DEF SyncTemp
  <2>2. CASE /\ TempIs(r, "synced") /\ Goto(r, "chmod")
             /\ named' = [named EXCEPT ![r] = TRUE] /\ UNCHANGED failed
    <3>1. temp'[r][target[r]] = "synced" /\ pc'[r] = "chmod" /\ exit'[r] = "running"
      BY <2>1, <2>2 DEF TempIs
    <3>2. \A file \in Targets \ {target[r]} : temp'[r][file] = temp[r][file]
      BY <2>2 DEF TempIs
    <3> QED
      BY <1>13, <2>1, <2>2, <3>1, <3>2 DEF SyncTemp
  <2>3. CASE CallFails(r, "sync") /\ UNCHANGED temp
    <3>1. /\ "sync" \in failed'[r][target[r]]
          /\ \A file \in Targets : failed[r][file] \subseteq failed'[r][file]
      BY <2>3, NoteMarks DEF CallFails, Calls
    <3>2. pc'[r] \in {"unlink", "emit", "ended"}
      BY <2>3 DEF CallFails, Finish
    <3>3. \A file \in Targets : temp[r][file] # "none" =>
             failed'[r][file] \cap {"write", "sync", "unlink"} # {}
      BY <2>1, <3>1
    <3> QED
      BY <2>1, <2>3, <3>2, <3>3
  <2> QED
    BY <1>13, <2>2, <2>3 DEF SyncTemp
<1>14. CASE ChmodTemp(r)
  BY <1>14 DEF ChmodTemp, CallFails, Finish, Note, TempIs
<1>15. CASE Replace(r)
  BY <1>15 DEF Replace, CallFails, Finish, Note, TempIs
<1>16. CASE ChmodTarget(r)
  BY <1>16 DEF ChmodTarget, CallFails, Finish, Note, TempIs
<1>17. CASE UnlinkTemp(r)
  <2>1. exit[r] = "running" /\ pc[r] = "unlink" /\ UNCHANGED target /\ Finish(r, FALSE)
    BY <1>17 DEF UnlinkTemp
  <2>2. CASE TempIs(r, "none") /\ UNCHANGED failed
    BY <2>1, <2>2 DEF Finish, TempIs
  <2>3. CASE Note(r, "unlink") /\ UNCHANGED temp
    <3>1. /\ "unlink" \in failed'[r][target[r]]
          /\ \A file \in Targets : failed[r][file] \subseteq failed'[r][file]
      BY <2>3, NoteMarks DEF Calls
    <3>2. pc'[r] \in {"emit", "ended"}
      BY <2>1 DEF Finish
    <3>3. \A file \in Targets : temp[r][file] # "none" =>
             failed'[r][file] \cap {"write", "sync", "unlink"} # {}
      BY <2>1, <3>1
    <3> QED
      BY <2>1, <2>3, <3>2, <3>3
  <2> QED
    BY <1>17, <2>2, <2>3 DEF UnlinkTemp
<1>18. CASE Emit(r)
  BY <1>18 DEF Emit, Open
<1>19. CASE Interrupt(r)
  BY <1>19 DEF Interrupt
<1>20. CASE AwaitRaises(r)
  BY <1>20 DEF AwaitRaises
<1>21. CASE Kill(r)
  BY <1>21 DEF Kill
<1> QED
  BY <1>1, <1>2, <1>3, <1>4, <1>5, <1>6, <1>7, <1>8, <1>9, <1>10, <1>11, <1>12, <1>13, <1>14,
     <1>15, <1>16, <1>17, <1>18, <1>19, <1>20, <1>21
     DEF Acts, Prepares, Writes

\* A scan keeps its valid request, and what it collects is what was asked.
LEMMA ServedStep ==
    ASSUME TypeOK, NEW r \in Runs, Served(r), Acts(r)
    PROVE  Served(r)'
<1> USE DEF TypeOK, Served, RequestIsValid, CollectedAsAsked, Early, FollowIsValid, SectionNames,
            RefreshTargets, MayCollect, Authenticated
<1>1. CASE Start(r)
  BY <1>1 DEF Start
<1>2. CASE LoadExists(r)
  BY <1>2 DEF LoadExists
<1>3. CASE LoadReads(r)
  BY <1>3 DEF LoadReads
<1>4. CASE Quarantine(r)
  BY <1>4 DEF Quarantine
<1>5. CASE Probe(r)
  <2>1. pc[r] = "probe" /\ exit[r] = "running" /\ request' = request /\ attempted' = attempted
    BY <1>5 DEF Probe
  <2>2. PICK status \in {"unavailable", "locked", "authenticated"} :
           IF request[r].command = "scan" /\ MustUnlock(r, status)
           THEN IF status = "unavailable" THEN Exit(r, "error") ELSE Goto(r, "password")
           ELSE Proceed(r, status)
    BY <1>5 DEF Probe
  <2>3. CASE request[r].command = "scan"
    <3>1. \/ pc'[r] \in {"password", "collect"} /\ exit'[r] = "running"
          \/ pc'[r] = "save" /\ exit'[r] = "running" /\ request[r].cached
          \/ pc'[r] = "ended" /\ exit'[r] = "error"
      BY <2>1, <2>2, <2>3 DEF Proceed
    <3> QED
      BY <2>1, <2>3, <3>1
  <2>4. CASE request[r].command # "scan"
    <3>1. pc'[r] = "save"
      BY <2>1, <2>2, <2>4 DEF Proceed, Request
    <3> QED
      BY <2>1, <2>4, <3>1
  <2> QED
    BY <2>3, <2>4
<1>6. CASE EnterPassword(r)
  BY <1>6 DEF EnterPassword, Proceed
<1>7. CASE Collect(r)
  BY <1>7 DEF Collect
<1>8. CASE Follow(r)
  BY <1>8 DEF Follow
<1>9. CASE BeginSave(r)
  BY <1>9 DEF BeginSave, Open
<1>10. CASE MakeDirectory(r)
  BY <1>10 DEF MakeDirectory
<1>11. CASE CreateTemp(r)
  BY <1>11 DEF CreateTemp, CallFails, Finish
<1>12. CASE WriteTemp(r)
  BY <1>12 DEF WriteTemp, CallFails, Finish
<1>13. CASE SyncTemp(r)
  BY <1>13 DEF SyncTemp, CallFails, Finish
<1>14. CASE ChmodTemp(r)
  BY <1>14 DEF ChmodTemp, CallFails, Finish
<1>15. CASE Replace(r)
  BY <1>15 DEF Replace, CallFails, Finish
<1>16. CASE ChmodTarget(r)
  BY <1>16 DEF ChmodTarget, CallFails, Finish
<1>17. CASE UnlinkTemp(r)
  BY <1>17 DEF UnlinkTemp, Finish
<1>18. CASE Emit(r)
  BY <1>18 DEF Emit, Open
<1>19. CASE Interrupt(r)
  BY <1>19 DEF Interrupt
<1>20. CASE AwaitRaises(r)
  BY <1>20 DEF AwaitRaises
<1>21. CASE Kill(r)
  BY <1>21 DEF Kill
<1> QED
  BY <1>1, <1>2, <1>3, <1>4, <1>5, <1>6, <1>7, <1>8, <1>9, <1>10, <1>11, <1>12, <1>13, <1>14,
     <1>15, <1>16, <1>17, <1>18, <1>19, <1>20, <1>21
     DEF Acts, Prepares, Writes

-----------------------------------------------------------------------------
(* The inductive invariant. *)

\* It holds initially.
LEMMA InvInitially == Init => IInv
<1> SUFFICES ASSUME Init PROVE IInv
  OBVIOUS
<1>1. TypeOK
  BY TypeInitially
<1>2. ASSUME NEW r \in Runs PROVE EndedIsOver(r) /\ Secret(r) /\ Tidy(r) /\ Served(r)
  BY <1>2 DEF Init, EndedIsOver, Secret, NothingYet, LockedCollectsNothing, StoreIsFresh, Tidy,
              TempMatchesPlace, TempsAreAccounted, Served, RequestIsValid, CollectedAsAsked, Early
<1>3. OnDisk
  <2>1. cache.synced /\ report.synced
    BY ContentTypes DEF Init
  <2> QED
    BY <2>1 DEF Init, OnDisk, DisksAreSynced, ReportIsThere
<1> QED
  BY <1>1, <1>2, <1>3 DEF IInv

\* A step of a process keeps what is said about each of them.
LEMMA ProcessStep ==
    ASSUME IInv, NEW r \in Runs, Acts(r), NEW q \in Runs
    PROVE  (EndedIsOver(q) /\ Secret(q) /\ Tidy(q) /\ Served(q))'
<1>1. TypeOK /\ EndedIsOver(q) /\ Secret(q) /\ Tidy(q) /\ Served(q)
  BY DEF IInv
<1>2. CASE q = r
  BY <1>1, <1>2, OverStep, SecretStep, TidyStep, ServedStep
<1>3. CASE q # r
  <2>1. UNCHANGED Locals(q)
    BY <1>1, <1>3, OthersStay
  <2>2. EndedIsOver(q)' /\ Secret(q)'
    BY <1>1, <2>1 DEF Locals, EndedIsOver, Secret, NothingYet, LockedCollectsNothing,
                      StoreIsFresh, Authenticated
  <2>3. Tidy(q)'
    BY <1>1, <2>1 DEF Locals, Tidy, TempMatchesPlace, TempsAreAccounted
  <2>4. Served(q)'
    BY <1>1, <2>1 DEF Locals, Served, RequestIsValid, CollectedAsAsked, FollowIsValid,
                      SectionNames, RefreshTargets, MayCollect, Authenticated
  <2> QED
    BY <2>2, <2>3, <2>4
<1> QED
  BY <1>2, <1>3

\* A power failure only ends processes.
LEMMA PowerLossStep ==
    ASSUME IInv, PowerLoss, NEW q \in Runs
    PROVE  (EndedIsOver(q) /\ Secret(q) /\ Tidy(q) /\ Served(q))'
<1>1. TypeOK /\ EndedIsOver(q) /\ Secret(q) /\ Tidy(q) /\ Served(q)
  BY DEF IInv
<1>2. /\ UNCHANGED <<session, writing>>
      /\ \/ pc'[q] = "ended" /\ exit'[q] = "killed"
         \/ pc'[q] = pc[q] /\ exit'[q] = exit[q]
  BY <1>1 DEF PowerLoss, TypeOK
<1>3. EndedIsOver(q)' /\ Secret(q)'
  BY <1>1, <1>2 DEF EndedIsOver, Secret, NothingYet, LockedCollectsNothing,
                    StoreIsFresh, Authenticated, Early
<1>4. Tidy(q)'
  BY <1>1, <1>2 DEF Tidy, TempMatchesPlace, TempsAreAccounted
<1>5. Served(q)'
  BY <1>1, <1>2 DEF Served, RequestIsValid, CollectedAsAsked, FollowIsValid,
                    SectionNames, RefreshTargets, MayCollect, Authenticated
<1> QED
  BY <1>3, <1>4, <1>5

\* What each step does to the files: it leaves both alone, or it is one of the three that
\* change one, and what it then installs is whole, synced and rid of the redacted data.
Installs(r) ==
    /\ exit[r] = "running" /\ pc[r] = "replace" /\ pc'[r] = "chmodTarget"
    /\ UNCHANGED target
    /\ LET new == PayloadOfRun(r)
       IN  IF target[r] = "cache"
           THEN /\ cache' = new /\ cacheDisk' = cacheDisk \cup {new}
                /\ UNCHANGED <<report, reportDisk>>
           ELSE /\ report' = new /\ reportDisk' = reportDisk \cup {new}
                /\ UNCHANGED <<cache, cacheDisk>>
Withdraws(r) ==
    /\ cache' = Absent /\ cacheDisk' = cacheDisk \cup {Absent}
    /\ UNCHANGED <<report, reportDisk>>
    /\ pc'[r] = "probe"

\* A step of a process installs, withdraws, or changes no file.
LEMMA FileSteps ==
    ASSUME TypeOK, NEW r \in Runs, Acts(r)
    PROVE  Installs(r) \/ Withdraws(r) \/ UNCHANGED files
<1> USE DEF TypeOK
<1>1. CASE Quarantine(r)
  BY <1>1 DEF Quarantine, Withdraws
<1>2. CASE Replace(r)
  BY <1>2 DEF Replace, Installs, CallFails
<1>3. CASE Prepares(r) /\ ~Quarantine(r)
  BY <1>3 DEF Prepares, Start, LoadExists, LoadReads, Probe, EnterPassword, Collect, Follow
<1>4. CASE Writes(r) /\ ~Replace(r)
  BY <1>4 DEF Writes, BeginSave, MakeDirectory, CreateTemp, WriteTemp, SyncTemp, ChmodTemp,
              ChmodTarget, UnlinkTemp, Emit
<1>5. CASE Interrupt(r) \/ AwaitRaises(r) \/ Kill(r)
  BY <1>5 DEF Interrupt, AwaitRaises, Kill
<1> QED
  BY <1>1, <1>2, <1>3, <1>4, <1>5 DEF Acts

\* What is installed is synced, because the place after fsync is reached only through it.
LEMMA PayloadIsSynced ==
    ASSUME IInv, NEW r \in Runs, Installs(r)
    PROVE  /\ PayloadOfRun(r).kind = "whole" /\ PayloadOfRun(r).by = r
           /\ PayloadOfRun(r).synced
           /\ target[r] = "cache" => PayloadOfRun(r).holds \cap Deferred = {}
<1>1. temp[r][target[r]] = "synced"
  BY DEF IInv, Tidy, TempMatchesPlace, Installs
<1> QED
  BY <1>1, ConstantTypes DEF PayloadOfRun

\* A process keeps what is said about the files.
LEMMA OnDiskStep ==
    ASSUME IInv, NEW r \in Runs, Acts(r)
    PROVE  OnDisk'
<1>1. TypeOK /\ DisksAreSynced /\ ReportIsThere
  BY DEF IInv, OnDisk
<1>2. \A q \in Runs \ {r} : pc'[q] = pc[q] /\ target'[q] = target[q]
  BY <1>1, OthersStay DEF Locals
<1>3. Absent.synced
  BY ContentTypes
<1>4. CASE Installs(r)
  <2>1. PayloadOfRun(r).kind = "whole" /\ PayloadOfRun(r).by = r /\ PayloadOfRun(r).synced
    BY <1>4, PayloadIsSynced
  <2>2. CASE target[r] = "cache"
    BY <1>1, <1>2, <1>4, <2>1, <2>2 DEF Installs, OnDisk, DisksAreSynced, ReportIsThere
  <2>3. CASE target[r] # "cache"
    BY <1>1, <1>2, <1>4, <2>1, <2>3 DEF Installs, OnDisk, DisksAreSynced, ReportIsThere
  <2> QED
    BY <2>2, <2>3
<1>5. CASE Withdraws(r)
  BY <1>1, <1>2, <1>3, <1>5 DEF Withdraws, OnDisk, DisksAreSynced, ReportIsThere
<1>6. CASE UNCHANGED files /\ ~Installs(r)
  <2>1. pc'[r] = "chmodTarget" => pc[r] = "chmodTarget"
    <3> USE <1>1 DEF TypeOK
    <3>1. CASE Prepares(r)
      BY <3>1 DEF Prepares, Start, LoadExists, LoadReads, Quarantine, Probe, Proceed,
                  EnterPassword, Collect, Follow
    <3>2. CASE Writes(r)
      <4>1. CASE Replace(r)
        BY <1>6, <4>1 DEF Replace, Installs, CallFails, Finish
      <4>2. CASE ~Replace(r)
        BY <3>2, <4>2 DEF Writes, BeginSave, MakeDirectory, CreateTemp, WriteTemp, SyncTemp,
                      ChmodTemp, ChmodTarget, UnlinkTemp, Emit, CallFails, Finish, Open
      <4> QED
        BY <4>1, <4>2
    <3>3. CASE Interrupt(r) \/ AwaitRaises(r) \/ Kill(r)
      BY <3>3 DEF Interrupt, AwaitRaises, Kill
    <3> QED
      BY <3>1, <3>2, <3>3 DEF Acts
  <2>2. pc[r] = "chmodTarget" /\ pc'[r] = "chmodTarget" => target'[r] = target[r]
    <3> USE <1>1 DEF TypeOK
    <3>1. CASE pc[r] = "chmodTarget" /\ (Prepares(r) \/ Writes(r))
      BY <3>1 DEF Prepares, Start, LoadExists, LoadReads, Quarantine, Probe,
                  EnterPassword, Collect, Follow, Writes, BeginSave, MakeDirectory, CreateTemp,
                  WriteTemp, SyncTemp, ChmodTemp, Replace, ChmodTarget, UnlinkTemp, Emit
    <3>2. CASE Interrupt(r) \/ AwaitRaises(r) \/ Kill(r)
      BY <3>2 DEF Interrupt, AwaitRaises, Kill
    <3> QED
      BY <3>1, <3>2 DEF Acts
  <2> QED
    BY <1>1, <1>2, <1>6, <2>1, <2>2 DEF OnDisk, DisksAreSynced, ReportIsThere
<1> QED
  BY <1>1, <1>4, <1>5, <1>6, FileSteps

\* Every step keeps the inductive invariant.
LEMMA InvStep == IInv /\ [Next]_vars => IInv'
<1> SUFFICES ASSUME IInv, [Next]_vars PROVE IInv'
  OBVIOUS
<1>1. TypeOK'
  BY TypeStep DEF IInv
<1>2. ASSUME NEW r \in Runs, Acts(r) PROVE IInv'
  BY <1>1, <1>2, ProcessStep, OnDiskStep DEF IInv
<1>3. CASE PowerLoss
  <2>1. OnDisk'
    <3>1. cacheDisk \subseteq Content /\ reportDisk \subseteq Content
      BY DEF IInv, TypeOK
    <3>2. DisksAreSynced'
      BY <1>3, <3>1, ContentTypes DEF PowerLoss, DisksAreSynced
    <3>3. \A r \in Runs : pc'[r] \in {"start", "ended"}
      <4>1. \A r \in Runs : EndedIsOver(r)
        BY DEF IInv
      <4>2. pc \in [Runs -> Labels]
        BY DEF IInv, TypeOK
      <4> QED
        BY <1>3, <4>1, <4>2 DEF PowerLoss, EndedIsOver
    <3> QED
      BY <3>2, <3>3 DEF OnDisk, ReportIsThere
  <2> QED
    BY <1>1, <1>3, <2>1, PowerLossStep DEF IInv
<1>4. CASE UNCHANGED vars
  <2>1. UNCHANGED <<cacheDisk, report, reportDisk, pc, target>>
    BY <1>4 DEF vars
  <2>2. OnDisk'
    BY <2>1 DEF IInv, OnDisk, DisksAreSynced, ReportIsThere
  <2>3. ASSUME NEW q \in Runs
        PROVE  (EndedIsOver(q) /\ Secret(q) /\ Tidy(q) /\ Served(q))'
    <3>1. UNCHANGED Locals(q)
      BY <1>4 DEF vars, Locals
    <3>2. EndedIsOver(q) /\ Secret(q) /\ Tidy(q) /\ Served(q)
      BY DEF IInv
    <3>3. (EndedIsOver(q) /\ Secret(q) /\ Tidy(q))'
      BY <3>1, <3>2 DEF Locals, EndedIsOver, Secret, NothingYet, LockedCollectsNothing,
                        StoreIsFresh, Authenticated, Tidy, TempMatchesPlace, TempsAreAccounted
    <3>4. Served(q)'
      BY <3>1, <3>2 DEF Locals, Served, RequestIsValid, CollectedAsAsked, FollowIsValid,
                        SectionNames, RefreshTargets, MayCollect, Authenticated
    <3> QED
      BY <3>3, <3>4
  <2> QED
    BY <1>1, <2>2, <2>3 DEF IInv
<1> QED
  BY <1>2, <1>3, <1>4 DEF Next, Acts

\* The inductive invariant holds in every reachable state.
THEOREM InvariantHolds == Spec => []IInv
  BY InvInitially, InvStep, PTL DEF Spec

-----------------------------------------------------------------------------
(* What the runs check. *)

\* Files, places and stores keep their types for any processes and command lines.
THEOREM CommandLineTypeCorrect == Spec => []TypeOK
<1>1. IInv => TypeOK
  BY DEF IInv
<1> QED
  BY <1>1, InvariantHolds, PTL

\* A run without sudo never reports privileged data: the gate keeps it from collecting any,
\* and what the cache held is cleared before it is used.
THEOREM LockedReportsAreClean == Spec => []LockedReportsHideData
<1>1. IInv => LockedReportsHideData
  BY DEF IInv, Secret, LockedCollectsNothing, StoreIsFresh, LockedReportsHideData
<1> QED
  BY <1>1, InvariantHolds, PTL

\* Privileged data in a report was collected by the run itself.
THEOREM ReportsAreFresh == Spec => []PrivilegedDataIsFresh
<1>1. IInv => PrivilegedDataIsFresh
  BY DEF IInv, Secret, StoreIsFresh, PrivilegedDataIsFresh
<1> QED
  BY <1>1, InvariantHolds, PTL

\* A process that ended on its own leaves a temporary file only where the code gives it up.
THEOREM TemporariesAreRemoved == Spec => []TemporariesAreCleaned
<1>1. IInv => TemporariesAreCleaned
  BY DEF IInv, EndedIsOver, Tidy, TempsAreAccounted, WritesTemp, TemporariesAreCleaned
<1> QED
  BY <1>1, InvariantHolds, PTL

\* A scan that ends well has collected what it was asked for and may see.
THEOREM ScansCollectWhatIsAsked == Spec => []RequestedIsCollected
<1>1. ASSUME IInv, NEW r \in Runs, exit[r] = "ok", request[r].command = "scan",
             ~request[r].cached, NEW s \in SectionNames(r)
      PROVE  \/ SubsystemOf[s] \in attempted[r] \cup {NoSubsystem}
             \/ SubsystemOf[s] \notin Collected
             \/ SubsystemOf[s] \in Deferred /\ ~Authenticated(r)
             \/ /\ SubsystemOf[s] \in Streaming
                /\ \E t \in SectionNames(r) : SubsystemOf[t] = NoSubsystem
  <2>1. FollowIsValid(r) /\ attempted[r] = RefreshTargets(r) \cap MayCollect(r)
    BY <1>1 DEF IInv, Served, RequestIsValid, CollectedAsAsked
  <2>2. CASE request[r].follow
    <3>1. s = "Logs" /\ s \in Sections
      BY <1>1, <2>1, <2>2, SectionsAssumption DEF FollowIsValid, IInv, TypeOK, Request,
                                                  SectionNames, Unresolved
    <3>2. SubsystemOf[s] = "logs"
      BY <3>1, SectionsAssumption
    <3> QED
      BY <2>1, <2>2, <3>2 DEF RefreshTargets, MayCollect
  <2>3. CASE ~request[r].follow
    BY <1>1, <2>1, <2>3 DEF RefreshTargets, MayCollect
  <2> QED
    BY <2>2, <2>3
<1>2. IInv => RequestedIsCollected
  BY <1>1 DEF RequestedIsCollected
<1> QED
  BY <1>2, InvariantHolds, PTL

\* Who ends well, and when: the end of a stream, of a report that is only printed, and of a
\* report whose last call succeeded.
LEMMA WhoSucceeds ==
    ASSUME TypeOK, NEW r \in Runs, Acts(r), exit[r] = "running", exit'[r] = "ok"
    PROVE  \/ pc[r] = "follow"
           \/ ~request[r].output
           \/ pc[r] = "chmodTarget" /\ target[r] = "report" /\ UNCHANGED report
<1> USE DEF TypeOK
<1>1. CASE Prepares(r) /\ pc[r] # "follow"
  BY <1>1 DEF Prepares, Start, LoadExists, LoadReads, Quarantine, Probe, Proceed, EnterPassword,
              Collect, Follow
<1>2. CASE Writes(r) /\ pc[r] \notin {"emit", "chmodTarget"}
  BY <1>2 DEF Writes, BeginSave, MakeDirectory, CreateTemp, WriteTemp, SyncTemp, ChmodTemp,
              Replace, ChmodTarget, UnlinkTemp, Emit, Open, CallFails, Finish
<1>3. CASE Writes(r) /\ pc[r] = "emit"
  BY <1>3 DEF Writes, BeginSave, MakeDirectory, CreateTemp, WriteTemp, SyncTemp, ChmodTemp,
              Replace, ChmodTarget, UnlinkTemp, Emit, Open
<1>4. CASE Writes(r) /\ pc[r] = "chmodTarget"
  <2>1. ChmodTarget(r)
    BY <1>4 DEF Writes, BeginSave, MakeDirectory, CreateTemp, WriteTemp, SyncTemp, ChmodTemp,
                Replace, UnlinkTemp, Emit
  <2> QED
    BY <1>4, <2>1 DEF ChmodTarget, CallFails, Finish, Targets
<1>5. CASE Interrupt(r) \/ AwaitRaises(r) \/ Kill(r)
  BY <1>5 DEF Interrupt, AwaitRaises, Kill
<1> QED
  BY <1>1, <1>2, <1>3, <1>4, <1>5 DEF Acts

\* A run ends well only when the output file holds a whole report.
THEOREM SuccessNeedsTheReport == Spec => SuccessMeansWritten
<1> DEFINE Told == \A r \in Runs :
              (exit[r] = "running" /\ exit'[r] = "ok" /\ request[r].output)
                  => report'.kind = "whole" /\ report'.by \in Runs
<1>1. ASSUME IInv, [Next]_vars, NEW r \in Runs, exit[r] = "running", exit'[r] = "ok",
             request[r].output
      PROVE  report'.kind = "whole" /\ report'.by \in Runs
  <2>1. TypeOK /\ RequestIsValid(r) /\ ReportIsThere
    BY <1>1 DEF IInv, Served, OnDisk
  <2>2. Acts(r)
    <3>1. CASE PowerLoss
      BY <1>1, <2>1, <3>1 DEF PowerLoss, TypeOK
    <3>2. ASSUME NEW q \in Runs, Acts(q), q # r PROVE FALSE
      BY <1>1, <2>1, <3>2, OthersStay DEF Locals
    <3>3. CASE UNCHANGED vars
      BY <1>1, <3>3 DEF vars
    <3> QED
      BY <1>1, <3>1, <3>2, <3>3 DEF Next, Acts
  <2>3. pc[r] # "follow"
    BY <1>1, <2>1 DEF RequestIsValid, FollowIsValid
  <2>4. pc[r] = "chmodTarget" /\ target[r] = "report" /\ UNCHANGED report
    BY <1>1, <2>1, <2>2, <2>3, WhoSucceeds
  <2> QED
    BY <2>1, <2>4 DEF ReportIsThere
<1>2. IInv /\ [Next]_vars => Told
  BY <1>1
<1>3. Told => [Told]_vars
  OBVIOUS
<1>4. IInv /\ [Next]_vars => [Told]_vars
  BY <1>2, <1>3
<1> HIDE DEF Told
<1>5. Spec => [][Told]_vars
  BY <1>4, InvariantHolds, PTL DEF Spec
<1> QED
  BY <1>5 DEF Told, SuccessMeansWritten

-----------------------------------------------------------------------------
(* The files implement AtomicFile.  The invariant says that what a process *)
(* installs is acceptable, and that a power failure finds nothing torn:    *)
(* whatever has the name was synced before it got it.                      *)

\* What a power failure finds is what was there at some time.
LEMMA PowerLossFinds ==
    ASSUME IInv, PowerLoss
    PROVE  CacheFile!PowerFailure /\ ReportFile!PowerFailure
<1>1. \A c \in cacheDisk \cup reportDisk : Surviving(c) = c
  BY DEF IInv, OnDisk, DisksAreSynced, Surviving
<1> QED
  BY <1>1 DEF PowerLoss, CacheFile!PowerFailure, ReportFile!PowerFailure

\* Any step installs an acceptable content, withdraws one, is a power failure, or a stutter.
LEMMA FilesStep ==
    ASSUME IInv, [Next]_vars
    PROVE  [CacheFile!Next]_(CacheFile!vars) /\ [ReportFile!Next]_(ReportFile!vars)
<1> USE DEF CacheFile!Next, CacheFile!vars, ReportFile!Next, ReportFile!vars
<1>1. ASSUME NEW r \in Runs, Installs(r)
      PROVE  [CacheFile!Next]_(CacheFile!vars) /\ [ReportFile!Next]_(ReportFile!vars)
  <2>1. PayloadOfRun(r) \in Content
    BY PayloadType DEF IInv
  <2>2. CASE target[r] = "cache"
    BY <1>1, <2>1, <2>2, PayloadIsSynced DEF Installs, CacheFile!Install, CacheFile!Change
  <2>3. CASE target[r] # "cache"
    BY <1>1, <2>1, <2>3, PayloadIsSynced DEF Installs, ReportFile!Install, ReportFile!Change
  <2> QED
    BY <2>2, <2>3
<1>2. ASSUME NEW r \in Runs, Withdraws(r)
      PROVE  [CacheFile!Next]_(CacheFile!vars) /\ [ReportFile!Next]_(ReportFile!vars)
  BY <1>2 DEF Withdraws, CacheFile!Withdraw, CacheFile!Change
<1>3. CASE UNCHANGED files
  BY <1>3
<1>4. CASE PowerLoss
  BY <1>4, PowerLossFinds
<1>5. CASE UNCHANGED vars
  BY <1>5 DEF vars
<1> QED
  BY <1>1, <1>2, <1>3, <1>4, <1>5, FileSteps DEF IInv, Next, Acts

\* The cache file is at any time what was found, absent, or one whole synced snapshot without
\* deferred data, and the output file what was found or one whole report, through crashes and
\* power failures and whatever other processes do.
THEOREM FilesImplementAtomicFile == Spec => FilesAreAtomic
<1>1. Init => CacheFile!Init /\ ReportFile!Init
  BY ContentTypes DEF Init, CacheFile!Init, ReportFile!Init
<1>2. IInv /\ [Next]_vars =>
         [CacheFile!Next]_(CacheFile!vars) /\ [ReportFile!Next]_(ReportFile!vars)
  BY FilesStep
<1>3. Spec => CacheFile!Spec /\ ReportFile!Spec
  BY <1>1, <1>2, InvariantHolds, PTL DEF Spec, CacheFile!Spec, ReportFile!Spec
<1> QED
  BY <1>3 DEF FilesAreAtomic
=============================================================================
