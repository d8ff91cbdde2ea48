-------------------------- MODULE StateStoreProofs --------------------------
(***************************************************************************)
(* Proofs about the state store, for any collectors, waiting tasks, limits *)
(* and number of changes.                                                  *)
(*                                                                         *)
(* All the operations that write do the same thing to the version, the     *)
(* event and the summary.  Lemma ChangeAnnounced says what that is, once,  *)
(* and the rest of the proofs see a change only through it.                *)
(***************************************************************************)
EXTENDS StateStore, SequenceTheorems, TLAPS

-----------------------------------------------------------------------------
(* The bounded lists. *)

\* _append_bounded_locked: the result is never longer than a positive limit, is empty
\* otherwise, holds the new item last, and before it the newest of the old items.
THEOREM AppendBoundedProperties ==
    ASSUME NEW items \in Seq(Nat), NEW item \in Nat, NEW limit \in Int
    PROVE  LET result == AppendBounded(items, item, limit)
           IN  /\ result \in Seq(Nat)
               /\ limit <= 0 => result = <<>>
               /\ limit > 0 => /\ Len(result) \in 1 .. limit
                               /\ Len(result) <= Len(items) + 1
                               /\ result[Len(result)] = item
                               /\ \A i \in 1 .. Len(result) - 1 :
                                     result[i] = items[Len(items) + 1 - Len(result) + i]
<1> DEFINE longer == Append(items, item)
           overflow == Len(longer) - limit
           result == AppendBounded(items, item, limit)
<1>1. /\ longer \in Seq(Nat)
      /\ Len(longer) = Len(items) + 1
      /\ longer[Len(longer)] = item
      /\ \A i \in 1 .. Len(items) : longer[i] = items[i]
      /\ Len(items) \in Nat
  BY LenProperties
<1>2. CASE limit <= 0
  BY <1>2, EmptySeq DEF AppendBounded
<1>3. CASE limit > 0 /\ overflow > 0
  <2>1. result = SubSeq(longer, overflow + 1, Len(longer))
    <3>1. result = IF limit <= 0 THEN <<>>
                   ELSE IF overflow > 0 THEN SubSeq(longer, overflow + 1, Len(longer))
                   ELSE longer
      BY Zenon DEF AppendBounded
    <3>2. ~(limit <= 0)
      BY <1>3
    <3> HIDE DEF longer, overflow, result
    <3> QED
      BY <1>3, <3>1, <3>2, Zenon
  <2>2. \A i \in overflow + 1 .. Len(longer) : longer[i] \in Nat
    BY <1>1, <1>3, ElementOfSeq
  <2>3. overflow \in Int /\ Len(longer) \in Int /\ Len(longer) - (overflow + 1) + 1 = limit
    BY <1>1
  <2>4. /\ SubSeq(longer, overflow + 1, Len(longer)) \in Seq(Nat)
        /\ Len(SubSeq(longer, overflow + 1, Len(longer))) = limit
        /\ \A i \in 1 .. limit :
              SubSeq(longer, overflow + 1, Len(longer))[i] = longer[overflow + i]
    <3> HIDE DEF longer, overflow
    <3>1. \A i \in 1 .. limit : overflow + 1 + i - 1 = overflow + i
      BY <2>3
    <3> QED
      BY <1>3, <2>2, <2>3, <3>1, SubSeqProperties
  <2>5. /\ result \in Seq(Nat)
        /\ Len(result) = limit
        /\ \A i \in 1 .. limit : result[i] = longer[overflow + i]
    BY <2>1, <2>4
  <2>6. result[limit] = item
    BY <1>1, <1>3, <2>5
  <2>7. \A i \in 1 .. limit - 1 : result[i] = items[Len(items) + 1 - limit + i]
    <3> SUFFICES ASSUME NEW i \in 1 .. limit - 1
                 PROVE  result[i] = items[Len(items) + 1 - limit + i]
      OBVIOUS
    <3>1. overflow + i = Len(items) + 1 - limit + i /\ overflow + i \in 1 .. Len(items)
      BY <1>1, <1>3
    <3> HIDE DEF longer, overflow, result
    <3> QED
      BY <1>1, <2>5, <3>1
  <2>8. Len(result) <= Len(items) + 1
    BY <1>1, <1>3, <2>5
  <2> HIDE DEF longer, overflow
  <2> QED
    BY <1>3, <2>5, <2>6, <2>7, <2>8
<1>4. CASE limit > 0 /\ overflow <= 0
  <2>1. result = longer
    BY <1>1, <1>4 DEF AppendBounded
  <2> QED
    BY <1>1, <1>4, <2>1
<1> QED
  BY <1>1, <1>2, <1>3, <1>4

-----------------------------------------------------------------------------
(* What every change does. *)

\* The pieces a change writes get the next version; the others keep theirs.
Written(subsystems, collectors, ev, backends) ==
    /\ \A s \in Subsystems : writtenAt'.subsystems[s] =
          IF s \in subsystems THEN version + 1 ELSE writtenAt.subsystems[s]
    /\ \A c \in Collectors : writtenAt'.collectors[c] =
          IF c \in collectors THEN version + 1 ELSE writtenAt.collectors[c]
    /\ writtenAt'.events = IF ev THEN version + 1 ELSE writtenAt.events
    /\ writtenAt'.backends = IF backends THEN version + 1 ELSE writtenAt.backends

\* A write leaves the subsystems' stamps well-typed.
LEMMA WriteStamps ==
    ASSUME TypeOK, NEW subsystems, NEW collectors,
           NEW ev \in BOOLEAN, NEW backends \in BOOLEAN,
           Write(subsystems, collectors, ev, backends)
    PROVE  /\ writtenAt' \in Stamps
           /\ Written(subsystems, collectors, ev, backends)
  BY DEF TypeOK, Stamps, Write, Written

\* A change signals a summary that names every piece it writes.
Announced(change) ==
    /\ change \in StoreChange
    /\ change.version = version + 1
    /\ SignalChange(change)
    /\ \E subsystems \in SUBSET change.subsystems, collectors \in SUBSET change.collectors,
          ev \in BOOLEAN, backends \in BOOLEAN :
          /\ ev => change.events
          /\ backends => change.backends
          /\ Written(subsystems, collectors, ev, backends)

\* What makes a summary that of the last change.
LEMMA AnnouncedIntro ==
    ASSUME TypeOK,
           NEW named \in SUBSET Subsystems, NEW subsystems \in SUBSET named,
           NEW collectors \in SUBSET Collectors,
           NEW ev \in BOOLEAN, NEW backends \in BOOLEAN,
           Write(subsystems, collectors, ev, backends),
           SignalChange(Summary(named, collectors, ev, backends))
    PROVE  /\ writtenAt' \in Stamps
           /\ \E change : Announced(change)
<1> DEFINE change == Summary(named, collectors, ev, backends)
<1>1. /\ change \in StoreChange
      /\ change.version = version + 1
      /\ change.subsystems = named
      /\ change.collectors = collectors
      /\ change.events = ev
      /\ change.backends = backends
  BY DEF TypeOK, StoreChange, Summary
<1>2. /\ writtenAt' \in Stamps
      /\ Written(subsystems, collectors, ev, backends)
  BY WriteStamps
<1> HIDE DEF change
<1>3. Announced(change)
  BY <1>1, <1>2 DEF Announced, change
<1> QED
  BY <1>2, <1>3

\* Every change announces what it touched.
LEMMA ChangeAnnounced ==
    ASSUME TypeOK, Change
    PROVE  /\ version < MaxVersion
           /\ writtenAt' \in Stamps
           /\ events' \in Seq(Nat)
           /\ logs' \in Seq(Nat)
           /\ \E change : Announced(change)
           /\ UNCHANGED waiterVars
<1> USE NamesAssumption, LimitsAssumption
<1>1. /\ version \in Nat
      /\ version + 1 \in Nat
      /\ events \in Seq(Nat)
      /\ logs \in Seq(Nat)
      /\ <<>> \in Seq(Nat)
      /\ <<version + 1>> \in Seq(Nat)
      /\ AppendBounded(events, version + 1, EventLimit) \in Seq(Nat)
      /\ AppendBounded(logs, version + 1, LogLimit) \in Seq(Nat)
  BY AppendBoundedProperties DEF TypeOK
<1>2. version < MaxVersion /\ UNCHANGED waiterVars
  BY DEF Change
<1>3. CASE \E kept \in {<<>>, events} : ReplaceState(kept)
  BY <1>1, <1>2, <1>3, AnnouncedIntro DEF ReplaceState
<1>4. ASSUME NEW s \in Subsystems \ {"logs", "runtime"}, UpdateSubsystem(s)
      PROVE  /\ writtenAt' \in Stamps /\ events' \in Seq(Nat) /\ logs' \in Seq(Nat)
             /\ \E change : Announced(change)
  BY <1>1, <1>4, AnnouncedIntro DEF UpdateSubsystem
<1>5. ASSUME NEW c \in Collectors, NEW withValue \in BOOLEAN, UpdateCollection(c, withValue)
      PROVE  /\ writtenAt' \in Stamps /\ events' \in Seq(Nat) /\ logs' \in Seq(Nat)
             /\ \E change : Announced(change)
  <2> DEFINE published == IF withValue THEN {SubsystemOf[c]} ELSE {}
  <2>1. published \in SUBSET Subsystems
    OBVIOUS
  <2>2. /\ Write(published, {c}, FALSE, FALSE)
        /\ SignalChange(Summary(published, {c}, FALSE, FALSE))
        /\ logs' \in {<<version + 1>>, logs}
        /\ events' = events
    BY <1>5 DEF UpdateCollection
  <2> QED
    BY <1>1, <2>1, <2>2, AnnouncedIntro
<1>6. ASSUME NEW c \in Collectors, UpdateHealth(c)
      PROVE  /\ writtenAt' \in Stamps /\ events' \in Seq(Nat) /\ logs' \in Seq(Nat)
             /\ \E change : Announced(change)
  BY <1>1, <1>6, AnnouncedIntro DEF UpdateHealth
<1>7. CASE SetBackendStatus
  <2>1. {"runtime"} \in SUBSET Subsystems /\ {} \in SUBSET {"runtime"}
    OBVIOUS
  <2> QED
    BY <1>1, <1>2, <1>7, <2>1, AnnouncedIntro DEF SetBackendStatus
<1>8. CASE UpdateRuntimeContext
  BY <1>1, <1>2, <1>8, AnnouncedIntro DEF UpdateRuntimeContext
<1>9. CASE AppendEvent
  BY <1>1, <1>2, <1>9, AnnouncedIntro DEF AppendEvent
<1>10. CASE AppendLogEntry
  BY <1>1, <1>2, <1>10, AnnouncedIntro DEF AppendLogEntry
<1> QED
  BY <1>2, <1>3, <1>4, <1>5, <1>6, <1>7, <1>8, <1>9, <1>10 DEF Change

-----------------------------------------------------------------------------
(* The inductive invariant. *)

\* The invariant holds of an empty store.
LEMMA InitIInv == Init => IInv
<1> SUFFICES ASSUME Init PROVE IInv
  OBVIOUS
<1> USE NamesAssumption, LimitsAssumption DEF Init
<1>1. EmptyChange(0) \in StoreChange /\ EmptyChange(0).version = 0
  BY DEF EmptyChange, StoreChange
<1>2. TypeOK
  BY <1>1, EmptySeq DEF TypeOK, Stamps, NoEvent
<1>3. FiredBeforeCurrent /\ NoLostWakeup /\ CurrentNoticeCoversOneStep
  BY DEF FiredBeforeCurrent, NoLostWakeup, CurrentNoticeCoversOneStep
<1>4. NothingFromTheFuture
  BY <1>1 DEF NothingFromTheFuture
<1>5. SummaryCoversLastChange
  BY <1>1 DEF SummaryCoversLastChange
<1> QED
  BY <1>2, <1>3, <1>4, <1>5 DEF IInv

\* A writer's change, whichever operation makes it.
LEMMA ChangePreservesIInv ==
    ASSUME IInv, Change
    PROVE  IInv'
<1> USE LimitsAssumption
<1>1. /\ TypeOK
      /\ version \in Nat /\ changed \in Nat /\ version < MaxVersion
      /\ writtenAt' \in Stamps /\ events' \in Seq(Nat) /\ logs' \in Seq(Nat)
      /\ UNCHANGED waiterVars
  BY ChangeAnnounced DEF IInv, TypeOK
<1>2. PICK change : Announced(change)
  BY <1>1, ChangeAnnounced
<1>3. /\ version' = version + 1
      /\ lastChange' = change /\ change \in StoreChange /\ change.version = version + 1
      /\ changed' = changed + 1
      /\ fired' = fired \cup {changed}
  BY <1>2 DEF Announced, SignalChange
<1>4. PICK subsystems \in SUBSET change.subsystems, collectors \in SUBSET change.collectors,
           ev \in BOOLEAN, backends \in BOOLEAN :
              /\ ev => change.events
              /\ backends => change.backends
              /\ Written(subsystems, collectors, ev, backends)
  BY <1>2 DEF Announced
<1>5. TypeOK'
  BY <1>1, <1>3 DEF TypeOK, waiterVars
<1>6. FiredBeforeCurrent'
  BY <1>1, <1>3 DEF IInv, FiredBeforeCurrent, TypeOK
<1>7. NothingFromTheFuture'
  <2>1. /\ \A s \in Subsystems : writtenAt'.subsystems[s] <= version + 1
        /\ \A c \in Collectors : writtenAt'.collectors[c] <= version + 1
        /\ writtenAt'.events <= version + 1
        /\ writtenAt'.backends <= version + 1
    <3>1. /\ \A s \in Subsystems : writtenAt.subsystems[s] \in Nat /\ writtenAt.subsystems[s] <= version
          /\ \A c \in Collectors : writtenAt.collectors[c] \in Nat /\ writtenAt.collectors[c] <= version
          /\ writtenAt.events \in Nat /\ writtenAt.events <= version
          /\ writtenAt.backends \in Nat /\ writtenAt.backends <= version
      BY <1>1 DEF IInv, NothingFromTheFuture, TypeOK, Stamps
    <3>2. version \in Nat /\ Written(subsystems, collectors, ev, backends)
      BY <1>1, <1>4
    <3>3. \A s \in Subsystems : writtenAt'.subsystems[s] <= version + 1
      BY <3>1, <3>2 DEF Written
    <3>4. \A c \in Collectors : writtenAt'.collectors[c] <= version + 1
      BY <3>1, <3>2 DEF Written
    <3>5. writtenAt'.events <= version + 1
      BY <3>1, <3>2 DEF Written
    <3>6. writtenAt'.backends <= version + 1
      BY <3>1, <3>2 DEF Written
    <3> QED
      BY <3>3, <3>4, <3>5, <3>6
  <2>2. \A w \in Waiters : since'[w] <= version + 1 /\ notice'[w].version <= version + 1
    BY <1>1 DEF IInv, NothingFromTheFuture, TypeOK, StoreChange, waiterVars
  <2> QED
    BY <1>3, <2>1, <2>2 DEF NothingFromTheFuture
<1>8. NoLostWakeup'
  <2> SUFFICES ASSUME NEW w \in Waiters, pc[w] = "blocked"
               PROVE  waiter[w] \in fired' /\ version' > since[w]
    BY <1>1 DEF NoLostWakeup, waiterVars
  <2>1. waiter[w] \in fired \/ waiter[w] = changed
    BY DEF IInv, NoLostWakeup
  <2>2. since[w] \in Nat /\ since[w] <= version
    BY DEF IInv, NothingFromTheFuture, TypeOK
  <2> QED
    BY <1>1, <1>3, <2>1, <2>2
<1>9. SummaryCoversLastChange'
  <2>1. /\ \A s \in Subsystems : writtenAt'.subsystems[s] > version => s \in change.subsystems
        /\ \A c \in Collectors : writtenAt'.collectors[c] > version => c \in change.collectors
        /\ writtenAt'.events > version => change.events
        /\ writtenAt'.backends > version => change.backends
    BY <1>1, <1>4 DEF IInv, NothingFromTheFuture, Written, TypeOK, Stamps
  <2>2. version' - 1 = version
    BY <1>1, <1>3
  <2> QED
    BY <1>3, <2>1, <2>2 DEF SummaryCoversLastChange, Covers, WrittenSince
<1>10. CurrentNoticeCoversOneStep'
  <2> SUFFICES ASSUME NEW w \in Waiters, notice'[w].version = version'
               PROVE  FALSE
    BY DEF CurrentNoticeCoversOneStep
  <2>1. notice[w].version <= version
    BY DEF IInv, NothingFromTheFuture
  <2> QED
    BY <1>1, <1>3, <2>1 DEF waiterVars
<1> QED
  BY <1>5, <1>6, <1>7, <1>8, <1>9, <1>10 DEF IInv

\* An answer given now, to a task that named a version, meets what is asked of notices.
LEMMA AnswerProperties ==
    ASSUME IInv, NEW w \in Waiters
    PROVE  /\ Answer(w) \in StoreChange
           /\ Answer(w).version = version
           /\ \A v \in Nat : version = v + 1 => Covers(Answer(w), v)
           /\ EmptyChange(version) \in StoreChange
           /\ EmptyChange(version).version = version
           /\ \A change \in StoreChange, v \in Nat : version <= v => Covers(change, v)
<1>1. version \in Nat /\ lastChange \in StoreChange /\ writtenAt \in Stamps
  BY DEF IInv, TypeOK
<1>2. /\ WholeState(version) \in StoreChange
      /\ WholeState(version).version = version
      /\ \A v \in Nat : Covers(WholeState(version), v)
  BY <1>1 DEF WholeState, StoreChange, Covers, WrittenSince
<1>3. /\ lastChange.version = version
      /\ \A v \in Nat : version = v + 1 => Covers(lastChange, v)
  <2> SUFFICES ASSUME NEW v \in Nat, version = v + 1 PROVE Covers(lastChange, v)
    BY DEF IInv, SummaryCoversLastChange
  <2>1. version > 0 /\ version - 1 = v
    BY <1>1
  <2> QED
    BY <2>1 DEF IInv, SummaryCoversLastChange
<1>4. EmptyChange(version) \in StoreChange /\ EmptyChange(version).version = version
  BY <1>1 DEF EmptyChange, StoreChange
<1>5. ASSUME NEW change \in StoreChange, NEW v \in Nat, version <= v
      PROVE  Covers(change, v)
  <2>1. /\ \A s \in Subsystems : writtenAt.subsystems[s] \in Nat /\ writtenAt.subsystems[s] <= version
        /\ \A c \in Collectors : writtenAt.collectors[c] \in Nat /\ writtenAt.collectors[c] <= version
        /\ writtenAt.events \in Nat /\ writtenAt.events <= version
        /\ writtenAt.backends \in Nat /\ writtenAt.backends <= version
    BY <1>1 DEF IInv, NothingFromTheFuture, Stamps
  <2>2. /\ {s \in Subsystems : writtenAt.subsystems[s] > v} = {}
        /\ {c \in Collectors : writtenAt.collectors[c] > v} = {}
        /\ ~(writtenAt.events > v)
        /\ ~(writtenAt.backends > v)
    BY <1>1, <1>5, <2>1
  <2> QED
    BY <2>2 DEF Covers, WrittenSince
<1> QED
  BY <1>1, <1>2, <1>3, <1>4, <1>5 DEF Answer

\* A waiter's look at the version.
LEMMA CheckVersionPreservesIInv ==
    ASSUME IInv, NEW w \in Waiters, NEW v \in Nat, v <= version, CheckVersion(w, v)
    PROVE  IInv'
<1>1. /\ TypeOK
      /\ version \in Nat /\ changed \in Nat
      /\ UNCHANGED storeVars
      /\ since' = [since EXCEPT ![w] = v]
  BY DEF IInv, TypeOK, CheckVersion
<1>2. CASE /\ version > v
           /\ pc' = [pc EXCEPT ![w] = "answered"]
           /\ notice' = [notice EXCEPT ![w] = Answer(w)]
           /\ waiter' = [waiter EXCEPT ![w] = NoEvent]
  <2>1. TypeOK'
    BY <1>1, <1>2, AnswerProperties DEF TypeOK, storeVars, NoEvent
  <2>2. NothingFromTheFuture'
    BY <1>1, <1>2, AnswerProperties DEF IInv, NothingFromTheFuture, TypeOK, storeVars
  <2>3. NoLostWakeup'
    BY <1>1, <1>2 DEF IInv, NoLostWakeup, TypeOK, storeVars
  <2>4. CurrentNoticeCoversOneStep'
    <3> SUFFICES ASSUME NEW u \in Waiters, pc'[u] = "answered", notice'[u].version = version,
                        version <= since'[u] + 1
                 PROVE  Covers(notice'[u], since'[u])
      BY <1>1 DEF CurrentNoticeCoversOneStep, Covers, WrittenSince, storeVars
    <3>1. CASE u = w
      <4>1. notice'[u] = Answer(w) /\ since'[u] = v /\ version = v + 1
        BY <1>1, <1>2, <3>1 DEF TypeOK
      <4> QED
        BY <4>1, AnswerProperties
    <3>2. CASE u # w
      BY <1>1, <1>2, <3>2 DEF IInv, CurrentNoticeCoversOneStep, TypeOK
    <3> QED
      BY <3>1, <3>2
  <2> QED
    BY <1>1, <2>1, <2>2, <2>3, <2>4
    DEF IInv, FiredBeforeCurrent, SummaryCoversLastChange, Covers, WrittenSince, storeVars
<1>3. CASE /\ version <= v
           /\ pc' = [pc EXCEPT ![w] = "blocked"]
           /\ waiter' = [waiter EXCEPT ![w] = changed]
           /\ notice' = [notice EXCEPT ![w] = EmptyChange(0)]
  <2>1. EmptyChange(0) \in StoreChange /\ EmptyChange(0).version = 0
    BY DEF EmptyChange, StoreChange
  <2>2. TypeOK'
    BY <1>1, <1>3, <2>1 DEF TypeOK, storeVars
  <2>3. NothingFromTheFuture'
    BY <1>1, <1>3, <2>1 DEF IInv, NothingFromTheFuture, TypeOK, storeVars
  <2>4. NoLostWakeup'
    BY <1>1, <1>3 DEF IInv, NoLostWakeup, FiredBeforeCurrent, TypeOK, storeVars
  <2>5. CurrentNoticeCoversOneStep'
    BY <1>1, <1>3
    DEF IInv, CurrentNoticeCoversOneStep, Covers, WrittenSince, TypeOK, storeVars
  <2> QED
    BY <1>1, <2>2, <2>3, <2>4, <2>5
    DEF IInv, FiredBeforeCurrent, SummaryCoversLastChange, Covers, WrittenSince, storeVars
<1> QED
  BY <1>2, <1>3 DEF CheckVersion

\* A waiter's timeout.
LEMMA TimeoutPreservesIInv ==
    ASSUME IInv, NEW w \in Waiters, Timeout(w)
    PROVE  IInv'
<1> DEFINE answer == IF w \in StateWaiters \/ version > since[w] THEN Answer(w)
                     ELSE EmptyChange(version)
<1>1. /\ TypeOK
      /\ version \in Nat /\ since[w] \in Nat
      /\ UNCHANGED <<storeVars, since>>
      /\ pc' = [pc EXCEPT ![w] = "answered"]
      /\ notice' = [notice EXCEPT ![w] = answer]
      /\ waiter' = [waiter EXCEPT ![w] = NoEvent]
  BY DEF IInv, TypeOK, Timeout
<1>2. /\ answer \in StoreChange
      /\ answer.version = version
      /\ version <= since[w] + 1 => Covers(answer, since[w])
  BY <1>1, AnswerProperties
<1> HIDE DEF answer
<1>3. TypeOK'
  BY <1>1, <1>2 DEF TypeOK, storeVars, NoEvent
<1>4. NothingFromTheFuture'
  BY <1>1, <1>2 DEF IInv, NothingFromTheFuture, TypeOK, storeVars
<1>5. NoLostWakeup'
  BY <1>1 DEF IInv, NoLostWakeup, TypeOK, storeVars
<1>6. CurrentNoticeCoversOneStep'
  <2> SUFFICES ASSUME NEW u \in Waiters, pc'[u] = "answered", notice'[u].version = version,
                      version <= since[u] + 1
               PROVE  Covers(notice'[u], since[u])
    BY <1>1 DEF CurrentNoticeCoversOneStep, Covers, WrittenSince, storeVars
  <2>1. CASE u = w
    BY <1>1, <1>2, <2>1 DEF TypeOK
  <2>2. CASE u # w
    BY <1>1, <2>2 DEF IInv, CurrentNoticeCoversOneStep, TypeOK
  <2> QED
    BY <2>1, <2>2
<1> QED
  BY <1>1, <1>3, <1>4, <1>5, <1>6
  DEF IInv, FiredBeforeCurrent, SummaryCoversLastChange, Covers, WrittenSince, storeVars

\* A waiter is cancelled.
LEMMA CancelPreservesIInv ==
    ASSUME IInv, NEW w \in Waiters, Cancel(w)
    PROVE  IInv'
<1>1. /\ TypeOK
      /\ UNCHANGED <<storeVars, notice>>
      /\ pc' = [pc EXCEPT ![w] = "idle"]
      /\ since' = [since EXCEPT ![w] = 0]
      /\ waiter' = [waiter EXCEPT ![w] = NoEvent]
  BY DEF IInv, TypeOK, Cancel
<1>2. TypeOK'
  BY <1>1 DEF TypeOK, storeVars, NoEvent
<1>3. NothingFromTheFuture' /\ NoLostWakeup'
  BY <1>1 DEF IInv, NothingFromTheFuture, NoLostWakeup, TypeOK, storeVars
<1>4. CurrentNoticeCoversOneStep'
  BY <1>1 DEF IInv, CurrentNoticeCoversOneStep, Covers, WrittenSince, TypeOK, storeVars
<1> QED
  BY <1>1, <1>2, <1>3, <1>4
  DEF IInv, FiredBeforeCurrent, SummaryCoversLastChange, Covers, WrittenSince, storeVars

\* Every step keeps the invariant: one case per action.
LEMMA NextPreservesIInv == IInv /\ [Next]_vars => IInv'
<1> SUFFICES ASSUME IInv, [Next]_vars PROVE IInv'
  OBVIOUS
<1>1. CASE Change
  BY <1>1, ChangePreservesIInv
<1>2. ASSUME NEW w \in Waiters, NEW v \in 0 .. MaxVersion, WaitForChange(w, v)
      PROVE  IInv'
  BY <1>2, CheckVersionPreservesIInv DEF WaitForChange, IInv, TypeOK
<1>3. ASSUME NEW w \in Waiters, Wake(w)
      PROVE  IInv'
  BY <1>3, CheckVersionPreservesIInv DEF Wake, IInv, TypeOK, NothingFromTheFuture
<1>4. ASSUME NEW w \in Waiters, Timeout(w)
      PROVE  IInv'
  BY <1>4, TimeoutPreservesIInv
<1>5. ASSUME NEW w \in Waiters, Cancel(w)
      PROVE  IInv'
  BY <1>5, CancelPreservesIInv
<1>6. CASE UNCHANGED vars
  BY <1>6 DEF IInv, TypeOK, FiredBeforeCurrent, NothingFromTheFuture, NoLostWakeup,
     SummaryCoversLastChange, CurrentNoticeCoversOneStep, Covers, WrittenSince,
     vars, storeVars, waiterVars
<1> QED
  BY <1>1, <1>2, <1>3, <1>4, <1>5, <1>6 DEF Next

\* IInv holds in every reachable state; the safety properties follow.
THEOREM Invariance == Spec => []IInv
<1>1. Init => IInv
  BY InitIInv
<1>2. IInv /\ [Next]_vars => IInv'
  BY NextPreservesIInv
<1> QED
  BY <1>1, <1>2, PTL DEF Spec

\* Type correctness of the store and of the waiting tasks.
THEOREM TypeCorrect == Spec => []TypeOK
<1>1. IInv => TypeOK
  BY DEF IInv
<1> QED
  BY <1>1, Invariance, PTL

\* No task ever sleeps through a change: _signal_change_locked and the two waiting
\* loops never let a task block on an event that no later change will set.
THEOREM WakeupsAreNotLost == Spec => []NoLostWakeup
<1>1. IInv => NoLostWakeup
  BY DEF IInv
<1> QED
  BY <1>1, Invariance, PTL

\* Each operation's summary names every piece of the state it writes.
THEOREM SummariesAreComplete == Spec => []SummaryCoversLastChange
<1>1. IInv => SummaryCoversLastChange
  BY DEF IInv
<1> QED
  BY <1>1, Invariance, PTL

\* A current notice that skips no version is complete.
THEOREM OneStepNoticesAreComplete == Spec => []CurrentNoticeCoversOneStep
<1>1. IInv => CurrentNoticeCoversOneStep
  BY DEF IInv
<1> QED
  BY <1>1, Invariance, PTL

-----------------------------------------------------------------------------
(* The order within the bounded lists. *)

\* A new item keeps a list in order, and within the versions.
LEMMA AppendKeepsOrder ==
    ASSUME TypeOK, NEW items \in Seq(Nat), NEW limit \in Int,
           StrictlyIncreasing(items), ItemsArePast(items)
    PROVE  LET result == AppendBounded(items, version + 1, limit)
           IN  /\ StrictlyIncreasing(result)
               /\ \A i \in 1 .. Len(result) : result[i] <= version + 1
               /\ limit <= 0 => result = <<>>
               /\ limit > 0 => result # <<>> /\ Len(result) <= limit
                               /\ result[Len(result)] = version + 1
<1> DEFINE result == AppendBounded(items, version + 1, limit)
           shift == Len(items) + 1 - Len(result)
<1>1. version \in Nat /\ Len(items) \in Nat /\ \A i \in 1 .. Len(items) : items[i] \in Nat
  BY LimitsAssumption DEF TypeOK
<1>2. CASE limit <= 0
  <2>1. result = <<>>
    BY <1>2 DEF AppendBounded
  <2> QED
    BY <1>2, <2>1 DEF StrictlyIncreasing
<1>3. CASE limit > 0
  <2>1. /\ Len(result) \in 1 .. limit /\ Len(result) <= Len(items) + 1
        /\ result[Len(result)] = version + 1
        /\ \A i \in 1 .. Len(result) - 1 : result[i] = items[shift + i]
    BY <1>1, <1>3, AppendBoundedProperties
  <2> HIDE DEF result
  <2>2. \A i \in 1 .. Len(result) - 1 : shift + i \in 1 .. Len(items)
    BY <1>1, <2>1
  <2>3. \A i \in 1 .. Len(result) - 1 : result[i] \in Nat /\ result[i] <= version
    BY <1>1, <2>1, <2>2 DEF ItemsArePast
  <2>4. \A i \in 1 .. Len(result) : result[i] <= version + 1
    BY <1>1, <2>1, <2>3
  <2>5. StrictlyIncreasing(result)
    <3> SUFFICES ASSUME NEW i \in 1 .. Len(result), NEW j \in 1 .. Len(result), i < j
                 PROVE  result[i] < result[j]
      BY DEF StrictlyIncreasing
    <3>1. i \in 1 .. Len(result) - 1
      BY <2>1
    <3>2. CASE j = Len(result)
      BY <1>1, <2>1, <2>3, <3>1, <3>2
    <3>3. CASE j # Len(result)
      <4>1. j \in 1 .. Len(result) - 1 /\ shift + i < shift + j
        BY <1>1, <2>1, <3>3
      <4> QED
        BY <2>1, <2>2, <3>1, <4>1 DEF StrictlyIncreasing
    <3> QED
      BY <3>2, <3>3
  <2>6. result # <<>> /\ Len(result) <= limit
    BY <2>1
  <2> QED
    BY <1>3, <2>1, <2>4, <2>5, <2>6 DEF result
<1> QED
  BY <1>2, <1>3

\* What an operation may make of the events, and of the log.
EventsKept(change) ==
    /\ events' \in {<<>>, events}
    /\ change.events => change.subsystems # {}
EventsNew ==
    /\ events' # <<>> /\ events'[Len(events')] = version + 1 /\ Len(events') <= EventLimit
    /\ StrictlyIncreasing(events') /\ \A i \in 1 .. Len(events') : events'[i] <= version + 1
LogKept ==
    /\ logs' \in {<<>>, logs}
    /\ logs' # <<>> => writtenAt'.subsystems["logs"] = writtenAt.subsystems["logs"]
LogNew ==
    /\ logs' # <<>> => logs'[Len(logs')] = version + 1 /\ writtenAt'.subsystems["logs"] = version + 1
    /\ LogLimit > 0 => Len(logs') <= LogLimit
    /\ StrictlyIncreasing(logs') /\ \A i \in 1 .. Len(logs') : logs'[i] <= version + 1

\* Whatever it makes of them, the lists keep their newest items.
LEMMA ListsKept ==
    ASSUME TypeOK, ListsInv, NEW change, lastChange' = change, version' = version + 1,
           EventsKept(change) \/ EventsNew, LogKept \/ LogNew
    PROVE  ListsInv'
<1>1. version \in Nat /\ events \in Seq(Nat) /\ logs \in Seq(Nat) /\ EventLimit \in Nat
  BY LimitsAssumption DEF TypeOK
<1>2. Len(<<>>) = 0 /\ StrictlyIncreasing(<<>>) /\ \A i \in 1 .. Len(<<>>) : FALSE
  BY DEF StrictlyIncreasing
<1>3. /\ Len(events') <= EventLimit /\ StrictlyIncreasing(events') /\ ItemsArePast(events)'
      /\ change.events /\ change.subsystems = {}
            => events' # <<>> /\ events'[Len(events')] = version + 1
  <2>1. CASE EventsKept(change)
    BY <1>1, <1>2, <2>1 DEF EventsKept, ListsInv, RetainsNewest, ItemsArePast
  <2>2. CASE EventsNew
    BY <2>2 DEF EventsNew, ItemsArePast
  <2> QED
    BY <2>1, <2>2
<1>4. /\ LogLimit > 0 => Len(logs') <= LogLimit
      /\ StrictlyIncreasing(logs') /\ ItemsArePast(logs)'
      /\ logs' # <<>> => logs'[Len(logs')] = writtenAt'.subsystems["logs"]
  <2>1. CASE LogKept
    BY <1>1, <1>2, <2>1, LimitsAssumption DEF LogKept, ListsInv, RetainsNewest, ItemsArePast
  <2>2. CASE LogNew
    BY <2>2 DEF LogNew, ItemsArePast
  <2> QED
    BY <2>1, <2>2
<1> QED
  BY <1>3, <1>4 DEF ListsInv, RetainsNewest

\* Every operation makes one of these of each list.
LEMMA ChangeKeepsLists ==
    ASSUME TypeOK, ListsInv, Change
    PROVE  ListsInv'
<1> USE NamesAssumption, LimitsAssumption
<1> DEFINE Kept == EventsKept(lastChange') \/ EventsNew
<1>1. version \in Nat /\ events \in Seq(Nat) /\ logs \in Seq(Nat)
  BY DEF TypeOK
<1>2. ASSUME NEW subsystems, NEW collectors, NEW ev \in BOOLEAN, NEW backends \in BOOLEAN,
             Write(subsystems, collectors, ev, backends)
      PROVE  writtenAt'.subsystems["logs"] =
                 IF "logs" \in subsystems THEN version + 1 ELSE writtenAt.subsystems["logs"]
  BY <1>2, WriteStamps DEF Written
<1>3. CASE \E kept \in {<<>>, events} : ReplaceState(kept)
  <2>1. Kept /\ LogKept /\ version' = version + 1
    BY <1>3 DEF ReplaceState, EventsKept, LogKept, SignalChange, Summary
  <2> QED
    BY <2>1, ListsKept
<1>4. ASSUME NEW s \in Subsystems \ {"logs", "runtime"}, UpdateSubsystem(s) PROVE ListsInv'
  <2>1. Kept /\ version' = version + 1
    BY <1>4 DEF UpdateSubsystem, EventsKept, SignalChange, Summary
  <2>2. LogKept
    BY <1>4 DEF UpdateSubsystem, LogKept, Write
  <2> QED
    BY <2>1, <2>2, ListsKept
<1>5. ASSUME NEW c \in Collectors, NEW withValue \in BOOLEAN, UpdateCollection(c, withValue)
      PROVE  ListsInv'
  <2> DEFINE published == IF withValue THEN {SubsystemOf[c]} ELSE {}
  <2>1. /\ Write(published, {c}, FALSE, FALSE)
        /\ logs' = IF "logs" \in published THEN <<version + 1>> ELSE logs
        /\ events' = events
        /\ SignalChange(Summary(published, {c}, FALSE, FALSE))
    BY <1>5 DEF UpdateCollection
  <2> HIDE DEF published
  <2>2. Kept /\ version' = version + 1
    BY <2>1 DEF EventsKept, SignalChange, Summary
  <2>3. CASE "logs" \in published
    <3>1. logs' = <<version + 1>> /\ writtenAt'.subsystems["logs"] = version + 1
      BY <1>2, <2>1, <2>3
    <3>2. LogNew
      BY <1>1, <3>1 DEF LogNew, StrictlyIncreasing
    <3> QED
      BY <2>2, <3>2, ListsKept
  <2>4. CASE "logs" \notin published
    <3>1. LogKept
      BY <1>2, <2>1, <2>4 DEF LogKept
    <3> QED
      BY <2>2, <3>1, ListsKept
  <2> QED
    BY <2>3, <2>4
<1>6. ASSUME NEW c \in Collectors, UpdateHealth(c) PROVE ListsInv'
  <2>1. Kept /\ version' = version + 1
    BY <1>6 DEF UpdateHealth, EventsKept, SignalChange, Summary
  <2>2. LogKept
    BY <1>6 DEF UpdateHealth, LogKept, Write
  <2> QED
    BY <2>1, <2>2, ListsKept
<1>7. CASE SetBackendStatus
  <2>1. Kept /\ version' = version + 1
    BY <1>7 DEF SetBackendStatus, EventsKept, SignalChange, Summary
  <2>2. LogKept
    BY <1>7 DEF SetBackendStatus, LogKept, Write
  <2> QED
    BY <2>1, <2>2, ListsKept
<1>8. CASE UpdateRuntimeContext
  <2>1. Kept /\ version' = version + 1
    BY <1>8 DEF UpdateRuntimeContext, EventsKept, SignalChange, Summary
  <2>2. LogKept
    BY <1>8 DEF UpdateRuntimeContext, LogKept, Write
  <2> QED
    BY <2>1, <2>2, ListsKept
<1>9. CASE AppendEvent
  <2>1. EventsNew
    BY <1>1, <1>9, AppendKeepsOrder DEF AppendEvent, EventsNew, ListsInv, RetainsNewest
  <2>2. LogKept
    BY <1>9 DEF AppendEvent, LogKept, Write
  <2>3. version' = version + 1
    BY <1>9 DEF AppendEvent, SignalChange
  <2> QED
    BY <2>1, <2>2, <2>3, ListsKept
<1>10. CASE AppendLogEntry
  <2>1. Kept /\ version' = version + 1 /\ writtenAt'.subsystems["logs"] = version + 1
    BY <1>2, <1>10 DEF AppendLogEntry, EventsKept, SignalChange, Summary
  <2>2. LogNew
    <3> DEFINE result == AppendBounded(logs, version + 1, LogLimit)
    <3>1. /\ StrictlyIncreasing(result) /\ \A i \in 1 .. Len(result) : result[i] <= version + 1
          /\ LogLimit <= 0 => result = <<>>
          /\ LogLimit > 0 => Len(result) <= LogLimit /\ result[Len(result)] = version + 1
      BY <1>1, AppendKeepsOrder DEF ListsInv, RetainsNewest
    <3>2. logs' = result
      BY <1>10 DEF AppendLogEntry
    <3> HIDE DEF result
    <3> QED
      BY <2>1, <3>1, <3>2 DEF LogNew
  <2> QED
    BY <2>1, <2>2, ListsKept
<1> QED
  BY <1>3, <1>4, <1>5, <1>6, <1>7, <1>8, <1>9, <1>10 DEF Change

\* The bounded lists never lose their newest items or their order (RetainsNewest), for any
\* limits: append_event's is positive, append_log_entry's any number.
THEOREM NewestAreRetained == Spec => []RetainsNewest
<1>1. Init => ListsInv
  BY LimitsAssumption
     DEF Init, ListsInv, RetainsNewest, ItemsArePast, StrictlyIncreasing, EmptyChange
<1>2. IInv /\ ListsInv /\ [Next]_vars => ListsInv'
  <2> SUFFICES ASSUME IInv, ListsInv, [Next]_vars PROVE ListsInv'
    OBVIOUS
  <2>1. CASE Change
    BY <2>1, ChangeKeepsLists DEF IInv
  <2>2. CASE UNCHANGED storeVars
    BY <2>2 DEF storeVars, ListsInv, RetainsNewest, ItemsArePast
  <2>3. Change \/ UNCHANGED storeVars
    BY DEF Next, WaitForChange, Wake, CheckVersion, Timeout, Cancel, vars
  <2> QED
    BY <2>1, <2>2, <2>3
<1>3. ListsInv => RetainsNewest
  BY DEF ListsInv
<1> QED
  BY <1>1, <1>2, <1>3, Invariance, PTL DEF Spec

-----------------------------------------------------------------------------
(* The store implements the abstract promise (its safety part: that a waiting *)
(* task is eventually told is liveness, which TLC checks).                    *)

\* A waiter's look is an asking, an answer or nothing to the promise.
LEMMA CheckVersionKeepsPromise ==
    ASSUME IInv, NEW w \in Waiters, NEW v \in 0 .. version, CheckVersion(w, v),
           pc[w] = "blocked" => v = since[w] /\ waiter[w] \in fired
    PROVE  [Promise!Next]_Promise!vars
<1> USE DEF requestState, toldVersion
<1>1. /\ TypeOK
      /\ version \in Nat
      /\ version' = version
      /\ since' = [since EXCEPT ![w] = v]
  BY DEF IInv, TypeOK, CheckVersion, storeVars
<1>2. CASE /\ version > v
           /\ pc' = [pc EXCEPT ![w] = "answered"]
           /\ notice' = [notice EXCEPT ![w] = Answer(w)]
  <2>1. /\ requestState' = [requestState EXCEPT ![w] = "told"]
        /\ toldVersion' = [toldVersion EXCEPT ![w] = version]
    BY <1>1, <1>2, AnswerProperties DEF TypeOK
  <2>2. CASE pc[w] = "blocked"
    <3>1. requestState[w] = "waiting" /\ since[w] = v /\ since' = since
      BY <1>1, <2>2 DEF TypeOK
    <3>2. Promise!Tell(w)
      BY <1>1, <1>2, <2>1, <3>1 DEF Promise!Tell
    <3> QED
      BY <3>2 DEF Promise!Next
  <2>3. CASE pc[w] # "blocked"
    <3>1. requestState[w] # "waiting"
      BY <1>1, <2>3 DEF TypeOK
    <3>2. Promise!Ask(w, v)
      BY <1>1, <1>2, <2>1, <3>1 DEF Promise!Ask
    <3> QED
      BY <3>2 DEF Promise!Next
  <2> QED
    BY <2>2, <2>3
<1>3. CASE /\ version <= v
           /\ pc' = [pc EXCEPT ![w] = "blocked"]
           /\ notice' = [notice EXCEPT ![w] = EmptyChange(0)]
  <2>1. /\ requestState' = [requestState EXCEPT ![w] = "waiting"]
        /\ toldVersion' = [toldVersion EXCEPT ![w] = 0]
    BY <1>1, <1>3 DEF TypeOK, EmptyChange
  <2>2. CASE pc[w] = "blocked"
    BY <1>1, <1>3, <2>2 DEF IInv, NoLostWakeup, TypeOK
  <2>3. CASE pc[w] # "blocked"
    <3>1. requestState[w] # "waiting"
      BY <1>1, <2>3 DEF TypeOK
    <3>2. Promise!Ask(w, v)
      BY <1>1, <1>3, <2>1, <3>1 DEF Promise!Ask
    <3> QED
      BY <3>2 DEF Promise!Next
  <2> QED
    BY <2>2, <2>3
<1> QED
  BY <1>2, <1>3 DEF CheckVersion

\* Every step of the store is one of the promise, or nothing to it.
LEMMA StepKeepsPromise == IInv /\ [Next]_vars => [Promise!Next]_Promise!vars
<1> SUFFICES ASSUME IInv, [Next]_vars PROVE [Promise!Next]_Promise!vars
  OBVIOUS
<1>1. TypeOK /\ version \in 0 .. MaxVersion
  BY DEF IInv, TypeOK
<1>2. CASE Change
  <2>1. version' = version + 1 /\ UNCHANGED <<pc, since, notice>>
    BY <1>1, <1>2, ChangeAnnounced DEF Announced, SignalChange, waiterVars
  <2>2. Promise!Publish
    BY <2>1 DEF Promise!Publish, requestState, toldVersion
  <2> QED
    BY <2>2 DEF Promise!Next
<1>3. ASSUME NEW w \in Waiters, NEW v \in 0 .. MaxVersion, WaitForChange(w, v)
      PROVE  [Promise!Next]_Promise!vars
  BY <1>1, <1>3, CheckVersionKeepsPromise DEF WaitForChange
<1>4. ASSUME NEW w \in Waiters, Wake(w)
      PROVE  [Promise!Next]_Promise!vars
  BY <1>1, <1>4, CheckVersionKeepsPromise DEF Wake, IInv, TypeOK, NothingFromTheFuture
<1>5. ASSUME NEW w \in Waiters, Timeout(w)
      PROVE  [Promise!Next]_Promise!vars
  <2>1. /\ pc[w] = "blocked"
        /\ pc' = [pc EXCEPT ![w] = "answered"]
        /\ version' = version /\ since' = since
    BY <1>5 DEF Timeout, storeVars
  <2>2. /\ notice'[w].version = version
        /\ \A u \in Waiters \ {w} : notice'[u] = notice[u]
    BY <1>1, <1>5, AnswerProperties DEF Timeout, TypeOK
  <2>3. /\ requestState[w] = "waiting"
        /\ requestState' = [requestState EXCEPT ![w] = "told"]
        /\ toldVersion' = [toldVersion EXCEPT ![w] = version]
    BY <1>1, <2>1, <2>2 DEF TypeOK, requestState, toldVersion
  <2>4. Promise!Tell(w) \/ Promise!ReportQuiet(w)
    BY <1>1, <2>1, <2>3 DEF Promise!Tell, Promise!ReportQuiet, TypeOK
  <2> QED
    BY <2>4 DEF Promise!Next
<1>6. ASSUME NEW w \in Waiters, Cancel(w)
      PROVE  [Promise!Next]_Promise!vars
  <2>1. /\ requestState[w] = "waiting"
        /\ requestState' = [requestState EXCEPT ![w] = "idle"]
        /\ since' = [since EXCEPT ![w] = 0]
        /\ UNCHANGED <<version, toldVersion>>
    BY <1>1, <1>6 DEF Cancel, TypeOK, requestState, toldVersion, storeVars
  <2>2. Promise!Withdraw(w)
    BY <2>1 DEF Promise!Withdraw
  <2> QED
    BY <2>2 DEF Promise!Next
<1>7. CASE UNCHANGED vars
  BY <1>7 DEF vars, storeVars, waiterVars, Promise!vars, requestState, toldVersion
<1> QED
  BY <1>2, <1>3, <1>4, <1>5, <1>6, <1>7 DEF Next

\* Every behaviour of the store and its waiting tasks is, with the events hidden, one the
\* abstract promise allows.
THEOREM ImplementsPromise == Spec => Promise!Init /\ [][Promise!Next]_Promise!vars
<1>1. Init => Promise!Init
  BY DEF Init, Promise!Init, requestState, toldVersion, EmptyChange
<1>2. IInv /\ [Next]_vars => [Promise!Next]_Promise!vars
  BY StepKeepsPromise
<1> QED
  BY <1>1, <1>2, Invariance, PTL DEF Spec
=============================================================================
