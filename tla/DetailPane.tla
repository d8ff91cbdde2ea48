----------------------------- MODULE DetailPane -----------------------------
(***************************************************************************)
(* The detail pane of the TUI: the stack of views of the selected section, *)
(* the interactive tables (ui/sections.py), the keys that change a view,   *)
(* and the two tasks that redraw the pane under _refresh_lock, the message *)
(* pump for the user and _observe_state for the store (app.py).  The       *)
(* session is unlocked and startup mode is over: PrivilegedSession and     *)
(* Navigation have those.                                                  *)
(*                                                                         *)
(* An entry of a table is a number: what it is sorted by when not by the   *)
(* section's first key.  A query is the set of the entries it matches.     *)
(* BuiltOnFirstRow, ConcernsByNotice and MayDeferAnything are faulty forms *)
(* of the definitions after them, which Next never uses.                   *)
(***************************************************************************)
EXTENDS SectionPolicies, Integers, SequencesExt

CONSTANTS
    Sections,       \* the sections the user moves between
    Entries,        \* the entries a table may hold, a set of numbers
    Queries,        \* the searches typed in, sets of entries
    KnownNoise,     \* the entries that match a pattern of known log noise
    LogWindow,      \* rows of the log table (200 in the code)
    ShowNoise,      \* ~suppress_known_log_noise_by_default
    Collections,    \* bound: the lists of entries collectors report
    MaxVersion,     \* bound: changes of the store
    MaxKeys         \* bound: keys pressed

ASSUME PaneAssumption ==
    /\ Sections # {} /\ Sections \subseteq AllSections
    /\ Entries \subseteq Nat /\ Queries \subseteq SUBSET Entries /\ KnownNoise \subseteq Entries
    /\ LogWindow \in Nat \ {0} /\ ShowNoise \in BOOLEAN
    /\ Collections \subseteq Seq(Entries) /\ MaxVersion \in Nat /\ MaxKeys \in Nat

\* The fields drawn that no payload holds and that are left out here: backend_status, written
\* only while the store is primed (bootstrap.py:174-187), and timestamp, the time of the last
\* write, in the headers of Overview and Events.
Unsigned == {"backend_status", "timestamp"}
DrawnFields(s) == RenderedFields(s) \ Unsigned

\* Every other field drawn is one whose change is relevant: sections.py and layout.py agree.
ASSUME DrawnIsRelevant ==
    \A s \in AllSections : section_payload_data(s) \cup DrawnFields(s) \subseteq RelevantSubsystems(s)

\* What is drawn is what the signature is of, except in four sections: Hardware shows power and
\* storage as they were when the hardware changed last, and three show fields of Unsigned as
\* they were when the pane was last drawn.
ASSUME SignedIsDrawn ==
    {s \in AllSections : ~(RenderedFields(s) \subseteq section_payload_data(s))}
        = {"Hardware", "Overview", "Events", "Runtime Backends"}

Fields == UNION {RelevantSubsystems(s) : s \in Sections}
Tables == UNION {RelevantSubsystems(s) : s \in Sections \cap INTERACTIVE_SECTIONS}
\* Keys of rows: an entry and how often it came before.  The row with the message of an empty
\* table is that of an entry 0, and NoKey is the key of no row.
RowKeys == Entries \X Nat
EmptyRow == <<0, 0>>
NoKey == <<>>

VARIABLES
    version,        \* of the store
    state,          \* field -> the version that wrote it last and the entries it holds
    lastChange,     \* the fields the last change names
    section,        \* selected_section
    stack,          \* _detail_stack: views, the last one is shown
    pane,           \* what #detail-content-host holds: its kind, signature and content
    row,            \* the row the cursor of the table is on
    queue,          \* RowHighlighted and RowSelected messages on their way to the app
    modal,          \* the search dialog is open
    at,             \* task -> where it is
    notice,         \* the change _observe_state refreshes for
    drawing,        \* what the task between unmount and mount is going to show
    observed,       \* _observed_version
    pending,        \* _pending_background_refresh_sections
    passedOver,     \* history: the versions that no notice named
    keys            \* keys pressed so far

storeVars == <<version, state, lastChange>>
screenVars == <<pane, row, queue, drawing>>
boundVars == <<passedOver, keys>>
vars == <<version, state, lastChange, section, stack, pane, row, queue, modal, at, notice,
          drawing, observed, pending, passedOver, keys>>
-----------------------------------------------------------------------------
(* Views and tables (ui/sections.py). *)

SortSequence(s) ==
    CASE s = "Processes" -> <<"cpu", "memory", "pid", "name">>
      [] s = "Services" -> <<"state", "name", "enabled">>
      [] s = "Logs" -> <<"timestamp", "priority", "unit">>
      [] s \in {"Network", "Interfaces"} -> <<"state", "name", "rx", "tx">>
      [] s = "Packages" -> <<"update", "name", "version">>
      [] OTHER -> <<None>>

is_interactive_section(s) == s \in INTERACTIVE_SECTIONS

default_view_state(s) ==
    [section |-> s, mode |-> "list", target |-> NoKey, cursor |-> NoKey, query |-> Entries,
     sort |-> Head(SortSequence(s)), follow |-> s = "Logs", live |-> is_interactive_section(s),
     noise |-> s = "Logs" /\ ShowNoise]

cycle_sort(s, key) ==
    LET sequence == SortSequence(s)
        index == CHOOSE i \in DOMAIN sequence : sequence[i] = key
    IN  sequence[(index % Len(sequence)) + 1]

TableOf(s) == CHOOSE f \in RelevantSubsystems(s) : TRUE
Collected(view, st) == st[TableOf(view.section)].entries

\* The entries the filters of the section keep.
Filtered(view, entries) ==
    SelectSeq(entries, LAMBDA e :
        /\ e \in view.query
        /\ view.section = "Logs" => view.noise \/ e \notin KnownNoise)

\* Entries are collected in the order of the section's first key.
Sorted(view, entries) ==
    IF view.sort = Head(SortSequence(view.section)) THEN entries ELSE SortSeq(entries, <)

Shown(view, entries) ==
    LET rows == Sorted(view, Filtered(view, entries))
    IN  IF view.section = "Logs" /\ Len(rows) > LogWindow THEN SubSeq(rows, 1, LogWindow)
        ELSE rows

\* A row that repeats an entry counts those before it in its key.
UniqueKeys(rows) ==
    [i \in DOMAIN rows |-> <<rows[i], Cardinality({j \in 1 .. i - 1 : rows[j] = rows[i]})>>]

Rows(view, st) == UniqueKeys(Shown(view, Collected(view, st)))

\* Only a log row is opened by its own key; elsewhere repeated entries share a target.
TargetOf(view, key) == IF view.section = "Logs" THEN key ELSE <<key[1], 0>>

IsTable(view) == view.mode = "list" /\ is_interactive_section(view.section)

BuiltOnFirstRow(view, st) ==
    IF IsTable(view) /\ Rows(view, st) # <<>>
    THEN [view EXCEPT !.cursor = Head(Rows(view, st))]
    ELSE view

\* build_interactive_table_spec puts the view's cursor on a row that is there.
Built(view, st) ==
    LET rows == Rows(view, st)
    IN  IF ~IsTable(view) \/ view.cursor \in ToSet(rows) THEN view
        ELSE [view EXCEPT !.cursor = IF rows = <<>> THEN NoKey ELSE Head(rows)]

\* A detail shows its entry as long as the snapshot has it, a log entry as long as the list
\* it was opened from would show it.
Present(view, st) ==
    IF view.section = "Logs" THEN view.target \in ToSet(Rows(view, st))
    ELSE view.target[1] \in ToSet(Collected(view, st))

\* What of a view is to be seen.
Visible(view) ==
    IF is_interactive_section(view.section) THEN [view EXCEPT !.cursor = NoKey, !.live = FALSE]
    ELSE default_view_state(view.section)

\* What is drawn for a view: rows of the table, or the entry of the detail, and the fields
\* that are read for it.
Content(view, st) ==
    [view |-> Visible(view),
     rows |-> IF IsTable(view) THEN Rows(view, st)
              ELSE IF view.mode = "detail" /\ Present(view, st) THEN <<view.target>>
              ELSE <<>>,
     data |-> [f \in DrawnFields(view.section) |-> st[f]]]

\* _content_signature: of a table all that is drawn and the row selected, of any other
\* content the payload of the section.
Signature(view, st) ==
    IF IsTable(view)
    THEN [kind |-> "interactive", content |-> Content(view, st), selected |-> view.cursor]
    ELSE [kind |-> "static", section |-> view.section, mode |-> view.mode,
          target |-> view.target, payload |-> [f \in section_payload_data(view.section) |-> st[f]]]
-----------------------------------------------------------------------------
(* The state. *)

Tasks == {"pump", "observer"}
NoNotice == [version |-> -1, fields |-> {}]
Drawing(view, st) == [signature |-> Signature(view, st), content |-> Content(view, st)]
NoDrawing == <<>>
View == Last(stack)
Quiet == [t \in Tasks |-> "idle"]
LockFree == \A t \in Tasks : at[t] # "swap"

InitialState == [f \in Fields |-> [at |-> 0, entries |-> <<>>]]

Init ==
    /\ version = 0 /\ state = InitialState /\ lastChange = {}
    /\ section \in Sections
    /\ stack = <<default_view_state(section)>>
    /\ pane = [kind |-> "static", signature |-> NoDrawing,
               content |-> Content(default_view_state(section), InitialState)]
    /\ row = 1 /\ queue = <<>> /\ modal = FALSE
    /\ at = [t \in Tasks |-> IF t = "pump" THEN "refresh" ELSE "idle"]
    /\ notice = NoNotice /\ drawing = NoDrawing
    /\ observed = -1 /\ pending = {} /\ passedOver = {} /\ keys = 0
-----------------------------------------------------------------------------
(* The store: collectors write, each write names what it wrote (StateStore). *)

Values(f) == [at : {version + 1}, entries : IF f \in Tables THEN Collections ELSE {<<>>}]

\* A collector writes its field, with what was there or with something new.
WriteField(f) ==
    /\ version < MaxVersion
    /\ version' = version + 1
    /\ \E value \in Values(f) \cup {state[f]} : state' = [state EXCEPT ![f] = value]
    /\ lastChange' = {f}
    /\ UNCHANGED <<section, stack, screenVars, modal, at, notice, observed, pending, boundVars>>

\* A change of something the sections do not show, a health record say.
WriteOther ==
    /\ version < MaxVersion
    /\ version' = version + 1
    /\ lastChange' = {}
    /\ UNCHANGED <<state, section, stack, screenVars, modal, at, notice, observed, pending,
                   boundVars>>
-----------------------------------------------------------------------------
(* _refresh_from_store. *)

Affects(fields) ==
    RelevantSubsystems(section) = {} \/ RelevantSubsystems(section) \cap fields # {}

ConcernsByNotice(t) == t = "pump" \/ notice = NoNotice \/ Affects(notice.fields)

\* A notice that is no longer the store's last change is dropped, and all is relevant.
Concerns(t) == t = "pump" \/ notice.version # version \/ Affects(notice.fields)

MayDeferAnything(t) == IsTable(View) /\ ~View.live

\* _should_defer_detail_refresh: a paused list is not redrawn in the background, and a log
\* list that does not follow not too soon after it was last drawn.
MustDefer(t) == t = "observer" /\ IsTable(View) /\ ~View.live
MayDefer(t) ==
    /\ t = "observer" /\ IsTable(View)
    /\ ~View.live \/ (section = "Logs" /\ ~View.follow)

\* The cursor of a table drawn anew: on the row selected, or the first.  The DataTable posts
\* a message for its first row and another when the cursor moves from there.
CursorRow(rows, selected) ==
    IF selected \in ToSet(rows) THEN CHOOSE i \in DOMAIN rows : rows[i] = selected ELSE 1

Highlight(key) == [kind |-> "highlight", key |-> key]

Highlights(rows, selected) ==
    IF rows = <<>> THEN <<Highlight(EmptyRow)>>
    ELSE IF CursorRow(rows, selected) = 1 THEN <<Highlight(Head(rows))>>
    ELSE <<Highlight(Head(rows)), Highlight(selected)>>

\* Puts a drawing on the screen.
Mounts(d) ==
    /\ pane' = [kind |-> d.signature.kind, signature |-> d.signature, content |-> d.content]
    /\ IF d.signature.kind = "interactive"
       THEN /\ row' = CursorRow(d.content.rows, d.signature.selected)
            /\ queue' = queue \o Highlights(d.content.rows, d.signature.selected)
       ELSE UNCHANGED <<row, queue>>

Enters(t) == at[t] = "refresh" /\ LockFree /\ observed' = version
Leaves(t) ==
    /\ at' = [at EXCEPT ![t] = "idle"]
    /\ notice' = IF t = "observer" THEN NoNotice ELSE notice

RefreshIrrelevant(t) ==
    /\ Enters(t) /\ ~Concerns(t) /\ Leaves(t)
    /\ UNCHANGED <<storeVars, section, stack, screenVars, modal, pending, boundVars>>

RefreshDeferred(t) ==
    /\ Enters(t) /\ Concerns(t) /\ Leaves(t)
    /\ MayDefer(t)
    /\ pending' = pending \cup {section}
    /\ UNCHANGED <<storeVars, section, stack, screenVars, modal, boundVars>>

\* Draws, when the signature differs, into the widgets that are there or after replacing them.
RefreshDraws(t) ==
    /\ Enters(t) /\ Concerns(t) /\ ~MustDefer(t)
    /\ LET view == Built(View, state)
           d == Drawing(view, state)
       IN  /\ stack' = [stack EXCEPT ![Len(stack)] = view]
           /\ IF d.signature = pane.signature
              THEN Leaves(t) /\ UNCHANGED screenVars /\ pending' = pending \ {section}
              ELSE IF d.signature.kind = pane.kind
              THEN Leaves(t) /\ Mounts(d) /\ UNCHANGED drawing /\ pending' = pending \ {section}
              ELSE /\ at' = [at EXCEPT ![t] = "swap"]
                   /\ drawing' = d
                   /\ pane' = [pane EXCEPT !.kind = "none"]
                   /\ UNCHANGED <<row, queue, pending, notice>>
    /\ UNCHANGED <<storeVars, section, modal, boundVars>>

\* The new widgets are mounted; the section is the one selected by now.
SwapEnds(t) ==
    /\ at[t] = "swap"
    /\ Mounts(drawing)
    /\ drawing' = NoDrawing
    /\ pending' = pending \ {section}
    /\ Leaves(t)
    /\ UNCHANGED <<storeVars, section, stack, modal, observed, boundVars>>

\* _observe_state: a change, or a poll that found sudo's answer changed.
Notice ==
    /\ at["observer"] = "idle" /\ version # observed
    /\ at' = [at EXCEPT !["observer"] = "refresh"]
    /\ notice' = [version |-> version, fields |-> lastChange]
    /\ passedOver' = passedOver \cup (observed + 1 .. version - 1)
    /\ UNCHANGED <<storeVars, section, stack, screenVars, modal, observed, pending, keys>>

PollAnswers ==
    /\ at["observer"] = "idle" /\ version = observed
    /\ at' = [at EXCEPT !["observer"] = "refresh"]
    /\ notice' = NoNotice
    /\ UNCHANGED <<storeVars, section, stack, screenVars, modal, observed, pending, boundVars>>
-----------------------------------------------------------------------------
(* The table's own keys: they move the cursor and post to the app. *)

Pressed == ~modal /\ keys < MaxKeys /\ keys' = keys + 1
HasTable == pane.kind = "interactive"
KeyUnderCursor == IF pane.content.rows = <<>> THEN EmptyRow ELSE pane.content.rows[row]

MoveCursor ==
    /\ Pressed /\ HasTable
    /\ row' \in DOMAIN pane.content.rows \ {row}
    /\ queue' = Append(queue, Highlight(pane.content.rows[row']))
    /\ UNCHANGED <<storeVars, section, stack, pane, modal, at, notice, drawing, observed,
                   pending, passedOver>>

PressEnter ==
    /\ Pressed /\ HasTable
    /\ queue' = Append(queue, [kind |-> "select", key |-> KeyUnderCursor])
    /\ UNCHANGED <<storeVars, section, stack, pane, row, modal, at, notice, drawing, observed,
                   pending, passedOver>>
-----------------------------------------------------------------------------
(* The message pump: one message at a time, each refresh awaited. *)

WithView(view) == stack' = [stack EXCEPT ![Len(stack)] = view]
PumpRefreshes == at["pump"] = "idle" /\ at' = [at EXCEPT !["pump"] = "refresh"]
InList == View.mode = "list" /\ is_interactive_section(section)

Delivered(view) ==
    IF view.mode = "list" THEN [view EXCEPT !.cursor = Head(queue).key] ELSE view

RowHighlighted ==
    /\ at["pump"] = "idle" /\ queue # <<>> /\ Head(queue).kind = "highlight"
    /\ queue' = Tail(queue)
    /\ WithView(Delivered(View))
    /\ UNCHANGED <<storeVars, section, pane, row, modal, at, notice, drawing, observed, pending,
                   boundVars>>

\* _selected_detail_target: the row under the cursor; without rows or without a table the
\* view's cursor, whatever it is.
SelectedTarget(view) ==
    IF HasTable /\ pane.content.rows # <<>>
    THEN TargetOf(pane.content.view, KeyUnderCursor)
    ELSE view.cursor

\* RowSelected, and action_open_selected_item for it.
RowSelected ==
    /\ at["pump"] = "idle" /\ queue # <<>> /\ Head(queue).kind = "select"
    /\ queue' = Tail(queue)
    /\ LET view == Delivered(View)
           target == SelectedTarget(view)
           left == [view EXCEPT !.follow = view.follow /\ section # "Logs"]
       IN  IF InList /\ target # NoKey
           THEN /\ stack' = Append([stack EXCEPT ![Len(stack)] = left],
                       [left EXCEPT !.section = section, !.mode = "detail", !.target = target,
                                    !.cursor = target])
                /\ PumpRefreshes
           ELSE WithView(view) /\ UNCHANGED at
    /\ UNCHANGED <<storeVars, section, pane, row, modal, notice, drawing, observed, pending,
                   boundVars>>

NavigateBack ==
    /\ Pressed /\ Len(stack) > 1
    /\ stack' = Front(stack)
    /\ PumpRefreshes
    /\ UNCHANGED <<storeVars, section, screenVars, modal, notice, observed, pending, passedOver>>

\* A highlight of the navigation lists, which may still arrive while the dialog is open.
ChooseSection(s) ==
    /\ keys < MaxKeys /\ keys' = keys + 1
    /\ s # section
    /\ section' = s
    /\ stack' = <<default_view_state(s)>>
    /\ PumpRefreshes
    /\ UNCHANGED <<storeVars, screenVars, modal, notice, observed, pending, passedOver>>

PressRefresh ==
    /\ Pressed /\ PumpRefreshes
    /\ UNCHANGED <<storeVars, section, stack, screenVars, modal, notice, observed, pending,
                   passedOver>>

PressSearch ==
    /\ Pressed /\ at["pump"] = "idle" /\ InList
    /\ modal' = TRUE
    /\ UNCHANGED <<storeVars, section, stack, screenVars, at, notice, observed, pending,
                   passedOver>>

SearchCancelled ==
    /\ modal /\ modal' = FALSE
    /\ UNCHANGED <<storeVars, section, stack, screenVars, at, notice, observed, pending,
                   boundVars>>

SearchResult(q) ==
    /\ modal /\ modal' = FALSE
    /\ at["pump"] = "idle" /\ View.mode = "list"
    /\ WithView([View EXCEPT !.query = q, !.cursor = NoKey,
                             !.follow = View.follow /\ (section = "Logs" => q = Entries)])
    /\ PumpRefreshes
    /\ UNCHANGED <<storeVars, section, screenVars, notice, observed, pending, boundVars>>

CycleSort ==
    /\ Pressed /\ InList
    /\ WithView([View EXCEPT !.sort = cycle_sort(section, View.sort), !.cursor = NoKey,
                             !.follow = View.follow /\ section # "Logs"])
    /\ PumpRefreshes
    /\ UNCHANGED <<storeVars, section, screenVars, modal, notice, observed, pending, passedOver>>

ToggleFollow ==
    /\ Pressed /\ section = "Logs" /\ View.mode = "list"
    /\ WithView(IF View.follow THEN [View EXCEPT !.follow = FALSE]
                ELSE [View EXCEPT !.follow = TRUE, !.sort = "timestamp", !.cursor = NoKey])
    /\ PumpRefreshes
    /\ UNCHANGED <<storeVars, section, screenVars, modal, notice, observed, pending, passedOver>>

ToggleLogNoise ==
    /\ Pressed /\ section = "Logs" /\ View.mode = "list"
    /\ WithView([View EXCEPT !.noise = ~View.noise, !.cursor = NoKey])
    /\ PumpRefreshes
    /\ UNCHANGED <<storeVars, section, screenVars, modal, notice, observed, pending, passedOver>>

\* Live updates are a setting of the list at the bottom, kept equal in all views.
ToggleLiveUpdates ==
    /\ Pressed /\ is_interactive_section(section) /\ Head(stack).mode = "list"
    /\ stack' = [i \in DOMAIN stack |-> [stack[i] EXCEPT !.live = ~Head(stack).live]]
    /\ pending' = IF Head(stack).live THEN pending ELSE pending \ {section}
    /\ PumpRefreshes
    /\ UNCHANGED <<storeVars, section, screenVars, modal, notice, observed, passedOver>>
-----------------------------------------------------------------------------
Refreshes(t) ==
    RefreshIrrelevant(t) \/ RefreshDeferred(t) \/ RefreshDraws(t) \/ SwapEnds(t)

Keys ==
    \/ MoveCursor \/ PressEnter \/ NavigateBack \/ PressRefresh \/ PressSearch
    \/ SearchCancelled \/ CycleSort \/ ToggleFollow \/ ToggleLogNoise \/ ToggleLiveUpdates
    \/ \E s \in Sections : ChooseSection(s)
    \/ \E q \in Queries \cup {Entries} : SearchResult(q)

Next ==
    \/ \E f \in Fields : WriteField(f)
    \/ WriteOther
    \/ \E t \in Tasks : Refreshes(t)
    \/ Notice \/ PollAnswers \/ RowHighlighted \/ RowSelected
    \/ Keys

Spec == Init /\ [][Next]_vars
-----------------------------------------------------------------------------
(* Properties. *)

Views == [section : Sections, mode : {"list", "detail"}, target : RowKeys \cup {EmptyRow, NoKey},
          cursor : RowKeys \cup {EmptyRow, NoKey}, query : SUBSET Entries,
          sort : UNION {ToSet(SortSequence(s)) : s \in Sections}, follow : BOOLEAN,
          live : BOOLEAN, noise : BOOLEAN]

\* The state keeps its types.
TypeOK ==
    /\ version \in 0 .. MaxVersion /\ observed \in -1 .. MaxVersion
    /\ section \in Sections /\ Len(stack) \in 1 .. 2 /\ ToSet(stack) \subseteq Views
    /\ at \in [Tasks -> {"idle", "refresh", "swap"}] /\ modal \in BOOLEAN
    /\ pane.kind \in {"static", "interactive", "none"}
    /\ pending \subseteq Sections /\ keys \in 0 .. MaxKeys

\* When the pump has handled a key and no widgets are being replaced, the pane shows the view
\* on top of the stack: its section, its entry, its search, sort and filter, whichever task
\* drew it and whether live updates are paused or not.
PaneShowsTheView ==
    at["pump"] = "idle" /\ LockFree =>
        pane.content.view = Visible(View)

\* When both tasks are at rest and the observer is up to date, the data that is drawn and that
\* the signature covers is the store's, except where the section is marked as pending or the
\* field was written by a version the observer's notices passed over.
Covered(s) == section_payload_data(s) \cap DrawnFields(s)
PaneIsCurrent ==
    at = Quiet /\ observed = version =>
        \A f \in Covered(section) :
            \/ pane.content.data[f] = state[f]
            \/ section \in pending
            \/ state[f].at \in passedOver

\* A redraw in the background leaves the cursor on the row the user put it on, wherever that
\* row has moved to, as long as the row is there; provided that no message of the table is on
\* its way and the view holds that row (a search, sort or filter that changes nothing on the
\* screen makes it forget the row).
KeepsSelection ==
    [][/\ queue = <<>> /\ at["pump"] = "idle" /\ HasTable /\ pane' # pane
       /\ View.cursor = KeyUnderCursor
       /\ KeyUnderCursor \in ToSet(pane'.content.rows)
       => pane'.content.rows[row'] = KeyUnderCursor]_vars

-----------------------------------------------------------------------------
(* The inductive invariant behind PaneIsCurrent. *)

\* Versions are written in order, and the last change names what was written last.
VersionsInOrder ==
    /\ section \in Sections
    /\ version \in Nat /\ observed \in Nat \cup {-1} /\ observed <= version
    /\ state \in [Fields -> [at : Nat, entries : Seq(Entries)]]
    /\ \A f \in Fields :
        /\ state[f].at <= version
        /\ state[f].at = version => version = 0 \/ f \in lastChange

\* The versions between the last refresh and the notice at hand are passed over.
NoticeIsHonest ==
    /\ notice.version \in Int /\ notice.version <= version
    /\ notice.version = version => notice.fields = lastChange
    /\ \A n \in Nat : observed < n /\ n < notice.version => n \in passedOver

\* A static signature covers what is drawn of the payload.
Covers(signature, content) ==
    signature.kind = "static" =>
        \A f \in Covered(signature.section) : content.data[f] = signature.payload[f]

\* What is drawn is the store's, or the store has changed since the last refresh began.
Follows(content) ==
    \A f \in Covered(section) : content.data[f] = state[f] \/ state[f].at > observed

CurrentInv ==
    /\ VersionsInOrder
    /\ NoticeIsHonest
    /\ at["pump"] # "refresh" => observed # -1
    /\ pane.signature # NoDrawing => Covers(pane.signature, pane.content)
    /\ ~LockFree => Covers(drawing.signature, drawing.content)
    /\ at["pump"] = "swap" => Follows(drawing.content)
    /\ at["pump"] = "idle" =>
          \A f \in Covered(section) :
              \/ pane.content.data[f] = state[f] \/ state[f].at > observed
              \/ section \in pending
              \/ state[f].at \in passedOver
=============================================================================
