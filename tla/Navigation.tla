----------------------------- MODULE Navigation -----------------------------
(***************************************************************************)
(* The navigation of the TUI (app.py): the lists of categories and of      *)
(* sections, what is selected, the detail opened and the pane with the     *)
(* focus.  A list is a widget with a life of its own: whenever its index   *)
(* changes, whether by a key or because the app sets it, it posts a        *)
(* Highlighted message to the app, which handles it later.  The message    *)
(* pump and _observe_state both refresh, under _refresh_lock, and may      *)
(* rebuild the list of sections, under _sidebar_rebuild_lock; when either  *)
(* has asked sudo it sets the indexes under no lock.  The pump handles one *)
(* message at a time, so _navigation_lock is never contended.              *)
(*                                                                         *)
(* ResetKeepingCategory, RefreshWithoutRebuild and RebuildUnderRefresh are *)
(* faulty forms of the definitions after them, which Next never uses.      *)
(***************************************************************************)
EXTENDS SectionPolicies, Integers, SequencesExt

CONSTANTS
    CategoryList,   \* TOP_LEVEL_CATEGORIES, in order
    MaxKeys,        \* bound: keys pressed
    MaxMessages     \* bound: messages on their way when a key is pressed or a refresh starts

ASSUME NavigationAssumption ==
    /\ CategoryList \in Seq(TOP_LEVEL_CATEGORIES)
    /\ CategoryList # <<>>
    /\ \A i, j \in DOMAIN CategoryList : CategoryList[i] = CategoryList[j] => i = j
    /\ \A c \in ToSet(CategoryList) :
          get_category_sections(c) \in Seq(AllSections) /\ get_category_sections(c) # <<>>
    /\ MaxKeys \in Nat /\ MaxMessages \in Nat

Categories == ToSet(CategoryList)
Sections(c) == ToSet(get_category_sections(c))
AllListed == UNION {Sections(c) : c \in Categories}

VARIABLES
    category,       \* selected_category
    section,        \* selected_section
    remembered,     \* _selected_section_by_category
    stack,          \* _detail_stack: the section and the mode of each view
    startup,        \* startup_mode
    focused,        \* focused_pane
    focusPending,   \* _focus_sync_pending
    dialog,         \* the password dialog is open
    listed,         \* the items of the sidebar, while it is rebuilt those mounted so far
    snapshot,       \* _sidebar_sections_snapshot
    index,          \* list -> index of its cursor
    queue,          \* messages on their way to the app
    at,             \* task -> where it is
    holder,         \* the task that has _refresh_lock
    crowded,        \* history: two different highlights were on their way, since the last rest
    keys            \* keys pressed so far

selectionVars == <<category, section, remembered, stack, startup>>
focusVars == <<focused, focusPending, dialog>>
listVars == <<listed, snapshot, index, queue>>
taskVars == <<at, holder>>
vars == <<category, section, remembered, stack, startup, focused, focusPending, dialog, listed,
          snapshot, index, queue, at, holder, crowded, keys>>

Tasks == {"pump", "observer"}
Places == {"idle", "refresh", "draw", "rebuild", "mount", "probe", "password"}
Lists == {"categories", "sidebar"}
Message(list, item, activation) == [list |-> list, item |-> item, activation |-> activation]
Highlighted(list, item) == Message(list, item, "highlight")
Position(seq, x) == CHOOSE i \in DOMAIN seq : seq[i] = x

\* _sidebar_rebuild_lock is held, and _navigation_sync_in_progress set, by a task that is
\* never the pump between two messages: no handler finds the flag set.
Rebuilding == \E t \in Tasks : at[t] = "mount"

\* Two different highlights on their way, or one that contradicts what the pump is selecting.
Selected(m) == m.item = IF m.list = "categories" THEN category ELSE section
Conflict ==
    \/ \E m, n \in ToSet(queue) : <<m.list, m.item>> # <<n.list, n.item>>
    \/ at["pump"] # "idle" /\ \E m \in ToSet(queue) : ~Selected(m)
Rest == queue = <<>> /\ at["pump"] = "idle"
Crowds == crowded' = ((crowded \/ Conflict') /\ ~Rest')

Init ==
    /\ category = Head(CategoryList)
    /\ section = get_default_section(category)
    /\ remembered = [c \in Categories |-> get_default_section(c)]
    /\ stack = <<[section |-> section, mode |-> "list"]>>
    /\ startup = TRUE /\ focused = "categories" /\ focusPending = FALSE /\ dialog = FALSE
    /\ listed = get_category_sections(category) /\ snapshot = listed
    /\ index = [l \in Lists |-> 1] /\ queue = <<>>
    /\ at = [t \in Tasks |-> IF t = "pump" THEN "refresh" ELSE "idle"] /\ holder = None
    /\ crowded = FALSE /\ keys = 0
-----------------------------------------------------------------------------
(* What the handlers change before they await. *)

canonical_tui_section(s) ==
    LET visible == get_tui_visible_section(s)
    IN  IF Listed(visible, get_section_category(visible)) THEN visible
        ELSE remembered[get_section_category(visible)]

ResetKeepingCategory(s) ==
    /\ startup' = FALSE /\ category' = category /\ section' = s
    /\ remembered' = [remembered EXCEPT ![category] = s]
    /\ stack' = <<[section |-> s, mode |-> "list"]>>

\* _reset_detail_stack: the section brings its category along.
Reset(s) ==
    /\ startup' = FALSE /\ category' = get_section_category(s) /\ section' = s
    /\ remembered' = [remembered EXCEPT ![get_section_category(s)] = s]
    /\ stack' = <<[section |-> s, mode |-> "list"]>>

detail_focus_available(s, views) == s \in INTERACTIVE_SECTIONS /\ Last(views).mode = "list"
DetailAvailable == detail_focus_available(section, stack)

LeavesDetail ==
    /\ focused' = IF focused = "detail" /\ ~DetailAvailable' THEN "sidebar" ELSE focused
    /\ UNCHANGED <<focusPending, dialog>>
-----------------------------------------------------------------------------
(* The lists: an index that changes posts a message, whoever changes it. *)

Items(l) == IF l = "categories" THEN CategoryList ELSE listed

SidebarIndex == Position(get_category_sections(category), section)

\* A list takes no index past its last item, and none (0) when it is empty.
Clamped(l, i) == IF i > Len(Items(l)) THEN Len(Items(l)) ELSE i

\* A message without an item is of no effect and left out.
Posts(l, to) == IF to \in {0, index[l]} THEN <<>> ELSE <<Highlighted(l, Items(l)[to])>>

\* _sync_navigation_indexes, which may find the list half rebuilt by the other task.
SyncIndexes ==
    LET to == [l \in Lists |-> IF l = "categories" THEN Position(CategoryList, category)
                               ELSE Clamped("sidebar", SidebarIndex)]
    IN  /\ index' = to
        /\ queue' = queue \o Posts("categories", to["categories"])
                          \o Posts("sidebar", to["sidebar"])

Pressed == ~dialog /\ keys < MaxKeys /\ keys' = keys + 1 /\ Len(queue) < MaxMessages

\* A key or a click in a list; in startup mode the sections are not displayed.
MoveIn(l) ==
    /\ Pressed
    /\ l = "sidebar" => ~startup
    /\ \E i \in DOMAIN Items(l) \ {index[l]} :
        /\ index' = [index EXCEPT ![l] = i]
        /\ queue' = Append(queue, Highlighted(l, Items(l)[i]))
    /\ UNCHANGED <<selectionVars, focusVars, listed, snapshot, taskVars>>
    /\ Crowds

EnterIn(l) ==
    /\ Pressed
    /\ l = "sidebar" => ~startup
    /\ index[l] \in DOMAIN Items(l)
    /\ queue' = Append(queue, Message(l, Items(l)[index[l]], "selected"))
    /\ UNCHANGED <<selectionVars, focusVars, listed, snapshot, index, taskVars>>
    /\ Crowds
-----------------------------------------------------------------------------
(* _refresh_from_store and _rebuild_section_list, by either task. *)

Goes(t, place) == at' = [at EXCEPT ![t] = place]

RefreshWithoutRebuild(t) ==
    /\ at[t] = "refresh" /\ holder = None
    /\ holder' = t
    /\ SyncIndexes /\ Goes(t, "draw")
    /\ UNCHANGED <<selectionVars, focusVars, listed, snapshot, keys>>
    /\ Crowds

\* The lock is granted; the list of sections is rebuilt when it is another category's.
RefreshBegins(t) ==
    /\ at[t] = "refresh" /\ holder = None
    /\ holder' = t
    /\ IF snapshot = get_category_sections(category)
       THEN SyncIndexes /\ Goes(t, "draw")
       ELSE Goes(t, "rebuild") /\ UNCHANGED <<index, queue>>
    /\ UNCHANGED <<selectionVars, focusVars, listed, snapshot, keys>>
    /\ Crowds

\* The pane is drawn, which may take its time; a new table wants the focus back.
RefreshEnds(t) ==
    /\ at[t] = "draw" /\ Goes(t, "idle") /\ holder' = None
    /\ focusPending' \in {focusPending, focusPending \/ focused = "detail"}
    /\ UNCHANGED <<selectionVars, focused, dialog, listVars, keys>>
    /\ Crowds

RebuildUnderRefresh(t) ==
    /\ at[t] = "rebuild" /\ ~Rebuilding /\ holder = t /\ Goes(t, "mount")
    /\ snapshot' = get_category_sections(category)
    /\ listed' = <<>>
    /\ UNCHANGED <<selectionVars, focusVars, index, queue, holder, keys>>
    /\ Crowds

RebuildBegins(t) ==
    /\ at[t] = "rebuild" /\ ~Rebuilding /\ Goes(t, "mount")
    /\ snapshot' = get_category_sections(category)
    /\ listed' = <<>>
    /\ UNCHANGED <<selectionVars, focusVars, index, queue, holder, keys>>
    /\ Crowds

MountItem(t) ==
    /\ at[t] = "mount" /\ Len(listed) < Len(snapshot)
    /\ listed' = Append(listed, snapshot[Len(listed) + 1])
    /\ UNCHANGED <<selectionVars, focusVars, snapshot, index, queue, taskVars, keys>>
    /\ Crowds

\* The index of the new list is set; a rebuild on the way to a refresh awaits its lock, one
\* within a refresh goes on with it.
RebuildEnds(t) ==
    /\ at[t] = "mount" /\ Len(listed) = Len(snapshot)
    /\ IF holder = t
       THEN SyncIndexes /\ Goes(t, "draw")
       ELSE /\ index' = [index EXCEPT !["sidebar"] = SidebarIndex]
            /\ queue' = queue \o Posts("sidebar", SidebarIndex)
            /\ Goes(t, "refresh")
    /\ UNCHANGED <<selectionVars, focusVars, listed, snapshot, holder, keys>>
    /\ Crowds

\* _observe_state has something to refresh for.
Background ==
    /\ at["observer"] = "idle" /\ Len(queue) < MaxMessages /\ Goes("observer", "refresh")
    /\ UNCHANGED <<selectionVars, focusVars, listVars, holder, keys>>
    /\ Crowds

-----------------------------------------------------------------------------
(* Asking sudo: by the poll of _observe_state, with the unlock key, and    *)
(* with the password from the dialog that the key opens.                   *)

\* _poll_selected_section_auth_state; over a section without privileged data it does nothing.
PollBegins ==
    /\ at["observer"] = "idle" /\ Len(queue) < MaxMessages
    /\ section \in PRIVILEGED_SECTIONS /\ Goes("observer", "probe")
    /\ UNCHANGED <<selectionVars, focusVars, listVars, holder, keys>>
    /\ Crowds

UnlockKey ==
    /\ Pressed /\ at["pump"] = "idle" /\ section \in PRIVILEGED_SECTIONS
    /\ Goes("pump", "probe")
    /\ UNCHANGED <<selectionVars, focusVars, listVars, holder>>
    /\ Crowds

\* The dialog is cancelled, or sudo gets its password.
DialogEnds ==
    /\ dialog /\ at["pump"] = "idle"
    /\ dialog' = FALSE
    /\ Goes("pump", "password") \/ UNCHANGED at
    /\ UNCHANGED <<selectionVars, focused, focusPending, listVars, holder, keys>>
    /\ Crowds

\* sudo has answered: _sync_navigation_labels, outside of _refresh_lock and maybe in the middle
\* of the other task's rebuild.  A refresh follows when the answer is news, the dialog when the
\* section is still locked.
ProbeEnds(t) ==
    /\ at[t] \in {"probe", "password"}
    /\ SyncIndexes
    /\ \/ Goes(t, "refresh") /\ UNCHANGED dialog
       \/ Goes(t, "idle") /\ dialog' = (dialog \/ (t = "pump" /\ at[t] = "probe"))
    /\ UNCHANGED <<selectionVars, focused, focusPending, listed, snapshot, holder, keys>>
    /\ Crowds
-----------------------------------------------------------------------------
(* The message pump. *)

\* _handle_navigation_selection takes the next message.
Takes(list) ==
    /\ at["pump"] = "idle" /\ queue # <<>> /\ Head(queue).list = list
    /\ queue' = Tail(queue)
    /\ UNCHANGED <<listed, snapshot, index, holder, keys>>

Chosen == Head(queue).item
LeavesStartup == startup /\ Head(queue).activation = "selected" /\ Chosen = category

ConfirmCategory ==
    /\ Takes("categories") /\ LeavesStartup
    /\ startup' = FALSE
    /\ Goes("pump", "refresh")
    /\ UNCHANGED <<category, section, remembered, stack, focusVars>>
    /\ Crowds

ActivateCategory ==
    /\ Takes("categories") /\ ~LeavesStartup /\ Chosen # category
    /\ Reset(IF remembered[Chosen] \in Sections(Chosen) THEN remembered[Chosen]
             ELSE get_default_section(Chosen))
    /\ LeavesDetail
    /\ Goes("pump", "rebuild")
    /\ Crowds

ActivateSection ==
    /\ Takes("sidebar")
    /\ canonical_tui_section(Chosen) # section
    /\ Reset(canonical_tui_section(Chosen))
    /\ LeavesDetail
    /\ Goes("pump", "refresh")
    /\ Crowds

\* What is selected already is not selected again.
IgnoreHighlight ==
    /\ \/ Takes("categories") /\ ~LeavesStartup /\ Chosen = category
       \/ Takes("sidebar") /\ canonical_tui_section(Chosen) = section
    /\ UNCHANGED <<selectionVars, focusVars, at>>
    /\ Crowds

\* A table section has no table while it is drawn anew, nor while it is locked.
TableMayBeMissing == at["observer"] = "draw" \/ section \in PRIVILEGED_SECTIONS

\* _sync_focus, for the key and after a refresh that mounted a new table.  Without the table it
\* is scheduled again.
SyncFocus(pane, pending) ==
    /\ focused' = IF startup THEN "categories"
                  ELSE IF pane = "detail" /\ ~DetailAvailable THEN "sidebar"
                  ELSE pane
    /\ focusPending' \in IF focused' = "detail" /\ TableMayBeMissing THEN {pending, TRUE}
                         ELSE {pending}
    /\ UNCHANGED dialog

ToggleFocus ==
    /\ Pressed /\ at["pump"] = "idle"
    /\ LET panes == <<"categories", "sidebar">>
                     \o IF DetailAvailable THEN <<"detail">> ELSE <<>>
           current == IF focused \in ToSet(panes) THEN Position(panes, focused) ELSE 1
       IN  SyncFocus(panes[(current % Len(panes)) + 1], focusPending)
    /\ SyncIndexes
    /\ UNCHANGED <<selectionVars, listed, snapshot, taskVars>>
    /\ Crowds

FocusAfterRefresh ==
    /\ at["pump"] = "idle" /\ focusPending
    /\ SyncFocus(focused, FALSE)
    /\ UNCHANGED <<selectionVars, listVars, taskVars, keys>>
    /\ Crowds

\* action_open_selected_item, when there is an item.
OpenSelectedItem ==
    /\ Pressed /\ at["pump"] = "idle" /\ DetailAvailable
    /\ stack' = Append(stack, [section |-> section, mode |-> "detail"])
    /\ focused' = "sidebar"
    /\ Goes("pump", "refresh")
    /\ UNCHANGED <<category, section, remembered, startup, focusPending, dialog, listVars, holder>>
    /\ Crowds

NavigateBack ==
    /\ Pressed /\ at["pump"] = "idle" /\ Len(stack) > 1
    /\ stack' = Front(stack)
    /\ focused' = IF detail_focus_available(section, Front(stack)) THEN "detail"
                   ELSE focused
    /\ Goes("pump", "refresh")
    /\ UNCHANGED <<category, section, remembered, startup, focusPending, dialog, listVars, holder>>
    /\ Crowds

\* The keys that change the view or ask for new data, and then refresh.
ViewKey ==
    /\ Pressed /\ at["pump"] = "idle" /\ Goes("pump", "refresh")
    /\ UNCHANGED <<selectionVars, focusVars, listVars, holder>>
    /\ Crowds
-----------------------------------------------------------------------------
HandleMessage == ConfirmCategory \/ ActivateCategory \/ ActivateSection \/ IgnoreHighlight
RefreshSteps(t) ==
    RefreshEnds(t) \/ RebuildBegins(t) \/ MountItem(t) \/ RebuildEnds(t) \/ ProbeEnds(t)

Next ==
    \/ \E l \in Lists : MoveIn(l) \/ EnterIn(l)
    \/ \E t \in Tasks : RefreshBegins(t) \/ RefreshSteps(t)
    \/ Background \/ PollBegins \/ UnlockKey \/ DialogEnds
    \/ HandleMessage \/ FocusAfterRefresh
    \/ ToggleFocus \/ OpenSelectedItem \/ NavigateBack \/ ViewKey

Spec == Init /\ [][Next]_vars

\* The event loop runs what is ready, sudo answers or is given up after a timeout, and an
\* asyncio.Lock is granted in the order of waiting.
Fairness ==
    /\ WF_vars(HandleMessage) /\ WF_vars(FocusAfterRefresh)
    /\ \A t \in Tasks : WF_vars(RefreshSteps(t)) /\ SF_vars(RefreshBegins(t))

FairSpec == Spec /\ Fairness
-----------------------------------------------------------------------------
(* Properties. *)

\* What is selected keeps its types.
TypeOK ==
    /\ category \in Categories /\ section \in AllListed
    /\ remembered \in [Categories -> AllListed]
    /\ stack \in BoundedSeq([section : AllListed, mode : {"list", "detail"}], 2)
    /\ startup \in BOOLEAN /\ focusPending \in BOOLEAN /\ dialog \in BOOLEAN
    /\ crowded \in BOOLEAN
    /\ focused \in {"categories", "sidebar", "detail"}
    /\ index \in [Lists -> Nat]
    /\ at \in [Tasks -> Places]
    /\ holder \in Tasks \cup {None} /\ keys \in 0 .. MaxKeys

\* Whatever stale highlights of a list that is gone arrive, and wherever a rebuild or a
\* refresh stands: the section is one of the category's and the one remembered for it, the
\* views are of the section, a detail is open over a table only, and the focus is given to the
\* pane only while it has a table.
SelectionIsConsistent ==
    /\ section \in Sections(category)
    /\ remembered[category] = section
    /\ \A i \in DOMAIN stack :
        /\ stack[i].section = section
        /\ (stack[i].mode = "list") = (i = 1)
    /\ Len(stack) > 1 => section \in INTERACTIVE_SECTIONS /\ Len(stack) = 2
    /\ focused = "detail" => DetailAvailable

\* When the pump has handled all messages, the lists on the screen are those of the selection,
\* with their cursors on it.
ListsShowTheSelection ==
    Rest => /\ listed = get_category_sections(category)
            /\ listed[index["sidebar"]] = section
            /\ CategoryList[index["categories"]] = category

\* Navigation comes to rest, unless highlights crossed: two different ones that are on their way
\* together chase each other for ever, each refresh moving the cursor back and posting anew.
NavigationSettles == []<>(Rest \/ crowded)
-----------------------------------------------------------------------------
(* The inductive invariant behind SelectionIsConsistent. *)

\* Whatever is listed, or on its way, is a category of the list or a section of one of them.
Listable(l) == IF l = "categories" THEN Categories ELSE AllListed
Messages == {m \in [list : Lists, item : Categories \cup AllListed,
                    activation : {"highlight", "selected"}] : m.item \in Listable(m.list)}
SelectionIsListed ==
    /\ category \in Categories
    /\ remembered \in [Categories -> AllListed]
    /\ stack \in Seq([section : AllListed, mode : {"list", "detail"}]) /\ Len(stack) \in {1, 2}
ListsAreListed ==
    /\ listed \in Seq(AllListed) /\ snapshot \in Seq(AllListed)
    /\ queue \in Seq(Messages)

\* The pump rebuilds for the category it has just selected; the observer only within a refresh.
RebuildIsOfCategory ==
    /\ at["pump"] = "mount" => snapshot = get_category_sections(category)
    /\ at["observer"] \in {"rebuild", "mount"} => holder = "observer"
    /\ \A t \in Tasks : at[t] = "draw" => holder = t
    /\ at \in [Tasks -> Places]

NavigationInv ==
    /\ SelectionIsListed
    /\ ListsAreListed
    /\ RebuildIsOfCategory
    /\ SelectionIsConsistent

-----------------------------------------------------------------------------
(* The inductive invariant behind ListsShowTheSelection. *)

\* One task mounts at a time, from the first item on.
MountsInOrder ==
    /\ Len(listed) <= Len(snapshot)
    /\ \A i \in 1 .. Len(listed) : listed[i] = snapshot[i]
    /\ ~Rebuilding => listed = snapshot
    /\ at["pump"] = "mount" => at["observer"] # "mount"

\* The cursor of a list is on what is selected, or the app has yet to hear where it went.
Under(l, item) == index[l] \in DOMAIN Items(l) /\ Items(l)[index[l]] = item
Shown(l) == Under(l, IF l = "categories" THEN category ELSE section)
LastTells(l) ==
    \E i \in DOMAIN queue :
        /\ queue[i].list = l /\ Under(l, queue[i].item)
        /\ \A j \in DOMAIN queue : j > i => queue[j].list # l

\* Between the messages, and once it has synced the lists, the pump has no rebuild before it,
\* and no one else has.
Behind == {"refresh", "rebuild", "mount"}
PumpHasSynced ==
    at["pump"] \notin Behind =>
        /\ snapshot = get_category_sections(category)
        /\ at["observer"] \notin {"rebuild", "mount"}
        /\ \A l \in Lists : Shown(l) \/ LastTells(l)

ListsFollow == index \in [Lists -> Nat] /\ MountsInOrder /\ PumpHasSynced
=============================================================================
