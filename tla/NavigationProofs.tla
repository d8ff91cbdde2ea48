-------------------------- MODULE NavigationProofs --------------------------
(***************************************************************************)
(* The selection of the TUI is consistent whatever messages are on their   *)
(* way and wherever a rebuild of the sidebar stands, for any categories    *)
(* whose tables agree; and when the pump has nothing left to do, the lists *)
(* show it.                                                                *)
(***************************************************************************)
EXTENDS Navigation, TLAPS

-----------------------------------------------------------------------------
(* The tables. *)

\* What the tables say of a category of the list.
LEMMA CategoryTables ==
    ASSUME NEW c \in Categories
    PROVE  /\ get_category_sections(c) \in Seq(AllListed) /\ get_category_sections(c) # <<>>
           /\ get_default_section(c) \in Sections(c)
           /\ \A s \in Sections(c) :
                s \in AllListed /\ get_section_category(s) = c /\ Listed(s, c)
<1> DEFINE list == get_category_sections(c)
<1>1. c \in TOP_LEVEL_CATEGORIES
  BY NavigationAssumption DEF Categories, ToSet
<1>2. list \in Seq(AllSections) /\ list # <<>>
  BY NavigationAssumption DEF Categories
<1>3. \A i \in DOMAIN list : get_section_category(list[i]) = c
  BY <1>1, TablesAgree
<1>4. \A i \in DOMAIN list : list[i] \in Sections(c) /\ list[i] \in AllListed
  BY DEF Sections, AllListed, ToSet
<1>5. Head(list) = list[1] /\ 1 \in DOMAIN list
  BY <1>2
<1>6. list \in Seq(AllListed)
  BY <1>2, <1>4
<1> QED
  BY <1>2, <1>3, <1>4, <1>5, <1>6 DEF get_default_section, Sections, ToSet, Listed

\* A listed section is its own canonical one, and brings along a category that lists it.
LEMMA ListedSections ==
    ASSUME NEW s \in AllListed
    PROVE  /\ get_section_category(s) \in Categories
           /\ s \in Sections(get_section_category(s))
           /\ canonical_tui_section(s) = s
<1>1. PICK c \in Categories : s \in Sections(c)
  BY DEF AllListed
<1>2. get_section_category(s) = c /\ Listed(s, c)
  BY <1>1, CategoryTables
<1> QED
  BY <1>1, <1>2 DEF canonical_tui_section, get_tui_visible_section

\* The place of a member of a list.
LEMMA Positions ==
    ASSUME NEW S, NEW list \in Seq(S), NEW x \in ToSet(list)
    PROVE  Position(list, x) \in 1 .. Len(list)
  BY DEF ToSet, Position

\* A second item.
LEMMA OneMore ==
    ASSUME NEW S, NEW list \in Seq(S), Len(list) = 1, NEW x \in S
    PROVE  /\ Append(list, x) \in Seq(S) /\ Len(Append(list, x)) = 2
           /\ DOMAIN Append(list, x) = 1 .. 2
           /\ Append(list, x)[1] = list[1] /\ Append(list, x)[2] = x
<1>1. Append(list, x) \in Seq(S) /\ Len(Append(list, x)) = 2
  OBVIOUS
<1>2. \A i \in 1 .. Len(list) + 1 :
          Append(list, x)[i] = IF i = Len(list) + 1 THEN x ELSE list[i]
  OBVIOUS
<1> QED
  BY <1>1, <1>2

-----------------------------------------------------------------------------
(* The selection. *)

Selects == SelectionIsListed /\ SelectionIsConsistent

\* Choosing a section makes a selection that is consistent.
LEMMA ResetSelects ==
    ASSUME NEW s \in AllListed, Reset(s), LeavesDetail, remembered \in [Categories -> AllListed]
    PROVE  Selects' /\ category' = get_section_category(s)
<1>1. get_section_category(s) \in Categories /\ s \in Sections(get_section_category(s))
  BY ListedSections
<1>2. stack' = <<[section |-> s, mode |-> "list"]>> /\ section' = s
      /\ category' = get_section_category(s)
      /\ remembered' = [remembered EXCEPT ![get_section_category(s)] = s]
  BY DEF Reset
<1>3. Len(stack') = 1 /\ DOMAIN stack' = {1} /\ stack'[1].section = s /\ stack'[1].mode = "list"
      /\ stack' \in Seq([section : AllListed, mode : {"list", "detail"}])
  BY <1>2
<1>4. focused' = "detail" => DetailAvailable'
  BY DEF LeavesDetail
<1> QED
  BY <1>1, <1>2, <1>3, <1>4 DEF Selects, SelectionIsListed, SelectionIsConsistent

\* Opening the selected item and going back.
LEMMA ViewSelects ==
    ASSUME Selects, OpenSelectedItem \/ NavigateBack
    PROVE  Selects'
<1> DEFINE View == [section : AllListed, mode : {"list", "detail"}]
<1>1. /\ stack \in Seq(View) /\ Len(stack) \in {1, 2}
      /\ \A i \in 1 .. Len(stack) : stack[i].section = section /\ (stack[i].mode = "list" <=> i = 1)
      /\ DOMAIN stack = 1 .. Len(stack)
      /\ section \in AllListed
  <2>1. section \in AllListed
    BY DEF Selects, SelectionIsListed, SelectionIsConsistent, AllListed
  <2> QED
    BY <2>1 DEF Selects, SelectionIsListed, SelectionIsConsistent
<1>2. CASE OpenSelectedItem
  <2>1. section \in INTERACTIVE_SECTIONS /\ Len(stack) = 1
    BY <1>1, <1>2 DEF OpenSelectedItem, DetailAvailable, detail_focus_available, Last
  <2>2. stack' = Append(stack, [section |-> section, mode |-> "detail"]) /\ focused' = "sidebar"
        /\ UNCHANGED <<category, section, remembered>>
    BY <1>2 DEF OpenSelectedItem
  <2>3. /\ stack' \in Seq(View) /\ Len(stack') = 2 /\ DOMAIN stack' = 1 .. 2
        /\ stack'[1] = stack[1] /\ stack'[2] = [section |-> section, mode |-> "detail"]
    BY <1>1, <2>1, <2>2, OneMore
  <2>4. \A i \in DOMAIN stack' : stack'[i].section = section' /\ (stack'[i].mode = "list") = (i = 1)
    <3>1. stack'[1].section = section' /\ stack'[1].mode = "list"
      BY <1>1, <2>1, <2>2, <2>3
    <3>2. stack'[2].section = section' /\ stack'[2].mode # "list"
      BY <2>2, <2>3
    <3> QED
      BY <2>3, <3>1, <3>2
  <2> QED
    BY <2>1, <2>2, <2>3, <2>4 DEF Selects, SelectionIsListed, SelectionIsConsistent
<1>3. CASE NavigateBack
  <2>1. Len(stack) = 2 /\ focused # "detail"
    BY <1>1, <1>3 DEF NavigateBack, Selects, SelectionIsConsistent, DetailAvailable,
                      detail_focus_available, Last
  <2>2. stack' = SubSeq(stack, 1, 1) /\ UNCHANGED <<category, section, remembered>>
        /\ focused' = IF detail_focus_available(section, stack') THEN "detail" ELSE focused
    BY <1>3, <2>1 DEF NavigateBack, Front
  <2>3. stack' \in Seq(View) /\ Len(stack') = 1 /\ DOMAIN stack' = {1} /\ stack'[1] = stack[1]
    <3> HIDE DEF View
    <3>1. stack \in Seq(View) /\ Len(stack) = 2
      BY <1>1, <2>1
    <3>2. /\ SubSeq(stack, 1, 1) \in Seq(View) /\ Len(SubSeq(stack, 1, 1)) = 1
          /\ SubSeq(stack, 1, 1)[1] = stack[1]
      BY <3>1
    <3>3. DOMAIN SubSeq(stack, 1, 1) = {1}
      BY <3>2
    <3> QED
      BY <2>2, <3>2, <3>3
  <2> QED
    BY <1>1, <2>1, <2>2, <2>3 DEF Selects, SelectionIsListed, SelectionIsConsistent, DetailAvailable
<1> QED
  BY <1>2, <1>3

\* Every step keeps the selection consistent.
LEMMA SelectionStep ==
    ASSUME Selects, ListsAreListed, [Next]_vars
    PROVE  Selects'
<1> DEFINE Same == UNCHANGED <<category, section, remembered, stack>>
<1>1. ASSUME Same, focused' = focused \/ focused' # "detail" \/ DetailAvailable PROVE Selects'
  BY <1>1 DEF Selects, SelectionIsListed, SelectionIsConsistent, DetailAvailable
<1>2. queue # <<>> => Head(queue) \in Messages
  BY DEF ListsAreListed
<1>3. ASSUME NEW l \in Lists, MoveIn(l) \/ EnterIn(l) PROVE Selects'
  BY <1>1, <1>3 DEF MoveIn, EnterIn, selectionVars, focusVars
<1>4. ASSUME NEW t \in Tasks, RefreshBegins(t) \/ RefreshSteps(t) PROVE Selects'
  BY <1>1, <1>4 DEF RefreshBegins, RefreshSteps, RefreshEnds, RebuildBegins, MountItem,
                    RebuildEnds, ProbeEnds, selectionVars, focusVars
<1>5. CASE Background \/ PollBegins \/ UnlockKey \/ DialogEnds \/ ViewKey \/ UNCHANGED vars
  BY <1>1, <1>5 DEF Background, PollBegins, UnlockKey, DialogEnds, ViewKey, vars, selectionVars,
                    focusVars
<1>6. CASE ConfirmCategory \/ IgnoreHighlight
  BY <1>1, <1>6 DEF ConfirmCategory, IgnoreHighlight, selectionVars, focusVars
<1>7. CASE ActivateCategory
  <2>1. Chosen \in Categories /\ remembered \in [Categories -> AllListed]
    BY <1>2, <1>7 DEF ActivateCategory, Takes, Messages, Listable, Chosen, Selects, SelectionIsListed
  <2>2. PICK s \in AllListed : Reset(s) /\ LeavesDetail
    BY <1>7, <2>1, CategoryTables DEF ActivateCategory
  <2> QED
    BY <2>1, <2>2, ResetSelects
<1>8. CASE ActivateSection
  <2>1. Chosen \in AllListed /\ remembered \in [Categories -> AllListed]
    BY <1>2, <1>8 DEF ActivateSection, Takes, Messages, Listable, Chosen, Selects, SelectionIsListed
  <2>2. Reset(Chosen) /\ LeavesDetail
    BY <1>8, <2>1, ListedSections DEF ActivateSection
  <2> QED
    BY <2>1, <2>2, ResetSelects
<1>9. CASE FocusAfterRefresh \/ ToggleFocus
  <2>1. Same /\ \E pane, pending : SyncFocus(pane, pending)
    BY <1>9 DEF FocusAfterRefresh, ToggleFocus, selectionVars
  <2> QED
    BY <1>1, <2>1 DEF SyncFocus
<1>10. CASE OpenSelectedItem \/ NavigateBack
  BY <1>10, ViewSelects
<1> QED
  BY <1>3, <1>4, <1>5, <1>6, <1>7, <1>8, <1>9, <1>10 DEF Next, HandleMessage

-----------------------------------------------------------------------------
(* The lists. *)

\* What a task at work may find: the locks keep the other's rebuild from being mistaken.
LEMMA RebuildStep ==
    ASSUME RebuildIsOfCategory, [Next]_vars
    PROVE  RebuildIsOfCategory'
<1> USE DEF RebuildIsOfCategory, Tasks, Places, Goes, None
<1>1. ASSUME at' = at, UNCHANGED <<category, snapshot, holder>> PROVE RebuildIsOfCategory'
  BY <1>1
<1>2. ASSUME at["pump"] = "idle", Goes("pump", "refresh") \/ Goes("pump", "rebuild"),
             UNCHANGED <<snapshot, holder>>
      PROVE  RebuildIsOfCategory'
  BY <1>2
<1>3. ASSUME NEW t \in Tasks, RefreshBegins(t) PROVE RebuildIsOfCategory'
  BY <1>3 DEF RefreshBegins, selectionVars
<1>4. ASSUME NEW t \in Tasks, RefreshEnds(t) PROVE RebuildIsOfCategory'
  BY <1>4 DEF RefreshEnds, selectionVars, listVars
<1>5. ASSUME NEW t \in Tasks, RebuildBegins(t) PROVE RebuildIsOfCategory'
  BY <1>5 DEF RebuildBegins, Rebuilding, selectionVars
<1>6. ASSUME NEW t \in Tasks, RebuildEnds(t) PROVE RebuildIsOfCategory'
  BY <1>6 DEF RebuildEnds, selectionVars
<1>7. ASSUME NEW t \in Tasks, MountItem(t) PROVE RebuildIsOfCategory'
  BY <1>1, <1>7 DEF MountItem, selectionVars, taskVars
<1>8. ASSUME NEW l \in Lists, MoveIn(l) \/ EnterIn(l) PROVE RebuildIsOfCategory'
  BY <1>1, <1>8 DEF MoveIn, EnterIn, selectionVars, taskVars
<1>9. CASE Background \/ PollBegins \/ \E t \in Tasks : ProbeEnds(t)
  BY <1>9 DEF Background, PollBegins, ProbeEnds, selectionVars, listVars
<1>10. CASE ConfirmCategory \/ ActivateCategory \/ ActivateSection
  BY <1>2, <1>10 DEF ConfirmCategory, ActivateCategory, ActivateSection, Takes
<1>11. CASE IgnoreHighlight \/ FocusAfterRefresh \/ ToggleFocus \/ UNCHANGED vars
  BY <1>1, <1>11 DEF IgnoreHighlight, Takes, FocusAfterRefresh, ToggleFocus, vars,
                     selectionVars, listVars, taskVars
<1>12. CASE OpenSelectedItem \/ NavigateBack \/ ViewKey \/ UnlockKey
  BY <1>2, <1>12 DEF OpenSelectedItem, NavigateBack, ViewKey, UnlockKey, listVars
<1>13. CASE DialogEnds
  BY <1>13 DEF DialogEnds, selectionVars, listVars
<1> QED
  BY <1>3, <1>4, <1>5, <1>6, <1>7, <1>8, <1>9, <1>10, <1>11, <1>12, <1>13
     DEF Next, HandleMessage, RefreshSteps

\* An item of a list, taken in a message, is one that may be listed.
LEMMA ItemsAreListable ==
    ASSUME NEW l \in Lists, ListsAreListed, NEW i \in DOMAIN Items(l)
    PROVE  Items(l)[i] \in Listable(l) /\ Items(l)[i] \in Categories \cup AllListed
<1>1. listed \in Seq(AllListed) /\ CategoryList \in Seq(Categories)
  BY NavigationAssumption DEF ListsAreListed, Categories, ToSet
<1> QED
  BY <1>1 DEF Items, Listable, Lists

\* What a list posts when its index is set, to an item or to none.
LEMMA PostsAreMessages ==
    ASSUME NEW l \in Lists, ListsAreListed, NEW to \in {0} \cup DOMAIN Items(l)
    PROVE  Posts(l, to) \in Seq(Messages)
<1>1. CASE to \in {0, index[l]}
  BY <1>1 DEF Posts
<1>2. CASE to \notin {0, index[l]}
  <2>1. Highlighted(l, Items(l)[to]) \in Messages
    BY <1>2, ItemsAreListable DEF Messages, Highlighted, Message
  <2> QED
    BY <1>2, <2>1 DEF Posts
<1> QED
  BY <1>1, <1>2

\* The place in the sidebar, once its list is that of the category.
LEMMA SidebarPlace ==
    ASSUME Selects
    PROVE  SidebarIndex \in 1 .. Len(get_category_sections(category))
<1>1. category \in Categories /\ section \in ToSet(get_category_sections(category))
  BY DEF Selects, SelectionIsListed, SelectionIsConsistent, Sections
<1>2. get_category_sections(category) \in Seq(AllListed)
  BY <1>1, CategoryTables
<1> QED
  BY <1>1, <1>2, Positions DEF SidebarIndex

\* The lists are synced with whatever the sidebar has so far.
LEMMA SyncPosts ==
    ASSUME Selects, ListsAreListed, SyncIndexes
    PROVE  queue' \in Seq(Messages)
<1> DEFINE cat == Position(CategoryList, category)
           side == Clamped("sidebar", SidebarIndex)
<1>1. queue' = queue \o Posts("categories", cat) \o Posts("sidebar", side)
  BY DEF SyncIndexes, Lists
<1>2. cat \in DOMAIN Items("categories")
  <2>1. category \in ToSet(CategoryList) /\ CategoryList \in Seq(TOP_LEVEL_CATEGORIES)
    BY NavigationAssumption DEF Selects, SelectionIsListed, Categories
  <2> QED
    BY <2>1, Positions DEF Items
<1>3. side \in {0} \cup DOMAIN Items("sidebar")
  BY SidebarPlace DEF Clamped, Items, ListsAreListed
<1>4. Posts("categories", cat) \in Seq(Messages) /\ Posts("sidebar", side) \in Seq(Messages)
  BY <1>2, <1>3, PostsAreMessages DEF Lists
<1> HIDE DEF cat, side
<1> QED
  BY <1>1, <1>4 DEF ListsAreListed

\* Every step keeps what is listed and what is posted among the sections and categories.
LEMMA ListsStep ==
    ASSUME Selects, ListsAreListed, RebuildIsOfCategory, [Next]_vars
    PROVE  ListsAreListed'
<1> DEFINE Lst == UNCHANGED <<listed, snapshot>>
<1>1. ASSUME Lst, queue' = queue PROVE ListsAreListed'
  BY <1>1 DEF ListsAreListed
<1>2. ASSUME Lst, queue' \in Seq(Messages) PROVE ListsAreListed'
  BY <1>2 DEF ListsAreListed
<1>3. ASSUME NEW l \in Lists, NEW i \in DOMAIN Items(l), NEW a \in {"highlight", "selected"}, Lst,
             queue' = Append(queue, Message(l, Items(l)[i], a))
      PROVE  ListsAreListed'
  <2>1. Message(l, Items(l)[i], a) \in Messages
    BY ItemsAreListable DEF Messages, Message
  <2> QED
    BY <1>2, <1>3, <2>1 DEF ListsAreListed
<1>4. ASSUME NEW l \in Lists, MoveIn(l) PROVE ListsAreListed'
  <2>1. PICK i \in DOMAIN Items(l) : queue' = Append(queue, Highlighted(l, Items(l)[i]))
    BY <1>4 DEF MoveIn
  <2> QED
    BY <1>3, <1>4, <2>1 DEF MoveIn, Highlighted
<1>5. ASSUME NEW l \in Lists, EnterIn(l) PROVE ListsAreListed'
  BY <1>3, <1>5 DEF EnterIn
<1>6. ASSUME NEW t \in Tasks, RefreshBegins(t) PROVE ListsAreListed'
  BY <1>1, <1>2, <1>6, SyncPosts DEF RefreshBegins
<1>7. ASSUME NEW t \in Tasks, RebuildBegins(t) PROVE ListsAreListed'
  <2>1. get_category_sections(category) \in Seq(AllListed)
    BY CategoryTables DEF Selects, SelectionIsListed
  <2> QED
    BY <1>7, <2>1 DEF RebuildBegins, ListsAreListed
<1>8. ASSUME NEW t \in Tasks, MountItem(t) PROVE ListsAreListed'
  <2>1. Len(listed) + 1 \in DOMAIN snapshot
    BY <1>8 DEF MountItem, ListsAreListed
  <2>2. snapshot[Len(listed) + 1] \in AllListed
    BY <2>1 DEF ListsAreListed
  <2> QED
    BY <1>8, <2>2 DEF MountItem, ListsAreListed
<1>9. ASSUME NEW t \in Tasks, RebuildEnds(t) PROVE ListsAreListed'
  <2>1. CASE holder = t
    BY <1>2, <1>9, <2>1, SyncPosts DEF RebuildEnds
  <2>2. CASE holder # t
    <3>1. t = "pump"
      BY <1>9, <2>2 DEF RebuildEnds, RebuildIsOfCategory, Tasks
    <3>2. SidebarIndex \in DOMAIN Items("sidebar")
      BY <1>9, <3>1, SidebarPlace DEF RebuildEnds, RebuildIsOfCategory, ListsAreListed, Items
    <3>3. Posts("sidebar", SidebarIndex) \in Seq(Messages)
      BY <3>2, PostsAreMessages DEF Lists
    <3>4. queue' = queue \o Posts("sidebar", SidebarIndex) /\ Lst
      BY <1>9, <2>2 DEF RebuildEnds
    <3> QED
      BY <1>2, <3>3, <3>4 DEF ListsAreListed
  <2> QED
    BY <2>1, <2>2
<1>10. ASSUME NEW t \in Tasks, RefreshEnds(t) PROVE ListsAreListed'
  BY <1>1, <1>10 DEF RefreshEnds, listVars
<1>11. ASSUME NEW list \in Lists, Takes(list) PROVE ListsAreListed'
  <2>1. queue' \in Seq(Messages) /\ Lst
    BY <1>11 DEF Takes, ListsAreListed
  <2> QED
    BY <1>2, <2>1
<1>12. CASE ConfirmCategory \/ ActivateCategory \/ ActivateSection \/ IgnoreHighlight
  BY <1>11, <1>12 DEF ConfirmCategory, ActivateCategory, ActivateSection, IgnoreHighlight, Lists
<1>13. CASE ToggleFocus \/ \E t \in Tasks : ProbeEnds(t)
  BY <1>2, <1>13, SyncPosts DEF ToggleFocus, ProbeEnds
<1>14. CASE FocusAfterRefresh \/ Background \/ PollBegins \/ UnlockKey \/ DialogEnds
            \/ OpenSelectedItem \/ NavigateBack \/ ViewKey \/ UNCHANGED vars
  BY <1>1, <1>14 DEF FocusAfterRefresh, Background, PollBegins, UnlockKey, DialogEnds,
                     OpenSelectedItem, NavigateBack, ViewKey, vars, listVars
<1> QED
  BY <1>4, <1>5, <1>6, <1>7, <1>8, <1>9, <1>10, <1>12, <1>13, <1>14
     DEF Next, HandleMessage, RefreshSteps

-----------------------------------------------------------------------------
(* The theorems. *)

\* The first category, its default section and their lists.
LEMMA NavigationInitially == Init => NavigationInv
<1> SUFFICES ASSUME Init PROVE NavigationInv
  OBVIOUS
<1>1. category \in Categories
  <2>1. Head(CategoryList) = CategoryList[1] /\ 1 \in DOMAIN CategoryList
    BY NavigationAssumption
  <2> QED
    BY <2>1 DEF Init, Categories, ToSet
<1>2. section \in Sections(category) /\ section = get_default_section(category)
  BY <1>1, CategoryTables DEF Init
<1>3. remembered \in [Categories -> AllListed] /\ remembered[category] = section
  BY <1>1, <1>2, CategoryTables DEF Init
<1>4. section \in AllListed
  BY <1>1, <1>2, CategoryTables
<1>5. /\ stack = <<[section |-> section, mode |-> "list"]>> /\ Len(stack) = 1 /\ DOMAIN stack = {1}
      /\ stack \in Seq([section : AllListed, mode : {"list", "detail"}])
  BY <1>4 DEF Init
<1>6. SelectionIsListed
  BY <1>1, <1>3, <1>5 DEF SelectionIsListed
<1>7. SelectionIsConsistent
  BY <1>2, <1>3, <1>5 DEF Init, SelectionIsConsistent
<1>8. ListsAreListed
  BY <1>1, CategoryTables DEF Init, ListsAreListed
<1>9. RebuildIsOfCategory
  BY DEF Init, RebuildIsOfCategory, Tasks, Places
<1> QED
  BY <1>6, <1>7, <1>8, <1>9 DEF NavigationInv

\* Navigation keeps its inductive invariant.
THEOREM NavigationHolds == Spec => []NavigationInv
<1>1. NavigationInv /\ [Next]_vars => NavigationInv'
  BY SelectionStep, ListsStep, RebuildStep DEF NavigationInv, Selects
<1> QED
  BY <1>1, NavigationInitially, PTL DEF Spec

\* The section is one of the category's and the one remembered for it, the views are of the
\* section, and the pane has the focus only over a table (SelectionIsConsistent).
THEOREM SelectionStaysConsistent == Spec => []SelectionIsConsistent
<1>1. NavigationInv => SelectionIsConsistent
  BY DEF NavigationInv
<1> QED
  BY <1>1, NavigationHolds, PTL

-----------------------------------------------------------------------------
(* What the lists show. *)

\* What is at the place of a member.
LEMMA PositionsHold ==
    ASSUME NEW S, NEW list \in Seq(S), NEW x \in ToSet(list)
    PROVE  list[Position(list, x)] = x
  BY DEF ToSet, Position

\* Once the sidebar is that of the category, syncing puts the cursors on the selection.
LEMMA SyncShows ==
    ASSUME Selects, SyncIndexes, listed = get_category_sections(category),
           UNCHANGED <<category, section, listed>>
    PROVE  index' \in [Lists -> Nat] /\ \A l \in Lists : Shown(l)'
<1> DEFINE cat == Position(CategoryList, category)
<1>1. /\ category \in ToSet(CategoryList) /\ CategoryList \in Seq(TOP_LEVEL_CATEGORIES)
      /\ section \in ToSet(listed) /\ listed \in Seq(AllListed)
  BY NavigationAssumption, CategoryTables
     DEF Selects, SelectionIsListed, SelectionIsConsistent, Categories, Sections
<1>2. cat \in 1 .. Len(CategoryList) /\ CategoryList[cat] = category
  BY <1>1, Positions, PositionsHold
<1>3. SidebarIndex \in 1 .. Len(listed) /\ listed[SidebarIndex] = section
  BY <1>1, Positions, PositionsHold DEF SidebarIndex
<1>4. Clamped("sidebar", SidebarIndex) = SidebarIndex
  BY <1>1, <1>3 DEF Clamped, Items
<1>5. index' = [l \in Lists |-> IF l = "categories" THEN cat ELSE SidebarIndex]
  BY <1>4 DEF SyncIndexes
<1>6. Len(CategoryList) \in Nat /\ Len(listed) \in Nat /\ DOMAIN CategoryList = 1 .. Len(CategoryList)
      /\ DOMAIN listed = 1 .. Len(listed)
  BY <1>1
<1> HIDE DEF cat
<1>7. Shown("categories")'
  BY <1>2, <1>5, <1>6 DEF Shown, Under, Items, Lists
<1>8. Shown("sidebar")'
  BY <1>3, <1>5, <1>6 DEF Shown, Under, Items, Lists
<1> QED
  BY <1>2, <1>3, <1>5, <1>6, <1>7, <1>8 DEF Lists

\* A message of a list tells where its cursor is; those of the other list are as they were.
LEMMA MessageTells ==
    ASSUME index \in [Lists -> Nat], ListsAreListed, NEW l \in Lists, NEW i \in DOMAIN Items(l), NEW a,
           \A k \in Lists : Shown(k) \/ LastTells(k),
           queue' = Append(queue, Message(l, Items(l)[i], a)), index' = [index EXCEPT ![l] = i],
           UNCHANGED <<category, section, listed>>
    PROVE  index' \in [Lists -> Nat] /\ \A k \in Lists : (Shown(k) \/ LastTells(k))'
<1>0. PICK m : m = Message(l, Items(l)[i], a)
  OBVIOUS
<1>1. /\ Len(queue) \in Nat /\ DOMAIN queue = 1 .. Len(queue)
      /\ DOMAIN queue' = 1 .. Len(queue) + 1
      /\ queue'[Len(queue) + 1] = m
      /\ \A j \in 1 .. Len(queue) : queue'[j] = queue[j]
  BY <1>0 DEF ListsAreListed
<1>2. m.list = l /\ m.item = Items(l)[i]
  BY <1>0 DEF Message
<1>3. i \in Nat /\ index' \in [Lists -> Nat] /\ index'[l] = i
      /\ \A k \in Lists : k # l => index'[k] = index[k]
  <2>1. i \in Nat
    BY NavigationAssumption DEF Items, ListsAreListed
  <2> QED
    BY <2>1
<1>4. \A k \in Lists : Items(k)' = Items(k)
  BY DEF Items
<1>5. LastTells(l)'
  <2> DEFINE n == Len(queue) + 1
  <2>1. Under(l, m.item)'
    BY <1>2, <1>3, <1>4 DEF Under
  <2>2. PICK last : last = n
    OBVIOUS
  <2>3. last \in DOMAIN queue' /\ queue'[last] = m /\ \A j \in DOMAIN queue' : ~(j > last)
    BY <1>1, <2>2
  <2> QED
    BY <1>2, <2>1, <2>3 DEF LastTells
<1>6. ASSUME NEW k \in Lists, k # l PROVE (Shown(k) \/ LastTells(k))'
  <2>1. \A item : Under(k, item)' <=> Under(k, item)
    BY <1>3, <1>4, <1>6 DEF Under
  <2>2. CASE Shown(k)
    BY <2>1, <2>2 DEF Shown
  <2>3. CASE LastTells(k)
    <3>1. PICK n \in DOMAIN queue : /\ queue[n].list = k /\ Under(k, queue[n].item)
                                   /\ \A j \in DOMAIN queue : j > n => queue[j].list # k
      BY <2>3 DEF LastTells
    <3>2. n \in DOMAIN queue' /\ queue'[n] = queue[n] /\ Under(k, queue[n].item)'
      BY <1>1, <2>1, <3>1
    <3>3. \A j \in DOMAIN queue' : j > n => queue'[j].list # k
      BY <1>1, <1>2, <1>6, <3>1
    <3> QED
      BY <3>1, <3>2, <3>3 DEF LastTells
  <2> QED
    BY <1>6, <2>2, <2>3
<1> QED
  BY <1>3, <1>5, <1>6

\* Taking the first message, if it names what is selected, leaves every list shown or told of.
LEMMA TakenIsShown ==
    ASSUME ListsAreListed, NEW l \in Lists, Takes(l), UNCHANGED <<category, section>>,
           Chosen = IF l = "categories" THEN category ELSE section,
           \A k \in Lists : Shown(k) \/ LastTells(k)
    PROVE  \A k \in Lists : (Shown(k) \/ LastTells(k))'
<1>1. /\ Len(queue) \in Nat /\ Len(queue) > 0 /\ DOMAIN queue = 1 .. Len(queue)
      /\ DOMAIN queue' = 1 .. Len(queue) - 1
      /\ \A j \in 1 .. Len(queue) - 1 : queue'[j] = queue[j + 1]
      /\ queue[1].list = l /\ queue[1].item = Chosen
  BY DEF ListsAreListed, Takes, Chosen
<1>2. \A k \in Lists : \A item : Under(k, item)' <=> Under(k, item)
  BY DEF Takes, Under, Items
<1>3. ASSUME NEW k \in Lists, Shown(k) PROVE Shown(k)'
  BY <1>2, <1>3 DEF Shown
<1>4. ASSUME NEW k \in Lists, LastTells(k) PROVE (Shown(k) \/ LastTells(k))'
  <2>1. PICK n \in DOMAIN queue : /\ queue[n].list = k /\ Under(k, queue[n].item)
                                 /\ \A j \in DOMAIN queue : j > n => queue[j].list # k
    BY <1>4 DEF LastTells
  <2>2. CASE n = 1
    <3>1. k = l /\ Under(k, IF k = "categories" THEN category ELSE section)
      BY <1>1, <2>1, <2>2
    <3> QED
      BY <1>2, <3>1 DEF Shown
  <2>3. CASE n # 1
    <3>1. n - 1 \in DOMAIN queue' /\ queue'[n - 1] = queue[n]
      BY <1>1, <2>3
    <3>2. ASSUME NEW j \in DOMAIN queue', j > n - 1 PROVE queue'[j].list # k
      <4>1. j \in 1 .. Len(queue) - 1 /\ n \in 1 .. Len(queue)
        BY <1>1, <2>1
      <4>2. j + 1 \in DOMAIN queue /\ j + 1 > n
        BY <1>1, <3>2, <4>1
      <4>3. queue'[j] = queue[j + 1]
        BY <1>1, <4>1
      <4> QED
        BY <2>1, <4>2, <4>3
    <3>3. Under(k, queue[n - 1].item)'
      BY <1>2, <2>1, <3>1
    <3> QED
      BY <2>1, <3>1, <3>2, <3>3 DEF LastTells
  <2> QED
    BY <2>2, <2>3
<1> QED
  BY <1>3, <1>4

\* Wherever the sidebar stands, syncing leaves indexes.
LEMMA SyncIndexing ==
    ASSUME Selects, ListsAreListed, SyncIndexes
    PROVE  index' \in [Lists -> Nat]
<1>1. category \in ToSet(CategoryList) /\ CategoryList \in Seq(TOP_LEVEL_CATEGORIES)
  BY NavigationAssumption DEF Selects, SelectionIsListed, Categories
<1>2. Position(CategoryList, category) \in Nat
  BY <1>1, Positions
<1>3. get_category_sections(category) \in Seq(AllListed)
  BY CategoryTables DEF Selects, SelectionIsListed
<1>4. SidebarIndex \in Nat /\ Len(listed) \in Nat
  BY <1>3, SidebarPlace DEF ListsAreListed
<1>5. Clamped("sidebar", SidebarIndex) \in Nat
  BY <1>4 DEF Clamped, Items
<1> QED
  BY <1>2, <1>5 DEF SyncIndexes, Lists

\* A rebuild empties the sidebar and mounts what it will show, one by one.
LEMMA MountStep ==
    ASSUME Selects, ListsAreListed, RebuildIsOfCategory, MountsInOrder, [Next]_vars
    PROVE  MountsInOrder'
<1> DEFINE Lst == UNCHANGED <<listed, snapshot>>
<1>0. /\ listed \in Seq(AllListed) /\ snapshot \in Seq(AllListed)
      /\ Len(listed) \in Nat /\ Len(snapshot) \in Nat
      /\ at \in [Tasks -> Places]
  BY DEF ListsAreListed, RebuildIsOfCategory
<1> USE DEF Places
<1>1. ASSUME Lst, \A t \in Tasks : at'[t] = "mount" <=> at[t] = "mount" PROVE MountsInOrder'
  BY <1>1 DEF MountsInOrder, Rebuilding, Tasks
<1>2. ASSUME NEW t \in Tasks, NEW place \in Places \ {"mount"}, Lst,
             at[t] # "mount", Goes(t, place)
      PROVE  MountsInOrder'
  BY <1>0, <1>1, <1>2 DEF Goes
<1>3. ASSUME Lst, UNCHANGED at PROVE MountsInOrder'
  BY <1>1, <1>3
<1>4. ASSUME NEW t \in Tasks, RebuildBegins(t) PROVE MountsInOrder'
  <2>1. \A u \in Tasks : at'[u] = IF u = t THEN "mount" ELSE at[u]
    BY <1>0, <1>4 DEF RebuildBegins, Goes
  <2>2. \A u \in Tasks : at[u] # "mount"
    BY <1>4 DEF RebuildBegins, Rebuilding
  <2>3. Rebuilding' /\ (at'["pump"] = "mount" => at'["observer"] # "mount")
    BY <2>1, <2>2 DEF Rebuilding, Tasks
  <2>4. listed' = <<>> /\ Len(snapshot') \in Nat /\ Len(listed') = 0
    <3>1. get_category_sections(category) \in Seq(AllListed)
      BY CategoryTables DEF Selects, SelectionIsListed
    <3> QED
      BY <1>4, <3>1 DEF RebuildBegins
  <2> QED
    BY <2>3, <2>4 DEF MountsInOrder
<1>5. ASSUME NEW t \in Tasks, MountItem(t) PROVE MountsInOrder'
  <2>1. /\ Len(listed') = Len(listed) + 1 /\ snapshot' = snapshot /\ at' = at
        /\ \A i \in 1 .. Len(listed) : listed'[i] = listed[i]
        /\ listed'[Len(listed) + 1] = snapshot[Len(listed) + 1]
        /\ Len(listed) < Len(snapshot)
    BY <1>0, <1>5 DEF MountItem, taskVars
  <2>2. Len(listed') <= Len(snapshot') /\ \A i \in 1 .. Len(listed') : listed'[i] = snapshot'[i]
    BY <1>0, <2>1 DEF MountsInOrder
  <2>3. Rebuilding'
    BY <1>5, <2>1 DEF Rebuilding, MountItem
  <2> QED
    BY <2>1, <2>2, <2>3 DEF MountsInOrder
<1>6. ASSUME NEW t \in Tasks, RebuildEnds(t) PROVE MountsInOrder'
  <2>1. Lst /\ at[t] = "mount" /\ \A u \in Tasks : at'[u] = "mount" => at[u] = "mount" /\ u # t
    BY <1>0, <1>6 DEF RebuildEnds, Goes
  <2>2. listed = snapshot
    <3>1. Len(listed) = Len(snapshot) /\ \A i \in 1 .. Len(listed) : listed[i] = snapshot[i]
      BY <1>6 DEF RebuildEnds, MountsInOrder
    <3> QED
      BY <1>0, <3>1
  <2> QED
    BY <1>0, <2>1, <2>2 DEF MountsInOrder, Rebuilding, Tasks
<1>7. ASSUME NEW t \in Tasks, RefreshBegins(t) PROVE MountsInOrder'
  <2>1. CASE Goes(t, "draw")
    BY <1>2, <1>7, <2>1 DEF RefreshBegins
  <2>2. CASE Goes(t, "rebuild")
    BY <1>2, <1>7, <2>2 DEF RefreshBegins
  <2> QED
    BY <1>7, <2>1, <2>2 DEF RefreshBegins
<1>8. ASSUME NEW t \in Tasks, RefreshEnds(t) PROVE MountsInOrder'
  BY <1>2, <1>8 DEF RefreshEnds, listVars
<1>9. ASSUME NEW l \in Lists, MoveIn(l) \/ EnterIn(l) PROVE MountsInOrder'
  BY <1>3, <1>9 DEF MoveIn, EnterIn, taskVars
<1>10. CASE ConfirmCategory \/ ActivateCategory \/ ActivateSection
  <2>1. Lst /\ at["pump"] = "idle" /\ (Goes("pump", "refresh") \/ Goes("pump", "rebuild"))
    BY <1>10 DEF ConfirmCategory, ActivateCategory, ActivateSection, Takes
  <2> QED
    BY <1>2, <2>1 DEF Tasks
<1>11. CASE Background \/ PollBegins
  BY <1>2, <1>11 DEF Background, PollBegins, listVars, Tasks
<1>12. CASE IgnoreHighlight \/ FocusAfterRefresh \/ ToggleFocus \/ UNCHANGED vars
  BY <1>3, <1>12 DEF IgnoreHighlight, Takes, FocusAfterRefresh, ToggleFocus, vars, listVars,
                     taskVars
<1>13. CASE OpenSelectedItem \/ NavigateBack \/ ViewKey \/ UnlockKey
  BY <1>2, <1>13 DEF OpenSelectedItem, NavigateBack, ViewKey, UnlockKey, listVars, Tasks
<1>14. ASSUME NEW t \in Tasks, ProbeEnds(t) PROVE MountsInOrder'
  BY <1>2, <1>14 DEF ProbeEnds
<1>15. CASE DialogEnds
  <2>1. CASE Goes("pump", "password")
    BY <1>2, <1>15, <2>1 DEF DialogEnds, listVars, Tasks
  <2>2. CASE UNCHANGED at
    BY <1>3, <1>15, <2>2 DEF DialogEnds, listVars
  <2> QED
    BY <1>15, <2>1, <2>2 DEF DialogEnds
<1> QED
  BY <1>4, <1>5, <1>6, <1>7, <1>8, <1>9, <1>10, <1>11, <1>12, <1>13, <1>14, <1>15
     DEF Next, HandleMessage, RefreshSteps

\* Whoever leaves the pump between messages leaves each list shown or told of.
LEMMA FollowStep ==
    ASSUME Selects, ListsAreListed, RebuildIsOfCategory, ListsFollow, [Next]_vars
    PROVE  index' \in [Lists -> Nat] /\ PumpHasSynced'
<1> DEFINE Sel == UNCHANGED <<category, section>>
           Lst == UNCHANGED <<listed, snapshot>>
           Told == \A l \in Lists : Shown(l) \/ LastTells(l)
           Done == index' \in [Lists -> Nat] /\ PumpHasSynced'
           Synced == at["pump"] \notin Behind
<1>0. /\ index \in [Lists -> Nat] /\ MountsInOrder /\ PumpHasSynced
      /\ at \in [Tasks -> Places]
      /\ listed \in Seq(AllListed)
  BY DEF ListsFollow, RebuildIsOfCategory, ListsAreListed
<1> USE DEF Behind
<1>1. ASSUME UNCHANGED <<category, section, listed, index, queue>> PROVE Told <=> Told'
  BY <1>1 DEF Shown, LastTells, Under, Items
<1>2. ASSUME Sel, Lst, UNCHANGED <<index, queue>>,
             at'["pump"] \notin Behind => at["pump"] \notin Behind,
             at'["observer"] \in {"rebuild", "mount"} => at["observer"] \in {"rebuild", "mount"}
      PROVE  Done
  BY <1>0, <1>1, <1>2 DEF PumpHasSynced
<1>3. ASSUME index' \in [Lists -> Nat], at'["pump"] \in Behind PROVE Done
  BY <1>3 DEF PumpHasSynced
<1>4. ASSUME NEW l \in Lists, NEW i \in DOMAIN Items(l), NEW a, Sel, Lst, UNCHANGED at,
             queue' = Append(queue, Message(l, Items(l)[i], a)), index' = [index EXCEPT ![l] = i]
      PROVE  Done
  <2>1. CASE Synced
    BY <1>0, <1>4, <2>1, MessageTells DEF PumpHasSynced
  <2>2. CASE ~Synced
    <3>1. i \in Nat
      BY <1>0, NavigationAssumption DEF Items
    <3> QED
      BY <1>0, <1>3, <1>4, <2>2, <3>1
  <2> QED
    BY <2>1, <2>2
<1>5. ASSUME NEW l \in Lists, MoveIn(l) PROVE Done
  <2>1. PICK i \in DOMAIN Items(l) : index' = [index EXCEPT ![l] = i]
                                     /\ queue' = Append(queue, Highlighted(l, Items(l)[i]))
    BY <1>5 DEF MoveIn
  <2> QED
    BY <1>4, <1>5, <2>1 DEF MoveIn, Highlighted, selectionVars, taskVars
<1>6. ASSUME NEW l \in Lists, EnterIn(l) PROVE Done
  <2>1. index' = [index EXCEPT ![l] = index[l]]
    BY <1>0, <1>6 DEF EnterIn
  <2> QED
    BY <1>4, <1>6, <2>1 DEF EnterIn, selectionVars, taskVars
<1>7. ASSUME Sel, Lst, SyncIndexes, listed = get_category_sections(category),
             snapshot = get_category_sections(category),
             at'["observer"] \notin {"rebuild", "mount"}
      PROVE  Done
  BY <1>7, SyncShows DEF PumpHasSynced
<1>8. ASSUME SyncIndexes, at'["pump"] \in Behind PROVE Done
  BY <1>3, <1>8, SyncIndexing
<1> HIDE DEF Done
<1>9. ASSUME NEW t \in Tasks, RefreshBegins(t) PROVE Done
  <2>1. Sel /\ Lst /\ at[t] = "refresh" /\ holder = None
    BY <1>9 DEF RefreshBegins, selectionVars
  <2>2. at["observer"] \notin {"rebuild", "mount"} /\ \A u \in Tasks : at[u] # "draw"
    BY <2>1 DEF RebuildIsOfCategory, Tasks, None
  <2>3. CASE SyncIndexes /\ Goes(t, "draw") /\ snapshot = get_category_sections(category)
    <3>1. CASE at'["pump"] \notin Behind
      <4>1. ~Rebuilding /\ at'["observer"] \notin {"rebuild", "mount"}
        BY <1>0, <2>1, <2>2, <2>3, <3>1 DEF Goes, Rebuilding, Tasks
      <4>2. listed = get_category_sections(category)
        BY <1>0, <2>3, <4>1 DEF MountsInOrder
      <4> QED
        BY <1>7, <2>1, <2>3, <4>1, <4>2
    <3>2. CASE at'["pump"] \in Behind
      BY <1>8, <2>3, <3>2
    <3> QED
      BY <3>1, <3>2
  <2>4. CASE Goes(t, "rebuild") /\ UNCHANGED <<index, queue>>
             /\ snapshot # get_category_sections(category)
    <3>1. at'["pump"] \in Behind
      BY <1>0, <2>1, <2>2, <2>4 DEF Goes, PumpHasSynced, Tasks
    <3> QED
      BY <1>0, <1>3, <2>4, <3>1
  <2> QED
    BY <1>9, <2>3, <2>4 DEF RefreshBegins
<1>10. ASSUME NEW t \in Tasks, RebuildEnds(t) PROVE Done
  <2>1. Sel /\ Lst /\ at[t] = "mount"
    BY <1>10 DEF RebuildEnds, selectionVars
  <2>2. CASE holder = t /\ SyncIndexes /\ Goes(t, "draw") /\ t = "pump"
    <3>1. snapshot = get_category_sections(category) /\ listed = snapshot
      <4>1. Len(listed) = Len(snapshot) /\ \A i \in 1 .. Len(listed) : listed[i] = snapshot[i]
        BY <1>10, <1>0 DEF RebuildEnds, MountsInOrder
      <4> QED
        BY <2>1, <2>2, <4>1 DEF RebuildIsOfCategory, ListsAreListed
    <3>2. at["observer"] # "mount" /\ at'["observer"] = at["observer"]
      BY <1>0, <2>1, <2>2 DEF MountsInOrder, Goes, Tasks
    <3>3. at["observer"] # "rebuild"
      BY <2>2 DEF RebuildIsOfCategory
    <3> QED
      BY <1>7, <2>1, <2>2, <3>1, <3>2, <3>3
  <2>3. CASE SyncIndexes /\ t = "observer"
    <3>1. at'["pump"] = at["pump"] /\ at["pump"] \in Behind
      BY <1>0, <1>10, <2>1, <2>3 DEF PumpHasSynced, RebuildEnds, Goes, Tasks
    <3> QED
      BY <1>8, <2>3, <3>1
  <2>4. CASE holder # t
    <3>1. t = "pump" /\ Goes(t, "refresh") /\ index' = [index EXCEPT !["sidebar"] = SidebarIndex]
      BY <1>10, <2>1, <2>4 DEF RebuildEnds, RebuildIsOfCategory, Tasks
    <3>2. SidebarIndex \in Nat
      <4>1. get_category_sections(category) \in Seq(AllListed)
        BY CategoryTables DEF Selects, SelectionIsListed
      <4> QED
        BY <4>1, SidebarPlace
    <3> QED
      BY <1>0, <1>3, <3>1, <3>2 DEF Goes, Tasks
  <2>5. t = "pump" \/ t = "observer"
    BY DEF Tasks
  <2> QED
    BY <1>10, <2>2, <2>3, <2>4, <2>5 DEF RebuildEnds
<1>11. ASSUME NEW t \in Tasks, RefreshEnds(t) PROVE Done
  BY <1>0, <1>2, <1>11 DEF RefreshEnds, Goes, selectionVars, listVars, Tasks
<1>12. ASSUME NEW t \in Tasks, RebuildBegins(t) \/ MountItem(t) PROVE Done
  <2>1. UNCHANGED <<index, queue>> /\ at[t] \in {"rebuild", "mount"}
        /\ (Goes(t, "mount") \/ UNCHANGED at)
    BY <1>12 DEF RebuildBegins, MountItem, taskVars
  <2>2. at'["pump"] \in Behind
    BY <1>0, <2>1 DEF PumpHasSynced, Goes, Tasks
  <2> QED
    BY <1>0, <1>3, <2>1, <2>2
<1>13. CASE Background \/ PollBegins \/ DialogEnds
  BY <1>0, <1>2, <1>13
     DEF Done, Background, PollBegins, DialogEnds, Goes, selectionVars, listVars, Tasks
<1>14. CASE IgnoreHighlight
  <2>1. Sel /\ Lst /\ UNCHANGED <<index, at>> /\ at["pump"] = "idle"
    BY <1>14 DEF IgnoreHighlight, Takes, selectionVars
  <2>2. PICK l \in Lists : Takes(l) /\ Chosen = IF l = "categories" THEN category ELSE section
    <3>1. CASE Takes("categories") /\ Chosen = category
      BY <3>1 DEF Lists
    <3>2. CASE Takes("sidebar") /\ canonical_tui_section(Chosen) = section
      <4>1. queue # <<>> /\ Head(queue).list = "sidebar" /\ Head(queue) \in Messages
        BY <3>2 DEF Takes, ListsAreListed
      <4>2. Chosen \in AllListed
        BY <4>1 DEF Messages, Listable, Chosen
      <4> QED
        BY <3>2, <4>2, ListedSections DEF Lists
    <3> QED
      BY <1>14, <3>1, <3>2 DEF IgnoreHighlight
  <2>3. Told'
    BY <1>0, <2>1, <2>2, TakenIsShown DEF PumpHasSynced
  <2> QED
    BY <1>0, <2>1, <2>3 DEF PumpHasSynced, Done
<1>15. CASE ConfirmCategory \/ ActivateCategory \/ ActivateSection
  <2>1. UNCHANGED index /\ (Goes("pump", "refresh") \/ Goes("pump", "rebuild"))
    BY <1>15 DEF ConfirmCategory, ActivateCategory, ActivateSection, Takes
  <2> QED
    BY <1>0, <1>3, <2>1 DEF Done, Goes, Tasks
<1>16. CASE ToggleFocus
  <2>1. Sel /\ Lst /\ UNCHANGED at /\ SyncIndexes /\ at["pump"] = "idle"
    BY <1>16 DEF ToggleFocus, selectionVars, taskVars
  <2>2. snapshot = get_category_sections(category) /\ at["observer"] \notin {"rebuild", "mount"}
    BY <1>0, <2>1 DEF PumpHasSynced
  <2>3. listed = snapshot
    BY <1>0, <2>1, <2>2 DEF MountsInOrder, Rebuilding, Tasks
  <2> QED
    BY <1>7, <2>1, <2>2, <2>3 DEF Done
<1>17. CASE FocusAfterRefresh \/ UNCHANGED vars
  BY <1>2, <1>17 DEF Done, FocusAfterRefresh, vars, selectionVars, listVars, taskVars
<1>18. CASE UnlockKey
  <2>1. Sel /\ Lst /\ UNCHANGED <<index, queue>> /\ at["pump"] = "idle"
    BY <1>18 DEF UnlockKey, selectionVars, listVars
  <2>2. at'["pump"] = "probe" /\ at'["observer"] = at["observer"]
    BY <1>0, <1>18 DEF UnlockKey, Goes, Tasks
  <2> QED
    BY <1>2, <2>1, <2>2 DEF Done
<1>19. ASSUME NEW t \in Tasks, ProbeEnds(t) PROVE Done
  <2>1. Sel /\ Lst /\ SyncIndexes /\ at[t] \in {"probe", "password"}
        /\ (Goes(t, "refresh") \/ Goes(t, "idle"))
    BY <1>19 DEF ProbeEnds, selectionVars
  <2>2. CASE at'["pump"] \in Behind
    BY <1>8, <2>1, <2>2
  <2>3. CASE at'["pump"] \notin Behind
    <3>1. at["pump"] \notin Behind /\ at'["observer"] \notin {"rebuild", "mount"}
          /\ snapshot = get_category_sections(category) /\ ~Rebuilding
      BY <1>0, <2>1, <2>3 DEF PumpHasSynced, Goes, Rebuilding, Tasks
    <3>2. listed = snapshot
      BY <1>0, <3>1 DEF MountsInOrder
    <3> QED
      BY <1>7, <2>1, <3>1, <3>2
  <2> QED
    BY <2>2, <2>3
<1>20. CASE OpenSelectedItem \/ NavigateBack \/ ViewKey
  <2>1. UNCHANGED index /\ Goes("pump", "refresh")
    BY <1>20 DEF OpenSelectedItem, NavigateBack, ViewKey, listVars
  <2> QED
    BY <1>0, <1>3, <2>1 DEF Done, Goes, Tasks
<1> QED
  BY <1>5, <1>6, <1>9, <1>10, <1>11, <1>12, <1>13, <1>14, <1>15, <1>16, <1>17, <1>18, <1>19, <1>20
     DEF Next, HandleMessage, RefreshSteps, Done

\* The first lists are those of the first category, and the pump is about to sync them.
LEMMA ListsInitially == Init => ListsFollow
<1> SUFFICES ASSUME Init PROVE ListsFollow
  OBVIOUS
<1>1. ListsAreListed
  BY NavigationInitially DEF NavigationInv
<1>2. Len(listed) \in Nat /\ listed = snapshot
  BY <1>1 DEF Init, ListsAreListed
<1>3. index \in [Lists -> Nat] /\ at["pump"] = "refresh"
  BY DEF Init, Tasks
<1> QED
  BY <1>2, <1>3 DEF ListsFollow, MountsInOrder, PumpHasSynced, Behind

\* The locks and the messages on their way keep the lists after the selection.
THEOREM ListsFollowTheSelection == Spec => [](NavigationInv /\ ListsFollow)
<1>1. NavigationInv /\ [Next]_vars => NavigationInv'
  BY SelectionStep, ListsStep, RebuildStep DEF NavigationInv, Selects
<1>2. NavigationInv /\ ListsFollow /\ [Next]_vars => ListsFollow'
  BY MountStep, FollowStep DEF NavigationInv, Selects, ListsFollow
<1> QED
  BY <1>1, <1>2, NavigationInitially, ListsInitially, PTL DEF Spec

\* When the pump has handled all messages, the lists on the screen are those of the selection,
\* with their cursors on it (ListsShowTheSelection).
THEOREM ListsShowWhatIsSelected == Spec => []ListsShowTheSelection
<1>1. NavigationInv /\ ListsFollow => ListsShowTheSelection
  <2> SUFFICES ASSUME NavigationInv, ListsFollow, Rest
               PROVE  /\ listed = get_category_sections(category)
                      /\ listed[index["sidebar"]] = section
                      /\ CategoryList[index["categories"]] = category
    BY DEF ListsShowTheSelection
  <2>1. /\ snapshot = get_category_sections(category) /\ ~Rebuilding
        /\ \A l \in Lists : Shown(l) \/ LastTells(l)
    BY DEF ListsFollow, PumpHasSynced, Behind, Rest, Rebuilding, Tasks
  <2>2. listed = snapshot
    BY <2>1 DEF ListsFollow, MountsInOrder
  <2>3. \A l \in Lists : ~LastTells(l)
    BY DEF Rest, LastTells
  <2>4. Shown("categories") /\ Shown("sidebar")
    BY <2>1, <2>3 DEF Lists
  <2> QED
    BY <2>1, <2>2, <2>4 DEF Shown, Under, Items
<1> QED
  BY <1>1, ListsFollowTheSelection, PTL

-----------------------------------------------------------------------------
(* Types. *)

\* What neither invariant says.
OtherTypes ==
    /\ startup \in BOOLEAN /\ focusPending \in BOOLEAN /\ dialog \in BOOLEAN
    /\ crowded \in BOOLEAN
    /\ focused \in {"categories", "sidebar", "detail"}
    /\ holder \in Tasks \cup {None} /\ keys \in 0 .. MaxKeys

\* A pane that is asked for, or the one that stands in for it, gets the focus.
LEMMA FocusIsOnAPane ==
    ASSUME OtherTypes, FocusAfterRefresh \/ ToggleFocus
    PROVE  focused' \in {"categories", "sidebar", "detail"} /\ focusPending' \in BOOLEAN
<1>1. ASSUME NEW pane \in {"categories", "sidebar", "detail"}, NEW pending \in BOOLEAN,
             SyncFocus(pane, pending)
      PROVE  focused' \in {"categories", "sidebar", "detail"} /\ focusPending' \in BOOLEAN
  BY <1>1 DEF SyncFocus
<1>2. CASE FocusAfterRefresh
  BY <1>1, <1>2 DEF FocusAfterRefresh, OtherTypes
<1>3. CASE ToggleFocus
  <2> DEFINE more == IF DetailAvailable THEN <<"detail">> ELSE <<>>
             Pane == {"categories", "sidebar", "detail"}
             panes == <<"categories", "sidebar">> \o more
             current == IF focused \in ToSet(panes) THEN Position(panes, focused) ELSE 1
  <2>1. SyncFocus(panes[(current % Len(panes)) + 1], focusPending) /\ focusPending \in BOOLEAN
    BY <1>3 DEF ToggleFocus, OtherTypes
  <2>2. more \in Seq(Pane) /\ Len(more) \in {0, 1}
    <3>1. CASE DetailAvailable
      <4>1. more = <<"detail">>
        BY <3>1
      <4> HIDE DEF more
      <4> QED  BY <4>1
    <3>2. CASE ~DetailAvailable
      <4>1. more = <<>>
        BY <3>2
      <4> HIDE DEF more
      <4> QED  BY <4>1
    <3> QED  BY <3>1, <3>2
  <2>3. <<"categories", "sidebar">> \in Seq(Pane) /\ Len(<<"categories", "sidebar">>) = 2
    OBVIOUS
  <2> HIDE DEF more, Pane
  <2>4. panes \in Seq(Pane) /\ Len(panes) \in {2, 3}
    BY <2>2, <2>3
  <2> HIDE DEF panes
  <2>5. current \in Nat
    BY <2>4, Positions
  <2> HIDE DEF current
  <2>6. (current % Len(panes)) + 1 \in 1 .. Len(panes)
    <3>1. CASE Len(panes) = 2
      BY <2>5, <3>1
    <3>2. CASE Len(panes) = 3
      BY <2>5, <3>2
    <3> QED  BY <2>4, <3>1, <3>2
  <2>7. panes[(current % Len(panes)) + 1] \in Pane
    BY <2>4, <2>6
  <2> QED  BY <1>1, <2>1, <2>7 DEF Pane
<1> QED  BY <1>2, <1>3

\* Every step keeps them.
LEMMA OtherTypesStep ==
    ASSUME OtherTypes, [Next]_vars
    PROVE  OtherTypes'
<1> USE DEF OtherTypes
<1>1. crowded' \in BOOLEAN
  <2>1. CASE Crowds
    BY <2>1 DEF Crowds
  <2>2. CASE crowded' = crowded
    BY <2>2
  <2> QED
    BY <2>1, <2>2
       DEF Next, HandleMessage, RefreshSteps, MoveIn, EnterIn, RefreshBegins, RefreshEnds,
           RebuildBegins, MountItem, RebuildEnds, ProbeEnds, Background, PollBegins, UnlockKey,
           DialogEnds, ConfirmCategory,
           ActivateCategory, ActivateSection, IgnoreHighlight, FocusAfterRefresh, ToggleFocus,
           OpenSelectedItem, NavigateBack, ViewKey, vars
<1>2. ASSUME Pressed PROVE keys' \in 0 .. MaxKeys
  BY <1>2, NavigationAssumption DEF Pressed
<1>3. ASSUME NEW l \in Lists, MoveIn(l) \/ EnterIn(l) PROVE OtherTypes'
  BY <1>1, <1>2, <1>3 DEF MoveIn, EnterIn, selectionVars, focusVars, taskVars
<1>4. ASSUME NEW t \in Tasks, RefreshBegins(t) \/ RefreshSteps(t) PROVE OtherTypes'
  BY <1>1, <1>4 DEF RefreshBegins, RefreshSteps, RefreshEnds, RebuildBegins, MountItem,
                    RebuildEnds, ProbeEnds, selectionVars, focusVars, taskVars
<1>5. CASE Background \/ PollBegins \/ DialogEnds \/ UNCHANGED vars
  BY <1>1, <1>5 DEF Background, PollBegins, DialogEnds, vars, selectionVars, focusVars
<1>6. CASE ConfirmCategory \/ IgnoreHighlight
  BY <1>1, <1>6 DEF ConfirmCategory, IgnoreHighlight, Takes, selectionVars, focusVars
<1>7. CASE ActivateCategory \/ ActivateSection
  <2>1. startup' = FALSE /\ LeavesDetail /\ UNCHANGED <<holder, keys>>
    BY <1>7 DEF ActivateCategory, ActivateSection, Reset, Takes
  <2> QED
    BY <1>1, <2>1 DEF LeavesDetail
<1>8. CASE FocusAfterRefresh \/ ToggleFocus
  <2>1. UNCHANGED <<startup, holder, dialog>> /\ keys' \in 0 .. MaxKeys
    BY <1>2, <1>8 DEF FocusAfterRefresh, ToggleFocus, SyncFocus, selectionVars, taskVars
  <2> QED
    BY <1>1, <1>8, <2>1, FocusIsOnAPane
<1>9. CASE OpenSelectedItem \/ NavigateBack \/ ViewKey \/ UnlockKey
  BY <1>1, <1>2, <1>9 DEF OpenSelectedItem, NavigateBack, ViewKey, UnlockKey, selectionVars,
                          focusVars
<1> QED
  BY <1>3, <1>4, <1>5, <1>6, <1>7, <1>8, <1>9 DEF Next, HandleMessage

\* What is selected, the lists' cursors, the locks and the focus keep their types.
THEOREM NavigationTypeCorrect == Spec => []TypeOK
<1>1. Init => OtherTypes
  <2> SUFFICES ASSUME Init PROVE OtherTypes
    OBVIOUS
  <2>1. startup = TRUE /\ focusPending = FALSE /\ dialog = FALSE /\ crowded = FALSE
        /\ focused = "categories"
    BY DEF Init
  <2>2. holder = None /\ keys \in 0 .. MaxKeys
    BY NavigationAssumption DEF Init
  <2> QED  BY <2>1, <2>2 DEF OtherTypes
<1>2. OtherTypes /\ [Next]_vars => OtherTypes'
  BY OtherTypesStep
<1>3. NavigationInv /\ ListsFollow /\ OtherTypes => TypeOK
  <2> SUFFICES ASSUME NavigationInv, ListsFollow, OtherTypes PROVE TypeOK
    OBVIOUS
  <2>1. category \in Categories /\ section \in AllListed
    BY DEF NavigationInv, SelectionIsListed, SelectionIsConsistent, AllListed
  <2>2. stack \in BoundedSeq([section : AllListed, mode : {"list", "detail"}], 2)
    <3> DEFINE View == [section : AllListed, mode : {"list", "detail"}]
    <3>1. stack \in Seq(View) /\ Len(stack) \in {1, 2}
      BY DEF NavigationInv, SelectionIsListed
    <3> HIDE DEF View
    <3>2. stack \in [1 .. Len(stack) -> View] /\ Len(stack) \in 0 .. 2
      BY <3>1
    <3>3. stack \in BoundedSeq(View, 2)
      BY <3>2 DEF BoundedSeq, SeqOf
    <3> QED  BY <3>3 DEF View
  <2> QED
    BY <2>1, <2>2
       DEF TypeOK, NavigationInv, SelectionIsListed, RebuildIsOfCategory, ListsFollow, OtherTypes
<1> QED
  BY <1>1, <1>2, <1>3, ListsFollowTheSelection, PTL DEF Spec
=============================================================================
