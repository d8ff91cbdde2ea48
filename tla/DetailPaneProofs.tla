--------------------------- MODULE DetailPaneProofs ---------------------------
(***************************************************************************)
(* Proofs that the pane shows the view on top of the stack and the store's *)
(* data, and that a redraw keeps the cursor on its row, for any sections,  *)
(* entries, searches and number of keys and changes.                       *)
(***************************************************************************)
EXTENDS DetailPane, FiniteSetTheorems, TLAPS

-----------------------------------------------------------------------------
(* The inductive invariant. *)

\* A view has its nine fields.
ViewFields ==
    {"section", "mode", "target", "cursor", "query", "sort", "follow", "live", "noise"}
IsView(v) == v = [field \in ViewFields |-> v[field]]

\* A list of the section at the bottom, and at most one view opened from it.
StackShape ==
    /\ \/ stack = <<stack[1]>>
       \/ /\ stack = <<stack[1], stack[2]>>
          /\ is_interactive_section(section)
    /\ IsView(stack[1]) /\ stack[1].mode = "list" /\ stack[1].section = section
    /\ Len(stack) = 2 =>
          IsView(stack[2]) /\ stack[2].mode = "detail" /\ stack[2].section = section

\* A signature tells what kind of content it signs, and of which section.
Signs(signature, content) ==
    /\ signature # NoDrawing
    /\ signature.kind = IF IsTable(content.view) THEN "interactive" ELSE "static"
    /\ signature.kind = "interactive" => signature.content = content
    /\ signature.kind = "static" => signature.section = content.view.section
    /\ ~is_interactive_section(content.view.section) =>
          content.view = default_view_state(content.view.section)

\* There is no way from one opened view to another but over the list, which is drawn first: a
\* content that is not a list of the section is the view's own.
Fits(content) ==
    content.view.section = section /\ content.view.mode # "list" /\ View.mode # "list" =>
        content.view = Visible(View)

Drawn == Signs(pane.signature, pane.content)

PaneInv ==
    /\ StackShape
    /\ at \in [Tasks -> {"idle", "refresh", "swap"}]
    /\ at["pump"] # "swap" \/ at["observer"] # "swap"
    /\ pane.signature = NoDrawing \/ Drawn
    /\ LockFree /\ Drawn => pane.kind = pane.signature.kind
    /\ Drawn => Fits(pane.content)
    /\ ~LockFree => Signs(drawing.signature, drawing.content) /\ drawing.content.view = Visible(View)
    /\ at["pump"] = "idle" => LockFree /\ Drawn /\ pane.content.view = Visible(View)

-----------------------------------------------------------------------------
(* Views. *)

\* The top of a stack replaced.
LEMMA TopReplaced ==
    ASSUME NEW s, s = <<s[1]>> \/ s = <<s[1], s[2]>>, NEW v
    PROVE  /\ s = <<s[1]>> => [s EXCEPT ![Len(s)] = v] = <<v>> /\ Len(s) = 1
           /\ s = <<s[1], s[2]>> => [s EXCEPT ![Len(s)] = v] = <<s[1], v>> /\ Len(s) = 2
<1>1. CASE s = <<s[1]>>
  <2>1. s \in Seq({s[1], v}) /\ Len(s) = 1 /\ <<v>> \in Seq({s[1], v})
    BY <1>1
  <2>2. [s EXCEPT ![Len(s)] = v] = <<v>>
    BY <2>1
  <2> QED
    BY <1>1, <2>1, <2>2
<1>2. CASE s = <<s[1], s[2]>>
  <2>1. \A a, b : /\ [<<a, b>> EXCEPT ![2] = v] = <<a, v>>
                 /\ Len(<<a, b>>) = 2 /\ <<a, b>> # <<a>>
    OBVIOUS
  <2>2. Len(s) = 2 /\ [s EXCEPT ![2] = v] = <<s[1], v>> /\ s # <<s[1]>>
    BY <1>2, <2>1, Zenon
  <2> QED
    BY <2>2
<1> QED
  BY <1>1, <1>2

\* A view put on the list, and taken from it.
LEMMA PairsAndTheirParts ==
    ASSUME NEW a, NEW b
    PROVE  Append(<<a>>, b) = <<a, b>> /\ SubSeq(<<a, b>>, 1, 1) = <<a>>
<1> DEFINE longer == Append(<<a>>, b)
           shorter == SubSeq(<<a, b>>, 1, 1)
<1>1. <<a>> \in Seq({a, b}) /\ Len(<<a>>) = 1 /\ <<a>>[1] = a
  OBVIOUS
<1>2. <<a, b>> \in Seq({a, b}) /\ Len(<<a, b>>) = 2 /\ <<a, b>>[1] = a
  OBVIOUS
<1>3. longer \in Seq({a, b}) /\ Len(longer) = 2
  BY <1>1
<1>4. longer[1] = a /\ longer[2] = b
  BY <1>1
<1>5. shorter \in Seq({a, b}) /\ Len(shorter) = 1
  BY <1>2
<1>6. shorter[1] = a
  BY <1>2
<1> HIDE DEF longer, shorter
<1>7. longer = <<a, b>>
  <2>1. longer = [i \in 1 .. 2 |-> IF i = 1 THEN a ELSE b]
    BY <1>3, <1>4
  <2>2. <<a, b>> = [i \in 1 .. 2 |-> IF i = 1 THEN a ELSE b]
    OBVIOUS
  <2> QED
    BY <2>1, <2>2
<1>8. shorter = <<a>>
  <2>1. shorter = [i \in 1 .. 1 |-> a]
    BY <1>5, <1>6
  <2>2. <<a>> = [i \in 1 .. 1 |-> a]
    OBVIOUS
  <2> QED
    BY <2>1, <2>2, Zenon
<1> QED
  BY <1>7, <1>8 DEF longer, shorter

\* The view of a list opened anew belongs to its section.
LEMMA DefaultViews ==
    ASSUME NEW s
    PROVE  /\ default_view_state(s).section = s /\ default_view_state(s).mode = "list"
           /\ Visible(default_view_state(s)).section = s
           /\ Visible(default_view_state(s)).mode = "list"
  BY DEF default_view_state, Visible

\* What is to be seen of a view has its section, and, where there are tables, its mode.
LEMMA VisibleViews ==
    ASSUME NEW view, view.mode \in {"list", "detail"},
           view.mode = "list" \/ is_interactive_section(view.section)
    PROVE  /\ IsTable(Visible(view)) <=> IsTable(view)
           /\ is_interactive_section(view.section) =>
                 Visible(view).section = view.section /\ Visible(view).mode = view.mode
           /\ Visible(view).section = view.section
           /\ Visible(view).mode = view.mode
           /\ ~is_interactive_section(view.section) =>
                 Visible(view) = default_view_state(view.section)
  BY DEF Visible, IsTable, default_view_state

\* The cursor is not a part of a view that is to be seen, nor are its live updates.
LEMMA CursorIsNotSeen ==
    ASSUME NEW view, IsView(view), NEW cursor, NEW live
    PROVE  LET moved == [view EXCEPT !.cursor = cursor]
               paused == [view EXCEPT !.live = live]
           IN  /\ IsView(moved) /\ IsView(paused)
               /\ moved.section = view.section /\ moved.mode = view.mode
               /\ paused.section = view.section /\ paused.mode = view.mode
               /\ Visible(moved) = Visible(view) /\ Visible(paused) = Visible(view)
<1> DEFINE moved == [view EXCEPT !.cursor = cursor]
           paused == [view EXCEPT !.live = live]
<1>1. /\ IsView(moved) /\ moved.section = view.section /\ moved.mode = view.mode
  BY DEF IsView, ViewFields
<1>2. /\ IsView(paused) /\ paused.section = view.section /\ paused.mode = view.mode
  BY DEF IsView, ViewFields
<1>3. ASSUME NEW x, NEW y
      PROVE  /\ [moved EXCEPT !.cursor = x, !.live = y] = [view EXCEPT !.cursor = x, !.live = y]
             /\ [paused EXCEPT !.cursor = x, !.live = y] = [view EXCEPT !.cursor = x, !.live = y]
  BY DEF IsView, ViewFields
<1>4. PICK no : no = FALSE
  OBVIOUS
<1> HIDE DEF moved, paused
<1>5. Visible(moved) = Visible(view)
  BY <1>1, <1>3, <1>4 DEF Visible
<1>6. Visible(paused) = Visible(view)
  BY <1>2, <1>3, <1>4 DEF Visible
<1> QED
  BY <1>1, <1>2, <1>5, <1>6 DEF moved, paused

\* A built view differs in the cursor of its list.
LEMMA BuiltViews ==
    ASSUME NEW view, IsView(view), NEW st
    PROVE  /\ IsView(Built(view, st))
           /\ Built(view, st).section = view.section /\ Built(view, st).mode = view.mode
           /\ Visible(Built(view, st)) = Visible(view)
<1>1. PICK cursor : Built(view, st) = view \/ Built(view, st) = [view EXCEPT !.cursor = cursor]
  BY DEF Built
<1>2. CASE Built(view, st) = view
  BY <1>2
<1>3. CASE Built(view, st) = [view EXCEPT !.cursor = cursor]
  <2>1. LET moved == [view EXCEPT !.cursor = cursor]
        IN  /\ IsView(moved) /\ moved.section = view.section /\ moved.mode = view.mode
            /\ Visible(moved) = Visible(view)
    BY CursorIsNotSeen
  <2> QED
    BY <1>3, <2>1
<1> QED
  BY <1>1, <1>2, <1>3

\* A drawing is signed.
LEMMA DrawingsAreSigned ==
    ASSUME NEW view, NEW st, view.mode \in {"list", "detail"},
           view.mode = "list" \/ is_interactive_section(view.section)
    PROVE  /\ Signs(Drawing(view, st).signature, Drawing(view, st).content)
           /\ Drawing(view, st).content.view = Visible(view)
           /\ Drawing(view, st).signature.kind = IF IsTable(view) THEN "interactive" ELSE "static"
<1> DEFINE content == Content(view, st)
           signature == Signature(view, st)
<1>1. Drawing(view, st).signature = signature /\ Drawing(view, st).content = content
  BY DEF Drawing
<1>2. content.view = Visible(view)
  BY DEF Content
<1>3. CASE IsTable(view)
  <2>1. signature = [kind |-> "interactive", content |-> content, selected |-> view.cursor]
    BY <1>3 DEF Signature
  <2>2. signature.kind = "interactive" /\ signature.content = content /\ signature # NoDrawing
    BY <2>1 DEF NoDrawing
  <2> HIDE DEF content, signature
  <2> QED
    BY <1>1, <1>2, <1>3, <2>2, VisibleViews DEF Signs, IsTable
<1>4. CASE ~IsTable(view)
  <2>1. PICK payload : signature = [kind |-> "static", section |-> view.section,
                                    mode |-> view.mode, target |-> view.target,
                                    payload |-> payload]
    BY <1>4 DEF Signature
  <2>2. signature.kind = "static" /\ signature.section = view.section /\ signature # NoDrawing
    BY <2>1 DEF NoDrawing
  <2> HIDE DEF content, signature
  <2> QED
    BY <1>1, <1>2, <1>4, <2>2, VisibleViews DEF Signs
<1> QED
  BY <1>3, <1>4

-----------------------------------------------------------------------------
(* The steps. *)

\* The top view of a stack of the shape the invariant demands.
LEMMA TheView ==
    ASSUME StackShape
    PROVE  /\ IsView(View) /\ View.section = section /\ View.mode \in {"list", "detail"}
           /\ View.mode = "list" \/ is_interactive_section(View.section)
           /\ Len(stack) \in {1, 2}
           /\ Len(stack) = 1 => View = stack[1] /\ stack = <<stack[1]>>
           /\ Len(stack) = 2 => View = stack[2] /\ stack = <<stack[1], stack[2]>>
           /\ View.mode = "list" <=> Len(stack) = 1
<1>1. CASE stack = <<stack[1]>>
  <2>1. Len(stack) = 1 /\ View = stack[1]
    BY <1>1 DEF View, Last
  <2> QED
    BY <1>1, <2>1 DEF StackShape
<1>2. CASE stack = <<stack[1], stack[2]>> /\ is_interactive_section(section)
  <2>1. Len(stack) = 2 /\ View = stack[2]
    BY <1>2 DEF View, Last
  <2> QED
    BY <1>2, <2>1 DEF StackShape
<1> QED
  BY <1>1, <1>2 DEF StackShape

\* The top view changed, in the same section and mode.
LEMMA TopChanged ==
    ASSUME StackShape, NEW view, IsView(view), view.section = section, view.mode = View.mode,
           stack' = [stack EXCEPT ![Len(stack)] = view], section' = section
    PROVE  StackShape' /\ View' = view
<1>1. CASE Len(stack) = 1
  <2>1. stack' = <<view>>
    BY <1>1, TheView, TopReplaced
  <2>2. Len(stack') = 1 /\ stack'[1] = view /\ View' = view
    BY <2>1 DEF View, Last
  <2> QED
    BY <1>1, <2>1, <2>2, TheView DEF StackShape
<1>2. CASE Len(stack) = 2
  <2>1. stack' = <<stack[1], view>>
    BY <1>2, TheView, TopReplaced
  <2>2. Len(stack') = 2 /\ stack'[1] = stack[1] /\ stack'[2] = view /\ View' = view
    BY <2>1 DEF View, Last
  <2>3. is_interactive_section(section)
    BY <1>2, TheView
  <2> QED
    BY <1>2, <2>1, <2>2, <2>3, TheView DEF StackShape
<1> QED
  BY <1>1, <1>2, TheView

\* Redrawing: the pane shows the view, or a drawing of it is under way.
LEMMA DrawsStep ==
    ASSUME PaneInv, NEW t \in Tasks, RefreshDraws(t)
    PROVE  PaneInv'
<1> DEFINE view == Built(View, state)
           d == Drawing(view, state)
<1>1. /\ IsView(view) /\ view.section = section /\ view.mode = View.mode
      /\ Visible(view) = Visible(View)
  BY TheView, BuiltViews DEF PaneInv
<1>2. StackShape' /\ View' = view
  BY <1>1, TopChanged DEF PaneInv, RefreshDraws
<1>3. /\ Signs(d.signature, d.content) /\ d.content.view = Visible(View)
      /\ d.signature.kind = IF IsTable(view) THEN "interactive" ELSE "static"
  BY <1>1, TheView, DrawingsAreSigned DEF PaneInv
<1>4. LockFree /\ at[t] = "refresh" /\ section' = section
      /\ at \in [Tasks -> {"idle", "refresh", "swap"}]
  BY DEF PaneInv, RefreshDraws, Enters
<1>5. Visible(View') = Visible(View) /\ View'.mode = View.mode
  BY <1>1, <1>2
<1> HIDE DEF view, d
<1>6. CASE d.signature = pane.signature /\ Leaves(t) /\ UNCHANGED screenVars
  <2>1. Drawn /\ pane.content.view = Visible(View)
    <3>1. Drawn
      BY <1>3, <1>6 DEF PaneInv, Signs
    <3>2. CASE d.signature.kind = "interactive"
      BY <1>3, <1>6, <3>1, <3>2 DEF Drawn, Signs
    <3>3. CASE d.signature.kind # "interactive" /\ is_interactive_section(section)
      <4>1. View.mode # "list"
        BY <1>1, <1>3, <3>3 DEF IsTable
      <4>2. pane.content.view.section = section /\ pane.content.view.mode # "list"
        <5>1. d.content.view.section = section
          BY <1>3, TheView, VisibleViews DEF PaneInv
        <5>2. d.signature.kind = "static" /\ d.signature.section = section
          BY <1>3, <3>3, <5>1 DEF Signs
        <5>3. pane.content.view.section = section /\ ~IsTable(pane.content.view)
          BY <1>6, <3>1, <5>2 DEF Drawn, Signs
        <5> QED
          BY <3>3, <5>3 DEF IsTable
      <4> QED
        BY <3>1, <4>1, <4>2 DEF PaneInv, Fits
    <3>4. CASE d.signature.kind # "interactive" /\ ~is_interactive_section(section)
      BY <1>3, <1>6, <3>1, <3>4, TheView, VisibleViews DEF Drawn, Signs, PaneInv
    <3> QED
      BY <3>2, <3>3, <3>4
  <2>2. LockFree' /\ at' \in [Tasks -> {"idle", "refresh", "swap"}]
    BY <1>4, <1>6 DEF Leaves, LockFree
  <2> QED
    <3>1. pane' = pane /\ Drawn'
      BY <1>6, <2>1 DEF screenVars, Drawn
    <3> QED
      BY <1>2, <1>4, <1>5, <2>1, <2>2, <3>1 DEF PaneInv, Fits, LockFree, Tasks
<1>7. CASE d.signature.kind = pane.kind /\ Leaves(t) /\ Mounts(d) /\ UNCHANGED drawing
  <2>1. pane'.signature = d.signature /\ pane'.content = d.content
        /\ pane'.kind = d.signature.kind
    BY <1>7 DEF Mounts
  <2>2. LockFree' /\ at' \in [Tasks -> {"idle", "refresh", "swap"}]
    BY <1>4, <1>7 DEF Leaves, LockFree
  <2> QED
    BY <1>2, <1>3, <1>5, <2>1, <2>2 DEF PaneInv, Drawn, Fits, LockFree, Tasks
<1>8. CASE /\ d.signature.kind # pane.kind
           /\ at' = [at EXCEPT ![t] = "swap"] /\ drawing' = d
           /\ pane' = [pane EXCEPT !.kind = "none"]
  <2>1. ~LockFree' /\ at' \in [Tasks -> {"idle", "refresh", "swap"}]
    BY <1>4, <1>8 DEF LockFree
  <2>2. pane'.signature = pane.signature /\ pane'.content = pane.content
    BY <1>8
  <2>3. at["pump"] # "idle" /\ at'["pump"] # "idle"
    <3>1. SUFFICES ASSUME at["pump"] = "idle" PROVE FALSE
      BY <1>4, <1>8
    <3>2. Drawn /\ pane.content.view = Visible(View) /\ pane.kind = pane.signature.kind
      BY <3>1 DEF PaneInv
    <3>3. IsTable(pane.content.view) <=> IsTable(View)
      BY <3>2, TheView, VisibleViews DEF PaneInv
    <3>4. IsTable(view) <=> IsTable(View)
      BY <1>1, TheView DEF IsTable, PaneInv
    <3> QED
      BY <1>3, <1>8, <3>2, <3>3, <3>4 DEF Drawn, Signs
  <2>4. Drawn' <=> Drawn
    BY <2>2 DEF Drawn
  <2>5. at'["pump"] # "swap" \/ at'["observer"] # "swap"
    BY <1>4, <1>8 DEF LockFree, Tasks
  <2> QED
    BY <1>2, <1>3, <1>4, <1>5, <1>8, <2>1, <2>2, <2>3, <2>4, <2>5
       DEF PaneInv, Fits
<1> QED
  BY <1>6, <1>7, <1>8 DEF RefreshDraws, view, d

\* The end of a redrawing across an await.
LEMMA SwapStep ==
    ASSUME PaneInv, NEW t \in Tasks, SwapEnds(t)
    PROVE  PaneInv'
<1>1. /\ pane'.signature = drawing.signature /\ pane'.content = drawing.content
      /\ pane'.kind = drawing.signature.kind
  BY DEF SwapEnds, Mounts
<1>2. UNCHANGED <<section, stack>> /\ View' = View
  BY DEF SwapEnds, View
<1>3. at \in [Tasks -> {"idle", "refresh", "swap"}] /\ at' = [at EXCEPT ![t] = "idle"]
      /\ at[t] = "swap" /\ ~LockFree
  BY DEF PaneInv, SwapEnds, Leaves, LockFree
<1>4. Signs(drawing.signature, drawing.content) /\ drawing.content.view = Visible(View)
  BY <1>3 DEF PaneInv
<1>5. at["pump"] # "idle"
  BY <1>3 DEF PaneInv
<1>6. Drawn' /\ pane'.content.view = Visible(View')
  BY <1>1, <1>2, <1>4 DEF Drawn
<1>7. LockFree'
  BY <1>3 DEF PaneInv, LockFree, Tasks
<1> QED
  BY <1>1, <1>2, <1>3, <1>6, <1>7 DEF PaneInv, Fits, StackShape

\* A refresh that draws nothing: the background's, while the pump need not be done.
LEMMA PassesStep ==
    ASSUME PaneInv, NEW t \in Tasks, RefreshIrrelevant(t) \/ RefreshDeferred(t)
    PROVE  PaneInv'
<1>1. t = "observer" /\ LockFree /\ at' = [at EXCEPT !["observer"] = "idle"]
      /\ UNCHANGED <<section, stack, pane, drawing>>
  BY DEF RefreshIrrelevant, RefreshDeferred, Enters, Concerns, MayDefer, Leaves, Tasks, screenVars
<1>2. LockFree' /\ at' \in [Tasks -> {"idle", "refresh", "swap"}] /\ at'["pump"] = at["pump"]
  BY <1>1 DEF PaneInv, LockFree, Tasks
<1>3. View' = View /\ (Drawn' <=> Drawn)
  BY <1>1 DEF View, Drawn
<1> QED
  BY <1>1, <1>2, <1>3 DEF PaneInv, Fits, StackShape

\* The view changed by a key in the list or to the list, with the pump to redraw: nothing is
\* on the pane that a view opened could be taken for.
LEMMA ListKeyStep ==
    ASSUME PaneInv, StackShape', View'.mode = "list", PumpRefreshes, UNCHANGED <<pane, drawing>>
    PROVE  PaneInv'
<1>1. at["pump"] = "idle" /\ LockFree /\ at' = [at EXCEPT !["pump"] = "refresh"]
      /\ at \in [Tasks -> {"idle", "refresh", "swap"}]
  BY DEF PaneInv, PumpRefreshes
<1>2. LockFree' /\ at' \in [Tasks -> {"idle", "refresh", "swap"}] /\ at'["pump"] = "refresh"
  BY <1>1 DEF LockFree, Tasks
<1>3. Drawn' <=> Drawn
  BY DEF Drawn
<1> QED
  BY <1>1, <1>2, <1>3 DEF PaneInv, Fits

\* The top view changed in what is not seen, with or without a refresh.
LEMMA UnseenStep ==
    ASSUME PaneInv, StackShape', View'.mode = View.mode, Visible(View') = Visible(View),
           PumpRefreshes \/ UNCHANGED at, UNCHANGED <<section, pane, drawing>>
    PROVE  PaneInv'
<1>1. /\ at' \in [Tasks -> {"idle", "refresh", "swap"}]
      /\ LockFree' <=> LockFree
      /\ at'["pump"] = "idle" => at["pump"] = "idle"
      /\ at'["pump"] # "swap" \/ at'["observer"] # "swap"
  BY DEF PaneInv, PumpRefreshes, LockFree, Tasks
<1>2. Drawn' <=> Drawn
  BY DEF Drawn
<1>3. section' = section /\ pane' = pane /\ drawing' = drawing
  OBVIOUS
<1>4. Drawn => Fits(pane.content)'
  BY <1>3 DEF PaneInv, Fits
<1>5. ~LockFree => Signs(drawing.signature, drawing.content)' /\ (drawing.content.view = Visible(View))'
  BY <1>3 DEF PaneInv
<1>6. at'["pump"] = "idle" => LockFree /\ Drawn /\ (pane.content.view = Visible(View))'
  BY <1>1, <1>3 DEF PaneInv
<1> QED
  BY <1>1, <1>2, <1>3, <1>4, <1>5, <1>6 DEF PaneInv

\* The observer takes up a notice or an answer of the poll.
LEMMA ObserverStep ==
    ASSUME PaneInv, Notice \/ PollAnswers
    PROVE  PaneInv'
<1>1. at' \in [Tasks -> {"idle", "refresh", "swap"}] /\ (LockFree' <=> LockFree)
      /\ at'["pump"] = at["pump"] /\ at'["observer"] # "swap"
  BY DEF PaneInv, Notice, PollAnswers, LockFree, Tasks
<1>2. UNCHANGED <<section, stack, pane, drawing>> /\ View' = View /\ (Drawn' <=> Drawn)
  BY DEF Notice, PollAnswers, screenVars, View, Drawn
<1> QED
  BY <1>1, <1>2 DEF PaneInv, Fits, StackShape

\* The keys and messages that change the view.
LEMMA KeysStep ==
    ASSUME PaneInv, Keys \/ RowHighlighted \/ RowSelected
    PROVE  PaneInv'
<1>1. /\ StackShape /\ IsView(View) /\ View.section = section
      /\ View.mode \in {"list", "detail"} /\ Len(stack) \in {1, 2}
      /\ View.mode = "list" <=> Len(stack) = 1
  BY TheView DEF PaneInv
<1>2. CASE MoveCursor \/ PressEnter \/ PressSearch \/ SearchCancelled
  <2>1. UNCHANGED <<section, stack, pane, drawing, at>>
    BY <1>2 DEF MoveCursor, PressEnter, PressSearch, SearchCancelled, screenVars
  <2>2. View' = View /\ StackShape'
    BY <1>1, <2>1 DEF View, StackShape
  <2> QED
    BY <2>1, <2>2, UnseenStep
<1>3. CASE PressRefresh
  <2>1. UNCHANGED <<section, stack, pane, drawing>> /\ PumpRefreshes
    BY <1>3 DEF PressRefresh, screenVars
  <2>2. View' = View /\ StackShape'
    BY <1>1, <2>1 DEF View, StackShape
  <2> QED
    BY <2>1, <2>2, UnseenStep
<1>4. ASSUME NEW v, WithView(v), IsView(v), v.section = section, v.mode = "list",
             View.mode = "list", PumpRefreshes, UNCHANGED <<section, pane, drawing>>
      PROVE  PaneInv'
  BY <1>1, <1>4, TopChanged, ListKeyStep DEF WithView
<1>5. CASE CycleSort
  <2>1. View.mode = "list" /\ PumpRefreshes /\ UNCHANGED <<section, pane, drawing>>
    BY <1>5 DEF CycleSort, InList, screenVars
  <2>0. PICK follow : follow = (View.follow /\ section # "Logs")
    OBVIOUS
  <2> DEFINE view == [View EXCEPT !.sort = cycle_sort(section, View.sort), !.cursor = NoKey,
                                  !.follow = follow]
  <2>2. WithView(view)
    BY <1>5, <2>0 DEF CycleSort
  <2>3. IsView(view) /\ view.section = section /\ view.mode = "list"
    BY <1>1, <2>1 DEF IsView, ViewFields
  <2> HIDE DEF view
  <2> QED
    BY <1>4, <2>1, <2>2, <2>3
<1>6. ASSUME NEW q, SearchResult(q) PROVE PaneInv'
  <2>1. View.mode = "list" /\ PumpRefreshes /\ UNCHANGED <<section, pane, drawing>>
    BY <1>6 DEF SearchResult, screenVars
  <2>0. PICK follow : follow = (View.follow /\ (section = "Logs" => q = Entries))
    OBVIOUS
  <2> DEFINE view == [View EXCEPT !.query = q, !.cursor = NoKey, !.follow = follow]
  <2>2. WithView(view)
    BY <1>6, <2>0 DEF SearchResult
  <2>3. IsView(view) /\ view.section = section /\ view.mode = "list"
    BY <1>1, <2>1 DEF IsView, ViewFields
  <2> HIDE DEF view
  <2> QED
    BY <1>4, <2>1, <2>2, <2>3
<1>7. CASE ToggleFollow
  <2>1. View.mode = "list" /\ PumpRefreshes /\ UNCHANGED <<section, pane, drawing>>
    BY <1>7 DEF ToggleFollow, screenVars
  <2> DEFINE view == IF View.follow THEN [View EXCEPT !.follow = FALSE]
                     ELSE [View EXCEPT !.follow = TRUE, !.sort = "timestamp", !.cursor = NoKey]
  <2>2. WithView(view)
    BY <1>7 DEF ToggleFollow
  <2>3. IsView(view) /\ view.section = section /\ view.mode = "list"
    BY <1>1, <2>1 DEF IsView, ViewFields
  <2> HIDE DEF view
  <2> QED
    BY <1>4, <2>1, <2>2, <2>3
<1>8. CASE ToggleLogNoise
  <2>1. View.mode = "list" /\ PumpRefreshes /\ UNCHANGED <<section, pane, drawing>>
    BY <1>8 DEF ToggleLogNoise, screenVars
  <2>0. PICK noise : noise = ~View.noise
    OBVIOUS
  <2> DEFINE view == [View EXCEPT !.noise = noise, !.cursor = NoKey]
  <2>2. WithView(view)
    BY <1>8, <2>0 DEF ToggleLogNoise
  <2>3. IsView(view) /\ view.section = section /\ view.mode = "list"
    BY <1>1, <2>1 DEF IsView, ViewFields
  <2> HIDE DEF view
  <2> QED
    BY <1>4, <2>1, <2>2, <2>3
<1>9. CASE ToggleLiveUpdates
  <2>1. /\ is_interactive_section(section) /\ PumpRefreshes
        /\ UNCHANGED <<section, pane, drawing>>
    BY <1>9 DEF ToggleLiveUpdates, screenVars
  <2> DEFINE live == ~Head(stack).live
             Toggled(v) == [v EXCEPT !.live = live]
  <2>2. stack' = [i \in DOMAIN stack |-> Toggled(stack[i])]
    BY <1>9 DEF ToggleLiveUpdates
  <2>3. \A v : IsView(v) =>
           /\ IsView(Toggled(v)) /\ Toggled(v).section = v.section /\ Toggled(v).mode = v.mode
           /\ Visible(Toggled(v)) = Visible(v)
    BY CursorIsNotSeen
  <2> HIDE DEF Toggled, live
  <2>4. CASE stack = <<stack[1]>>
    <3>1. stack' = <<Toggled(stack[1])>>
      BY <2>2, <2>4
    <3>2. Len(stack') = 1 /\ stack'[1] = Toggled(stack[1]) /\ View' = Toggled(stack[1])
          /\ View = stack[1]
      BY <2>4, <3>1 DEF View, Last
    <3>3. StackShape' /\ View'.mode = View.mode /\ Visible(View') = Visible(View)
      BY <1>1, <2>1, <2>3, <3>1, <3>2 DEF StackShape
    <3> QED
      BY <2>1, <3>3, UnseenStep
  <2>5. CASE stack = <<stack[1], stack[2]>>
    <3>1. stack' = <<Toggled(stack[1]), Toggled(stack[2])>>
      BY <2>2, <2>5
    <3>2. /\ Len(stack') = 2 /\ Len(stack) = 2 /\ View = stack[2]
          /\ stack'[1] = Toggled(stack[1]) /\ stack'[2] = Toggled(stack[2])
          /\ View' = Toggled(stack[2])
      BY <2>5, <3>1 DEF View, Last
    <3>3. StackShape' /\ View'.mode = View.mode /\ Visible(View') = Visible(View)
      BY <1>1, <2>1, <2>3, <3>1, <3>2 DEF StackShape
    <3> QED
      BY <2>1, <3>3, UnseenStep
  <2> QED
    BY <1>1, <2>4, <2>5 DEF StackShape
<1>10. CASE NavigateBack
  <2>1. /\ Len(stack) > 1 /\ stack' = Front(stack) /\ PumpRefreshes
        /\ UNCHANGED <<section, pane, drawing>>
    BY <1>10 DEF NavigateBack, screenVars
  <2>2. stack = <<stack[1], stack[2]>> /\ Len(stack) = 2
    <3>1. \A n \in {1, 2} : n > 1 => n = 2
      OBVIOUS
    <3>2. Len(stack) = 2
      BY <1>1, <2>1, <3>1, Zenon
    <3> QED
      BY <1>1, <3>2, TheView
  <2>3. stack' = <<stack[1]>>
    <3>1. stack' = SubSeq(stack, 1, 1)
      BY <2>1, <2>2 DEF Front
    <3> QED
      BY <2>2, <3>1, PairsAndTheirParts, Zenon
  <2>4. Len(stack') = 1 /\ stack'[1] = stack[1] /\ View' = stack[1]
    BY <2>3 DEF View, Last
  <2>5. StackShape' /\ View'.mode = "list"
    BY <1>1, <2>1, <2>3, <2>4 DEF StackShape
  <2> QED
    BY <2>1, <2>5, ListKeyStep
<1>11. ASSUME NEW s \in Sections, ChooseSection(s) PROVE PaneInv'
  <2>1. /\ section' = s /\ stack' = <<default_view_state(s)>> /\ PumpRefreshes
        /\ UNCHANGED <<pane, drawing>>
    BY <1>11 DEF ChooseSection, screenVars
  <2>2. Len(stack') = 1 /\ stack'[1] = default_view_state(s) /\ View' = default_view_state(s)
    BY <2>1 DEF View, Last
  <2>3. IsView(default_view_state(s))
    BY DEF IsView, ViewFields, default_view_state
  <2>4. default_view_state(s).section = s /\ default_view_state(s).mode = "list"
    BY DefaultViews
  <2>5. StackShape' /\ View'.mode = "list"
    <3>1. stack' = <<stack'[1]>> /\ IsView(stack'[1]) /\ stack'[1].mode = "list"
          /\ stack'[1].section = section' /\ Len(stack') # 2
      BY <2>1, <2>2, <2>3, <2>4
    <3> QED
      BY <2>2, <3>1 DEF StackShape
  <2> QED
    BY <2>1, <2>5, ListKeyStep
<1>12. at["pump"] = "idle" /\ (RowHighlighted \/ RowSelected) =>
          /\ IsView(Delivered(View)) /\ Delivered(View).section = section
          /\ Delivered(View).mode = View.mode /\ Visible(Delivered(View)) = Visible(View)
  <2>1. CASE Delivered(View) = View
    BY <1>1, <2>1
  <2>2. CASE Delivered(View) = [View EXCEPT !.cursor = Head(queue).key]
    <3>1. LET moved == [View EXCEPT !.cursor = Head(queue).key]
          IN  /\ IsView(moved) /\ moved.section = View.section /\ moved.mode = View.mode
              /\ Visible(moved) = Visible(View)
      BY <1>1, CursorIsNotSeen
    <3> QED
      BY <1>1, <2>2, <3>1
  <2> QED
    BY <2>1, <2>2 DEF Delivered
<1>13. CASE RowHighlighted
  <2>1. /\ at["pump"] = "idle" /\ WithView(Delivered(View))
        /\ UNCHANGED <<section, pane, drawing, at>>
    BY <1>13 DEF RowHighlighted
  <2>2. StackShape' /\ View' = Delivered(View)
    BY <1>1, <1>12, <1>13, <2>1, TopChanged DEF WithView
  <2> QED
    BY <1>12, <1>13, <2>1, <2>2, UnseenStep
<1>14. CASE RowSelected
  <2> DEFINE view == Delivered(View)
             target == SelectedTarget(view)
             left == [view EXCEPT !.follow = view.follow /\ section # "Logs"]
             opened == [left EXCEPT !.section = section, !.mode = "detail", !.target = target,
                                    !.cursor = target]
  <2>1. at["pump"] = "idle" /\ UNCHANGED <<section, pane, drawing>>
    BY <1>14 DEF RowSelected
  <2>2. CASE WithView(view) /\ UNCHANGED at
    <3>1. StackShape' /\ View' = view
      BY <1>1, <1>12, <1>14, <2>1, <2>2, TopChanged DEF WithView
    <3> QED
      BY <1>12, <1>14, <2>1, <2>2, <3>1, UnseenStep
  <2>3. CASE InList /\ PumpRefreshes
             /\ stack' = Append([stack EXCEPT ![Len(stack)] = left], opened)
    <3>1. View.mode = "list" /\ is_interactive_section(section) /\ Len(stack) = 1
          /\ stack = <<stack[1]>>
      BY <1>1, <2>3, TheView DEF InList
    <3>2. IsView(left) /\ left.section = section /\ left.mode = "list"
      BY <1>12, <1>14, <2>1, <3>1 DEF IsView, ViewFields
    <3>3. IsView(opened) /\ opened.section = section /\ opened.mode = "detail"
      BY <3>2 DEF IsView, ViewFields
    <3> HIDE DEF left, opened, view
    <3>4. [stack EXCEPT ![Len(stack)] = left] = <<left>>
      BY <3>1, TopReplaced
    <3>5. stack' = <<left, opened>>
      <4>1. stack' = Append(<<left>>, opened)
        BY <2>3, <3>4
      <4> QED
        BY <4>1, PairsAndTheirParts
    <3>6. Len(stack') = 2 /\ stack'[1] = left /\ stack'[2] = opened /\ View' = opened
      BY <3>5 DEF View, Last
    <3>7. StackShape'
      BY <2>1, <3>1, <3>2, <3>3, <3>5, <3>6 DEF StackShape
    <3>8. LockFree /\ Drawn /\ pane.content.view = Visible(View)
      BY <2>1 DEF PaneInv
    <3>9. pane.content.view.mode = "list"
      BY <1>1, <3>1, <3>8, VisibleViews
    <3>10. at' = [at EXCEPT !["pump"] = "refresh"] /\ at \in [Tasks -> {"idle", "refresh", "swap"}]
      BY <2>3 DEF PumpRefreshes, PaneInv
    <3>11. /\ LockFree' /\ at' \in [Tasks -> {"idle", "refresh", "swap"}]
           /\ at'["pump"] = "refresh"
      BY <3>8, <3>10 DEF LockFree, Tasks
    <3>12. pane' = pane /\ Drawn' /\ pane.kind = pane.signature.kind
      BY <2>1, <3>8 DEF Drawn, PaneInv
    <3> QED
      BY <3>7, <3>9, <3>11, <3>12 DEF PaneInv, Fits
  <2> QED
    BY <1>14, <2>2, <2>3 DEF RowSelected
<1> QED
  BY <1>2, <1>3, <1>5, <1>6, <1>7, <1>8, <1>9, <1>10, <1>11, <1>13, <1>14 DEF Keys

\* What is drawn, or being drawn, is signed and is of the view on top of the stack.
THEOREM PaneHolds == Spec => []PaneInv
<1>1. Init => PaneInv
  <2> SUFFICES ASSUME Init PROVE PaneInv
    OBVIOUS
  <2>1. stack = <<default_view_state(section)>> /\ pane.signature = NoDrawing
        /\ at = [t \in Tasks |-> IF t = "pump" THEN "refresh" ELSE "idle"]
    BY DEF Init
  <2>2. Len(stack) = 1 /\ stack[1] = default_view_state(section)
    BY <2>1
  <2>3. IsView(default_view_state(section))
    BY DEF IsView, ViewFields, default_view_state
  <2>4. StackShape
    <3>1. default_view_state(section).section = section
          /\ default_view_state(section).mode = "list"
      BY DefaultViews
    <3>2. stack = <<stack[1]>> /\ IsView(stack[1]) /\ stack[1].mode = "list"
          /\ stack[1].section = section /\ Len(stack) # 2
      BY <2>1, <2>2, <2>3, <3>1
    <3> QED
      BY <3>2 DEF StackShape
  <2>5. /\ LockFree /\ at \in [Tasks -> {"idle", "refresh", "swap"}]
        /\ at["pump"] = "refresh" /\ at["observer"] = "idle"
    BY <2>1 DEF LockFree, Tasks
  <2>6. ~Drawn
    BY <2>1 DEF Drawn, Signs
  <2> QED
    BY <2>1, <2>4, <2>5, <2>6 DEF PaneInv
<1>2. PaneInv /\ [Next]_vars => PaneInv'
  <2> SUFFICES ASSUME PaneInv, [Next]_vars PROVE PaneInv'
    OBVIOUS
  <2>1. CASE UNCHANGED <<section, stack, pane, drawing, at>>
    <3>1. View' = View /\ StackShape'
      BY <2>1 DEF View, StackShape, PaneInv
    <3> QED
      BY <2>1, <3>1, UnseenStep
  <2>2. ASSUME NEW t \in Tasks, Refreshes(t) PROVE PaneInv'
    BY <2>2, DrawsStep, SwapStep, PassesStep DEF Refreshes
  <2>3. CASE (\E f \in Fields : WriteField(f)) \/ WriteOther \/ UNCHANGED vars
    <3>1. UNCHANGED <<section, stack, pane, drawing, at>>
      BY <2>3 DEF WriteField, WriteOther, vars, screenVars
    <3> QED
      BY <2>1, <3>1
  <2> QED
    BY <2>2, <2>3, ObserverStep, KeysStep DEF Next
<1> QED
  BY <1>1, <1>2, PTL DEF Spec

\* Whenever the user's key is handled, the pane shows the view on top of the stack.
THEOREM PaneShowsTheTop == Spec => []PaneShowsTheView
<1>1. PaneInv => PaneShowsTheView
  BY DEF PaneInv, PaneShowsTheView
<1> QED
  BY <1>1, PaneHolds, PTL

-----------------------------------------------------------------------------
(* The cursor of the table. *)

\* No two rows of a table have the same key, however often entries are repeated and in whatever
\* order: the DataTable finds its cursor again by the key (_ensure_unique_row_keys).  A key is a
\* pair here, so an entry whose own name reads like the numbered one of another is left aside.
THEOREM RowKeysAreUnique ==
    ASSUME NEW S, NEW rows \in Seq(S), NEW i \in DOMAIN rows, NEW j \in DOMAIN rows,
           UniqueKeys(rows)[i] = UniqueKeys(rows)[j]
    PROVE  i = j
<1> DEFINE Before(n) == {k \in 1 .. n - 1 : rows[k] = rows[n]}
<1>1. \A n \in DOMAIN rows : UniqueKeys(rows)[n] = <<rows[n], Cardinality(Before(n))>>
  BY DEF UniqueKeys
<1>2. rows[i] = rows[j] /\ Cardinality(Before(i)) = Cardinality(Before(j))
  <2>1. <<rows[i], Cardinality(Before(i))>> = <<rows[j], Cardinality(Before(j))>>
    BY <1>1
  <2> HIDE DEF Before
  <2> QED  BY <2>1
<1> SUFFICES ASSUME NEW m \in DOMAIN rows, NEW n \in DOMAIN rows, m < n, rows[m] = rows[n]
             PROVE  Cardinality(Before(m)) # Cardinality(Before(n))
  BY <1>2
<1>3. IsFiniteSet(1 .. n - 1)
  BY FS_Interval
<1>4. IsFiniteSet(Before(n))
  BY <1>3, FS_Subset, Before(n) \in SUBSET (1 .. n - 1)
<1>5. Before(m) \subseteq Before(n)
  OBVIOUS
<1>6. m \in Before(n) /\ m \notin Before(m)
  OBVIOUS
<1> HIDE DEF Before
<1> QED  BY <1>4, <1>5, <1>6, FS_Subset

\* A table's rows do not depend on where its cursor is.
LEMMA RowsOfAMovedCursor ==
    ASSUME NEW view, IsView(view), NEW cursor, NEW st
    PROVE  Rows([view EXCEPT !.cursor = cursor], st) = Rows(view, st)
<1> DEFINE moved == [view EXCEPT !.cursor = cursor]
<1>1. /\ moved.section = view.section /\ moved.query = view.query /\ moved.sort = view.sort
      /\ moved.noise = view.noise
  BY DEF IsView, ViewFields
<1> HIDE DEF moved
<1>2. Collected(moved, st) = Collected(view, st)
  BY <1>1 DEF Collected
<1>3. \A entries : Filtered(moved, entries) = Filtered(view, entries)
  BY <1>1 DEF Filtered
<1>4. \A entries : Sorted(moved, entries) = Sorted(view, entries)
  BY <1>1 DEF Sorted
<1>5. \A entries : Shown(moved, entries) = Shown(view, entries)
  BY <1>1, <1>3, <1>4 DEF Shown
<1>6. Rows(moved, st) = Rows(view, st)
  BY <1>2, <1>5 DEF Rows
<1> QED
  BY <1>6 DEF moved

\* A redraw by the observer while the user looks on goes into the widgets that are there.
LEMMA RedrawnInPlace ==
    ASSUME PaneInv, PaneInv', at["pump"] = "idle", NEW t \in Tasks, RefreshDraws(t)
    PROVE  LET d == Drawing(Built(View, state), state)
           IN  /\ t = "observer" /\ Leaves(t) /\ pending' = pending \ {section}
               /\ \/ d.signature = pane.signature /\ UNCHANGED screenVars
                  \/ d.signature.kind = pane.kind /\ Mounts(d) /\ UNCHANGED drawing
<1>1. t = "observer" /\ at \in [Tasks -> {"idle", "refresh", "swap"}]
  BY DEF PaneInv, RefreshDraws, Enters, Tasks
<1>2. at' = [at EXCEPT ![t] = "swap"] => at'["pump"] = "idle" /\ ~LockFree'
  BY <1>1 DEF LockFree, Tasks
<1>3. at' # [at EXCEPT ![t] = "swap"]
  BY <1>2 DEF PaneInv
<1> QED
  BY <1>1, <1>3 DEF RefreshDraws

\* A redraw in the background leaves the cursor on the row the user put it on, wherever that
\* row has moved to, as long as the row is there (KeepsSelection).
THEOREM SelectionIsKept == Spec => KeepsSelection
<1> DEFINE Keeps ==
      (/\ queue = <<>> /\ at["pump"] = "idle" /\ HasTable /\ pane' # pane
       /\ View.cursor = KeyUnderCursor
       /\ KeyUnderCursor \in ToSet(pane'.content.rows))
      => pane'.content.rows[row'] = KeyUnderCursor
<1>1. PaneInv /\ PaneInv' /\ [Next]_vars => [Keeps]_vars
  <2> SUFFICES ASSUME PaneInv, PaneInv', [Next]_vars, at["pump"] = "idle", HasTable,
                      pane' # pane, View.cursor = KeyUnderCursor,
                      KeyUnderCursor \in ToSet(pane'.content.rows)
               PROVE  pane'.content.rows[row'] = KeyUnderCursor
    OBVIOUS
  <2>1. PICK t \in Tasks : RefreshDraws(t)
    <3>1. LockFree
      BY DEF PaneInv
    <3>2. \E t \in Tasks : RefreshDraws(t) \/ SwapEnds(t)
      BY DEF Next, WriteField, WriteOther, Refreshes, RefreshIrrelevant, RefreshDeferred, Notice,
             PollAnswers, RowHighlighted, RowSelected, Keys, MoveCursor, PressEnter, NavigateBack,
             PressRefresh, PressSearch, SearchCancelled, CycleSort, ToggleFollow, ToggleLogNoise,
             ToggleLiveUpdates, ChooseSection, SearchResult, screenVars, vars
    <3> QED
      BY <3>1, <3>2 DEF LockFree, SwapEnds
  <2> DEFINE view == Built(View, state)
             d == Drawing(view, state)
  <2>2. d.signature.kind = pane.kind /\ Mounts(d)
    BY <2>1, RedrawnInPlace DEF screenVars
  <2>3. /\ IsView(View) /\ IsView(view) /\ view.section = View.section /\ view.mode = View.mode
        /\ View.mode \in {"list", "detail"}
        /\ View.mode = "list" \/ is_interactive_section(View.section)
    BY TheView, BuiltViews DEF PaneInv
  <2>4. d.signature.kind = "interactive" /\ IsTable(view) /\ IsTable(View)
    <3>1. d.signature.kind = IF IsTable(view) THEN "interactive" ELSE "static"
      BY <2>3, DrawingsAreSigned
    <3> QED
      BY <2>2, <2>3, <3>1 DEF HasTable, IsTable
  <2>5. d.signature.selected = view.cursor /\ d.content.rows = Rows(view, state)
    <3>1. d.signature = Signature(view, state) /\ d.content = Content(view, state)
      BY DEF Drawing
    <3>2. Signature(view, state).selected = view.cursor
      BY <2>4 DEF Signature
    <3>3. Content(view, state).rows = Rows(view, state)
      BY <2>4 DEF Content
    <3> QED
      BY <3>1, <3>2, <3>3
  <2> HIDE DEF d
  <2>6. pane'.content.rows = Rows(view, state) /\ row' = CursorRow(Rows(view, state), view.cursor)
    BY <2>2, <2>4, <2>5 DEF Mounts
  <2>7. view.cursor = View.cursor
    <3>1. CASE View.cursor \in ToSet(Rows(View, state))
      BY <3>1 DEF Built
    <3>2. CASE View.cursor \notin ToSet(Rows(View, state))
      <4>1. PICK cursor : view = [View EXCEPT !.cursor = cursor]
        BY <2>4, <3>2 DEF Built
      <4>2. Rows(view, state) = Rows(View, state)
        BY <2>3, <4>1, RowsOfAMovedCursor
      <4> QED
        BY <2>6, <3>2, <4>2
    <3> QED
      BY <3>1, <3>2
  <2> HIDE DEF view
  <2>8. Rows(view, state)[CursorRow(Rows(view, state), view.cursor)] = view.cursor
    BY <2>6, <2>7 DEF CursorRow, ToSet
  <2> QED
    BY <2>6, <2>7, <2>8
<1> QED
  BY <1>1, PaneHolds, PTL DEF Spec, KeepsSelection

-----------------------------------------------------------------------------
(* The data of the pane. *)

\* What is covered of a section is relevant to it, and a field of the state.
LEMMA CoveredIsRelevant ==
    ASSUME section \in Sections
    PROVE  Covered(section) \subseteq RelevantSubsystems(section) \cap Fields
  BY PaneAssumption, DrawnIsRelevant DEF Covered, Fields

\* A drawing holds the data of the state it is made from.
LEMMA DrawingsHoldTheData ==
    ASSUME NEW view, NEW st
    PROVE  LET d == Drawing(view, st)
           IN  /\ Covers(d.signature, d.content)
               /\ \A f \in Covered(view.section) : d.content.data[f] = st[f]
               /\ d.signature.kind = "static" =>
                     /\ d.signature.section = view.section
                     /\ \A f \in Covered(view.section) : d.signature.payload[f] = st[f]
               /\ d.signature.kind = "interactive" => d.signature.content = d.content
               /\ d.signature.kind \in {"static", "interactive"}
               /\ d # NoDrawing /\ d.signature # NoDrawing
<1> DEFINE signature == Signature(view, st)
           content == Content(view, st)
           d == Drawing(view, st)
<1>1. d.signature = signature /\ d.content = content /\ d # NoDrawing
  BY DEF Drawing, NoDrawing
<1>2. \A f \in Covered(view.section) : content.data[f] = st[f]
  BY DEF Content, Covered
<1>3. CASE IsTable(view)
  <2>1. signature.kind = "interactive" /\ signature.content = content /\ signature # NoDrawing
    <3>1. signature = [kind |-> "interactive", content |-> content, selected |-> view.cursor]
      BY <1>3 DEF Signature
    <3> QED
      BY <3>1 DEF NoDrawing
  <2> HIDE DEF signature, content, d
  <2> QED
    BY <1>1, <1>2, <2>1 DEF Covers, d
<1>4. CASE ~IsTable(view)
  <2>1. /\ signature.kind = "static" /\ signature.section = view.section
        /\ \A f \in Covered(view.section) : signature.payload[f] = st[f]
        /\ signature # NoDrawing
    <3>1. signature = [kind |-> "static", section |-> view.section, mode |-> view.mode,
                       target |-> view.target,
                       payload |-> [f \in section_payload_data(view.section) |-> st[f]]]
      BY <1>4 DEF Signature
    <3> QED
      BY <3>1 DEF Covered, NoDrawing
  <2> HIDE DEF signature, content, d
  <2> QED
    BY <1>1, <1>2, <2>1 DEF Covers, d
<1> QED
  BY <1>3, <1>4

\* The store writes one field at a time, under a version of its own.
LEMMA VersionsStep ==
    ASSUME VersionsInOrder, NoticeIsHonest, [Next]_vars
    PROVE  VersionsInOrder' /\ NoticeIsHonest'
<1> DEFINE Done == VersionsInOrder' /\ NoticeIsHonest'
<1>1. ASSUME UNCHANGED storeVars, section' \in Sections, observed' = observed \/ observed' = version,
             \/ UNCHANGED notice /\ passedOver \subseteq passedOver'
             \/ notice' = NoNotice
             \/ /\ notice' = [version |-> version, fields |-> lastChange]
                /\ passedOver' = passedOver \cup (observed + 1 .. version - 1)
                /\ observed' = observed
      PROVE  Done
  <2>1. VersionsInOrder'
    BY <1>1 DEF VersionsInOrder, storeVars
  <2>2. observed' \in Int /\ observed <= observed' /\ version \in Nat /\ observed \in Int
    BY <1>1 DEF VersionsInOrder
  <2>3. CASE UNCHANGED notice /\ passedOver \subseteq passedOver'
    BY <1>1, <2>1, <2>2, <2>3 DEF NoticeIsHonest, storeVars
  <2>4. CASE notice' = NoNotice
    <3>1. notice'.version = -1 /\ version' = version
      BY <1>1, <2>4 DEF NoNotice, storeVars
    <3> QED
      BY <2>1, <2>2, <3>1 DEF NoticeIsHonest
  <2>5. CASE /\ notice' = [version |-> version, fields |-> lastChange]
             /\ passedOver' = passedOver \cup (observed + 1 .. version - 1)
             /\ observed' = observed
    <3>1. notice'.version = version /\ notice'.fields = lastChange /\ version' = version
          /\ lastChange' = lastChange
      BY <1>1, <2>5 DEF storeVars
    <3> QED
      BY <2>1, <2>2, <2>5, <3>1 DEF NoticeIsHonest
  <2> QED
    BY <1>1, <2>1, <2>3, <2>4, <2>5
<1>2. ASSUME version' = version + 1, UNCHANGED <<section, observed, notice, passedOver>>,
             \/ state' = state /\ lastChange' = {}
             \/ \E f \in Fields : \E value \in Values(f) \cup {state[f]} :
                   state' = [state EXCEPT ![f] = value] /\ lastChange' = {f}
      PROVE  Done
  <2>1. version \in Nat /\ observed \in Int /\ observed <= version
        /\ state \in [Fields -> [at : Nat, entries : Seq(Entries)]]
        /\ \A f \in Fields : state[f].at \in Nat /\ state[f].at <= version
    BY DEF VersionsInOrder
  <2>2. NoticeIsHonest'
    BY <1>2, <2>1 DEF NoticeIsHonest
  <2>3. CASE state' = state /\ lastChange' = {}
    BY <1>2, <2>1, <2>2, <2>3 DEF VersionsInOrder
  <2>4. CASE \E f \in Fields : \E value \in Values(f) \cup {state[f]} :
               state' = [state EXCEPT ![f] = value] /\ lastChange' = {f}
    <3>0. PICK f \in Fields : \E value \in Values(f) \cup {state[f]} :
               state' = [state EXCEPT ![f] = value] /\ lastChange' = {f}
      BY <2>4
    <3>1. PICK value \in Values(f) \cup {state[f]} :
               state' = [state EXCEPT ![f] = value] /\ lastChange' = {f}
      BY <3>0
    <3>2. value \in [at : Nat, entries : Seq(Entries)] /\ (value.at = version + 1 \/ value = state[f])
      <4>1. Collections \subseteq Seq(Entries) /\ <<>> \in Seq(Entries)
        BY PaneAssumption
      <4>2. CASE value \in Values(f)
        <5>1. PICK E : E = IF f \in Tables THEN Collections ELSE {<<>>}
          OBVIOUS
        <5>2. value \in [at : {version + 1}, entries : E] /\ E \subseteq Seq(Entries)
          BY <4>1, <4>2, <5>1 DEF Values
        <5> QED
          BY <2>1, <5>2
      <4> QED
        BY <2>1, <4>2
    <3>3. state' \in [Fields -> [at : Nat, entries : Seq(Entries)]]
          /\ state'[f] = value /\ \A g \in Fields : g # f => state'[g] = state[g]
      BY <2>1, <3>1, <3>2
    <3>4. \A g \in Fields : /\ state'[g].at <= version'
                            /\ state'[g].at = version' => g \in lastChange'
      BY <1>2, <2>1, <3>1, <3>2, <3>3
    <3> QED
      BY <1>2, <2>1, <2>2, <3>3, <3>4 DEF VersionsInOrder
  <2> QED
    BY <1>2, <2>3, <2>4
<1> HIDE DEF Done
<1>3. ASSUME NEW f \in Fields, WriteField(f) PROVE Done
  BY <1>2, <1>3 DEF WriteField, boundVars
<1>4. ASSUME WriteOther PROVE Done
  BY <1>2, <1>4 DEF WriteOther, boundVars
<1>5. section \in Sections
  BY DEF VersionsInOrder
<1>6. ASSUME NEW t \in Tasks, Refreshes(t) PROVE Done
  BY <1>1, <1>5, <1>6 DEF Refreshes, RefreshIrrelevant, RefreshDeferred, RefreshDraws, SwapEnds,
                          Enters, Leaves, boundVars
<1>7. ASSUME Notice PROVE Done
  BY <1>1, <1>5, <1>7 DEF Notice
<1>8. ASSUME PollAnswers PROVE Done
  BY <1>1, <1>5, <1>8 DEF PollAnswers, boundVars
<1>9. ASSUME RowHighlighted \/ RowSelected PROVE Done
  BY <1>1, <1>5, <1>9 DEF RowHighlighted, RowSelected, boundVars
<1>10. ASSUME Keys PROVE Done
  <2>1. section' \in Sections /\ UNCHANGED <<storeVars, notice, observed, passedOver>>
    BY <1>5, <1>10 DEF Keys, MoveCursor, PressEnter, NavigateBack, PressRefresh, PressSearch,
             SearchCancelled, CycleSort, ToggleFollow, ToggleLogNoise, ToggleLiveUpdates,
             ChooseSection, SearchResult, boundVars
  <2> QED
    BY <1>1, <2>1
<1>11. ASSUME UNCHANGED vars PROVE Done
  BY <1>1, <1>5, <1>11 DEF vars, storeVars
<1> QED
  BY <1>3, <1>4, <1>6, <1>7, <1>8, <1>9, <1>10, <1>11 DEF Next, Done

\* Redrawing brings the pane, or the drawing under way, up to date.
LEMMA DrawsTheData ==
    ASSUME PaneInv, PaneInv', CurrentInv, VersionsInOrder', NoticeIsHonest',
           NEW t \in Tasks, RefreshDraws(t)
    PROVE  CurrentInv'
<1> DEFINE view == Built(View, state)
           d == Drawing(view, state)
<1>1. view.section = section
  BY TheView, BuiltViews DEF PaneInv
<1>2. /\ Covers(d.signature, d.content)
      /\ \A f \in Covered(section) : d.content.data[f] = state[f]
      /\ d.signature.kind = "static" =>
            /\ d.signature.section = section
            /\ \A f \in Covered(section) : d.signature.payload[f] = state[f]
      /\ d.signature.kind = "interactive" => d.signature.content = d.content
      /\ d.signature.kind \in {"static", "interactive"}
      /\ d # NoDrawing /\ d.signature # NoDrawing
  <2>1. LET e == Drawing(view, state)
        IN  /\ Covers(e.signature, e.content)
            /\ \A f \in Covered(view.section) : e.content.data[f] = state[f]
            /\ e.signature.kind = "static" =>
                  /\ e.signature.section = view.section
                  /\ \A f \in Covered(view.section) : e.signature.payload[f] = state[f]
            /\ e.signature.kind = "interactive" => e.signature.content = e.content
            /\ e.signature.kind \in {"static", "interactive"}
            /\ e # NoDrawing /\ e.signature # NoDrawing
    BY DrawingsHoldTheData
  <2> QED
    BY <1>1, <2>1
<1>3. UNCHANGED <<state, section>> /\ LockFree /\ at \in [Tasks -> {"idle", "refresh", "swap"}]
      /\ observed' = version /\ version # -1
  BY DEF RefreshDraws, Enters, storeVars, PaneInv, CurrentInv, VersionsInOrder
<1>4. \/ d.signature = pane.signature /\ Leaves(t) /\ UNCHANGED screenVars
      \/ d.signature.kind = pane.kind /\ Leaves(t) /\ Mounts(d) /\ UNCHANGED drawing
      \/ /\ at' = [at EXCEPT ![t] = "swap"] /\ drawing' = d
         /\ pane' = [pane EXCEPT !.kind = "none"]
  BY DEF RefreshDraws
<1> HIDE DEF view, d
<1>6. CASE d.signature = pane.signature /\ Leaves(t) /\ UNCHANGED screenVars
  <2>1. pane.signature # NoDrawing => \A f \in Covered(section) : pane.content.data[f] = state[f]
    <3>1. SUFFICES ASSUME pane.signature # NoDrawing, NEW f \in Covered(section)
                   PROVE  pane.content.data[f] = state[f]
      OBVIOUS
    <3>2. Drawn /\ Covers(pane.signature, pane.content)
      BY <3>1 DEF PaneInv, CurrentInv
    <3>3. CASE d.signature.kind = "static"
      BY <1>2, <1>6, <3>2, <3>3 DEF Covers
    <3>4. CASE d.signature.kind = "interactive"
      BY <1>2, <1>6, <3>2, <3>4 DEF Drawn, Signs
    <3> QED
      BY <1>2, <3>3, <3>4
  <2>2. at'["pump"] # "swap" /\ LockFree' /\ UNCHANGED <<pane, drawing>>
    BY <1>3, <1>6 DEF Leaves, LockFree, Tasks, screenVars
  <2>3. pane.signature # NoDrawing
    BY <1>2, <1>6 DEF PaneInv, Signs
  <2> QED
    BY <1>3, <2>1, <2>2, <2>3 DEF CurrentInv
<1>7. CASE d.signature.kind = pane.kind /\ Leaves(t) /\ Mounts(d) /\ UNCHANGED drawing
  <2>1. pane'.signature = d.signature /\ pane'.content = d.content
    BY <1>7 DEF Mounts
  <2>2. at'["pump"] # "swap" /\ LockFree'
    BY <1>3, <1>7 DEF Leaves, LockFree, Tasks
  <2> QED
    BY <1>2, <1>3, <1>7, <2>1, <2>2 DEF CurrentInv
<1>8. CASE /\ at' = [at EXCEPT ![t] = "swap"] /\ drawing' = d
           /\ pane' = [pane EXCEPT !.kind = "none"]
  <2>1. pane'.signature = pane.signature /\ pane'.content = pane.content
    BY <1>8
  <2>2. ~LockFree'
    BY <1>3, <1>8 DEF LockFree
  <2>3. at'["pump"] # "idle"
    BY <2>2 DEF PaneInv
  <2>0. PICK new : new = d
    OBVIOUS
  <2>4. drawing' = new /\ Covers(new.signature, new.content) /\ new # NoDrawing
        /\ \A f \in Covered(section) : new.content.data[f] = state[f]
    BY <1>2, <1>8, <2>0
  <2>5. Follows(new.content)'
    BY <1>3, <2>4 DEF Follows
  <2> QED
    BY <1>3, <2>1, <2>3, <2>4, <2>5 DEF CurrentInv, Covers
<1> QED
  BY <1>4, <1>6, <1>7, <1>8

\* Every step leaves the pane with the store's data, or with a reason why not.
LEMMA CurrentStep ==
    ASSUME PaneInv, PaneInv', CurrentInv, [Next]_vars
    PROVE  CurrentInv'
<1> DEFINE Pump == at'["pump"] = at["pump"]
<1>0. /\ VersionsInOrder' /\ NoticeIsHonest'
      /\ version \in Nat /\ observed \in Nat \cup {-1} /\ observed <= version
      /\ state \in [Fields -> [at : Nat, entries : Seq(Entries)]]
      /\ at \in [Tasks -> {"idle", "refresh", "swap"}]
      /\ \A f \in Covered(section) : f \in Fields /\ f \in RelevantSubsystems(section)
  BY VersionsStep, CoveredIsRelevant DEF CurrentInv, VersionsInOrder, PaneInv
<1>1. ASSUME UNCHANGED pane, at'["pump"] = "refresh", LockFree' PROVE CurrentInv'
  BY <1>0, <1>1 DEF CurrentInv, Covers
<1>2. ASSUME UNCHANGED <<state, section, pane, drawing, observed, pending>>, Pump,
             LockFree => LockFree', passedOver \subseteq passedOver'
      PROVE  CurrentInv'
  BY <1>0, <1>2 DEF CurrentInv, Covers, Follows
<1>3. ASSUME NEW f \in Fields, WriteField(f) PROVE CurrentInv'
  <2>1. UNCHANGED <<section, pane, drawing, observed, pending, passedOver, at>>
    BY <1>3 DEF WriteField, screenVars, boundVars
  <2>0. LockFree' <=> LockFree
    BY <2>1 DEF LockFree
  <2>2. \A g \in Fields : state'[g] = state[g] \/ state'[g].at > observed
    <3>1. PICK value \in Values(f) \cup {state[f]} : state' = [state EXCEPT ![f] = value]
      BY <1>3 DEF WriteField
    <3>2. value = state[f] \/ value.at = version + 1
      BY <3>1 DEF Values
    <3> QED
      BY <1>0, <3>1, <3>2
  <2>3. \A g \in Covered(section) : state'[g] = state[g] \/ state'[g].at > observed'
    BY <1>0, <2>1, <2>2
  <2> QED
    BY <1>0, <2>0, <2>1, <2>3 DEF CurrentInv, Covers, Follows
<1>4. ASSUME WriteOther PROVE CurrentInv'
  BY <1>2, <1>4 DEF WriteOther, LockFree, screenVars, boundVars
<1>5. ASSUME NEW t \in Tasks, RefreshIrrelevant(t) PROVE CurrentInv'
  <2>1. /\ t = "observer" /\ LockFree' /\ LockFree /\ observed' = version /\ Pump
        /\ UNCHANGED <<state, section, pane, drawing, pending, passedOver>>
        /\ notice.version = version /\ RelevantSubsystems(section) \cap notice.fields = {}
    BY <1>0, <1>5 DEF RefreshIrrelevant, Enters, Concerns, Affects, Leaves, LockFree, Tasks, storeVars,
                      screenVars, boundVars
  <2>2. ASSUME NEW f \in Covered(section), state[f].at > observed, observed # -1
        PROVE  state[f].at \in passedOver
    <3>1. state[f].at \in Nat /\ state[f].at <= version
      BY <1>0 DEF CurrentInv, VersionsInOrder
    <3>2. state[f].at # version
      BY <1>0, <2>1, <2>2 DEF CurrentInv, VersionsInOrder, NoticeIsHonest
    <3> QED
      BY <1>0, <2>1, <2>2, <3>1, <3>2 DEF CurrentInv, NoticeIsHonest
  <2>3. at["pump"] # "swap" /\ observed' # -1
    BY <1>0, <2>1 DEF LockFree, Tasks
  <2> QED
    BY <1>0, <2>1, <2>2, <2>3 DEF CurrentInv, Covers
<1>6. ASSUME NEW t \in Tasks, RefreshDeferred(t) PROVE CurrentInv'
  <2>1. /\ t = "observer" /\ LockFree' /\ LockFree /\ observed' = version /\ Pump /\ section' \in pending'
        /\ UNCHANGED <<section, pane, drawing>>
    BY <1>0, <1>6 DEF RefreshDeferred, Enters, MayDefer, Leaves, LockFree, Tasks, screenVars
  <2>2. at["pump"] # "swap" /\ observed' # -1
    BY <1>0, <2>1 DEF LockFree, Tasks
  <2> QED
    BY <1>0, <2>1, <2>2 DEF CurrentInv, Covers
<1>7. ASSUME NEW t \in Tasks, RefreshDraws(t) PROVE CurrentInv'
  BY <1>0, <1>7, DrawsTheData
<1>8. ASSUME NEW t \in Tasks, SwapEnds(t) PROVE CurrentInv'
  <2>1. /\ pane'.signature = drawing.signature /\ pane'.content = drawing.content
        /\ drawing' = NoDrawing /\ UNCHANGED <<state, section, observed>>
        /\ at[t] = "swap" /\ at' = [at EXCEPT ![t] = "idle"] /\ ~LockFree
    BY <1>8 DEF SwapEnds, Mounts, Leaves, LockFree, storeVars
  <2>2. Covers(pane.signature, pane.content)' /\ LockFree'
    BY <1>0, <2>1 DEF CurrentInv, Covers, PaneInv, LockFree, Tasks
  <2>3. at["pump"] # "idle" /\ at'["pump"] # "swap"
    BY <1>0, <2>1 DEF PaneInv, Tasks
  <2>4. at'["pump"] = "idle" => at["pump"] = "swap"
    BY <1>0, <2>1, <2>3 DEF Tasks
  <2>5. at["pump"] = "swap" => \A f \in Covered(section) : 
             pane'.content.data[f] = state[f] \/ state[f].at > observed
    BY <2>1 DEF CurrentInv, Follows
  <2> QED
    BY <1>0, <2>1, <2>2, <2>3, <2>4, <2>5 DEF CurrentInv
<1>9. ASSUME Notice PROVE CurrentInv'
  BY <1>0, <1>2, <1>9 DEF Notice, LockFree, Tasks, storeVars, screenVars
<1>10. ASSUME PollAnswers PROVE CurrentInv'
  BY <1>0, <1>2, <1>10 DEF PollAnswers, LockFree, Tasks, storeVars, screenVars, boundVars
<1>11. ASSUME RowHighlighted \/ RowSelected PROVE CurrentInv'
  <2>1. UNCHANGED <<state, section, pane, drawing, observed, pending, passedOver>>
        /\ (UNCHANGED at \/ PumpRefreshes)
    BY <1>11 DEF RowHighlighted, RowSelected, storeVars, boundVars
  <2> QED
    BY <1>0, <1>1, <1>2, <2>1 DEF PumpRefreshes, PaneInv, LockFree, Tasks
<1>12. ASSUME MoveCursor \/ PressEnter \/ PressSearch \/ SearchCancelled PROVE CurrentInv'
  BY <1>2, <1>12 DEF MoveCursor, PressEnter, PressSearch, SearchCancelled, storeVars, screenVars,
                     boundVars, LockFree
<1>13. ASSUME \/ NavigateBack \/ PressRefresh \/ CycleSort \/ ToggleFollow \/ ToggleLogNoise
              \/ ToggleLiveUpdates \/ (\E s \in Sections : ChooseSection(s))
              \/ \E q \in Queries \cup {Entries} : SearchResult(q)
       PROVE CurrentInv'
  <2>1. PumpRefreshes /\ UNCHANGED <<pane, drawing>>
    BY <1>13 DEF NavigateBack, PressRefresh, CycleSort, ToggleFollow, ToggleLogNoise,
                 ToggleLiveUpdates, ChooseSection, SearchResult, screenVars
  <2> QED
    BY <1>0, <1>1, <2>1 DEF PumpRefreshes, PaneInv, LockFree, Tasks
<1>14. ASSUME UNCHANGED vars PROVE CurrentInv'
  BY <1>2, <1>14 DEF vars, LockFree
<1> QED
  BY <1>3, <1>4, <1>5, <1>6, <1>7, <1>8, <1>9, <1>10, <1>11, <1>12, <1>13, <1>14
     DEF Next, Refreshes, Keys

\* At the start nothing is drawn yet.
LEMMA CurrentInitially == Init => CurrentInv
<1> SUFFICES ASSUME Init PROVE CurrentInv
  OBVIOUS
<1>1. VersionsInOrder
  <2>1. state = [f \in Fields |-> [at |-> 0, entries |-> <<>>]] /\ <<>> \in Seq(Entries)
    BY DEF Init, InitialState
  <2>2. state \in [Fields -> [at : Nat, entries : Seq(Entries)]] /\ \A f \in Fields : state[f].at = 0
    BY <2>1
  <2> QED
    BY <2>2 DEF Init, VersionsInOrder
<1>2. NoticeIsHonest
  BY DEF Init, NoticeIsHonest, NoNotice
<1>3. at["pump"] = "refresh" /\ LockFree
  BY DEF Init, LockFree, Tasks
<1> QED
  BY <1>1, <1>2, <1>3 DEF Init, CurrentInv

\* The observer's notices, what was passed over and what is pending account for all that the
\* pane does not show.
THEOREM CurrentHolds == Spec => []CurrentInv
<1>1. PaneInv /\ PaneInv' /\ CurrentInv /\ [Next]_vars => CurrentInv'
  BY CurrentStep
<1> QED
  BY <1>1, CurrentInitially, PaneHolds, PTL DEF Spec

\* When both tasks are at rest and the observer is up to date, what is drawn of the payload is
\* the store's, but for pending sections and versions no notice named (PaneIsCurrent).
THEOREM PaneStaysCurrent == Spec => []PaneIsCurrent
<1>1. CurrentInv => PaneIsCurrent
  <2> SUFFICES ASSUME CurrentInv, at = Quiet, observed = version, NEW f \in Covered(section)
               PROVE  \/ pane.content.data[f] = state[f]
                      \/ section \in pending
                      \/ state[f].at \in passedOver
    BY DEF PaneIsCurrent
  <2>1. f \in Fields /\ version \in Nat
    BY CoveredIsRelevant DEF CurrentInv, VersionsInOrder
  <2>2. ~(state[f].at > observed)
    BY <2>1 DEF CurrentInv, VersionsInOrder
  <2>3. at["pump"] = "idle"
    BY DEF Quiet, Tasks
  <2> QED
    BY <2>2, <2>3 DEF CurrentInv
<1> QED
  BY <1>1, CurrentHolds, PTL
=============================================================================
