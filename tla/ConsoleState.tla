---------------------------- MODULE ConsoleState ----------------------------
(***************************************************************************)
(* What the terminal console keeps on its screen (pitboss-tui, state.rs    *)
(* and the parts of tui.rs that leave something behind for the next event).*)
(*                                                                         *)
(* The application state is a record; each method of AppState is an        *)
(* operator from record to record.  A task is a tile [id, ended, live],    *)
(* ended being the number of its record in the order the run wrote them    *)
(* (0: none yet), which stands for completed_at; `cool' is how many of a   *)
(* run's records are older than the cooldown.  Indexes are zero-based, as  *)
(* in the code.  A draft is its length.                                    *)
(***************************************************************************)
EXTENDS Naturals, Sequences, FiniteSets, SequencesExt

CONSTANTS
    TaskOrder,   \* every task id, in the order sort() gives them
    Subleads,    \* every sub-lead id, in the same order
    TileCols,    \* tiles to a row of the grid (4 in the code)
    Viewport     \* rows of the log pane

ASSUME ConsoleAssumption == TileCols \in Nat \ {0} /\ Viewport \in Nat \ {0}

NoNotice == [task |-> "none", why |-> "none"]
Normal == [kind |-> "normal"]
Detail(t, back) ==
    [kind |-> "detail", task |-> t, scroll |-> 0, bottom |-> TRUE, back |-> back]
CompletedPage(t) == [kind |-> "completed", task |-> t, offset |-> 0, sort |-> "ended"]
Modal(q, sub, draft) == [kind |-> "modal", req |-> q, sub |-> sub, draft |-> draft]

AppState ==
    [run |-> "none", tasks |-> <<>>, focus |-> 0, mode |-> Normal,
     log |-> [task |-> "none", rows |-> 0], failed |-> 0, runList |-> <<>>,
     conn |-> 0, connected |-> FALSE, diffs |-> {}, rows |-> 0, view |-> 0,
     hit |-> [tiles |-> {}, picker |-> {}, completed |-> {}, tab |-> FALSE],
     trees |-> {}, folded |-> {}, subIdx |-> 0, pane |-> "grid",
     list |-> <<>>, sel |-> 0, rules |-> <<>>, notice |-> NoNotice]
AppNew(r) == [AppState EXCEPT !.run = r]

\* Closing one run's pages before another is opened.  The notice and the picker's
\* rectangles stay, and so does the client: connect_control replaces it.
ResetForSwitch(s, r) ==
    [s EXCEPT !.run = r, !.tasks = <<>>, !.focus = 0, !.runList = <<>>, !.mode = Normal,
              !.list = <<>>, !.sel = 0, !.rules = <<>>, !.trees = {}, !.folded = {},
              !.subIdx = 0, !.pane = "grid", !.diffs = {}, !.failed = 0,
              !.log = [task |-> "none", rows |-> 0], !.connected = FALSE,
              !.hit.completed = {}, !.hit.tab = FALSE]

-----------------------------------------------------------------------------
(* Tiles: which are on the grid, which on the Completed page.              *)

HasFocus(s) == s.focus < Len(s.tasks)
FocusedTile(s) == s.tasks[s.focus + 1]
FocusedId(s) == IF HasFocus(s) THEN FocusedTile(s).id ELSE "none"
Position(s, t) == CHOOSE i \in 0 .. Len(s.tasks) - 1 : s.tasks[i + 1].id = t
Shows(s, t) == \E i \in 1 .. Len(s.tasks) : s.tasks[i].id = t

IsPromoted(tile, cool) == tile.ended # 0 /\ tile.ended <= cool
Indexes(s) == [i \in 1 .. Len(s.tasks) |-> i - 1]
ActiveTiles(s, cool) ==
    SelectSeq(Indexes(s), LAMBDA i : ~ IsPromoted(s.tasks[i + 1], cool))
\* The code sorts by the time of completion, the newest first.
CompletedTiles(s, cool) ==
    SortSeq(SelectSeq(Indexes(s), LAMBDA i : IsPromoted(s.tasks[i + 1], cool)),
            LAMBDA a, b : s.tasks[a + 1].ended > s.tasks[b + 1].ended)

PosIn(seq, i) == IF Contains(seq, i) THEN (CHOOSE k \in 1 .. Len(seq) : seq[k] = i) - 1 ELSE 0

\* Mutant: the focus moves off a tile that left the grid without a word.
X_EnsureActiveFocus(s, cool) ==
    LET active == ActiveTiles(s, cool)
    IN  IF s.mode.kind \in {"detail", "completed"} \/ active = <<>> \/ Contains(active, s.focus)
        THEN s ELSE [s EXCEPT !.focus = active[1]]

\* A focus left on a tile that moved to the Completed page goes to the first
\* tile of the grid, and the first such move since the last key is announced.
EnsureActiveFocus(s, cool) ==
    LET active == ActiveTiles(s, cool)
    IN  IF s.mode.kind \in {"detail", "completed"} \/ active = <<>> \/ Contains(active, s.focus)
        THEN s
        ELSE [s EXCEPT !.focus = active[1],
                       !.notice = IF s.notice = NoNotice /\ HasFocus(s)
                                  THEN [task |-> FocusedId(s), why |-> "promoted"] ELSE @]

FocusLeft(s, cool) ==
    LET active == ActiveTiles(s, cool)
        pos == PosIn(active, s.focus)
    IN  IF active = <<>> THEN s
        ELSE [s EXCEPT !.focus = active[IF pos = 0 THEN Len(active) ELSE pos]]
FocusRight(s, cool) ==
    LET active == ActiveTiles(s, cool)
    IN  IF active = <<>> THEN s
        ELSE [s EXCEPT !.focus = active[((PosIn(active, s.focus) + 1) % Len(active)) + 1]]
FocusUp(s, cool) ==
    LET active == ActiveTiles(s, cool)
        pos == PosIn(active, s.focus)
    IN  IF active # <<>> /\ pos >= TileCols THEN [s EXCEPT !.focus = active[pos - TileCols + 1]] ELSE s
FocusDown(s, cool) ==
    LET active == ActiveTiles(s, cool)
        pos == PosIn(active, s.focus)
    IN  IF active # <<>> /\ pos + TileCols < Len(active)
        THEN [s EXCEPT !.focus = active[pos + TileCols + 1]] ELSE s

-----------------------------------------------------------------------------
(* The detail view of one task.                                            *)

EnterDetailFor(s, t) ==
    IF s.mode.kind = "detail" THEN s
    ELSE [s EXCEPT !.focus = IF Shows(s, t) THEN Position(s, t) ELSE @,
                   !.mode = Detail(t, IF s.mode.kind = "completed" THEN s.mode ELSE Normal)]
EnterDetail(s) == IF HasFocus(s) THEN EnterDetailFor(s, FocusedId(s)) ELSE s
\* The task whose git diff a thread is started for, when the view opens.
DiffWanted(s, opened) ==
    IF s.mode.kind # "detail" /\ opened.mode.kind = "detail" /\ Shows(s, opened.mode.task)
    THEN {opened.mode.task} ELSE {}
ExitDetail(s) == [s EXCEPT !.mode = s.mode.back, !.diffs = {}]

\* The scroll methods work on the totals the last draw left behind.
Monus(a, b) == IF a >= b THEN a - b ELSE 0
Least(a, b) == IF a <= b THEN a ELSE b
MaxScroll(s) == Monus(s.rows, IF s.view = 0 THEN 1 ELSE s.view)
ScrollDown(s, d) ==
    LET to == Least(Least(s.mode.scroll, MaxScroll(s)) + d, MaxScroll(s))
    IN  [s EXCEPT !.mode.scroll = to, !.mode.bottom = @ \/ to >= MaxScroll(s)]
ScrollUp(s, d) ==
    [s EXCEPT !.mode.scroll = Monus(Least(s.mode.scroll, MaxScroll(s)), d), !.mode.bottom = FALSE]
JumpTop(s) == [s EXCEPT !.mode.scroll = 0, !.mode.bottom = FALSE]
JumpBottom(s) == [s EXCEPT !.mode.scroll = MaxScroll(s), !.mode.bottom = TRUE]
AutoScroll(s) ==
    IF s.mode.kind = "detail" /\ s.mode.bottom THEN [s EXCEPT !.mode.scroll = MaxScroll(s)] ELSE s

-----------------------------------------------------------------------------
(* Sub-trees, the run picker, the approval list.                           *)

SortedSubleads(s) == SelectSeq(Subleads, LAMBDA l : l \in s.trees)
CycleSubtree(s) == [s EXCEPT !.subIdx = (@ + 1) % (1 + Cardinality(s.trees))]
\* The index may be left beyond the last sub-tree when one ends.
OnSubtreeHeader(s) == s.subIdx > 0 /\ s.trees # {}
ToggleSubtree(s) ==
    IF s.subIdx > Cardinality(s.trees) THEN s
    ELSE LET l == SortedSubleads(s)[s.subIdx]
         IN  [s EXCEPT !.folded = IF l \in @ THEN @ \ {l} ELSE @ \cup {l}]

EnterPicker(s, known) == [s EXCEPT !.runList = known, !.mode = [kind |-> "picking", sel |-> 0]]
CancelPicker(s) == [s EXCEPT !.mode = Normal, !.runList = <<>>]
Wrap(i, n, up) == IF up THEN (IF i = 0 THEN n - 1 ELSE i - 1) ELSE (i + 1) % n
PickerMove(s, up) ==
    IF s.runList = <<>> THEN s ELSE [s EXCEPT !.mode.sel = Wrap(@, Len(s.runList), up)]
ListMove(s, up) == IF s.list = <<>> THEN s ELSE [s EXCEPT !.sel = Wrap(@, Len(s.list), up)]
ListCurrent(s) == IF s.sel < Len(s.list) THEN {s.list[s.sel + 1]} ELSE {}
EnterPolicyEditor(s) == [s EXCEPT !.mode = [kind |-> "policy", rules |-> s.rules, sel |-> 0]]

-----------------------------------------------------------------------------
(* A snapshot of the run directory, and a frame.                           *)

\* The focus follows its task.  A focused task that is gone is announced before
\* the index is clamped.  Only on that path is an empty Completed page left.
ApplySnapshot(s, snap, cool) ==
    LET old == FocusedId(s)
        s1 == [s EXCEPT !.tasks = snap.tasks, !.log = snap.log, !.failed = snap.failed]
        gone == [s1 EXCEPT
                   !.notice = IF old = "none" THEN @ ELSE [task |-> old, why |-> "disappeared"],
                   !.focus = IF s1.tasks # <<>> /\ @ >= Len(s1.tasks) THEN Len(s1.tasks) - 1 ELSE @]
        after == EnsureActiveFocus(gone, cool)
    IN  IF old # "none" /\ Shows(s1, old)
        THEN EnsureActiveFocus([s1 EXCEPT !.focus = Position(s1, old)], cool)
        ELSE IF after.mode.kind = "completed" /\ CompletedTiles(after, cool) = <<>>
             THEN [after EXCEPT !.mode = Normal] ELSE after

\* What a frame leaves behind for the next event.  The detail view: the rows of
\* its log and of its pane.
RenderDetail(s) == [s EXCEPT !.rows = s.log.rows, !.view = Viewport]
\* The tab to click on.
RenderTabBar(s) == [s EXCEPT !.hit.tab = TRUE]
\* The Completed page: its rows, unless it is empty.
RenderCompleted(s, cool) ==
    LET shown == CompletedTiles(s, cool)
    IN  IF shown = <<>> THEN RenderTabBar(s)
        ELSE [RenderTabBar(s) EXCEPT
                 !.hit.completed = {shown[i] : i \in s.mode.offset + 1 .. Len(shown)}]
\* The grid: its tiles, unless there are no tasks; none when grouped by sub-tree.
RenderFlatGrid(s, cool) == [s EXCEPT !.hit.tiles = ToSet(ActiveTiles(s, cool))]
RenderGroupedGrid(s) == [s EXCEPT !.hit.tiles = {}]
RenderBody(s, cool) ==
    IF s.tasks = <<>> THEN s ELSE IF s.trees = {} THEN RenderFlatGrid(s, cool) ELSE RenderGroupedGrid(s)
\* The picker: its runs, unless there are none.
RenderPicker(s) ==
    IF s.runList = <<>> THEN s ELSE [s EXCEPT !.hit.picker = 0 .. Len(s.runList) - 1]
Render(s, cool) ==
    LET barred == IF CompletedTiles(s, cool) = <<>> THEN s ELSE RenderTabBar(s)
    IN  CASE s.mode.kind = "detail" -> RenderDetail(s)
          [] s.mode.kind = "completed" -> RenderCompleted(s, cool)
          [] s.mode.kind = "picking" -> RenderPicker(RenderBody(barred, cool))
          [] OTHER -> RenderBody(barred, cool)

\* What the operator sees in a frame.
Screen(s) == [run |-> s.run, focus |-> FocusedId(s), mode |-> s.mode, notice |-> s.notice]
=============================================================================
