---------------------------- MODULE ConsoleKeys ----------------------------
(***************************************************************************)
(* The event handlers of the terminal console (pitboss-tui, app.rs): what  *)
(* a key, a click or an event of the run's control socket does to the      *)
(* application state, and which control operation it sends.                *)
(*                                                                         *)
(* A handler returns the new state, what the loop does next ("continue",   *)
(* "quit" or "switch" to a run) and the operation sent (at most one).      *)
(***************************************************************************)
EXTENDS ConsoleState

NoOp == [kind |-> "none"]
Stay(s) == [s |-> s, act |-> "continue", to |-> "none", op |-> NoOp]
Quit(s) == [Stay(s) EXCEPT !.act = "quit"]
SwitchTo(s, r) == [Stay(s) EXCEPT !.act = "switch", !.to = r]
\* Without a client an operation is dropped without a word.
SpawnControlOp(s, op) == [Stay(s) EXCEPT !.op = IF s.conn = 0 THEN NoOp ELSE op]

TaskOp(kind, t) == [kind |-> kind, task |-> t]
ApproveOp(q, ok, edited) == [kind |-> "approve", req |-> q, ok |-> ok, edited |-> edited]

-----------------------------------------------------------------------------
(* Mode::Normal.                                                           *)

OnFocused(s, F(_)) == IF HasFocus(s) THEN F(FocusedId(s)) ELSE Stay(s)

\* The newest completed task is selected when the page opens.
EnterCompleted(s, cool) ==
    LET shown == CompletedTiles(s, cool)
    IN  IF shown = <<>> THEN s ELSE [s EXCEPT !.mode = CompletedPage(s.tasks[shown[1] + 1].id)]

OpenFromList(s) ==
    IF ListCurrent(s) = {} THEN s
    ELSE [s EXCEPT !.mode = Modal(s.list[s.sel + 1], "overview", 0)]

HandleApprovalPane(s, key) ==
    CASE key \in {"down", "up"} -> Stay(ListMove(s, key = "up"))
      [] key = "Enter" -> Stay(OpenFromList(s))
      [] key = "Esc" -> Stay([s EXCEPT !.pane = "grid"])

HandleGrid(s, key, cool, known) ==
    CASE key = "q" -> Quit(s)
      [] key = "Tab" -> Stay(CycleSubtree(s))
      [] key = "A" -> Stay([s EXCEPT !.pane = "approvals"])
      [] key = "C" -> Stay(EnterCompleted(s, cool))
      [] key = "left" -> Stay(FocusLeft(s, cool))
      [] key = "right" -> Stay(FocusRight(s, cool))
      [] key = "up" -> Stay(FocusUp(s, cool))
      [] key = "down" -> Stay(FocusDown(s, cool))
      [] key = "?" -> Stay([s EXCEPT !.mode = [kind |-> "help"]])
      [] key = "o" -> Stay(EnterPicker(s, known))
      [] key = "Enter" -> Stay(IF OnSubtreeHeader(s) THEN ToggleSubtree(s) ELSE EnterDetail(s))
      [] key = "x" ->
           OnFocused(s, LAMBDA t : Stay([s EXCEPT !.mode = [kind |-> "confirm", target |-> t]]))
      [] key = "X" -> Stay([s EXCEPT !.mode = [kind |-> "confirm", target |-> "run"]])
      [] key = "p" -> OnFocused(s, LAMBDA t : SpawnControlOp(s, TaskOp("pause", t)))
      [] key = "c" -> OnFocused(s, LAMBDA t : SpawnControlOp(s, TaskOp("continue", t)))
      [] key = "r" ->
           OnFocused(s, LAMBDA t :
               Stay([s EXCEPT !.mode = [kind |-> "reprompt", task |-> t, draft |-> 0]]))
      [] key = "P" -> Stay(EnterPolicyEditor(s))
      [] OTHER -> Stay(s)

HandleNormal(s, key, cool, known) ==
    IF s.pane = "approvals" /\ key \in {"down", "up", "Enter", "Esc"}
    THEN HandleApprovalPane(s, key) ELSE HandleGrid(s, key, cool, known)

-----------------------------------------------------------------------------
(* Mode::Detail, Mode::Completed, Mode::Help, Mode::PickingRun.            *)

HandleDetail(s, key) ==
    CASE key = "Esc" -> Stay(ExitDetail(s))
      [] key = "q" -> Quit(s)
      [] key = "down" -> Stay(ScrollDown(s, 1))
      [] key = "up" -> Stay(ScrollUp(s, 1))
      [] key = "J" -> Stay(ScrollDown(s, 5))
      [] key = "K" -> Stay(ScrollUp(s, 5))
      [] key = "PageDown" -> Stay(ScrollDown(s, 10))
      [] key = "PageUp" -> Stay(ScrollUp(s, 10))
      [] key = "G" -> Stay(JumpBottom(s))
      [] key = "g" -> Stay(JumpTop(s))
      [] OTHER -> Stay(s)

PageRows == 40

\* Moves by the time of completion, whichever order the page is drawn in.
HandleCompleted(s, key, cool) ==
    LET shown == CompletedTiles(s, cool)
        Id(k) == s.tasks[shown[k + 1] + 1].id
        at == {k \in 0 .. Len(shown) - 1 : Id(k) = s.mode.task}
        pos == IF at = {} THEN 0 ELSE CHOOSE k \in at : TRUE
        To(k, offset) == Stay([s EXCEPT !.mode.task = Id(k), !.mode.offset = offset])
        down == Least(pos + 1, Len(shown) - 1)
    IN  CASE key \in {"A", "q", "Esc"} -> Stay([s EXCEPT !.mode = Normal])
          [] key = "Q" -> Quit(s)
          [] key = "s" ->
               Stay([s EXCEPT !.mode.sort = CASE @ = "ended" -> "duration"
                                              [] @ = "duration" -> "status"
                                              [] @ = "status" -> "ended"])
          [] key = "Enter" /\ shown # <<>> -> Stay(EnterDetailFor(s, Id(pos)))
          [] key = "down" /\ shown # <<>> ->
               To(down, IF down >= s.mode.offset + PageRows THEN Monus(down, PageRows - 1)
                        ELSE s.mode.offset)
          [] key = "up" /\ shown # <<>> -> To(Monus(pos, 1), Least(s.mode.offset, Monus(pos, 1)))
          [] key = "g" /\ shown # <<>> -> To(0, 0)
          [] key = "G" /\ shown # <<>> -> To(Len(shown) - 1, Monus(Len(shown), PageRows))
          [] OTHER -> Stay(s)

HandleHelp(s, key) ==
    CASE key \in {"?", "Esc"} -> Stay([s EXCEPT !.mode = Normal])
      [] key = "q" -> Quit(s)
      [] OTHER -> Stay(s)

HandlePickingRun(s, key) ==
    CASE key \in {"down", "up"} -> Stay(PickerMove(s, key = "up"))
      [] key = "Esc" -> Stay(CancelPicker(s))
      [] key = "q" -> Quit(s)
      [] key = "Enter" ->
           IF s.mode.sel < Len(s.runList) THEN SwitchTo(s, s.runList[s.mode.sel + 1])
           ELSE Stay(CancelPicker(s))
      [] OTHER -> Stay(s)

-----------------------------------------------------------------------------
(* The modes that end in a control operation.                              *)

HandleConfirmKill(s, key) ==
    LET back == [s EXCEPT !.mode = Normal]
    IN  IF key = "y"
        THEN SpawnControlOp(back, IF s.mode.target = "run" THEN [kind |-> "cancel_run"]
                                  ELSE TaskOp("cancel", s.mode.target))
        ELSE Stay(back)

\* A printable key adds to the draft, and so does a plain Enter; an arrow does not.
Typed(draft, key) ==
    CASE key = "Backspace" -> Monus(draft, 1)
      [] key \in {"up", "down", "left", "right"} -> draft
      [] OTHER -> draft + 1

HandlePromptReprompt(s, key) ==
    LET back == [s EXCEPT !.mode = Normal]
    IN  CASE key = "Esc" -> Stay(back)
          [] key = "F2" -> IF s.mode.draft = 0 THEN Stay(back)
                           ELSE SpawnControlOp(back, TaskOp("reprompt", s.mode.task))
          [] OTHER -> Stay([s EXCEPT !.mode.draft = Typed(@, key)])

ApplyApproveToList(s, q) ==
    LET left == SelectSeq(s.list, LAMBDA i : i # q)
    IN  [s EXCEPT !.list = left, !.sel = IF left = <<>> THEN 0 ELSE Least(@, Len(left) - 1)]

\* Mutant: the request leaves the list although no client could carry the answer.
X_SendApprove(s, q, ok, edited) ==
    SpawnControlOp(ApplyApproveToList(s, q), ApproveOp(q, ok, edited))

\* The request leaves the list only when a client can carry the answer.
SendApprove(s, q, ok, edited) ==
    IF s.conn = 0 THEN Stay(s)
    ELSE SpawnControlOp(ApplyApproveToList(s, q), ApproveOp(q, ok, edited))

\* Esc puts the request aside: the list is shown, on that request.
SetAside(s, q) ==
    [s EXCEPT !.mode = Normal, !.pane = "approvals",
              !.sel = IF Contains(s.list, q) THEN PosIn(s.list, q) ELSE @]

HandleApprovalOverview(s, key) ==
    LET q == s.mode.req
    IN  CASE key = "y" -> SendApprove([s EXCEPT !.mode = Normal], q, TRUE, FALSE)
          [] key = "n" -> Stay([s EXCEPT !.mode = Modal(q, "rejecting", 0)])
          [] key = "e" -> Stay([s EXCEPT !.mode = Modal(q, "editing", 1)])
          [] key = "Esc" -> Stay(SetAside(s, q))
          [] OTHER -> Stay(s)

HandleApprovalDraft(s, key) ==
    LET q == s.mode.req
        editing == s.mode.sub = "editing"
    IN  CASE key = "F2" -> SendApprove([s EXCEPT !.mode = Normal], q, editing, editing)
          [] key = "Esc" -> Stay(SetAside(s, q))
          [] OTHER -> Stay([s EXCEPT !.mode.draft = Typed(@, key)])

HandleApprovalModal(s, key) ==
    CASE s.mode.sub = "overview" /\ key = "q" -> Quit(s)
      [] s.mode.sub = "overview" /\ key # "q" -> HandleApprovalOverview(s, key)
      [] OTHER -> HandleApprovalDraft(s, key)

NextAction(a) == CASE a = "approve" -> "reject" [] a = "reject" -> "block" [] a = "block" -> "approve"

HandlePolicyEditor(s, key) ==
    LET rules == s.mode.rules
        sel == s.mode.sel
        At(rs, i) == Stay([s EXCEPT !.mode.rules = rs, !.mode.sel = i])
        left == RemoveAt(rules, sel + 1)
    IN  CASE key = "q" -> Quit(s)
          [] key = "s" ->
               SpawnControlOp([s EXCEPT !.rules = rules, !.mode = Normal],
                              [kind |-> "policy", rules |-> rules])
          [] key = "Esc" -> Stay([s EXCEPT !.mode = Normal])
          [] key = "n" -> At(Append(rules, "approve"), Len(rules))
          [] key \in {"down", "up"} /\ rules # <<>> -> At(rules, Wrap(sel, Len(rules), key = "up"))
          [] key = "Enter" /\ rules # <<>> -> At([rules EXCEPT ![sel + 1] = NextAction(@)], sel)
          [] key = "d" /\ rules # <<>> ->
               At(left, IF left # <<>> /\ sel >= Len(left) THEN Len(left) - 1 ELSE sel)
          [] OTHER -> Stay(s)

-----------------------------------------------------------------------------

HandleKey(s0, key, cool, known) ==
    LET s == [s0 EXCEPT !.notice = NoNotice]
        kind == s.mode.kind
    IN  IF key = "Ctrl-C" THEN Quit(s0)
        ELSE CASE kind = "normal" -> HandleNormal(s, key, cool, known)
               [] kind = "help" -> HandleHelp(s, key)
               [] kind = "picking" -> HandlePickingRun(s, key)
               [] kind = "detail" -> HandleDetail(s, key)
               [] kind = "confirm" -> HandleConfirmKill(s, key)
               [] kind = "reprompt" -> HandlePromptReprompt(s, key)
               [] kind = "modal" -> HandleApprovalModal(s, key)
               [] kind = "policy" -> HandlePolicyEditor(s, key)
               [] kind = "completed" -> HandleCompleted(s, key, cool)

\* Every outcome of a mouse event: where the pointer is decides which.  The wheel
\* over a tile opens it like a click; over the detail view it scrolls five rows.
HandleMouse(s0, cool) ==
    LET s == [s0 EXCEPT !.notice = NoNotice]
        kind == s.mode.kind
    IN  {Stay(s)}
        \cup (IF kind = "detail"
              THEN {Stay(ExitDetail(s)), Stay(ScrollUp(s, 5)), Stay(ScrollDown(s, 5))} ELSE {})
        \cup (IF kind = "completed"
              THEN {Stay([s EXCEPT !.mode = Normal])}
                   \cup {Stay(EnterDetailFor(s, s.tasks[i + 1].id)) :
                             i \in s.hit.completed \cap 0 .. Len(s.tasks) - 1}
              ELSE {})
        \cup (IF kind = "normal"
              THEN (IF s.hit.tab THEN {Stay(EnterCompleted(s, cool))} ELSE {})
                   \cup {Stay(EnterDetail([s EXCEPT !.focus = i])) : i \in s.hit.tiles}
              ELSE {})
        \cup (IF kind = "picking"
              THEN {SwitchTo(s, s.runList[i + 1]) : i \in s.hit.picker \cap 0 .. Len(s.runList) - 1}
              ELSE {})

\* An event of the control socket.  A request for approval goes to the end of
\* the list and takes the screen, whatever was on it; the end of the
\* connection takes an open request off the screen and leaves the list.
ApplyControlEvent(s, ev) ==
    CASE ev.kind = "hello" -> [s EXCEPT !.rules = ev.rules]
      [] ev.kind = "request" ->
           [s EXCEPT !.list = IF Contains(@, ev.req) THEN @ ELSE Append(@, ev.req),
                     !.mode = Modal(ev.req, "overview", 0)]
      [] ev.kind \in {"superseded", "finished"} ->
           [s EXCEPT !.connected = FALSE, !.mode = IF @.kind = "modal" THEN Normal ELSE @]
      [] ev.kind = "spawned" -> [s EXCEPT !.trees = @ \cup {ev.sublead}, !.folded = @ \ {ev.sublead}]
      [] ev.kind = "terminated" -> [s EXCEPT !.trees = @ \ {ev.sublead}, !.folded = @ \ {ev.sublead}]
      [] OTHER -> s
=============================================================================
