--------------------------------- MODULE Island --------------------------------
(***************************************************************************)
(* The island (components/IslandApp.tsx): a small window that shows the    *)
(* run of one conversation, from the daemon's events and from loads of its *)
(* own, and that the shell resizes and hides (system_ops.rs).              *)
(*                                                                         *)
(* Parts: "run", what the island says of the turn; "window", that it is    *)
(* shown while it says that one runs; "frame", its size.  What it draws of *)
(* the messages is left out.  The shell sends every change of the size     *)
(* back to the island as an event (echoes).                                *)
(***************************************************************************)
EXTENDS Panel, Sequences

CONSTANTS Conversation, Subagent,
          MaxEchoes  \* changes of the size on their way back

Session == Conversation \union Subagent

-----------------------------------------------------------------------------
(* The daemon: the turns, as far as their events go *)

RunStates == {"run"}
AnEvent(of, kind) == [ActOn(RunStates, "event", [of |-> of, kind |-> kind]) EXCEPT !.at = "served"]

TurnGoes(s, to, sent) ==
  /\ clicks < MaxClicks /\ clicks' = clicks + 1
  /\ stored' = [stored EXCEPT !.turn = [r \in Session |-> IF r = s THEN to ELSE @[r]]]
  /\ calls' = Joined(Disturbed(calls, RunStates), sent)
  /\ clean' = IF sent = {} THEN clean \ RunStates ELSE clean \ Clash(calls, sent)
  /\ UNCHANGED ui
TurnBegins(s) == stored.turn[s] = "none" /\ TurnGoes(s, "begun", {})
TurnStarts(s) == stored.turn[s] = "begun" /\ TurnGoes(s, "live", {AnEvent(s, "agent_start")})
TurnMoves(s) ==
  /\ stored.turn[s] = "live"
  /\ \E kind \in {"turn_start", "tool_start", "tool_end", "text", "message_end"} :
       TurnGoes(s, "live", {AnEvent(s, kind)})
TurnSettles(s) ==
  stored.turn[s] = "live" /\ TurnGoes(s, "settled", {AnEvent(s, "agent_settled")})
TurnLeaves(s) == stored.turn[s] = "settled" /\ TurnGoes(s, "none", {})

\* The event turn_end comes with agent_settled and does the same: it is left out.
\* A task's run says that it started, or that it is over; no conversation does.
TaskRuns == \E kind \in {"task_run_started", "task_run_completed"} :
  TurnGoes("task-scheduler", None, {AnEvent("task-scheduler", kind)})

DaemonServes == \E c \in calls :
  Serves(c, stored, IF c.op = "get_conversation" THEN stored.turn[c.arg] # "none" ELSE None)

-----------------------------------------------------------------------------
(* What the island says *)

Progress(of, stage) == [of |-> of, stage |-> stage]

\* The stages in which the island is busy count as one, the others as another.
StageAfter(kind, stage) ==
  CASE kind \in {"turn_start", "tool_start", "tool_end"} -> "working"
    [] kind \in {"text", "agent_start"}                  -> "quiet"
    [] OTHER                                             -> stage

ProgressAfter(e) ==
  IF e.kind = "agent_settled" THEN None
  ELSE Progress(e.of, StageAfter(e.kind, IF ui.progress # None /\ ui.progress.of = e.of
                                         THEN ui.progress.stage ELSE "quiet"))

ToolsAfter(e) == CASE e.kind = "tool_start"    -> ui.tools \union {e.of}
                   [] e.kind = "tool_end"      -> ui.tools \ {e.of}
                   [] e.kind = "agent_settled" -> {}
                   [] OTHER                    -> ui.tools

StreamingAfter(e) == CASE e.kind \in {"agent_start", "turn_start"} -> TRUE
                       [] e.kind = "agent_settled"                 -> FALSE
                       [] OTHER                                    -> ui.streaming

IsBusy(u) == u.streaming \/ u.tools # {} \/ (u.progress # None /\ u.progress.stage = "working")

Mode(u) == IF u.expanded THEN "expanded" ELSE IF IsBusy(u) THEN "working" ELSE "idle"

-----------------------------------------------------------------------------
(* The window.  Every change of the size, or of the mode, is told to the     *)
(* shell, which sets the frame and sends the size back.                      *)

SetExpanded(u, expanded) ==
  [u EXCEPT !.frame = expanded, !.echoes = Append(@, expanded),
            !.window = @ \/ expanded]

\* Showing a hidden window makes it small, and says so.
ShowWindow(u) ==
  IF u.window THEN u ELSE [u EXCEPT !.window = TRUE, !.frame = FALSE, !.echoes = Append(@, FALSE)]

\* The effects of a change: the window is shown when the island becomes busy.
Synced(u) == IF Mode(u) # Mode(ui) THEN SetExpanded(u, u.expanded) ELSE u
Drawn(u) ==
  Synced(IF IsBusy(u) /\ ~IsBusy(ui)
         THEN ShowWindow([u EXCEPT !.completed = FALSE, !.timer = FALSE]) ELSE u)

Fits(u) == Len(u.echoes) <= MaxEchoes

\* Something of the window happens: the parts in lost may now be wrong.
Moves(u, lost) ==
  /\ Fits(u) /\ ui' = u /\ ui # u
  /\ clean' = clean \ lost
  /\ UNCHANGED <<stored, calls>>
Elapses(u, lost) == Moves(u, lost) /\ UNCHANGED clicks
Moved(u, lost) == Moves(u, lost) /\ clicks < MaxClicks /\ clicks' = clicks + 1

\* The island is drawn as a capsule that opens, or as a card with its buttons.
Capsule == ~ui.expanded
Expanded == ui.expanded

Expand == Capsule /\ Moved(Drawn([ui EXCEPT !.expanded = TRUE]), {})
Collapse == Expanded /\ Moved(Drawn([ui EXCEPT !.expanded = FALSE]), {})

OnIslandState ==
  /\ ui.echoes # <<>>
  /\ Elapses(Drawn([ui EXCEPT !.expanded = Head(ui.echoes), !.echoes = Tail(@)]), {})

\* The tray hides the window, or shows it small without saying so.
ToggleWindow ==
  /\ Moved(IF ui.window THEN [ui EXCEPT !.window = FALSE]
           ELSE [ui EXCEPT !.window = TRUE, !.frame = FALSE], {"window", "frame"})

HideWindow(u) == [u EXCEPT !.window = FALSE]

\* The window is hidden some time after a turn, unless another one runs.
CompletionTimer ==
  /\ ui.timer
  /\ LET u == [ui EXCEPT !.timer = FALSE, !.completed = FALSE]
     IN  Elapses(IF IsBusy(ui) THEN u ELSE HideWindow(u), {})

\* After the run of a task it is hidden whatever runs.
TaskTimer ==
  /\ ui.taskTimer
  /\ Elapses(HideWindow([ui EXCEPT !.taskTimer = FALSE]), {"window"})

-----------------------------------------------------------------------------
(* Loads and events *)

LoadConversation(s) == LoadOf(RunStates, "get_conversation", s)
GetSnapshot == Detail("get_snapshot", None)

RefreshSnapshot == Clicks(ui, {GetSnapshot})
ReloadWhileBusy == IsBusy(ui) /\ ui.active # None /\ Clicks(ui, {LoadConversation(ui.active)})
Select(s) == clicks < MaxClicks /\ stored.selected # s
  /\ clicks' = clicks + 1 /\ stored' = [stored EXCEPT !.selected = s]
  /\ calls' = Joined(calls, {LoadConversation(s)})
  /\ clean' = clean \ Clash(calls, {LoadConversation(s)})
  /\ UNCHANGED ui

\* The selected conversation, or any that the snapshot lists.
TargetId == IF stored.selected # None THEN {stored.selected} ELSE Conversation
SnapshotReturns(c) ==
  /\ c.op = "get_snapshot"
  /\ \/ c.at = "served" /\ \E s \in TargetId : Goes(c, ui, {LoadConversation(s)}, {}, FALSE)
     \/ c.at = "failed" /\ Goes(c, ui, {}, {}, FALSE)

\* The daemon owns the run state: with it, what is left of a run goes.
Loaded(s, streaming) ==
  LET u == [ui EXCEPT !.active = s, !.streaming = streaming]
  IN  IF streaming THEN u ELSE [u EXCEPT !.tools = {}, !.progress = None]

Takes(c, u, new, spoils) == Fits(Drawn(u)) /\ Goes(c, Drawn(u), new, {}, spoils)

ConversationReturns(c) ==
  /\ c.op = "get_conversation"
  /\ Takes(c, IF c.at = "served" THEN Loaded(c.arg, c.got) ELSE ui, {}, FALSE)

Showing(e, u) ==
  CASE e.kind \in {"agent_start", "turn_start"} ->
         ShowWindow([u EXCEPT !.completed = FALSE, !.timer = FALSE])
    [] e.kind = "agent_settled" -> [u EXCEPT !.completed = TRUE, !.timer = TRUE]
    [] OTHER                    -> u

TaskEvent(c) ==
  /\ c.op = "event" /\ c.arg.of = "task-scheduler"
  /\ Takes(c, IF c.arg.kind = "task_run_started" THEN ShowWindow(ui)
              ELSE [ui EXCEPT !.completed = TRUE, !.taskTimer = TRUE], {}, FALSE)

(* Events of every session count, whatever conversation is shown; one of     *)
(* another conversation, and the end of a tool, message or turn, bring a     *)
(* load, those of subagents never.                                           *)
SessionEvent(c) ==
  /\ c.op = "event" /\ c.arg.of \in Session
  /\ LET e == c.arg
         sub == e.of \in Subagent
         loads == ~sub /\ (e.of # ui.active
                           \/ e.kind \in {"tool_end", "message_end", "agent_settled"})
     IN  Takes(c, Showing(e, [ui EXCEPT !.progress = ProgressAfter(e), !.tools = ToolsAfter(e),
                                        !.streaming = StreamingAfter(e)]),
               IF loads THEN {LoadConversation(e.of)} ELSE {},
               sub \/ loads)

-----------------------------------------------------------------------------
(* Clicks *)

HandleStop == Expanded /\ IsBusy(ui) /\ ui.active # None /\ Clicks(ui, {Detail("abort", ui.active)})
AbortReturns(c) == c.op = "abort" /\ Goes(c, ui, {}, {}, FALSE)

HandleOpenMain == Expanded /\ Clicks(ui, {Detail("open_main", None)})
OpenMainReturns(c) ==
  /\ c.op = "open_main"
  /\ Takes(c, IF c.at = "served" THEN SetExpanded([ui EXCEPT !.expanded = FALSE], FALSE) ELSE ui,
           {}, FALSE)

-----------------------------------------------------------------------------
Init ==
  /\ \E t \in [Session -> {"none", "live"}] :
       stored = [turn |-> t, selected |-> None]
  /\ ui = [active |-> None, streaming |-> FALSE, tools |-> {}, progress |-> None,
           expanded |-> FALSE, completed |-> FALSE, timer |-> FALSE, taskTimer |-> FALSE,
           window |-> TRUE, frame |-> FALSE, echoes |-> <<FALSE>>]
  /\ calls = {GetSnapshot} /\ clean = {"window", "frame"} /\ clicks = 0

Turns_ == \E s \in Session :
  TurnBegins(s) \/ TurnStarts(s) \/ TurnMoves(s) \/ TurnSettles(s) \/ TurnLeaves(s)
Window ==
  Expand \/ Collapse \/ OnIslandState \/ ToggleWindow \/ CompletionTimer \/ TaskTimer
Returns == \E c \in calls :
  \/ SnapshotReturns(c) \/ ConversationReturns(c) \/ TaskEvent(c) \/ SessionEvent(c)
  \/ AbortReturns(c) \/ OpenMainReturns(c)
Next ==
  \/ Turns_ \/ TaskRuns \/ Window \/ Returns \/ DaemonServes
  \/ RefreshSnapshot \/ ReloadWhileBusy \/ \E s \in Conversation : Select(s)
  \/ HandleStop \/ HandleOpenMain \/ \E c \in calls : Fails(c)

-----------------------------------------------------------------------------
InStep(part) ==
  CASE part = "run" ->
         ui.active # None =>
           /\ ui.streaming <=> stored.turn[ui.active] # "none"
           /\ stored.turn[ui.active] = "none" => ~IsBusy(ui)
    [] part = "window" -> IsBusy(ui) => ui.window
    [] part = "frame"  -> ui.echoes = <<>> => (ui.frame <=> ui.expanded)
=============================================================================
