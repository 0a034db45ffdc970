------------------------------ MODULE TasksSurface -----------------------------
(***************************************************************************)
(* The pages of scheduled tasks and of the daemon: App.tsx's snapshot of   *)
(* tasks and runs, the selection, the logs and the dialog for a new task   *)
(* (tasks-surface.tsx, create-task-dialog.tsx), and the buttons that start *)
(* and stop the daemon and its sessions (daemon-surface.tsx).              *)
(*                                                                         *)
(* One session stands for all, filters only hide tasks.  A log that comes  *)
(* back is shown whatever run is selected by then: the model says whose    *)
(* log is shown, and no property says that it is the selected run's.       *)
(***************************************************************************)
EXTENDS Panel

CONSTANTS Task, Run

Snapshot == [up |-> TRUE, tasks |-> stored.tasks, runs |-> stored.runs, session |-> stored.session]

\* What the shell says of a daemon that does not answer.
NoDaemon == [up |-> FALSE, tasks |-> {}, runs |-> {}, session |-> None]

Ids(rows) == {r.id : r \in rows}
RunsOf(rows, task) == {r \in rows : r.task = task}

-----------------------------------------------------------------------------
(* The daemon *)

RunTask(s, task, run) == [s EXCEPT !.runs = @ \union {[id |-> run, task |-> task, over |-> FALSE]}]
Over(s, run) == [s EXCEPT !.runs = {IF r.id = run THEN [r EXCEPT !.over = TRUE] ELSE r : r \in @}]
DeleteTask(s, task) ==
  [s EXCEPT !.tasks = {t \in @ : t.id # task}, !.runs = @ \ RunsOf(@, task)]
SetTaskPaused(s, task, paused) ==
  [s EXCEPT !.tasks = {IF t.id = task THEN [t EXCEPT !.paused = paused] ELSE t : t \in @}]

\* The shell asks for the parts of a snapshot one by one, and leaves out what fails.
Answers == IF stored.up THEN {Snapshot, [Snapshot EXCEPT !.tasks = {}, !.runs = {}]} ELSE {NoDaemon}

\* Starting and stopping always count as done, also when they came to nothing.
Outcomes(c) ==
  CASE c.op = "get_snapshot" -> {stored}
    [] c.op \in {"start", "restart"} -> {[stored EXCEPT !.up = up] : up \in BOOLEAN}
    [] c.op = "stop"           -> {stored, [stored EXCEPT !.up = FALSE]}
    [] c.op = "stop_instance"  ->
         {stored} \union {s \in {[stored EXCEPT !.session = "stopped"]} :
                            stored.up /\ stored.session = "online"}
    [] c.op = "prune"          ->
         {stored} \union {s \in {[stored EXCEPT !.session = None]} :
                            stored.up /\ stored.session = "stopped"}
    [] ~stored.up              -> {}
    [] c.op = "run"    -> {RunTask(stored, c.arg, r) : r \in
                             {q \in Run \ Ids(stored.runs) : c.arg \in Ids(stored.tasks)}}
    [] c.op = "pause"  -> {SetTaskPaused(stored, c.arg.id, ~c.arg.paused)}
    [] c.op = "delete" -> {DeleteTask(stored, c.arg)}
    [] c.op = "cancel" -> {Over(stored, c.arg)}
    [] c.op = "create" -> {[stored EXCEPT !.tasks = @ \union {[id |-> t, paused |-> FALSE]}] :
                             t \in Task \ Ids(stored.tasks)}
    [] c.op = "log"    -> {stored}
Serving == \E c \in {d \in calls : d.at = "sent"} : \E s \in Outcomes(c) :
  \E got \in IF c.op = "get_snapshot" THEN Answers ELSE {None} : Serves(c, s, got)

\* A task is due, or a run ends: an event says so.
Happens(s) ==
  /\ stored.up /\ s # stored
  /\ clicks < MaxClicks /\ clicks' = clicks + 1
  /\ stored' = s
  /\ calls' = Joined(calls, {[ActOn(Whole, "event", s.runs) EXCEPT !.at = "served"]})
  /\ clean' = clean \ Whole
  /\ UNCHANGED ui
RunBegins == \E t \in stored.tasks, r \in Run \ Ids(stored.runs) :
  ~t.paused /\ Happens(RunTask(stored, t.id, r))
RunEnds == \E r \in stored.runs : Happens(Over(stored, r.id))

-----------------------------------------------------------------------------
(* The app *)

\* Why it is called: quietly, after an act, or after the creation of a task.
Refresh(after) == Load("get_snapshot", after)
Interval == Clicks(ui, {Refresh("quiet")})

\* The first run of the task, unless one is selected that is listed.
SelectedRun(u) ==
  IF u.run \in Ids(u.runs) THEN {r \in u.runs : r.id = u.run} ELSE RunsOf(u.runs, u.task)

SelectTask == \E t \in ui.tasks : Shows([ui EXCEPT !.task = t.id, !.run = None, !.log = None])
SelectRun == \E r \in RunsOf(ui.runs, ui.task) : Shows([ui EXCEPT !.run = r.id, !.log = None])

LoadLog == \E r \in SelectedRun(ui) :
  Clicks([ui EXCEPT !.run = r.id, !.busy = "log"], {Detail("log", r.id)})

\* perform
Performs(key, op, arg) == Clicks([ui EXCEPT !.busy = key], {Act(op, arg)})

OnRun    == ui.busy = None /\ ui.task # None /\ Performs("run", "run", ui.task)
OnPause  == \E t \in ui.tasks : t.id = ui.task /\ Performs("pause", "pause", t)
OnDelete == ui.task # None /\ Performs("delete", "delete", ui.task)
OnCancel == \E r \in SelectedRun(ui) : ~r.over /\ Performs("cancel", "cancel", r.id)

OpenDialog  == Shows([ui EXCEPT !.dialog = TRUE])
CloseDialog == Shows([ui EXCEPT !.dialog = FALSE])
OnCreate    == ui.dialog /\ ui.busy # "create" /\ Performs("create", "create", None)

ChangingState == ui.busy \in {"start", "stop", "restart"}
OnStart == ~ChangingState /\ ~ui.up /\ Performs("start", "start", None)
OnStop == ~ChangingState /\ ui.up /\ Performs("stop", "stop", None)
OnRestart == ~ChangingState /\ ui.up /\ Performs("restart", "restart", None)
OnStopInstance ==
  /\ ui.session = "online" /\ ui.busy # "stop_instance"
  /\ Performs("stop_instance", "stop_instance", None)
OnPruneStopped == ui.session = "stopped" /\ ui.busy # "prune" /\ Performs("prune", "prune", None)

-----------------------------------------------------------------------------
(* The rest of the handlers *)

Idle(u) == [u EXCEPT !.busy = None]

\* What the refresh was for: the dialog of a new task is closed.
Closed(u) == [u EXCEPT !.dialog = FALSE]

\* The selected task stays while it is listed; else the first one is.
SelectedIn(tasks) ==
  IF ui.task \in Ids(tasks) THEN {ui.task} ELSE IF tasks = {} THEN {None} ELSE Ids(tasks)

SnapshotReturns(c) ==
  LET done(u) == CASE c.arg = "quiet"  -> u
                       [] c.arg = "loud"   -> Idle(u)
                       [] c.arg = "create" -> Closed(Idle(u))
  IN  /\ c.op = "get_snapshot"
      /\ IF c.at = "served"
         THEN \E t \in SelectedIn(c.got.tasks) :
                Goes(c, done([ui EXCEPT !.up = c.got.up, !.tasks = c.got.tasks,
                                        !.runs = c.got.runs, !.session = c.got.session,
                                        !.task = t]),
                     {}, {}, stored.up /\ c.got.tasks # stored.tasks)
         ELSE Goes(c, done(ui), {}, {}, FALSE)

PerformReturns(c) ==
  /\ c.kind = "act" /\ c.op # "event"
  /\ IF c.at = "served"
     THEN Goes(c, ui, {Refresh(IF c.op = "create" THEN "create" ELSE "loud")}, {}, FALSE)
     ELSE Goes(c, Idle(ui), {}, {}, FALSE)

LogReturns(c) ==
  /\ c.op = "log"
  /\ Goes(c, [Idle(ui) EXCEPT !.log = IF c.at = "served" THEN c.arg ELSE @], {}, {}, FALSE)

EventArrives(c) == c.op = "event" /\ Goes(c, ui, {Refresh("quiet")}, {}, FALSE)

Returns == \E c \in calls :
  SnapshotReturns(c) \/ PerformReturns(c) \/ LogReturns(c) \/ EventArrives(c)

-----------------------------------------------------------------------------
Init ==
  /\ \E up, two \in BOOLEAN, first \in Task :
       stored = [up |-> up, session |-> "online", runs |-> {},
                 tasks |-> IF two THEN {[id |-> t, paused |-> FALSE] : t \in Task}
                           ELSE {[id |-> first, paused |-> TRUE]}]
  /\ ui = [up |-> FALSE, tasks |-> {}, runs |-> {}, session |-> None, task |-> None,
           run |-> None, log |-> None, busy |-> None, dialog |-> FALSE]
  /\ calls = {Refresh("quiet")} /\ clean = {} /\ clicks = 0

Next ==
  \/ Interval \/ SelectTask \/ SelectRun \/ LoadLog
  \/ OnRun \/ OnPause \/ OnDelete \/ OnCancel \/ OpenDialog \/ CloseDialog \/ OnCreate
  \/ OnStart \/ OnStop \/ OnRestart \/ OnStopInstance \/ OnPruneStopped
  \/ RunBegins \/ RunEnds \/ Serving \/ Returns \/ \E c \in calls : Fails(c)

-----------------------------------------------------------------------------
InStep(part) ==
  /\ ui.up = stored.up
  /\ stored.up => /\ ui.tasks = stored.tasks /\ ui.runs = stored.runs
                  /\ ui.session = stored.session
BusyMeansCalling == calls = {} => ui.busy = None
=============================================================================
