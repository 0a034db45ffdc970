---------------------------- MODULE TaskScheduler ----------------------------
(***************************************************************************)
(* Scheduled tasks: the Scheduler of openpi-scheduler (lib.rs), the loop   *)
(* and the execution of a run in openpi-daemon (task_runner.rs), and the   *)
(* operations of app_ops.rs on tasks and runs, over the tables tasks and   *)
(* task_runs of openpi-storage.                                            *)
(*                                                                         *)
(* A run's cancellation token reaches the map active_runs through spawned  *)
(* tasks that may land at any later moment, and a run's row is updated     *)
(* unconditionally by whoever writes last. The turn a run executes (in a   *)
(* session of its own) is external here: it succeeds or fails, and it ends *)
(* early when the token it watches is cancelled.                           *)
(*                                                                         *)
(* The writes that end a run may fail, and the code goes on without them.  *)
(* Reading the due tasks and inserting a row do not fail here: the loop    *)
(* would try again at its next tick.                                       *)
(***************************************************************************)
EXTENDS Naturals, FiniteSets

CONSTANTS
  Task,        (* Tasks that may be created.                               *)
  NoTask,      (* The task of a run that was not triggered.                *)
  Run,         (* Bound: runs of one behaviour.                            *)
  Scheduled,   (* Those that the loop may trigger.                         *)
  Manual,      (* Those that may be triggered by hand.                     *)
  MaxCancels,  (* Bound: runs for which cancel_run is called.              *)
  MaxRestarts  (* Bound: restarts of the daemon.                           *)

ASSUME SchedulerAssumption ==
  /\ NoTask \notin Task
  /\ Scheduled \subseteq Run
  /\ Manual \subseteq Run
  /\ MaxCancels \in Nat
  /\ MaxRestarts \in Nat

VARIABLES
  kind,       (* tasks.schedule: a time ("once"), an expression that always *)
              (* has a next time ("cron"), or one that has none from some  *)
              (* moment on ("lapsing"): its years end, it does not parse,  *)
              (* or its kind is unknown. create_task takes them all.       *)
  status,     (* tasks.status; "absent" before creation, "deleted" after.  *)
  next,       (* tasks.next_run_at: NULL, ahead of now, or not.            *)
  resuming,   (* Tasks between the two writes of set_task_paused(false).   *)
  due,        (* The tick's due tasks that the loop has yet to trigger.    *)
  taskOf,     (* task_runs.task_id                                         *)
  row,        (* task_runs.status; "none" without a row.                   *)
  unwritten,  (* Runs whose outcome could not be written to the row.       *)
  pc,         (* Where execute_task_run stands.                            *)
  outcome,    (* What it has decided to report.                            *)
  pending,    (* Spawned insertions into active_runs not yet carried out.  *)
  registry,   (* active_runs: which of the run's tokens it holds.          *)
  held,       (* The token execute_task_run watches, until it looks at it  *)
              (* for the last time.                                        *)
  stopped,    (* Runs whose watched token is cancelled. (Cancelling a      *)
              (* token that is not watched has no effect.)                 *)
  asked,      (* Runs for which cancel_run was called.                     *)
  cancelling, (* Runs whose cancel_run has yet to update the row.          *)
  restarts    (* Restarts so far.                                          *)

taskVars == <<kind, status, next, resuming>>
runVars == <<taskOf, row, unwritten, pc, outcome>>
tokenVars == <<pending, registry, held, stopped>>
cancelVars == <<asked, cancelling>>
vars == <<taskVars, due, runVars, tokenVars, cancelVars, restarts>>

Exists(t) == status[t] \in {"active", "paused", "completed"}

(* trigger_task and execute_task_run each make a token of their own.        *)
Maker == {"trigger", "run"}
NoToken == "none"

Live == {"triggered", "starting", "executing", "completing", "recording"}
Phases == Live \cup {"free", "advancing", "done", "killed"}
Outcomes == {"succeeded", "failed", "cancelled", "unstarted"}

TypeOK ==
  /\ kind \in [Task -> {"once", "cron", "lapsing"}]
  /\ status \in [Task -> {"absent", "active", "paused", "completed", "deleted"}]
  /\ next \in [Task -> {"none", "ahead", "due"}]
  /\ resuming \subseteq Task
  /\ due \subseteq Task
  /\ taskOf \in [Run -> Task \cup {NoTask}]
  /\ row \in [Run -> {"none", "running", "succeeded", "failed", "cancelled"}]
  /\ unwritten \subseteq Run
  /\ pc \in [Run -> Phases]
  /\ outcome \in [Run -> Outcomes \cup {"none"}]
  /\ pending \subseteq Run \X Maker
  /\ registry \in [Run -> Maker \cup {NoToken}]
  /\ held \in [Run -> Maker \cup {NoToken}]
  /\ stopped \subseteq Run
  /\ asked \subseteq Run
  /\ cancelling \subseteq Run
  /\ restarts \in 0..MaxRestarts

Init ==
  /\ kind \in [Task -> {"once", "cron", "lapsing"}]
  /\ status = [t \in Task |-> "absent"]
  /\ next = [t \in Task |-> "none"]
  /\ resuming = {}
  /\ due = {}
  /\ taskOf = [r \in Run |-> NoTask]
  /\ row = [r \in Run |-> "none"]
  /\ unwritten = {}
  /\ pc = [r \in Run |-> "free"]
  /\ outcome = [r \in Run |-> "none"]
  /\ pending = {}
  /\ registry = [r \in Run |-> NoToken]
  /\ held = [r \in Run |-> NoToken]
  /\ stopped = {}
  /\ asked = {}
  /\ cancelling = {}
  /\ restarts = 0

Goto(r, from, to) ==
  /\ pc[r] = from
  /\ pc' = [pc EXCEPT ![r] = to]

(* UPDATE task_runs ... WHERE id = r: nothing happens without the row.      *)
Updated(r, s) == [row EXCEPT ![r] = IF @ = "none" THEN @ ELSE s]

(***************************************************************************)
(* The decisions of the code, each preceded by the faulty variants that    *)
(* the properties below are validated against.                             *)
(***************************************************************************)

(* Variant: no task has a next time.                                        *)
NextUncomputed(t) == {"none"}

(* Variant: a "once" task gets its old time back.                           *)
NextRestored(t) == {"ahead"}

(* compute_next_run as advance_task_schedule uses it: an expression without *)
(* a next time never has one again.                                         *)
NextAfter(t) ==
  IF kind[t] = "cron" THEN {"ahead"}
  ELSE IF kind[t] = "once" \/ next[t] = "none" THEN {"none"}
  ELSE {"none", "ahead"}

(* Variant: pausing is recorded by completing the task.                     *)
PausedAsCompleted(t) == "completed"

(* Variant: or by a status that nothing else knows.                         *)
PausedAsInactive(t) == "inactive"

StatusPaused(t) == "paused"

(* Variant: the loop looks for cron tasks only.                             *)
DueByCron(t) == kind[t] = "cron" /\ status[t] = "active" /\ next[t] = "due"

(* get_due_tasks: what the loop takes a task for.                           *)
IsDue(t) == status[t] = "active" /\ next[t] = "due"

(* Variant: what the turn returned counts, the token does not.              *)
VerdictsOfTurn(r) == {"succeeded", "failed"}

(* What a run whose turns are over may report.                              *)
Verdicts(r) ==
  IF r \in stopped THEN {"cancelled"} ELSE {"succeeded", "failed"}

(* Variant: the early returns do not complete the run.                      *)
ReportedLate(r) == IF outcome[r] = "unstarted" THEN row[r] ELSE outcome[r]

(* complete_run's status.                                                   *)
Reported(r) == IF outcome[r] = "unstarted" THEN "failed" ELSE outcome[r]

(***************************************************************************)
(* Tasks.                                                                  *)
(***************************************************************************)

(* create_task refuses nothing: a time that has already passed, or an       *)
(* expression without a next time, gives an active task without one.        *)
CreateTask(t) ==
  /\ status[t] = "absent"
  /\ status' = [status EXCEPT ![t] = "active"]
  /\ \E n \in IF kind[t] = "cron" THEN {"ahead"} ELSE {"none", "ahead"} :
        next' = [next EXCEPT ![t] = n]
  /\ UNCHANGED <<kind, resuming, due, runVars, tokenVars, cancelVars,
                 restarts>>

TimePasses(t) ==
  /\ next[t] = "ahead"
  /\ next' = [next EXCEPT ![t] = "due"]
  /\ UNCHANGED <<kind, status, resuming, due, runVars, tokenVars,
                 cancelVars, restarts>>

(* set_task_paused(true), on a task of any status.                          *)
PauseTask(t) ==
  /\ Exists(t)
  /\ status' = [status EXCEPT ![t] = StatusPaused(t)]
  /\ UNCHANGED <<kind, next, resuming, due, runVars, tokenVars,
                 cancelVars, restarts>>

(* set_task_paused(false): the status first, then advance_task_schedule.    *)
ResumeTask(t) ==
  /\ Exists(t) /\ t \notin resuming
  /\ status' = [status EXCEPT ![t] = "active"]
  /\ resuming' = resuming \cup {t}
  /\ UNCHANGED <<kind, next, due, runVars, tokenVars, cancelVars, restarts>>

(* advance_task_schedule: a cron task gets its next time, if it has one, a  *)
(* "once" task is completed. A task that is gone is left alone, and so is   *)
(* every task when the write fails: both callers ignore that.               *)
AdvanceTask(t) ==
  \/ /\ Exists(t)
     /\ \E n \in NextAfter(t) : next' = [next EXCEPT ![t] = n]
     /\ status' = [status EXCEPT ![t] = IF kind[t] = "once" THEN "completed" ELSE @]
  \/ UNCHANGED <<next, status>>

FinishResuming(t) ==
  /\ t \in resuming
  /\ resuming' = resuming \ {t}
  /\ AdvanceTask(t)
  /\ UNCHANGED <<kind, due, runVars, tokenVars, cancelVars, restarts>>

(* delete_task: the rows of its runs go with it, its executions do not.     *)
DeleteTask(t) ==
  /\ Exists(t)
  /\ status' = [status EXCEPT ![t] = "deleted"]
  /\ next' = [next EXCEPT ![t] = "none"]
  /\ row' = [r \in Run |-> IF taskOf[r] = t THEN "none" ELSE row[r]]
  /\ UNCHANGED <<kind, resuming, due, taskOf, unwritten, pc, outcome,
                 tokenVars, cancelVars, restarts>>

(***************************************************************************)
(* Triggering runs.                                                        *)
(***************************************************************************)

(* trigger_task and the spawn of execute_task_run. The schedule is not      *)
(* touched: it is advanced when the run is over.                            *)
StartRun(t, r) ==
  /\ Goto(r, "free", "triggered")
  /\ taskOf' = [taskOf EXCEPT ![r] = t]
  /\ row' = [row EXCEPT ![r] = "running"]
  /\ pending' = pending \cup {<<r, "trigger">>}
  /\ UNCHANGED <<unwritten, outcome, registry, held, stopped>>

(* A tick of run_scheduler_loop: get_due_tasks.                             *)
Tick ==
  /\ due = {}
  /\ due' = {t \in Task : IsDue(t)}
  /\ due' # {}
  /\ UNCHANGED <<taskVars, runVars, tokenVars, cancelVars, restarts>>

TriggerDue(t, r) ==
  /\ t \in due /\ Exists(t) /\ r \in Scheduled
  /\ due' = due \ {t}
  /\ StartRun(t, r)
  /\ UNCHANGED <<taskVars, cancelVars, restarts>>

(* trigger_task fails: the task was deleted since the tick.                 *)
SkipDue(t) ==
  /\ t \in due /\ ~Exists(t)
  /\ due' = due \ {t}
  /\ UNCHANGED <<taskVars, runVars, tokenVars, cancelVars, restarts>>

(* run_task                                                                 *)
RunManually(t, r) ==
  /\ Exists(t) /\ r \in Manual
  /\ StartRun(t, r)
  /\ UNCHANGED <<taskVars, due, cancelVars, restarts>>

(* A spawned insertion into active_runs is carried out.                     *)
Register(r, k) ==
  /\ <<r, k>> \in pending
  /\ pending' = pending \ {<<r, k>>}
  /\ registry' = [registry EXCEPT ![r] = k]
  /\ UNCHANGED <<taskVars, due, runVars, held, stopped, cancelVars,
                 restarts>>

(***************************************************************************)
(* execute_task_run.                                                       *)
(***************************************************************************)

(* Take the token from the map, or make one and have it inserted.           *)
BeginRun(r) ==
  /\ Goto(r, "triggered", "starting")
  /\ IF registry[r] = NoToken
       THEN /\ held' = [held EXCEPT ![r] = "run"]
            /\ pending' = pending \cup {<<r, "run">>}
       ELSE /\ held' = [held EXCEPT ![r] = registry[r]]
            /\ UNCHANGED pending
  /\ UNCHANGED <<taskVars, due, taskOf, row, unwritten, outcome, registry,
                 stopped, cancelVars, restarts>>

(* create_session or ensure_process: on failure an early return.            *)
OpenSession(r) ==
  /\ \/ /\ Goto(r, "starting", "executing")
        /\ UNCHANGED <<outcome, held>>
     \/ /\ Goto(r, "starting", "completing")
        /\ outcome' = [outcome EXCEPT ![r] = "unstarted"]
        /\ held' = [held EXCEPT ![r] = NoToken]
  /\ UNCHANGED <<taskVars, due, taskOf, row, unwritten, pending, registry, stopped,
                 cancelVars, restarts>>

(* The turns are over (done, failed, timed out, or cancelled) and the token *)
(* is looked at for the last time.                                          *)
EndTurns(r) ==
  /\ Goto(r, "executing", "completing")
  /\ \E v \in Verdicts(r) : outcome' = [outcome EXCEPT ![r] = v]
  /\ held' = [held EXCEPT ![r] = NoToken]
  /\ UNCHANGED <<taskVars, due, taskOf, row, unwritten, pending, registry, stopped,
                 cancelVars, restarts>>

(* complete_run: remove the token, then update the row. Its errors are      *)
(* ignored: the run is over although its row may say otherwise.             *)
Unregister(r) ==
  /\ Goto(r, "completing", "recording")
  /\ registry' = [registry EXCEPT ![r] = NoToken]
  /\ UNCHANGED <<taskVars, due, taskOf, row, unwritten, outcome, pending, held,
                 stopped, cancelVars, restarts>>

RecordOutcome(r) ==
  /\ Goto(r, "recording", IF outcome[r] = "unstarted" THEN "done" ELSE "advancing")
  /\ \/ row' = Updated(r, Reported(r)) /\ UNCHANGED unwritten
     \/ unwritten' = unwritten \cup {r} /\ UNCHANGED row
  /\ UNCHANGED <<taskVars, due, taskOf, outcome, tokenVars,
                 cancelVars, restarts>>

AdvanceSchedule(r) ==
  /\ Goto(r, "advancing", "done")
  /\ AdvanceTask(taskOf[r])
  /\ UNCHANGED <<kind, resuming, due, taskOf, row, unwritten, outcome,
                 tokenVars, cancelVars, restarts>>

(***************************************************************************)
(* cancel_run: cancel the token in the map, if there is one, then update   *)
(* the row, if that does not fail.                                         *)
(***************************************************************************)
CancelToken(r) ==
  /\ row[r] # "none" /\ r \notin asked /\ Cardinality(asked) < MaxCancels
  /\ asked' = asked \cup {r}
  /\ cancelling' = cancelling \cup {r}
  /\ stopped' = IF registry[r] # NoToken /\ registry[r] = held[r]
                  THEN stopped \cup {r} ELSE stopped
  /\ registry' = [registry EXCEPT ![r] = NoToken]
  /\ UNCHANGED <<taskVars, due, runVars, pending, held, restarts>>

RecordCancel(r) ==
  /\ r \in cancelling
  /\ cancelling' = cancelling \ {r}
  /\ row' = Updated(r, "cancelled") \/ UNCHANGED row
  /\ UNCHANGED <<taskVars, due, taskOf, unwritten, pc, outcome, tokenVars,
                 asked, restarts>>

(* The daemon dies and starts again: the tables stay, and nothing looks for *)
(* rows that are still "running".                                           *)
Restart ==
  /\ restarts < MaxRestarts
  /\ restarts' = restarts + 1
  /\ pc' = [r \in Run |-> IF pc[r] \in Live \cup {"advancing"} THEN "killed"
                          ELSE pc[r]]
  /\ due' = {}
  /\ resuming' = {}
  /\ pending' = {}
  /\ registry' = [r \in Run |-> NoToken]
  /\ cancelling' = {}
  /\ UNCHANGED <<kind, status, next, taskOf, row, unwritten, outcome,
                 held, stopped, asked>>

Loop ==
  \/ Tick
  \/ \E t \in Task : SkipDue(t) \/ \E r \in Run : TriggerDue(t, r)

RunStep(r) ==
  \/ BeginRun(r) \/ OpenSession(r) \/ EndTurns(r)
  \/ Unregister(r) \/ RecordOutcome(r) \/ AdvanceSchedule(r)

User ==
  \/ \E t \in Task :
       \/ CreateTask(t) \/ PauseTask(t) \/ ResumeTask(t) \/ FinishResuming(t)
       \/ DeleteTask(t)
       \/ \E r \in Run : RunManually(t, r)
  \/ \E r \in Run : CancelToken(r) \/ RecordCancel(r)

Next ==
  \/ Loop \/ User
  \/ \E r \in Run : RunStep(r) \/ \E k \in Maker : Register(r, k)
  \/ \E t \in Task : TimePasses(t)
  \/ Restart

(* The runtime polls the loop and every spawned execution; a turn ends by   *)
(* its 600 s timeout at the latest. Nothing is assumed of users or time.    *)
Fairness == WF_vars(Loop) /\ \A r \in Run : WF_vars(RunStep(r))

Spec == Init /\ [][Next]_vars /\ Fairness

(***************************************************************************)
(* Properties.                                                             *)
(***************************************************************************)

(* A run shown as running is being executed, unless the daemon died under   *)
(* it or the write of its outcome failed: no early return, cancellation or  *)
(* deletion leaves such a row behind.                                       *)
RunningIsExecuted ==
  \A r \in Run :
     row[r] = "running" => pc[r] \in Live \cup {"killed"} \/ r \in unwritten

(* A run is reported as cancelled only if someone asked for it, although    *)
(* tokens are made twice, and registered and removed in any order.          *)
CancelledOnRequest == \A r \in Run : row[r] = "cancelled" => r \in asked

(* A cancellation that reaches the token a run is watching, before the run  *)
(* decides what to report, is what its row says in the end: neither the     *)
(* turn's own result nor the order of the two updates changes that. Where   *)
(* the write of the outcome failed the row may still say "running", but     *)
(* never that the run succeeded or failed.                                  *)
ReachedIsCancelled ==
  \A r \in stopped :
     pc[r] \in {"advancing", "done"} /\ outcome[r] # "unstarted" =>
       \/ row[r] \in {"cancelled", "none"}
       \/ row[r] = "running" /\ r \in unwritten

(* A "once" task is completed only by a run that was executed to its end,   *)
(* or by being resumed: pausing, cancelling, failed starts and restarts     *)
(* never complete it.                                                       *)
CompletedByRunOrResumption ==
  [][\A t \in Task :
       kind[t] = "once" /\ status[t] # "completed" /\ status'[t] = "completed" =>
         \/ t \in resuming
         \/ \E r \in Run : taskOf[r] = t /\ pc[r] = "advancing"
                           /\ outcome[r] # "unstarted"]_vars

(* A "once" task without a next time, because its time had passed when it   *)
(* was created or a run of it has ended, is out of the loop's reach for     *)
(* good, however it is paused and resumed and whatever runs still end.      *)
SpentStaysSpent ==
  [][\A t \in Task :
       kind[t] = "once" /\ Exists(t) /\ next[t] = "none" => next'[t] = "none"]_vars

(* A run that is shown as running comes to an end, unless the daemon dies   *)
(* or the end cannot be written.                                            *)
RunsEnd ==
  \A r \in Run :
     row[r] = "running" ~>
       row[r] # "running" \/ pc[r] = "killed" \/ r \in unwritten

(* A due task is run: the loop finds it and gets to it, unless it is no     *)
(* longer active or due by then (or the runs of the model are used up).     *)
DueTasksAreRun ==
  \A t \in Task :
     status[t] = "active" /\ next[t] = "due" ~>
       \/ \E r \in Run : taskOf[r] = t
       \/ status[t] # "active" \/ next[t] # "due"
       \/ \A r \in Run : pc[r] # "free"

(* A task that the UI calls "once" (create-task-dialog.tsx:90) is started   *)
(* by the schedule once.                                                    *)
OnceRunsOnce ==
  \A t \in Task : \A q, r \in Run :
     (/\ kind[t] = "once"
      /\ taskOf[q] = t /\ q \in Scheduled
      /\ taskOf[r] = t /\ r \in Scheduled) => q = r
=============================================================================
