------------------------ MODULE TaskSchedulerProofs ------------------------
(***************************************************************************)
(* Theorems about TaskScheduler, for any sets of tasks and runs and any    *)
(* number of cancellations and restarts.                                   *)
(***************************************************************************)
EXTENDS TaskScheduler, TLAPS

(* A run has a task from the moment it is triggered; only a run that was    *)
(* executed to its end advances its task's schedule.                        *)
RunInv ==
  \A r \in Run :
    /\ pc[r] # "free" => taskOf[r] \in Task
    /\ pc[r] = "advancing" => outcome[r] # "unstarted"

(* A watched token is cancelled on request only, and the verdict follows.   *)
RequestInv ==
  /\ cancelling \subseteq asked
  /\ stopped \subseteq asked
  /\ \A r \in Run : outcome[r] = "cancelled" \/ row[r] = "cancelled" => r \in asked

(* What a run watches, it watches until it decides; a run stopped before    *)
(* that decides "cancelled", and its row never says anything else again.    *)
StoppedInv ==
  \A r \in Run :
    /\ held[r] # NoToken => pc[r] \in {"starting", "executing", "killed"}
    /\ r \in stopped => pc[r] \notin {"free", "triggered"}
    /\ r \in stopped /\ pc[r] \in {"completing", "recording", "advancing", "done"} =>
         outcome[r] \in {"cancelled", "unstarted"}
    /\ pc[r] \in {"advancing", "done"} /\ outcome[r] = "cancelled" =>
         \/ row[r] \in {"cancelled", "none"}
         \/ row[r] = "running" /\ r \in unwritten
    /\ pc[r] \in Live => row[r] \in {"none", "running", "cancelled"}

SchedulerInv ==
  TypeOK /\ RunInv /\ RequestInv /\ StoppedInv /\ RunningIsExecuted

LEMMA InitInv == Init => SchedulerInv
  BY SchedulerAssumption
  DEF Init, SchedulerInv, TypeOK, RunInv, RequestInv, StoppedInv,
      RunningIsExecuted, Exists, NoToken, Maker, Live, Phases, Outcomes

(* The actions on tasks. An advance of a task's schedule is part of two.    *)
LEMMA TaskSteps ==
  ASSUME SchedulerInv, NEW t \in Task,
         \/ CreateTask(t) \/ TimePasses(t) \/ PauseTask(t) \/ ResumeTask(t)
         \/ FinishResuming(t) \/ DeleteTask(t)
  PROVE  SchedulerInv'
<1>1. CASE CreateTask(t)
  BY <1>1
  DEF SchedulerInv, TypeOK, RunInv, RequestInv, StoppedInv,
      RunningIsExecuted, Exists, CreateTask, runVars, tokenVars, cancelVars
<1>2. CASE TimePasses(t)
  BY <1>2
  DEF SchedulerInv, TypeOK, RunInv, RequestInv, StoppedInv,
      RunningIsExecuted, Exists, TimePasses, runVars, tokenVars, cancelVars
<1>3. CASE PauseTask(t)
  BY <1>3
  DEF SchedulerInv, TypeOK, RunInv, RequestInv, StoppedInv,
      RunningIsExecuted, Exists, PauseTask, StatusPaused, runVars, tokenVars,
      cancelVars
<1>4. CASE ResumeTask(t)
  BY <1>4
  DEF SchedulerInv, TypeOK, RunInv, RequestInv, StoppedInv,
      RunningIsExecuted, Exists, ResumeTask, runVars, tokenVars, cancelVars
<1>5. CASE FinishResuming(t)
  BY <1>5
  DEF SchedulerInv, TypeOK, RunInv, RequestInv, StoppedInv,
      RunningIsExecuted, Exists, FinishResuming, AdvanceTask, NextAfter,
      runVars, tokenVars, cancelVars
<1>6. CASE DeleteTask(t)
  BY <1>6
  DEF SchedulerInv, TypeOK, RunInv, RequestInv, StoppedInv,
      RunningIsExecuted, Exists, DeleteTask, tokenVars, cancelVars
<1>7. QED
  BY <1>1, <1>2, <1>3, <1>4, <1>5, <1>6

(* The loop looks for due tasks; the loop and users trigger runs.           *)
LEMMA TickStep ==
  ASSUME SchedulerInv, Tick
  PROVE  SchedulerInv'
  BY DEF SchedulerInv, TypeOK, RunInv, RequestInv, StoppedInv,
         RunningIsExecuted, Exists, Tick, taskVars, runVars, tokenVars,
         cancelVars

LEMMA SkipStep ==
  ASSUME SchedulerInv, NEW t \in Task, SkipDue(t)
  PROVE  SchedulerInv'
  BY DEF SchedulerInv, TypeOK, RunInv, RequestInv, StoppedInv,
         RunningIsExecuted, Exists, SkipDue, taskVars, runVars, tokenVars,
         cancelVars

LEMMA TriggerSteps ==
  ASSUME SchedulerInv, NEW t \in Task, NEW r \in Run,
         TriggerDue(t, r) \/ RunManually(t, r)
  PROVE  SchedulerInv'
<1>1. /\ StartRun(t, r)
      /\ due' \subseteq due
      /\ UNCHANGED <<taskVars, cancelVars, restarts>>
  BY DEF TriggerDue, RunManually
<1>2. QED
  BY <1>1
  DEF SchedulerInv, TypeOK, RunInv, RequestInv, StoppedInv,
      RunningIsExecuted, Exists, StartRun, Goto, Live, Phases, Maker, taskVars,
      cancelVars

(* The steps of an execution.                                               *)
LEMMA RunSteps ==
  ASSUME SchedulerInv, NEW r \in Run, RunStep(r)
  PROVE  SchedulerInv'
<1>1. CASE BeginRun(r)
  BY <1>1
  DEF SchedulerInv, TypeOK, RunInv, RequestInv, StoppedInv,
      RunningIsExecuted, Exists, BeginRun, Goto, Live, Phases, Maker, NoToken,
      taskVars, cancelVars
<1>2. CASE OpenSession(r)
  BY <1>2
  DEF SchedulerInv, TypeOK, RunInv, RequestInv, StoppedInv,
      RunningIsExecuted, Exists, OpenSession, Goto, Live, Phases, Outcomes,
      NoToken, taskVars, cancelVars
<1>3. CASE EndTurns(r)
  BY <1>3
  DEF SchedulerInv, TypeOK, RunInv, RequestInv, StoppedInv,
      RunningIsExecuted, Exists, EndTurns, Verdicts, Goto, Live, Phases,
      Outcomes, NoToken, taskVars, cancelVars
<1>4. CASE Unregister(r)
  BY <1>4
  DEF SchedulerInv, TypeOK, RunInv, RequestInv, StoppedInv,
      RunningIsExecuted, Exists, Unregister, Goto, Live, Phases, NoToken,
      taskVars, cancelVars
<1>5. CASE RecordOutcome(r)
  BY <1>5
  DEF SchedulerInv, TypeOK, RunInv, RequestInv, StoppedInv,
      RunningIsExecuted, Exists, RecordOutcome, Updated, Reported, Goto, Live,
      Phases, Outcomes, taskVars, tokenVars, cancelVars
<1>6. CASE AdvanceSchedule(r)
  BY <1>6
  DEF SchedulerInv, TypeOK, RunInv, RequestInv, StoppedInv,
      RunningIsExecuted, Exists, AdvanceSchedule, AdvanceTask, NextAfter, Goto,
      Live, Phases, tokenVars, cancelVars
<1>7. QED
  BY <1>1, <1>2, <1>3, <1>4, <1>5, <1>6 DEF RunStep

(* Registration, cancellation and restart.                                  *)
LEMMA TokenSteps ==
  ASSUME SchedulerInv, NEW r \in Run,
         \/ \E k \in Maker : Register(r, k)
         \/ CancelToken(r) \/ RecordCancel(r)
  PROVE  SchedulerInv'
<1>1. CASE \E k \in Maker : Register(r, k)
  <2>1. PICK k \in Maker : Register(r, k)
    BY <1>1
  <2>2. QED
    BY <2>1
    DEF SchedulerInv, TypeOK, RunInv, RequestInv, StoppedInv,
        RunningIsExecuted, Exists, Register, taskVars, runVars, cancelVars
<1>2. CASE CancelToken(r)
  BY <1>2
  DEF SchedulerInv, TypeOK, RunInv, RequestInv, StoppedInv,
      RunningIsExecuted, Exists, CancelToken, NoToken, taskVars, runVars
<1>3. CASE RecordCancel(r)
  BY <1>3
  DEF SchedulerInv, TypeOK, RunInv, RequestInv, StoppedInv,
      RunningIsExecuted, Exists, RecordCancel, Updated, taskVars, tokenVars
<1>4. QED
  BY <1>1, <1>2, <1>3

LEMMA RestartStep ==
  ASSUME SchedulerInv, Restart
  PROVE  SchedulerInv'
  BY SchedulerAssumption
  DEF SchedulerInv, TypeOK, RunInv, RequestInv, StoppedInv,
      RunningIsExecuted, Exists, Restart, Live, Phases, NoToken

LEMMA StutterStep ==
  ASSUME SchedulerInv, UNCHANGED vars
  PROVE  SchedulerInv'
  BY DEF SchedulerInv, TypeOK, RunInv, RequestInv, StoppedInv,
         RunningIsExecuted, Exists, vars, taskVars, runVars, tokenVars,
         cancelVars

LEMMA NextInv == SchedulerInv /\ [Next]_vars => SchedulerInv'
<1> SUFFICES ASSUME SchedulerInv, [Next]_vars
             PROVE  SchedulerInv'
  OBVIOUS
<1>1. CASE Loop
  BY <1>1, TickStep, SkipStep, TriggerSteps DEF Loop
<1>2. CASE User
  BY <1>2, TaskSteps, TriggerSteps, TokenSteps DEF User
<1>3. CASE \E r \in Run : RunStep(r) \/ \E k \in Maker : Register(r, k)
  BY <1>3, RunSteps, TokenSteps
<1>4. CASE \E t \in Task : TimePasses(t)
  BY <1>4, TaskSteps
<1>5. CASE Restart
  BY <1>5, RestartStep
<1>6. CASE UNCHANGED vars
  BY <1>6, StutterStep
<1>7. QED
  BY <1>1, <1>2, <1>3, <1>4, <1>5, <1>6 DEF Next

THEOREM Invariance == Spec => []SchedulerInv
  BY InitInv, NextInv, PTL DEF Spec

(* Every variable keeps its type.                                           *)
THEOREM SchedulerTypeCorrect == Spec => []TypeOK
  BY Invariance, PTL DEF SchedulerInv

(* No early return, cancellation or deletion leaves a row behind that says  *)
(* "running" of a run that nobody executes, short of a crash or of a write   *)
(* that failed.                                                             *)
THEOREM RunningRowsAreExecuted == Spec => []RunningIsExecuted
  BY Invariance, PTL DEF SchedulerInv

(* Only what a user asked to cancel is reported as cancelled.               *)
THEOREM CancellationsAreRequested == Spec => []CancelledOnRequest
<1>1. SchedulerInv => CancelledOnRequest
  BY DEF SchedulerInv, RequestInv, CancelledOnRequest
<1>2. QED
  BY <1>1, Invariance, PTL

(* A cancellation that arrives in time is the run's final word.             *)
THEOREM TimelyCancellationsStick == Spec => []ReachedIsCancelled
<1>1. SchedulerInv => ReachedIsCancelled
  BY DEF SchedulerInv, TypeOK, StoppedInv, ReachedIsCancelled
<1>2. QED
  BY <1>1, Invariance, PTL

(* How a step may write the two columns of a "once" task.                   *)
LEMMA OnceSteps ==
  ASSUME SchedulerInv, [Next]_vars, NEW t \in Task, kind[t] = "once"
  PROVE  /\ status[t] # "completed" /\ status'[t] = "completed" =>
              \/ t \in resuming
              \/ \E r \in Run : taskOf[r] = t /\ pc[r] = "advancing"
                                /\ outcome[r] # "unstarted"
         /\ Exists(t) /\ next[t] = "none" => next'[t] = "none"
<1> DEFINE Goal ==
      /\ status[t] # "completed" /\ status'[t] = "completed" =>
           \/ t \in resuming
           \/ \E r \in Run : taskOf[r] = t /\ pc[r] = "advancing"
                             /\ outcome[r] # "unstarted"
      /\ Exists(t) /\ next[t] = "none" => next'[t] = "none"
<1>1. CASE UNCHANGED <<status, next>>
  BY <1>1
<1>2. ASSUME NEW u \in Task,
             \/ CreateTask(u) \/ TimePasses(u) \/ PauseTask(u) \/ ResumeTask(u)
             \/ DeleteTask(u)
      PROVE  Goal
  BY <1>2 DEF SchedulerInv, TypeOK, Exists, CreateTask, TimePasses, PauseTask,
              StatusPaused, ResumeTask, DeleteTask
<1>3. ASSUME NEW u \in Task, FinishResuming(u)
      PROVE  Goal
  BY <1>3 DEF SchedulerInv, TypeOK, Exists, FinishResuming, AdvanceTask,
              NextAfter
<1>4. ASSUME NEW r \in Run, AdvanceSchedule(r)
      PROVE  Goal
  BY <1>4 DEF SchedulerInv, TypeOK, RunInv, Exists, AdvanceSchedule,
              AdvanceTask, NextAfter, Goto
<1>5. CASE Loop
  BY <1>1, <1>5 DEF Loop, Tick, SkipDue, TriggerDue, taskVars
<1>6. CASE User
  <2>1. CASE \E u \in Task, r \in Run : RunManually(u, r)
    BY <1>1, <2>1 DEF RunManually, taskVars
  <2>2. CASE \E r \in Run : CancelToken(r) \/ RecordCancel(r)
    BY <1>1, <2>2 DEF CancelToken, RecordCancel, taskVars
  <2>3. QED
    BY <1>2, <1>3, <1>6, <2>1, <2>2 DEF User
<1>7. CASE \E r \in Run : RunStep(r) \/ \E k \in Maker : Register(r, k)
  <2>1. PICK r \in Run : RunStep(r) \/ \E k \in Maker : Register(r, k)
    BY <1>7
  <2>2. CASE ~ AdvanceSchedule(r)
    BY <1>1, <2>1, <2>2
    DEF RunStep, BeginRun, OpenSession, EndTurns, Unregister, RecordOutcome,
        Register, taskVars
  <2>3. QED
    BY <1>4, <2>2
<1>8. CASE Restart
  BY <1>1, <1>8 DEF Restart
<1>9. CASE UNCHANGED vars
  BY <1>1, <1>9 DEF vars, taskVars
<1>10. QED
  BY <1>2, <1>5, <1>6, <1>7, <1>8, <1>9 DEF Next

(* A "once" task is completed by the end of a run or by its resumption.     *)
THEOREM CompletionIsEarned == Spec => CompletedByRunOrResumption
<1>1. SchedulerInv /\ [Next]_vars =>
        [\A t \in Task :
           kind[t] = "once" /\ status[t] # "completed" /\ status'[t] = "completed" =>
             \/ t \in resuming
             \/ \E r \in Run : taskOf[r] = t /\ pc[r] = "advancing"
                               /\ outcome[r] # "unstarted"]_vars
  BY OnceSteps
<1>2. QED
  BY <1>1, Invariance, PTL DEF Spec, CompletedByRunOrResumption

(* A "once" task without a next time never gets one.                        *)
THEOREM SpentOnceTasksStaySpent == Spec => SpentStaysSpent
<1>1. SchedulerInv /\ [Next]_vars =>
        [\A t \in Task :
           kind[t] = "once" /\ Exists(t) /\ next[t] = "none" =>
             next'[t] = "none"]_vars
  BY OnceSteps
<1>2. QED
  BY <1>1, Invariance, PTL DEF Spec, SpentStaysSpent
=============================================================================
