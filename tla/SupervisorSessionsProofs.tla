----------------------- MODULE SupervisorSessionsProofs -----------------------
(***************************************************************************)
(* Theorems about SupervisorSessions, for any sets of sessions and callers *)
(* and any number of titles, refused saves and restarts.                   *)
(***************************************************************************)
EXTENDS SupervisorSessions, SequenceTheorems, TLAPS

Configuring == {"move", "set_model", "set_model_again"}

(* A task at work knows its session, which is no new one; what is about to  *)
(* be named gets a name; Boot only saves, the listener only renames.        *)
JobInv ==
  /\ \A t \in Task :
       /\ Target(t) \in born \cup {NoSession}
       /\ pc[t] \in Working /\ t # Boot => Target(t) \in born
       /\ \/ pc[t] \in {"name", "publish"}
          \/ pc[t] \in {"save", "saving"} /\ job[t].op = "prompt"
          => job[t].name # "none"
       /\ pc[t] = "configure" => job[t].op \in Configuring
       /\ job[t].op \in Configuring => job[t].name = "none"
  /\ pc[Boot] \in {"idle", "save", "saving"} /\ job[Boot] = NoJob
  /\ pc[Listener] \in {"idle", "name", "save", "saving", "dead"}
  /\ job[Listener].op = "none"
  /\ \A i \in DOMAIN bus : bus[i].session \in born /\ bus[i].name # "none"
  /\ prompted \subseteq born
  /\ gone \subseteq born
  /\ firm \subseteq born

(* One task saves at a time, and what it is about to write is what the map  *)
(* still holds.                                                             *)
LockInv ==
  /\ \A t \in Task : pc[t] = "saving" <=> lock = t
  /\ lock # NoTask => records = sessions

(* No title made from a prompt is on its way to a name that is firm.        *)
TitleInv == GivenNameIsKept /\ \A s \in firm : ~Deriving(s)

StoreInv ==
  TypeOK /\ JobInv /\ LockInv /\ SavedOrBeingSaved /\ DeletedIsGone /\ TitleInv

(* What the daemon makes up of a journal, and makes of an entry, is an info. *)
LEMMA InfoMade ==
  ASSUME TypeOK, NEW s \in Session
  PROVE  /\ Inspected(s) \in Info
         /\ Loaded(s) \in Info \cup {Absent}
         /\ sessions[s] # Absent =>
              [sessions[s] EXCEPT !.settings = "changed"] \in Info
<1>1. Inspected(s) \in Info
  BY DEF Inspected, Info, Names
<1>2. ASSUME NEW i \in Info
      PROVE  [i EXCEPT !.name = NameAtStart(s, i)] \in Info
  BY DEF Info, Names, NameAtStart
<1>3. Loaded(s) \in Info \cup {Absent}
  BY <1>1, <1>2 DEF Loaded, TypeOK
<1>4. ASSUME sessions[s] # Absent
      PROVE  [sessions[s] EXCEPT !.settings = "changed"] \in Info
  BY <1>4 DEF TypeOK, Info
<1>5. QED
  BY <1>1, <1>3, <1>4

(* A published event is appended, or lost.                                  *)
LEMMA BroadcastType ==
  ASSUME TypeOK, NEW s \in Session, NEW n \in Names, Broadcast(s, n)
  PROVE  bus' \in Seq(Event)
<1>1. [session |-> s, name |-> n] \in Event
  BY DEF Event
<1>2. QED
  BY <1>1 DEF Broadcast, TypeOK

LEMMA InitInv == Init => StoreInv
  BY TasksAssumption, BoundsAssumption
  DEF Init, StoreInv, TypeOK, JobInv, LockInv, SavedOrBeingSaved,
      DeletedIsGone, TitleInv, GivenNameIsKept, Configuring, BeingSaved,
      Deriving, Target, NoJob, NoRecords,
      Task, Info, Names, Job, Calls, RpcCalls, Event, Phases, Working

(* What every action writes is of its type.                                 *)
LEMMA TypeStep ==
  ASSUME TypeOK, JobInv, [Next]_vars
  PROVE  TypeOK'
<1>1. ASSUME NEW c \in Caller, NEW s \in Session, CreateSession(c, s)
    PROVE  TypeOK'
  BY <1>1, TasksAssumption
  DEF TypeOK, JobInv, Task, Info, Names, Job, Calls, RpcCalls, Event, Phases,
      Working, CreateSession, Goto, Call, lockVars, countVars
<1>2. ASSUME NEW c \in Caller, NEW s \in Session, DeleteSession(c, s)
    PROVE  TypeOK'
  BY <1>2, TasksAssumption
  DEF TypeOK, JobInv, Task, Info, Names, Job, Calls, RpcCalls, Event, Phases,
      Working, DeleteSession, Goto, Call, lockVars, countVars
<1>3. ASSUME NEW c \in Caller, NEW s \in Session, RenameSession(c, s)
    PROVE  TypeOK'
  BY <1>3, TasksAssumption
  DEF TypeOK, JobInv, Task, Info, Names, Job, Calls, RpcCalls, Event, Phases,
      Working, RenameSession, Goto, Call, lockVars, countVars, historyVars
<1>4. ASSUME NEW c \in Caller, NEW s \in Session, UpdateSessionWorkspace(c, s)
    PROVE  TypeOK'
  BY <1>4, TasksAssumption
  DEF TypeOK, JobInv, Task, Info, Names, Job, Calls, RpcCalls, Event, Phases,
      Working, UpdateSessionWorkspace, Goto, Call, lockVars, countVars,
      historyVars
<1>5. ASSUME NEW c \in Caller, NEW o \in RpcCalls, NEW s \in Session,
             EnsureProcess(c, o, s)
    PROVE  TypeOK'
  <2>1. sessions' \in [Session -> Info \cup {Absent}]
    <3>1. Inspected(s) \in Info
      BY InfoMade
    <3>2. QED
      BY <1>5, <3>1 DEF EnsureProcess, TypeOK
  <2>2. [op |-> o, session |-> s, name |-> "none"] \in Job
    BY DEF Job, Names, Calls
  <2>3. job' \in [Task -> Job]
    BY <1>5, <2>2 DEF EnsureProcess, Call, TypeOK
  <2>4. pc' \in [Task -> Phases]
    BY <1>5 DEF EnsureProcess, Call, Goto, TypeOK, Phases
  <2>5. QED
    BY <1>5, <2>1, <2>3, <2>4
    DEF TypeOK, EnsureProcess, Call, lockVars, countVars
<1>6. ASSUME NEW c \in Caller, HangUp(c)
    PROVE  TypeOK'
  BY <1>6, TasksAssumption
  DEF TypeOK, JobInv, Task, Info, Names, Job, Calls, RpcCalls, Event, Phases,
      Working, HangUp, EndJob, LockWithout, LeftBy, Target, NoJob, NoRecords,
      storeVars, countVars
<1>7. ASSUME NEW t \in Task, Reply(t)
    PROVE  TypeOK'
  BY <1>7, TasksAssumption
  DEF TypeOK, JobInv, Task, Info, Names, Job, Calls, RpcCalls, Event, Phases,
      Working, Reply, Goto, EndJob, NoJob, storeVars, lockVars, countVars,
      historyVars
<1>8. ASSUME NEW t \in Task, LookForName(t)
    PROVE  TypeOK'
  <2>1. job[t] \in Job
    BY DEF TypeOK
  <2>2. [job[t] EXCEPT !.name = "derived"] \in Job
    BY <2>1 DEF Job, Names
  <2>3. job' \in [Task -> Job]
    <3>1. CASE job' = [job EXCEPT ![t].name = "derived"]
      BY <2>2, <3>1 DEF TypeOK
    <3>2. CASE job' = job
      BY <3>2 DEF TypeOK
    <3>3. QED
      BY <1>8, <3>1, <3>2 DEF LookForName
  <2>4. QED
    BY <1>8, <2>3
    DEF TypeOK, Phases, LookForName, Goto, storeVars, lockVars, countVars,
        historyVars
<1>9. ASSUME NEW t \in Task, SetThinkingLevel(t)
    PROVE  TypeOK'
  <2>1. journal' \in [Session -> {"none", "untitled", "titled"}]
    BY <1>9 DEF SetThinkingLevel, Touched, TypeOK
  <2>2. QED
    BY <1>9, <2>1
    DEF TypeOK, Task, Names, Job, Phases, SetThinkingLevel, Goto, EndJob, NoJob,
        lockVars, countVars, historyVars
<1>10. ASSUME NEW t \in Task, SetModel(t)
    PROVE  TypeOK'
  BY <1>10, TasksAssumption
  DEF TypeOK, JobInv, Task, Info, Names, Job, Calls, RpcCalls, Event, Phases,
      Working, SetModel, Goto, Touched, Target, lockVars, countVars,
      historyVars
<1>11. ASSUME NEW t \in Task, Configure(t)
    PROVE  TypeOK'
  <2>1. sessions' \in [Session -> Info \cup {Absent}]
    BY <1>11, InfoMade DEF Configure, TypeOK
  <2>2. QED
    BY <1>11, <2>1
    DEF TypeOK, Phases, Configure, Goto, lockVars, countVars, historyVars
<1>12. ASSUME NEW t \in Task, SetName(t)
    PROVE  TypeOK'
  <2>1. job[t].name \in Names
    BY <1>12 DEF SetName, TypeOK, Job
  <2>2. ASSUME NEW i \in Info
        PROVE  [i EXCEPT !.name = job[t].name] \in Info
    BY <2>1 DEF Info
  <2>3. sessions' \in [Session -> Info \cup {Absent}]
    BY <1>12, <2>2 DEF SetName, Renamed, TypeOK
  <2>4. firm' \subseteq Session
    BY <1>12, TasksAssumption
    DEF SetName, Goto, JobInv, Working, Phases, TypeOK
  <2>5. QED
    BY <1>12, <2>3, <2>4 DEF TypeOK, Phases, SetName, Goto, lockVars, countVars
<1>13. ASSUME NEW t \in Task, CollectRecords(t)
    PROVE  TypeOK'
  BY <1>13, TasksAssumption
  DEF TypeOK, JobInv, Task, Info, Names, Job, Calls, RpcCalls, Event, Phases,
      Working, CollectRecords, Goto, KeptWhileSaving, storeVars, countVars,
      historyVars
<1>14. ASSUME NEW t \in Task, WriteRecords(t)
    PROVE  TypeOK'
  BY <1>14, TasksAssumption
  DEF TypeOK, JobInv, Task, Info, Names, Job, Calls, RpcCalls, Event, Phases,
      Working, WriteRecords, Goto, FinishSave, PhaseAfterSave, LockWithout,
      Target, NoJob, NoRecords
<1>15. ASSUME NEW t \in Task, FailToWrite(t)
    PROVE  TypeOK'
  BY <1>15, TasksAssumption
  DEF TypeOK, JobInv, Task, Info, Names, Job, Calls, RpcCalls, Event, Phases,
      Working, FailToWrite, Goto, FinishSave, PhaseAfterSave, LockWithout,
      LeftBy, Target, NoJob, NoRecords
<1>16. ASSUME NEW t \in Task, PublishTitle(t)
    PROVE  TypeOK'
  <2>1. Target(t) \in Session /\ job[t].name \in Names
    BY <1>16, TasksAssumption
    DEF PublishTitle, Goto, JobInv, Working, Phases, TypeOK, Job
  <2>2. bus' \in Seq(Event)
    BY <1>16, <2>1, BroadcastType DEF PublishTitle
  <2>3. QED
    BY <1>16, <2>2
    DEF TypeOK, Phases, PublishTitle, Goto, storeVars, lockVars, countVars,
        historyVars
<1>17. ASSUME NEW t \in Task, SendPrompt(t)
    PROVE  TypeOK'
  BY <1>17, TasksAssumption
  DEF TypeOK, JobInv, Task, Info, Names, Job, Calls, RpcCalls, Event, Phases,
      Working, SendPrompt, Goto, EndJob, Target, NoJob, storeVars, lockVars,
      countVars, historyVars
<1>18. CASE ReceiveTitle
  <2>1. Head(bus) \in Event /\ Tail(bus) \in Seq(Event)
    BY <1>18 DEF ReceiveTitle, TypeOK
  <2>2. [op |-> "none", session |-> Head(bus).session, name |-> Head(bus).name]
          \in Job
    BY <2>1 DEF Event, Job
  <2>3. job' \in [Task -> Job]
    BY <1>18, <2>2 DEF ReceiveTitle, TypeOK
  <2>4. QED
    BY <1>18, <2>1, <2>3
    DEF TypeOK, Task, Phases, ReceiveTitle, Goto, storeVars, lockVars, countVars,
        historyVars
<1>19. ASSUME NEW s \in Session, WriteJournal(s)
    PROVE  TypeOK'
  BY <1>19, TasksAssumption
  DEF TypeOK, JobInv, Task, Info, Names, Job, Calls, RpcCalls, Event, Phases,
      Working, WriteJournal, lockVars, taskVars, countVars, historyVars
<1>20. ASSUME NEW s \in Session, GenerateTitle(s)
    PROVE  TypeOK'
  <2>1. bus' \in Seq(Event)
    BY <1>20, BroadcastType DEF GenerateTitle, Names
  <2>2. QED
    BY <1>20, <2>1
    DEF TypeOK, GenerateTitle, storeVars, lockVars, taskVars, historyVars
<1>21. CASE LoseListener
  BY <1>21, TasksAssumption
  DEF TypeOK, JobInv, Task, Info, Names, Job, Calls, RpcCalls, Event, Phases,
      Working, LoseListener, Goto, storeVars, lockVars, countVars, historyVars
<1>22. CASE Restart
  <2>1. sessions' \in [Session -> Info \cup {Absent}]
    BY <1>22, InfoMade DEF Restart
  <2>2. pc' \in [Task -> Phases] /\ job' \in [Task -> Job]
    BY <1>22 DEF Restart, Phases, NoJob, Job, Names
  <2>3. bus' \in Seq(Event) /\ records' \in [Session -> Info \cup {Absent}]
    BY <1>22 DEF Restart, NoRecords
  <2>4. QED
    BY <1>22, <2>1, <2>2, <2>3 DEF TypeOK, Restart
<1>23. CASE UNCHANGED vars
  BY <1>23
  DEF TypeOK, JobInv, Task, Info, Names, Job, Calls, RpcCalls, Event, Phases,
      Working, vars, storeVars, lockVars, taskVars, countVars, historyVars
<1>24. QED
  BY <1>1, <1>2, <1>3, <1>4, <1>5, <1>6, <1>7, <1>8, <1>9, <1>10, <1>11,
     <1>12, <1>13, <1>14, <1>15, <1>16, <1>17, <1>18, <1>19, <1>20, <1>21,
     <1>22, <1>23 DEF Next, CallStep, TaskStep, RpcCalls

(* After a save a job goes on, or is forgotten.                             *)
LEMMA FinishSaveJobs ==
  ASSUME TypeOK, JobInv, NEW t \in Task, FinishSave(t)
  PROVE  JobInv'
<1>1. pc[t] = "saving" /\ pc' = [pc EXCEPT ![t] = PhaseAfterSave(t)]
  BY DEF FinishSave, Goto
<1>2. \/ job[t].op = "prompt" /\ job' = [job EXCEPT ![t] = job[t]]
      \/ job[t].op = "set_model"
         /\ job' = [job EXCEPT ![t] = [job[t] EXCEPT !.op = "set_model_again"]]
      \/ job[t].op \notin {"prompt", "set_model"}
         /\ job' = [job EXCEPT ![t] = NoJob]
  BY DEF FinishSave, TypeOK
<1>3. UNCHANGED <<born, bus, prompted, firm>>
  BY DEF FinishSave
<1>4. gone' \subseteq born
  <2>1. job[t].op = "delete" => Target(t) \in born
    BY <1>1 DEF JobInv, Working, Phases, NoJob
  <2>2. QED
    BY <2>1 DEF FinishSave, JobInv
<1>5. \A u \in Task : u # t => job'[u] = job[u] /\ pc'[u] = pc[u]
  BY <1>1, <1>2 DEF TypeOK
<1>6. job'[t].session \in born \cup {NoSession}
  BY <1>2 DEF JobInv, Target, TypeOK, Job, NoJob
<1>7. CASE t \in {Listener, Boot}
  <2>1. PhaseAfterSave(t) = "idle" /\ job' = [job EXCEPT ![t] = NoJob]
    BY <1>2, <1>7 DEF JobInv, PhaseAfterSave, NoJob
  <2>2. pc'[t] = "idle" /\ job'[t] = NoJob
    BY <1>1, <2>1 DEF TypeOK
  <2>3. QED
    BY <1>3, <1>4, <1>5, <1>7, <2>2, TasksAssumption
    DEF JobInv, Configuring, Target, Task, Working, Phases, NoJob
<1>8. CASE t \notin {Listener, Boot}
  <2>1. \/ /\ job'[t] = job[t] /\ job[t].op = "prompt" /\ pc'[t] = "publish"
        \/ /\ job'[t] = [job[t] EXCEPT !.op = "set_model_again"]
           /\ job[t].op = "set_model" /\ pc'[t] = "configure"
        \/ job'[t] = NoJob /\ pc'[t] = "done"
    BY <1>1, <1>2, <1>8 DEF PhaseAfterSave, TypeOK
  <2>2. job[t] \in Job /\ Target(t) \in born
    BY <1>1, <1>8 DEF TypeOK, JobInv, Working, Phases
  <2>3. /\ pc'[t] \in {"publish", "configure"} => job'[t].session \in born
        /\ pc'[t] = "publish" => job'[t].name # "none"
        /\ pc'[t] = "configure" => job'[t].op \in Configuring
        /\ job'[t].op \in Configuring => job'[t].name = "none"
        /\ pc'[t] \in {"publish", "configure", "done"}
    BY <1>1, <2>1, <2>2 DEF JobInv, Configuring, Target, Job, NoJob
  <2>4. QED
    BY <1>3, <1>4, <1>5, <1>6, <1>8, <2>3
    DEF JobInv, Target, Task, Working, Phases
<1>9. QED
  BY <1>7, <1>8

(* Jobs are begun with a session and forgotten with the call.               *)
LEMMA JobStep ==
  ASSUME TypeOK, JobInv, [Next]_vars
  PROVE  JobInv'
<1>1. ASSUME NEW c \in Caller, NEW s \in Session, CreateSession(c, s)
    PROVE  JobInv'
  BY <1>1, TasksAssumption
  DEF JobInv, Configuring, Target, Task, Info, Names, Job, Calls, RpcCalls,
      Event, Phases, Working, TypeOK, NoJob, CreateSession, Goto, Call,
      lockVars, countVars
<1>2. ASSUME NEW c \in Caller, NEW s \in Session, DeleteSession(c, s)
    PROVE  JobInv'
  BY <1>2, TasksAssumption
  DEF JobInv, Configuring, Target, Task, Info, Names, Job, Calls, RpcCalls,
      Event, Phases, Working, TypeOK, NoJob, DeleteSession, Goto, Call,
      lockVars, countVars
<1>3. ASSUME NEW c \in Caller, NEW s \in Session, RenameSession(c, s)
    PROVE  JobInv'
  BY <1>3, TasksAssumption
  DEF JobInv, Configuring, Target, Task, Info, Names, Job, Calls, RpcCalls,
      Event, Phases, Working, TypeOK, NoJob, RenameSession, Goto, Call,
      lockVars, countVars, historyVars
<1>4. ASSUME NEW c \in Caller, NEW s \in Session, UpdateSessionWorkspace(c, s)
    PROVE  JobInv'
  BY <1>4, TasksAssumption
  DEF JobInv, Configuring, Target, Task, Info, Names, Job, Calls, RpcCalls,
      Event, Phases, Working, TypeOK, NoJob, UpdateSessionWorkspace, Goto,
      Call, lockVars, countVars, historyVars
<1>5. ASSUME NEW c \in Caller, NEW o \in RpcCalls, NEW s \in Session,
             EnsureProcess(c, o, s)
    PROVE  JobInv'
  BY <1>5, TasksAssumption
  DEF JobInv, Configuring, Target, Task, Info, Names, Job, Calls, RpcCalls,
      Event, Phases, Working, TypeOK, NoJob, EnsureProcess, Goto, Call,
      Inspected, lockVars, countVars
<1>6. ASSUME NEW c \in Caller, HangUp(c)
    PROVE  JobInv'
  BY <1>6, TasksAssumption
  DEF JobInv, Configuring, Target, Task, Info, Names, Job, Calls, RpcCalls,
      Event, Phases, Working, TypeOK, NoJob, HangUp, EndJob, LockWithout,
      LeftBy, NoRecords, storeVars, countVars
<1>7. ASSUME NEW t \in Task, Reply(t)
    PROVE  JobInv'
  BY <1>7, TasksAssumption
  DEF JobInv, Configuring, Target, Task, Info, Names, Job, Calls, RpcCalls,
      Event, Phases, Working, TypeOK, NoJob, Reply, Goto, EndJob, storeVars,
      lockVars, countVars, historyVars
<1>8. ASSUME NEW t \in Task, LookForName(t)
    PROVE  JobInv'
  <2>1. /\ pc[t] = "ensured" /\ job[t].op = "prompt"
        /\ \/ /\ pc' = [pc EXCEPT ![t] = "name"]
              /\ job' = [job EXCEPT ![t].name = "derived"]
           \/ pc' = [pc EXCEPT ![t] = "send"] /\ job' = job
        /\ UNCHANGED <<born, bus, prompted, gone, firm>>
    BY <1>8 DEF LookForName, Goto, storeVars, historyVars
  <2>2. t # Boot /\ t # Listener
    BY <2>1 DEF JobInv
  <2>3. ASSUME NEW u \in Task
        PROVE  /\ Target(u)' = Target(u) /\ job'[u].op = job[u].op
               /\ u # t => job'[u] = job[u] /\ pc'[u] = pc[u]
               /\ pc'[t] = "name" => job'[t].name = "derived"
               /\ pc'[t] \in {"name", "send"}
    BY <2>1 DEF Target, TypeOK, Job
  <2>4. QED
    BY <2>1, <2>2, <2>3 DEF JobInv, Configuring, Task, Working, Phases
<1>9. ASSUME NEW t \in Task, SetThinkingLevel(t)
    PROVE  JobInv'
  BY <1>9, TasksAssumption
  DEF JobInv, Configuring, Target, Task, Info, Names, Job, Calls, RpcCalls,
      Event, Phases, Working, TypeOK, NoJob, SetThinkingLevel, Goto, EndJob,
      Touched, lockVars, countVars, historyVars
<1>10. ASSUME NEW t \in Task, SetModel(t)
    PROVE  JobInv'
  BY <1>10, TasksAssumption
  DEF JobInv, Configuring, Target, Task, Info, Names, Job, Calls, RpcCalls,
      Event, Phases, Working, TypeOK, NoJob, SetModel, Goto, Touched,
      lockVars, countVars, historyVars
<1>11. ASSUME NEW t \in Task, Configure(t)
    PROVE  JobInv'
  <2>1. /\ Goto(t, "configure", "save")
        /\ UNCHANGED <<born, job, bus, prompted, gone, firm>>
    BY <1>11 DEF Configure, historyVars
  <2>2. QED
    <3>1. /\ pc[t] = "configure" /\ pc'[t] = "save"
          /\ \A u \in Task : u # t => pc'[u] = pc[u]
          /\ t # Boot /\ t # Listener
      BY <2>1 DEF Goto, TypeOK, JobInv
    <3>2. QED
      BY <2>1, <3>1 DEF JobInv, Configuring, Target, Task, Working, Phases
<1>12. ASSUME NEW t \in Task, SetName(t)
    PROVE  JobInv'
  BY <1>12, TasksAssumption
  DEF JobInv, Configuring, Target, Task, Info, Names, Job, Calls, RpcCalls,
      Event, Phases, Working, TypeOK, NoJob, SetName, Goto, Renamed, lockVars,
      countVars
<1>13. ASSUME NEW t \in Task, CollectRecords(t)
    PROVE  JobInv'
  BY <1>13, TasksAssumption
  DEF JobInv, Configuring, Target, Task, Info, Names, Job, Calls, RpcCalls,
      Event, Phases, Working, TypeOK, NoJob, CollectRecords, Goto,
      KeptWhileSaving, storeVars, countVars, historyVars
<1>14. ASSUME NEW t \in Task, WriteRecords(t)
    PROVE  JobInv'
  BY <1>14, FinishSaveJobs DEF WriteRecords
<1>15. ASSUME NEW t \in Task, FailToWrite(t)
    PROVE  JobInv'
  BY <1>15, FinishSaveJobs DEF FailToWrite
<1>16. ASSUME NEW t \in Task, PublishTitle(t)
    PROVE  JobInv'
  BY <1>16, TasksAssumption
  DEF JobInv, Configuring, Target, Task, Info, Names, Job, Calls, RpcCalls,
      Event, Phases, Working, TypeOK, NoJob, PublishTitle, Goto, Broadcast,
      storeVars, lockVars, countVars, historyVars
<1>17. ASSUME NEW t \in Task, SendPrompt(t)
    PROVE  JobInv'
  BY <1>17, TasksAssumption
  DEF JobInv, Configuring, Target, Task, Info, Names, Job, Calls, RpcCalls,
      Event, Phases, Working, TypeOK, NoJob, SendPrompt, Goto, EndJob,
      storeVars, lockVars, countVars, historyVars
<1>18. CASE ReceiveTitle
  BY <1>18, TasksAssumption
  DEF JobInv, Configuring, Target, Task, Info, Names, Job, Calls, RpcCalls,
      Event, Phases, Working, TypeOK, NoJob, ReceiveTitle, Goto, storeVars,
      lockVars, countVars, historyVars
<1>19. ASSUME NEW s \in Session, WriteJournal(s)
    PROVE  JobInv'
  BY <1>19, TasksAssumption
  DEF JobInv, Configuring, Target, Task, Info, Names, Job, Calls, RpcCalls,
      Event, Phases, Working, TypeOK, NoJob, WriteJournal, lockVars, taskVars,
      countVars, historyVars
<1>20. ASSUME NEW s \in Session, GenerateTitle(s)
    PROVE  JobInv'
  BY <1>20, TasksAssumption
  DEF JobInv, Configuring, Target, Task, Info, Names, Job, Calls, RpcCalls,
      Event, Phases, Working, TypeOK, NoJob, GenerateTitle, Broadcast,
      storeVars, lockVars, taskVars, historyVars
<1>21. CASE LoseListener
  BY <1>21, TasksAssumption
  DEF JobInv, Configuring, Target, Task, Info, Names, Job, Calls, RpcCalls,
      Event, Phases, Working, TypeOK, NoJob, LoseListener, Goto, storeVars,
      lockVars, countVars, historyVars
<1>22. CASE Restart
  BY <1>22, TasksAssumption
  DEF JobInv, Configuring, Target, Task, Info, Names, Job, Calls, RpcCalls,
      Event, Phases, Working, TypeOK, NoJob, Restart, Loaded, Inspected,
      NameAtStart, NoRecords
<1>23. CASE UNCHANGED vars
  BY <1>23
  DEF JobInv, Configuring, Target, Task, Info, Names, Job, Calls, RpcCalls,
      Event, Phases, Working, TypeOK, NoJob, vars, storeVars, lockVars,
      taskVars, countVars, historyVars
<1>24. QED
  BY <1>1, <1>2, <1>3, <1>4, <1>5, <1>6, <1>7, <1>8, <1>9, <1>10, <1>11,
     <1>12, <1>13, <1>14, <1>15, <1>16, <1>17, <1>18, <1>19, <1>20, <1>21,
     <1>22, <1>23 DEF Next, CallStep, TaskStep, RpcCalls

(* The map is changed only while nobody saves.                              *)
LEMMA LockStep ==
  ASSUME TypeOK, JobInv, LockInv, [Next]_vars
  PROVE  LockInv'
<1>1. ASSUME NEW c \in Caller, NEW s \in Session, CreateSession(c, s)
    PROVE  LockInv'
  BY <1>1, TasksAssumption
  DEF LockInv, TypeOK, Working, Task, CreateSession, Goto, Call, lockVars,
      countVars
<1>2. ASSUME NEW c \in Caller, NEW s \in Session, DeleteSession(c, s)
    PROVE  LockInv'
  BY <1>2, TasksAssumption
  DEF LockInv, TypeOK, Working, Task, DeleteSession, Goto, Call, lockVars,
      countVars
<1>3. ASSUME NEW c \in Caller, NEW s \in Session, RenameSession(c, s)
    PROVE  LockInv'
  BY <1>3, TasksAssumption
  DEF LockInv, TypeOK, Working, Task, RenameSession, Goto, Call, lockVars,
      countVars, historyVars
<1>4. ASSUME NEW c \in Caller, NEW s \in Session, UpdateSessionWorkspace(c, s)
    PROVE  LockInv'
  BY <1>4, TasksAssumption
  DEF LockInv, TypeOK, Working, Task, UpdateSessionWorkspace, Goto, Call,
      lockVars, countVars, historyVars
<1>5. ASSUME NEW c \in Caller, NEW o \in RpcCalls, NEW s \in Session,
             EnsureProcess(c, o, s)
    PROVE  LockInv'
  BY <1>5, TasksAssumption
  DEF LockInv, TypeOK, Working, Task, EnsureProcess, Goto, Call, Inspected,
      lockVars, countVars
<1>6. ASSUME NEW c \in Caller, HangUp(c)
    PROVE  LockInv'
  BY <1>6, TasksAssumption
  DEF LockInv, TypeOK, Working, Task, HangUp, EndJob, LockWithout, LeftBy,
      Target, NoJob, NoRecords, storeVars, countVars
<1>7. ASSUME NEW t \in Task, Reply(t)
    PROVE  LockInv'
  BY <1>7, TasksAssumption
  DEF LockInv, TypeOK, Working, Task, Reply, Goto, EndJob, NoJob, storeVars,
      lockVars, countVars, historyVars
<1>8. ASSUME NEW t \in Task, LookForName(t)
    PROVE  LockInv'
  BY <1>8, TasksAssumption
  DEF LockInv, TypeOK, Working, Task, LookForName, Goto, NeedsName, Target,
      storeVars, lockVars, countVars, historyVars
<1>9. ASSUME NEW t \in Task, SetThinkingLevel(t)
    PROVE  LockInv'
  BY <1>9, TasksAssumption
  DEF LockInv, TypeOK, Working, Task, SetThinkingLevel, Goto, EndJob, Touched,
      Target, NoJob, lockVars, countVars, historyVars
<1>10. ASSUME NEW t \in Task, SetModel(t)
    PROVE  LockInv'
  BY <1>10, TasksAssumption
  DEF LockInv, TypeOK, Working, Task, SetModel, Goto, Touched, Target,
      lockVars, countVars, historyVars
<1>11. ASSUME NEW t \in Task, Configure(t)
    PROVE  LockInv'
  BY <1>11, TasksAssumption
  DEF LockInv, TypeOK, Working, Task, Configure, Goto, Target, lockVars,
      countVars, historyVars
<1>12. ASSUME NEW t \in Task, SetName(t)
    PROVE  LockInv'
  BY <1>12, TasksAssumption
  DEF LockInv, TypeOK, Working, Task, SetName, Goto, Renamed, Target,
      lockVars, countVars
<1>13. ASSUME NEW t \in Task, CollectRecords(t)
    PROVE  LockInv'
  BY <1>13, TasksAssumption
  DEF LockInv, TypeOK, Working, Task, CollectRecords, Goto, KeptWhileSaving,
      storeVars, countVars, historyVars
<1>14. ASSUME NEW t \in Task, WriteRecords(t)
    PROVE  LockInv'
  BY <1>14, TasksAssumption
  DEF LockInv, TypeOK, Working, Task, WriteRecords, Goto, FinishSave,
      PhaseAfterSave, LockWithout, Target, NoJob, NoRecords
<1>15. ASSUME NEW t \in Task, FailToWrite(t)
    PROVE  LockInv'
  BY <1>15, TasksAssumption
  DEF LockInv, TypeOK, Working, Task, FailToWrite, Goto, FinishSave,
      PhaseAfterSave, LockWithout, LeftBy, Target, NoJob, NoRecords
<1>16. ASSUME NEW t \in Task, PublishTitle(t)
    PROVE  LockInv'
  BY <1>16, TasksAssumption
  DEF LockInv, TypeOK, Working, Task, PublishTitle, Goto, Broadcast, Target,
      storeVars, lockVars, countVars, historyVars
<1>17. ASSUME NEW t \in Task, SendPrompt(t)
    PROVE  LockInv'
  BY <1>17, TasksAssumption
  DEF LockInv, TypeOK, Working, Task, SendPrompt, Goto, EndJob, Target, NoJob,
      storeVars, lockVars, countVars, historyVars
<1>18. CASE ReceiveTitle
  BY <1>18, TasksAssumption
  DEF LockInv, TypeOK, Working, Task, ReceiveTitle, Goto, storeVars, lockVars,
      countVars, historyVars
<1>19. ASSUME NEW s \in Session, WriteJournal(s)
    PROVE  LockInv'
  BY <1>19, TasksAssumption
  DEF LockInv, TypeOK, Working, Task, WriteJournal, lockVars, taskVars,
      countVars, historyVars
<1>20. ASSUME NEW s \in Session, GenerateTitle(s)
    PROVE  LockInv'
  BY <1>20, TasksAssumption
  DEF LockInv, TypeOK, Working, Task, GenerateTitle, Broadcast, storeVars,
      lockVars, taskVars, historyVars
<1>21. CASE LoseListener
  BY <1>21, TasksAssumption
  DEF LockInv, TypeOK, Working, Task, LoseListener, Goto, storeVars, lockVars,
      countVars, historyVars
<1>22. CASE Restart
  BY <1>22, TasksAssumption
  DEF LockInv, TypeOK, Working, Task, Restart, Loaded, Inspected, NameAtStart,
      NoJob, NoRecords
<1>23. CASE UNCHANGED vars
  BY <1>23
  DEF LockInv, TypeOK, Working, Task, vars, storeVars, lockVars, taskVars,
      countVars, historyVars
<1>24. QED
  BY <1>1, <1>2, <1>3, <1>4, <1>5, <1>6, <1>7, <1>8, <1>9, <1>10, <1>11,
     <1>12, <1>13, <1>14, <1>15, <1>16, <1>17, <1>18, <1>19, <1>20, <1>21,
     <1>22, <1>23 DEF Next, CallStep, TaskStep, RpcCalls

(* A change of the map is followed by a save of the same task.              *)
LEMMA SavedStep ==
  ASSUME TypeOK, JobInv, LockInv, SavedOrBeingSaved, [Next]_vars
  PROVE  SavedOrBeingSaved'
<1>1. ASSUME NEW c \in Caller, NEW s \in Session, CreateSession(c, s)
    PROVE  SavedOrBeingSaved'
  BY <1>1, TasksAssumption
  DEF SavedOrBeingSaved, BeingSaved, LockInv, JobInv, TypeOK, Target, Task,
      CreateSession, Goto, Call, lockVars, countVars
<1>2. ASSUME NEW c \in Caller, NEW s \in Session, DeleteSession(c, s)
    PROVE  SavedOrBeingSaved'
  BY <1>2, TasksAssumption
  DEF SavedOrBeingSaved, BeingSaved, LockInv, JobInv, TypeOK, Target, Task,
      DeleteSession, Goto, Call, lockVars, countVars
<1>3. ASSUME NEW c \in Caller, NEW s \in Session, RenameSession(c, s)
    PROVE  SavedOrBeingSaved'
  BY <1>3, TasksAssumption
  DEF SavedOrBeingSaved, BeingSaved, LockInv, JobInv, TypeOK, Target, Task,
      RenameSession, Goto, Call, lockVars, countVars, historyVars
<1>4. ASSUME NEW c \in Caller, NEW s \in Session, UpdateSessionWorkspace(c, s)
    PROVE  SavedOrBeingSaved'
  BY <1>4, TasksAssumption
  DEF SavedOrBeingSaved, BeingSaved, LockInv, JobInv, TypeOK, Target, Task,
      UpdateSessionWorkspace, Goto, Call, lockVars, countVars, historyVars
<1>5. ASSUME NEW c \in Caller, NEW o \in RpcCalls, NEW s \in Session,
             EnsureProcess(c, o, s)
    PROVE  SavedOrBeingSaved'
  BY <1>5, TasksAssumption
  DEF SavedOrBeingSaved, BeingSaved, LockInv, JobInv, TypeOK, Target, Task,
      EnsureProcess, Goto, Call, Inspected, lockVars, countVars
<1>6. ASSUME NEW c \in Caller, HangUp(c)
    PROVE  SavedOrBeingSaved'
  BY <1>6, TasksAssumption
  DEF SavedOrBeingSaved, BeingSaved, LockInv, JobInv, TypeOK, Target, Task,
      HangUp, EndJob, LockWithout, LeftBy, Working, NoJob, NoRecords,
      storeVars, countVars
<1>7. ASSUME NEW t \in Task, Reply(t)
    PROVE  SavedOrBeingSaved'
  BY <1>7, TasksAssumption
  DEF SavedOrBeingSaved, BeingSaved, LockInv, JobInv, TypeOK, Target, Task,
      Reply, Goto, EndJob, NoJob, storeVars, lockVars, countVars, historyVars
<1>8. ASSUME NEW t \in Task, LookForName(t)
    PROVE  SavedOrBeingSaved'
  BY <1>8, TasksAssumption
  DEF SavedOrBeingSaved, BeingSaved, LockInv, JobInv, TypeOK, Target, Task,
      LookForName, Goto, NeedsName, storeVars, lockVars, countVars,
      historyVars
<1>9. ASSUME NEW t \in Task, SetThinkingLevel(t)
    PROVE  SavedOrBeingSaved'
  BY <1>9, TasksAssumption
  DEF SavedOrBeingSaved, BeingSaved, LockInv, JobInv, TypeOK, Target, Task,
      SetThinkingLevel, Goto, EndJob, Touched, NoJob, lockVars, countVars,
      historyVars
<1>10. ASSUME NEW t \in Task, SetModel(t)
    PROVE  SavedOrBeingSaved'
  BY <1>10, TasksAssumption
  DEF SavedOrBeingSaved, BeingSaved, LockInv, JobInv, TypeOK, Target, Task,
      SetModel, Goto, Touched, lockVars, countVars, historyVars
<1>11. ASSUME NEW t \in Task, Configure(t)
    PROVE  SavedOrBeingSaved'
  BY <1>11, TasksAssumption
  DEF SavedOrBeingSaved, BeingSaved, LockInv, JobInv, TypeOK, Target, Task,
      Configure, Goto, lockVars, countVars, historyVars
<1>12. ASSUME NEW t \in Task, SetName(t)
    PROVE  SavedOrBeingSaved'
  BY <1>12, TasksAssumption
  DEF SavedOrBeingSaved, BeingSaved, LockInv, JobInv, TypeOK, Target, Task,
      SetName, Goto, Renamed, lockVars, countVars
<1>13. ASSUME NEW t \in Task, CollectRecords(t)
    PROVE  SavedOrBeingSaved'
  BY <1>13, TasksAssumption
  DEF SavedOrBeingSaved, BeingSaved, LockInv, JobInv, TypeOK, Target, Task,
      CollectRecords, Goto, KeptWhileSaving, storeVars, countVars, historyVars
<1>14. ASSUME NEW t \in Task, WriteRecords(t)
    PROVE  SavedOrBeingSaved'
  BY <1>14, TasksAssumption
  DEF SavedOrBeingSaved, BeingSaved, LockInv, JobInv, TypeOK, Target, Task,
      WriteRecords, Goto, FinishSave, PhaseAfterSave, LockWithout, NoJob,
      NoRecords
<1>15. ASSUME NEW t \in Task, FailToWrite(t)
    PROVE  SavedOrBeingSaved'
  BY <1>15, TasksAssumption
  DEF SavedOrBeingSaved, BeingSaved, LockInv, JobInv, TypeOK, Target, Task,
      FailToWrite, Goto, FinishSave, PhaseAfterSave, LockWithout, LeftBy,
      NoJob, NoRecords
<1>16. ASSUME NEW t \in Task, PublishTitle(t)
    PROVE  SavedOrBeingSaved'
  BY <1>16, TasksAssumption
  DEF SavedOrBeingSaved, BeingSaved, LockInv, JobInv, TypeOK, Target, Task,
      PublishTitle, Goto, Broadcast, storeVars, lockVars, countVars,
      historyVars
<1>17. ASSUME NEW t \in Task, SendPrompt(t)
    PROVE  SavedOrBeingSaved'
  BY <1>17, TasksAssumption
  DEF SavedOrBeingSaved, BeingSaved, LockInv, JobInv, TypeOK, Target, Task,
      SendPrompt, Goto, EndJob, NoJob, storeVars, lockVars, countVars,
      historyVars
<1>18. CASE ReceiveTitle
  BY <1>18, TasksAssumption
  DEF SavedOrBeingSaved, BeingSaved, LockInv, JobInv, TypeOK, Target, Task,
      ReceiveTitle, Goto, storeVars, lockVars, countVars, historyVars
<1>19. ASSUME NEW s \in Session, WriteJournal(s)
    PROVE  SavedOrBeingSaved'
  BY <1>19, TasksAssumption
  DEF SavedOrBeingSaved, BeingSaved, LockInv, JobInv, TypeOK, Target, Task,
      WriteJournal, lockVars, taskVars, countVars, historyVars
<1>20. ASSUME NEW s \in Session, GenerateTitle(s)
    PROVE  SavedOrBeingSaved'
  BY <1>20, TasksAssumption
  DEF SavedOrBeingSaved, BeingSaved, LockInv, JobInv, TypeOK, Target, Task,
      GenerateTitle, Broadcast, storeVars, lockVars, taskVars, historyVars
<1>21. CASE LoseListener
  BY <1>21, TasksAssumption
  DEF SavedOrBeingSaved, BeingSaved, LockInv, JobInv, TypeOK, Target, Task,
      LoseListener, Goto, storeVars, lockVars, countVars, historyVars
<1>22. CASE Restart
  <2>1. pc'[Boot] = "save"
    BY <1>22 DEF Restart, Task
  <2>2. QED
    BY <2>1 DEF SavedOrBeingSaved, BeingSaved, Task
<1>23. CASE UNCHANGED vars
  BY <1>23
  DEF SavedOrBeingSaved, BeingSaved, LockInv, JobInv, TypeOK, Target, Task,
      vars, storeVars, lockVars, taskVars, countVars, historyVars
<1>24. QED
  BY <1>1, <1>2, <1>3, <1>4, <1>5, <1>6, <1>7, <1>8, <1>9, <1>10, <1>11,
     <1>12, <1>13, <1>14, <1>15, <1>16, <1>17, <1>18, <1>19, <1>20, <1>21,
     <1>22, <1>23 DEF Next, CallStep, TaskStep, RpcCalls

(* Nothing but a request puts a session into the map.                       *)
LEMMA GoneStep ==
  ASSUME TypeOK, JobInv, LockInv, DeletedIsGone, [Next]_vars
  PROVE  DeletedIsGone'
<1>1. ASSUME NEW c \in Caller, NEW s \in Session, CreateSession(c, s)
    PROVE  DeletedIsGone'
  BY <1>1, TasksAssumption
  DEF DeletedIsGone, LockInv, JobInv, TypeOK, Target, Task, CreateSession,
      Goto, Call, lockVars, countVars
<1>2. ASSUME NEW c \in Caller, NEW s \in Session, DeleteSession(c, s)
    PROVE  DeletedIsGone'
  BY <1>2, TasksAssumption
  DEF DeletedIsGone, LockInv, JobInv, TypeOK, Target, Task, DeleteSession,
      Goto, Call, lockVars, countVars
<1>3. ASSUME NEW c \in Caller, NEW s \in Session, RenameSession(c, s)
    PROVE  DeletedIsGone'
  BY <1>3, TasksAssumption
  DEF DeletedIsGone, LockInv, JobInv, TypeOK, Target, Task, RenameSession,
      Goto, Call, lockVars, countVars, historyVars
<1>4. ASSUME NEW c \in Caller, NEW s \in Session, UpdateSessionWorkspace(c, s)
    PROVE  DeletedIsGone'
  BY <1>4, TasksAssumption
  DEF DeletedIsGone, LockInv, JobInv, TypeOK, Target, Task,
      UpdateSessionWorkspace, Goto, Call, lockVars, countVars, historyVars
<1>5. ASSUME NEW c \in Caller, NEW o \in RpcCalls, NEW s \in Session,
             EnsureProcess(c, o, s)
    PROVE  DeletedIsGone'
  BY <1>5, TasksAssumption
  DEF DeletedIsGone, LockInv, JobInv, TypeOK, Target, Task, EnsureProcess,
      Goto, Call, Inspected, lockVars, countVars
<1>6. ASSUME NEW c \in Caller, HangUp(c)
    PROVE  DeletedIsGone'
  BY <1>6, TasksAssumption
  DEF DeletedIsGone, LockInv, JobInv, TypeOK, Target, Task, HangUp, EndJob,
      LockWithout, LeftBy, Working, NoJob, NoRecords, storeVars, countVars
<1>7. ASSUME NEW t \in Task, Reply(t)
    PROVE  DeletedIsGone'
  BY <1>7, TasksAssumption
  DEF DeletedIsGone, LockInv, JobInv, TypeOK, Target, Task, Reply, Goto,
      EndJob, NoJob, storeVars, lockVars, countVars, historyVars
<1>8. ASSUME NEW t \in Task, LookForName(t)
    PROVE  DeletedIsGone'
  BY <1>8, TasksAssumption
  DEF DeletedIsGone, LockInv, JobInv, TypeOK, Target, Task, LookForName, Goto,
      NeedsName, storeVars, lockVars, countVars, historyVars
<1>9. ASSUME NEW t \in Task, SetThinkingLevel(t)
    PROVE  DeletedIsGone'
  BY <1>9, TasksAssumption
  DEF DeletedIsGone, LockInv, JobInv, TypeOK, Target, Task, SetThinkingLevel,
      Goto, EndJob, Touched, NoJob, lockVars, countVars, historyVars
<1>10. ASSUME NEW t \in Task, SetModel(t)
    PROVE  DeletedIsGone'
  BY <1>10, TasksAssumption
  DEF DeletedIsGone, LockInv, JobInv, TypeOK, Target, Task, SetModel, Goto,
      Touched, lockVars, countVars, historyVars
<1>11. ASSUME NEW t \in Task, Configure(t)
    PROVE  DeletedIsGone'
  BY <1>11, TasksAssumption
  DEF DeletedIsGone, LockInv, JobInv, TypeOK, Target, Task, Configure, Goto,
      lockVars, countVars, historyVars
<1>12. ASSUME NEW t \in Task, SetName(t)
    PROVE  DeletedIsGone'
  BY <1>12, TasksAssumption
  DEF DeletedIsGone, LockInv, JobInv, TypeOK, Target, Task, SetName, Goto,
      Renamed, lockVars, countVars
<1>13. ASSUME NEW t \in Task, CollectRecords(t)
    PROVE  DeletedIsGone'
  BY <1>13, TasksAssumption
  DEF DeletedIsGone, LockInv, JobInv, TypeOK, Target, Task, CollectRecords,
      Goto, KeptWhileSaving, storeVars, countVars, historyVars
<1>14. ASSUME NEW t \in Task, WriteRecords(t)
    PROVE  DeletedIsGone'
  BY <1>14, TasksAssumption
  DEF DeletedIsGone, LockInv, JobInv, TypeOK, Target, Task, WriteRecords,
      Goto, FinishSave, PhaseAfterSave, LockWithout, NoJob, NoRecords
<1>15. ASSUME NEW t \in Task, FailToWrite(t)
    PROVE  DeletedIsGone'
  BY <1>15, TasksAssumption
  DEF DeletedIsGone, LockInv, JobInv, TypeOK, Target, Task, FailToWrite, Goto,
      FinishSave, PhaseAfterSave, LockWithout, LeftBy, NoJob, NoRecords
<1>16. ASSUME NEW t \in Task, PublishTitle(t)
    PROVE  DeletedIsGone'
  BY <1>16, TasksAssumption
  DEF DeletedIsGone, LockInv, JobInv, TypeOK, Target, Task, PublishTitle,
      Goto, Broadcast, storeVars, lockVars, countVars, historyVars
<1>17. ASSUME NEW t \in Task, SendPrompt(t)
    PROVE  DeletedIsGone'
  BY <1>17, TasksAssumption
  DEF DeletedIsGone, LockInv, JobInv, TypeOK, Target, Task, SendPrompt, Goto,
      EndJob, NoJob, storeVars, lockVars, countVars, historyVars
<1>18. CASE ReceiveTitle
  BY <1>18, TasksAssumption
  DEF DeletedIsGone, LockInv, JobInv, TypeOK, Target, Task, ReceiveTitle,
      Goto, storeVars, lockVars, countVars, historyVars
<1>19. ASSUME NEW s \in Session, WriteJournal(s)
    PROVE  DeletedIsGone'
  BY <1>19, TasksAssumption
  DEF DeletedIsGone, LockInv, JobInv, TypeOK, Target, Task, WriteJournal,
      lockVars, taskVars, countVars, historyVars
<1>20. ASSUME NEW s \in Session, GenerateTitle(s)
    PROVE  DeletedIsGone'
  BY <1>20, TasksAssumption
  DEF DeletedIsGone, LockInv, JobInv, TypeOK, Target, Task, GenerateTitle,
      Broadcast, storeVars, lockVars, taskVars, historyVars
<1>21. CASE LoseListener
  BY <1>21, TasksAssumption
  DEF DeletedIsGone, LockInv, JobInv, TypeOK, Target, Task, LoseListener,
      Goto, storeVars, lockVars, countVars, historyVars
<1>22. CASE Restart
  BY <1>22, TasksAssumption
  DEF DeletedIsGone, LockInv, JobInv, TypeOK, Target, Task, Restart, Loaded,
      Inspected, NameAtStart, NoJob, NoRecords
<1>23. CASE UNCHANGED vars
  BY <1>23
  DEF DeletedIsGone, LockInv, JobInv, TypeOK, Target, Task, vars, storeVars,
      lockVars, taskVars, countVars, historyVars
<1>24. QED
  BY <1>1, <1>2, <1>3, <1>4, <1>5, <1>6, <1>7, <1>8, <1>9, <1>10, <1>11,
     <1>12, <1>13, <1>14, <1>15, <1>16, <1>17, <1>18, <1>19, <1>20, <1>21,
     <1>22, <1>23 DEF Next, CallStep, TaskStep, RpcCalls

(* A prompt that looks at a firm name makes no title.                       *)
LEMMA TitleStep ==
  ASSUME TypeOK, JobInv, LockInv, TitleInv, [Next]_vars
  PROVE  TitleInv'
<1>1. ASSUME NEW c \in Caller, NEW s \in Session, CreateSession(c, s)
    PROVE  TitleInv'
  <2>1. ASSUME NEW x \in Session, Deriving(x)'
        PROVE  Deriving(x)
    BY <1>1, <2>1
    DEF CreateSession, Call, Goto, Deriving, Target, Task, TypeOK
  <2>2. ~Deriving(s)
    BY <1>1, TasksAssumption DEF CreateSession, Deriving, JobInv, Target
  <2>3. /\ firm' \subseteq firm \cup {s}
        /\ \A x \in Session \ {s} : sessions'[x] = sessions[x]
    BY <1>1 DEF CreateSession, TypeOK
  <2>4. QED
    <3>1. \A x \in firm' : x # s => x \in firm /\ x \in Session
      BY <1>1, <2>3 DEF CreateSession, TypeOK
    <3>2. s \in firm' => sessions'[s] \in Info /\ sessions'[s].name = "given"
      BY <1>1 DEF CreateSession, JobInv, TypeOK, Info, Names
    <3>3. QED
      BY <2>1, <2>2, <2>3, <3>1, <3>2, TasksAssumption
      DEF TitleInv, GivenNameIsKept
<1>2. ASSUME NEW c \in Caller, NEW s \in Session, DeleteSession(c, s)
    PROVE  TitleInv'
  BY <1>2, TasksAssumption
  DEF TitleInv, GivenNameIsKept, Deriving, JobInv, TypeOK, Target, Task,
      Event, DeleteSession, Goto, Call, lockVars, countVars
<1>3. ASSUME NEW c \in Caller, NEW s \in Session, RenameSession(c, s)
    PROVE  TitleInv'
  BY <1>3, TasksAssumption
  DEF TitleInv, GivenNameIsKept, Deriving, JobInv, TypeOK, Target, Task,
      Event, RenameSession, Goto, Call, lockVars, countVars, historyVars
<1>4. ASSUME NEW c \in Caller, NEW s \in Session, UpdateSessionWorkspace(c, s)
    PROVE  TitleInv'
  BY <1>4, TasksAssumption
  DEF TitleInv, GivenNameIsKept, Deriving, JobInv, TypeOK, Target, Task,
      Event, UpdateSessionWorkspace, Goto, Call, lockVars, countVars,
      historyVars
<1>5. ASSUME NEW c \in Caller, NEW o \in RpcCalls, NEW s \in Session,
             EnsureProcess(c, o, s)
    PROVE  TitleInv'
  BY <1>5, TasksAssumption
  DEF TitleInv, GivenNameIsKept, Deriving, JobInv, TypeOK, Target, Task,
      Event, EnsureProcess, Goto, Call, Inspected, lockVars, countVars
<1>6. ASSUME NEW c \in Caller, HangUp(c)
    PROVE  TitleInv'
  BY <1>6, TasksAssumption
  DEF TitleInv, GivenNameIsKept, Deriving, JobInv, TypeOK, Target, Task,
      Event, HangUp, EndJob, LockWithout, LeftBy, Working, NoJob, NoRecords,
      storeVars, countVars
<1>7. ASSUME NEW t \in Task, Reply(t)
    PROVE  TitleInv'
  BY <1>7, TasksAssumption
  DEF TitleInv, GivenNameIsKept, Deriving, JobInv, TypeOK, Target, Task,
      Event, Reply, Goto, EndJob, NoJob, storeVars, lockVars, countVars,
      historyVars
<1>8. ASSUME NEW t \in Task, LookForName(t)
    PROVE  TitleInv'
  <2>1. ASSUME NEW x \in firm, Deriving(x)'
        PROVE  Deriving(x)
    <3>1. CASE /\ NeedsName(Target(t)) /\ Goto(t, "ensured", "name")
               /\ job' = [job EXCEPT ![t].name = "derived"]
      <4>1. x # Target(t)
        BY <3>1 DEF NeedsName, TitleInv, GivenNameIsKept
      <4>2. \A u \in Task : Target(u)' = Target(u)
        BY <3>1 DEF Target, TypeOK, Job
      <4>3. QED
        BY <1>8, <2>1, <3>1, <4>1, <4>2
        DEF LookForName, Goto, Deriving, TypeOK
    <3>2. CASE UNCHANGED job /\ Goto(t, "ensured", "send")
      BY <1>8, <2>1, <3>2
      DEF LookForName, Goto, Deriving, Target, Task, TypeOK
    <3>3. QED
      BY <1>8, <3>1, <3>2 DEF LookForName
  <2>2. QED
    BY <1>8, <2>1
    DEF LookForName, TitleInv, GivenNameIsKept, storeVars, historyVars
<1>9. ASSUME NEW t \in Task, SetThinkingLevel(t)
    PROVE  TitleInv'
  BY <1>9, TasksAssumption
  DEF TitleInv, GivenNameIsKept, Deriving, JobInv, TypeOK, Target, Task,
      Event, SetThinkingLevel, Goto, EndJob, Touched, NoJob, lockVars,
      countVars, historyVars
<1>10. ASSUME NEW t \in Task, SetModel(t)
    PROVE  TitleInv'
  BY <1>10, TasksAssumption
  DEF TitleInv, GivenNameIsKept, Deriving, JobInv, TypeOK, Target, Task,
      Event, SetModel, Goto, Touched, lockVars, countVars, historyVars
<1>11. ASSUME NEW t \in Task, Configure(t)
    PROVE  TitleInv'
  <2>1. job[t].name = "none"
    BY <1>11 DEF Configure, Goto, JobInv
  <2>2. ASSUME NEW x \in Session, Deriving(x)'
        PROVE  Deriving(x)
    BY <1>11, <2>1, <2>2 DEF Configure, Goto, Deriving, Target, Task, TypeOK
  <2>3. ASSUME NEW x \in Session, sessions[x] # Absent
        PROVE  sessions'[x] # Absent /\ sessions'[x].name = sessions[x].name
    <3>1. sessions[x] \in Info
      BY <2>3 DEF TypeOK
    <3>2. [sessions[x] EXCEPT !.settings = "changed"] # Absent
      BY <2>3, InfoMade, TasksAssumption
    <3>3. \/ sessions'[x] = sessions[x]
          \/ sessions'[x] = [sessions[x] EXCEPT !.settings = "changed"]
      BY <1>11, <2>3 DEF Configure, TypeOK
    <3>4. QED
      BY <2>3, <3>1, <3>2, <3>3 DEF Info
  <2>4. firm' = firm /\ firm \subseteq Session
    BY <1>11 DEF Configure, historyVars, TypeOK
  <2>5. QED
    BY <2>2, <2>3, <2>4 DEF TitleInv, GivenNameIsKept
<1>12. ASSUME NEW t \in Task, SetName(t)
    PROVE  TitleInv'
  <2>1. ASSUME NEW x \in Session, Deriving(x)'
        PROVE  Deriving(x)
    BY <1>12, <2>1 DEF SetName, Goto, Deriving, Target, Task, TypeOK
  <2>2. job[t].name \in {"given", "derived", "generated"}
    BY <1>12 DEF SetName, Goto, JobInv, TypeOK, Job, Names
  <2>3. ASSUME job[t].name = "derived"
        PROVE  Deriving(Target(t))
    BY <1>12, <2>3 DEF SetName, Goto, Deriving
  <2>4. ASSUME NEW x \in Session, x # Target(t)
        PROVE  sessions'[x] = sessions[x] /\ (x \in firm' <=> x \in firm)
    BY <1>12, <2>4 DEF SetName, TypeOK
  <2>5. ASSUME Target(t) \in firm'
        PROVE  /\ sessions[Target(t)] # Absent /\ Target(t) \in Session
               /\ ~Deriving(Target(t))
    <3>1. CASE Target(t) \in firm
      BY <3>1 DEF TypeOK, TitleInv, GivenNameIsKept
    <3>2. CASE Target(t) \notin firm
      BY <1>12, <2>5, <3>2, TasksAssumption
      DEF SetName, Goto, JobInv, Working, Phases, TypeOK
    <3>3. QED
      BY <3>1, <3>2
  <2>6. ASSUME Target(t) \in firm'
        PROVE  /\ sessions'[Target(t)] # Absent
               /\ sessions'[Target(t)].name = job[t].name
    <3>1. sessions'[Target(t)] = [sessions[Target(t)] EXCEPT !.name = job[t].name]
      BY <1>12, <2>5, <2>6 DEF SetName, Renamed, TypeOK
    <3>2. sessions[Target(t)] \in Info /\ job[t].name \in Names
      BY <2>2, <2>5, <2>6 DEF TypeOK, Names
    <3>3. sessions'[Target(t)] \in Info
      BY <3>1, <3>2 DEF Info
    <3>4. QED
      BY <3>1, <3>2, <3>3, TasksAssumption DEF Info
  <2>7. firm' \subseteq Session
    BY <1>12, <2>5 DEF SetName, TypeOK
  <2>8. QED
    BY <2>1, <2>2, <2>3, <2>4, <2>5, <2>6, <2>7 DEF TitleInv, GivenNameIsKept
<1>13. ASSUME NEW t \in Task, CollectRecords(t)
    PROVE  TitleInv'
  BY <1>13, TasksAssumption
  DEF TitleInv, GivenNameIsKept, Deriving, JobInv, TypeOK, Target, Task,
      Event, CollectRecords, Goto, KeptWhileSaving, storeVars, countVars,
      historyVars
<1>14. ASSUME NEW t \in Task, WriteRecords(t)
    PROVE  TitleInv'
  BY <1>14, TasksAssumption
  DEF TitleInv, GivenNameIsKept, Deriving, JobInv, TypeOK, Target, Task,
      Event, WriteRecords, Goto, FinishSave, PhaseAfterSave, LockWithout,
      NoJob, NoRecords
<1>15. ASSUME NEW t \in Task, FailToWrite(t)
    PROVE  TitleInv'
  BY <1>15, TasksAssumption
  DEF TitleInv, GivenNameIsKept, Deriving, JobInv, TypeOK, Target, Task,
      Event, FailToWrite, Goto, FinishSave, PhaseAfterSave, LockWithout,
      LeftBy, NoJob, NoRecords
<1>16. ASSUME NEW t \in Task, PublishTitle(t)
    PROVE  TitleInv'
  BY <1>16, TasksAssumption
  DEF TitleInv, GivenNameIsKept, Deriving, JobInv, TypeOK, Target, Task,
      Event, PublishTitle, Goto, Broadcast, storeVars, lockVars, countVars,
      historyVars
<1>17. ASSUME NEW t \in Task, SendPrompt(t)
    PROVE  TitleInv'
  BY <1>17, TasksAssumption
  DEF TitleInv, GivenNameIsKept, Deriving, JobInv, TypeOK, Target, Task,
      Event, SendPrompt, Goto, EndJob, NoJob, storeVars, lockVars, countVars,
      historyVars
<1>18. CASE ReceiveTitle
  <2>1. Head(bus) = bus[1] /\ 1 \in DOMAIN bus /\ bus[1] \in Event
    BY <1>18 DEF ReceiveTitle, TypeOK
  <2>2. bus[1] = [session |-> bus[1].session, name |-> bus[1].name]
    BY <2>1 DEF Event
  <2>3. ASSUME NEW i \in DOMAIN bus'
        PROVE  i + 1 \in DOMAIN bus /\ bus'[i] = bus[i + 1]
    BY <1>18 DEF ReceiveTitle, TypeOK
  <2>4. ASSUME NEW x \in Session, Deriving(x)'
        PROVE  Deriving(x)
    <3>1. CASE \E i \in DOMAIN bus' : bus'[i] = [session |-> x, name |-> "derived"]
      BY <2>3, <3>1 DEF Deriving
    <3>2. CASE \E u \in Task : /\ Target(u)' = x /\ job'[u].name = "derived"
                              /\ pc'[u] \in {"name", "save", "saving", "publish"}
      <4>1. PICK u \in Task : /\ Target(u)' = x /\ job'[u].name = "derived"
                              /\ pc'[u] \in {"name", "save", "saving", "publish"}
        BY <3>2
      <4>2. CASE u = Listener
        BY <1>18, <2>1, <2>2, <4>1, <4>2 DEF ReceiveTitle, Deriving, Target, TypeOK
      <4>3. CASE u # Listener
        BY <1>18, <4>1, <4>3 DEF ReceiveTitle, Goto, Deriving, Target, TypeOK
      <4>4. QED
        BY <4>2, <4>3
    <3>3. QED
      BY <2>4, <3>1, <3>2 DEF Deriving
  <2>5. QED
    BY <1>18, <2>4
    DEF ReceiveTitle, TitleInv, GivenNameIsKept, TypeOK, storeVars, historyVars
<1>19. ASSUME NEW s \in Session, WriteJournal(s)
    PROVE  TitleInv'
  BY <1>19, TasksAssumption
  DEF TitleInv, GivenNameIsKept, Deriving, JobInv, TypeOK, Target, Task,
      Event, WriteJournal, lockVars, taskVars, countVars, historyVars
<1>20. ASSUME NEW s \in Session, GenerateTitle(s)
    PROVE  TitleInv'
  BY <1>20, TasksAssumption
  DEF TitleInv, GivenNameIsKept, Deriving, JobInv, TypeOK, Target, Task,
      Event, GenerateTitle, Broadcast, storeVars, lockVars, taskVars,
      historyVars
<1>21. CASE LoseListener
  BY <1>21, TasksAssumption
  DEF TitleInv, GivenNameIsKept, Deriving, JobInv, TypeOK, Target, Task,
      Event, LoseListener, Goto, storeVars, lockVars, countVars, historyVars
<1>22. CASE Restart
  BY <1>22, TasksAssumption
  DEF TitleInv, GivenNameIsKept, Deriving, JobInv, TypeOK, Target, Task,
      Event, Restart, Loaded, Inspected, NameAtStart, NoJob, NoRecords
<1>23. CASE UNCHANGED vars
  BY <1>23
  DEF TitleInv, GivenNameIsKept, Deriving, JobInv, TypeOK, Target, Task,
      Event, vars, storeVars, lockVars, taskVars, countVars, historyVars
<1>24. QED
  BY <1>1, <1>2, <1>3, <1>4, <1>5, <1>6, <1>7, <1>8, <1>9, <1>10, <1>11,
     <1>12, <1>13, <1>14, <1>15, <1>16, <1>17, <1>18, <1>19, <1>20, <1>21,
     <1>22, <1>23 DEF Next, CallStep, TaskStep, RpcCalls

LEMMA InvStep == StoreInv /\ [Next]_vars => StoreInv'
  BY TypeStep, JobStep, LockStep, SavedStep, GoneStep, TitleStep DEF StoreInv

THEOREM StoreInvariance == Spec => []StoreInv
  BY InitInv, InvStep, PTL DEF Spec

(* Every value the model can reach is of its type.                          *)
THEOREM TypeCorrect == Spec => []TypeOK
<1>1. StoreInv => TypeOK  BY DEF StoreInv
<1>2. QED  BY <1>1, StoreInvariance, PTL

(* The file differs from the map only by what is about to be saved or was   *)
(* left unsaved, however many tasks save and are cut off.                   *)
THEOREM RecordsFollowTheMap == Spec => []SavedOrBeingSaved
<1>1. StoreInv => SavedOrBeingSaved  BY DEF StoreInv
<1>2. QED  BY <1>1, StoreInvariance, PTL

(* A deleted session does not come back by itself.                          *)
THEOREM DeletionIsFinal == Spec => []DeletedIsGone
<1>1. StoreInv => DeletedIsGone  BY DEF StoreInv
<1>2. QED  BY <1>1, StoreInvariance, PTL

(* Titles made from prompts do not replace names given before the prompt.   *)
THEOREM GivenNamesAreKept == Spec => []GivenNameIsKept
<1>1. StoreInv => GivenNameIsKept  BY DEF StoreInv, TitleInv
<1>2. QED  BY <1>1, StoreInvariance, PTL

(* A crash loses no session that has been saved.                            *)
LEMMA RestartStep ==
  ASSUME StoreInv, [Next]_vars, restarts' # restarts,
         NEW s \in Session, sessions[s] # Absent, ~sessions[s].in_memory,
         s \notin unrecorded, ~BeingSaved(s)
  PROVE  /\ sessions'[s] # Absent
         /\ sessions'[s].settings = sessions[s].settings
         /\ sessions[s].name # "none" => sessions'[s].name = sessions[s].name
<1>1. Restart
  <2>1. ASSUME NEW c \in Caller, NEW x \in Session, CallStep(c, x)
        PROVE  restarts' = restarts
    BY <2>1
    DEF CallStep, CreateSession, DeleteSession, RenameSession,
        UpdateSessionWorkspace, EnsureProcess, countVars
  <2>2. ASSUME NEW t \in Task, TaskStep(t)
        PROVE  restarts' = restarts
    BY <2>2
    DEF TaskStep, Reply, LookForName, SetThinkingLevel, SetModel, Configure,
        SetName, CollectRecords, WriteRecords, FinishSave, FailToWrite,
        PublishTitle, SendPrompt, ReceiveTitle, countVars
  <2>3. ASSUME NEW c \in Caller, HangUp(c)
        PROVE  restarts' = restarts
    BY <2>3 DEF HangUp, countVars
  <2>4. ASSUME NEW x \in Session, WriteJournal(x) \/ GenerateTitle(x)
        PROVE  restarts' = restarts
    BY <2>4 DEF WriteJournal, GenerateTitle, countVars
  <2>5. LoseListener \/ UNCHANGED vars => restarts' = restarts
    BY DEF LoseListener, vars, countVars
  <2>6. QED
    BY <2>1, <2>2, <2>3, <2>4, <2>5 DEF Next
<1>2. instances[s] = sessions[s]
  BY DEF StoreInv, SavedOrBeingSaved
<1>3. sessions[s] \in Info
  BY DEF StoreInv, TypeOK
<1>4. sessions'[s] = Loaded(s)
  BY <1>1 DEF Restart
<1>5. Loaded(s) = [sessions[s] EXCEPT !.name = NameAtStart(s, sessions[s])]
  BY <1>2 DEF Loaded
<1>6. Loaded(s) \in Info
  BY <1>3, <1>5 DEF Info, Names, NameAtStart
<1>7. QED
  BY <1>3, <1>4, <1>5, <1>6, TasksAssumption DEF Info, NameAtStart

THEOREM RestartKeepsSaved == Spec => RestartKeepsSessions
<1>1. StoreInv /\ [Next]_vars =>
        [restarts' # restarts =>
           \A s \in Session :
              (/\ sessions[s] # Absent /\ ~sessions[s].in_memory
               /\ s \notin unrecorded /\ ~BeingSaved(s)) =>
                /\ sessions'[s] # Absent
                /\ sessions'[s].settings = sessions[s].settings
                /\ sessions[s].name # "none" => sessions'[s].name = sessions[s].name
        ]_vars
  BY RestartStep
<1>2. QED  BY <1>1, StoreInvariance, PTL DEF Spec, RestartKeepsSessions
=============================================================================
