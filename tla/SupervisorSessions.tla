-------------------------- MODULE SupervisorSessions --------------------------
(***************************************************************************)
(* The records of sessions that the Supervisor keeps: in memory under a    *)
(* mutex, in instances.json, and, for sessions that were prompted, the     *)
(* journal <session>.jsonl that the engine writes and a restart discovers. *)
(*                                                                         *)
(* An operation changes the map under the lock, releases it, and locks it  *)
(* again to save: several tasks do so at once, a client that hangs up cuts *)
(* its handler off at any await, and titles made from prompts arrive late  *)
(* through the event channel. Turns themselves are EngineSession's subject.*)
(***************************************************************************)
EXTENDS Naturals, Sequences

CONSTANTS
  Session,     (* Session identifiers.                                     *)
  NoSession,   (* The session of a task that has none.                     *)
  Caller,      (* Bound: calls of clients and scheduled runs, one each.    *)
  MayCall,     (* Bound: what each of them may call.                       *)
  Listener,    (* The task that listens for session_renamed.               *)
  Boot,        (* The task that saves the records once after a start.      *)
  NoTask,      (* Holds the lock when no task does.                        *)
  Absent,      (* What the map holds of a session it does not contain.     *)
  MaxTitles,   (* Bound: titles the model generates.                       *)
  MaxFailures, (* Bound: saves that the file system refuses.               *)
  MaxRestarts  (* Bound: restarts of the daemon.                           *)

Task == Caller \cup {Listener, Boot}

(* A name by its origin: none (or the generic one), given by a user or by   *)
(* the code that creates the session, derived from a prompt by              *)
(* summarize_title_heuristic, generated by the model.                       *)
Names == {"none", "given", "derived", "generated"}

(* cwd and model: as created, changed since, or those of a session that is  *)
(* known by its journal only.                                               *)
Info == [name : Names, settings : {"created", "changed", "default"},
         in_memory : BOOLEAN]

(* Subscribe, and the commands of an Rpc.                                   *)
RpcCalls == {"subscribe", "prompt", "set_thinking_level", "set_model"}
Calls == RpcCalls \cup {"create", "delete", "rename", "move"}

Job == [op : Calls \cup {"none", "set_model_again"},
        session : Session \cup {NoSession}, name : Names]
NoJob == [op |-> "none", session |-> NoSession, name |-> "none"]

ASSUME TasksAssumption ==
  /\ Listener \notin Caller /\ Boot \notin Caller /\ Listener # Boot
  /\ NoTask \notin Task
  /\ NoSession \notin Session
  /\ Absent \notin Info

ASSUME BoundsAssumption ==
  /\ MayCall \in [Caller -> SUBSET Calls]
  /\ MaxTitles \in Nat /\ MaxFailures \in Nat /\ MaxRestarts \in Nat

VARIABLES
  sessions,   (* The map: the info of each session, or Absent.             *)
  instances,  (* The same in instances.json.                               *)
  journal,    (* Whether <session>.jsonl exists and yields a title.        *)
  born,       (* Session identifiers that have been used.                  *)
  lock,       (* The task that keeps the mutex of the map across an await. *)
  records,    (* What that task has collected to write.                    *)
  pc,         (* Where each task stands.                                   *)
  job,        (* The call it carries out, the session that the call is     *)
              (* about, the name it sets.                                  *)
  bus,        (* session_renamed events that Listener has not received.    *)
  prompted,   (* Sessions prompted since the start.                        *)
  titles,     (* Titles generated so far.                                  *)
  failures,   (* Saves refused so far.                                     *)
  restarts,   (* Restarts so far.                                          *)
  unrecorded, (* History variable: sessions last changed without a save,   *)
              (* or by a task that was cut off or refused before its save. *)
  gone,       (* History variable: sessions whose deletion was answered    *)
              (* and that nothing has a reason to bring back.              *)
  firm        (* History variable: sessions named by the user while no     *)
              (* title made from a prompt was on its way.                  *)

storeVars == <<sessions, instances, journal, born>>
lockVars == <<lock, records>>
taskVars == <<pc, job>>
countVars == <<titles, failures, restarts>>
historyVars == <<unrecorded, gone, firm>>
vars == <<storeVars, lockVars, taskVars, bus, prompted, countVars, historyVars>>

NoRecords == [s \in Session |-> Absent]

Event == [session : Session, name : Names]

(* "name", "configure", "save": about to lock the map for it; "saving":     *)
(* holding the lock; "publish": about to send the event.                    *)
Phases == {"idle", "ensured", "name", "configure", "save", "saving", "publish",
           "send", "done", "dead"}

Working == Phases \ {"idle", "done", "dead"}

TypeOK ==
  /\ sessions \in [Session -> Info \cup {Absent}]
  /\ instances \in [Session -> Info \cup {Absent}]
  /\ journal \in [Session -> {"none", "untitled", "titled"}]
  /\ born \subseteq Session
  /\ lock \in Task \cup {NoTask}
  /\ records \in [Session -> Info \cup {Absent}]
  /\ pc \in [Task -> Phases]
  /\ job \in [Task -> Job]
  /\ bus \in Seq(Event)
  /\ prompted \subseteq Session
  /\ titles \in Nat /\ failures \in Nat /\ restarts \in Nat
  /\ unrecorded \subseteq Session
  /\ gone \subseteq Session
  /\ firm \subseteq Session

(* The first start, in an empty ~/.openpi.                                  *)
Init ==
  /\ sessions = NoRecords
  /\ instances = NoRecords
  /\ journal = [s \in Session |-> "none"]
  /\ born = {}
  /\ lock = NoTask
  /\ records = NoRecords
  /\ pc = [t \in Task |-> IF t = Boot THEN "save" ELSE "idle"]
  /\ job = [t \in Task |-> NoJob]
  /\ bus = <<>>
  /\ prompted = {}
  /\ titles = 0 /\ failures = 0 /\ restarts = 0
  /\ unrecorded = {} /\ gone = {} /\ firm = {}

(***************************************************************************)
(* The decisions of the code, each preceded by the faulty variants that    *)
(* the properties below are validated against.                             *)
(***************************************************************************)

(* Variant: the records are cloned under the lock and written without it.   *)
KeptUnlocked(t) == NoTask

(* save_records keeps the guard until the file is renamed.                  *)
KeptWhileSaving(t) == t

(* Variant: a lock that a dropped future does not give back.                *)
KeptByDropped(t) == lock

(* Dropping a future drops its guard.                                       *)
LockWithout(t) == IF lock = t THEN NoTask ELSE lock

(* Variant: entry().or_insert, a renamed session exists afterwards.         *)
RenamedOrInserted(s, n) ==
  IF sessions[s] = Absent
    THEN [name |-> n, settings |-> "default", in_memory |-> FALSE]
    ELSE [sessions[s] EXCEPT !.name = n]

(* rename_session: nothing happens to a session that is not in the map.     *)
Renamed(s, n) ==
  IF sessions[s] = Absent THEN Absent ELSE [sessions[s] EXCEPT !.name = n]

(* Variant: every prompt names its session.                                 *)
AlwaysNeedsName(s) == sessions[s] # Absent

(* needs_name                                                               *)
NeedsName(s) == sessions[s] # Absent /\ sessions[s].name = "none"

(* Variant: the journal's title is taken whenever there is one.             *)
TitleOfJournal(s, i) == IF journal[s] = "titled" THEN "derived" ELSE i.name

(* Variant: what the extraction returns is taken, also when it found none.  *)
NameFromFile(s, i) == IF i.name = "none" THEN journal[s] ELSE i.name

(* Supervisor::new: the name of a session that has none is taken from its   *)
(* journal.                                                                 *)
NameAtStart(s, i) ==
  IF i.name = "none" /\ journal[s] = "titled" THEN "derived" ELSE i.name

(* inspect_session_file                                                     *)
Inspected(s) ==
  [name |-> IF journal[s] = "titled" THEN "derived" ELSE "none",
   settings |-> "default", in_memory |-> FALSE]

(* Supervisor::new: a saved record unless it is in_memory, else what the    *)
(* journal says.                                                            *)
Loaded(s) ==
  LET saved == instances[s] # Absent /\ ~instances[s].in_memory
      found == IF saved THEN instances[s] ELSE Inspected(s)
  IN  IF saved \/ journal[s] # "none"
        THEN [found EXCEPT !.name = NameAtStart(s, found)]
        ELSE Absent

(* Variant: the listener returns after a title, instead of looping.         *)
PhaseAfterOneSave(t) == IF job[t].op = "prompt" THEN "publish" ELSE "done"

(* What follows save_records in the task's operation.                       *)
PhaseAfterSave(t) ==
  CASE t \in {Listener, Boot}  -> "idle"
    [] job[t].op = "prompt"    -> "publish"
    [] job[t].op = "set_model" -> "configure"
    [] OTHER                   -> "done"

Goto(t, from, to) ==
  /\ pc[t] = from
  /\ pc' = [pc EXCEPT ![t] = to]

Target(t) == job[t].session
EndJob(t) == job' = [job EXCEPT ![t] = NoJob]

(* A title made from a prompt that has still to be set in the map.          *)
Deriving(s) ==
  \/ \E t \in Task : /\ Target(t) = s /\ job[t].name = "derived"
                     /\ pc[t] \in {"name", "save", "saving", "publish"}
  \/ \E i \in DOMAIN bus : bus[i] = [session |-> s, name |-> "derived"]

(***************************************************************************)
(* Calls.                                                                  *)
(***************************************************************************)

Call(c, o, s, n, to) ==
  /\ o \in MayCall[c]
  /\ Goto(c, "idle", to)
  /\ job' = [job EXCEPT ![c] = [op |-> o, session |-> s, name |-> n]]
  /\ born' = born \cup {s}

(* create_session, with a new UUID.                                         *)
CreateSession(c, s) ==
  /\ lock = NoTask
  /\ s \notin born
  /\ Call(c, "create", s, "none", "save")
  /\ \E n \in {"none", "given"}, temporary \in BOOLEAN :
        /\ sessions' = [sessions EXCEPT ![s] =
             [name |-> n, settings |-> "created", in_memory |-> temporary]]
        /\ firm' = IF n = "given" THEN firm \cup {s} ELSE firm
  /\ UNCHANGED <<instances, journal, lockVars, bus, prompted, countVars,
                 unrecorded, gone>>

(* delete_session: stop_session changes nothing that is saved, and the      *)
(* journal stays.                                                           *)
DeleteSession(c, s) ==
  /\ lock = NoTask
  /\ Call(c, "delete", s, "none", "save")
  /\ sessions' = [sessions EXCEPT ![s] = Absent]
  /\ firm' = firm \ {s}
  /\ UNCHANGED <<instances, journal, lockVars, bus, prompted, countVars,
                 unrecorded, gone>>

(* RenameSession, about to lock the map.                                    *)
RenameSession(c, s) ==
  /\ Call(c, "rename", s, "given", "name")
  /\ UNCHANGED <<sessions, instances, journal, lockVars, bus, prompted,
                 countVars, historyVars>>

(* update_session_workspace, about to lock the map.                         *)
UpdateSessionWorkspace(c, s) ==
  /\ Call(c, "move", s, "none", "configure")
  /\ UNCHANGED <<sessions, instances, journal, lockVars, bus, prompted,
                 countVars, historyVars>>

(* ensure_process, with which Subscribe and every Rpc begin: a session that *)
(* is not in the map is put there, and nothing is saved.                    *)
EnsureProcess(c, o, s) ==
  /\ lock = NoTask
  /\ Call(c, o, s, "none", "ensured")
  /\ IF sessions[s] = Absent
       THEN /\ sessions' = [sessions EXCEPT ![s] = Inspected(s)]
            /\ unrecorded' = unrecorded \cup {s}
            /\ gone' = gone \ {s}
       ELSE UNCHANGED <<sessions, unrecorded, gone>>
  /\ UNCHANGED <<instances, journal, lockVars, bus, prompted, countVars, firm>>

(***************************************************************************)
(* The steps of a call.                                                    *)
(***************************************************************************)

(* The reply to Subscribe, and to commands that change nothing here.        *)
Reply(t) ==
  /\ job[t].op = "subscribe"
  /\ Goto(t, "ensured", "done")
  /\ EndJob(t)
  /\ UNCHANGED <<storeVars, lockVars, bus, prompted, countVars, historyVars>>

(* send_rpc of a prompt: a session without a name gets one from a message   *)
(* that yields a title.                                                     *)
LookForName(t) ==
  /\ lock = NoTask /\ job[t].op = "prompt"
  /\ \/ /\ NeedsName(Target(t))
        /\ Goto(t, "ensured", "name")
        /\ job' = [job EXCEPT ![t].name = "derived"]
     \/ /\ Goto(t, "ensured", "send")
        /\ UNCHANGED job
  /\ UNCHANGED <<storeVars, lockVars, bus, prompted, countVars, historyVars>>

(* A line of the journal that gives no title.                               *)
Touched(s) == [journal EXCEPT ![s] = IF @ = "none" THEN "untitled" ELSE @]

(* send_rpc of set_thinking_level: a line in the journal, if it can be      *)
(* written.                                                                 *)
SetThinkingLevel(t) ==
  /\ job[t].op = "set_thinking_level"
  /\ Goto(t, "ensured", "done")
  /\ EndJob(t)
  /\ journal' \in {journal, Touched(Target(t))}
  /\ UNCHANGED <<sessions, instances, born, lockVars, bus, prompted, countVars,
                 historyVars>>

(* send_rpc of set_model: the engine's set_model, with a line in the        *)
(* journal.                                                                 *)
SetModel(t) ==
  /\ job[t].op = "set_model"
  /\ Goto(t, "ensured", "configure")
  /\ journal' \in {journal, Touched(Target(t))}
  /\ UNCHANGED <<sessions, instances, born, lockVars, job, bus, prompted,
                 countVars, historyVars>>

(* update_session_workspace and update_session_model: the entry is changed. *)
Configure(t) ==
  /\ lock = NoTask
  /\ Goto(t, "configure", "save")
  /\ sessions' = [sessions EXCEPT ![Target(t)] =
       IF @ = Absent THEN Absent ELSE [@ EXCEPT !.settings = "changed"]]
  /\ UNCHANGED <<instances, journal, born, lockVars, job, bus, prompted,
                 countVars, historyVars>>

(* rename_session: the entry is changed.                                    *)
SetName(t) ==
  LET s == Target(t) IN
  /\ lock = NoTask
  /\ Goto(t, "name", "save")
  /\ sessions' = [sessions EXCEPT ![s] = Renamed(s, job[t].name)]
  /\ firm' = IF job[t].name = "given" /\ sessions[s] # Absent /\ ~Deriving(s)
               THEN firm \cup {s} ELSE firm
  /\ UNCHANGED <<instances, journal, born, lockVars, job, bus, prompted,
                 countVars, unrecorded, gone>>

(* save_records: the lock is taken and the records are collected, awaiting  *)
(* the engine for each of them.                                             *)
CollectRecords(t) ==
  /\ lock = NoTask
  /\ Goto(t, "save", "saving")
  /\ lock' = KeptWhileSaving(t)
  /\ records' = sessions
  /\ UNCHANGED <<storeVars, job, bus, prompted, countVars, historyVars>>

(* The rest of the operation, and what its reply means for a deletion.      *)
FinishSave(t) ==
  /\ Goto(t, "saving", PhaseAfterSave(t))
  /\ job' = [job EXCEPT ![t] =
       CASE @.op = "prompt"    -> @
         [] @.op = "set_model" -> [@ EXCEPT !.op = "set_model_again"]
         [] OTHER              -> NoJob]
  /\ lock' = LockWithout(t)
  /\ records' = NoRecords
  /\ gone' = IF job[t].op = "delete" /\ sessions[Target(t)] = Absent
               THEN gone \cup {Target(t)} ELSE gone
  /\ UNCHANGED <<sessions, journal, born, bus, prompted, titles, restarts, firm>>

(* The file is written aside and renamed.                                   *)
WriteRecords(t) ==
  /\ instances' = records
  /\ unrecorded' = {s \in unrecorded : records[s] # sessions[s]}
  /\ FinishSave(t)
  /\ UNCHANGED failures

(* What goes without a record when t does not save it.                      *)
LeftBy(t) ==
  IF t = Boot THEN {s \in Session : sessions[s] # instances[s]} ELSE {Target(t)}

(* An error of the write is ignored.                                        *)
FailToWrite(t) ==
  /\ failures < MaxFailures
  /\ failures' = failures + 1
  /\ unrecorded' = unrecorded \cup LeftBy(t)
  /\ FinishSave(t)
  /\ UNCHANGED instances

(* event_tx.send; nobody receives it once the listener has returned.        *)
Broadcast(s, n) ==
  bus' = IF pc[Listener] = "dead" THEN bus
         ELSE Append(bus, [session |-> s, name |-> n])

PublishTitle(t) ==
  /\ Goto(t, "publish", "send")
  /\ Broadcast(Target(t), job[t].name)
  /\ UNCHANGED <<storeVars, lockVars, job, prompted, countVars, historyVars>>

(* engine.prompt: a turn is spawned.                                        *)
SendPrompt(t) ==
  /\ Goto(t, "send", "done")
  /\ EndJob(t)
  /\ prompted' = prompted \cup {Target(t)}
  /\ UNCHANGED <<storeVars, lockVars, bus, countVars, historyVars>>

(* The listener receives an event.                                          *)
ReceiveTitle ==
  /\ bus # <<>>
  /\ Goto(Listener, "idle", "name")
  /\ job' = [job EXCEPT ![Listener] = [op |-> "none",
                 session |-> Head(bus).session, name |-> Head(bus).name]]
  /\ bus' = Tail(bus)
  /\ UNCHANGED <<storeVars, lockVars, prompted, countVars, historyVars>>

(***************************************************************************)
(* What turns, clients and the system do at any time.                      *)
(***************************************************************************)

(* A turn writes to the journal, also one that was aborted by a deletion.   *)
WriteJournal(s) ==
  /\ s \in prompted
  /\ \E j \in {"untitled", "titled"} : journal' = [journal EXCEPT ![s] = j]
  /\ journal[s] # "titled"
  /\ UNCHANGED <<sessions, instances, born, lockVars, taskVars, bus, prompted,
                 countVars, historyVars>>

(* summarize_title_llm, after a turn, whatever the session's name is.       *)
GenerateTitle(s) ==
  /\ s \in prompted /\ titles < MaxTitles
  /\ titles' = titles + 1
  /\ Broadcast(s, "generated")
  /\ UNCHANGED <<storeVars, lockVars, taskVars, prompted, failures, restarts,
                 historyVars>>

(* The channel overflows with the events of turns: recv() returns Lagged    *)
(* and `while let Ok` is over.                                              *)
LoseListener ==
  /\ prompted # {}
  /\ Goto(Listener, "idle", "dead")
  /\ bus' = <<>>
  /\ UNCHANGED <<storeVars, lockVars, job, prompted, countVars, historyVars>>

(* The client is gone: requests.abort_all() drops the handler at an await.  *)
HangUp(c) ==
  /\ pc[c] \in Working \ {"publish"}
  /\ pc' = [pc EXCEPT ![c] = "done"]
  /\ EndJob(c)
  /\ lock' = LockWithout(c)
  /\ records' = IF lock = c THEN NoRecords ELSE records
  /\ unrecorded' = IF pc[c] \in {"save", "saving"} THEN unrecorded \cup LeftBy(c)
                   ELSE unrecorded
  /\ UNCHANGED <<storeVars, bus, prompted, countVars, gone, firm>>

(* The daemon dies, or is shut down, and starts again: Supervisor::new.     *)
Restart ==
  /\ restarts < MaxRestarts
  /\ restarts' = restarts + 1
  /\ sessions' = [s \in Session |-> Loaded(s)]
  /\ lock' = NoTask
  /\ records' = NoRecords
  /\ pc' = [t \in Task |->
       IF t = Boot THEN "save"
       ELSE IF t = Listener \/ pc[t] = "idle" THEN "idle" ELSE "done"]
  /\ job' = [t \in Task |-> NoJob]
  /\ bus' = <<>>
  /\ prompted' = {}
  /\ unrecorded' = {}
  /\ gone' = {s \in gone : s \notin unrecorded /\ journal[s] = "none"}
  /\ firm' = {}
  /\ UNCHANGED <<instances, journal, born, titles, failures>>

CallStep(c, s) ==
  \/ CreateSession(c, s) \/ DeleteSession(c, s) \/ RenameSession(c, s)
  \/ UpdateSessionWorkspace(c, s)
  \/ \E o \in RpcCalls : EnsureProcess(c, o, s)

TaskStep(t) ==
  \/ Reply(t) \/ LookForName(t) \/ SetThinkingLevel(t) \/ SetModel(t)
  \/ Configure(t) \/ SetName(t)
  \/ CollectRecords(t) \/ WriteRecords(t) \/ FailToWrite(t)
  \/ PublishTitle(t) \/ SendPrompt(t)
  \/ t = Listener /\ ReceiveTitle

Next ==
  \/ \E c \in Caller : HangUp(c) \/ \E s \in Session : CallStep(c, s)
  \/ \E t \in Task : TaskStep(t)
  \/ \E s \in Session : WriteJournal(s) \/ GenerateTitle(s)
  \/ LoseListener
  \/ Restart

(* The runtime polls every task, and its mutex is served in order.          *)
Fairness == \A t \in Task : WF_vars(TaskStep(t))

Spec == Init /\ [][Next]_vars /\ Fairness

(***************************************************************************)
(* Properties.                                                             *)
(***************************************************************************)

BeingSaved(s) ==
  \E t \in Task : pc[t] \in {"save", "saving"} /\ (Target(t) = s \/ t = Boot)

(* instances.json differs from the map only by a session that a task is     *)
(* about to save, or whose last change nobody saved: however saves overlap, *)
(* a later one never puts back what an earlier one had replaced.            *)
SavedOrBeingSaved ==
  \A s \in Session :
     sessions[s] # instances[s] => s \in unrecorded \/ BeingSaved(s)

(* A session whose deletion was answered is neither listed nor recorded     *)
(* again, whatever renames, titles and saves were under way; it can return  *)
(* only because a client asks for it, because its record could not be       *)
(* removed, or at a start because of its journal.                           *)
DeletedIsGone ==
  \A s \in gone :
     sessions[s] = Absent /\ (instances[s] = Absent \/ s \in unrecorded)

(* A name given while no prompt was making a title is never replaced by     *)
(* the first words of a prompt. (The model's own titles may replace it, and *)
(* so may a prompt that looked at the name before.)                         *)
GivenNameIsKept ==
  \A s \in firm :
     sessions[s] # Absent /\ sessions[s].name \in {"given", "generated"}

(* A crash at any moment loses no session that has been saved: it is back   *)
(* with its settings and, if it had one, its name.                          *)
RestartKeepsSessions ==
  [][restarts' # restarts =>
       \A s \in Session :
          (/\ sessions[s] # Absent /\ ~sessions[s].in_memory
           /\ s \notin unrecorded /\ ~BeingSaved(s)) =>
            /\ sessions'[s] # Absent
            /\ sessions'[s].settings = sessions[s].settings
            /\ sessions[s].name # "none" => sessions'[s].name = sessions[s].name
    ]_vars

(* Every call comes to an end, although all of them wait for one lock and   *)
(* any of them may be dropped while holding it.                             *)
CallsEnd == \A c \in Caller : pc[c] \in Working ~> pc[c] = "done"

(* Titles are taken from the channel one after the other, as long as the    *)
(* listener lives.                                                          *)
TitlesAreTaken == bus # <<>> ~> bus = <<>>

(* "This conversation and its messages are deleted permanently and cannot   *)
(* be recovered" (delete-conversation-dialog.tsx:40, translated): a session *)
(* that is gone, from the file too, is not there after the next start.      *)
DeletionIsPermanent ==
  [][restarts' # restarts =>
       \A s \in gone \ unrecorded : sessions'[s] = Absent]_vars
=============================================================================
