--------------------------- MODULE EngineSession ---------------------------
(***************************************************************************)
(* Concurrent turns of the native engine: EngineSessionManager (prompt,    *)
(* abort, set_model), the life of every spawned AgentLoop::run_turn as far *)
(* as its journal writes, its checks of the cancellation token and its     *)
(* settle events go, and the background reviews it leaves behind.          *)
(*                                                                         *)
(* A prompt draws its turn number outside the lock, then, under the lock,  *)
(* cancels the token of the turn in the map and takes its place. The old   *)
(* turn is cancelled but not joined: it runs on until it next looks at its *)
(* token, so turns of one session overlap and write to one journal.        *)
(*                                                                         *)
(* One turn is one task; its await points are the values of pc[t].  The    *)
(* loop of a single turn (steps, tool budget, retries) is AgentTurn's      *)
(* subject; here a turn makes at most MaxRequests LLM requests.            *)
(***************************************************************************)
EXTENDS Naturals, Sequences, FiniteSets

CONSTANTS
  Session,       (* Session identifiers.                                   *)
  NoSession,     (* Target of a prompt that has not been sent yet.         *)
  MaxTurns,      (* Bound: prompts in one behaviour.                       *)
  MaxBatch,      (* Bound: tool calls in one assistant message.            *)
  MaxRequests,   (* LLM requests of one turn before the final synthesis.   *)
  HistoryTurns,  (* User turns kept by prune_history_messages (code: 5).   *)
  PastJournals,  (* Journals that sessions may have from earlier runs.     *)
  MaxDisturbances (* Bound: crashes of the daemon and set_model calls,     *)
                 (* taken together.                                        *)

ASSUME NoSessionAssumption == NoSession \notin Session

ASSUME BoundsAssumption ==
  /\ MaxTurns \in Nat
  /\ MaxBatch \in Nat
  /\ MaxRequests \in Nat
  /\ HistoryTurns \in Nat \ {0}
  /\ MaxDisturbances \in Nat

Turn == 1..MaxTurns
NoTurn == 0

VARIABLES
  nextTurn,   (* turn_counter.                                             *)
  sessionOf,  (* The session each prompt was sent to.                      *)
  active,     (* active_sessions: the turn_id in each session's entry.     *)
  cancelled,  (* Turns whose CancellationToken is cancelled.               *)
  pc,         (* Where each turn's task stands.                            *)
  owed,       (* Tool calls of the current batch not yet answered.         *)
  requests,   (* LLM requests the turn has made.                           *)
  toolsRun,   (* Tools the turn has started.                               *)
  loaded,     (* Length of the journal when the turn loaded its history.   *)
  journal,    (* <session>.jsonl: the entries in file order.               *)
  settled,    (* turn_end/agent_settled pairs emitted for the turn.        *)
  reviewing,  (* Turns with a background review still running.             *)
  erred,      (* Turns whose run_turn returned Err.                        *)
  killed,     (* Turns that died with the daemon.                          *)
  restarts,   (* Crashes so far.                                           *)
  modelChanges, (* set_model calls so far.                                 *)
  late        (* History variable: entries written by the turn's own task  *)
              (* after its token was cancelled.                            *)

vars == <<nextTurn, sessionOf, active, cancelled, pc, owed, requests, toolsRun,
          loaded, journal, settled, reviewing, erred, killed, restarts,
          modelChanges, late>>

(* "llm": awaiting the model, "exec": awaiting a tool, "synth": awaiting    *)
(* the synthesis; "failed": run_turn returned Err; "cleanup": about to lock *)
(* the map again.                                                           *)
Phases == {"unborn", "allocated", "spawned", "ready", "llm", "tools", "exec",
           "synth", "closing", "failed", "cleanup", "done"}

Running == {"spawned", "ready", "llm", "tools", "exec", "synth", "closing",
            "failed", "cleanup"}

Kinds == {"user", "call", "result", "text", "error", "rejected", "critique",
          "model"}

(* NoTurn is the turn of set_model's lines and of earlier runs' entries.    *)
Entry == [kind : Kinds, turn : Turn \cup {NoTurn}, calls : Nat]

ASSUME PastJournalsAssumption ==
  PastJournals \subseteq Seq([kind : Kinds, turn : {NoTurn}, calls : Nat])

TypeOK ==
  /\ nextTurn \in 1..(MaxTurns + 1)
  /\ sessionOf \in [Turn -> Session \cup {NoSession}]
  /\ active \in [Session -> Turn \cup {NoTurn}]
  /\ cancelled \subseteq Turn
  /\ pc \in [Turn -> Phases]
  /\ owed \in [Turn -> Nat]
  /\ requests \in [Turn -> Nat]
  /\ toolsRun \in [Turn -> Nat]
  /\ loaded \in [Turn -> Nat]
  /\ journal \in [Session -> Seq(Entry)]
  /\ settled \in [Turn -> Nat]
  /\ reviewing \subseteq Turn
  /\ erred \subseteq Turn
  /\ killed \subseteq Turn
  /\ restarts \in Nat
  /\ modelChanges \in Nat
  /\ late \in [Turn -> Nat]

Init ==
  /\ nextTurn = 1
  /\ sessionOf = [t \in Turn |-> NoSession]
  /\ active = [s \in Session |-> NoTurn]
  /\ cancelled = {}
  /\ pc = [t \in Turn |-> "unborn"]
  /\ owed = [t \in Turn |-> 0]
  /\ requests = [t \in Turn |-> 0]
  /\ toolsRun = [t \in Turn |-> 0]
  /\ loaded = [t \in Turn |-> 0]
  /\ journal \in [Session -> PastJournals]
  /\ settled = [t \in Turn |-> 0]
  /\ reviewing = {}
  /\ erred = {}
  /\ killed = {}
  /\ restarts = 0
  /\ modelChanges = 0
  /\ late = [t \in Turn |-> 0]

Goto(t, from, to) ==
  /\ pc[t] = from
  /\ pc' = [pc EXCEPT ![t] = to]

(* append_entry by the turn's own task.                                     *)
Write(t, kind, n) ==
  /\ journal' = [journal EXCEPT ![sessionOf[t]] =
                   Append(@, [kind |-> kind, turn |-> t, calls |-> n])]
  /\ late' = [late EXCEPT ![t] = IF t \in cancelled THEN @ + 1 ELSE @]

NoWrite == UNCHANGED <<journal, late>>

(* `let _ = journal.append...`: an error of the write is ignored.           *)
TryWrite(t, kind, n) == Write(t, kind, n) \/ NoWrite

(***************************************************************************)
(* The decisions of the code, each preceded by the faulty variants that    *)
(* the properties below are validated against.                             *)
(***************************************************************************)

(* Variant: prompt overwrites the entry without cancelling its token.       *)
SupersedesNobody(s) == {}

(* The turn whose token prompt cancels before it takes the entry.           *)
Superseded(s) == {active[s]} \ {NoTurn}

(* Variant: the task removes the entry without comparing turn ids.          *)
EntryCleared(t, e) == NoTurn

(* Variant: a cancelled turn leaves its entry behind.                       *)
EntryKeptOnCancel(t, e) == IF e = t /\ t \notin cancelled THEN NoTurn ELSE e

(* What the end of turn t's task makes of the entry e of its session.       *)
EntryAfter(t, e) == IF e = t THEN NoTurn ELSE e

(* Variant: the token is only looked at by the LLM client.                  *)
NeverStops(t) == TRUE

(* is_cancelled, at the head of the loop and before each tool call.         *)
MayContinue(t) == t \notin cancelled

(* Variant: a step is not counted.                                          *)
RequestsUncounted(t) == requests[t]

RequestsAfter(t) == requests[t] + 1

(* Variant: one call too many is taken from the batch.                      *)
OneMoreCall(t) == owed[t] = 0

(* The result being written is the last of its batch.                       *)
LastOfBatch(t) == owed[t] = 1

(***************************************************************************)
(* EngineSessionManager.                                                   *)
(***************************************************************************)

(* prompt, first half: fetch_add on the counter, outside the lock.          *)
DrawTurnId(t, s) ==
  /\ t = nextTurn
  /\ nextTurn' = nextTurn + 1
  /\ sessionOf' = [sessionOf EXCEPT ![t] = s]
  /\ Goto(t, "unborn", "allocated")
  /\ NoWrite
  /\ UNCHANGED <<active, cancelled, owed, requests, toolsRun, loaded,
                 settled, reviewing, erred, killed, restarts, modelChanges>>

(* prompt, second half, under the lock: cancel the turn in the map, take    *)
(* its place, spawn the task.                                               *)
InstallTurn(t) ==
  /\ Goto(t, "allocated", "spawned")
  /\ cancelled' = cancelled \cup Superseded(sessionOf[t])
  /\ active' = [active EXCEPT ![sessionOf[t]] = t]
  /\ NoWrite
  /\ UNCHANGED <<nextTurn, sessionOf, owed, requests, toolsRun, loaded, settled,
                 reviewing, erred, killed, restarts, modelChanges>>

(* abort: cancel the token; the entry stays until the task removes it.      *)
Abort(s) ==
  /\ active[s] # NoTurn
  /\ cancelled' = cancelled \cup {active[s]}
  /\ NoWrite
  /\ UNCHANGED <<nextTurn, sessionOf, active, pc, owed, requests, toolsRun,
                 loaded, settled, reviewing, erred, killed, restarts,
                 modelChanges>>

(* set_model: a model_change line through a journal handle of its own.      *)
SetModel(s) ==
  /\ restarts + modelChanges < MaxDisturbances
  /\ modelChanges' = modelChanges + 1
  /\ journal' = [journal EXCEPT ![s] =
                   Append(@, [kind |-> "model", turn |-> NoTurn, calls |-> 0])]
  /\ UNCHANGED <<nextTurn, sessionOf, active, cancelled, pc, owed, requests,
                 toolsRun, loaded, settled, reviewing, erred, killed, restarts,
                 late>>

(* The spawned task after run_turn returned Err: the pair of settle events  *)
(* again, whether or not run_turn had already sent it.                      *)
ReportError(t) ==
  /\ Goto(t, "failed", "cleanup")
  /\ settled' = [settled EXCEPT ![t] = @ + 1]
  /\ NoWrite
  /\ UNCHANGED <<nextTurn, sessionOf, active, cancelled, owed, requests,
                 toolsRun, loaded, reviewing, erred, killed, restarts,
                 modelChanges>>

(* The end of the spawned task: remove the entry, if it is still this       *)
(* turn's.                                                                  *)
ReleaseEntry(t) ==
  /\ Goto(t, "cleanup", "done")
  /\ active' = [active EXCEPT ![sessionOf[t]] = EntryAfter(t, @)]
  /\ NoWrite
  /\ UNCHANGED <<nextTurn, sessionOf, cancelled, owed, requests, toolsRun,
                 loaded, settled, reviewing, erred, killed, restarts,
                 modelChanges>>

(***************************************************************************)
(* AgentLoop::run_turn.                                                    *)
(***************************************************************************)

(* The model cannot be resolved, or the user message cannot be appended.    *)
FailToBegin(t) ==
  /\ Goto(t, "spawned", "failed")
  /\ erred' = erred \cup {t}
  /\ NoWrite
  /\ UNCHANGED <<nextTurn, sessionOf, active, cancelled, owed, requests,
                 toolsRun, loaded, settled, reviewing, killed, restarts,
                 modelChanges>>

(* Load the history, then append the user message.                          *)
Begin(t) ==
  /\ Goto(t, "spawned", "ready")
  /\ loaded' = [loaded EXCEPT ![t] = Len(journal[sessionOf[t]])]
  /\ Write(t, "user", 0)
  /\ UNCHANGED <<nextTurn, sessionOf, active, cancelled, owed, requests,
                 toolsRun, settled, reviewing, erred, killed, restarts,
                 modelChanges>>

(* Head of the loop, token cancelled: leave the loop; no synthesis.         *)
StopCancelled(t) ==
  /\ Goto(t, "ready", "closing")
  /\ t \in cancelled
  /\ NoWrite
  /\ UNCHANGED <<nextTurn, sessionOf, active, cancelled, owed, requests,
                 toolsRun, loaded, settled, reviewing, erred, killed, restarts,
                 modelChanges>>

(* Head of the loop: send the context to the model, or, out of steps or     *)
(* budget, ask for the final synthesis with tools disabled.                 *)
RequestModel(t) ==
  /\ MayContinue(t)
  /\ Goto(t, "ready", IF requests[t] < MaxRequests THEN "llm" ELSE "synth")
  /\ requests' = [requests EXCEPT ![t] = RequestsAfter(t)]
  /\ NoWrite
  /\ UNCHANGED <<nextTurn, sessionOf, active, cancelled, owed, toolsRun, loaded,
                 settled, reviewing, erred, killed, restarts, modelChanges>>

(* The request failed or was cancelled: error entry, settle, return Err.    *)
ModelFails(t) ==
  /\ Goto(t, "llm", "failed")
  /\ TryWrite(t, "error", 0)
  /\ settled' = [settled EXCEPT ![t] = @ + 1]
  /\ erred' = erred \cup {t}
  /\ UNCHANGED <<nextTurn, sessionOf, active, cancelled, owed, requests,
                 toolsRun, loaded, reviewing, killed, restarts, modelChanges>>

(* An assistant message with n tool calls.                                  *)
ModelCallsTools(t, n) ==
  /\ Goto(t, "llm", "tools")
  /\ Write(t, "call", n)
  /\ owed' = [owed EXCEPT ![t] = n]
  /\ UNCHANGED <<nextTurn, sessionOf, active, cancelled, requests, toolsRun,
                 loaded, settled, reviewing, erred, killed, restarts,
                 modelChanges>>

(* Neither text nor tool calls: ask again.                                  *)
ModelIsEmpty(t) ==
  /\ Goto(t, "llm", "ready")
  /\ NoWrite
  /\ UNCHANGED <<nextTurn, sessionOf, active, cancelled, owed, requests,
                 toolsRun, loaded, settled, reviewing, erred, killed, restarts,
                 modelChanges>>

(* The blocking review rejects the answer: it is journaled as rejected and  *)
(* the loop goes on.                                                        *)
ReviewRejects(t) ==
  /\ Goto(t, "llm", "ready")
  /\ TryWrite(t, "rejected", 0)
  /\ UNCHANGED <<nextTurn, sessionOf, active, cancelled, owed, requests,
                 toolsRun, loaded, settled, reviewing, erred, killed, restarts,
                 modelChanges>>

(* The final answer, with or without a review left running behind it, or    *)
(* the error text that ends a turn after too many empty completions.        *)
ModelAnswers(t) ==
  /\ Goto(t, "llm", "closing")
  /\ \/ Write(t, "text", 0) /\ reviewing' \in {reviewing, reviewing \cup {t}}
     \/ Write(t, "error", 0) /\ UNCHANGED reviewing
  /\ UNCHANGED <<nextTurn, sessionOf, active, cancelled, owed, requests,
                 toolsRun, loaded, settled, erred, killed, restarts,
                 modelChanges>>

(* The synthesis, or the text that stands in for it when the call fails.    *)
Synthesise(t) ==
  /\ Goto(t, "synth", "closing")
  /\ TryWrite(t, "text", 0)
  /\ UNCHANGED <<nextTurn, sessionOf, active, cancelled, owed, requests,
                 toolsRun, loaded, settled, reviewing, erred, killed, restarts,
                 modelChanges>>

(* The loop over the batch: the token is looked at before each call.        *)
StartTool(t) ==
  /\ MayContinue(t)
  /\ Goto(t, "tools", "exec")
  /\ toolsRun' = [toolsRun EXCEPT ![t] = @ + 1]
  /\ NoWrite
  /\ UNCHANGED <<nextTurn, sessionOf, active, cancelled, owed, requests, loaded,
                 settled, reviewing, erred, killed, restarts, modelChanges>>

(* Cancelled inside a batch: the calls that are left get no result.         *)
AbandonBatch(t) ==
  /\ t \in cancelled
  /\ Goto(t, "tools", "ready")
  /\ owed' = [owed EXCEPT ![t] = 0]
  /\ NoWrite
  /\ UNCHANGED <<nextTurn, sessionOf, active, cancelled, requests, toolsRun,
                 loaded, settled, reviewing, erred, killed, restarts,
                 modelChanges>>

(* The tool is not interrupted by the token; its result is always written.  *)
ToolReturns(t) ==
  /\ Goto(t, "exec", IF LastOfBatch(t) THEN "ready" ELSE "tools")
  /\ owed' = [owed EXCEPT ![t] = @ - 1]
  /\ Write(t, "result", 0)
  /\ UNCHANGED <<nextTurn, sessionOf, active, cancelled, requests, toolsRun,
                 loaded, settled, reviewing, erred, killed, restarts,
                 modelChanges>>

(* A journal write that is propagated with `?` fails: tool calls, answer,   *)
(* or tool result.                                                          *)
JournalFails(t) ==
  /\ \/ Goto(t, "llm", "failed")
     \/ Goto(t, "exec", "failed")
  /\ erred' = erred \cup {t}
  /\ NoWrite
  /\ UNCHANGED <<nextTurn, sessionOf, active, cancelled, owed, requests,
                 toolsRun, loaded, settled, reviewing, killed, restarts,
                 modelChanges>>

(* turn_end and agent_settled of a turn that returns Ok.                    *)
Settle(t) ==
  /\ Goto(t, "closing", "cleanup")
  /\ settled' = [settled EXCEPT ![t] = @ + 1]
  /\ NoWrite
  /\ UNCHANGED <<nextTurn, sessionOf, active, cancelled, owed, requests,
                 toolsRun, loaded, reviewing, erred, killed, restarts,
                 modelChanges>>

(* The background review ends; a rejection is written through a journal     *)
(* handle of its own, whatever the session is doing by then.                *)
ReviewEnds(t) ==
  /\ t \in reviewing
  /\ reviewing' = reviewing \ {t}
  /\ \/ UNCHANGED journal
     \/ journal' = [journal EXCEPT ![sessionOf[t]] =
                      Append(@, [kind |-> "critique", turn |-> t, calls |-> 0])]
  /\ UNCHANGED <<nextTurn, sessionOf, active, cancelled, pc, owed, requests,
                 toolsRun, loaded, settled, erred, killed, restarts,
                 modelChanges, late>>

(* The daemon dies and starts again: tasks and map are gone, files stay.    *)
(* (The counter restarts at 1; here ids stay distinct, which only names     *)
(* the dead turns' journal entries apart.)                                  *)
Restart ==
  /\ restarts + modelChanges < MaxDisturbances
  /\ \E t \in Turn : pc[t] \in Running
  /\ restarts' = restarts + 1
  /\ killed' = killed \cup {t \in Turn : pc[t] \in Running \cup {"allocated"}}
  /\ pc' = [t \in Turn |-> IF pc[t] \in Running \cup {"allocated"}
                             THEN "done" ELSE pc[t]]
  /\ active' = [s \in Session |-> NoTurn]
  /\ reviewing' = {}
  /\ NoWrite
  /\ UNCHANGED <<nextTurn, sessionOf, cancelled, owed, requests, toolsRun,
                 loaded, settled, erred, modelChanges>>

(* Variant: prune counts messages, not user turns.                          *)
StartByMessages(msgs) == IF Len(msgs) > HistoryTurns THEN Len(msgs) - HistoryTurns
                         ELSE 1

(* prune_history_messages: the index of the HistoryTurns-th last user       *)
(* message, or the start. (Shortening and dropping by size also work on     *)
(* whole turns and leave the structure alone.)                              *)
HistoryStart(msgs) ==
  LET users == {i \in 1..Len(msgs) : msgs[i].kind = "user"}
  IN  IF Cardinality(users) <= HistoryTurns THEN 1
      ELSE CHOOSE i \in users : Cardinality({j \in users : j >= i}) = HistoryTurns

(* load_history_messages: what else a journal holds is skipped.             *)
Messages(lines) ==
  LET upto[i \in 0..Len(lines)] ==
        IF i = 0 THEN <<>>
        ELSE IF lines[i].kind = "model" THEN upto[i - 1]
        ELSE Append(upto[i - 1], lines[i])
  IN  upto[Len(lines)]

(* The history with which turn t began: the messages of the journal as it   *)
(* was then, pruned.                                                        *)
History(t) ==
  LET msgs == Messages(SubSeq(journal[sessionOf[t]], 1, loaded[t]))
  IN  SubSeq(msgs, HistoryStart(msgs), Len(msgs))

TurnStep(t) ==
  \/ InstallTurn(t)
  \/ Begin(t) \/ FailToBegin(t)
  \/ StopCancelled(t) \/ RequestModel(t)
  \/ ModelFails(t) \/ ModelIsEmpty(t) \/ ReviewRejects(t) \/ ModelAnswers(t)
  \/ \E n \in 1..MaxBatch : ModelCallsTools(t, n)
  \/ StartTool(t) \/ AbandonBatch(t) \/ ToolReturns(t)
  \/ Synthesise(t) \/ JournalFails(t)
  \/ Settle(t) \/ ReportError(t) \/ ReleaseEntry(t)

Next ==
  \/ \E t \in Turn, s \in Session : DrawTurnId(t, s)
  \/ \E t \in Turn : TurnStep(t) \/ ReviewEnds(t)
  \/ \E s \in Session : Abort(s) \/ SetModel(s)
  \/ Restart

(* The runtime keeps polling every task; an LLM request ends by its 300 s   *)
(* client timeout, a tool by its own timeout. Nothing is assumed of users,  *)
(* reviews or crashes.                                                      *)
Fairness == \A t \in Turn : WF_vars(TurnStep(t))

Spec == Init /\ [][Next]_vars /\ Fairness

(***************************************************************************)
(* Properties.                                                             *)
(***************************************************************************)

(* A turn that runs and is not cancelled is the one in its session's entry: *)
(* abort and the next prompt can still reach it. This is what the turn_id   *)
(* comparison at the end of the spawned task is for: a superseded turn that *)
(* removed the entry unconditionally would leave its successor running      *)
(* where nothing can cancel it.                                             *)
LiveTurnIsReachable ==
  \A t \in Turn : pc[t] \in Running /\ t \notin cancelled =>
                    active[sessionOf[t]] = t

(* An entry always belongs to a turn of that session whose task has yet to  *)
(* finish, so is_running can become false again.                            *)
EntryHasRunningTurn ==
  \A s \in Session : active[s] # NoTurn =>
                       pc[active[s]] \in Running /\ sessionOf[active[s]] = s

(* When is_running says no, every turn of the session that was neither      *)
(* cancelled nor killed has sent its settle events. The task runner takes   *)
(* "not running" for "the step is over" on the strength of this.            *)
IdleMeansSettled ==
  \A t \in Turn :
     /\ pc[t] \notin {"unborn", "allocated"}
     /\ t \notin cancelled \cup killed
     /\ active[sessionOf[t]] = NoTurn
     => settled[t] > 0

(* A turn's own task writes at most one journal entry after its token was   *)
(* cancelled (its user message, one tool result, or what the model had      *)
(* already sent), so a superseded turn disturbs its successor's journal by  *)
(* one line at most.                                                        *)
CancelledTurnWritesOnce == \A t \in Turn : late[t] <= 1

(* Two turns whose journal entries interleave are never both wanted: one of *)
(* them was cancelled, or died with the daemon. Late critiques of a         *)
(* background review are not part of the turn.                              *)
EntriesOf(s, t) ==
  {i \in 1..Len(journal[s]) :
     journal[s][i].turn = t /\ journal[s][i].kind # "critique"}

InterleavedTurnsWereCancelled ==
  \A s \in Session : \A t, u \in Turn \ (cancelled \cup killed) :
     t # u =>
       ~ \E i, k \in EntriesOf(s, t), j \in EntriesOf(s, u) : i < j /\ j < k

(* Every assistant message with n tool calls is followed by exactly their n *)
(* results, and a result stands nowhere else: what a chat completion API    *)
(* accepts.                                                                 *)
WellFormed(msgs) ==
  LET answers(i) == (i + 1)..(i + msgs[i].calls)
      callAt == {i \in 1..Len(msgs) : msgs[i].kind = "call"}
  IN  /\ \A i \in callAt : \A j \in answers(i) :
            j <= Len(msgs) /\ msgs[j].kind = "result"
      /\ \A j \in 1..Len(msgs) :
            msgs[j].kind = "result" => \E i \in callAt : j \in answers(i)

Requesting(t) == pc[t] \in {"llm", "synth"}

(* As long as no turn in the loaded history was cancelled, failed or died,  *)
(* and no late critique landed in it, the history a turn sends to the model *)
(* is well formed, however it was pruned.                                   *)
UndisturbedHistoryIsWellFormed ==
  \A t \in Turn :
     LET h == History(t)
     IN  /\ Requesting(t)
         /\ \A i \in 1..Len(h) :
              h[i].turn \notin cancelled \cup erred \cup killed
                /\ h[i].kind # "critique"
         => WellFormed(h)

(* Every history sent to the model is well formed. The comments at          *)
(* agent_loop.rs:591 and turn_guard.rs:16 say what happens otherwise: the   *)
(* provider answers 400.                                                    *)
HistoryIsWellFormed ==
  \A t \in Turn : Requesting(t) => WellFormed(History(t))

(* Every prompt that got into the map comes to an end and its entry is out  *)
(* of the map by then, removed by its task, replaced by a later prompt's or *)
(* lost with the daemon: no session answers "running" for good.             *)
EntriesAreGivenBack ==
  \A t \in Turn :
     pc[t] = "spawned" ~> pc[t] = "done" /\ \A s \in Session : active[s] # t

(* The manager implements the one-slot specification: the slot of a session *)
(* is held by the turn in the map as long as its token is not cancelled.    *)
Holder(s) == IF active[s] \in cancelled THEN NoTurn ELSE active[s]

Slot == INSTANCE TurnSlot WITH
          owner <- [s \in Session |-> Holder(s)],
          spent <- {t \in Turn : pc[t] \in Running \cup {"done"}
                                  /\ \A s \in Session : Holder(s) # t},
          work <- [t \in Turn |-> requests[t] + toolsRun[t]]

SlotSpec == Slot!Spec
=============================================================================
