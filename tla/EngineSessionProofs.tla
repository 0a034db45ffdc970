------------------------ MODULE EngineSessionProofs ------------------------
(***************************************************************************)
(* Theorems about EngineSession, for any number of sessions, turns, tool   *)
(* calls, requests, restarts and model changes.                            *)
(***************************************************************************)
EXTENDS EngineSession, SequenceTheorems, WellFoundedInduction, FiniteSetTheorems, TLAPS

(***************************************************************************)
(* Types. TypeOK is not inductive alone: owed is counted down, and the     *)
(* session of a turn indexes the map and the journals.                     *)
(***************************************************************************)
Addressed ==
  \A t \in Turn : pc[t] # "unborn" \/ t \in reviewing => sessionOf[t] \in Session

BatchIsOwed == \A t \in Turn : pc[t] \in {"tools", "exec"} => owed[t] > 0

TypeInv == TypeOK /\ Addressed /\ BatchIsOwed

(* A line appended to a journal leaves the journals well typed.             *)
LEMMA AppendType ==
  ASSUME TypeOK, NEW s \in Session, NEW e \in Entry
  PROVE  [journal EXCEPT ![s] = Append(@, e)] \in [Session -> Seq(Entry)]
<1>1. journal[s] \in Seq(Entry)
  BY DEF TypeOK
<1>2. Append(journal[s], e) \in Seq(Entry)
  BY <1>1
<1>3. QED
  BY <1>2 DEF TypeOK

(* So does a write by a turn's own task.                                    *)
LEMMA WriteType ==
  ASSUME TypeOK, NEW t \in Turn, sessionOf[t] \in Session,
         NEW kind \in Kinds, NEW n \in Nat, Write(t, kind, n)
  PROVE  /\ journal' \in [Session -> Seq(Entry)]
         /\ late' \in [Turn -> Nat]
<1>1. [kind |-> kind, turn |-> t, calls |-> n] \in Entry
  BY DEF Entry
<1>2. journal' \in [Session -> Seq(Entry)]
  BY <1>1, AppendType DEF Write
<1>3. late' \in [Turn -> Nat]
  BY DEF Write, TypeOK
<1>4. QED
  BY <1>2, <1>3

LEMMA TryWriteType ==
  ASSUME TypeOK, NEW t \in Turn, sessionOf[t] \in Session,
         NEW kind \in Kinds, NEW n \in Nat, TryWrite(t, kind, n)
  PROVE  /\ journal' \in [Session -> Seq(Entry)]
         /\ late' \in [Turn -> Nat]
  BY WriteType DEF TryWrite, NoWrite, TypeOK

LEMMA TypeInit == Init => TypeInv
<1> SUFFICES ASSUME Init PROVE TypeInv
  OBVIOUS
<1>1. PastJournals \subseteq Seq(Entry)
  <2>1. [kind : Kinds, turn : {NoTurn}, calls : Nat] \subseteq Entry
    BY DEF Entry
  <2>2. ASSUME NEW q \in Seq([kind : Kinds, turn : {NoTurn}, calls : Nat])
        PROVE  q \in Seq(Entry)
    BY <2>1, SeqMonotonic
  <2>3. QED
    BY <2>2, PastJournalsAssumption
<1>2. journal \in [Session -> Seq(Entry)]
  BY <1>1 DEF Init
<1>3. TypeOK
  BY <1>2, BoundsAssumption DEF Init, TypeOK, Phases, Turn, NoTurn
<1>4. Addressed /\ BatchIsOwed
  BY DEF Init, Addressed, BatchIsOwed
<1>5. QED
  BY <1>3, <1>4 DEF TypeInv

LEMMA TypeStep == TypeInv /\ [Next]_vars => TypeInv'
<1> SUFFICES ASSUME TypeInv, [Next]_vars PROVE TypeInv'
  OBVIOUS
<1> USE DEF TypeInv, Addressed, BatchIsOwed
<1>1. ASSUME NEW t \in Turn, NEW s \in Session, DrawTurnId(t, s) PROVE TypeInv'
  <2>1. nextTurn' \in 1..(MaxTurns + 1)
    BY <1>1, BoundsAssumption DEF DrawTurnId, TypeOK, Turn
  <2>2. QED
    BY <1>1, <2>1 DEF DrawTurnId, TypeOK, Goto, NoWrite, Phases
<1>2. ASSUME NEW t \in Turn, InstallTurn(t) PROVE TypeInv'
  <2>1. cancelled' \subseteq Turn /\ active' \in [Session -> Turn \cup {NoTurn}]
    BY <1>2 DEF InstallTurn, Superseded, TypeOK, Goto
  <2>2. QED
    BY <1>2, <2>1 DEF InstallTurn, TypeOK, Goto, NoWrite, Phases
<1>3. ASSUME NEW t \in Turn, FailToBegin(t) PROVE TypeInv'
  <2>1. pc' \in [Turn -> Phases] /\ Addressed' /\ BatchIsOwed'
    BY <1>3 DEF FailToBegin, TypeOK, Goto, Phases
  <2>2. erred' \subseteq Turn
    BY <1>3 DEF FailToBegin, TypeOK
  <2>3. QED
    BY <1>3, <2>1, <2>2 DEF FailToBegin, TypeOK, NoWrite
<1>4. ASSUME NEW t \in Turn, Begin(t) PROVE TypeInv'
  <2>1. sessionOf[t] \in Session
    BY <1>4 DEF Begin, Goto
  <2>2. journal' \in [Session -> Seq(Entry)] /\ late' \in [Turn -> Nat]
    BY <1>4, <2>1, WriteType DEF Begin, Kinds
  <2>3. loaded' \in [Turn -> Nat]
    BY <1>4, <2>1, LenProperties DEF Begin, TypeOK
  <2>4. QED
    BY <1>4, <2>2, <2>3 DEF Begin, TypeOK, Goto, Phases
<1>5. ASSUME NEW t \in Turn, StopCancelled(t) PROVE TypeInv'
  <2>1. pc' \in [Turn -> Phases] /\ Addressed' /\ BatchIsOwed'
    BY <1>5 DEF StopCancelled, TypeOK, Goto, Phases
  <2>2. QED
    BY <1>5, <2>1 DEF StopCancelled, TypeOK, NoWrite
<1>6. ASSUME NEW t \in Turn, RequestModel(t) PROVE TypeInv'
  <2>1. requests' \in [Turn -> Nat]
    BY <1>6 DEF RequestModel, RequestsAfter, TypeOK
  <2>2. QED
    BY <1>6, <2>1 DEF RequestModel, TypeOK, Goto, NoWrite, Phases
<1>7. ASSUME NEW t \in Turn, ModelFails(t) PROVE TypeInv'
  <2>1. journal' \in [Session -> Seq(Entry)] /\ late' \in [Turn -> Nat]
    BY <1>7, TryWriteType DEF ModelFails, Goto, Kinds
  <2>2. settled' \in [Turn -> Nat] /\ erred' \subseteq Turn
    BY <1>7 DEF ModelFails, TypeOK
  <2>3. pc' \in [Turn -> Phases] /\ Addressed' /\ BatchIsOwed'
    BY <1>7 DEF ModelFails, TypeOK, Goto, Phases
  <2>4. QED
    BY <1>7, <2>1, <2>2, <2>3 DEF ModelFails, TypeOK
<1>8. ASSUME NEW t \in Turn, ModelIsEmpty(t) PROVE TypeInv'
  <2>1. pc' \in [Turn -> Phases] /\ Addressed' /\ BatchIsOwed'
    BY <1>8 DEF ModelIsEmpty, TypeOK, Goto, Phases
  <2>2. QED
    BY <1>8, <2>1 DEF ModelIsEmpty, TypeOK, NoWrite
<1>9. ASSUME NEW t \in Turn, ReviewRejects(t) PROVE TypeInv'
  <2>1. journal' \in [Session -> Seq(Entry)] /\ late' \in [Turn -> Nat]
    BY <1>9, TryWriteType DEF ReviewRejects, Goto, Kinds
  <2>2. QED
    BY <1>9, <2>1 DEF ReviewRejects, TypeOK, Goto, Phases
<1>10. ASSUME NEW t \in Turn, ModelAnswers(t) PROVE TypeInv'
  <2>1. journal' \in [Session -> Seq(Entry)] /\ late' \in [Turn -> Nat]
    <3>1. sessionOf[t] \in Session
      BY <1>10 DEF ModelAnswers, Goto
    <3>2. Write(t, "text", 0) \/ Write(t, "error", 0)
      BY <1>10 DEF ModelAnswers
    <3>3. QED
      BY <3>1, <3>2, WriteType DEF Kinds
  <2>2. reviewing' \subseteq Turn
    BY <1>10 DEF ModelAnswers, TypeOK
  <2>3. QED
    BY <1>10, <2>1, <2>2 DEF ModelAnswers, TypeOK, Goto, Phases
<1>11. ASSUME NEW t \in Turn, NEW n \in 1..MaxBatch, ModelCallsTools(t, n)
       PROVE  TypeInv'
  <2>1. n \in Nat /\ n > 0
    BY BoundsAssumption
  <2>2. journal' \in [Session -> Seq(Entry)] /\ late' \in [Turn -> Nat]
    BY <1>11, <2>1, WriteType DEF ModelCallsTools, Goto, Kinds
  <2>3. QED
    BY <1>11, <2>1, <2>2 DEF ModelCallsTools, TypeOK, Goto, Phases
<1>12. ASSUME NEW t \in Turn, StartTool(t) PROVE TypeInv'
  <2>1. pc' \in [Turn -> Phases] /\ Addressed' /\ BatchIsOwed'
    BY <1>12 DEF StartTool, TypeOK, Goto, Phases
  <2>2. toolsRun' \in [Turn -> Nat]
    BY <1>12 DEF StartTool, TypeOK
  <2>3. QED
    BY <1>12, <2>1, <2>2 DEF StartTool, TypeOK, NoWrite
<1>13. ASSUME NEW t \in Turn, AbandonBatch(t) PROVE TypeInv'
  <2>1. pc' \in [Turn -> Phases] /\ Addressed' /\ BatchIsOwed'
    BY <1>13 DEF AbandonBatch, TypeOK, Goto, Phases
  <2>2. owed' \in [Turn -> Nat]
    BY <1>13 DEF AbandonBatch, TypeOK
  <2>3. QED
    BY <1>13, <2>1, <2>2 DEF AbandonBatch, TypeOK, NoWrite
<1>14. ASSUME NEW t \in Turn, ToolReturns(t) PROVE TypeInv'
  <2>1. journal' \in [Session -> Seq(Entry)] /\ late' \in [Turn -> Nat]
    BY <1>14, WriteType DEF ToolReturns, Goto, Kinds
  <2>2. owed[t] \in Nat \ {0}
    BY <1>14 DEF ToolReturns, Goto, TypeOK
  <2>3. owed' \in [Turn -> Nat] /\ BatchIsOwed'
    <3>1. owed' \in [Turn -> Nat]
      BY <1>14, <2>2 DEF ToolReturns, TypeOK
    <3>2. /\ owed'[t] = owed[t] - 1 /\ \A u \in Turn \ {t} : owed'[u] = owed[u]
          /\ pc'[t] = IF owed[t] = 1 THEN "ready" ELSE "tools"
          /\ \A u \in Turn \ {t} : pc'[u] = pc[u]
      BY <1>14 DEF ToolReturns, LastOfBatch, TypeOK, Goto
    <3>3. QED
      BY <2>2, <3>1, <3>2
  <2>4. pc' \in [Turn -> Phases] /\ Addressed'
    BY <1>14 DEF ToolReturns, TypeOK, Goto, Phases
  <2>5. QED
    BY <1>14, <2>1, <2>3, <2>4 DEF ToolReturns, TypeOK
<1>15. ASSUME NEW t \in Turn, Synthesise(t) PROVE TypeInv'
  <2>1. journal' \in [Session -> Seq(Entry)] /\ late' \in [Turn -> Nat]
    BY <1>15, TryWriteType DEF Synthesise, Goto, Kinds
  <2>2. QED
    BY <1>15, <2>1 DEF Synthesise, TypeOK, Goto, Phases
<1>16. ASSUME NEW t \in Turn, JournalFails(t) PROVE TypeInv'
  <2>1. pc' \in [Turn -> Phases] /\ Addressed' /\ BatchIsOwed'
    BY <1>16 DEF JournalFails, TypeOK, Goto, Phases
  <2>2. erred' \subseteq Turn
    BY <1>16 DEF JournalFails, TypeOK
  <2>3. QED
    BY <1>16, <2>1, <2>2 DEF JournalFails, TypeOK, NoWrite
<1>17. ASSUME NEW t \in Turn, Settle(t) PROVE TypeInv'
  <2>1. pc' \in [Turn -> Phases] /\ Addressed' /\ BatchIsOwed'
    BY <1>17 DEF Settle, TypeOK, Goto, Phases
  <2>2. settled' \in [Turn -> Nat]
    BY <1>17 DEF Settle, TypeOK
  <2>3. QED
    BY <1>17, <2>1, <2>2 DEF Settle, TypeOK, NoWrite
<1>18. ASSUME NEW t \in Turn, ReportError(t) PROVE TypeInv'
  <2>1. pc' \in [Turn -> Phases] /\ Addressed' /\ BatchIsOwed'
    BY <1>18 DEF ReportError, TypeOK, Goto, Phases
  <2>2. settled' \in [Turn -> Nat]
    BY <1>18 DEF ReportError, TypeOK
  <2>3. QED
    BY <1>18, <2>1, <2>2 DEF ReportError, TypeOK, NoWrite
<1>19. ASSUME NEW t \in Turn, ReleaseEntry(t) PROVE TypeInv'
  <2>1. active' \in [Session -> Turn \cup {NoTurn}]
    BY <1>19 DEF ReleaseEntry, EntryAfter, Goto, TypeOK
  <2>2. pc' \in [Turn -> Phases] /\ Addressed' /\ BatchIsOwed'
    BY <1>19 DEF ReleaseEntry, TypeOK, Goto, Phases
  <2>3. QED
    BY <1>19, <2>1, <2>2 DEF ReleaseEntry, TypeOK, NoWrite
<1>20. ASSUME NEW t \in Turn, ReviewEnds(t) PROVE TypeInv'
  <2>1. [kind |-> "critique", turn |-> t, calls |-> 0] \in Entry
    BY DEF Entry, Kinds
  <2>2. sessionOf[t] \in Session
    BY <1>20 DEF ReviewEnds
  <2>3. journal' \in [Session -> Seq(Entry)]
    <3>1. CASE UNCHANGED journal
      BY <3>1 DEF TypeOK
    <3>2. CASE journal' = [journal EXCEPT ![sessionOf[t]] =
                 Append(@, [kind |-> "critique", turn |-> t, calls |-> 0])]
      BY <3>2, <2>1, <2>2, AppendType
    <3>3. QED
      BY <1>20, <3>1, <3>2 DEF ReviewEnds
  <2>4. QED
    BY <1>20, <2>3 DEF ReviewEnds, TypeOK
<1>21. ASSUME NEW s \in Session, Abort(s) PROVE TypeInv'
  BY <1>21 DEF Abort, TypeOK, NoWrite
<1>22. ASSUME NEW s \in Session, SetModel(s) PROVE TypeInv'
  <2>1. [kind |-> "model", turn |-> NoTurn, calls |-> 0] \in Entry
    BY DEF Entry, Kinds
  <2>2. journal' \in [Session -> Seq(Entry)]
    BY <1>22, <2>1, AppendType DEF SetModel
  <2>3. QED
    BY <1>22, <2>2 DEF SetModel, TypeOK
<1>23. ASSUME Restart PROVE TypeInv'
  <2>1. pc' \in [Turn -> Phases]
    BY <1>23 DEF Restart, TypeOK, Phases
  <2>2. Addressed' /\ BatchIsOwed'
    <3>1. \A t \in Turn :
             pc'[t] = IF pc[t] \in Running \cup {"allocated"} THEN "done" ELSE pc[t]
      BY <1>23 DEF Restart
    <3>2. sessionOf' = sessionOf /\ owed' = owed /\ reviewing' = {}
      BY <1>23 DEF Restart
    <3>3. QED
      BY <3>1, <3>2 DEF Running
  <2>3. active' \in [Session -> Turn \cup {NoTurn}] /\ killed' \subseteq Turn
    BY <1>23 DEF Restart, TypeOK
  <2>4. QED
    BY <1>23, <2>1, <2>2, <2>3 DEF Restart, TypeOK, NoWrite
<1>24. ASSUME UNCHANGED vars PROVE TypeInv'
  BY <1>24 DEF TypeOK, vars
<1>25. QED
  BY <1>1, <1>2, <1>3, <1>4, <1>5, <1>6, <1>7, <1>8, <1>9, <1>10, <1>11, <1>12,
     <1>13, <1>14, <1>15, <1>16, <1>17, <1>18, <1>19, <1>20, <1>21, <1>22,
     <1>23, <1>24 DEF Next, TurnStep

(* Every variable keeps its type.                                           *)
THEOREM TypeCorrect == Spec => []TypeOK
<1>1. TypeInv => TypeOK
  BY DEF TypeInv
<1>2. QED
  BY TypeInit, TypeStep, <1>1, PTL DEF Spec

(***************************************************************************)
(* What all steps of a running task have in common. A task writes a line   *)
(* only on its way out of a phase in Writing, and enters such a phase      *)
(* again only if its token is not cancelled.                               *)
(***************************************************************************)
Writing == {"spawned", "llm", "exec", "synth"}

Writes(t) == \E kind \in Kinds \ {"critique"}, n \in Nat : Write(t, kind, n)

StartsWork(t) ==
  \/ requests' = [requests EXCEPT ![t] = @ + 1] /\ UNCHANGED toolsRun
  \/ toolsRun' = [toolsRun EXCEPT ![t] = @ + 1] /\ UNCHANGED requests

Proceed(t) ==
  /\ pc[t] \in Running \ {"cleanup"}
  /\ pc'[t] \in Running \ {"spawned"}
  /\ pc' = [pc EXCEPT ![t] = pc'[t]]
  /\ \/ NoWrite /\ (pc'[t] \in Writing => t \notin cancelled)
     \/ Writes(t) /\ pc[t] \in Writing /\ pc'[t] \notin Writing
  /\ pc'[t] = "cleanup" => settled'[t] > 0
  /\ settled' = settled \/ settled' = [settled EXCEPT ![t] = @ + 1]
  /\ \/ UNCHANGED <<requests, toolsRun>>
     \/ t \notin cancelled /\ StartsWork(t)
  /\ UNCHANGED <<sessionOf, active, cancelled, killed>>

LEMMA RunningSteps ==
  ASSUME TypeInv, NEW t \in Turn, TurnStep(t)
  PROVE  InstallTurn(t) \/ Proceed(t) \/ ReleaseEntry(t)
<1> USE DEF TypeInv, TypeOK, Goto, Running, Writing
<1>1. ASSUME Begin(t) PROVE Proceed(t)
  <2>1. Writes(t)
    BY <1>1 DEF Begin, Writes, Kinds
  <2>2. QED
    BY <1>1, <2>1 DEF Begin, Proceed
<1>2. ASSUME ModelFails(t) PROVE Proceed(t)
  <2>1. Writes(t) \/ NoWrite
    BY <1>2 DEF ModelFails, TryWrite, Writes, Kinds
  <2>2. QED
    BY <1>2, <2>1 DEF ModelFails, Proceed
<1>3. ASSUME ReviewRejects(t) PROVE Proceed(t)
  <2>1. Writes(t) \/ NoWrite
    BY <1>3 DEF ReviewRejects, TryWrite, Writes, Kinds
  <2>2. QED
    BY <1>3, <2>1 DEF ReviewRejects, Proceed
<1>4. ASSUME Synthesise(t) PROVE Proceed(t)
  <2>1. Writes(t) \/ NoWrite
    BY <1>4 DEF Synthesise, TryWrite, Writes, Kinds
  <2>2. QED
    BY <1>4, <2>1 DEF Synthesise, Proceed
<1>5. ASSUME ToolReturns(t) PROVE Proceed(t)
  <2>1. Writes(t)
    BY <1>5 DEF ToolReturns, Writes, Kinds
  <2>2. QED
    BY <1>5, <2>1 DEF ToolReturns, Proceed
<1>6. ASSUME ModelAnswers(t) PROVE Proceed(t)
  <2>1. Writes(t)
    BY <1>6 DEF ModelAnswers, Writes, Kinds
  <2>2. QED
    BY <1>6, <2>1 DEF ModelAnswers, Proceed
<1>7. ASSUME NEW n \in 1..MaxBatch, ModelCallsTools(t, n) PROVE Proceed(t)
  <2>1. n \in Nat
    BY BoundsAssumption
  <2>2. Writes(t)
    BY <1>7, <2>1 DEF ModelCallsTools, Writes, Kinds
  <2>3. QED
    BY <1>7, <2>2 DEF ModelCallsTools, Proceed
<1>8. ASSUME FailToBegin(t) PROVE Proceed(t)
  BY <1>8 DEF FailToBegin, Proceed
<1>9. ASSUME StopCancelled(t) PROVE Proceed(t)
  BY <1>9 DEF StopCancelled, Proceed
<1>10. ASSUME RequestModel(t) PROVE Proceed(t)
  BY <1>10 DEF RequestModel, RequestsAfter, Proceed, StartsWork, MayContinue
<1>11. ASSUME ModelIsEmpty(t) PROVE Proceed(t)
  BY <1>11 DEF ModelIsEmpty, Proceed
<1>12. ASSUME StartTool(t) PROVE Proceed(t)
  BY <1>12 DEF StartTool, Proceed, StartsWork, MayContinue
<1>13. ASSUME AbandonBatch(t) PROVE Proceed(t)
  BY <1>13 DEF AbandonBatch, Proceed
<1>14. ASSUME JournalFails(t) PROVE Proceed(t)
  BY <1>14 DEF JournalFails, Proceed
<1>15. ASSUME Settle(t) PROVE Proceed(t)
  BY <1>15 DEF Settle, Proceed
<1>16. ASSUME ReportError(t) PROVE Proceed(t)
  BY <1>16 DEF ReportError, Proceed
<1>17. QED
  BY <1>1, <1>2, <1>3, <1>4, <1>5, <1>6, <1>7, <1>8, <1>9, <1>10, <1>11,
     <1>12, <1>13, <1>14, <1>15, <1>16 DEF TurnStep

(***************************************************************************)
(* The map of sessions.                                                    *)
(***************************************************************************)
CancelledTurnHasRun == \A t \in cancelled : pc[t] \in Running \cup {"done"}

SlotInv == LiveTurnIsReachable /\ EntryHasRunningTurn /\ CancelledTurnHasRun

LEMMA NoTurnIsNoTurn == NoTurn \notin Turn
  BY BoundsAssumption DEF NoTurn, Turn

LEMMA SlotStep ==
  ASSUME TypeInv, SlotInv, [Next]_vars
  PROVE  SlotInv'
<1>0. /\ sessionOf \in [Turn -> Session \cup {NoSession}]
      /\ active \in [Session -> Turn \cup {NoTurn}]
      /\ pc \in [Turn -> Phases]
      /\ cancelled \subseteq Turn
      /\ \A t \in Turn : pc[t] # "unborn" => sessionOf[t] \in Session
  BY DEF TypeInv, TypeOK, Addressed
<1> USE DEF SlotInv
<1>1. ASSUME NEW t \in Turn, NEW s \in Session, DrawTurnId(t, s) PROVE SlotInv'
  <2>1. /\ pc[t] = "unborn"
        /\ \A u \in Turn : pc'[u] = IF u = t THEN "allocated" ELSE pc[u]
        /\ \A u \in Turn : u # t => sessionOf'[u] = sessionOf[u]
        /\ UNCHANGED <<active, cancelled>>
    BY <1>0, <1>1 DEF DrawTurnId, Goto
  <2>2. LiveTurnIsReachable'
    BY <2>1 DEF LiveTurnIsReachable, Running
  <2>3. EntryHasRunningTurn'
    BY <1>0, <2>1 DEF EntryHasRunningTurn, Running
  <2>4. CancelledTurnHasRun'
    BY <1>0, <2>1 DEF CancelledTurnHasRun, Running
  <2>5. QED
    BY <2>2, <2>3, <2>4
<1>2. ASSUME NEW t \in Turn, InstallTurn(t) PROVE SlotInv'
  <2>1. pc[t] = "allocated" /\ sessionOf[t] \in Session
    BY <1>0, <1>2 DEF InstallTurn, Goto
  <2>2. /\ \A u \in Turn : pc'[u] = IF u = t THEN "spawned" ELSE pc[u]
        /\ \A s \in Session : active'[s] = IF s = sessionOf[t] THEN t ELSE active[s]
        /\ cancelled' = cancelled \cup ({active[sessionOf[t]]} \ {NoTurn})
        /\ sessionOf' = sessionOf
    BY <1>0, <1>2, <2>1 DEF InstallTurn, Goto, Superseded
  <2>3. ASSUME NEW u \in Turn, pc'[u] \in Running, u \notin cancelled'
        PROVE  active'[sessionOf[u]] = u
    <3>1. CASE u = t
      BY <3>1, <2>1, <2>2
    <3>2. CASE u # t
      <4>1. pc[u] \in Running /\ u \notin cancelled
        BY <2>2, <2>3, <3>2
      <4>2. sessionOf[u] \in Session /\ active[sessionOf[u]] = u
        BY <1>0, <4>1 DEF LiveTurnIsReachable, Running
      <4>3. sessionOf[u] # sessionOf[t]
        BY <2>2, <2>3, <4>2, NoTurnIsNoTurn
      <4>4. QED
        BY <4>2, <4>3, <2>2
    <3>3. QED
      BY <3>1, <3>2
  <2>4. ASSUME NEW s \in Session, active'[s] # NoTurn
        PROVE  pc'[active'[s]] \in Running /\ sessionOf[active'[s]] = s
    <3>1. CASE s = sessionOf[t]
      BY <3>1, <2>2 DEF Running
    <3>2. CASE s # sessionOf[t]
      <4>1. active'[s] = active[s] /\ active[s] \in Turn
        BY <1>0, <2>2, <2>4, <3>2
      <4>2. pc[active[s]] \in Running /\ sessionOf[active[s]] = s
        BY <2>4, <4>1 DEF EntryHasRunningTurn
      <4>3. QED
        BY <2>2, <4>1, <4>2 DEF Running
    <3>3. QED
      BY <3>1, <3>2
  <2>5. ASSUME NEW u \in cancelled' PROVE pc'[u] \in Running \cup {"done"}
    <3>1. CASE u \in cancelled
      BY <1>0, <2>1, <2>2, <3>1 DEF CancelledTurnHasRun, Running
    <3>2. CASE u = active[sessionOf[t]] /\ u # NoTurn
      BY <1>0, <2>1, <2>2, <3>2 DEF EntryHasRunningTurn, Running
    <3>3. QED
      BY <2>2, <2>5, <3>1, <3>2
  <2>6. QED
    BY <2>2, <2>3, <2>4, <2>5 DEF LiveTurnIsReachable, EntryHasRunningTurn,
                                  CancelledTurnHasRun
<1>3. ASSUME NEW t \in Turn, Proceed(t) PROVE SlotInv'
  <2>1. /\ \A u \in Turn : pc'[u] \in Running <=> pc[u] \in Running
        /\ \A u \in Turn : pc[u] = "done" => pc'[u] = "done"
        /\ UNCHANGED <<sessionOf, active, cancelled>>
    BY <1>0, <1>3 DEF Proceed, Running
  <2>2. LiveTurnIsReachable'
    BY <2>1 DEF LiveTurnIsReachable
  <2>3. EntryHasRunningTurn'
    BY <1>0, <2>1 DEF EntryHasRunningTurn
  <2>4. CancelledTurnHasRun'
    BY <1>0, <2>1 DEF CancelledTurnHasRun
  <2>5. QED
    BY <2>2, <2>3, <2>4
<1>4. ASSUME NEW t \in Turn, ReleaseEntry(t) PROVE SlotInv'
  <2>1. pc[t] = "cleanup" /\ sessionOf[t] \in Session
    BY <1>0, <1>4 DEF ReleaseEntry, Goto
  <2>2. /\ \A u \in Turn : pc'[u] = IF u = t THEN "done" ELSE pc[u]
        /\ \A s \in Session :
              active'[s] = IF s = sessionOf[t] /\ active[s] = t THEN NoTurn
                           ELSE active[s]
        /\ UNCHANGED <<sessionOf, cancelled>>
    BY <1>0, <1>4, <2>1 DEF ReleaseEntry, EntryAfter, Goto
  <2>3. ASSUME NEW u \in Turn, pc'[u] \in Running, u \notin cancelled
        PROVE  active'[sessionOf[u]] = u
    <3>1. u # t /\ pc[u] \in Running
      BY <2>2, <2>3 DEF Running
    <3>2. sessionOf[u] \in Session /\ active[sessionOf[u]] = u
      BY <1>0, <2>3, <3>1 DEF LiveTurnIsReachable, Running
    <3>3. QED
      BY <2>2, <3>1, <3>2
  <2>4. ASSUME NEW s \in Session, active'[s] # NoTurn
        PROVE  pc'[active'[s]] \in Running /\ sessionOf[active'[s]] = s
    <3>1. active'[s] = active[s] /\ active[s] \in Turn
      BY <1>0, <2>2, <2>4
    <3>2. sessionOf[active[s]] = s /\ pc[active[s]] \in Running
      BY <2>4, <3>1 DEF EntryHasRunningTurn
    <3>3. active[s] # t
      BY <2>2, <2>4, <3>1, <3>2
    <3>4. QED
      BY <3>1, <3>2, <3>3, <2>2
  <2>5. CancelledTurnHasRun'
    BY <1>0, <2>2 DEF CancelledTurnHasRun
  <2>6. QED
    BY <2>2, <2>3, <2>4, <2>5 DEF LiveTurnIsReachable, EntryHasRunningTurn
<1>5. ASSUME NEW t \in Turn, ReviewEnds(t) PROVE SlotInv'
  BY <1>5 DEF ReviewEnds, LiveTurnIsReachable, EntryHasRunningTurn, CancelledTurnHasRun
<1>6. ASSUME NEW s \in Session, Abort(s) PROVE SlotInv'
  BY <1>0, <1>6 DEF Abort, LiveTurnIsReachable, EntryHasRunningTurn,
                    CancelledTurnHasRun
<1>7. ASSUME NEW s \in Session, SetModel(s) PROVE SlotInv'
  BY <1>7 DEF SetModel, LiveTurnIsReachable, EntryHasRunningTurn, CancelledTurnHasRun
<1>8. ASSUME Restart PROVE SlotInv'
  <2>1. /\ \A u \in Turn : pc'[u] = IF pc[u] \in Running \cup {"allocated"}
                                      THEN "done" ELSE pc[u]
        /\ \A s \in Session : active'[s] = NoTurn
        /\ UNCHANGED cancelled
    BY <1>0, <1>8 DEF Restart
  <2>2. LiveTurnIsReachable' /\ EntryHasRunningTurn'
    BY <2>1 DEF LiveTurnIsReachable, EntryHasRunningTurn, Running
  <2>3. CancelledTurnHasRun'
    BY <1>0, <2>1 DEF CancelledTurnHasRun
  <2>4. QED
    BY <2>2, <2>3
<1>9. ASSUME UNCHANGED vars PROVE SlotInv'
  BY <1>9 DEF vars, LiveTurnIsReachable, EntryHasRunningTurn, CancelledTurnHasRun
<1>10. QED
  BY <1>1, <1>2, <1>3, <1>4, <1>5, <1>6, <1>7, <1>8, <1>9, RunningSteps
     DEF Next

(***************************************************************************)
(* Writes after cancellation. A turn that has had its one late line is     *)
(* cancelled and past the phases that lead to a line, and the checks of    *)
(* the token keep it out of them.                                          *)
(***************************************************************************)
LateInv ==
  \A t \in Turn :
     \/ late[t] = 0
     \/ late[t] = 1 /\ t \in cancelled
          /\ pc[t] \in Phases \ (Writing \cup {"unborn", "allocated"})

LEMMA LateStep ==
  ASSUME TypeInv, LateInv, [Next]_vars
  PROVE  LateInv'
<1> USE DEF TypeInv, TypeOK, LateInv, Writing, Phases
<1>1. ASSUME NEW t \in Turn, NEW s \in Session, DrawTurnId(t, s) PROVE LateInv'
  BY <1>1 DEF DrawTurnId, Goto, NoWrite
<1>2. ASSUME NEW t \in Turn, InstallTurn(t) PROVE LateInv'
  BY <1>2 DEF InstallTurn, Superseded, Goto, NoWrite
<1>3. ASSUME NEW t \in Turn, Proceed(t) PROVE LateInv'
  <2>1. CASE NoWrite
    BY <1>3, <2>1 DEF Proceed, NoWrite, Running
  <2>2. CASE Writes(t) /\ pc[t] \in Writing /\ pc'[t] \notin Writing
    <3>1. late[t] = 0
      BY <2>2
    <3>2. late' = [late EXCEPT ![t] = IF t \in cancelled THEN 1 ELSE 0]
      BY <2>2, <3>1 DEF Writes, Write
    <3>3. QED
      BY <1>3, <2>2, <3>2 DEF Proceed, Running
  <2>3. QED
    BY <1>3, <2>1, <2>2 DEF Proceed
<1>4. ASSUME NEW t \in Turn, ReleaseEntry(t) PROVE LateInv'
  BY <1>4 DEF ReleaseEntry, Goto, NoWrite
<1>5. ASSUME NEW t \in Turn, ReviewEnds(t) PROVE LateInv'
  BY <1>5 DEF ReviewEnds
<1>6. ASSUME NEW s \in Session, Abort(s) PROVE LateInv'
  BY <1>6 DEF Abort, NoWrite
<1>7. ASSUME NEW s \in Session, SetModel(s) PROVE LateInv'
  BY <1>7 DEF SetModel
<1>8. ASSUME Restart PROVE LateInv'
  BY <1>8 DEF Restart, NoWrite
<1>9. ASSUME UNCHANGED vars PROVE LateInv'
  BY <1>9 DEF vars
<1>10. QED
  BY <1>1, <1>2, <1>3, <1>4, <1>5, <1>6, <1>7, <1>8, <1>9, RunningSteps
     DEF Next

(***************************************************************************)
(* Settle events. A task reaches its cleanup only after the pair was sent. *)
(***************************************************************************)
SettleInv ==
  \A t \in Turn :
     pc[t] \in {"cleanup", "done"} => settled[t] > 0 \/ t \in killed

LEMMA SettleStep ==
  ASSUME TypeInv, SettleInv, [Next]_vars
  PROVE  SettleInv'
<1> USE DEF TypeInv, TypeOK, SettleInv, Running
<1>1. ASSUME NEW t \in Turn, NEW s \in Session, DrawTurnId(t, s) PROVE SettleInv'
  BY <1>1 DEF DrawTurnId, Goto, NoWrite
<1>2. ASSUME NEW t \in Turn, InstallTurn(t) PROVE SettleInv'
  BY <1>2 DEF InstallTurn, Superseded, Goto, NoWrite
<1>3. ASSUME NEW t \in Turn, Proceed(t) PROVE SettleInv'
  BY <1>3 DEF Proceed, NoWrite
<1>4. ASSUME NEW t \in Turn, ReleaseEntry(t) PROVE SettleInv'
  BY <1>4 DEF ReleaseEntry, Goto, NoWrite
<1>5. ASSUME NEW t \in Turn, ReviewEnds(t) PROVE SettleInv'
  BY <1>5 DEF ReviewEnds
<1>6. ASSUME NEW s \in Session, Abort(s) PROVE SettleInv'
  BY <1>6 DEF Abort, NoWrite
<1>7. ASSUME NEW s \in Session, SetModel(s) PROVE SettleInv'
  BY <1>7 DEF SetModel
<1>8. ASSUME Restart PROVE SettleInv'
  BY <1>8 DEF Restart, NoWrite
<1>9. ASSUME UNCHANGED vars PROVE SettleInv'
  BY <1>9 DEF vars
<1>10. QED
  BY <1>1, <1>2, <1>3, <1>4, <1>5, <1>6, <1>7, <1>8, <1>9, RunningSteps
     DEF Next

(***************************************************************************)
(* Interleaving. Of two turns nobody cancelled, the one that still runs    *)
(* has begun after the other one's last line: it was alone in the map.     *)
(***************************************************************************)
Wanted == Turn \ (cancelled \cup killed)

Unwritten == {"unborn", "allocated", "spawned"}

WritersHaveBegun ==
  \A s \in Session, t \in Turn : EntriesOf(s, t) # {} =>
     sessionOf[t] = s /\ pc[t] \in Phases \ Unwritten

RunnerWritesLast ==
  \A s \in Session, t, u \in Wanted : t # u /\ pc[t] \in Running =>
     \A i \in EntriesOf(s, t), j \in EntriesOf(s, u) : j < i

TraceInv == WritersHaveBegun /\ RunnerWritesLast /\ InterleavedTurnsWereCancelled

(* A step that adds no line of any turn's task and starts no turn that has   *)
(* lines already.                                                            *)
Quiet ==
  /\ \A u \in Turn : pc[u] \in Phases \ Unwritten =>
        /\ pc'[u] \in Phases \ Unwritten /\ sessionOf'[u] = sessionOf[u]
        /\ pc'[u] \in Running => pc[u] \in Running
  /\ cancelled \subseteq cancelled' /\ killed \subseteq killed'

LEMMA QuietTrace ==
  ASSUME TraceInv, Quiet,
         \A r \in Session, u \in Turn : \A i \in EntriesOf(r, u)' : i \in EntriesOf(r, u)
  PROVE  TraceInv'
<1>1. Wanted' \subseteq Wanted
  BY DEF Wanted, Quiet
<1>2. ASSUME NEW r \in Session, NEW u \in Turn, NEW i \in EntriesOf(r, u)'
      PROVE  /\ i \in EntriesOf(r, u)
             /\ sessionOf'[u] = r /\ pc'[u] \in Phases \ Unwritten
             /\ pc'[u] \in Running => pc[u] \in Running
  <2>1. i \in EntriesOf(r, u)
    OBVIOUS
  <2>2. sessionOf[u] = r /\ pc[u] \in Phases \ Unwritten
    BY <2>1 DEF TraceInv, WritersHaveBegun
  <2>3. QED
    BY <2>1, <2>2 DEF Quiet
<1>3. WritersHaveBegun'
  <2> SUFFICES ASSUME NEW r \in Session, NEW u \in Turn, EntriesOf(r, u)' # {}
               PROVE  sessionOf'[u] = r /\ pc'[u] \in Phases \ Unwritten
    BY DEF WritersHaveBegun
  <2>1. PICK i : i \in EntriesOf(r, u)'
    OBVIOUS
  <2>2. QED
    BY <2>1, <1>2
<1>4. RunnerWritesLast'
  <2> SUFFICES ASSUME NEW r \in Session, NEW u \in Wanted', NEW v \in Wanted',
                      u # v, pc'[u] \in Running,
                      NEW i \in EntriesOf(r, u)', NEW j \in EntriesOf(r, v)'
               PROVE  j < i
    BY DEF RunnerWritesLast
  <2>1. u \in Wanted /\ v \in Wanted /\ u \in Turn /\ v \in Turn
    BY <1>1 DEF Wanted
  <2>2. /\ i \in EntriesOf(r, u) /\ j \in EntriesOf(r, v)
        /\ pc[u] \in Running
    BY <2>1, <1>2
  <2>3. QED
    BY <2>1, <2>2 DEF TraceInv, RunnerWritesLast
<1>5. InterleavedTurnsWereCancelled'
  <2> SUFFICES ASSUME NEW r \in Session, NEW u \in Wanted', NEW v \in Wanted', u # v,
                      NEW i \in EntriesOf(r, u)', NEW k \in EntriesOf(r, u)',
                      NEW j \in EntriesOf(r, v)', i < j, j < k
               PROVE  FALSE
    BY DEF InterleavedTurnsWereCancelled, Wanted
  <2>1. u \in Wanted /\ v \in Wanted /\ u \in Turn /\ v \in Turn
    BY <1>1 DEF Wanted
  <2>2. i \in EntriesOf(r, u) /\ k \in EntriesOf(r, u) /\ j \in EntriesOf(r, v)
    BY <2>1, <1>2
  <2>3. QED
    BY <2>1, <2>2 DEF TraceInv, InterleavedTurnsWereCancelled, Wanted
<1>6. QED
  BY <1>3, <1>4, <1>5 DEF TraceInv

(* What one more line adds to the lines of a turn.                          *)
LEMMA AppendEntries ==
  ASSUME TypeOK, NEW s \in Session, NEW e \in Entry,
         journal' = [journal EXCEPT ![s] = Append(@, e)],
         NEW r \in Session, NEW u \in Turn, NEW i \in EntriesOf(r, u)'
  PROVE  \/ i \in EntriesOf(r, u)
         \/ /\ r = s /\ i = Len(journal[s]) + 1
            /\ e.turn = u /\ e.kind # "critique"
<1>1. journal[s] \in Seq(Entry) /\ journal[r] \in Seq(Entry)
  BY DEF TypeOK
<1>2. CASE r = s
  <2>1. journal'[r] = Append(journal[s], e)
    BY <1>2 DEF TypeOK
  <2>2. /\ Len(journal'[r]) = Len(journal[s]) + 1
        /\ \A k \in 1..Len(journal[s]) : journal'[r][k] = journal[s][k]
        /\ journal'[r][Len(journal[s]) + 1] = e
    BY <1>1, <2>1, AppendProperties
  <2>3. i \in 1..Len(journal'[r]) /\ journal'[r][i].turn = u
          /\ journal'[r][i].kind # "critique"
    BY DEF EntriesOf
  <2>4. Len(journal[s]) \in Nat
    BY <1>1, LenProperties
  <2>5. CASE i = Len(journal[s]) + 1
    BY <1>2, <2>2, <2>3, <2>5
  <2>6. CASE i \in 1..Len(journal[s])
    BY <1>2, <2>2, <2>3, <2>6 DEF EntriesOf
  <2>7. QED
    BY <2>2, <2>3, <2>4, <2>5, <2>6
<1>3. CASE r # s
  <2>1. journal'[r] = journal[r]
    BY <1>3 DEF TypeOK
  <2>2. QED
    BY <2>1 DEF EntriesOf
<1>4. QED
  BY <1>2, <1>3

LEMMA EntriesAreIndices ==
  ASSUME TypeOK, NEW s \in Session, NEW t \in Turn, NEW i \in EntriesOf(s, t)
  PROVE  i \in Nat /\ i <= Len(journal[s]) /\ Len(journal[s]) \in Nat
<1>1. journal[s] \in Seq(Entry)
  BY DEF TypeOK
<1>2. Len(journal[s]) \in Nat
  BY <1>1, LenProperties
<1>3. QED
  BY <1>2 DEF EntriesOf

LEMMA TraceInit == Init => TraceInv
<1> SUFFICES ASSUME Init PROVE TraceInv
  OBVIOUS
<1>1. ASSUME NEW s \in Session, NEW t \in Turn PROVE EntriesOf(s, t) = {}
  <2> SUFFICES ASSUME NEW i \in EntriesOf(s, t) PROVE FALSE
    OBVIOUS
  <2>1. journal[s] \in Seq([kind : Kinds, turn : {NoTurn}, calls : Nat])
    BY PastJournalsAssumption DEF Init
  <2>2. i \in 1..Len(journal[s]) /\ journal[s][i].turn = t
    BY DEF EntriesOf
  <2>3. journal[s][i] \in [kind : Kinds, turn : {NoTurn}, calls : Nat]
    BY <2>1, <2>2, ElementOfSeq
  <2>4. QED
    BY <2>2, <2>3, NoTurnIsNoTurn
<1>2. QED
  BY <1>1 DEF TraceInv, WritersHaveBegun, RunnerWritesLast, Wanted,
              InterleavedTurnsWereCancelled

LEMMA WriteTrace ==
  ASSUME TypeInv, SlotInv, TraceInv, NEW t \in Turn, Proceed(t),
         NEW kind \in Kinds, NEW n \in Nat, Write(t, kind, n)
  PROVE  TraceInv'
<1> DEFINE s == sessionOf[t]
           new == Len(journal[s]) + 1
<1>1. /\ s \in Session
      /\ pc[t] \in Running /\ pc'[t] \in Phases \ Unwritten
      /\ pc'[t] \in Running
      /\ \A u \in Turn : u # t => pc'[u] = pc[u]
      /\ UNCHANGED <<sessionOf, cancelled, killed>>
  BY DEF Proceed, Running, Phases, Unwritten, TypeInv, TypeOK, Addressed
<1>2. ASSUME NEW r \in Session, NEW u \in Turn, NEW i \in EntriesOf(r, u)'
      PROVE  i \in EntriesOf(r, u) \/ (r = s /\ u = t /\ i = new)
  <2> DEFINE e == [kind |-> kind, turn |-> t, calls |-> n]
  <2>1. e \in Entry /\ e.turn = t
    BY DEF Entry
  <2>2. journal' = [journal EXCEPT ![s] = Append(@, e)]
    BY DEF Write
  <2> HIDE DEF e, s
  <2>3. i \in EntriesOf(r, u) \/ (r = s /\ i = Len(journal[s]) + 1 /\ e.turn = u)
    BY <1>1, <2>1, <2>2, AppendEntries DEF TypeInv
  <2>4. QED
    BY <2>1, <2>3
<1>3. Wanted' = Wanted
  BY <1>1 DEF Wanted
<1>4. \A r \in Session, u \in Turn : \A i \in EntriesOf(r, u) :
         i \in Nat /\ i <= Len(journal[r]) /\ Len(journal[r]) \in Nat
  BY EntriesAreIndices DEF TypeInv
<1> HIDE DEF s, new
<1>5. WritersHaveBegun'
  <2> SUFFICES ASSUME NEW r \in Session, NEW u \in Turn, EntriesOf(r, u)' # {}
               PROVE  sessionOf'[u] = r /\ pc'[u] \in Phases \ Unwritten
    BY DEF WritersHaveBegun
  <2>1. PICK i : i \in EntriesOf(r, u)'
    OBVIOUS
  <2>2. CASE u = t /\ r = s
    BY <1>1, <2>2 DEF s
  <2>3. CASE i \in EntriesOf(r, u)
    <3>1. sessionOf[u] = r /\ pc[u] \in Phases \ Unwritten
      BY <2>3 DEF TraceInv, WritersHaveBegun
    <3>2. QED
      BY <1>1, <3>1
  <2>4. QED
    BY <1>2, <2>1, <2>2, <2>3
<1>6. RunnerWritesLast'
  <2> SUFFICES ASSUME NEW r \in Session, NEW u \in Wanted, NEW v \in Wanted,
                      u # v, pc'[u] \in Running,
                      NEW i \in EntriesOf(r, u)', NEW j \in EntriesOf(r, v)'
               PROVE  j < i
    BY <1>3 DEF RunnerWritesLast
  <2>1. u \in Turn /\ v \in Turn /\ pc[u] \in Running
    BY <1>1 DEF Wanted
  <2>2. i \in EntriesOf(r, u) \/ (r = s /\ u = t /\ i = new)
    BY <1>2, <2>1
  <2>3. j \in EntriesOf(r, v) \/ (r = s /\ v = t /\ j = new)
    BY <1>2, <2>1
  <2>4. CASE v = t /\ r = s
    <3>1. i \in EntriesOf(r, u)
      BY <2>2, <2>4
    <3>2. sessionOf[u] = s
      BY <2>1, <2>4, <3>1 DEF TraceInv, WritersHaveBegun
    <3>3. active[s] = u /\ active[s] = t
      BY <1>1, <2>1, <2>4, <3>2 DEF SlotInv, LiveTurnIsReachable, Wanted, s
    <3>4. QED
      BY <2>4, <3>3
  <2>5. CASE j \in EntriesOf(r, v) /\ i \in EntriesOf(r, u)
    BY <2>1, <2>5 DEF TraceInv, RunnerWritesLast
  <2>6. CASE j \in EntriesOf(r, v) /\ r = s /\ i = new
    BY <1>4, <2>1, <2>6 DEF new
  <2>7. QED
    BY <2>2, <2>3, <2>4, <2>5, <2>6
<1>7. InterleavedTurnsWereCancelled'
  <2> SUFFICES ASSUME NEW r \in Session, NEW u \in Wanted, NEW v \in Wanted, u # v,
                      NEW i \in EntriesOf(r, u)', NEW k \in EntriesOf(r, u)',
                      NEW j \in EntriesOf(r, v)', i < j, j < k
               PROVE  FALSE
    BY <1>3 DEF InterleavedTurnsWereCancelled, Wanted
  <2>1. u \in Turn /\ v \in Turn
    BY DEF Wanted
  <2>2. /\ i \in EntriesOf(r, u) \/ (r = s /\ u = t /\ i = new)
        /\ k \in EntriesOf(r, u) \/ (r = s /\ u = t /\ k = new)
        /\ j \in EntriesOf(r, v) \/ (r = s /\ v = t /\ j = new)
    BY <1>2, <2>1
  <2>3. CASE k \in EntriesOf(r, u)
    <3>1. i \in EntriesOf(r, u)
      BY <1>4, <2>1, <2>2, <2>3 DEF new
    <3>2. j \in EntriesOf(r, v)
      BY <1>4, <2>1, <2>2, <2>3 DEF new
    <3>3. QED
      BY <2>3, <3>1, <3>2 DEF TraceInv, InterleavedTurnsWereCancelled, Wanted
  <2>4. CASE r = s /\ u = t /\ k = new
    <3>1. j \in EntriesOf(r, v)
      BY <2>2, <2>4
    <3>2. i \in EntriesOf(r, u)
      BY <1>4, <2>1, <2>2, <2>4, <3>1 DEF new
    <3>3. j < i
      BY <1>1, <2>4, <3>1, <3>2 DEF TraceInv, RunnerWritesLast
    <3>4. QED
      BY <1>4, <2>1, <3>1, <3>2, <3>3
  <2>5. QED
    BY <2>2, <2>3, <2>4
<1>8. QED
  BY <1>5, <1>6, <1>7 DEF TraceInv

LEMMA TraceStep ==
  ASSUME TypeInv, SlotInv, TraceInv, [Next]_vars
  PROVE  TraceInv'
<1> USE DEF TypeInv, TypeOK, Phases, Unwritten
<1>1. ASSUME NEW t \in Turn, NEW s \in Session, DrawTurnId(t, s) PROVE TraceInv'
  <2>1. \A r \in Session, u \in Turn : EntriesOf(r, u)' = EntriesOf(r, u)
    BY <1>1 DEF DrawTurnId, NoWrite, EntriesOf
  <2>2. Quiet
    BY <1>1 DEF DrawTurnId, Goto, Quiet, Running
  <2>3. QED
    BY <2>1, <2>2, QuietTrace
<1>2. ASSUME NEW t \in Turn, InstallTurn(t) PROVE TraceInv'
  <2>1. \A r \in Session, u \in Turn : EntriesOf(r, u)' = EntriesOf(r, u)
    BY <1>2 DEF InstallTurn, NoWrite, EntriesOf
  <2>2. Quiet
    BY <1>2 DEF InstallTurn, Goto, Quiet, Running
  <2>3. QED
    BY <2>1, <2>2, QuietTrace
<1>3. ASSUME NEW t \in Turn, Proceed(t) PROVE TraceInv'
  <2>1. CASE NoWrite
    <3>1. \A r \in Session, u \in Turn : EntriesOf(r, u)' = EntriesOf(r, u)
      BY <2>1 DEF NoWrite, EntriesOf
    <3>2. Quiet
      BY <1>3 DEF Proceed, Quiet, Running
    <3>3. QED
      BY <3>1, <3>2, QuietTrace
  <2>2. CASE Writes(t)
    <3>1. PICK kind \in Kinds \ {"critique"}, n \in Nat : Write(t, kind, n)
      BY <2>2 DEF Writes
    <3>2. QED
      BY <1>3, <3>1, WriteTrace
  <2>3. QED
    BY <1>3, <2>1, <2>2 DEF Proceed
<1>4. ASSUME NEW t \in Turn, ReleaseEntry(t) PROVE TraceInv'
  <2>1. \A r \in Session, u \in Turn : EntriesOf(r, u)' = EntriesOf(r, u)
    BY <1>4 DEF ReleaseEntry, NoWrite, EntriesOf
  <2>2. Quiet
    BY <1>4 DEF ReleaseEntry, Goto, Quiet, Running
  <2>3. QED
    BY <2>1, <2>2, QuietTrace
<1>5. ASSUME NEW t \in Turn, ReviewEnds(t) PROVE TraceInv'
  <2>1. \A r \in Session, u \in Turn : \A i \in EntriesOf(r, u)' : i \in EntriesOf(r, u)
    <3>1. CASE UNCHANGED journal
      BY <3>1 DEF EntriesOf
    <3>2. CASE journal' = [journal EXCEPT ![sessionOf[t]] =
                 Append(@, [kind |-> "critique", turn |-> t, calls |-> 0])]
      <4>1. [kind |-> "critique", turn |-> t, calls |-> 0] \in Entry
        BY DEF Entry, Kinds
      <4>2. sessionOf[t] \in Session
        BY <1>5 DEF ReviewEnds, Addressed
      <4> DEFINE e == [kind |-> "critique", turn |-> t, calls |-> 0]
      <4>3. e \in Entry /\ e.kind = "critique"
        BY <4>1
      <4>4. journal' = [journal EXCEPT ![sessionOf[t]] = Append(@, e)]
        BY <3>2
      <4> HIDE DEF e
      <4>5. QED
        BY <4>2, <4>3, <4>4, AppendEntries
    <3>3. QED
      BY <1>5, <3>1, <3>2 DEF ReviewEnds
  <2>2. QED
    BY <1>5, <2>1, QuietTrace DEF ReviewEnds, Quiet
<1>6. ASSUME NEW s \in Session, Abort(s) PROVE TraceInv'
  <2>1. \A r \in Session, u \in Turn : EntriesOf(r, u)' = EntriesOf(r, u)
    BY <1>6 DEF Abort, NoWrite, EntriesOf
  <2>2. Quiet
    BY <1>6 DEF Abort, Quiet, Running
  <2>3. QED
    BY <2>1, <2>2, QuietTrace
<1>7. ASSUME NEW s \in Session, SetModel(s) PROVE TraceInv'
  <2>1. [kind |-> "model", turn |-> NoTurn, calls |-> 0] \in Entry
    BY DEF Entry, Kinds
  <2>2. \A r \in Session, u \in Turn : \A i \in EntriesOf(r, u)' : i \in EntriesOf(r, u)
    <3> DEFINE e == [kind |-> "model", turn |-> NoTurn, calls |-> 0]
    <3>1. e \in Entry /\ e.turn \notin Turn
      BY <2>1, NoTurnIsNoTurn
    <3>2. journal' = [journal EXCEPT ![s] = Append(@, e)]
      BY <1>7 DEF SetModel
    <3> SUFFICES ASSUME NEW r \in Session, NEW u \in Turn, NEW i \in EntriesOf(r, u)'
                 PROVE  i \in EntriesOf(r, u)
      OBVIOUS
    <3> HIDE DEF e
    <3>3. \/ i \in EntriesOf(r, u)
          \/ r = s /\ i = Len(journal[s]) + 1 /\ e.turn = u /\ e.kind # "critique"
      BY <3>1, <3>2, AppendEntries
    <3>4. QED
      BY <3>1, <3>3
  <2>3. QED
    BY <1>7, <2>2, QuietTrace DEF SetModel, Quiet
<1>8. ASSUME Restart PROVE TraceInv'
  <2>1. \A r \in Session, u \in Turn : EntriesOf(r, u)' = EntriesOf(r, u)
    BY <1>8 DEF Restart, NoWrite, EntriesOf
  <2>2. QED
    BY <1>8, <2>1, QuietTrace DEF Restart, Quiet, Running
<1>9. ASSUME UNCHANGED vars PROVE TraceInv'
  <2>1. \A r \in Session, u \in Turn : EntriesOf(r, u)' = EntriesOf(r, u)
    BY <1>9 DEF vars, EntriesOf
  <2>2. QED
    BY <1>9, <2>1, QuietTrace DEF vars, Quiet, Running
<1>10. QED
  BY <1>1, <1>2, <1>3, <1>4, <1>5, <1>6, <1>7, <1>8, <1>9, RunningSteps
     DEF Next

(***************************************************************************)
(* The inductive invariant and what follows from it.                       *)
(***************************************************************************)
IInv == TypeInv /\ SlotInv /\ LateInv /\ SettleInv /\ TraceInv

LEMMA IInvInit == Init => IInv
<1> SUFFICES ASSUME Init PROVE IInv
  OBVIOUS
<1>1. SlotInv
  BY DEF Init, SlotInv, LiveTurnIsReachable, EntryHasRunningTurn,
         CancelledTurnHasRun, Running
<1>2. LateInv /\ SettleInv
  BY DEF Init, LateInv, SettleInv
<1>3. QED
  BY <1>1, <1>2, TypeInit, TraceInit DEF IInv

LEMMA IInvHolds == Spec => []IInv
<1>1. IInv /\ [Next]_vars => IInv'
  BY TypeStep, SlotStep, LateStep, SettleStep, TraceStep DEF IInv
<1>2. QED
  BY IInvInit, <1>1, PTL DEF Spec

(* LiveTurnIsReachable: abort and the next prompt reach every turn that     *)
(* runs and is not cancelled, whatever the interleaving of prompts, aborts, *)
(* ends of turns and restarts.                                              *)
THEOREM LiveTurnsAreReachable == Spec => []LiveTurnIsReachable
<1>1. IInv => LiveTurnIsReachable
  BY DEF IInv, SlotInv
<1>2. QED
  BY IInvHolds, <1>1, PTL

(* EntryHasRunningTurn: no entry outlives its turn's task.                  *)
THEOREM EntriesHaveRunningTurns == Spec => []EntryHasRunningTurn
<1>1. IInv => EntryHasRunningTurn
  BY DEF IInv, SlotInv
<1>2. QED
  BY IInvHolds, <1>1, PTL

(* IdleMeansSettled: "not running" implies "has sent its settle events" for *)
(* every turn that was left to itself.                                      *)
THEOREM IdleSessionsAreSettled == Spec => []IdleMeansSettled
<1>1. IInv => IdleMeansSettled
  <2> SUFFICES ASSUME IInv, NEW t \in Turn,
                      pc[t] \notin {"unborn", "allocated"},
                      t \notin cancelled \cup killed,
                      active[sessionOf[t]] = NoTurn
               PROVE  settled[t] > 0
    BY DEF IdleMeansSettled
  <2>1. pc[t] \notin Running
    BY NoTurnIsNoTurn DEF IInv, SlotInv, LiveTurnIsReachable
  <2>2. pc[t] = "done"
    BY <2>1 DEF IInv, TypeInv, TypeOK, Phases, Running
  <2>3. QED
    BY <2>2 DEF IInv, SettleInv
<1>2. QED
  BY IInvHolds, <1>1, PTL

(* CancelledTurnWritesOnce: one line at most after the cancellation.        *)
THEOREM CancelledTurnsWriteOnce == Spec => []CancelledTurnWritesOnce
<1>1. IInv => CancelledTurnWritesOnce
  BY DEF IInv, LateInv, CancelledTurnWritesOnce
<1>2. QED
  BY IInvHolds, <1>1, PTL

(* InterleavedTurnsWereCancelled: of two turns whose lines interleave in a  *)
(* journal, one was cancelled or died with the daemon.                      *)
THEOREM WantedTurnsDoNotInterleave == Spec => []InterleavedTurnsWereCancelled
<1>1. IInv => InterleavedTurnsWereCancelled
  BY DEF IInv, TraceInv
<1>2. QED
  BY IInvHolds, <1>1, PTL

(***************************************************************************)
(* Refinement of TurnSlot. Under the invariant the slot's holder and the   *)
(* spent turns can be read off pc and cancelled.                           *)
(***************************************************************************)
OwnerBar == [s \in Session |-> Holder(s)]
SpentBar == {t \in Turn : pc[t] \in Running \cup {"done"}
                            /\ \A s \in Session : Holder(s) # t}
WorkBar == [t \in Turn |-> requests[t] + toolsRun[t]]

HoldersRun ==
  /\ \A s \in Session : Holder(s) \in Turn \cup {NoTurn}
  /\ \A s \in Session, t \in Turn :
        Holder(s) = t <=> /\ sessionOf[t] = s
                          /\ pc[t] \in Running
                          /\ t \notin cancelled

LEMMA HolderRuns == IInv => HoldersRun
<1> SUFFICES ASSUME IInv, NEW s \in Session
             PROVE  /\ Holder(s) \in Turn \cup {NoTurn}
                    /\ \A t \in Turn :
                         Holder(s) = t <=> /\ sessionOf[t] = s
                                           /\ pc[t] \in Running
                                           /\ t \notin cancelled
  BY DEF HoldersRun
<1> USE DEF IInv, TypeInv, TypeOK, SlotInv
<1>1. Holder(s) \in Turn \cup {NoTurn}
  BY DEF Holder
<1>2. ASSUME NEW t \in Turn, Holder(s) = t
      PROVE  sessionOf[t] = s /\ pc[t] \in Running /\ t \notin cancelled
  <2>1. active[s] = t /\ t \notin cancelled
    BY <1>2, NoTurnIsNoTurn DEF Holder
  <2>2. QED
    BY <2>1, NoTurnIsNoTurn DEF EntryHasRunningTurn
<1>3. ASSUME NEW t \in Turn, sessionOf[t] = s, pc[t] \in Running, t \notin cancelled
      PROVE  Holder(s) = t
  BY <1>3 DEF LiveTurnIsReachable, Holder
<1>4. QED
  BY <1>1, <1>2, <1>3

Gone(t) == pc[t] = "done" \/ (pc[t] \in Running /\ t \in cancelled)

SpentByPhase == SpentBar = {t \in Turn : Gone(t)}

LEMMA SpentTurns == IInv => SpentByPhase
<1> SUFFICES ASSUME IInv, NEW t \in Turn
             PROVE  (pc[t] \in Running \cup {"done"} /\ \A s \in Session : Holder(s) # t)
                    <=> Gone(t)
  BY DEF SpentBar, SpentByPhase
<1>1. "done" \notin Running /\ "unborn" \notin Running
  BY DEF Running
<1>2. pc[t] \in Running => sessionOf[t] \in Session
  BY <1>1 DEF IInv, TypeInv, Addressed
<1>3. \A s \in Session : Holder(s) = t => pc[t] \in Running /\ t \notin cancelled
  BY HolderRuns DEF HoldersRun
<1>4. ASSUME pc[t] \in Running, t \notin cancelled
      PROVE  \E s \in Session : Holder(s) = t
  BY <1>2, <1>4, HolderRuns DEF HoldersRun
<1>5. CASE pc[t] = "done"
  BY <1>1, <1>3, <1>5 DEF Gone
<1>6. CASE pc[t] \in Running
  BY <1>1, <1>3, <1>4, <1>6 DEF Gone
<1>7. CASE pc[t] \notin Running \cup {"done"}
  BY <1>7 DEF Gone
<1>8. QED
  BY <1>5, <1>6, <1>7

(* The slot specification's state predicates and actions, over the three    *)
(* bars.                                                                    *)
LEMMA SlotInit == Init => Slot!Init
<1> SUFFICES ASSUME Init PROVE Slot!Init
  OBVIOUS
<1>1. OwnerBar = [s \in Session |-> NoTurn]
  BY DEF Init, OwnerBar, Holder
<1>2. SpentBar = {}
  BY DEF Init, SpentBar, Running
<1>3. WorkBar = [t \in Turn |-> 0]
  BY DEF Init, WorkBar
<1>4. QED
  BY <1>1, <1>2, <1>3 DEF Slot!Init, OwnerBar, SpentBar, WorkBar

LEMMA SlotStutters ==
  ASSUME UNCHANGED <<OwnerBar, SpentBar, WorkBar>>
  PROVE  UNCHANGED Slot!slotVars
  BY DEF Slot!slotVars, OwnerBar, SpentBar, WorkBar

LEMMA SlotGrants ==
  ASSUME NEW s \in Session, NEW t \in Turn,
         t \notin SpentBar, \A r \in Session : Holder(r) # t,
         OwnerBar' = [OwnerBar EXCEPT ![s] = t],
         SpentBar' = SpentBar \cup ({Holder(s)} \ {NoTurn}),
         UNCHANGED WorkBar
  PROVE  Slot!Grant(s, t)
<1>1. Slot!Owners(Session) = {Holder(r) : r \in Session} \ {NoTurn}
  BY DEF Slot!Owners
<1>2. Slot!Owners({s}) = {Holder(s)} \ {NoTurn}
  BY DEF Slot!Owners
<1>3. UNCHANGED WorkBar => UNCHANGED [u \in Turn |-> requests[u] + toolsRun[u]]
  BY DEF WorkBar
<1>4. t \notin Slot!Owners(Session)
  BY <1>1
<1>5. QED
  BY <1>2, <1>3, <1>4 DEF Slot!Grant, OwnerBar, SpentBar

LEMMA SlotStarts ==
  ASSUME NEW t \in Turn, NEW s \in Session, Holder(s) = t,
         WorkBar' = [WorkBar EXCEPT ![t] = @ + 1],
         UNCHANGED <<OwnerBar, SpentBar>>
  PROVE  Slot!Start(t)
<1>1. t \in Slot!Owners(Session)
  BY NoTurnIsNoTurn DEF Slot!Owners
<1>2. QED
  BY <1>1 DEF Slot!Start, OwnerBar, SpentBar, WorkBar

LEMMA SlotRevokesOne ==
  ASSUME NEW s \in Session,
         OwnerBar' = [OwnerBar EXCEPT ![s] = NoTurn],
         SpentBar' = SpentBar \cup ({Holder(s)} \ {NoTurn}),
         UNCHANGED WorkBar
  PROVE  Slot!Revoke({s}, {})
<1>1. Slot!Owners({s}) = {Holder(s)} \ {NoTurn}
  BY DEF Slot!Owners
<1>2. OwnerBar' = [r \in Session |-> IF r \in {s} THEN NoTurn ELSE OwnerBar[r]]
  BY DEF OwnerBar
<1>3. QED
  BY <1>1, <1>2 DEF Slot!Revoke, OwnerBar, SpentBar, WorkBar

LEMMA SlotRevokesAll ==
  ASSUME NEW lost \in SUBSET Turn,
         OwnerBar' = [s \in Session |-> NoTurn],
         SpentBar' = SpentBar \cup ({Holder(s) : s \in Session} \ {NoTurn}) \cup lost,
         UNCHANGED WorkBar
  PROVE  Slot!Revoke(Session, lost)
<1>1. Slot!Owners(Session) = {Holder(s) : s \in Session} \ {NoTurn}
  BY DEF Slot!Owners
<1>2. QED
  BY <1>1 DEF Slot!Revoke, OwnerBar, SpentBar, WorkBar

LEMMA SlotSteps ==
  ASSUME IInv, IInv', [Next]_vars
  PROVE  [Slot!Next]_(Slot!slotVars)
<1>1. SpentByPhase /\ SpentByPhase' /\ HoldersRun /\ HoldersRun'
  <2>1. IInv' => SpentByPhase' /\ HoldersRun'
    BY SpentTurns, HolderRuns, PTL
  <2>2. QED
    BY <2>1, SpentTurns, HolderRuns
<1>2. TypeOK /\ TypeOK' /\ Addressed /\ SlotInv
  BY DEF IInv, TypeInv
<1> USE <1>1, <1>2 DEF SpentByPhase, HoldersRun, Gone
<1>3. ASSUME UNCHANGED <<OwnerBar, SpentBar, WorkBar>>
      PROVE  [Slot!Next]_(Slot!slotVars)
  BY <1>3, SlotStutters
<1>4. ASSUME NEW t \in Turn, NEW s \in Session, DrawTurnId(t, s)
      PROVE  UNCHANGED <<OwnerBar, SpentBar, WorkBar>>
  <2>1. UNCHANGED OwnerBar /\ UNCHANGED WorkBar
    BY <1>4 DEF DrawTurnId, OwnerBar, WorkBar, Holder
  <2>2. UNCHANGED SpentBar
    <3>1. /\ pc[t] = "unborn" /\ cancelled' = cancelled
          /\ \A u \in Turn : pc'[u] = IF u = t THEN "allocated" ELSE pc[u]
      BY <1>4 DEF DrawTurnId, Goto, TypeOK
    <3>2. \A u \in Turn : Gone(u)' <=> Gone(u)
      BY <3>1 DEF Running
    <3>3. QED
      BY <3>2
  <2>3. QED
    BY <2>1, <2>2
<1>5. ASSUME NEW t \in Turn, InstallTurn(t)
      PROVE  Slot!Next
  <2>0. PICK s \in Session : s = sessionOf[t]
    BY <1>5 DEF InstallTurn, Goto, Addressed
  <2>1. /\ sessionOf[t] = s /\ pc[t] = "allocated" /\ pc' = [pc EXCEPT ![t] = "spawned"]
        /\ active' = [active EXCEPT ![s] = t]
        /\ cancelled' = cancelled \cup ({active[s]} \ {NoTurn})
        /\ UNCHANGED <<sessionOf, requests, toolsRun>>
    BY <1>5, <2>0 DEF InstallTurn, Superseded, Goto
  <2>2. t \notin SpentBar /\ (\A r \in Session : Holder(r) # t) /\ t \notin cancelled
    BY <2>1 DEF Running, SlotInv, CancelledTurnHasRun
  <2>3. \A r \in Session : active[r] # NoTurn =>
           active[r] \in Turn /\ pc[active[r]] \in Running /\ sessionOf[active[r]] = r
    BY DEF SlotInv, EntryHasRunningTurn, TypeOK
  <2>4. t \notin cancelled'
    <3>1. active[s] # t
      BY <2>1, <2>3, NoTurnIsNoTurn DEF Running
    <3>2. QED
      BY <2>1, <2>2, <3>1
  <2>5. ASSUME NEW r \in Session, r # s PROVE Holder(r)' = Holder(r)
    <3>1. active'[r] = active[r]
      BY <2>1, <2>5 DEF TypeOK
    <3>2. active[r] = active[s] => active[r] = NoTurn
      BY <2>3, <2>5
    <3>3. active[r] \in cancelled' <=> active[r] \in cancelled
      BY <2>1, <3>2
    <3>4. QED
      BY <3>1, <3>3 DEF Holder
  <2>6. Holder(s)' = t
    BY <2>1, <2>4 DEF Holder, TypeOK
  <2>7. OwnerBar' = [OwnerBar EXCEPT ![s] = t]
    <3>1. \A r \in Session : Holder(r)' = IF r = s THEN t ELSE Holder(r)
      BY <2>5, <2>6
    <3>2. OwnerBar' = [r \in Session |-> IF r = s THEN t ELSE Holder(r)]
      BY <3>1 DEF OwnerBar
    <3>3. QED
      BY <3>2 DEF OwnerBar
  <2>8. SpentBar' = SpentBar \cup ({Holder(s)} \ {NoTurn})
    <3>1. ASSUME NEW u \in Turn
          PROVE  u \in SpentBar' <=> u \in SpentBar \/ u = active[s]
      <4>1. CASE u = t
        BY <2>1, <2>2, <2>3, <2>4, <4>1 DEF Running, TypeOK
      <4>2. CASE u # t
        <5>1. pc'[u] = pc[u]
          BY <2>1, <4>2 DEF TypeOK
        <5>2. u \in cancelled' <=> u \in cancelled \/ u = active[s]
          BY <2>1, NoTurnIsNoTurn
        <5>3. u = active[s] => pc[u] \in Running
          BY <2>1, <2>3, NoTurnIsNoTurn
        <5>4. QED
          BY <5>1, <5>2, <5>3
      <4>3. QED
        BY <4>1, <4>2
    <3>2. ASSUME NEW u \in Turn
          PROVE  u \in SpentBar \/ u = active[s] <=> u \in SpentBar \/ u = Holder(s)
      BY <2>1, <2>3, NoTurnIsNoTurn DEF Holder
    <3>3. QED
      BY <2>1, <3>1, <3>2, NoTurnIsNoTurn
  <2>9. UNCHANGED WorkBar
    BY <2>1 DEF WorkBar
  <2>10. Slot!Grant(s, t)
    BY <2>1, <2>2, <2>7, <2>8, <2>9, SlotGrants
  <2>11. QED
    BY <2>1, <2>10 DEF Slot!Next
<1>6. ASSUME NEW t \in Turn, Proceed(t)
      PROVE  Slot!Next \/ UNCHANGED <<OwnerBar, SpentBar, WorkBar>>
  <2>1. UNCHANGED OwnerBar
    BY <1>6 DEF Proceed, OwnerBar, Holder
  <2>2. UNCHANGED SpentBar
    <3>1. pc[t] \in Running /\ pc'[t] \in Running /\ cancelled' = cancelled
      BY <1>6 DEF Proceed
    <3>2. \A u \in Turn : u # t => pc'[u] = pc[u]
      BY <1>6 DEF Proceed, TypeOK
    <3>3. "done" \notin Running
      BY DEF Running
    <3>4. \A u \in Turn : Gone(u)' <=> Gone(u)
      BY <3>1, <3>2, <3>3
    <3>5. QED
      BY <3>4
  <2>3. CASE UNCHANGED <<requests, toolsRun>>
    BY <2>1, <2>2, <2>3 DEF WorkBar
  <2>4. CASE t \notin cancelled /\ StartsWork(t)
    <3>1. WorkBar' = [WorkBar EXCEPT ![t] = @ + 1]
      <4>1. \A u \in Turn : requests[u] \in Nat /\ toolsRun[u] \in Nat
        BY DEF TypeOK
      <4>2. \A u \in Turn : requests'[u] + toolsRun'[u] =
               IF u = t THEN requests[u] + toolsRun[u] + 1 ELSE requests[u] + toolsRun[u]
        <5>1. CASE requests' = [requests EXCEPT ![t] = @ + 1] /\ UNCHANGED toolsRun
          BY <4>1, <5>1 DEF TypeOK
        <5>2. CASE toolsRun' = [toolsRun EXCEPT ![t] = @ + 1] /\ UNCHANGED requests
          BY <4>1, <5>2 DEF TypeOK
        <5>3. QED
          BY <2>4, <5>1, <5>2 DEF StartsWork
      <4>3. QED
        BY <4>2 DEF WorkBar
    <3>2. PICK s \in Session : s = sessionOf[t]
      BY <1>6 DEF Proceed, Addressed, Running
    <3>3. Holder(s) = t
      BY <1>6, <2>4, <3>2 DEF Proceed
    <3>4. Slot!Start(t)
      BY <2>1, <2>2, <3>1, <3>3, SlotStarts
    <3>5. QED
      BY <3>4 DEF Slot!Next
  <2>5. QED
    BY <1>6, <2>3, <2>4 DEF Proceed
<1>7. ASSUME NEW s \in Session, active[s] \in Turn \ cancelled,
             Holder(s)' = NoTurn,
             \A r \in Session : r # s => Holder(r)' = Holder(r),
             \A u \in Turn : u \in SpentBar' <=> u \in SpentBar \/ u = active[s],
             UNCHANGED WorkBar
      PROVE  Slot!Next
  <2>1. Holder(s) = active[s] /\ active[s] # NoTurn
    BY <1>7, NoTurnIsNoTurn DEF Holder
  <2>2. OwnerBar' = [OwnerBar EXCEPT ![s] = NoTurn]
    BY <1>7 DEF OwnerBar
  <2>3. SpentBar' = SpentBar \cup ({Holder(s)} \ {NoTurn})
    BY <1>7, <2>1
  <2>4. Slot!Revoke({s}, {})
    BY <1>7, <2>2, <2>3, SlotRevokesOne
  <2>5. QED
    BY <2>4 DEF Slot!Next
<1>8. ASSUME NEW t \in Turn, ReleaseEntry(t)
      PROVE  Slot!Next \/ UNCHANGED <<OwnerBar, SpentBar, WorkBar>>
  <2>1. PICK s \in Session : s = sessionOf[t]
    BY <1>8 DEF ReleaseEntry, Goto, Addressed
  <2>2. /\ pc[t] = "cleanup" /\ pc' = [pc EXCEPT ![t] = "done"]
        /\ active' = [active EXCEPT ![s] = IF @ = t THEN NoTurn ELSE @]
        /\ UNCHANGED <<sessionOf, cancelled, requests, toolsRun>>
    BY <1>8, <2>1 DEF ReleaseEntry, EntryAfter, Goto
  <2>3. UNCHANGED WorkBar
    BY <2>2 DEF WorkBar
  <2>4. \A r \in Session : r # s => Holder(r)' = Holder(r)
    BY <2>2 DEF Holder, TypeOK
  <2>5. CASE t \notin cancelled
    <3>1. active[s] = t
      BY <2>1, <2>2, <2>5 DEF SlotInv, LiveTurnIsReachable, Running
    <3>2. Holder(s)' = NoTurn
      BY <2>2, <3>1 DEF Holder, TypeOK
    <3>3. \A u \in Turn : u \in SpentBar' <=> u \in SpentBar \/ u = active[s]
      <4>1. /\ \A u \in Turn : pc'[u] = IF u = t THEN "done" ELSE pc[u]
            /\ cancelled' = cancelled
        BY <2>2 DEF TypeOK
      <4>2. \A u \in Turn : Gone(u)' <=> Gone(u) \/ u = t
        BY <4>1, <2>2, <2>5 DEF Running
      <4>3. QED
        BY <4>2, <3>1
    <3>4. active[s] \in Turn \ cancelled
      BY <2>5, <3>1
    <3>5. QED
      BY <1>7, <2>3, <2>4, <3>2, <3>3, <3>4
  <2>6. CASE t \in cancelled
    <3>1. Holder(s)' = Holder(s)
      <4>1. active'[s] = (IF active[s] = t THEN NoTurn ELSE active[s])
              /\ cancelled' = cancelled
        BY <2>2 DEF TypeOK
      <4>2. QED
        BY <4>1, <2>6 DEF Holder
    <3>2. \A r \in Session : Holder(r)' = Holder(r)
      BY <2>4, <3>1
    <3>3. UNCHANGED OwnerBar
      BY <3>2 DEF OwnerBar
    <3>4. UNCHANGED SpentBar
      <4>1. ASSUME NEW u \in Turn PROVE Gone(u)' <=> Gone(u)
        <5>1. pc'[u] = IF u = t THEN "done" ELSE pc[u]
          BY <2>2 DEF TypeOK
        <5>2. pc[t] \in Running /\ t \in cancelled /\ cancelled' = cancelled
          BY <2>2, <2>6 DEF Running
        <5>3. QED
          BY <5>1, <5>2
      <4>2. QED
        BY <4>1
    <3>5. QED
      BY <2>3, <3>3, <3>4
  <2>7. QED
    BY <2>5, <2>6
<1>9. ASSUME NEW t \in Turn, ReviewEnds(t)
      PROVE  UNCHANGED <<OwnerBar, SpentBar, WorkBar>>
  BY <1>9 DEF ReviewEnds, OwnerBar, WorkBar, Holder
<1>10. ASSUME NEW s \in Session, Abort(s)
       PROVE  Slot!Next \/ UNCHANGED <<OwnerBar, SpentBar, WorkBar>>
  <2>1. /\ active[s] # NoTurn /\ cancelled' = cancelled \cup {active[s]}
        /\ UNCHANGED <<sessionOf, active, pc, requests, toolsRun>>
    BY <1>10 DEF Abort
  <2>2. active[s] \in Turn /\ pc[active[s]] \in Running /\ sessionOf[active[s]] = s
    BY <2>1 DEF SlotInv, EntryHasRunningTurn, TypeOK
  <2>3. UNCHANGED WorkBar
    BY <2>1 DEF WorkBar
  <2>4. CASE active[s] \notin cancelled
    <3>1. Holder(s)' = NoTurn
      BY <2>1 DEF Holder
    <3>2. ASSUME NEW r \in Session, r # s PROVE Holder(r)' = Holder(r)
      <4>1. active[r] # active[s]
        BY <2>1, <2>2, <3>2 DEF SlotInv, EntryHasRunningTurn
      <4>2. QED
        BY <2>1, <4>1 DEF Holder
    <3>3. \A u \in Turn : u \in SpentBar' <=> u \in SpentBar \/ u = active[s]
      BY <2>1, <2>2
    <3>4. QED
      BY <1>7, <2>2, <2>3, <2>4, <3>1, <3>2, <3>3
  <2>5. CASE active[s] \in cancelled
    <3>1. cancelled' = cancelled
      BY <2>1, <2>5
    <3>2. QED
      BY <2>1, <2>3, <3>1 DEF OwnerBar, Holder
  <2>6. QED
    BY <2>4, <2>5
<1>11. ASSUME NEW s \in Session, SetModel(s)
       PROVE  UNCHANGED <<OwnerBar, SpentBar, WorkBar>>
  BY <1>11 DEF SetModel, OwnerBar, WorkBar, Holder
<1>12. ASSUME Restart PROVE Slot!Next
  <2>0. PICK lost \in SUBSET Turn :
               lost = {t \in Turn : pc[t] \in Running \cup {"allocated"}}
    OBVIOUS
  <2>1. /\ pc' = [t \in Turn |-> IF t \in lost THEN "done" ELSE pc[t]]
        /\ active' = [s \in Session |-> NoTurn]
        /\ UNCHANGED <<sessionOf, cancelled, requests, toolsRun>>
    BY <1>12, <2>0 DEF Restart
  <2>2. UNCHANGED WorkBar
    BY <2>1 DEF WorkBar
  <2>3. OwnerBar' = [s \in Session |-> NoTurn]
    BY <2>1 DEF OwnerBar, Holder
  <2>4. SpentBar' = SpentBar \cup ({Holder(s) : s \in Session} \ {NoTurn}) \cup lost
    <3>1. {Holder(s) : s \in Session} \ {NoTurn} \subseteq lost
      BY <2>0
    <3>2. SpentBar' = SpentBar \cup lost
      BY <2>0, <2>1 DEF Running
    <3>3. QED
      BY <3>1, <3>2
  <2>5. Slot!Revoke(Session, lost)
    BY <2>2, <2>3, <2>4, SlotRevokesAll
  <2>6. QED
    BY <2>5 DEF Slot!Next
<1>13. ASSUME UNCHANGED vars
       PROVE  UNCHANGED <<OwnerBar, SpentBar, WorkBar>>
  BY <1>13 DEF vars, OwnerBar, WorkBar, Holder
<1>14. QED
  BY <1>3, <1>4, <1>5, <1>6, <1>8, <1>9, <1>10, <1>11, <1>12, <1>13, RunningSteps
     DEF Next, IInv

(* SlotSpec: the manager implements TurnSlot. At most one turn of a session *)
(* may start an LLM request or a tool, and a turn that has lost that right  *)
(* to an abort, a newer prompt or a crash never gets it back.               *)
THEOREM ManagerImplementsSlot == Spec => SlotSpec
<1>1. IInv /\ IInv' /\ [Next]_vars => [Slot!Next]_(Slot!slotVars)
  BY SlotSteps
<1>2. QED
  BY SlotInit, <1>1, IInvHolds, PTL DEF Spec, SlotSpec, Slot!Spec

(***************************************************************************)
(* Histories. The recursion of Messages and the count of HistoryStart are  *)
(* reasoned about by a least counterexample; what a history looks like is  *)
(* a property of sequences and of a set of turns, so that one lemma serves *)
(* the state before and the state after a step.                            *)
(***************************************************************************)
(* Every non-empty set of naturals has a least element.                     *)
LEMMA Least ==
  ASSUME NEW S \in SUBSET Nat, S # {}
  PROVE  \E n \in S : \A m \in S : n <= m
<1> DEFINE R == OpToRel(<, Nat)
<1>1. IsWellFoundedOn(R, Nat)
  BY NatLessThanWellFounded
<1>2. \A m, n \in Nat : <<m, n>> \in R <=> m < n
  BY DEF OpToRel
<1> HIDE DEF R
<1>3. PICK n \in S : \A m \in S : ~ (<<m, n>> \in R)
  BY <1>1, WFMin
<1>4. \A m \in S : m \in Nat /\ n \in Nat /\ ~ (m < n)
  <2> SUFFICES ASSUME NEW m \in S PROVE m \in Nat /\ n \in Nat /\ ~ (m < n)
    OBVIOUS
  <2>1. m \in Nat /\ n \in Nat
    OBVIOUS
  <2>2. ~ (<<m, n>> \in R)
    BY <1>3
  <2>3. <<m, n>> \in R <=> m < n
    BY <1>2, <2>1
  <2>4. QED
    BY <2>1, <2>2, <2>3
<1>5. QED
  BY <1>4

(***************************************************************************)
(* Messages: the recursion has a solution, and each line adds itself.      *)
(***************************************************************************)
Added(msgs, e) == IF e.kind = "model" THEN msgs ELSE Append(msgs, e)

IsScan(f, lines, n) ==
  f = [i \in 0..n |-> IF i = 0 THEN <<>> ELSE Added(f[i - 1], lines[i])]

LEMMA ScanExists ==
  ASSUME NEW lines, NEW n \in Nat
  PROVE  \E f : IsScan(f, lines, n)
<1> SUFFICES ASSUME ~ \E f : IsScan(f, lines, n) PROVE FALSE
  OBVIOUS
<1> DEFINE Lengths == {k \in Nat : ~ \E f : IsScan(f, lines, k)}
<1>1. PICK k \in Lengths : \A j \in Lengths : k <= j
  <2>1. n \in Lengths /\ Lengths \in SUBSET Nat
    OBVIOUS
  <2> HIDE DEF Lengths
  <2>2. QED
    BY <2>1, Least
<1>2. CASE k = 0
  <2>1. IsScan([i \in 0..0 |-> <<>>], lines, 0)
    BY DEF IsScan
  <2>2. QED
    BY <1>1, <1>2, <2>1
<1>3. CASE k # 0
  <2>1. k - 1 \in Nat /\ k - 1 \notin Lengths
    BY <1>1, <1>3
  <2>2. PICK f : IsScan(f, lines, k - 1)
    BY <2>1
  <2> DEFINE g == [i \in 0..k |-> IF i = k THEN Added(f[k - 1], lines[k]) ELSE f[i]]
  <2>3. \A i \in 0..(k - 1) : f[i] = IF i = 0 THEN <<>> ELSE Added(f[i - 1], lines[i])
    BY <2>2 DEF IsScan
  <2>4. \A i \in 0..k : g[i] = IF i = 0 THEN <<>> ELSE Added(g[i - 1], lines[i])
    <3> SUFFICES ASSUME NEW i \in 0..k
                 PROVE  g[i] = IF i = 0 THEN <<>> ELSE Added(g[i - 1], lines[i])
      OBVIOUS
    <3>1. CASE i = k
      BY <1>3, <3>1, <2>1
    <3>2. CASE i # k
      <4>1. i \in 0..(k - 1) /\ g[i] = f[i] /\ (i # 0 => g[i - 1] = f[i - 1])
        BY <3>2, <2>1
      <4>2. QED
        BY <4>1, <2>3
    <3>3. QED
      BY <3>1, <3>2
  <2>5. g = [i \in 0..k |-> g[i]]
    OBVIOUS
  <2> HIDE DEF g
  <2>6. IsScan(g, lines, k)
    BY <2>4, <2>5 DEF IsScan
  <2>7. QED
    BY <1>1, <2>6
<1>4. QED
  BY <1>2, <1>3

LEMMA MessagesByScan ==
  ASSUME NEW S, NEW lines \in Seq(S)
  PROVE  \E f : IsScan(f, lines, Len(lines)) /\ Messages(lines) = f[Len(lines)]
<1> DEFINE f == CHOOSE f : IsScan(f, lines, Len(lines))
<1>1. IsScan(f, lines, Len(lines))
  BY ScanExists, LenProperties
<1>2. Messages(lines) = f[Len(lines)]
  BY DEF Messages, IsScan, Added
<1>3. QED
  BY <1>1, <1>2

LEMMA ScanStep ==
  ASSUME NEW f, NEW lines, NEW n \in Nat, IsScan(f, lines, n), NEW i \in 0..n
  PROVE  f[i] = IF i = 0 THEN <<>> ELSE Added(f[i - 1], lines[i])
  BY DEF IsScan

LEMMA ScanType ==
  ASSUME NEW S, NEW lines \in Seq(S), NEW f, IsScan(f, lines, Len(lines)),
         NEW n \in 0..Len(lines)
  PROVE  f[n] \in Seq(S)
<1> SUFFICES ASSUME f[n] \notin Seq(S) PROVE FALSE
  OBVIOUS
<1> DEFINE Wrong == {k \in 0..Len(lines) : f[k] \notin Seq(S)}
<1>0. Len(lines) \in Nat
  BY LenProperties
<1>1. PICK k \in Wrong : \A j \in Wrong : k <= j
  <2>1. n \in Wrong /\ Wrong \in SUBSET Nat
    BY <1>0
  <2> HIDE DEF Wrong
  <2>2. QED
    BY <2>1, Least
<1>2. k \in 0..Len(lines) /\ f[k] \notin Seq(S)
  OBVIOUS
<1>3. f[k] = IF k = 0 THEN <<>> ELSE Added(f[k - 1], lines[k])
  BY <1>0, <1>2, ScanStep
<1>4. k # 0
  BY <1>2, <1>3, EmptySeq
<1>5. k - 1 \in 0..Len(lines) /\ k - 1 \notin Wrong
  BY <1>0, <1>1, <1>2, <1>4
<1>6. f[k - 1] \in Seq(S) /\ lines[k] \in S
  BY <1>0, <1>2, <1>4, <1>5, ElementOfSeq
<1>7. Added(f[k - 1], lines[k]) \in Seq(S)
  BY <1>6, AppendProperties DEF Added
<1>8. QED
  BY <1>2, <1>3, <1>4, <1>7

(* The messages of a journal are some of its lines.                          *)
LEMMA MessagesType ==
  ASSUME NEW S, NEW lines \in Seq(S)
  PROVE  Messages(lines) \in Seq(S)
<1>1. PICK f : IsScan(f, lines, Len(lines)) /\ Messages(lines) = f[Len(lines)]
  BY MessagesByScan
<1>2. Len(lines) \in 0..Len(lines)
  BY LenProperties
<1>3. QED
  BY <1>1, <1>2, ScanType

(* A line more: what was read before it is read as before.                   *)
LEMMA ScanAgrees ==
  ASSUME NEW S, NEW lines \in Seq(S), NEW e \in S,
         NEW f, IsScan(f, lines, Len(lines)),
         NEW g, IsScan(g, Append(lines, e), Len(lines) + 1),
         NEW n \in 0..Len(lines)
  PROVE  g[n] = f[n]
<1> SUFFICES ASSUME g[n] # f[n] PROVE FALSE
  OBVIOUS
<1> DEFINE Differ == {k \in 0..Len(lines) : g[k] # f[k]}
<1>0. Len(lines) \in Nat
  BY LenProperties
<1>1. PICK k \in Differ : \A j \in Differ : k <= j
  <2>1. n \in Differ /\ Differ \in SUBSET Nat
    BY <1>0
  <2> HIDE DEF Differ
  <2>2. QED
    BY <2>1, Least
<1>2. k \in 0..Len(lines) /\ g[k] # f[k]
  OBVIOUS
<1>3. f[k] = IF k = 0 THEN <<>> ELSE Added(f[k - 1], lines[k])
  BY <1>0, <1>2, ScanStep
<1>4. g[k] = IF k = 0 THEN <<>> ELSE Added(g[k - 1], Append(lines, e)[k])
  <2>1. k \in 0..(Len(lines) + 1) /\ Len(lines) + 1 \in Nat
    BY <1>0, <1>2
  <2>2. QED
    BY <2>1, ScanStep
<1>5. k # 0
  BY <1>2, <1>3, <1>4
<1>6. k - 1 \in 0..Len(lines) /\ k - 1 \notin Differ
  BY <1>0, <1>1, <1>2, <1>5
<1>7. g[k - 1] = f[k - 1]
  BY <1>6
<1>8. Append(lines, e)[k] = lines[k]
  BY <1>0, <1>2, <1>5, AppendProperties
<1>9. QED
  BY <1>2, <1>3, <1>4, <1>5, <1>7, <1>8

LEMMA MessagesOfAppend ==
  ASSUME NEW S, NEW lines \in Seq(S), NEW e \in S
  PROVE  Messages(Append(lines, e)) = Added(Messages(lines), e)
<1>0. /\ Len(lines) \in Nat /\ Append(lines, e) \in Seq(S)
      /\ Len(Append(lines, e)) = Len(lines) + 1
      /\ Append(lines, e)[Len(lines) + 1] = e
  BY LenProperties, AppendProperties
<1>1. PICK f : IsScan(f, lines, Len(lines)) /\ Messages(lines) = f[Len(lines)]
  BY MessagesByScan
<1>2. PICK g : /\ IsScan(g, Append(lines, e), Len(lines) + 1)
               /\ Messages(Append(lines, e)) = g[Len(lines) + 1]
  <2>1. \E g : /\ IsScan(g, Append(lines, e), Len(Append(lines, e)))
               /\ Messages(Append(lines, e)) = g[Len(Append(lines, e))]
    BY <1>0, MessagesByScan
  <2>2. QED
    BY <1>0, <2>1
<1>3. g[Len(lines) + 1] = Added(g[Len(lines)], e)
  <2>1. Len(lines) + 1 \in 0..(Len(lines) + 1) /\ Len(lines) + 1 \in Nat
        /\ Len(lines) + 1 # 0 /\ (Len(lines) + 1) - 1 = Len(lines)
    BY <1>0
  <2>2. g[Len(lines) + 1] = IF Len(lines) + 1 = 0 THEN <<>>
          ELSE Added(g[(Len(lines) + 1) - 1], Append(lines, e)[Len(lines) + 1])
    BY <1>2, <2>1, ScanStep
  <2>3. QED
    BY <1>0, <2>1, <2>2
<1>4. g[Len(lines)] = f[Len(lines)]
  <2>1. Len(lines) \in 0..Len(lines)
    BY <1>0
  <2>2. QED
    BY <1>1, <1>2, <2>1, ScanAgrees
<1>5. QED
  BY <1>1, <1>2, <1>3, <1>4

(***************************************************************************)
(* Where the oldest turn kept begins.                                      *)
(***************************************************************************)
UsersFrom(msgs, n) == {j \in 1..Len(msgs) : msgs[j].kind = "user" /\ j >= n}

LEMMA UsersAreFinite ==
  ASSUME NEW S, NEW msgs \in Seq(S), NEW n \in Nat
  PROVE  IsFiniteSet(UsersFrom(msgs, n)) /\ Cardinality(UsersFrom(msgs, n)) \in Nat
<1>1. Len(msgs) \in Nat
  BY LenProperties
<1>2. IsFiniteSet(1..Len(msgs))
  BY <1>1, FS_Interval
<1>3. UsersFrom(msgs, n) \in SUBSET (1..Len(msgs))
  BY DEF UsersFrom
<1>4. QED
  BY <1>2, <1>3, FS_Subset, FS_CardinalityType

LEMMA OneUserLess ==
  ASSUME NEW S, NEW msgs \in Seq(S), NEW n \in 1..Len(msgs)
  PROVE  Cardinality(UsersFrom(msgs, n)) =
           Cardinality(UsersFrom(msgs, n + 1)) + IF msgs[n].kind = "user" THEN 1 ELSE 0
<1>1. Len(msgs) \in Nat /\ n \in Nat /\ n + 1 \in Nat
  BY LenProperties
<1>2. IsFiniteSet(UsersFrom(msgs, n + 1)) /\ Cardinality(UsersFrom(msgs, n + 1)) \in Nat
  BY <1>1, UsersAreFinite
<1>3. CASE msgs[n].kind = "user"
  <2>1. UsersFrom(msgs, n) = UsersFrom(msgs, n + 1) \cup {n} /\ n \notin UsersFrom(msgs, n + 1)
    BY <1>1, <1>3 DEF UsersFrom
  <2>2. QED
    BY <1>2, <1>3, <2>1, FS_AddElement
<1>4. CASE msgs[n].kind # "user"
  <2>1. UsersFrom(msgs, n) = UsersFrom(msgs, n + 1)
    BY <1>1, <1>4 DEF UsersFrom
  <2>2. QED
    BY <1>2, <1>4, <2>1
<1>5. QED
  BY <1>3, <1>4

(* There is a last position behind which HistoryTurns users stand.            *)
LEMMA KeptTurnExists ==
  ASSUME NEW S, NEW msgs \in Seq(S), Cardinality(UsersFrom(msgs, 1)) > HistoryTurns
  PROVE  \E i \in 1..Len(msgs) : /\ msgs[i].kind = "user"
                                 /\ Cardinality(UsersFrom(msgs, i)) = HistoryTurns
<1> DEFINE Count(n) == Cardinality(UsersFrom(msgs, n))
           Few == {n \in Nat : n >= 1 /\ n <= Len(msgs) + 1 /\ Count(n) < HistoryTurns}
<1>0. Len(msgs) \in Nat /\ HistoryTurns \in Nat \ {0}
  BY LenProperties, BoundsAssumption
<1>1. \A n \in Nat : Count(n) \in Nat
  BY UsersAreFinite
<1>2. Count(Len(msgs) + 1) = 0
  <2>1. UsersFrom(msgs, Len(msgs) + 1) = {}
    BY <1>0 DEF UsersFrom
  <2>2. QED
    BY <2>1, FS_EmptySet
<1>3. \A n \in 1..Len(msgs) : Count(n) = Count(n + 1) + IF msgs[n].kind = "user" THEN 1 ELSE 0
  BY OneUserLess
<1>4. Count(1) > HistoryTurns
  OBVIOUS
<1> HIDE DEF Count
<1>5. Len(msgs) + 1 \in Few
  BY <1>0, <1>2
<1>6. PICK n \in Few : \A m \in Few : n <= m
  <2>1. Few \in SUBSET Nat /\ Few # {}
    BY <1>5
  <2> HIDE DEF Few
  <2>2. QED
    BY <2>1, Least
<1>7. n \in Nat /\ n >= 1 /\ n <= Len(msgs) + 1 /\ Count(n) < HistoryTurns
  OBVIOUS
<1>8. n # 1
  BY <1>0, <1>1, <1>4, <1>7
<1>9. n - 1 \in 1..Len(msgs) /\ n - 1 \in Nat /\ ~ (n - 1 \in Few)
  BY <1>0, <1>6, <1>7, <1>8
<1>10. Count(n - 1) >= HistoryTurns
  <2>1. n - 1 >= 1 /\ n - 1 <= Len(msgs) + 1
    BY <1>0, <1>7, <1>9
  <2>2. ~ (Count(n - 1) < HistoryTurns)
    BY <1>9, <2>1
  <2>3. Count(n - 1) \in Nat
    BY <1>1, <1>9
  <2>4. QED
    BY <1>0, <2>2, <2>3
<1>11. Count(n - 1) = Count(n) + IF msgs[n - 1].kind = "user" THEN 1 ELSE 0
  <2>1. (n - 1) + 1 = n
    BY <1>7
  <2>2. QED
    BY <1>3, <1>9, <2>1
<1>12. msgs[n - 1].kind = "user" /\ Count(n - 1) = HistoryTurns
  <2>1. Count(n) \in Nat /\ Count(n - 1) \in Nat /\ Count(n) < HistoryTurns
    BY <1>1, <1>7, <1>9
  <2>2. QED
    BY <1>0, <1>10, <1>11, <2>1
<1>13. QED
  BY <1>9, <1>12 DEF Count

(* A pruned history begins with a user message, or nothing was pruned.        *)
LEMMA HistoryStartsAtUser ==
  ASSUME NEW S, NEW msgs \in Seq(S)
  PROVE  \/ HistoryStart(msgs) = 1
         \/ /\ HistoryStart(msgs) \in 1..Len(msgs)
            /\ msgs[HistoryStart(msgs)].kind = "user"
<1> DEFINE users == {i \in 1..Len(msgs) : msgs[i].kind = "user"}
<1>1. Len(msgs) \in Nat
  BY LenProperties
<1>2. \A i \in 1..Len(msgs) : {j \in users : j >= i} = UsersFrom(msgs, i)
  BY DEF UsersFrom
<1>3. users = UsersFrom(msgs, 1)
  BY <1>1 DEF UsersFrom
<1>4. Cardinality(users) \in Nat /\ HistoryTurns \in Nat
  BY <1>3, UsersAreFinite, BoundsAssumption
<1>5. CASE Cardinality(users) <= HistoryTurns
  BY <1>5 DEF HistoryStart
<1>6. CASE ~ (Cardinality(users) <= HistoryTurns)
  <2>1. \E i \in users : Cardinality({j \in users : j >= i}) = HistoryTurns
    <3>1. PICK i \in 1..Len(msgs) : /\ msgs[i].kind = "user"
                                    /\ Cardinality(UsersFrom(msgs, i)) = HistoryTurns
      <4>1. Cardinality(UsersFrom(msgs, 1)) > HistoryTurns
        <5> HIDE DEF users
        <5>1. QED
          BY <1>3, <1>4, <1>6
      <4>2. QED
        BY <4>1, KeptTurnExists
    <3>2. QED
      BY <1>2, <3>1
  <2>2. HistoryStart(msgs) = CHOOSE i \in users : Cardinality({j \in users : j >= i}) = HistoryTurns
    BY <1>6 DEF HistoryStart
  <2>3. HistoryStart(msgs) \in users
    BY <2>1, <2>2
  <2>4. QED
    BY <2>3
<1>7. QED
  BY <1>5, <1>6

(***************************************************************************)
(* Histories as sequences of messages. D is the set of disturbed turns.     *)
(* Between a call and its results stand, for all one can tell of messages   *)
(* that are not of disturbed turns, only results; a call that lacks         *)
(* results is followed by nothing else.                                     *)
(***************************************************************************)
Good(D, e) == e.turn \notin D /\ e.kind # "critique"
Clean(D, msgs, i, j) == \A k \in i..j : Good(D, msgs[k])

AnswersFollow(D, msgs) ==
  \A i \in 1..Len(msgs) : msgs[i].kind = "call" =>
     \A j \in 1..Len(msgs) :
        i < j /\ j <= i + msgs[i].calls /\ Clean(D, msgs, i, j) => msgs[j].kind = "result"

\* Message i is the call that those behind it answer.
CallAt(D, msgs, i) ==
  /\ i \in 1..Len(msgs) /\ msgs[i].kind = "call"
  /\ \A k \in 1..Len(msgs) : i < k /\ Good(D, msgs[k]) => msgs[k].kind = "result"

ResultsBelong(D, msgs) ==
  \A j \in 1..Len(msgs) : msgs[j].kind = "result" /\ Good(D, msgs[j]) =>
     \E i \in 1..Len(msgs) :
        /\ i < j /\ msgs[i].kind = "call"
        /\ \A k \in 1..Len(msgs) : i < k /\ k <= j /\ Good(D, msgs[k]) => msgs[k].kind = "result"
        /\ Clean(D, msgs, i, j) => j <= i + msgs[i].calls

Open(D, msgs, i) ==
  /\ i \in 1..Len(msgs) /\ msgs[i].kind = "call"
  /\ Clean(D, msgs, i, Len(msgs)) /\ i + msgs[i].calls > Len(msgs)

\* n results of turn u's last call are to come.
Pending(D, msgs, u, n) ==
  \E i \in 1..Len(msgs) :
     /\ CallAt(D, msgs, i) /\ msgs[i].turn = u
     /\ Clean(D, msgs, i, Len(msgs)) => i + msgs[i].calls = Len(msgs) + n

Sound(D, msgs) ==
  AnswersFollow(D, msgs) /\ ResultsBelong(D, msgs) /\ \A i \in 1..Len(msgs) : ~ Open(D, msgs, i)

(* The more turns are disturbed, the less is claimed.                        *)
LEMMA MoreDisturbed ==
  ASSUME NEW D, NEW E, D \subseteq E, NEW msgs
  PROVE  /\ AnswersFollow(D, msgs) => AnswersFollow(E, msgs)
         /\ ResultsBelong(D, msgs) => ResultsBelong(E, msgs)
         /\ \A i : Open(E, msgs, i) => Open(D, msgs, i)
         /\ \A u, n : Pending(D, msgs, u, n) => Pending(E, msgs, u, n)
         /\ Sound(D, msgs) => Sound(E, msgs)
<1>1. \A e : Good(E, e) => Good(D, e)
  BY DEF Good
<1>2. \A i, j : Clean(E, msgs, i, j) => Clean(D, msgs, i, j)
  BY <1>1 DEF Clean
<1>3. AnswersFollow(D, msgs) => AnswersFollow(E, msgs)
  BY <1>2 DEF AnswersFollow
<1>4. ResultsBelong(D, msgs) => ResultsBelong(E, msgs)
  BY <1>1, <1>2 DEF ResultsBelong
<1>5. \A i : Open(E, msgs, i) => Open(D, msgs, i)
  BY <1>2 DEF Open
<1>6. \A u, n : Pending(D, msgs, u, n) => Pending(E, msgs, u, n)
  BY <1>1, <1>2 DEF Pending, CallAt
<1>7. QED
  BY <1>3, <1>4, <1>5, <1>6 DEF Sound

LEMMA CleanAppend ==
  ASSUME NEW D, NEW msgs \in Seq(Entry), NEW e \in Entry,
         NEW i \in 1..Len(msgs)
  PROVE  /\ \A j \in 1..Len(msgs) : Clean(D, Append(msgs, e), i, j) <=> Clean(D, msgs, i, j)
         /\ Clean(D, Append(msgs, e), i, Len(msgs) + 1)
              <=> Clean(D, msgs, i, Len(msgs)) /\ Good(D, e)
<1>1. /\ Len(msgs) \in Nat
      /\ \A k \in 1..Len(msgs) : Append(msgs, e)[k] = msgs[k]
      /\ Append(msgs, e)[Len(msgs) + 1] = e
  BY LenProperties, AppendProperties
<1>2. \A j \in 1..Len(msgs) : \A k \in i..j : k \in 1..Len(msgs)
  BY <1>1
<1>3. \A j \in 1..Len(msgs) : Clean(D, Append(msgs, e), i, j) <=> Clean(D, msgs, i, j)
  BY <1>1, <1>2 DEF Clean
<1>4. i..(Len(msgs) + 1) = (i..Len(msgs)) \cup {Len(msgs) + 1}
  BY <1>1
<1>5. Clean(D, Append(msgs, e), i, Len(msgs) + 1)
              <=> Clean(D, msgs, i, Len(msgs)) /\ Good(D, e)
  <2>1. \A k \in i..Len(msgs) : k \in 1..Len(msgs) /\ Append(msgs, e)[k] = msgs[k]
    BY <1>1
  <2>2. QED
    BY <1>1, <1>4, <2>1 DEF Clean
<1>6. QED
  BY <1>3, <1>5

LEMMA AppendFacts ==
  ASSUME NEW msgs \in Seq(Entry), NEW e \in Entry
  PROVE  /\ Len(msgs) \in Nat
         /\ Append(msgs, e) \in Seq(Entry)
         /\ Len(Append(msgs, e)) = Len(msgs) + 1
         /\ \A k \in 1..Len(msgs) : Append(msgs, e)[k] = msgs[k] /\ msgs[k].calls \in Nat
         /\ Append(msgs, e)[Len(msgs) + 1] = e
         /\ \A k \in 1..(Len(msgs) + 1) : k \in 1..Len(msgs) \/ k = Len(msgs) + 1
<1>1. Len(msgs) \in Nat
  BY LenProperties
<1>2. ASSUME NEW k \in 1..Len(msgs) PROVE msgs[k].calls \in Nat
  <2>1. msgs[k] \in Entry
    BY ElementOfSeq
  <2>2. QED
    BY <2>1 DEF Entry
<1>3. QED
  BY <1>1, <1>2, AppendProperties

LEMMA AnswersFollowAppend ==
  ASSUME NEW D, NEW msgs \in Seq(Entry), NEW e \in Entry, AnswersFollow(D, msgs),
         Good(D, e) /\ e.kind # "result" => \A i \in 1..Len(msgs) : ~ Open(D, msgs, i)
  PROVE  AnswersFollow(D, Append(msgs, e))
<1> DEFINE more == Append(msgs, e)
<1> SUFFICES ASSUME NEW i \in 1..(Len(msgs) + 1), NEW j \in 1..(Len(msgs) + 1),
                    more[i].kind = "call", i < j, j <= i + more[i].calls,
                    Clean(D, more, i, j)
             PROVE  more[j].kind = "result"
  BY AppendFacts DEF AnswersFollow
<1>1. i \in 1..Len(msgs) /\ more[i] = msgs[i] /\ msgs[i].calls \in Nat
  BY AppendFacts
<1>2. CASE j \in 1..Len(msgs)
  <2>1. Clean(D, msgs, i, j) /\ more[j] = msgs[j]
    BY <1>1, <1>2, CleanAppend, AppendFacts
  <2>2. QED
    BY <1>1, <1>2, <2>1 DEF AnswersFollow
<1>3. CASE j = Len(msgs) + 1
  <2>1. Clean(D, msgs, i, Len(msgs)) /\ Good(D, e) /\ more[j] = e /\ Len(msgs) \in Nat
    BY <1>1, <1>3, CleanAppend, AppendFacts
  <2>2. i + msgs[i].calls > Len(msgs)
    BY <1>1, <1>3, <2>1
  <2>3. Open(D, msgs, i)
    BY <1>1, <2>1, <2>2 DEF Open
  <2>4. QED
    BY <1>1, <2>1, <2>3
<1>4. QED
  BY <1>2, <1>3, AppendFacts

LEMMA ResultsBelongAppend ==
  ASSUME NEW D, NEW msgs \in Seq(Entry), NEW e \in Entry, ResultsBelong(D, msgs),
         Good(D, e) /\ e.kind = "result" =>
            \E n \in Nat \ {0} : Pending(D, msgs, e.turn, n)
  PROVE  ResultsBelong(D, Append(msgs, e))
<1> DEFINE more == Append(msgs, e)
<1> SUFFICES ASSUME NEW j \in 1..(Len(msgs) + 1), more[j].kind = "result", Good(D, more[j])
             PROVE  \E i \in 1..(Len(msgs) + 1) :
        /\ i < j /\ more[i].kind = "call"
        /\ \A k \in 1..(Len(msgs) + 1) :
              i < k /\ k <= j /\ Good(D, more[k]) => more[k].kind = "result"
        /\ Clean(D, more, i, j) => j <= i + more[i].calls
  BY AppendFacts DEF ResultsBelong
<1>1. CASE j \in 1..Len(msgs)
  <2>1. PICK i \in 1..Len(msgs) :
        /\ i < j /\ msgs[i].kind = "call"
        /\ \A k \in 1..Len(msgs) : i < k /\ k <= j /\ Good(D, msgs[k]) => msgs[k].kind = "result"
        /\ Clean(D, msgs, i, j) => j <= i + msgs[i].calls
    BY <1>1, AppendFacts DEF ResultsBelong
  <2>2. \A k \in 1..(Len(msgs) + 1) : k <= j => k \in 1..Len(msgs) /\ more[k] = msgs[k]
    BY <1>1, AppendFacts
  <2>3. i \in 1..(Len(msgs) + 1) /\ more[i] = msgs[i] /\ (Clean(D, more, i, j) <=> Clean(D, msgs, i, j))
    BY <1>1, <2>1, AppendFacts, CleanAppend
  <2> HIDE DEF more
  <2>4. QED
    BY <2>1, <2>2, <2>3
<1>2. CASE j = Len(msgs) + 1
  <2>1. more[j] = e /\ Len(msgs) \in Nat
    BY <1>2, AppendFacts
  <2>2. PICK n \in Nat \ {0} : Pending(D, msgs, e.turn, n)
    BY <2>1
  <2>3. PICK i \in 1..Len(msgs) :
           /\ CallAt(D, msgs, i) /\ msgs[i].turn = e.turn
           /\ Clean(D, msgs, i, Len(msgs)) => i + msgs[i].calls = Len(msgs) + n
    BY <2>2 DEF Pending
  <2>4. i \in 1..(Len(msgs) + 1) /\ i < j /\ more[i] = msgs[i] /\ msgs[i].calls \in Nat
    BY <1>2, <2>1, AppendFacts
  <2>5. Clean(D, more, i, j) => Clean(D, msgs, i, Len(msgs))
    BY <1>2, CleanAppend
  <2>6. Clean(D, more, i, j) => j <= i + more[i].calls
    BY <1>2, <2>1, <2>3, <2>4, <2>5
  <2>7. \A k \in 1..(Len(msgs) + 1) :
           i < k /\ k <= j /\ Good(D, more[k]) => more[k].kind = "result"
    <3> SUFFICES ASSUME NEW k \in 1..(Len(msgs) + 1), i < k, Good(D, more[k])
                 PROVE  more[k].kind = "result"
      OBVIOUS
    <3>1. CASE k = Len(msgs) + 1
      BY <1>2, <3>1
    <3>2. CASE k \in 1..Len(msgs)
      <4>1. more[k] = msgs[k]
        BY <3>2, AppendFacts
      <4>2. QED
        BY <2>3, <3>2, <4>1 DEF CallAt
    <3>3. QED
      BY <3>1, <3>2, AppendFacts
  <2>8. more[i].kind = "call"
    BY <2>3, <2>4 DEF CallAt
  <2> HIDE DEF more
  <2>9. QED
    BY <2>4, <2>6, <2>7, <2>8
<1>3. QED
  BY <1>1, <1>2, AppendFacts

LEMMA OpenAppend ==
  ASSUME NEW D, NEW msgs \in Seq(Entry), NEW e \in Entry,
         NEW i, Open(D, Append(msgs, e), i)
  PROVE  /\ Good(D, e)
         /\ \/ /\ i \in 1..Len(msgs) /\ Append(msgs, e)[i] = msgs[i]
               /\ Open(D, msgs, i)
               /\ msgs[i].calls \in Nat
            \/ i = Len(msgs) + 1 /\ Append(msgs, e)[i] = e /\ e.kind = "call"
<1> DEFINE more == Append(msgs, e)
<1>1. /\ i \in 1..(Len(msgs) + 1) /\ more[i].kind = "call"
      /\ Clean(D, more, i, Len(msgs) + 1) /\ i + more[i].calls > Len(msgs) + 1
  BY AppendFacts DEF Open
<1>2. CASE i \in 1..Len(msgs)
  <2>1. more[i] = msgs[i] /\ msgs[i].calls \in Nat /\ Len(msgs) \in Nat
    BY <1>2, AppendFacts
  <2>2. Clean(D, msgs, i, Len(msgs)) /\ Good(D, e)
    BY <1>1, <1>2, CleanAppend
  <2>3. i + msgs[i].calls > Len(msgs)
    BY <1>1, <1>2, <2>1
  <2>4. QED
    BY <1>1, <1>2, <2>1, <2>2, <2>3 DEF Open
<1>3. CASE i = Len(msgs) + 1
  <2>1. more[i] = e /\ i \in i..(Len(msgs) + 1)
    BY <1>3, AppendFacts
  <2>2. Good(D, more[i])
    BY <1>1, <2>1 DEF Clean
  <2>3. QED
    BY <1>1, <1>3, <2>1, <2>2
<1>4. QED
  BY <1>1, <1>2, <1>3, AppendFacts

(* Another result of the batch, or a line of a disturbed turn.                *)
LEMMA PendingAppend ==
  ASSUME NEW D, NEW msgs \in Seq(Entry), NEW e \in Entry,
         NEW u, NEW n \in Nat, NEW m \in Nat, Pending(D, msgs, u, n),
         Good(D, e) => e.kind = "result" /\ n = m + 1
  PROVE  Pending(D, Append(msgs, e), u, m)
<1> DEFINE more == Append(msgs, e)
<1>1. PICK i \in 1..Len(msgs) :
           /\ CallAt(D, msgs, i) /\ msgs[i].turn = u
           /\ Clean(D, msgs, i, Len(msgs)) => i + msgs[i].calls = Len(msgs) + n
  BY DEF Pending
<1>2. /\ i \in 1..Len(more) /\ Len(more) = Len(msgs) + 1 /\ more[i] = msgs[i]
      /\ msgs[i].calls \in Nat /\ Len(msgs) \in Nat
  BY AppendFacts
<1>3. CallAt(D, more, i)
  <2>1. ASSUME NEW k \in 1..Len(more), i < k, Good(D, more[k])
        PROVE  more[k].kind = "result"
    <3>1. CASE k \in 1..Len(msgs)
      <4>1. more[k] = msgs[k]
        BY <3>1, AppendFacts
      <4>2. QED
        BY <1>1, <2>1, <3>1, <4>1 DEF CallAt
    <3>2. CASE k = Len(msgs) + 1
      <4>1. more[k] = e
        BY <3>2, AppendFacts
      <4>2. QED
        BY <2>1, <4>1
    <3>3. QED
      BY <1>2, <3>1, <3>2, AppendFacts
  <2>2. more[i].kind = "call"
    BY <1>1, <1>2 DEF CallAt
  <2>3. QED
    BY <1>2, <2>1, <2>2 DEF CallAt
<1>4. ASSUME Clean(D, more, i, Len(more))
      PROVE  i + more[i].calls = Len(more) + m
  <2>1. Clean(D, msgs, i, Len(msgs)) /\ Good(D, e)
    BY <1>2, <1>4, CleanAppend
  <2>2. QED
    BY <1>1, <1>2, <2>1
<1>5. more[i].turn = u
  BY <1>1, <1>2
<1>6. Pending(D, more, u, m)
  <2> HIDE DEF more
  <2>1. QED
    BY <1>2, <1>3, <1>4, <1>5 DEF Pending
<1>7. QED
  BY <1>6

(* A call opens a batch.                                                      *)
LEMMA CallOpensBatch ==
  ASSUME NEW D, NEW msgs \in Seq(Entry), NEW e \in Entry, e.kind = "call"
  PROVE  Pending(D, Append(msgs, e), e.turn, e.calls)
<1> DEFINE more == Append(msgs, e)
           i == Len(msgs) + 1
<1>1. /\ i \in 1..Len(more) /\ Len(more) = i /\ more[i] = e /\ Len(msgs) \in Nat
  BY AppendFacts
<1>2. CallAt(D, more, i)
  BY <1>1 DEF CallAt
<1>3. QED
  BY <1>1, <1>2 DEF Pending

(* What earlier runs left is sound if it is well formed.                      *)
LEMMA WellFormedIsSound ==
  ASSUME NEW D, NEW msgs \in Seq(Entry), WellFormed(msgs)
  PROVE  Sound(D, msgs)
<1>1. Len(msgs) \in Nat /\ \A k \in 1..Len(msgs) : msgs[k].calls \in Nat
  <2>1. ASSUME NEW k \in 1..Len(msgs) PROVE msgs[k].calls \in Nat
    <3>1. msgs[k] \in Entry
      BY ElementOfSeq
    <3>2. QED
      BY <3>1 DEF Entry
  <2>2. QED
    BY <2>1, LenProperties
<1>2. \A i \in 1..Len(msgs) : msgs[i].kind = "call" =>
         \A j \in (i + 1)..(i + msgs[i].calls) : j <= Len(msgs) /\ msgs[j].kind = "result"
  BY DEF WellFormed
<1>3. \A j \in 1..Len(msgs) : msgs[j].kind = "result" =>
         \E i \in 1..Len(msgs) : msgs[i].kind = "call" /\ j \in (i + 1)..(i + msgs[i].calls)
  BY DEF WellFormed
<1>4. AnswersFollow(D, msgs)
  BY <1>1, <1>2 DEF AnswersFollow
<1>5. ResultsBelong(D, msgs)
  <2> SUFFICES ASSUME NEW j \in 1..Len(msgs), msgs[j].kind = "result"
               PROVE  \E i \in 1..Len(msgs) :
        /\ i < j /\ msgs[i].kind = "call"
        /\ \A k \in 1..Len(msgs) : i < k /\ k <= j /\ Good(D, msgs[k]) => msgs[k].kind = "result"
        /\ Clean(D, msgs, i, j) => j <= i + msgs[i].calls
    BY DEF ResultsBelong
  <2>1. PICK i \in 1..Len(msgs) : msgs[i].kind = "call" /\ j \in (i + 1)..(i + msgs[i].calls)
    BY <1>3
  <2>2. i < j /\ j <= i + msgs[i].calls
    BY <1>1, <2>1
  <2>3. ASSUME NEW k \in 1..Len(msgs), i < k, k <= j PROVE msgs[k].kind = "result"
    <3>1. k \in (i + 1)..(i + msgs[i].calls)
      BY <1>1, <2>2, <2>3
    <3>2. QED
      BY <1>2, <2>1, <3>1
  <2>4. QED
    BY <2>1, <2>2, <2>3
<1>6. ASSUME NEW i \in 1..Len(msgs), Open(D, msgs, i) PROVE FALSE
  <2>1. msgs[i].kind = "call" /\ i + msgs[i].calls > Len(msgs)
    BY <1>6 DEF Open
  <2>2. i + msgs[i].calls \in (i + 1)..(i + msgs[i].calls)
    BY <1>1, <2>1
  <2>3. i + msgs[i].calls <= Len(msgs)
    BY <1>2, <2>1, <2>2
  <2>4. QED
    BY <1>1, <2>1, <2>3
<1>7. QED
  BY <1>4, <1>5, <1>6 DEF Sound

(* A sound history, cut before a user's message, is well formed as far as no  *)
(* disturbed turn and no critique is in it.                                    *)
LEMMA SuffixIsWellFormed ==
  ASSUME NEW D, NEW msgs \in Seq(Entry), Sound(D, msgs),
         NEW b \in Nat, b = 1 \/ (b \in 1..Len(msgs) /\ msgs[b].kind = "user"),
         NEW h, h = SubSeq(msgs, b, Len(msgs)),
         \A k \in 1..Len(h) : Good(D, h[k])
  PROVE  WellFormed(h)
<1>1. Len(msgs) \in Nat /\ \A k \in 1..Len(msgs) : msgs[k] \in Entry /\ msgs[k].calls \in Nat
  <2>1. ASSUME NEW k \in 1..Len(msgs) PROVE msgs[k] \in Entry /\ msgs[k].calls \in Nat
    <3>1. msgs[k] \in Entry
      BY ElementOfSeq
    <3>2. QED
      BY <3>1 DEF Entry
  <2>2. QED
    BY <2>1, LenProperties
<1>2. b >= 1 /\ b <= Len(msgs) + 1
  BY <1>1
<1>3. /\ Len(h) = Len(msgs) - b + 1
      /\ \A k \in 1..Len(h) : h[k] = msgs[k + b - 1] /\ k + b - 1 \in 1..Len(msgs)
  <2>1. \A k \in b..Len(msgs) : msgs[k] \in Entry
    BY <1>1, <1>2
  <2>2. /\ Len(h) = IF b <= Len(msgs) THEN Len(msgs) - b + 1 ELSE 0
        /\ \A k \in 1..(Len(msgs) - b + 1) : h[k] = msgs[b + k - 1]
    BY <1>1, <2>1, SubSeqProperties
  <2>3. Len(h) = Len(msgs) - b + 1
    BY <1>1, <1>2, <2>2
  <2>4. ASSUME NEW k \in 1..Len(h)
        PROVE  h[k] = msgs[k + b - 1] /\ k + b - 1 \in 1..Len(msgs)
    <3>1. h[k] = msgs[b + k - 1] /\ b + k - 1 = k + b - 1
      BY <2>2, <2>3
    <3>2. k + b - 1 \in 1..Len(msgs)
      <4>1. Len(msgs) \in Nat /\ k \in Nat /\ k >= 1 /\ k <= Len(msgs) - b + 1
        BY <1>1, <1>2, <2>3
      <4>2. QED
        BY <4>1, <1>2
    <3>3. QED
      BY <3>1, <3>2
  <2>5. QED
    BY <2>3, <2>4
<1>4. \A k \in b..Len(msgs) : Good(D, msgs[k])
  <2> SUFFICES ASSUME NEW k \in b..Len(msgs) PROVE Good(D, msgs[k])
    OBVIOUS
  <2>1. k - b + 1 \in 1..Len(h) /\ (k - b + 1) + b - 1 = k
    BY <1>1, <1>2, <1>3
  <2>2. h[k - b + 1] = msgs[k]
    BY <1>3, <2>1
  <2>3. QED
    BY <2>1, <2>2
<1>5. \A i, j \in b..Len(msgs) : Clean(D, msgs, i, j)
  BY <1>1, <1>2, <1>4 DEF Clean
<1>6. ASSUME NEW i \in b..Len(msgs), msgs[i].kind = "call", NEW j \in (i + 1)..(i + msgs[i].calls)
      PROVE  j <= Len(msgs) /\ msgs[j].kind = "result"
  <2>1. i \in 1..Len(msgs) /\ msgs[i].calls \in Nat
    BY <1>1, <1>2
  <2>2. Clean(D, msgs, i, Len(msgs))
    BY <1>1, <1>2, <1>5
  <2>3. i + msgs[i].calls <= Len(msgs)
    BY <1>1, <1>6, <2>1, <2>2 DEF Sound, Open
  <2>4. j \in 1..Len(msgs) /\ j \in b..Len(msgs) /\ i < j /\ j <= i + msgs[i].calls
    <3>1. Len(msgs) \in Nat /\ i \in Nat /\ b <= i
      BY <1>1, <2>1
    <3>2. j \in Int /\ i < j /\ j <= i + msgs[i].calls
      BY <2>1, <3>1
    <3>3. j <= Len(msgs)
      BY <2>1, <2>3, <3>1, <3>2
    <3>4. QED
      BY <1>2, <3>1, <3>2, <3>3
  <2>5. msgs[j].kind = "result"
    BY <1>5, <1>6, <2>1, <2>4 DEF Sound, AnswersFollow
  <2>6. QED
    BY <2>4, <2>5
<1>7. ASSUME NEW j \in b..Len(msgs), msgs[j].kind = "result"
      PROVE  \E i \in b..Len(msgs) : msgs[i].kind = "call" /\ j \in (i + 1)..(i + msgs[i].calls)
  <2>1. j \in 1..Len(msgs) /\ Good(D, msgs[j])
    BY <1>1, <1>2, <1>4
  <2>2. PICK i \in 1..Len(msgs) :
        /\ i < j /\ msgs[i].kind = "call"
        /\ \A k \in 1..Len(msgs) : i < k /\ k <= j /\ Good(D, msgs[k]) => msgs[k].kind = "result"
        /\ Clean(D, msgs, i, j) => j <= i + msgs[i].calls
    BY <1>7, <2>1 DEF Sound, ResultsBelong
  <2>3. i >= b
    <3> SUFFICES ASSUME i < b PROVE FALSE
      BY <1>1, <1>2
    <3>1. b \in 1..Len(msgs) /\ msgs[b].kind = "user"
      BY <1>1
    <3>2. Good(D, msgs[b]) /\ b <= j
      BY <1>1, <1>4, <3>1
    <3>3. msgs[b].kind = "result"
      BY <2>2, <3>1, <3>2
    <3>4. QED
      BY <3>1, <3>3
  <2>4. i \in b..Len(msgs) /\ msgs[i].calls \in Nat
    BY <1>1, <2>3
  <2>5. j <= i + msgs[i].calls
    BY <1>5, <2>2, <2>4
  <2>6. j \in (i + 1)..(i + msgs[i].calls)
    BY <1>1, <2>2, <2>4, <2>5
  <2>7. QED
    BY <2>2, <2>4, <2>6
<1>8. ASSUME NEW i \in 1..Len(h), h[i].kind = "call", NEW j \in (i + 1)..(i + h[i].calls)
      PROVE  j <= Len(h) /\ h[j].kind = "result"
  <2>1. h[i] = msgs[i + b - 1] /\ i + b - 1 \in b..Len(msgs) /\ msgs[i + b - 1].calls \in Nat
    BY <1>1, <1>2, <1>3
  <2>2. j + b - 1 \in ((i + b - 1) + 1)..((i + b - 1) + msgs[i + b - 1].calls)
    <3>1. i \in Nat /\ h[i].calls \in Nat /\ h[i].calls = msgs[i + b - 1].calls
      BY <2>1
    <3>2. j \in Int /\ i + 1 <= j /\ j <= i + h[i].calls
      BY <3>1
    <3>3. j + b - 1 \in Int /\ (i + b - 1) + 1 <= j + b - 1
            /\ j + b - 1 <= (i + b - 1) + h[i].calls
      BY <3>1, <3>2
    <3>4. QED
      BY <3>1, <3>3
  <2>3. j + b - 1 <= Len(msgs) /\ msgs[j + b - 1].kind = "result"
    BY <1>6, <1>8, <2>1, <2>2
  <2>4. j \in 1..Len(h) /\ j <= Len(h)
    BY <1>1, <1>2, <1>3, <2>1, <2>3
  <2>5. QED
    BY <1>3, <2>3, <2>4
<1>9. ASSUME NEW j \in 1..Len(h), h[j].kind = "result"
      PROVE  \E i \in 1..Len(h) : h[i].kind = "call" /\ j \in (i + 1)..(i + h[i].calls)
  <2>1. h[j] = msgs[j + b - 1] /\ j + b - 1 \in b..Len(msgs)
    BY <1>1, <1>2, <1>3
  <2>2. PICK i \in b..Len(msgs) :
           msgs[i].kind = "call" /\ j + b - 1 \in (i + 1)..(i + msgs[i].calls)
    BY <1>7, <1>9, <2>1
  <2>3. i - b + 1 \in 1..Len(h) /\ (i - b + 1) + b - 1 = i /\ msgs[i].calls \in Nat
    BY <1>1, <1>2, <1>3
  <2>4. h[i - b + 1] = msgs[i]
    BY <1>3, <2>3
  <2>5. j \in ((i - b + 1) + 1)..((i - b + 1) + msgs[i].calls)
    BY <1>2, <2>2, <2>3
  <2>6. QED
    BY <2>2, <2>3, <2>4, <2>5
<1>10. QED
  BY <1>8, <1>9 DEF WellFormed

(* What the journals hold beyond that: of turns that are not disturbed, only  *)
(* the one at work in a session has a batch that lacks results.               *)
Disturbed == cancelled \cup erred \cup killed

Told(s) == Messages(journal[s])

AtTools == {"tools", "exec"}

SessionInv(s) ==
  /\ AnswersFollow(Disturbed, Told(s))
  /\ ResultsBelong(Disturbed, Told(s))
  /\ \A i \in 1..Len(Told(s)) : Open(Disturbed, Told(s), i) =>
        LET u == Told(s)[i].turn
        IN  /\ u \in Turn \ Disturbed /\ pc[u] \in AtTools /\ sessionOf[u] = s
            /\ i + Told(s)[i].calls = Len(Told(s)) + owed[u]

JournalInv == \A s \in Session : SessionInv(s)

BatchInv ==
  \A u \in Turn \ Disturbed : pc[u] \in AtTools =>
     Pending(Disturbed, Told(sessionOf[u]), u, owed[u])

(* A turn that may still send its history loaded it when it was the only one  *)
(* at work: nothing in it is open.                                            *)
Eligible(t) ==
  pc[t] \in {"llm", "synth"} \/ (pc[t] \in {"ready", "tools", "exec"} /\ t \notin cancelled)

Loaded(t) == SubSeq(journal[sessionOf[t]], 1, loaded[t])

LoadInv ==
  \A t \in Turn : Eligible(t) =>
     loaded[t] <= Len(journal[sessionOf[t]]) /\ Sound(Disturbed, Messages(Loaded(t)))

HistoryInv == JournalInv /\ BatchInv /\ LoadInv

LEMMA ToldType == ASSUME TypeOK, NEW s \in Session PROVE Told(s) \in Seq(Entry)
  BY MessagesType DEF TypeOK, Told

LEMMA ToldAppend ==
  ASSUME TypeOK, NEW s \in Session, NEW e \in Entry,
         journal' = [journal EXCEPT ![s] = Append(@, e)], NEW r \in Session
  PROVE  /\ journal'[r] = IF r = s THEN Append(journal[s], e) ELSE journal[r]
         /\ Told(r)' = IF r = s THEN Added(Told(s), e) ELSE Told(r)
<1>1. journal[s] \in Seq(Entry)
  BY DEF TypeOK
<1>2. journal'[r] = IF r = s THEN Append(journal[s], e) ELSE journal[r]
  BY DEF TypeOK
<1>3. Messages(Append(journal[s], e)) = Added(Messages(journal[s]), e)
  BY <1>1, MessagesOfAppend
<1>4. QED
  BY <1>2, <1>3 DEF Told

(* A message written to s is the next one read back there.                    *)
LEMMA ToldMessage ==
  ASSUME TypeOK, NEW s \in Session, NEW e \in Entry, e.kind # "model",
         journal' = [journal EXCEPT ![s] = Append(@, e)]
  PROVE  /\ Told(s) \in Seq(Entry)
         /\ Told(s)' = Append(Told(s), e)
         /\ \A r \in Session \ {s} : Told(r)' = Told(r)
<1>1. Told(s) \in Seq(Entry)
  BY ToldType
<1>2. Told(s)' = Added(Told(s), e)
  BY ToldAppend
<1>3. Added(Told(s), e) = Append(Told(s), e)
  BY DEF Added
<1>4. ASSUME NEW r \in Session \ {s} PROVE Told(r)' = Told(r)
  BY ToldAppend
<1>5. QED
  BY <1>1, <1>2, <1>3, <1>4

(* No step but its own changes what the undisturbed turn u does with tools.   *)
Steady(u) ==
  u \notin Disturbed' =>
     /\ pc'[u] \in AtTools <=> pc[u] \in AtTools
     /\ pc[u] \in AtTools => owed'[u] = owed[u] /\ sessionOf'[u] = sessionOf[u]

LEMMA QuietSession ==
  ASSUME NEW s \in Session, SessionInv(s), Disturbed \subseteq Disturbed',
         Told(s)' = Told(s), \A u \in Turn : sessionOf[u] = s => Steady(u)
  PROVE  SessionInv(s)'
<1> SUFFICES /\ AnswersFollow(Disturbed', Told(s))
             /\ ResultsBelong(Disturbed', Told(s))
             /\ \A i \in 1..Len(Told(s)) : Open(Disturbed', Told(s), i) =>
                   LET u == Told(s)[i].turn
                   IN  /\ u \in Turn \ Disturbed' /\ pc'[u] \in AtTools
                       /\ sessionOf'[u] = s
                       /\ i + Told(s)[i].calls = Len(Told(s)) + owed'[u]
  BY DEF SessionInv
<1>1. AnswersFollow(Disturbed', Told(s)) /\ ResultsBelong(Disturbed', Told(s))
  BY MoreDisturbed DEF SessionInv
<1>2. ASSUME NEW i \in 1..Len(Told(s)), Open(Disturbed', Told(s), i),
             NEW u, u = Told(s)[i].turn
      PROVE  /\ u \in Turn \ Disturbed' /\ pc'[u] \in AtTools
             /\ sessionOf'[u] = s
             /\ i + Told(s)[i].calls = Len(Told(s)) + owed'[u]
  <2>1. Open(Disturbed, Told(s), i)
    BY <1>2, MoreDisturbed
  <2>2. /\ u \in Turn /\ pc[u] \in AtTools /\ sessionOf[u] = s
        /\ i + Told(s)[i].calls = Len(Told(s)) + owed[u]
    BY <1>2, <2>1 DEF SessionInv
  <2>3. u \notin Disturbed'
    <3>1. i \in i..Len(Told(s))
      BY <1>2
    <3>2. Good(Disturbed', Told(s)[i])
      BY <1>2, <3>1 DEF Open, Clean
    <3>3. QED
      BY <1>2, <3>2 DEF Good
  <2>4. QED
    BY <2>2, <2>3 DEF Steady
<1>3. QED
  BY <1>1, <1>2

LEMMA QuietBatch ==
  ASSUME BatchInv, Addressed, Disturbed \subseteq Disturbed',
         NEW u \in Turn \ Disturbed', pc'[u] \in AtTools, Steady(u)
  PROVE  /\ pc[u] \in AtTools /\ u \notin Disturbed /\ sessionOf[u] \in Session
         /\ sessionOf'[u] = sessionOf[u] /\ owed'[u] = owed[u]
         /\ Pending(Disturbed', Told(sessionOf[u]), u, owed[u])
<1>1. pc[u] \in AtTools /\ owed'[u] = owed[u] /\ sessionOf'[u] = sessionOf[u] /\ u \notin Disturbed
  BY DEF Steady
<1>2. Pending(Disturbed, Told(sessionOf[u]), u, owed[u])
  BY <1>1 DEF BatchInv
<1>3. sessionOf[u] \in Session
  BY <1>1 DEF Addressed, AtTools
<1>4. QED
  BY <1>1, <1>2, <1>3, MoreDisturbed

(* A step that writes no message and opens or closes no batch.                *)
LEMMA QuietJournal ==
  ASSUME JournalInv, BatchInv, Addressed, Disturbed \subseteq Disturbed',
         \A u \in Turn : Steady(u), \A s \in Session : Told(s)' = Told(s)
  PROVE  JournalInv' /\ BatchInv'
<1>1. JournalInv'
  BY QuietSession DEF JournalInv
<1>2. ASSUME NEW u \in Turn \ Disturbed', pc'[u] \in AtTools
      PROVE  Pending(Disturbed', Told(sessionOf[u])', u, owed'[u])
  <2>1. /\ sessionOf[u] \in Session /\ sessionOf'[u] = sessionOf[u] /\ owed'[u] = owed[u]
        /\ Pending(Disturbed', Told(sessionOf[u]), u, owed[u])
    BY <1>2, QuietBatch
  <2>2. PICK s \in Session : s = sessionOf[u]
    BY <2>1
  <2>3. Told(s)' = Told(s) /\ Pending(Disturbed', Told(s), u, owed'[u]) /\ sessionOf'[u] = s
    BY <2>1, <2>2
  <2>4. QED
    BY <2>3
<1>3. QED
  BY <1>1, <1>2 DEF BatchInv

LEMMA AloneAtWork ==
  ASSUME SlotInv, NEW t \in Turn \ Disturbed, NEW u \in Turn \ Disturbed,
         pc[t] \in Running, pc[u] \in Running, sessionOf[t] = sessionOf[u]
  PROVE  t = u
  BY DEF SlotInv, LiveTurnIsReachable, Disturbed

(* A line of a disturbed turn, or a critique.                                  *)
LEMMA LooseLine ==
  ASSUME TypeOK, Addressed, JournalInv, BatchInv, Disturbed \subseteq Disturbed',
         NEW s \in Session, NEW e \in Entry, e.kind # "model",
         journal' = [journal EXCEPT ![s] = Append(@, e)],
         ~ Good(Disturbed', e), \A u \in Turn : Steady(u),
         owed \in [Turn -> Nat]
  PROVE  JournalInv' /\ BatchInv'
<1>1. Told(s) \in Seq(Entry) /\ Told(s)' = Append(Told(s), e)
  BY ToldMessage
<1>2. \A r \in Session \ {s} : Told(r)' = Told(r)
  BY ToldMessage
<1>3. SessionInv(s)'
  <2>1. AnswersFollow(Disturbed', Told(s)) /\ ResultsBelong(Disturbed', Told(s))
    BY MoreDisturbed DEF JournalInv, SessionInv
  <2>2. AnswersFollow(Disturbed', Append(Told(s), e))
    BY <1>1, <2>1, AnswersFollowAppend
  <2>3. ResultsBelong(Disturbed', Append(Told(s), e))
    BY <1>1, <2>1, ResultsBelongAppend
  <2>4. \A i : ~ Open(Disturbed', Append(Told(s), e), i)
    BY <1>1, OpenAppend
  <2>5. QED
    BY <1>1, <2>2, <2>3, <2>4 DEF SessionInv
<1>4. JournalInv'
  <2>1. \A r \in Session \ {s} : SessionInv(r)'
    BY <1>2, QuietSession DEF JournalInv
  <2>2. QED
    BY <1>3, <2>1 DEF JournalInv
<1>5. ASSUME NEW u \in Turn \ Disturbed', pc'[u] \in AtTools
      PROVE  Pending(Disturbed', Told(sessionOf[u])', u, owed'[u])
  <2>1. PICK r \in Session : r = sessionOf[u]
    BY <1>5, QuietBatch
  <2>2. /\ sessionOf'[u] = r /\ owed'[u] = owed[u]
        /\ Pending(Disturbed', Told(r), u, owed[u])
    BY <1>5, <2>1, QuietBatch
  <2>3. CASE r = s
    <3>1. owed[u] \in Nat
      OBVIOUS
    <3>2. Pending(Disturbed', Append(Told(s), e), u, owed[u])
      BY <1>1, <2>2, <2>3, <3>1, PendingAppend
    <3>3. QED
      BY <1>1, <2>2, <2>3, <3>2
  <2>4. CASE r # s
    BY <1>2, <2>2, <2>4
  <2>5. QED
    BY <2>3, <2>4
<1>6. QED
  BY <1>4, <1>5 DEF BatchInv

(* A message of a turn that is not disturbed, other than a result: nobody     *)
(* else can be at work in its session.                                        *)
LEMMA MessageLine ==
  ASSUME TypeOK, Addressed, JournalInv, BatchInv, SlotInv, Disturbed \subseteq Disturbed',
         NEW s \in Session, NEW e \in Entry, e.kind \notin {"model", "result"},
         journal' = [journal EXCEPT ![s] = Append(@, e)],
         NEW t \in Turn \ Disturbed', e.turn = t, sessionOf[t] = s, sessionOf'[t] = s,
         pc[t] \in Running \ AtTools,
         pc'[t] \in AtTools <=> e.kind = "call",
         e.kind = "call" => owed'[t] = e.calls /\ e.calls > 0,
         \A u \in Turn \ {t} : Steady(u)
  PROVE  JournalInv' /\ BatchInv'
<1>1. /\ Told(s) \in Seq(Entry) /\ Told(s)' = Append(Told(s), e)
      /\ \A r \in Session \ {s} : Told(r)' = Told(r)
  <2>1. e.kind # "model"
    OBVIOUS
  <2>2. QED
    BY <2>1, ToldMessage
<1>2. ASSUME NEW u \in Turn \ Disturbed, pc[u] \in AtTools, sessionOf[u] = s PROVE FALSE
  BY <1>2, AloneAtWork DEF AtTools, Running
<1>3. ASSUME NEW i, Open(Disturbed', Told(s), i) PROVE FALSE
  <2>1. Open(Disturbed, Told(s), i) /\ i \in 1..Len(Told(s))
    BY <1>3, MoreDisturbed DEF Open
  <2>2. PICK u : u = Told(s)[i].turn
    OBVIOUS
  <2>3. u \in Turn \ Disturbed /\ pc[u] \in AtTools /\ sessionOf[u] = s
    BY <2>1, <2>2 DEF JournalInv, SessionInv
  <2>4. QED
    BY <1>2, <2>3
<1>4. SessionInv(s)'
  <2>1. AnswersFollow(Disturbed', Told(s)) /\ ResultsBelong(Disturbed', Told(s))
    BY MoreDisturbed DEF JournalInv, SessionInv
  <2>2. AnswersFollow(Disturbed', Append(Told(s), e))
    BY <1>1, <1>3, <2>1, AnswersFollowAppend
  <2>3. ResultsBelong(Disturbed', Append(Told(s), e))
    BY <1>1, <2>1, ResultsBelongAppend
  <2>4. ASSUME NEW i, Open(Disturbed', Append(Told(s), e), i)
        PROVE  /\ Append(Told(s), e)[i] = e /\ e.kind = "call"
               /\ i = Len(Told(s)) + 1 /\ Len(Append(Told(s), e)) = Len(Told(s)) + 1
    BY <1>1, <1>3, <2>4, OpenAppend, AppendFacts
  <2>5. ASSUME NEW i \in 1..Len(Told(s)'), Open(Disturbed', Told(s)', i),
               NEW u, u = Told(s)'[i].turn
        PROVE  /\ u \in Turn \ Disturbed' /\ pc'[u] \in AtTools /\ sessionOf'[u] = s
               /\ i + Told(s)'[i].calls = Len(Told(s)') + owed'[u]
    BY <1>1, <2>4, <2>5
  <2>6. QED
    BY <1>1, <2>2, <2>3, <2>5 DEF SessionInv
<1>5. JournalInv'
  <2>1. \A r \in Session \ {s} : \A u \in Turn : sessionOf[u] = r => Steady(u)
    OBVIOUS
  <2>2. \A r \in Session \ {s} : SessionInv(r)'
    BY <1>1, <2>1, QuietSession DEF JournalInv
  <2>3. QED
    BY <1>4, <2>2 DEF JournalInv
<1>6. ASSUME NEW u \in Turn \ Disturbed', pc'[u] \in AtTools
      PROVE  Pending(Disturbed', Told(sessionOf[u])', u, owed'[u])
  <2>1. CASE u = t
    <3>1. Pending(Disturbed', Append(Told(s), e), e.turn, e.calls)
      BY <1>1, <1>6, <2>1, CallOpensBatch
    <3>2. QED
      BY <1>1, <1>6, <2>1, <3>1
  <2>2. CASE u # t
    <3>1. PICK r \in Session : r = sessionOf[u]
      BY <1>6, <2>2, QuietBatch
    <3>2. /\ pc[u] \in AtTools /\ u \notin Disturbed
          /\ sessionOf'[u] = r /\ owed'[u] = owed[u]
          /\ Pending(Disturbed', Told(r), u, owed[u])
      BY <1>6, <2>2, <3>1, QuietBatch
    <3>3. r # s
      BY <1>2, <3>1, <3>2
    <3>4. QED
      BY <1>1, <3>2, <3>3
  <2>3. QED
    BY <2>1, <2>2
<1>7. QED
  BY <1>5, <1>6 DEF BatchInv

(* A result of a turn that is not disturbed.                                   *)
LEMMA ResultLine ==
  ASSUME TypeOK, Addressed, JournalInv, BatchInv, SlotInv, Disturbed \subseteq Disturbed',
         NEW s \in Session, NEW e \in Entry, e.kind = "result",
         journal' = [journal EXCEPT ![s] = Append(@, e)],
         NEW t \in Turn \ Disturbed', e.turn = t, sessionOf[t] = s, sessionOf'[t] = s,
         pc[t] \in AtTools, NEW n \in Nat, owed[t] = n + 1, owed'[t] = n,
         pc'[t] \in AtTools <=> n # 0,
         \A u \in Turn \ {t} : Steady(u)
  PROVE  JournalInv' /\ BatchInv'
<1>1. /\ Told(s) \in Seq(Entry) /\ Told(s)' = Append(Told(s), e)
      /\ \A r \in Session \ {s} : Told(r)' = Told(r)
  <2>1. e.kind # "model"
    OBVIOUS
  <2>2. QED
    BY <2>1, ToldMessage
<1>2. ASSUME NEW u \in Turn \ Disturbed, pc[u] \in AtTools, sessionOf[u] = s PROVE u = t
  BY <1>2, AloneAtWork DEF AtTools, Running
<1>3. Pending(Disturbed', Told(s), t, n + 1)
  <2>1. Pending(Disturbed, Told(s), t, n + 1)
    BY DEF BatchInv
  <2>2. QED
    BY <2>1, MoreDisturbed
<1>4. SessionInv(s)'
  <2>1. AnswersFollow(Disturbed', Told(s)) /\ ResultsBelong(Disturbed', Told(s))
    BY MoreDisturbed DEF JournalInv, SessionInv
  <2>2. AnswersFollow(Disturbed', Append(Told(s), e))
    BY <1>1, <2>1, AnswersFollowAppend
  <2>3. ResultsBelong(Disturbed', Append(Told(s), e))
    <3>1. n + 1 \in Nat \ {0}
      OBVIOUS
    <3>2. QED
      BY <1>1, <1>3, <2>1, <3>1, ResultsBelongAppend
  <2>4. ASSUME NEW i \in 1..Len(Told(s)'), Open(Disturbed', Told(s)', i),
               NEW u, u = Told(s)'[i].turn
        PROVE  /\ u \in Turn \ Disturbed' /\ pc'[u] \in AtTools /\ sessionOf'[u] = s
               /\ i + Told(s)'[i].calls = Len(Told(s)') + owed'[u]
    <3>1. /\ i \in 1..Len(Told(s)) /\ Told(s)'[i] = Told(s)[i]
          /\ Open(Disturbed', Told(s), i) /\ Told(s)[i].calls \in Nat
      BY <1>1, <2>4, OpenAppend
    <3>2. /\ Len(Told(s)') = Len(Told(s)) + 1 /\ Len(Told(s)) \in Nat
      BY <1>1, AppendFacts
    <3>3. Open(Disturbed, Told(s), i)
      BY <3>1, MoreDisturbed
    <3>4. /\ u \in Turn \ Disturbed /\ pc[u] \in AtTools /\ sessionOf[u] = s
          /\ i + Told(s)[i].calls = Len(Told(s)) + owed[u]
      BY <2>4, <3>1, <3>3 DEF JournalInv, SessionInv
    <3>5. u = t
      BY <1>2, <3>4
    <3>6. i + Told(s)[i].calls = Len(Told(s)) + n + 1
      <4>1. owed[u] = n + 1
        BY <3>5
      <4>2. Len(Told(s)) + (n + 1) = Len(Told(s)) + n + 1
        BY <3>2
      <4>3. QED
        BY <3>4, <4>1, <4>2
    <3>7. i + Told(s)[i].calls > Len(Told(s)) + 1
      BY <2>4, <3>1, <3>2 DEF Open
    <3>8. n # 0
      BY <3>2, <3>6, <3>7
    <3>9. QED
      BY <3>1, <3>2, <3>5, <3>6, <3>8
  <2>5. QED
    BY <1>1, <2>2, <2>3, <2>4 DEF SessionInv
<1>5. JournalInv'
  <2>1. \A r \in Session \ {s} : \A u \in Turn : sessionOf[u] = r => Steady(u)
    OBVIOUS
  <2>2. \A r \in Session \ {s} : SessionInv(r)'
    BY <1>1, <2>1, QuietSession DEF JournalInv
  <2>3. QED
    BY <1>4, <2>2 DEF JournalInv
<1>6. ASSUME NEW u \in Turn \ Disturbed', pc'[u] \in AtTools
      PROVE  Pending(Disturbed', Told(sessionOf[u])', u, owed'[u])
  <2>1. CASE u = t
    <3>1. Pending(Disturbed', Append(Told(s), e), t, n)
      <4>1. n + 1 \in Nat
        OBVIOUS
      <4>2. QED
        BY <1>1, <1>3, <4>1, PendingAppend
    <3>2. QED
      BY <1>1, <2>1, <3>1
  <2>2. CASE u # t
    <3>1. PICK r \in Session : r = sessionOf[u]
      BY <1>6, <2>2, QuietBatch
    <3>2. /\ pc[u] \in AtTools /\ u \notin Disturbed
          /\ sessionOf'[u] = r /\ owed'[u] = owed[u]
          /\ Pending(Disturbed', Told(r), u, owed[u])
      BY <1>6, <2>2, <3>1, QuietBatch
    <3>3. r # s
      BY <1>2, <2>2, <3>1, <3>2
    <3>4. QED
      BY <1>1, <3>2, <3>3
  <2>3. QED
    BY <2>1, <2>2
<1>7. QED
  BY <1>5, <1>6 DEF BatchInv

(***************************************************************************)
(* What a turn loaded stays sound.                                         *)
(***************************************************************************)
LEMMA LoadedStays ==
  ASSUME TypeOK, Addressed, Disturbed \subseteq Disturbed', LoadInv,
         NEW t \in Turn, Eligible(t), loaded'[t] = loaded[t], sessionOf'[t] = sessionOf[t],
         NEW r \in Session, r = sessionOf[t],
         \/ journal'[r] = journal[r]
         \/ \E e \in Entry : journal'[r] = Append(journal[r], e)
  PROVE  /\ loaded'[t] <= Len(journal'[sessionOf'[t]])
         /\ Sound(Disturbed', Messages(Loaded(t)'))
<1>1. /\ journal[r] \in Seq(Entry) /\ Len(journal[r]) \in Nat /\ loaded[t] \in Nat
      /\ loaded[t] <= Len(journal[r])
      /\ Sound(Disturbed, Messages(SubSeq(journal[r], 1, loaded[t])))
  BY LenProperties DEF TypeOK, LoadInv, Loaded
<1>2. Sound(Disturbed', Messages(SubSeq(journal[r], 1, loaded[t])))
  <2> DEFINE kept == Messages(SubSeq(journal[r], 1, loaded[t]))
  <2>1. Sound(Disturbed, kept)
    BY <1>1
  <2> HIDE DEF kept
  <2>2. Sound(Disturbed', kept)
    BY <2>1, MoreDisturbed
  <2>3. QED
    BY <2>2 DEF kept
<1>3. /\ loaded[t] <= Len(journal'[r])
      /\ SubSeq(journal'[r], 1, loaded[t]) = SubSeq(journal[r], 1, loaded[t])
  <2>1. CASE journal'[r] = journal[r]
    BY <1>1, <2>1
  <2>2. ASSUME NEW e \in Entry, journal'[r] = Append(journal[r], e)
        PROVE  /\ loaded[t] <= Len(journal'[r])
               /\ SubSeq(journal'[r], 1, loaded[t]) = SubSeq(journal[r], 1, loaded[t])
    <3> DEFINE q == journal[r]
               p == Append(q, e)
    <3>0. q \in Seq(Entry) /\ Len(q) \in Nat /\ loaded[t] \in Nat /\ loaded[t] <= Len(q)
      BY <1>1
    <3> HIDE DEF q
    <3>1. /\ p \in Seq(Entry) /\ Len(p) = Len(q) + 1
          /\ \A k \in 1..Len(q) : p[k] = q[k]
      BY <3>0, AppendProperties
    <3> HIDE DEF p
    <3>2. \A k \in 1..loaded[t] : q[k] \in Entry /\ p[k] = q[k] /\ p[k] \in Entry
      <4> SUFFICES ASSUME NEW k \in 1..loaded[t]
                   PROVE  q[k] \in Entry /\ p[k] = q[k] /\ p[k] \in Entry
        OBVIOUS
      <4>1. k \in 1..Len(q)
        BY <3>0
      <4>2. q[k] \in Entry
        BY <3>0, <4>1, ElementOfSeq
      <4>3. QED
        BY <3>1, <4>1, <4>2
    <3>3. /\ SubSeq(q, 1, loaded[t]) \in Seq(Entry) /\ SubSeq(p, 1, loaded[t]) \in Seq(Entry)
          /\ Len(SubSeq(q, 1, loaded[t])) = loaded[t] /\ Len(SubSeq(p, 1, loaded[t])) = loaded[t]
          /\ \A k \in 1..loaded[t] : /\ SubSeq(q, 1, loaded[t])[k] = q[k]
                                     /\ SubSeq(p, 1, loaded[t])[k] = p[k]
      BY <3>0, <3>2, SubSeqProperties
    <3>4. SubSeq(p, 1, loaded[t]) = SubSeq(q, 1, loaded[t])
      BY <3>2, <3>3, SeqEqual
    <3>5. loaded[t] <= Len(p)
      BY <3>0, <3>1
    <3>6. QED
      BY <2>2, <3>4, <3>5 DEF p, q
  <2>3. QED
    BY <2>1, <2>2
<1>4. QED
  BY <1>2, <1>3 DEF Loaded

(* A turn that begins while it is wanted is the only one at work.             *)
LEMMA LoadedAtBegin ==
  ASSUME TypeInv, SlotInv, JournalInv, Disturbed \subseteq Disturbed',
         NEW t \in Turn, Begin(t), t \notin cancelled
  PROVE  /\ loaded'[t] <= Len(journal'[sessionOf'[t]])
         /\ Sound(Disturbed', Messages(Loaded(t)'))
<1>1. PICK s \in Session : s = sessionOf[t]
  BY DEF Begin, Goto, TypeInv, Addressed
<1>2. /\ pc[t] = "spawned" /\ loaded'[t] = Len(journal[s])
      /\ sessionOf'[t] = s /\ journal[s] \in Seq(Entry) /\ Len(journal[s]) \in Nat
  BY <1>1, LenProperties DEF Begin, Goto, TypeInv, TypeOK
<1>3. journal'[s] = Append(journal[s], [kind |-> "user", turn |-> t, calls |-> 0])
  BY <1>1 DEF Begin, Write, TypeInv, TypeOK
<1>4. Len(journal'[s]) = Len(journal[s]) + 1 /\ SubSeq(journal'[s], 1, Len(journal[s])) = journal[s]
  <2> DEFINE e == [kind |-> "user", turn |-> t, calls |-> 0]
             q == journal[s]
             p == Append(q, e)
  <2>1. e \in Entry
    BY DEF Entry, Kinds
  <2>2. journal'[s] = p /\ q \in Seq(Entry) /\ Len(q) \in Nat
    BY <1>2, <1>3
  <2> HIDE DEF e, q
  <2>3. /\ p \in Seq(Entry) /\ Len(p) = Len(q) + 1
        /\ \A k \in 1..Len(q) : p[k] = q[k]
    BY <2>1, <2>2, AppendProperties
  <2> HIDE DEF p
  <2>4. \A k \in 1..Len(q) : p[k] = q[k] /\ p[k] \in Entry
    BY <2>2, <2>3, ElementOfSeq
  <2>5. /\ SubSeq(p, 1, Len(q)) \in Seq(Entry) /\ Len(SubSeq(p, 1, Len(q))) = Len(q)
        /\ \A k \in 1..Len(q) : SubSeq(p, 1, Len(q))[k] = p[k]
    BY <2>2, <2>4, SubSeqProperties
  <2>6. SubSeq(p, 1, Len(q)) = q
    BY <2>2, <2>4, <2>5, SeqEqual
  <2>7. QED
    BY <2>2, <2>3, <2>6 DEF q
<1>5. Loaded(t)' = journal[s] /\ loaded'[t] <= Len(journal'[sessionOf'[t]])
  BY <1>2, <1>4 DEF Loaded
<1>6. ASSUME NEW i \in 1..Len(Told(s)), Open(Disturbed, Told(s), i) PROVE FALSE
  <2>1. PICK u : u = Told(s)[i].turn
    OBVIOUS
  <2>2. u \in Turn \ Disturbed /\ pc[u] \in AtTools /\ sessionOf[u] = s
    BY <1>6, <2>1 DEF JournalInv, SessionInv
  <2>3. u = t
    BY <1>1, <1>2, <2>2 DEF SlotInv, LiveTurnIsReachable, Running, AtTools, Disturbed
  <2>4. QED
    BY <1>2, <2>2, <2>3 DEF AtTools
<1>7. Sound(Disturbed, Told(s))
  BY <1>6 DEF Sound, JournalInv, SessionInv
<1>8. Sound(Disturbed', Told(s))
  BY <1>7, MoreDisturbed
<1>9. QED
  BY <1>5, <1>8 DEF Told

LEMMA DisturbedGrows ==
  ASSUME TypeInv, [Next]_vars
  PROVE  Disturbed \subseteq Disturbed'
<1> USE DEF Disturbed
<1>1. ASSUME NEW t \in Turn, NEW s \in Session, DrawTurnId(t, s) PROVE Disturbed \subseteq Disturbed'
  BY <1>1 DEF DrawTurnId
<1>2. ASSUME NEW t \in Turn, TurnStep(t) PROVE Disturbed \subseteq Disturbed'
  <2>1. cancelled \subseteq cancelled' /\ killed \subseteq killed'
    BY <1>2, RunningSteps DEF InstallTurn, Proceed, ReleaseEntry
  <2>2. erred \subseteq erred'
    BY <1>2 DEF TurnStep, InstallTurn, Begin, FailToBegin, StopCancelled, RequestModel,
                ModelFails, ModelIsEmpty, ReviewRejects, ModelAnswers, ModelCallsTools,
                StartTool, AbandonBatch, ToolReturns, Synthesise, JournalFails, Settle,
                ReportError, ReleaseEntry
  <2>3. QED
    BY <2>1, <2>2
<1>3. ASSUME NEW t \in Turn, ReviewEnds(t) PROVE Disturbed \subseteq Disturbed'
  BY <1>3 DEF ReviewEnds
<1>4. ASSUME NEW s \in Session, Abort(s) \/ SetModel(s) PROVE Disturbed \subseteq Disturbed'
  BY <1>4 DEF Abort, SetModel
<1>5. CASE Restart
  BY <1>5 DEF Restart
<1>6. CASE UNCHANGED vars
  BY <1>6 DEF vars
<1>7. QED
  BY <1>1, <1>2, <1>3, <1>4, <1>5, <1>6 DEF Next

LEMMA JournalsGrow ==
  ASSUME TypeInv, [Next]_vars, NEW r \in Session
  PROVE  \/ journal'[r] = journal[r]
         \/ \E e \in Entry : journal'[r] = Append(journal[r], e)
<1> DEFINE Grown == \/ journal'[r] = journal[r]
                    \/ \E e \in Entry : journal'[r] = Append(journal[r], e)
<1>1. CASE UNCHANGED journal
  BY <1>1
<1>2. ASSUME NEW s \in Session, NEW e \in Entry, journal' = [journal EXCEPT ![s] = Append(@, e)]
      PROVE  Grown
  <2>1. journal'[r] = IF r = s THEN Append(journal[s], e) ELSE journal[r]
    BY <1>2, ToldAppend DEF TypeInv
  <2>2. QED
    BY <2>1
<1>3. ASSUME NEW t \in Turn, TurnStep(t) PROVE Grown
  <2>1. CASE NoWrite
    BY <1>1, <2>1 DEF NoWrite
  <2>2. CASE Proceed(t) /\ Writes(t)
    <3>1. PICK kind \in Kinds \ {"critique"}, n \in Nat : Write(t, kind, n)
      BY <2>2 DEF Writes
    <3>2. PICK e \in Entry : e = [kind |-> kind, turn |-> t, calls |-> n]
      BY DEF Entry
    <3>3. sessionOf[t] \in Session /\ journal' = [journal EXCEPT ![sessionOf[t]] = Append(@, e)]
      BY <2>2, <3>1, <3>2 DEF Write, Proceed, Running, TypeInv, Addressed
    <3>4. QED
      BY <1>2, <3>3
  <2>3. QED
    BY <1>3, <2>1, <2>2, RunningSteps DEF InstallTurn, Proceed, ReleaseEntry
<1>4. ASSUME NEW t \in Turn, ReviewEnds(t) PROVE Grown
  <2>1. PICK e \in Entry : e = [kind |-> "critique", turn |-> t, calls |-> 0]
    BY DEF Entry, Kinds
  <2>2. sessionOf[t] \in Session
    BY <1>4 DEF ReviewEnds, TypeInv, Addressed
  <2>3. UNCHANGED journal \/ journal' = [journal EXCEPT ![sessionOf[t]] = Append(@, e)]
    BY <1>4, <2>1 DEF ReviewEnds
  <2>4. QED
    BY <1>1, <1>2, <2>2, <2>3
<1>5. ASSUME NEW s \in Session, SetModel(s) PROVE Grown
  <2>1. PICK e \in Entry : e = [kind |-> "model", turn |-> NoTurn, calls |-> 0]
    BY DEF Entry, Kinds
  <2>2. journal' = [journal EXCEPT ![s] = Append(@, e)]
    BY <1>5, <2>1 DEF SetModel
  <2>3. QED
    BY <1>2, <2>2
<1>6. ASSUME \/ \E t \in Turn, s \in Session : DrawTurnId(t, s)
             \/ \E s \in Session : Abort(s)
             \/ Restart \/ UNCHANGED vars
      PROVE  UNCHANGED journal
  BY <1>6 DEF DrawTurnId, Abort, Restart, NoWrite, vars
<1>7. QED
  BY <1>1, <1>3, <1>4, <1>5, <1>6 DEF Next

(* A turn may send a history only if it might before, or begins wanted.       *)
LEMMA EligibleSteps ==
  ASSUME TypeInv, [Next]_vars, NEW t \in Turn, Eligible(t)'
  PROVE  \/ Eligible(t) /\ loaded'[t] = loaded[t] /\ sessionOf'[t] = sessionOf[t]
         \/ Begin(t) /\ t \notin cancelled
<1> USE DEF TypeInv, TypeOK, Eligible, Goto
<1> DEFINE Kept == Eligible(t) /\ loaded'[t] = loaded[t] /\ sessionOf'[t] = sessionOf[t]
<1>1. ASSUME NEW u \in Turn, NEW s \in Session, DrawTurnId(u, s) PROVE Kept
  BY <1>1 DEF DrawTurnId
<1>2. ASSUME NEW u \in Turn, InstallTurn(u) PROVE Kept
  BY <1>2 DEF InstallTurn
<1>3. ASSUME NEW u \in Turn, Begin(u) PROVE Kept \/ (Begin(t) /\ t \notin cancelled)
  BY <1>3 DEF Begin
<1>4. ASSUME NEW u \in Turn, FailToBegin(u) \/ StopCancelled(u) \/ Settle(u) \/ ReportError(u)
                              \/ ReleaseEntry(u) \/ JournalFails(u) \/ ModelFails(u)
      PROVE  Kept
  BY <1>4 DEF FailToBegin, StopCancelled, Settle, ReportError, ReleaseEntry, JournalFails, ModelFails
<1>5. ASSUME NEW u \in Turn, RequestModel(u) \/ StartTool(u)
      PROVE  Kept
  BY <1>5 DEF RequestModel, StartTool, MayContinue
<1>6. ASSUME NEW u \in Turn, ModelIsEmpty(u) \/ ReviewRejects(u) \/ ModelAnswers(u) \/ Synthesise(u)
      PROVE  Kept
  BY <1>6 DEF ModelIsEmpty, ReviewRejects, ModelAnswers, Synthesise
<1>7. ASSUME NEW u \in Turn, NEW n \in 1..MaxBatch, ModelCallsTools(u, n) PROVE Kept
  BY <1>7 DEF ModelCallsTools
<1>8. ASSUME NEW u \in Turn, AbandonBatch(u) \/ ToolReturns(u) PROVE Kept
  BY <1>8 DEF AbandonBatch, ToolReturns
<1>9. ASSUME NEW u \in Turn, ReviewEnds(u) PROVE Kept
  BY <1>9 DEF ReviewEnds
<1>10. ASSUME NEW s \in Session, Abort(s) \/ SetModel(s) PROVE Kept
  BY <1>10 DEF Abort, SetModel
<1>11. CASE Restart
  BY <1>11 DEF Restart, Running
<1>12. CASE UNCHANGED vars
  BY <1>12 DEF vars
<1>13. QED
  BY <1>1, <1>2, <1>3, <1>4, <1>5, <1>6, <1>7, <1>8, <1>9, <1>10, <1>11, <1>12
     DEF Next, TurnStep

LEMMA LoadStep ==
  ASSUME TypeInv, SlotInv, HistoryInv, [Next]_vars
  PROVE  LoadInv'
<1> SUFFICES ASSUME NEW t \in Turn, Eligible(t)'
             PROVE  /\ loaded'[t] <= Len(journal'[sessionOf'[t]])
                    /\ Sound(Disturbed', Messages(Loaded(t)'))
  BY DEF LoadInv
<1>0. Disturbed \subseteq Disturbed'
  BY DisturbedGrows
<1>1. CASE Eligible(t) /\ loaded'[t] = loaded[t] /\ sessionOf'[t] = sessionOf[t]
  <2>1. PICK r \in Session : r = sessionOf[t]
    BY <1>1 DEF Eligible, TypeInv, Addressed
  <2>2. QED
    BY <1>0, <1>1, <2>1, JournalsGrow, LoadedStays DEF TypeInv, HistoryInv
<1>2. CASE Begin(t) /\ t \notin cancelled
  BY <1>0, <1>2, LoadedAtBegin DEF HistoryInv
<1>3. QED
  BY <1>1, <1>2, EligibleSteps

(* Any line of a turn but a result.                                            *)
LEMMA TurnLine ==
  ASSUME TypeInv, SlotInv, JournalInv, BatchInv, Disturbed \subseteq Disturbed',
         NEW t \in Turn, NEW kind \in Kinds \ {"model", "critique", "result"}, NEW n \in Nat,
         Write(t, kind, n), sessionOf' = sessionOf,
         pc[t] \in Running \ AtTools,
         pc'[t] \in AtTools <=> kind = "call",
         kind = "call" => owed'[t] = n /\ n > 0,
         \A u \in Turn \ {t} : Steady(u)
  PROVE  JournalInv' /\ BatchInv'
<1>1. PICK s \in Session : s = sessionOf[t]
  BY DEF Running, TypeInv, Addressed
<1>2. PICK e \in Entry : e = [kind |-> kind, turn |-> t, calls |-> n]
  BY DEF Entry
<1>3. /\ e.kind = kind /\ e.turn = t /\ e.calls = n
      /\ journal' = [journal EXCEPT ![s] = Append(@, e)]
  BY <1>1, <1>2 DEF Write
<1>4. CASE t \in Disturbed'
  <2>1. ~ Good(Disturbed', e) /\ \A u \in Turn : Steady(u)
    BY <1>3, <1>4 DEF Good, Steady
  <2>2. QED
    BY <1>3, <2>1, LooseLine DEF TypeInv, TypeOK
<1>5. CASE t \notin Disturbed'
  BY <1>1, <1>3, <1>5, MessageLine DEF TypeInv
<1>6. QED
  BY <1>4, <1>5

LEMMA JournalStep ==
  ASSUME TypeInv, SlotInv, HistoryInv, [Next]_vars
  PROVE  JournalInv' /\ BatchInv'
<1> DEFINE Goal == JournalInv' /\ BatchInv'
<1>0. Disturbed \subseteq Disturbed' /\ JournalInv /\ BatchInv /\ Addressed /\ TypeOK
  BY DisturbedGrows DEF HistoryInv, TypeInv
<1>a. ASSUME UNCHANGED journal, \A u \in Turn : Steady(u) PROVE Goal
  <2>1. \A s \in Session : Told(s)' = Told(s)
    BY <1>a DEF Told
  <2>2. QED
    BY <1>0, <1>a, <2>1, QuietJournal
<1>1. ASSUME NEW t \in Turn, NEW s \in Session, DrawTurnId(t, s) PROVE Goal
  <2>1. \A u \in Turn : Steady(u)
    BY <1>1 DEF DrawTurnId, Goto, Steady, AtTools, TypeInv, TypeOK
  <2>2. QED
    BY <1>1, <1>a, <2>1 DEF DrawTurnId, NoWrite
<1>2. ASSUME NEW t \in Turn, InstallTurn(t) PROVE Goal
  <2>1. \A u \in Turn : Steady(u)
    BY <1>2 DEF InstallTurn, Goto, Steady, AtTools, TypeInv, TypeOK
  <2>2. QED
    BY <1>2, <1>a, <2>1 DEF InstallTurn, NoWrite
<1>3. ASSUME NEW t \in Turn, FailToBegin(t) \/ StopCancelled(t) \/ RequestModel(t)
                              \/ ModelIsEmpty(t) \/ StartTool(t) \/ Settle(t)
                              \/ ReportError(t) \/ ReleaseEntry(t)
      PROVE  Goal
  <2>1. \A u \in Turn : Steady(u)
    BY <1>3 DEF FailToBegin, StopCancelled, RequestModel, ModelIsEmpty, StartTool, Settle,
                ReportError, ReleaseEntry, Goto, Steady, AtTools, TypeInv, TypeOK
  <2>2. UNCHANGED journal
    BY <1>3 DEF FailToBegin, StopCancelled, RequestModel, ModelIsEmpty, StartTool, Settle,
                ReportError, ReleaseEntry, NoWrite
  <2>3. QED
    BY <1>a, <2>1, <2>2
<1>4. ASSUME NEW t \in Turn, AbandonBatch(t) \/ JournalFails(t) PROVE Goal
  <2>1. t \in Disturbed'
    BY <1>4 DEF AbandonBatch, JournalFails, Disturbed
  <2>2. \A u \in Turn : Steady(u)
    BY <1>4, <2>1 DEF AbandonBatch, JournalFails, Goto, Steady, AtTools, TypeInv, TypeOK
  <2>3. QED
    BY <1>4, <1>a, <2>2 DEF AbandonBatch, JournalFails, NoWrite
<1>5. ASSUME NEW t \in Turn, Begin(t) PROVE Goal
  <2>1. /\ pc[t] \in Running \ AtTools /\ pc'[t] \notin AtTools /\ sessionOf' = sessionOf
        /\ \A u \in Turn \ {t} : Steady(u)
    BY <1>5 DEF Begin, Goto, Steady, AtTools, Running, TypeInv, TypeOK
  <2>2. Write(t, "user", 0) /\ "user" \in Kinds \ {"model", "critique", "result"}
    BY <1>5 DEF Begin, Kinds
  <2>3. QED
    BY <1>0, <2>1, <2>2, TurnLine
<1>6. ASSUME NEW t \in Turn, ModelFails(t) \/ ReviewRejects(t) \/ ModelAnswers(t) \/ Synthesise(t)
      PROVE  Goal
  <2>1. /\ pc[t] \in Running \ AtTools /\ pc'[t] \notin AtTools /\ sessionOf' = sessionOf
        /\ \A u \in Turn \ {t} : Steady(u)
    BY <1>6 DEF ModelFails, ReviewRejects, ModelAnswers, Synthesise, Goto, Steady, AtTools,
                Running, TypeInv, TypeOK
  <2>2. NoWrite \/ \E kind \in {"error", "rejected", "text"} : Write(t, kind, 0)
    BY <1>6 DEF ModelFails, ReviewRejects, ModelAnswers, Synthesise, TryWrite
  <2>3. CASE NoWrite
    <3>1. \A u \in Turn : Steady(u)
      BY <2>1 DEF Steady
    <3>2. QED
      BY <1>a, <2>3, <3>1 DEF NoWrite
  <2>4. ASSUME NEW kind \in {"error", "rejected", "text"}, Write(t, kind, 0) PROVE Goal
    <3>1. kind \in Kinds \ {"model", "critique", "result"} /\ kind # "call"
      BY DEF Kinds
    <3>2. QED
      BY <1>0, <2>1, <2>4, <3>1, TurnLine
  <2>5. QED
    BY <2>2, <2>3, <2>4
<1>7. ASSUME NEW t \in Turn, NEW n \in 1..MaxBatch, ModelCallsTools(t, n) PROVE Goal
  <2>1. /\ pc[t] \in Running \ AtTools /\ pc'[t] \in AtTools /\ sessionOf' = sessionOf
        /\ \A u \in Turn \ {t} : Steady(u)
    BY <1>7 DEF ModelCallsTools, Goto, Steady, AtTools, Running, TypeInv, TypeOK
  <2>2. n \in Nat /\ n > 0 /\ owed'[t] = n
    BY <1>7, BoundsAssumption DEF ModelCallsTools, TypeInv, TypeOK
  <2>3. Write(t, "call", n) /\ "call" \in Kinds \ {"model", "critique", "result"}
    BY <1>7 DEF ModelCallsTools, Kinds
  <2>4. QED
    BY <1>0, <2>1, <2>2, <2>3, TurnLine
<1>8. ASSUME NEW t \in Turn, ToolReturns(t) PROVE Goal
  <2>1. PICK s \in Session : s = sessionOf[t]
    BY <1>8 DEF ToolReturns, Goto, TypeInv, Addressed
  <2>2. PICK e \in Entry : e = [kind |-> "result", turn |-> t, calls |-> 0]
    BY DEF Entry, Kinds
  <2>3. /\ e.kind = "result" /\ e.turn = t
        /\ journal' = [journal EXCEPT ![s] = Append(@, e)]
    BY <1>8, <2>1, <2>2 DEF ToolReturns, Write
  <2>4. /\ pc[t] = "exec" /\ sessionOf' = sessionOf
        /\ \A u \in Turn \ {t} : Steady(u)
    BY <1>8 DEF ToolReturns, Goto, Steady, AtTools, TypeInv, TypeOK
  <2>5. PICK n \in Nat : owed[t] = n + 1 /\ owed'[t] = n
    <3>1. owed[t] \in Nat /\ owed[t] > 0 /\ owed'[t] = owed[t] - 1
      BY <1>8, <2>4 DEF ToolReturns, TypeInv, TypeOK, BatchIsOwed
    <3>2. owed[t] - 1 \in Nat /\ owed[t] = (owed[t] - 1) + 1
      BY <3>1
    <3>3. QED
      BY <3>1, <3>2
  <2>6. pc'[t] \in AtTools <=> n # 0
    BY <1>8, <2>5 DEF ToolReturns, Goto, LastOfBatch, AtTools, TypeInv, TypeOK
  <2>7. CASE t \in Disturbed'
    <3>1. ~ Good(Disturbed', e) /\ \A u \in Turn : Steady(u)
      BY <2>3, <2>4, <2>7 DEF Good, Steady
    <3>2. QED
      BY <1>0, <2>3, <3>1, LooseLine DEF TypeInv, TypeOK
  <2>8. CASE t \notin Disturbed'
    <3>1. pc[t] \in AtTools /\ sessionOf'[t] = s
      BY <2>1, <2>4 DEF AtTools
    <3>2. QED
      BY <1>0, <2>1, <2>3, <2>4, <2>5, <2>6, <2>8, <3>1, ResultLine
  <2>9. QED
    BY <2>7, <2>8
<1>9. ASSUME NEW t \in Turn, ReviewEnds(t) PROVE Goal
  <2>1. \A u \in Turn : Steady(u)
    BY <1>9 DEF ReviewEnds, Steady
  <2>2. PICK e \in Entry : e = [kind |-> "critique", turn |-> t, calls |-> 0]
    BY DEF Entry, Kinds
  <2>3. PICK s \in Session : s = sessionOf[t]
    BY <1>9 DEF ReviewEnds, TypeInv, Addressed
  <2>4. e.kind = "critique" /\ ~ Good(Disturbed', e)
    BY <2>2 DEF Good
  <2>5. CASE UNCHANGED journal
    BY <1>a, <2>1, <2>5
  <2>6. CASE journal' = [journal EXCEPT ![s] = Append(@, e)]
    BY <1>0, <2>1, <2>4, <2>6, LooseLine DEF TypeInv, TypeOK
  <2>7. QED
    BY <1>9, <2>2, <2>3, <2>5, <2>6 DEF ReviewEnds
<1>10. ASSUME NEW s \in Session, Abort(s) PROVE Goal
  <2>1. \A u \in Turn : Steady(u)
    BY <1>10 DEF Abort, Steady
  <2>2. QED
    BY <1>10, <1>a, <2>1 DEF Abort, NoWrite
<1>11. ASSUME NEW s \in Session, SetModel(s) PROVE Goal
  <2>1. \A u \in Turn : Steady(u)
    BY <1>11 DEF SetModel, Steady
  <2>2. PICK e \in Entry : e = [kind |-> "model", turn |-> NoTurn, calls |-> 0]
    BY DEF Entry, Kinds
  <2>3. journal' = [journal EXCEPT ![s] = Append(@, e)]
    BY <1>11, <2>2 DEF SetModel
  <2>4. \A r \in Session : Told(r)' = Told(r)
    BY <1>0, <2>2, <2>3, ToldAppend DEF Added
  <2>5. QED
    BY <1>0, <2>1, <2>4, QuietJournal
<1>12. CASE Restart
  <2>1. \A u \in Turn : Steady(u)
    BY <1>12 DEF Restart, Steady, Disturbed, AtTools, Running, TypeInv, TypeOK
  <2>2. QED
    BY <1>12, <1>a, <2>1 DEF Restart, NoWrite
<1>13. CASE UNCHANGED vars
  <2>1. \A u \in Turn : Steady(u)
    BY <1>13 DEF vars, Steady
  <2>2. QED
    BY <1>13, <1>a, <2>1 DEF vars
<1>14. QED
  BY <1>1, <1>2, <1>3, <1>4, <1>5, <1>6, <1>7, <1>8, <1>9, <1>10, <1>11, <1>12, <1>13
     DEF Next, TurnStep

LEMMA HistoryInit ==
  ASSUME \A lines \in PastJournals : WellFormed(Messages(lines)), Init
  PROVE  HistoryInv
<1>1. \A t \in Turn : pc[t] = "unborn"
  BY DEF Init
<1>2. BatchInv /\ LoadInv
  BY <1>1 DEF BatchInv, LoadInv, Eligible, AtTools
<1>3. ASSUME NEW s \in Session PROVE SessionInv(s)
  <2>1. Told(s) \in Seq(Entry) /\ WellFormed(Told(s))
    BY TypeInit, ToldType DEF TypeInv, Init, Told
  <2>2. Sound(Disturbed, Told(s))
    BY <2>1, WellFormedIsSound
  <2>3. QED
    BY <2>2 DEF Sound, SessionInv
<1>4. QED
  BY <1>2, <1>3 DEF HistoryInv, JournalInv

(* UndisturbedHistoryIsWellFormed: what a turn sends to the model is well     *)
(* formed as far as nobody in it was cancelled, failed or died and no late     *)
(* critique landed in it, wherever it is pruned and whatever other turns,      *)
(* set_model calls and crashes did in between; provided that what earlier      *)
(* runs left was well formed.                                                  *)
THEOREM UndisturbedHistoriesAreSent ==
  ASSUME \A lines \in PastJournals : WellFormed(Messages(lines))
  PROVE  Spec => []UndisturbedHistoryIsWellFormed
<1>1. Init => HistoryInv
  BY HistoryInit
<1>2. IInv /\ HistoryInv /\ [Next]_vars => HistoryInv'
  BY LoadStep, JournalStep DEF IInv, HistoryInv
<1>3. IInv /\ HistoryInv => UndisturbedHistoryIsWellFormed
  <2> SUFFICES ASSUME IInv, HistoryInv, NEW t \in Turn, Requesting(t),
                      \A i \in 1..Len(History(t)) :
                         /\ History(t)[i].turn \notin cancelled \cup erred \cup killed
                         /\ History(t)[i].kind # "critique"
               PROVE  WellFormed(History(t))
    BY DEF UndisturbedHistoryIsWellFormed
  <2>1. PICK s \in Session : s = sessionOf[t]
    BY DEF IInv, TypeInv, Addressed, Requesting
  <2>2. /\ journal[s] \in Seq(Entry) /\ Len(journal[s]) \in Nat /\ loaded[t] \in Nat
        /\ loaded[t] <= Len(journal[s]) /\ Sound(Disturbed, Messages(Loaded(t)))
    BY <2>1, LenProperties DEF IInv, TypeInv, TypeOK, HistoryInv, LoadInv, Eligible, Requesting
  <2>3. Loaded(t) \in Seq(Entry)
    <3>1. \A k \in 1..loaded[t] : journal[s][k] \in Entry
      BY <2>2, ElementOfSeq
    <3>2. QED
      BY <2>1, <2>2, <3>1, SubSeqProperties DEF Loaded
  <2> DEFINE msgs == Messages(Loaded(t))
             b == HistoryStart(msgs)
  <2>4. msgs \in Seq(Entry) /\ Sound(Disturbed, msgs)
    BY <2>2, <2>3, MessagesType
  <2>5. History(t) = SubSeq(msgs, b, Len(msgs))
    BY DEF History, Loaded
  <2> HIDE DEF msgs
  <2>6. b \in Nat /\ (b = 1 \/ (b \in 1..Len(msgs) /\ msgs[b].kind = "user"))
    <3>1. Len(msgs) \in Nat
      BY <2>4, LenProperties
    <3>2. QED
      BY <2>4, <3>1, HistoryStartsAtUser
  <2> HIDE DEF b
  <2>7. \A k \in 1..Len(History(t)) : Good(Disturbed, History(t)[k])
    BY DEF Good, Disturbed
  <2>8. QED
    BY <2>4, <2>5, <2>6, <2>7, SuffixIsWellFormed
<1>4. QED
  BY <1>1, <1>2, <1>3, IInvHolds, PTL DEF Spec
=============================================================================
