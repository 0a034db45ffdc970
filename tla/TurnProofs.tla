------------------------------- MODULE TurnProofs ------------------------------
(***************************************************************************)
(* Theorems about a turn in the engine and about what the desktop shows of *)
(* its conversation.  AgentTurn: for any budget, thresholds, fingerprints, *)
(* step limits, batch sizes and retry limits the assumptions allow.        *)
(* ConversationView: for any conversations, turns, texts, queues and       *)
(* disturbances.                                                           *)
(***************************************************************************)
EXTENDS AgentTurn, ConversationView, SequenceTheorems, TLAPS

(***************************************************************************)
(* AgentTurn.                                                              *)
(***************************************************************************)
(***************************************************************************)
(* The guard.                                                              *)
(***************************************************************************)

(* The soft threshold is at least two calls ahead of the firm one.          *)
LEMMA ThresholdsApart ==
  /\ Limit \in Nat /\ SoftAt \in Nat /\ FirmAt \in Nat
  /\ SoftAt >= 2
  /\ FirmAt >= SoftAt + 2
<1>1. Limit \in Nat
  BY GuardAssumption DEF Limit, AtLeast
<1>2. PICK l \in Nat : l = Limit
  BY <1>1
<1>3. /\ l \div 4 \in Nat /\ l \div 2 \in Nat
      /\ l \div 2 >= 2 * (l \div 4)
  OBVIOUS
<1>4. QED
  BY <1>2, <1>3, GuardAssumption DEF SoftAt, FirmAt, AtLeast

LEMMA NewGuardType == NewGuard \in Guard
  BY GuardAssumption DEF NewGuard, Guard

LEMMA CountedType ==
  ASSUME NEW g \in Guard, NEW f \in Fingerprint
  PROVE  /\ Counted(g, f) \in Guard
         /\ Counted(g, f).calls = g.calls + 1
         /\ Counted(g, f).soft = g.soft
         /\ Counted(g, f).firm = g.firm
         /\ Counted(g, f).repeatAt = g.repeatAt
<1> DEFINE streak == IF g.last = f THEN g.streak + 1 ELSE 1
           seen == [g.seen EXCEPT ![f] = IF @ < RepeatTotal THEN @ + 1 ELSE @]
           c == [calls |-> g.calls + 1, last |-> f, streak |-> streak, seen |-> seen,
                 soft |-> g.soft, firm |-> g.firm, repeatAt |-> g.repeatAt]
<1>1. streak \in Nat
  BY DEF Guard
<1>2. seen \in [Fingerprint -> 0..RepeatTotal]
  BY GuardAssumption DEF Guard
<1>3. Counted(g, f) = [g EXCEPT !.calls = g.calls + 1, !.last = f, !.streak = streak,
                              !.seen = seen]
  BY DEF Counted, Guard
<1> HIDE DEF streak, seen
<1>6. Counted(g, f) = c
  BY <1>3 DEF Guard
<1>4. c \in Guard
  BY <1>1, <1>2 DEF Guard
<1>5. QED
  BY <1>6, <1>4

LEMMA NoticedType ==
  ASSUME NEW g \in Guard, NEW level
  PROVE  /\ Noticed(g, level) \in Guard
         /\ Noticed(g, level).calls = g.calls
         /\ Noticed(g, level).soft = (g.soft \/ level = "soft")
         /\ Noticed(g, level).firm = (g.firm \/ level = "firm")
         /\ Noticed(g, level).repeatAt = IF level = "repeat" THEN g.calls ELSE g.repeatAt
  BY DEF Noticed, Guard

LEMMA RecordType ==
  ASSUME NEW g \in Guard, NEW f \in Fingerprint
  PROVE  /\ Record(g, f) \in Guard
         /\ Record(g, f).calls = g.calls + 1
  BY CountedType, NoticedType DEF Record

(* No threshold is missed: a guard that has passed one has said so, and one *)
(* that has just reached it has said so unless it reported a repetition.    *)
Warned(g) ==
  /\ g.calls >= SoftAt =>
       g.soft \/ (g.calls = SoftAt /\ g.repeatAt = SoftAt)
  /\ g.calls >= FirmAt =>
       g.firm \/ (g.calls = FirmAt /\ g.repeatAt = FirmAt)

LEMMA RecordWarns ==
  ASSUME NEW g \in Guard, NEW f \in Fingerprint, Warned(g)
  PROVE  Warned(Record(g, f))
<1> DEFINE c == Counted(g, f)
           level == Level(c, f)
           r == Noticed(c, level)
<1>1. /\ c \in Guard /\ c.calls = g.calls + 1
      /\ c.soft = g.soft /\ c.firm = g.firm /\ c.repeatAt = g.repeatAt
  BY CountedType
<1>2. /\ r.calls = c.calls
      /\ r.soft = (c.soft \/ level = "soft")
      /\ r.firm = (c.firm \/ level = "firm")
      /\ r.repeatAt = IF level = "repeat" THEN c.calls ELSE c.repeatAt
  BY <1>1, NoticedType
<1>3. /\ g.calls \in Nat /\ g.repeatAt \in Nat
      /\ g.soft \in BOOLEAN /\ g.firm \in BOOLEAN
  BY DEF Guard
<1>4. level = "repeat" => c.repeatAt = 0 \/ c.calls >= c.repeatAt + RepeatStreak
  BY DEF Level, Cooled
<1>5. level # "repeat" =>
        level = IF c.calls >= FirmAt /\ ~c.firm THEN "firm"
                ELSE IF c.calls >= SoftAt /\ ~c.soft THEN "soft" ELSE "none"
  BY DEF Level
<1> HIDE DEF c, level, r
<1>6. RepeatStreak \in Nat /\ RepeatStreak >= 2
  BY GuardAssumption
<1>7. r.calls >= SoftAt => r.soft \/ (r.calls = SoftAt /\ r.repeatAt = SoftAt)
  <2> SUFFICES ASSUME r.calls >= SoftAt, ~r.soft
               PROVE  r.calls = SoftAt /\ r.repeatAt = SoftAt
    OBVIOUS
  <2>1. ~g.soft /\ ~c.soft /\ level # "soft"
    BY <1>1, <1>2
  <2>2. g.calls >= SoftAt => g.calls = SoftAt /\ g.repeatAt = SoftAt
    BY <2>1 DEF Warned
  <2>3. level # "firm"
    BY <1>1, <1>3, <1>5, <2>2, ThresholdsApart
  <2>4. level = "repeat"
    BY <1>2, <1>5, <2>1, <2>3
  <2>5. g.calls < SoftAt
    BY <1>1, <1>3, <1>4, <1>6, <2>2, <2>4, ThresholdsApart
  <2>6. QED
    BY <1>1, <1>2, <1>3, <2>4, <2>5, ThresholdsApart
<1>8. r.calls >= FirmAt => r.firm \/ (r.calls = FirmAt /\ r.repeatAt = FirmAt)
  BY <1>1, <1>2, <1>3, <1>4, <1>5, <1>6, ThresholdsApart DEF Warned
<1>9. QED
  BY <1>7, <1>8 DEF Warned, Record, r, c, level

(***************************************************************************)
(* The inductive invariant.                                                *)
(***************************************************************************)
Looping == {"begin", "head", "request", "batch", "tool", "review"}

(* The counters are below their limits wherever they can still grow.        *)
CountersInv ==
  /\ pc \in Looping => emptyStreak <= MaxEmptyRetries
  /\ pc = "review" => reviews < MaxReviewRetries
  /\ pc \in Phases \ {"failed", "done"} => settles = 0
  /\ pc = "failed" => settles <= 1

(* The calls of the batch not yet executed are exactly those without a      *)
(* result, and only a cancelled turn ever leaves some behind.               *)
CallsInv ==
  /\ pc \in {"batch", "tool"} => unanswered = Len(batch) /\ ~misplaced
  /\ pc = "tool" => Len(batch) > 0
  /\ pc \in {"begin", "request", "review", "synthesis"} => unanswered = 0 /\ ~misplaced
  /\ pc \in {"head", "after"} => cancelled \/ (unanswered = 0 /\ ~misplaced)

(* A batch starts below the limit.                                          *)
BudgetInv ==
  /\ guard.calls < Limit + MaxBatch
  /\ pc = "request" => guard.calls < Limit
  /\ pc = "batch" => guard.calls + Len(batch) < Limit + MaxBatch
  /\ pc = "tool" => guard.calls + Len(batch) <= Limit + MaxBatch

(* A turn leaves its loop with an answer, or with a reason for a summary.   *)
EndInv ==
  /\ pc \in Looping => ~finished /\ ~exhausted
  /\ pc = "after" => \/ finished /\ outcome \in {"stop", "error"}
                     \/ ~finished /\ (cancelled \/ OutOfSteps \/ exhausted)
  /\ pc = "closing" => outcome = "stop"
  /\ pc = "failed" => erred
  /\ NoSilentEnd

TurnInv == TurnTypeOK /\ CountersInv /\ CallsInv /\ BudgetInv /\ EndInv /\ Warned(guard)

LEMMA BatchType ==
  ASSUME NEW calls \in Batches
  PROVE  calls \in Seq(Fingerprint) /\ Len(calls) \in 1..MaxBatch
<1>1. PICK n \in 1..MaxBatch : calls \in [1..n -> Fingerprint]
  BY DEF Batches
<1>2. QED
  BY <1>1, TurnAssumption

LEMMA CountersStep ==
  ASSUME TurnTypeOK, CountersInv, [TurnNext]_turnVars
  PROVE  CountersInv'
<1> USE TurnAssumption DEF TurnTypeOK, CountersInv, Looping, Phases, Goto
<1>1. CASE Begin \/ LeaveLoop \/ TakeStep
  BY <1>1 DEF Begin, LeaveLoop, Exhausted, OutOfSteps, TakeStep
<1>2. CASE RequestFails \/ ReplyEmpty \/ GiveUpOnEmpty \/ ReplyText
  BY <1>2 DEF RequestFails, ReplyEmpty, EmptyRetriesLeft, GiveUpOnEmpty, ReplyText
<1>3. CASE SubmitForReview \/ ReviewPasses \/ ReviewRejects
  BY <1>3 DEF SubmitForReview, ReviewPasses, ReviewRejects, ReviewsAfterRejection
<1>4. CASE ExecuteTool
  BY <1>4 DEF ExecuteTool, BatchOver
<1>5. CASE ToolReturns
  BY <1>5 DEF ToolReturns
<1>6. CASE EndBatch
  BY <1>6 DEF EndBatch, BatchOver
<1>7. CASE JournalFails \/ RequestSynthesis \/ SynthesisEnds \/ Settle
  BY <1>7 DEF JournalFails, RequestSynthesis, NeedsSynthesis, OutOfSteps, SynthesisEnds, Settle
<1>8. ASSUME NEW calls \in Batches, ReplyCalls(calls) PROVE CountersInv'
  BY <1>8, BatchType DEF ReplyCalls
<1>9. CASE Cancel \/ UNCHANGED turnVars
  BY <1>9 DEF Cancel, turnVars
<1>10. QED
  BY <1>1, <1>2, <1>3, <1>4, <1>5, <1>6, <1>7, <1>8, <1>9 DEF TurnNext, LoopStep

LEMMA EndStep ==
  ASSUME TurnTypeOK, EndInv, [TurnNext]_turnVars
  PROVE  EndInv'
<1> USE TurnAssumption DEF TurnTypeOK, EndInv, NoSilentEnd, Looping, Phases, Goto, OutOfSteps
<1>1. CASE Begin \/ LeaveLoop \/ TakeStep
  <2>1. CASE Begin \/ TakeStep
    BY <2>1 DEF Begin, TakeStep
  <2>2. CASE LeaveLoop
    <3>1. OutOfSteps' <=> OutOfSteps
      BY <2>2 DEF LeaveLoop
    <3> HIDE DEF OutOfSteps
    <3>2. ~finished' /\ (cancelled' \/ OutOfSteps' \/ exhausted')
      BY <2>2, <3>1 DEF LeaveLoop
    <3>3. QED
      BY <2>2, <3>2 DEF LeaveLoop
  <2>3. QED
    BY <1>1, <2>1, <2>2
<1>2. CASE RequestFails \/ ReplyEmpty \/ GiveUpOnEmpty \/ ReplyText
  BY <1>2 DEF RequestFails, ReplyEmpty, EmptyRetriesLeft, GiveUpOnEmpty, ReplyText
<1>3. CASE SubmitForReview \/ ReviewPasses \/ ReviewRejects
  BY <1>3 DEF SubmitForReview, ReviewPasses, ReviewRejects, ReviewsAfterRejection
<1>4. CASE ExecuteTool
  BY <1>4 DEF ExecuteTool, BatchOver
<1>5. CASE ToolReturns
  BY <1>5 DEF ToolReturns
<1>6. CASE EndBatch
  BY <1>6 DEF EndBatch, BatchOver
<1>7. CASE JournalFails \/ RequestSynthesis \/ SynthesisEnds \/ Settle
  BY <1>7 DEF JournalFails, RequestSynthesis, NeedsSynthesis, OutOfSteps, SynthesisEnds, Settle
<1>8. ASSUME NEW calls \in Batches, ReplyCalls(calls) PROVE EndInv'
  BY <1>8, BatchType DEF ReplyCalls
<1>9. CASE Cancel \/ UNCHANGED turnVars
  BY <1>9 DEF Cancel, turnVars
<1>10. QED
  BY <1>1, <1>2, <1>3, <1>4, <1>5, <1>6, <1>7, <1>8, <1>9 DEF TurnNext, LoopStep

LEMMA CallsStep ==
  ASSUME TurnTypeOK, CallsInv, [TurnNext]_turnVars
  PROVE  CallsInv'
<1> USE TurnAssumption DEF TurnTypeOK, CallsInv, Goto, NoPush, PushMessage, PushResult, PushCalls
<1>1. CASE Begin \/ LeaveLoop \/ TakeStep
  BY <1>1 DEF Begin, LeaveLoop, Exhausted, OutOfSteps, TakeStep
<1>2. CASE RequestFails \/ ReplyEmpty \/ GiveUpOnEmpty \/ ReplyText
  BY <1>2 DEF RequestFails, ReplyEmpty, EmptyRetriesLeft, GiveUpOnEmpty, ReplyText
<1>3. CASE SubmitForReview \/ ReviewPasses \/ ReviewRejects
  BY <1>3 DEF SubmitForReview, ReviewPasses, ReviewRejects, ReviewsAfterRejection
<1>4. CASE ExecuteTool
  BY <1>4 DEF ExecuteTool, BatchOver
<1>5. CASE ToolReturns
  BY <1>5 DEF ToolReturns
<1>6. CASE EndBatch
  BY <1>6 DEF EndBatch, BatchOver
<1>7. CASE JournalFails \/ RequestSynthesis \/ SynthesisEnds \/ Settle
  BY <1>7 DEF JournalFails, RequestSynthesis, NeedsSynthesis, OutOfSteps, SynthesisEnds, Settle
<1>8. ASSUME NEW calls \in Batches, ReplyCalls(calls) PROVE CallsInv'
  BY <1>8, BatchType DEF ReplyCalls
<1>9. CASE Cancel \/ UNCHANGED turnVars
  BY <1>9 DEF Cancel, turnVars
<1>10. QED
  BY <1>1, <1>2, <1>3, <1>4, <1>5, <1>6, <1>7, <1>8, <1>9 DEF TurnNext, LoopStep

LEMMA BudgetStep ==
  ASSUME TurnTypeOK, CallsInv, BudgetInv, [TurnNext]_turnVars
  PROVE  BudgetInv'
<1> USE TurnAssumption, ThresholdsApart DEF TurnTypeOK, BudgetInv, Goto
<1>1. guard.calls \in Nat
  BY DEF Guard
<1>2. CASE UNCHANGED guard /\ pc' \notin {"request", "batch", "tool"}
  BY <1>1, <1>2
<1>3. CASE Begin \/ LeaveLoop \/ RequestFails \/ ReplyEmpty \/ GiveUpOnEmpty \/ ReplyText
  BY <1>2, <1>3 DEF Begin, LeaveLoop, RequestFails, ReplyEmpty, GiveUpOnEmpty, ReplyText
<1>4. CASE SubmitForReview \/ ReviewPasses \/ ReviewRejects \/ EndBatch
  BY <1>2, <1>4 DEF SubmitForReview, ReviewPasses, ReviewRejects, EndBatch
<1>5. CASE JournalFails \/ RequestSynthesis \/ SynthesisEnds \/ Settle
  BY <1>2, <1>5 DEF JournalFails, RequestSynthesis, SynthesisEnds, Settle
<1>6. CASE TakeStep
  BY <1>1, <1>6 DEF TakeStep, Exhausted
<1>7. ASSUME NEW calls \in Batches, ReplyCalls(calls) PROVE BudgetInv'
  BY <1>1, <1>7, BatchType DEF ReplyCalls
<1>8. CASE ExecuteTool
  <2>1. pc = "batch" /\ pc' = "tool" /\ batch' = batch /\ batch # <<>>
    BY <1>8 DEF ExecuteTool, BatchOver
  <2>2. Head(batch) \in Fingerprint /\ Len(batch) \in Nat \ {0}
    BY <2>1
  <2>3. guard'.calls = guard.calls + 1
    BY <1>8, <2>2, RecordType DEF ExecuteTool
  <2>4. QED
    BY <1>1, <2>1, <2>2, <2>3
<1>9. CASE ToolReturns
  <2>1. pc = "tool" /\ pc' = "batch" /\ batch' = Tail(batch) /\ guard' = guard
    BY <1>9 DEF ToolReturns
  <2>2. Len(batch) \in Nat /\ Len(batch) > 0
    BY <2>1 DEF CallsInv
  <2>3. Len(batch') = Len(batch) - 1
    BY <2>1, <2>2
  <2>4. QED
    BY <1>1, <2>1, <2>2, <2>3
<1>10. CASE Cancel \/ UNCHANGED turnVars
  BY <1>10 DEF Cancel, turnVars
<1>11. QED
  BY <1>3, <1>4, <1>5, <1>6, <1>7, <1>8, <1>9, <1>10 DEF TurnNext, LoopStep

LEMMA WarnedStep ==
  ASSUME TurnTypeOK, Warned(guard), [TurnNext]_turnVars
  PROVE  Warned(guard)'
<1>1. CASE ExecuteTool
  <2>1. Head(batch) \in Fingerprint
    BY <1>1 DEF ExecuteTool, BatchOver, TurnTypeOK
  <2>2. guard' = Record(guard, Head(batch)) /\ guard \in Guard
    BY <1>1 DEF ExecuteTool, TurnTypeOK
  <2>3. QED
    BY <2>1, <2>2, RecordWarns DEF Warned
<1>2. CASE UNCHANGED guard
  BY <1>2 DEF Warned
<1>3. QED
  BY <1>1, <1>2 DEF TurnNext, LoopStep, turnVars, Cancel, Begin, LeaveLoop, TakeStep, RequestFails,
     ReplyEmpty, GiveUpOnEmpty, ReplyText, ReplyCalls, SubmitForReview, ReviewPasses,
     ReviewRejects, ToolReturns, EndBatch, JournalFails, RequestSynthesis, SynthesisEnds,
     Settle

LEMMA TypeStep ==
  ASSUME TurnTypeOK, CountersInv, CallsInv, [TurnNext]_turnVars
  PROVE  TurnTypeOK'
<1> USE TurnAssumption DEF Goto
<1>1. /\ pc' \in Phases /\ outcome' \in Outcomes
      /\ finished' \in BOOLEAN /\ erred' \in BOOLEAN /\ cancelled' \in BOOLEAN
  <2>1. pc' \in Phases
    BY DEF TurnTypeOK, Phases, TurnNext, LoopStep, turnVars, Cancel, Begin, LeaveLoop, TakeStep,
       RequestFails, ReplyEmpty, GiveUpOnEmpty, ReplyText, ReplyCalls, SubmitForReview,
       ReviewPasses, ReviewRejects, ExecuteTool, ToolReturns, EndBatch, JournalFails,
       RequestSynthesis, SynthesisEnds, Settle
  <2>2. outcome' \in Outcomes
    BY DEF TurnTypeOK, Outcomes, TurnNext, LoopStep, turnVars, Cancel, Begin, LeaveLoop, TakeStep,
       RequestFails, ReplyEmpty, GiveUpOnEmpty, ReplyText, ReplyCalls, SubmitForReview,
       ReviewPasses, ReviewRejects, ExecuteTool, ToolReturns, EndBatch, JournalFails,
       RequestSynthesis, SynthesisEnds, Settle
  <2>3. finished' \in {finished, TRUE} /\ erred' \in {erred, TRUE}
           /\ cancelled' \in {cancelled, TRUE}
    BY DEF TurnNext, LoopStep, turnVars, Cancel, Begin, LeaveLoop, TakeStep,
       RequestFails, ReplyEmpty, GiveUpOnEmpty, ReplyText, ReplyCalls, SubmitForReview,
       ReviewPasses, ReviewRejects, ExecuteTool, ToolReturns, EndBatch, JournalFails,
       RequestSynthesis, SynthesisEnds, Settle
  <2>4. QED
    BY <2>1, <2>2, <2>3 DEF TurnTypeOK
<1>2. notices' \in BOOLEAN /\ exhausted' \in BOOLEAN /\ misplaced' \in BOOLEAN
  <2>1. UNCHANGED notices \/ ExecuteTool \/ EndBatch
    BY DEF TurnNext, LoopStep, turnVars, Cancel, Begin, LeaveLoop, TakeStep, RequestFails, ReplyEmpty,
     GiveUpOnEmpty, ReplyText, ReplyCalls, SubmitForReview, ReviewPasses, ReviewRejects,
     ExecuteTool, ToolReturns, EndBatch, JournalFails, RequestSynthesis, SynthesisEnds, Settle
  <2>2. UNCHANGED exhausted \/ LeaveLoop
    BY DEF TurnNext, LoopStep, turnVars, Cancel, Begin, LeaveLoop, TakeStep, RequestFails, ReplyEmpty,
     GiveUpOnEmpty, ReplyText, ReplyCalls, SubmitForReview, ReviewPasses, ReviewRejects,
     ExecuteTool, ToolReturns, EndBatch, JournalFails, RequestSynthesis, SynthesisEnds, Settle
  <2>3. misplaced' \in {misplaced, misplaced \/ unanswered > 0}
    BY DEF NoPush, PushMessage, PushResult, PushCalls, TurnNext, LoopStep, turnVars, Cancel,
     Begin, LeaveLoop, TakeStep, RequestFails, ReplyEmpty,
     GiveUpOnEmpty, ReplyText, ReplyCalls, SubmitForReview, ReviewPasses, ReviewRejects,
     ExecuteTool, ToolReturns, EndBatch, JournalFails, RequestSynthesis, SynthesisEnds, Settle
  <2>4. QED
    BY <2>1, <2>2, <2>3 DEF TurnTypeOK, ExecuteTool, EndBatch, LeaveLoop
<1>3. maxSteps' \in StepLimits /\ step' \in 0..maxSteps'
  <2>1. UNCHANGED <<maxSteps, step>> \/ TakeStep
    BY DEF TurnNext, LoopStep, turnVars, Cancel, Begin, LeaveLoop, TakeStep, RequestFails, ReplyEmpty,
     GiveUpOnEmpty, ReplyText, ReplyCalls, SubmitForReview, ReviewPasses, ReviewRejects,
     ExecuteTool, ToolReturns, EndBatch, JournalFails, RequestSynthesis, SynthesisEnds, Settle
  <2>2. maxSteps \in Nat
    BY DEF TurnTypeOK
  <2>3. QED
    BY <2>1, <2>2 DEF TurnTypeOK, TakeStep, OutOfSteps
<1>4. guard' \in Guard /\ batch' \in Seq(Fingerprint)
  <2>1. CASE ExecuteTool
    BY <2>1, RecordType DEF ExecuteTool, BatchOver, TurnTypeOK
  <2>2. CASE ToolReturns
    BY <2>2 DEF ToolReturns, TurnTypeOK, CallsInv
  <2>3. ASSUME NEW calls \in Batches, ReplyCalls(calls)
        PROVE  guard' \in Guard /\ batch' \in Seq(Fingerprint)
    BY <2>3, BatchType DEF ReplyCalls, TurnTypeOK
  <2>4. CASE EndBatch
    BY <2>4 DEF EndBatch, TurnTypeOK
  <2>5. CASE UNCHANGED <<guard, batch>>
    BY <2>5 DEF TurnTypeOK
  <2>6. QED
    BY <2>1, <2>2, <2>3, <2>4, <2>5 DEF TurnNext, LoopStep, turnVars, Cancel, Begin, LeaveLoop,
     TakeStep, RequestFails, ReplyEmpty, GiveUpOnEmpty, ReplyText, SubmitForReview,
     ReviewPasses, ReviewRejects, JournalFails, RequestSynthesis, SynthesisEnds, Settle
<1>5. emptyStreak' \in 0..(MaxEmptyRetries + 1)
  <2>1. \/ emptyStreak' \in {emptyStreak, 0}
        \/ pc = "request" /\ emptyStreak' = emptyStreak + 1
    BY DEF TurnNext, LoopStep, turnVars, Cancel, Begin, LeaveLoop, TakeStep, RequestFails, ReplyEmpty,
     GiveUpOnEmpty, ReplyText, ReplyCalls, SubmitForReview, ReviewPasses, ReviewRejects,
     ExecuteTool, ToolReturns, EndBatch, JournalFails, RequestSynthesis, SynthesisEnds, Settle
  <2>2. QED
    BY <2>1 DEF TurnTypeOK, CountersInv, Looping
<1>6. reviews' \in 0..MaxReviewRetries
  <2>1. reviews' = reviews \/ (pc = "review" /\ reviews' = reviews + 1)
    BY DEF ReviewsAfterRejection, TurnNext, LoopStep, turnVars, Cancel, Begin, LeaveLoop, TakeStep, RequestFails, ReplyEmpty,
     GiveUpOnEmpty, ReplyText, ReplyCalls, SubmitForReview, ReviewPasses, ReviewRejects,
     ExecuteTool, ToolReturns, EndBatch, JournalFails, RequestSynthesis, SynthesisEnds, Settle
  <2>2. QED
    BY <2>1 DEF TurnTypeOK, CountersInv
<1>7. unanswered' \in 0..MaxBatch
  <2>1. CASE ToolReturns
    BY <2>1 DEF ToolReturns, PushResult, TurnTypeOK, CallsInv
  <2>2. ASSUME NEW calls \in Batches, ReplyCalls(calls) PROVE unanswered' \in 0..MaxBatch
    BY <2>2, BatchType DEF ReplyCalls, PushCalls
  <2>3. CASE UNCHANGED unanswered
    BY <2>3 DEF TurnTypeOK
  <2>4. QED
    BY <2>1, <2>2, <2>3 DEF NoPush, PushMessage, TurnNext, LoopStep, turnVars, Cancel, Begin,
     LeaveLoop, TakeStep, RequestFails, ReplyEmpty, GiveUpOnEmpty, ReplyText, SubmitForReview,
     ReviewPasses, ReviewRejects, ExecuteTool, EndBatch, JournalFails, RequestSynthesis,
     SynthesisEnds, Settle
<1>8. settles' \in 0..2
  <2>1. settles' = settles \/ (pc # "done" /\ settles' = settles + 1)
    BY DEF TurnNext, LoopStep, turnVars, Cancel, Begin, LeaveLoop, TakeStep, RequestFails, ReplyEmpty,
     GiveUpOnEmpty, ReplyText, ReplyCalls, SubmitForReview, ReviewPasses, ReviewRejects,
     ExecuteTool, ToolReturns, EndBatch, JournalFails, RequestSynthesis, SynthesisEnds, Settle
  <2>2. QED
    BY <2>1 DEF TurnTypeOK, CountersInv, Phases
<1>9. QED
  BY <1>1, <1>2, <1>3, <1>4, <1>5, <1>6, <1>7, <1>8 DEF TurnTypeOK

LEMMA TurnInvInit == TurnInit => TurnInv
<1> SUFFICES ASSUME TurnInit PROVE TurnInv
  OBVIOUS
<1> USE TurnAssumption DEF TurnInit
<1>1. TurnTypeOK
  <2>1. maxSteps \in StepLimits /\ step \in 0..maxSteps
    OBVIOUS
  <2>2. guard \in Guard /\ batch \in Seq(Fingerprint)
    BY NewGuardType
  <2>3. /\ emptyStreak \in 0..(MaxEmptyRetries + 1) /\ reviews \in 0..MaxReviewRetries
        /\ unanswered \in 0..MaxBatch /\ settles \in 0..2
    OBVIOUS
  <2>4. QED
    BY <2>1, <2>2, <2>3 DEF TurnTypeOK, Phases, Outcomes
<1>2. CountersInv /\ CallsInv /\ EndInv
  BY DEF CountersInv, CallsInv, EndInv, NoSilentEnd, Looping
<1>3. guard.calls = 0
  BY DEF NewGuard
<1>4. BudgetInv
  BY <1>3, ThresholdsApart DEF BudgetInv
<1>5. Warned(guard)
  BY <1>3, ThresholdsApart DEF Warned
<1>6. QED
  BY <1>1, <1>2, <1>4, <1>5 DEF TurnInv

LEMMA TurnInvHolds == TurnSpec => []TurnInv
<1>1. TurnInv /\ [TurnNext]_turnVars => TurnInv'
  BY TypeStep, CountersStep, CallsStep, BudgetStep, EndStep, WarnedStep DEF TurnInv
<1>2. QED
  BY TurnInvInit, <1>1, PTL DEF TurnSpec

(***************************************************************************)
(* Theorems.                                                               *)
(***************************************************************************)

(* TurnTypeOK: in particular, the retry counters of run_turn stay within their  *)
(* limits and no turn settles more than twice.                              *)
THEOREM TurnTypeCorrect == TurnSpec => []TurnTypeOK
<1>1. TurnInv => TurnTypeOK
  BY DEF TurnInv
<1>2. QED
  BY TurnInvHolds, <1>1, PTL

(* RequestsAreAnswered: no request goes out with a tool call unanswered or  *)
(* with anything between a call and its result, in a turn of any length.    *)
THEOREM TurnRequestsAreAnswered == TurnSpec => []RequestsAreAnswered
<1>1. TurnInv => RequestsAreAnswered
  BY DEF TurnInv, CallsInv, RequestsAreAnswered
<1>2. QED
  BY TurnInvHolds, <1>1, PTL

(* NoSilentEnd: a turn that was neither cancelled nor failed ends with text *)
(* for the user.                                                            *)
THEOREM TurnNeverEndsSilently == TurnSpec => []NoSilentEnd
<1>1. TurnInv => NoSilentEnd
  BY DEF TurnInv, EndInv
<1>2. QED
  BY TurnInvHolds, <1>1, PTL

(* WarningsOnTime: the model hears of each threshold at the latest one call *)
(* after it, for every budget and every sequence of calls.                  *)
THEOREM TurnWarnsOnTime == TurnSpec => []WarningsOnTime
<1>1. TurnInv => WarningsOnTime
  <2> SUFFICES ASSUME TurnInv PROVE WarningsOnTime
    OBVIOUS
  <2>1. guard.calls \in Nat
    BY DEF TurnInv, TurnTypeOK, Guard
  <2>2. QED
    BY <2>1, ThresholdsApart DEF TurnInv, Warned, WarningsOnTime
<1>2. QED
  BY TurnInvHolds, <1>1, PTL

(* OvershootIsBounded: the budget is overrun by less than one batch.        *)
THEOREM TurnOvershootIsBounded == TurnSpec => []OvershootIsBounded
<1>1. TurnInv => OvershootIsBounded
  BY DEF TurnInv, BudgetInv, OvershootIsBounded
<1>2. QED
  BY TurnInvHolds, <1>1, PTL

(***************************************************************************)
(* ConversationView.                                                       *)
(***************************************************************************)
\* What may be on the screen of c: messages that its journal has, or partial ones.
Own == [c \in Conversation |-> {m \in Message : Recorded(c, m)}]

\* The views, caches and polls made of the messages that own allows.
ViewOf(own, c) == [conv : {c}, online : BOOLEAN, streaming : BOOLEAN, messages : Seq(own[c])]
SomeView(own)  == {None} \union UNION {ViewOf(own, c) : c \in Conversation}
Caches(own)    == {f \in [Conversation -> SomeView(own)] :
                     \A c \in Conversation : f[c] = None \/ f[c] \in ViewOf(own, c)}
Served(r)      == r.n <= Len(stored[r.conv])
Polls          == {None} \union {r \in Request : Served(r)}
State(own) ==
  [view : SomeView(own), cache : Caches(own), selected : Conversation \union {None},
   optimistic : {None} \union Optimistic, streaming : SUBSET Conversation,
   newSet : BOOLEAN, poll : Polls]

EventsOf(own) ==
  {e \in [conv : Conversation \union {"*"},
          type : {"agent_start", "tool_execution_start", "tool_execution_end", "message_update",
                  "message_end", "stream_error", "agent_settled", "stream_closed"},
          message : Message \union {None}] :
     e.type = "message_end" => e.conv \in Conversation /\ e.message \in own[e.conv]}

Turn == [n : 0..MaxTurns, text : 0..MaxText,
         at : {"idle", "entered", "opened", "started", "called", "resulted", "answered", "settled"}]
Openings == [conv : Conversation, turn : 1..MaxTurns]
Sends == [turn : 1..MaxTurns, conv : Conversation \union {None},
          at : {"creating", "watching", "posting", "accepted", "refused"}]

(* The daemon's side.                                                       *)
DaemonInv ==
  /\ listed \subseteq Conversation /\ superseded \subseteq Conversation
  /\ aborts \subseteq Conversation /\ opening \subseteq Openings
  /\ stored \in [Conversation -> Seq(Message)]
  /\ \A c \in Conversation : \A i \in DOMAIN stored[c] : stored[c][i].conv = c
  /\ turn \in [Conversation -> Turn]
  /\ turns \in 0..MaxTurns /\ disturbances \in 0..MaxDisturbances

(* A call knows its conversation from when that exists.                     *)
SendInv == \A s \in sends : s \in Sends /\ (s.at = "creating" \/ s.conv \in Conversation)

(* What is under way is made of what the journals have, which only grow.    *)
WayInv ==
  /\ events \in Seq(EventsOf(Own))
  /\ poll \in Polls
  /\ fetches \in SUBSET {r \in Fetch : Served(r)}
  /\ SendInv

ScreenInv ==
  /\ selected \in Conversation \union {None} /\ ref \in Conversation \union {None}
  /\ tools \in Conversation \union {None}
  /\ live \in [Conversation -> Nat]
  /\ shown \in SomeView(Own) /\ cache \in Caches(Own)
  /\ optimistic \in {None} \union Optimistic
  /\ streaming \in SUBSET Conversation /\ busy \in BOOLEAN

ViewInv == DaemonInv /\ WayInv /\ ScreenInv

-----------------------------------------------------------------------------
(* Messages *)

LEMMA MergeIsSeq ==
  ASSUME NEW S, NEW s \in Seq(S), NEW m \in S
  PROVE  Merge(s, m) \in Seq(S)
<1>1. ASSUME NEW i PROVE [s EXCEPT ![i] = m] \in Seq(S)
  <2>1. s \in [1..Len(s) -> S] /\ Len(s) \in Nat
    OBVIOUS
  <2>2. [s EXCEPT ![i] = m] \in [1..Len(s) -> S]
    BY <2>1
  <2>3. QED
    BY <2>1, <2>2, SeqDef
<1>2. Append(s, m) \in Seq(S)
  OBVIOUS
<1>3. QED
  BY <1>1, <1>2 DEF Merge

LEMMA OverlayIsSeq ==
  ASSUME NEW S, NEW m \in Seq(S), NEW k \in Seq(S)
  PROVE  Overlay(m, k) \in Seq(S)
<1>1. CASE Len(m) > Len(k)
  <2>1. \A i \in Len(k) + 1 .. Len(m) : m[i] \in S
    OBVIOUS
  <2>2. SubSeq(m, Len(k) + 1, Len(m)) \in Seq(S)
    BY <2>1, SubSeqProperties
  <2>3. k \o SubSeq(m, Len(k) + 1, Len(m)) \in Seq(S)
    BY <2>2, ConcatProperties
  <2>4. QED
    BY <2>3, <1>1 DEF Overlay
<1>2. CASE Len(m) <= Len(k) /\ OfAssistant(m) /\ OfAssistant(k) /\ Last(m).text > Last(k).text
  <2>1. Last(m) \in S /\ Len(k) \in 1..Len(k)
    BY <1>2, EmptySeq, LenProperties DEF OfAssistant, Last
  <2>2. [k EXCEPT ![Len(k)] = Last(m)] \in Seq(S)
    BY <2>1, ExceptSeq
  <2>3. QED
    BY <2>2, <1>2, LenProperties DEF Overlay
<1>3. CASE ~(Len(m) > Len(k)) /\ ~(Len(m) <= Len(k) /\ OfAssistant(m) /\ OfAssistant(k) /\ Last(m).text > Last(k).text)
  BY <1>3 DEF Overlay
<1>4. QED
  BY <1>1, <1>2, <1>3

-----------------------------------------------------------------------------
(* What a handler does to the state it starts from *)

LEMMA ViewsAreViews ==
  ASSUME NEW own, NEW c \in Conversation, NEW v \in ViewOf(own, c)
  PROVE  v \in SomeView(own) /\ v.conv = c
  BY DEF SomeView, ViewOf

LEMMA DrawStays ==
  ASSUME NEW own, NEW s \in State(own), NEW c \in Conversation, NEW v \in ViewOf(own, c)
  PROVE  Draw(s, v) \in State(own)
<1>1. v \in SomeView(own) /\ v.conv = c
  BY ViewsAreViews
<1>2. s.cache \in Caches(own)
  BY DEF State
<1>3. [s.cache EXCEPT ![c] = v] \in Caches(own)
  BY <1>1, <1>2 DEF Caches
<1>4. Draw(s, v) = [s EXCEPT !.view = v, !.cache = [s.cache EXCEPT ![c] = v]]
  BY <1>1 DEF Draw, State
<1>5. QED
  BY <1>1, <1>3, <1>4 DEF State

LEMMA DrawOfStays ==
  ASSUME NEW own, NEW s \in State(own), NEW c \in Conversation, NEW v,
         Of(c) => v \in ViewOf(own, c)
  PROVE  DrawOf(s, c, v) \in State(own)
  BY DrawStays DEF DrawOf

LEMMA MarksStay ==
  ASSUME NEW own, NEW s \in State(own), NEW c \in Conversation
  PROVE  Mark(s, c) \in State(own) /\ Unmark(s, c) \in State(own)
  BY DEF Mark, Unmark, State

LEMMA ClearOptimisticStays ==
  ASSUME NEW own, NEW s \in State(own), NEW c \in Conversation
  PROVE  ClearOptimistic(s, c) \in State(own)
  BY DEF ClearOptimistic, State

LEMMA OptimisticChanges ==
  ASSUME NEW own, NEW s \in State(own), NEW o \in {None} \union Optimistic
  PROVE  [s EXCEPT !.optimistic = o] \in State(own)
  BY DEF State

LEMMA NowIsState ==
  ASSUME ViewInv
  PROVE  Now \in State(Own)
  BY DEF Now, State, ViewInv, WayInv, ScreenInv

LEMMA AskIsPoll ==
  ASSUME DaemonInv, NEW c \in Conversation
  PROVE  Ask(c) \in Polls
<1>1. Ask(c) \in Request /\ Ask(c).n = 0 /\ Ask(c).conv = c
  BY DEF Ask, Request, Stage
<1>2. Len(stored[c]) \in Nat
  BY DEF DaemonInv
<1>3. QED
  BY <1>1, <1>2 DEF Polls, Served

(* Whatever new state a handler hands over, what is committed is in order.  *)
CommitInv ==
  /\ selected \in Conversation \union {None}
  /\ optimistic \in {None} \union Optimistic
  /\ streaming \in SUBSET Conversation
  /\ cache \in Caches(Own) /\ shown \in SomeView(Own)
  /\ poll \in Polls

LEMMA CommitCommits ==
  ASSUME ViewInv, NEW s \in State(Own), Commit(s), UNCHANGED stored
  PROVE  CommitInv'
<1>1. Own' = Own /\ Polls' = Polls
  BY DEF Own, Polls, Recorded, Served
<1>2. /\ s.view \in SomeView(Own) /\ s.cache \in Caches(Own)
      /\ s.selected \in Conversation \union {None}
      /\ s.optimistic \in {None} \union Optimistic
      /\ s.streaming \in SUBSET Conversation /\ s.poll \in Polls
  BY DEF State
<1>3. /\ selected' = s.selected /\ optimistic' = s.optimistic /\ streaming' = s.streaming
      /\ cache' = s.cache
  BY DEF Commit
<1>4. poll' \in Polls
  <2>1. poll' = None \/ poll' = s.poll \/ (s.selected # None /\ poll' = Ask(s.selected))
    BY DEF Commit
  <2>2. CASE s.selected # None /\ poll' = Ask(s.selected)
    BY <1>2, <2>2, AskIsPoll DEF ViewInv
  <2>3. QED
    BY <1>2, <2>1, <2>2 DEF Polls
<1>5. shown' \in SomeView(Own)
  <2>1. shown' = None \/ shown' = s.view \/ (s.selected # None /\ shown' = s.cache[s.selected])
    BY DEF Commit
  <2>2. CASE s.selected # None /\ shown' = s.cache[s.selected]
    BY <1>2, <2>2 DEF Caches
  <2>3. QED
    BY <1>2, <2>1, <2>2 DEF SomeView
<1>6. QED
  BY <1>1, <1>2, <1>3, <1>4, <1>5 DEF CommitInv

-----------------------------------------------------------------------------
(* The daemon *)

(* The journals grow: what views, events and answers are made of stays good. *)
Grows ==
  /\ stored' \in [Conversation -> Seq(Message)]
  /\ \A c \in Conversation :
       /\ Len(stored[c]) <= Len(stored'[c])
       /\ \A i \in DOMAIN stored[c] : stored'[c][i] = stored[c][i]

LEMMA OwnGrows ==
  ASSUME DaemonInv, Grows, NEW c \in Conversation
  PROVE  Own[c] \subseteq Own'[c]
<1>1. ASSUME NEW m \in Message, Recorded(c, m) PROVE Recorded(c, m)'
  <2>1. CASE m.what = "partial"
    BY <1>1, <2>1 DEF Recorded
  <2>2. CASE m.what # "partial"
    <3>1. PICK i \in DOMAIN stored[c] : stored[c][i].turn = m.turn /\ stored[c][i].what = m.what
      BY <1>1, <2>2 DEF Recorded
    <3>2. stored[c] \in Seq(Message) /\ stored'[c] \in Seq(Message)
      BY DEF DaemonInv, Grows
    <3>3. i \in DOMAIN stored'[c] /\ stored'[c][i] = stored[c][i]
      <4>1. Len(stored[c]) <= Len(stored'[c]) /\ stored'[c][i] = stored[c][i]
        BY <3>1 DEF Grows
      <4>2. QED
        BY <3>1, <3>2, <4>1, LenProperties
    <3>4. QED
      BY <1>1, <3>1, <3>3 DEF Recorded
  <2>3. QED
    BY <2>1, <2>2
<1>2. QED
  BY <1>1 DEF Own

LEMMA GoodStaysGood ==
  ASSUME DaemonInv, Grows
  PROVE  /\ EventsOf(Own) \subseteq EventsOf(Own')
         /\ SomeView(Own) \subseteq SomeView(Own')
         /\ Caches(Own) \subseteq Caches(Own')
         /\ Polls \subseteq Polls'
         /\ {r \in Fetch : Served(r)} \subseteq {r \in Fetch : Served(r)}'
<1>1. \A c \in Conversation : Own[c] \subseteq Own'[c]
  BY OwnGrows
<1>2. EventsOf(Own) \subseteq EventsOf(Own')
  BY <1>1 DEF EventsOf
<1>3. \A c \in Conversation : ViewOf(Own, c) \subseteq ViewOf(Own', c)
  <2> SUFFICES ASSUME NEW c \in Conversation, NEW v \in ViewOf(Own, c)
               PROVE  v \in ViewOf(Own', c)
    OBVIOUS
  <2>1. v.messages \in Seq(Own[c])
    BY DEF ViewOf
  <2>2. v.messages \in Seq(Own'[c])
    BY <1>1, <2>1, SeqMonotonic
  <2>3. QED
    BY <2>2 DEF ViewOf
<1>4. SomeView(Own) \subseteq SomeView(Own')
  BY <1>3 DEF SomeView
<1>5. Caches(Own) \subseteq Caches(Own')
  BY <1>3, <1>4 DEF Caches
<1>6. \A c \in Conversation : Len(stored[c]) \in Nat /\ Len(stored'[c]) \in Nat /\ Len(stored[c]) <= Len(stored'[c])
  BY LenProperties DEF DaemonInv, Grows
<1>7. \A r : r.n \in Nat /\ r.conv \in Conversation /\ Served(r) => Served(r)'
  BY <1>6 DEF Served
<1>8. Polls \subseteq Polls'
  BY <1>7 DEF Polls, Request
<1>9. {r \in Fetch : Served(r)} \subseteq {r \in Fetch : Served(r)}'
  BY <1>7 DEF Fetch
<1>10. QED
  BY <1>2, <1>4, <1>5, <1>8, <1>9

LEMMA AppendingGrows ==
  ASSUME DaemonInv, NEW c \in Conversation, NEW es \in Seq({m \in Message : m.conv = c}),
         stored' = [stored EXCEPT ![c] = @ \o es]
  PROVE  /\ Grows
         /\ \A d \in Conversation : \A i \in DOMAIN stored'[d] : stored'[d][i].conv = d
         /\ \A i \in DOMAIN es : stored'[c][Len(stored[c]) + i] = es[i]
                                 /\ Len(stored[c]) + i \in DOMAIN stored'[c]
<1> DEFINE s == stored[c]
<1>1. s \in Seq(Message) /\ es \in Seq(Message)
  BY SeqMonotonic DEF DaemonInv
<1>2. /\ s \o es \in Seq(Message) /\ Len(s \o es) = Len(s) + Len(es)
      /\ \A i \in 1 .. Len(s) + Len(es) : (s \o es)[i] = IF i <= Len(s) THEN s[i] ELSE es[i - Len(s)]
  BY <1>1, ConcatProperties
<1>3. /\ Len(s) \in Nat /\ Len(es) \in Nat /\ DOMAIN s = 1..Len(s) /\ DOMAIN es = 1..Len(es)
      /\ DOMAIN (s \o es) = 1 .. Len(s) + Len(es)
  BY <1>1, <1>2, LenProperties
<1>4. stored'[c] = s \o es /\ \A d \in Conversation \ {c} : stored'[d] = stored[d]
  BY DEF DaemonInv
<1>5. Grows
  <2>1. stored' \in [Conversation -> Seq(Message)]
    BY <1>2 DEF DaemonInv
  <2>2. Len(stored[c]) <= Len(stored'[c])
    BY <1>2, <1>3, <1>4
  <2>3. \A i \in DOMAIN stored[c] : stored'[c][i] = stored[c][i]
    BY <1>2, <1>3, <1>4
  <2>4. ASSUME NEW d \in Conversation \ {c}
        PROVE  Len(stored[d]) <= Len(stored'[d]) /\ \A i \in DOMAIN stored[d] : stored'[d][i] = stored[d][i]
    BY <1>4, <2>4, LenProperties DEF DaemonInv
  <2>5. QED
    BY <2>1, <2>2, <2>3, <2>4 DEF Grows
<1>6. \A i \in DOMAIN stored'[c] : stored'[c][i].conv = c
  <2>1. \A i \in 1..Len(s) : s[i].conv = c
    BY <1>3 DEF DaemonInv
  <2>2. \A i \in 1..Len(es) : es[i].conv = c
    BY ElementOfSeq
  <2>3. ASSUME NEW i \in 1 .. Len(s) + Len(es) PROVE (s \o es)[i].conv = c
    <3>1. CASE i <= Len(s)
      BY <1>2, <1>3, <2>1, <2>3, <3>1
    <3>2. CASE ~(i <= Len(s))
      <4>1. i - Len(s) \in 1..Len(es)
        BY <1>3, <2>3, <3>2
      <4>2. QED
        BY <1>2, <2>2, <2>3, <3>2, <4>1
    <3>3. QED
      BY <3>1, <3>2
  <2>4. QED
    BY <1>3, <1>4, <2>3
<1>7. ASSUME NEW i \in DOMAIN es
      PROVE  stored'[c][Len(s) + i] = es[i] /\ Len(s) + i \in DOMAIN stored'[c]
  <2>1. Len(s) + i \in 1 .. Len(s) + Len(es) /\ ~(Len(s) + i <= Len(s)) /\ Len(s) + i - Len(s) = i
    BY <1>3, <1>7
  <2>2. QED
    BY <1>2, <1>3, <1>4, <2>1
<1>8. QED
  BY <1>4, <1>5, <1>6, <1>7 DEF DaemonInv

LEMMA AddingGrows ==
  ASSUME DaemonInv, NEW c \in Conversation, NEW m \in Message, m.conv = c,
         stored' = [stored EXCEPT ![c] = @ \o <<m>>]
  PROVE  \E i \in DOMAIN stored'[c] : stored'[c][i] = m
<1> DEFINE es == <<m>>
<1>1. /\ es \in Seq({k \in Message : k.conv = c})
      /\ 1 \in DOMAIN es /\ es[1] = m /\ stored' = [stored EXCEPT ![c] = @ \o es]
  OBVIOUS
<1> HIDE DEF es
<1>2. stored'[c][Len(stored[c]) + 1] = es[1] /\ Len(stored[c]) + 1 \in DOMAIN stored'[c]
  BY <1>1, AppendingGrows
<1>3. QED
  BY <1>1, <1>2

LEMMA ScreenStays ==
  ASSUME ViewInv, Grows, UNCHANGED screenVars
  PROVE  ScreenInv'
  BY GoodStaysGood DEF ViewInv, ScreenInv, screenVars

LEMMA WayStays ==
  ASSUME ViewInv, Grows, UNCHANGED <<poll, fetches>>
  PROVE  poll' \in Polls' /\ fetches' \in SUBSET {r \in Fetch : Served(r)}'
  BY GoodStaysGood DEF ViewInv, WayInv

LEMMA QuietStays ==
  ASSUME DaemonInv, UNCHANGED stored
  PROVE  Grows /\ Own' = Own /\ Polls' = Polls
         /\ {r \in Fetch : Served(r)}' = {r \in Fetch : Served(r)}
  BY LenProperties DEF Own, Polls, Recorded, Served, Grows, DaemonInv

(* An event on its way, or one taken, leaves the queue in order.            *)
LEMMA EventArrives ==
  ASSUME ViewInv, Grows, NEW e \in EventsOf(Own'), events' = Append(events, e)
  PROVE  events' \in Seq(EventsOf(Own'))
<1>1. events \in Seq(EventsOf(Own'))
  BY GoodStaysGood, SeqMonotonic DEF ViewInv, WayInv
<1>2. QED
  BY <1>1, AppendProperties

LEMMA EventIsTaken ==
  ASSUME ViewInv, events # <<>>
  PROVE  Tail(events) \in Seq(EventsOf(Own)) /\ Head(events) \in EventsOf(Own)
  BY HeadTailProperties DEF ViewInv, WayInv

LEMMA PlainIsEvent ==
  ASSUME NEW own, NEW c \in Conversation \union {"*"},
         NEW type \in {"agent_start", "tool_execution_start", "tool_execution_end", "message_update",
                       "stream_error", "agent_settled", "stream_closed"}
  PROVE  Plain(c, type) \in EventsOf(own)
  BY DEF Plain, Event, EventsOf

LEMMA TurnMoves ==
  ASSUME ViewInv, OthersStay, disturbances' \in 0..MaxDisturbances, NEW c \in Conversation, NEW from, NEW to, NEW es, NEW e,
         Turns(c, from, to, es, e),
         to \in {"idle", "entered", "opened", "started", "called", "resulted", "answered", "settled"},
         es \in Seq({m \in Message : m.conv = c}),
         Grows => e \in EventsOf(Own')
  PROVE  ViewInv'
<1> USE DEF OthersStay, daemonVars, boundVars
<1>1. /\ Grows
      /\ \A d \in Conversation : \A i \in DOMAIN stored'[d] : stored'[d][i].conv = d
  BY AppendingGrows DEF Turns, ViewInv
<1>2. turn' \in [Conversation -> Turn]
  BY DEF Turns, Turn, ViewInv, DaemonInv
<1>3. DaemonInv'
  BY <1>1, <1>2 DEF ViewInv, DaemonInv, Grows
<1>4. events' \in Seq(EventsOf(Own'))
  BY <1>1, EventArrives DEF Turns
<1>5. ScreenInv'
  BY <1>1, ScreenStays
<1>6. WayInv'
  BY <1>1, <1>4, WayStays DEF ViewInv, WayInv, SendInv
<1>7. QED
  BY <1>3, <1>5, <1>6 DEF ViewInv

LEMMA EntryIsMessage ==
  ASSUME ViewInv, NEW c \in Conversation, NEW what \in {"user", "call", "result", "answer", "partial"},
         NEW copy \in {"stored", "event", "none"}
  PROVE  /\ Entry(c, what, copy) \in Message /\ Entry(c, what, copy).conv = c
         /\ Entry(c, what, copy).what = what /\ Entry(c, what, copy).turn = turn[c].n
<1>1. turn[c].n \in 0..MaxTurns
  BY DEF ViewInv, DaemonInv, Turn
<1>2. Text(what) \in Nat
  BY ViewAssumption DEF Text
<1>3. QED
  BY <1>1, <1>2 DEF Entry, Message

LEMMA OpeningStep ==
  ASSUME ViewInv, NEW c \in Conversation, TurnOpens(c)
  PROVE  ViewInv'
<1>o. PICK o \in opening :
        LET m == [conv |-> c, turn |-> o.turn, what |-> "user", copy |-> "stored", text |-> 0]
        IN  /\ o.conv = c
            /\ opening' = opening \ {o}
            /\ turn' = [turn EXCEPT ![c].at = IF Opens(c, o) THEN "opened" ELSE @]
            /\ stored' = [stored EXCEPT ![c] = Append(@, m)]
            /\ events' = Append(events, Event(c, "message_end", [m EXCEPT !.copy = "event"]))
  BY DEF TurnOpens
<1> DEFINE m == [conv |-> c, turn |-> o.turn, what |-> "user", copy |-> "stored", text |-> 0]
<1>1. o \in Openings /\ opening' \subseteq Openings
  BY <1>o DEF ViewInv, DaemonInv
<1>2. m \in Message /\ [m EXCEPT !.copy = "event"] \in Message /\ m.conv = c /\ o.turn \in 0..MaxTurns
  BY <1>1, ViewAssumption DEF Openings, Message
<1>3. stored[c] \in Seq(Message)
  BY <1>1 DEF ViewInv, DaemonInv
<1>4. stored' = [stored EXCEPT ![c] = @ \o <<m>>]
  <2>1. stored' = [stored EXCEPT ![c] = Append(@, m)]
    BY <1>o
  <2>2. Append(stored[c], m) = stored[c] \o <<m>>
    BY <1>2, <1>3, AppendIsConcat
  <2>3. QED
    BY <2>1, <2>2
<1>5. <<m>> \in Seq({k \in Message : k.conv = c})
  BY <1>2
<1>6. /\ Grows
      /\ \A d \in Conversation : \A i \in DOMAIN stored'[d] : stored'[d][i].conv = d
  <2> HIDE DEF m
  <2> QED
    BY <1>1, <1>4, <1>5, AppendingGrows DEF ViewInv
<1>7. \E i \in DOMAIN stored'[c] : stored'[c][i] = m
  <2> HIDE DEF m
  <2> QED
    BY <1>1, <1>2, <1>4, AddingGrows DEF ViewInv
<1>8. Event(c, "message_end", [m EXCEPT !.copy = "event"]) \in EventsOf(Own')
  <2> DEFINE k == [m EXCEPT !.copy = "event"]
  <2>1. k.conv = c /\ k.turn = m.turn /\ k.what = m.what
    OBVIOUS
  <2>2. k \in Own'[c]
    <3> HIDE DEF m, k
    <3> QED
      BY <1>1, <1>2, <1>7, <2>1 DEF Own, Recorded, k
  <2>3. QED
    BY <1>1, <1>2, <2>2 DEF Event, EventsOf
<1>9. turn' \in [Conversation -> Turn]
  <2>1. turn \in [Conversation -> Turn] /\ turn[c] \in Turn
    BY DEF ViewInv, DaemonInv
  <2>2. [turn[c] EXCEPT !.at = "opened"] \in Turn
    BY <2>1 DEF Turn
  <2>3. turn' = [turn EXCEPT ![c] = [turn[c] EXCEPT !.at = "opened"]]
        \/ turn' = [turn EXCEPT ![c] = turn[c]]
    <3>1. CASE Opens(c, o)
      BY <1>o, <3>1
    <3>2. CASE ~Opens(c, o)
      <4>1. turn' = [turn EXCEPT ![c].at = turn[c].at]
        BY <1>o, <3>2
      <4>2. [turn[c] EXCEPT !.at = turn[c].at] = turn[c]
        BY <2>1 DEF Turn
      <4>3. QED
        BY <4>1, <4>2
    <3>3. QED
      BY <3>1, <3>2
  <2>4. QED
    BY <2>1, <2>2, <2>3
<1>10. DaemonInv'
  BY <1>1, <1>6, <1>9 DEF TurnOpens, ViewInv, DaemonInv, Grows, boundVars
<1>11. events' \in Seq(EventsOf(Own'))
  BY <1>o, <1>6, <1>8, EventArrives
<1>12. SendInv'
  BY DEF TurnOpens, SendInv, ViewInv, WayInv
<1>13. ScreenInv' /\ WayInv'
  BY <1>6, <1>11, <1>12, ScreenStays, WayStays DEF TurnOpens, ViewInv, WayInv
<1>14. QED
  BY <1>10, <1>13 DEF ViewInv

LEMMA TurnSteps ==
  ASSUME ViewInv, NEW c \in Conversation, TurnStep(c)
  PROVE  ViewInv'
<1> USE DEF EngineStays
<1>d. disturbances \in 0..MaxDisturbances /\ (Disturb => disturbances' \in 0..MaxDisturbances)
  BY ViewAssumption DEF Disturb, ViewInv, DaemonInv
<1> DEFINE Mine == {m \in Message : m.conv = c}
<1>e. <<>> \in Seq(Mine)
  BY EmptySeq
<1>1. CASE TurnStarts(c)
  BY <1>1, <1>d, <1>e, TurnMoves, PlainIsEvent DEF TurnStarts
<1>2. CASE ToolStarts(c)
  <2>1. <<Entry(c, "call", "stored")>> \in Seq(Mine)
    BY EntryIsMessage
  <2>2. QED
    BY <1>2, <1>d, <2>1, TurnMoves, PlainIsEvent DEF ToolStarts
<1>3. CASE ToolEnds(c)
  <2>1. <<Entry(c, "result", "stored")>> \in Seq(Mine)
    BY EntryIsMessage
  <2>2. QED
    BY <1>3, <1>d, <2>1, TurnMoves, PlainIsEvent DEF ToolEnds
<1>4. CASE TextArrives(c)
  <2>1. Grows /\ UNCHANGED <<stored, listed, opening, superseded, aborts, turns, disturbances, sends>>
    BY <1>4, QuietStays DEF TextArrives, EngineStays, OthersStay, ViewInv, boundVars
  <2>2. turn[c].text + 1 \in 0..MaxText
    BY <1>4, ViewAssumption DEF TextArrives, ViewInv, DaemonInv, Turn
  <2>3. turn' \in [Conversation -> Turn]
    BY <1>4, <2>2 DEF TextArrives, Turn, ViewInv, DaemonInv
  <2>4. DaemonInv'
    BY <2>1, <2>3 DEF ViewInv, DaemonInv
  <2>5. events' \in Seq(EventsOf(Own'))
    BY <1>4, <2>1, EventArrives, PlainIsEvent DEF TextArrives
  <2>6. ScreenInv' /\ WayInv'
    BY <1>4, <2>1, <2>5, ScreenStays, WayStays DEF TextArrives, EngineStays, OthersStay, ViewInv, WayInv, SendInv
  <2>7. QED
    BY <2>4, <2>6 DEF ViewInv
<1>5. CASE TurnAnswers(c)
  <2> DEFINE m == Entry(c, "answer", "stored")
  <2>1. <<m>> \in Seq(Mine)
    BY EntryIsMessage
  <2>2. Grows => Event(c, "message_end", Entry(c, "answer", "event")) \in EventsOf(Own')
    <3> SUFFICES ASSUME Grows
                 PROVE  Entry(c, "answer", "event") \in Own'[c]
      BY EntryIsMessage DEF Event, EventsOf
    <3>1. stored' = [stored EXCEPT ![c] = @ \o <<m>>]
      BY <1>5 DEF TurnAnswers, Turns
    <3>3. \E i \in DOMAIN stored'[c] : stored'[c][i] = m
      <4>1. m \in Message /\ m.conv = c /\ DaemonInv
        BY EntryIsMessage DEF ViewInv
      <4> HIDE DEF m
      <4>2. QED
        BY <3>1, <4>1, AddingGrows
    <3>4. Recorded(c, Entry(c, "answer", "event"))'
      <4>1. turn'[c].n = turn[c].n
        BY <1>5 DEF TurnAnswers, Turns, ViewInv, DaemonInv, Turn
      <4>2. QED
        BY <3>3, <4>1 DEF Recorded, Entry
    <3>5. Entry(c, "answer", "event")' = Entry(c, "answer", "event")
      BY <1>5 DEF TurnAnswers, Turns, ViewInv, DaemonInv, Turn, Entry
    <3>6. QED
      BY <3>4, <3>5, EntryIsMessage DEF Own
  <2>3. QED
    BY <1>5, <1>d, <2>1, <2>2, TurnMoves DEF TurnAnswers
<1>6. CASE TurnFails(c)
  BY <1>6, <1>d, <1>e, TurnMoves, PlainIsEvent DEF TurnFails
<1>7. CASE TurnSettles(c)
  BY <1>7, <1>d, <1>e, TurnMoves, PlainIsEvent DEF TurnSettles
<1>q. ASSUME turn' \in [Conversation -> Turn], aborts' \subseteq Conversation, superseded' \subseteq Conversation,
             opening' \subseteq Openings, disturbances' \in 0..MaxDisturbances,
             UNCHANGED <<listed, stored, turns, screenVars, poll, fetches, sends>>,
             events' = events \/ \E e \in EventsOf(Own') : events' = Append(events, e)
      PROVE  ViewInv'
  <2>1. Grows /\ Own' = Own
    BY <1>q, QuietStays DEF ViewInv
  <2>2. events' \in Seq(EventsOf(Own'))
    BY <1>q, <2>1, EventArrives DEF ViewInv, WayInv
  <2>3. DaemonInv'
    BY <1>q DEF ViewInv, DaemonInv, boundVars
  <2>4. ScreenInv' /\ WayInv'
    BY <1>q, <2>1, <2>2, ScreenStays, WayStays DEF ViewInv, WayInv, SendInv
  <2>5. QED
    BY <2>3, <2>4 DEF ViewInv
<1>i. Idle \in Turn
  BY ViewAssumption DEF Idle, Turn
<1>8. CASE TurnLeaves(c)
  BY <1>8, <1>d, <1>q, <1>i DEF TurnLeaves, OthersStay, ViewInv, DaemonInv
<1>9. CASE AbortArrives(c)
  BY <1>9, <1>d, <1>q, <1>i, PlainIsEvent DEF AbortArrives, boundVars, ViewInv, DaemonInv
<1>10. CASE SupersededSettles(c)
  BY <1>10, <1>d, <1>q, PlainIsEvent DEF SupersededSettles, boundVars, ViewInv, DaemonInv
<1>11. CASE TurnOpens(c)
  BY <1>11, OpeningStep
<1>12. CASE TurnFailsToBegin(c)
  <2>1. PICK o \in opening : /\ opening' = opening \ {o}
                             /\ IF Opens(c, o)
                                THEN /\ turn' = [turn EXCEPT ![c].at = "settled"]
                                     /\ events' = Append(events, Plain(c, "agent_settled"))
                                ELSE UNCHANGED <<turn, events>>
    BY <1>12 DEF TurnFailsToBegin
  <2>2. turn' \in [Conversation -> Turn] /\ opening' \subseteq Openings
    <3>1. turn \in [Conversation -> Turn] /\ turn[c] \in Turn
      BY DEF ViewInv, DaemonInv
    <3>2. [turn[c] EXCEPT !.at = "settled"] \in Turn
      BY <3>1 DEF Turn
    <3>3. turn' = turn \/ turn' = [turn EXCEPT ![c] = [turn[c] EXCEPT !.at = "settled"]]
      BY <2>1
    <3>4. QED
      BY <2>1, <3>1, <3>2, <3>3 DEF ViewInv, DaemonInv
  <2>3. UNCHANGED <<listed, stored, superseded, aborts, turns, screenVars, poll, fetches, sends>> /\ Disturb
    BY <1>12 DEF TurnFailsToBegin
  <2>4. events' = events \/ \E e \in EventsOf(Own') : events' = Append(events, e)
    BY <2>1, PlainIsEvent
  <2>5. QED
    BY <1>d, <1>q, <2>2, <2>3, <2>4 DEF ViewInv, DaemonInv
<1>13. QED
  BY <1>11, <1>12, <1>1, <1>2, <1>3, <1>4, <1>5, <1>6, <1>7, <1>8, <1>9, <1>10 DEF TurnStep

(* A step of the world that leaves the journals and the screen alone.       *)
LEMMA WorldStays ==
  ASSUME ViewInv, UNCHANGED <<listed, stored, turns, screenVars>>,
         turn' \in [Conversation -> Turn], superseded' \subseteq Conversation,
         opening' \subseteq Openings, aborts' \subseteq Conversation, disturbances' \in 0..MaxDisturbances,
         events' \in Seq(EventsOf(Own)), poll' \in Polls,
         fetches' \in SUBSET {r \in Fetch : Served(r)}, SendInv'
  PROVE  ViewInv'
<1>1. Grows /\ Own' = Own /\ Polls' = Polls /\ {r \in Fetch : Served(r)}' = {r \in Fetch : Served(r)}
  BY QuietStays DEF ViewInv
<1>2. DaemonInv'
  BY DEF ViewInv, DaemonInv
<1>3. ScreenInv'
  BY <1>1, ScreenStays
<1>4. WayInv'
  BY <1>1 DEF WayInv
<1>5. QED
  BY <1>2, <1>3, <1>4 DEF ViewInv

LEMMA AcceptanceStep ==
  ASSUME ViewInv, DaemonAccepts
  PROVE  ViewInv'
<1> USE DEF daemonVars, boundVars
<1>1. PICK s \in sends :
        /\ s.at = "posting"
        /\ sends' = (sends \ {s}) \union {[s EXCEPT !.at = "accepted"]}
        /\ superseded' = IF Running(s.conv) THEN superseded \union {s.conv} ELSE superseded
        /\ turn' = [turn EXCEPT ![s.conv] = [n |-> s.turn, at |-> "entered", text |-> 0]]
        /\ opening' = opening \union {[conv |-> s.conv, turn |-> s.turn]}
  BY DEF DaemonAccepts
<1>2. s \in Sends /\ s.conv \in Conversation /\ s.turn \in 1..MaxTurns
  BY <1>1 DEF ViewInv, WayInv, SendInv, Sends
<1>3. s.turn \in 0..MaxTurns /\ 0 \in 0..MaxText
  BY <1>2, ViewAssumption
<1>4. turn' \in [Conversation -> Turn] /\ superseded' \subseteq Conversation /\ opening' \subseteq Openings
  BY <1>1, <1>2, <1>3 DEF ViewInv, DaemonInv, Turn, Openings
<1>5. SendInv'
  BY <1>1, <1>2 DEF ViewInv, WayInv, SendInv, Sends
<1>6. QED
  BY <1>4, <1>5, WorldStays DEF DaemonAccepts, ViewInv, DaemonInv, WayInv

LEMMA ServedIsServed ==
  ASSUME ViewInv, NEW r, r \in Request \/ r \in Fetch, Served(r)
  PROVE  /\ Served(Reads(r)) /\ (r \in Request => Reads(r) \in Request)
         /\ (r \in Fetch => Reads(r) \in Fetch)
         /\ Served(Serve(r)) /\ (r \in Request => Serve(r) \in Request)
         /\ (r \in Fetch => Serve(r) \in Fetch)
<1>1. r.conv \in Conversation
  BY DEF Request, Fetch
<1>2. Len(stored[r.conv]) \in Nat /\ Running(r.conv) \in BOOLEAN
  BY <1>1, LenProperties DEF ViewInv, DaemonInv, Running
<1> DEFINE n == Len(stored[r.conv])
           run == Running(r.conv)
           read == [[r EXCEPT !.at = "read"] EXCEPT !.n = n]
           told == [[r EXCEPT !.at = "answered"] EXCEPT !.run = run]
<1>3. Reads(r) = read /\ (Serve(r) = read \/ Serve(r) = told)
  BY DEF Serve, Reads
<1>4. n \in Nat /\ run \in BOOLEAN
  BY <1>2
<1> HIDE DEF n, run
<1>5. /\ (r \in Request => read \in Request /\ told \in Request)
      /\ (r \in Fetch => read \in Fetch /\ told \in Fetch)
  BY <1>4 DEF Request, Fetch, Stage
<1>6. read.n = n /\ read.conv = r.conv /\ told.n = r.n /\ told.conv = r.conv
  <2>1. CASE r \in Request
    BY <2>1 DEF Request
  <2>2. CASE r \in Fetch
    BY <2>2 DEF Fetch
  <2>3. QED
    BY <2>1, <2>2
<1> HIDE DEF read, told
<1>7. Served(read) /\ Served(told)
  BY <1>4, <1>6 DEF Served, n
<1>8. QED
  BY <1>3, <1>5, <1>7

LEMMA WorldSteps ==
  ASSUME ViewInv, Failure \/ DaemonServesPoll \/ DaemonServesFetch \/ IgnoresEvent
  PROVE  ViewInv'
<1> USE DEF daemonVars, boundVars
<1>t. /\ turn \in [Conversation -> Turn] /\ superseded \subseteq Conversation /\ aborts \subseteq Conversation
      /\ opening \subseteq Openings
      /\ disturbances \in 0..MaxDisturbances /\ events \in Seq(EventsOf(Own)) /\ poll \in Polls
      /\ fetches \in SUBSET {r \in Fetch : Served(r)} /\ SendInv
  BY DEF ViewInv, DaemonInv, WayInv
<1>d. Disturb => disturbances' \in 0..MaxDisturbances
  BY <1>t, ViewAssumption DEF Disturb
<1>s. sends' = sends => SendInv'
  BY <1>t DEF SendInv
<1>1. CASE EventIsLost
  BY <1>1, <1>t, <1>d, <1>s, EventIsTaken, WorldStays DEF EventIsLost
<1>2. CASE DaemonDies
  <2>1. Idle \in Turn
    BY ViewAssumption DEF Idle, Turn
  <2>2. Append(events, Plain("*", "stream_closed")) \in Seq(EventsOf(Own))
    BY <1>t, PlainIsEvent, AppendProperties
  <2>3. QED
    BY <1>2, <1>t, <1>d, <1>s, <2>1, <2>2, WorldStays DEF DaemonDies, Openings
<1>3. CASE DaemonRefuses
  <2>1. PICK s \in sends : /\ s.at = "posting"
                           /\ sends' = (sends \ {s}) \union {[s EXCEPT !.at = "refused"]}
    BY <1>3 DEF DaemonRefuses
  <2>2. SendInv'
    BY <1>t, <2>1 DEF SendInv, Sends
  <2>3. QED
    BY <1>3, <1>t, <1>d, <2>2, WorldStays DEF DaemonRefuses
<1>4. CASE DaemonServesPoll
  <2>1. poll' \in Polls
    BY <1>4, <1>t, ServedIsServed DEF DaemonServesPoll, Polls
  <2>2. QED
    BY <1>4, <1>t, <1>s, <2>1, WorldStays DEF DaemonServesPoll
<1>5. CASE DaemonServesFetch
  <2>1. fetches' \in SUBSET {r \in Fetch : Served(r)}
    BY <1>5, <1>t, ServedIsServed DEF DaemonServesFetch
  <2>2. QED
    BY <1>5, <1>t, <1>s, <2>1, WorldStays DEF DaemonServesFetch
<1>6. CASE IgnoresEvent
  BY <1>6, <1>t, <1>s, EventIsTaken, WorldStays DEF IgnoresEvent
<1>7. QED
  BY <1>1, <1>2, <1>3, <1>4, <1>5, <1>6 DEF Failure

-----------------------------------------------------------------------------
(* The screen *)

LEMMA ScreenMoves ==
  ASSUME ViewInv, NEW s \in State(Own), Commit(s), UNCHANGED <<stored, turn, opening, superseded>>, busy' \in BOOLEAN,
         listed' \subseteq Conversation, aborts' \subseteq Conversation,
         turns' \in 0..MaxTurns, disturbances' \in 0..MaxDisturbances,
         ref' \in Conversation \union {None}, tools' \in Conversation \union {None},
         live' \in [Conversation -> Nat], events' \in Seq(EventsOf(Own)),
         fetches' \in SUBSET {r \in Fetch : Served(r)}, SendInv'
  PROVE  ViewInv'
<1>1. Own' = Own /\ {r \in Fetch : Served(r)}' = {r \in Fetch : Served(r)}
  BY QuietStays DEF ViewInv
<1>2. CommitInv'
  BY CommitCommits
<1>3. ScreenInv' /\ poll' \in Polls'
  BY <1>2 DEF CommitInv, ScreenInv
<1>4. DaemonInv'
  BY DEF ViewInv, DaemonInv
<1>5. WayInv'
  BY <1>1, <1>3 DEF WayInv
<1>6. QED
  BY <1>3, <1>4, <1>5 DEF ViewInv

LEMMA Parts ==
  ASSUME ViewInv
  PROVE  /\ listed \subseteq Conversation /\ superseded \subseteq Conversation
         /\ aborts \subseteq Conversation /\ opening \subseteq Openings /\ busy \in BOOLEAN /\ turns \in 0..MaxTurns /\ disturbances \in 0..MaxDisturbances
         /\ events \in Seq(EventsOf(Own)) /\ poll \in Polls
         /\ fetches \in SUBSET {r \in Fetch : Served(r)} /\ SendInv
         /\ selected \in Conversation \union {None} /\ ref \in Conversation \union {None}
         /\ tools \in Conversation \union {None} /\ live \in [Conversation -> Nat]
         /\ shown \in SomeView(Own) /\ cache \in Caches(Own)
         /\ optimistic \in {None} \union Optimistic /\ streaming \in SUBSET Conversation
         /\ (sends' = sends => SendInv')
         /\ \A c \in Conversation : ClearTools(c) \in Conversation \union {None}
  BY DEF ViewInv, DaemonInv, WayInv, ScreenInv, SendInv, ClearTools

LEMMA AskIsServed ==
  ASSUME ViewInv, NEW c \in Conversation, NEW kind \in {"settled", "watch"}
  PROVE  AskOnce(kind, c) \in Fetch /\ Served(AskOnce(kind, c))
<1> DEFINE r == AskOnce(kind, c)
<1>1. r \in Fetch /\ r.n = 0 /\ r.conv = c
  BY DEF AskOnce, Fetch, Stage
<1>2. Len(stored[c]) \in Nat
  BY LenProperties DEF ViewInv, DaemonInv
<1> HIDE DEF r
<1>3. r \in Fetch /\ Served(r)
  BY <1>1, <1>2 DEF Served
<1>4. QED
  BY <1>3 DEF r

\* The view on the screen, if it is c's.
LEMMA ShownIsOwn ==
  ASSUME ViewInv, NEW c \in Conversation, Of(c)
  PROVE  shown \in ViewOf(Own, c) /\ shown.messages \in Seq(Own[c])
<1>1. PICK d \in Conversation : shown \in ViewOf(Own, d)
  BY DEF Of, ViewInv, ScreenInv, SomeView
<1>2. d = c
  BY <1>1 DEF Of, ViewOf
<1>3. QED
  BY <1>1, <1>2 DEF ViewOf

LEMMA ViewsChange ==
  ASSUME NEW own, NEW c \in Conversation, NEW v \in ViewOf(own, c),
         NEW ms \in Seq(own[c]), NEW b \in BOOLEAN
  PROVE  /\ [v EXCEPT !.messages = ms] \in ViewOf(own, c)
         /\ [v EXCEPT !.streaming = b] \in ViewOf(own, c)
         /\ [v EXCEPT !.messages = ms, !.streaming = b] \in ViewOf(own, c)
  BY DEF ViewOf

LEMMA ReceivedIsNat ==
  ASSUME ViewInv, NEW c \in Conversation
  PROVE  Received(c) \in Nat
<1>1. live[c] + 1 \in Nat
  BY DEF ViewInv, ScreenInv
<1>2. Of(c) /\ OfAssistant(shown.messages) => Last(shown.messages).text \in Nat
  <2> SUFFICES ASSUME Of(c), OfAssistant(shown.messages)
               PROVE  Last(shown.messages).text \in Nat
    OBVIOUS
  <2>1. shown.messages \in Seq(Own[c]) /\ shown.messages # <<>>
    BY ShownIsOwn DEF OfAssistant
  <2>2. Last(shown.messages) \in Own[c]
    BY <2>1, EmptySeq, ElementOfSeq DEF Last
  <2>3. QED
    BY <2>2 DEF Own, Message
<1>3. QED
  BY <1>1, <1>2 DEF Received

LEMMA TextChanges ==
  ASSUME NEW c \in Conversation, NEW m \in Own[c], NEW n \in Nat
  PROVE  [m EXCEPT !.text = n] \in Own[c]
<1> DEFINE k == [m EXCEPT !.text = n]
<1>1. k \in Message /\ k.conv = m.conv /\ k.turn = m.turn /\ k.what = m.what
  BY DEF Own, Message
<1> HIDE DEF k
<1>2. k \in Own[c]
  BY <1>1 DEF Own, Recorded
<1>3. QED
  BY <1>2 DEF k

(* A delta changes the text of a message of the view, or starts one.        *)
LEMMA TextStays ==
  ASSUME ViewInv, NEW c \in Conversation, NEW s \in Seq(Own[c])
  PROVE  WithText(c, s) \in Seq(Own[c])
<1>1. CASE OfAssistant(s)
  <2> DEFINE m == [Last(s) EXCEPT !.text = Received(c) + 1]
  <2>1. Last(s) \in Own[c] /\ Len(s) \in 1..Len(s)
    BY <1>1, EmptySeq, ElementOfSeq DEF Last, OfAssistant
  <2>2. Received(c) + 1 \in Nat
    BY ReceivedIsNat
  <2>3. m \in Own[c]
    BY <2>1, <2>2, TextChanges
  <2>4. [s EXCEPT ![Len(s)] = m] \in Seq(Own[c])
    BY <2>1, <2>3, ExceptSeq
  <2>5. WithText(c, s) = [s EXCEPT ![Len(s)] = m]
    BY <1>1 DEF WithText, Last
  <2>6. QED
    BY <2>4, <2>5
<1>2. CASE ~OfAssistant(s)
  <2> DEFINE m == [conv |-> c, turn |-> turn[c].n, what |-> "partial", copy |-> "none", text |-> 1]
  <2>1. turn[c].n \in 0..MaxTurns
    BY DEF ViewInv, DaemonInv, Turn
  <2>2. m \in Own[c]
    BY <2>1 DEF Own, Recorded, Message
  <2>3. WithText(c, s) = Append(s, m)
    BY <1>2 DEF WithText
  <2>4. QED
    BY <2>2, <2>3, AppendProperties
<1>3. QED
  BY <1>1, <1>2

(* Every handler of an event commits a state made of the view it found.     *)
LEMMA EventSteps ==
  ASSUME ViewInv, OnText \/ OnStart \/ OnSettled \/ OnError \/ OnToolStart \/ OnToolEnd \/ OnMessage
  PROVE  ViewInv'
<1> DEFINE c == ref
<1> USE Parts DEF daemonVars, boundVars
<1>0. /\ c \in Conversation /\ events # <<>> /\ Head(events).conv = c
      /\ events' = Tail(events) /\ UNCHANGED <<daemonVars, boundVars, ref, busy, sends>>
  BY DEF OnText, OnStart, OnSettled, OnError, OnToolStart, OnToolEnd, OnMessage, TakesEvent
<1>1. Head(events) \in EventsOf(Own) /\ events' \in Seq(EventsOf(Own)) /\ Now \in State(Own)
  BY <1>0, EventIsTaken, NowIsState
<1>2. ASSUME NEW s \in State(Own), Commit(s), tools' \in Conversation \union {None},
             live' \in [Conversation -> Nat], fetches' \in SUBSET {r \in Fetch : Served(r)}
      PROVE  ViewInv'
  BY <1>0, <1>1, <1>2, ScreenMoves
<1>v. ASSUME NEW b \in BOOLEAN, Of(c)
      PROVE  [shown EXCEPT !.streaming = b] \in ViewOf(Own, c)
  BY <1>0, <1>v, ShownIsOwn, ViewsChange
<1>3. CASE OnText
  <2> DEFINE v == [shown EXCEPT !.messages = WithText(c, @), !.streaming = TRUE]
             s == DrawOf(Now, c, v)
  <2>1. live' = [live EXCEPT ![c] = Received(c)] /\ Commit(s) /\ UNCHANGED <<tools, fetches>>
    BY <1>3 DEF OnText, TakesEvent, TakeText
  <2>2. Of(c) => v \in ViewOf(Own, c)
    BY <1>0, ShownIsOwn, TextStays, ViewsChange
  <2>3. s \in State(Own)
    BY <1>0, <1>1, <2>2, DrawOfStays
  <2>4. live' \in [Conversation -> Nat]
    BY <1>0, <2>1, ReceivedIsNat
  <2> HIDE DEF s
  <2>5. QED
    BY <1>2, <2>1, <2>3, <2>4
<1>4. CASE OnStart
  <2> DEFINE s == DrawOf(Mark(Now, c), c, [shown EXCEPT !.streaming = TRUE])
  <2>1. live' = [live EXCEPT ![c] = 0] /\ Commit(s) /\ tools' = None /\ UNCHANGED fetches
    BY <1>4 DEF OnStart, TakesEvent, TakeStart
  <2>2. s \in State(Own)
    BY <1>0, <1>1, <1>v, DrawOfStays, MarksStay
  <2> HIDE DEF s
  <2>3. QED
    BY <1>2, <2>1, <2>2
<1>5. CASE OnSettled
  <2> DEFINE s == DrawOf(ClearOptimistic(Unmark(Now, c), c), c, [shown EXCEPT !.streaming = FALSE])
             r == AskOnce("settled", c)
  <2>1. /\ live' = [live EXCEPT ![c] = 0] /\ Commit(s) /\ tools' = ClearTools(c)
        /\ fetches' = fetches \union {r}
    BY <1>5 DEF OnSettled, TakesEvent, TakeSettled
  <2>2. s \in State(Own)
    BY <1>0, <1>1, <1>v, DrawOfStays, MarksStay, ClearOptimisticStays
  <2>3. r \in Fetch /\ Served(r)
    BY <1>0, AskIsServed
  <2> HIDE DEF s, r
  <2>4. tools' \in Conversation \union {None} /\ fetches' \in SUBSET {q \in Fetch : Served(q)}
        /\ live' \in [Conversation -> Nat]
    BY <1>0, <2>1, <2>3
  <2>5. QED
    BY <1>2, <2>1, <2>2, <2>4
<1>6. CASE OnError
  <2> DEFINE s == DrawOf(Unmark(Now, c), c, [shown EXCEPT !.streaming = FALSE])
  <2>1. Commit(s) /\ tools' = ClearTools(c) /\ UNCHANGED <<live, fetches>>
    BY <1>6 DEF OnError, TakesEvent, TakeError
  <2>2. s \in State(Own)
    BY <1>0, <1>1, <1>v, DrawOfStays, MarksStay
  <2> HIDE DEF s
  <2>3. tools' \in Conversation \union {None}
    BY <1>0, <2>1
  <2>4. QED
    BY <1>2, <2>1, <2>2, <2>3
<1>7. CASE OnToolStart
  BY <1>0, <1>1, <1>2, <1>7 DEF OnToolStart, TakesEvent, TakeToolStart
<1>8. CASE OnToolEnd
  BY <1>0, <1>1, <1>2, <1>8 DEF OnToolEnd, TakesEvent, TakeToolEnd
<1>9. CASE OnMessage
  <2> DEFINE m == Head(events).message
             n == [Now EXCEPT !.optimistic =
                     IF /\ @ # None /\ Role(m) = "user"
                        /\ @.conv \in {c, None} /\ @.turn = m.turn
                     THEN None ELSE @]
             v == [shown EXCEPT !.messages = Merge(@, m), !.streaming = @ /\ Role(m) # "assistant"]
             s == DrawOf(n, c, v)
  <2>1. Commit(s) /\ UNCHANGED <<tools, live, fetches>> /\ Head(events).type = "message_end"
    BY <1>9 DEF OnMessage, TakesEvent, TakeMessage
  <2>2. m \in Own[c]
    BY <1>0, <1>1, <2>1 DEF EventsOf
  <2>3. n \in State(Own)
    BY <1>1 DEF State
  <2>4. Of(c) => v \in ViewOf(Own, c)
    <3> SUFFICES ASSUME Of(c) PROVE v \in ViewOf(Own, c)
      OBVIOUS
    <3>1. Merge(shown.messages, m) \in Seq(Own[c]) /\ shown.streaming \in BOOLEAN
      BY <1>0, <2>2, ShownIsOwn, MergeIsSeq DEF ViewOf
    <3>2. (shown.streaming /\ Role(m) # "assistant") \in BOOLEAN
      OBVIOUS
    <3>3. QED
      BY <1>0, <3>1, <3>2, ShownIsOwn, ViewsChange
  <2>5. s \in State(Own)
    BY <1>0, <2>3, <2>4, DrawOfStays
  <2> HIDE DEF s
  <2>6. QED
    BY <1>2, <2>1, <2>5
<1>10. QED
  BY <1>3, <1>4, <1>5, <1>6, <1>7, <1>8, <1>9

LEMMA AnswerIsView ==
  ASSUME ViewInv, NEW r, r \in Request \/ r \in Fetch, Served(r)
  PROVE  Answer(r) \in ViewOf(Own, r.conv) /\ Answer(r).conv = r.conv /\ r.conv \in Conversation
<1>1. r.conv \in Conversation /\ r.n \in Nat /\ r.run \in BOOLEAN
  BY DEF Request, Fetch
<1>2. \A i \in 1..r.n : stored[r.conv][i] \in Own[r.conv]
  <2> SUFFICES ASSUME NEW i \in 1..r.n PROVE stored[r.conv][i] \in Own[r.conv]
    OBVIOUS
  <2>1. i \in DOMAIN stored[r.conv] /\ stored[r.conv] \in Seq(Message)
    BY <1>1, LenProperties DEF Served, ViewInv, DaemonInv
  <2>2. stored[r.conv][i] \in Message /\ stored[r.conv][i].conv = r.conv
    BY <1>1, <2>1, LenProperties, ElementOfSeq DEF ViewInv, DaemonInv
  <2>3. QED
    BY <1>1, <2>1, <2>2 DEF Own, Recorded
<1>3. SubSeq(stored[r.conv], 1, r.n) \in Seq(Own[r.conv])
  <2> DEFINE s == stored[r.conv]
             n == r.n
             S == Own[r.conv]
  <2>1. n \in Int /\ 1 \in Int /\ \A i \in 1..n : s[i] \in S
    BY <1>1, <1>2
  <2> HIDE DEF s, n, S
  <2>2. SubSeq(s, 1, n) \in Seq(S)
    BY <2>1, SubSeqProperties
  <2>3. QED
    BY <2>2 DEF s, n, S
<1>4. QED
  BY <1>1, <1>3 DEF Answer, Journal, ViewOf

LEMMA PolledIsState ==
  ASSUME ViewInv, NEW c \in Conversation, NEW next \in ViewOf(Own, c)
  PROVE  Polled(next) \in State(Own)
<1> DEFINE s == [Now EXCEPT !.cache[next.conv] = next, !.poll = Ask(next.conv)]
<1>1. next.conv = c /\ next \in SomeView(Own)
  BY ViewsAreViews
<1>2. [cache EXCEPT ![c] = next] \in Caches(Own) /\ Ask(c) \in Polls /\ Now \in State(Own)
  BY <1>1, Parts, AskIsPoll, NowIsState DEF Caches, ViewInv
<1>3. s = [Now EXCEPT !.cache = [cache EXCEPT ![c] = next], !.poll = Ask(c)]
  BY <1>1 DEF Now
<1>4. s \in State(Own)
  <2> HIDE DEF s
  <2> QED
    BY <1>2, <1>3 DEF State
<1>5. Of(c) => [next EXCEPT !.messages = Overlay(shown.messages, @)] \in ViewOf(Own, c)
  <2> SUFFICES ASSUME Of(c)
               PROVE  [next EXCEPT !.messages = Overlay(shown.messages, next.messages)] \in ViewOf(Own, c)
    OBVIOUS
  <2>1. Overlay(shown.messages, next.messages) \in Seq(Own[c])
    BY ShownIsOwn, OverlayIsSeq DEF ViewOf
  <2>2. QED
    BY <2>1, ViewsChange
<1>6. Draw(s, next) \in State(Own)
  BY <1>4, DrawStays
<1>7. Of(c) => Draw(s, [next EXCEPT !.messages = Overlay(shown.messages, @)]) \in State(Own)
  <2> HIDE DEF s
  <2> QED
    BY <1>4, <1>5, DrawStays
<1>8. \/ Polled(next) = s \/ Polled(next) = Draw(s, next)
      \/ Of(c) /\ Polled(next) = Draw(s, [next EXCEPT !.messages = Overlay(shown.messages, @)])
  <2> HIDE DEF s
  <2> QED
    BY <1>1 DEF Polled, s
<1>9. QED
  BY <1>4, <1>6, <1>7, <1>8

LEMMA AnswerSteps ==
  ASSUME ViewInv, PollReturns \/ FetchReturns \/ WatchdogAsks \/ DaemonServesWatchdog \/ WatchdogHears
  PROVE  ViewInv'
<1> USE Parts DEF daemonVars, boundVars
<1>0. Now \in State(Own)
  BY NowIsState
<1>1. CASE PollReturns
  <2> DEFINE next == Answer(poll)
  <2>1. poll \in Request /\ Served(poll) /\ UNCHANGED <<daemonVars, events, boundVars, ref, busy, live, fetches, sends>>
    BY <1>1 DEF PollReturns, Polls
  <2>2. next \in ViewOf(Own, poll.conv) /\ next.conv = poll.conv /\ poll.conv \in Conversation
    BY <2>1, AnswerIsView
  <2>3. StillRuns(next) \/ HasStopped(next)
    BY <1>1 DEF PollReturns
  <2> HIDE DEF next
  <2>4. Polled(next) \in State(Own)
    BY <2>2, PolledIsState
  <2>5. CASE StillRuns(next)
    <3> DEFINE s == [Polled(next) EXCEPT !.optimistic = IF AcceptedIn(next, @) THEN None ELSE @]
    <3>1. Commit(s) /\ UNCHANGED tools
      BY <2>5 DEF StillRuns
    <3>2. s \in State(Own)
      BY <2>4 DEF State
    <3> HIDE DEF s
    <3>3. QED
      BY <2>1, <3>1, <3>2, ScreenMoves
  <2>6. CASE HasStopped(next)
    <3> DEFINE s == ClearOptimistic(IF next.conv \in streaming THEN Unmark(Polled(next), next.conv)
                                    ELSE Polled(next), next.conv)
    <3>1. Commit(s) /\ tools' = ClearTools(next.conv)
      BY <2>6 DEF HasStopped
    <3>2. s \in State(Own)
      BY <2>2, <2>4, MarksStay, ClearOptimisticStays
    <3> HIDE DEF s
    <3>3. QED
      BY <2>1, <2>2, <3>1, <3>2, ScreenMoves
  <2>7. QED
    BY <2>3, <2>5, <2>6
<1>2. CASE FetchReturns
  <2>1. PICK r \in fetches : fetches' = fetches \ {r} /\ Commit(IF ref = r.conv THEN Draw(Now, Answer(r)) ELSE Now)
    BY <1>2 DEF FetchReturns
  <2>2. UNCHANGED <<daemonVars, events, boundVars, ref, busy, tools, live, sends>>
    BY <1>2 DEF FetchReturns
  <2> DEFINE s == IF ref = r.conv THEN Draw(Now, Answer(r)) ELSE Now
  <2>3. r \in Fetch /\ Served(r)
    OBVIOUS
  <2>4. s \in State(Own)
    BY <1>0, <2>3, AnswerIsView, DrawStays
  <2>5. Commit(s)
    BY <2>1
  <2> HIDE DEF s
  <2>6. QED
    BY <2>1, <2>2, <2>4, <2>5, ScreenMoves
<1>3. CASE WatchdogAsks
  <2> DEFINE r == AskOnce("watch", Active)
  <2>1. Active \in Conversation
    BY <1>3 DEF WatchdogAsks, Active
  <2>2. r \in Fetch /\ Served(r)
    BY <2>1, AskIsServed
  <2>3. fetches' = fetches \union {Reads(r)}
    BY <1>3 DEF WatchdogAsks
  <2> HIDE DEF r
  <2>4. fetches' \in SUBSET {q \in Fetch : Served(q)}
    BY <2>2, <2>3, ServedIsServed
  <2>5. QED
    BY <1>3, <2>4, WorldStays DEF WatchdogAsks, ViewInv, DaemonInv
<1>4. CASE WatchdogHears
  <2>1. PICK r \in fetches : /\ fetches' = fetches \ {r} /\ tools' = None
                             /\ Commit(DrawOf(Unmark(Now, r.conv), r.conv, Answer(r)))
    BY <1>4 DEF WatchdogHears
  <2>2. UNCHANGED <<daemonVars, events, boundVars, ref, busy, live, sends>>
    BY <1>4 DEF WatchdogHears
  <2> DEFINE s == DrawOf(Unmark(Now, r.conv), r.conv, Answer(r))
  <2>3. r \in Fetch /\ Served(r)
    OBVIOUS
  <2>4. s \in State(Own)
    BY <1>0, <2>3, AnswerIsView, DrawOfStays, MarksStay
  <2> HIDE DEF s
  <2>5. Commit(s)
    BY <2>1 DEF s
  <2>6. QED
    BY <2>1, <2>2, <2>4, <2>5, ScreenMoves
<1>5. CASE DaemonServesWatchdog
  <2>1. fetches' \in SUBSET {r \in Fetch : Served(r)}
    BY <1>5, ServedIsServed DEF DaemonServesWatchdog
  <2>2. QED
    BY <1>5, <2>1, WorldStays DEF DaemonServesWatchdog, ViewInv, DaemonInv
<1>6. QED
  BY <1>1, <1>2, <1>3, <1>4, <1>5

(* The cached view of c, if there is one, is c's; so is what it is shown as. *)
LEMMA NowMoves ==
  ASSUME ViewInv, NEW v \in SomeView(Own), NEW c \in Conversation \union {None},
         NEW o \in {None} \union Optimistic
  PROVE  /\ [Now EXCEPT !.view = v, !.selected = c, !.optimistic = o] \in State(Own)
         /\ [Now EXCEPT !.selected = c] \in State(Own)
         /\ [Now EXCEPT !.optimistic = o] \in State(Own)
  BY NowIsState DEF State

LEMMA UserSteps ==
  ASSUME ViewInv, User
  PROVE  ViewInv'
<1> USE Parts DEF daemonVars, boundVars
<1>d. Disturb => disturbances' \in 0..MaxDisturbances
  BY ViewAssumption DEF Disturb
<1>n. None \in SomeView(Own)
  BY DEF SomeView
<1>1. ASSUME NEW c \in Conversation, SelectConversation(c) PROVE ViewInv'
  <2> DEFINE s == [Now EXCEPT !.view = cache[c], !.selected = c, !.optimistic = None]
  <2>1. Commit(s)
    BY <1>1 DEF SelectConversation
  <2>2. cache[c] \in SomeView(Own)
    BY DEF Caches
  <2>3. s \in State(Own)
    BY <2>2, NowMoves
  <2> HIDE DEF s
  <2>4. QED
    BY <1>1, <1>d, <2>1, <2>3, ScreenMoves DEF SelectConversation
<1>2. ASSUME NEW c \in Conversation, CreateConversation(c) PROVE ViewInv'
  <2> DEFINE s == [Now EXCEPT !.view = None, !.selected = c, !.optimistic = None]
  <2>1. Commit(s)
    BY <1>2 DEF CreateConversation
  <2>2. s \in State(Own)
    BY <1>n, NowMoves
  <2> HIDE DEF s
  <2>3. QED
    BY <1>2, <1>d, <2>1, <2>2, ScreenMoves DEF CreateConversation, Makes
<1>3. ASSUME NEW c \in Conversation \union {None}, ListMovesSelection(c) PROVE ViewInv'
  <2> DEFINE s == [Now EXCEPT !.selected = c]
  <2>1. Commit(s)
    BY <1>3 DEF ListMovesSelection
  <2>2. s \in State(Own)
    BY <1>n, NowMoves
  <2> HIDE DEF s
  <2>3. QED
    BY <1>3, <1>d, <2>1, <2>2, ScreenMoves DEF ListMovesSelection
<1>4. CASE AbortConversation
  <2> DEFINE n == [Unmark(Now, ref) EXCEPT !.optimistic = None]
             s == DrawOf(n, ref, [shown EXCEPT !.streaming = FALSE])
  <2>1. Commit(s) /\ ref \in Conversation
    BY <1>4 DEF AbortConversation
  <2>2. n \in State(Own)
    BY <2>1, NowIsState, MarksStay, OptimisticChanges
  <2>3. Of(ref) => [shown EXCEPT !.streaming = FALSE] \in ViewOf(Own, ref)
    BY <2>1, ShownIsOwn, ViewsChange
  <2> HIDE DEF n
  <2>4. s \in State(Own)
    BY <2>1, <2>2, <2>3, DrawOfStays
  <2> HIDE DEF s
  <2>5. QED
    BY <1>4, <1>d, <2>1, <2>4, ScreenMoves DEF AbortConversation
<1>5. CASE SendMessage
  <2> DEFINE base == IF Of(selected) THEN Len(shown.messages) ELSE 0
             o == [conv |-> selected, turn |-> turns + 1, base |-> base]
             s == [Now EXCEPT !.optimistic = o]
  <2>1. Commit(s)
    BY <1>5 DEF SendMessage
  <2>2. base \in Nat
    <3>1. Of(selected) => selected \in Conversation
      BY ViewAssumption DEF Of, SomeView, ViewOf
    <3>2. Of(selected) => Len(shown.messages) \in Nat
      BY <3>1, ShownIsOwn, LenProperties
    <3>3. QED
      BY <3>2
  <2>3. turns + 1 \in 1..MaxTurns /\ turns' = turns + 1
    BY <1>5, ViewAssumption DEF SendMessage
  <2> HIDE DEF base
  <2>4. o \in Optimistic
    BY <2>2, <2>3 DEF Optimistic
  <2>5. s \in State(Own)
    BY <2>4, NowMoves, <1>n
  <2>6. SendInv'
    <3>1. sends' = sends \union {[turn |-> turns + 1, conv |-> selected,
                                  at |-> IF selected = None THEN "creating" ELSE "watching"]}
      BY <1>5 DEF SendMessage
    <3>2. QED
      BY <2>3, <3>1 DEF SendInv, Sends
  <2> HIDE DEF s
  <2>7. QED
    BY <1>5, <2>1, <2>3, <2>5, <2>6, ViewAssumption, ScreenMoves DEF SendMessage
<1>6. QED
  BY <1>1, <1>2, <1>3, <1>4, <1>5 DEF User

LEMMA SendSteps ==
  ASSUME ViewInv, Sending
  PROVE  ViewInv'
<1> USE Parts DEF daemonVars, boundVars
<1>n. None \in SomeView(Own)
  BY DEF SomeView
<1>1. ASSUME NEW c \in Conversation, SendCreates(c) PROVE ViewInv'
  <2>0. PICK p \in sends :
          /\ p.at = "creating" /\ Makes(c)
          /\ sends' = (sends \ {p}) \union {[p EXCEPT !.conv = c, !.at = "watching"]}
          /\ Commit([Now EXCEPT !.view = None, !.selected = c,
                       !.optimistic = IF Pending(p) THEN [@ EXCEPT !.conv = c] ELSE @])
    BY <1>1 DEF SendCreates
  <2> DEFINE o == IF Pending(p) THEN [optimistic EXCEPT !.conv = c] ELSE optimistic
             s == [Now EXCEPT !.view = None, !.selected = c, !.optimistic = o]
  <2>1. Commit(s)
    BY <2>0 DEF Now
  <2>2. o \in {None} \union Optimistic
    BY DEF Optimistic, Pending
  <2>3. s \in State(Own)
    <3> HIDE DEF o
    <3> QED
      BY <1>n, <2>2, NowMoves
  <2>4. SendInv' /\ listed' \subseteq Conversation /\ tools' \in Conversation \union {None}
    BY <1>1, <2>0 DEF SendCreates, SendInv, Sends, Makes
  <2> HIDE DEF s
  <2>5. QED
    BY <1>1, <2>1, <2>3, <2>4, ScreenMoves DEF SendCreates
<1>2. CASE SendPosts
  <2>0. PICK p \in sends : /\ p.at = "watching"
                           /\ sends' = (sends \ {p}) \union {[p EXCEPT !.at = "posting"]}
                           /\ Commit(Mark(Now, p.conv))
    BY <1>2 DEF SendPosts
  <2> DEFINE s == Mark(Now, p.conv)
  <2>1. p.conv \in Conversation /\ SendInv'
    BY <2>0 DEF SendInv, Sends
  <2>2. s \in State(Own)
    BY <2>1, NowIsState, MarksStay
  <2> HIDE DEF s
  <2>3. Commit(s)
    BY <2>0 DEF s
  <2>4. QED
    BY <1>2, <2>1, <2>2, <2>3, ScreenMoves DEF SendPosts
<1>3. CASE SendReturns
  <2>0. PICK p \in sends :
          /\ p.at \in {"accepted", "refused"}
          /\ sends' = sends \ {p}
          /\ IF p.at = "accepted"
             THEN Commit(Now) /\ UNCHANGED tools
             ELSE /\ tools' = ClearTools(p.conv)
                  /\ Commit([Unmark(Now, p.conv) EXCEPT !.optimistic =
                               IF Pending(p) THEN None ELSE @])
    BY <1>3 DEF SendReturns
  <2>1. p.conv \in Conversation /\ SendInv'
    BY <2>0 DEF SendInv, Sends
  <2>2. CASE p.at = "accepted"
    BY <1>3, <2>0, <2>1, <2>2, NowIsState, ScreenMoves DEF SendReturns
  <2>3. CASE p.at # "accepted"
    <3> DEFINE n == Unmark(Now, p.conv)
               o == IF Pending(p) THEN None ELSE n.optimistic
               s == [n EXCEPT !.optimistic = o]
    <3>1. Commit(s) /\ tools' = ClearTools(p.conv)
      BY <2>0, <2>3
    <3>2. n \in State(Own)
      BY <2>1, NowIsState, MarksStay
    <3> HIDE DEF n
    <3>3. s \in State(Own)
      <4>1. o \in {None} \union Optimistic
        BY <3>2 DEF State
      <4> HIDE DEF o
      <4>2. QED
        BY <3>2, <4>1, OptimisticChanges
    <3> HIDE DEF s
    <3>4. QED
      BY <1>3, <2>1, <3>1, <3>3, ScreenMoves DEF SendReturns
  <2>4. QED
    BY <2>2, <2>3
<1>4. QED
  BY <1>1, <1>2, <1>3, AcceptanceStep DEF Sending

-----------------------------------------------------------------------------

LEMMA ViewInit == Init => ViewInv
<1> SUFFICES ASSUME Init PROVE ViewInv
  OBVIOUS
<1> DEFINE first(c) == [conv |-> c, turn |-> 0, what |-> "user", copy |-> "stored", text |-> 0]
           second(c) == [conv |-> c, turn |-> 0, what |-> "answer", copy |-> "stored", text |-> MaxText]
<1>1. \A c \in Conversation : first(c) \in Message /\ second(c) \in Message
  BY ViewAssumption DEF Message
<1>2. /\ stored = [c \in Conversation |-> IF c \in Past THEN <<first(c), second(c)>> ELSE <<>>]
  BY DEF Init
<1>3. first(None).turn = 0 /\ \A c \in Conversation : first(c).conv = c /\ second(c).conv = c
  OBVIOUS
<1> HIDE DEF first, second
<1>4. /\ stored \in [Conversation -> Seq(Message)]
      /\ \A c \in Conversation : \A i \in DOMAIN stored[c] : stored[c][i].conv = c
  BY <1>1, <1>2, <1>3
<1>5. Idle \in Turn /\ [Idle EXCEPT !.at = "answered"] \in Turn
  BY ViewAssumption DEF Idle, Turn
<1>6. turn \in [Conversation -> Turn] /\ disturbances \in 0..MaxDisturbances
  BY <1>5, ViewAssumption DEF Init
<1>7. DaemonInv
  BY <1>4, <1>6, ViewAssumption DEF DaemonInv, Init
<1>8. poll \in Polls
  BY <1>7, AskIsPoll, ViewAssumption DEF Init, Polls
<1>9. WayInv
  BY <1>8, EmptySeq DEF WayInv, Init, SendInv
<1>10. ScreenInv
  BY ViewAssumption DEF ScreenInv, Init, SomeView, Caches
<1>11. QED
  BY <1>7, <1>9, <1>10 DEF ViewInv

LEMMA ViewStep ==
  ASSUME ViewInv, [Next]_vars
  PROVE  ViewInv'
<1>1. CASE UNCHANGED vars
  <2>1. Own' = Own /\ Polls' = Polls /\ {r \in Fetch : Served(r)}' = {r \in Fetch : Served(r)} /\ Grows
    BY <1>1, QuietStays DEF vars, daemonVars, ViewInv
  <2>2. ScreenInv'
    BY <1>1, <2>1, ScreenStays DEF vars
  <2>3. WayInv' /\ DaemonInv'
    BY <1>1, <2>1 DEF vars, daemonVars, boundVars, ViewInv, WayInv, DaemonInv, SendInv
  <2>4. QED
    BY <2>2, <2>3 DEF ViewInv
<1>2. CASE Next
  BY <1>2, TurnSteps, WorldSteps, EventSteps, AnswerSteps, UserSteps, SendSteps
     DEF Next, Work, TakeEvent, Polling, Watchdog, User, Failure
<1>3. QED
  BY <1>1, <1>2

LEMMA ViewInvariant == Spec => []ViewInv
<1>1. Init => ViewInv
  BY ViewInit
<1>2. ViewInv /\ [Next]_vars => ViewInv'
  BY ViewStep
<1>3. QED
  BY <1>1, <1>2, PTL DEF Spec

(* Every variable of the view, of the daemon and of what is under way       *)
(* between them holds what App.tsx's states and refs can hold, for any      *)
(* number of conversations, turns, deltas and disturbances.                 *)
THEOREM ViewTypeCorrect == Spec => []TypeOK
<1>1. ViewInv => TypeOK
  <2> SUFFICES ASSUME ViewInv PROVE TypeOK
    OBVIOUS
  <2>1. ASSUME NEW v \in SomeView(Own), v # None
        PROVE  /\ v.conv \in Conversation /\ v.online \in BOOLEAN /\ v.streaming \in BOOLEAN
               /\ \A i \in DOMAIN v.messages : v.messages[i] \in Message
    <3>1. PICK c \in Conversation : v \in ViewOf(Own, c)
      BY <2>1 DEF SomeView
    <3>2. v.messages \in Seq(Own[c]) /\ Own[c] \subseteq Message
      BY <3>1 DEF ViewOf, Own
    <3>3. QED
      BY <3>1, <3>2, LenProperties, ElementOfSeq DEF ViewOf
  <2>2. shown \in SomeView(Own) /\ \A c \in Conversation : cache[c] \in SomeView(Own)
    BY DEF ViewInv, ScreenInv, Caches
  <2>3. \A v \in {shown} \union {cache[c] : c \in Conversation} :
          v = None \/ (/\ v.conv \in Conversation /\ v.online \in BOOLEAN /\ v.streaming \in BOOLEAN
                       /\ \A i \in DOMAIN v.messages : v.messages[i] \in Message)
    BY <2>1, <2>2
  <2>4. \A c \in Conversation : \A i \in DOMAIN stored[c] : stored[c][i] \in Message
    BY LenProperties, ElementOfSeq DEF ViewInv, DaemonInv
  <2>5. DOMAIN stored = Conversation /\ DOMAIN live = Conversation
    BY DEF ViewInv, DaemonInv, ScreenInv
  <2>6. QED
    BY <2>3, <2>4, <2>5 DEF TypeOK, ViewInv, DaemonInv, WayInv, ScreenInv, SendInv, Sends, Polls, Turn, Openings
<1>2. QED
  BY <1>1, ViewInvariant, PTL

(* What the user sees of a conversation, and what is cached of it, are      *)
(* messages that its journal has, or that are being put together from its   *)
(* deltas: whichever events and answers arrive late, twice or never while   *)
(* the selection moves, App.tsx never draws one conversation's message into *)
(* another one's view, nor one that was never stored.                       *)
THEOREM ViewsAreOfTheJournal == Spec => []ViewsShowTheirJournal
<1>1. ViewInv => ViewsShowTheirJournal
  <2> SUFFICES ASSUME ViewInv PROVE ViewsShowTheirJournal
    OBVIOUS
  <2>1. ASSUME NEW c \in Conversation, NEW v \in ViewOf(Own, c)
        PROVE  v.conv = c /\ \A i \in DOMAIN v.messages : Recorded(c, v.messages[i])
    <3>1. v.conv = c /\ v.messages \in Seq(Own[c])
      BY DEF ViewOf
    <3>2. \A i \in DOMAIN v.messages : v.messages[i] \in Own[c]
      BY <3>1, LenProperties, ElementOfSeq
    <3>3. QED
      BY <3>1, <3>2 DEF Own
  <2>2. shown # None => \E c \in Conversation : shown \in ViewOf(Own, c)
    BY DEF ViewInv, ScreenInv, SomeView
  <2>3. \A c \in Conversation : cache[c] # None => cache[c] \in ViewOf(Own, c)
    BY DEF ViewInv, ScreenInv, Caches
  <2>4. QED
    BY <2>1, <2>2, <2>3 DEF ViewsShowTheirJournal
<1>2. QED
  BY <1>1, ViewInvariant, PTL
=============================================================================
