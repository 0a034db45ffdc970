----------------------------- MODULE AgentTurn -----------------------------
(***************************************************************************)
(* One call of AgentLoop::run_turn: the loop of LLM requests, the batches  *)
(* of tool calls, the guard's budget and notices, empty completions,       *)
(* reviews, the final synthesis, and the settle events, with the user's    *)
(* cancellation arriving at any moment.                                    *)
(***************************************************************************)
EXTENDS TurnGuard, Sequences

CONSTANTS
  StepLimits,      (* Effective max_steps the turn may run with; 0 is      *)
                   (* unlimited (the code raises others to at least 25).   *)
  MaxBatch,        (* Bound: tool calls in one completion.                 *)
  MaxEmptyRetries, (* MAX_EMPTY_RETRIES (code: 2).                         *)
  MaxReviewRetries (* MAX_REVIEW_RETRIES (code: 2).                        *)

ASSUME TurnAssumption ==
  /\ StepLimits \subseteq Nat
  /\ MaxBatch \in Nat \ {0}
  /\ MaxEmptyRetries \in Nat
  /\ MaxReviewRetries \in Nat

VARIABLES
  pc,          (* Where run_turn stands.                                   *)
  maxSteps,    (* The effective step limit.                                *)
  step,        (* Steps taken; not counted when unlimited.                 *)
  guard,       (* turn_guard.                                              *)
  batch,       (* The calls of the current completion not yet executed.    *)
  notices,     (* Whether step_notices holds a notice not yet injected.    *)
  emptyStreak, (* empty_streak.                                            *)
  reviews,     (* review_attempts.                                         *)
  exhausted,   (* tool_budget_exhausted.                                   *)
  finished,    (* finished_normally.                                       *)
  cancelled,   (* The token.                                               *)
  unanswered,  (* active_messages: calls of its last assistant message     *)
               (* that have no result yet;                                 *)
  misplaced,   (* and whether another message came before their results.   *)
  outcome,     (* stopReason of the last assistant entry given to the      *)
               (* journal.                                                 *)
  erred,       (* run_turn returned Err.                                   *)
  settles      (* turn_end/agent_settled pairs emitted.                    *)

turnVars == <<pc, maxSteps, step, guard, batch, notices, emptyStreak, reviews,
              exhausted, finished, cancelled, unanswered, misplaced, outcome,
              erred, settles>>

Phases == {"begin", "head", "request", "batch", "tool", "review", "after",
           "synthesis", "closing", "failed", "done"}

Outcomes == {"none", "toolUse", "stop", "error", "critique_rejected"}

Batches == UNION {[1..n -> Fingerprint] : n \in 1..MaxBatch}

TurnTypeOK ==
  /\ pc \in Phases
  /\ maxSteps \in StepLimits
  /\ step \in 0..maxSteps
  /\ guard \in Guard
  /\ batch \in Seq(Fingerprint)
  /\ notices \in BOOLEAN
  /\ emptyStreak \in 0..(MaxEmptyRetries + 1)
  /\ reviews \in 0..MaxReviewRetries
  /\ exhausted \in BOOLEAN
  /\ finished \in BOOLEAN
  /\ cancelled \in BOOLEAN
  /\ unanswered \in 0..MaxBatch
  /\ misplaced \in BOOLEAN
  /\ outcome \in Outcomes
  /\ erred \in BOOLEAN
  /\ settles \in 0..2

TurnInit ==
  /\ pc = "begin"
  /\ maxSteps \in StepLimits
  /\ step = 0
  /\ guard = NewGuard
  /\ batch = <<>>
  /\ notices = FALSE
  /\ emptyStreak = 0
  /\ reviews = 0
  /\ exhausted = FALSE
  /\ finished = FALSE
  /\ cancelled = FALSE
  /\ unanswered = 0
  /\ misplaced = FALSE
  /\ outcome = "none"
  /\ erred = FALSE
  /\ settles = 0

Goto(from, to) == pc = from /\ pc' = to

(* Push onto active_messages: any message but a tool result, a tool result, *)
(* an assistant message with n tool calls.                                  *)
PushMessage ==
  /\ misplaced' = (misplaced \/ unanswered > 0)
  /\ UNCHANGED unanswered
PushResult ==
  /\ unanswered' = unanswered - 1
  /\ UNCHANGED misplaced
PushCalls(n) ==
  /\ misplaced' = (misplaced \/ unanswered > 0)
  /\ unanswered' = n

NoPush == UNCHANGED <<unanswered, misplaced>>

(* Variant: one retry too many.                                             *)
OneMoreEmptyRetry == emptyStreak <= MaxEmptyRetries

(* After an empty completion the model may be asked again.                  *)
EmptyRetriesLeft == emptyStreak < MaxEmptyRetries

(* Variant: a rejection is not counted.                                     *)
RejectionUncounted == reviews

ReviewsAfterRejection == reviews + 1

(* Variant: the batch is cut short once the guard has something to say.     *)
CutShortByNotice == batch = <<>> \/ cancelled \/ notices

(* The loop over the batch ends.                                            *)
BatchOver == batch = <<>> \/ cancelled

(* Variant: only the step limit leads to a summary.                         *)
SynthesisForStepsOnly == ~finished /\ ~cancelled /\ maxSteps > 0 /\ step >= maxSteps

OutOfSteps == maxSteps > 0 /\ step >= maxSteps

(* The user aborts, or a newer prompt supersedes the turn.                  *)
Cancel ==
  /\ ~cancelled /\ pc # "done"
  /\ cancelled' = TRUE
  /\ UNCHANGED <<pc, maxSteps, step, guard, batch, notices, emptyStreak,
                 reviews, exhausted, finished, unanswered, misplaced, outcome,
                 erred, settles>>

(* run_turn up to its loop; the model may not resolve, the user message may *)
(* not be written.                                                          *)
Begin ==
  /\ \/ Goto("begin", "head") /\ UNCHANGED erred
     \/ Goto("begin", "failed") /\ erred' = TRUE
  /\ NoPush
  /\ UNCHANGED <<maxSteps, step, guard, batch, notices, emptyStreak, reviews,
                 exhausted, finished, cancelled, outcome, settles>>

(* The head of the loop, in the order of the code's checks.                 *)
LeaveLoop ==
  /\ Goto("head", "after")
  /\ OutOfSteps \/ cancelled \/ Exhausted(guard)
  /\ exhausted' = (~OutOfSteps /\ ~cancelled)
  /\ NoPush
  /\ UNCHANGED <<maxSteps, step, guard, batch, notices, emptyStreak, reviews,
                 finished, cancelled, outcome, erred, settles>>

TakeStep ==
  /\ Goto("head", "request")
  /\ ~(OutOfSteps \/ cancelled \/ Exhausted(guard))
  /\ step' = IF maxSteps > 0 THEN step + 1 ELSE step
  /\ NoPush
  /\ UNCHANGED <<maxSteps, guard, batch, notices, emptyStreak, reviews,
                 exhausted, finished, cancelled, outcome, erred, settles>>

(* The request fails: error entry, settle events, Err.                      *)
RequestFails ==
  /\ Goto("request", "failed")
  /\ outcome' = "error"
  /\ erred' = TRUE
  /\ settles' = settles + 1
  /\ NoPush
  /\ UNCHANGED <<maxSteps, step, guard, batch, notices, emptyStreak, reviews,
                 exhausted, finished, cancelled>>

(* A completion with tool calls.                                            *)
ReplyCalls(calls) ==
  /\ Goto("request", "batch")
  /\ batch' = calls
  /\ emptyStreak' = 0
  /\ outcome' = "toolUse"
  /\ PushCalls(Len(calls))
  /\ UNCHANGED <<maxSteps, step, guard, notices, reviews, exhausted, finished,
                 cancelled, erred, settles>>

(* A completion with neither text nor calls, with retries left.             *)
ReplyEmpty ==
  /\ EmptyRetriesLeft
  /\ Goto("request", "head")
  /\ emptyStreak' = emptyStreak + 1
  /\ PushMessage
  /\ UNCHANGED <<maxSteps, step, guard, batch, notices, reviews, exhausted,
                 finished, cancelled, outcome, erred, settles>>

(* One empty completion too many: an error text ends the turn.              *)
GiveUpOnEmpty ==
  /\ ~EmptyRetriesLeft
  /\ Goto("request", "after")
  /\ emptyStreak' = emptyStreak + 1
  /\ outcome' = "error"
  /\ finished' = TRUE
  /\ NoPush
  /\ UNCHANGED <<maxSteps, step, guard, batch, notices, reviews, exhausted,
                 cancelled, erred, settles>>

(* The answer is delivered at once: async review mode, no reviewer, or a    *)
(* blocking reviewer whose retries are used up. The reviewer's settings are *)
(* read afresh for each answer, so any of them may apply.                   *)
ReplyText ==
  /\ Goto("request", "after")
  /\ outcome' = "stop"
  /\ finished' = TRUE
  /\ NoPush
  /\ UNCHANGED <<maxSteps, step, guard, batch, notices, emptyStreak, reviews,
                 exhausted, cancelled, erred, settles>>

(* Blocking mode: the answer waits for the reviewer.                        *)
SubmitForReview ==
  /\ reviews < MaxReviewRetries
  /\ Goto("request", "review")
  /\ NoPush
  /\ UNCHANGED <<maxSteps, step, guard, batch, notices, emptyStreak, reviews,
                 exhausted, finished, cancelled, outcome, erred, settles>>

(* Approved, or the review call failed and is bypassed.                     *)
ReviewPasses ==
  /\ Goto("review", "after")
  /\ outcome' = "stop"
  /\ finished' = TRUE
  /\ NoPush
  /\ UNCHANGED <<maxSteps, step, guard, batch, notices, emptyStreak, reviews,
                 exhausted, cancelled, erred, settles>>

(* Rejected: the answer is journaled as such, the critique goes to the      *)
(* model, the loop goes on.                                                 *)
ReviewRejects ==
  /\ Goto("review", "head")
  /\ reviews' = ReviewsAfterRejection
  /\ outcome' = "critique_rejected"
  /\ PushMessage
  /\ UNCHANGED <<maxSteps, step, guard, batch, notices, emptyStreak, exhausted,
                 finished, cancelled, erred, settles>>

(* Next call of the batch: count it, then run it.                           *)
ExecuteTool ==
  /\ Goto("batch", "tool")
  /\ ~BatchOver
  /\ guard' = Record(guard, Head(batch))
  /\ notices' = (notices \/ NoticeOf(guard, Head(batch)) # "none")
  /\ NoPush
  /\ UNCHANGED <<maxSteps, step, batch, emptyStreak, reviews, exhausted,
                 finished, cancelled, outcome, erred, settles>>

ToolReturns ==
  /\ Goto("tool", "batch")
  /\ batch' = Tail(batch)
  /\ PushResult
  /\ UNCHANGED <<maxSteps, step, guard, notices, emptyStreak, reviews,
                 exhausted, finished, cancelled, outcome, erred, settles>>

(* The batch is through, or abandoned on cancellation: the collected        *)
(* notices are injected behind the results.                                 *)
EndBatch ==
  /\ Goto("batch", "head")
  /\ BatchOver
  /\ batch' = <<>>
  /\ notices' = FALSE
  /\ IF notices THEN PushMessage ELSE NoPush
  /\ UNCHANGED <<maxSteps, step, guard, emptyStreak, reviews, exhausted,
                 finished, cancelled, outcome, erred, settles>>

(* A journal write propagated with `?` fails.                               *)
JournalFails ==
  /\ \E from \in {"request", "review", "tool"} : Goto(from, "failed")
  /\ erred' = TRUE
  /\ NoPush
  /\ UNCHANGED <<maxSteps, step, guard, batch, notices, emptyStreak, reviews,
                 exhausted, finished, cancelled, outcome, settles>>

(* Out of room without an answer: ask for a summary with tools disabled.    *)
NeedsSynthesis == ~finished /\ ~cancelled /\ (OutOfSteps \/ exhausted)

RequestSynthesis ==
  /\ Goto("after", "synthesis")
  /\ NeedsSynthesis
  /\ PushMessage
  /\ UNCHANGED <<maxSteps, step, guard, batch, notices, emptyStreak, reviews,
                 exhausted, finished, cancelled, outcome, erred, settles>>

(* The summary, or a stand-in when it is empty or the request failed.       *)
SynthesisEnds ==
  /\ Goto("synthesis", "closing")
  /\ outcome' = "stop"
  /\ NoPush
  /\ UNCHANGED <<maxSteps, step, guard, batch, notices, emptyStreak, reviews,
                 exhausted, finished, cancelled, erred, settles>>

(* turn_end and agent_settled: of a turn that returns Ok, and, sent by the  *)
(* session manager, of one that returned Err.                               *)
Settle ==
  /\ \/ Goto("after", "done") /\ ~NeedsSynthesis
     \/ Goto("closing", "done")
     \/ Goto("failed", "done")
  /\ settles' = settles + 1
  /\ NoPush
  /\ UNCHANGED <<maxSteps, step, guard, batch, notices, emptyStreak, reviews,
                 exhausted, finished, cancelled, outcome, erred>>

LoopStep ==
  \/ Begin \/ LeaveLoop \/ TakeStep
  \/ RequestFails \/ ReplyEmpty \/ GiveUpOnEmpty \/ ReplyText
  \/ \E calls \in Batches : ReplyCalls(calls)
  \/ SubmitForReview \/ ReviewPasses \/ ReviewRejects
  \/ ExecuteTool \/ ToolReturns \/ EndBatch
  \/ JournalFails
  \/ RequestSynthesis \/ SynthesisEnds \/ Settle

TurnNext == LoopStep \/ Cancel

(* The runtime keeps polling the task; requests and tools have timeouts.    *)
TurnSpec == TurnInit /\ [][TurnNext]_turnVars /\ WF_turnVars(LoopStep)

(***************************************************************************)
(* Properties.                                                             *)
(***************************************************************************)

(* Whenever the context goes to the provider, every tool call in it has its *)
(* result directly behind it: neither the guard's notices nor a cancelled   *)
(* batch, a critique or a retry prompt ever comes in between. This is why   *)
(* the notices of a batch are held back until its results are in.           *)
RequestsAreAnswered ==
  pc \in {"request", "synthesis"} => unanswered = 0 /\ ~misplaced

(* A turn that is neither cancelled nor failed ends with a text for the     *)
(* user, however it ran out of steps, budget, retries or reviews: never on  *)
(* tool calls or on a rejected answer.                                      *)
NoSilentEnd ==
  pc = "done" /\ ~cancelled /\ ~erred => outcome \in {"stop", "error"}

(* Each threshold is announced at the call that reaches it, or at the next  *)
(* one when a repetition notice took precedence; so the model is told to    *)
(* converge before its tools are taken away, and never firmly before        *)
(* softly. The repetition notice's cooldown is what guarantees it.          *)
WarningsOnTime ==
  /\ guard.calls > SoftAt => guard.soft
  /\ guard.calls > FirmAt => guard.firm

(* The budget is looked at between batches, so it can be overrun, but by    *)
(* less than one batch.                                                     *)
OvershootIsBounded == guard.calls < Limit + MaxBatch

(* What turn_guard.rs says of the budget (lines 12 and 21, and 178: the     *)
(* caller checks before it executes a new tool): no turn executes more tool *)
(* calls than its hard limit.                                               *)
BudgetIsHard == guard.calls <= Limit

(* Every turn ends, also with unlimited steps: each step uses up budget, an *)
(* empty retry or a review, or is the last.                                 *)
TurnEnds == <>(pc = "done")
=============================================================================
