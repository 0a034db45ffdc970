----------------------------- MODULE TurnGuard -----------------------------
(***************************************************************************)
(* The tool budget and repetition detector of one turn                     *)
(* (openpi-engine/src/turn_guard.rs), as operators over a guard record. A  *)
(* tool call is its fingerprint: calls whose name and normalised arguments *)
(* agree have the same one.                                                *)
(***************************************************************************)
EXTENDS Naturals

CONSTANTS
  Fingerprint,   (* Fingerprints of tool calls.                            *)
  NoFingerprint, (* last_fingerprint before the first call.                *)
  Budget,        (* OPENPI_TURN_TOOL_BUDGET (code: 160).                   *)
  MinBudget,     (* Floor of the budget (code: 8).                         *)
  SoftFloor,     (* Floor of the soft threshold (code: 10).                *)
  FirmFloor,     (* Floor of the firm threshold (code: 20).                *)
  RepeatStreak,  (* REPEAT_STREAK (code: 3).                               *)
  RepeatTotal    (* REPEAT_TOTAL (code: 5).                                *)

ASSUME GuardAssumption ==
  /\ NoFingerprint \notin Fingerprint
  /\ Budget \in Nat
  /\ MinBudget \in Nat \ {0}
  /\ SoftFloor \in Nat /\ SoftFloor >= 2
  /\ FirmFloor \in Nat /\ FirmFloor >= 2 * SoftFloor
  /\ RepeatStreak \in Nat /\ RepeatStreak >= 2
  /\ RepeatTotal \in Nat \ {0}

AtLeast(n, floor) == IF n >= floor THEN n ELSE floor

Limit == AtLeast(Budget, MinBudget)
SoftAt == AtLeast(Limit \div 4, SoftFloor)
FirmAt == AtLeast(Limit \div 2, FirmFloor)

(* The code counts each fingerprint without bound and compares the count    *)
(* with RepeatTotal only; here it stops there. repeatAt is None as 0: call  *)
(* numbers start at 1.                                                      *)
Guard == [calls : Nat, last : Fingerprint \cup {NoFingerprint}, streak : Nat,
          seen : [Fingerprint -> 0..RepeatTotal], soft : BOOLEAN,
          firm : BOOLEAN, repeatAt : Nat]

NewGuard == [calls |-> 0, last |-> NoFingerprint, streak |-> 0,
             seen |-> [f \in Fingerprint |-> 0], soft |-> FALSE,
             firm |-> FALSE, repeatAt |-> 0]

(* Variant: the budget may be used up and one more step taken.              *)
ExhaustedLate(g) == g.calls > Limit

(* budget_exhausted                                                         *)
Exhausted(g) == g.calls >= Limit

(* The counting half of record: the guard after one more call to f.         *)
Counted(g, f) ==
  [g EXCEPT !.calls = @ + 1,
            !.last = f,
            !.streak = IF g.last = f THEN @ + 1 ELSE 1,
            !.seen[f] = IF @ < RepeatTotal THEN @ + 1 ELSE @]

Spinning(g, f) == g.streak >= RepeatStreak \/ g.seen[f] >= RepeatTotal

(* Variant: a repetition is reported on every call.                         *)
AlwaysCooled(g) == TRUE

(* The last repetition notice is RepeatStreak calls away.                   *)
Cooled(g) == g.repeatAt = 0 \/ g.calls >= g.repeatAt + RepeatStreak

(* The notice half of record, on the counted guard: at most one notice, and *)
(* repetition goes before firm, firm before soft.                           *)
Level(g, f) ==
  IF Spinning(g, f) /\ Cooled(g) THEN "repeat"
  ELSE IF g.calls >= FirmAt /\ ~g.firm THEN "firm"
  ELSE IF g.calls >= SoftAt /\ ~g.soft THEN "soft"
  ELSE "none"

Noticed(g, level) ==
  [g EXCEPT !.repeatAt = IF level = "repeat" THEN g.calls ELSE @,
            !.firm = @ \/ level = "firm",
            !.soft = @ \/ level = "soft"]

(* record: the guard after a call to f, and the level of the notice to give *)
(* the model ("none" for no notice).                                        *)
Record(g, f) ==
  LET c == Counted(g, f) IN Noticed(c, Level(c, f))

NoticeOf(g, f) == Level(Counted(g, f), f)
=============================================================================
