-------------------------- MODULE MCEngineSession --------------------------
(* EngineSession for TLC: what a session's journal may hold when the       *)
(* daemon starts. The other constants are in the .cfg files.               *)
EXTENDS EngineSession

Line(kind, n) == [kind |-> kind, turn |-> NoTurn, calls |-> n]

(* One finished turn with one tool call.                                   *)
OneTurn == <<Line("user", 0), Line("call", 1), Line("result", 0), Line("text", 0)>>

Reopened == {OneTurn}
Fresh == {<<>>}

(* What UndisturbedHistoriesAreSent asks of journals from earlier runs.    *)
ASSUME PastIsWellFormed == \A lines \in Reopened \cup Fresh : WellFormed(Messages(lines))
=============================================================================
