------------------------------ MODULE TurnSlot ------------------------------
(***************************************************************************)
(* What the session manager of openpi-engine promises to its callers,      *)
(* without any of its machinery: at every moment at most one turn of a     *)
(* session may start new work (an LLM request or a tool call), and a turn  *)
(* that has lost that right, because it was aborted, superseded by a newer *)
(* prompt, or killed with the daemon, never gets it back.                  *)
(*                                                                         *)
(* EngineSession implements this specification.                            *)
(***************************************************************************)
EXTENDS Naturals

CONSTANTS
  Session,   (* Sessions, each with its own slot.                          *)
  Turn,      (* Turn identifiers.                                          *)
  NoTurn     (* The value of an empty slot; not a turn.                    *)

VARIABLES
  owner,     (* The turn of each session that may start work, or NoTurn.   *)
  spent,     (* Turns that may never start work again.                     *)
  work       (* How many pieces of work each turn has started.             *)

slotVars == <<owner, spent, work>>

TypeOK ==
  /\ owner \in [Session -> Turn \cup {NoTurn}]
  /\ spent \subseteq Turn
  /\ work \in [Turn -> Nat]

Init ==
  /\ owner = [s \in Session |-> NoTurn]
  /\ spent = {}
  /\ work = [t \in Turn |-> 0]

Owners(S) == {owner[s] : s \in S} \ {NoTurn}

(* A prompt gives the slot to a new turn; whoever had it is spent.          *)
Grant(s, t) ==
  /\ t \notin spent
  /\ t \notin Owners(Session)
  /\ owner' = [owner EXCEPT ![s] = t]
  /\ spent' = spent \cup Owners({s})
  /\ UNCHANGED work

(* The slots in S are emptied: the turns in them ended, were aborted, or    *)
(* died with the process; the turns in lost died waiting for a slot.        *)
Revoke(S, lost) ==
  /\ owner' = [s \in Session |-> IF s \in S THEN NoTurn ELSE owner[s]]
  /\ lost \cap (Owners(Session) \ Owners(S)) = {}
  /\ spent' = spent \cup Owners(S) \cup lost
  /\ UNCHANGED work

(* The turn in the slot starts one piece of work.                           *)
Start(t) ==
  /\ t \in Owners(Session)
  /\ work' = [work EXCEPT ![t] = @ + 1]
  /\ UNCHANGED <<owner, spent>>

Next ==
  \/ \E s \in Session, t \in Turn : Grant(s, t)
  \/ \E S \in SUBSET Session, lost \in SUBSET Turn : Revoke(S, lost)
  \/ \E t \in Turn : Start(t)

Spec == Init /\ [][Next]_slotVars
=============================================================================
