------------------------- MODULE MCSupervisorSessions -------------------------
(* SupervisorSessions for TLC: who calls what. One caller creates, renames   *)
(* and sets the model of a session that another prompts, moves and deletes.  *)
EXTENDS SupervisorSessions, TLC

CONSTANTS c1, c2, c3

(* Two callers who between them make every call.                             *)
LiveCallers ==
  c1 :> {"create", "rename", "set_model"}
  @@ c2 :> {"prompt", "delete", "move", "subscribe", "set_thinking_level"}

(* A conversation that is created, prompted and deleted.                     *)
Conversation == c1 :> {"create"} @@ c2 :> {"prompt"} @@ c3 :> {"delete"}
=============================================================================
