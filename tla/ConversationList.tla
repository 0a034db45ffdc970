--------------------------- MODULE ConversationList ----------------------------
(***************************************************************************)
(* The conversations of the sidebar: App.tsx's snapshot, the selection and *)
(* the handlers that create, rename and delete, with the daemon's list.    *)
(*                                                                         *)
(* At start both the snapshot and the selection are those that the last    *)
(* session kept, each under a key of its own, and need not agree.  A       *)
(* history variable of ui, sure, says that a refresh has been applied and  *)
(* that since then neither the shell has selected what is not listed nor   *)
(* onReload has replaced the list without the selection.                   *)
(*                                                                         *)
(* The snapshot is a set: a conversation that a failed deletion appends to *)
(* a list that has it again counts once.  conversationTitles, which only   *)
(* repeat the names, modes and the places of the work are left out.        *)
(***************************************************************************)
EXTENDS Panel

CONSTANTS Conversation,
          Name,    \* names that are given; Untitled is the name of a new one
          Untitled,
          Project  \* conversations of one directory

Instance == [id : Conversation, name : Name \union {Untitled}, online : BOOLEAN]

Ids(list) == {i.id : i \in list}
Without(list, ids) == {i \in list : i.id \notin ids}
Named(list, id, name) == {IF i.id = id THEN [i EXCEPT !.name = name] ELSE i : i \in list}
Created(id) == [id |-> id, name |-> Untitled, online |-> TRUE]

-----------------------------------------------------------------------------
(* The daemon *)

\* removeSelectedProject deletes one by one: any of them may fail.
Outcomes(c) ==
  CASE c.op = "create" ->
         {[stored EXCEPT !.list = @ \union {Created(id)}] : id \in Conversation \ Ids(stored.list)}
    [] c.op = "delete" -> {[stored EXCEPT !.list = Without(@, {c.arg.id})]}
    [] c.op = "remove" -> {[stored EXCEPT !.list = Without(@, ids)] : ids \in SUBSET c.arg}
    [] c.op = "rename" -> {[stored EXCEPT !.list = Named(@, c.arg.id, c.arg.name)]}
    [] OTHER -> {stored}
DaemonServes == \E c \in calls : \E s \in Outcomes(c) :
  Serves(c, s, IF c.op = "create" THEN s.list \ stored.list ELSE s.list)

\* The daemon is started again: nothing runs in it yet.
DaemonRestarts ==
  ChangedElsewhere(Whole, [stored EXCEPT !.list = {[i EXCEPT !.online = FALSE] : i \in @}])

\* A conversation is given a title after its first turn, and the event says so.
DaemonNames == \E i \in stored.list, n \in Name :
  /\ i.name = Untitled
  /\ clicks < MaxClicks /\ clicks' = clicks + 1
  /\ stored' = [stored EXCEPT !.list = Named(@, i.id, n)]
  /\ calls' = Joined(calls, {[ActOn(Whole, "session_renamed", [id |-> i.id, name |-> n])
                                EXCEPT !.at = "served"]})
  /\ clean' = clean \ Whole
  /\ UNCHANGED ui

-----------------------------------------------------------------------------
(* The app *)

Refresh(busy) == Load("get_snapshot", busy)

\* The rows of the sidebar: under the projects, and the recent ones of none.
ProjectRows == {i \in ui.list : i.id \in Project}
RecentRows == {i \in ui.list : i.id \notin Project}
Rows == ProjectRows \union RecentRows

\* The selection of the sidebar is one of the list, and stays.
SelectConversation(id) ==
  id \in Ids(Rows) /\ Shows([ui EXCEPT !.selected = id])

\* handleModeChange goes to the newest of the mode, or to none.
HandleModeChange(id) ==
  id \in Ids(ui.list) \union {None} /\ Shows([ui EXCEPT !.selected = id])

\* The shell or another window names a conversation: any.
ShellSelects(id) ==
  Shows([ui EXCEPT !.selected = id, !.sure = @ /\ id \in Ids(ui.list)])

\* The extensions tab loads the list again, after its own data.
OnReload == Clicks(ui, {Load("reload", None)})

Interval == Clicks(ui, {Refresh(FALSE)})

CreateConversation ==
  ui.busy # "new" /\ Clicks([ui EXCEPT !.busy = "new"], {Act("create", None)})

\* What is gone at once: the selection goes to what remains.
Dismissed(u, ids) ==
  LET rest == Without(u.list, ids)
  IN  {[u EXCEPT !.list = rest, !.selected = s] :
         s \in IF u.selected \notin ids THEN {u.selected}
               ELSE IF rest = {} THEN {None} ELSE Ids(rest)}

DeleteSelectedConversation == \E i \in Rows : \E u \in Dismissed(ui, {i.id}) :
  Clicks([u EXCEPT !.busy = "delete"], {Act("delete", i)})

RemoveSelectedProject ==
  /\ ProjectRows # {}
  /\ LET ids == Ids(ProjectRows)
     IN  \E u \in Dismissed(ui, ids) : Clicks([u EXCEPT !.busy = "remove"], {Act("remove", ids)})

RenameSelectedConversation == \E i \in Rows, n \in Name :
  Clicks([ui EXCEPT !.list = Named(@, i.id, n), !.busy = "rename"],
         {Act("rename", [id |-> i.id, name |-> n])})

-----------------------------------------------------------------------------
(* The rest of the handlers *)

Idle(u, yes) == IF yes THEN [u EXCEPT !.busy = None] ELSE u

\* What is selected stays while it is listed; else an online one is.
SelectedIn(list) ==
  IF ui.selected \in Ids(list) THEN {ui.selected}
  ELSE IF \E i \in list : i.online THEN Ids({i \in list : i.online}) ELSE {None}

SnapshotReturns(c) ==
  /\ c.op = "get_snapshot"
  /\ IF c.at = "served"
     THEN \E s \in SelectedIn(c.got) :
            Goes(c, Idle([ui EXCEPT !.list = c.got, !.selected = s, !.sure = TRUE], c.arg),
                 {}, {}, FALSE)
     ELSE Goes(c, Idle(ui, c.arg), {}, {}, FALSE)

ReloadReturns(c) ==
  /\ c.op = "reload"
  /\ Goes(c, IF c.at = "served" THEN [ui EXCEPT !.list = c.got, !.sure = FALSE] ELSE ui,
          {}, {}, FALSE)

\* The new conversation is selected and shown, and a refresh follows.
CreateReturns(c) ==
  /\ c.op = "create"
  /\ IF c.at = "served"
     THEN \E i \in c.got :
            Goes(c, [ui EXCEPT !.selected = i.id, !.list = Without(@, {i.id}) \union {i}, !.busy = None],
                 {Refresh(FALSE)}, {}, FALSE)
     ELSE Goes(c, Idle(ui, TRUE), {}, {}, FALSE)

\* perform: a refresh that it waits for, unless the call failed.  A failed
\* deletion puts back what it took; a removed project always counts as done.
PerformReturns(c) ==
  /\ c.op \in {"delete", "remove", "rename"}
  /\ IF c.at = "served" \/ c.op = "remove" THEN Goes(c, ui, {Refresh(TRUE)}, {}, FALSE)
     ELSE IF c.op = "delete"
     THEN Goes(c, Idle([ui EXCEPT !.list = Without(@, {c.arg.id}) \union {c.arg}], TRUE), {}, {}, FALSE)
     ELSE Goes(c, Idle(ui, TRUE), {}, {}, TRUE)

EventArrives(c) ==
  /\ c.op = "session_renamed"
  /\ Goes(c, [ui EXCEPT !.list = Named(@, c.arg.id, c.arg.name)], {}, {}, FALSE)

Returns == \E c \in calls :
  SnapshotReturns(c) \/ ReloadReturns(c) \/ CreateReturns(c) \/ PerformReturns(c) \/ EventArrives(c)

-----------------------------------------------------------------------------
Init ==
  /\ \E ids \in SUBSET Conversation :
       stored = [list |-> {[Created(id) EXCEPT !.online = FALSE] : id \in ids}]
  /\ \E kept \in SUBSET Conversation, s \in Conversation \union {None} :
       ui = [list |-> {Created(id) : id \in kept}, selected |-> s, sure |-> FALSE, busy |-> None]
  /\ calls = {Refresh(FALSE)} /\ clean = {} /\ clicks = 0

Next ==
  \/ \E id \in Conversation : SelectConversation(id) \/ ShellSelects(id)
  \/ \E id \in Conversation \union {None} : HandleModeChange(id)
  \/ OnReload \/ Interval \/ CreateConversation \/ DeleteSelectedConversation
  \/ RemoveSelectedProject \/ RenameSelectedConversation
  \/ DaemonServes \/ DaemonRestarts \/ DaemonNames \/ Returns
  \/ \E c \in calls : Fails(c)

-----------------------------------------------------------------------------
InStep(part) == ui.list = stored.list
BusyMeansCalling == calls = {} => ui.busy = None
DetailMatches == ui.sure => ui.selected \in Ids(ui.list) \union {None}
=============================================================================
