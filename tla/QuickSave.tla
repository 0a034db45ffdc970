------------------------------- MODULE QuickSave -------------------------------
(***************************************************************************)
(* Keeping a message of the conversation in the memory                     *)
(* (dialogs/quick-save-memory-dialog.tsx, App.tsx's rememberFromChat,      *)
(* perform and refreshMemory, the daemon's write_memory).                  *)
(*                                                                         *)
(* A message is named; the form proposes a key, its beginning, which two   *)
(* messages may have in common.  The summary, which must not be blank      *)
(* either, is left out.  Of the type only what it says about the scope     *)
(* matters; busy is the one marker of all the app's operations.            *)
(***************************************************************************)
EXTENDS Panel

CONSTANTS Workspace,
          Home,   \* where what belongs to no workspace is kept
          Text, Key, KeyOf

Scope == {"project", "global"}
Types == {"user", "project"}

-----------------------------------------------------------------------------
(* The daemon: one entry for a workspace, a scope, a type and a key *)

Place(e) == <<e.ws, e.scope, e.type, e.key>>
Upserted(es, e) == {o \in es : Place(o) # Place(e)} \union {e}
Index(es, w) == {e \in es : e.ws = w /\ e.scope = "project"}

DaemonServes == \E c \in calls :
  \/ c.op \in {"index", "refresh"} /\ Serves(c, stored, Index(stored, c.arg.ws))
  \/ c.op = "write" /\ Serves(c, Upserted(stored, c.arg.e), None)
  \/ c.op \in {"default", "other"} /\ Serves(c, stored, None)

-----------------------------------------------------------------------------
(* The dialog *)

Initial(t) == [type |-> "project", scope |-> "project", key |-> KeyOf[t]]
Saving == ui.busy = "write-memory"
Fills(f) == ui.text # None /\ ~Saving /\ Shows([ui EXCEPT !.form = f])

\* A second text finds the dialog open, and its form as it is.
RememberFromChat(t) ==
  Shows([ui EXCEPT !.text = t, !.form = IF ui.text = None THEN Initial(t) ELSE @,
                   !.body = IF ui.text = None THEN t ELSE @])

HandleTypeChange(t) ==
  Fills([ui.form EXCEPT !.type = t,
           !.scope = IF t = "user" \/ ui.ws = None THEN "global" ELSE "project"])
SetScope(s) == (s = "project" => ui.ws # None) /\ Fills([ui.form EXCEPT !.scope = s])
SetKey(k)   == Fills([ui.form EXCEPT !.key = k])

Closed(u) == [u EXCEPT !.text = None, !.form = None, !.body = None]
OnClose == ui.text # None /\ ~Saving /\ Shows(Closed(ui))

EntryAt(w) == [ws |-> w, scope |-> ui.form.scope, type |-> ui.form.type,
               key |-> ui.form.key, text |-> ui.body]
WriteMemoryEntry(e, w) == ActOn({"entries"}, "write", [e |-> e, ws |-> w])
RefreshMemory(w) == LoadOf({"entries"}, "refresh", [ws |-> w])

\* Saved where the project's workspace is selected now; without one, and for the
\* global scope, the default is asked for first, while nothing shows it.
HandleSubmit ==
  /\ ui.text # None /\ ~Saving /\ ui.form.key # None
  /\ IF ui.form.scope = "project" /\ ui.ws # None
     THEN Clicks([ui EXCEPT !.busy = "write-memory"], {WriteMemoryEntry(EntryAt(ui.ws), ui.ws)})
     ELSE Clicks(ui, {Detail("default", [e |-> EntryAt(None), ws |-> ui.ws])})

DefaultReturns(c) ==
  /\ c.op = "default"
  /\ LET e == [c.arg.e EXCEPT !.ws = IF c.at = "served" THEN Home ELSE None]
     IN  Goes(c, [ui EXCEPT !.busy = "write-memory"], {WriteMemoryEntry(e, c.arg.ws)}, {}, FALSE)

Indexed(u, c) == [u EXCEPT !.entries = c.got, !.of = c.arg.ws, !.late = c.arg.ws # ui.ws]

\* perform tells a failure by its answer, which the dialog does not see: it is
\* closed, whatever it holds by now.  refreshed says whether perform's own refresh
\* succeeded; the entries are asked for only if a workspace was selected.
WriteReturns(c) ==
  /\ c.op = "write"
  /\ \E refreshed \in BOOLEAN :
       IF c.at = "served" /\ refreshed /\ c.arg.ws # None
       THEN Goes(c, [ui EXCEPT !.busy = "memory-refresh"], {RefreshMemory(c.arg.ws)}, {}, FALSE)
       ELSE Goes(c, Closed([ui EXCEPT !.busy = None]), {}, {}, c.at = "served")

\* Not checked that the workspace is still the one that was asked for (of).
RefreshReturns(c) ==
  /\ c.op = "refresh"
  /\ LET u == Closed([ui EXCEPT !.busy = None])
     IN  Goes(c, IF c.at = "served" THEN Indexed(u, c) ELSE u, {}, {}, FALSE)

-----------------------------------------------------------------------------
(* Around the dialog: the selection, and any other operation of the app *)

SelectWorkspace(w) ==
  /\ w # ui.ws
  /\ LET old == {c \in calls : c.op = "index"}
     IN  IF w = None THEN Turns([ui EXCEPT !.ws = w, !.entries = {}, !.of = w, !.late = FALSE], {}, old)
                     ELSE Turns([ui EXCEPT !.ws = w], {LoadOf({"entries"}, "index", [ws |-> w])}, old)
IndexReturns(c) ==
  c.op = "index" /\ Goes(c, IF c.at = "served" THEN Indexed(ui, c) ELSE ui, {}, {}, FALSE)

OtherOperation == Clicks([ui EXCEPT !.busy = "other"], {Detail("other", None)})
OtherReturns(c) == c.op = "other" /\ Goes(c, [ui EXCEPT !.busy = None], {}, {}, FALSE)

-----------------------------------------------------------------------------
Init ==
  /\ stored = {}
  /\ \E w \in Workspace \union {None} :
       ui = [ws |-> w, of |-> w, late |-> FALSE, entries |-> {}, text |-> None, form |-> None, body |-> None, busy |-> None]
  /\ calls = {} /\ clean = {"entries"} /\ clicks = 0

Next ==
  \/ \E t \in Text : RememberFromChat(t)
  \/ \E t \in Types : HandleTypeChange(t)
  \/ \E s \in Scope : SetScope(s)
  \/ \E k \in Key \union {None} : SetKey(k)
  \/ OnClose \/ HandleSubmit \/ OtherOperation
  \/ \E w \in Workspace \union {None} : SelectWorkspace(w)
  \/ DaemonServes
  \/ \E c \in calls : \/ Fails(c) \/ DefaultReturns(c) \/ WriteReturns(c)
                      \/ RefreshReturns(c) \/ IndexReturns(c) \/ OtherReturns(c)

-----------------------------------------------------------------------------
InStep(part) == /\ ui.entries = IF ui.of = None THEN {} ELSE Index(stored, ui.of)
                /\ ui.of = ui.ws \/ ui.late
BusyMeansCalling == calls = {} => ui.busy = None
=============================================================================
