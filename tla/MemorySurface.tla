----------------------------- MODULE MemorySurface -----------------------------
(***************************************************************************)
(* The memory view (panels/memory-surface.tsx, its first tab apart)        *)
(* with App.tsx's refreshMemory, deleteMemory and the effect that follows  *)
(* the selected workspace, and the daemon's memory operations (app_ops.rs, *)
(* the forwarding in ipc_handlers.rs).                                     *)
(*                                                                         *)
(* An entry is its type and its key; the handbook is one text for all      *)
(* workspaces.  Filters, tabs, counts and notices are left out, and so is  *)
(* the global scope, which nothing in the view selects.                    *)
(***************************************************************************)
EXTENDS Panel

CONSTANTS Workspace, Type, Key,
          Text  \* contents of the handbook

Entry == [type : Type, key : Key]

-----------------------------------------------------------------------------
(* The daemon *)

\* delete_memory archives the entry, restore_archived_memory writes it into the
\* workspace that asks and forgets every archived entry of the same key.
Deleted(s, w, e) ==
  [s EXCEPT !.entries[w] = @ \ {e},
            !.archive = IF e \in s.entries[w] THEN @ \union {e} ELSE @]
Restored(s, w, e) ==
  [s EXCEPT !.entries[w] = @ \union {e}, !.archive = {a \in @ : a.key # e.key}]

Outcomes(c) ==
  CASE c.op = "delete"      -> {<<Deleted(stored, c.arg.w, c.arg.e), None>>}
    [] c.op = "restore"     -> {<<Restored(stored, c.arg.w, c.arg.e), None>>}
    [] c.op = "handbook"    -> {<<[stored EXCEPT !.handbook = c.arg], None>>}
    [] c.op = "consolidate" -> {<<[stored EXCEPT !.handbook = t], None>> : t \in Text}
    [] c.op \in {"surface", "refresh"} -> {<<stored, stored.entries[c.arg]>>}
    [] c.op = "archive"     -> {<<stored, stored.archive>>}
    [] c.op = "hub"         -> {<<stored, {stored.handbook}>>}
    [] OTHER                -> {<<stored, None>>}

DaemonServes == \E c \in calls : \E o \in Outcomes(c) : Serves(c, o[1], o[2])

-----------------------------------------------------------------------------
(* The component *)

LoadHub(after) == LoadOf({"hub"}, "hub", after)
LoadArchive(after) ==
  LoadOf({"archive"} \union (IF after = "restore" THEN {"entries"} ELSE {}), "archive", after)
RefreshMemory(w) == LoadOf({"entries"}, "refresh", w)
SurfaceLoad(w) == LoadOf({"entries"}, "surface", w)

\* Indicators: busy is App's, which only the last to finish clears.
Busy(u, f) == [u EXCEPT !.flags = @ \union f]
Idle(u, f) == [u EXCEPT !.flags = @ \ f]
Refreshing(u, w) == [u EXCEPT !.busy = "memory-refresh"]

\* Another workspace: the effects of the app and of the view run.
SelectWorkspace(w) ==
  /\ w # ui.ws
  /\ Turns(Busy([ui EXCEPT !.ws = w], {"hub"}), {SurfaceLoad(w), LoadHub(None)},
           {c \in calls : c.op = "surface"})

OnRefresh ==
  /\ ui.busy # "memory-refresh" /\ "hub" \notin ui.flags
  /\ Clicks(Busy(Refreshing(ui, ui.ws), {"hub"}), {RefreshMemory(ui.ws), LoadHub(None)})

OnDelete == \E e \in ui.entries :
  Clicks([ui EXCEPT !.busy = "delete-memory"],
         {ActOn({"entries", "archive"}, "delete", [w |-> ui.ws, e |-> e])})

\* The button is in the header, on the index and with the skills.
Consolidates == "consolidating" \notin ui.flags
HandleConsolidateNow ==
  /\ Consolidates
  /\ Clicks(Busy(ui, {"consolidating"}), {ActOn({"hub"}, "consolidate", None)})

EditHandbook(draft) == Shows([ui EXCEPT !.editing = TRUE, !.draft = draft])
CancelHandbook == Shows([ui EXCEPT !.editing = FALSE,
                                   !.draft = IF ui.hub = {} THEN None ELSE CHOOSE t \in ui.hub : TRUE])
HandleSaveHandbook ==
  /\ ui.editing /\ "saving" \notin ui.flags /\ ui.draft # None
  /\ Clicks(Busy(ui, {"saving"}), {ActOn({"hub"}, "handbook", ui.draft)})

ShowArchive ==
  /\ ~ui.showArchive
  /\ Clicks(Busy([ui EXCEPT !.showArchive = TRUE], {"archive"}), {LoadArchive(None)})
HideArchive == ui.showArchive /\ Shows([ui EXCEPT !.showArchive = FALSE])
HandleRestore == \E e \in ui.archive :
  /\ ui.showArchive /\ "archive" \notin ui.flags /\ ui.restoring # e.key
  /\ Clicks([ui EXCEPT !.restoring = e.key],
            {ActOn({"entries", "archive"}, "restore", [w |-> ui.ws, e |-> e])})

-----------------------------------------------------------------------------
(* The rest of the handlers *)

Ok(c) == c.at = "served"

\* Nothing checks that the workspace is still the one that was asked for (of): a
\* delete that ends after a move shows the entries of the workspace left.  When the
\* daemon does not answer, the shell answers an empty list in its place.
EntriesReturn(c) ==
  \E got \in IF Ok(c) THEN {c.got} ELSE {{}, ui.entries} :
    /\ c.op \in {"surface", "refresh"}
    /\ Goes(c, [ui EXCEPT !.entries = got, !.busy = IF c.op = "refresh" THEN None ELSE @,
                          !.of = c.arg, !.late = c.arg # ui.ws],
            {}, {}, FALSE)

\* The draft is replaced as well, even while it is edited.
HubReturns(c) ==
  LET u == Idle(ui, IF c.arg = "saving" THEN {"hub", "saving"} ELSE {"hub"})
  IN  /\ c.op = "hub"
      /\ Goes(c, IF Ok(c) THEN [u EXCEPT !.hub = c.got, !.draft = CHOOSE t \in c.got : TRUE] ELSE u,
              {}, {}, FALSE)

\* A restore waits for the archive before it refreshes the entries.
ArchiveReturns(c) ==
  LET u == [Idle(ui, {"archive"}) EXCEPT !.archive = IF Ok(c) THEN c.got ELSE {}]
  IN  /\ c.op = "archive"
      /\ IF c.arg = "restore"
         THEN Goes(c, Refreshing([u EXCEPT !.restoring = None], ui.ws), {RefreshMemory(ui.ws)}, {}, FALSE)
         ELSE Goes(c, u, {}, {}, FALSE)

\* The archive that is open is not loaded again when an entry joins it.
DeleteReturns(c) ==
  /\ c.op = "delete"
  /\ IF Ok(c) THEN Goes(c, Refreshing(ui, c.arg.w), {RefreshMemory(c.arg.w)}, {}, TRUE)
              ELSE Goes(c, [ui EXCEPT !.busy = None], {}, {}, FALSE)

RestoreReturns(c) ==
  /\ c.op = "restore"
  /\ IF Ok(c) THEN Goes(c, Busy(ui, {"archive"}), {LoadArchive("restore")}, {}, FALSE)
              ELSE Goes(c, [ui EXCEPT !.restoring = None], {}, {}, FALSE)

HandbookReturns(c) ==
  /\ c.op = "handbook"
  /\ IF Ok(c) THEN Goes(c, Busy([ui EXCEPT !.editing = FALSE], {"hub"}), {LoadHub("saving")}, {}, FALSE)
              ELSE Goes(c, Idle(ui, {"saving"}), {}, {}, FALSE)

\* A timer reloads a while after the consolidation.
ConsolidateReturns(c) ==
  /\ c.op = "consolidate"
  /\ Goes(c, Idle(ui, {"consolidating"}),
          IF Ok(c) THEN {ActOn({"hub"}, "timer", ui.ws)} ELSE {}, {}, FALSE)
TimerFires(c) ==
  /\ c.op = "timer"
  /\ Goes(c, Busy(Refreshing(ui, c.arg), {"hub"}), {LoadHub(None), RefreshMemory(c.arg)}, {}, FALSE)

Returns == \E c \in calls :
  \/ EntriesReturn(c) \/ HubReturns(c) \/ ArchiveReturns(c)
  \/ DeleteReturns(c) \/ RestoreReturns(c) \/ HandbookReturns(c)
  \/ ConsolidateReturns(c) \/ TimerFires(c)

-----------------------------------------------------------------------------
Init ==
  /\ stored \in [entries : {[w \in Workspace |-> Entry]}, archive : {{}, Entry},
                 handbook : {CHOOSE t \in Text : TRUE}]
  /\ LET w == CHOOSE v \in Workspace : TRUE
     IN ui = [ws |-> w, of |-> w, late |-> FALSE, entries |-> stored.entries[w], hub |-> {stored.handbook},
             draft |-> stored.handbook, editing |-> FALSE, archive |-> {},
             showArchive |-> FALSE, restoring |-> None, busy |-> None, flags |-> {}]
  /\ calls = {} /\ clean = {"entries", "hub"} /\ clicks = 0

Next ==
  \/ \E w \in Workspace : SelectWorkspace(w)
  \/ OnRefresh \/ OnDelete \/ HandleConsolidateNow
  \/ \E t \in Text : EditHandbook(t)
  \/ CancelHandbook \/ HandleSaveHandbook \/ ShowArchive \/ HideArchive \/ HandleRestore
  \/ DaemonServes \/ Returns \/ \E c \in calls : Fails(c)

-----------------------------------------------------------------------------
InStep(part) ==
  CASE part = "entries"  -> /\ ui.entries = stored.entries[ui.of]
                            /\ ui.of = ui.ws \/ ui.late
    [] part = "hub"      -> ui.hub = {stored.handbook}
    [] part = "archive"  -> ui.archive = stored.archive
BusyMeansCalling == calls = {} => ui.flags = {} /\ ui.busy = None /\ ui.restoring = None
=============================================================================
