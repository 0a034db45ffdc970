----------------------------- MODULE GoalsSurface ------------------------------
(***************************************************************************)
(* The goals view (panels/goals-surface.tsx) with the daemon's goal        *)
(* operations (app_ops.rs, openpi-storage/src/lib.rs).                     *)
(*                                                                         *)
(* A goal is its id, its progress in steps of ten percent and its status;  *)
(* titles, criteria and priorities are left out.  Every handler loads with *)
(* the filter that was selected when it was clicked: what is shown may be  *)
(* of another filter (of), after an answer that came late.                 *)
(***************************************************************************)
EXTENDS Panel

CONSTANTS Goal,  \* ids
          Full   \* the steps to one hundred percent, one at least

Status == {"active", "completed", "blocked"}
Filter == {"all", "active", "completed", "blocked"}

-----------------------------------------------------------------------------
(* The daemon *)

Of(gs, id) == {g \in gs : g.id = id}
Listed(gs, f) == {g \in gs : f = "all" \/ g.status = f}

Upserted(gs, g) == (gs \ Of(gs, g.id)) \union {g}
Updated(gs, g) == IF Of(gs, g.id) = {} THEN gs ELSE Upserted(gs, g)

After(c) ==
  CASE c.op = "list"   -> stored
    [] c.op = "upsert" -> [stored EXCEPT !.goals = Upserted(@, c.arg.goal)]
    [] c.op = "update" -> [stored EXCEPT !.goals = Updated(@, c.arg.goal)]
    [] c.op = "delete" -> [stored EXCEPT !.goals = @ \ Of(@, c.arg.goal.id)]
DaemonServes == \E c \in calls :
  Serves(c, After(c), IF c.op = "list" THEN Listed(stored.goals, c.arg) ELSE {})

-----------------------------------------------------------------------------
(* The component *)

LoadGoals(f) == Load("list", f)
Handles(op, g) == Act(op, [goal |-> g, filter |-> ui.filter])

SelectFilter(f) ==
  /\ f # ui.filter
  /\ Clicks([ui EXCEPT !.filter = f, !.loading = TRUE], {LoadGoals(f)})

OnRefresh == ~ui.loading /\ Clicks([ui EXCEPT !.loading = TRUE], {LoadGoals(ui.filter)})

ToggleNewGoal == Shows([ui EXCEPT !.form = ~@])

\* The texts of the form outlast its closing; one without a title is not sent.
TypesTitle == ui.form /\ Shows([ui EXCEPT !.titled = ~@])
CanCreate == ui.form /\ ui.titled /\ ~ui.submitting

\* The id is the time: no goal has it.
HandleCreateGoal ==
  /\ CanCreate
  /\ \E i \in Goal :
       /\ Of(stored.goals \union ui.goals, i) = {}
       /\ \A c \in calls : c.kind = "act" => c.arg.goal.id # i
       /\ Clicks([ui EXCEPT !.submitting = TRUE],
                 {Handles("upsert", [id |-> i, progress |-> 0, status |-> "active"])})

Bounded(n) == IF n < 0 THEN 0 ELSE IF n > Full THEN Full ELSE n

\* The new progress is computed from the one that is shown.
Moved(g, delta) ==
  LET next == Bounded(g.progress + delta)
  IN  [g EXCEPT !.progress = next,
                !.status = IF next = Full THEN "completed"
                           ELSE IF @ = "completed" THEN "active" ELSE @]

HandleUpdateProgress(g, delta) ==
  Clicks([ui EXCEPT !.updating = g.id], {Handles("update", Moved(g, delta))})

HandleDeleteGoal(g) == Clicks(ui, {Handles("delete", g)})

\* A card, of what is shown; its buttons are never disabled.
OnCard(g) == HandleDeleteGoal(g) \/ \E d \in {-1, 1} : HandleUpdateProgress(g, d)

-----------------------------------------------------------------------------
(* The rest of the handlers *)

\* What was listed with another filter is shown all the same.
ListReturns(c) ==
  /\ c.op = "list"
  /\ LET u == [ui EXCEPT !.loading = FALSE]
     IN  Goes(c, IF c.at = "served"
                 THEN [u EXCEPT !.goals = c.got, !.of = c.arg, !.late = c.arg # ui.filter] ELSE u,
              {}, {}, FALSE)

\* Variant: nothing is loaded after a change.
HandlerForgets(c) ==
  /\ c.kind = "act"
  /\ Goes(c, [ui EXCEPT !.submitting = FALSE, !.updating = None], {}, {}, FALSE)

\* Variant: a failure leaves the indicators on.
HandlerGivesUp(c) ==
  /\ c.kind = "act"
  /\ IF c.at = "served"
     THEN Goes(c, [ui EXCEPT !.loading = TRUE, !.submitting = FALSE, !.updating = None],
               {LoadGoals(c.arg.filter)}, {}, FALSE)
     ELSE Goes(c, ui, {}, {}, FALSE)

HandlerReturns(c) ==
  LET u == CASE c.op = "upsert" /\ c.at = "served" ->
                  [ui EXCEPT !.submitting = FALSE, !.form = FALSE, !.titled = FALSE]
             [] c.op = "upsert" -> [ui EXCEPT !.submitting = FALSE]
             [] c.op = "update" -> [ui EXCEPT !.updating = None]
             [] OTHER -> ui
  IN  /\ c.kind = "act"
      /\ IF c.at = "served"
         THEN Goes(c, [u EXCEPT !.loading = TRUE], {LoadGoals(c.arg.filter)}, {}, FALSE)
         ELSE Goes(c, u, {}, {}, FALSE)

-----------------------------------------------------------------------------
Init ==
  /\ stored \in [goals : {{}} \union {{[id |-> i, progress |-> n, status |-> s]} :
                            i \in Goal, n \in {0, Full - 1}, s \in {"active", "blocked"}}]
  /\ ui = [goals |-> {}, of |-> "all", late |-> FALSE, filter |-> "all", form |-> FALSE, titled |-> FALSE,
           loading |-> TRUE, submitting |-> FALSE, updating |-> None]
  /\ calls = {LoadGoals("all")} /\ clean = {} /\ clicks = 0

Next ==
  \/ \E f \in Filter : SelectFilter(f)
  \/ OnRefresh \/ ToggleNewGoal \/ TypesTitle \/ HandleCreateGoal
  \/ \E g \in ui.goals : OnCard(g)
  \/ DaemonServes
  \/ \E c \in calls : ListReturns(c) \/ HandlerReturns(c) \/ Fails(c)

-----------------------------------------------------------------------------
\* The goals that are shown are all those of the filter they were asked for, which
\* is the selected one unless it was left before they came.
InStep(part) == /\ ui.goals = Listed(stored.goals, ui.of)
                /\ ui.of = ui.filter \/ ui.late
BusyMeansCalling == calls = {} => ~ui.loading /\ ~ui.submitting /\ ui.updating = None
=============================================================================
