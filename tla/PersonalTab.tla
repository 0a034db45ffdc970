------------------------------ MODULE PersonalTab ------------------------------
(***************************************************************************)
(* The personal memories of the memory view (memory/personal-tab.tsx, with *)
(* loadPersonalAgentData and the domains of panels/memory-surface.tsx, and *)
(* openpi-storage's personal memories).                                    *)
(*                                                                         *)
(* A record is its id and its category.  The view keeps the records, the   *)
(* tab its form and its filter, which are lost when another domain is      *)
(* shown; a call of an earlier tab goes on.  The list is cut to its most   *)
(* important records: which those are is left open.                        *)
(***************************************************************************)
EXTENDS Panel

CONSTANTS Id, Category,
          Limit  \* records of an answer: 50 in the source

Record == [id : Id, category : Category]

-----------------------------------------------------------------------------
(* The daemon *)

Most(n) == IF n > Limit THEN Limit ELSE n
Listed(rs) == {part \in SUBSET rs : Cardinality(part) = Most(Cardinality(rs))}
Without(rs, id) == {r \in rs : r.id # id}

DaemonServes == \E c \in calls :
  \/ c.op = "list" /\ \E part \in Listed(stored) : Serves(c, stored, part)
  \/ c.op = "upsert" /\ Serves(c, Without(stored, c.arg.r.id) \union {c.arg.r}, None)
  \/ c.op = "delete" /\ Serves(c, Without(stored, c.arg.id), None)

\* The agent distils memories of its own.
DistilledElsewhere == \E r \in Record :
  /\ \A o \in stored : o.id # r.id
  /\ ChangedElsewhere({"all"}, stored \union {r})

-----------------------------------------------------------------------------
(* The view and its tab *)

\* mount counts the tabs that were shown.
Tab(n) == [mount |-> n, filter |-> "all", form |-> FALSE, typed |-> FALSE,
           category |-> CHOOSE c \in Category : TRUE, submitting |-> FALSE]
OnTab == ui.tab # None
Mine(c) == OnTab /\ ui.tab.mount = c.arg.mount

LoadPersonalAgentData == Load("list", None)

\* The effect of the workspace, though these memories belong to none.
WorkspaceChanges == Clicks([ui EXCEPT !.loading = TRUE], {LoadPersonalAgentData})
OnRefresh == OnTab /\ ~ui.loading /\ Clicks([ui EXCEPT !.loading = TRUE], {LoadPersonalAgentData})

SelectDomain ==
  Clicks(IF OnTab THEN [ui EXCEPT !.tab = None]
                  ELSE [ui EXCEPT !.tab = Tab(ui.mounts + 1), !.mounts = @ + 1], {})

SelectCategory(f) == OnTab /\ Shows([ui EXCEPT !.tab.filter = f])
ToggleNewMemory == OnTab /\ Shows([ui EXCEPT !.tab.form = ~@])

\* What is typed outlasts the form, not the tab.
TypesMemory(typed, c) ==
  /\ OnTab /\ ui.tab.form
  /\ Shows([ui EXCEPT !.tab.typed = typed, !.tab.category = c])

FilteredMemories == {r \in ui.memories : ui.tab.filter \in {"all", r.category}}

\* The id is the time: no record has it.
HandleCreateMemory ==
  /\ OnTab /\ ui.tab.form /\ ui.tab.typed /\ ~ui.tab.submitting
  /\ \E i \in Id :
       /\ \A r \in stored \union ui.memories : r.id # i
       /\ \A c \in calls : c.op = "upsert" => c.arg.r.id # i
       /\ Clicks([ui EXCEPT !.tab.submitting = TRUE],
                 {Act("upsert", [mount |-> ui.tab.mount,
                                 r |-> [id |-> i, category |-> ui.tab.category]])})

HandleDeleteMemory ==
  /\ OnTab
  /\ \E r \in FilteredMemories : Clicks(ui, {Act("delete", [mount |-> ui.tab.mount, id |-> r.id])})

\* A failed load empties the list.
ListReturns(c) ==
  /\ c.op = "list"
  /\ Goes(c, [ui EXCEPT !.memories = IF c.at = "served" THEN c.got ELSE {}, !.loading = FALSE],
          {}, {}, FALSE)

\* The form is cleared and closed, whatever was typed since.
Answered(c) ==
  IF c.op = "delete" \/ ~Mine(c) THEN ui
  ELSE IF c.at = "served"
       THEN [ui EXCEPT !.tab.typed = FALSE, !.tab.form = FALSE, !.tab.submitting = FALSE]
       ELSE [ui EXCEPT !.tab.submitting = FALSE]

\* The view loads again, even when the tab is gone: a load under way is joined
\* by another.
HandlerReturns(c) ==
  /\ c.op \in {"upsert", "delete"}
  /\ IF c.at = "served"
     THEN Goes(c, [Answered(c) EXCEPT !.loading = TRUE], {LoadPersonalAgentData}, {}, FALSE)
     ELSE Goes(c, Answered(c), {}, {}, FALSE)

-----------------------------------------------------------------------------
Init ==
  /\ \E n \in 0..1 : \E rs \in SUBSET Record : Cardinality(rs) = n /\ stored = rs
  /\ ui = [memories |-> {}, loading |-> TRUE, mounts |-> 1, tab |-> Tab(1)]
  /\ calls = {LoadPersonalAgentData} /\ clean = {} /\ clicks = 0

Next ==
  \/ WorkspaceChanges \/ OnRefresh \/ SelectDomain \/ ToggleNewMemory
  \/ \E f \in {"all"} \union Category : SelectCategory(f)
  \/ \E typed \in BOOLEAN, c \in Category : TypesMemory(typed, c)
  \/ HandleCreateMemory \/ HandleDeleteMemory \/ DistilledElsewhere
  \/ DaemonServes \/ \E c \in calls : Fails(c) \/ ListReturns(c) \/ HandlerReturns(c)

-----------------------------------------------------------------------------
InStep(part) == ui.memories \in Listed(stored)
BusyMeansCalling == calls = {} => ~ui.loading /\ (OnTab => ~ui.tab.submitting)
=============================================================================
