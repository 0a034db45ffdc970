------------------------------- MODULE ModelsTab -------------------------------
(***************************************************************************)
(* The models tab of the settings (settings/tabs/models-tab.tsx) with      *)
(* models.json and the settings as the shell keeps them                    *)
(* (src-tauri/src/ipc_handlers.rs).                                        *)
(*                                                                         *)
(* A provider is the set of its models; a model is its id and how its      *)
(* parameters came about.  Keys, addresses and names are left out, but for *)
(* the name of a new provider, from which the id is made: see Slug.        *)
(***************************************************************************)
EXTENDS Panel

CONSTANTS Provider,  \* ids, the names that may be given to a new one among them
          Slug,      \* the id that saving makes of a name, a function from and to Provider
          ModelId

Model == [id : ModelId, spec : {"listed", "given", "probed"}]

\* A provider is absent, {}, or has the models ms, {ms}.
Nobody == [p \in Provider |-> {}]
Present(ps) == {p \in Provider : ps[p] # {}}
Models(ps, p) == UNION ps[p]
WithModels(s, p, ms) == [s EXCEPT !.providers[p] = {ms}]
Without(s, p) == [s EXCEPT !.providers[p] = {}]

-----------------------------------------------------------------------------
(* The shell *)

\* fetch_provider_remote_models: the list becomes the remote one, and models
\* that were known keep their parameters.
Fetched(old, ids) == {m \in old : m.id \in ids}
                     \union {[id |-> i, spec |-> "listed"] : i \in ids \ {m.id : m \in old}}
Probed(ms, ids) == {IF m.id \in ids THEN [m EXCEPT !.spec = "probed"] ELSE m : m \in ms}

Outcomes(c) ==
  CASE c.op = "load"     -> {<<stored, stored>>}
    [] c.op = "settings" -> {<<[stored EXCEPT ![c.arg.field] = c.arg.value], TRUE>>}
    [] c.op = "vision"   ->
         {<<[stored EXCEPT !.vision = c.arg], c.arg>>}
    [] c.op = "fetch"    ->
         {LET new == Fetched(Models(stored.providers, c.arg.p), ids)
          IN  <<WithModels(stored, c.arg.p, new), new>> : ids \in SUBSET ModelId}
         \union {<<stored, {}>>}
    [] c.op \in {"probe", "formProbe", "batchProbe"} ->
         {<<IF c.arg.p \in Present(stored.providers)
            THEN WithModels(stored, c.arg.p, Probed(Models(stored.providers, c.arg.p), c.arg.ids))
            ELSE stored, TRUE>>}
    [] c.op = "save"     -> {<<WithModels(stored, c.arg.p, c.arg.models), TRUE>>}
    [] c.op = "delete"   -> {<<Without(stored, c.arg), TRUE>>}
    [] c.op = "ping"     -> {<<stored, TRUE>>}

ShellServes == \E c \in calls : \E o \in Outcomes(c) : Serves(c, o[1], o[2])

-----------------------------------------------------------------------------
(* The component *)

\* loadData; after says whose indicator the handler that waits for it clears.
LoadData(after) == Load("load", after)

NoBusy == [loading |-> FALSE, ping |-> None, sync |-> None, form |-> FALSE,
           batch |-> None, probe |-> None, vision |-> FALSE]

\* The card of a provider offers to sync, ping, probe, edit and delete it, and
\* the same of its models; the rest is offered by the forms and the head.
Cards == Present(ui.providers)
Idle(field, p) == ui.busy[field] # p

SelectDefaultModel == \E p \in Cards :
  \E m \in Models(ui.providers, p) :
    /\ ui.default # <<p, m.id>>
    /\ Clicks(ui, {Act("settings", [field |-> "default", value |-> <<p, m.id>>])})
SelectThinkingLevel(l) == Clicks(ui, {Act("settings", [field |-> "thinking", value |-> l])})

\* The reviewer's settings are shown before they are saved.
UpdateReviewer(r) ==
  Clicks([ui EXCEPT !.reviewer = r], {Act("settings", [field |-> "reviewer", value |-> r])})

HandlePing(p) ==
  /\ p \in Cards /\ Idle("ping", p)
  /\ Clicks([ui EXCEPT !.busy.ping = p], {Detail("ping", p)})
HandleSyncModels(p) ==
  /\ p \in Cards /\ Idle("sync", p)
  /\ Clicks([ui EXCEPT !.busy.sync = p], {Act("fetch", [p |-> p, form |-> FALSE])})
HandleBatchProbe(p) ==
  /\ p \in Cards /\ Idle("batch", p)
  /\ Clicks([ui EXCEPT !.busy.batch = p], {Act("batchProbe", [p |-> p, ids |-> ModelId])})
HandleProbeSingleModel(p, m) ==
  /\ p \in Cards /\ m \in Models(ui.providers, p) /\ Idle("probe", m.id)
  /\ Clicks([ui EXCEPT !.busy.probe = m.id], {Act("probe", [p |-> p, ids |-> {m.id}])})
HandleBatchUpdate(p) ==
  /\ p \in Cards
  /\ Clicks(ui, {Act("save", [p |-> p, form |-> "none",
                              models |-> {[m EXCEPT !.spec = "given"] : m \in Models(ui.providers, p)}])})
HandleDeleteModel(p, m) ==
  /\ p \in Cards /\ m \in Models(ui.providers, p)
  /\ Clicks(ui, {Act("save", [p |-> p, form |-> "none",
                              models |-> {k \in Models(ui.providers, p) : k.id # m.id}])})
HandleDeleteProvider(p) == p \in Cards /\ Clicks(ui, {Act("delete", p)})

\* the form of a provider: a new one, known by its name, or one of the cards
OpenNewProvider ==
  \E p \in Provider : Shows([ui EXCEPT !.form = [p |-> p, new |-> TRUE, models |-> {}]])
OpenProvider(p) ==
  p \in Cards /\ Shows([ui EXCEPT !.form = [p |-> p, new |-> FALSE, models |-> Models(ui.providers, p)]])
CloseForms == Shows([ui EXCEPT !.form = None, !.model = None])

HandleSyncFormModels ==
  /\ ui.form # None /\ ~ui.busy.form
  /\ Clicks([ui EXCEPT !.busy.form = TRUE], {Act("fetch", [p |-> ui.form.p, form |-> TRUE])})
HandleSaveProvider ==
  /\ ui.form # None
  /\ LET id == IF ui.form.new THEN Slug[ui.form.p] ELSE ui.form.p
     IN  Clicks(ui, {Act("save", [p |-> id, form |-> "provider",
                       models |-> IF ui.form.models # {} THEN ui.form.models
                                  ELSE Models(ui.providers, id)])})

\* the form of a model: a new one, or one of a card
OpenNewModel(p, i) == p \in Cards /\ Shows([ui EXCEPT !.model = [p |-> p, id |-> i, edits |-> FALSE]])
OpenEditModel(p, m) ==
  /\ p \in Cards /\ m \in Models(ui.providers, p)
  /\ Shows([ui EXCEPT !.model = [p |-> p, id |-> m.id, edits |-> TRUE]])
HandleAddModel ==
  /\ ui.model # None /\ ui.model.p \in Cards
  /\ LET old == Models(ui.providers, ui.model.p)
         new == [id |-> ui.model.id, spec |-> "given"]
     IN  Clicks(ui, {Act("save", [p |-> ui.model.p, form |-> "model",
                       models |-> IF ui.model.edits
                                  THEN {IF m.id = new.id THEN new ELSE m : m \in old}
                                  ELSE old \union {new}])})
\* The probe of the form also stores what it found.
HandleFormProbe ==
  /\ ui.model # None /\ Idle("probe", ui.model.id)
  /\ Clicks([ui EXCEPT !.busy.probe = ui.model.id],
            {Act("formProbe", [p |-> ui.model.p, ids |-> {ui.model.id}])})

SaveVision(enabled) ==
  /\ ~ui.busy.vision
  /\ Clicks([ui EXCEPT !.busy.vision = TRUE], {Act("vision", enabled)})

-----------------------------------------------------------------------------
(* The rest of the handlers *)

Ok(c) == c.at = "served"

Cleared(u, after) ==
  CASE after \in {"ping", "sync", "batch", "probe"} -> [u EXCEPT !.busy[after] = None]
    [] after \in {"form", "vision"} -> [u EXCEPT !.busy[after] = FALSE]
    [] OTHER -> u

\* What cannot be read is empty or stays.  The pings that follow mark the cards
\* and nothing else.
LoadReturns(c) ==
  LET s == c.got
      u == IF Ok(c)
           THEN [ui EXCEPT !.providers = s.providers, !.vision = s.vision, !.reviewer = s.reviewer,
                           !.default = IF s.default # None THEN s.default ELSE @,
                           !.thinking = s.thinking]
           ELSE [ui EXCEPT !.providers = Nobody]
  IN  /\ c.op = "load"
      /\ Goes(c, Cleared([u EXCEPT !.busy.loading = FALSE], c.arg), {}, {}, FALSE)

SettingsReturn(c) ==
  /\ c.op = "settings"
  /\ Goes(c, IF Ok(c) THEN [ui EXCEPT ![c.arg.field] = c.arg.value] ELSE ui, {}, {},
          ~Ok(c) /\ c.arg.field = "reviewer")

PingReturns(c) ==
  /\ c.op = "ping"
  /\ Goes(c, Cleared(ui, "ping"), {}, {}, FALSE)

\* These load everything when they succeed, and clear their indicator after it.
Waits(c) == CASE c.op = "fetch" /\ ~c.arg.form -> "sync" [] c.op = "fetch" /\ c.arg.form -> "form"
              [] c.op = "batchProbe" -> "batch" [] c.op = "probe" -> "probe" [] OTHER -> None

Reloading(u) == [u EXCEPT !.busy.loading = TRUE]
OperationReturns(c) ==
  LET u == CASE c.op = "fetch" /\ c.arg.form /\ ui.form # None /\ Ok(c) /\ c.got # {} ->
                  [ui EXCEPT !.form.models = c.got]
             [] c.op = "save" /\ Ok(c) /\ c.arg.form = "provider" -> [ui EXCEPT !.form = None]
             [] c.op = "save" /\ Ok(c) /\ c.arg.form = "model" -> [ui EXCEPT !.model = None]
             [] OTHER -> ui
  IN  /\ c.op \in {"fetch", "batchProbe", "probe", "save", "delete"}
      /\ IF Ok(c) THEN Goes(c, Reloading(u), {LoadData(Waits(c))}, {}, FALSE)
                  ELSE Goes(c, Cleared(u, Waits(c)), {}, {}, FALSE)

\* The form's probe fills in the form that is open by then, and loads nothing:
\* what it stored of a known model is not shown.
FormProbeReturns(c) ==
  /\ c.op = "formProbe"
  /\ Goes(c, Cleared(ui, "probe"), {}, {}, Ok(c))

VisionReturns(c) ==
  /\ c.op = "vision"
  /\ Goes(c, Cleared(IF Ok(c) THEN [ui EXCEPT !.vision = c.got] ELSE ui, "vision"), {}, {}, FALSE)

TabReturns == \E c \in calls : \/ LoadReturns(c) \/ SettingsReturn(c) \/ PingReturns(c)
                               \/ OperationReturns(c) \/ FormProbeReturns(c) \/ VisionReturns(c)

-----------------------------------------------------------------------------
Init ==
  /\ \E p \in {Slug[q] : q \in Provider} :
       stored = [providers |-> [Nobody EXCEPT ![p] = {{[id |-> i, spec |-> "listed"] : i \in ModelId}}],
                 default |-> None, thinking |-> "high", reviewer |-> FALSE, vision |-> FALSE]
  /\ ui = [providers |-> Nobody, default |-> None, thinking |-> "high", reviewer |-> FALSE,
           vision |-> FALSE, form |-> None, model |-> None, busy |-> [NoBusy EXCEPT !.loading = TRUE]]
  /\ calls = {LoadData(None)} /\ clean = {} /\ clicks = 0

\* What the parts of the tab offer.
MainModel == SelectDefaultModel \/ SelectThinkingLevel("low")
Reviewer == UpdateReviewer(~ui.reviewer)
Vision == SaveVision(~ui.vision)
CardHead(p) == \/ HandleSyncModels(p) \/ HandlePing(p) \/ OpenProvider(p)
               \/ HandleDeleteProvider(p) \/ \E i \in ModelId : OpenNewModel(p, i)
CardTools(p) == HandleBatchProbe(p)
BatchMenu(p) == HandleBatchUpdate(p)
CardModels(p) == \E m \in Models(ui.providers, p) :
                    HandleProbeSingleModel(p, m) \/ HandleDeleteModel(p, m) \/ OpenEditModel(p, m)
ProviderForm == CloseForms \/ HandleSyncFormModels \/ HandleSaveProvider
ModelForm == HandleAddModel \/ HandleFormProbe

\* An open form lies over everything else.
NoForm == ui.form = None /\ ui.model = None

Next == \/ NoForm /\ (MainModel \/ Reviewer \/ Vision \/ OpenNewProvider)
        \/ NoForm /\ \E p \in Provider : CardHead(p) \/ CardTools(p) \/ BatchMenu(p) \/ CardModels(p)
        \/ ProviderForm \/ ModelForm \/ ShellServes \/ TabReturns
        \/ \E c \in calls : Fails(c)

-----------------------------------------------------------------------------
InStep(part) ==
  /\ ui.providers = stored.providers
  /\ ui.reviewer = stored.reviewer /\ ui.vision = stored.vision
  /\ ui.thinking = stored.thinking /\ ui.default = stored.default
BusyMeansCalling == calls = {} => \A f \in DOMAIN NoBusy : ui.busy[f] = NoBusy[f]
=============================================================================
