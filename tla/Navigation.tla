------------------------------ MODULE Navigation ------------------------------
(***************************************************************************)
(* What the window shows: the view, the mode, the selected conversation,   *)
(* the browser's history of views and the local storage that brings them   *)
(* back (App.tsx, lib/view-route.ts).                                      *)
(*                                                                         *)
(* The effects that store a change run some time after it was rendered,    *)
(* and at the latest before the next one is; ui.due names the states whose *)
(* effects have not run.  stored is the browser: its storage, its history  *)
(* and the place in it.  Going back moves that place at once, whether or   *)
(* not effects are due; the two events that tell of it, popstate and       *)
(* hashchange, have one handler.  Directories of projects, dialogs and the *)
(* refresh of the list (ConversationList) are left out.                    *)
(***************************************************************************)
EXTENDS Panel, Sequences

CONSTANTS View,          \* with "chat", "today", "git" and "capabilities" among them
          Conversation,
          ModeOf         \* the mode of each: "work", "code" or "personal"

Persisted == {"view", "app", "agent", "selected"}
NoHash == ""

-----------------------------------------------------------------------------
(* lib/view-route.ts *)

ViewFromHash(hash) == IF hash \in View THEN hash ELSE "chat"

\* A start never lands in a conversation.
InitialView(hash, persisted) ==
  LET v == IF hash # NoHash THEN hash ELSE persisted
  IN  IF v \in View \ {"chat"} THEN v ELSE "today"

AgentMode(app) == IF app = "chat" THEN "work" ELSE app

-----------------------------------------------------------------------------
(* Effects *)

Hash(s) == s.history[s.at]

\* The first view of a page replaces the entry of the history, the others push.
Routed(s, view, first) ==
  IF Hash(s) = view THEN s
  ELSE IF first THEN [s EXCEPT !.history[s.at] = view]
  ELSE [s EXCEPT !.history = Append(SubSeq(@, 1, s.at), view), !.at = @ + 1]

\* The effect of the app's mode sets the agent's, which is stored after it.
AgentAfter(u) == IF "app" \in u.due THEN AgentMode(u.app) ELSE u.agent
PersistedBy(u, s) ==
  LET kept == [f \in DOMAIN s |-> IF f \in u.due THEN u[f] ELSE s[f]]
      agent == [kept EXCEPT !.agent = AgentAfter(u)]
  IN  IF "view" \in u.due THEN Routed(agent, u.view, u.first) ELSE agent
AfterEffects(u) == [u EXCEPT !.agent = AgentAfter(u), !.due = {}, !.first = FALSE]

EffectsRun ==
  /\ ui.due # {}
  /\ stored' = PersistedBy(ui, stored) /\ ui' = AfterEffects(ui)
  /\ UNCHANGED <<calls, clean, clicks>>

\* new replaces these states; the effects that are due run before it is rendered,
\* on the browser as it is by then.
Renders(new, s) ==
  LET u == AfterEffects(ui)
      v == [f \in DOMAIN u |-> IF f \in DOMAIN new THEN new[f] ELSE u[f]]
  IN  /\ stored' = PersistedBy(ui, s)
      /\ ui' = [v EXCEPT !.due = {f \in Persisted : v[f] # u[f]}]

\* A click, or a message from the shell, that starts these calls.
Does(new, sent) ==
  /\ clicks < MaxClicks /\ clicks' = clicks + 1
  /\ Cardinality(calls \union sent) <= MaxCalls
  /\ calls' = calls \union sent
  /\ Renders(new, stored)
  /\ clean' = IF {"app", "agent"} \subseteq DOMAIN new THEN clean \union {"mode"} ELSE clean

-----------------------------------------------------------------------------
(* Handlers *)

Modes(app) == [view |-> "chat", app |-> app, agent |-> AgentMode(app)]
Selecting(app, id) ==
  [view |-> "chat", app |-> app, agent |-> AgentMode(app), selected |-> id]
Creation(mode) == Detail("create", mode)

SetView(v) == Does([view |-> v], {})
\* The sidebar and the panels name the view to go to.
Navigates == \E v \in View : SetView(v)
OnToggleGit == Does([view |-> IF ui.view = "git" THEN "chat" ELSE "git"], {})

\* The newest of the mode is selected, unless one of the mode is.
HandleModeChange(app) ==
  LET of == {i \in ui.list : ModeOf[i] = AgentMode(app)}
  IN  IF ui.selected \in of THEN Does(Modes(app), {})
      ELSE \E i \in IF of = {} THEN {None} ELSE of : Does(Selecting(app, i), {})

\* A conversation of the sidebar, one of a project, and one that the shell names.
OnSelectConversation == \E i \in ui.list : Does(Selecting("chat", i), {})
OnOpenProject == \E i \in ui.list : Does(Selecting("code", i), {})
SelectedByShell == \E i \in ui.list : Does([view |-> "chat", selected |-> i], {})

OnNewConversation == Does(Modes("chat"), {Creation("work")})
OnNewProjectSession == Does(Modes("code"), {Creation("code")})
\* The keys leave the view for the creation to change.
HandleNewConversation ==
  LET app == IF ui.app = "code" THEN "code" ELSE "chat"
  IN  \/ Does([app |-> app, agent |-> AgentMode(app)], {Creation(AgentMode(app))})
      \/ Does(Modes(app), {Creation(AgentMode(app))})

\* A creation that ends takes the user to what it made, wherever the user went in
\* the meantime; the agent's mode follows it and the app's does not.
CreateReturns(c) ==
  /\ c.op = "create" /\ calls' = calls \ {c}
  /\ UNCHANGED clicks
  /\ \/ /\ \E i \in Conversation \ ui.list :
             /\ ModeOf[i] = c.arg
             /\ Renders([view |-> "chat", agent |-> c.arg, selected |-> i,
                         list |-> ui.list \union {i}], stored)
        /\ clean' = IF c.arg = AgentMode(ui.app) THEN clean ELSE clean \ {"mode"}
     \/ UNCHANGED <<ui, stored, clean>>

-----------------------------------------------------------------------------
(* The browser *)

\* The entry of a view that does not exist is replaced as well.
SyncViewFromRoute(s) ==
  LET v == ViewFromHash(Hash(s)) IN Renders([view |-> v], [s EXCEPT !.history[s.at] = v])

\* Back and forward: popstate is handled at once, hashchange somewhat later.
Traverse(at) ==
  /\ at \in DOMAIN stored.history /\ at \in {stored.at - 1, stored.at + 1}
  /\ clicks < MaxClicks /\ clicks' = clicks + 1
  /\ SyncViewFromRoute([stored EXCEPT !.at = at])
  /\ calls' = calls \union {Detail("hashchange", None)}
  /\ UNCHANGED clean
HashChanges(c) ==
  /\ c.op = "hashchange" /\ calls' = calls \ {c}
  /\ SyncViewFromRoute(stored)
  /\ UNCHANGED <<clean, clicks>>

\* The page starts: with its history, or in a new window.  Effects that had not
\* run are lost.
Starts(s) ==
  /\ clicks < MaxClicks /\ clicks' = clicks + 1
  /\ stored' = s /\ calls' = {} /\ clean' = {"view", "mode", "selected"}
  /\ ui' = [ui EXCEPT !.view = InitialView(Hash(s), s.view), !.app = s.app,
                      !.agent = s.agent, !.selected = s.selected,
                      !.due = Persisted, !.first = TRUE]
Reload == Starts(stored)
Restart == Starts([stored EXCEPT !.history = <<NoHash>>, !.at = 1])

-----------------------------------------------------------------------------
Init ==
  /\ \E list \in SUBSET Conversation, chosen \in Conversation \union {None} :
       /\ chosen \in list \union {None}
       /\ stored = [view |-> None, app |-> "chat", agent |-> "work", selected |-> chosen,
                    history |-> <<NoHash>>, at |-> 1]
       /\ ui = [view |-> "today", app |-> "chat", agent |-> "work", selected |-> chosen,
                list |-> list, due |-> Persisted, first |-> TRUE]
  /\ calls = {} /\ clean = {"view", "mode", "selected"} /\ clicks = 0

Next ==
  \/ EffectsRun
  \/ Navigates
  \/ \E app \in {"chat", "code", "personal"} : HandleModeChange(app)
  \/ OnToggleGit \/ OnSelectConversation \/ OnOpenProject \/ SelectedByShell
  \/ OnNewConversation \/ OnNewProjectSession \/ HandleNewConversation
  \/ \E at \in DOMAIN stored.history : Traverse(at)
  \/ \E c \in calls : CreateReturns(c) \/ HashChanges(c)
  \/ Reload \/ Restart

-----------------------------------------------------------------------------
\* Once no effect is due, what the browser keeps is what is shown.
InStep(part) == ui.due = {} =>
  CASE part = "view"     -> Hash(stored) = ui.view /\ stored.view = ui.view
    [] part = "mode"     -> /\ stored.app = ui.app /\ stored.agent = ui.agent
                            /\ ui.agent = AgentMode(ui.app)
    [] part = "selected" -> stored.selected = ui.selected
=============================================================================
