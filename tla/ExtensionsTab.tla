----------------------------- MODULE ExtensionsTab -----------------------------
(***************************************************************************)
(* The extensions tab of the settings (settings/tabs/extensions-tab.tsx):  *)
(* the skills and packages of the agent, and what the market offers, with  *)
(* App.tsx's loadCapabilities and mutateCapabilities and the shell's       *)
(* handlers.                                                               *)
(*                                                                         *)
(* The shell answers the same for every conversation, and never lists an   *)
(* MCP source nor denies the adapter, so the buttons that need one do not  *)
(* show.  What the filters of the market hide is in ExtensionsMarket.       *)
(***************************************************************************)
EXTENDS Panel

CONSTANTS Conversation,
          Skill,     \* packages of the market that are skills
          Package,   \* the other packages of the market
          Mentions   \* a set of pairs <<p, q>> of packages: the source of p contains the name of q

Has(s) == [skills |-> s.skills, packages |-> s.packages]

-----------------------------------------------------------------------------
(* The shell and the daemon: every answer lists everything. *)

Installed(s, p) == IF p \in Skill THEN [s EXCEPT !.skills = @ \union {p}]
                                  ELSE [s EXCEPT !.packages = @ \union {p}]
Removed(s, p) == IF p \in Skill THEN [s EXCEPT !.skills = @ \ {p}]
                                ELSE [s EXCEPT !.packages = @ \ {p}]

After(c) == CASE c.op = "capabilities" -> stored
              [] c.op = "install" -> Installed(stored, c.arg)
              [] c.op = "remove" -> Removed(stored, c.arg)
ShellServes == \E c \in calls : Serves(c, After(c), Has(After(c)))

-----------------------------------------------------------------------------
(* The component *)

IsInstalled(p) == /\ ui.caps # None
                  /\ \/ p \in ui.caps.skills \union ui.caps.packages
                     \/ \E q \in ui.caps.packages : <<q, p>> \in Mentions

\* A conversation whose agent streams is as good as none here.
MutationDisabled == ui.busy # None \/ ui.selected = None

\* mutateCapabilities shows one operation as busy, whichever else is under way.
Mutates(u, op, p) == Clicks([u EXCEPT !.busy = p], {Act(op, p)})
OnInstallPackage(u, p) == ~MutationDisabled /\ Mutates(u, "install", p)

Show(p) == Shows([ui EXCEPT !.preview = p])

SkillsTab ==
  \/ \E p \in IF ui.caps = None THEN {} ELSE ui.caps.skills :
       \/ Show(p)
       \/ ~MutationDisabled /\ Mutates(ui, "remove", p)
  \/ \E p \in Skill : ~IsInstalled(p) /\ OnInstallPackage(ui, p)
MarketTab ==
  \E p \in Skill \union Package :
    \/ ~IsInstalled(p) /\ OnInstallPackage(ui, p)
    \/ IsInstalled(p) /\ ~MutationDisabled /\ Mutates(ui, "remove", p)
    \/ p \in Skill /\ Show(p)
\* The preview of a skill offers to remove it whatever else is under way.
PreviewFooter ==
  LET p == ui.preview
      u == [ui EXCEPT !.preview = None]
  IN  \/ ~IsInstalled(p) /\ OnInstallPackage(u, p)
      \/ IsInstalled(p) /\ Mutates(u, "remove", p)
Preview == ui.preview # None /\ (Show(None) \/ PreviewFooter)

LoadCapabilities(id) == Load("capabilities", id)

\* Another conversation is selected: what was there is forgotten, and fetched
\* again if there is one.
Goto(u) ==
  Clicks([u EXCEPT !.caps = None, !.loading = u.selected # None],
         IF u.selected = None THEN {} ELSE {LoadCapabilities(u.selected)})

\* The user selects it, and the ref follows.
Select(id) ==
  IF id = ui.selected THEN Shows([ui EXCEPT !.ref = id])
  ELSE Goto([ui EXCEPT !.selected = id, !.ref = id, !.lagged = FALSE])

\* A refresh or a deletion moves the selection, not selectedInstanceIdRef.
ListMovesSelection(id) ==
  id # ui.selected /\ Goto([ui EXCEPT !.selected = id, !.lagged = id # ui.ref])

OnReload ==
  /\ ui.selected # None
  /\ Clicks([ui EXCEPT !.loading = TRUE], {LoadCapabilities(ui.selected)})

-----------------------------------------------------------------------------
(* The rest of the handlers *)

\* It is the ref that the conversation of an answer is compared with.
CapabilitiesReturn(c) ==
  /\ c.op = "capabilities"
  /\ Goes(c, IF c.arg # ui.ref THEN ui
             ELSE [ui EXCEPT !.caps = IF c.at = "served" THEN c.got ELSE @, !.loading = FALSE],
          {}, {}, FALSE)
\* The answer of a mutation is taken whatever is selected by then.
MutationReturns(c) ==
  /\ c.kind = "act"
  /\ Goes(c, [ui EXCEPT !.caps = IF c.at = "served" THEN c.got ELSE @, !.busy = None],
          {}, {}, FALSE)
Returns == \E c \in calls : CapabilitiesReturn(c) \/ MutationReturns(c)

-----------------------------------------------------------------------------
Init ==
  /\ stored \in [skills : SUBSET Skill, packages : SUBSET Package]
  /\ ui = [selected |-> None, ref |-> None, lagged |-> FALSE, caps |-> None,
           loading |-> FALSE, busy |-> None, preview |-> None]
  /\ calls = {} /\ clean = {} /\ clicks = 0

Next == \/ SkillsTab \/ MarketTab \/ Preview
        \/ \E id \in Conversation \union {None} : Select(id) \/ ListMovesSelection(id)
        \/ OnReload \/ ShellServes \/ Returns \/ \E c \in calls : Fails(c)

-----------------------------------------------------------------------------
InStep(part) == ui.caps # None => ui.caps = Has(stored)
\* After the list moved the selection away from the ref (lagged), the answer for
\* what is selected does not take the mark away.
BusyMeansCalling == calls = {} => ui.busy = None /\ (ui.loading => ui.lagged)
=============================================================================
