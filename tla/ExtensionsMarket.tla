----------------------------- MODULE ExtensionsMarket -----------------------------
(***************************************************************************)
(* What the extensions tab of the settings lists                           *)
(* (settings/tabs/extensions-tab.tsx): its four pages, the repositories    *)
(* that are known and those a user added, and the filters of the market.   *)
(* Installing and removing is in ExtensionsTab.                            *)
(*                                                                         *)
(* Everything happens in the component and in the browser's storage, so    *)
(* there are no calls.  A text that is searched for is one of Query, the   *)
(* registries of the market are filtered in the same way as the kinds and  *)
(* are left out, as are the pages that hold nothing to choose.             *)
(***************************************************************************)
EXTENDS Panel

CONSTANTS Package,  \* packages of the market
          KindOf,   \* the kind of a package: "skills", "mcp" or "plugins"
          Known,    \* repositories of the market
          Custom,   \* repositories that a user may add
          TypeOf,   \* the type of a repository: a kind, or "all"
          From,     \* pairs <<p, r>>: package p mentions the name of repository r
          Query,    \* what may be searched for
          Hits      \* pairs <<x, q>>: package or repository x contains the text q

Kind == {"skills", "mcp", "plugins"}
Found(x, q) == q = None \/ <<x, q>> \in Hits

AllRepositories == Known \union ui.custom
FilteredRepos ==
  {r \in AllRepositories : /\ ui.repoType \in {"all", TypeOf[r]} \/ TypeOf[r] = "all"
                           /\ Found(r, ui.repoQuery)}

Matching(r, kind, q) == {p \in Package : /\ r = None \/ <<p, r>> \in From
                                         /\ kind \in {"all", KindOf[p]}
                                         /\ Found(p, q)}
FilteredPackages == Matching(ui.repo, ui.kind, ui.query)

-----------------------------------------------------------------------------
(* What the user asked to see last: the packages of a repository, or those   *)
(* of a kind.  Part "asked" ends where the market shows something else.      *)

Sees(u, asked, lost) ==
  /\ clicks < MaxClicks /\ clicks' = clicks + 1
  /\ ui' = u /\ stored' = [stored EXCEPT !.asked = asked]
  /\ clean' = (clean \union {"asked"} \union (IF u.repo # ui.repo THEN {"repo"} ELSE {})) \ lost
  /\ UNCHANGED calls

\* A filter that is set by hand answers no earlier wish.
Filters(u) == u # ui /\ Sees(u, None, {})

SubTab == \E t \in {"repos", "market", "skills", "mcp"} : Filters([ui EXCEPT !.tab = t])

\* The filters that were set are reset, so that all of the repository shows.
HandleExploreRepo(r) ==
  Sees([ui EXCEPT !.repo = r, !.tab = "market", !.kind = "all", !.query = None],
       Matching(r, "all", None), {})

\* The other filters stay, so that the market need not show what was asked for.
Browse(kind) ==
  LET u == [ui EXCEPT !.tab = "market", !.kind = kind]
      all == Matching(None, kind, None)
  IN  Sees(u, all, IF Matching(ui.repo, kind, ui.query) = all THEN {} ELSE {"asked"})

ReposTab ==
  /\ ui.tab = "repos"
  /\ \/ \E q \in Query \union {None} : Shows([ui EXCEPT !.repoQuery = q])
     \/ \E t \in Kind \union {"all"} : Shows([ui EXCEPT !.repoType = t])
     \/ \E r \in FilteredRepos : HandleExploreRepo(r)
McpTab == ui.tab = "mcp" /\ Browse("mcp")
SkillsTab == ui.tab = "skills" /\ Browse("skills")
MarketTab ==
  /\ ui.tab = "market"
  /\ \/ \E k \in Kind \union {"all"} : Filters([ui EXCEPT !.kind = k])
     \/ \E q \in Query \union {None} : Filters([ui EXCEPT !.query = q])
     \/ ui.repo # None /\ Filters([ui EXCEPT !.repo = None])

-----------------------------------------------------------------------------
(* The repositories of the user, which the browser keeps *)

KeepsRepos(u, lost) ==
  /\ clicks < MaxClicks /\ clicks' = clicks + 1
  /\ ui' = u /\ stored' = [stored EXCEPT !.custom = u.custom]
  /\ clean' = clean \ lost
  /\ UNCHANGED calls

\* Cancelling keeps what was typed; the button needs a name and an address.
AddRepoForm ==
  /\ ui.tab = "repos"
  /\ \/ Shows([ui EXCEPT !.adding = ~@])
     \/ \E r \in Custom \ ui.custom : ui.adding /\ Shows([ui EXCEPT !.form = r])
HandleAddCustomRepo ==
  /\ ui.tab = "repos" /\ ui.adding /\ ui.form # None
  /\ KeepsRepos([ui EXCEPT !.custom = @ \union {ui.form}, !.adding = FALSE, !.form = None], {})

\* The market stays filtered by a repository that is removed.
HandleRemoveCustomRepo ==
  /\ ui.tab = "repos"
  /\ \E r \in FilteredRepos \intersect ui.custom :
       KeepsRepos([ui EXCEPT !.custom = @ \ {r}], IF ui.repo = r THEN {"repo"} ELSE {})

\* The tab is left and opened again: only the browser's storage remains.
Opened(s) == [tab |-> "repos", repo |-> None, kind |-> "all", query |-> None, repoType |-> "all",
              repoQuery |-> None, custom |-> s.custom, adding |-> FALSE, form |-> None]
Reopen == /\ ui # Opened(stored)
          /\ Sees(Opened(stored), None, {})

-----------------------------------------------------------------------------
Init ==
  /\ \E s \in SUBSET Custom :
       stored = [custom |-> s, asked |-> None] /\ ui = Opened([custom |-> s])
  /\ calls = {} /\ clean = {"custom", "asked", "repo"} /\ clicks = 0

Next == \/ SubTab \/ ReposTab \/ McpTab \/ SkillsTab \/ MarketTab
        \/ AddRepoForm \/ HandleAddCustomRepo \/ HandleRemoveCustomRepo \/ Reopen

-----------------------------------------------------------------------------
(* The user's repositories are kept; what was asked for is listed; the       *)
(* repository whose packages show is known.                                  *)
InStep(part) ==
  CASE part = "custom" -> ui.custom = stored.custom
    [] part = "asked" -> stored.asked # None => FilteredPackages = stored.asked
    [] part = "repo" -> ui.repo # None => ui.repo \in AllRepositories
=============================================================================
