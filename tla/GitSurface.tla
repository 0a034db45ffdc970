------------------------------ MODULE GitSurface ------------------------------
(***************************************************************************)
(* The version control panel (panels/git-surface.tsx), with the git        *)
(* commands of the shell (src-tauri/src/git_ops.rs) and the status that    *)
(* App.tsx fetches for it.                                                 *)
(*                                                                         *)
(* A file is what git status says of it; the text of a difference is the   *)
(* state of the file it was made from.  Branch names are left out.         *)
(***************************************************************************)
EXTENDS Panel

CONSTANT File

\* "both": changed in the index and again in the work tree.
FileState == {"clean", "untracked", "added", "modified", "staged", "both", "conflicted"}

(* git status lists a file by its index entry and by its work tree.          *)
Listed(files) ==
  {e \in [file : File, staged : BOOLEAN] :
     IF e.staged THEN files[e.file] \in {"added", "staged", "both"}
                 ELSE files[e.file] \in {"untracked", "modified", "both", "conflicted"}}
Conflicted(files) == {f \in File : files[f] = "conflicted"}
StagedOf(s)   == {e \in Listed(s.files) : e.staged}
UnstagedOf(s) == {e \in Listed(s.files) : ~e.staged /\ s.files[e.file] \in {"modified", "both"}}
UntrackedOf(s) == {e \in Listed(s.files) : s.files[e.file] = "untracked"}

Clean == [f \in File |-> "clean"]
NoRepo == [repo |-> FALSE, files |-> Clean]

-----------------------------------------------------------------------------
(* git_ops.rs *)

Add(x) == CASE x = "untracked" -> "added"
            [] x \in {"modified", "both", "conflicted"} -> "staged"
            [] OTHER -> x
RestoreStaged(x) == CASE x = "added" -> "untracked"
                      [] x \in {"staged", "both"} -> "modified"
                      [] OTHER -> x
RestoreAndClean(x) == CASE x \in {"modified", "untracked"} -> "clean"
                        [] x = "both" -> "staged"
                        [] OTHER -> x
Commit(x) == CASE x \in {"added", "staged"} -> "clean"
               [] x = "both" -> "modified"
               [] OTHER -> x

On(s, paths, Op(_)) == [s EXCEPT !.files = [f \in File |-> IF f \in paths THEN Op(@[f]) ELSE @[f]]]

CanCommit(s) == Conflicted(s.files) = {} /\ StagedOf(s) # {}

\* What a command makes of the repository, and whether it says ok.
GitCommit(s, stageAll) ==
  LET t == IF stageAll THEN On(s, File, Add) ELSE s
  IN  IF CanCommit(t) THEN <<On(t, File, Commit), TRUE>> ELSE <<t, FALSE>>
GitResolve(s, f) ==
  IF s.files[f] = "conflicted" THEN <<On(s, {f}, Add), TRUE>> ELSE <<s, FALSE>>

-----------------------------------------------------------------------------
(* The component *)

Entry == [file : File, staged : BOOLEAN]
Refresh == Load("git_status", None)

\* The entry that is selected once the status is u.status.
Reselected(u) ==
  LET all == IF u.status = None THEN {} ELSE Listed(u.status.files)
  IN  IF u.selected \in all THEN u.selected
      ELSE IF all = {} THEN None ELSE CHOOSE e \in all : TRUE

\* Another entry is selected: its difference is asked for, and an answer for
\* the entry before is not listened to any more.
Opened(u, e) == [u EXCEPT !.selected = e, !.diff = IF e = None THEN None ELSE @,
                          !.busy = IF e = None THEN @ ELSE @ \union {"diff"}]
AsksFor(e) == IF e = None THEN {} ELSE {Detail("git_diff", e)}
\* Variant: an answer for the entry before is still listened to.
NoOldDiffs == {}

OldDiffs == {c \in calls : c.op = "git_diff"}

Select(e) ==
  /\ ui.status # None /\ e \in Listed(ui.status.files)
  /\ Turns(Opened(ui, e), AsksFor(e), OldDiffs)

HasRepo == ui.status # None /\ ui.status.repo

OfferedStage ==
  IF ~HasRepo THEN {}
  ELSE {{e.file} : e \in UnstagedOf(ui.status) \union UntrackedOf(ui.status)}
       \union (IF UnstagedOf(ui.status) \union UntrackedOf(ui.status) # {} THEN {File} ELSE {})
OfferedUnstage ==
  IF ~HasRepo THEN {}
  ELSE {{e.file} : e \in StagedOf(ui.status)}
       \union (IF StagedOf(ui.status) # {} THEN {File} ELSE {})
OfferedDiscard == IF ~HasRepo THEN {} ELSE {e.file : e \in UnstagedOf(ui.status)}
OfferedResolve == IF ~HasRepo THEN {} ELSE Conflicted(ui.status.files)

HandleStage   == \E p \in OfferedStage   : Clicks(ui, {Act("git_stage", p)})
HandleUnstage == \E p \in OfferedUnstage : Clicks(ui, {Act("git_unstage", p)})
HandleDiscard == \E f \in OfferedDiscard : Clicks(ui, {Act("git_discard", {f})})
HandleResolveConflict ==
  \E f \in OfferedResolve :
    /\ ui.resolving # f
    /\ Clicks([ui EXCEPT !.resolving = f], {Act("git_resolve_conflict", f)})
\* Everything is staged when the list that is shown has nothing staged.
HandleCommit ==
  /\ HasRepo /\ "commit" \notin ui.busy /\ Listed(ui.status.files) # {}
  /\ Clicks([ui EXCEPT !.busy = @ \union {"commit"}],
            {Act("git_commit", StagedOf(ui.status) = {})})
HandleSync(action) ==
  /\ HasRepo /\ "sync" \notin ui.busy
  /\ Clicks([ui EXCEPT !.busy = @ \union {"sync"}], {Act("git_sync", action)})
HandleCheckout == HasRepo /\ Clicks(ui, {Act("git_checkout", None)})
HandleInitRepo == ~HasRepo /\ Clicks(ui, {Act("git_init", None)})
OnRefresh == HasRepo /\ Clicks([ui EXCEPT !.busy = @ \union {"status"}], {Refresh})
\* The rollback of the diff view: no answer is looked at.
OnRollback ==
  /\ ui.selected # None /\ ui.diff # None /\ "diff" \notin ui.busy
  /\ Clicks(ui, {Act("rollback", {ui.selected.file})})

-----------------------------------------------------------------------------
(* The shell *)

Outcomes(c) ==
  CASE c.op = "git_stage"   -> {<<On(stored, c.arg, Add), TRUE>>}
    [] c.op = "git_unstage" -> {<<On(stored, c.arg, RestoreStaged), TRUE>>}
    [] c.op \in {"git_discard", "rollback"} -> {<<On(stored, c.arg, RestoreAndClean), TRUE>>}
    [] c.op = "git_commit"  -> {GitCommit(stored, c.arg)}
    [] c.op = "git_resolve_conflict" -> {GitResolve(stored, c.arg)}
    [] c.op = "git_init"    -> {<<[stored EXCEPT !.repo = TRUE], TRUE>>}
    [] c.op = "git_checkout" -> {<<stored, TRUE>>, <<stored, FALSE>>}
    [] c.op = "git_sync"    ->
         {<<stored, TRUE>>, <<stored, FALSE>>} \union
         (IF c.arg = "pull" /\ stored.files = Clean
          THEN {<<[stored EXCEPT !.files[f] = "conflicted"], FALSE>> : f \in File} ELSE {})
    [] c.op \in {"git_status", "git_branches"} -> {<<stored, TRUE>>}
    [] c.op = "git_diff"    -> {<<stored, TRUE>>}

Answer(c, ok) ==
  CASE c.op = "git_status" -> IF stored.repo THEN stored ELSE NoRepo
    [] c.op = "git_diff"   -> [entry |-> c.arg, state |-> stored.files[c.arg.file]]
    [] OTHER -> ok

GitServes == \E c \in calls : \E o \in Outcomes(c) : Serves(c, o[1], Answer(c, o[2]))

\* The agent or an editor works in the same directory.
WorkGoesOn ==
  /\ stored.repo
  /\ \E f \in File, x \in {"untracked", "modified", "both"} :
       /\ stored.files[f] # x
       /\ x = "both" => stored.files[f] = "staged"
       /\ ChangedElsewhere(Whole, [stored EXCEPT !.files[f] = x])

-----------------------------------------------------------------------------
(* The rest of the handlers *)

Succeeded(c) == c.at = "served" /\ c.got = TRUE

\* App.tsx's loadGitStatus: no status when it fails.
StatusReturns(c) ==
  LET u == [ui EXCEPT !.status = IF c.at = "served" THEN c.got ELSE None, !.busy = @ \ {"status"}]
      e == Reselected(u)
      isRepo == c.at = "served" /\ c.got.repo
      branches == IF isRepo /\ ~HasRepo THEN {Detail("git_branches", None)} ELSE {}
  IN  /\ c.op = "git_status"
      /\ IF e = ui.selected
         THEN Goes(c, u, branches, {}, FALSE)
         ELSE Goes(c, Opened(u, e), AsksFor(e) \union branches, OldDiffs, FALSE)

DiffReturns(c) ==
  /\ c.op = "git_diff"
  /\ Goes(c, [ui EXCEPT !.diff = IF c.at = "served" THEN c.got ELSE [entry |-> c.arg, state |-> None],
                        !.busy = @ \ {"diff"}], {}, {}, FALSE)

BranchesReturn(c) ==
  /\ c.op = "git_branches"
  /\ Goes(c, [ui EXCEPT !.branches = @ \/ c.at = "served"], {}, {}, FALSE)

\* stage, unstage and discard refresh when there is an answer, whatever it says.
RefreshingReturns(c) ==
  /\ c.op \in {"git_stage", "git_unstage", "git_discard"}
  /\ IF c.at = "served"
     THEN Goes(c, [ui EXCEPT !.busy = @ \union {"status"}], {Refresh}, {}, FALSE)
     ELSE Goes(c, ui, {}, {}, FALSE)

\* The selection is given up, and at once falls on an entry of the old list.
RollbackReturns(c) ==
  LET u == [ui EXCEPT !.selected = None, !.diff = None, !.busy = @ \union {"status"}]
      e == Reselected(u)
  IN  /\ c.op = "rollback"
      /\ IF c.at = "served"
         THEN Goes(c, Opened(u, e), {Refresh} \union AsksFor(e), OldDiffs, FALSE)
         ELSE Goes(c, ui, {}, {}, FALSE)

\* The others refresh when they succeed only: a commit that staged everything
\* and failed, or a pull that stopped at a conflict, leaves the list as it was.
Clears(c) == CASE c.op = "git_commit" -> {"commit"} [] c.op = "git_sync" -> {"sync"} [] OTHER -> {}
GuardedReturns(c) ==
  LET u == [ui EXCEPT !.busy = @ \ Clears(c),
                      !.resolving = IF c.op = "git_resolve_conflict" THEN None ELSE @]
  IN  /\ c.op \in {"git_commit", "git_sync", "git_checkout", "git_init", "git_resolve_conflict"}
      /\ IF Succeeded(c)
         THEN Goes(c, [u EXCEPT !.busy = @ \union {"status"}],
                   {Refresh} \union (IF c.op = "git_checkout" THEN {Detail("git_branches", None)} ELSE {}),
                   {}, FALSE)
         ELSE Goes(c, u, {}, {}, c.at = "served" /\ c.op \in {"git_commit", "git_sync"})

GitReturns ==
  \E c \in calls : \/ StatusReturns(c) \/ DiffReturns(c) \/ BranchesReturn(c)
                   \/ RefreshingReturns(c) \/ RollbackReturns(c) \/ GuardedReturns(c)

-----------------------------------------------------------------------------
Init ==
  /\ ui = [status |-> None, selected |-> None, diff |-> None, branches |-> FALSE,
           resolving |-> None, busy |-> {"status"}]
  /\ stored \in [repo : BOOLEAN, files : [File -> {"clean", "modified", "both", "conflicted"}]]
  /\ stored.repo \/ stored.files = Clean
  /\ calls = {Refresh} /\ clean = {} /\ clicks = 0

Handle == \/ HandleStage \/ HandleUnstage \/ HandleDiscard \/ HandleResolveConflict
          \/ HandleCommit \/ \E a \in {"pull", "push"} : HandleSync(a)
          \/ HandleCheckout \/ HandleInitRepo \/ OnRefresh \/ OnRollback
          \/ \E e \in Entry : Select(e)

Next == \/ Handle \/ WorkGoesOn \/ GitServes \/ GitReturns
        \/ \E c \in calls : Fails(c)

-----------------------------------------------------------------------------
InStep(part) == ui.status # None => ui.status = IF stored.repo THEN stored ELSE NoRepo
Busy == ui.busy \ (IF ui.selected = None THEN {"diff"} ELSE {})
BusyMeansCalling == calls = {} => Busy = {} /\ ui.resolving = None
DetailMatches ==
  /\ ui.selected # None => ui.status # None /\ ui.selected \in Listed(ui.status.files)
  /\ ui.diff # None /\ "diff" \notin ui.busy => ui.diff.entry = ui.selected
=============================================================================
