-------------------------------- MODULE Sentinel --------------------------------
(***************************************************************************)
(* The sentinel (openpi-daemon/assets/sentinel.js): an extension of an     *)
(* agent that looks at every tool call before the tool runs, asks the      *)
(* daemon for a verdict and the user for a confirmation, and keeps count   *)
(* of what the agent read and repeated.                                    *)
(*                                                                         *)
(* It has the shape of a panel: what it remembers is ui, the files and     *)
(* what the agent knows of them are stored, and a handler that waits for   *)
(* an answer is a call.  Which commands and paths are denied is the        *)
(* daemon's answer here; a search of the whole disk, which is refused      *)
(* without a trace, the shortening of results, diagnostics and statistics  *)
(* are left out.  Files have the names that the sentinel resolves.         *)
(***************************************************************************)
EXTENDS Panel, Sequences

CONSTANT File

\* Of a shell command: the file that it prints or stages, if any.
Probing == {"cat", "add"} \X File
Building == <<"build", None>>
Cmd == Probing \union {Building}
Prints(cmd) == IF cmd[1] = "cat" THEN {cmd[2]} ELSE {}
Guards(cmd) == {"loops", "probes"} \union (IF Prints(cmd) = {} THEN {} ELSE {"grounded"})

Exists(f) == stored.work[f] # "none"
LastOf(s, n) == IF Len(s) <= n THEN s ELSE SubSeq(s, Len(s) - n + 1, Len(s))

-----------------------------------------------------------------------------
(* Steps of the extension *)

\* A handler that waits for nothing; the parts in lost may now be wrong.
Happens(u, s, lost) ==
  /\ clicks < MaxClicks /\ clicks' = clicks + 1
  /\ ui' = u /\ stored' = s /\ clean' = clean \ lost
  /\ UNCHANGED calls

\* The rest of a handler, after an answer.
Ends(c, u, s, new, lost) ==
  /\ c \in calls /\ c.at # "sent"
  /\ ui' = u /\ stored' = s /\ clean' = clean \ lost
  /\ calls' = (calls \ {c}) \union new
  /\ UNCHANGED clicks

\* What is recorded as read before it is shown, and then never is.
Unshown(files) == IF files \subseteq stored.seen THEN {} ELSE {"grounded"}

\* A change that was only attempted sets the count of probes back too.
Unchanged(f) == {"probes"} \union Unshown({f})

-----------------------------------------------------------------------------
(* Reading, and changing a file *)

Shown(s, files) == [s EXCEPT !.seen = @ \union files]

\* The path is recorded before the tool runs; the tool may fail.
Read(f) ==
  LET u == [ui EXCEPT !.read = @ \union {f}, !.probes = @ + 1]
  IN  \/ Exists(f) /\ Happens(u, Shown(stored, {f}), {})
      \/ Happens(u, stored, IF Exists(f) THEN Unshown({f}) ELSE {})

\* A file that exists must have been read; then it counts as read, and its path is judged.
Write(f) ==
  LET u == [ui EXCEPT !.probes = 0]
  IN  IF Exists(f) /\ f \notin ui.read THEN Happens(u, stored, {"probes"})
      ELSE Clicks([u EXCEPT !.read = @ \union {f}],
                  {ActOn({"grounded", "probes"}, "check_file", f)})

\* The tool changes the file, or fails.
Changed(f) ==
  [Shown(stored, {f}) EXCEPT !.work[f] = "new", !.probed = 0,
                             !.blind = @ \/ (Exists(f) /\ f \notin stored.seen)]
Changes(c, f) == \/ Ends(c, [ui EXCEPT !.rolledBack = FALSE], Changed(f), {}, {})
                 \/ Ends(c, ui, stored, {}, Unchanged(f))

(* A path that needs a confirmation is refused where there is no user.       *)
FileVerdict(c) ==
  /\ c.op = "check_file" /\ c.at = "served"
  /\ \/ c.got = "allow" /\ Changes(c, c.arg)
     \/ c.got = "confirm"
        /\ Ends(c, ui, stored, {ActOn({"grounded", "probes"}, "confirm_file", c.arg)}, {})
     \/ c.got \in {"deny", "confirm"} /\ Ends(c, ui, stored, {}, Unchanged(c.arg))

\* A dialog that fails ends in the handler's catch, which lets the tool run.
FileConfirmed(c) ==
  /\ c.op = "confirm_file"
  /\ \/ (c.at = "failed" \/ c.got = "yes") /\ Changes(c, c.arg)
     \/ c.at = "served" /\ c.got = "no" /\ Ends(c, ui, stored, {}, Unchanged(c.arg))

SearchCode(f) == Clicks(ui, {Detail("code_search", f)})
SearchReturns(c) ==
  /\ c.op = "code_search"
  /\ IF c.at = "served"
     THEN Ends(c, [ui EXCEPT !.read = @ \union {c.arg}], Shown(stored, {c.arg}), {}, {})
     ELSE Ends(c, ui, stored, {}, {})

-----------------------------------------------------------------------------
(* Shell commands *)

\* How often the command was recorded last, without another in between.
RepeatCount(cmd) ==
  LET h == ui.history
      others == {i \in 1..Len(h) : h[i] # cmd}
  IN  IF others = {} THEN Len(h) ELSE Len(h) - CHOOSE i \in others : \A j \in others : j <= i

PingPong(cmd) ==
  LET h == ui.history
      n == Len(h)
  IN  n >= 4 /\ h[n] = h[n - 2] /\ h[n - 1] = h[n - 3] /\ cmd = h[n - 1]

ProbesAfter(cmd) == IF cmd \in Probing THEN ui.probes + 1 ELSE 0
Tripped == 5
DynamicLoopThreshold == 2

\* What a command that does not run leaves behind.
Unproved(cmd) == Unshown(Prints(cmd)) \union (IF cmd \in Probing THEN {} ELSE {"probes"})

\* What is printed counts as read before the command is judged, or blocked as a repetition.
Shell(cmd) ==
  LET u == [ui EXCEPT !.probes = ProbesAfter(cmd)]
      v == [u EXCEPT !.read = @ \union Prints(cmd)]
  IN  IF u.probes >= Tripped THEN Happens(u, stored, {})
      ELSE IF RepeatCount(cmd) >= DynamicLoopThreshold \/ PingPong(cmd)
      THEN Happens(v, stored, Unproved(cmd))
      ELSE Clicks([v EXCEPT !.history = Append(@, cmd)],
                  {ActOn(Guards(cmd), "check_command", cmd)})

Ran(cmd) ==
  LET s == [stored EXCEPT !.ran = LastOf(Append(@, cmd), 5),
                          !.probed = IF cmd \in Probing THEN @ + 1 ELSE 0]
  IN  CASE cmd[1] = "cat" -> Shown(s, Prints(cmd) \intersect {f \in File : Exists(f)})
        [] cmd[1] = "add" -> [s EXCEPT !.index[cmd[2]] = stored.work[cmd[2]]]
        [] OTHER          -> s
Runs(c, cmd) == Ends(c, ui, Ran(cmd), {}, {})

\* A command that was not run stays in the history, and ends a row of equal ones.
NotRun(c) == Ends(c, ui, stored, {}, {"loops"} \union Unproved(c.arg))

\* A command that the daemon completed runs in the place of the other.
CommandVerdict(c) ==
  /\ c.op = "check_command" /\ c.at = "served"
  /\ \/ c.got = "allow" /\ Runs(c, c.arg)
     \/ c.got = "confirm"
        /\ Ends(c, ui, stored, {ActOn(Guards(c.arg), "confirm_command", c.arg)}, {})
     \/ c.got \in {"deny", "confirm"} /\ NotRun(c)

CommandConfirmed(c) ==
  /\ c.op = "confirm_command"
  /\ \/ (c.at = "failed" \/ c.got = "yes") /\ Runs(c, c.arg)
     \/ c.at = "served" /\ c.got = "no" /\ NotRun(c)

-----------------------------------------------------------------------------
(* Sessions, the map of the repository, subagents, and the rollback *)

\* Commands under way run after the counters were set back.
UnderWay(parts) == Touched(calls) \intersect parts

\* turn_start and input
TurnStarts ==
  /\ ui.probes # 0
  /\ Happens([ui EXCEPT !.probes = 0], [stored EXCEPT !.probed = 0], UnderWay({"probes"}))

(* What was read stays recorded, though the gate speaks of "this session":   *)
(* seen is what any agent of the process was shown.                          *)
SessionStarts ==
  /\ clicks < MaxClicks /\ clicks' = clicks + 1
  /\ ui' = [ui EXCEPT !.probes = 0, !.injected = FALSE]
  /\ stored' = [stored EXCEPT !.probed = 0, !.mapped = FALSE]
  /\ calls' = Disturbed(calls, {"map"})
  /\ clean' = clean \ UnderWay({"probes", "map"})

BeforeAgentStart == ~ui.injected /\ Clicks(ui, {ActOn({"map"}, "get_repo_map", None)})
RepoMapReturns(c) ==
  /\ c.op = "get_repo_map"
  /\ IF c.at = "served" /\ c.got = "map"
     THEN Ends(c, [ui EXCEPT !.injected = TRUE],
               [stored EXCEPT !.mapped = @ \/ "map" \in c.alone], {}, {})
     ELSE Ends(c, ui, stored, {}, {})

\* Without an answer in time, it says all the same that the subagent is done.
SpawnSubagent == ~ui.explored /\ Clicks(ui, {ActOn({"explored"}, "spawn_subagent", None)})
SubagentReturns(c) ==
  /\ c.op = "spawn_subagent"
  /\ Ends(c, [ui EXCEPT !.explored = TRUE], stored, {},
          IF c.at = "served" THEN {} ELSE {"explored"})

(* checkout and clean bring back what is staged, and remove what is not      *)
(* tracked; when git fails, the user is told that they were done all the     *)
(* same.                                                                     *)
Rollback ==
  LET u == [ui EXCEPT !.rolledBack = TRUE]
  IN  \/ Happens(u, [stored EXCEPT !.work = stored.index],
                 IF stored.index = stored.head THEN {} ELSE {"tree"})
      \/ Happens(u, stored, {"tree"})

\* The user, or another program, changes a file.
EditedElsewhere(f) ==
  /\ Happens([ui EXCEPT !.rolledBack = FALSE], [stored EXCEPT !.work[f] = "new"],
             IF ~Exists(f) /\ f \in ui.read THEN Unshown({f}) ELSE {})

\* The daemon's answers, or the sentinel's own where there is none; the user's.
Answers(c) == CASE c.op \in {"check_file", "check_command"} -> {"allow", "deny", "confirm"}
                [] c.op \in {"confirm_file", "confirm_command"} -> {"yes", "no"}
                [] c.op = "get_repo_map" -> {"map", "short"}
                [] OTHER -> {None}
Serving == \E c \in calls : \E got \in Answers(c) :
  Serves(c, IF c.op = "spawn_subagent" THEN [stored EXCEPT !.explored = TRUE] ELSE stored, got)
MayFail(c) == c.op \notin {"check_file", "check_command"}

-----------------------------------------------------------------------------
(* Some commands ran before: none, two kinds in turns, or only probing ones. *)
Past == {<<>>} \union UNION {{<<Building, <<"add", f>>, Building>>,
                             <<<<"add", f>>, <<"add", f>>, <<"cat", f>>>>} : f \in File}
Printed(past) == UNION {Prints(past[i]) : i \in 1..Len(past)}
Probed(past) == IF \A i \in 1..Len(past) : past[i] \in Probing THEN Len(past) ELSE 0

Init ==
  /\ \E h \in [File -> {"none", "old"}], past \in Past :
       LET shown == {f \in Printed(past) : h[f] # "none"}
       IN  /\ stored = [work |-> h, index |-> h, head |-> h, seen |-> shown, blind |-> FALSE,
                        ran |-> past, probed |-> Probed(past), mapped |-> FALSE,
                        explored |-> FALSE]
           /\ ui = [read |-> Printed(past), history |-> past, probes |-> Probed(past),
                    injected |-> FALSE, rolledBack |-> FALSE, explored |-> FALSE]
  /\ calls = {} /\ clicks = 0
  /\ clean = {"grounded", "loops", "probes", "map", "tree", "explored"}

Returns == \E c \in calls :
  \/ FileVerdict(c) \/ FileConfirmed(c) \/ CommandVerdict(c) \/ CommandConfirmed(c)
  \/ SearchReturns(c) \/ RepoMapReturns(c) \/ SubagentReturns(c)
Next ==
  \/ \E f \in File : Read(f) \/ Write(f) \/ SearchCode(f) \/ EditedElsewhere(f)
  \/ \E cmd \in Cmd : Shell(cmd)
  \/ TurnStarts \/ SessionStarts \/ BeforeAgentStart \/ SpawnSubagent \/ Rollback
  \/ Returns \/ Serving \/ \E c \in calls : MayFail(c) /\ Fails(c)

-----------------------------------------------------------------------------
InStep(part) ==
  CASE part = "grounded" -> ~stored.blind
    [] part = "loops" ->
         LET r == stored.ran
             n == Len(r)
         IN  /\ ~(n >= 3 /\ r[n] = r[n - 1] /\ r[n] = r[n - 2])
             /\ ~(n = 5 /\ r[1] # r[2] /\ r[1] = r[3] /\ r[1] = r[5] /\ r[2] = r[4])
    [] part = "probes" -> stored.probed < Tripped
    [] part = "map" -> ui.injected => stored.mapped
    [] part = "tree" -> ui.rolledBack => stored.work = stored.head
    [] part = "explored" -> ui.explored => stored.explored
=============================================================================
