------------------------------- MODULE PanelProofs ------------------------------
(***************************************************************************)
(* The inductive invariant of each of the panels of AppPanels: which call  *)
(* each indicator stands for, and of what each detail is.                  *)
(***************************************************************************)
EXTENDS DesktopProofs, AppPanels

(***************************************************************************)
(* The goals panel.                                                        *)
(***************************************************************************)
(* The markers of the goals view.                                            *)
GoalsOf(u, S) ==
  /\ DOMAIN u = {"goals", "of", "late", "filter", "form", "titled", "loading", "submitting", "updating"}
  /\ \A c \in S : c.kind = "act" <=> c.op # "list"
  /\ u.loading # FALSE => Has(S, "list")
  /\ u.submitting # FALSE => Has(S, "upsert")
  /\ u.updating # None => Has(S, "update")

GoalsInv == Base(ClicksOf["goals"]) /\ GoalsOf(ui, calls)

LEMMA GoalsAlike ==
  ASSUME NEW u, NEW S, NEW T, Alike(S, T), GoalsOf(u, S)
  PROVE  GoalsOf(u, T)
<1>1. DOMAIN u = {"goals", "of", "late", "filter", "form", "titled", "loading", "submitting", "updating"}
  BY DEF GoalsOf, Alike, Same, Has
<1>2. \A c \in T : c.kind = "act" <=> c.op # "list"
  BY DEF GoalsOf, Alike, Same, Has
<1>3. u.loading # FALSE => Has(T, "list")
  BY DEF GoalsOf, Alike, Same, Has
<1>4. u.submitting # FALSE => Has(T, "upsert")
  BY DEF GoalsOf, Alike, Same, Has
<1>5. u.updating # None => Has(T, "update")
  BY DEF GoalsOf, Alike, Same, Has
<1>6. QED
  BY <1>1, <1>2, <1>3, <1>4, <1>5 DEF GoalsOf

LEMMA GoalsKeeps ==
  ASSUME GoalsInv, NEW u, NEW S, Moves(u, S, ClicksOf["goals"]), GoalsOf(u, S)
  PROVE  GoalsInv'
<1>1. GoalsOf(u, calls') /\ ui' = u
  BY FollowsAlike, GoalsAlike DEF Moves
<1>2. Base(ClicksOf["goals"])'
  BY LimitsAssumption DEF Moves, Follows, Base, AllProper, Panels, GoalsInv
<1>3. QED
  BY <1>1, <1>2 DEF GoalsInv

LEMMA GoalsTurns ==
  ASSUME GoalsInv, NEW u, NEW new, NEW gone, Goals!Turns(u, new, gone), AllProper(new), GoalsOf(u, (calls \ gone) \union new)
  PROVE  GoalsInv'
<1>1. Moves(u, (calls \ gone) \union new, ClicksOf["goals"])
  BY TurnMoves DEF GoalsInv, Goals!Turns, Goals!Joined, P!Joined, Goals!Disturbed, P!Disturbed, Goals!Clash, P!Clash, Goals!Touched, P!Touched
<1>2. QED
  BY <1>1, GoalsKeeps

LEMMA GoalsClicks ==
  ASSUME GoalsInv, NEW u, NEW new, Goals!Clicks(u, new), AllProper(new), GoalsOf(u, calls \union new)
  PROVE  GoalsInv'
<1>1. Goals!Turns(u, new, {}) /\ (calls \ {}) \union new = calls \union new
  BY DEF Goals!Clicks
<1>2. QED
  BY <1>1, GoalsTurns

LEMMA GoalsShows ==
  ASSUME GoalsInv, NEW u, Goals!Shows(u), GoalsOf(u, calls)
  PROVE  GoalsInv'
<1>1. Moves(u, calls, ClicksOf["goals"])
  BY ShowMoves DEF GoalsInv, Goals!Shows
<1>2. QED
  BY <1>1, GoalsKeeps

LEMMA GoalsServes ==
  ASSUME GoalsInv, NEW c, NEW s, NEW got, Goals!Serves(c, s, got), GoalsOf(ui, Answered(c, "served", got))
  PROVE  GoalsInv'
<1>1. Moves(ui, Answered(c, "served", got), ClicksOf["goals"])
  BY ServeMoves DEF GoalsInv, Goals!Serves
<1>2. QED
  BY <1>1, GoalsKeeps

LEMMA GoalsFails ==
  ASSUME GoalsInv, NEW c, Goals!Fails(c), GoalsOf(ui, Answered(c, "failed", c.got))
  PROVE  GoalsInv'
<1>1. Moves(ui, Answered(c, "failed", c.got), ClicksOf["goals"])
  BY FailMoves DEF GoalsInv, Goals!Fails
<1>2. QED
  BY <1>1, GoalsKeeps

LEMMA GoalsGoes ==
  ASSUME GoalsInv, NEW c, NEW u, NEW new, NEW gone, NEW spoils, 
         Goals!Goes(c, u, new, gone, spoils), AllProper(new), GoalsOf(u, (calls \ ({c} \union gone)) \union new)
  PROVE  GoalsInv'
<1>1. Moves(u, (calls \ ({c} \union gone)) \union new, ClicksOf["goals"])
  BY GoMoves DEF GoalsInv, Goals!Goes, Goals!Joined, P!Joined, Goals!Disturbed, P!Disturbed, Goals!Clash, P!Clash, Goals!Touched, P!Touched
<1>2. QED
  BY <1>1, GoalsKeeps

LEMMA GoalsSends ==
  ASSUME GoalsInv, NEW c, NEW u, NEW new, NEW spoils, Goals!Goes(c, u, new, {}, spoils), AllProper(new),
         GoalsOf(u, (calls \ {c}) \union new)
  PROVE  GoalsInv'
<1>1. (calls \ ({c} \union {})) \union new = (calls \ {c}) \union new
  OBVIOUS
<1>2. QED
  BY <1>1, GoalsGoes

LEMMA GoalsEnds ==
  ASSUME GoalsInv, NEW c, NEW u, NEW spoils, Goals!Goes(c, u, {}, {}, spoils), GoalsOf(u, calls \ {c})
  PROVE  GoalsInv'
<1>1. AllProper({}) /\ (calls \ {c}) \union {} = calls \ {c}
  BY DEF AllProper
<1>2. QED
  BY <1>1, GoalsSends


LEMMA GoalsNew ==
  /\ \A op, arg : Fresh(Goals!Load(op, arg), "load", op, arg)
  /\ \A op, arg : Fresh(Goals!Act(op, arg), "act", op, arg)
  BY DEF Goals!Load, Goals!Act, Goals!LoadOf, Goals!ActOn, Goals!Whole, Goals!Sent, Fresh, Proper, IsCall

LEMMA GoalsInit == Goals!Init => GoalsInv
  BY LimitsAssumption, GoalsNew DEF Goals!Init, GoalsInv, GoalsOf, Base, Panels, AllProper, Has, Fresh, Goals!LoadGoals

LEMMA GoalsHandle ==
  ASSUME GoalsInv, \/ \E f \in Goals!Filter : Goals!SelectFilter(f)
              \/ Goals!OnRefresh \/ Goals!ToggleNewGoal \/ Goals!TypesTitle \/ Goals!HandleCreateGoal
              \/ \E g \in ui.goals : Goals!OnCard(g)
  PROVE  GoalsInv'
<1>0. GoalsOf(ui, calls)
  BY DEF GoalsInv
<1>1. ASSUME NEW f \in Goals!Filter, Goals!SelectFilter(f) PROVE GoalsInv'
  <2>1. PICK n1 : n1 = Goals!LoadGoals(f) /\ Fresh(n1, "load", "list", f)
    BY GoalsNew DEF Goals!LoadGoals
  <2>2. GoalsOf([ui EXCEPT !.filter = f, !.loading = TRUE], calls \union {n1})
    <3>1. PICK w : w = [ui EXCEPT !.filter = f, !.loading = TRUE]
      OBVIOUS
    <3>2. /\ DOMAIN w = DOMAIN ui
         /\ w.goals = ui.goals
         /\ w.filter = (f)
         /\ w.form = ui.form
         /\ w.titled = ui.titled
         /\ w.loading = (TRUE)
         /\ w.submitting = ui.submitting
         /\ w.updating = ui.updating
      BY <1>0, <3>1 DEF GoalsOf
    <3>3. PICK T : T = calls \union {n1}
      OBVIOUS
    <3>4. QED
      BY <1>0, <2>1, <3>1, <3>2, <3>3 DEF GoalsOf, Has, Fresh
  <2>3. AllProper({n1})
    BY <2>1, AllPropers DEF Fresh
  <2>4. QED
    BY <1>0, <1>1, <2>1, <2>2, <2>3, GoalsClicks DEF Goals!SelectFilter, Goals!LoadGoals
<1>2. ASSUME Goals!OnRefresh PROVE GoalsInv'
  <2>1. PICK n1 : n1 = Goals!LoadGoals(ui.filter) /\ Fresh(n1, "load", "list", ui.filter)
    BY GoalsNew DEF Goals!LoadGoals
  <2>2. GoalsOf([ui EXCEPT !.loading = TRUE], calls \union {n1})
    <3>1. PICK w : w = [ui EXCEPT !.loading = TRUE]
      OBVIOUS
    <3>2. /\ DOMAIN w = DOMAIN ui
         /\ w.goals = ui.goals
         /\ w.filter = ui.filter
         /\ w.form = ui.form
         /\ w.titled = ui.titled
         /\ w.loading = (TRUE)
         /\ w.submitting = ui.submitting
         /\ w.updating = ui.updating
      BY <1>0, <3>1 DEF GoalsOf
    <3>3. PICK T : T = calls \union {n1}
      OBVIOUS
    <3>4. QED
      BY <1>0, <2>1, <3>1, <3>2, <3>3 DEF GoalsOf, Has, Fresh
  <2>3. AllProper({n1})
    BY <2>1, AllPropers DEF Fresh
  <2>4. QED
    BY <1>0, <1>2, <2>1, <2>2, <2>3, GoalsClicks DEF Goals!OnRefresh, Goals!LoadGoals
<1>3. ASSUME Goals!ToggleNewGoal PROVE GoalsInv'
  <2>1. GoalsOf([ui EXCEPT !.form = ~@], calls)
    <3>1. PICK w : w = [ui EXCEPT !.form = ~@]
      OBVIOUS
    <3>2. /\ DOMAIN w = DOMAIN ui
         /\ w.goals = ui.goals
         /\ w.filter = ui.filter
         /\ w.form = (~ui.form)
         /\ w.titled = ui.titled
         /\ w.loading = ui.loading
         /\ w.submitting = ui.submitting
         /\ w.updating = ui.updating
      BY <1>0, <3>1 DEF GoalsOf
    <3>3. QED
      BY <1>0, <3>1, <3>2 DEF GoalsOf, Has
  <2>2. QED
    BY <1>0, <1>3, <2>1, GoalsShows, AllPropers DEF Goals!ToggleNewGoal
<1>4. ASSUME Goals!TypesTitle PROVE GoalsInv'
  <2>1. GoalsOf([ui EXCEPT !.titled = ~@], calls)
    <3>1. PICK w : w = [ui EXCEPT !.titled = ~@]
      OBVIOUS
    <3>2. /\ DOMAIN w = DOMAIN ui
         /\ w.goals = ui.goals
         /\ w.filter = ui.filter
         /\ w.form = ui.form
         /\ w.titled = (~ui.titled)
         /\ w.loading = ui.loading
         /\ w.submitting = ui.submitting
         /\ w.updating = ui.updating
      BY <1>0, <3>1 DEF GoalsOf
    <3>3. QED
      BY <1>0, <3>1, <3>2 DEF GoalsOf, Has
  <2>2. QED
    BY <1>0, <1>4, <2>1, GoalsShows, AllPropers DEF Goals!TypesTitle
<1>5. ASSUME NEW i, Goals!Clicks([ui EXCEPT !.submitting = TRUE],
    {Goals!Handles("upsert", [id |-> i, progress |-> 0, status |-> "active"])}) PROVE GoalsInv'
  <2>1. PICK n1 : n1 = Goals!Handles("upsert", [id |-> i, progress |-> 0, status |-> "active"]) /\ Fresh(n1, "act", "upsert", [goal |-> [id |-> i, progress |-> 0, status |-> "active"], filter |-> ui.filter])
    BY GoalsNew DEF Goals!Handles
  <2>2. GoalsOf([ui EXCEPT !.submitting = TRUE], calls \union {n1})
    <3>1. PICK w : w = [ui EXCEPT !.submitting = TRUE]
      OBVIOUS
    <3>2. /\ DOMAIN w = DOMAIN ui
         /\ w.goals = ui.goals
         /\ w.filter = ui.filter
         /\ w.form = ui.form
         /\ w.titled = ui.titled
         /\ w.loading = ui.loading
         /\ w.submitting = (TRUE)
         /\ w.updating = ui.updating
      BY <1>0, <3>1 DEF GoalsOf
    <3>3. PICK T : T = calls \union {n1}
      OBVIOUS
    <3>4. QED
      BY <1>0, <2>1, <3>1, <3>2, <3>3 DEF GoalsOf, Has, Fresh
  <2>3. AllProper({n1})
    BY <2>1, AllPropers DEF Fresh
  <2>4. QED
    BY <1>0, <1>5, <2>1, <2>2, <2>3, GoalsClicks DEF Goals!Clicks, Goals!Handles
<1>6. ASSUME NEW g \in ui.goals, Goals!HandleDeleteGoal(g) PROVE GoalsInv'
  <2>1. PICK n1 : n1 = Goals!Handles("delete", g) /\ Fresh(n1, "act", "delete", [goal |-> g, filter |-> ui.filter])
    BY GoalsNew DEF Goals!Handles
  <2>2. GoalsOf(ui, calls \union {n1})
    <3>1. PICK T : T = calls \union {n1}
      OBVIOUS
    <3>2. QED
      BY <1>0, <2>1, <3>1 DEF GoalsOf, Has, Fresh
  <2>3. AllProper({n1})
    BY <2>1, AllPropers DEF Fresh
  <2>4. QED
    BY <1>0, <1>6, <2>1, <2>2, <2>3, GoalsClicks DEF Goals!HandleDeleteGoal, Goals!Handles
<1>7. ASSUME NEW g \in ui.goals, NEW d \in {-1, 1}, Goals!HandleUpdateProgress(g, d) PROVE GoalsInv'
  <2>1. PICK n1 : n1 = Goals!Handles("update", Goals!Moved(g, d)) /\ Fresh(n1, "act", "update", [goal |-> Goals!Moved(g, d), filter |-> ui.filter])
    BY GoalsNew DEF Goals!Handles
  <2>2. GoalsOf([ui EXCEPT !.updating = g.id], calls \union {n1})
    <3>1. PICK w : w = [ui EXCEPT !.updating = g.id]
      OBVIOUS
    <3>2. /\ DOMAIN w = DOMAIN ui
         /\ w.goals = ui.goals
         /\ w.filter = ui.filter
         /\ w.form = ui.form
         /\ w.titled = ui.titled
         /\ w.loading = ui.loading
         /\ w.submitting = ui.submitting
         /\ w.updating = (g.id)
      BY <1>0, <3>1 DEF GoalsOf
    <3>3. PICK T : T = calls \union {n1}
      OBVIOUS
    <3>4. QED
      BY <1>0, <2>1, <3>1, <3>2, <3>3 DEF GoalsOf, Has, Fresh
  <2>3. AllProper({n1})
    BY <2>1, AllPropers DEF Fresh
  <2>4. QED
    BY <1>0, <1>7, <2>1, <2>2, <2>3, GoalsClicks DEF Goals!HandleUpdateProgress, Goals!Handles
<1>8. QED
  BY <1>1, <1>2, <1>3, <1>4, <1>5, <1>6, <1>7 DEF Goals!OnCard, Goals!HandleCreateGoal

LEMMA GoalsServed ==
  ASSUME GoalsInv, Goals!DaemonServes \/ (\E c \in calls : Goals!Fails(c))
  PROVE  GoalsInv'
<1>0. GoalsOf(ui, calls)
  BY DEF GoalsInv
<1>1. CASE Goals!DaemonServes
  <2>1. PICK c \in calls : (\E s, got : Goals!Serves(c, s, got))
    BY <1>1 DEF Goals!DaemonServes
  <2>2. c \in calls => \A at, got : GoalsOf(ui, Answered(c, at, got))
    BY <1>0, AnsweredAlike, GoalsAlike
  <2>3. QED
    BY <2>1, <2>2, GoalsServes DEF Goals!Serves
<1>2. CASE \E c \in calls : Goals!Fails(c)
  <2>1. PICK c \in calls : Goals!Fails(c)
    BY <1>2
  <2>2. GoalsOf(ui, Answered(c, "failed", c.got))
    BY <1>0, <2>1, AnsweredAlike, GoalsAlike DEF Goals!Fails
  <2>3. QED
    BY <2>1, <2>2, GoalsFails
<1>3. QED
  BY <1>1, <1>2

LEMMA GoalsReturned ==
  ASSUME GoalsInv, \E c \in calls : Goals!ListReturns(c) \/ Goals!HandlerReturns(c)
  PROVE  GoalsInv'
<1>0. GoalsOf(ui, calls)
  BY DEF GoalsInv
<1>1. ASSUME NEW c \in calls, Goals!ListReturns(c) PROVE GoalsInv'
  <2>1. PICK u : u = [ui EXCEPT !.loading = FALSE]
    OBVIOUS
  <2>2. PICK v : v = [u EXCEPT !.goals = c.got, !.of = c.arg, !.late = c.arg # ui.filter]
    OBVIOUS
  <2>3. PICK T : T = calls \ {c}
    OBVIOUS
  <2>4. /\ c.op = "list"
        /\ Goals!Goes(c, u, {}, {}, FALSE) \/ Goals!Goes(c, v, {}, {}, FALSE)
    BY <1>1, <2>1, <2>2 DEF Goals!ListReturns
  <2>5. /\ DOMAIN u = DOMAIN ui /\ u.loading = FALSE
        /\ u.submitting = ui.submitting /\ u.updating = ui.updating
    BY <1>0, <2>1 DEF GoalsOf
  <2>6. GoalsOf(u, T)
    BY <1>0, <2>3, <2>4, <2>5 DEF GoalsOf, Has
  <2>7. /\ DOMAIN v = DOMAIN u /\ v.loading = u.loading
        /\ v.submitting = u.submitting /\ v.updating = u.updating
    BY <2>2, <2>6 DEF GoalsOf
  <2>8. GoalsOf(v, T)
    BY <2>6, <2>7 DEF GoalsOf
  <2>9. QED
    BY <2>3, <2>4, <2>6, <2>8, GoalsEnds
<1>2. CASE \E c \in calls : Goals!HandlerReturns(c)
  <2>1. PICK c \in calls : Goals!HandlerReturns(c)
    BY <1>2
  <2>2. PICK u : u = CASE c.op = "upsert" /\ c.at = "served" ->
                            [ui EXCEPT !.submitting = FALSE, !.form = FALSE, !.titled = FALSE]
                       [] c.op = "upsert" -> [ui EXCEPT !.submitting = FALSE]
                       [] c.op = "update" -> [ui EXCEPT !.updating = None]
                       [] OTHER -> ui
    OBVIOUS
  <2>3. /\ c.kind = "act" /\ c.op # "list"
        /\ \/ c.at = "served" /\ Goals!Goes(c, [u EXCEPT !.loading = TRUE], {Goals!LoadGoals(c.arg.filter)}, {}, FALSE)
           \/ Goals!Goes(c, u, {}, {}, FALSE)
    BY <1>0, <2>1, <2>2 DEF Goals!HandlerReturns, GoalsOf
  <2>4. /\ DOMAIN u = DOMAIN ui /\ u.loading = ui.loading
        /\ c.op = "upsert" => u.submitting = FALSE
        /\ c.op # "upsert" => u.submitting = ui.submitting
        /\ c.op = "update" => u.updating = None
        /\ c.op # "update" => u.updating = ui.updating
    BY <1>0, <2>2 DEF GoalsOf
  <2>5. PICK n : n = Goals!LoadGoals(c.arg.filter) /\ Fresh(n, "load", "list", c.arg.filter)
    BY GoalsNew DEF Goals!LoadGoals
  <2>6. GoalsOf(u, calls \ {c})
    BY <1>0, <2>3, <2>4 DEF GoalsOf, Has
  <2>7. PICK w : w = [u EXCEPT !.loading = TRUE]
    OBVIOUS
  <2>8. DOMAIN w = DOMAIN u /\ w.submitting = u.submitting /\ w.updating = u.updating
    BY <1>0, <2>4, <2>7 DEF GoalsOf
  <2>9. GoalsOf(w, (calls \ {c}) \union {n})
    BY <2>5, <2>6, <2>8 DEF GoalsOf, Has, Fresh
  <2>10. AllProper({n})
    BY <2>5, AllPropers DEF Fresh
  <2>11. QED
    BY <2>3, <2>5, <2>6, <2>7, <2>9, <2>10, GoalsEnds, GoalsSends
<1>3. QED
  BY <1>1, <1>2

LEMMA GoalsStep == GoalsInv /\ Goals!Next => GoalsInv'
  BY GoalsHandle, GoalsServed, GoalsReturned DEF Goals!Next

(***************************************************************************)
(* The account and the session with the cloud.                             *)
(***************************************************************************)
\* The calls that a handler of the account dialog waits for.
CloudMarks(c) ==
  \/ c.op \in {"signIn", "signUp", "callback", "popup", "logout", "update"}
  \/ c.op = "profile" /\ c.arg.who # "app"
  \/ c.op = "refresh" /\ c.arg.by = "dialog"
CloudSyncs(c) == c.op \in {"status", "pass"} /\ c.arg # None

(* The dialog's two markers.                                                *)
CloudOf(u, S) ==
  /\ DOMAIN u = {"session", "timer", "busy", "syncing", "profile", "cloud"}
  /\ u.busy # FALSE => \E c \in S : CloudMarks(c)
  /\ u.syncing # FALSE => \E c \in S : CloudSyncs(c)

CloudInv == Base(ClicksOf["cloud"]) /\ CloudOf(ui, calls)

LEMMA CloudAlike ==
  ASSUME NEW u, NEW S, NEW T, Alike(S, T), CloudOf(u, S)
  PROVE  CloudOf(u, T)
<1>1. DOMAIN u = {"session", "timer", "busy", "syncing", "profile", "cloud"}
  BY DEF CloudOf, Alike, Same, Has, CloudMarks, CloudSyncs
<1>2. u.busy # FALSE => \E c \in T : CloudMarks(c)
  BY DEF CloudOf, Alike, Same, Has, CloudMarks, CloudSyncs
<1>3. u.syncing # FALSE => \E c \in T : CloudSyncs(c)
  BY DEF CloudOf, Alike, Same, Has, CloudMarks, CloudSyncs
<1>4. QED
  BY <1>1, <1>2, <1>3 DEF CloudOf

LEMMA CloudKeeps ==
  ASSUME CloudInv, NEW u, NEW S, Moves(u, S, ClicksOf["cloud"]), CloudOf(u, S)
  PROVE  CloudInv'
<1>1. CloudOf(u, calls') /\ ui' = u
  BY FollowsAlike, CloudAlike DEF Moves
<1>2. Base(ClicksOf["cloud"])'
  BY LimitsAssumption DEF Moves, Follows, Base, AllProper, Panels, CloudInv
<1>3. QED
  BY <1>1, <1>2 DEF CloudInv

LEMMA CloudTurns ==
  ASSUME CloudInv, NEW u, NEW new, NEW gone, Cloud!Turns(u, new, gone), AllProper(new), CloudOf(u, (calls \ gone) \union new)
  PROVE  CloudInv'
<1>1. Moves(u, (calls \ gone) \union new, ClicksOf["cloud"])
  BY TurnMoves DEF CloudInv, Cloud!Turns, Cloud!Joined, P!Joined, Cloud!Disturbed, P!Disturbed, Cloud!Clash, P!Clash, Cloud!Touched, P!Touched
<1>2. QED
  BY <1>1, CloudKeeps

LEMMA CloudClicks ==
  ASSUME CloudInv, NEW u, NEW new, Cloud!Clicks(u, new), AllProper(new), CloudOf(u, calls \union new)
  PROVE  CloudInv'
<1>1. Cloud!Turns(u, new, {}) /\ (calls \ {}) \union new = calls \union new
  BY DEF Cloud!Clicks
<1>2. QED
  BY <1>1, CloudTurns

LEMMA CloudServes ==
  ASSUME CloudInv, NEW c, NEW s, NEW got, Cloud!Serves(c, s, got), CloudOf(ui, Answered(c, "served", got))
  PROVE  CloudInv'
<1>1. Moves(ui, Answered(c, "served", got), ClicksOf["cloud"])
  BY ServeMoves DEF CloudInv, Cloud!Serves
<1>2. QED
  BY <1>1, CloudKeeps

LEMMA CloudFails ==
  ASSUME CloudInv, NEW c, Cloud!Fails(c), CloudOf(ui, Answered(c, "failed", c.got))
  PROVE  CloudInv'
<1>1. Moves(ui, Answered(c, "failed", c.got), ClicksOf["cloud"])
  BY FailMoves DEF CloudInv, Cloud!Fails
<1>2. QED
  BY <1>1, CloudKeeps

LEMMA CloudGoes ==
  ASSUME CloudInv, NEW c, NEW u, NEW new, NEW gone, NEW spoils, 
         Cloud!Goes(c, u, new, gone, spoils), AllProper(new), CloudOf(u, (calls \ ({c} \union gone)) \union new)
  PROVE  CloudInv'
<1>1. Moves(u, (calls \ ({c} \union gone)) \union new, ClicksOf["cloud"])
  BY GoMoves DEF CloudInv, Cloud!Goes, Cloud!Joined, P!Joined, Cloud!Disturbed, P!Disturbed, Cloud!Clash, P!Clash, Cloud!Touched, P!Touched
<1>2. QED
  BY <1>1, CloudKeeps

LEMMA CloudSends ==
  ASSUME CloudInv, NEW c, NEW u, NEW new, NEW spoils, Cloud!Goes(c, u, new, {}, spoils), AllProper(new),
         CloudOf(u, (calls \ {c}) \union new)
  PROVE  CloudInv'
<1>1. (calls \ ({c} \union {})) \union new = (calls \ {c}) \union new
  OBVIOUS
<1>2. QED
  BY <1>1, CloudGoes

LEMMA CloudEnds ==
  ASSUME CloudInv, NEW c, NEW u, NEW spoils, Cloud!Goes(c, u, {}, {}, spoils), CloudOf(u, calls \ {c})
  PROVE  CloudInv'
<1>1. AllProper({}) /\ (calls \ {c}) \union {} = calls \ {c}
  BY DEF AllProper
<1>2. QED
  BY <1>1, CloudSends


LEMMA CloudNew ==
  /\ \A parts, op, arg : Fresh(Cloud!LoadOf(parts, op, arg), "load", op, arg)
  /\ \A parts, op, arg : Fresh(Cloud!ActOn(parts, op, arg), "act", op, arg)
  /\ \A op, arg : Fresh(Cloud!Detail(op, arg), "detail", op, arg)
  BY DEF Cloud!LoadOf, Cloud!ActOn, Cloud!Detail, Cloud!Sent, Fresh, Proper, IsCall

LEMMA CloudUnions == \A A, B : AllProper(A) /\ AllProper(B) => AllProper(A \union B)
  BY DEF AllProper

LEMMA CloudProper ==
  /\ \A by, s : AllProper(Cloud!GetSession(by, s)) /\ AllProper({Cloud!RefreshSession(by, s)})
  /\ \A s : AllProper({Cloud!PushSession(s)}) /\ AllProper(Cloud!Persists(s))
<1>1. \A by, s : AllProper({Cloud!RefreshSession(by, s)})
  BY CloudNew, AllPropers DEF Cloud!RefreshSession, Fresh
<1>2. \A by, s : AllProper(Cloud!GetSession(by, s))
  BY <1>1, AllPropers DEF Cloud!GetSession
<1>3. \A s : AllProper({Cloud!PushSession(s)})
  BY CloudNew, AllPropers DEF Cloud!PushSession, Fresh
<1>4. QED
  BY <1>1, <1>2, <1>3, CloudUnions DEF Cloud!Persists

LEMMA CloudInit == Cloud!Init => CloudInv
<1> SUFFICES ASSUME Cloud!Init PROVE CloudInv
  OBVIOUS
<1>1. PICK s : /\ ui = [session |-> s, timer |-> None, busy |-> FALSE, syncing |-> FALSE,
                        profile |-> None, cloud |-> FALSE]
               /\ calls = {Cloud!PushSession(s)} \union Cloud!GetSession("bridge", s) \union Cloud!GetSession("notify", s)
               /\ clicks = 0
  BY DEF Cloud!Init
<1>2. CloudOf(ui, calls)
  BY <1>1 DEF CloudOf
<1>3. AllProper(calls)
  BY <1>1, CloudProper, CloudUnions
<1>4. QED
  BY <1>1, <1>2, <1>3, LimitsAssumption DEF CloudInv, Base, Panels

\* Whoever persists a session ends what the dialog waits for.
LEMMA CloudPersisted ==
  ASSUME CloudOf(ui, calls), NEW s, NEW w, w = Cloud!Persisted(ui, s)
  PROVE  DOMAIN w = DOMAIN ui /\ w.busy = FALSE /\ w.syncing = ui.syncing
<1>1. PICK v : v = [ui EXCEPT !.session = s, !.busy = FALSE]
  OBVIOUS
<1>2. DOMAIN v = DOMAIN ui /\ v.busy = FALSE /\ v.syncing = ui.syncing
  BY <1>1 DEF CloudOf
<1>3. w = v \/ w = [v EXCEPT !.timer = None]
  BY <1>1 DEF Cloud!Persisted, Cloud!TimerAfterPush
<1>4. QED
  BY <1>2, <1>3 DEF CloudOf

\* What is left of the calls once c has ended, and what it sent.
LEMMA CloudLeft ==
  ASSUME CloudOf(ui, calls), NEW c \in calls, NEW u, NEW new,
         DOMAIN u = DOMAIN ui, u.busy # FALSE => u.busy = ui.busy,
         u.syncing # FALSE => u.syncing = ui.syncing,
         u.busy # FALSE /\ CloudMarks(c) => \E d \in new : CloudMarks(d),
         u.syncing # FALSE => ~CloudSyncs(c)
  PROVE  CloudOf(u, (calls \ {c}) \union new)
<1>1. QED
  BY DEF CloudOf

LEMMA CloudGone ==
  ASSUME CloudInv, NEW c, NEW u, NEW new, NEW spoils,
         Cloud!Goes(c, u, new, {}, spoils), AllProper(new),
         DOMAIN u = DOMAIN ui, u.busy # FALSE => u.busy = ui.busy,
         u.syncing # FALSE => u.syncing = ui.syncing,
         u.busy # FALSE /\ CloudMarks(c) => \E d \in new : CloudMarks(d),
         u.syncing # FALSE => ~CloudSyncs(c)
  PROVE  CloudInv'
<1>1. c \in calls
  BY DEF Cloud!Goes
<1>2. CloudOf(u, (calls \ {c}) \union new)
  BY <1>1, CloudLeft DEF CloudInv
<1>3. QED
  BY <1>2, CloudSends

LEMMA CloudHandle ==
  ASSUME CloudInv,
         \/ Cloud!TimePasses \/ Cloud!RefreshTimer \/ Cloud!OpenDialog
         \/ Cloud!HandleSignIn \/ Cloud!HandleSignUp \/ Cloud!HandleApplyManualToken \/ Cloud!HandleOAuthLogin
         \/ Cloud!ProcessOAuthHash \/ Cloud!HandleSignOut \/ (\E p \in Profile : Cloud!HandleUpdateProfile(p))
         \/ Cloud!Poll \/ Cloud!HandleSyncNow \/ (\E on \in BOOLEAN : Cloud!HandlePassphrase(on))
  PROVE  CloudInv'
<1>0. CloudOf(ui, calls)
  BY DEF CloudInv
<1>1. ASSUME Cloud!TimePasses PROVE CloudInv'
  <2>1. CloudOf(([ui EXCEPT !.session.age = IF @ = "fresh" THEN "due" ELSE "late"]), calls \union {})
    <3>1. PICK w : w = ([ui EXCEPT !.session.age = IF @ = "fresh" THEN "due" ELSE "late"])
      OBVIOUS
    <3>2. DOMAIN w = DOMAIN ui /\ w.busy = ui.busy /\ w.syncing = ui.syncing
      BY <1>0, <3>1 DEF CloudOf
    <3>3. PICK T : T = calls \union {}
      OBVIOUS
    <3>4. QED
      BY <1>0, <3>1, <3>2, <3>3 DEF CloudOf, Has
  <2>2. QED
    BY <1>0, <1>1, <2>1, CloudClicks, AllPropers DEF Cloud!TimePasses
<1>2. ASSUME Cloud!RefreshTimer PROVE CloudInv'
  <2>1. PICK more : more = IF ui.session = None THEN {} ELSE {Cloud!RefreshSession("timer", ui.session)}
    OBVIOUS
  <2>2. CloudOf([ui EXCEPT !.timer = None], calls \union more)
    <3>1. PICK w : w = [ui EXCEPT !.timer = None]
      OBVIOUS
    <3>2. /\ DOMAIN w = DOMAIN ui
         /\ w.session = ui.session
         /\ w.timer = (None)
         /\ w.busy = ui.busy
         /\ w.syncing = ui.syncing
         /\ w.profile = ui.profile
         /\ w.cloud = ui.cloud
      BY <1>0, <3>1 DEF CloudOf
    <3>3. PICK T : T = calls \union more
      OBVIOUS
    <3>4. QED
      BY <1>0, <2>1, <3>1, <3>2, <3>3 DEF CloudOf, Has, Fresh
  <2>3. AllProper(more)
    BY <2>1, AllPropers, CloudProper DEF Fresh
  <2>4. QED
    BY <1>0, <1>2, <2>1, <2>2, <2>3, CloudClicks DEF Cloud!RefreshTimer
<1>3. ASSUME Cloud!OpenDialog PROVE CloudInv'
  <2>1. PICK more : more = Cloud!GetSession("user", ui.session) \union Cloud!GetSession("tab", ui.session)
    OBVIOUS
  <2>2. CloudOf(ui, calls \union more)
    <3>1. PICK T : T = calls \union more
      OBVIOUS
    <3>2. QED
      BY <1>0, <2>1, <3>1 DEF CloudOf, Has, Fresh
  <2>3. AllProper(more)
    BY <2>1, AllPropers, CloudProper, CloudUnions DEF Fresh
  <2>4. QED
    BY <1>0, <1>3, <2>1, <2>2, <2>3, CloudClicks DEF Cloud!OpenDialog
<1>4. ASSUME Cloud!HandleSignIn PROVE CloudInv'
  <2>1. PICK n1 : n1 = Cloud!Detail("signIn", None) /\ Fresh(n1, "detail", "signIn", None)
    BY CloudNew DEF Cloud!Asks, CloudMarks
  <2>2. CloudMarks(n1)
    BY <1>0, <2>1, <1>4 DEF CloudOf, Has, Fresh, Cloud!HandleSignIn, Cloud!Asks, CloudMarks
  <2>3. CloudOf([ui EXCEPT !.busy = TRUE], calls \union {n1})
    <3>1. PICK w : w = [ui EXCEPT !.busy = TRUE]
      OBVIOUS
    <3>2. /\ DOMAIN w = DOMAIN ui
         /\ w.session = ui.session
         /\ w.timer = ui.timer
         /\ w.busy = (TRUE)
         /\ w.syncing = ui.syncing
         /\ w.profile = ui.profile
         /\ w.cloud = ui.cloud
      BY <1>0, <3>1 DEF CloudOf
    <3>3. PICK T : T = calls \union {n1}
      OBVIOUS
    <3>4. QED
      BY <1>0, <2>1, <2>2, <3>1, <3>2, <3>3 DEF CloudOf, Has, Fresh
  <2>4. AllProper({n1})
    BY <2>1, <2>2, AllPropers DEF Fresh
  <2>5. QED
    BY <1>0, <1>4, <2>1, <2>2, <2>3, <2>4, CloudClicks DEF Cloud!HandleSignIn, Cloud!Asks, CloudMarks
<1>5. ASSUME Cloud!HandleSignUp PROVE CloudInv'
  <2>1. PICK n1 : n1 = Cloud!Detail("signUp", None) /\ Fresh(n1, "detail", "signUp", None)
    BY CloudNew DEF Cloud!Asks, CloudMarks
  <2>2. CloudMarks(n1)
    BY <1>0, <2>1, <1>5 DEF CloudOf, Has, Fresh, Cloud!HandleSignUp, Cloud!Asks, CloudMarks
  <2>3. CloudOf([ui EXCEPT !.busy = TRUE], calls \union {n1})
    <3>1. PICK w : w = [ui EXCEPT !.busy = TRUE]
      OBVIOUS
    <3>2. /\ DOMAIN w = DOMAIN ui
         /\ w.session = ui.session
         /\ w.timer = ui.timer
         /\ w.busy = (TRUE)
         /\ w.syncing = ui.syncing
         /\ w.profile = ui.profile
         /\ w.cloud = ui.cloud
      BY <1>0, <3>1 DEF CloudOf
    <3>3. PICK T : T = calls \union {n1}
      OBVIOUS
    <3>4. QED
      BY <1>0, <2>1, <2>2, <3>1, <3>2, <3>3 DEF CloudOf, Has, Fresh
  <2>4. AllProper({n1})
    BY <2>1, <2>2, AllPropers DEF Fresh
  <2>5. QED
    BY <1>0, <1>5, <2>1, <2>2, <2>3, <2>4, CloudClicks DEF Cloud!HandleSignUp, Cloud!Asks, CloudMarks
<1>6. ASSUME Cloud!HandleApplyManualToken PROVE CloudInv'
  <2>1. PICK n1 : n1 = Cloud!Detail("callback", None) /\ Fresh(n1, "detail", "callback", None)
    BY CloudNew DEF Cloud!Asks, CloudMarks
  <2>2. CloudMarks(n1)
    BY <1>0, <2>1, <1>6 DEF CloudOf, Has, Fresh, Cloud!HandleApplyManualToken, Cloud!Asks, CloudMarks
  <2>3. CloudOf([ui EXCEPT !.busy = TRUE], calls \union {n1})
    <3>1. PICK w : w = [ui EXCEPT !.busy = TRUE]
      OBVIOUS
    <3>2. /\ DOMAIN w = DOMAIN ui
         /\ w.session = ui.session
         /\ w.timer = ui.timer
         /\ w.busy = (TRUE)
         /\ w.syncing = ui.syncing
         /\ w.profile = ui.profile
         /\ w.cloud = ui.cloud
      BY <1>0, <3>1 DEF CloudOf
    <3>3. PICK T : T = calls \union {n1}
      OBVIOUS
    <3>4. QED
      BY <1>0, <2>1, <2>2, <3>1, <3>2, <3>3 DEF CloudOf, Has, Fresh
  <2>4. AllProper({n1})
    BY <2>1, <2>2, AllPropers DEF Fresh
  <2>5. QED
    BY <1>0, <1>6, <2>1, <2>2, <2>3, <2>4, CloudClicks DEF Cloud!HandleApplyManualToken, Cloud!Asks, CloudMarks
<1>7. ASSUME Cloud!HandleOAuthLogin PROVE CloudInv'
  <2>1. PICK n1 : n1 = Cloud!Detail("popup", None) /\ Fresh(n1, "detail", "popup", None)
    BY CloudNew DEF Cloud!Asks, CloudMarks
  <2>2. CloudMarks(n1)
    BY <1>0, <2>1, <1>7 DEF CloudOf, Has, Fresh, Cloud!HandleOAuthLogin, Cloud!Asks, CloudMarks
  <2>3. CloudOf([ui EXCEPT !.busy = TRUE], calls \union {n1})
    <3>1. PICK w : w = [ui EXCEPT !.busy = TRUE]
      OBVIOUS
    <3>2. /\ DOMAIN w = DOMAIN ui
         /\ w.session = ui.session
         /\ w.timer = ui.timer
         /\ w.busy = (TRUE)
         /\ w.syncing = ui.syncing
         /\ w.profile = ui.profile
         /\ w.cloud = ui.cloud
      BY <1>0, <3>1 DEF CloudOf
    <3>3. PICK T : T = calls \union {n1}
      OBVIOUS
    <3>4. QED
      BY <1>0, <2>1, <2>2, <3>1, <3>2, <3>3 DEF CloudOf, Has, Fresh
  <2>4. AllProper({n1})
    BY <2>1, <2>2, AllPropers DEF Fresh
  <2>5. QED
    BY <1>0, <1>7, <2>1, <2>2, <2>3, <2>4, CloudClicks DEF Cloud!HandleOAuthLogin, Cloud!Asks, CloudMarks
<1>8. ASSUME Cloud!ProcessOAuthHash PROVE CloudInv'
  <2>1. PICK n1 : n1 = Cloud!Detail("callback", None) /\ Fresh(n1, "detail", "callback", None)
    BY CloudNew
  <2>2. CloudOf(ui, calls \union {n1})
    <3>1. PICK T : T = calls \union {n1}
      OBVIOUS
    <3>2. QED
      BY <1>0, <2>1, <3>1 DEF CloudOf, Has, Fresh
  <2>3. AllProper({n1})
    BY <2>1, AllPropers DEF Fresh
  <2>4. QED
    BY <1>0, <1>8, <2>1, <2>2, <2>3, CloudClicks DEF Cloud!ProcessOAuthHash
<1>9. ASSUME Cloud!HandleSignOut PROVE CloudInv'
  <2>1. PICK n1 : n1 = Cloud!Detail("logout", None) /\ Fresh(n1, "detail", "logout", None)
    BY CloudNew DEF CloudMarks
  <2>2. CloudMarks(n1)
    BY <1>0, <2>1, <1>9 DEF CloudOf, Has, Fresh, Cloud!HandleSignOut, CloudMarks
  <2>3. CloudOf([ui EXCEPT !.busy = TRUE], calls \union {n1})
    <3>1. PICK w : w = [ui EXCEPT !.busy = TRUE]
      OBVIOUS
    <3>2. /\ DOMAIN w = DOMAIN ui
         /\ w.session = ui.session
         /\ w.timer = ui.timer
         /\ w.busy = (TRUE)
         /\ w.syncing = ui.syncing
         /\ w.profile = ui.profile
         /\ w.cloud = ui.cloud
      BY <1>0, <3>1 DEF CloudOf
    <3>3. PICK T : T = calls \union {n1}
      OBVIOUS
    <3>4. QED
      BY <1>0, <2>1, <2>2, <3>1, <3>2, <3>3 DEF CloudOf, Has, Fresh
  <2>4. AllProper({n1})
    BY <2>1, <2>2, AllPropers DEF Fresh
  <2>5. QED
    BY <1>0, <1>9, <2>1, <2>2, <2>3, <2>4, CloudClicks DEF Cloud!HandleSignOut, CloudMarks
<1>10. ASSUME NEW p, Cloud!HandleUpdateProfile(p) PROVE CloudInv'
  <2>1. PICK who : who = IF Cloud!SignedIn THEN "user" ELSE "nobody"
    BY DEF Cloud!SaveUserProfile, CloudMarks
  <2>2. PICK n1 : n1 = Cloud!SaveUserProfile(p, who) /\ Fresh(n1, "act", "profile", [p |-> p, who |-> who])
    BY CloudNew DEF Cloud!SaveUserProfile, CloudMarks
  <2>3. CloudMarks(n1)
    BY <1>0, <2>1, <2>2, <1>10 DEF CloudOf, Has, Fresh, Cloud!HandleUpdateProfile, Cloud!SaveUserProfile, CloudMarks
  <2>4. CloudOf([ui EXCEPT !.busy = TRUE], calls \union {n1})
    <3>1. PICK w : w = [ui EXCEPT !.busy = TRUE]
      OBVIOUS
    <3>2. /\ DOMAIN w = DOMAIN ui
         /\ w.session = ui.session
         /\ w.timer = ui.timer
         /\ w.busy = (TRUE)
         /\ w.syncing = ui.syncing
         /\ w.profile = ui.profile
         /\ w.cloud = ui.cloud
      BY <1>0, <3>1 DEF CloudOf
    <3>3. PICK T : T = calls \union {n1}
      OBVIOUS
    <3>4. QED
      BY <1>0, <2>1, <2>2, <2>3, <3>1, <3>2, <3>3 DEF CloudOf, Has, Fresh
  <2>5. AllProper({n1})
    BY <2>1, <2>2, <2>3, AllPropers DEF Fresh
  <2>6. QED
    BY <1>0, <1>10, <2>1, <2>2, <2>3, <2>4, <2>5, CloudClicks DEF Cloud!HandleUpdateProfile, Cloud!SaveUserProfile, CloudMarks
<1>11. ASSUME Cloud!Poll PROVE CloudInv'
  <2>1. PICK n1 : n1 = Cloud!LoadOf({"status"}, "status", None) /\ Fresh(n1, "load", "status", None)
    BY CloudNew
  <2>2. CloudOf(ui, calls \union {n1})
    <3>1. PICK T : T = calls \union {n1}
      OBVIOUS
    <3>2. QED
      BY <1>0, <2>1, <3>1 DEF CloudOf, Has, Fresh
  <2>3. AllProper({n1})
    BY <2>1, AllPropers DEF Fresh
  <2>4. QED
    BY <1>0, <1>11, <2>1, <2>2, <2>3, CloudClicks DEF Cloud!Poll
<1>12. ASSUME Cloud!HandleSyncNow PROVE CloudInv'
  <2>1. PICK n1 : n1 = Cloud!LoadOf({"status"}, "status", "now") /\ Fresh(n1, "load", "status", "now")
    BY CloudNew DEF CloudSyncs, Cloud!Waits
  <2>2. CloudSyncs(n1)
    BY <1>0, <2>1, <1>12, NoneAssumption DEF CloudOf, Has, Fresh, Cloud!HandleSyncNow, CloudSyncs, Cloud!Waits
  <2>3. CloudOf([ui EXCEPT !.syncing = TRUE], calls \union {n1})
    <3>1. PICK w : w = [ui EXCEPT !.syncing = TRUE]
      OBVIOUS
    <3>2. /\ DOMAIN w = DOMAIN ui
         /\ w.session = ui.session
         /\ w.timer = ui.timer
         /\ w.busy = ui.busy
         /\ w.syncing = (TRUE)
         /\ w.profile = ui.profile
         /\ w.cloud = ui.cloud
      BY <1>0, <3>1 DEF CloudOf
    <3>3. PICK T : T = calls \union {n1}
      OBVIOUS
    <3>4. QED
      BY <1>0, <2>1, <2>2, <3>1, <3>2, <3>3 DEF CloudOf, Has, Fresh
  <2>4. AllProper({n1})
    BY <2>1, <2>2, AllPropers, NoneAssumption DEF Fresh
  <2>5. QED
    BY <1>0, <1>12, <2>1, <2>2, <2>3, <2>4, CloudClicks DEF Cloud!HandleSyncNow, CloudSyncs, Cloud!Waits
<1>13. ASSUME NEW on \in BOOLEAN, Cloud!HandlePassphrase(on) PROVE CloudInv'
  <2>1. PICK n1 : n1 = Cloud!LoadOf({"status"}, "pass", on) /\ Fresh(n1, "load", "pass", on)
    BY CloudNew DEF CloudSyncs, Cloud!Waits
  <2>2. CloudSyncs(n1)
    BY <1>0, <2>1, <1>13, NoneAssumption DEF CloudOf, Has, Fresh, Cloud!HandlePassphrase, CloudSyncs, Cloud!Waits
  <2>3. CloudOf([ui EXCEPT !.syncing = TRUE], calls \union {n1})
    <3>1. PICK w : w = [ui EXCEPT !.syncing = TRUE]
      OBVIOUS
    <3>2. /\ DOMAIN w = DOMAIN ui
         /\ w.session = ui.session
         /\ w.timer = ui.timer
         /\ w.busy = ui.busy
         /\ w.syncing = (TRUE)
         /\ w.profile = ui.profile
         /\ w.cloud = ui.cloud
      BY <1>0, <3>1 DEF CloudOf
    <3>3. PICK T : T = calls \union {n1}
      OBVIOUS
    <3>4. QED
      BY <1>0, <2>1, <2>2, <3>1, <3>2, <3>3 DEF CloudOf, Has, Fresh
  <2>4. AllProper({n1})
    BY <2>1, <2>2, AllPropers, NoneAssumption DEF Fresh
  <2>5. QED
    BY <1>0, <1>13, <2>1, <2>2, <2>3, <2>4, CloudClicks DEF Cloud!HandlePassphrase, CloudSyncs, Cloud!Waits
<1>14. QED
  BY <1>1, <1>2, <1>3, <1>4, <1>5, <1>6, <1>7, <1>8, <1>9, <1>10, <1>11, <1>12, <1>13

LEMMA CloudServed ==
  ASSUME CloudInv,
         Cloud!Serving \/ (\E c \in calls : Cloud!Fails(c))
  PROVE  CloudInv'
<1>0. CloudOf(ui, calls)
  BY DEF CloudInv
<1>1. CASE Cloud!Serving
  <2>1. PICK c \in calls : (\E s, got : Cloud!Serves(c, s, got))
    BY <1>1 DEF Cloud!Serving
  <2>2. c \in calls => \A at, got : CloudOf(ui, Answered(c, at, got))
    BY <1>0, AnsweredAlike, CloudAlike
  <2>3. QED
    BY <2>1, <2>2, CloudServes DEF Cloud!Serves
<1>2. CASE \E c \in calls : Cloud!Fails(c)
  <2>1. PICK c \in calls : Cloud!Fails(c)
    BY <1>2
  <2>2. CloudOf(ui, Answered(c, "failed", c.got))
    BY <1>0, <2>1, AnsweredAlike, CloudAlike DEF Cloud!Fails
  <2>3. QED
    BY <2>1, <2>2, CloudFails
<1>3. QED
  BY <1>1, <1>2

LEMMA CloudRefreshed ==
  ASSUME CloudInv, NEW c, Cloud!RefreshReturns(c)
  PROVE  CloudInv'
<1>0. CloudOf(ui, calls)
  BY DEF CloudInv
<1>1. PICK s : s = IF Cloud!Ok(c) THEN Cloud!New(c.got.token) ELSE ui.session
  OBVIOUS
<1>2. PICK tells \in BOOLEAN : tells = (c.arg.by = "dialog" /\ s # None)
  OBVIOUS
<1>3. PICK u : u = CASE Cloud!Ok(c) -> Cloud!Persisted(ui, s)
             [] ~Cloud!Ok(c) /\ c.arg.by = "timer" -> [ui EXCEPT !.timer = None]
             [] ~Cloud!Ok(c) /\ c.arg.by = "dialog" /\ ~tells -> [ui EXCEPT !.busy = FALSE]
             [] OTHER -> ui
  OBVIOUS
<1>4. PICK new : new = (IF Cloud!Ok(c) THEN Cloud!Persists(s) ELSE {})
                         \union (IF tells THEN {Cloud!UpdateUserProfile(s, TRUE)} ELSE {})
  OBVIOUS
<1>5. c.op = "refresh" /\ Cloud!Goes(c, u, new, {}, FALSE)
  BY <1>1, <1>2, <1>3, <1>4 DEF Cloud!RefreshReturns
<1>6. PICK n : /\ n = Cloud!UpdateUserProfile(s, TRUE)
               /\ Fresh(n, "detail", "update", [token |-> s.token, again |-> TRUE])
  BY CloudNew DEF Cloud!UpdateUserProfile
<1>7. AllProper(new)
  <2>1. AllProper(IF Cloud!Ok(c) THEN Cloud!Persists(s) ELSE {})
    BY CloudProper, AllPropers
  <2>2. AllProper(IF tells THEN {n} ELSE {})
    BY <1>6, AllPropers DEF Fresh
  <2>3. QED
    BY <1>4, <1>6, <2>1, <2>2, CloudUnions
<1>8. ~CloudSyncs(c) /\ (CloudMarks(c) => c.arg.by = "dialog") /\ CloudMarks(n)
  BY <1>5, <1>6 DEF CloudSyncs, CloudMarks, Fresh
<1>9. /\ DOMAIN u = DOMAIN ui
      /\ u.busy # FALSE => u.busy = ui.busy
      /\ u.syncing = ui.syncing
      /\ u.busy # FALSE /\ CloudMarks(c) => tells
  <2>1. CASE Cloud!Ok(c)
    <3>1. u = Cloud!Persisted(ui, s)
      BY <1>3, <2>1
    <3>2. QED
      BY <1>0, <3>1, CloudPersisted
  <2>2. CASE ~Cloud!Ok(c) /\ c.arg.by = "timer"
    <3>1. u = [ui EXCEPT !.timer = None]
      BY <1>3, <2>2
    <3>2. QED
      BY <1>0, <1>8, <2>2, <3>1 DEF CloudOf
  <2>3. CASE ~Cloud!Ok(c) /\ c.arg.by = "dialog" /\ ~tells
    <3>1. u = [ui EXCEPT !.busy = FALSE]
      BY <1>3, <2>3
    <3>2. QED
      BY <1>0, <3>1 DEF CloudOf
  <2>4. CASE ~Cloud!Ok(c) /\ c.arg.by # "timer" /\ ~(c.arg.by = "dialog" /\ ~tells)
    <3>1. u = ui
      BY <1>3, <2>4
    <3>2. QED
      BY <1>8, <2>4, <3>1
  <2>5. QED
    BY <2>1, <2>2, <2>3, <2>4
<1>10. u.busy # FALSE /\ CloudMarks(c) => \E d \in new : CloudMarks(d)
  BY <1>4, <1>6, <1>8, <1>9
<1>11. QED
  BY <1>5, <1>7, <1>8, <1>9, <1>10, CloudGone

LEMMA CloudSignedIn ==
  ASSUME CloudInv, NEW c, Cloud!SignInReturns(c)
  PROVE  CloudInv'
<1>0. CloudOf(ui, calls)
  BY DEF CloudInv
<1>1. PICK s : s = Cloud!New(c.got.token)
  OBVIOUS
<1>2. ~CloudSyncs(c)
  BY DEF Cloud!SignInReturns, CloudSyncs
<1>3. CASE Cloud!Goes(c, Cloud!Persisted(ui, s), Cloud!Persists(s), {}, FALSE)
  <2>1. PICK w : w = Cloud!Persisted(ui, s)
    OBVIOUS
  <2>2. DOMAIN w = DOMAIN ui /\ w.busy = FALSE /\ w.syncing = ui.syncing
    BY <1>0, <2>1, CloudPersisted
  <2>3. QED
    BY <1>2, <1>3, <2>1, <2>2, CloudGone, CloudProper
<1>4. ASSUME NEW p, Cloud!Goes(c, [Cloud!Persisted(ui, s) EXCEPT !.profile = p],
                          Cloud!Persists(s) \union {Cloud!SaveUserProfile(p, "app")}, {}, FALSE)
      PROVE  CloudInv'
  <2>1. PICK v : v = Cloud!Persisted(ui, s)
    OBVIOUS
  <2>2. PICK w : w = [v EXCEPT !.profile = p]
    OBVIOUS
  <2>3. DOMAIN v = DOMAIN ui /\ v.busy = FALSE /\ v.syncing = ui.syncing
    BY <1>0, <2>1, CloudPersisted
  <2>4. DOMAIN w = DOMAIN ui /\ w.busy = FALSE /\ w.syncing = ui.syncing
    BY <1>0, <2>2, <2>3 DEF CloudOf
  <2>5. AllProper({Cloud!SaveUserProfile(p, "app")})
    BY CloudNew, AllPropers DEF Cloud!SaveUserProfile, Fresh
  <2>6. AllProper(Cloud!Persists(s) \union {Cloud!SaveUserProfile(p, "app")})
    BY <2>5, CloudProper, CloudUnions
  <2>7. QED
    BY <1>2, <1>4, <2>1, <2>2, <2>4, <2>6, CloudGone
<1>5. CASE Cloud!Goes(c, [ui EXCEPT !.busy = FALSE], {}, {}, FALSE)
  <2>1. PICK w : w = [ui EXCEPT !.busy = FALSE]
    OBVIOUS
  <2>2. DOMAIN w = DOMAIN ui /\ w.busy = FALSE /\ w.syncing = ui.syncing
    BY <1>0, <2>1 DEF CloudOf
  <2>3. QED
    BY <1>2, <1>5, <2>1, <2>2, CloudGone, AllPropers
<1>6. QED
  BY <1>1, <1>3, <1>4, <1>5 DEF Cloud!SignInReturns

LEMMA CloudLoggedOut ==
  ASSUME CloudInv, NEW c, Cloud!LogoutReturns(c)
  PROVE  CloudInv'
<1>1. PICK w : w = Cloud!Persisted(ui, None)
  OBVIOUS
<1>2. DOMAIN w = DOMAIN ui /\ w.busy = FALSE /\ w.syncing = ui.syncing
  BY <1>1, CloudPersisted DEF CloudInv
<1>3. Cloud!Goes(c, w, Cloud!Persists(None), {}, FALSE) /\ ~CloudSyncs(c)
  BY <1>1 DEF Cloud!LogoutReturns, CloudSyncs
<1>4. QED
  BY <1>2, <1>3, CloudGone, CloudProper

LEMMA CloudUpdated ==
  ASSUME CloudInv, NEW c, Cloud!UpdateReturns(c)
  PROVE  CloudInv'
<1>0. CloudOf(ui, calls)
  BY DEF CloudInv
<1>1. ~CloudSyncs(c)
  BY DEF Cloud!UpdateReturns, CloudSyncs
<1>2. CASE Cloud!Goes(c, Cloud!Persisted(ui, ui.session), Cloud!Persists(ui.session), {}, FALSE)
  <2>1. PICK w : w = Cloud!Persisted(ui, ui.session)
    OBVIOUS
  <2>2. DOMAIN w = DOMAIN ui /\ w.busy = FALSE /\ w.syncing = ui.syncing
    BY <1>0, <2>1, CloudPersisted
  <2>3. QED
    BY <1>1, <1>2, <2>1, <2>2, CloudGone, CloudProper
<1>3. CASE Cloud!Goes(c, [ui EXCEPT !.busy = FALSE], {}, {}, FALSE)
  <2>1. PICK w : w = [ui EXCEPT !.busy = FALSE]
    OBVIOUS
  <2>2. DOMAIN w = DOMAIN ui /\ w.busy = FALSE /\ w.syncing = ui.syncing
    BY <1>0, <2>1 DEF CloudOf
  <2>3. QED
    BY <1>1, <1>3, <2>1, <2>2, CloudGone, AllPropers
<1>4. CASE Cloud!Goes(c, ui, {Cloud!RefreshSession("dialog", ui.session)}, {}, FALSE)
  <2>1. PICK n : /\ n = Cloud!RefreshSession("dialog", ui.session)
                 /\ Fresh(n, "detail", "refresh", [token |-> ui.session.token, by |-> "dialog"])
    BY CloudNew DEF Cloud!RefreshSession
  <2>2. CloudMarks(n) /\ AllProper({n})
    BY <2>1, AllPropers DEF CloudMarks, Fresh
  <2>3. QED
    BY <1>1, <1>4, <2>1, <2>2, CloudGone
<1>5. QED
  BY <1>2, <1>3, <1>4 DEF Cloud!UpdateReturns

LEMMA CloudProfiled ==
  ASSUME CloudInv, NEW c, Cloud!ProfileReturns(c)
  PROVE  CloudInv'
<1>0. CloudOf(ui, calls)
  BY DEF CloudInv
<1>1. c.op = "profile" /\ ~CloudSyncs(c) /\ (CloudMarks(c) => c.arg.who # "app")
  BY DEF Cloud!ProfileReturns, CloudSyncs, CloudMarks
<1>2. PICK u : u = [ui EXCEPT !.profile = IF c.arg.who # "app" \/ ~(c.at = "failed") THEN c.arg.p ELSE @]
  OBVIOUS
<1>3. DOMAIN u = DOMAIN ui /\ u.busy = ui.busy /\ u.syncing = ui.syncing
  BY <1>0, <1>2 DEF CloudOf
<1>4. CASE c.arg.who = "user" /\ Cloud!SignedIn
  <2>1. PICK n : /\ n = Cloud!UpdateUserProfile(ui.session, FALSE)
                 /\ Fresh(n, "detail", "update", [token |-> ui.session.token, again |-> FALSE])
    BY CloudNew DEF Cloud!UpdateUserProfile
  <2>2. CloudMarks(n) /\ AllProper({n})
    BY <2>1, AllPropers DEF CloudMarks, Fresh
  <2>3. Cloud!Goes(c, u, {n}, {}, c.at = "failed")
    BY <1>2, <1>4, <2>1 DEF Cloud!ProfileReturns
  <2>4. QED
    BY <1>1, <1>3, <2>2, <2>3, CloudGone
<1>5. CASE ~(c.arg.who = "user" /\ Cloud!SignedIn)
  <2>1. PICK w : w = IF c.arg.who # "app" THEN [u EXCEPT !.busy = FALSE] ELSE u
    OBVIOUS
  <2>2. /\ DOMAIN w = DOMAIN ui /\ w.syncing = ui.syncing
        /\ w.busy # FALSE => w.busy = ui.busy /\ c.arg.who = "app"
    BY <1>0, <1>3, <2>1 DEF CloudOf
  <2>3. Cloud!Goes(c, w, {}, {}, c.at = "failed")
    BY <1>2, <1>5, <2>1 DEF Cloud!ProfileReturns
  <2>4. QED
    BY <1>1, <2>2, <2>3, CloudGone, AllPropers
<1>6. QED
  BY <1>4, <1>5

LEMMA CloudReturned ==
  ASSUME CloudInv,
         Cloud!Returns
  PROVE  CloudInv'
<1>0. CloudOf(ui, calls)
  BY DEF CloudInv
<1>1. CASE \E c \in calls : Cloud!RefreshReturns(c) \/ Cloud!SignInReturns(c) \/ Cloud!LogoutReturns(c)
  BY <1>1, CloudRefreshed, CloudSignedIn, CloudLoggedOut
<1>2. CASE \E c \in calls : Cloud!ProfileReturns(c) \/ Cloud!UpdateReturns(c)
  BY <1>2, CloudProfiled, CloudUpdated
<1>3. ASSUME NEW c \in calls, Cloud!PopupReturns(c) PROVE CloudInv'
  <2>1. c.op = "popup"
    BY <1>0, <1>3 DEF CloudOf, Cloud!PopupReturns, CloudMarks, CloudSyncs
  <2>2. PICK n1 : n1 = Cloud!Detail("callback", None) /\ Fresh(n1, "detail", "callback", None)
    BY CloudNew DEF CloudMarks, CloudSyncs
  <2>3. CloudMarks(n1) /\ ~CloudSyncs(c)
    BY <1>0, <2>1, <2>2, <1>3 DEF CloudOf, Has, Fresh, Cloud!PopupReturns, CloudMarks, CloudSyncs
  <2>4. Cloud!Ok(c) => CloudOf(ui, (calls \ {c}) \union {n1})
    <3> SUFFICES ASSUME Cloud!Ok(c) PROVE CloudOf(ui, (calls \ {c}) \union {n1})
      OBVIOUS
    <3>1. PICK T : T = (calls \ {c}) \union {n1}
      OBVIOUS
    <3>2. QED
      BY <1>0, <2>1, <2>2, <2>3, <3>1 DEF CloudOf, Has, Fresh
  <2>5. AllProper({n1})
    BY <2>1, <2>2, <2>3, AllPropers DEF Fresh
  <2>6. ~Cloud!Ok(c) => CloudOf([ui EXCEPT !.busy = FALSE], calls \ {c})
    <3> SUFFICES ASSUME ~Cloud!Ok(c) PROVE CloudOf([ui EXCEPT !.busy = FALSE], calls \ {c})
      OBVIOUS
    <3>1. PICK w : w = [ui EXCEPT !.busy = FALSE]
      OBVIOUS
    <3>2. /\ DOMAIN w = DOMAIN ui
         /\ w.session = ui.session
         /\ w.timer = ui.timer
         /\ w.busy = (FALSE)
         /\ w.syncing = ui.syncing
         /\ w.profile = ui.profile
         /\ w.cloud = ui.cloud
      BY <1>0, <3>1, <2>1 DEF CloudOf
    <3>3. PICK T : T = calls \ {c}
      OBVIOUS
    <3>4. QED
      BY <1>0, <2>1, <2>2, <2>3, <3>1, <3>2, <3>3 DEF CloudOf, Has, Fresh
  <2>7. QED
    BY <1>0, <1>3, <2>1, <2>2, <2>3, <2>4, <2>5, <2>6, CloudEnds, CloudSends, AllPropers DEF Cloud!PopupReturns, CloudMarks, CloudSyncs
<1>4. ASSUME NEW c \in calls, Cloud!PushReturns(c) PROVE CloudInv'
  <2>1. c.op = "push"
    BY <1>0, <1>4 DEF CloudOf, Cloud!PushReturns, CloudMarks, CloudSyncs
  <2>2. ~CloudMarks(c) /\ ~CloudSyncs(c)
    BY <1>0, <2>1, <1>4 DEF CloudOf, Has, Fresh, Cloud!PushReturns, CloudMarks, CloudSyncs
  <2>3. CloudOf([ui EXCEPT !.timer = IF c.arg = None THEN @ ELSE c.arg], calls \ {c})
    <3>1. PICK w : w = [ui EXCEPT !.timer = IF c.arg = None THEN @ ELSE c.arg]
      OBVIOUS
    <3>2. /\ DOMAIN w = DOMAIN ui
         /\ w.session = ui.session
         /\ w.timer = (IF c.arg = None THEN ui.timer ELSE c.arg)
         /\ w.busy = ui.busy
         /\ w.syncing = ui.syncing
         /\ w.profile = ui.profile
         /\ w.cloud = ui.cloud
      BY <1>0, <3>1, <2>1 DEF CloudOf
    <3>3. PICK T : T = calls \ {c}
      OBVIOUS
    <3>4. QED
      BY <1>0, <2>1, <2>2, <3>1, <3>2, <3>3 DEF CloudOf, Has
  <2>4. QED
    BY <1>0, <1>4, <2>1, <2>2, <2>3, CloudEnds, AllPropers DEF Cloud!PushReturns, CloudMarks, CloudSyncs
<1>5. ASSUME NEW c \in calls, Cloud!StatusReturns(c) PROVE CloudInv'
  <2>1. c.op \in {"status", "pass"}
    BY <1>0, <1>5 DEF CloudOf, Cloud!StatusReturns, CloudMarks, CloudSyncs
  <2>2. ~CloudMarks(c) /\ (CloudSyncs(c) => c.arg # None)
    BY <1>0, <2>1, <1>5 DEF CloudOf, Has, Fresh, Cloud!StatusReturns, CloudMarks, CloudSyncs
  <2>3. CloudOf([ui EXCEPT !.cloud = IF c.at = "served" THEN c.got ELSE @,
                        !.syncing = IF c.arg = None THEN @ ELSE FALSE], calls \ {c})
    <3>1. PICK w : w = [ui EXCEPT !.cloud = IF c.at = "served" THEN c.got ELSE @,
                        !.syncing = IF c.arg = None THEN @ ELSE FALSE]
      OBVIOUS
    <3>2. /\ DOMAIN w = DOMAIN ui
         /\ w.session = ui.session
         /\ w.timer = ui.timer
         /\ w.busy = ui.busy
         /\ w.syncing = (IF c.arg = None THEN ui.syncing ELSE FALSE)
         /\ w.profile = ui.profile
         /\ w.cloud = (IF c.at = "served" THEN c.got ELSE ui.cloud)
      BY <1>0, <3>1, <2>1 DEF CloudOf
    <3>3. PICK T : T = calls \ {c}
      OBVIOUS
    <3>4. QED
      BY <1>0, <2>1, <2>2, <3>1, <3>2, <3>3 DEF CloudOf, Has
  <2>4. QED
    BY <1>0, <1>5, <2>1, <2>2, <2>3, CloudEnds, AllPropers DEF Cloud!StatusReturns, CloudMarks, CloudSyncs
<1>6. QED
  BY <1>1, <1>2, <1>3, <1>4, <1>5 DEF Cloud!Returns

LEMMA CloudStep == CloudInv /\ Cloud!Next => CloudInv'
  BY CloudHandle, CloudServed, CloudReturned DEF Cloud!Next

(***************************************************************************)
(* The conversations of the app.                                           *)
(***************************************************************************)
\* A conversation of a list.
ListRow(i) == i = [id |-> i.id, name |-> i.name, online |-> i.online]
ListRows(L) == \A i \in L : ListRow(i)

\* The calls that the marker of the app waits for.
ListMarks(c) ==
  c.op \in {"create", "delete", "remove", "rename"} \/ (c.op = "get_snapshot" /\ c.arg = TRUE)

(* Who is selected is listed once that is sure, and lists are made of       *)
(* conversations.                                                           *)
ListOf(u, S) ==
  /\ DOMAIN u = {"list", "selected", "sure", "busy"}
  /\ u.sure \in BOOLEAN
  /\ ListRows(u.list)
  /\ u.sure = FALSE \/ u.selected = None \/ u.selected \in List!Ids(u.list)
  /\ u.busy # None => \E c \in S : ListMarks(c)
  /\ \A c \in S : c.op \in {"create", "get_snapshot", "reload"} /\ c.at = "served" => ListRows(c.got)
  /\ \A c \in S : c.op = "delete" => ListRow(c.arg)

ListInv == Base(ClicksOf["list"]) /\ ListOf(ui, calls)

LEMMA ListKeeps ==
  ASSUME ListInv, NEW u, NEW S, Moves(u, S, ClicksOf["list"]), ListOf(u, S)
  PROVE  ListInv'
<1>0. Follows(S) /\ ui' = u
  BY DEF Moves
<1>1. ListOf(u, calls') /\ ui' = u
  <2>1. QED
    BY <1>0 DEF ListOf, Follows, Twin, Has, ListRow, ListRows, ListMarks
<1>2. Base(ClicksOf["list"])'
  BY LimitsAssumption DEF Moves, Follows, Base, AllProper, Panels, ListInv
<1>3. QED
  BY <1>1, <1>2 DEF ListInv

LEMMA ListTurns ==
  ASSUME ListInv, NEW u, NEW new, NEW gone, List!Turns(u, new, gone), AllProper(new), ListOf(u, (calls \ gone) \union new)
  PROVE  ListInv'
<1>1. Moves(u, (calls \ gone) \union new, ClicksOf["list"])
  BY TurnMoves DEF ListInv, List!Turns, List!Joined, P!Joined, List!Disturbed, P!Disturbed, List!Clash, P!Clash, List!Touched, P!Touched
<1>2. QED
  BY <1>1, ListKeeps

LEMMA ListRowsListed == List!Rows \subseteq ui.list
  BY DEF List!Rows, List!ProjectRows, List!RecentRows

LEMMA ListClicks ==
  ASSUME ListInv, NEW u, NEW new, List!Clicks(u, new), AllProper(new), ListOf(u, calls \union new)
  PROVE  ListInv'
<1>1. List!Turns(u, new, {}) /\ (calls \ {}) \union new = calls \union new
  BY DEF List!Clicks
<1>2. QED
  BY <1>1, ListTurns

LEMMA ListShows ==
  ASSUME ListInv, NEW u, List!Shows(u), ListOf(u, calls)
  PROVE  ListInv'
<1>1. Moves(u, calls, ClicksOf["list"])
  BY ShowMoves DEF ListInv, List!Shows
<1>2. QED
  BY <1>1, ListKeeps

LEMMA ListChanges ==
  ASSUME ListInv, NEW parts, NEW s, List!ChangedElsewhere(parts, s)
  PROVE  ListInv'
<1>1. Moves(ui, calls, ClicksOf["list"])
  BY ChangeMoves DEF ListInv, List!ChangedElsewhere, List!Disturbed, P!Disturbed
<1>2. QED
  BY <1>1, ListKeeps DEF ListInv

LEMMA ListServes ==
  ASSUME ListInv, NEW c, NEW s, NEW got, List!Serves(c, s, got), ListOf(ui, Answered(c, "served", got))
  PROVE  ListInv'
<1>1. Moves(ui, Answered(c, "served", got), ClicksOf["list"])
  BY ServeMoves DEF ListInv, List!Serves
<1>2. QED
  BY <1>1, ListKeeps

LEMMA ListFails ==
  ASSUME ListInv, NEW c, List!Fails(c), ListOf(ui, Answered(c, "failed", c.got))
  PROVE  ListInv'
<1>1. Moves(ui, Answered(c, "failed", c.got), ClicksOf["list"])
  BY FailMoves DEF ListInv, List!Fails
<1>2. QED
  BY <1>1, ListKeeps

LEMMA ListGoes ==
  ASSUME ListInv, NEW c, NEW u, NEW new, NEW gone, NEW spoils, 
         List!Goes(c, u, new, gone, spoils), AllProper(new), ListOf(u, (calls \ ({c} \union gone)) \union new)
  PROVE  ListInv'
<1>1. Moves(u, (calls \ ({c} \union gone)) \union new, ClicksOf["list"])
  BY GoMoves DEF ListInv, List!Goes, List!Joined, P!Joined, List!Disturbed, P!Disturbed, List!Clash, P!Clash, List!Touched, P!Touched
<1>2. QED
  BY <1>1, ListKeeps

LEMMA ListSends ==
  ASSUME ListInv, NEW c, NEW u, NEW new, NEW spoils, List!Goes(c, u, new, {}, spoils), AllProper(new),
         ListOf(u, (calls \ {c}) \union new)
  PROVE  ListInv'
<1>1. (calls \ ({c} \union {})) \union new = (calls \ {c}) \union new
  OBVIOUS
<1>2. QED
  BY <1>1, ListGoes

LEMMA ListEnds ==
  ASSUME ListInv, NEW c, NEW u, NEW spoils, List!Goes(c, u, {}, {}, spoils), ListOf(u, calls \ {c})
  PROVE  ListInv'
<1>1. AllProper({}) /\ (calls \ {c}) \union {} = calls \ {c}
  BY DEF AllProper
<1>2. QED
  BY <1>1, ListSends


LEMMA ListNew ==
  /\ \A parts, op, arg : Fresh(List!ActOn(parts, op, arg), "act", op, arg)
  /\ \A op, arg : Fresh(List!Load(op, arg), "load", op, arg)
  /\ \A op, arg : Fresh(List!Act(op, arg), "act", op, arg)
  BY DEF List!ActOn, List!Load, List!Act, List!LoadOf, List!Whole, List!Sent, Fresh, Proper, IsCall

ListKept == ListRows(stored.list)

LEMMA ListRenamed ==
  ASSUME NEW L, ListRows(L), NEW x, NEW y
  PROVE  ListRows(List!Named(L, x, y)) /\ List!Ids(List!Named(L, x, y)) = List!Ids(L)
<1> DEFINE r(i) == IF i.id = x THEN [i EXCEPT !.name = y] ELSE i
<1>1. \A i \in L : ListRow(r(i)) /\ r(i).id = i.id
  <2> SUFFICES ASSUME NEW i \in L PROVE ListRow(r(i)) /\ r(i).id = i.id
    OBVIOUS
  <2>1. i = [id |-> i.id, name |-> i.name, online |-> i.online]
    BY DEF ListRows, ListRow
  <2>2. [i EXCEPT !.name = y] = [id |-> i.id, name |-> y, online |-> i.online]
    BY <2>1
  <2>3. QED
    BY <2>1, <2>2 DEF ListRow
<1>2. List!Named(L, x, y) = {r(i) : i \in L}
  BY DEF List!Named
<1> HIDE DEF r
<1>3. QED
  BY <1>1, <1>2 DEF ListRows, List!Ids

LEMMA ListLess ==
  ASSUME NEW L, ListRows(L), NEW ids
  PROVE  /\ ListRows(List!Without(L, ids))
         /\ \A s : s \in List!Ids(List!Without(L, ids)) <=> s \in List!Ids(L) /\ s \notin ids
  BY DEF ListRows, List!Without, List!Ids

LEMMA ListMore ==
  ASSUME NEW L, ListRows(L), NEW i, ListRow(i)
  PROVE  /\ ListRows(List!Without(L, {i.id}) \union {i})
         /\ \A s : s \in List!Ids(L) \/ s = i.id => s \in List!Ids(List!Without(L, {i.id}) \union {i})
<1>1. PICK W : W = List!Without(L, {i.id})
  OBVIOUS
<1>2. ListRows(W) /\ \A s : s \in List!Ids(W) <=> s \in List!Ids(L) /\ s # i.id
  BY <1>1, ListLess
<1>3. \A s : s \in List!Ids(W) \/ s = i.id => s \in List!Ids(W \union {i})
  BY DEF List!Ids
<1>4. QED
  BY <1>1, <1>2, <1>3 DEF ListRows

LEMMA ListDismissed ==
  ASSUME ListOf(ui, calls), NEW ids, NEW x \in List!Dismissed(ui, ids)
  PROVE  /\ DOMAIN x = DOMAIN ui /\ ListRows(x.list) /\ x.busy = ui.busy /\ x.sure = ui.sure
         /\ ui.sure = FALSE \/ x.selected = None \/ x.selected \in List!Ids(x.list)
<1>1. PICK L : L = List!Without(ui.list, ids)
  OBVIOUS
<1>2. PICK s \in IF ui.selected \notin ids THEN {ui.selected} ELSE IF L = {} THEN {None} ELSE List!Ids(L) :
        x = [ui EXCEPT !.list = L, !.selected = s]
  BY <1>1 DEF List!Dismissed
<1>3. ListRows(L) /\ \A t : t \in List!Ids(L) <=> t \in List!Ids(ui.list) /\ t \notin ids
  BY <1>1, ListLess DEF ListOf
<1>4. ui.sure = FALSE \/ s = None \/ s \in List!Ids(L)
  BY <1>2, <1>3 DEF ListOf
<1>5. QED
  BY <1>2, <1>3, <1>4 DEF ListOf

LEMMA ListAnswers ==
  ASSUME ListOf(ui, calls), NEW c \in calls, NEW got, NEW at,
         c.op \in {"create", "get_snapshot", "reload"} /\ at = "served" => ListRows(got)
  PROVE  ListOf(ui, Answered(c, at, got))
<1>1. PICK m : m = Marked(c, at, got)
  OBVIOUS
<1>2. m.op = c.op /\ m.arg = c.arg /\ m.at = at /\ m.got = got
  BY <1>1 DEF Marked
<1>3. ListMarks(m) <=> ListMarks(c)
  BY <1>2 DEF ListMarks
<1>4. Answered(c, at, got) = (calls \ {c}) \union {m}
  BY <1>1 DEF Answered
<1>5. ui.busy # None => \E d \in (calls \ {c}) \union {m} : ListMarks(d)
  BY <1>3 DEF ListOf
<1>6. QED
  BY <1>2, <1>4, <1>5 DEF ListOf

LEMMA ListInit == List!Init => ListInv /\ ListKept
<1> SUFFICES ASSUME List!Init PROVE ListInv /\ ListKept
  OBVIOUS
<1>1. PICK n : n = List!Refresh(FALSE) /\ Fresh(n, "load", "get_snapshot", FALSE)
  BY ListNew DEF List!Refresh
<1>2. /\ calls = {n} /\ clicks = 0 /\ DOMAIN ui = {"list", "selected", "sure", "busy"}
      /\ ui.sure = FALSE /\ ui.busy = None
  BY <1>1 DEF List!Init
<1>7. ListRows(ui.list)
  <2>1. PICK kept, s : ui = [list |-> {List!Created(id) : id \in kept}, selected |-> s, sure |-> FALSE, busy |-> None]
    BY Zenon DEF List!Init
  <2>2. ui.list = {List!Created(id) : id \in kept}
    BY <2>1
  <2>3. \A id : ListRow(List!Created(id))
    BY DEF ListRow, List!Created
  <2>4. QED
    BY <2>2, <2>3 DEF ListRows
<1>3. ListOf(ui, calls)
  BY <1>1, <1>2, <1>7 DEF ListOf, Fresh
<1>4. ListKept
  <2>1. PICK ids \in SUBSET Chat : stored = [list |-> {[List!Created(id) EXCEPT !.online = FALSE] : id \in ids}]
    BY Zenon DEF List!Init
  <2>2. \A id : ListRow([List!Created(id) EXCEPT !.online = FALSE])
    <3> SUFFICES ASSUME NEW id PROVE ListRow([List!Created(id) EXCEPT !.online = FALSE])
      OBVIOUS
    <3>1. PICK b, f : b = TRUE /\ f = FALSE
      OBVIOUS
    <3>2. List!Created(id) = [id |-> id, name |-> Untitled, online |-> b]
      BY <3>1 DEF List!Created
    <3>3. [List!Created(id) EXCEPT !.online = f] = [id |-> id, name |-> Untitled, online |-> f]
      BY <3>2
    <3>4. QED
      BY <3>1, <3>3 DEF ListRow
  <2>3. stored.list = {[List!Created(id) EXCEPT !.online = FALSE] : id \in ids}
    BY <2>1
  <2>4. QED
    BY <2>2, <2>3 DEF ListKept, ListRows
<1>5. Base(ClicksOf["list"])
  <2>1. AllProper(calls) /\ clicks = 0
    BY <1>1, <1>2, AllPropers DEF Fresh
  <2>2. QED
    BY <2>1, LimitsAssumption DEF Base, Panels
<1>6. QED
  BY <1>3, <1>4, <1>5 DEF ListInv

LEMMA ListHandle ==
  ASSUME ListInv,
         \/ (\E id \in Chat : List!SelectConversation(id))
         \/ (\E id \in Chat \union {None} : List!HandleModeChange(id))
         \/ (\E id \in Chat : List!ShellSelects(id)) \/ List!OnReload
         \/ List!Interval \/ List!CreateConversation \/ List!DeleteSelectedConversation
         \/ List!RemoveSelectedProject \/ List!RenameSelectedConversation
  PROVE  ListInv'
<1>0. ListOf(ui, calls)
  BY DEF ListInv
<1>1. ASSUME NEW x, List!SelectConversation(x) PROVE ListInv'
  <2>1. x \in List!Ids(ui.list)
    BY <1>1, ListRowsListed DEF List!SelectConversation, List!Ids
  <2>2. ListOf([ui EXCEPT !.selected = x], calls)
    <3>1. PICK w : w = [ui EXCEPT !.selected = x]
      OBVIOUS
    <3>2. /\ DOMAIN w = DOMAIN ui
         /\ w.list = ui.list
         /\ w.selected = (x) /\ w.sure = ui.sure
         /\ w.busy = ui.busy
      BY <1>0, <3>1, <2>1 DEF ListOf
    <3>3. QED
      BY <1>0, <2>1, <3>1, <3>2 DEF ListOf, Has
  <2>3. QED
    BY <1>0, <1>1, <2>1, <2>2, ListShows, AllPropers DEF List!SelectConversation
<1>2. ASSUME NEW x, List!HandleModeChange(x) PROVE ListInv'
  <2>1. x \in List!Ids(ui.list) \union {None}
    BY <1>0, <1>2 DEF ListOf, List!HandleModeChange
  <2>2. ListOf([ui EXCEPT !.selected = x], calls)
    <3>1. PICK w : w = [ui EXCEPT !.selected = x]
      OBVIOUS
    <3>2. /\ DOMAIN w = DOMAIN ui
         /\ w.list = ui.list
         /\ w.selected = (x) /\ w.sure = ui.sure
         /\ w.busy = ui.busy
      BY <1>0, <3>1, <2>1 DEF ListOf
    <3>3. QED
      BY <1>0, <2>1, <3>1, <3>2 DEF ListOf, Has
  <2>3. QED
    BY <1>0, <1>2, <2>1, <2>2, ListShows, AllPropers DEF List!HandleModeChange
<1>3. ASSUME List!Interval PROVE ListInv'
  <2>1. PICK n1 : n1 = List!Refresh(FALSE) /\ Fresh(n1, "load", "get_snapshot", FALSE)
    BY ListNew DEF List!Refresh
  <2>2. ListOf(ui, calls \union {n1})
    <3>1. PICK T : T = calls \union {n1}
      OBVIOUS
    <3>2. QED
      BY <1>0, <2>1, <3>1 DEF ListOf, Has, Fresh
  <2>3. AllProper({n1})
    BY <2>1, AllPropers DEF Fresh
  <2>4. QED
    BY <1>0, <1>3, <2>1, <2>2, <2>3, ListClicks DEF List!Interval, List!Refresh
<1>4. ASSUME List!CreateConversation PROVE ListInv'
  <2>1. PICK n1 : n1 = List!Act("create", None) /\ Fresh(n1, "act", "create", None)
    BY ListNew DEF ListMarks
  <2>2. ListMarks(n1)
    BY <1>0, <2>1, <1>4 DEF ListOf, Has, Fresh, List!CreateConversation, ListMarks
  <2>3. ListOf([ui EXCEPT !.busy = "new"], calls \union {n1})
    <3>1. PICK w : w = [ui EXCEPT !.busy = "new"]
      OBVIOUS
    <3>2. /\ DOMAIN w = DOMAIN ui
         /\ w.list = ui.list
         /\ w.selected = ui.selected /\ w.sure = ui.sure
         /\ w.busy = ("new")
      BY <1>0, <3>1 DEF ListOf
    <3>3. PICK T : T = calls \union {n1}
      OBVIOUS
    <3>4. QED
      BY <1>0, <2>1, <2>2, <3>1, <3>2, <3>3 DEF ListOf, Has, Fresh
  <2>4. AllProper({n1})
    BY <2>1, <2>2, AllPropers DEF Fresh
  <2>5. QED
    BY <1>0, <1>4, <2>1, <2>2, <2>3, <2>4, ListClicks DEF List!CreateConversation, ListMarks
<1>5. ASSUME NEW i \in ui.list, NEW x \in List!Dismissed(ui, {i.id}), List!Clicks([x EXCEPT !.busy = "delete"], {List!Act("delete", i)}) PROVE ListInv'
  <2>1. /\ DOMAIN x = DOMAIN ui /\ ListRows(x.list) /\ x.sure = ui.sure
        /\ (ui.sure = FALSE \/ x.selected = None \/ x.selected \in List!Ids(x.list))
         /\ i \in ui.list
    BY <1>0, <1>5, ListDismissed DEF ListOf, List!Clicks, ListMarks, ListRows
  <2>2. PICK n1 : n1 = List!Act("delete", i) /\ Fresh(n1, "act", "delete", i)
    BY ListNew DEF ListMarks, ListRows
  <2>3. ListMarks(n1) /\ ListRow(i)
    BY <1>0, <2>1, <2>2, <1>5, ListDismissed DEF ListOf, Has, Fresh, List!Clicks, ListMarks, ListRows
  <2>4. ListOf([x EXCEPT !.busy = "delete"], calls \union {n1})
    <3>1. PICK w : w = [x EXCEPT !.busy = "delete"]
      OBVIOUS
    <3>2. DOMAIN w = DOMAIN ui /\ w.list = x.list /\ w.selected = x.selected /\ w.sure = x.sure
      BY <1>0, <3>1, <2>1, ListDismissed DEF ListOf, ListMarks, ListRows
    <3>3. PICK T : T = calls \union {n1}
      OBVIOUS
    <3>4. QED
      BY <1>0, <2>1, <2>2, <2>3, <3>1, <3>2, <3>3 DEF ListOf, Has, Fresh
  <2>5. AllProper({n1})
    BY <2>1, <2>2, <2>3, AllPropers, ListDismissed DEF Fresh
  <2>6. QED
    BY <1>0, <1>5, <2>1, <2>2, <2>3, <2>4, <2>5, ListClicks DEF List!Clicks, ListMarks, ListRows
<1>6. ASSUME NEW ids, NEW x \in List!Dismissed(ui, ids), List!Clicks([x EXCEPT !.busy = "remove"], {List!Act("remove", ids)}) PROVE ListInv'
  <2>1. /\ DOMAIN x = DOMAIN ui /\ ListRows(x.list) /\ x.sure = ui.sure
        /\ (ui.sure = FALSE \/ x.selected = None \/ x.selected \in List!Ids(x.list))
    BY <1>0, <1>6, ListDismissed DEF ListOf, List!Clicks, ListMarks
  <2>2. PICK n1 : n1 = List!Act("remove", ids) /\ Fresh(n1, "act", "remove", ids)
    BY ListNew DEF ListMarks
  <2>3. ListMarks(n1)
    BY <1>0, <2>1, <2>2, <1>6, ListDismissed DEF ListOf, Has, Fresh, List!Clicks, ListMarks
  <2>4. ListOf([x EXCEPT !.busy = "remove"], calls \union {n1})
    <3>1. PICK w : w = [x EXCEPT !.busy = "remove"]
      OBVIOUS
    <3>2. DOMAIN w = DOMAIN ui /\ w.list = x.list /\ w.selected = x.selected /\ w.sure = x.sure
      BY <1>0, <3>1, <2>1, ListDismissed DEF ListOf, ListMarks
    <3>3. PICK T : T = calls \union {n1}
      OBVIOUS
    <3>4. QED
      BY <1>0, <2>1, <2>2, <2>3, <3>1, <3>2, <3>3 DEF ListOf, Has, Fresh
  <2>5. AllProper({n1})
    BY <2>1, <2>2, <2>3, AllPropers, ListDismissed DEF Fresh
  <2>6. QED
    BY <1>0, <1>6, <2>1, <2>2, <2>3, <2>4, <2>5, ListClicks DEF List!Clicks, ListMarks
<1>7. ASSUME NEW i \in ui.list, NEW m, List!Clicks([ui EXCEPT !.list = List!Named(@, i.id, m), !.busy = "rename"], {List!Act("rename", [id |-> i.id, name |-> m])}) PROVE ListInv'
  <2>1. PICK n1 : n1 = List!Act("rename", [id |-> i.id, name |-> m]) /\ Fresh(n1, "act", "rename", [id |-> i.id, name |-> m])
    BY ListNew DEF ListMarks
  <2>2. ListMarks(n1)
    BY <1>0, <2>1, <1>7, ListRenamed DEF ListOf, Has, Fresh, List!Clicks, ListMarks
  <2>3. ListRows(List!Named(ui.list, i.id, m)) /\ List!Ids(List!Named(ui.list, i.id, m)) = List!Ids(ui.list)
    BY <1>0, <2>1, <2>2, <1>7, ListRenamed DEF ListOf, Has, Fresh, List!Clicks, ListMarks
  <2>4. ListOf([ui EXCEPT !.list = List!Named(@, i.id, m), !.busy = "rename"], calls \union {n1})
    <3>1. PICK w : w = [ui EXCEPT !.list = List!Named(@, i.id, m), !.busy = "rename"]
      OBVIOUS
    <3>2. /\ DOMAIN w = DOMAIN ui
         /\ w.list = (List!Named(ui.list, i.id, m))
         /\ w.selected = ui.selected /\ w.sure = ui.sure
         /\ w.busy = ("rename")
      BY <1>0, <3>1 DEF ListOf
    <3>3. PICK T : T = calls \union {n1}
      OBVIOUS
    <3>4. QED
      BY <1>0, <2>1, <2>2, <2>3, <3>1, <3>2, <3>3 DEF ListOf, Has, Fresh
  <2>5. AllProper({n1})
    BY <2>1, <2>2, <2>3, AllPropers, ListRenamed DEF Fresh
  <2>6. QED
    BY <1>0, <1>7, <2>1, <2>2, <2>3, <2>4, <2>5, ListClicks DEF List!Clicks, ListMarks
<1>8. ASSUME NEW x, List!ShellSelects(x) PROVE ListInv'
  <2>1. PICK k \in BOOLEAN : k = (ui.sure /\ x \in List!Ids(ui.list))
    OBVIOUS
  <2>2. PICK w : w = [ui EXCEPT !.selected = x, !.sure = k]
    OBVIOUS
  <2>3. List!Shows(w)
    BY <1>8, <2>1, <2>2, Zenon DEF List!ShellSelects
  <2>4. /\ DOMAIN w = DOMAIN ui /\ w.list = ui.list /\ w.selected = x /\ w.sure = k /\ w.busy = ui.busy
    BY <1>0, <2>2 DEF ListOf
  <2>5. k = FALSE \/ x \in List!Ids(ui.list)
    BY <2>1
  <2>6. ListOf(w, calls)
    BY <1>0, <2>4, <2>5 DEF ListOf
  <2>7. QED
    BY <2>3, <2>6, ListShows
<1>9. ASSUME List!OnReload PROVE ListInv'
  <2>1. PICK n : n = List!Load("reload", None) /\ Fresh(n, "load", "reload", None)
    BY ListNew
  <2>2. ListOf(ui, calls \union {n})
    <3>1. PICK T : T = calls \union {n}
      OBVIOUS
    <3>2. QED
      BY <1>0, <2>1, <3>1 DEF ListOf, Has, Fresh
  <2>3. AllProper({n})
    BY <2>1, AllPropers DEF Fresh
  <2>4. QED
    BY <1>9, <2>1, <2>2, <2>3, ListClicks DEF List!OnReload
<1>10. QED
  BY <1>1, <1>2, <1>3, <1>4, <1>5, <1>6, <1>7, <1>8, <1>9, ListRowsListed DEF List!DeleteSelectedConversation, List!RemoveSelectedProject, List!RenameSelectedConversation

LEMMA ListServed ==
  ASSUME ListInv, ListKept, List!DaemonServes
  PROVE  ListInv' /\ ListKept'
<1>0. PICK c \in calls : \E s \in List!Outcomes(c) :
        List!Serves(c, s, IF c.op = "create" THEN s.list \ stored.list ELSE s.list)
  BY DEF List!DaemonServes
<1>1. PICK s \in List!Outcomes(c) :
        List!Serves(c, s, IF c.op = "create" THEN s.list \ stored.list ELSE s.list)
  BY <1>0
<1>2. ListRows(s.list)
  <2>1. CASE c.op = "create"
    <3>1. PICK x : s = [stored EXCEPT !.list = @ \union {List!Created(x)}]
      BY <1>1, <2>1 DEF List!Outcomes
    <3>2. s.list = stored.list \union {List!Created(x)} \/ s.list = stored.list
      BY <3>1
    <3>3. QED
      BY <3>2 DEF ListKept, ListRows, ListRow, List!Created
  <2>2. CASE c.op = "delete"
    <3>1. s = [stored EXCEPT !.list = List!Without(@, {c.arg.id})]
      BY <1>1, <2>2 DEF List!Outcomes
    <3>2. s.list = List!Without(stored.list, {c.arg.id}) \/ s.list = stored.list
      BY <3>1
    <3>3. QED
      BY <3>2, ListLess DEF ListKept
  <2>3. CASE c.op = "remove"
    <3>1. PICK ids : s = [stored EXCEPT !.list = List!Without(@, ids)]
      BY <1>1, <2>3 DEF List!Outcomes
    <3>2. s.list = List!Without(stored.list, ids) \/ s.list = stored.list
      BY <3>1
    <3>3. QED
      BY <3>2, ListLess DEF ListKept
  <2>4. CASE c.op = "rename"
    <3>1. s = [stored EXCEPT !.list = List!Named(@, c.arg.id, c.arg.name)]
      BY <1>1, <2>4 DEF List!Outcomes
    <3>2. s.list = List!Named(stored.list, c.arg.id, c.arg.name) \/ s.list = stored.list
      BY <3>1
    <3>3. QED
      BY <3>2, ListRenamed DEF ListKept
  <2>5. CASE c.op \notin {"create", "delete", "remove", "rename"}
    <3>1. s = stored
      BY <1>1, <2>5 DEF List!Outcomes
    <3>2. QED
      BY <3>1 DEF ListKept
  <2>6. QED
    BY <2>1, <2>2, <2>3, <2>4, <2>5
<1>3. PICK got : got = IF c.op = "create" THEN s.list \ stored.list ELSE s.list
  OBVIOUS
<1>4. ListRows(got)
  BY <1>2, <1>3 DEF ListRows
<1>5. ListOf(ui, Answered(c, "served", got))
  BY <1>4, ListAnswers DEF ListInv
<1>6. stored' = s
  BY <1>1 DEF List!Serves
<1>7. QED
  BY <1>1, <1>2, <1>3, <1>5, <1>6, ListServes DEF ListKept

LEMMA ListElsewhere ==
  ASSUME ListInv, ListKept, List!DaemonRestarts \/ List!DaemonNames
  PROVE  ListInv' /\ ListKept'
<1>1. CASE List!DaemonRestarts
  <2>1. ListInv'
    BY <1>1, ListChanges DEF List!DaemonRestarts
  <2>2. PICK s : s = [stored EXCEPT !.list = {[i EXCEPT !.online = FALSE] : i \in @}]
    OBVIOUS
  <2>3. stored' = s
    BY <1>1, <2>2 DEF List!DaemonRestarts, List!ChangedElsewhere
  <2>4. s.list = {[i EXCEPT !.online = FALSE] : i \in stored.list} \/ s.list = stored.list
    BY <2>2
  <2>5. \A i \in stored.list : ListRow([i EXCEPT !.online = FALSE])
    <3> SUFFICES ASSUME NEW i \in stored.list PROVE ListRow([i EXCEPT !.online = FALSE])
      OBVIOUS
    <3>1. i = [id |-> i.id, name |-> i.name, online |-> i.online]
      BY DEF ListKept, ListRows, ListRow
    <3>2. PICK f : f = FALSE
      OBVIOUS
    <3>3. [i EXCEPT !.online = f] = [id |-> i.id, name |-> i.name, online |-> f]
      BY <3>1
    <3>4. QED
      BY <3>2, <3>3 DEF ListRow
  <2>6. QED
    BY <2>1, <2>3, <2>4, <2>5 DEF ListKept, ListRows
<1>2. CASE List!DaemonNames
  <2>1. PICK i \in stored.list, m \in Name :
          /\ clicks < ClicksOf["list"] /\ clicks' = clicks + 1
          /\ stored' = [stored EXCEPT !.list = List!Named(@, i.id, m)]
          /\ calls' = List!Joined(calls, {[List!ActOn(List!Whole, "session_renamed", [id |-> i.id, name |-> m])
                                         EXCEPT !.at = "served"]})
          /\ ui' = ui
    BY <1>2 DEF List!DaemonNames
  <2>2. PICK n : /\ n = List!ActOn(List!Whole, "session_renamed", [id |-> i.id, name |-> m])
                 /\ Fresh(n, "act", "session_renamed", [id |-> i.id, name |-> m])
    BY ListNew
  <2>3. PICK e : e = [n EXCEPT !.at = "served"]
    OBVIOUS
  <2>4. Proper(e) /\ e.op = "session_renamed"
    BY <2>2, <2>3, Arriving DEF Fresh
  <2>5. calls' = P!Joined(calls \ {}, {e})
    <3>1. calls \ {} = calls
      OBVIOUS
    <3>2. QED
      BY <2>1, <2>2, <2>3, <3>1 DEF List!Joined, P!Joined, List!Disturbed, P!Disturbed, List!Clash, P!Clash, List!Touched, P!Touched
  <2>6. Moves(ui, (calls \ {}) \union {e}, ClicksOf["list"])
    BY <2>1, <2>4, <2>5, TurnMoves, AllPropers DEF ListInv
  <2>7. ListOf(ui, (calls \ {}) \union {e})
    BY <2>4 DEF ListInv, ListOf
  <2>8. ListInv'
    BY <2>6, <2>7, ListKeeps
  <2>9. PICK s : s = [stored EXCEPT !.list = List!Named(@, i.id, m)]
    OBVIOUS
  <2>10. s.list = List!Named(stored.list, i.id, m) \/ s.list = stored.list
    BY <2>9
  <2>11. ListRows(List!Named(stored.list, i.id, m))
    BY ListRenamed DEF ListKept
  <2>12. QED
    BY <2>1, <2>8, <2>9, <2>10, <2>11 DEF ListKept
<1>3. QED
  BY <1>1, <1>2

LEMMA ListFailed ==
  ASSUME ListInv, NEW c \in calls, List!Fails(c)
  PROVE  ListInv'
<1>1. ListOf(ui, Answered(c, "failed", c.got))
  BY ListAnswers DEF ListInv
<1>2. QED
  BY <1>1, ListFails

LEMMA ListReturned ==
  ASSUME ListInv,
         List!Returns
  PROVE  ListInv'
<1>0. ListOf(ui, calls)
  BY DEF ListInv
<1>1. ASSUME NEW c \in calls, NEW x \in List!SelectedIn(c.got), c.op = "get_snapshot", c.at = "served", List!Goes(c, List!Idle([ui EXCEPT !.list = c.got, !.selected = x, !.sure = TRUE], c.arg), {}, {}, FALSE) PROVE ListInv'
  <2>1. ListRows(c.got) /\ (x = None \/ x \in List!Ids(c.got)) /\ c.op = "get_snapshot"
    BY <1>0, <1>1 DEF ListOf, List!Goes, List!SelectedIn, List!Ids, List!Idle, ListMarks
  <2>2. ListMarks(c) => c.arg = TRUE
    BY <1>0, <2>1, <1>1 DEF ListOf, Has, Fresh, List!Goes, List!SelectedIn, List!Ids, List!Idle, ListMarks
  <2>3. ListOf(List!Idle([ui EXCEPT !.list = c.got, !.selected = x, !.sure = TRUE], c.arg), calls \ {c})
    <3>1. PICK w : w = List!Idle([ui EXCEPT !.list = c.got, !.selected = x, !.sure = TRUE], c.arg)
      OBVIOUS
    <3>2. /\ DOMAIN w = DOMAIN ui /\ w.list = c.got /\ w.selected = x /\ w.sure = TRUE /\ w.busy \in {None, ui.busy}
          /\ c.arg = TRUE => w.busy = None
      BY <1>0, <3>1, <2>1 DEF ListOf, List!SelectedIn, List!Ids, List!Idle, ListMarks
    <3>3. PICK T : T = calls \ {c}
      OBVIOUS
    <3>4. QED
      BY <1>0, <2>1, <2>2, <3>1, <3>2, <3>3 DEF ListOf, Has
  <2>4. QED
    BY <1>0, <1>1, <2>1, <2>2, <2>3, ListEnds, AllPropers DEF List!Goes, List!SelectedIn, List!Ids, List!Idle, ListMarks
<1>2. ASSUME NEW c \in calls, c.op = "get_snapshot", List!Goes(c, List!Idle(ui, c.arg), {}, {}, FALSE) PROVE ListInv'
  <2>1. c.op = "get_snapshot"
    BY <1>0, <1>2 DEF ListOf, List!Goes, List!Idle, ListMarks
  <2>2. ListMarks(c) => c.arg = TRUE
    BY <1>0, <2>1, <1>2 DEF ListOf, Has, Fresh, List!Goes, List!Idle, ListMarks
  <2>3. ListOf(List!Idle(ui, c.arg), calls \ {c})
    <3>1. PICK w : w = List!Idle(ui, c.arg)
      OBVIOUS
    <3>2. /\ DOMAIN w = DOMAIN ui /\ w.list = ui.list /\ w.selected = ui.selected /\ w.sure = ui.sure /\ w.busy \in {None, ui.busy}
          /\ c.arg = TRUE => w.busy = None
      BY <1>0, <3>1, <2>1 DEF ListOf, List!Idle, ListMarks
    <3>3. PICK T : T = calls \ {c}
      OBVIOUS
    <3>4. QED
      BY <1>0, <2>1, <2>2, <3>1, <3>2, <3>3 DEF ListOf, Has
  <2>4. QED
    BY <1>0, <1>2, <2>1, <2>2, <2>3, ListEnds, AllPropers DEF List!Goes, List!Idle, ListMarks
<1>3. ASSUME NEW c \in calls, NEW i \in c.got, c.op = "create", c.at = "served", List!Goes(c, [ui EXCEPT !.selected = i.id, !.list = List!Without(@, {i.id}) \union {i}, !.busy = None], {List!Refresh(FALSE)}, {}, FALSE) PROVE ListInv'
  <2>1. ListRow(i) /\ ListRows(ui.list)
    BY <1>0, <1>3, ListMore DEF ListOf, List!Goes, List!Refresh, ListRows
  <2>2. PICK n1 : n1 = List!Refresh(FALSE) /\ Fresh(n1, "load", "get_snapshot", FALSE)
    BY ListNew DEF List!Refresh, ListRows
  <2>3. /\ ListRows(List!Without(ui.list, {i.id}) \union {i})
       /\ i.id \in List!Ids(List!Without(ui.list, {i.id}) \union {i})
    BY <1>0, <2>1, <2>2, <1>3, ListMore DEF ListOf, Has, Fresh, List!Goes, List!Refresh, ListRows
  <2>4. ListOf([ui EXCEPT !.selected = i.id, !.list = List!Without(@, {i.id}) \union {i}, !.busy = None], (calls \ {c}) \union {n1})
    <3>1. PICK w : w = [ui EXCEPT !.selected = i.id, !.list = List!Without(@, {i.id}) \union {i}, !.busy = None]
      OBVIOUS
    <3>2. /\ DOMAIN w = DOMAIN ui
         /\ w.list = (List!Without(ui.list, {i.id}) \union {i})
         /\ w.selected = (i.id) /\ w.sure = ui.sure
         /\ w.busy = (None)
      BY <1>0, <3>1, <2>1 DEF ListOf
    <3>3. PICK T : T = (calls \ {c}) \union {n1}
      OBVIOUS
    <3>4. QED
      BY <1>0, <2>1, <2>2, <2>3, <3>1, <3>2, <3>3 DEF ListOf, Has, Fresh
  <2>5. AllProper({n1})
    BY <2>1, <2>2, <2>3, AllPropers, ListMore DEF Fresh
  <2>6. QED
    BY <1>0, <1>3, <2>1, <2>2, <2>3, <2>4, <2>5, ListSends DEF List!Goes, List!Refresh, ListRows
<1>4. ASSUME NEW c \in calls, c.op = "create", List!Goes(c, List!Idle(ui, TRUE), {}, {}, FALSE) PROVE ListInv'
  <2>1. ListOf(List!Idle(ui, TRUE), calls \ {c})
    <3>1. PICK w : w = List!Idle(ui, TRUE)
      OBVIOUS
    <3>2. DOMAIN w = DOMAIN ui /\ w.list = ui.list /\ w.selected = ui.selected /\ w.sure = ui.sure /\ w.busy = None
      BY <1>0, <3>1 DEF ListOf, List!Idle
    <3>3. PICK T : T = calls \ {c}
      OBVIOUS
    <3>4. QED
      BY <1>0, <3>1, <3>2, <3>3 DEF ListOf, Has
  <2>2. QED
    BY <1>0, <1>4, <2>1, ListEnds, AllPropers DEF List!Goes, List!Idle
<1>5. ASSUME NEW c \in calls, List!PerformReturns(c) PROVE ListInv'
  <2>1. c.op \in {"delete", "remove", "rename"} /\ ListRows(ui.list) /\ (c.op = "delete" => ListRow(c.arg))
    BY <1>0, <1>5, ListMore DEF ListOf, List!PerformReturns, List!Refresh, ListMarks, List!Idle
  <2>2. PICK n1 : n1 = List!Refresh(TRUE) /\ Fresh(n1, "load", "get_snapshot", TRUE)
    BY ListNew DEF List!Refresh, ListMarks, List!Idle
  <2>3. ListMarks(n1)
    BY <1>0, <2>1, <2>2, <1>5, ListMore DEF ListOf, Has, Fresh, List!PerformReturns, List!Refresh, ListMarks, List!Idle
  <2>4. c.op = "delete" => /\ ListRows(List!Without(ui.list, {c.arg.id}) \union {c.arg})
       /\ \A s : s \in List!Ids(ui.list) => s \in List!Ids(List!Without(ui.list, {c.arg.id}) \union {c.arg})
    BY <1>0, <2>1, <2>2, <2>3, <1>5, ListMore DEF ListOf, Has, Fresh, List!PerformReturns, List!Refresh, ListMarks, List!Idle
  <2>5. c.at = "served" \/ c.op = "remove" => ListOf(ui, (calls \ {c}) \union {n1})
    <3> SUFFICES ASSUME c.at = "served" \/ c.op = "remove" PROVE ListOf(ui, (calls \ {c}) \union {n1})
      OBVIOUS
    <3>1. PICK T : T = (calls \ {c}) \union {n1}
      OBVIOUS
    <3>2. QED
      BY <1>0, <2>1, <2>2, <2>3, <2>4, <3>1 DEF ListOf, Has, Fresh
  <2>6. AllProper({n1})
    BY <2>1, <2>2, <2>3, <2>4, AllPropers, ListMore DEF Fresh
  <2>7. ~(c.at = "served" \/ c.op = "remove") /\ c.op = "delete" => ListOf(List!Idle([ui EXCEPT !.list = List!Without(@, {c.arg.id}) \union {c.arg}], TRUE), calls \ {c})
    <3> SUFFICES ASSUME ~(c.at = "served" \/ c.op = "remove") /\ c.op = "delete" PROVE ListOf(List!Idle([ui EXCEPT !.list = List!Without(@, {c.arg.id}) \union {c.arg}], TRUE), calls \ {c})
      OBVIOUS
    <3>1. PICK w : w = List!Idle([ui EXCEPT !.list = List!Without(@, {c.arg.id}) \union {c.arg}], TRUE)
      OBVIOUS
    <3>2. /\ DOMAIN w = DOMAIN ui /\ w.list = List!Without(ui.list, {c.arg.id}) \union {c.arg}
          /\ w.selected = ui.selected /\ w.sure = ui.sure /\ w.busy = None
      BY <1>0, <3>1, <2>1, ListMore DEF ListOf, List!Refresh, ListMarks, List!Idle
    <3>3. PICK T : T = calls \ {c}
      OBVIOUS
    <3>4. QED
      BY <1>0, <2>1, <2>2, <2>3, <2>4, <3>1, <3>2, <3>3 DEF ListOf, Has, Fresh
  <2>8. ~(c.at = "served" \/ c.op = "remove") /\ c.op # "delete" => ListOf(List!Idle(ui, TRUE), calls \ {c})
    <3> SUFFICES ASSUME ~(c.at = "served" \/ c.op = "remove") /\ c.op # "delete" PROVE ListOf(List!Idle(ui, TRUE), calls \ {c})
      OBVIOUS
    <3>1. PICK w : w = List!Idle(ui, TRUE)
      OBVIOUS
    <3>2. DOMAIN w = DOMAIN ui /\ w.list = ui.list /\ w.selected = ui.selected /\ w.sure = ui.sure /\ w.busy = None
      BY <1>0, <3>1, <2>1, ListMore DEF ListOf, List!Refresh, ListMarks, List!Idle
    <3>3. PICK T : T = calls \ {c}
      OBVIOUS
    <3>4. QED
      BY <1>0, <2>1, <2>2, <2>3, <2>4, <3>1, <3>2, <3>3 DEF ListOf, Has, Fresh
  <2>9. QED
    BY <1>0, <1>5, <2>1, <2>2, <2>3, <2>4, <2>5, <2>6, <2>7, <2>8, ListEnds, ListSends, AllPropers DEF List!PerformReturns, List!Refresh, ListMarks, List!Idle
<1>6. ASSUME NEW c \in calls, List!EventArrives(c) PROVE ListInv'
  <2>1. c.op = "session_renamed" /\ ListRows(ui.list)
    BY <1>0, <1>6, ListRenamed DEF ListOf, List!EventArrives, ListMarks
  <2>2. ~ListMarks(c)
    BY <1>0, <2>1, <1>6, ListRenamed DEF ListOf, Has, Fresh, List!EventArrives, ListMarks
  <2>3. ListRows(List!Named(ui.list, c.arg.id, c.arg.name)) /\ List!Ids(List!Named(ui.list, c.arg.id, c.arg.name)) = List!Ids(ui.list)
    BY <1>0, <2>1, <2>2, <1>6, ListRenamed DEF ListOf, Has, Fresh, List!EventArrives, ListMarks
  <2>4. ListOf([ui EXCEPT !.list = List!Named(@, c.arg.id, c.arg.name)], calls \ {c})
    <3>1. PICK w : w = [ui EXCEPT !.list = List!Named(@, c.arg.id, c.arg.name)]
      OBVIOUS
    <3>2. /\ DOMAIN w = DOMAIN ui
         /\ w.list = (List!Named(ui.list, c.arg.id, c.arg.name))
         /\ w.selected = ui.selected /\ w.sure = ui.sure
         /\ w.busy = ui.busy
      BY <1>0, <3>1, <2>1 DEF ListOf
    <3>3. PICK T : T = calls \ {c}
      OBVIOUS
    <3>4. QED
      BY <1>0, <2>1, <2>2, <2>3, <3>1, <3>2, <3>3 DEF ListOf, Has
  <2>5. QED
    BY <1>0, <1>6, <2>1, <2>2, <2>3, <2>4, ListEnds, AllPropers DEF List!EventArrives, ListMarks
<1>7. ASSUME NEW c \in calls, List!ReloadReturns(c) PROVE ListInv'
  <2>1. PICK w : w = [ui EXCEPT !.list = c.got, !.sure = FALSE]
    OBVIOUS
  <2>2. PICK T : T = calls \ {c}
    OBVIOUS
  <2>3. /\ c.op = "reload" /\ ~ListMarks(c)
        /\ \/ c.at = "served" /\ List!Goes(c, w, {}, {}, FALSE)
           \/ List!Goes(c, ui, {}, {}, FALSE)
    BY <1>7, <2>1 DEF List!ReloadReturns, ListMarks
  <2>4. DOMAIN w = DOMAIN ui /\ w.list = c.got /\ w.sure = FALSE /\ w.busy = ui.busy
    BY <1>0, <2>1 DEF ListOf
  <2>5. ListOf(ui, T)
    BY <1>0, <2>2, <2>3 DEF ListOf
  <2>6. c.at = "served" => ListOf(w, T)
    BY <1>0, <2>3, <2>4, <2>5 DEF ListOf
  <2>7. QED
    BY <2>2, <2>3, <2>5, <2>6, ListEnds
<1>8. QED
  BY <1>1, <1>2, <1>3, <1>4, <1>5, <1>6, <1>7 DEF List!Returns, List!SnapshotReturns, List!CreateReturns

LEMMA ListStep == ListInv /\ ListKept /\ List!Next => ListInv' /\ ListKept'
<1> SUFFICES ASSUME ListInv, ListKept, List!Next PROVE ListInv' /\ ListKept'
  OBVIOUS
<1>1. CASE \/ (\E id \in Chat : List!SelectConversation(id) \/ List!ShellSelects(id))
           \/ (\E id \in Chat \union {None} : List!HandleModeChange(id))
  <2>1. stored' = stored
    BY <1>1 DEF List!SelectConversation, List!ShellSelects, List!HandleModeChange, List!Shows
  <2>2. QED
    BY <1>1, <2>1, ListHandle DEF ListKept
<1>2. CASE \/ List!OnReload \/ List!Interval \/ List!CreateConversation \/ List!DeleteSelectedConversation
           \/ List!RemoveSelectedProject \/ List!RenameSelectedConversation
  <2>1. stored' = stored
    BY <1>2 DEF List!OnReload, List!Interval, List!CreateConversation, List!DeleteSelectedConversation,
         List!RemoveSelectedProject, List!RenameSelectedConversation, List!Clicks, List!Turns
  <2>2. QED
    BY <1>2, <2>1, ListHandle DEF ListKept
<1>3. CASE List!Returns
  <2>1. stored' = stored
    BY <1>3 DEF List!Returns, List!SnapshotReturns, List!ReloadReturns, List!CreateReturns, List!PerformReturns, List!EventArrives, List!Goes
  <2>2. QED
    BY <1>3, <2>1, ListReturned DEF ListKept
<1>4. CASE \E c \in calls : List!Fails(c)
  <2>1. stored' = stored
    BY <1>4 DEF List!Fails
  <2>2. QED
    BY <1>4, <2>1, ListFailed DEF ListKept
<1>5. QED
  BY <1>1, <1>2, <1>3, <1>4, ListServed, ListElsewhere DEF List!Next

(***************************************************************************)
(* The forms of the settings.                                              *)
(***************************************************************************)
\* The indicators that end with a call, and where a call can come from.
SettingsStops(c, f) ==
  \/ c.op = "load" /\ f = "loading" /\ c.arg.tab \in {"general", "persona", "security"}
  \/ c.op = "load" /\ f \in c.arg.after
  \/ c.op = "save" /\ f = "saving"
  \/ c.op \in {"dream", "clear", "check", "install"} /\ f = c.arg.value
  \/ c.op \in {"enable", "pair", "revoke"} /\ f = "busy"
SettingsTied(c, tab) ==
  /\ c.op = "load" => c.arg.tab = tab /\ (tab \in {"general", "persona"} => c.arg.after = {})
  /\ c.op \in {"dream", "clear"} => tab = "security"
  /\ c.op \in {"enable", "pair", "revoke"} => tab = "lan"

(* Every indicator of the tab ends with a call that the tab itself sent: the *)
(* numbers of the tabs grow with the clicks.                                 *)
SettingsOf(u, S) ==
  /\ DOMAIN u = {"tab", "n", "flags", "copy", "field", "blocks", "lan"}
  /\ u.n \in 0..clicks
  /\ \A c \in S : c.arg.n \in 0..clicks
  /\ \A c \in S : c.arg.n = u.n => SettingsTied(c, u.tab)
  /\ \A f \in u.flags : \E c \in S : c.arg.n = u.n /\ SettingsStops(c, f)

SettingsInv == Base(ClicksOf["settings"]) /\ SettingsOf(ui, calls)

LEMMA SettingsAlike ==
  ASSUME NEW u, NEW S, NEW T, Alike(S, T), SettingsOf(u, S)
  PROVE  SettingsOf(u, T)
<1>1. QED
  BY DEF SettingsOf, Alike, Same, Has, SettingsStops, SettingsTied

LEMMA SettingsKeeps ==
  ASSUME SettingsInv, NEW u, NEW S, Moves(u, S, ClicksOf["settings"]), SettingsOf(u, S)
  PROVE  SettingsInv'
<1>1. SettingsOf(u, calls') /\ ui' = u
  BY FollowsAlike, SettingsAlike DEF Moves
<1>2. Base(ClicksOf["settings"])'
  BY LimitsAssumption DEF Moves, Follows, Base, AllProper, Panels, SettingsInv
<1>3. \A x : x \in 0..clicks => x \in 0..clicks'
  BY LimitsAssumption DEF Moves, Base, Panels, SettingsInv
<1>4. SettingsOf(ui, calls)'
  BY <1>1, <1>3 DEF SettingsOf
<1>5. QED
  BY <1>2, <1>4 DEF SettingsInv

LEMMA SettingsTurns ==
  ASSUME SettingsInv, NEW u, NEW new, NEW gone, Settings!Turns(u, new, gone), AllProper(new), SettingsOf(u, (calls \ gone) \union new)
  PROVE  SettingsInv'
<1>1. Moves(u, (calls \ gone) \union new, ClicksOf["settings"])
  BY TurnMoves DEF SettingsInv, Settings!Turns, Settings!Joined, P!Joined, Settings!Disturbed, P!Disturbed, Settings!Clash, P!Clash, Settings!Touched, P!Touched
<1>2. QED
  BY <1>1, SettingsKeeps

LEMMA SettingsClicks ==
  ASSUME SettingsInv, NEW u, NEW new, Settings!Clicks(u, new), AllProper(new), SettingsOf(u, calls \union new)
  PROVE  SettingsInv'
<1>1. Settings!Turns(u, new, {}) /\ (calls \ {}) \union new = calls \union new
  BY DEF Settings!Clicks
<1>2. QED
  BY <1>1, SettingsTurns

LEMMA SettingsShows ==
  ASSUME SettingsInv, NEW u, Settings!Shows(u), SettingsOf(u, calls)
  PROVE  SettingsInv'
<1>1. Moves(u, calls, ClicksOf["settings"])
  BY ShowMoves DEF SettingsInv, Settings!Shows
<1>2. QED
  BY <1>1, SettingsKeeps

LEMMA SettingsChanges ==
  ASSUME SettingsInv, NEW parts, NEW s, Settings!ChangedElsewhere(parts, s)
  PROVE  SettingsInv'
<1>1. Moves(ui, calls, ClicksOf["settings"])
  BY ChangeMoves DEF SettingsInv, Settings!ChangedElsewhere, Settings!Disturbed, P!Disturbed
<1>2. QED
  BY <1>1, SettingsKeeps DEF SettingsInv

LEMMA SettingsServes ==
  ASSUME SettingsInv, NEW c, NEW s, NEW got, Settings!Serves(c, s, got), SettingsOf(ui, Answered(c, "served", got))
  PROVE  SettingsInv'
<1>1. Moves(ui, Answered(c, "served", got), ClicksOf["settings"])
  BY ServeMoves DEF SettingsInv, Settings!Serves
<1>2. QED
  BY <1>1, SettingsKeeps

LEMMA SettingsFails ==
  ASSUME SettingsInv, NEW c, Settings!Fails(c), SettingsOf(ui, Answered(c, "failed", c.got))
  PROVE  SettingsInv'
<1>1. Moves(ui, Answered(c, "failed", c.got), ClicksOf["settings"])
  BY FailMoves DEF SettingsInv, Settings!Fails
<1>2. QED
  BY <1>1, SettingsKeeps

LEMMA SettingsGoes ==
  ASSUME SettingsInv, NEW c, NEW u, NEW new, NEW gone, NEW spoils, 
         Settings!Goes(c, u, new, gone, spoils), AllProper(new), SettingsOf(u, (calls \ ({c} \union gone)) \union new)
  PROVE  SettingsInv'
<1>1. Moves(u, (calls \ ({c} \union gone)) \union new, ClicksOf["settings"])
  BY GoMoves DEF SettingsInv, Settings!Goes, Settings!Joined, P!Joined, Settings!Disturbed, P!Disturbed, Settings!Clash, P!Clash, Settings!Touched, P!Touched
<1>2. QED
  BY <1>1, SettingsKeeps

LEMMA SettingsSends ==
  ASSUME SettingsInv, NEW c, NEW u, NEW new, NEW spoils, Settings!Goes(c, u, new, {}, spoils), AllProper(new),
         SettingsOf(u, (calls \ {c}) \union new)
  PROVE  SettingsInv'
<1>1. (calls \ ({c} \union {})) \union new = (calls \ {c}) \union new
  OBVIOUS
<1>2. QED
  BY <1>1, SettingsGoes

LEMMA SettingsEnds ==
  ASSUME SettingsInv, NEW c, NEW u, NEW spoils, Settings!Goes(c, u, {}, {}, spoils), SettingsOf(u, calls \ {c})
  PROVE  SettingsInv'
<1>1. AllProper({}) /\ (calls \ {c}) \union {} = calls \ {c}
  BY DEF AllProper
<1>2. QED
  BY <1>1, SettingsSends


LEMMA SettingsNew ==
  /\ \A parts, op, arg : Fresh(Settings!LoadOf(parts, op, arg), "load", op, arg)
  /\ \A parts, op, arg : Fresh(Settings!ActOn(parts, op, arg), "act", op, arg)
  BY DEF Settings!LoadOf, Settings!ActOn, Settings!Sent, Fresh, Proper, IsCall

LEMMA SettingsClear ==
  ASSUME NEW u, DOMAIN u = {"tab", "n", "flags", "copy", "field", "blocks", "lan"}, NEW f
  PROVE  /\ DOMAIN Settings!Clear(u, f) = DOMAIN u /\ Settings!Clear(u, f).n = u.n /\ Settings!Clear(u, f).tab = u.tab
         /\ Settings!Clear(u, f).flags = u.flags \ f
  BY DEF Settings!Clear

LEMMA SettingsFlags ==
  ASSUME NEW u, DOMAIN u = {"tab", "n", "flags", "copy", "field", "blocks", "lan"}, NEW f
  PROVE  /\ DOMAIN Settings!Flags(u, f) = DOMAIN u /\ Settings!Flags(u, f).n = u.n /\ Settings!Flags(u, f).tab = u.tab
         /\ Settings!Flags(u, f).flags = u.flags \union f
  BY DEF Settings!Flags

LEMMA SettingsFilled ==
  ASSUME NEW u, DOMAIN u = {"tab", "n", "flags", "copy", "field", "blocks", "lan"}, NEW got
  PROVE  /\ DOMAIN Settings!Filled(u, got) = DOMAIN u /\ Settings!Filled(u, got).n = u.n
         /\ Settings!Filled(u, got).tab = u.tab /\ Settings!Filled(u, got).flags = u.flags
<1>1. PICK x : x = [g \in DOMAIN u.field |-> IF got[g] = None THEN u.field[g] ELSE got[g]]
  OBVIOUS
<1>2. Settings!Filled(u, got) = [u EXCEPT !.copy = got, !.field = x]
  BY <1>1 DEF Settings!Filled
<1>3. QED
  BY <1>2

\* Loads by the tab that is shown.
LEMMA SettingsLoad ==
  ASSUME SettingsOf(ui, calls), NEW after, ui.tab \in {"general", "persona"} => after = {},
         NEW n, n = Settings!LoadData(ui, after)
  PROVE  /\ Proper(n) /\ n.arg.n = ui.n /\ SettingsTied(n, ui.tab)
         /\ \A f \in after : SettingsStops(n, f)
         /\ ui.tab \in {"general", "persona", "security"} => SettingsStops(n, "loading")
<1>1. Fresh(n, "load", "load", [tab |-> ui.tab, n |-> ui.n, after |-> after])
  BY SettingsNew DEF Settings!LoadData
<1>2. QED
  BY <1>1 DEF Fresh, SettingsTied, SettingsStops

LEMMA SettingsMakes ==
  ASSUME SettingsOf(ui, calls), NEW S \in SUBSET calls, NEW u, NEW new,
         DOMAIN u = DOMAIN ui, u.n = ui.n, u.tab = ui.tab,
         \A f \in u.flags : \E d \in S \union new : d.arg.n = ui.n /\ SettingsStops(d, f),
         \A d \in new : d.arg.n = ui.n /\ SettingsTied(d, ui.tab)
  PROVE  SettingsOf(u, S \union new)
<1>1. QED
  BY DEF SettingsOf

LEMMA SettingsClicked ==
  ASSUME SettingsInv, NEW u, NEW fl, NEW n, Settings!Clicks(u, {n}), Proper(n),
         DOMAIN u = DOMAIN ui, u.n = ui.n, u.tab = ui.tab, u.flags = ui.flags \union fl,
         n.arg.n = ui.n, SettingsTied(n, ui.tab), \A f \in fl : SettingsStops(n, f)
  PROVE  SettingsInv'
<1>1. \A f \in u.flags : \E d \in calls \union {n} : d.arg.n = ui.n /\ SettingsStops(d, f)
  BY DEF SettingsInv, SettingsOf
<1>2. SettingsOf(u, calls \union {n})
  BY <1>1, SettingsMakes DEF SettingsInv
<1>3. QED
  BY <1>2, SettingsClicks, AllPropers

LEMMA SettingsGone ==
  ASSUME SettingsInv, NEW c, NEW u, NEW new, NEW spoils, Settings!Goes(c, u, new, {}, spoils),
         AllProper(new), DOMAIN u = DOMAIN ui, u.n = ui.n, u.tab = ui.tab,
         \A f \in u.flags : \/ f \in ui.flags /\ (c.arg.n = ui.n => ~SettingsStops(c, f))
                            \/ \E d \in new : SettingsStops(d, f),
         \A d \in new : d.arg.n = ui.n /\ SettingsTied(d, ui.tab)
  PROVE  SettingsInv'
<1>1. \A f \in u.flags : \E d \in (calls \ {c}) \union new : d.arg.n = ui.n /\ SettingsStops(d, f)
  BY DEF SettingsInv, SettingsOf
<1>2. SettingsOf(u, (calls \ {c}) \union new)
  BY <1>1, SettingsMakes DEF SettingsInv
<1>3. QED
  BY <1>2, SettingsSends

LEMMA SettingsInit == Settings!Init => SettingsInv
<1> SUFFICES ASSUME Settings!Init PROVE SettingsInv
  OBVIOUS
<1>1. PICK n : n = Settings!LoadData(ui, {}) /\ Fresh(n, "load", "load", [tab |-> ui.tab, n |-> ui.n, after |-> {}])
  BY SettingsNew DEF Settings!LoadData
<1>2. calls = {n} /\ clicks = 0 /\ ui = Settings!Mounted("general", 0)
  BY <1>1 DEF Settings!Init
<1>3. Settings!FileOf("general") # {}
  BY DEF Settings!FileOf, Settings!Settings
<1>4. /\ DOMAIN ui = {"tab", "n", "flags", "copy", "field", "blocks", "lan"}
      /\ ui.tab = "general" /\ ui.n = 0 /\ ui.flags = {"loading"}
  BY <1>2, <1>3 DEF Settings!Mounted
<1>5. n.arg.n = 0 /\ SettingsTied(n, "general") /\ SettingsStops(n, "loading")
  BY <1>1, <1>4 DEF Fresh, SettingsTied, SettingsStops
<1>6. SettingsOf(ui, calls)
  BY <1>2, <1>4, <1>5 DEF SettingsOf
<1>7. AllProper(calls) /\ clicks = 0
  BY <1>1, <1>2, AllPropers DEF Fresh
<1>8. QED
  BY <1>6, <1>7, LimitsAssumption DEF SettingsInv, Base, Panels

\* The number of a new tab is that of no call: only its own load ends its indicator.
LEMMA SettingsTab ==
  ASSUME SettingsInv, NEW tab, Settings!SelectTab(tab)
  PROVE  SettingsInv'
<1>0. SettingsOf(ui, calls)
  BY DEF SettingsInv
<1>1. PICK u : u = Settings!Mounted(tab, clicks + 1)
  OBVIOUS
<1>2. PICK n : n = Settings!LoadData(u, {}) /\ Fresh(n, "load", "load", [tab |-> u.tab, n |-> u.n, after |-> {}])
  BY SettingsNew DEF Settings!LoadData
<1>3. Settings!Turns(u, {n}, {})
  BY <1>1, <1>2 DEF Settings!SelectTab, Settings!Clicks
<1>4. Settings!FileOf(tab) # {} => tab \in {"general", "persona", "security"}
  BY DEF Settings!FileOf
<1>5. /\ DOMAIN u = {"tab", "n", "flags", "copy", "field", "blocks", "lan"}
      /\ u.tab = tab /\ u.n = clicks + 1
      /\ \A f \in u.flags : f = "loading" /\ tab \in {"general", "persona", "security"}
  BY <1>1, <1>4 DEF Settings!Mounted
<1>6. n.arg.n = u.n /\ SettingsTied(n, u.tab) /\ \A f \in u.flags : SettingsStops(n, f)
  BY <1>2, <1>5 DEF Fresh, SettingsTied, SettingsStops
<1>7. AllProper({n})
  BY <1>2, AllPropers DEF Fresh
<1>8. Moves(u, (calls \ {}) \union {n}, ClicksOf["settings"])
  BY <1>3, <1>7, TurnMoves DEF SettingsInv, Settings!Turns, Settings!Joined, P!Joined, Settings!Disturbed, P!Disturbed, Settings!Clash, P!Clash, Settings!Touched, P!Touched
<1>9. clicks' = clicks + 1 /\ clicks \in Nat
  BY <1>3, LimitsAssumption DEF Settings!Turns, SettingsInv, Base, Panels
<1>10. \A e \in calls' : \E c \in calls \union {n} : e.op = c.op /\ e.arg = c.arg
  BY <1>8 DEF Moves, Follows, Twin
<1>11. \E e \in calls' : e.op = n.op /\ e.arg = n.arg
  BY <1>8 DEF Moves, Follows, Twin
<1>12. \A c \in calls : c.arg.n \in 0..clicks'
  BY <1>0, <1>9 DEF SettingsOf
<1>13. \A c \in calls : c.arg.n # u.n
  BY <1>0, <1>5, <1>9 DEF SettingsOf
<1>14. u.n \in 0..clicks' /\ ui' = u
  BY <1>5, <1>8, <1>9 DEF Moves
<1>15. \A e \in calls' : e.arg.n \in 0..clicks'
  BY <1>6, <1>10, <1>12, <1>14
<1>16. \A e \in calls' : e.arg.n = u.n => SettingsTied(e, u.tab)
  BY <1>6, <1>10, <1>13 DEF SettingsTied
<1>17. \A f \in u.flags : \E e \in calls' : e.arg.n = u.n /\ SettingsStops(e, f)
  BY <1>6, <1>11 DEF SettingsStops
<1>18. SettingsOf(ui, calls)'
  BY <1>5, <1>14, <1>15, <1>16, <1>17 DEF SettingsOf
<1>19. Base(ClicksOf["settings"])'
  BY <1>8, LimitsAssumption DEF Moves, Follows, Base, AllProper, Panels, SettingsInv
<1>20. QED
  BY <1>18, <1>19 DEF SettingsInv

LEMMA SettingsSaves ==
  ASSUME SettingsInv, NEW u, Settings!Saves(u), DOMAIN u = DOMAIN ui, u.n = ui.n, u.tab = ui.tab,
         u.flags = ui.flags
  PROVE  SettingsInv'
<1>0. SettingsOf(ui, calls)
  BY DEF SettingsInv
<1>1. PICK w : w = Settings!Flags(u, {"saving"})
  OBVIOUS
<1>2. DOMAIN w = DOMAIN ui /\ w.n = ui.n /\ w.tab = ui.tab /\ w.flags = ui.flags \union {"saving"}
  BY <1>0, <1>1, SettingsFlags DEF SettingsOf
<1>3. PICK n : /\ n = Settings!ActOn(Settings!FileOf(u.tab), "save", [n |-> u.n, new |-> Settings!Payload(u)])
               /\ Fresh(n, "act", "save", [n |-> u.n, new |-> Settings!Payload(u)])
  BY SettingsNew
<1>4. Proper(n) /\ n.arg.n = ui.n /\ SettingsTied(n, ui.tab) /\ SettingsStops(n, "saving")
  BY <1>3 DEF Fresh, SettingsTied, SettingsStops
<1>5. Settings!Clicks(w, {n})
  BY <1>1, <1>3 DEF Settings!Saves
<1>6. \A f \in {"saving"} : SettingsStops(n, f)
  BY <1>4
<1>7. QED
  BY <1>2, <1>4, <1>5, <1>6, SettingsClicked

LEMMA SettingsForms ==
  ASSUME SettingsInv,
         \/ \E v \in {Start, Other} : \/ \E f \in Settings!Instant : Settings!Toggle(f, v)
                                      \/ \E f \in Settings!Typed \union {"tone"} : Settings!Edit(f, v)
         \/ Settings!SaveButton
  PROVE  SettingsInv'
<1>0. SettingsOf(ui, calls)
  BY DEF SettingsInv
<1>1. ASSUME NEW f, NEW v, Settings!Toggle(f, v) PROVE SettingsInv'
  <2>1. PICK u : u = [ui EXCEPT !.field[f] = v]
    OBVIOUS
  <2>2. DOMAIN u = DOMAIN ui /\ u.n = ui.n /\ u.tab = ui.tab /\ u.flags = ui.flags
    BY <1>0, <2>1 DEF SettingsOf
  <2>3. QED
    BY <1>1, <2>1, <2>2, SettingsSaves DEF Settings!Toggle
<1>2. ASSUME NEW f, NEW v, Settings!Edit(f, v) PROVE SettingsInv'
  <2>1. PICK u : u = [ui EXCEPT !.field[f] = v]
    OBVIOUS
  <2>2. DOMAIN u = DOMAIN ui /\ u.n = ui.n /\ u.tab = ui.tab /\ u.flags = ui.flags
    BY <1>0, <2>1 DEF SettingsOf
  <2>3. SettingsOf(u, calls)
    BY <1>0, <2>2 DEF SettingsOf
  <2>4. QED
    BY <1>2, <2>1, <2>3, SettingsShows DEF Settings!Edit
<1>3. CASE Settings!SaveButton
  BY <1>3, SettingsSaves DEF Settings!SaveButton
<1>4. QED
  BY <1>1, <1>2, <1>3

LEMMA SettingsDoes ==
  ASSUME SettingsInv, NEW parts, NEW op, NEW value, NEW fl, NEW u,
         Settings!Clicks(u, {Settings!Does(parts, op, value)}),
         u = Settings!Flags(ui, fl) \/ (u = ui /\ fl = {}),
         SettingsTied([op |-> op, arg |-> [n |-> ui.n, value |-> value]], ui.tab),
         \A f \in fl : SettingsStops([op |-> op, arg |-> [n |-> ui.n, value |-> value]], f)
  PROVE  SettingsInv'
<1>1. PICK n : /\ n = Settings!Does(parts, op, value)
               /\ Fresh(n, "act", op, [n |-> ui.n, value |-> value])
  BY SettingsNew DEF Settings!Does
<1>2. Proper(n) /\ n.op = op /\ n.arg = [n |-> ui.n, value |-> value] /\ n.arg.n = ui.n
  BY <1>1 DEF Fresh
<1>3. PICK d : d = [op |-> op, arg |-> [n |-> ui.n, value |-> value]]
  OBVIOUS
<1>4. d.op = n.op /\ d.arg = n.arg
  BY <1>2, <1>3
<1>5. SettingsTied(n, ui.tab)
  BY <1>3, <1>4 DEF SettingsTied
<1>6. \A f \in fl : SettingsStops(n, f)
  BY <1>3, <1>4 DEF SettingsStops
<1>7. DOMAIN u = DOMAIN ui /\ u.n = ui.n /\ u.tab = ui.tab /\ u.flags = ui.flags \union fl
  BY SettingsFlags DEF SettingsInv, SettingsOf
<1>8. QED
  BY <1>1, <1>2, <1>5, <1>6, <1>7, SettingsClicked

LEMMA SettingsActs ==
  ASSUME SettingsInv,
         \/ Settings!RefreshSecurity \/ Settings!HandleTriggerDreaming \/ Settings!HandleClearBlocks
         \/ Settings!PollLan \/ Settings!SetEnabled \/ Settings!BeginPairing \/ Settings!RevokeDevices
         \/ Settings!HandleCheckUpdate \/ Settings!HandleInstallLocalZip
  PROVE  SettingsInv'
<1>0. SettingsOf(ui, calls)
  BY DEF SettingsInv
<1>1. CASE Settings!RefreshSecurity
  <2>1. PICK n : n = Settings!LoadData(ui, {})
    OBVIOUS
  <2>2. PICK u : u = Settings!Flags(ui, {"loading"})
    OBVIOUS
  <2>3. ui.tab = "security" /\ Settings!Clicks(u, {n})
    BY <1>1, <2>1, <2>2 DEF Settings!RefreshSecurity
  <2>4. Proper(n) /\ n.arg.n = ui.n /\ SettingsTied(n, ui.tab) /\ SettingsStops(n, "loading")
    BY <1>0, <2>1, <2>3, SettingsLoad
  <2>5. DOMAIN u = DOMAIN ui /\ u.n = ui.n /\ u.tab = ui.tab /\ u.flags = ui.flags \union {"loading"}
    BY <1>0, <2>2, SettingsFlags DEF SettingsOf
  <2>6. \A f \in {"loading"} : SettingsStops(n, f)
    BY <2>4
  <2>7. QED
    BY <2>3, <2>4, <2>5, <2>6, SettingsClicked
<1>2. CASE Settings!HandleTriggerDreaming
  <2>1. Settings!Clicks(Settings!Flags(ui, {"dreaming"}), {Settings!Does({}, "dream", "dreaming")}) /\ ui.tab = "security"
    BY <1>2 DEF Settings!HandleTriggerDreaming
  <2>2. SettingsTied([op |-> "dream", arg |-> [n |-> ui.n, value |-> "dreaming"]], ui.tab)
    BY <2>1 DEF SettingsTied
  <2>3. \A f \in {"dreaming"} : SettingsStops([op |-> "dream", arg |-> [n |-> ui.n, value |-> "dreaming"]], f)
    BY DEF SettingsStops
  <2>4. QED
    BY <2>1, <2>2, <2>3, SettingsDoes
<1>3. CASE Settings!HandleClearBlocks
  <2>1. Settings!Clicks(Settings!Flags(ui, {"clearing"}), {Settings!Does({"blocks"}, "clear", "clearing")}) /\ ui.tab = "security"
    BY <1>3 DEF Settings!HandleClearBlocks
  <2>2. SettingsTied([op |-> "clear", arg |-> [n |-> ui.n, value |-> "clearing"]], ui.tab)
    BY <2>1 DEF SettingsTied
  <2>3. \A f \in {"clearing"} : SettingsStops([op |-> "clear", arg |-> [n |-> ui.n, value |-> "clearing"]], f)
    BY DEF SettingsStops
  <2>4. QED
    BY <2>1, <2>2, <2>3, SettingsDoes
<1>4. CASE Settings!PollLan
  <2>1. PICK n : n = Settings!LoadData(ui, {})
    OBVIOUS
  <2>2. Settings!Clicks(ui, {n})
    BY <1>4, <2>1 DEF Settings!PollLan
  <2>3. Proper(n) /\ n.arg.n = ui.n /\ SettingsTied(n, ui.tab)
    BY <1>0, <2>1, SettingsLoad
  <2>4. PICK fl : fl = {}
    OBVIOUS
  <2>5. ui.flags = ui.flags \union fl /\ \A f \in fl : SettingsStops(n, f)
    BY <2>4
  <2>6. QED
    BY <2>2, <2>3, <2>5, SettingsClicked
<1>5. ASSUME NEW op \in {"enable", "pair", "revoke"}, NEW value, Settings!Runs(op, value)
      PROVE  SettingsInv'
  <2>1. Settings!Clicks(Settings!Flags(ui, {"busy"}), {Settings!Does({"lan", "pairing"}, op, value)}) /\ ui.tab = "lan"
    BY <1>5 DEF Settings!Runs
  <2>2. SettingsTied([op |-> op, arg |-> [n |-> ui.n, value |-> value]], ui.tab)
    BY <2>1, <1>5 DEF SettingsTied
  <2>3. \A f \in {"busy"} : SettingsStops([op |-> op, arg |-> [n |-> ui.n, value |-> value]], f)
    BY <1>5 DEF SettingsStops
  <2>4. QED
    BY <2>1, <2>2, <2>3, SettingsDoes
<1>6. CASE Settings!SetEnabled \/ Settings!BeginPairing \/ Settings!RevokeDevices
  BY <1>5, <1>6 DEF Settings!SetEnabled, Settings!BeginPairing, Settings!RevokeDevices
<1>7. CASE Settings!HandleCheckUpdate
  <2>1. Settings!Clicks(Settings!Flags(ui, {"checking"}), {Settings!Does({}, "check", "checking")}) 
    BY <1>7 DEF Settings!HandleCheckUpdate
  <2>2. SettingsTied([op |-> "check", arg |-> [n |-> ui.n, value |-> "checking"]], ui.tab)
    BY <2>1 DEF SettingsTied
  <2>3. \A f \in {"checking"} : SettingsStops([op |-> "check", arg |-> [n |-> ui.n, value |-> "checking"]], f)
    BY DEF SettingsStops
  <2>4. QED
    BY <2>1, <2>2, <2>3, SettingsDoes
<1>8. CASE Settings!HandleInstallLocalZip
  <2>1. \A f \in {} : SettingsStops([op |-> "pick", arg |-> [n |-> ui.n, value |-> "installing"]], f)
    OBVIOUS
  <2>2. SettingsTied([op |-> "pick", arg |-> [n |-> ui.n, value |-> "installing"]], ui.tab)
    BY DEF SettingsTied
  <2>3. QED
    BY <1>8, <2>1, <2>2, SettingsDoes DEF Settings!HandleInstallLocalZip
<1>9. QED
  BY <1>1, <1>2, <1>3, <1>4, <1>6, <1>7, <1>8

LEMMA SettingsServed ==
  ASSUME SettingsInv,
         Settings!Serving \/ Settings!CommandIsBlocked \/ Settings!PhonePairs \/ (\E c \in calls : Settings!Fails(c))
  PROVE  SettingsInv'
<1>0. SettingsOf(ui, calls)
  BY DEF SettingsInv
<1>1. CASE Settings!Serving
  <2>1. PICK c \in calls : (\E s, got : Settings!Serves(c, s, got))
    BY <1>1 DEF Settings!Serving
  <2>2. c \in calls => \A at, got : SettingsOf(ui, Answered(c, at, got))
    BY <1>0, AnsweredAlike, SettingsAlike
  <2>3. QED
    BY <2>1, <2>2, SettingsServes DEF Settings!Serves
<1>2. CASE Settings!CommandIsBlocked \/ Settings!PhonePairs
  BY <1>2, SettingsChanges DEF Settings!CommandIsBlocked, Settings!PhonePairs
<1>3. CASE \E c \in calls : Settings!Fails(c)
  <2>1. PICK c \in calls : Settings!Fails(c)
    BY <1>3
  <2>2. SettingsOf(ui, Answered(c, "failed", c.got))
    BY <1>0, <2>1, AnsweredAlike, SettingsAlike DEF Settings!Fails
  <2>3. QED
    BY <2>1, <2>2, SettingsFails
<1>4. QED
  BY <1>1, <1>2, <1>3

\* A late answer, which no tab hears.
LEMMA SettingsLate ==
  ASSUME SettingsInv, NEW c, NEW spoils, Settings!Goes(c, ui, {}, {}, spoils), c.arg.n # ui.n
  PROVE  SettingsInv'
  BY SettingsGone, AllPropers

LEMMA SettingsCleared ==
  ASSUME SettingsInv, NEW c, NEW u, NEW fl, NEW spoils, Settings!Goes(c, u, {}, {}, spoils),
         DOMAIN u = DOMAIN ui, u.n = ui.n, u.tab = ui.tab, u.flags = ui.flags \ fl,
         \A f : SettingsStops(c, f) => f \in fl
  PROVE  SettingsInv'
  BY SettingsGone, AllPropers

LEMMA SettingsLoaded ==
  ASSUME SettingsInv, NEW c \in calls, Settings!FormLoads(c) \/ Settings!SecurityLoads(c) \/ Settings!StatusLoads(c)
  PROVE  SettingsInv'
<1>0. SettingsOf(ui, calls)
  BY DEF SettingsInv
<1>1. DOMAIN ui = {"tab", "n", "flags", "copy", "field", "blocks", "lan"}
  BY <1>0 DEF SettingsOf
<1>2. c.op = "load"
  BY DEF Settings!FormLoads, Settings!SecurityLoads, Settings!StatusLoads
<1>3. CASE c.arg.n # ui.n
  <2>1. \E spoils : Settings!Goes(c, ui, {}, {}, spoils)
    BY <1>3 DEF Settings!FormLoads, Settings!SecurityLoads, Settings!StatusLoads
  <2>2. QED
    BY <1>3, <2>1, SettingsLate
<1>4. CASE c.arg.n = ui.n /\ Settings!FormLoads(c)
  <2>1. PICK u : u = Settings!Clear(ui, {"loading"})
    OBVIOUS
  <2>2. DOMAIN u = DOMAIN ui /\ u.n = ui.n /\ u.tab = ui.tab /\ u.flags = ui.flags \ {"loading"}
    BY <1>1, <2>1, SettingsClear
  <2>3. PICK w : w = Settings!Filled(u, c.got)
    OBVIOUS
  <2>4. DOMAIN w = DOMAIN ui /\ w.n = ui.n /\ w.tab = ui.tab /\ w.flags = ui.flags \ {"loading"}
    BY <1>1, <2>2, <2>3, SettingsFilled
  <2>5. c.arg.tab \in {"general", "persona"} /\ (Settings!Goes(c, w, {}, {}, FALSE) \/ Settings!Goes(c, u, {}, {}, FALSE))
    BY <1>4, <2>1, <2>3 DEF Settings!FormLoads
  <2>6. \A f : SettingsStops(c, f) => f \in {"loading"}
    <3>1. c.arg.after = {}
      BY <1>0, <1>2, <1>4, <2>5 DEF SettingsOf, SettingsTied
    <3>2. QED
      BY <1>2, <3>1 DEF SettingsStops
  <2>7. QED
    BY <2>2, <2>4, <2>5, <2>6, SettingsCleared
<1>5. CASE c.arg.n = ui.n /\ Settings!SecurityLoads(c)
  <2>1. PICK s : s = IF c.at = "served" /\ c.got.field # None THEN c.got.field
                     ELSE [f \in Settings!Settings |-> None]
    OBVIOUS
  <2>2. PICK v : v = Settings!Filled(ui, s)
    OBVIOUS
  <2>3. PICK fl : fl = {"loading"} \union c.arg.after
    OBVIOUS
  <2>4. PICK u : u = Settings!Clear(v, fl)
    OBVIOUS
  <2>5. DOMAIN v = DOMAIN ui /\ v.n = ui.n /\ v.tab = ui.tab /\ v.flags = ui.flags
    BY <1>1, <2>2, SettingsFilled
  <2>6. DOMAIN u = DOMAIN ui /\ u.n = ui.n /\ u.tab = ui.tab /\ u.flags = ui.flags \ fl
    BY <1>1, <2>4, <2>5, SettingsClear
  <2>7. PICK b : b = IF c.got.blocks = None THEN u.blocks ELSE c.got.blocks
    OBVIOUS
  <2>8. PICK w : w = [u EXCEPT !.blocks = b]
    OBVIOUS
  <2>9. DOMAIN w = DOMAIN ui /\ w.n = ui.n /\ w.tab = ui.tab /\ w.flags = ui.flags \ fl
    BY <1>1, <2>6, <2>8
  <2>10. \E spoils : Settings!Goes(c, w, {}, {}, spoils) \/ Settings!Goes(c, u, {}, {}, spoils)
    BY <1>5, <2>1, <2>2, <2>3, <2>4, <2>7, <2>8 DEF Settings!SecurityLoads
  <2>11. \A f : SettingsStops(c, f) => f \in fl
    BY <1>2, <2>3 DEF SettingsStops
  <2>12. QED
    BY <2>6, <2>9, <2>10, <2>11, SettingsCleared
<1>6. CASE c.arg.n = ui.n /\ Settings!StatusLoads(c)
  <2>1. PICK u : u = Settings!Clear(ui, c.arg.after)
    OBVIOUS
  <2>2. DOMAIN u = DOMAIN ui /\ u.n = ui.n /\ u.tab = ui.tab /\ u.flags = ui.flags \ c.arg.after
    BY <1>1, <2>1, SettingsClear
  <2>3. PICK x : x = IF c.arg.tab = "lan" /\ c.at = "served" THEN c.got ELSE u.lan
    OBVIOUS
  <2>4. PICK w : w = [u EXCEPT !.lan = x]
    OBVIOUS
  <2>5. DOMAIN w = DOMAIN ui /\ w.n = ui.n /\ w.tab = ui.tab /\ w.flags = ui.flags \ c.arg.after
    BY <1>1, <2>2, <2>4
  <2>6. c.arg.tab \in {"lan", "about"} /\ Settings!Goes(c, w, {}, {}, FALSE)
    BY <1>6, <2>1, <2>3, <2>4 DEF Settings!StatusLoads
  <2>7. \A f : SettingsStops(c, f) => f \in c.arg.after
    BY <1>2, <2>6 DEF SettingsStops
  <2>8. QED
    BY <2>5, <2>6, <2>7, SettingsCleared
<1>7. QED
  BY <1>3, <1>4, <1>5, <1>6

LEMMA SettingsSaved ==
  ASSUME SettingsInv, NEW c \in calls, Settings!SaveReturns(c)
  PROVE  SettingsInv'
<1>1. DOMAIN ui = {"tab", "n", "flags", "copy", "field", "blocks", "lan"}
  BY DEF SettingsInv, SettingsOf
<1>2. CASE c.arg.n # ui.n
  <2>1. \E spoils : Settings!Goes(c, ui, {}, {}, spoils)
    BY <1>2 DEF Settings!SaveReturns
  <2>2. QED
    BY <1>2, <2>1, SettingsLate
<1>3. CASE c.arg.n = ui.n
  <2>1. PICK u : u = Settings!Clear(ui, {"saving"})
    OBVIOUS
  <2>2. DOMAIN u = DOMAIN ui /\ u.n = ui.n /\ u.tab = ui.tab /\ u.flags = ui.flags \ {"saving"}
    BY <1>1, <2>1, SettingsClear
  <2>3. PICK w : w = [u EXCEPT !.copy = c.arg.new]
    OBVIOUS
  <2>4. DOMAIN w = DOMAIN ui /\ w.n = ui.n /\ w.tab = ui.tab /\ w.flags = ui.flags \ {"saving"}
    BY <1>1, <2>2, <2>3
  <2>5. c.op = "save" /\ \E spoils : Settings!Goes(c, w, {}, {}, spoils) \/ Settings!Goes(c, u, {}, {}, spoils)
    BY <1>3, <2>1, <2>3 DEF Settings!SaveReturns
  <2>6. \A f : SettingsStops(c, f) => f \in {"saving"}
    BY <2>5 DEF SettingsStops
  <2>7. QED
    BY <2>2, <2>4, <2>5, <2>6, SettingsCleared
<1>4. QED
  BY <1>2, <1>3

LEMMA SettingsActed ==
  ASSUME SettingsInv, NEW c \in calls, Settings!ActReturns(c)
  PROVE  SettingsInv'
<1>0. SettingsOf(ui, calls)
  BY DEF SettingsInv
<1>1. DOMAIN ui = {"tab", "n", "flags", "copy", "field", "blocks", "lan"}
  BY <1>0 DEF SettingsOf
<1>2. c.op \in {"dream", "clear", "enable", "pair", "revoke"}
  BY DEF Settings!ActReturns
<1>3. \A f : SettingsStops(c, f) => f \in {"busy", c.arg.value}
  BY <1>2 DEF SettingsStops
<1>4. CASE c.arg.n # ui.n
  <2>1. Settings!Goes(c, ui, {}, {}, FALSE)
    BY <1>4 DEF Settings!ActReturns
  <2>2. QED
    BY <1>4, <2>1, SettingsLate
<1>5. CASE c.arg.n = ui.n /\ c.at # "served"
  <2>1. PICK u : u = Settings!Clear(ui, {"busy", c.arg.value})
    OBVIOUS
  <2>2. DOMAIN u = DOMAIN ui /\ u.n = ui.n /\ u.tab = ui.tab /\ u.flags = ui.flags \ {"busy", c.arg.value}
    BY <1>1, <2>1, SettingsClear
  <2>3. Settings!Goes(c, u, {}, {}, FALSE)
    BY <1>5, <2>1 DEF Settings!ActReturns
  <2>4. QED
    BY <1>3, <2>2, <2>3, SettingsCleared
<1>6. CASE c.arg.n = ui.n /\ c.at = "served" /\ ui.tab = "lan"
  <2>1. PICK n : n = Settings!LoadData(ui, {"busy"})
    OBVIOUS
  <2>2. Settings!Goes(c, ui, {n}, {}, FALSE)
    BY <1>6, <2>1 DEF Settings!ActReturns
  <2>3. Proper(n) /\ n.arg.n = ui.n /\ SettingsTied(n, ui.tab) /\ SettingsStops(n, "busy")
    <3>1. ui.tab \in {"general", "persona"} => {"busy"} = {}
      BY <1>6
    <3>2. QED
      BY <1>0, <2>1, <3>1, SettingsLoad
  <2>4. \A f : SettingsStops(c, f) => f = "busy"
    <3>1. c.op \in {"enable", "pair", "revoke"}
      BY <1>0, <1>2, <1>6 DEF SettingsOf, SettingsTied
    <3>2. QED
      BY <3>1 DEF SettingsStops
  <2>5. AllProper({n})
    BY <2>3, AllPropers
  <2>6. \A f \in ui.flags : \/ f \in ui.flags /\ (c.arg.n = ui.n => ~SettingsStops(c, f))
                            \/ \E d \in {n} : SettingsStops(d, f)
    BY <2>3, <2>4
  <2>7. \A d \in {n} : d.arg.n = ui.n /\ SettingsTied(d, ui.tab)
    BY <2>3
  <2>8. QED
    BY <2>2, <2>5, <2>6, <2>7, SettingsGone
<1>7. CASE c.arg.n = ui.n /\ c.at = "served" /\ ui.tab # "lan"
  <2>1. PICK n : n = Settings!LoadData(ui, {c.arg.value})
    OBVIOUS
  <2>2. PICK u : u = Settings!Flags(ui, {"loading"})
    OBVIOUS
  <2>3. DOMAIN u = DOMAIN ui /\ u.n = ui.n /\ u.tab = ui.tab /\ u.flags = ui.flags \union {"loading"}
    BY <1>1, <2>2, SettingsFlags
  <2>4. Settings!Goes(c, u, {n}, {}, FALSE)
    BY <1>7, <2>1, <2>2 DEF Settings!ActReturns
  <2>5. c.op \in {"dream", "clear"} /\ ui.tab = "security"
    BY <1>0, <1>2, <1>7 DEF SettingsOf, SettingsTied
  <2>6. /\ Proper(n) /\ n.arg.n = ui.n /\ SettingsTied(n, ui.tab) /\ SettingsStops(n, c.arg.value)
        /\ SettingsStops(n, "loading")
    BY <1>0, <2>1, <2>5, SettingsLoad
  <2>7. \A f : SettingsStops(c, f) => f = c.arg.value
    BY <2>5 DEF SettingsStops
  <2>8. AllProper({n})
    BY <2>6, AllPropers
  <2>9. \A f \in u.flags : \/ f \in ui.flags /\ (c.arg.n = ui.n => ~SettingsStops(c, f))
                           \/ \E d \in {n} : SettingsStops(d, f)
    BY <2>3, <2>6, <2>7
  <2>10. \A d \in {n} : d.arg.n = ui.n /\ SettingsTied(d, ui.tab)
    BY <2>6
  <2>11. QED
    BY <2>3, <2>4, <2>8, <2>9, <2>10, SettingsGone
<1>8. QED
  BY <1>4, <1>5, <1>6, <1>7

LEMMA SettingsRuntime ==
  ASSUME SettingsInv, NEW c \in calls, Settings!RuntimeReturns(c)
  PROVE  SettingsInv'
<1>0. SettingsOf(ui, calls)
  BY DEF SettingsInv
<1>1. DOMAIN ui = {"tab", "n", "flags", "copy", "field", "blocks", "lan"}
  BY <1>0 DEF SettingsOf
<1>2. c.op \in {"check", "pick", "install"}
  BY DEF Settings!RuntimeReturns
<1>3. \A f : SettingsStops(c, f) => c.op # "pick" /\ f = c.arg.value
  BY <1>2 DEF SettingsStops
<1>4. CASE c.arg.n # ui.n
  <2>1. Settings!Goes(c, ui, {}, {}, FALSE)
    BY <1>4 DEF Settings!RuntimeReturns
  <2>2. QED
    BY <1>4, <2>1, SettingsLate
<1>5. CASE Settings!Goes(c, ui, {}, {}, FALSE) /\ c.op = "pick"
  BY <1>3, <1>5, SettingsGone, AllPropers
<1>6. CASE Settings!Goes(c, Settings!Clear(ui, {c.arg.value}), {}, {}, FALSE)
  <2>1. PICK u : u = Settings!Clear(ui, {c.arg.value})
    OBVIOUS
  <2>2. DOMAIN u = DOMAIN ui /\ u.n = ui.n /\ u.tab = ui.tab /\ u.flags = ui.flags \ {c.arg.value}
    BY <1>1, <2>1, SettingsClear
  <2>3. \A f : SettingsStops(c, f) => f \in {c.arg.value}
    BY <1>3
  <2>4. QED
    BY <1>6, <2>1, <2>2, <2>3, SettingsCleared
<1>7. CASE Settings!Goes(c, Settings!Flags(ui, {"installing"}), {Settings!Does({}, "install", "installing")}, {}, FALSE) /\ c.op = "pick"
  <2>1. PICK u : u = Settings!Flags(ui, {"installing"})
    OBVIOUS
  <2>2. DOMAIN u = DOMAIN ui /\ u.n = ui.n /\ u.tab = ui.tab /\ u.flags = ui.flags \union {"installing"}
    BY <1>1, <2>1, SettingsFlags
  <2>3. PICK n : /\ n = Settings!Does({}, "install", "installing")
                 /\ Fresh(n, "act", "install", [n |-> ui.n, value |-> "installing"])
    BY SettingsNew DEF Settings!Does
  <2>4. Proper(n) /\ n.arg.n = ui.n /\ SettingsTied(n, ui.tab) /\ SettingsStops(n, "installing")
    BY <2>3 DEF Fresh, SettingsTied, SettingsStops
  <2>5. AllProper({n})
    BY <2>4, AllPropers
  <2>6. \A f \in u.flags : \/ f \in ui.flags /\ (c.arg.n = ui.n => ~SettingsStops(c, f))
                           \/ \E d \in {n} : SettingsStops(d, f)
    BY <1>3, <1>7, <2>2, <2>4
  <2>7. \A d \in {n} : d.arg.n = ui.n /\ SettingsTied(d, ui.tab)
    BY <2>4
  <2>8. Settings!Goes(c, u, {n}, {}, FALSE)
    BY <1>7, <2>1, <2>3
  <2>9. QED
    BY <2>2, <2>5, <2>6, <2>7, <2>8, SettingsGone
<1>8. QED
  <2>1. CASE c.op = "pick" /\ c.at = "served" /\ c.got /\ c.arg.n = ui.n
    BY <1>7, <2>1 DEF Settings!RuntimeReturns
  <2>2. CASE c.op = "pick" /\ c.at = "served" /\ ~c.got /\ c.arg.n = ui.n
    BY <1>5, <2>2 DEF Settings!RuntimeReturns
  <2>3. CASE ~(c.op = "pick" /\ c.at = "served") /\ c.arg.n = ui.n
    BY <1>6, <2>3 DEF Settings!RuntimeReturns
  <2>4. QED
    BY <1>4, <2>1, <2>2, <2>3

LEMMA SettingsStep == SettingsInv /\ Settings!Next => SettingsInv'
<1> SUFFICES ASSUME SettingsInv, Settings!Next PROVE SettingsInv'
  OBVIOUS
<1>1. Settings!Returns => SettingsInv'
  BY SettingsLoaded, SettingsSaved, SettingsActed, SettingsRuntime DEF Settings!Returns
<1>2. QED
  BY <1>1, SettingsTab, SettingsForms, SettingsActs, SettingsServed DEF Settings!Next

(***************************************************************************)
(* The tasks of the daemon.                                                *)
(***************************************************************************)
\* The calls for which an operation of the pages counts as under way.
TasksMarks(c) ==
  \/ c.kind = "act" /\ c.op # "event"
  \/ c.op = "log"
  \/ c.op = "get_snapshot" /\ c.arg # "quiet"

(* The marker of the app's operations, and what a snapshot is for.          *)
TasksOf(u, S) ==
  /\ DOMAIN u = {"up", "tasks", "runs", "session", "task", "run", "log", "busy", "dialog"}
  /\ \A c \in S : c.op = "get_snapshot" => c.kind = "load" /\ c.arg \in {"quiet", "loud", "create"}
  /\ u.busy # None => \E c \in S : TasksMarks(c)

TasksInv == Base(ClicksOf["tasks"]) /\ TasksOf(ui, calls)

LEMMA TasksAlike ==
  ASSUME NEW u, NEW S, NEW T, Alike(S, T), TasksOf(u, S)
  PROVE  TasksOf(u, T)
<1>1. QED
  BY DEF TasksOf, Alike, Same, Has, TasksMarks

LEMMA TasksKeeps ==
  ASSUME TasksInv, NEW u, NEW S, Moves(u, S, ClicksOf["tasks"]), TasksOf(u, S)
  PROVE  TasksInv'
<1>1. TasksOf(u, calls') /\ ui' = u
  BY FollowsAlike, TasksAlike DEF Moves
<1>2. Base(ClicksOf["tasks"])'
  BY LimitsAssumption DEF Moves, Follows, Base, AllProper, Panels, TasksInv
<1>3. QED
  BY <1>1, <1>2 DEF TasksInv

LEMMA TasksTurns ==
  ASSUME TasksInv, NEW u, NEW new, NEW gone, Tasks!Turns(u, new, gone), AllProper(new), TasksOf(u, (calls \ gone) \union new)
  PROVE  TasksInv'
<1>1. Moves(u, (calls \ gone) \union new, ClicksOf["tasks"])
  BY TurnMoves DEF TasksInv, Tasks!Turns, Tasks!Joined, P!Joined, Tasks!Disturbed, P!Disturbed, Tasks!Clash, P!Clash, Tasks!Touched, P!Touched
<1>2. QED
  BY <1>1, TasksKeeps

LEMMA TasksClicks ==
  ASSUME TasksInv, NEW u, NEW new, Tasks!Clicks(u, new), AllProper(new), TasksOf(u, calls \union new)
  PROVE  TasksInv'
<1>1. Tasks!Turns(u, new, {}) /\ (calls \ {}) \union new = calls \union new
  BY DEF Tasks!Clicks
<1>2. QED
  BY <1>1, TasksTurns

LEMMA TasksShows ==
  ASSUME TasksInv, NEW u, Tasks!Shows(u), TasksOf(u, calls)
  PROVE  TasksInv'
<1>1. Moves(u, calls, ClicksOf["tasks"])
  BY ShowMoves DEF TasksInv, Tasks!Shows
<1>2. QED
  BY <1>1, TasksKeeps

LEMMA TasksServes ==
  ASSUME TasksInv, NEW c, NEW s, NEW got, Tasks!Serves(c, s, got), TasksOf(ui, Answered(c, "served", got))
  PROVE  TasksInv'
<1>1. Moves(ui, Answered(c, "served", got), ClicksOf["tasks"])
  BY ServeMoves DEF TasksInv, Tasks!Serves
<1>2. QED
  BY <1>1, TasksKeeps

LEMMA TasksFails ==
  ASSUME TasksInv, NEW c, Tasks!Fails(c), TasksOf(ui, Answered(c, "failed", c.got))
  PROVE  TasksInv'
<1>1. Moves(ui, Answered(c, "failed", c.got), ClicksOf["tasks"])
  BY FailMoves DEF TasksInv, Tasks!Fails
<1>2. QED
  BY <1>1, TasksKeeps

LEMMA TasksGoes ==
  ASSUME TasksInv, NEW c, NEW u, NEW new, NEW gone, NEW spoils, 
         Tasks!Goes(c, u, new, gone, spoils), AllProper(new), TasksOf(u, (calls \ ({c} \union gone)) \union new)
  PROVE  TasksInv'
<1>1. Moves(u, (calls \ ({c} \union gone)) \union new, ClicksOf["tasks"])
  BY GoMoves DEF TasksInv, Tasks!Goes, Tasks!Joined, P!Joined, Tasks!Disturbed, P!Disturbed, Tasks!Clash, P!Clash, Tasks!Touched, P!Touched
<1>2. QED
  BY <1>1, TasksKeeps

LEMMA TasksSends ==
  ASSUME TasksInv, NEW c, NEW u, NEW new, NEW spoils, Tasks!Goes(c, u, new, {}, spoils), AllProper(new),
         TasksOf(u, (calls \ {c}) \union new)
  PROVE  TasksInv'
<1>1. (calls \ ({c} \union {})) \union new = (calls \ {c}) \union new
  OBVIOUS
<1>2. QED
  BY <1>1, TasksGoes

LEMMA TasksEnds ==
  ASSUME TasksInv, NEW c, NEW u, NEW spoils, Tasks!Goes(c, u, {}, {}, spoils), TasksOf(u, calls \ {c})
  PROVE  TasksInv'
<1>1. AllProper({}) /\ (calls \ {c}) \union {} = calls \ {c}
  BY DEF AllProper
<1>2. QED
  BY <1>1, TasksSends


LEMMA TasksNew ==
  /\ \A parts, op, arg : Fresh(Tasks!ActOn(parts, op, arg), "act", op, arg)
  /\ \A op, arg : Fresh(Tasks!Detail(op, arg), "detail", op, arg)
  /\ \A op, arg : Fresh(Tasks!Load(op, arg), "load", op, arg)
  /\ \A op, arg : Fresh(Tasks!Act(op, arg), "act", op, arg)
  BY DEF Tasks!ActOn, Tasks!Detail, Tasks!Load, Tasks!Act, Tasks!LoadOf, Tasks!Whole, Tasks!Sent, Fresh, Proper, IsCall

LEMMA TasksInit == Tasks!Init => TasksInv
<1> SUFFICES ASSUME Tasks!Init PROVE TasksInv
  OBVIOUS
<1>1. PICK n1 : n1 = Tasks!Refresh("quiet") /\ Fresh(n1, "load", "get_snapshot", "quiet")
  BY TasksNew DEF Tasks!Refresh
<1>2. TasksOf(ui, calls) /\ calls = {n1} /\ clicks = 0
  BY <1>1 DEF Tasks!Init, TasksOf, Fresh
<1>3. QED
  BY <1>1, <1>2, LimitsAssumption DEF TasksInv, Base, AllProper, Panels, Fresh

LEMMA TasksHappens ==
  ASSUME TasksInv, NEW s, Tasks!Happens(s)
  PROVE  TasksInv'
<1>1. PICK n : n = Tasks!ActOn(Tasks!Whole, "event", s.runs) /\ Fresh(n, "act", "event", s.runs)
  BY TasksNew
<1>2. PICK e : e = [n EXCEPT !.at = "served"]
  OBVIOUS
<1>3. Proper(e) /\ e.kind = "act" /\ e.op = "event"
  BY <1>1, <1>2, Arriving DEF Fresh
<1>4. /\ clicks < ClicksOf["tasks"] /\ clicks' = clicks + 1 /\ ui' = ui
      /\ calls' = P!Joined(calls \ {}, {e})
  <2>1. calls \ {} = calls
    OBVIOUS
  <2>2. QED
    BY <1>1, <1>2, <2>1 DEF Tasks!Happens, Tasks!Joined, P!Joined, Tasks!Disturbed, P!Disturbed, Tasks!Clash, P!Clash, Tasks!Touched, P!Touched
<1>5. Moves(ui, (calls \ {}) \union {e}, ClicksOf["tasks"])
  BY <1>3, <1>4, TurnMoves, AllPropers DEF TasksInv
<1>6. TasksOf(ui, (calls \ {}) \union {e})
  BY <1>3 DEF TasksInv, TasksOf
<1>7. QED
  BY <1>5, <1>6, TasksKeeps

LEMMA TasksSelect ==
  ASSUME TasksInv,
         Tasks!Interval \/ Tasks!SelectTask \/ Tasks!SelectRun \/ Tasks!LoadLog \/ Tasks!OpenDialog \/ Tasks!CloseDialog
  PROVE  TasksInv'
<1>0. TasksOf(ui, calls)
  BY DEF TasksInv
<1>1. ASSUME Tasks!Interval PROVE TasksInv'
  <2>1. PICK n1 : n1 = Tasks!Refresh("quiet") /\ Fresh(n1, "load", "get_snapshot", "quiet")
    BY TasksNew DEF Tasks!Refresh
  <2>2. TasksOf(ui, calls \union {n1})
    <3>1. PICK T : T = calls \union {n1}
      OBVIOUS
    <3>2. QED
      BY <1>0, <2>1, <3>1 DEF TasksOf, Has, Fresh
  <2>3. AllProper({n1})
    BY <2>1, AllPropers DEF Fresh
  <2>4. QED
    BY <1>0, <1>1, <2>1, <2>2, <2>3, TasksClicks DEF Tasks!Interval, Tasks!Refresh
<1>2. ASSUME NEW t, Tasks!Shows([ui EXCEPT !.task = t.id, !.run = None, !.log = None]) PROVE TasksInv'
  <2>1. TasksOf([ui EXCEPT !.task = t.id, !.run = None, !.log = None], calls)
    <3>1. PICK w : w = [ui EXCEPT !.task = t.id, !.run = None, !.log = None]
      OBVIOUS
    <3>2. /\ DOMAIN w = DOMAIN ui
         /\ w.up = ui.up
         /\ w.tasks = ui.tasks
         /\ w.runs = ui.runs
         /\ w.session = ui.session
         /\ w.task = (t.id)
         /\ w.run = (None)
         /\ w.log = (None)
         /\ w.busy = ui.busy
         /\ w.dialog = ui.dialog
      BY <1>0, <3>1 DEF TasksOf
    <3>3. QED
      BY <1>0, <3>1, <3>2 DEF TasksOf, Has
  <2>2. QED
    BY <1>0, <1>2, <2>1, TasksShows, AllPropers DEF Tasks!Shows
<1>3. ASSUME NEW r, Tasks!Shows([ui EXCEPT !.run = r.id, !.log = None]) PROVE TasksInv'
  <2>1. TasksOf([ui EXCEPT !.run = r.id, !.log = None], calls)
    <3>1. PICK w : w = [ui EXCEPT !.run = r.id, !.log = None]
      OBVIOUS
    <3>2. /\ DOMAIN w = DOMAIN ui
         /\ w.up = ui.up
         /\ w.tasks = ui.tasks
         /\ w.runs = ui.runs
         /\ w.session = ui.session
         /\ w.task = ui.task
         /\ w.run = (r.id)
         /\ w.log = (None)
         /\ w.busy = ui.busy
         /\ w.dialog = ui.dialog
      BY <1>0, <3>1 DEF TasksOf
    <3>3. QED
      BY <1>0, <3>1, <3>2 DEF TasksOf, Has
  <2>2. QED
    BY <1>0, <1>3, <2>1, TasksShows, AllPropers DEF Tasks!Shows
<1>4. ASSUME NEW r, Tasks!Clicks([ui EXCEPT !.run = r.id, !.busy = "log"], {Tasks!Detail("log", r.id)}) PROVE TasksInv'
  <2>1. PICK n1 : n1 = Tasks!Detail("log", r.id) /\ Fresh(n1, "detail", "log", r.id)
    BY TasksNew DEF TasksMarks
  <2>2. TasksMarks(n1)
    BY <1>0, <2>1, <1>4 DEF TasksOf, Has, Fresh, Tasks!Clicks, TasksMarks
  <2>3. TasksOf([ui EXCEPT !.run = r.id, !.busy = "log"], calls \union {n1})
    <3>1. PICK w : w = [ui EXCEPT !.run = r.id, !.busy = "log"]
      OBVIOUS
    <3>2. /\ DOMAIN w = DOMAIN ui
         /\ w.up = ui.up
         /\ w.tasks = ui.tasks
         /\ w.runs = ui.runs
         /\ w.session = ui.session
         /\ w.task = ui.task
         /\ w.run = (r.id)
         /\ w.log = ui.log
         /\ w.busy = ("log")
         /\ w.dialog = ui.dialog
      BY <1>0, <3>1 DEF TasksOf
    <3>3. PICK T : T = calls \union {n1}
      OBVIOUS
    <3>4. QED
      BY <1>0, <2>1, <2>2, <3>1, <3>2, <3>3 DEF TasksOf, Has, Fresh
  <2>4. AllProper({n1})
    BY <2>1, <2>2, AllPropers DEF Fresh
  <2>5. QED
    BY <1>0, <1>4, <2>1, <2>2, <2>3, <2>4, TasksClicks DEF Tasks!Clicks, TasksMarks
<1>5. ASSUME Tasks!OpenDialog PROVE TasksInv'
  <2>1. TasksOf([ui EXCEPT !.dialog = TRUE], calls)
    <3>1. PICK w : w = [ui EXCEPT !.dialog = TRUE]
      OBVIOUS
    <3>2. /\ DOMAIN w = DOMAIN ui
         /\ w.up = ui.up
         /\ w.tasks = ui.tasks
         /\ w.runs = ui.runs
         /\ w.session = ui.session
         /\ w.task = ui.task
         /\ w.run = ui.run
         /\ w.log = ui.log
         /\ w.busy = ui.busy
         /\ w.dialog = (TRUE)
      BY <1>0, <3>1 DEF TasksOf
    <3>3. QED
      BY <1>0, <3>1, <3>2 DEF TasksOf, Has
  <2>2. QED
    BY <1>0, <1>5, <2>1, TasksShows, AllPropers DEF Tasks!OpenDialog
<1>6. ASSUME Tasks!CloseDialog PROVE TasksInv'
  <2>1. TasksOf([ui EXCEPT !.dialog = FALSE], calls)
    <3>1. PICK w : w = [ui EXCEPT !.dialog = FALSE]
      OBVIOUS
    <3>2. /\ DOMAIN w = DOMAIN ui
         /\ w.up = ui.up
         /\ w.tasks = ui.tasks
         /\ w.runs = ui.runs
         /\ w.session = ui.session
         /\ w.task = ui.task
         /\ w.run = ui.run
         /\ w.log = ui.log
         /\ w.busy = ui.busy
         /\ w.dialog = (FALSE)
      BY <1>0, <3>1 DEF TasksOf
    <3>3. QED
      BY <1>0, <3>1, <3>2 DEF TasksOf, Has
  <2>2. QED
    BY <1>0, <1>6, <2>1, TasksShows, AllPropers DEF Tasks!CloseDialog
<1>7. QED
  BY <1>1, <1>2, <1>3, <1>4, <1>5, <1>6 DEF Tasks!SelectTask, Tasks!SelectRun, Tasks!LoadLog

LEMMA TasksPerforms ==
  ASSUME TasksInv, NEW mark, NEW op, NEW arg, Tasks!Performs(mark, op, arg),
         op # "event", op # "get_snapshot"
  PROVE  TasksInv'
<1>0. TasksOf(ui, calls)
  BY DEF TasksInv
<1>1. PICK n : n = Tasks!Act(op, arg) /\ Fresh(n, "act", op, arg)
  BY TasksNew
<1>2. TasksMarks(n)
  BY <1>1 DEF TasksMarks, Fresh
<1>3. TasksOf([ui EXCEPT !.busy = mark], calls \union {n})
  BY <1>0, <1>1, <1>2 DEF TasksOf, Fresh
<1>4. AllProper({n})
  BY <1>1, AllPropers DEF Fresh
<1>5. QED
  BY <1>1, <1>3, <1>4, TasksClicks DEF Tasks!Performs

LEMMA TasksOperate ==
  ASSUME TasksInv,
         \/ Tasks!OnRun \/ Tasks!OnPause \/ Tasks!OnDelete \/ Tasks!OnCancel \/ Tasks!OnCreate
         \/ Tasks!OnStart \/ Tasks!OnStop \/ Tasks!OnRestart \/ Tasks!OnStopInstance \/ Tasks!OnPruneStopped
  PROVE  TasksInv'
<1>1. PICK mark, op, arg : Tasks!Performs(mark, op, arg) /\ op \notin {"event", "get_snapshot"}
  <2>1. CASE Tasks!OnRun \/ Tasks!OnDelete \/ Tasks!OnCreate
    BY <2>1 DEF Tasks!OnRun, Tasks!OnDelete, Tasks!OnCreate
  <2>2. CASE Tasks!OnPause \/ Tasks!OnCancel
    BY <2>2 DEF Tasks!OnPause, Tasks!OnCancel
  <2>3. CASE Tasks!OnStart \/ Tasks!OnStop \/ Tasks!OnRestart
    BY <2>3 DEF Tasks!OnStart, Tasks!OnStop, Tasks!OnRestart
  <2>4. CASE Tasks!OnStopInstance \/ Tasks!OnPruneStopped
    BY <2>4 DEF Tasks!OnStopInstance, Tasks!OnPruneStopped
  <2>5. QED
    BY <2>1, <2>2, <2>3, <2>4
<1>2. QED
  BY <1>1, TasksPerforms

LEMMA TasksServed ==
  ASSUME TasksInv,
         Tasks!Serving \/ Tasks!RunBegins \/ Tasks!RunEnds \/ (\E c \in calls : Tasks!Fails(c))
  PROVE  TasksInv'
<1>0. TasksOf(ui, calls)
  BY DEF TasksInv
<1>1. CASE Tasks!Serving
  <2>1. PICK c \in calls : (\E s, got : Tasks!Serves(c, s, got))
    BY <1>1 DEF Tasks!Serving
  <2>2. c \in calls => \A at, got : TasksOf(ui, Answered(c, at, got))
    BY <1>0, AnsweredAlike, TasksAlike
  <2>3. QED
    BY <2>1, <2>2, TasksServes DEF Tasks!Serves
<1>2. CASE Tasks!RunBegins \/ Tasks!RunEnds
  BY <1>2, TasksHappens DEF Tasks!RunBegins, Tasks!RunEnds
<1>3. CASE \E c \in calls : Tasks!Fails(c)
  <2>1. PICK c \in calls : Tasks!Fails(c)
    BY <1>3
  <2>2. TasksOf(ui, Answered(c, "failed", c.got))
    BY <1>0, <2>1, AnsweredAlike, TasksAlike DEF Tasks!Fails
  <2>3. QED
    BY <2>1, <2>2, TasksFails
<1>4. QED
  BY <1>1, <1>2, <1>3

LEMMA TasksReturned ==
  ASSUME TasksInv,
         Tasks!Returns
  PROVE  TasksInv'
<1>0. TasksOf(ui, calls)
  BY DEF TasksInv
<1>1. CASE \E c \in calls : Tasks!SnapshotReturns(c)
  <2>1. PICK c \in calls : Tasks!SnapshotReturns(c)
    BY <1>1
  <2>2. /\ c.op = "get_snapshot" /\ c.kind = "load" /\ c.arg \in {"quiet", "loud", "create"}
    BY <1>0, <2>1 DEF Tasks!SnapshotReturns, TasksOf
  <2>3. PICK u, s :
          /\ Tasks!Goes(c, CASE c.arg = "quiet" -> u [] c.arg = "loud" -> Tasks!Idle(u)
                        [] c.arg = "create" -> Tasks!Closed(Tasks!Idle(u)), {}, {}, s)
          /\ DOMAIN u = DOMAIN ui /\ u.busy = ui.busy
    <3>1. CASE c.at = "served"
      <4>1. PICK t, s : Tasks!Goes(c, CASE c.arg = "quiet" -> [ui EXCEPT !.up = c.got.up, !.tasks = c.got.tasks,
                                        !.runs = c.got.runs, !.session = c.got.session, !.task = t]
                                   [] c.arg = "loud" -> Tasks!Idle([ui EXCEPT !.up = c.got.up, !.tasks = c.got.tasks,
                                        !.runs = c.got.runs, !.session = c.got.session, !.task = t])
                                   [] c.arg = "create" -> Tasks!Closed(Tasks!Idle([ui EXCEPT !.up = c.got.up, !.tasks = c.got.tasks,
                                        !.runs = c.got.runs, !.session = c.got.session, !.task = t])), {}, {}, s)
        BY <2>1, <3>1 DEF Tasks!SnapshotReturns
      <4>2. PICK u : u = [ui EXCEPT !.up = c.got.up, !.tasks = c.got.tasks,
                                    !.runs = c.got.runs, !.session = c.got.session, !.task = t]
        OBVIOUS
      <4>3. DOMAIN u = DOMAIN ui /\ u.busy = ui.busy
        BY <1>0, <4>2 DEF TasksOf
      <4>4. QED
        BY <4>1, <4>2, <4>3
    <3>2. CASE c.at # "served"
      BY <2>1, <3>2 DEF Tasks!SnapshotReturns
    <3>3. QED
      BY <3>1, <3>2
  <2>4. PICK w : w = CASE c.arg = "quiet" -> u [] c.arg = "loud" -> Tasks!Idle(u)
                       [] c.arg = "create" -> Tasks!Closed(Tasks!Idle(u))
    OBVIOUS
  <2>5. /\ DOMAIN w = DOMAIN ui
        /\ w.busy = None \/ (c.arg = "quiet" /\ w.busy = ui.busy)
    BY <1>0, <2>2, <2>3, <2>4 DEF Tasks!Idle, Tasks!Closed, TasksOf
  <2>6. c.arg = "quiet" => ~TasksMarks(c)
    BY <2>2 DEF TasksMarks
  <2>7. TasksOf(w, calls \ {c})
    BY <1>0, <2>5, <2>6 DEF TasksOf
  <2>8. QED
    BY <2>3, <2>4, <2>7, TasksEnds
<1>2. ASSUME NEW c \in calls, Tasks!PerformReturns(c) PROVE TasksInv'
  <2>1. c.kind = "act" /\ c.op # "event"
    BY <1>0, <1>2 DEF TasksOf, Tasks!PerformReturns, Tasks!Refresh, TasksMarks, Tasks!Idle
  <2>2. PICK n1 : n1 = Tasks!Refresh(IF c.op = "create" THEN "create" ELSE "loud") /\ Fresh(n1, "load", "get_snapshot", IF c.op = "create" THEN "create" ELSE "loud")
    BY TasksNew DEF Tasks!Refresh, TasksMarks, Tasks!Idle
  <2>3. TasksMarks(n1) /\ n1.kind = "load" /\ n1.arg \in {"loud", "create"}
    BY <1>0, <2>1, <2>2, <1>2 DEF TasksOf, Has, Fresh, Tasks!PerformReturns, Tasks!Refresh, TasksMarks, Tasks!Idle
  <2>4. TasksOf(ui, (calls \ {c}) \union {n1})
    <3>1. PICK T : T = (calls \ {c}) \union {n1}
      OBVIOUS
    <3>2. QED
      BY <1>0, <2>1, <2>2, <2>3, <3>1 DEF TasksOf, Has, Fresh
  <2>5. AllProper({n1})
    BY <2>1, <2>2, <2>3, AllPropers DEF Fresh
  <2>6. TasksOf(Tasks!Idle(ui), calls \ {c})
    <3>1. PICK w : w = Tasks!Idle(ui)
      OBVIOUS
    <3>2. DOMAIN w = DOMAIN ui /\ w.busy = None
      BY <1>0, <3>1, <2>1 DEF TasksOf, Tasks!Refresh, TasksMarks, Tasks!Idle
    <3>3. PICK T : T = calls \ {c}
      OBVIOUS
    <3>4. QED
      BY <1>0, <2>1, <2>2, <2>3, <3>1, <3>2, <3>3 DEF TasksOf, Has, Fresh
  <2>7. QED
    BY <1>0, <1>2, <2>1, <2>2, <2>3, <2>4, <2>5, <2>6, TasksEnds, TasksSends, AllPropers DEF Tasks!PerformReturns, Tasks!Refresh, TasksMarks, Tasks!Idle
<1>3. ASSUME NEW c \in calls, Tasks!LogReturns(c) PROVE TasksInv'
  <2>1. TasksOf([Tasks!Idle(ui) EXCEPT !.log = IF c.at = "served" THEN c.arg ELSE @], calls \ {c})
    <3>1. PICK w : w = [Tasks!Idle(ui) EXCEPT !.log = IF c.at = "served" THEN c.arg ELSE @]
      OBVIOUS
    <3>2. DOMAIN w = DOMAIN ui /\ w.busy = None
      BY <1>0, <3>1 DEF TasksOf, Tasks!Idle
    <3>3. PICK T : T = calls \ {c}
      OBVIOUS
    <3>4. QED
      BY <1>0, <3>1, <3>2, <3>3 DEF TasksOf, Has
  <2>2. QED
    BY <1>0, <1>3, <2>1, TasksEnds, AllPropers DEF Tasks!LogReturns, Tasks!Idle
<1>4. ASSUME NEW c \in calls, Tasks!EventArrives(c) PROVE TasksInv'
  <2>1. c.op = "event"
    BY <1>0, <1>4 DEF TasksOf, Tasks!EventArrives, Tasks!Refresh, TasksMarks
  <2>2. PICK n1 : n1 = Tasks!Refresh("quiet") /\ Fresh(n1, "load", "get_snapshot", "quiet")
    BY TasksNew DEF Tasks!Refresh, TasksMarks
  <2>3. ~TasksMarks(c)
    BY <1>0, <2>1, <2>2, <1>4 DEF TasksOf, Has, Fresh, Tasks!EventArrives, Tasks!Refresh, TasksMarks
  <2>4. TasksOf(ui, (calls \ {c}) \union {n1})
    <3>1. PICK T : T = (calls \ {c}) \union {n1}
      OBVIOUS
    <3>2. QED
      BY <1>0, <2>1, <2>2, <2>3, <3>1 DEF TasksOf, Has, Fresh
  <2>5. AllProper({n1})
    BY <2>1, <2>2, <2>3, AllPropers DEF Fresh
  <2>6. QED
    BY <1>0, <1>4, <2>1, <2>2, <2>3, <2>4, <2>5, TasksSends DEF Tasks!EventArrives, Tasks!Refresh, TasksMarks
<1>5. QED
  BY <1>1, <1>2, <1>3, <1>4 DEF Tasks!Returns

LEMMA TasksStep == TasksInv /\ Tasks!Next => TasksInv'
  BY TasksSelect, TasksOperate, TasksServed, TasksReturned DEF Tasks!Next

(***************************************************************************)
(* The cards of the day.                                                   *)
(***************************************************************************)
\* The calls for which a card counts as busy.
TodayMarks(c) == c.op \in {"gateway", "dismiss"} \/ (c.op = "reload" /\ c.arg # "nothing")

(* The marker of the cards.                                                 *)
TodayOf(u, S) ==
  /\ DOMAIN u = {"cards", "busy", "bubble"}
  /\ \A c \in S : c.op = "dismiss" => c.arg.after # "nothing"
  /\ u.busy # None => \E c \in S : TodayMarks(c)

TodayInv == Base(ClicksOf["today"]) /\ TodayOf(ui, calls)

LEMMA TodayAlike ==
  ASSUME NEW u, NEW S, NEW T, Alike(S, T), TodayOf(u, S)
  PROVE  TodayOf(u, T)
<1>1. QED
  BY DEF TodayOf, Alike, Same, Has, TodayMarks

LEMMA TodayKeeps ==
  ASSUME TodayInv, NEW u, NEW S, Moves(u, S, ClicksOf["today"]), TodayOf(u, S)
  PROVE  TodayInv'
<1>1. TodayOf(u, calls') /\ ui' = u
  BY FollowsAlike, TodayAlike DEF Moves
<1>2. Base(ClicksOf["today"])'
  BY LimitsAssumption DEF Moves, Follows, Base, AllProper, Panels, TodayInv
<1>3. QED
  BY <1>1, <1>2 DEF TodayInv

LEMMA TodayTurns ==
  ASSUME TodayInv, NEW u, NEW new, NEW gone, Today!Turns(u, new, gone), AllProper(new), TodayOf(u, (calls \ gone) \union new)
  PROVE  TodayInv'
<1>1. Moves(u, (calls \ gone) \union new, ClicksOf["today"])
  BY TurnMoves DEF TodayInv, Today!Turns, Today!Joined, P!Joined, Today!Disturbed, P!Disturbed, Today!Clash, P!Clash, Today!Touched, P!Touched
<1>2. QED
  BY <1>1, TodayKeeps

LEMMA TodayClicks ==
  ASSUME TodayInv, NEW u, NEW new, Today!Clicks(u, new), AllProper(new), TodayOf(u, calls \union new)
  PROVE  TodayInv'
<1>1. Today!Turns(u, new, {}) /\ (calls \ {}) \union new = calls \union new
  BY DEF Today!Clicks
<1>2. QED
  BY <1>1, TodayTurns

LEMMA TodayServes ==
  ASSUME TodayInv, NEW c, NEW s, NEW got, Today!Serves(c, s, got), TodayOf(ui, Answered(c, "served", got))
  PROVE  TodayInv'
<1>1. Moves(ui, Answered(c, "served", got), ClicksOf["today"])
  BY ServeMoves DEF TodayInv, Today!Serves
<1>2. QED
  BY <1>1, TodayKeeps

LEMMA TodayFails ==
  ASSUME TodayInv, NEW c, Today!Fails(c), TodayOf(ui, Answered(c, "failed", c.got))
  PROVE  TodayInv'
<1>1. Moves(ui, Answered(c, "failed", c.got), ClicksOf["today"])
  BY FailMoves DEF TodayInv, Today!Fails
<1>2. QED
  BY <1>1, TodayKeeps

LEMMA TodayGoes ==
  ASSUME TodayInv, NEW c, NEW u, NEW new, NEW gone, NEW spoils, 
         Today!Goes(c, u, new, gone, spoils), AllProper(new), TodayOf(u, (calls \ ({c} \union gone)) \union new)
  PROVE  TodayInv'
<1>1. Moves(u, (calls \ ({c} \union gone)) \union new, ClicksOf["today"])
  BY GoMoves DEF TodayInv, Today!Goes, Today!Joined, P!Joined, Today!Disturbed, P!Disturbed, Today!Clash, P!Clash, Today!Touched, P!Touched
<1>2. QED
  BY <1>1, TodayKeeps

LEMMA TodaySends ==
  ASSUME TodayInv, NEW c, NEW u, NEW new, NEW spoils, Today!Goes(c, u, new, {}, spoils), AllProper(new),
         TodayOf(u, (calls \ {c}) \union new)
  PROVE  TodayInv'
<1>1. (calls \ ({c} \union {})) \union new = (calls \ {c}) \union new
  OBVIOUS
<1>2. QED
  BY <1>1, TodayGoes

LEMMA TodayEnds ==
  ASSUME TodayInv, NEW c, NEW u, NEW spoils, Today!Goes(c, u, {}, {}, spoils), TodayOf(u, calls \ {c})
  PROVE  TodayInv'
<1>1. AllProper({}) /\ (calls \ {c}) \union {} = calls \ {c}
  BY DEF AllProper
<1>2. QED
  BY <1>1, TodaySends


LEMMA TodayNew ==
  /\ \A parts, op, arg : Fresh(Today!LoadOf(parts, op, arg), "load", op, arg)
  /\ \A parts, op, arg : Fresh(Today!ActOn(parts, op, arg), "act", op, arg)
  /\ \A op, arg : Fresh(Today!Detail(op, arg), "detail", op, arg)
  BY DEF Today!LoadOf, Today!ActOn, Today!Detail, Today!Sent, Fresh, Proper, IsCall

LEMMA TodayInit == Today!Init => TodayInv
<1> SUFFICES ASSUME Today!Init PROVE TodayInv
  OBVIOUS
<1>1. PICK n1 : n1 = Today!Reload("nothing") /\ Fresh(n1, "load", "reload", "nothing")
  BY TodayNew DEF Today!Reload
<1>2. PICK n2 : n2 = Today!LoadBubble /\ Fresh(n2, "load", "list_open", None)
  BY TodayNew DEF Today!LoadBubble
<1>3. TodayOf(ui, calls) /\ calls = {n1, n2} /\ clicks = 0
  BY <1>1, <1>2 DEF Today!Init, TodayOf, Fresh
<1>4. QED
  BY <1>1, <1>2, <1>3, LimitsAssumption DEF TodayInv, Base, AllProper, Panels, Fresh

LEMMA TodayObserves ==
  ASSUME TodayInv, NEW i, Today!Observes(i)
  PROVE  TodayInv'
<1>1. PICK n : n = Today!ActOn(Today!Parts, "proactive", None) /\ Fresh(n, "act", "proactive", None)
  BY TodayNew
<1>2. PICK e : e = [n EXCEPT !.at = "served"]
  OBVIOUS
<1>3. Proper(e) /\ e.kind = "act" /\ e.op = "proactive"
  BY <1>1, <1>2, Arriving DEF Fresh
<1>4. /\ clicks < ClicksOf["today"] /\ clicks' = clicks + 1 /\ ui' = ui
      /\ calls' = P!Joined(calls \ {}, {e})
  <2>1. calls \ {} = calls
    OBVIOUS
  <2>2. QED
    BY <1>1, <1>2, <2>1 DEF Today!Observes, Today!Joined, P!Joined, Today!Disturbed, P!Disturbed, Today!Clash, P!Clash, Today!Touched, P!Touched
<1>5. Moves(ui, (calls \ {}) \union {e}, ClicksOf["today"])
  BY <1>3, <1>4, TurnMoves, AllPropers DEF TodayInv
<1>6. TodayOf(ui, (calls \ {}) \union {e})
  BY <1>3 DEF TodayInv, TodayOf
<1>7. QED
  BY <1>5, <1>6, TodayKeeps

LEMMA TodayHandle ==
  ASSUME TodayInv,
         \/ Today!OnReload \/ Today!TaskRunsChange
         \/ \E i \in Card : Today!Observes(i) \/ Today!HandleExecuteCard(i) \/ Today!HandleDismissCard(i)
  PROVE  TodayInv'
<1>0. TodayOf(ui, calls)
  BY DEF TodayInv
<1>1. ASSUME Today!OnReload PROVE TodayInv'
  <2>1. PICK n1 : n1 = Today!Reload("nothing") /\ Fresh(n1, "load", "reload", "nothing")
    BY TodayNew DEF Today!Reload
  <2>2. TodayOf(ui, calls \union {n1})
    <3>1. PICK T : T = calls \union {n1}
      OBVIOUS
    <3>2. QED
      BY <1>0, <2>1, <3>1 DEF TodayOf, Has, Fresh
  <2>3. AllProper({n1})
    BY <2>1, AllPropers DEF Fresh
  <2>4. QED
    BY <1>0, <1>1, <2>1, <2>2, <2>3, TodayClicks DEF Today!OnReload, Today!Reload
<1>2. ASSUME Today!TaskRunsChange PROVE TodayInv'
  <2>1. PICK n1 : n1 = Today!LoadBubble /\ Fresh(n1, "load", "list_open", None)
    BY TodayNew DEF Today!LoadBubble
  <2>2. TodayOf(ui, calls \union {n1})
    <3>1. PICK T : T = calls \union {n1}
      OBVIOUS
    <3>2. QED
      BY <1>0, <2>1, <3>1 DEF TodayOf, Has, Fresh
  <2>3. AllProper({n1})
    BY <2>1, AllPropers DEF Fresh
  <2>4. QED
    BY <1>0, <1>2, <2>1, <2>2, <2>3, TodayClicks DEF Today!TaskRunsChange, Today!LoadBubble
<1>3. CASE \E i \in Card : Today!Observes(i)
  BY <1>3, TodayObserves
<1>4. ASSUME NEW i, Today!HandleExecuteCard(i) PROVE TodayInv'
  <2>1. PICK n1 : n1 = Today!Detail("gateway", i) /\ Fresh(n1, "detail", "gateway", i)
    BY TodayNew DEF TodayMarks
  <2>2. TodayMarks(n1)
    BY <1>0, <2>1, <1>4 DEF TodayOf, Has, Fresh, Today!HandleExecuteCard, TodayMarks
  <2>3. TodayOf([ui EXCEPT !.busy = i], calls \union {n1})
    <3>1. PICK w : w = [ui EXCEPT !.busy = i]
      OBVIOUS
    <3>2. /\ DOMAIN w = DOMAIN ui
         /\ w.cards = ui.cards
         /\ w.busy = (i)
         /\ w.bubble = ui.bubble
      BY <1>0, <3>1 DEF TodayOf
    <3>3. PICK T : T = calls \union {n1}
      OBVIOUS
    <3>4. QED
      BY <1>0, <2>1, <2>2, <3>1, <3>2, <3>3 DEF TodayOf, Has, Fresh
  <2>4. AllProper({n1})
    BY <2>1, <2>2, AllPropers DEF Fresh
  <2>5. QED
    BY <1>0, <1>4, <2>1, <2>2, <2>3, <2>4, TodayClicks DEF Today!HandleExecuteCard, TodayMarks
<1>5. ASSUME NEW i, Today!HandleDismissCard(i) PROVE TodayInv'
  <2>1. PICK n1 : n1 = Today!DismissCard(i, "dismissal") /\ Fresh(n1, "act", "dismiss", [card |-> i, after |-> "dismissal"])
    BY TodayNew DEF TodayMarks, Today!DismissCard
  <2>2. TodayMarks(n1) /\ n1.arg.after = "dismissal"
    BY <1>0, <2>1, <1>5 DEF TodayOf, Has, Fresh, Today!HandleDismissCard, TodayMarks, Today!DismissCard
  <2>3. TodayOf([ui EXCEPT !.busy = i], calls \union {n1})
    <3>1. PICK w : w = [ui EXCEPT !.busy = i]
      OBVIOUS
    <3>2. /\ DOMAIN w = DOMAIN ui
         /\ w.cards = ui.cards
         /\ w.busy = (i)
         /\ w.bubble = ui.bubble
      BY <1>0, <3>1 DEF TodayOf
    <3>3. PICK T : T = calls \union {n1}
      OBVIOUS
    <3>4. QED
      BY <1>0, <2>1, <2>2, <3>1, <3>2, <3>3 DEF TodayOf, Has, Fresh
  <2>4. AllProper({n1})
    BY <2>1, <2>2, AllPropers DEF Fresh
  <2>5. QED
    BY <1>0, <1>5, <2>1, <2>2, <2>3, <2>4, TodayClicks DEF Today!HandleDismissCard, TodayMarks, Today!DismissCard
<1>6. QED
  BY <1>1, <1>2, <1>3, <1>4, <1>5

LEMMA TodayServed ==
  ASSUME TodayInv,
         Today!DaemonServes \/ (\E c \in calls : Today!Fails(c))
  PROVE  TodayInv'
<1>0. TodayOf(ui, calls)
  BY DEF TodayInv
<1>1. CASE Today!DaemonServes
  <2>1. PICK c \in calls : (\E s, got : Today!Serves(c, s, got))
    BY <1>1 DEF Today!DaemonServes
  <2>2. c \in calls => \A at, got : TodayOf(ui, Answered(c, at, got))
    BY <1>0, AnsweredAlike, TodayAlike
  <2>3. QED
    BY <2>1, <2>2, TodayServes DEF Today!Serves
<1>2. CASE \E c \in calls : Today!Fails(c)
  <2>1. PICK c \in calls : Today!Fails(c)
    BY <1>2
  <2>2. TodayOf(ui, Answered(c, "failed", c.got))
    BY <1>0, <2>1, AnsweredAlike, TodayAlike DEF Today!Fails
  <2>3. QED
    BY <2>1, <2>2, TodayFails
<1>3. QED
  BY <1>1, <1>2

LEMMA TodayReturned ==
  ASSUME TodayInv,
         Today!Returns
  PROVE  TodayInv'
<1>0. TodayOf(ui, calls)
  BY DEF TodayInv
<1>1. ASSUME NEW c \in calls, Today!GatewayReturns(c), c.at = "failed" PROVE TodayInv'
  <2>1. TodayOf(Today!Done(ui, "execution"), calls \ {c})
    <3>1. PICK w : w = Today!Done(ui, "execution")
      OBVIOUS
    <3>2. DOMAIN w = DOMAIN ui /\ w.busy = None
      BY <1>0, <3>1 DEF TodayOf, Today!Done
    <3>3. PICK T : T = calls \ {c}
      OBVIOUS
    <3>4. QED
      BY <1>0, <3>1, <3>2, <3>3 DEF TodayOf, Has
  <2>2. QED
    BY <1>0, <1>1, <2>1, TodayEnds, AllPropers DEF Today!GatewayReturns, Today!Done
<1>2. ASSUME NEW c \in calls, Today!GatewayReturns(c), c.at # "failed" PROVE TodayInv'
  <2>1. c.op = "gateway"
    BY <1>0, <1>2 DEF TodayOf, Today!GatewayReturns, TodayMarks, Today!DismissCard, Today!Reload
  <2>2. PICK n1 : n1 = Today!Reload("execution") /\ Fresh(n1, "load", "reload", "execution")
    BY TodayNew DEF TodayMarks, Today!DismissCard, Today!Reload
  <2>3. PICK n2 : n2 = Today!DismissCard(c.arg, "execution") /\ Fresh(n2, "act", "dismiss", [card |-> c.arg, after |-> "execution"])
    BY TodayNew DEF TodayMarks, Today!DismissCard, Today!Reload
  <2>4. TodayMarks(n1) /\ TodayMarks(n2) /\ n2.arg.after = "execution"
    BY <1>0, <2>1, <2>2, <2>3, <1>2 DEF TodayOf, Has, Fresh, Today!GatewayReturns, TodayMarks, Today!DismissCard, Today!Reload
  <2>5. TodayOf(ui, (calls \ {c}) \union {n1})
    <3>1. PICK T : T = (calls \ {c}) \union {n1}
      OBVIOUS
    <3>2. QED
      BY <1>0, <2>1, <2>2, <2>3, <2>4, <3>1 DEF TodayOf, Has, Fresh
  <2>6. AllProper({n1})
    BY <2>1, <2>2, <2>3, <2>4, AllPropers DEF Fresh
  <2>7. TodayOf(ui, (calls \ {c}) \union {n2})
    <3>1. PICK T : T = (calls \ {c}) \union {n2}
      OBVIOUS
    <3>2. QED
      BY <1>0, <2>1, <2>2, <2>3, <2>4, <3>1 DEF TodayOf, Has, Fresh
  <2>8. AllProper({n2})
    BY <2>1, <2>2, <2>3, <2>4, AllPropers DEF Fresh
  <2>9. QED
    BY <1>0, <1>2, <2>1, <2>2, <2>3, <2>4, <2>5, <2>6, <2>7, <2>8, TodaySends DEF Today!GatewayReturns, TodayMarks, Today!DismissCard, Today!Reload
<1>3. ASSUME NEW c \in calls, Today!DismissalReturns(c) PROVE TodayInv'
  <2>1. c.op = "dismiss" /\ c.arg.after # "nothing"
    BY <1>0, <1>3 DEF TodayOf, Today!DismissalReturns, TodayMarks, Today!Reload, Today!Done
  <2>2. PICK n1 : n1 = Today!Reload(c.arg.after) /\ Fresh(n1, "load", "reload", c.arg.after)
    BY TodayNew DEF TodayMarks, Today!Reload, Today!Done
  <2>3. TodayMarks(n1)
    BY <1>0, <2>1, <2>2, <1>3 DEF TodayOf, Has, Fresh, Today!DismissalReturns, TodayMarks, Today!Reload, Today!Done
  <2>4. TodayOf(ui, (calls \ {c}) \union {n1})
    <3>1. PICK T : T = (calls \ {c}) \union {n1}
      OBVIOUS
    <3>2. QED
      BY <1>0, <2>1, <2>2, <2>3, <3>1 DEF TodayOf, Has, Fresh
  <2>5. AllProper({n1})
    BY <2>1, <2>2, <2>3, AllPropers DEF Fresh
  <2>6. TodayOf(Today!Done(ui, "dismissal"), calls \ {c})
    <3>1. PICK w : w = Today!Done(ui, "dismissal")
      OBVIOUS
    <3>2. DOMAIN w = DOMAIN ui /\ w.busy = None
      BY <1>0, <3>1, <2>1 DEF TodayOf, TodayMarks, Today!Reload, Today!Done
    <3>3. PICK T : T = calls \ {c}
      OBVIOUS
    <3>4. QED
      BY <1>0, <2>1, <2>2, <2>3, <3>1, <3>2, <3>3 DEF TodayOf, Has, Fresh
  <2>7. QED
    BY <1>0, <1>3, <2>1, <2>2, <2>3, <2>4, <2>5, <2>6, TodayEnds, TodaySends, AllPropers DEF Today!DismissalReturns, TodayMarks, Today!Reload, Today!Done
<1>4. ASSUME NEW c \in calls, Today!ReloadReturns(c) PROVE TodayInv'
  <2>1. c.op = "reload"
    BY <1>0, <1>4 DEF TodayOf, Today!ReloadReturns, Today!Done, TodayMarks
  <2>2. c.arg = "nothing" => ~TodayMarks(c)
    BY <1>0, <2>1, <1>4 DEF TodayOf, Has, Fresh, Today!ReloadReturns, Today!Done, TodayMarks
  <2>3. TodayOf(Today!Done(IF c.at = "served" THEN [ui EXCEPT !.cards = c.got] ELSE ui, c.arg), calls \ {c})
    <3>1. PICK w : w = Today!Done(IF c.at = "served" THEN [ui EXCEPT !.cards = c.got] ELSE ui, c.arg)
      OBVIOUS
    <3>2. DOMAIN w = DOMAIN ui /\ (w.busy = None \/ (c.arg = "nothing" /\ w.busy = ui.busy))
      BY <1>0, <3>1, <2>1 DEF TodayOf, Today!Done, TodayMarks
    <3>3. PICK T : T = calls \ {c}
      OBVIOUS
    <3>4. QED
      BY <1>0, <2>1, <2>2, <3>1, <3>2, <3>3 DEF TodayOf, Has
  <2>4. QED
    BY <1>0, <1>4, <2>1, <2>2, <2>3, TodayEnds, AllPropers DEF Today!ReloadReturns, Today!Done, TodayMarks
<1>5. ASSUME NEW c \in calls, Today!BubbleReturns(c) PROVE TodayInv'
  <2>1. c.op = "list_open"
    BY <1>0, <1>5 DEF TodayOf, Today!BubbleReturns, TodayMarks
  <2>2. ~TodayMarks(c)
    BY <1>0, <2>1, <1>5 DEF TodayOf, Has, Fresh, Today!BubbleReturns, TodayMarks
  <2>3. TodayOf(IF c.at = "served" THEN [ui EXCEPT !.bubble = c.got] ELSE ui, calls \ {c})
    <3>1. PICK w : w = IF c.at = "served" THEN [ui EXCEPT !.bubble = c.got] ELSE ui
      OBVIOUS
    <3>2. DOMAIN w = DOMAIN ui /\ w.busy = ui.busy
      BY <1>0, <3>1, <2>1 DEF TodayOf, TodayMarks
    <3>3. PICK T : T = calls \ {c}
      OBVIOUS
    <3>4. QED
      BY <1>0, <2>1, <2>2, <3>1, <3>2, <3>3 DEF TodayOf, Has
  <2>4. QED
    BY <1>0, <1>5, <2>1, <2>2, <2>3, TodayEnds, AllPropers DEF Today!BubbleReturns, TodayMarks
<1>6. ASSUME NEW c \in calls, Today!ProactiveEvent(c) PROVE TodayInv'
  <2>1. c.op = "proactive"
    BY <1>0, <1>6 DEF TodayOf, Today!ProactiveEvent, TodayMarks, Today!LoadBubble, Today!Reload
  <2>2. PICK n1 : n1 = Today!Reload("nothing") /\ Fresh(n1, "load", "reload", "nothing")
    BY TodayNew DEF TodayMarks, Today!LoadBubble, Today!Reload
  <2>3. PICK n2 : n2 = Today!LoadBubble /\ Fresh(n2, "load", "list_open", None)
    BY TodayNew DEF TodayMarks, Today!LoadBubble, Today!Reload
  <2>4. ~TodayMarks(c)
    BY <1>0, <2>1, <2>2, <2>3, <1>6 DEF TodayOf, Has, Fresh, Today!ProactiveEvent, TodayMarks, Today!LoadBubble, Today!Reload
  <2>5. TodayOf(ui, (calls \ {c}) \union {n1, n2})
    <3>1. PICK T : T = (calls \ {c}) \union {n1, n2}
      OBVIOUS
    <3>2. QED
      BY <1>0, <2>1, <2>2, <2>3, <2>4, <3>1 DEF TodayOf, Has, Fresh
  <2>6. AllProper({n1, n2})
    BY <2>1, <2>2, <2>3, <2>4, AllPropers DEF Fresh
  <2>7. QED
    BY <1>0, <1>6, <2>1, <2>2, <2>3, <2>4, <2>5, <2>6, TodaySends DEF Today!ProactiveEvent, TodayMarks, Today!LoadBubble, Today!Reload
<1>7. QED
  BY <1>1, <1>2, <1>3, <1>4, <1>5, <1>6 DEF Today!Returns

LEMMA TodayStep == TodayInv /\ Today!Next => TodayInv'
  BY TodayHandle, TodayServed, TodayReturned DEF Today!Next

(***************************************************************************)
(* What the app keeps of a conversation.                                   *)
(***************************************************************************)
\* The models are those of the conversation itself.
DataIds == [c \in Chat |-> c]

(* Where the ref did not fall behind, it is what is selected.               *)
DataHead(u) ==
  /\ DOMAIN u = {"datum", "selected", "ref", "lagged", "keyOf", "chat", "shown", "loading", "busy"}
  /\ u.datum \in Data!Datum
  /\ u.lagged \in BOOLEAN
  /\ u.lagged = FALSE => u.ref = u.selected
  /\ u.datum = Data!Models => u.selected \in Chat \union {None} /\ u.keyOf = DataIds

(* The markers of a datum, and whose models are shown.                      *)
DataOf(u, S) ==
  /\ DataHead(u)
  /\ u.loading # FALSE => u.datum = Data!Models
  /\ u.loading # FALSE /\ u.lagged = FALSE => \E c \in S : c.op = "load" /\ c.arg = Data!KeyNow(u)
  /\ u.busy # FALSE => \E c \in S : c.op \in {"refresh_intelligence", "set"}
  /\ \A c \in S : c.op = "refresh_intelligence" => u.datum = Data!Commands
  /\ \A c \in S : c.op = "set" => u.datum # Data!Models
  /\ u.datum = Data!Models /\ u.lagged = FALSE /\ u.shown # None => u.shown.of = Data!KeyNow(u)

DataInv == Base(ClicksOf["data"]) /\ DataOf(ui, calls)

LEMMA DataAlike ==
  ASSUME NEW u, NEW S, NEW T, Alike(S, T), DataOf(u, S)
  PROVE  DataOf(u, T)
<1>1. /\ u.loading # FALSE => u.datum = Data!Models
      /\ u.datum = Data!Models /\ u.lagged = FALSE /\ u.shown # None => u.shown.of = Data!KeyNow(u)
      /\ DataHead(u)
  BY DEF DataOf
<1>2. u.loading # FALSE /\ u.lagged = FALSE => \E c \in T : c.op = "load" /\ c.arg = Data!KeyNow(u)
  <2>1. SUFFICES ASSUME u.loading # FALSE, u.lagged = FALSE
                 PROVE  \E c \in T : c.op = "load" /\ c.arg = Data!KeyNow(u)
    OBVIOUS
  <2>2. PICK k : k = Data!KeyNow(u)
    OBVIOUS
  <2>3. PICK c \in S : c.op = "load" /\ c.arg = k
    BY <2>1, <2>2 DEF DataOf
  <2>4. PICK e \in T : Same(c, e)
    BY DEF Alike
  <2>5. QED
    BY <2>2, <2>3, <2>4 DEF Same
<1>3. u.busy # FALSE => \E c \in T : c.op \in {"refresh_intelligence", "set"}
  <2>1. SUFFICES ASSUME u.busy # FALSE
                 PROVE  \E c \in T : c.op \in {"refresh_intelligence", "set"}
    OBVIOUS
  <2>2. PICK c \in S : c.op \in {"refresh_intelligence", "set"}
    BY <2>1 DEF DataOf
  <2>3. PICK e \in T : Same(c, e)
    BY DEF Alike
  <2>4. QED
    BY <2>2, <2>3 DEF Same
<1>4. /\ \A c \in T : c.op = "refresh_intelligence" => u.datum = Data!Commands
      /\ \A c \in T : c.op = "set" => u.datum # Data!Models
  BY DEF DataOf, Alike, Same, Has
<1>5. QED
  BY <1>1, <1>2, <1>3, <1>4 DEF DataOf

LEMMA DataKeeps ==
  ASSUME DataInv, NEW u, NEW S, Moves(u, S, ClicksOf["data"]), DataOf(u, S)
  PROVE  DataInv'
<1>1. DataOf(u, calls') /\ ui' = u
  BY FollowsAlike, DataAlike DEF Moves
<1>2. Base(ClicksOf["data"])'
  BY LimitsAssumption DEF Moves, Follows, Base, AllProper, Panels, DataInv
<1>3. QED
  BY <1>1, <1>2 DEF DataInv

LEMMA DataTurns ==
  ASSUME DataInv, NEW u, NEW new, NEW gone, Data!Turns(u, new, gone), AllProper(new), DataOf(u, (calls \ gone) \union new)
  PROVE  DataInv'
<1>1. Moves(u, (calls \ gone) \union new, ClicksOf["data"])
  BY TurnMoves DEF DataInv, Data!Turns, Data!Joined, P!Joined, Data!Disturbed, P!Disturbed, Data!Clash, P!Clash, Data!Touched, P!Touched
<1>2. QED
  BY <1>1, DataKeeps

LEMMA DataClicks ==
  ASSUME DataInv, NEW u, NEW new, Data!Clicks(u, new), AllProper(new), DataOf(u, calls \union new)
  PROVE  DataInv'
<1>1. Data!Turns(u, new, {}) /\ (calls \ {}) \union new = calls \union new
  BY DEF Data!Clicks
<1>2. QED
  BY <1>1, DataTurns

LEMMA DataShows ==
  ASSUME DataInv, NEW u, Data!Shows(u), DataOf(u, calls)
  PROVE  DataInv'
<1>1. Moves(u, calls, ClicksOf["data"])
  BY ShowMoves DEF DataInv, Data!Shows
<1>2. QED
  BY <1>1, DataKeeps

LEMMA DataChanges ==
  ASSUME DataInv, NEW parts, NEW s, Data!ChangedElsewhere(parts, s)
  PROVE  DataInv'
<1>1. Moves(ui, calls, ClicksOf["data"])
  BY ChangeMoves DEF DataInv, Data!ChangedElsewhere, Data!Disturbed, P!Disturbed
<1>2. QED
  BY <1>1, DataKeeps DEF DataInv

LEMMA DataServes ==
  ASSUME DataInv, NEW c, NEW s, NEW got, Data!Serves(c, s, got), DataOf(ui, Answered(c, "served", got))
  PROVE  DataInv'
<1>1. Moves(ui, Answered(c, "served", got), ClicksOf["data"])
  BY ServeMoves DEF DataInv, Data!Serves
<1>2. QED
  BY <1>1, DataKeeps

LEMMA DataFails ==
  ASSUME DataInv, NEW c, Data!Fails(c), DataOf(ui, Answered(c, "failed", c.got))
  PROVE  DataInv'
<1>1. Moves(ui, Answered(c, "failed", c.got), ClicksOf["data"])
  BY FailMoves DEF DataInv, Data!Fails
<1>2. QED
  BY <1>1, DataKeeps

LEMMA DataGoes ==
  ASSUME DataInv, NEW c, NEW u, NEW new, NEW gone, NEW spoils, 
         Data!Goes(c, u, new, gone, spoils), AllProper(new), DataOf(u, (calls \ ({c} \union gone)) \union new)
  PROVE  DataInv'
<1>1. Moves(u, (calls \ ({c} \union gone)) \union new, ClicksOf["data"])
  BY GoMoves DEF DataInv, Data!Goes, Data!Joined, P!Joined, Data!Disturbed, P!Disturbed, Data!Clash, P!Clash, Data!Touched, P!Touched
<1>2. QED
  BY <1>1, DataKeeps

LEMMA DataSends ==
  ASSUME DataInv, NEW c, NEW u, NEW new, NEW spoils, Data!Goes(c, u, new, {}, spoils), AllProper(new),
         DataOf(u, (calls \ {c}) \union new)
  PROVE  DataInv'
<1>1. (calls \ ({c} \union {})) \union new = (calls \ {c}) \union new
  OBVIOUS
<1>2. QED
  BY <1>1, DataGoes

LEMMA DataEnds ==
  ASSUME DataInv, NEW c, NEW u, NEW spoils, Data!Goes(c, u, {}, {}, spoils), DataOf(u, calls \ {c})
  PROVE  DataInv'
<1>1. AllProper({}) /\ (calls \ {c}) \union {} = calls \ {c}
  BY DEF AllProper
<1>2. QED
  BY <1>1, DataSends


LEMMA DataNew ==
  /\ \A parts, op, arg : Fresh(Data!ActOn(parts, op, arg), "act", op, arg)
  /\ \A op, arg : Fresh(Data!Load(op, arg), "load", op, arg)
  BY DEF Data!ActOn, Data!Load, Data!LoadOf, Data!Whole, Data!Sent, Fresh, Proper, IsCall

\* The data differ in what happens to a late answer.
LEMMA DataKinds ==
  /\ Data!Models.late = "ref" /\ Data!Models.resets = TRUE /\ Data!Models # Data!Commands
  /\ Data!Models # Data!Balance /\ Data!Models # Data!Summary /\ Data!Models.moves = FALSE
<1>1. /\ Data!Models.late = "ref" /\ Data!Models.resets = TRUE /\ Data!Commands.resets = FALSE
      /\ Data!Balance.resets = FALSE /\ Data!Summary.resets = FALSE /\ Data!Models.moves = FALSE
  BY DEF Data!Models, Data!Commands, Data!Balance, Data!Summary
<1>2. QED
  BY <1>1

LEMMA DataInit == Data!Init => DataInv
<1> SUFFICES ASSUME Data!Init PROVE DataInv
  OBVIOUS
<1>1. PICK d \in Data!Datum, s \in Chat :
        /\ ui = [datum |-> d, selected |-> s, ref |-> s, lagged |-> FALSE, keyOf |-> [c \in Chat |-> c],
                 chat |-> TRUE, shown |-> None, loading |-> d = Data!Models, busy |-> FALSE]
        /\ calls = {Data!LoadDatum(s)} /\ clicks = 0
  BY DEF Data!Init
<1>2. PICK n1 : n1 = Data!LoadDatum(s) /\ Fresh(n1, "load", "load", s)
  BY DataNew DEF Data!LoadDatum
<1>3. /\ DOMAIN ui = {"datum", "selected", "ref", "lagged", "keyOf", "chat", "shown", "loading", "busy"}
      /\ ui.datum = d /\ ui.selected = s /\ ui.keyOf = [c \in Chat |-> c]
      /\ ui.ref = s /\ ui.lagged = FALSE /\ ui.chat = TRUE /\ ui.shown = None /\ ui.loading = (d = Data!Models) /\ ui.busy = FALSE
  BY <1>1
<1>4. ui.loading # FALSE => Data!KeyNow(ui) = s
  <2>1. SUFFICES ASSUME d = Data!Models PROVE Data!KeyNow(ui) = s
    BY <1>3
  <2>2. Data!Models.chat = FALSE
    BY DEF Data!Models
  <2>3. ui.keyOf[ui.selected] = s
    BY <1>3
  <2>4. CASE s = None
    BY <1>3, <2>4 DEF Data!KeyNow
  <2>5. CASE s # None
    BY <1>3, <2>1, <2>2, <2>3, <2>5 DEF Data!KeyNow
  <2>6. QED
    BY <2>4, <2>5
<1>7. DataHead(ui)
  BY <1>3 DEF DataHead, DataIds
<1>5. DataOf(ui, calls)
  BY <1>1, <1>2, <1>3, <1>4, <1>7 DEF DataOf, Fresh
<1>6. QED
  BY <1>1, <1>2, <1>5, LimitsAssumption DEF DataInv, Base, AllProper, Panels, Fresh

\* The key depends on the selection and on the keys alone.
LEMMA DataKey ==
  \A u, w : u.selected = w.selected /\ u.keyOf = w.keyOf /\ u.chat = w.chat /\ u.datum = w.datum
              => Data!KeyNow(u) = Data!KeyNow(w)
  BY DEF Data!KeyNow

LEMMA DataHeads ==
  \A u, w : /\ DOMAIN u = DOMAIN w /\ u.datum = w.datum /\ u.selected = w.selected
            /\ u.ref = w.ref /\ u.lagged = w.lagged /\ u.keyOf = w.keyOf
            => (DataHead(u) => DataHead(w))
  BY DEF DataHead

LEMMA DataModelsKey ==
  ASSUME NEW u, DataHead(u), u.datum = Data!Models
  PROVE  Data!KeyNow(u) = u.selected
<1>1. Data!Models.chat = FALSE
  BY DEF Data!Models
<1>2. CASE u.selected = None
  BY <1>2 DEF Data!KeyNow
<1>3. CASE u.selected # None
  <2>1. u.keyOf[u.selected] = u.selected
    BY <1>3 DEF DataHead, DataIds
  <2>2. QED
    BY <1>1, <1>3, <2>1 DEF Data!KeyNow
<1>4. QED
  BY <1>2, <1>3

\* The key may have changed: with it goes what was shown, and the new one is loaded.
LEMMA DataRekeyed ==
  ASSUME DataOf(ui, calls), NEW u, NEW T,
         DataHead(u), u.datum = ui.datum, u.shown = ui.shown, u.loading = ui.loading,
         u.datum = Data!Models => u.lagged = ui.lagged \/ Data!KeyNow(u) # Data!KeyNow(ui),
         \A d \in calls : d.op = "load" /\ ui.datum = Data!Models => d \in T,
         u.busy # FALSE => \E d \in T : d.op \in {"refresh_intelligence", "set"},
         \A d \in T : d \in calls \/ d.op = "load",
         Data!KeyNow(u) \notin {Data!KeyNow(ui), None} => \E d \in T : d.op = "load" /\ d.arg = Data!KeyNow(u)
  PROVE  DataOf(Data!Rekeyed(u), T)
<1>1. PICK w : w = Data!Rekeyed(u)
  OBVIOUS
<1>2. DOMAIN u = {"datum", "selected", "ref", "lagged", "keyOf", "chat", "shown", "loading", "busy"}
  BY DEF DataHead
<1>3. /\ DOMAIN w = DOMAIN u /\ w.datum = u.datum /\ w.selected = u.selected /\ w.keyOf = u.keyOf
      /\ w.ref = u.ref /\ w.lagged = u.lagged /\ w.chat = u.chat /\ w.busy = u.busy
      /\ Data!KeyNow(u) = Data!KeyNow(ui) => w.shown = u.shown /\ w.loading = u.loading
      /\ Data!KeyNow(u) # Data!KeyNow(ui) /\ u.datum = Data!Models => w.shown = None
      /\ w.loading # FALSE /\ Data!KeyNow(u) # Data!KeyNow(ui) => Data!KeyNow(u) # None
      /\ w.loading # FALSE => u.datum = Data!Models
  <2>1. CASE Data!KeyNow(u) = Data!KeyNow(ui)
    BY <1>1, <2>1 DEF Data!Rekeyed, DataOf
  <2>2. CASE Data!KeyNow(u) # Data!KeyNow(ui) /\ Data!KeyNow(u) = None
    <3>1. w = [u EXCEPT !.shown = None, !.loading = FALSE]
      BY <1>1, <2>2 DEF Data!Rekeyed
    <3>2. QED
      BY <1>2, <2>2, <3>1
  <2>3. CASE Data!KeyNow(u) # Data!KeyNow(ui) /\ Data!KeyNow(u) # None
    <3>1. PICK v : v = IF ui.datum.resets THEN [u EXCEPT !.shown = None] ELSE u
      OBVIOUS
    <3>2. /\ DOMAIN v = DOMAIN u /\ v.datum = u.datum /\ v.selected = u.selected /\ v.keyOf = u.keyOf
          /\ v.ref = u.ref /\ v.lagged = u.lagged /\ v.chat = u.chat /\ v.busy = u.busy /\ v.loading = u.loading
          /\ u.datum = Data!Models => v.shown = None
      BY <1>2, <3>1, DataKinds
    <3>3. w = IF ui.datum = Data!Models THEN [v EXCEPT !.loading = TRUE] ELSE v
      BY <1>1, <2>3, <3>1 DEF Data!Rekeyed, Data!Loading
    <3>4. CASE ui.datum = Data!Models
      BY <1>2, <2>3, <3>2, <3>3, <3>4
    <3>5. CASE ui.datum # Data!Models
      BY <2>3, <3>2, <3>3, <3>5 DEF DataOf
    <3>6. QED
      BY <3>4, <3>5
  <2>4. QED
    BY <2>1, <2>2, <2>3
<1>4. Data!KeyNow(w) = Data!KeyNow(u)
  BY <1>3, DataKey
<1>5. w.loading # FALSE /\ w.lagged = FALSE => \E c \in T : c.op = "load" /\ c.arg = Data!KeyNow(w)
  BY <1>3, <1>4 DEF DataOf
<1>6. w.busy # FALSE => \E d \in T : d.op \in {"refresh_intelligence", "set"}
  BY <1>3
<1>7. \A c \in T : c.op = "refresh_intelligence" => w.datum = Data!Commands
  BY <1>3 DEF DataOf
<1>8. w.datum = Data!Models /\ w.lagged = FALSE /\ w.shown # None => w.shown.of = Data!KeyNow(w)
  BY <1>3, <1>4 DEF DataOf
<1>9. DataHead(w) /\ (w.loading # FALSE => w.datum = Data!Models)
  BY <1>3, DataHeads
<1>11. \A c \in T : c.op = "set" => w.datum # Data!Models
  BY <1>3 DEF DataOf
<1>10. QED
  BY <1>1, <1>5, <1>6, <1>7, <1>8, <1>9, <1>11 DEF DataOf

\* Of the models nothing is dropped, and of the others only loads.
LEMMA DataDrops ==
  \A u : /\ \A c \in Data!DroppedBy(u) : c.op = "load"
         /\ ui.datum = Data!Models => Data!DroppedBy(u) = {}
  BY DataKinds DEF Data!DroppedBy

LEMMA DataAsks ==
  ASSUME NEW u
  PROVE  /\ AllProper(Data!AskedBy(u))
         /\ \A d \in Data!AskedBy(u) : d.op = "load"
         /\ Data!KeyNow(u) \notin {Data!KeyNow(ui), None} => \E d \in Data!AskedBy(u) : d.op = "load" /\ d.arg = Data!KeyNow(u)
<1>1. PICK n1 : n1 = Data!LoadDatum(Data!KeyNow(u)) /\ Fresh(n1, "load", "load", Data!KeyNow(u))
  BY DataNew DEF Data!LoadDatum
<1>2. Data!AskedBy(u) = IF Data!KeyNow(u) \in {Data!KeyNow(ui), None} THEN {} ELSE {n1}
  BY <1>1 DEF Data!AskedBy
<1>3. QED
  BY <1>1, <1>2, AllPropers DEF Fresh

LEMMA DataGoes2 ==
  ASSUME DataInv, NEW u, Data!Goto(u), DataHead(u), u.datum = ui.datum,
         u.datum = Data!Models => u.lagged = ui.lagged \/ Data!KeyNow(u) # Data!KeyNow(ui),
         u.shown = ui.shown, u.loading = ui.loading, u.busy = ui.busy
  PROVE  DataInv'
<1>0. DataOf(ui, calls)
  BY DEF DataInv
<1>1. PICK T : T = (calls \ Data!DroppedBy(u)) \union Data!AskedBy(u)
  OBVIOUS
<1>2. \A d \in calls : d.op # "load" => d \in T
  BY <1>1, DataDrops
<1>3. u.busy # FALSE => \E d \in T : d.op \in {"refresh_intelligence", "set"}
  BY <1>0, <1>2 DEF DataOf
<1>4. /\ \A d \in calls : d.op = "load" /\ ui.datum = Data!Models => d \in T
      /\ \A d \in T : d \in calls \/ d.op = "load"
      /\ Data!KeyNow(u) \notin {Data!KeyNow(ui), None} => \E d \in T : d.op = "load" /\ d.arg = Data!KeyNow(u)
  BY <1>1, DataDrops, DataAsks
<1>5. DataOf(Data!Rekeyed(u), T)
  BY <1>0, <1>3, <1>4, DataRekeyed
<1>6. QED
  BY <1>1, <1>5, DataAsks, DataTurns DEF Data!Goto

LEMMA DataHandle ==
  ASSUME DataInv,
         \/ Data!Poll \/ Data!HandleModelProvidersChanged \/ Data!RefreshIntelligence
         \/ Data!SetView \/ \E s \in Chat \union {None} : Data!Select(s) \/ Data!ListMovesSelection(s)
  PROVE  DataInv'
<1>0. DataOf(ui, calls)
  BY DEF DataInv
<1>1. ASSUME Data!Poll PROVE DataInv'
  <2>1. PICK n1 : n1 = Data!LoadDatum(Data!KeyNow(ui)) /\ Fresh(n1, "load", "load", Data!KeyNow(ui))
    BY DataNew DEF Data!LoadDatum
  <2>2. DataOf(ui, calls \union {n1})
    <3>1. PICK T : T = calls \union {n1}
      OBVIOUS
    <3>2. QED
      BY <1>0, <2>1, <3>1 DEF DataOf, Has, Fresh
  <2>3. AllProper({n1})
    BY <2>1, AllPropers DEF Fresh
  <2>4. QED
    BY <1>0, <1>1, <2>1, <2>2, <2>3, DataClicks DEF Data!Poll, Data!LoadDatum
<1>2. ASSUME Data!HandleModelProvidersChanged PROVE DataInv'
  <2>1. ui.datum = Data!Models
    BY <1>2 DEF Data!HandleModelProvidersChanged
  <2>2. PICK n1 : n1 = Data!LoadDatum(ui.ref) /\ Fresh(n1, "load", "load", ui.ref)
    BY DataNew DEF Data!LoadDatum
  <2>3. PICK w : w = Data!Loading(ui)
    OBVIOUS
  <2>4. /\ DOMAIN w = DOMAIN ui /\ w.datum = ui.datum /\ w.selected = ui.selected /\ w.ref = ui.ref
        /\ w.lagged = ui.lagged /\ w.keyOf = ui.keyOf /\ w.chat = ui.chat /\ w.shown = ui.shown
        /\ w.busy = ui.busy
    BY <1>0, <2>1, <2>3 DEF DataOf, DataHead, Data!Loading
  <2>5. DataHead(w) /\ Data!KeyNow(w) = Data!KeyNow(ui) /\ Data!KeyNow(ui) = ui.selected
    BY <1>0, <2>1, <2>4, DataHeads, DataKey, DataModelsKey DEF DataOf
  <2>6. w.lagged = FALSE => ui.ref = ui.selected
    BY <1>0, <2>4 DEF DataOf, DataHead
  <2>7. PICK T : T = calls \union {n1}
    OBVIOUS
  <2>8. DataOf(w, T)
    BY <1>0, <2>1, <2>2, <2>4, <2>5, <2>6, <2>7 DEF DataOf, Fresh
  <2>9. AllProper({n1})
    BY <2>2, AllPropers DEF Fresh
  <2>10. QED
    BY <1>2, <2>2, <2>3, <2>7, <2>8, <2>9, DataClicks DEF Data!HandleModelProvidersChanged
<1>3. ASSUME Data!RefreshIntelligence PROVE DataInv'
  <2>1. ui.datum = Data!Commands
    BY <1>0, <1>3, DataKey DEF DataOf, Data!RefreshIntelligence
  <2>2. PICK n1 : n1 = Data!Load("refresh_intelligence", Data!KeyNow(ui)) /\ Fresh(n1, "load", "refresh_intelligence", Data!KeyNow(ui))
    BY DataNew
  <2>3. DataOf([ui EXCEPT !.busy = TRUE], calls \union {n1})
    <3>1. PICK w : w = [ui EXCEPT !.busy = TRUE]
      OBVIOUS
    <3>2. /\ DOMAIN w = DOMAIN ui /\ w.datum = ui.datum /\ w.selected = ui.selected /\ w.ref = ui.ref
          /\ w.lagged = ui.lagged /\ w.keyOf = ui.keyOf /\ w.chat = ui.chat /\ w.shown = ui.shown
          /\ w.loading = ui.loading
      BY <1>0, <3>1 DEF DataOf, DataHead
    <3>3. DataHead(w) /\ Data!KeyNow(w) = Data!KeyNow(ui)
      BY <1>0, <3>2, DataHeads, DataKey DEF DataOf
    <3>4. PICK T : T = calls \union {n1}
      OBVIOUS
    <3>5. w.datum # Data!Models
      BY <2>1, <3>2, DataKinds
    <3>6. DataOf(w, T)
      BY <1>0, <2>1, <2>2, <3>2, <3>3, <3>4, <3>5 DEF DataOf, Fresh
    <3>7. QED
      BY <3>1, <3>4, <3>6
  <2>4. AllProper({n1})
    BY <2>1, <2>2, AllPropers DEF Fresh
  <2>5. QED
    BY <1>0, <1>3, <2>1, <2>2, <2>3, <2>4, DataClicks DEF Data!RefreshIntelligence
<1>4. CASE Data!SetView
  <2>1. PICK u : u = [ui EXCEPT !.chat = ~@]
    OBVIOUS
  <2>2. /\ DOMAIN u = DOMAIN ui /\ u.datum = ui.datum /\ u.selected = ui.selected /\ u.ref = ui.ref
        /\ u.lagged = ui.lagged /\ u.keyOf = ui.keyOf /\ u.shown = ui.shown
        /\ u.loading = ui.loading /\ u.busy = ui.busy
    BY <1>0, <2>1 DEF DataOf, DataHead
  <2>3. DataHead(u)
    BY <1>0, <2>2, DataHeads DEF DataOf
  <2>4. QED
    BY <1>4, <2>1, <2>2, <2>3, DataGoes2 DEF Data!SetView
<1>5. ASSUME NEW s \in Chat \union {None}, NEW u, Data!Goto(u), s # ui.selected,
             \/ u = [ui EXCEPT !.selected = s, !.ref = s, !.lagged = FALSE]
             \/ u = [ui EXCEPT !.selected = s, !.lagged = s # ui.ref]
      PROVE  DataInv'
  <2>1. /\ DOMAIN u = DOMAIN ui /\ u.datum = ui.datum /\ u.selected = s /\ u.keyOf = ui.keyOf
        /\ u.shown = ui.shown /\ u.loading = ui.loading /\ u.busy = ui.busy
    BY <1>0, <1>5 DEF DataOf, DataHead
  <2>2. u.lagged \in BOOLEAN /\ (u.lagged = FALSE => u.ref = u.selected)
    BY <1>0, <1>5 DEF DataOf, DataHead
  <2>3. DataHead(u)
    BY <1>0, <2>1, <2>2 DEF DataOf, DataHead
  <2>4. u.datum = Data!Models => Data!KeyNow(u) = s /\ Data!KeyNow(ui) = ui.selected
    BY <1>0, <2>1, <2>3, DataModelsKey DEF DataOf
  <2>5. u.datum = Data!Models => Data!KeyNow(u) # Data!KeyNow(ui)
    BY <1>5, <2>4
  <2>6. QED
    BY <1>5, <2>1, <2>3, <2>5, DataGoes2
<1>6. ASSUME NEW s, Data!Shows([ui EXCEPT !.ref = s]), s = ui.selected
      PROVE  DataInv'
  <2>1. PICK w : w = [ui EXCEPT !.ref = s]
    OBVIOUS
  <2>2. /\ DOMAIN w = DOMAIN ui /\ w.datum = ui.datum /\ w.selected = ui.selected /\ w.ref = s
        /\ w.lagged = ui.lagged /\ w.keyOf = ui.keyOf /\ w.chat = ui.chat /\ w.shown = ui.shown
        /\ w.loading = ui.loading /\ w.busy = ui.busy
    BY <1>0, <2>1 DEF DataOf, DataHead
  <2>3. DataHead(w)
    BY <1>0, <1>6, <2>2 DEF DataOf, DataHead
  <2>4. Data!KeyNow(w) = Data!KeyNow(ui)
    BY <2>2, DataKey
  <2>5. DataOf(w, calls)
    BY <1>0, <2>2, <2>3, <2>4 DEF DataOf
  <2>6. QED
    BY <1>6, <2>1, <2>5, DataShows
<1>7. QED
  BY <1>1, <1>2, <1>3, <1>4, <1>5, <1>6 DEF Data!Select, Data!ListMovesSelection

LEMMA DataSets ==
  ASSUME DataInv, NEW s, NEW k, Data!SetKey(s, k)
  PROVE  DataInv'
<1>0. DataOf(ui, calls)
  BY DEF DataInv
<1>1. PICK n : /\ n = Data!ActOn({}, "set", [of |-> s, key |-> k])
               /\ Fresh(n, "act", "set", [of |-> s, key |-> k])
  BY DataNew
<1>2. PICK w : w = Data!Moving
  OBVIOUS
<1>3. /\ DOMAIN w = DOMAIN ui /\ w.datum = ui.datum /\ w.shown = ui.shown /\ w.loading = ui.loading
      /\ w.selected = ui.selected /\ w.ref = ui.ref /\ w.lagged = ui.lagged
      /\ w.keyOf = ui.keyOf /\ w.chat = ui.chat
  BY <1>0, <1>2 DEF Data!Moving, DataOf, DataHead
<1>4. Data!KeyNow(w) = Data!KeyNow(ui) /\ DataHead(w)
  BY <1>0, <1>3, DataKey, DataHeads DEF DataOf
<1>8. ui.datum # Data!Models
  BY DataKinds DEF Data!SetKey
<1>5. DataOf(w, calls \union {n})
  BY <1>0, <1>1, <1>3, <1>4, <1>8 DEF DataOf, Fresh
<1>6. AllProper({n})
  BY <1>1, AllPropers DEF Fresh
<1>7. QED
  BY <1>1, <1>2, <1>5, <1>6, DataClicks DEF Data!SetKey

LEMMA DataServed ==
  ASSUME DataInv,
         Data!Serving \/ Data!WorkGoesOn \/ (\E c \in calls : Data!Fails(c))
  PROVE  DataInv'
<1>0. DataOf(ui, calls)
  BY DEF DataInv
<1>1. CASE Data!Serving
  <2>1. PICK c \in calls : (\E s, got : Data!Serves(c, s, got))
    BY <1>1 DEF Data!Serving
  <2>2. c \in calls => \A at, got : DataOf(ui, Answered(c, at, got))
    BY <1>0, AnsweredAlike, DataAlike
  <2>3. QED
    BY <2>1, <2>2, DataServes DEF Data!Serves
<1>2. CASE Data!WorkGoesOn
  BY <1>2, DataChanges DEF Data!WorkGoesOn
<1>3. CASE \E c \in calls : Data!Fails(c)
  <2>1. PICK c \in calls : Data!Fails(c)
    BY <1>3
  <2>2. DataOf(ui, Answered(c, "failed", c.got))
    BY <1>0, <2>1, AnsweredAlike, DataAlike DEF Data!Fails
  <2>3. QED
    BY <2>1, <2>2, DataFails
<1>4. QED
  BY <1>1, <1>2, <1>3

LEMMA DataReturned ==
  ASSUME DataInv,
         Data!Returns
  PROVE  DataInv'
<1>0. DataOf(ui, calls)
  BY DEF DataInv
<1>1. ASSUME NEW c \in calls, ~Data!Heard(c), Data!DatumReturns(c) PROVE DataInv'
  <2>1. c.op = "load" /\ ui.datum.late = "ref" /\ c.arg # ui.ref
    BY <1>1 DEF Data!DatumReturns, Data!Heard
  <2>2. ui.loading # FALSE /\ ui.lagged = FALSE => c.arg # Data!KeyNow(ui)
    BY <1>0, <2>1, DataModelsKey DEF DataOf, DataHead
  <2>3. PICK T : T = calls \ {c}
    OBVIOUS
  <2>4. DataOf(ui, T)
    BY <1>0, <2>1, <2>2, <2>3 DEF DataOf
  <2>5. QED
    BY <1>1, <2>3, <2>4, DataEnds DEF Data!DatumReturns
<1>2. ASSUME NEW c \in calls, Data!Heard(c), Data!DatumReturns(c) PROVE DataInv'
  <2>1. c.op = "load" /\ (ui.datum = Data!Models => c.arg = ui.ref)
    BY <1>2, DataKinds DEF Data!DatumReturns, Data!Heard
  <2>2. PICK T : T = calls \ {c}
    OBVIOUS
  <2>3. ASSUME NEW v, NEW w, w = [v EXCEPT !.loading = FALSE],
               v = [ui EXCEPT !.shown = Data!Shown(c.arg, c.got)] \/ v = Data!Failed
        PROVE  DataOf(w, T)
    <3>1. /\ DOMAIN v = DOMAIN ui /\ v.datum = ui.datum /\ v.selected = ui.selected /\ v.ref = ui.ref
          /\ v.lagged = ui.lagged /\ v.keyOf = ui.keyOf /\ v.chat = ui.chat /\ v.busy = ui.busy
          /\ v.shown \in {ui.shown, None} \/ v.shown.of = c.arg
      BY <1>0, <2>3 DEF DataOf, DataHead, Data!Failed, Data!Shown
    <3>2. /\ DOMAIN w = DOMAIN ui /\ w.datum = ui.datum /\ w.selected = ui.selected /\ w.ref = ui.ref
          /\ w.lagged = ui.lagged /\ w.keyOf = ui.keyOf /\ w.chat = ui.chat /\ w.busy = ui.busy
          /\ w.loading = FALSE /\ w.shown = v.shown
      BY <1>0, <2>3, <3>1 DEF DataOf, DataHead
    <3>3. DataHead(w) /\ Data!KeyNow(w) = Data!KeyNow(ui)
      BY <1>0, <3>2, DataHeads, DataKey DEF DataOf
    <3>4. ui.datum = Data!Models /\ ui.lagged = FALSE => c.arg = Data!KeyNow(ui)
      BY <1>0, <2>1, DataModelsKey DEF DataOf, DataHead
    <3>5. w.datum = Data!Models /\ w.lagged = FALSE /\ w.shown # None => w.shown.of = Data!KeyNow(w)
      BY <1>0, <3>1, <3>2, <3>3, <3>4 DEF DataOf
    <3>6. QED
      BY <1>0, <2>1, <2>2, <3>2, <3>3, <3>5 DEF DataOf
  <2>4. PICK v : v = IF c.at = "served" THEN [ui EXCEPT !.shown = Data!Shown(c.arg, c.got)] ELSE Data!Failed
    OBVIOUS
  <2>5. PICK w : w = [v EXCEPT !.loading = FALSE]
    OBVIOUS
  <2>6. DataOf(w, T)
    BY <2>3, <2>4, <2>5
  <2>7. QED
    BY <1>2, <2>2, <2>4, <2>5, <2>6, DataEnds DEF Data!DatumReturns
<1>3. ASSUME NEW c \in calls, Data!IntelligenceReturns(c) PROVE DataInv'
  <2>1. c.op = "refresh_intelligence" /\ ui.datum # Data!Models
    BY <1>0, <1>3, DataKinds DEF DataOf, Data!IntelligenceReturns
  <2>2. PICK v : v = [ui EXCEPT !.busy = FALSE]
    OBVIOUS
  <2>3. PICK w : w = [v EXCEPT !.shown = Data!Shown(c.arg, c.got)]
    OBVIOUS
  <2>4. /\ DOMAIN v = DOMAIN ui /\ v.datum = ui.datum /\ v.selected = ui.selected /\ v.ref = ui.ref
        /\ v.lagged = ui.lagged /\ v.keyOf = ui.keyOf /\ v.loading = ui.loading /\ v.busy = FALSE
    BY <1>0, <2>2 DEF DataOf, DataHead
  <2>5. /\ DOMAIN w = DOMAIN ui /\ w.datum = ui.datum /\ w.selected = ui.selected /\ w.ref = ui.ref
        /\ w.lagged = ui.lagged /\ w.keyOf = ui.keyOf /\ w.loading = ui.loading /\ w.busy = FALSE
    BY <1>0, <2>3, <2>4 DEF DataOf, DataHead
  <2>6. DataHead(v) /\ DataHead(w)
    BY <1>0, <2>4, <2>5, DataHeads DEF DataOf
  <2>7. PICK T : T = calls \ {c}
    OBVIOUS
  <2>8. DataOf(v, T) /\ DataOf(w, T)
    BY <1>0, <2>1, <2>4, <2>5, <2>6, <2>7 DEF DataOf
  <2>9. QED
    BY <1>3, <2>2, <2>3, <2>7, <2>8, DataEnds DEF Data!IntelligenceReturns
<1>4. CASE \E c \in calls : Data!SetReturns(c)
  <2>1. PICK c \in calls : Data!SetReturns(c)
    BY <1>4
  <2>2. PICK u : u = IF c.at = "served" /\ Data!Takes(c.arg.of)
             THEN [[ui EXCEPT !.busy = FALSE] EXCEPT !.keyOf = Data!Moved(@, c.arg.of, c.arg.key)]
             ELSE [ui EXCEPT !.busy = FALSE]
    OBVIOUS
  <2>3. /\ DOMAIN u = DOMAIN ui /\ u.datum = ui.datum /\ u.shown = ui.shown
        /\ u.selected = ui.selected /\ u.ref = ui.ref /\ u.lagged = ui.lagged
        /\ u.loading = ui.loading /\ u.busy = FALSE
    BY <1>0, <2>2 DEF DataOf, DataHead
  <2>4. c.op = "set" /\ Data!Goes(c, Data!Rekeyed(u), Data!AskedBy(u), Data!DroppedBy(u), FALSE)
    BY <2>1, <2>2 DEF Data!SetReturns
  <2>5. PICK T : T = (calls \ ({c} \union Data!DroppedBy(u))) \union Data!AskedBy(u)
    OBVIOUS
  <2>6. /\ \A d \in calls : d.op = "load" /\ ui.datum = Data!Models => d \in T
        /\ \A d \in T : d \in calls \/ d.op = "load"
        /\ Data!KeyNow(u) \notin {Data!KeyNow(ui), None} => \E d \in T : d.op = "load" /\ d.arg = Data!KeyNow(u)
    BY <2>4, <2>5, DataDrops, DataAsks
  <2>9. ui.datum # Data!Models
    BY <1>0, <2>4 DEF DataOf
  <2>10. DataHead(u)
    BY <1>0, <2>3, <2>9 DEF DataOf, DataHead
  <2>7. DataOf(Data!Rekeyed(u), T)
    BY <1>0, <2>3, <2>6, <2>10, DataRekeyed
  <2>8. QED
    BY <2>4, <2>5, <2>7, DataAsks, DataGoes
<1>5. QED
  BY <1>1, <1>2, <1>3, <1>4 DEF Data!Returns

LEMMA DataStep == DataInv /\ Data!Next => DataInv'
  BY DataHandle, DataSets, DataServed, DataReturned DEF Data!Next
=============================================================================
