------------------------------ MODULE SurfacesProofs ----------------------------
(***************************************************************************)
(* The inductive invariants of the panels that keep no data of their own,  *)
(* and the theorems about all of them: what a panel shows has the types of *)
(* its variables, its indicators end with the calls they stand for, and a  *)
(* detail is of what is selected.                                          *)
(***************************************************************************)
EXTENDS PanelProofs, Surfaces

LEMMA ClicksLimited == \A p \in Panels : ClicksOf[p] \in Nat
  BY LimitsAssumption

\* The calls stay well formed, and the clicks counted.
LEMMA MovesKeep ==
  ASSUME NEW most \in Nat, Base(most), NEW u, NEW S, Moves(u, S, most)
  PROVE  Base(most)'
  BY DEF Moves, Follows, Base, AllProper

LEMMA SameKeep ==
  ASSUME NEW most \in Nat, Base(most), AllProper(calls'),
         clicks' = clicks \/ (clicks < most /\ clicks' = clicks + 1)
  PROVE  Base(most)'
  BY DEF Base, AllProper

\* Calls go, and others come.
LEMMA PropersJoin ==
  \A S, T, U : AllProper(S) /\ AllProper(T) => AllProper((S \ U) \union T) /\ AllProper(S \ U)
                                               /\ AllProper(S \union T)
  BY DEF AllProper

(* The lists of the market.                                                  *)
MarketInv == Base(ClicksOf["market"])

LEMMA MarketInit == Market!Init => MarketInv
  BY ClicksLimited DEF Market!Init, MarketInv, Base, AllProper, Panels

LEMMA MarketSees ==
  ASSUME MarketInv, NEW u, NEW asked, NEW lost, Market!Sees(u, asked, lost)
  PROVE  MarketInv'
  BY SameKeep, ClicksLimited DEF Market!Sees, MarketInv, Base, Panels

LEMMA MarketKeepsRepos ==
  ASSUME MarketInv, NEW u, NEW lost, Market!KeepsRepos(u, lost)
  PROVE  MarketInv'
  BY SameKeep, ClicksLimited DEF Market!KeepsRepos, MarketInv, Base, Panels

LEMMA MarketShows ==
  ASSUME MarketInv, NEW u, Market!Shows(u)
  PROVE  MarketInv'
  BY SameKeep, ClicksLimited DEF Market!Shows, MarketInv, Base, Panels

LEMMA MarketStep == MarketInv /\ Market!Next => MarketInv'
<1> SUFFICES ASSUME MarketInv, Market!Next PROVE MarketInv'
  OBVIOUS
<1>1. CASE Market!SubTab
  BY <1>1, MarketSees DEF Market!SubTab, Market!Filters
<1>2. CASE Market!ReposTab
  BY <1>2, MarketSees, MarketShows DEF Market!ReposTab, Market!HandleExploreRepo
<1>3. CASE Market!McpTab \/ Market!SkillsTab
  BY <1>3, MarketSees DEF Market!McpTab, Market!SkillsTab, Market!Browse
<1>4. CASE Market!MarketTab
  BY <1>4, MarketSees DEF Market!MarketTab, Market!Filters
<1>5. CASE Market!AddRepoForm
  BY <1>5, MarketShows DEF Market!AddRepoForm
<1>6. CASE Market!HandleAddCustomRepo
  BY <1>6, MarketKeepsRepos DEF Market!HandleAddCustomRepo
<1>7. CASE Market!HandleRemoveCustomRepo
  BY <1>7, MarketKeepsRepos DEF Market!HandleRemoveCustomRepo
<1>8. CASE Market!Reopen
  BY <1>8, MarketSees DEF Market!Reopen
<1>9. QED
  BY <1>1, <1>2, <1>3, <1>4, <1>5, <1>6, <1>7, <1>8 DEF Market!Next

(* The feed.                                                                 *)
TalkInv == Base(ClicksOf["feed"])

LEMMA TalkInit == Talk!Init => TalkInv
  BY ClicksLimited DEF Talk!Init, TalkInv, Base, AllProper, Panels

LEMMA TalkArrives ==
  ASSUME TalkInv, NEW s, NEW lost, NEW won, Talk!Arrives(s, lost, won)
  PROVE  TalkInv'
  BY SameKeep, ClicksLimited DEF Talk!Arrives, TalkInv, Base, Panels

LEMMA TalkStep == TalkInv /\ Talk!Next => TalkInv'
<1> SUFFICES ASSUME TalkInv, Talk!Next PROVE TalkInv'
  OBVIOUS
<1>1. CASE Talk!Prompt
  BY <1>1, TalkArrives DEF Talk!Prompt
<1>2. CASE Talk!Answers
  BY <1>2, TalkArrives DEF Talk!Answers
<1>3. CASE Talk!ToolEnds \/ Talk!Abort
  BY <1>3, TalkArrives DEF Talk!ToolEnds, Talk!Abort
<1>4. CASE \E c \in stored.late : Talk!EndsLate(c)
  BY <1>4, TalkArrives DEF Talk!EndsLate
<1>5. CASE \E k \in Talk!Chains(ui.items) : Talk!Toggle(k)
  BY <1>5, SameKeep, ClicksLimited DEF Talk!Toggle, Talk!Shows, TalkInv, Base, Panels
<1>6. QED
  BY <1>1, <1>2, <1>3, <1>4, <1>5 DEF Talk!Next

(* The sentinel.                                                             *)
WatchInv == Base(ClicksOf["sentinel"])

LEMMA WatchNew ==
  /\ \A parts, op, arg : Proper(Watch!LoadOf(parts, op, arg)) /\ Proper(Watch!ActOn(parts, op, arg))
  /\ \A op, arg : Proper(Watch!Detail(op, arg))
  BY DEF Watch!LoadOf, Watch!ActOn, Watch!Detail, Watch!Sent, Proper, IsCall

LEMMA WatchTurns ==
  ASSUME WatchInv, NEW u, NEW new, NEW gone, Watch!Turns(u, new, gone), AllProper(new)
  PROVE  WatchInv'
<1>1. Moves(u, (calls \ gone) \union new, ClicksOf["sentinel"])
  BY TurnMoves DEF WatchInv, Watch!Turns, Watch!Joined, P!Joined, Watch!Disturbed, P!Disturbed, Watch!Clash, P!Clash, Watch!Touched, P!Touched
<1>2. QED
  BY <1>1, MovesKeep, ClicksLimited DEF WatchInv, Panels

LEMMA WatchClicks ==
  ASSUME WatchInv, NEW u, NEW new, Watch!Clicks(u, new), AllProper(new)
  PROVE  WatchInv'
  BY WatchTurns DEF Watch!Clicks

LEMMA WatchServes ==
  ASSUME WatchInv, NEW c, NEW s, NEW got, Watch!Serves(c, s, got)
  PROVE  WatchInv'
<1>1. Moves(ui, Answered(c, "served", got), ClicksOf["sentinel"])
  BY ServeMoves DEF WatchInv, Watch!Serves
<1>2. QED
  BY <1>1, MovesKeep, ClicksLimited DEF WatchInv, Panels

LEMMA WatchFails ==
  ASSUME WatchInv, NEW c, Watch!Fails(c)
  PROVE  WatchInv'
<1>1. Moves(ui, Answered(c, "failed", c.got), ClicksOf["sentinel"])
  BY FailMoves DEF WatchInv, Watch!Fails
<1>2. QED
  BY <1>1, MovesKeep, ClicksLimited DEF WatchInv, Panels

LEMMA WatchInit == Watch!Init => WatchInv
  BY ClicksLimited DEF Watch!Init, WatchInv, Base, AllProper, Panels

LEMMA WatchHappens ==
  ASSUME WatchInv, NEW u, NEW s, NEW lost, Watch!Happens(u, s, lost)
  PROVE  WatchInv'
  BY SameKeep, ClicksLimited DEF Watch!Happens, WatchInv, Base, Panels

LEMMA WatchEnds ==
  ASSUME WatchInv, NEW c, NEW u, NEW s, NEW new, NEW lost, AllProper(new), Watch!Ends(c, u, s, new, lost)
  PROVE  WatchInv'
  BY SameKeep, PropersJoin, ClicksLimited DEF Watch!Ends, WatchInv, Base, Panels

LEMMA WatchSessionStarts == WatchInv /\ Watch!SessionStarts => WatchInv'
<1> SUFFICES ASSUME WatchInv, Watch!SessionStarts PROVE WatchInv'
  OBVIOUS
<1>1. Follows(calls)
  BY DisturbedFollows DEF Watch!SessionStarts, WatchInv, Base, Watch!Disturbed, P!Disturbed
<1>2. Moves(ui', calls, ClicksOf["sentinel"])
  BY <1>1 DEF Watch!SessionStarts, Moves
<1>3. QED
  BY <1>2, MovesKeep, ClicksLimited DEF WatchInv, Panels

LEMMA WatchReturned == WatchInv /\ Watch!Returns => WatchInv'
<1> SUFFICES ASSUME WatchInv, NEW c \in calls,
                    \/ Watch!FileVerdict(c) \/ Watch!FileConfirmed(c)
                    \/ Watch!CommandVerdict(c) \/ Watch!CommandConfirmed(c)
                    \/ Watch!SearchReturns(c) \/ Watch!RepoMapReturns(c) \/ Watch!SubagentReturns(c)
             PROVE  WatchInv'
  BY DEF Watch!Returns
<1>0. AllProper({}) /\ \A parts, op, arg : AllProper({Watch!ActOn(parts, op, arg)})
  BY WatchNew, AllPropers
<1>1. CASE Watch!FileVerdict(c) \/ Watch!FileConfirmed(c)
  BY <1>0, <1>1, WatchEnds DEF Watch!FileVerdict, Watch!FileConfirmed, Watch!Changes
<1>2. CASE Watch!CommandVerdict(c) \/ Watch!CommandConfirmed(c)
  BY <1>0, <1>2, WatchEnds
     DEF Watch!CommandVerdict, Watch!CommandConfirmed, Watch!Runs, Watch!NotRun
<1>3. CASE Watch!SearchReturns(c) \/ Watch!RepoMapReturns(c) \/ Watch!SubagentReturns(c)
  BY <1>0, <1>3, WatchEnds DEF Watch!SearchReturns, Watch!RepoMapReturns, Watch!SubagentReturns
<1>4. QED
  BY <1>1, <1>2, <1>3

LEMMA WatchStep == WatchInv /\ Watch!Next => WatchInv'
<1> SUFFICES ASSUME WatchInv, Watch!Next PROVE WatchInv'
  OBVIOUS
<1>0. /\ \A parts, op, arg : AllProper({Watch!ActOn(parts, op, arg)})
      /\ \A op, arg : AllProper({Watch!Detail(op, arg)})
  BY WatchNew, AllPropers
<1>1. ASSUME NEW f \in File, Watch!Read(f) \/ Watch!Write(f)
      PROVE  WatchInv'
  BY <1>0, <1>1, WatchHappens, WatchClicks DEF Watch!Read, Watch!Write
<1>2. ASSUME NEW f \in File, Watch!SearchCode(f) \/ Watch!EditedElsewhere(f)
      PROVE  WatchInv'
  BY <1>0, <1>2, WatchHappens, WatchClicks DEF Watch!SearchCode, Watch!EditedElsewhere
<1>3. ASSUME NEW cmd \in Watch!Cmd, Watch!Shell(cmd)
      PROVE  WatchInv'
  BY <1>0, <1>3, WatchHappens, WatchClicks DEF Watch!Shell
<1>4. CASE Watch!TurnStarts \/ Watch!Rollback
  BY <1>4, WatchHappens DEF Watch!TurnStarts, Watch!Rollback
<1>5. CASE Watch!BeforeAgentStart \/ Watch!SpawnSubagent
  BY <1>0, <1>5, WatchClicks DEF Watch!BeforeAgentStart, Watch!SpawnSubagent
<1>6. CASE Watch!Serving \/ \E c \in calls : Watch!MayFail(c) /\ Watch!Fails(c)
  BY <1>6, WatchServes, WatchFails DEF Watch!Serving
<1>7. QED
  BY <1>1, <1>2, <1>3, <1>4, <1>5, <1>6, WatchSessionStarts, WatchReturned DEF Watch!Next

(* Views, modes and the history of the browser.                              *)
NavInv == Base(ClicksOf["navigation"])

LEMMA NavNew ==
  /\ \A parts, op, arg : Proper(Nav!LoadOf(parts, op, arg)) /\ Proper(Nav!ActOn(parts, op, arg))
  /\ \A op, arg : Proper(Nav!Detail(op, arg))
  BY DEF Nav!LoadOf, Nav!ActOn, Nav!Detail, Nav!Sent, Proper, IsCall

LEMMA NavInit == Nav!Init => NavInv
  BY ClicksLimited DEF Nav!Init, NavInv, Base, AllProper, Panels

LEMMA NavDoes ==
  ASSUME NavInv, NEW new, NEW asks, AllProper(asks), Nav!Does(new, asks)
  PROVE  NavInv'
  BY SameKeep, PropersJoin, ClicksLimited DEF Nav!Does, NavInv, Base, Panels

LEMMA NavStarts ==
  ASSUME NavInv, NEW s, Nav!Starts(s)
  PROVE  NavInv'
  BY SameKeep, AllPropers, ClicksLimited DEF Nav!Starts, NavInv, Base, Panels

LEMMA NavStep == NavInv /\ Nav!Next => NavInv'
<1> SUFFICES ASSUME NavInv, Nav!Next PROVE NavInv'
  OBVIOUS
<1>0. /\ AllProper({}) /\ \A mode : AllProper({Nav!Creation(mode)})
      /\ AllProper({Nav!Detail("hashchange", None)})
  BY NavNew, AllPropers DEF Nav!Creation
<1>1. CASE Nav!EffectsRun
  BY <1>1, SameKeep, ClicksLimited DEF Nav!EffectsRun, NavInv, Base, Panels
<1>2. ASSUME NEW v \in View, Nav!SetView(v) PROVE NavInv'
  BY <1>0, <1>2, NavDoes DEF Nav!SetView
<1>3. ASSUME NEW app \in {"chat", "code", "personal"}, Nav!HandleModeChange(app) PROVE NavInv'
  BY <1>0, <1>3, NavDoes DEF Nav!HandleModeChange
<1>4. CASE Nav!OnToggleGit \/ Nav!OnSelectConversation \/ Nav!OnOpenProject \/ Nav!SelectedByShell
  BY <1>0, <1>4, NavDoes
     DEF Nav!OnToggleGit, Nav!OnSelectConversation, Nav!OnOpenProject, Nav!SelectedByShell
<1>5. CASE Nav!OnNewConversation \/ Nav!OnNewProjectSession \/ Nav!HandleNewConversation
  BY <1>0, <1>5, NavDoes
     DEF Nav!OnNewConversation, Nav!OnNewProjectSession, Nav!HandleNewConversation
<1>6. ASSUME NEW at \in DOMAIN stored.history, Nav!Traverse(at) PROVE NavInv'
  BY <1>0, <1>6, SameKeep, PropersJoin, ClicksLimited DEF Nav!Traverse, NavInv, Base, Panels
<1>7. ASSUME NEW c \in calls, Nav!CreateReturns(c) \/ Nav!HashChanges(c) PROVE NavInv'
  <2>1. calls' = calls \ {c} /\ clicks' = clicks
    BY <1>7 DEF Nav!CreateReturns, Nav!HashChanges
  <2>2. QED
    BY <1>0, <2>1, SameKeep, PropersJoin, ClicksLimited DEF NavInv, Base, Panels
<1>8. CASE Nav!Reload \/ Nav!Restart
  BY <1>8, NavStarts DEF Nav!Reload, Nav!Restart
<1>9. QED
  BY <1>1, <1>2, <1>3, <1>4, <1>5, <1>6, <1>7, <1>8 DEF Nav!Next, Nav!Navigates

(* The theme.                                                                *)
LookInv == Base(ClicksOf["theme"])

LEMMA LookNew ==
  /\ \A parts, op, arg : Proper(Look!LoadOf(parts, op, arg)) /\ Proper(Look!ActOn(parts, op, arg))
  /\ \A op, arg : Proper(Look!Detail(op, arg))
  BY DEF Look!LoadOf, Look!ActOn, Look!Detail, Look!Sent, Proper, IsCall

LEMMA LookTurns ==
  ASSUME LookInv, NEW u, NEW new, NEW gone, Look!Turns(u, new, gone), AllProper(new)
  PROVE  LookInv'
<1>1. Moves(u, (calls \ gone) \union new, ClicksOf["theme"])
  BY TurnMoves DEF LookInv, Look!Turns, Look!Joined, P!Joined, Look!Disturbed, P!Disturbed, Look!Clash, P!Clash, Look!Touched, P!Touched
<1>2. QED
  BY <1>1, MovesKeep, ClicksLimited DEF LookInv, Panels

LEMMA LookClicks ==
  ASSUME LookInv, NEW u, NEW new, Look!Clicks(u, new), AllProper(new)
  PROVE  LookInv'
  BY LookTurns DEF Look!Clicks

LEMMA LookServes ==
  ASSUME LookInv, NEW c, NEW s, NEW got, Look!Serves(c, s, got)
  PROVE  LookInv'
<1>1. Moves(ui, Answered(c, "served", got), ClicksOf["theme"])
  BY ServeMoves DEF LookInv, Look!Serves
<1>2. QED
  BY <1>1, MovesKeep, ClicksLimited DEF LookInv, Panels

LEMMA LookFails ==
  ASSUME LookInv, NEW c, Look!Fails(c)
  PROVE  LookInv'
<1>1. Moves(ui, Answered(c, "failed", c.got), ClicksOf["theme"])
  BY FailMoves DEF LookInv, Look!Fails
<1>2. QED
  BY <1>1, MovesKeep, ClicksLimited DEF LookInv, Panels

LEMMA LookGoes ==
  ASSUME LookInv, NEW c, NEW u, NEW new, NEW gone, NEW spoils,
         Look!Goes(c, u, new, gone, spoils), AllProper(new)
  PROVE  LookInv'
<1>1. Moves(u, (calls \ ({c} \union gone)) \union new, ClicksOf["theme"])
  BY GoMoves DEF LookInv, Look!Goes, Look!Joined, P!Joined, Look!Disturbed, P!Disturbed, Look!Clash, P!Clash, Look!Touched, P!Touched
<1>2. QED
  BY <1>1, MovesKeep, ClicksLimited DEF LookInv, Panels

LEMMA LookInit == Look!Init => LookInv
<1> SUFFICES ASSUME Look!Init PROVE LookInv
  OBVIOUS
<1>1. clicks = 0 /\ \A c \in calls : \E w \in Look!Window : c = Look!LoadOf({"file"}, "settings", w)
  BY DEF Look!Init
<1>2. QED
  BY <1>1, LookNew, ClicksLimited DEF LookInv, Base, AllProper, Panels

LEMMA LookHeard ==
  ASSUME LookInv, NEW u, Look!Heard(u)
  PROVE  LookInv'
  BY SameKeep, ClicksLimited DEF Look!Heard, LookInv, Base, Panels

LEMMA LookSet ==
  ASSUME LookInv, NEW config, Look!SetThemeConfig(config)
  PROVE  LookInv'
<1>1. AllProper({Look!ActOn({"file"}, "save", config), Look!ActOn({"file"}, "native", config)})
  BY LookNew, AllPropers
<1>2. QED
  BY <1>1, LookClicks DEF Look!SetThemeConfig

LEMMA LookEmit ==
  ASSUME LookInv, NEW c \in calls, Look!Emit(c)
  PROVE  LookInv'
<1>1. Proper(c)
  BY DEF LookInv, Base, AllProper
<1>2. Proper([c EXCEPT !.got = None])
  BY <1>1 DEF Proper, IsCall
<1>3. AllProper({[c EXCEPT !.got = None]})
  BY <1>2, AllPropers
<1>4. QED
  BY <1>3, SameKeep, PropersJoin, ClicksLimited DEF Look!Emit, LookInv, Base, Panels

LEMMA LookStep == LookInv /\ Look!Next => LookInv'
<1> SUFFICES ASSUME LookInv, Look!Next PROVE LookInv'
  OBVIOUS
<1>0. /\ AllProper({}) /\ \A op, arg : AllProper({Look!Detail(op, arg)})
      /\ \A parts, op, arg : AllProper({Look!LoadOf(parts, op, arg)})
                             /\ AllProper({Look!ActOn(parts, op, arg)})
  BY LookNew, AllPropers
<1>1. CASE \/ \E mode \in Look!ThemeMode : Look!SetMode(mode)
           \/ \E flavor \in Offered : Look!SetTheme(flavor)
           \/ Look!ToggleThemeMode
  BY <1>1, LookSet DEF Look!SetMode, Look!SetTheme, Look!ToggleThemeMode
<1>2. CASE Look!OpenGeneralTab \/ Look!HandleSave \/ Look!OtherTabSaves
  BY <1>0, <1>2, LookClicks DEF Look!OpenGeneralTab, Look!HandleSave, Look!OtherTabSaves
<1>3. ASSUME NEW c \in calls,
             Look!UpdateAppSettings(c) \/ Look!SetNativeTheme(c) \/ Look!GetAppSettings(c)
      PROVE  LookInv'
  BY <1>3, LookServes DEF Look!UpdateAppSettings, Look!SetNativeTheme, Look!GetAppSettings
<1>4. ASSUME NEW c \in calls, Look!Returns(c) PROVE LookInv'
  BY <1>0, <1>4, LookGoes DEF Look!Returns
<1>5. ASSUME NEW w \in Look!Window,
             Look!ThemeSync(w) \/ Look!HandleStorage(w) \/ Look!AppearanceChanges(w)
      PROVE  LookInv'
  BY <1>5, LookHeard DEF Look!ThemeSync, Look!HandleStorage, Look!AppearanceChanges
<1>6. ASSUME NEW w \in Look!Window, Look!InitTheme(w) PROVE LookInv'
  BY <1>0, <1>6, LookTurns DEF Look!InitTheme
<1>7. QED
  BY <1>1, <1>2, <1>3, <1>4, <1>5, <1>6, LookEmit, LookFails DEF Look!Next

(* The island.                                                               *)
IsleInv == Base(ClicksOf["island"])

LEMMA IsleNew ==
  /\ \A parts, op, arg : Proper(Isle!LoadOf(parts, op, arg)) /\ Proper(Isle!ActOn(parts, op, arg))
  /\ \A op, arg : Proper(Isle!Detail(op, arg))
  BY DEF Isle!LoadOf, Isle!ActOn, Isle!Detail, Isle!Sent, Proper, IsCall

LEMMA IsleTurns ==
  ASSUME IsleInv, NEW u, NEW new, NEW gone, Isle!Turns(u, new, gone), AllProper(new)
  PROVE  IsleInv'
<1>1. Moves(u, (calls \ gone) \union new, ClicksOf["island"])
  BY TurnMoves DEF IsleInv, Isle!Turns, Isle!Joined, P!Joined, Isle!Disturbed, P!Disturbed, Isle!Clash, P!Clash, Isle!Touched, P!Touched
<1>2. QED
  BY <1>1, MovesKeep, ClicksLimited DEF IsleInv, Panels

LEMMA IsleClicks ==
  ASSUME IsleInv, NEW u, NEW new, Isle!Clicks(u, new), AllProper(new)
  PROVE  IsleInv'
  BY IsleTurns DEF Isle!Clicks

LEMMA IsleServes ==
  ASSUME IsleInv, NEW c, NEW s, NEW got, Isle!Serves(c, s, got)
  PROVE  IsleInv'
<1>1. Moves(ui, Answered(c, "served", got), ClicksOf["island"])
  BY ServeMoves DEF IsleInv, Isle!Serves
<1>2. QED
  BY <1>1, MovesKeep, ClicksLimited DEF IsleInv, Panels

LEMMA IsleFails ==
  ASSUME IsleInv, NEW c, Isle!Fails(c)
  PROVE  IsleInv'
<1>1. Moves(ui, Answered(c, "failed", c.got), ClicksOf["island"])
  BY FailMoves DEF IsleInv, Isle!Fails
<1>2. QED
  BY <1>1, MovesKeep, ClicksLimited DEF IsleInv, Panels

LEMMA IsleGoes ==
  ASSUME IsleInv, NEW c, NEW u, NEW new, NEW gone, NEW spoils,
         Isle!Goes(c, u, new, gone, spoils), AllProper(new)
  PROVE  IsleInv'
<1>1. Moves(u, (calls \ ({c} \union gone)) \union new, ClicksOf["island"])
  BY GoMoves DEF IsleInv, Isle!Goes, Isle!Joined, P!Joined, Isle!Disturbed, P!Disturbed, Isle!Clash, P!Clash, Isle!Touched, P!Touched
<1>2. QED
  BY <1>1, MovesKeep, ClicksLimited DEF IsleInv, Panels

LEMMA IsleInit == Isle!Init => IsleInv
  BY IsleNew, AllPropers, ClicksLimited
     DEF Isle!Init, IsleInv, Base, Panels, Isle!GetSnapshot

LEMMA IsleEvents ==
  \A of, kind : AllProper({Isle!AnEvent(of, kind)})
<1> SUFFICES ASSUME NEW of, NEW kind PROVE Proper(Isle!AnEvent(of, kind))
  BY AllPropers
<1>1. Proper(Isle!ActOn(Isle!RunStates, "event", [of |-> of, kind |-> kind]))
  BY IsleNew
<1>2. QED
  BY <1>1, Arriving DEF Isle!AnEvent

LEMMA IsleTurnGoes ==
  ASSUME IsleInv, NEW s, NEW to, NEW asks, AllProper(asks), Isle!TurnGoes(s, to, asks)
  PROVE  IsleInv'
<1> DEFINE old == P!Disturbed(calls, Isle!RunStates)
<1>1. \A d \in old : Proper(d)
  BY Less DEF P!Disturbed, IsleInv, Base, AllProper
<1>2. AllProper(old)
  BY <1>1 DEF AllProper
<1>3. calls' = P!Joined(old, asks)
  BY DEF Isle!TurnGoes, Isle!Joined, P!Joined, Isle!Disturbed, P!Disturbed,
         Isle!Clash, P!Clash, Isle!Touched, P!Touched
<1> HIDE DEF old
<1>4. Follows(old \union asks)
  BY <1>2, <1>3, JoinedFollows
<1>5. Moves(ui', old \union asks, ClicksOf["island"])
  BY <1>4 DEF Isle!TurnGoes, Moves
<1>6. QED
  BY <1>5, MovesKeep, ClicksLimited DEF IsleInv, Panels

LEMMA IsleMoves ==
  ASSUME IsleInv, NEW u, NEW lost, Isle!Elapses(u, lost) \/ Isle!Moved(u, lost)
  PROVE  IsleInv'
  BY SameKeep, ClicksLimited DEF Isle!Elapses, Isle!Moved, Isle!Moves, IsleInv, Base, Panels

LEMMA IsleSelect ==
  ASSUME IsleInv, NEW s, Isle!Select(s)
  PROVE  IsleInv'
<1>1. AllProper({Isle!LoadConversation(s)})
  BY IsleNew, AllPropers DEF Isle!LoadConversation
<1>2. calls' = P!Joined(calls, {Isle!LoadConversation(s)})
  BY DEF Isle!Select, Isle!Joined, P!Joined, Isle!Disturbed, P!Disturbed,
         Isle!Clash, P!Clash, Isle!Touched, P!Touched
<1>3. Follows(calls \union {Isle!LoadConversation(s)})
  BY <1>1, <1>2, JoinedFollows DEF IsleInv, Base
<1>4. Moves(ui', calls \union {Isle!LoadConversation(s)}, ClicksOf["island"])
  BY <1>3 DEF Isle!Select, Moves
<1>5. QED
  BY <1>4, MovesKeep, ClicksLimited DEF IsleInv, Panels

LEMMA IsleReturned == IsleInv /\ Isle!Returns => IsleInv'
<1> SUFFICES ASSUME IsleInv, NEW c \in calls,
                    \/ Isle!SnapshotReturns(c) \/ Isle!ConversationReturns(c)
                    \/ Isle!TaskEvent(c) \/ Isle!SessionEvent(c)
                    \/ Isle!AbortReturns(c) \/ Isle!OpenMainReturns(c)
             PROVE  IsleInv'
  BY DEF Isle!Returns
<1>0. AllProper({}) /\ \A s : AllProper({Isle!LoadConversation(s)})
  BY IsleNew, AllPropers DEF Isle!LoadConversation
<1>1. CASE Isle!SnapshotReturns(c) \/ Isle!AbortReturns(c)
  BY <1>0, <1>1, IsleGoes DEF Isle!SnapshotReturns, Isle!AbortReturns
<1>2. CASE Isle!ConversationReturns(c) \/ Isle!TaskEvent(c) \/ Isle!OpenMainReturns(c)
  BY <1>0, <1>2, IsleGoes
     DEF Isle!ConversationReturns, Isle!TaskEvent, Isle!OpenMainReturns, Isle!Takes
<1>3. CASE Isle!SessionEvent(c)
  BY <1>0, <1>3, IsleGoes DEF Isle!SessionEvent, Isle!Takes
<1>4. QED
  BY <1>1, <1>2, <1>3

LEMMA IsleStep == IsleInv /\ Isle!Next => IsleInv'
<1> SUFFICES ASSUME IsleInv, Isle!Next PROVE IsleInv'
  OBVIOUS
<1>0. /\ AllProper({}) /\ \A s : AllProper({Isle!LoadConversation(s)})
      /\ \A op, arg : AllProper({Isle!Detail(op, arg)})
  BY IsleNew, AllPropers DEF Isle!LoadConversation
<1>1. CASE Isle!Turns_ \/ Isle!TaskRuns
  BY <1>0, <1>1, IsleTurnGoes, IsleEvents
     DEF Isle!Turns_, Isle!TurnBegins, Isle!TurnStarts, Isle!TurnMoves, Isle!TurnSettles,
         Isle!TurnLeaves, Isle!TaskRuns
<1>2. CASE Isle!Window
  BY <1>2, IsleMoves
     DEF Isle!Window, Isle!Expand, Isle!Collapse, Isle!OnIslandState, Isle!ToggleWindow,
         Isle!CompletionTimer, Isle!TaskTimer
<1>3. CASE Isle!RefreshSnapshot \/ Isle!ReloadWhileBusy \/ Isle!HandleStop \/ Isle!HandleOpenMain
  BY <1>0, <1>3, IsleClicks
     DEF Isle!RefreshSnapshot, Isle!ReloadWhileBusy, Isle!HandleStop, Isle!HandleOpenMain,
         Isle!GetSnapshot
<1>4. CASE Isle!DaemonServes
  BY <1>4, IsleServes DEF Isle!DaemonServes
<1>5. QED
  BY <1>1, <1>2, <1>3, <1>4, IsleReturned, IsleSelect, IsleFails DEF Isle!Next

LEMMA MostClicksMost == \A p \in Panels : ClicksOf[p] \in Nat /\ ClicksOf[p] <= MostClicks /\ MostClicks \in Nat
  BY LimitsAssumption

(***************************************************************************)
(* All of them.                                                            *)
(***************************************************************************)

LEMMA GitSafe == GitInv => P!PanelTypeOK /\ Git!BusyMeansCalling /\ Git!DetailMatches
<1> SUFFICES ASSUME GitInv PROVE P!PanelTypeOK /\ Git!BusyMeansCalling /\ Git!DetailMatches
  OBVIOUS
<1>1. P!PanelTypeOK
  BY MostClicksMost DEF GitInv, Base, AllProper, Proper, P!PanelTypeOK, Panels
<1>2. Git!BusyMeansCalling
  BY DEF Git!BusyMeansCalling, GitInv, GitOf, Has, Git!Busy
<1>3. Git!DetailMatches
  BY DEF Git!DetailMatches, GitInv, GitOf, Has
<1>4. QED
  BY <1>1, <1>2, <1>3

LEMMA ModelsSafe == ModelsInv => P!PanelTypeOK /\ Models!BusyMeansCalling
<1> SUFFICES ASSUME ModelsInv PROVE P!PanelTypeOK /\ Models!BusyMeansCalling
  OBVIOUS
<1>1. P!PanelTypeOK
  BY MostClicksMost DEF ModelsInv, Base, AllProper, Proper, P!PanelTypeOK, Panels
<1>2. Models!BusyMeansCalling
  <2>1. ASSUME calls = {}
        PROVE  /\ ui.busy.loading = FALSE /\ ui.busy.ping = None /\ ui.busy.sync = None
               /\ ui.busy.form = FALSE /\ ui.busy.batch = None /\ ui.busy.probe = None
               /\ ui.busy.vision = FALSE
    BY <2>1 DEF ModelsInv, ModelsOf, Has
  <2>2. PICK no : no = FALSE
    OBVIOUS
  <2>3. Models!NoBusy = [loading |-> no, ping |-> None, sync |-> None, form |-> no,
                         batch |-> None, probe |-> None, vision |-> no]
    BY <2>2 DEF Models!NoBusy
  <2>4. DOMAIN Models!NoBusy = {"loading", "ping", "sync", "form", "batch", "probe", "vision"}
    BY <2>3
  <2>5. /\ Models!NoBusy["loading"] = no
        /\ Models!NoBusy["ping"] = None
        /\ Models!NoBusy["sync"] = None
        /\ Models!NoBusy["form"] = no
        /\ Models!NoBusy["batch"] = None
        /\ Models!NoBusy["probe"] = None
        /\ Models!NoBusy["vision"] = no
    BY <2>3
  <2>6. ASSUME calls = {}
        PROVE  /\ ui.busy["loading"] = no
               /\ ui.busy["ping"] = None
               /\ ui.busy["sync"] = None
               /\ ui.busy["form"] = no
               /\ ui.busy["batch"] = None
               /\ ui.busy["probe"] = None
               /\ ui.busy["vision"] = no
    BY <2>1, <2>2, <2>6
  <2>7. QED
    BY <2>4, <2>5, <2>6 DEF Models!BusyMeansCalling
<1>3. QED
  BY <1>1, <1>2

LEMMA ExtensionsSafe == ExtensionsInv => P!PanelTypeOK /\ Extensions!BusyMeansCalling
<1> SUFFICES ASSUME ExtensionsInv PROVE P!PanelTypeOK /\ Extensions!BusyMeansCalling
  OBVIOUS
<1>1. P!PanelTypeOK
  BY MostClicksMost DEF ExtensionsInv, Base, AllProper, Proper, P!PanelTypeOK, Panels
<1>2. Extensions!BusyMeansCalling
  <2>1. ASSUME calls = {} PROVE ui.busy = None /\ (ui.loading = FALSE \/ ui.lagged = TRUE)
    BY <2>1 DEF ExtensionsInv, ExtensionsOf
  <2>2. QED
    BY <2>1 DEF Extensions!BusyMeansCalling
<1>3. QED
  BY <1>1, <1>2

LEMMA MarketSafe == MarketInv => P!PanelTypeOK
<1> SUFFICES ASSUME MarketInv PROVE P!PanelTypeOK
  OBVIOUS
<1>1. P!PanelTypeOK
  BY MostClicksMost DEF MarketInv, Base, AllProper, Proper, P!PanelTypeOK, Panels
<1>2. QED
  BY <1>1

LEMMA MemorySafe == MemoryInv => P!PanelTypeOK /\ Memory!BusyMeansCalling
<1> SUFFICES ASSUME MemoryInv PROVE P!PanelTypeOK /\ Memory!BusyMeansCalling
  OBVIOUS
<1>1. P!PanelTypeOK
  BY MostClicksMost DEF MemoryInv, Base, AllProper, Proper, P!PanelTypeOK, Panels
<1>2. Memory!BusyMeansCalling
  BY DEF Memory!BusyMeansCalling, MemoryInv, MemoryOf, Has
<1>3. QED
  BY <1>1, <1>2

LEMMA PersonalSafe == PersonalInv => P!PanelTypeOK /\ Personal!BusyMeansCalling
<1> SUFFICES ASSUME PersonalInv PROVE P!PanelTypeOK /\ Personal!BusyMeansCalling
  OBVIOUS
<1>1. P!PanelTypeOK
  BY MostClicksMost DEF PersonalInv, Base, AllProper, Proper, P!PanelTypeOK, Panels
<1>2. Personal!BusyMeansCalling
  BY DEF Personal!BusyMeansCalling, PersonalInv, PersonalOf, Has, Personal!OnTab
<1>3. QED
  BY <1>1, <1>2

LEMMA SaveSafe == SaveInv => P!PanelTypeOK /\ Save!BusyMeansCalling
<1> SUFFICES ASSUME SaveInv PROVE P!PanelTypeOK /\ Save!BusyMeansCalling
  OBVIOUS
<1>1. P!PanelTypeOK
  BY MostClicksMost DEF SaveInv, Base, AllProper, Proper, P!PanelTypeOK, Panels
<1>2. Save!BusyMeansCalling
  BY DEF Save!BusyMeansCalling, SaveInv, SaveOf, Has
<1>3. QED
  BY <1>1, <1>2

LEMMA PreviewSafe == PreviewInv => P!PanelTypeOK /\ Preview!BusyMeansCalling /\ Preview!DetailMatches
<1> SUFFICES ASSUME PreviewInv PROVE P!PanelTypeOK /\ Preview!BusyMeansCalling /\ Preview!DetailMatches
  OBVIOUS
<1>1. P!PanelTypeOK
  BY MostClicksMost DEF PreviewInv, Base, AllProper, Proper, P!PanelTypeOK, Panels
<1>2. Preview!BusyMeansCalling
  BY DEF Preview!BusyMeansCalling, PreviewInv, PreviewOf, Has
<1>3. Preview!DetailMatches
  BY DEF Preview!DetailMatches, PreviewInv, PreviewOf, Has, Preview!IsOpen, Preview!Body, Preview!Named, Preview!At
<1>4. QED
  BY <1>1, <1>2, <1>3

LEMMA GoalsSafe == GoalsInv => P!PanelTypeOK /\ Goals!BusyMeansCalling
<1> SUFFICES ASSUME GoalsInv PROVE P!PanelTypeOK /\ Goals!BusyMeansCalling
  OBVIOUS
<1>1. P!PanelTypeOK
  BY MostClicksMost DEF GoalsInv, Base, AllProper, Proper, P!PanelTypeOK, Panels
<1>2. Goals!BusyMeansCalling
  BY DEF Goals!BusyMeansCalling, GoalsInv, GoalsOf, Has
<1>3. QED
  BY <1>1, <1>2

LEMMA CloudSafe == CloudInv => P!PanelTypeOK /\ Cloud!BusyMeansCalling
<1> SUFFICES ASSUME CloudInv PROVE P!PanelTypeOK /\ Cloud!BusyMeansCalling
  OBVIOUS
<1>1. P!PanelTypeOK
  BY MostClicksMost DEF CloudInv, Base, AllProper, Proper, P!PanelTypeOK, Panels
<1>2. Cloud!BusyMeansCalling
  BY DEF Cloud!BusyMeansCalling, CloudInv, CloudOf, Has
<1>3. QED
  BY <1>1, <1>2

LEMMA ListSafe == ListInv => P!PanelTypeOK /\ List!BusyMeansCalling /\ List!DetailMatches
<1> SUFFICES ASSUME ListInv PROVE P!PanelTypeOK /\ List!BusyMeansCalling /\ List!DetailMatches
  OBVIOUS
<1>1. P!PanelTypeOK
  BY MostClicksMost DEF ListInv, Base, AllProper, Proper, P!PanelTypeOK, Panels
<1>2. List!BusyMeansCalling
  BY DEF List!BusyMeansCalling, ListInv, ListOf, Has
<1>3. List!DetailMatches
  <2>1. ui.sure = FALSE \/ ui.selected \in List!Ids(ui.list) \union {None}
    BY DEF ListInv, ListOf
  <2>2. QED
    BY <2>1 DEF List!DetailMatches
<1>4. QED
  BY <1>1, <1>2, <1>3

LEMMA SettingsSafe == SettingsInv => P!PanelTypeOK /\ Settings!BusyMeansCalling
<1> SUFFICES ASSUME SettingsInv PROVE P!PanelTypeOK /\ Settings!BusyMeansCalling
  OBVIOUS
<1>1. P!PanelTypeOK
  BY MostClicksMost DEF SettingsInv, Base, AllProper, Proper, P!PanelTypeOK, Panels
<1>2. Settings!BusyMeansCalling
  BY DEF Settings!BusyMeansCalling, SettingsInv, SettingsOf, Has
<1>3. QED
  BY <1>1, <1>2

LEMMA TasksSafe == TasksInv => P!PanelTypeOK /\ Tasks!BusyMeansCalling
<1> SUFFICES ASSUME TasksInv PROVE P!PanelTypeOK /\ Tasks!BusyMeansCalling
  OBVIOUS
<1>1. P!PanelTypeOK
  BY MostClicksMost DEF TasksInv, Base, AllProper, Proper, P!PanelTypeOK, Panels
<1>2. Tasks!BusyMeansCalling
  BY DEF Tasks!BusyMeansCalling, TasksInv, TasksOf, Has
<1>3. QED
  BY <1>1, <1>2

LEMMA TodaySafe == TodayInv => P!PanelTypeOK /\ Today!BusyMeansCalling
<1> SUFFICES ASSUME TodayInv PROVE P!PanelTypeOK /\ Today!BusyMeansCalling
  OBVIOUS
<1>1. P!PanelTypeOK
  BY MostClicksMost DEF TodayInv, Base, AllProper, Proper, P!PanelTypeOK, Panels
<1>2. Today!BusyMeansCalling
  BY DEF Today!BusyMeansCalling, TodayInv, TodayOf, Has
<1>3. QED
  BY <1>1, <1>2

LEMMA DataSafe == DataInv => P!PanelTypeOK /\ Data!BusyMeansCalling /\ Data!DetailMatches
<1> SUFFICES ASSUME DataInv PROVE P!PanelTypeOK /\ Data!BusyMeansCalling /\ Data!DetailMatches
  OBVIOUS
<1>1. P!PanelTypeOK
  BY MostClicksMost DEF DataInv, Base, AllProper, Proper, P!PanelTypeOK, Panels
<1>2. Data!BusyMeansCalling
  <2>1. ASSUME calls = {} PROVE ui.busy = FALSE /\ (ui.loading = FALSE \/ ui.lagged = TRUE)
    BY <2>1 DEF DataInv, DataOf, DataHead
  <2>2. QED
    BY <2>1 DEF Data!BusyMeansCalling
<1>3. Data!DetailMatches
  <2>1. ui.datum = Data!Models /\ ui.lagged = FALSE /\ ui.shown # None => ui.shown.of = Data!KeyNow(ui)
    BY DEF DataInv, DataOf
  <2>2. QED
    BY <2>1 DEF Data!DetailMatches
<1>4. QED
  BY <1>1, <1>2, <1>3

LEMMA IsleSafe == IsleInv => P!PanelTypeOK
<1> SUFFICES ASSUME IsleInv PROVE P!PanelTypeOK
  OBVIOUS
<1>1. P!PanelTypeOK
  BY MostClicksMost DEF IsleInv, Base, AllProper, Proper, P!PanelTypeOK, Panels
<1>2. QED
  BY <1>1

LEMMA TalkSafe == TalkInv => P!PanelTypeOK
<1> SUFFICES ASSUME TalkInv PROVE P!PanelTypeOK
  OBVIOUS
<1>1. P!PanelTypeOK
  BY MostClicksMost DEF TalkInv, Base, AllProper, Proper, P!PanelTypeOK, Panels
<1>2. QED
  BY <1>1

LEMMA WatchSafe == WatchInv => P!PanelTypeOK
<1> SUFFICES ASSUME WatchInv PROVE P!PanelTypeOK
  OBVIOUS
<1>1. P!PanelTypeOK
  BY MostClicksMost DEF WatchInv, Base, AllProper, Proper, P!PanelTypeOK, Panels
<1>2. QED
  BY <1>1

LEMMA NavSafe == NavInv => P!PanelTypeOK
<1> SUFFICES ASSUME NavInv PROVE P!PanelTypeOK
  OBVIOUS
<1>1. P!PanelTypeOK
  BY MostClicksMost DEF NavInv, Base, AllProper, Proper, P!PanelTypeOK, Panels
<1>2. QED
  BY <1>1

LEMMA LookSafe == LookInv => P!PanelTypeOK
<1> SUFFICES ASSUME LookInv PROVE P!PanelTypeOK
  OBVIOUS
<1>1. P!PanelTypeOK
  BY MostClicksMost DEF LookInv, Base, AllProper, Proper, P!PanelTypeOK, Panels
<1>2. QED
  BY <1>1

\* Whichever panel it is, its invariant holds.
ShownInv ==
  /\ panel \in Panels \union {"composer", "link"}
  /\ panel = "git" => GitInv
  /\ panel = "models" => ModelsInv
  /\ panel = "extensions" => ExtensionsInv
  /\ panel = "market" => MarketInv
  /\ panel = "memory" => MemoryInv
  /\ panel = "personal" => PersonalInv
  /\ panel = "save" => SaveInv
  /\ panel = "preview" => PreviewInv
  /\ panel = "goals" => GoalsInv
  /\ panel = "cloud" => CloudInv
  /\ panel = "list" => ListInv /\ ListKept
  /\ panel = "settings" => SettingsInv
  /\ panel = "tasks" => TasksInv
  /\ panel = "today" => TodayInv
  /\ panel = "data" => DataInv
  /\ panel = "island" => IsleInv
  /\ panel = "feed" => TalkInv
  /\ panel = "sentinel" => WatchInv
  /\ panel = "navigation" => NavInv
  /\ panel = "theme" => LookInv

LEMMA ShownInit == Init => ShownInv
  BY GitInit, ModelsInit, ExtensionsInit, MarketInit, MemoryInit, PersonalInit, SaveInit, PreviewInit, GoalsInit, CloudInit, ListInit, SettingsInit, TasksInit, TodayInit, DataInit, IsleInit, TalkInit, WatchInit, NavInit, LookInit DEF Init, ShownInv, Panels

LEMMA ShownStays == ShownInv /\ UNCHANGED <<panel, panelVars>> => ShownInv'
<1> SUFFICES ASSUME ShownInv, UNCHANGED <<panel, panelVars>> PROVE ShownInv'
  OBVIOUS
<1>0. panel' = panel /\ ui' = ui /\ stored' = stored /\ calls' = calls /\ clicks' = clicks
  BY DEF panelVars
<1>1. ASSUME GitInv PROVE GitInv'
  BY <1>0, <1>1 DEF GitInv, Base
<1>2. ASSUME ModelsInv PROVE ModelsInv'
  BY <1>0, <1>2 DEF ModelsInv, Base
<1>3. ASSUME ExtensionsInv PROVE ExtensionsInv'
  BY <1>0, <1>3 DEF ExtensionsInv, Base
<1>4. ASSUME MarketInv PROVE MarketInv'
  BY <1>0, <1>4 DEF MarketInv, Base
<1>5. ASSUME MemoryInv PROVE MemoryInv'
  BY <1>0, <1>5 DEF MemoryInv, Base
<1>6. ASSUME PersonalInv PROVE PersonalInv'
  BY <1>0, <1>6 DEF PersonalInv, Base
<1>7. ASSUME SaveInv PROVE SaveInv'
  BY <1>0, <1>7 DEF SaveInv, Base
<1>8. ASSUME PreviewInv PROVE PreviewInv'
  BY <1>0, <1>8 DEF PreviewInv, Base
<1>9. ASSUME GoalsInv PROVE GoalsInv'
  BY <1>0, <1>9 DEF GoalsInv, Base
<1>10. ASSUME CloudInv PROVE CloudInv'
  BY <1>0, <1>10 DEF CloudInv, Base
<1>11. ASSUME ListInv /\ ListKept PROVE ListInv' /\ ListKept'
  BY <1>0, <1>11 DEF ListInv, ListKept, Base
<1>12. ASSUME SettingsInv PROVE SettingsInv'
  BY <1>0, <1>12 DEF SettingsInv, Base, SettingsOf
<1>13. ASSUME TasksInv PROVE TasksInv'
  BY <1>0, <1>13 DEF TasksInv, Base
<1>14. ASSUME TodayInv PROVE TodayInv'
  BY <1>0, <1>14 DEF TodayInv, Base
<1>15. ASSUME DataInv PROVE DataInv'
  BY <1>0, <1>15 DEF DataInv, Base
<1>16. ASSUME IsleInv PROVE IsleInv'
  BY <1>0, <1>16 DEF IsleInv, Base
<1>17. ASSUME TalkInv PROVE TalkInv'
  BY <1>0, <1>17 DEF TalkInv, Base
<1>18. ASSUME WatchInv PROVE WatchInv'
  BY <1>0, <1>18 DEF WatchInv, Base
<1>19. ASSUME NavInv PROVE NavInv'
  BY <1>0, <1>19 DEF NavInv, Base
<1>20. ASSUME LookInv PROVE LookInv'
  BY <1>0, <1>20 DEF LookInv, Base
<1>q. QED
  BY <1>0, <1>1, <1>2, <1>3, <1>4, <1>5, <1>6, <1>7, <1>8, <1>9, <1>10, <1>11, <1>12, <1>13, <1>14, <1>15, <1>16, <1>17, <1>18, <1>19, <1>20 DEF ShownInv

LEMMA ShownStep == ShownInv /\ [Next]_vars => ShownInv'
<1> SUFFICES ASSUME ShownInv, [Next]_vars PROVE ShownInv'
  OBVIOUS
<1>1. CASE UNCHANGED <<panel, panelVars>>
  BY <1>1, ShownStays
<1>2. CASE PanelNext /\ panel' = panel
  <2>1. ASSUME panel = "git", Git!Next PROVE ShownInv'
    BY <1>2, <2>1, GitStep DEF ShownInv
  <2>2. ASSUME panel = "models", Models!Next PROVE ShownInv'
    BY <1>2, <2>2, ModelsStep DEF ShownInv
  <2>3. ASSUME panel = "extensions", Extensions!Next PROVE ShownInv'
    BY <1>2, <2>3, ExtensionsStep DEF ShownInv
  <2>4. ASSUME panel = "market", Market!Next PROVE ShownInv'
    BY <1>2, <2>4, MarketStep DEF ShownInv
  <2>5. ASSUME panel = "memory", Memory!Next PROVE ShownInv'
    BY <1>2, <2>5, MemoryStep DEF ShownInv
  <2>6. ASSUME panel = "personal", Personal!Next PROVE ShownInv'
    BY <1>2, <2>6, PersonalStep DEF ShownInv
  <2>7. ASSUME panel = "save", Save!Next PROVE ShownInv'
    BY <1>2, <2>7, SaveStep DEF ShownInv
  <2>8. ASSUME panel = "preview", Preview!Next PROVE ShownInv'
    BY <1>2, <2>8, PreviewStep DEF ShownInv
  <2>9. ASSUME panel = "goals", Goals!Next PROVE ShownInv'
    BY <1>2, <2>9, GoalsStep DEF ShownInv
  <2>10. ASSUME panel = "cloud", Cloud!Next PROVE ShownInv'
    BY <1>2, <2>10, CloudStep DEF ShownInv
  <2>11. ASSUME panel = "list", List!Next PROVE ShownInv'
    BY <1>2, <2>11, ListStep DEF ShownInv
  <2>12. ASSUME panel = "settings", Settings!Next PROVE ShownInv'
    BY <1>2, <2>12, SettingsStep DEF ShownInv
  <2>13. ASSUME panel = "tasks", Tasks!Next PROVE ShownInv'
    BY <1>2, <2>13, TasksStep DEF ShownInv
  <2>14. ASSUME panel = "today", Today!Next PROVE ShownInv'
    BY <1>2, <2>14, TodayStep DEF ShownInv
  <2>15. ASSUME panel = "data", Data!Next PROVE ShownInv'
    BY <1>2, <2>15, DataStep DEF ShownInv
  <2>16. ASSUME panel = "island", Isle!Next PROVE ShownInv'
    BY <1>2, <2>16, IsleStep DEF ShownInv
  <2>17. ASSUME panel = "feed", Talk!Next PROVE ShownInv'
    BY <1>2, <2>17, TalkStep DEF ShownInv
  <2>18. ASSUME panel = "sentinel", Watch!Next PROVE ShownInv'
    BY <1>2, <2>18, WatchStep DEF ShownInv
  <2>19. ASSUME panel = "navigation", Nav!Next PROVE ShownInv'
    BY <1>2, <2>19, NavStep DEF ShownInv
  <2>20. ASSUME panel = "theme", Look!Next PROVE ShownInv'
    BY <1>2, <2>20, LookStep DEF ShownInv
  <2>q. QED
    BY <1>2, <2>1, <2>2, <2>3, <2>4, <2>5, <2>6, <2>7, <2>8, <2>9, <2>10, <2>11, <2>12, <2>13, <2>14, <2>15, <2>16, <2>17, <2>18, <2>19, <2>20 DEF PanelNext
<1>q. QED
  BY <1>1, <1>2 DEF Next, vars

LEMMA ShownAlways == Spec => []ShownInv
  BY ShownInit, ShownStep, PTL DEF Spec

LEMMA LinkHere == Spec => LinkSpec
<1>1. Init => LinkInit
  BY DEF Init
<1>2. [Next]_vars => [LinkNext]_linkVars
  BY DEF Next, vars
<1>3. QED
  BY <1>1, <1>2, PTL DEF Spec, LinkSpec

LEMMA ComposerHere == Spec => ComposerSpec
<1>1. Init => ComposerInit
  BY DEF Init
<1>2. [Next]_vars => [ComposerNext]_composerVars
  BY DEF Next, vars
<1>3. QED
  BY <1>1, <1>2, PTL DEF Spec, ComposerSpec

(* Whichever panel is shown, its calls are of the kinds and in the states   *)
(* that the handlers know, and so is what the composer and the link hold.   *)
THEOREM SurfacesTypeCorrect == Spec => []TypeOK
<1>1. ShownInv /\ LinkTypeOK /\ ComposerTypeOK => TypeOK
  <2>1. ASSUME ShownInv, panel \notin {"composer", "link"}
        PROVE  P!PanelTypeOK
    BY <2>1, GitSafe, ModelsSafe, ExtensionsSafe, MarketSafe, MemorySafe, PersonalSafe, SaveSafe, PreviewSafe, GoalsSafe, CloudSafe, ListSafe, SettingsSafe, TasksSafe, TodaySafe, DataSafe, IsleSafe, TalkSafe, WatchSafe, NavSafe, LookSafe DEF ShownInv, Panels
  <2>2. QED
    BY <2>1 DEF TypeOK
<1>2. QED
  BY <1>1, ShownAlways, LinkHere, ComposerHere, LinkTypeCorrect, ComposerTypeCorrect, PTL


(* No indicator of a panel stays on, no button disabled and no caller       *)
(* waiting, once nothing is under way that would end it.                    *)
THEOREM IndicatorsEnd == Spec => []BusyMeansCalling
<1>1. ShownInv /\ NobodyWaitsInVain => BusyMeansCalling
  BY GitSafe, ModelsSafe, ExtensionsSafe, MemorySafe, PersonalSafe, SaveSafe, PreviewSafe, GoalsSafe, CloudSafe, ListSafe, SettingsSafe, TasksSafe, TodaySafe, DataSafe DEF ShownInv, BusyMeansCalling
<1>2. QED
  BY <1>1, ShownAlways, LinkHere, LinkForgetsNobody, PTL

(* What is selected is listed, and the detail that is shown is that of what *)
(* is selected.                                                             *)
THEOREM DetailsMatch == Spec => []DetailMatches
<1>1. ShownInv => DetailMatches
  BY GitSafe, PreviewSafe, ListSafe, DataSafe DEF ShownInv, DetailMatches
<1>2. QED
  BY <1>1, ShownAlways, PTL
=============================================================================
