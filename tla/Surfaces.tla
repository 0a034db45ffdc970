-------------------------------- MODULE Surfaces --------------------------------
(***************************************************************************)
(* The panels of the desktop, the sentinel and the shell's link to the     *)
(* daemon, one at a time: a behaviour is one of one of them.               *)
(***************************************************************************)
EXTENDS AppPanels

CONSTANTS
  Package, KindOf, Known, Custom, TypeOf, From, Query, Hits,
  Watched, Subagent, MaxEchoes,
  Tool, MaxMessages,
  View, ModeOf, Offered

Market == INSTANCE ExtensionsMarket WITH MaxCalls <- CallsOf["market"], MaxClicks <- ClicksOf["market"]
Isle == INSTANCE Island WITH MaxCalls <- CallsOf["island"], MaxClicks <- ClicksOf["island"],
            Conversation <- Watched
Talk == INSTANCE Feed WITH MaxCalls <- CallsOf["feed"], MaxClicks <- ClicksOf["feed"]
Watch == INSTANCE Sentinel WITH MaxCalls <- CallsOf["sentinel"], MaxClicks <- ClicksOf["sentinel"]
Nav == INSTANCE Navigation WITH MaxCalls <- CallsOf["navigation"], MaxClicks <- ClicksOf["navigation"],
            Conversation <- Chat
Look == INSTANCE Theme WITH MaxCalls <- CallsOf["theme"], MaxClicks <- ClicksOf["theme"]

panelVars == <<ui, stored, calls, clean, clicks>>
vars == <<panel, panelVars, composerVars, linkVars>>

Absent == ui = None /\ stored = None /\ calls = {} /\ clean = {} /\ clicks = 0

Init ==
  /\ ComposerInit /\ LinkInit
  /\ \/ panel = "git"        /\ Git!Init
     \/ panel = "models"     /\ Models!Init
     \/ panel = "extensions" /\ Extensions!Init
     \/ panel = "market"     /\ Market!Init
     \/ panel = "memory"     /\ Memory!Init
     \/ panel = "personal"   /\ Personal!Init
     \/ panel = "save"       /\ Save!Init
     \/ panel = "preview"    /\ Preview!Init
     \/ panel = "goals"      /\ Goals!Init
     \/ panel = "cloud"      /\ Cloud!Init
     \/ panel = "list"       /\ List!Init
     \/ panel = "settings"   /\ Settings!Init
     \/ panel = "tasks"      /\ Tasks!Init
     \/ panel = "today"      /\ Today!Init
     \/ panel = "data"       /\ Data!Init
     \/ panel = "island"     /\ Isle!Init
     \/ panel = "feed"       /\ Talk!Init
     \/ panel = "sentinel"   /\ Watch!Init
     \/ panel = "navigation" /\ Nav!Init
     \/ panel = "theme"      /\ Look!Init
     \/ panel \in {"composer", "link"} /\ Absent
  /\ (up => panel = "link") /\ (key = NewDraft \/ panel = "composer")

PanelNext ==
  \/ panel = "git"        /\ Git!Next
  \/ panel = "models"     /\ Models!Next
  \/ panel = "extensions" /\ Extensions!Next
  \/ panel = "market"     /\ Market!Next
  \/ panel = "memory"     /\ Memory!Next
  \/ panel = "personal"   /\ Personal!Next
  \/ panel = "save"       /\ Save!Next
  \/ panel = "preview"    /\ Preview!Next
  \/ panel = "goals"      /\ Goals!Next
  \/ panel = "cloud"      /\ Cloud!Next
  \/ panel = "list"       /\ List!Next
  \/ panel = "settings"   /\ Settings!Next
  \/ panel = "tasks"      /\ Tasks!Next
  \/ panel = "today"      /\ Today!Next
  \/ panel = "data"       /\ Data!Next
  \/ panel = "island"     /\ Isle!Next
  \/ panel = "feed"       /\ Talk!Next
  \/ panel = "sentinel"   /\ Watch!Next
  \/ panel = "navigation" /\ Nav!Next
  \/ panel = "theme"      /\ Look!Next

Next ==
  \/ PanelNext /\ UNCHANGED <<panel, composerVars, linkVars>>
  \/ panel = "composer" /\ ComposerNext /\ UNCHANGED <<panel, panelVars, linkVars>>
  \/ panel = "link" /\ LinkNext /\ UNCHANGED <<panel, panelVars, composerVars>>

Spec == Init /\ [][Next]_vars

-----------------------------------------------------------------------------
TypeOK == CASE panel = "composer" -> ComposerTypeOK
            [] panel = "link"     -> LinkTypeOK
            [] OTHER              -> P!PanelTypeOK

InStepNow(p) == CASE panel = "git"        -> Git!InStep(p)
                  [] panel = "models"     -> Models!InStep(p)
                  [] panel = "extensions" -> Extensions!InStep(p)
                  [] panel = "market"     -> Market!InStep(p)
                  [] panel = "memory"     -> Memory!InStep(p)
                  [] panel = "personal"   -> Personal!InStep(p)
                  [] panel = "save"       -> Save!InStep(p)
                  [] panel = "preview"    -> Preview!InStep(p)
                  [] panel = "goals"      -> Goals!InStep(p)
                  [] panel = "cloud"      -> Cloud!InStep(p)
                  [] panel = "list"       -> List!InStep(p)
                  [] panel = "settings"   -> Settings!InStep(p)
                  [] panel = "tasks"      -> Tasks!InStep(p)
                  [] panel = "today"      -> Today!InStep(p)
                  [] panel = "data"       -> Data!InStep(p)
                  [] panel = "island"     -> Isle!InStep(p)
                  [] panel = "feed"       -> Talk!InStep(p)
                  [] panel = "sentinel"   -> Watch!InStep(p)
                  [] panel = "navigation" -> Nav!InStep(p)
                  [] panel = "theme"      -> Look!InStep(p)

\* A panel shows what is stored (for the filter, workspace or conversation that it
\* was asked for, which may have been left since), in every part that no call
\* touches and that was loaded since calls on it overlapped or a handler gave it up
\* (Panel's clean and spoils): on all other ways the handlers load again, or show
\* the change.
InStep == \A p \in clean : P!Settled(p) => InStepNow(p)

\* No indicator stays on, no button disabled, and no caller waiting, once nothing
\* is under way that would end it; but for the mark of a load for a conversation that
\* the list selected by itself (ref and lagged in ConversationData, ExtensionsTab).
BusyMeansCalling ==
  CASE panel = "git"        -> Git!BusyMeansCalling
    [] panel = "models"     -> Models!BusyMeansCalling
    [] panel = "extensions" -> Extensions!BusyMeansCalling
    [] panel = "memory"     -> Memory!BusyMeansCalling
    [] panel = "personal"   -> Personal!BusyMeansCalling
    [] panel = "save"       -> Save!BusyMeansCalling
    [] panel = "preview"    -> Preview!BusyMeansCalling
    [] panel = "goals"      -> Goals!BusyMeansCalling
    [] panel = "cloud"      -> Cloud!BusyMeansCalling
    [] panel = "list"       -> List!BusyMeansCalling
    [] panel = "settings"   -> Settings!BusyMeansCalling
    [] panel = "tasks"      -> Tasks!BusyMeansCalling
    [] panel = "today"      -> Today!BusyMeansCalling
    [] panel = "data"       -> Data!BusyMeansCalling
    [] panel = "link"       -> NobodyWaitsInVain
    [] OTHER                -> TRUE

\* Once a refresh was applied, what is selected is listed, until the shell selects
\* what it likes or a reload replaces the list alone; and the detail that is shown is
\* that of what is selected, even when the list changes or another answer arrives
\* late, but for the models of a conversation that the list selected by itself.
DetailMatches == CASE panel = "git"  -> Git!DetailMatches
                   [] panel = "list" -> List!DetailMatches
                   [] panel = "data" -> Data!DetailMatches
                   [] panel = "preview" -> Preview!DetailMatches
                   [] OTHER          -> TRUE
=============================================================================
