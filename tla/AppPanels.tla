-------------------------------- MODULE AppPanels ------------------------------
(***************************************************************************)
(* The panels that are about the app itself: goals, the account, the       *)
(* conversations, settings, tasks, suggestions and what it keeps of each   *)
(* conversation.                                                           *)
(***************************************************************************)
EXTENDS WorkPanels

CONSTANTS
  Goal, Full,
  Profile,
  Name, Untitled, Project,
  Start, Other,
  Task, Run,
  Shared, Card

Goals == INSTANCE GoalsSurface WITH MaxCalls <- CallsOf["goals"], MaxClicks <- ClicksOf["goals"]
Cloud == INSTANCE CloudSession WITH MaxCalls <- CallsOf["cloud"], MaxClicks <- ClicksOf["cloud"]
List == INSTANCE ConversationList WITH MaxCalls <- CallsOf["list"], MaxClicks <- ClicksOf["list"],
            Conversation <- Chat
Settings == INSTANCE SettingsTabs WITH MaxCalls <- CallsOf["settings"], MaxClicks <- ClicksOf["settings"]
Tasks == INSTANCE TasksSurface WITH MaxCalls <- CallsOf["tasks"], MaxClicks <- ClicksOf["tasks"]
Data == INSTANCE ConversationData WITH MaxCalls <- CallsOf["data"], MaxClicks <- ClicksOf["data"],
            Conversation <- Chat
Today == INSTANCE ActionCards WITH MaxCalls <- CallsOf["today"], MaxClicks <- ClicksOf["today"]
================================================================================
