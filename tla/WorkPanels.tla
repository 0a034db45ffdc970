-------------------------------- MODULE WorkPanels -----------------------------
(***************************************************************************)
(* What the panels of the desktop share, and those of them that are about  *)
(* the user's work: the repository, models and extensions, what is kept    *)
(* of the conversations.  AppPanels and Surfaces add the others.  All      *)
(* share the variables of Panel; the composer and the link have their own. *)
(***************************************************************************)
EXTENDS Integers, FiniteSets, DaemonLink, Composer

CONSTANTS
  CallsOf, ClicksOf,     \* MaxCalls and MaxClicks of each panel
  MostCalls, MostClicks, \* what none of these exceeds
  File, Provider, Slug, ModelId,
  Chat, Skill, Bundle, Mentions,
  Workspace, MemoryType, MemoryKey, Handbook,
  RecordId, Category, Limit,
  Home, Message, KeyOf,
  Path, Contents

Panels == {"git", "models", "extensions", "market", "memory", "personal", "save",
           "preview", "goals", "cloud", "list", "settings", "tasks", "today", "data",
           "island", "feed", "sentinel", "navigation", "theme"}

ASSUME LimitsAssumption ==
  /\ MostCalls \in Nat /\ MostClicks \in Nat
  /\ \A p \in Panels : CallsOf[p] \in 0..MostCalls /\ ClicksOf[p] \in 0..MostClicks

\* No session and no datum: none of the values that a call can carry.
ASSUME NoneAssumption == None \notin BOOLEAN /\ None # "now"

VARIABLES panel,
          ui, stored, calls, clean, clicks

P == INSTANCE Panel WITH MaxCalls <- MostCalls, MaxClicks <- MostClicks
Git == INSTANCE GitSurface WITH MaxCalls <- CallsOf["git"], MaxClicks <- ClicksOf["git"]
Models == INSTANCE ModelsTab WITH MaxCalls <- CallsOf["models"], MaxClicks <- ClicksOf["models"]
Extensions == INSTANCE ExtensionsTab WITH MaxCalls <- CallsOf["extensions"], MaxClicks <- ClicksOf["extensions"],
            Conversation <- Chat, Package <- Bundle
Memory == INSTANCE MemorySurface WITH MaxCalls <- CallsOf["memory"], MaxClicks <- ClicksOf["memory"],
            Type <- MemoryType, Key <- MemoryKey,
            Text <- Handbook
Personal == INSTANCE PersonalTab WITH MaxCalls <- CallsOf["personal"], MaxClicks <- ClicksOf["personal"],
            Id <- RecordId
Save == INSTANCE QuickSave WITH MaxCalls <- CallsOf["save"], MaxClicks <- ClicksOf["save"],
            Text <- Message, Key <- MemoryKey
Preview == INSTANCE FilePreview WITH MaxCalls <- CallsOf["preview"], MaxClicks <- ClicksOf["preview"]
================================================================================
