--------------------------------- MODULE Theme ---------------------------------
(***************************************************************************)
(* The theme: what the two windows show, the local storage they share, and *)
(* the shell's file of settings (lib/theme-manager.ts, ipc_handlers.rs).   *)
(*                                                                         *)
(* A change reaches the other window twice: by the storage event of the    *)
(* local storage, and by the event that the shell sends to both windows    *)
(* each time settings are saved.  ui.queue holds the shell's events that   *)
(* have not arrived, ui.told the windows with a storage event to come; its *)
(* handler reads the storage as it is then.  The storage is empty before   *)
(* the first change, which reads as ui.local does in Init; the script of   *)
(* index.html has set what it holds before the page's own code runs.       *)
(***************************************************************************)
EXTENDS Panel, Sequences

CONSTANT Offered  \* flavors that the user clicks on

Window == {"main", "island"}
Presets == [light |-> {"light-default", "light-nord", "light-warm"},
            dark  |-> {"dark-default", "dark-warm", "dark-oled", "dark-tokyo",
                       "dark-cyberpunk"}]
ThemeMode == {"system", "dark", "light"}
Config(mode, flavor) == [mode |-> mode, flavor |-> flavor]

-----------------------------------------------------------------------------
\* The preference of the operating system is not asked, though the function's
\* comment says so and the script of index.html does ask: "system" is light.
ResolveEffectiveMode(mode) == IF mode = "dark" THEN "dark" ELSE "light"
DefaultFlavorForMode(effective) ==
  IF effective = "dark" THEN "dark-default" ELSE "light-default"

\* A flavor of the other mode is replaced by the default.
Look(config) ==
  LET effective == ResolveEffectiveMode(config.mode)
  IN  Config(effective, IF config.flavor \in Presets[effective] THEN config.flavor
                        ELSE DefaultFlavorForMode(effective))

\* A theme that looks the same is neither stored nor told to the hook.
ApplyTheme(u, w, config) ==
  LET new == Config(config.mode, Look(config).flavor)
  IN  IF u.shown[w] = Look(config) THEN u
      ELSE [u EXCEPT !.shown[w] = Look(config),
                     !.local = new,
                     !.told = IF new = u.local THEN @ ELSE @ \union (Window \ {w}),
                     !.hook = IF w = "main" THEN new ELSE @]

-----------------------------------------------------------------------------
(* The user, in the main window *)

SetThemeConfig(config) ==
  Clicks(ApplyTheme(ui, "main", config),
         {ActOn({"file"}, "save", config), ActOn({"file"}, "native", config)})

\* A change of mode keeps a flavor that fits, and a warm one warm.
Paired(flavor, effective) ==
  IF flavor \in Presets[effective] THEN flavor
  ELSE IF flavor = "light-warm" THEN "dark-warm"
  ELSE IF flavor = "dark-warm" THEN "light-warm"
  ELSE DefaultFlavorForMode(effective)
SetMode(mode) ==
  SetThemeConfig(Config(mode, Paired(ui.local.flavor, ResolveEffectiveMode(mode))))
SetTheme(flavor) ==
  \E mode \in DOMAIN Presets :
    flavor \in Presets[mode] /\ SetThemeConfig(Config(mode, flavor))
ToggleThemeMode ==
  SetMode(IF ResolveEffectiveMode(ui.local.mode) = "dark" THEN "light" ELSE "dark")

\* The general tab loads all settings and a toggle of it writes all of them back,
\* the theme too; the other tabs send what they change.
OpenGeneralTab == Clicks(ui, {Detail("form", None)})
HandleSave == ui.form # None /\ Clicks(ui, {ActOn({"file"}, "save", ui.form)})
OtherTabSaves == Clicks(ui, {ActOn({"file"}, "save", None)})

-----------------------------------------------------------------------------
(* The shell *)

\* The file is written, then its theme is sent to the windows.
UpdateAppSettings(c) ==
  /\ c.op = "save"
  /\ LET file == IF c.arg = None THEN stored.file ELSE c.arg
     IN  Serves(c, [file |-> file], file)
SetNativeTheme(c) == c.op = "native" /\ Serves(c, stored, c.arg)
GetAppSettings(c) == c.op \in {"settings", "form"} /\ Serves(c, stored, stored.file)

Emit(c) ==
  /\ c.op \in {"save", "native"} /\ c.at = "served" /\ c.got # None
  /\ ui' = [ui EXCEPT !.queue = [w \in Window |-> Append(@[w], c.got)]]
  /\ calls' = (calls \ {c}) \union {[c EXCEPT !.got = None]}
  /\ UNCHANGED <<stored, clean, clicks>>

Expected == ui.told # {} \/ \E w \in Window : ui.queue[w] # <<>>
Returns(c) ==
  \/ /\ c.op \in {"save", "native"} /\ c.got = None
     /\ Goes(c, ui, {}, {}, c.at = "failed")
  \/ /\ c.op = "settings"
     /\ Goes(c, IF c.at = "served" THEN ApplyTheme(ui, c.arg, c.got) ELSE ui, {}, {},
             Expected)  \* what was sent before comes after it
  \/ /\ c.op = "form"
     /\ Goes(c, IF c.at = "served" THEN [ui EXCEPT !.form = c.got] ELSE ui, {}, {}, FALSE)

-----------------------------------------------------------------------------
(* Events of the windows *)

Heard(u) == ui' = u /\ UNCHANGED <<stored, calls, clean, clicks>>

ThemeSync(w) ==
  /\ ui.queue[w] # <<>>
  /\ Heard(ApplyTheme([ui EXCEPT !.queue[w] = Tail(@)], w, Head(ui.queue[w])))
HandleStorage(w) ==
  /\ w \in ui.told
  /\ Heard(ApplyTheme([ui EXCEPT !.told = @ \ {w}], w, ui.local))
\* The appearance of the operating system changes.
AppearanceChanges(w) ==
  ui.local.mode = "system" /\ Heard(ApplyTheme(ui, w, ui.local))

\* A window loads: events on their way to it, and its answers, are lost.
InitTheme(w) ==
  Turns([ui EXCEPT !.shown[w] = Look(ui.local), !.queue[w] = <<>>, !.told = @ \ {w},
                   !.hook = IF w = "main" THEN ui.local ELSE @,
                   !.form = IF w = "main" THEN None ELSE @],
        {LoadOf({"file"}, "settings", w)},
        {c \in calls : (c.op = "settings" /\ c.arg = w) \/ (c.op = "form" /\ w = "main")})

-----------------------------------------------------------------------------
Init ==
  LET first == Config("light", "light-default")
  IN  /\ ui = [shown |-> [w \in Window |-> Look(first)], local |-> first, hook |-> first,
               queue |-> [w \in Window |-> <<>>], told |-> {}, form |-> None]
      /\ stored = [file |-> Config("light", "light-nord")]
      /\ calls = {LoadOf({"file"}, "settings", w) : w \in Window}
      /\ clean = {"windows", "hook"} /\ clicks = 0

Next ==
  \/ \E mode \in ThemeMode : SetMode(mode)
  \/ \E flavor \in Offered : SetTheme(flavor)
  \/ ToggleThemeMode \/ OpenGeneralTab \/ HandleSave \/ OtherTabSaves
  \/ \E c \in calls : \/ UpdateAppSettings(c) \/ SetNativeTheme(c) \/ GetAppSettings(c)
                      \/ Emit(c) \/ Returns(c) \/ Fails(c)
  \/ \E w \in Window : ThemeSync(w) \/ HandleStorage(w) \/ AppearanceChanges(w) \/ InitTheme(w)

-----------------------------------------------------------------------------
\* Once no event is on its way, both windows show what the storage holds, which is
\* what the settings tab marks, and what the file holds, as the code resolves it:
\* whether a window looks as the operating system prefers is not judged.
InStep(part) == ~Expected =>
  CASE part = "windows" -> \A w \in Window : ui.shown[w] = Look(ui.local)
    [] part = "hook"    -> Look(ui.hook) = Look(ui.local)
    [] part = "file"    -> \A w \in Window : ui.shown[w] = Look(stored.file)
=============================================================================
