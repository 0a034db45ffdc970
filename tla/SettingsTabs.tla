----------------------------- MODULE SettingsTabs ------------------------------
(***************************************************************************)
(* The tabs of the settings that are forms: general, persona, security,    *)
(* the local network and the "about" page (panels/settings/tabs), with the *)
(* files of the shell (ipc_handlers.rs) and the daemon's operations        *)
(* (app_ops.rs, lan.rs).                                                   *)
(*                                                                         *)
(* A tab is a component: what is under way when another is selected goes   *)
(* on, but nothing hears of it.  A form keeps what it loaded and writes    *)
(* all of it back with what it shows.  Fields that are saved together are  *)
(* one; what a field holds before anything was loaded is Start, and blank  *)
(* for a text.  The theme is left out, and so are updates of the runtime,  *)
(* which this build always refuses.                                        *)
(***************************************************************************)
EXTENDS Panel

CONSTANTS Start,  \* what a field holds at first
          Other   \* what else can be chosen or typed

Settings      == {"switches", "proxy", "jev", "lan"}  \* app_settings.json
ProfileFields == {"persona", "tone"}                 \* profile.json
Typed         == {"proxy", "persona"}                \* left out when blank
Instant       == {"switches", "jev"}                 \* saved with the click
Tab           == {"general", "persona", "security", "lan", "about"}

FileOf(tab) == CASE tab \in {"general", "security"} -> Settings
                 [] tab = "persona" -> ProfileFields
                 [] OTHER -> {}
Fields(tab) == CASE tab = "general"  -> {"switches", "proxy"}
                 [] tab = "persona"  -> ProfileFields
                 [] tab = "security" -> {"jev"}
                 [] OTHER -> {}
Parts(tab) == CASE tab = "security" -> FileOf(tab) \union {"blocks"}
                [] tab = "lan"      -> {"lan", "pairing"}
                [] OTHER            -> FileOf(tab)

-----------------------------------------------------------------------------
(* The shell and the daemon *)

\* update_app_settings, save_user_profile: what is there is kept.
Merged(old, new) ==
  [f \in DOMAIN old |-> IF f \in DOMAIN new /\ new[f] # None THEN new[f] ELSE old[f]]

Status(s) == [lan |-> s.field.lan = Other, code |-> s.code, device |-> s.device]
Of(s, names) == [f \in names |-> s.field[f]]

\* A load of the security tab asks for two things, and takes what it gets.
Outcomes(c) ==
  CASE c.op = "load" /\ c.arg.tab = "security" ->
         {<<stored, [field |-> f, blocks |-> b]>> :
            f \in {None, Of(stored, Settings)}, b \in {None, stored.blocks}}
    [] c.op = "load" /\ c.arg.tab = "lan" -> {<<stored, Status(stored)>>}
    [] c.op = "load" /\ c.arg.tab \in {"general", "persona"} ->
         {<<stored, Of(stored, FileOf(c.arg.tab))>>}
    [] c.op = "save"   -> {<<[stored EXCEPT !.field = Merged(@, c.arg.new)], None>>}
    [] c.op = "clear"  -> {<<[stored EXCEPT !.blocks = FALSE], None>>}
    [] c.op = "enable" -> {<<[stored EXCEPT !.field.lan = c.arg.value], None>>}
    [] c.op = "pair"   -> {<<[stored EXCEPT !.field.lan = Other, !.code = TRUE], None>>}
    [] c.op = "revoke" -> {<<[stored EXCEPT !.code = FALSE, !.device = FALSE], None>>}
    [] c.op = "pick"   -> {<<stored, b>> : b \in BOOLEAN}
    [] OTHER           -> {<<stored, None>>}

Serving == \E c \in calls : \E o \in Outcomes(c) : Serves(c, o[1], o[2])

\* The daemon blocks a command, or a telephone is paired.
CommandIsBlocked == ~stored.blocks /\ ChangedElsewhere({"blocks"}, [stored EXCEPT !.blocks = TRUE])
PhonePairs ==
  stored.code /\ ChangedElsewhere({"pairing"}, [stored EXCEPT !.code = FALSE, !.device = TRUE])

-----------------------------------------------------------------------------
(* The tabs *)

Flags(u, f) == [u EXCEPT !.flags = @ \union f]
Clear(u, f) == [u EXCEPT !.flags = @ \ f]

\* Another tab is mounted; its number tells whose answers it hears.
Mounted(tab, n) ==
  [tab |-> tab, n |-> n,
   flags |-> IF FileOf(tab) # {} THEN {"loading"} ELSE {},
   copy |-> [f \in FileOf(tab) |-> None], field |-> [f \in Fields(tab) |-> Start],
   blocks |-> FALSE, lan |-> None]

LoadData(u, after) == LoadOf(Parts(u.tab), "load", [tab |-> u.tab, n |-> u.n, after |-> after])
Does(parts, op, value) == ActOn(parts, op, [n |-> ui.n, value |-> value])

SelectTab(tab) ==
  /\ tab # ui.tab
  /\ \E u \in {Mounted(tab, clicks + 1)} : Clicks(u, {LoadData(u, {})})

\* handleSave: all that was loaded, and over it what is shown.
Payload(u) ==
  [f \in FileOf(u.tab) |-> CASE f \in Fields(u.tab) \intersect Typed /\ u.field[f] = Start -> None
                           [] f \in Fields(u.tab) \ Typed \/ (f \in DOMAIN u.field /\ u.field[f] # Start)
                                -> u.field[f]
                           [] OTHER -> u.copy[f]]
Saves(u) ==
  Clicks(Flags(u, {"saving"}),
         {ActOn(FileOf(u.tab), "save", [n |-> u.n, new |-> Payload(u)])})

\* The general tab shows nothing while it loads; the security tab does.
CanToggle == ui.tab = "security" \/ (ui.tab = "general" /\ "loading" \notin ui.flags)
Toggle(f, v) ==
  /\ CanToggle /\ f \in Fields(ui.tab) \intersect Instant
  /\ ui.field[f] # v
  /\ Saves([ui EXCEPT !.field[f] = v])

Edit(f, v) ==
  /\ f \in Fields(ui.tab) \ Instant
  /\ ui.tab = "general" => "loading" \notin ui.flags
  /\ Shows([ui EXCEPT !.field[f] = v])

SaveButton ==
  /\ Fields(ui.tab) # {} /\ "saving" \notin ui.flags
  /\ ui.tab \in {"general", "persona"} => "loading" \notin ui.flags
  /\ Saves(ui)

RefreshSecurity ==
  /\ ui.tab = "security" /\ "loading" \notin ui.flags
  /\ Clicks(Flags(ui, {"loading"}), {LoadData(ui, {})})
HandleTriggerDreaming ==
  /\ ui.tab = "security" /\ {"dreaming", "loading"} \intersect ui.flags = {}
  /\ Clicks(Flags(ui, {"dreaming"}), {Does({}, "dream", "dreaming")})
HandleClearBlocks ==
  /\ ui.tab = "security" /\ {"clearing", "loading"} \intersect ui.flags = {} /\ ui.blocks
  /\ Clicks(Flags(ui, {"clearing"}), {Does({"blocks"}, "clear", "clearing")})

\* run, of the network's tab
Runs(op, value) ==
  /\ ui.tab = "lan" /\ "busy" \notin ui.flags
  /\ Clicks(Flags(ui, {"busy"}), {Does({"lan", "pairing"}, op, value)})
PollLan == ui.tab = "lan" /\ Clicks(ui, {LoadData(ui, {})})
SetEnabled == ui.lan # None /\ Runs("enable", IF ui.lan.lan THEN Start ELSE Other)
BeginPairing == Runs("pair", Other)
RevokeDevices == ui.lan # None /\ ui.lan.device /\ Runs("revoke", Start)

CanUpdate == ui.tab = "about" /\ {"checking", "installing"} \intersect ui.flags = {}
HandleCheckUpdate ==
  CanUpdate /\ Clicks(Flags(ui, {"checking"}), {Does({}, "check", "checking")})
HandleInstallLocalZip == CanUpdate /\ Clicks(ui, {Does({}, "pick", "installing")})

-----------------------------------------------------------------------------
(* The rest of the handlers *)

\* A field that was never saved leaves what is shown.
Filled(u, got) ==
  [u EXCEPT !.copy = got,
            !.field = [f \in DOMAIN @ |-> IF got[f] = None THEN @[f] ELSE got[f]]]

FormLoads(c) ==
  /\ c.op = "load" /\ c.arg.tab \in {"general", "persona"}
  /\ LET u == Clear(ui, {"loading"})
     IN  CASE c.arg.n # ui.n -> Goes(c, ui, {}, {}, FALSE)
           [] c.arg.n = ui.n /\ c.at = "served" -> Goes(c, Filled(u, c.got), {}, {}, FALSE)
           [] OTHER -> Goes(c, u, {}, {}, FALSE)

\* Settings that do not come count as none.
SecurityLoads(c) ==
  LET none == [f \in Settings |-> None]
      settings == IF c.at = "served" /\ c.got.field # None THEN c.got.field ELSE none
      u == Clear(Filled(ui, settings), {"loading"} \union c.arg.after)
  IN  /\ c.op = "load" /\ c.arg.tab = "security"
      /\ CASE c.arg.n # ui.n -> Goes(c, ui, {}, {}, FALSE)
           [] c.arg.n = ui.n /\ c.at = "served" ->
                Goes(c, [u EXCEPT !.blocks = IF c.got.blocks = None THEN @ ELSE c.got.blocks],
                     {}, {}, None \in {c.got.field, c.got.blocks})
           [] OTHER -> Goes(c, u, {}, {}, FALSE)

StatusLoads(c) ==
  /\ c.op = "load" /\ c.arg.tab \in {"lan", "about"}
  /\ IF c.arg.n # ui.n THEN Goes(c, ui, {}, {}, FALSE)
     ELSE Goes(c, [Clear(ui, c.arg.after) EXCEPT
                     !.lan = IF c.arg.tab = "lan" /\ c.at = "served" THEN c.got ELSE @],
               {}, {}, FALSE)

\* A text that was left out is shown as saved, but stays.
SaveReturns(c) ==
  LET u == Clear(ui, {"saving"})
  IN  /\ c.op = "save"
      /\ CASE c.arg.n # ui.n -> Goes(c, ui, {}, {}, FALSE)
           [] c.arg.n = ui.n /\ c.at = "served" ->
                Goes(c, [u EXCEPT !.copy = c.arg.new], {}, {},
                     \E f \in Typed \intersect DOMAIN c.arg.new : c.arg.new[f] = None)
           [] OTHER -> Goes(c, u, {}, {}, TRUE)

ActReturns(c) ==
  /\ c.op \in {"dream", "clear", "enable", "pair", "revoke"}
  /\ CASE c.arg.n # ui.n -> Goes(c, ui, {}, {}, FALSE)
       [] c.arg.n = ui.n /\ c.at = "served" ->
            LET after == IF ui.tab = "lan" THEN {"busy"} ELSE {c.arg.value}
            IN  Goes(c, IF ui.tab = "lan" THEN ui ELSE Flags(ui, {"loading"}),
                     {LoadData(ui, after)}, {}, FALSE)
       [] OTHER -> Goes(c, Clear(ui, {"busy", c.arg.value}), {}, {}, FALSE)

\* The runtime is never replaced: this build refuses.
RuntimeReturns(c) ==
  /\ c.op \in {"check", "pick", "install"}
  /\ CASE c.arg.n # ui.n -> Goes(c, ui, {}, {}, FALSE)
       [] c.arg.n = ui.n /\ c.op = "pick" /\ c.at = "served" /\ c.got ->
            Goes(c, Flags(ui, {"installing"}), {Does({}, "install", "installing")}, {}, FALSE)
       [] c.arg.n = ui.n /\ c.op = "pick" /\ c.at = "served" /\ ~c.got ->
            Goes(c, ui, {}, {}, FALSE)
       [] OTHER -> Goes(c, Clear(ui, {c.arg.value}), {}, {}, FALSE)

Returns == \E c \in calls :
  \/ FormLoads(c) \/ SecurityLoads(c) \/ StatusLoads(c)
  \/ SaveReturns(c) \/ ActReturns(c) \/ RuntimeReturns(c)

-----------------------------------------------------------------------------
Init ==
  /\ \E field \in [Settings \union ProfileFields -> {None, Other}] :
       /\ field.switches = field.jev /\ field.persona = field.proxy /\ field.tone = field.jev
       /\ field.lan = None
       /\ stored = [field |-> field, blocks |-> FALSE, code |-> FALSE, device |-> FALSE]
  /\ ui = Mounted("general", 0)
  /\ calls = {LoadData(ui, {})} /\ clean = {} /\ clicks = 0

Next ==
  \/ \E tab \in Tab : SelectTab(tab)
  \/ \E v \in {Start, Other} : \/ \E f \in Instant : Toggle(f, v)
                               \/ \E f \in Typed \union {"tone"} : Edit(f, v)
  \/ SaveButton \/ RefreshSecurity \/ HandleTriggerDreaming \/ HandleClearBlocks
  \/ PollLan \/ SetEnabled \/ BeginPairing \/ RevokeDevices
  \/ HandleCheckUpdate \/ HandleInstallLocalZip
  \/ CommandIsBlocked \/ PhonePairs \/ Serving \/ Returns \/ \E c \in calls : Fails(c)

-----------------------------------------------------------------------------
InStep(part) ==
  /\ part \in DOMAIN ui.copy => ui.copy[part] = stored.field[part]
  /\ part \in DOMAIN ui.field \intersect Instant =>
       stored.field[part] \in {None, ui.field[part]}
  /\ part = "blocks" /\ ui.tab = "security" => ui.blocks = stored.blocks
  /\ part \in {"lan", "pairing"} /\ ui.tab = "lan" =>
       ui.lan # None /\ (IF part = "lan" THEN ui.lan.lan = Status(stored).lan
                         ELSE <<ui.lan.code, ui.lan.device>> = <<stored.code, stored.device>>)
BusyMeansCalling == calls = {} => ui.flags = {}
=============================================================================
