----------------------------- MODULE CloudSession ------------------------------
(***************************************************************************)
(* The account of the desktop: the session with the cloud service          *)
(* (lib/supabase-client.ts), the bridge that hands it to the daemon        *)
(* (lib/cloud-sync-bridge.ts), the account dialog                          *)
(* (dialogs/auth-account-dialog.tsx) and App.tsx's profile and OAuth       *)
(* handlers.                                                               *)
(*                                                                         *)
(* A session is the number of its tokens and how old they are: "due" from  *)
(* two minutes before they expire, "late" in the last minute and after.    *)
(* The service (external) exchanges a refresh token once; it may answer    *)
(* one that was exchanged already by revoking every token.  Accounts,      *)
(* passwords, forms and the address of the service are left out.           *)
(***************************************************************************)
EXTENDS Panel

CONSTANT Profile  \* nicknames with their pictures

Session == [token : Nat, age : {"fresh", "due", "late"}]
TokenOf(session) == IF session = None THEN None ELSE session.token

-----------------------------------------------------------------------------
(* The client *)

\* Every look at a late session starts another refresh of it.
RefreshSession(by, session) == Detail("refresh", [token |-> session.token, by |-> by])
GetSession(by, session) ==
  IF session # None /\ session.age = "late" THEN {RefreshSession(by, session)} ELSE {}

\* pushSession: the timer is stopped at once when there is no session, and set
\* again, for the session that was pushed, once the daemon has answered.
PushSession(session) == LoadOf({"daemon"}, "push", TokenOf(session))
TimerAfterPush(u, session) == IF session = None THEN [u EXCEPT !.timer = None] ELSE u

\* persistSession tells the dialog, the view and the bridge.
Persisted(u, session) == TimerAfterPush([u EXCEPT !.session = session, !.busy = FALSE], session)
Persists(session) ==
  GetSession("notify", session) \union GetSession("bridge", session) \union {PushSession(session)}

New(token) == [token |-> token, age |-> "fresh"]

-----------------------------------------------------------------------------
(* The service and the daemon *)

Issued(s, spent) == [s EXCEPT !.last = @ + 1, !.valid = (@ \ spent) \union {s.last + 1}]
Refused == [ok |-> FALSE, token |-> None]
Granted(s) == [ok |-> TRUE, token |-> s.last + 1]

Outcomes(c) ==
  CASE c.op = "refresh" ->
         IF c.arg.token \in stored.valid THEN {<<Issued(stored, {c.arg.token}), Granted(stored)>>}
         ELSE {<<stored, Refused>>, <<[stored EXCEPT !.valid = {}], Refused>>}
    [] c.op \in {"signIn", "callback"} ->
         {<<stored, Refused>>, <<Issued(stored, {}), Granted(stored)>>}
    [] c.op = "signUp" -> \* the address may have to be confirmed first
         {<<stored, Refused>>, <<Issued(stored, {}), Granted(stored)>>,
          <<stored, [ok |-> TRUE, token |-> None]>>}
    [] c.op = "update" ->
         {<<stored, [ok |-> c.arg.token \in stored.valid, token |-> None]>>}
    [] c.op = "logout" -> {<<[stored EXCEPT !.valid = {}], Refused>>}
    [] c.op = "popup"  -> {<<stored, Refused>>, <<stored, [ok |-> TRUE, token |-> None]>>}
    [] c.op = "push"   -> {<<[stored EXCEPT !.daemon = c.arg], None>>}
    [] c.op = "profile" -> {<<[stored EXCEPT !.profile = c.arg.p], None>>}
    [] c.op = "status" -> {<<stored, stored.pass>>}
    [] c.op = "pass"   -> {<<[stored EXCEPT !.pass = c.arg], c.arg>>}

Serving == \E c \in calls : \E o \in Outcomes(c) : Serves(c, o[1], o[2])

-----------------------------------------------------------------------------
(* The dialog, the bridge and the app *)

\* The tokens age, while the window sleeps as well.
TimePasses ==
  /\ ui.session # None /\ ui.session.age # "late"
  /\ Clicks([ui EXCEPT !.session.age = IF @ = "fresh" THEN "due" ELSE "late"], {})

\* The timer of the bridge.
RefreshTimer ==
  /\ ui.timer # None
  /\ ui.timer = TokenOf(ui.session) => ui.session.age # "fresh"
  /\ Clicks([ui EXCEPT !.timer = None],
            IF ui.session = None THEN {} ELSE {RefreshSession("timer", ui.session)})

\* The dialog asks twice who is signed in, for two of its states.
OpenDialog ==
  /\ ui.session # None /\ ui.session.age = "late"
  /\ Clicks(ui, GetSession("user", ui.session) \union GetSession("tab", ui.session))

SignedIn == ui.session # None
Asks(op) == Clicks([ui EXCEPT !.busy = TRUE], {Detail(op, None)})

\* What the dialog shows: the account of a session, or else the ways to get one; every
\* button waits for what was asked before.
ShowsAccount == SignedIn /\ ~ui.busy
ShowsProviders == ~SignedIn /\ ~ui.busy
ShowsForm == ~SignedIn /\ ~ui.busy
ShowsProfile == ~ui.busy

HandleSignIn == ShowsForm /\ Asks("signIn")
HandleSignUp == ShowsForm /\ Asks("signUp")
HandleApplyManualToken == ShowsProviders /\ Asks("callback")
HandleOAuthLogin == ShowsProviders /\ Asks("popup")
\* The browser answers the app itself, whatever the dialog does.
ProcessOAuthHash == Clicks(ui, {Detail("callback", None)})

HandleSignOut ==
  /\ ShowsAccount
  /\ Clicks([ui EXCEPT !.busy = TRUE], {Detail("logout", None)})

\* The local profile is saved first, and the service told afterwards.
SaveUserProfile(p, who) == ActOn({"profile"}, "profile", [p |-> p, who |-> who])
HandleUpdateProfile(p) ==
  /\ ShowsProfile
  /\ Clicks([ui EXCEPT !.busy = TRUE],
            {SaveUserProfile(p, IF SignedIn THEN "user" ELSE "nobody")})
UpdateUserProfile(session, again) ==
  Detail("update", [token |-> session.token, again |-> again])

Poll == Clicks(ui, {LoadOf({"status"}, "status", None)})
Waits == [ui EXCEPT !.syncing = TRUE]
HandleSyncNow ==
  ShowsAccount /\ ~ui.syncing /\ Clicks(Waits, {LoadOf({"status"}, "status", "now")})
\* Only a passphrase that is shown as set can be cleared.
HandlePassphrase(on) ==
  /\ ShowsAccount /\ ~ui.syncing /\ (on \/ ui.cloud)
  /\ Clicks(Waits, {LoadOf({"status"}, "pass", on)})

-----------------------------------------------------------------------------
(* The rest of the handlers *)

Ok(c) == c.at = "served" /\ c.got.ok

\* Nothing looks whether the session that was refreshed is still there.  After
\* a failure of the timer's refresh nothing is scheduled any more.
RefreshReturns(c) ==
  LET session == IF Ok(c) THEN New(c.got.token) ELSE ui.session
      tells == c.arg.by = "dialog" /\ session # None
      u == CASE Ok(c) -> Persisted(ui, session)
             [] ~Ok(c) /\ c.arg.by = "timer" -> [ui EXCEPT !.timer = None]
             [] ~Ok(c) /\ c.arg.by = "dialog" /\ ~tells -> [ui EXCEPT !.busy = FALSE]
             [] OTHER -> ui
  IN  /\ c.op = "refresh"
      /\ Goes(c, u, (IF Ok(c) THEN Persists(session) ELSE {})
                    \union (IF tells THEN {UpdateUserProfile(session, TRUE)} ELSE {}), {}, FALSE)

\* A nickname of the account becomes that of the local profile: it is shown,
\* and saved on the way.
SignInReturns(c) ==
  LET new == New(c.got.token)
  IN  /\ c.op \in {"signIn", "signUp", "callback"}
      /\ IF Ok(c) /\ c.got.token # None
         THEN \/ Goes(c, Persisted(ui, new), Persists(new), {}, FALSE)
              \/ \E p \in Profile :
                   Goes(c, [Persisted(ui, new) EXCEPT !.profile = p],
                        Persists(new) \union {SaveUserProfile(p, "app")}, {}, FALSE)
         ELSE Goes(c, [ui EXCEPT !.busy = FALSE], {}, {}, FALSE)

PopupReturns(c) ==
  /\ c.op = "popup"
  /\ IF Ok(c) THEN Goes(c, ui, {Detail("callback", None)}, {}, FALSE)
              ELSE Goes(c, [ui EXCEPT !.busy = FALSE], {}, {}, FALSE)

\* Signed out here, whether the service heard of it or not.
LogoutReturns(c) ==
  /\ c.op = "logout"
  /\ Goes(c, Persisted(ui, None), Persists(None), {}, FALSE)

\* A failure is shown but not thrown: the profile is taken for saved.
ProfileReturns(c) ==
  LET failed == c.at = "failed"
      dialog == c.arg.who # "app"
      u == [ui EXCEPT !.profile = IF dialog \/ ~failed THEN c.arg.p ELSE @]
  IN  /\ c.op = "profile"
      /\ IF c.arg.who = "user" /\ SignedIn
         THEN Goes(c, u, {UpdateUserProfile(ui.session, FALSE)}, {}, failed)
         ELSE Goes(c, IF dialog THEN [u EXCEPT !.busy = FALSE] ELSE u, {}, {}, failed)
\* The session that is there by now takes the answer.
UpdateReturns(c) ==
  /\ c.op = "update"
  /\ IF Ok(c)
     THEN IF SignedIn THEN Goes(c, Persisted(ui, ui.session), Persists(ui.session), {}, FALSE)
                      ELSE Goes(c, [ui EXCEPT !.busy = FALSE], {}, {}, FALSE)
     ELSE \/ Goes(c, [ui EXCEPT !.busy = FALSE], {}, {}, FALSE)
          \/ /\ ~c.arg.again /\ c.at = "served" /\ SignedIn
             /\ Goes(c, ui, {RefreshSession("dialog", ui.session)}, {}, FALSE)

PushReturns(c) ==
  /\ c.op = "push"
  /\ Goes(c, [ui EXCEPT !.timer = IF c.arg = None THEN @ ELSE c.arg], {}, {}, FALSE)

StatusReturns(c) ==
  /\ c.op \in {"status", "pass"}
  /\ Goes(c, [ui EXCEPT !.cloud = IF c.at = "served" THEN c.got ELSE @,
                        !.syncing = IF c.arg = None THEN @ ELSE FALSE], {}, {}, FALSE)

Returns == \E c \in calls :
  \/ RefreshReturns(c) \/ SignInReturns(c) \/ PopupReturns(c) \/ LogoutReturns(c)
  \/ ProfileReturns(c) \/ UpdateReturns(c) \/ PushReturns(c) \/ StatusReturns(c)

-----------------------------------------------------------------------------
\* The window opens: the bridge and the view look at the session that was kept.
Init ==
  /\ stored = [valid |-> {1}, last |-> 1, daemon |-> None, pass |-> FALSE,
               profile |-> None]
  /\ \E session \in {None, [token |-> 1, age |-> "due"], [token |-> 1, age |-> "late"]} :
       /\ ui = [session |-> session, timer |-> None, busy |-> FALSE, syncing |-> FALSE,
                profile |-> None, cloud |-> FALSE]
       /\ calls = {PushSession(session)}
                  \union GetSession("bridge", session) \union GetSession("notify", session)
  /\ clean = {"profile", "status"} /\ clicks = 0

Next ==
  \/ TimePasses \/ RefreshTimer \/ OpenDialog
  \/ HandleSignIn \/ HandleSignUp \/ HandleApplyManualToken \/ HandleOAuthLogin
  \/ ProcessOAuthHash \/ HandleSignOut \/ \E p \in Profile : HandleUpdateProfile(p)
  \/ Poll \/ HandleSyncNow \/ \E on \in BOOLEAN : HandlePassphrase(on)
  \/ Serving \/ Returns \/ \E c \in calls : Fails(c)

-----------------------------------------------------------------------------
InStep(part) ==
  CASE part = "daemon"  -> stored.daemon = TokenOf(ui.session)
    [] part = "profile" -> ui.profile = stored.profile
    [] part = "status"  -> ui.cloud = stored.pass
BusyMeansCalling == calls = {} => ~ui.busy /\ ~ui.syncing
=============================================================================
