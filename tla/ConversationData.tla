---------------------------- MODULE ConversationData ---------------------------
(***************************************************************************)
(* What App.tsx shows around the selected conversation: its statistics,    *)
(* balance, to-do list, models, commands and the summary of its workspace. *)
(*                                                                         *)
(* Each datum is loaded by an effect of its own when its key changes (the  *)
(* conversation, its workspace or its provider), and none depends on       *)
(* another: a behaviour follows one of them.  What they differ in is       *)
(* written down in one record each.  The answers of the models are taken   *)
(* and marked by selectedInstanceIdRef, which lags behind the selection    *)
(* when the list moves that.                                               *)
(***************************************************************************)
EXTENDS Panel

CONSTANTS Conversation,
          Shared  \* a workspace or provider to which conversations move

(* polled: loaded again on a timer; resets: emptied at once for a new key;   *)
(* late: what becomes of an answer for an earlier key; failed: what is shown *)
(* after a failure; moves: whether a conversation's key can change; chat:    *)
(* shown in the chat only.                                                   *)
Stats    == [chat |-> FALSE, polled |-> TRUE, resets |-> FALSE, late |-> "dropped",
             failed |-> "kept", moves |-> FALSE]
Balance  == [chat |-> FALSE, polled |-> FALSE, resets |-> FALSE, late |-> "shown",
             failed |-> "none", moves |-> TRUE]
Todo     == [chat |-> TRUE, polled |-> TRUE, resets |-> FALSE, late |-> "dropped",
             failed |-> "kept", moves |-> FALSE]
Models   == [chat |-> FALSE, polled |-> FALSE, resets |-> TRUE, late |-> "ref",
             failed |-> "kept", moves |-> FALSE]
Commands == [chat |-> FALSE, polled |-> FALSE, resets |-> FALSE, late |-> "dropped",
             failed |-> "none", moves |-> FALSE]
Summary  == [chat |-> FALSE, polled |-> FALSE, resets |-> FALSE, late |-> "dropped",
             failed |-> "none", moves |-> TRUE]

Datum == {Stats, Balance, Todo, Models, Commands, Summary}

Key == Conversation \union {Shared}
KeyNow(u) ==
  IF u.selected = None \/ (u.datum.chat /\ ~u.chat) THEN None ELSE u.keyOf[u.selected]
Shown(key, value) == [of |-> key, value |-> value]

-----------------------------------------------------------------------------
(* The backend *)

\* Turns, tools, editors and other windows change what a datum says.
WorkGoesOn == \E key \in Key :
  ChangedElsewhere(Whole, [stored EXCEPT !.value = [k \in Key |-> IF k = key THEN 1 - @[k] ELSE @[k]]])

Moved(keyOf, s, key) == [c \in Conversation |-> IF c = s THEN key ELSE keyOf[c]]
Serving == \E c \in calls :
  Serves(c, IF c.op = "set" THEN [stored EXCEPT !.keyOf = Moved(@, c.arg.of, c.arg.key)] ELSE stored,
         IF c.kind = "load" THEN stored.value[c.arg] ELSE None)

-----------------------------------------------------------------------------
(* The effects *)

LoadDatum(key) == Load("load", key)
Loading(u) == IF ui.datum = Models THEN [u EXCEPT !.loading = TRUE] ELSE u

(* What a change of the key does: what is shown goes when there is no key,   *)
(* answers for the earlier key are dropped, the new one is asked for.        *)
Rekeyed(u) ==
  LET key == KeyNow(u)
  IN  IF key = KeyNow(ui) THEN u
      ELSE IF key = None THEN [u EXCEPT !.shown = None, !.loading = FALSE]
      ELSE Loading(IF ui.datum.resets THEN [u EXCEPT !.shown = None] ELSE u)
AskedBy(u) ==
  IF KeyNow(u) \in {KeyNow(ui), None} THEN {} ELSE {LoadDatum(KeyNow(u))}
DroppedBy(u) ==
  IF KeyNow(u) = KeyNow(ui) \/ ui.datum.late # "dropped" THEN {}
  ELSE {c \in calls : c.op = "load"}

Goto(u) == Turns(Rekeyed(u), AskedBy(u), DroppedBy(u))
\* The user selects a conversation, and with it the ref; the effects run if it
\* was not selected before.
Select(s) ==
  IF s = ui.selected THEN Shows([ui EXCEPT !.ref = s])
  ELSE Goto([ui EXCEPT !.selected = s, !.ref = s, !.lagged = FALSE])

\* A refresh, a deletion or a lost conversation moves the selection, not the ref.
ListMovesSelection(s) ==
  s # ui.selected /\ Goto([ui EXCEPT !.selected = s, !.lagged = s # ui.ref])

SetView == ui.datum.chat /\ Goto([ui EXCEPT !.chat = ~@])

Poll == ui.datum.polled /\ KeyNow(ui) # None /\ Clicks(ui, {LoadDatum(KeyNow(ui))})

\* The settings say that the models changed: those of the ref are loaded.
HandleModelProvidersChanged ==
  /\ ui.datum = Models /\ ui.ref # None
  /\ Clicks(Loading(ui), {LoadDatum(ui.ref)})

\* The page of runs loads the commands too, and shows them whatever is selected by then.
RefreshIntelligence ==
  /\ ui.datum = Commands /\ KeyNow(ui) # None
  /\ Clicks([ui EXCEPT !.busy = TRUE], {Load("refresh_intelligence", KeyNow(ui))})

Failed == IF ui.datum.failed = "none" THEN [ui EXCEPT !.shown = None] ELSE ui

\* Variant: whose models come back is not looked at.
HeardAlways(c) == TRUE

Heard(c) == ui.datum.late = "ref" => c.arg = ui.ref

DatumReturns(c) ==
  /\ c.op = "load"
  /\ LET u == IF c.at = "served" THEN [ui EXCEPT !.shown = Shown(c.arg, c.got)] ELSE Failed
     IN  Goes(c, IF Heard(c) THEN [u EXCEPT !.loading = FALSE] ELSE ui, {}, {}, ~Heard(c))

IntelligenceReturns(c) ==
  /\ c.op = "refresh_intelligence"
  /\ LET u == [ui EXCEPT !.busy = FALSE]
     IN  Goes(c, IF c.at = "served" THEN [u EXCEPT !.shown = Shown(c.arg, c.got)] ELSE u,
              {}, {}, FALSE)

-----------------------------------------------------------------------------
(* Another workspace, or another model and with it another provider *)

\* The workspace's change shows no indicator, the model's does.
Moving == IF ui.datum = Balance THEN [ui EXCEPT !.busy = TRUE] ELSE ui
SetKey(s, key) ==
  /\ ui.datum.moves /\ s = ui.selected
  /\ Clicks(Moving, {ActOn({}, "set", [of |-> s, key |-> key])})

\* The state that comes back is merged into the conversation that is shown, if it is that one.
Takes(s) == ui.datum = Summary \/ s = ui.selected
SetReturns(c) ==
  /\ c.op = "set"
  /\ LET idle == [ui EXCEPT !.busy = FALSE]
         u == IF c.at = "served" /\ Takes(c.arg.of)
              THEN [idle EXCEPT !.keyOf = Moved(@, c.arg.of, c.arg.key)] ELSE idle
     IN  Goes(c, Rekeyed(u), AskedBy(u), DroppedBy(u), FALSE)

-----------------------------------------------------------------------------
Init ==
  /\ stored = [keyOf |-> [c \in Conversation |-> c], value |-> [k \in Key |-> 0]]
  /\ \E d \in Datum, s \in Conversation :
       /\ ui = [datum |-> d, selected |-> s, ref |-> s, lagged |-> FALSE, keyOf |-> [c \in Conversation |-> c],
                chat |-> TRUE, shown |-> None, loading |-> d = Models, busy |-> FALSE]
       /\ calls = {LoadDatum(s)}
  /\ clean = {} /\ clicks = 0

Returns == \E c \in calls : DatumReturns(c) \/ IntelligenceReturns(c) \/ SetReturns(c)
Next ==
  \/ WorkGoesOn \/ Poll \/ HandleModelProvidersChanged \/ RefreshIntelligence
  \/ SetView
  \/ \E s \in Conversation \union {None} : Select(s) \/ ListMovesSelection(s)
  \/ \E s \in Conversation :
       SetKey(s, Shared) \/ (ui.datum = Summary /\ SetKey(s, None))
  \/ Serving \/ Returns \/ \E c \in calls : Fails(c)

-----------------------------------------------------------------------------
\* What is shown is what its key has now.  The data of these effects are those of
\* the key that is current, too: answers for another were dropped.
Exact == \/ ui.datum \in {Stats, Todo, Summary}
         \/ ui.datum = Models /\ ~ui.lagged
InStep(part) ==
  /\ ui.shown # None => ui.shown.value = stored.value[ui.shown.of]
  /\ Exact => IF KeyNow(ui) = None THEN ui.shown = None
              ELSE ui.shown # None /\ ui.shown.of = KeyNow(ui)

\* After the list moved the selection away from the ref (lagged), the answer for
\* what is selected neither shows nor takes the mark away.
BusyMeansCalling == calls = {} => (ui.loading => ui.lagged) /\ ~ui.busy

\* Models of another conversation are never offered, unless the selection was
\* moved away from the ref.
DetailMatches ==
  ui.datum = Models /\ ~ui.lagged /\ ui.shown # None => ui.shown.of = KeyNow(ui)
=============================================================================
