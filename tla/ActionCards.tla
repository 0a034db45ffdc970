------------------------------ MODULE ActionCards ------------------------------
(***************************************************************************)
(* The suggestions of the proactive loop: the page of today, which carries *)
(* them out through the gateway or dismisses them (now-surface.tsx,        *)
(* lib/agent-os.ts), and the bubble of the chat, which shows the newest    *)
(* open one (workspace-preview.tsx).                                       *)
(*                                                                         *)
(* A card is its status.  Goals, memories and the list of recent activity, *)
(* which are loaded with the cards, are left out.  The gateway             *)
(* (ExecutionGateway) carries a card out or refuses, and changes no card.  *)
(***************************************************************************)
EXTENDS Panel

CONSTANT Card

Parts == {"cards", "bubble"}
Open(cards) == {i \in Card : cards[i] = "open"}

-----------------------------------------------------------------------------
(* The daemon *)

(* A card that exists keeps its status: one that was dismissed is not        *)
(* opened again when the loop observes the same thing.                       *)
UpsertActionCard(s, i) == [s EXCEPT !.cards[i] = IF @ = "absent" THEN "open" ELSE @]
DismissActionCard(s, i) == [s EXCEPT !.cards[i] = IF @ = "absent" THEN @ ELSE "dismissed"]

\* The loop observes something, and says so.
Observes(i) ==
  /\ clicks < MaxClicks /\ clicks' = clicks + 1
  /\ stored' = UpsertActionCard(stored, i)
  /\ LET event == [ActOn(Parts, "proactive", None) EXCEPT !.at = "served"]
     IN  calls' = Joined(calls, {event}) /\ clean' = clean \ Clash(calls, {event})
  /\ UNCHANGED ui

\* The newest open card is any of them.
ListsOpen == IF Open(stored.cards) = {} THEN {None} ELSE Open(stored.cards)

DaemonServes == \E c \in calls :
  \/ c.op = "reload" /\ Serves(c, stored, stored.cards)
  \/ c.op = "list_open" /\ \E i \in ListsOpen : Serves(c, stored, i)
  \/ c.op = "dismiss" /\ Serves(c, DismissActionCard(stored, c.arg.card), None)
  \/ c.op = "gateway" /\ \E got \in {"success", "refused"} : Serves(c, stored, got)

-----------------------------------------------------------------------------
(* The pages *)

\* What the answer is waited for: nothing, or the end of a click on a card.
Reload(after) == LoadOf({"cards"}, "reload", after)
LoadBubble == LoadOf({"bubble"}, "list_open", None)
DismissCard(i, after) == ActOn(Parts, "dismiss", [card |-> i, after |-> after])

OnReload == Clicks(ui, {Reload("nothing")})
TaskRunsChange == Clicks(ui, {LoadBubble})

HandleExecuteCard(i) ==
  /\ i \in Open(ui.cards) /\ ui.busy # i
  /\ Clicks([ui EXCEPT !.busy = i], {Detail("gateway", i)})

HandleDismissCard(i) ==
  /\ i \in Open(ui.cards) /\ ui.busy # i
  /\ Clicks([ui EXCEPT !.busy = i], {DismissCard(i, "dismissal")})

\* The end of a click clears the indicator, also that of another card.
Done(u, after) == IF after = "nothing" THEN u ELSE [u EXCEPT !.busy = None]

\* Once it was carried out, the card is filed away, so that it is not offered again.
GatewayReturns(c) ==
  /\ c.op = "gateway"
  /\ \/ c.at = "failed" /\ Goes(c, Done(ui, "execution"), {}, {}, FALSE)
     \/ c.at = "served" /\ c.got = "refused" /\ Goes(c, ui, {Reload("execution")}, {}, FALSE)
     \/ c.at = "served" /\ c.got = "success"
        /\ Goes(c, ui, {DismissCard(c.arg, "execution")}, {}, FALSE)

\* A dismissal that failed is the end of a click on it; after an execution it is ignored.
DismissalReturns(c) ==
  /\ c.op = "dismiss"
  /\ IF c.at = "failed" /\ c.arg.after = "dismissal"
     THEN Goes(c, Done(ui, "dismissal"), {}, {}, FALSE)
     ELSE Goes(c, ui, {Reload(c.arg.after)}, {}, TRUE)

ReloadReturns(c) ==
  /\ c.op = "reload"
  /\ Goes(c, Done(IF c.at = "served" THEN [ui EXCEPT !.cards = c.got] ELSE ui, c.arg), {}, {}, FALSE)

BubbleReturns(c) ==
  /\ c.op = "list_open"
  /\ Goes(c, IF c.at = "served" THEN [ui EXCEPT !.bubble = c.got] ELSE ui, {}, {}, FALSE)

ProactiveEvent(c) ==
  c.op = "proactive" /\ Goes(c, ui, {Reload("nothing"), LoadBubble}, {}, FALSE)

-----------------------------------------------------------------------------
Init ==
  /\ \E cs \in [Card -> {"absent", "open"}] : stored = [cards |-> cs]
  /\ ui = [cards |-> [i \in Card |-> "absent"], busy |-> None, bubble |-> None]
  /\ calls = {Reload("nothing"), LoadBubble} /\ clean = {} /\ clicks = 0

Returns == \E c \in calls :
  \/ GatewayReturns(c) \/ DismissalReturns(c) \/ ReloadReturns(c)
  \/ BubbleReturns(c) \/ ProactiveEvent(c)
Next ==
  \/ OnReload \/ TaskRunsChange \/ Returns \/ DaemonServes
  \/ \E i \in Card : Observes(i) \/ HandleExecuteCard(i) \/ HandleDismissCard(i)
  \/ \E c \in calls : Fails(c)

-----------------------------------------------------------------------------
InStep(part) ==
  CASE part = "cards"  -> ui.cards = stored.cards
    [] part = "bubble" -> IF Open(stored.cards) = {} THEN ui.bubble = None
                          ELSE ui.bubble \in Open(stored.cards)
BusyMeansCalling == calls = {} => ui.busy = None
=============================================================================
