--------------------------------- MODULE Panel ---------------------------------
(***************************************************************************)
(* What the panels of the desktop have in common: a component holds a copy *)
(* of what the daemon (or a file, or a service) has, a click sends calls,  *)
(* and the rest of the handler runs when a call comes back, with the       *)
(* values it captured when it started.                                     *)
(*                                                                         *)
(* A call is a load, which brings some parts of the copy, an act, which    *)
(* changes these parts of what is stored, or the fetch of a detail.  clean *)
(* is a history variable: the parts that, since the last load of them that *)
(* nothing overlapped, no two calls touched at the same time, and which no *)
(* handler left as they may not be (spoils, below): a copy that was        *)
(* changed before a call that failed and is not put back, a change that    *)
(* nothing loads again.  There the screen may be wrong until the next load *)
(* of the part, and InStep says nothing of it.                             *)
(***************************************************************************)
EXTENDS Integers, FiniteSets

CONSTANTS None,
          MaxCalls,  \* calls under way at the same time
          MaxClicks  \* clicks and changes from outside, all together

VARIABLES
  ui,      \* the states of the component, a record
  stored,  \* what its backend holds, a record
  calls,   \* calls under way
  clean, clicks

panelVars == <<ui, stored, calls, clean, clicks>>

Sent(kind, op, arg, parts) ==
  [kind |-> kind, op |-> op, arg |-> arg, alone |-> parts, parts |-> parts,
   at |-> "sent", got |-> None]
LoadOf(parts, op, arg) == Sent("load", op, arg, parts)
ActOn(parts, op, arg)  == Sent("act", op, arg, parts)
Detail(op, arg)        == Sent("detail", op, arg, {})

\* A panel of one part.
Whole == {"all"}
Load(op, arg) == LoadOf(Whole, op, arg)
Act(op, arg)  == ActOn(Whole, op, arg)

Touched(S) == UNION {c.parts : c \in S}
Clash(old, new) == Touched(old) \intersect Touched(new)
Disturbed(S, parts) == {[c EXCEPT !.alone = @ \ parts] : c \in S}
Joined(old, new) == Disturbed(old \union new, Clash(old, new))

InFlight(op, arg) == \E c \in calls : c.op = op /\ c.arg = arg

(* A click leaves the panel as u, sends the calls new, and those in gone are *)
(* no longer listened to.                                                    *)
Turns(u, new, gone) ==
  /\ clicks < MaxClicks /\ clicks' = clicks + 1
  /\ ui' = u
  /\ LET rest == calls \ gone
     IN  /\ Cardinality(rest \union new) <= MaxCalls
         /\ \A c \in new, d \in rest : ~(c.op = d.op /\ c.arg = d.arg)
         /\ calls' = Joined(rest, new)
         /\ clean' = clean \ Clash(rest, new)
  /\ UNCHANGED stored
Clicks(u, new) == Turns(u, new, {})

\* A click that only changes the panel.
Shows(u) ==
  /\ ui' = u /\ ui # u
  /\ UNCHANGED <<stored, calls, clean, clicks>>

(* Someone else changes these parts of what is stored.                       *)
ChangedElsewhere(parts, s) ==
  /\ clicks < MaxClicks /\ clicks' = clicks + 1
  /\ stored' = s
  /\ calls' = Disturbed(calls, parts)
  /\ clean' = clean \ parts
  /\ UNCHANGED ui

(* The backend carries c out and answers got, or the call fails on its way.  *)
Serves(c, s, got) ==
  /\ c \in calls /\ c.at = "sent"
  /\ stored' = s
  /\ calls' = (calls \ {c}) \union {[c EXCEPT !.at = "served", !.got = got]}
  /\ UNCHANGED <<ui, clean, clicks>>
Fails(c) ==
  /\ c \in calls /\ c.at = "sent"
  /\ calls' = (calls \ {c}) \union {[c EXCEPT !.at = "failed"]}
  /\ UNCHANGED <<ui, stored, clean, clicks>>

(* The rest of the handler of c: the panel becomes u, the calls new are sent *)
(* and those in gone are no longer listened to; spoils says that the handler *)
(* ends here although the copy may differ from what is stored.               *)
Goes(c, u, new, gone, spoils) ==
  /\ c \in calls /\ c.at # "sent"
  /\ ui' = u
  /\ LET rest == calls \ ({c} \union gone)
         lost == IF spoils \/ (c.kind = "load" /\ c.at = "failed") THEN c.parts ELSE {}
         won  == IF c.kind = "load" /\ c.at = "served" /\ ~spoils THEN c.alone ELSE {}
     IN  /\ calls' = Joined(rest, new)
         /\ clean' = ((clean \ lost) \union won) \ Clash(rest, new)
  /\ UNCHANGED <<stored, clicks>>

\* Nothing touches this part now, and it was loaded since a handler spoiled it.
Settled(part) == part \in clean /\ part \notin Touched(calls)

PanelTypeOK ==
  /\ clicks \in 0..MaxClicks
  /\ \A c \in calls : /\ c.kind \in {"load", "act", "detail"}
                      /\ c.alone \subseteq c.parts
                      /\ c.at \in {"sent", "served", "failed"}
=============================================================================
