--------------------------------- MODULE Feed ---------------------------------
(***************************************************************************)
(* What the conversation's feed makes of the messages                      *)
(* (workspace-preview.tsx's feedItems, action-chain.tsx): the user's       *)
(* messages, what the agent says, and chains of tool calls, each with its  *)
(* result.                                                                 *)
(*                                                                         *)
(* A turn's messages come in the order of the engine's journal: an answer, *)
(* then the results of its calls, one after the other.  A turn that was    *)
(* aborted may still add the result of the call that ran, behind the       *)
(* messages of the next turn.  What an answer says is one flag; recalled   *)
(* memories, pictures and the wording of a row are left out.  Nothing in   *)
(* the repository makes the errorMessage that a card could also show.      *)
(***************************************************************************)
EXTENDS Panel, SequencesExt

CONSTANTS Tool, MaxMessages

-----------------------------------------------------------------------------
(* feedItems: the messages are gone through in their order *)

Flush(acc) ==
  IF acc.actions = <<>> THEN acc
  ELSE [acc EXCEPT !.actions = <<>>,
                   !.items = Append(@, [kind |-> "actions", at |-> 0, actions |-> acc.actions])]
Pushes(acc, kind, i) ==
  LET f == Flush(acc)
  IN  [f EXCEPT !.items = Append(@, [kind |-> kind, at |-> i, actions |-> <<>>])]

\* The first row without an output that has the result's call, or only its tool's name.
Candidates(actions, r) ==
  {k \in DOMAIN actions : /\ actions[k].out = None
                          /\ actions[k].id = r.id \/ actions[k].tool = r.tool}
Fill(actions, r) == [actions EXCEPT ![Min(Candidates(actions, r))].out = r.id]

(* A row of the chain that is being gathered, else one of an earlier chain, *)
(* else a row of its own.                                                    *)
Result(acc, r) ==
  LET earlier == {k \in DOMAIN acc.items : Candidates(acc.items[k].actions, r) # {}}
      seen == [acc EXCEPT !.seen = @ \union {r.id}]
  IN  IF Candidates(acc.actions, r) # {} THEN [seen EXCEPT !.actions = Fill(@, r)]
      ELSE IF earlier # {} THEN [seen EXCEPT !.items[Max(earlier)].actions = Fill(@, r)]
      ELSE IF r.id \in acc.seen THEN acc
      ELSE [seen EXCEPT !.actions = Append(@, [id |-> r.id, tool |-> r.tool, out |-> r.id])]

(* An answer that says nothing and calls nothing shows while it is awaited.  *)
Answer(acc, ms, i, working) ==
  LET m == ms[i]
      last == \A j \in DOMAIN ms : j > i => ms[j].role # "assistant"
      shows == m.says \/ (working /\ last /\ m.calls = <<>>)
      f == IF shows THEN Pushes(acc, "assistant", i) ELSE acc
      new == SelectSeq(m.calls, LAMBDA c : c.id \notin acc.seen)
  IN  [f EXCEPT !.seen = @ \union {m.calls[k].id : k \in DOMAIN m.calls},
                !.actions = @ \o [k \in DOMAIN new |-> [id |-> new[k].id, tool |-> new[k].tool,
                                                        out |-> None]]]

FeedOf(ms, working) ==
  LET Nothing == [items |-> <<>>, actions |-> <<>>, seen |-> {}]
      Takes(acc, i) == CASE ms[i].role = "user" -> Pushes(acc, "user", i)
                         [] ms[i].role = "result" -> Result(acc, ms[i])
                         [] OTHER -> Answer(acc, ms, i, working)
      upTo[i \in 0..Len(ms)] == IF i = 0 THEN Nothing ELSE Takes(upTo[i - 1], i)
  IN  Flush(upTo[Len(ms)]).items

-----------------------------------------------------------------------------
(* The chains of tool calls *)

Chains(items) == {k \in DOMAIN items : items[k].kind = "actions"}
LastActions(items) == IF Chains(items) = {} THEN 0 ELSE Max(Chains(items))

\* The chain that is shown as working: only the last, while the conversation works.
WorksIn(items, working) == IF working THEN LastActions(items) ELSE 0

\* A chain opens when it starts to work, and closes when it no longer does; ui.byHand are
\* those that the user opened or closed since then.
Opens(u, s) ==
  LET items == FeedOf(s.messages, s.working)
      was == WorksIn(u.items, stored.working)
      is == WorksIn(items, s.working)
      kept == (Chains(items) \intersect Chains(u.items)) \ (IF is = was THEN {} ELSE {is, was})
  IN  [items |-> items, byHand |-> u.byHand \intersect kept,
       open |-> (u.open \intersect kept)
                  \union (IF is \in Chains(items) \ kept THEN {is} ELSE {})]

\* A running call shows in the last chain, in the rows of its call or its tool, or else
\* in a row of its own.
RunningTools == IF stored.working /\ stored.pending # <<>> THEN {stored.pending[1]} ELSE {}
IsLatestActions == ui.items # <<>> /\ ui.items[Len(ui.items)].kind = "actions"
RunsIn(a, t) == a.id = t.id \/ (a.tool = t.tool /\ a.out = None)
Matched ==
  IF ~IsLatestActions THEN {}
  ELSE {a \in Range(ui.items[Len(ui.items)].actions) : \E t \in RunningTools : RunsIn(a, t)}
UnmatchedRunningTools == {t \in RunningTools : ~\E a \in Matched : RunsIn(a, t)}

-----------------------------------------------------------------------------
(* Trying an answer again *)

AllOf(ms, role) == {i \in DOMAIN ms : ms[i].role = role}
Newest(ms, role) == IF AllOf(ms, role) = {} THEN 0 ELSE Max(AllOf(ms, role))

\* The answer that may be tried again: then the user's last message is sent once more.
OffersRetry(item) == /\ item.kind = "assistant" /\ ~stored.working
                     /\ item.at = Newest(stored.messages, "assistant")
                     /\ stored.messages[item.at].says
                     /\ AllOf(stored.messages, "user") # {}

-----------------------------------------------------------------------------
(* What happens to the conversation; each time the feed is made again.       *)

Arrives(s, lost, won) ==
  /\ clicks < MaxClicks /\ clicks' = clicks + 1
  /\ Len(s.messages) <= MaxMessages
  /\ stored' = s /\ ui' = Opens(ui, s)
  /\ clean' = (clean \ lost) \union won
  /\ UNCHANGED calls

Adds(m) == Append(stored.messages, m)
ResultOf(c) == [role |-> "result", id |-> c.id, tool |-> c.tool]

Prompt ==
  /\ ~stored.working
  /\ Arrives([stored EXCEPT !.messages = Adds([role |-> "user"]), !.working = TRUE],
             {}, {"retry"})

\* An answer that calls nothing says something, or the engine asks again.  Its calls run
\* one after the other; until they do, they may look as if they ran.
Answers ==
  /\ stored.working /\ stored.pending = <<>>
  /\ \E says \in BOOLEAN, tools \in {<<>>} \union {<<t>> : t \in Tool} \union (Tool \X Tool) :
       LET n == stored.next
           cs == [k \in DOMAIN tools |-> [id |-> n + k, tool |-> tools[k]]]
           alike == Len(tools) = 2 /\ tools[1] = tools[2]
       IN  /\ says \/ tools # <<>>
           /\ Arrives([stored EXCEPT
                         !.messages = Adds([role |-> "assistant", says |-> says, calls |-> cs]),
                         !.pending = cs, !.next = n + Len(tools), !.working = tools # <<>>],
                      IF alike THEN {"running"} ELSE {}, {})

ToolEnds ==
  /\ stored.working /\ stored.pending # <<>>
  /\ Arrives([stored EXCEPT !.messages = Adds(ResultOf(Head(stored.pending))),
                            !.pending = Tail(@)],
             {}, IF Len(stored.pending) = 1 THEN {"running"} ELSE {})

\* Of an aborted turn, the call that runs may still end.
Abort ==
  /\ stored.working
  /\ Arrives([stored EXCEPT !.working = FALSE, !.pending = <<>>,
                            !.late = IF stored.pending = <<>> THEN @ ELSE {stored.pending[1]}],
             IF Newest(stored.messages, "user") > Newest(stored.messages, "assistant")
             THEN {"retry"} ELSE {}, {})

\* It may then be shown as the result of a call of the same tool.
EndsLate(c) ==
  LET unanswered == {k \in Chains(ui.items) : Candidates(ui.items[k].actions, c) # {}}
      rows == ui.items[Max(unanswered)].actions
      other == unanswered # {} /\ rows[Min(Candidates(rows, c))].id # c.id
  IN  Arrives([stored EXCEPT !.messages = Adds(ResultOf(c)), !.late = {}],
              IF other THEN {"results"} ELSE {}, {})

Toggle(k) ==
  Shows([ui EXCEPT !.open = IF k \in @ THEN @ \ {k} ELSE @ \union {k}, !.byHand = @ \union {k}])

-----------------------------------------------------------------------------
Init ==
  /\ stored = [messages |-> <<>>, pending |-> <<>>, late |-> {}, next |-> 0, working |-> FALSE]
  /\ ui = [items |-> <<>>, open |-> {}, byHand |-> {}]
  /\ calls = {} /\ clicks = 0
  /\ clean = {"turns", "calls", "results", "running", "open", "retry"}

Next == \/ Prompt \/ Answers \/ ToolEnds \/ Abort \/ \E c \in stored.late : EndsLate(c)
        \/ \E k \in Chains(ui.items) : Toggle(k)

-----------------------------------------------------------------------------
(* The user's messages show in their order; every call shows in one row;     *)
(* what a row shows as its result is its call's; a running call shows as     *)
(* running in one row, and no other does; only chains that the user opened   *)
(* are open when nothing works; to try an answer again sends what it         *)
(* answered.                                                                 *)
Rows == UNION {{<<k, l>> : l \in DOMAIN ui.items[k].actions} : k \in Chains(ui.items)}
Row(p) == ui.items[p[1]].actions[p[2]]
Called == UNION {{c.id : c \in Range(stored.messages[i].calls)} :
                   i \in AllOf(stored.messages, "assistant")}
Answered == {stored.messages[i].id : i \in AllOf(stored.messages, "result")}
InStep(part) ==
  CASE part = "turns" ->
         LET Users(s) == SelectSeq(s, LAMBDA x : x.kind = "user")
         IN  /\ Len(Users(ui.items)) = Cardinality(AllOf(stored.messages, "user"))
             /\ \A k, l \in DOMAIN ui.items :
                  (k < l /\ ui.items[k].at # 0 /\ ui.items[l].at # 0)
                    => ui.items[k].at < ui.items[l].at
    [] part = "calls" -> \A id \in Called : Cardinality({p \in Rows : Row(p).id = id}) = 1
    [] part = "results" -> \A p \in Rows : Row(p).out = (IF Row(p).id \in Answered THEN Row(p).id
                                                        ELSE None)
    [] part = "running" -> Cardinality(Matched) + Cardinality(UnmatchedRunningTools)
                             = Cardinality(RunningTools)
    [] part = "open" -> ~stored.working => ui.open \subseteq ui.byHand
    [] part = "retry" -> \A k \in DOMAIN ui.items :
                           OffersRetry(ui.items[k])
                             => Newest(stored.messages, "user") < ui.items[k].at
=============================================================================
