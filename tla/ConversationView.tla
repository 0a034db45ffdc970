--------------------------- MODULE ConversationView ---------------------------
(***************************************************************************)
(* The transcript view of the desktop (apps/desktop/web/App.tsx): what the *)
(* user sees of the selected conversation, put together from three sources *)
(* that race with each other - the daemon's live events, the polled        *)
(* get_conversation answers, and the fetches of a settled turn and of the  *)
(* watchdog - and from the optimistic copy of a message just sent.         *)
(*                                                                         *)
(* The first half is the outside world, as the view meets it: a journal    *)
(* per conversation that only grows, a turn that emits its events in       *)
(* order, a shell that forwards them and drops what it cannot keep up with *)
(* (ipc.rs:194), and get_conversation, which reads the journal             *)
(* (ipc_handlers.rs:743) and asks later whether the turn runs (:865): a    *)
(* turn may begin, write or end in between.  Every event and every answer  *)
(* waits until the view takes it.                                          *)
(*                                                                         *)
(* The text of a message is its length in deltas; a message is known by    *)
(* its turn and what it is; times are left out (any timer may fire).       *)
(***************************************************************************)
EXTENDS Integers, Sequences, FiniteSets

CONSTANTS Conversation,   \* ids of conversations
          Past,           \* those that hold a turn from before
          None,           \* JavaScript's undefined
          ToolUsers,      \* those whose turns may call a tool (a bound)
          MaxTurns,       \* turns started, over all conversations
          MaxText,        \* text deltas of a turn
          MaxQueue,       \* events on their way to the view
          MaxReads,       \* requests that read a journal and have not asked for the flag
          MaxDisturbances \* losses, failures, and moves of the user, together

ASSUME ViewAssumption ==
  /\ Past \subseteq Conversation /\ ToolUsers \subseteq Conversation
  /\ None \notin Conversation
  /\ MaxTurns \in Nat /\ MaxText \in Nat \ {0} /\ MaxQueue \in Nat \ {0}
  /\ MaxReads \in Nat \ {0}
  /\ MaxDisturbances \in Nat

VARIABLES
  \* the daemon and the shell (external)
  listed,      \* the conversations the daemon has
  stored,      \* the journal of each conversation
  turn,        \* the turn of each conversation: its number, where it is, its text
  opening,     \* spawned turns that have not yet stored the user's message
  superseded,  \* conversations whose replaced turn has not yet said it settled
  aborts,      \* abort requests on their way
  events,      \* events on their way to the view, oldest first
  turns, disturbances,
  \* App.tsx
  selected,    \* selectedInstanceId
  ref,         \* selectedInstanceIdRef.current
  shown,       \* conversation: what is on the screen
  cache,       \* conversationCacheRef.current
  optimistic,  \* optimisticMessage
  streaming,   \* streamingInstances
  tools,       \* whose running tools are shown (runningToolsInstanceIdRef)
  live,        \* liveStreamRef.current: text received per conversation
  poll,        \* the live poll of the selected conversation
  fetches,     \* the fetches of settled turns, reloads and the watchdog
  sends,       \* the sendMessage calls under way
  busy         \* busy === "send-message"

daemonVars == <<listed, stored, turn, opening, superseded, aborts>>
boundVars  == <<turns, disturbances>>
screenVars == <<selected, ref, shown, cache, optimistic, streaming, tools, live, busy>>
vars == <<daemonVars, events, boundVars, screenVars, poll, fetches, sends>>

-----------------------------------------------------------------------------
(* Messages, views and answers *)

\* A message: of the journal, of an event (another timestamp), or a partial
\* one that text deltas built and that has no timestamp.
Message == [conv : Conversation, turn : 0..MaxTurns,
            what : {"user", "call", "result", "answer", "partial"},
            copy : {"stored", "event", "none"}, text : Nat]

Role(m) == CASE m.what = "user"   -> "user"
             [] m.what = "result" -> "toolResult"
             [] OTHER             -> "assistant"

SameTimestamp(m, k) == m.copy # "none" /\ <<m.conv, m.turn, m.what, m.copy>>
                                        = <<k.conv, k.turn, k.what, k.copy>>

Text(what) == IF what \in {"call", "answer"} THEN MaxText ELSE 0

Entry(c, what, copy) == [conv |-> c, turn |-> turn[c].n, what |-> what,
                         copy |-> copy, text |-> Text(what)]

\* get_conversation's answer: the journal up to entry n, the session running or not
Journal(c, n, run) == [conv |-> c, online |-> run, streaming |-> run,
                       messages |-> SubSeq(stored[c], 1, n)]
Answer(r) == Journal(r.conv, r.n, r.run)

\* a request whose time has not come or that was not answered yet: the poll's,
\* and that of a fetch of some kind
Ask(c) == [conv |-> c, at |-> "due", n |-> 0, run |-> FALSE]
AskOnce(kind, c) == [kind |-> kind, conv |-> c, at |-> "due", n |-> 0, run |-> FALSE]

Last(s) == s[Len(s)]
OfAssistant(s) == s # <<>> /\ Role(Last(s)) = "assistant"

(* mergeConversationMessage: a message replaces the one with its role and   *)
(* timestamp, else (unless it is the user's) the last one of its role that  *)
(* has no timestamp, else it is appended.                                   *)
Merge(s, m) ==
  LET twins    == {i \in DOMAIN s : Role(s[i]) = Role(m) /\ SameTimestamp(s[i], m)}
      partials == {i \in DOMAIN s : /\ Role(s[i]) = Role(m) /\ Role(m) # "user"
                                    /\ s[i].copy = "none"}
  IN  CASE twins # {}    -> [s EXCEPT ![CHOOSE i \in twins : \A j \in twins : i <= j] = m]
        [] twins = {} /\ partials # {} ->
             [s EXCEPT ![CHOOSE i \in partials : \A j \in partials : j <= i] = m]
        [] OTHER -> Append(s, m)

-----------------------------------------------------------------------------
(* The daemon and the shell *)

Idle == [n |-> 0, at |-> "idle", text |-> 0]
Running(c) == turn[c].at # "idle"

\* o is the turn that c's entry is of.
Opens(c, o) == o = [conv |-> c, turn |-> turn[c].n]

Disturb == disturbances < MaxDisturbances /\ disturbances' = disturbances + 1

Event(c, type, m) == [conv |-> c, type |-> type, message |-> m]
Plain(c, type) == Event(c, type, None)

\* The turn of c stores the entries es and emits the event e.
Turns(c, from, to, es, e) ==
  /\ turn[c].at \in from
  /\ Len(events) < MaxQueue
  /\ turn' = [turn EXCEPT ![c].at = to]
  /\ stored' = [stored EXCEPT ![c] = @ \o es]
  /\ events' = Append(events, e)

OthersStay  == UNCHANGED <<listed, opening, superseded, aborts, turns, screenVars, poll, fetches, sends>>
EngineStays == OthersStay /\ UNCHANGED disturbances

\* The user's message is stored and announced.  A turn does so even if it was
\* cancelled or replaced before.
TurnOpens(c) ==
  /\ Len(events) < MaxQueue
  /\ \E o \in opening :
       LET m == [conv |-> c, turn |-> o.turn, what |-> "user", copy |-> "stored", text |-> 0]
       IN  /\ o.conv = c
           /\ opening' = opening \ {o}
           /\ turn' = [turn EXCEPT ![c].at = IF Opens(c, o) THEN "opened" ELSE @]
           /\ stored' = [stored EXCEPT ![c] = Append(@, m)]
           /\ events' = Append(events, Event(c, "message_end", [m EXCEPT !.copy = "event"]))
  /\ UNCHANGED <<listed, superseded, aborts, boundVars, screenVars, poll, fetches, sends>>

\* The model cannot be resolved: nothing is stored, and the turn settles (a
\* replaced one as any other that was).
TurnFailsToBegin(c) ==
  /\ Disturb
  /\ Len(events) < MaxQueue
  /\ \E o \in opening :
       /\ o.conv = c
       /\ opening' = opening \ {o}
       /\ IF Opens(c, o)
          THEN /\ turn' = [turn EXCEPT ![c].at = "settled"]
               /\ events' = Append(events, Plain(c, "agent_settled"))
          ELSE UNCHANGED <<turn, events>>
  /\ UNCHANGED <<listed, stored, superseded, aborts, turns, screenVars, poll, fetches, sends>>

TurnStarts(c) ==
  Turns(c, {"opened"}, "started", <<>>, Plain(c, "agent_start")) /\ EngineStays
ToolStarts(c) ==
  /\ c \in ToolUsers
  /\ Turns(c, {"started"}, "called", <<Entry(c, "call", "stored")>>,
           Plain(c, "tool_execution_start"))
  /\ EngineStays
ToolEnds(c) ==
  Turns(c, {"called"}, "resulted", <<Entry(c, "result", "stored")>>,
        Plain(c, "tool_execution_end")) /\ EngineStays
TurnAnswers(c) ==
  /\ Turns(c, {"started", "resulted"}, "answered", <<Entry(c, "answer", "stored")>>,
           Event(c, "message_end", Entry(c, "answer", "event")))
  /\ EngineStays
TurnFails(c) ==
  /\ Disturb
  /\ Turns(c, {"started", "resulted"}, "answered", <<>>, Plain(c, "stream_error"))
  /\ OthersStay
TurnSettles(c) ==
  Turns(c, {"answered"}, "settled", <<>>, Plain(c, "agent_settled")) /\ EngineStays

TextArrives(c) ==
  /\ turn[c].at \in {"started", "resulted"}
  /\ turn[c].text < MaxText
  /\ Len(events) < MaxQueue
  /\ turn' = [turn EXCEPT ![c].text = @ + 1]
  /\ events' = Append(events, Plain(c, "message_update"))
  /\ UNCHANGED stored
  /\ EngineStays

\* The session's entry is removed after agent_settled was sent: an answer to a
\* settled turn's fetch may still find the session running.
TurnLeaves(c) ==
  /\ turn[c].at = "settled"
  /\ turn' = [turn EXCEPT ![c] = Idle]
  /\ UNCHANGED <<stored, events>>
  /\ EngineStays

\* A cancelled turn reports that it settled when it notices: at the head of its
\* loop, once its user's message is stored, when it was aborted; some time later
\* when another turn took its place.
AbortArrives(c) ==
  /\ c \in aborts
  /\ Len(events) < MaxQueue
  /\ ~\E o \in opening : o.conv = c
  /\ aborts' = aborts \ {c}
  /\ IF Running(c)
     THEN /\ turn' = [turn EXCEPT ![c] = Idle]
          /\ events' = Append(events, Plain(c, "agent_settled"))
     ELSE UNCHANGED <<turn, events>>
  /\ UNCHANGED <<listed, stored, opening, superseded, boundVars, screenVars, poll, fetches, sends>>

SupersededSettles(c) ==
  /\ c \in superseded
  /\ \A o \in opening : o.conv = c => Opens(c, o)
  /\ Len(events) < MaxQueue
  /\ superseded' = superseded \ {c}
  /\ events' = Append(events, Plain(c, "agent_settled"))
  /\ UNCHANGED <<listed, stored, turn, opening, aborts, boundVars, screenVars, poll, fetches, sends>>

\* The shell's receiver lagged and skipped an event.
EventIsLost ==
  /\ Disturb /\ events # <<>>
  /\ events' = Tail(events)
  /\ UNCHANGED <<daemonVars, turns, screenVars, poll, fetches, sends>>

\* The daemon's connection ends and with it every turn: the shell tells the
\* view with a stream_closed for "*" (daemon_client.rs:298).
DaemonDies ==
  /\ Disturb
  /\ turn' = [c \in Conversation |-> Idle]
  /\ opening' = {} /\ superseded' = {} /\ aborts' = {}
  /\ events' = Append(events, Plain("*", "stream_closed"))
  /\ UNCHANGED <<listed, stored, turns, screenVars, poll, fetches, sends>>

\* get_conversation, of whichever request r: its reading of the journal, and
\* the flag it asks for afterwards.
MayRead ==
  Cardinality({r \in fetches \union ({poll} \ {None}) : r.at = "read"}) < MaxReads
Reads(r) == [r EXCEPT !.at = "read", !.n = Len(stored[r.conv])]
Serve(r) == IF r.at = "due" THEN Reads(r) ELSE [r EXCEPT !.at = "answered", !.run = Running(r.conv)]

DaemonServesPoll ==
  /\ poll # None /\ poll.at \in {"due", "read"}
  /\ poll.at = "due" => MayRead
  /\ poll' = Serve(poll)
  /\ UNCHANGED <<daemonVars, events, boundVars, screenVars, fetches, sends>>
DaemonServesFetch ==
  /\ \E r \in fetches : /\ r.kind = "settled" /\ r.at \in {"due", "read"}
                        /\ r.at = "due" => MayRead
                        /\ fetches' = (fetches \ {r}) \union {Serve(r)}
  /\ UNCHANGED <<daemonVars, events, boundVars, screenVars, poll, sends>>

\* send_message: the new turn takes the session's entry and its task is spawned;
\* a turn that still runs is cancelled and will settle later.
DaemonAccepts ==
  /\ \E s \in sends :
       /\ s.at = "posting"
       /\ sends' = (sends \ {s}) \union {[s EXCEPT !.at = "accepted"]}
       /\ superseded' = IF Running(s.conv) THEN superseded \union {s.conv} ELSE superseded
       /\ turn' = [turn EXCEPT ![s.conv] = [n |-> s.turn, at |-> "entered", text |-> 0]]
       /\ opening' = opening \union {[conv |-> s.conv, turn |-> s.turn]}
  /\ UNCHANGED <<listed, stored, aborts, events, boundVars, screenVars, poll, fetches>>
DaemonRefuses ==
  /\ Disturb
  /\ \E s \in sends : /\ s.at = "posting"
                      /\ sends' = (sends \ {s}) \union {[s EXCEPT !.at = "refused"]}
  /\ UNCHANGED <<daemonVars, events, turns, screenVars, poll, fetches>>

-----------------------------------------------------------------------------
(* Rendering *)

\* The state a handler starts from; it hands the changed one to Commit.
Now == [view |-> shown, cache |-> cache, selected |-> selected, optimistic |-> optimistic,
        streaming |-> streaming, newSet |-> FALSE, poll |-> poll]

(* What follows from new values s of the state: when the selection, the      *)
(* optimistic message, the connected stream or the set of streaming          *)
(* conversations is another object than before, the effect of the poll runs  *)
(* again: it disposes of the old poll, shows the cached view, asks at once.  *)
(* So the poll's closure always holds the present values of the four.  Not    *)
(* followed: a poll that was disposed of still writes its answer to the cache *)
(* (App.tsx:1247), which then is on the screen until the new poll answers.    *)
Commit(new) ==
  \E s \in {new} :
    /\ selected' = s.selected /\ optimistic' = s.optimistic /\ streaming' = s.streaming
    /\ cache' = s.cache
    /\ LET again == s.selected # selected \/ s.newSet \/ s.optimistic # optimistic
       IN  /\ poll' = CASE s.selected = None -> None
                        [] s.selected # None /\ again -> Ask(s.selected)
                        [] OTHER -> s.poll
           /\ shown' = CASE s.selected = None -> None
                         [] s.selected # None /\ again /\ s.cache[s.selected] # None ->
                              s.cache[s.selected]
                         [] OTHER -> s.view

\* A view that is rendered is cached (App.tsx:309).
Draw(s, v) == [s EXCEPT !.view = v, !.cache[v.conv] = v]

\* Variant: an update applies to whatever view is shown.
OfAny(c) == shown # None

\* setConversation with an update that only applies to c's view.
Of(c) == shown # None /\ shown.conv = c
DrawOf(s, c, v) == IF Of(c) THEN Draw(s, v) ELSE s

Mark(s, c)   == [s EXCEPT !.streaming = @ \union {c}, !.newSet = TRUE]
Unmark(s, c) == [s EXCEPT !.streaming = @ \ {c}, !.newSet = TRUE]

ClearTools(c) == IF tools \in {None, c} THEN None ELSE tools
ClearOptimistic(s, c) ==
  [s EXCEPT !.optimistic = IF @ # None /\ @.conv \in {c, None} THEN None ELSE @]

IsStreaming == \/ shown # None /\ shown.streaming
               \/ optimistic # None
               \/ selected \in streaming
IsWorking == IsStreaming \/ busy \/ tools # None

-----------------------------------------------------------------------------
(* Events *)

\* message_update, the first of its two uses: the text received so far takes
\* the place of the last message's, if that is the assistant's (App.tsx:675).
Received(c) ==
  LET n == live[c] + 1
  IN  IF Of(c) /\ OfAssistant(shown.messages) /\ Last(shown.messages).text > n
      THEN Last(shown.messages).text ELSE n

\* The second: the delta is added to the last message, or starts one (974).
WithText(c, s) ==
  IF OfAssistant(s)
  THEN [s EXCEPT ![Len(s)].text = Received(c) + 1]
  ELSE Append(s, [conv |-> c, turn |-> turn[c].n, what |-> "partial",
                  copy |-> "none", text |-> 1])

TakeText(c) ==
  /\ live' = [live EXCEPT ![c] = Received(c)]
  /\ Commit(DrawOf(Now, c, [shown EXCEPT !.messages = WithText(c, @), !.streaming = TRUE]))
  /\ UNCHANGED <<tools, fetches>>

TakeStart(c) ==
  /\ live' = [live EXCEPT ![c] = 0]
  /\ tools' = None
  /\ Commit(DrawOf(Mark(Now, c), c, [shown EXCEPT !.streaming = TRUE]))
  /\ UNCHANGED fetches

\* turn_end and agent_settled: the flags of the turn are cleared and the
\* authoritative conversation is fetched.
TakeSettled(c) ==
  /\ live' = [live EXCEPT ![c] = 0]
  /\ tools' = ClearTools(c)
  /\ fetches' = fetches \union {AskOnce("settled", c)}
  /\ Commit(DrawOf(ClearOptimistic(Unmark(Now, c), c), c, [shown EXCEPT !.streaming = FALSE]))

TakeError(c) ==
  /\ tools' = ClearTools(c)
  /\ Commit(DrawOf(Unmark(Now, c), c,
                   [shown EXCEPT !.streaming = FALSE]))
  /\ UNCHANGED <<live, fetches>>

\* Variant: that a tool runs is kept as a flag.
FlagToolStart(c) == tools' = TRUE /\ Commit(Now) /\ UNCHANGED <<live, fetches>>

TakeToolStart(c) == /\ tools' = c
                    /\ Commit(Now)
                    /\ UNCHANGED <<live, fetches>>
TakeToolEnd(c) == /\ tools' = None
                  /\ Commit(Now)
                  /\ UNCHANGED <<live, fetches>>

\* message_end: the user's message takes the place of the optimistic one, the
\* assistant's that of the partial one.
TakeMessage(c) ==
  LET m == Head(events).message
      s == [Now EXCEPT !.optimistic =
              IF /\ @ # None /\ Role(m) = "user"
                 /\ @.conv \in {c, None} /\ @.turn = m.turn
              THEN None ELSE @]
  IN  /\ Commit(DrawOf(s, c, [shown EXCEPT !.messages = Merge(@, m),
                                           !.streaming = @ /\ Role(m) # "assistant"]))
      /\ UNCHANGED <<tools, live, fetches>>

\* Only the events of the conversation in the ref are looked at; "*" is no
\* conversation's id.
TakesEvent(type, Take(_)) ==
  /\ events # <<>>
  /\ Head(events).type = type /\ ref # None /\ Head(events).conv = ref
  /\ events' = Tail(events)
  /\ Take(ref)
  /\ UNCHANGED <<daemonVars, boundVars, ref, busy, sends>>

OnText      == TakesEvent("message_update", TakeText)
OnStart     == TakesEvent("agent_start", TakeStart)
OnSettled   == TakesEvent("agent_settled", TakeSettled)
OnError     == TakesEvent("stream_error", TakeError)
OnToolStart == TakesEvent("tool_execution_start", TakeToolStart)
OnToolEnd   == TakesEvent("tool_execution_end", TakeToolEnd)
OnMessage   == TakesEvent("message_end", TakeMessage)

IgnoresEvent ==
  /\ events # <<>>
  /\ ref = None \/ Head(events).conv # ref
  /\ events' = Tail(events)
  /\ UNCHANGED <<daemonVars, boundVars, screenVars, poll, fetches, sends>>

-----------------------------------------------------------------------------
(* Answers *)

\* What an answer makes of the screen while the turn runs: messages that the
\* screen already has beyond it stay, and so does a longer last text.
Overlay(m, k) ==
  CASE Len(m) > Len(k) -> k \o SubSeq(m, Len(k) + 1, Len(m))
    [] /\ Len(m) <= Len(k) /\ OfAssistant(m) /\ OfAssistant(k)
       /\ Last(m).text > Last(k).text -> [k EXCEPT ![Len(k)] = Last(m)]
    [] OTHER -> k

\* Variant: the time of the last message does not count.
LooksAlike(next) ==
  /\ shown.streaming = next.streaming /\ shown.online = next.online
  /\ Len(shown.messages) = Len(next.messages)

\* An idle answer that looks like the screen leaves the screen alone.
LooksTheSame(next) ==
  LET m == shown.messages
      k == next.messages
  IN  /\ shown.streaming = next.streaming /\ shown.online = next.online
      /\ Len(m) = Len(k)
      /\ k = <<>> \/ (Role(Last(m)) = Role(Last(k)) /\ SameTimestamp(Last(m), Last(k)))

AcceptedIn(next, opt) ==
  /\ opt # None /\ opt.conv = next.conv
  /\ \E i \in opt.base + 1 .. Len(next.messages) :
        next.messages[i].what = "user" /\ next.messages[i].turn = opt.turn

\* The view that the answer "next" leaves on the screen.
Polled(next) ==
  LET s == [Now EXCEPT !.cache[next.conv] = next, !.poll = Ask(next.conv)]
  IN  CASE ~Of(next.conv) -> Draw(s, next)
        [] Of(next.conv) /\ next.streaming ->
             Draw(s, [next EXCEPT !.messages = Overlay(shown.messages, @)])
        [] Of(next.conv) /\ ~next.streaming /\ LooksTheSame(next) -> s
        [] OTHER -> Draw(s, next)

StillRuns(next) ==
  /\ \E s \in {Polled(next)} :
       Commit([s EXCEPT !.optimistic = IF AcceptedIn(next, @) THEN None ELSE @])
  /\ UNCHANGED tools

HasStopped(next) ==
  /\ \E s \in {Polled(next)} :
       Commit(ClearOptimistic(IF next.conv \in streaming THEN Unmark(s, next.conv) ELSE s,
                              next.conv))
  /\ tools' = ClearTools(next.conv)

\* The answer to the live poll.  An instance that is not online has stopped:
\* its flags are cleared and the answer is taken as it is.
PollReturns ==
  /\ poll # None /\ poll.at = "answered"
  /\ UNCHANGED <<daemonVars, events, boundVars, ref, busy, live, fetches, sends>>
  /\ \E next \in {Answer(poll)} : IF poll.run THEN StillRuns(next) ELSE HasStopped(next)

\* The fetch of a settled turn, or of a reload: it goes to the screen if the
\* conversation is still the one in the ref.
FetchReturns ==
  /\ \E r \in fetches :
       /\ r.kind = "settled" /\ r.at = "answered"
       /\ fetches' = fetches \ {r}
       /\ Commit(IF ref = r.conv THEN Draw(Now, Answer(r)) ELSE Now)
  /\ UNCHANGED <<daemonVars, events, boundVars, ref, busy, tools, live, sends>>

\* The watchdog asks when a marked run was quiet; it asks once in the time it
\* takes to answer.  Its request reads the journal at once (a bound: what it may
\* have to wait for is the flag and the view).  An answer that the run goes on
\* changes nothing and is not followed.
Active == IF ref # None THEN ref ELSE selected
WatchdogAsks ==
  /\ Active # None
  /\ Active \in streaming \/ (shown # None /\ shown.streaming) \/ tools # None
  /\ ~\E r \in fetches : r.kind = "watch"
  /\ MayRead
  /\ fetches' = fetches \union {Reads(AskOnce("watch", Active))}
  /\ UNCHANGED <<daemonVars, events, boundVars, screenVars, poll, sends>>
DaemonServesWatchdog ==
  /\ \E r \in fetches : /\ r.kind = "watch" /\ r.at = "read"
                        /\ fetches' = (fetches \ {r}) \union {k \in {Serve(r)} : ~k.run}
  /\ UNCHANGED <<daemonVars, events, boundVars, screenVars, poll, sends>>
WatchdogHears ==
  /\ \E r \in fetches :
       /\ r.kind = "watch" /\ r.at = "answered"
       /\ fetches' = fetches \ {r}
       /\ tools' = None
       /\ Commit(DrawOf(Unmark(Now, r.conv), r.conv, Answer(r)))
  /\ UNCHANGED <<daemonVars, events, boundVars, ref, busy, live, sends>>

-----------------------------------------------------------------------------
(* The user, and the list of conversations *)

\* The daemon makes a conversation, with a new id; k more ids must be left.
Makes(c) == c \notin listed /\ listed' = listed \union {c}
IdsLeft(k) == Cardinality(Conversation \ listed) > k

SelectConversation(c) ==
  /\ Disturb
  /\ c \in listed
  /\ ref' = c /\ tools' = None
  /\ Commit([Now EXCEPT !.view = cache[c], !.selected = c, !.optimistic = None])
  /\ UNCHANGED <<daemonVars, events, turns, busy, live, fetches, sends>>

\* createConversation, once the daemon made the conversation c.
CreateConversation(c) ==
  /\ Disturb
  /\ IdsLeft(Cardinality({s \in sends : s.at = "creating"}))
  /\ Makes(c)
  /\ ref' = c
  /\ tools' = None
  /\ Commit([Now EXCEPT !.view = None, !.selected = c, !.optimistic = None])
  /\ UNCHANGED <<stored, turn, opening, superseded, aborts, events, turns, busy, live, fetches, sends>>

\* The refresh of the list picks another conversation, or none, when the
\* selected one is gone from it; it does not touch the ref (App.tsx:356).
ListMovesSelection(c) ==
  /\ Disturb
  /\ c # selected /\ c \in listed \union {None}
  /\ tools' = None
  /\ Commit([Now EXCEPT !.selected = c])
  /\ UNCHANGED <<daemonVars, events, turns, ref, busy, live, fetches, sends>>

AbortConversation ==
  /\ Disturb
  /\ IsWorking /\ ref # None
  /\ aborts' = aborts \union {ref}
  /\ busy' = FALSE
  /\ tools' = ClearTools(ref)
  /\ Commit(DrawOf([Unmark(Now, ref) EXCEPT !.optimistic = None], ref,
                   [shown EXCEPT !.streaming = FALSE]))
  /\ UNCHANGED <<listed, stored, turn, opening, superseded, events, turns, ref, live, fetches, sends>>

-----------------------------------------------------------------------------
(* sendMessage *)

\* A call asks for nothing: another may be under way, or a turn.
SendMessage ==
  /\ turns < MaxTurns
  /\ selected = None => IdsLeft(Cardinality({s \in sends : s.at = "creating"}))
  /\ turns' = turns + 1
  /\ busy' = TRUE
  /\ sends' = sends \union {[turn |-> turns + 1, conv |-> selected,
                             at |-> IF selected = None THEN "creating" ELSE "watching"]}
  /\ Commit([Now EXCEPT !.optimistic =
               [conv |-> selected, turn |-> turns + 1,
                base |-> IF Of(selected) THEN Len(shown.messages) ELSE 0]])
  /\ UNCHANGED <<daemonVars, events, disturbances, ref, tools, live, fetches>>

\* The optimistic message is the one that the call s put up.
Pending(s) == optimistic # None /\ optimistic.turn = s.turn

\* Nothing was selected: the message makes its conversation.
SendCreates(c) ==
  /\ \E s \in sends :
       /\ s.at = "creating"
       /\ Makes(c)
       /\ sends' = (sends \ {s}) \union {[s EXCEPT !.conv = c, !.at = "watching"]}
       /\ Commit([Now EXCEPT !.view = None, !.selected = c,
                    !.optimistic = IF Pending(s) THEN [@ EXCEPT !.conv = c] ELSE @])
  /\ ref' = c
  /\ tools' = IF c = selected THEN tools ELSE None
  /\ UNCHANGED <<stored, turn, opening, superseded, aborts, events, boundVars, busy, live, fetches>>

SendPosts ==
  /\ \E s \in sends :
       /\ s.at = "watching"
       /\ sends' = (sends \ {s}) \union {[s EXCEPT !.at = "posting"]}
       /\ Commit(Mark(Now, s.conv))
  /\ UNCHANGED <<daemonVars, events, boundVars, ref, busy, tools, live, fetches>>

SendReturns ==
  /\ \E s \in sends :
       /\ s.at \in {"accepted", "refused"}
       /\ sends' = sends \ {s}
       /\ IF s.at = "accepted"
          THEN Commit(Now) /\ UNCHANGED tools
          ELSE /\ tools' = ClearTools(s.conv)
               /\ Commit([Unmark(Now, s.conv) EXCEPT !.optimistic =
                            IF Pending(s) THEN None ELSE @])
  /\ busy' = FALSE
  /\ UNCHANGED <<daemonVars, events, boundVars, ref, live, fetches>>

-----------------------------------------------------------------------------
Init ==
  /\ listed = Past
  /\ stored = [c \in Conversation |->
                 IF c \in Past THEN <<[conv |-> c, turn |-> 0, what |-> "user", copy |-> "stored", text |-> 0],
                                      [conv |-> c, turn |-> 0, what |-> "answer", copy |-> "stored", text |-> MaxText]>>
                 ELSE <<>>]
  /\ opening = {} /\ superseded = {} /\ aborts = {} /\ events = <<>>
  /\ turns = 0 /\ shown = None
  /\ \/ /\ turn = [c \in Conversation |-> Idle] /\ disturbances = 0
        /\ selected = None /\ ref = None /\ poll = None
     \/ \E c \in Past :
          /\ turn = [d \in Conversation |-> IF d = c THEN [Idle EXCEPT !.at = "answered"] ELSE Idle]
          /\ disturbances = MaxDisturbances
          /\ selected = c /\ ref = c /\ poll = Ask(c)
  /\ cache = [c \in Conversation |-> None]
  /\ optimistic = None /\ streaming = {} /\ tools = None
  /\ live = [c \in Conversation |-> 0]
  /\ fetches = {} /\ sends = {} /\ busy = FALSE

TurnStep(c) ==
  \/ TurnOpens(c) \/ TurnFailsToBegin(c) \/ TurnStarts(c)
  \/ ToolStarts(c) \/ ToolEnds(c) \/ TextArrives(c)
  \/ TurnAnswers(c) \/ TurnFails(c) \/ TurnSettles(c) \/ TurnLeaves(c)
  \/ AbortArrives(c) \/ SupersededSettles(c)

TakeEvent == \/ OnText \/ OnStart \/ OnSettled \/ OnError \/ OnToolStart \/ OnToolEnd
             \/ OnMessage \/ IgnoresEvent

Sending == \/ \E c \in Conversation : SendCreates(c)
           \/ SendPosts \/ DaemonAccepts \/ SendReturns

\* Work that someone is busy with and that comes to an end.
Work == \/ \E c \in Conversation : TurnStep(c)
        \/ TakeEvent \/ Sending \/ DaemonServesFetch \/ FetchReturns

User == \/ \E c \in Conversation : SelectConversation(c) \/ CreateConversation(c)
        \/ \E c \in Conversation \union {None} : ListMovesSelection(c)
        \/ AbortConversation \/ SendMessage

Failure == EventIsLost \/ DaemonDies \/ DaemonRefuses

Polling == DaemonServesPoll \/ PollReturns
Watchdog == WatchdogAsks \/ DaemonServesWatchdog \/ WatchdogHears

Next == \/ Work \/ Polling \/ Watchdog
        \/ User \/ Failure

(* Fairness: whatever is under way goes on - turns, events, calls - and the  *)
(* timers of the poll and of the watchdog keep firing.  Nothing is assumed   *)
(* of the user and of failures.                                              *)
Fairness == /\ WF_vars(Work)
            /\ WF_vars(Polling)
            /\ WF_vars(Watchdog)

Spec == Init /\ [][Next]_vars /\ Fairness

-----------------------------------------------------------------------------
(* Properties *)

Stage == {"due", "read", "answered"}
Request == [conv : Conversation, at : Stage, n : Nat, run : BOOLEAN]
Fetch == [kind : {"settled", "watch"}, conv : Conversation, at : Stage, n : Nat, run : BOOLEAN]
Optimistic == [conv : Conversation \union {None}, turn : 1..MaxTurns, base : Nat]

\* Every variable holds what App.tsx's states and refs can hold.
TypeOK ==
  /\ listed \subseteq Conversation /\ superseded \subseteq Conversation
  /\ aborts \subseteq Conversation /\ streaming \subseteq Conversation
  /\ DOMAIN stored = Conversation /\ DOMAIN live = Conversation
  /\ \A c \in Conversation : \A i \in DOMAIN stored[c] : stored[c][i] \in Message
  /\ turn \in [Conversation -> [n : 0..MaxTurns, text : 0..MaxText,
                at : {"idle", "entered", "opened", "started", "called", "resulted", "answered", "settled"}]]
  /\ turns \in 0..MaxTurns /\ disturbances \in 0..MaxDisturbances
  /\ selected \in Conversation \union {None} /\ ref \in Conversation \union {None}
  /\ tools \in Conversation \union {None}
  /\ \A v \in {shown} \union {cache[c] : c \in Conversation} :
       v = None \/ (/\ v.conv \in Conversation /\ v.online \in BOOLEAN /\ v.streaming \in BOOLEAN
                    /\ \A i \in DOMAIN v.messages : v.messages[i] \in Message)
  /\ optimistic = None \/ optimistic \in Optimistic
  /\ poll = None \/ poll \in Request
  /\ fetches \subseteq Fetch
  /\ opening \subseteq [conv : Conversation, turn : 1..MaxTurns]
  /\ \A s \in sends : s.at \in {"creating", "watching", "posting", "accepted", "refused"}
  /\ busy \in BOOLEAN

\* m is a message of c that the journal has (its text may still grow on the
\* screen), or one that is being put together from deltas.
Recorded(c, m) ==
  /\ m.conv = c
  /\ m.what = "partial" \/ \E i \in DOMAIN stored[c] :
       stored[c][i].turn = m.turn /\ stored[c][i].what = m.what

\* A view never shows, and the cache never keeps for it, a message that is of
\* another conversation or that the journal does not have, whatever events and
\* answers are lost, late or out of order while the selection moves.
ViewsShowTheirJournal ==
  /\ shown # None => \A i \in DOMAIN shown.messages : Recorded(shown.conv, shown.messages[i])
  /\ \A c \in Conversation : cache[c] # None =>
       cache[c].conv = c /\ \A i \in DOMAIN cache[c].messages : Recorded(c, cache[c].messages[i])

CaughtUp ==
  selected # None =>
    /\ shown # None /\ shown.conv = selected
    /\ shown.messages = stored[selected]
    /\ ~IsWorking

\* Whatever was lost, late or out of order: in the end the screen shows the
\* journal of the selected conversation and no sign of work in progress.
ViewCatchesUp == <>[]CaughtUp

\* The shell tells the view that the daemon went away "to immediately abort
\* hanging streams" (daemon_client.rs:298): taking that event ends them.
DisconnectEndsRun ==
  [][(events # <<>> /\ Head(events).type = "stream_closed" /\ events' = Tail(events))
       => streaming' = {} /\ tools' = None]_vars
=============================================================================
