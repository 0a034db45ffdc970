------------------------------ MODULE DaemonLink ------------------------------
(***************************************************************************)
(* The calls of the window to the daemon: call of api.ts, which tries some *)
(* of them again, and the shell's DaemonClient (daemon_client.rs), which   *)
(* keeps one connection, a table of the requests that wait for an answer,  *)
(* a task that reads the connection, and a supervisor that opens it again. *)
(*                                                                         *)
(* A request is a call and the number of its attempt, in place of the      *)
(* random id.  The write lock makes opening, writing and the reader's      *)
(* clean-up one step each: the clean-up holds it from the first line to    *)
(* the last, and an entry made in the table meanwhile is as if it had been *)
(* made before.  Only the current connection matters: a new one is opened  *)
(* after the clean-up of the last.  Events, and the handlers of the shell  *)
(* that turn an error into an empty answer, are left out.                  *)
(***************************************************************************)
EXTENDS Naturals

CONSTANTS
  Call,
  Retryable,      \* calls whose channel is not in NON_RETRYABLE_CHANNELS
  Stop,           \* stop_daemon or restart_daemon: their handlers swallow the error
  MaxRetries,
  MaxConnections  \* bound on the connections that are opened

ASSUME CallAssumption == Retryable \subseteq Call \ {Stop}
ASSUME BoundAssumption == MaxRetries \in Nat /\ MaxConnections \in Nat

VARIABLES
  connected,  \* write_half is there, and a task reads the connection
  closed,     \* the daemon has closed the connection
  opened,     \* connections so far
  up,         \* the daemon runs
  desired,    \* desired_running
  restarting, \* the supervisor, or restart_daemon, is about to call ensure_connected
  pending,    \* the table
  pc, try, told,
  inbox, working, outbox,  \* requests, and answers, on the connection
  done        \* how many times each call was carried out

connVars == <<connected, closed, opened, up>>
superVars == <<desired, restarting>>
callVars == <<pc, try, told>>
wireVars == <<inbox, working, outbox, done>>
linkVars == <<connVars, superVars, pending, callVars, wireVars>>

Request == Call \X (0..MaxRetries)
RequestOf(c) == <<c, try[c]>>

LinkTypeOK ==
  /\ connected \in BOOLEAN /\ closed \in BOOLEAN /\ up \in BOOLEAN
  /\ desired \in BOOLEAN /\ restarting \in BOOLEAN
  /\ opened \in Nat
  /\ pending \subseteq Request
  /\ pc \in [Call -> {"idle", "connect", "register", "write", "wait", "answered", "failed"}]
  /\ try \in [Call -> 0..MaxRetries]
  /\ told \in [Call -> {"nothing", "answer", "disconnected"}]
  /\ inbox \subseteq Request /\ working \subseteq Request /\ outbox \subseteq Request
  /\ done \in [Call -> Nat]

LinkInit ==
  /\ connected = FALSE /\ closed = FALSE /\ opened = 0
  /\ up \in BOOLEAN
  /\ desired = TRUE /\ restarting = FALSE /\ pending = {}
  /\ pc = [c \in Call |-> "idle"] /\ try = [c \in Call |-> 0]
  /\ told = [c \in Call |-> "nothing"]
  /\ inbox = {} /\ working = {} /\ outbox = {}
  /\ done = [c \in Call |-> 0]

-----------------------------------------------------------------------------
(* The connection *)

\* ensure_connected starts the daemon if nobody listens.
Opens ==
  /\ ~connected /\ opened < MaxConnections
  /\ connected' = TRUE /\ opened' = opened + 1 /\ up' = TRUE
  /\ UNCHANGED closed

\* should_restart is asked first, and ensure_connected called afterwards.
SupervisorLooks ==
  /\ desired /\ ~connected /\ ~restarting
  /\ restarting' = TRUE
  /\ UNCHANGED <<connVars, desired, pending, callVars, wireVars>>
SupervisorConnects ==
  /\ restarting /\ restarting' = FALSE
  /\ Opens \/ UNCHANGED connVars
  /\ UNCHANGED <<desired, pending, callVars, wireVars>>

\* start_daemon, after a deliberate stop.
StartDaemon ==
  /\ ~desired /\ desired' = TRUE
  /\ Opens \/ UNCHANGED connVars
  /\ UNCHANGED <<restarting, pending, callVars, wireVars>>

\* The reader ends: nothing is written any more, and everyone in the table is told.
CleanUp ==
  /\ connected /\ closed
  /\ connected' = FALSE /\ closed' = FALSE
  /\ told' = [c \in Call |-> IF RequestOf(c) \in pending THEN "disconnected" ELSE told[c]]
  /\ pending' = {} /\ inbox' = {} /\ working' = {} /\ outbox' = {}
  /\ UNCHANGED <<opened, up, superVars, pc, try, done>>

\* An answer finds its request in the table, or nobody waits for it any more.
ReadAnswer(r) ==
  /\ connected /\ r \in outbox
  /\ outbox' = outbox \ {r} /\ pending' = pending \ {r}
  /\ told' = [c \in Call |-> IF r = RequestOf(c) /\ r \in pending THEN "answer" ELSE told[c]]
  /\ UNCHANGED <<connVars, superVars, pc, try, inbox, working, done>>

-----------------------------------------------------------------------------
(* The daemon *)

\* What it holds of the requests of a connection is dropped when that ends;
\* answers already written may still be read.
Closing(alive) ==
  /\ closed' = TRUE /\ up' = alive
  /\ inbox' = {} /\ working' = {}
  /\ UNCHANGED <<connected, opened>>

Closes(alive) ==
  /\ connected /\ ~closed /\ Closing(alive)
  /\ UNCHANGED <<superVars, pending, callVars, outbox, done>>

\* A handler that fails, or is dropped, sends no answer.  A shutdown is answered
\* before the process ends.
CarriesOut(r) ==
  /\ r \in inbox
  /\ done' = [done EXCEPT ![r[1]] = @ + 1]
  /\ IF r[1] = Stop
     THEN Closing(FALSE) /\ outbox' \in {outbox, outbox \union {r}}
     ELSE /\ inbox' = inbox \ {r} /\ working' = working \union {r}
          /\ UNCHANGED <<connVars, outbox>>
  /\ UNCHANGED <<superVars, pending, callVars>>
Answers(r) ==
  /\ r \in working
  /\ working' = working \ {r} /\ outbox' = outbox \union {r}
  /\ UNCHANGED <<connVars, superVars, pending, callVars, inbox, done>>

-----------------------------------------------------------------------------
(* A call *)

Goto(c, phase) == pc' = [pc EXCEPT ![c] = phase]

\* A stop clears desired_running; a restart sets it, and connects again at its end.
Invoke(c) ==
  /\ pc[c] = "idle" /\ Goto(c, "connect")
  /\ \/ c # Stop /\ UNCHANGED superVars
     \/ c = Stop /\ desired' = FALSE /\ UNCHANGED restarting
     \/ c = Stop /\ desired' = TRUE /\ restarting' = TRUE
  /\ UNCHANGED <<connVars, pending, try, told, wireVars>>

EnsureConnected(c) ==
  /\ pc[c] = "connect"
  /\ \/ connected /\ Goto(c, "register") /\ UNCHANGED connVars
     \/ Opens /\ Goto(c, "register")
     \/ ~connected /\ Goto(c, "failed") /\ UNCHANGED connVars
  /\ UNCHANGED <<superVars, pending, try, told, wireVars>>

Register(c) ==
  /\ pc[c] = "register" /\ Goto(c, "write")
  /\ pending' = pending \union {RequestOf(c)}
  /\ told' = [told EXCEPT ![c] = "nothing"]
  /\ UNCHANGED <<connVars, superVars, try, wireVars>>

\* By now the connection may be another one, or none.
Write(c) ==
  /\ pc[c] = "write"
  /\ IF connected /\ ~closed
     THEN Goto(c, "wait") /\ inbox' = inbox \union {RequestOf(c)} /\ UNCHANGED pending
     ELSE Goto(c, "failed") /\ pending' = pending \ {RequestOf(c)} /\ UNCHANGED inbox
  /\ UNCHANGED <<connVars, superVars, try, told, working, outbox, done>>

\* The call ends with its answer; the error that says that the daemon is gone
\* makes call of api.ts start again.
Learns(c) ==
  /\ pc[c] = "wait" /\ told[c] # "nothing"
  /\ IF told[c] = "answer" THEN Goto(c, "answered") /\ UNCHANGED try
     ELSE IF c \in Retryable /\ try[c] < MaxRetries
     THEN Goto(c, "connect") /\ try' = [try EXCEPT ![c] = @ + 1]
     ELSE Goto(c, "failed") /\ UNCHANGED try
  /\ UNCHANGED <<connVars, superVars, pending, told, wireVars>>

\* Variant: a call that timed out is tried again.
TimesOutRetrying(c) ==
  /\ pc[c] = "wait" /\ told[c] = "nothing"
  /\ pending' = pending \ {RequestOf(c)}
  /\ IF try[c] < MaxRetries THEN Goto(c, "connect") /\ try' = [try EXCEPT ![c] = @ + 1]
     ELSE Goto(c, "failed") /\ UNCHANGED try
  /\ UNCHANGED <<connVars, superVars, told, wireVars>>

\* After a minute, or five seconds; this error is not one to try again for.
TimesOut(c) ==
  /\ pc[c] = "wait" /\ told[c] = "nothing"
  /\ Goto(c, "failed") /\ pending' = pending \ {RequestOf(c)}
  /\ UNCHANGED <<connVars, superVars, try, told, wireVars>>

CallStep(c) ==
  Invoke(c) \/ EnsureConnected(c) \/ Register(c) \/ Write(c) \/ Learns(c) \/ TimesOut(c)

LinkNext ==
  \/ SupervisorLooks \/ SupervisorConnects \/ StartDaemon \/ CleanUp
  \/ \E r \in outbox : ReadAnswer(r)
  \/ \E alive \in BOOLEAN : Closes(alive)
  \/ \E r \in inbox : CarriesOut(r)
  \/ \E r \in working : Answers(r)
  \/ \E c \in Call : CallStep(c)

LinkSpec == LinkInit /\ [][LinkNext]_linkVars

-----------------------------------------------------------------------------
\* A call that api.ts does not try again (a message, a steer or follow-up, a deletion,
\* the creation of a conversation) is never carried out a second time, however the
\* connection comes and goes under it; run_task and create_task are not of these.
CarriedOutOnce == \A c \in Call \ Retryable : done[c] <= 1

\* A call that waits is in the table of a connection that is read, and its request
\* is with the daemon, or its answer on the way, or the reader about to find that
\* the connection has ended: no clean-up, late answer or new connection leaves a
\* call behind that only its time-out would end.
NobodyWaitsInVain ==
  \A c \in Call : pc[c] = "wait" /\ told[c] = "nothing" =>
    /\ connected /\ RequestOf(c) \in pending
    /\ closed \/ RequestOf(c) \in inbox \union working \union outbox

\* A call is told that it succeeded only if this attempt of it was carried out.
AnsweredMeansDone == \A c \in Call : pc[c] = "answered" => done[c] > 0
=============================================================================
