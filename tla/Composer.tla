------------------------------- MODULE Composer -------------------------------
(***************************************************************************)
(* The composer and the feed of the workspace view                         *)
(* (components/surfaces/workspace/workspace-preview.tsx) with the drafts   *)
(* it keeps per conversation (lib/draft-store.ts): typing, files, slash    *)
(* commands, the three ways to send, and whether the feed follows the      *)
(* newest message.                                                         *)
(*                                                                         *)
(* A text is the set of the conversations in which parts of it were typed; *)
(* an attachment is known by its number.  A call is a handler that waits:  *)
(* its continuation acts on whatever the composer holds by then.  Sizes    *)
(* and kinds of files are left out: a file that is refused throws, and     *)
(* then none of its batch is added.                                        *)
(*                                                                         *)
(* App.tsx keeps the selection twice.  The state is what the composer      *)
(* shows; the ref is set by what the user selects or creates, and not when *)
(* the list is refreshed or a conversation deleted, and is where steering  *)
(* and follow-ups go.                                                      *)
(***************************************************************************)
EXTENDS Integers, FiniteSets

CONSTANTS Conversation,    \* ids of conversations
          NewDraft,        \* the key, not an id, of the draft that has no conversation yet
          None,
          MaxAttachments,  \* MAX_IMAGE_ATTACHMENTS
          MaxCalls,        \* sends, creations and reads that wait at the same time
          MaxPieces,       \* attachments picked, all together
          MaxEdits,        \* texts typed, inserted or prefilled, and turns of the wheel, all together
          MaxMoves         \* selections, creations and remounts, all together

ASSUME ComposerAssumption ==
  MaxAttachments \in Nat /\ MaxPieces \in Nat /\ MaxEdits \in Nat /\ MaxMoves \in Nat

VARIABLES
  key,      \* selectedInstanceId, NewDraft for undefined
  ref,      \* selectedInstanceIdRef
  content,  \* draft, attachments and documents on the screen
  store,    \* draftStore
  sends,    \* submit, submitSteer, submitFollowUp and slash commands that wait
  picks,    \* addFiles and addWorkspaceFile calls that wait
  creating, \* how many createConversation calls wait
  running,  \* isWorking
  slash,    \* slashOpen
  feed,     \* isUserManuallyScrolledUp, autoFollow, showScrollToBottom
  sent,     \* what was handed to onSend, onSteer or onFollowUp last
  pieces, edits, moves

composerVars ==
  <<key, ref, content, store, sends, picks, creating, running, slash, feed, sent,
    pieces, edits, moves>>
selection == <<key, ref, creating>>
bounds == <<pieces, edits, moves>>

Key == Conversation \union {NewDraft}

\* The handlers that wait for sendMessage: of a message, and of a command.
Messages == {"send", "request"}

\* The slash commands by what handleLocalSlash does about them.
Command == {"new",     \* starts another conversation
            "other",   \* acts elsewhere: models, modes, views, the clipboard
            "send",    \* hands its arguments to onSend
            "unknown"} \* is none of ours and goes out as a message

\* The commands that the composer knows by itself.
LocalSlash == Command \ {"unknown"}

Piece == 1..MaxPieces
Content == [text : SUBSET Key, command : Command \union {None},
            images : SUBSET Piece, documents : SUBSET Piece]
Empty == [text |-> {}, command |-> None, images |-> {}, documents |-> {}]
Blank(c) == c.text = {} /\ c.command = None

(* draftStore: an empty draft is none.                                       *)
WithDraft(s, k, c) == [s EXCEPT ![k] = c]
WithoutDraft(s, k) == [s EXCEPT ![k] = Empty]

Edit == edits < MaxEdits /\ edits' = edits + 1

-----------------------------------------------------------------------------
(* The feed *)

\* Variant: the button to the bottom is not reset.
FollowingOnly == [up |-> FALSE, follow |-> TRUE]

Following == [up |-> FALSE, follow |-> TRUE, button |-> FALSE]

\* The wheel upwards leaves the bottom; downwards it ends there when it is near.
Wheel(direction, near) ==
  /\ Edit
  /\ feed' = CASE direction = "up" -> [up |-> TRUE, follow |-> FALSE, button |-> TRUE]
               [] direction = "down" /\ near -> Following
               [] OTHER -> feed
  /\ feed' # feed
  /\ UNCHANGED <<selection, content, store, sends, picks, running, slash, sent, pieces, moves>>

\* A scroll event: of the user, of a growing feed, or while the view settles
\* after a change of the conversation.
Scrolled(settling, away, bottom) ==
  /\ ~(away /\ bottom)
  /\ feed' = CASE settling /\ away /\ ~feed.up -> feed
               [] ~(settling /\ away /\ ~feed.up) /\ bottom -> Following
               [] ~(settling /\ away /\ ~feed.up) /\ ~bottom /\ feed.up ->
                    [feed EXCEPT !.button = TRUE]
               [] OTHER -> [feed EXCEPT !.button = IF feed.follow THEN FALSE ELSE away]
  /\ feed' # feed
  /\ UNCHANGED <<selection, content, store, sends, picks, running, slash, sent, bounds>>

\* New messages and changes of size: followed unless the user scrolled up.
FeedGrows ==
  /\ feed' = IF feed.up THEN feed ELSE [feed EXCEPT !.follow = TRUE]
  /\ feed' # feed
  /\ UNCHANGED <<selection, content, store, sends, picks, running, slash, sent, bounds>>

ScrollToBottom ==
  /\ feed.button
  /\ feed' = Following
  /\ UNCHANGED <<selection, content, store, sends, picks, running, slash, sent, bounds>>

-----------------------------------------------------------------------------
(* Drafts *)

Waiting == creating + Cardinality(sends) + Cardinality(picks)
Room == Waiting < MaxCalls
Move == moves < MaxMoves /\ moves' = moves + 1

SlashFor(c) == c.command # None

\* The draft is another one: the effect of the slash menu runs.
Draft(c) == /\ content' = c
            /\ slash' = IF c.text # content.text \/ c.command # content.command
                        THEN SlashFor(c) ELSE slash

Type ==
  /\ Edit
  /\ Draft([content EXCEPT !.text = @ \union {key}, !.command = None])
  /\ UNCHANGED <<selection, store, sends, picks, running, feed, sent, pieces, moves>>

TypeCommand(c) ==
  /\ Edit
  /\ Draft([content EXCEPT !.text = {}, !.command = c])
  /\ UNCHANGED <<selection, store, sends, picks, running, feed, sent, pieces, moves>>

Erase ==
  /\ ~Blank(content)
  /\ Draft([content EXCEPT !.text = {}, !.command = None])
  /\ UNCHANGED <<selection, store, sends, picks, running, feed, sent, bounds>>

\* A prefilled draft takes the place of the text, and its pictures that of the
\* images (screenshots, or a message to be written again).
Prefill(image) ==
  /\ Edit
  /\ image => pieces < MaxPieces
  /\ pieces' = IF image THEN pieces + 1 ELSE pieces
  /\ Draft([content EXCEPT !.text = {key}, !.command = None,
              !.images = IF image THEN {pieces + 1} ELSE @])
  /\ UNCHANGED <<selection, store, sends, picks, running, feed, sent, moves>>

\* The cards of the day above the feed write a draft of their own.
Suggest == Prefill(FALSE)

\* Variant: the draft is put away under the key that is entered.
DraftsUnderNext(k) == WithDraft(store, k, content)

\* The draft of one key is put away and that of another is brought out.
DraftsAfter(k) ==
  IF k = key THEN store
  ELSE IF Blank(content) /\ content.images = {} /\ content.documents = {}
  THEN WithoutDraft(store, key)
  ELSE WithDraft(store, key, content)

\* Variant: a conversation without a draft leaves the composer as it is.
ShowKeeping(k) ==
  /\ key' = k
  /\ store' = DraftsAfter(k)
  /\ IF DraftsAfter(k)[k] = Empty THEN UNCHANGED <<content, slash>> ELSE Draft(DraftsAfter(k)[k])
  /\ feed' = Following

Show(k) ==
  /\ key' = k
  /\ store' = DraftsAfter(k)
  /\ Draft(DraftsAfter(k)[k])
  /\ feed' = Following

\* The user, the shell or a change of the mode (which may find no conversation).
\* What is selected already only gets the ref back.
Select(k) ==
  /\ Move /\ ref' = k
  /\ IF k = key THEN UNCHANGED <<key, content, store, slash, feed>> ELSE Show(k)
  /\ running' \in BOOLEAN
  /\ UNCHANGED <<sends, picks, creating, sent, pieces, edits>>

\* A refresh, a deletion or a dead conversation moves the selection.  The draft of
\* a deleted conversation is forgotten, and put away again as that of the one left.
ListMoves(k) ==
  /\ Move /\ k # key
  /\ Show(k)
  /\ running' \in BOOLEAN
  /\ UNCHANGED <<ref, sends, picks, creating, sent, pieces, edits>>

\* deleteSelectedConversation and removeSelectedProject, of another conversation.
Deleted(c) ==
  /\ c # key /\ store[c] # Empty
  /\ store' = WithoutDraft(store, c)
  /\ UNCHANGED <<selection, content, sends, picks, running, slash, feed, sent, bounds>>

Creates ==
  /\ Move /\ Room
  /\ creating' = creating + 1
  /\ UNCHANGED <<key, ref, content, store, sends, picks, running, slash, feed, sent,
                 pieces, edits>>

CreationFails ==
  /\ creating > 0 /\ creating' = creating - 1
  /\ UNCHANGED <<key, ref, content, store, sends, picks, running, slash, feed, sent, bounds>>

\* The conversation c was made, by createConversation or by sendMessage for a message
\* of the new draft: it is selected wherever the user has gone. It has no draft yet.
Created(c) ==
  /\ c # key /\ store[c] = Empty
  /\ \/ /\ creating > 0 /\ creating' = creating - 1
        /\ UNCHANGED sends
     \/ /\ \E s \in sends : s.key = NewDraft /\ s.kind \in Messages /\ ~s.made
                           /\ sends' = (sends \ {s}) \union {[s EXCEPT !.made = TRUE]}
        /\ UNCHANGED creating
  /\ Show(c) /\ ref' = c
  /\ running' \in BOOLEAN
  /\ UNCHANGED <<picks, sent, bounds>>

\* The view is left and entered again: what is still under way no longer
\* reaches the composer, only the store.
Remount ==
  /\ Move
  /\ store' = IF Blank(content) /\ content.images = {} /\ content.documents = {}
              THEN WithoutDraft(store, key) ELSE WithDraft(store, key, content)
  /\ content' = store'[key]
  /\ slash' = SlashFor(content')
  /\ feed' = Following
  /\ sends' = {[s EXCEPT !.mounted = FALSE] : s \in sends}
  /\ picks' = {[p EXCEPT !.mounted = FALSE] : p \in picks}
  /\ UNCHANGED <<selection, running, sent, pieces, edits>>

-----------------------------------------------------------------------------
(* Attachments *)

Least(a, b) == IF a < b THEN a ELSE b

\* addFiles measures the room there is before it reads the files; files of both kinds
\* in one call are left out.
AddFiles(kind, n) ==
  LET there == IF kind = "image" THEN content.images ELSE content.documents IN
  /\ Room /\ pieces + n <= MaxPieces
  /\ pieces' = pieces + n
  /\ picks' = picks \union
       {[kind |-> kind, mounted |-> TRUE,
         new |-> {pieces + i : i \in 1 .. Least(n, MaxAttachments - Cardinality(there))}]}
  /\ UNCHANGED <<selection, content, store, sends, running, slash, feed, sent, edits, moves>>

\* addWorkspaceFile: not one that is there already, and not too many.
AddWorkspaceFile ==
  /\ Room /\ Cardinality(content.documents) < MaxAttachments
  /\ pieces < MaxPieces
  /\ pieces' = pieces + 1
  /\ picks' = picks \union {[kind |-> "document", mounted |-> TRUE,
                             new |-> {pieces + 1}]}
  /\ UNCHANGED <<selection, content, store, sends, running, slash, feed, sent, edits, moves>>

\* All files are read, a picture made smaller until it fits, or none joins: one that
\* cannot be read, is too large or holds no text ends the reading.
PreparedImages(files) == {files, {}}
PreparedDocuments(files) == {files, {}}

FilesAreRead(p) ==
  /\ p \in picks
  /\ picks' = picks \ {p}
  /\ IF ~p.mounted THEN UNCHANGED content
     ELSE IF p.kind = "image"
     THEN \E new \in PreparedImages(p.new) : content' = [content EXCEPT !.images = @ \union new]
     ELSE \E new \in PreparedDocuments(p.new) : content' = [content EXCEPT !.documents = @ \union new]
  /\ UNCHANGED <<selection, store, sends, running, slash, feed, sent, bounds>>

RemoveAttachment(p) ==
  /\ p \in content.images \union content.documents
  /\ content' = [content EXCEPT !.images = @ \ {p}, !.documents = @ \ {p}]
  /\ UNCHANGED <<selection, store, sends, picks, running, slash, feed, sent, bounds>>

-----------------------------------------------------------------------------
(* Sending *)

Sendable == ~Blank(content) \/ content.images # {} \/ content.documents # {}

Sending(kind, n) == [kind |-> kind, n |-> n, key |-> key, made |-> FALSE,
                     mounted |-> TRUE, clears |-> TRUE]

\* Nothing stops a second steer, or follow-up, while the first is under way.
FreeNumber(kind, n) == ~\E s \in sends : s.kind = kind /\ s.n = n
Begins(kind, clears) ==
  /\ Room
  /\ \E n \in 1..MaxCalls :
       /\ FreeNumber(kind, n) /\ \A m \in 1 .. n - 1 : ~FreeNumber(kind, m)
       /\ sends' = sends \union {[Sending(kind, n) EXCEPT !.clears = clears]}

\* Where steering and follow-ups go.
Target == IF ref # NewDraft THEN ref ELSE key

Sends(kind, to, text) ==
  sent' = [to |-> to, text |-> text,
           astray |-> kind \in {"steer", "followUp"} /\ to # key]

\* submit, of a message.
Submit ==
  /\ Sendable /\ ~running /\ Begins("send", TRUE)
  /\ content.command \in {None, "unknown"} \/ content.images # {}
  /\ Sends("send", key, content.text)
  /\ running' = TRUE
  /\ feed' = Following
  /\ UNCHANGED <<selection, content, store, picks, slash, bounds>>

\* The retry buttons, the suggestions and other windows send a text of their own:
\* sendMessage does not ask whether another message is under way.
Resend ==
  /\ Begins("send", FALSE)
  /\ Sends("send", key, {})
  /\ running' = TRUE
  /\ UNCHANGED <<selection, content, store, picks, slash, feed, bounds>>

\* submit, of a command of ours: "send" waits for onSend, the others for nothing,
\* but the rest of submit runs after what they did to the view. "new" has a
\* conversation created.
SubmitCommand ==
  /\ ~running /\ content.command \in LocalSlash /\ content.images = {}
  /\ IF content.command = "send"
     THEN /\ Begins("request", TRUE)
          /\ Sends("request", key, {})
          /\ running' = TRUE
     ELSE Begins("command", TRUE) /\ UNCHANGED <<sent, running>>
  /\ IF content.command = "new"
     THEN Waiting + 1 < MaxCalls /\ creating' = creating + 1
     ELSE UNCHANGED creating
  /\ UNCHANGED <<key, ref, content, store, picks, slash, feed, bounds>>

\* Steering and follow-ups, with a target or without: then nothing is sent, and the
\* composer is emptied all the same.
HandsOver(kind) ==
  /\ Sendable /\ running /\ Begins(kind, TRUE)
  /\ IF Target = NewDraft THEN UNCHANGED sent ELSE Sends(kind, Target, content.text)

\* submitSteer: onSteer takes no documents, but they are emptied with the rest.
SubmitSteer ==
  /\ HandsOver("steer")
  /\ feed' = Following
  /\ UNCHANGED <<selection, content, store, picks, running, slash, bounds>>

SubmitFollowUp ==
  /\ HandsOver("followUp")
  /\ UNCHANGED <<selection, content, store, picks, running, slash, feed, bounds>>

\* The wait is over.  The draft of the key that was sent from is forgotten, and
\* the composer is emptied, whatever it holds by now; after a failure neither.
Returns(s, ok) ==
  /\ s \in sends
  /\ s.kind \in Messages /\ s.key = NewDraft => s.made \/ ~ok
  /\ sends' = sends \ {s}
  /\ IF ok /\ s.clears
     THEN /\ store' = WithoutDraft(store, s.key)
          /\ IF s.mounted
             THEN Draft(IF s.kind \in {"command", "request"}
                        THEN [content EXCEPT !.text = {}, !.command = None] ELSE Empty)
             ELSE UNCHANGED <<content, slash>>
     ELSE UNCHANGED <<store, content, slash>>
  /\ running' = IF s.kind \in Messages THEN ok ELSE running
  /\ UNCHANGED <<selection, picks, feed, sent, bounds>>

\* An item of the slash menu: navigation and the like act at once and empty the
\* draft, the others write the beginning of a command.
ApplySlashItem(c) ==
  /\ slash
  /\ content' = [content EXCEPT !.text = {},
                                !.command = IF c \in {"new", "other"} THEN None ELSE c]
  /\ slash' = FALSE
  /\ UNCHANGED <<selection, store, sends, picks, running, feed, sent, bounds>>

CloseSlash ==
  /\ slash /\ slash' = FALSE
  /\ UNCHANGED <<selection, content, store, sends, picks, running, feed, sent, bounds>>

\* The run of the selected conversation begins or ends by itself, or is aborted; and
\* busy, one mark for every action of the app, is taken away by whichever ends first.
\* So none is certain to be there while a message is under way.
RunChanges ==
  /\ running' = ~running
  /\ UNCHANGED <<selection, content, store, sends, picks, slash, feed, sent, bounds>>

-----------------------------------------------------------------------------
ComposerInit ==
  /\ key \in Key /\ ref = key /\ creating = 0 /\ content = Empty
  /\ store = [k \in Key |-> Empty]
  /\ sends = {} /\ picks = {} /\ running = FALSE /\ slash = FALSE
  /\ feed = Following /\ sent = None
  /\ pieces = 0 /\ edits = 0 /\ moves = 0

Reading ==
  \/ \E d \in {"up", "down"}, near \in BOOLEAN : Wheel(d, near)
  \/ \E settling, away, bottom \in BOOLEAN : Scrolled(settling, away, bottom)
  \/ FeedGrows \/ ScrollToBottom

Writing ==
  \/ Type \/ Erase \/ \E c \in Command : TypeCommand(c) \/ ApplySlashItem(c)
  \/ CloseSlash \/ Suggest \/ \E image \in BOOLEAN : Prefill(image)
  \/ \E kind \in {"image", "document"}, n \in 1..2 : AddFiles(kind, n)
  \/ AddWorkspaceFile \/ \E p \in content.images \union content.documents : RemoveAttachment(p)
  \/ Submit \/ Resend \/ SubmitCommand \/ SubmitSteer \/ SubmitFollowUp

Moving == \/ \E k \in Key : Select(k) \/ ListMoves(k)
          \/ \E c \in Conversation : Created(c) \/ Deleted(c)
          \/ Creates \/ Remount \/ RunChanges

Answering == \/ CreationFails
             \/ \E p \in picks : FilesAreRead(p)
             \/ \E s \in sends, ok \in BOOLEAN : Returns(s, ok)

ComposerNext == Reading \/ Writing \/ Moving \/ Answering

ComposerSpec == ComposerInit /\ [][ComposerNext]_composerVars

-----------------------------------------------------------------------------
ComposerTypeOK ==
  /\ key \in Key /\ ref \in Key /\ creating \in Nat
  /\ content \in Content /\ store \in [Key -> Content]
  /\ sends \subseteq [kind : {"send", "request", "command", "steer", "followUp"}, n : 1..MaxCalls,
                      key : Key, made : BOOLEAN, mounted : BOOLEAN, clears : BOOLEAN]
  /\ picks \subseteq [kind : {"image", "document"}, mounted : BOOLEAN, new : SUBSET Piece]
  /\ running \in BOOLEAN /\ slash \in BOOLEAN
  /\ feed \in [up : BOOLEAN, follow : BOOLEAN, button : BOOLEAN]
  /\ pieces \in 0..MaxPieces /\ edits \in 0..MaxEdits /\ moves \in 0..MaxMoves

\* A text is handed over for the conversation in which it was typed, however the
\* selection moved while earlier messages were under way; only a steer or follow-up
\* goes astray, when the ref lags behind what is selected.
TextGoesWhereItWasTyped ==
  sent # None /\ ~sent.astray => sent.text \subseteq {sent.to}

DraftOf(k) == IF k = key THEN content ELSE store[k]

\* Moving to another conversation, by oneself, by the list or by a creation that
\* ends late, or away from the view and back, changes no conversation's draft: that
\* of the one that is left is put away first.
MovingKeepsDrafts ==
  [][key' # key \/ moves' # moves => \A k \in Key : DraftOf(k)' = DraftOf(k)]_composerVars
=============================================================================
