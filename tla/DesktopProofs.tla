------------------------------ MODULE DesktopProofs -----------------------------
(***************************************************************************)
(* Theorems about DaemonLink, for any calls, retries and connections, and  *)
(* about Composer, for any conversations and any numbers of attachments,   *)
(* sends, texts and moves; then the lemmas about the calls of a panel, and *)
(* the inductive invariant of each of the panels of WorkPanels.            *)
(***************************************************************************)
EXTENDS WorkPanels, FiniteSetTheorems, TLAPS

(***************************************************************************)
(* DaemonLink.                                                             *)
(***************************************************************************)
(* Only what may be tried again has a second attempt, and a call that has   *)
(* no request out yet was not carried out, nor is one that the daemon has   *)
(* still to look at.                                                        *)
OnceInv == \A c \in Call \ Retryable :
  /\ try[c] = 0
  /\ \A r \in inbox : r[1] = c => r[2] = 0 /\ done[c] = 0
  /\ pc[c] \in {"idle", "connect", "register", "write"} =>
       /\ done[c] = 0
       /\ \A r \in inbox : r[1] # c
  /\ done[c] <= 1

(* A call about to write is in the table, or was told that it is not.       *)
WaitInv ==
  /\ NobodyWaitsInVain
  /\ \A c \in Call : pc[c] = "write" /\ told[c] = "nothing" => RequestOf(c) \in pending

(* Answers are made of what was carried out.                                *)
AnswerInv ==
  /\ \A r \in working \union outbox : done[r[1]] > 0
  /\ \A c \in Call : told[c] = "answer" => done[c] > 0
  /\ AnsweredMeansDone

LEMMA RequestsAreRequests ==
  ASSUME LinkTypeOK, NEW c \in Call
  PROVE  RequestOf(c) \in Request
  BY DEF LinkTypeOK, RequestOf, Request

LEMMA OpeningType ==
  ASSUME LinkTypeOK, Opens \/ UNCHANGED connVars
  PROVE  connected' \in BOOLEAN /\ closed' \in BOOLEAN /\ up' \in BOOLEAN /\ opened' \in Nat
<1>1. CASE Opens
  BY <1>1 DEF Opens, LinkTypeOK
<1>2. CASE UNCHANGED connVars
  BY <1>2 DEF connVars, LinkTypeOK
<1>3. QED
  BY <1>1, <1>2

(* To carry a request out adds to what was done for its call.               *)
LEMMA DoneType ==
  ASSUME LinkTypeOK, NEW r \in Request
  PROVE  [done EXCEPT ![r[1]] = @ + 1] \in [Call -> Nat]
  BY DEF LinkTypeOK, Request

LEMMA TypeStep ==
  ASSUME LinkTypeOK, [LinkNext]_linkVars
  PROVE  LinkTypeOK'
<1> USE RequestsAreRequests, BoundAssumption DEF linkVars, connVars, superVars, callVars, wireVars
<1>1. CASE SupervisorLooks
  BY <1>1 DEF SupervisorLooks, LinkTypeOK, Request
<1>2. CASE SupervisorConnects
  BY <1>2, OpeningType DEF SupervisorConnects, LinkTypeOK
<1>3. CASE StartDaemon
  BY <1>3, OpeningType DEF StartDaemon, LinkTypeOK
<1>4. CASE CleanUp
  BY <1>4 DEF CleanUp, LinkTypeOK, Request
<1>5. ASSUME NEW r \in outbox, ReadAnswer(r)
      PROVE  LinkTypeOK'
  BY <1>5 DEF ReadAnswer, LinkTypeOK, Request
<1>6. ASSUME NEW alive \in BOOLEAN, Closes(alive)
      PROVE  LinkTypeOK'
  BY <1>6 DEF Closes, Closing, LinkTypeOK, Request
<1>7. ASSUME NEW r \in inbox, CarriesOut(r)
      PROVE  LinkTypeOK'
  <2>1. r \in Request
    BY DEF LinkTypeOK
  <2>2. done' \in [Call -> Nat]
    BY <1>7, <2>1, DoneType DEF CarriesOut
  <2>3. CASE r[1] = Stop
    BY <1>7, <2>1, <2>2, <2>3 DEF CarriesOut, Closing, LinkTypeOK
  <2>4. CASE r[1] # Stop
    BY <1>7, <2>1, <2>2, <2>4 DEF CarriesOut, LinkTypeOK
  <2>5. QED
    BY <2>3, <2>4
<1>8. ASSUME NEW r \in working, Answers(r)
      PROVE  LinkTypeOK'
  BY <1>8 DEF Answers, LinkTypeOK, Request
<1>9. ASSUME NEW d \in Call, Invoke(d)
      PROVE  LinkTypeOK'
  BY <1>9 DEF Invoke, Goto, LinkTypeOK, Request
<1>10. ASSUME NEW d \in Call, EnsureConnected(d)
      PROVE  LinkTypeOK'
  <2>1. pc' \in [Call -> {"idle", "connect", "register", "write", "wait", "answered", "failed"}]
    BY <1>10 DEF EnsureConnected, Goto, LinkTypeOK
  <2>2. Opens \/ UNCHANGED connVars
    BY <1>10 DEF EnsureConnected
  <2>3. QED
    BY <1>10, <2>1, <2>2, OpeningType DEF EnsureConnected, LinkTypeOK
<1>11. ASSUME NEW d \in Call, Register(d)
      PROVE  LinkTypeOK'
  BY <1>11 DEF Register, Goto, LinkTypeOK, Request
<1>12. ASSUME NEW d \in Call, Write(d)
      PROVE  LinkTypeOK'
  BY <1>12 DEF Write, Goto, LinkTypeOK, Request
<1>13. ASSUME NEW d \in Call, Learns(d)
      PROVE  LinkTypeOK'
  BY <1>13 DEF Learns, Goto, LinkTypeOK, Request
<1>14. ASSUME NEW d \in Call, TimesOut(d)
      PROVE  LinkTypeOK'
  BY <1>14 DEF TimesOut, Goto, LinkTypeOK, Request
<1>15. CASE UNCHANGED linkVars
  BY <1>15 DEF linkVars, connVars, superVars, callVars, wireVars, LinkTypeOK, Request
<1>16. QED
  BY <1>1, <1>2, <1>3, <1>4, <1>5, <1>6, <1>7, <1>8, <1>9, <1>10, <1>11, <1>12, <1>13, <1>14, <1>15 DEF LinkNext, CallStep

LEMMA OnceStep ==
  ASSUME LinkTypeOK, OnceInv, [LinkNext]_linkVars
  PROVE  OnceInv'
<1> USE CallAssumption, BoundAssumption DEF linkVars, connVars, superVars, callVars, wireVars
<1>1. CASE SupervisorLooks
  BY <1>1 DEF SupervisorLooks, OnceInv, LinkTypeOK, Request, RequestOf
<1>2. CASE SupervisorConnects
  BY <1>2 DEF SupervisorConnects, Opens, OnceInv, LinkTypeOK, Request, RequestOf
<1>3. CASE StartDaemon
  BY <1>3 DEF StartDaemon, Opens, OnceInv, LinkTypeOK, Request, RequestOf
<1>4. CASE CleanUp
  BY <1>4 DEF CleanUp, OnceInv, LinkTypeOK, Request, RequestOf
<1>5. ASSUME NEW r \in outbox, ReadAnswer(r)
      PROVE  OnceInv'
  BY <1>5 DEF ReadAnswer, OnceInv, LinkTypeOK, Request, RequestOf
<1>6. ASSUME NEW alive \in BOOLEAN, Closes(alive)
      PROVE  OnceInv'
  BY <1>6 DEF Closes, Closing, OnceInv, LinkTypeOK, Request, RequestOf
<1>7. ASSUME NEW r \in inbox, CarriesOut(r)
      PROVE  OnceInv'
  BY <1>7 DEF CarriesOut, Closing, OnceInv, LinkTypeOK, Request, RequestOf
<1>8. ASSUME NEW r \in working, Answers(r)
      PROVE  OnceInv'
  BY <1>8 DEF Answers, OnceInv, LinkTypeOK, Request, RequestOf
<1>9. ASSUME NEW d \in Call, Invoke(d)
      PROVE  OnceInv'
  BY <1>9 DEF Invoke, Goto, OnceInv, LinkTypeOK, Request, RequestOf
<1>10. ASSUME NEW d \in Call, EnsureConnected(d)
      PROVE  OnceInv'
  BY <1>10 DEF EnsureConnected, Opens, Goto, OnceInv, LinkTypeOK, Request, RequestOf
<1>11. ASSUME NEW d \in Call, Register(d)
      PROVE  OnceInv'
  BY <1>11 DEF Register, Goto, OnceInv, LinkTypeOK, Request, RequestOf
<1>12. ASSUME NEW d \in Call, Write(d)
      PROVE  OnceInv'
  BY <1>12 DEF Write, Goto, OnceInv, LinkTypeOK, Request, RequestOf
<1>13. ASSUME NEW d \in Call, Learns(d)
      PROVE  OnceInv'
  BY <1>13 DEF Learns, Goto, OnceInv, LinkTypeOK, Request, RequestOf
<1>14. ASSUME NEW d \in Call, TimesOut(d)
      PROVE  OnceInv'
  BY <1>14 DEF TimesOut, Goto, OnceInv, LinkTypeOK, Request, RequestOf
<1>15. CASE UNCHANGED linkVars
  BY <1>15 DEF linkVars, connVars, superVars, callVars, wireVars, OnceInv, LinkTypeOK, Request, RequestOf
<1>16. QED
  BY <1>1, <1>2, <1>3, <1>4, <1>5, <1>6, <1>7, <1>8, <1>9, <1>10, <1>11, <1>12, <1>13, <1>14, <1>15 DEF LinkNext, CallStep

LEMMA WaitStep ==
  ASSUME LinkTypeOK, WaitInv, [LinkNext]_linkVars
  PROVE  WaitInv'
<1> USE CallAssumption, BoundAssumption DEF linkVars, connVars, superVars, callVars, wireVars
<1>1. CASE SupervisorLooks
  BY <1>1 DEF SupervisorLooks, WaitInv, NobodyWaitsInVain, LinkTypeOK, RequestOf
<1>2. CASE SupervisorConnects
  BY <1>2 DEF SupervisorConnects, Opens, WaitInv, NobodyWaitsInVain, LinkTypeOK, RequestOf
<1>3. CASE StartDaemon
  BY <1>3 DEF StartDaemon, Opens, WaitInv, NobodyWaitsInVain, LinkTypeOK, RequestOf
<1>4. CASE CleanUp
  BY <1>4 DEF CleanUp, WaitInv, NobodyWaitsInVain, LinkTypeOK, RequestOf
<1>5. ASSUME NEW r \in outbox, ReadAnswer(r)
      PROVE  WaitInv'
  BY <1>5 DEF ReadAnswer, WaitInv, NobodyWaitsInVain, LinkTypeOK, RequestOf
<1>6. ASSUME NEW alive \in BOOLEAN, Closes(alive)
      PROVE  WaitInv'
  BY <1>6 DEF Closes, Closing, WaitInv, NobodyWaitsInVain, LinkTypeOK, RequestOf
<1>7. ASSUME NEW r \in inbox, CarriesOut(r)
      PROVE  WaitInv'
  BY <1>7 DEF CarriesOut, Closing, WaitInv, NobodyWaitsInVain, LinkTypeOK, RequestOf
<1>8. ASSUME NEW r \in working, Answers(r)
      PROVE  WaitInv'
  BY <1>8 DEF Answers, WaitInv, NobodyWaitsInVain, LinkTypeOK, RequestOf
<1>9. ASSUME NEW d \in Call, Invoke(d)
      PROVE  WaitInv'
  BY <1>9 DEF Invoke, Goto, WaitInv, NobodyWaitsInVain, LinkTypeOK, RequestOf
<1>10. ASSUME NEW d \in Call, EnsureConnected(d)
      PROVE  WaitInv'
  BY <1>10 DEF EnsureConnected, Opens, Goto, WaitInv, NobodyWaitsInVain, LinkTypeOK, RequestOf
<1>11. ASSUME NEW d \in Call, Register(d)
      PROVE  WaitInv'
  BY <1>11 DEF Register, Goto, WaitInv, NobodyWaitsInVain, LinkTypeOK, RequestOf
<1>12. ASSUME NEW d \in Call, Write(d)
      PROVE  WaitInv'
  BY <1>12 DEF Write, Goto, WaitInv, NobodyWaitsInVain, LinkTypeOK, RequestOf
<1>13. ASSUME NEW d \in Call, Learns(d)
      PROVE  WaitInv'
  BY <1>13 DEF Learns, Goto, WaitInv, NobodyWaitsInVain, LinkTypeOK, RequestOf
<1>14. ASSUME NEW d \in Call, TimesOut(d)
      PROVE  WaitInv'
  BY <1>14 DEF TimesOut, Goto, WaitInv, NobodyWaitsInVain, LinkTypeOK, RequestOf
<1>15. CASE UNCHANGED linkVars
  BY <1>15 DEF linkVars, connVars, superVars, callVars, wireVars, WaitInv, NobodyWaitsInVain, LinkTypeOK, RequestOf
<1>16. QED
  BY <1>1, <1>2, <1>3, <1>4, <1>5, <1>6, <1>7, <1>8, <1>9, <1>10, <1>11, <1>12, <1>13, <1>14, <1>15 DEF LinkNext, CallStep

LEMMA AnswerStep ==
  ASSUME LinkTypeOK, AnswerInv, [LinkNext]_linkVars
  PROVE  AnswerInv'
<1> USE CallAssumption, BoundAssumption DEF linkVars, connVars, superVars, callVars, wireVars
<1>1. CASE SupervisorLooks
  BY <1>1 DEF SupervisorLooks, AnswerInv, AnsweredMeansDone, LinkTypeOK, Request, RequestOf
<1>2. CASE SupervisorConnects
  BY <1>2 DEF SupervisorConnects, Opens, AnswerInv, AnsweredMeansDone, LinkTypeOK, Request, RequestOf
<1>3. CASE StartDaemon
  BY <1>3 DEF StartDaemon, Opens, AnswerInv, AnsweredMeansDone, LinkTypeOK, Request, RequestOf
<1>4. CASE CleanUp
  BY <1>4 DEF CleanUp, AnswerInv, AnsweredMeansDone, LinkTypeOK, Request, RequestOf
<1>5. ASSUME NEW r \in outbox, ReadAnswer(r)
      PROVE  AnswerInv'
  BY <1>5 DEF ReadAnswer, AnswerInv, AnsweredMeansDone, LinkTypeOK, Request, RequestOf
<1>6. ASSUME NEW alive \in BOOLEAN, Closes(alive)
      PROVE  AnswerInv'
  BY <1>6 DEF Closes, Closing, AnswerInv, AnsweredMeansDone, LinkTypeOK, Request, RequestOf
<1>7. ASSUME NEW r \in inbox, CarriesOut(r)
      PROVE  AnswerInv'
  BY <1>7 DEF CarriesOut, Closing, AnswerInv, AnsweredMeansDone, LinkTypeOK, Request, RequestOf
<1>8. ASSUME NEW r \in working, Answers(r)
      PROVE  AnswerInv'
  BY <1>8 DEF Answers, AnswerInv, AnsweredMeansDone, LinkTypeOK, Request, RequestOf
<1>9. ASSUME NEW d \in Call, Invoke(d)
      PROVE  AnswerInv'
  BY <1>9 DEF Invoke, Goto, AnswerInv, AnsweredMeansDone, LinkTypeOK, Request, RequestOf
<1>10. ASSUME NEW d \in Call, EnsureConnected(d)
      PROVE  AnswerInv'
  BY <1>10 DEF EnsureConnected, Opens, Goto, AnswerInv, AnsweredMeansDone, LinkTypeOK, Request, RequestOf
<1>11. ASSUME NEW d \in Call, Register(d)
      PROVE  AnswerInv'
  BY <1>11 DEF Register, Goto, AnswerInv, AnsweredMeansDone, LinkTypeOK, Request, RequestOf
<1>12. ASSUME NEW d \in Call, Write(d)
      PROVE  AnswerInv'
  BY <1>12 DEF Write, Goto, AnswerInv, AnsweredMeansDone, LinkTypeOK, Request, RequestOf
<1>13. ASSUME NEW d \in Call, Learns(d)
      PROVE  AnswerInv'
  BY <1>13 DEF Learns, Goto, AnswerInv, AnsweredMeansDone, LinkTypeOK, Request, RequestOf
<1>14. ASSUME NEW d \in Call, TimesOut(d)
      PROVE  AnswerInv'
  BY <1>14 DEF TimesOut, Goto, AnswerInv, AnsweredMeansDone, LinkTypeOK, Request, RequestOf
<1>15. CASE UNCHANGED linkVars
  BY <1>15 DEF linkVars, connVars, superVars, callVars, wireVars, AnswerInv, AnsweredMeansDone, LinkTypeOK, Request, RequestOf
<1>16. QED
  BY <1>1, <1>2, <1>3, <1>4, <1>5, <1>6, <1>7, <1>8, <1>9, <1>10, <1>11, <1>12, <1>13, <1>14, <1>15 DEF LinkNext, CallStep

(***************************************************************************)
(* The theorems.                                                           *)
(***************************************************************************)

(* Every variable keeps its type: the table, the connection, the calls.     *)
THEOREM LinkTypeCorrect == LinkSpec => []LinkTypeOK
<1>1. LinkInit => LinkTypeOK
  <2>1. 0 \in 0..MaxRetries
    BY BoundAssumption
  <2>2. ASSUME LinkInit
        PROVE  /\ try \in [Call -> 0..MaxRetries] /\ done \in [Call -> Nat] /\ opened \in Nat
               /\ pc \in [Call -> {"idle", "connect", "register", "write", "wait", "answered", "failed"}]
               /\ told \in [Call -> {"nothing", "answer", "disconnected"}]
    BY <2>1, <2>2 DEF LinkInit
  <2>3. QED
    BY <2>2 DEF LinkInit, LinkTypeOK
<1>2. LinkTypeOK /\ [LinkNext]_linkVars => LinkTypeOK'
  BY TypeStep
<1>3. QED
  BY <1>1, <1>2, PTL DEF LinkSpec

(* What call of api.ts does not try again is carried out at most once,      *)
(* however connections end, open and are written to in between.             *)
THEOREM LinkCarriesOutOnce == LinkSpec => []CarriedOutOnce
<1>1. LinkInit => OnceInv
  <2>1. ASSUME LinkInit, NEW c \in Call
        PROVE  try[c] = 0 /\ done[c] = 0 /\ inbox = {}
    BY <2>1 DEF LinkInit
  <2>2. ASSUME LinkInit, NEW c \in Call \ Retryable
        PROVE  /\ try[c] = 0
               /\ \A r \in inbox : r[1] = c => r[2] = 0 /\ done[c] = 0
               /\ done[c] = 0 /\ \A r \in inbox : r[1] # c
               /\ done[c] <= 1
    BY <2>1, <2>2
  <2>3. QED
    BY <2>2 DEF OnceInv
<1>2. LinkTypeOK /\ OnceInv /\ [LinkNext]_linkVars => OnceInv'
  BY OnceStep
<1>3. OnceInv => CarriedOutOnce
  BY DEF OnceInv, CarriedOutOnce
<1>4. QED
  BY <1>1, <1>2, <1>3, LinkTypeCorrect, PTL DEF LinkSpec

(* Whoever waits for an answer has an entry in the table of a connection    *)
(* that is read: the clean-up and the reader forget nobody.                 *)
THEOREM LinkForgetsNobody == LinkSpec => []NobodyWaitsInVain
<1>1. LinkInit => WaitInv
  BY DEF LinkInit, WaitInv, NobodyWaitsInVain
<1>2. LinkTypeOK /\ WaitInv /\ [LinkNext]_linkVars => WaitInv'
  BY WaitStep
<1>3. WaitInv => NobodyWaitsInVain
  BY DEF WaitInv
<1>4. QED
  BY <1>1, <1>2, <1>3, LinkTypeCorrect, PTL DEF LinkSpec

(* Nobody is told that his call succeeded unless it was carried out, though *)
(* the answer of an earlier attempt may come on a later connection's time.  *)
THEOREM LinkAnswersAreEarned == LinkSpec => []AnsweredMeansDone
<1>1. LinkInit => AnswerInv
  BY DEF LinkInit, AnswerInv, AnsweredMeansDone
<1>2. LinkTypeOK /\ AnswerInv /\ [LinkNext]_linkVars => AnswerInv'
  BY AnswerStep
<1>3. AnswerInv => AnsweredMeansDone
  BY DEF AnswerInv
<1>4. QED
  BY <1>1, <1>2, <1>3, LinkTypeCorrect, PTL DEF LinkSpec

(***************************************************************************)
(* Composer.                                                               *)
(***************************************************************************)
(* What a draft is made of, whatever its parts are.                         *)
IsDraft(c) ==
  c = [text |-> c.text, command |-> c.command, images |-> c.images, documents |-> c.documents]

DraftInv ==
  /\ key \in Key /\ IsDraft(content)
  /\ store = [k \in Key |-> store[k]]
  /\ \A k \in Key : IsDraft(store[k])

(* Every draft, shown or put away, was typed under its own key.             *)
TextInv ==
  /\ content.text \subseteq {key}
  /\ \A k \in Key : store[k].text \subseteq {k}
  /\ TextGoesWhereItWasTyped

(* Another draft is shown: that of the key left is put away as it is.       *)
LEMMA ShowKeepsDrafts ==
  ASSUME DraftInv, NEW k \in Key, Show(k)
  PROVE  /\ DraftInv'
         /\ key' = k
         /\ k # key => \A j \in Key : DraftOf(j)' = DraftOf(j)
<1>1. key' = k /\ store' = DraftsAfter(k) /\ content' = DraftsAfter(k)[k]
  BY DEF Show, Draft
<1>2. Blank(content) /\ content.images = {} /\ content.documents = {} => content = Empty
  BY DEF Blank, DraftInv, IsDraft, Empty
<1>3. DraftsAfter(k) = IF k = key THEN store ELSE [store EXCEPT ![key] = content]
  BY <1>2 DEF DraftsAfter, WithDraft, WithoutDraft
<1>4. CASE k = key
  <2>1. store' = store /\ content' = store[key] /\ key' = key
    BY <1>1, <1>3, <1>4
  <2>2. QED
    BY <1>1, <1>4, <2>1 DEF DraftInv, IsDraft
<1>5. CASE k # key
  <2>1. \A j \in Key : store'[j] = IF j = key THEN content ELSE store[j]
    BY <1>1, <1>3, <1>5 DEF DraftInv
  <2>2. store' = [j \in Key |-> store'[j]]
    BY <1>1, <1>3, <1>5 DEF DraftInv
  <2>3. content' = store[k]
    BY <1>1, <2>1, <1>5
  <2>4. DraftInv'
    BY <1>1, <2>1, <2>2, <2>3 DEF DraftInv, IsDraft
  <2>5. \A j \in Key : DraftOf(j)' = DraftOf(j)
    BY <1>1, <2>1, <2>3, <1>5 DEF DraftOf
  <2>6. QED
    BY <1>1, <2>4, <2>5
<1>6. QED
  BY <1>4, <1>5

(* ... and with it each text stays under the key under which it was typed.  *)
LEMMA ShowKeepsTexts ==
  ASSUME DraftInv, TextInv, NEW k \in Key, Show(k),
         TextGoesWhereItWasTyped'
  PROVE  TextInv'
<1>1. key' = k /\ store' = DraftsAfter(k) /\ content' = DraftsAfter(k)[k]
  BY DEF Show, Draft
<1>2. key \in Key /\ store = [j \in Key |-> store[j]]
  BY DEF DraftInv
<1>3. content.text \subseteq {key} /\ \A j \in Key : store[j].text \subseteq {j}
  BY DEF TextInv
<1>4. \A j \in Key : DraftsAfter(k)[j] \in {store[j], Empty, content}
  BY <1>2 DEF DraftsAfter, WithDraft, WithoutDraft
<1>5. \A j \in Key \ {key} : DraftsAfter(k)[j] = store[j]
  BY <1>2 DEF DraftsAfter, WithDraft, WithoutDraft
<1>6. \A j \in Key : store'[j].text \subseteq {j}
  <2>1. Empty.text = {}
    BY DEF Empty
  <2>2. \A j \in Key \ {key} : store'[j].text \subseteq {j}
    BY <1>1, <1>3, <1>5
  <2>3. DraftsAfter(k)[key].text \subseteq {key}
    BY <1>2, <1>3, <1>4, <2>1
  <2>4. QED
    BY <1>1, <2>2, <2>3
<1>7. content'.text \subseteq {key'}
  BY <1>1, <1>6
<1>8. QED
  BY <1>6, <1>7 DEF TextInv

(* Drafts keep their form under every action.                               *)
LEMMA DraftStep ==
  ASSUME DraftInv, [ComposerNext]_composerVars
  PROVE  DraftInv'
<1>1. ASSUME NEW direction \in {"up", "down"}, NEW near \in BOOLEAN, Wheel(direction, near)
      PROVE  DraftInv'
  BY <1>1 DEF Wheel, DraftInv, IsDraft, Key, bounds, selection
<1>2. ASSUME NEW settling \in BOOLEAN, NEW away \in BOOLEAN, NEW bottom \in BOOLEAN, Scrolled(settling, away, bottom)
      PROVE  DraftInv'
  BY <1>2 DEF Scrolled, DraftInv, IsDraft, Key, bounds, selection
<1>3. CASE FeedGrows
  BY <1>3 DEF FeedGrows, DraftInv, IsDraft, Key, bounds, selection
<1>4. CASE ScrollToBottom
  BY <1>4 DEF ScrollToBottom, DraftInv, IsDraft, Key, bounds, selection
<1>5. CASE Type
  BY <1>5 DEF Type, Edit, Draft, DraftInv, IsDraft, Key, bounds, selection
<1>6. CASE Erase
  BY <1>6 DEF Erase, Draft, DraftInv, IsDraft, Key, bounds, selection
<1>7. ASSUME NEW c \in Command, TypeCommand(c)
      PROVE  DraftInv'
  BY <1>7 DEF TypeCommand, Edit, Draft, DraftInv, IsDraft, Key, bounds, selection
<1>8. ASSUME NEW c \in Command, ApplySlashItem(c)
      PROVE  DraftInv'
  BY <1>8 DEF ApplySlashItem, DraftInv, IsDraft, Key, bounds, selection
<1>9. CASE CloseSlash
  BY <1>9 DEF CloseSlash, DraftInv, IsDraft, Key, bounds, selection
<1>10. ASSUME NEW image \in BOOLEAN, Prefill(image)
      PROVE  DraftInv'
  BY <1>10 DEF Prefill, Edit, Draft, DraftInv, IsDraft, Key, bounds, selection
<1>11. ASSUME NEW kind \in {"image", "document"}, NEW n \in 1..2, AddFiles(kind, n)
      PROVE  DraftInv'
  BY <1>11 DEF AddFiles, DraftInv, IsDraft, Key, bounds, selection
<1>12. CASE AddWorkspaceFile
  BY <1>12 DEF AddWorkspaceFile, DraftInv, IsDraft, Key, bounds, selection
<1>13. ASSUME NEW p \in content.images \union content.documents, RemoveAttachment(p)
      PROVE  DraftInv'
  BY <1>13 DEF RemoveAttachment, DraftInv, IsDraft, Key, bounds, selection
<1>14. CASE Submit \/ Resend \/ SubmitCommand \/ SubmitSteer \/ SubmitFollowUp
  BY <1>14 DEF Submit, Resend, SubmitCommand, SubmitSteer, SubmitFollowUp, DraftInv, IsDraft, selection
<1>15. CASE Creates \/ CreationFails
  BY <1>15 DEF Creates, CreationFails, DraftInv, IsDraft
<1>16. ASSUME NEW c \in Conversation, Deleted(c)
      PROVE  DraftInv'
  BY <1>16 DEF Deleted, WithoutDraft, Empty, DraftInv, IsDraft, selection
<1>17. ASSUME NEW k \in Key, ListMoves(k)
      PROVE  DraftInv'
  BY <1>17, ShowKeepsDrafts DEF ListMoves
<1>18. ASSUME NEW k \in Key, Select(k)
      PROVE  DraftInv'
  <2>1. CASE UNCHANGED <<key, content, store>>
    BY <2>1 DEF DraftInv, IsDraft
  <2>2. QED
    BY <1>18, <2>1, ShowKeepsDrafts DEF Select
<1>19. ASSUME NEW c \in Conversation, Created(c)
      PROVE  DraftInv'
  BY <1>19, ShowKeepsDrafts DEF Created, Key
<1>20. CASE Remount
  BY <1>20 DEF Remount, Move, WithDraft, WithoutDraft, Empty, DraftInv, IsDraft, Key, bounds, selection
<1>21. CASE RunChanges
  BY <1>21 DEF RunChanges, DraftInv, IsDraft, Key, bounds, selection
<1>22. ASSUME NEW p \in picks, FilesAreRead(p)
      PROVE  DraftInv'
  BY <1>22 DEF FilesAreRead, PreparedImages, PreparedDocuments, DraftInv, IsDraft, Key, bounds, selection
<1>23. ASSUME NEW s \in sends, NEW ok \in BOOLEAN, Returns(s, ok)
      PROVE  DraftInv'
  <2>1. key' = key
    BY <1>23 DEF Returns, selection
  <2>2. store' \in {store, WithoutDraft(store, s.key)}
    BY <1>23 DEF Returns
  <2>3. content' \in {content, Empty, [content EXCEPT !.text = {}, !.command = None]}
    BY <1>23 DEF Returns, Draft
  <2>4. IsDraft(content')
    <3>1. IsDraft(Empty) /\ IsDraft(content)
      BY DEF IsDraft, Empty, DraftInv
    <3>2. CASE content' = [content EXCEPT !.text = {}, !.command = None]
      BY <3>2 DEF IsDraft, DraftInv
    <3>3. QED
      BY <2>3, <3>1, <3>2
  <2>5. store' = [k \in Key |-> store'[k]] /\ \A k \in Key : store'[k] \in {store[k], Empty}
    BY <2>2 DEF DraftInv, WithoutDraft
  <2>6. \A k \in Key : IsDraft(store'[k])
    BY <2>5 DEF DraftInv, IsDraft, Empty
  <2>7. QED
    BY <2>1, <2>4, <2>5, <2>6 DEF DraftInv, IsDraft
<1>24. CASE UNCHANGED composerVars
  BY <1>24 DEF composerVars, DraftInv, IsDraft, Key, bounds, selection
<1>25. QED
  BY <1>1, <1>2, <1>3, <1>4, <1>5, <1>6, <1>7, <1>8, <1>9, <1>10, <1>11, <1>12, <1>13, <1>14, <1>15, <1>16, <1>17, <1>18, <1>19, <1>20, <1>21, <1>22, <1>23, <1>24 DEF ComposerNext, Reading, Writing, Moving, Answering, Suggest

(* No action brings a text under another key.                               *)
LEMMA TextStep ==
  ASSUME DraftInv, TextInv, [ComposerNext]_composerVars
  PROVE  TextInv'
<1>1. ASSUME NEW direction \in {"up", "down"}, NEW near \in BOOLEAN, Wheel(direction, near)
      PROVE  TextInv'
  BY <1>1 DEF Wheel, DraftInv, IsDraft, Key, TextInv, TextGoesWhereItWasTyped, bounds, selection
<1>2. ASSUME NEW settling \in BOOLEAN, NEW away \in BOOLEAN, NEW bottom \in BOOLEAN, Scrolled(settling, away, bottom)
      PROVE  TextInv'
  BY <1>2 DEF Scrolled, DraftInv, IsDraft, Key, TextInv, TextGoesWhereItWasTyped, bounds, selection
<1>3. CASE FeedGrows
  BY <1>3 DEF FeedGrows, DraftInv, IsDraft, Key, TextInv, TextGoesWhereItWasTyped, bounds, selection
<1>4. CASE ScrollToBottom
  BY <1>4 DEF ScrollToBottom, DraftInv, IsDraft, Key, TextInv, TextGoesWhereItWasTyped, bounds, selection
<1>5. CASE Type
  BY <1>5 DEF Type, Edit, Draft, DraftInv, IsDraft, Key, TextInv, TextGoesWhereItWasTyped, bounds, selection
<1>6. CASE Erase
  BY <1>6 DEF Erase, Draft, DraftInv, IsDraft, Key, TextInv, TextGoesWhereItWasTyped, bounds, selection
<1>7. ASSUME NEW c \in Command, TypeCommand(c)
      PROVE  TextInv'
  BY <1>7 DEF TypeCommand, Edit, Draft, DraftInv, IsDraft, Key, TextInv, TextGoesWhereItWasTyped, bounds, selection
<1>8. ASSUME NEW c \in Command, ApplySlashItem(c)
      PROVE  TextInv'
  BY <1>8 DEF ApplySlashItem, DraftInv, IsDraft, Key, TextInv, TextGoesWhereItWasTyped, bounds, selection
<1>9. CASE CloseSlash
  BY <1>9 DEF CloseSlash, DraftInv, IsDraft, Key, TextInv, TextGoesWhereItWasTyped, bounds, selection
<1>10. ASSUME NEW image \in BOOLEAN, Prefill(image)
      PROVE  TextInv'
  BY <1>10 DEF Prefill, Edit, Draft, DraftInv, IsDraft, Key, TextInv, TextGoesWhereItWasTyped, bounds, selection
<1>11. ASSUME NEW kind \in {"image", "document"}, NEW n \in 1..2, AddFiles(kind, n)
      PROVE  TextInv'
  BY <1>11 DEF AddFiles, DraftInv, IsDraft, Key, TextInv, TextGoesWhereItWasTyped, bounds, selection
<1>12. CASE AddWorkspaceFile
  BY <1>12 DEF AddWorkspaceFile, DraftInv, IsDraft, Key, TextInv, TextGoesWhereItWasTyped, bounds, selection
<1>13. ASSUME NEW p \in content.images \union content.documents, RemoveAttachment(p)
      PROVE  TextInv'
  BY <1>13 DEF RemoveAttachment, DraftInv, IsDraft, Key, TextInv, TextGoesWhereItWasTyped, bounds, selection
<1>14. CASE Submit \/ Resend \/ SubmitCommand
  <2>1. UNCHANGED <<key, content, store>>
    BY <1>14 DEF Submit, Resend, SubmitCommand, selection
  <2>2. \/ UNCHANGED sent
        \/ \E kind \in Messages : Sends(kind, key, content.text) \/ Sends(kind, key, {})
    BY <1>14 DEF Submit, Resend, SubmitCommand, Messages
  <2>3. QED
    BY <2>1, <2>2 DEF Sends, TextInv, TextGoesWhereItWasTyped
<1>15. CASE SubmitSteer \/ SubmitFollowUp
  <2>1. UNCHANGED <<key, content, store>>
    BY <1>15 DEF SubmitSteer, SubmitFollowUp, selection
  <2>2. \/ UNCHANGED sent
        \/ \E kind \in {"steer", "followUp"} : Sends(kind, Target, content.text)
    BY <1>15 DEF SubmitSteer, SubmitFollowUp, HandsOver
  <2>3. ASSUME NEW kind \in {"steer", "followUp"}, Sends(kind, Target, content.text)
        PROVE  TextGoesWhereItWasTyped'
    <3>1. /\ sent'.to = Target /\ sent'.text = content.text
          /\ sent'.astray = (kind \in {"steer", "followUp"} /\ Target # key)
      BY <2>3 DEF Sends
    <3>2. Target = key => sent'.text \subseteq {sent'.to}
      BY <3>1 DEF TextInv
    <3>3. QED
      BY <3>1, <3>2 DEF TextGoesWhereItWasTyped
  <2>4. QED
    BY <2>1, <2>2, <2>3 DEF TextInv, TextGoesWhereItWasTyped
<1>16. CASE Creates \/ CreationFails
  BY <1>16 DEF Creates, CreationFails, TextInv, TextGoesWhereItWasTyped, bounds
<1>17. ASSUME NEW c \in Conversation, Deleted(c)
      PROVE  TextInv'
  BY <1>17 DEF Deleted, WithoutDraft, Empty, DraftInv, TextInv, TextGoesWhereItWasTyped, selection
<1>18. ASSUME NEW k \in Key, ListMoves(k)
      PROVE  TextInv'
  <2>1. Show(k) /\ TextGoesWhereItWasTyped'
    BY <1>18 DEF ListMoves, TextInv, TextGoesWhereItWasTyped
  <2>2. QED
    BY <2>1, ShowKeepsTexts
<1>19. ASSUME NEW k \in Key, Select(k)
      PROVE  TextInv'
  <2>1. TextGoesWhereItWasTyped'
    BY <1>19 DEF Select, TextInv, TextGoesWhereItWasTyped
  <2>2. CASE UNCHANGED <<key, content, store>>
    BY <2>1, <2>2 DEF TextInv
  <2>3. QED
    BY <1>19, <2>1, <2>2, ShowKeepsTexts DEF Select
<1>20. ASSUME NEW c \in Conversation, Created(c)
      PROVE  TextInv'
  <2>1. c \in Key /\ Show(c) /\ TextGoesWhereItWasTyped'
    BY <1>20 DEF Created, Key, TextInv, TextGoesWhereItWasTyped
  <2>2. QED
    BY <2>1, ShowKeepsTexts
<1>21. CASE Remount
  BY <1>21 DEF Remount, Move, WithDraft, WithoutDraft, Empty, DraftInv, IsDraft, Key, TextInv, TextGoesWhereItWasTyped, bounds, selection
<1>22. CASE RunChanges
  BY <1>22 DEF RunChanges, DraftInv, IsDraft, Key, TextInv, TextGoesWhereItWasTyped, bounds, selection
<1>23. ASSUME NEW p \in picks, FilesAreRead(p)
      PROVE  TextInv'
  BY <1>23 DEF FilesAreRead, PreparedImages, PreparedDocuments, DraftInv, IsDraft, Key, TextInv, TextGoesWhereItWasTyped, bounds, selection
<1>24. ASSUME NEW s \in sends, NEW ok \in BOOLEAN, Returns(s, ok)
      PROVE  TextInv'
  <2>1. key' = key /\ sent' = sent
    BY <1>24 DEF Returns, selection
  <2>2. store' \in {store, WithoutDraft(store, s.key)}
    BY <1>24 DEF Returns
  <2>3. content' \in {content, Empty, [content EXCEPT !.text = {}, !.command = None]}
    BY <1>24 DEF Returns, Draft
  <2>4. content'.text \subseteq {key}
    <3>1. CASE content' = [content EXCEPT !.text = {}, !.command = None]
      BY <3>1 DEF IsDraft, DraftInv
    <3>2. Empty.text = {}
      BY DEF Empty
    <3>3. QED
      BY <2>3, <3>1, <3>2 DEF TextInv
  <2>5. \A k \in Key : store'[k].text \subseteq {k}
    BY <2>2 DEF TextInv, DraftInv, WithoutDraft, Empty
  <2>6. QED
    BY <2>1, <2>4, <2>5 DEF TextInv, TextGoesWhereItWasTyped
<1>25. CASE UNCHANGED composerVars
  BY <1>25 DEF composerVars, DraftInv, IsDraft, Key, TextInv, TextGoesWhereItWasTyped, bounds, selection
<1>26. QED
  BY <1>1, <1>2, <1>3, <1>4, <1>5, <1>6, <1>7, <1>8, <1>9, <1>10, <1>11, <1>12, <1>13, <1>14, <1>15, <1>16, <1>17, <1>18, <1>19, <1>20, <1>21, <1>22, <1>23, <1>24, <1>25 DEF ComposerNext, Reading, Writing, Moving, Answering, Suggest

(* A move changes no draft.                                                 *)
LEMMA MoveStep ==
  ASSUME NewDraft \notin Conversation,
         DraftInv, [ComposerNext]_composerVars, key' # key \/ moves' # moves
  PROVE  \A k \in Key : DraftOf(k)' = DraftOf(k)
<1>1. \/ \E k \in Key : k # key /\ Show(k)
      \/ UNCHANGED <<key, content, store>>
      \/ Remount
  BY DEF ComposerNext, Reading, Writing, Moving, Answering, Wheel, Scrolled, FeedGrows, ScrollToBottom,
         Type, Erase, TypeCommand, ApplySlashItem, CloseSlash, Suggest, Prefill, AddFiles,
         AddWorkspaceFile, RemoveAttachment, Submit, Resend, SubmitCommand, SubmitSteer,
         SubmitFollowUp, HandsOver, Select, ListMoves, Deleted, Creates, CreationFails, Created, RunChanges, FilesAreRead, Returns, Key, bounds, selection, composerVars
<1>2. CASE Remount
  <2>1. Blank(content) /\ content.images = {} /\ content.documents = {} => content = Empty
    BY DEF Blank, DraftInv, IsDraft, Empty
  <2>2. store' = [store EXCEPT ![key] = content]
    BY <1>2, <2>1 DEF Remount, WithDraft, WithoutDraft
  <2>3. key' = key /\ content' = store'[key]
    BY <1>2 DEF Remount, selection
  <2>4. QED
    BY <2>2, <2>3 DEF DraftInv, DraftOf
<1>3. CASE UNCHANGED <<key, content, store>>
  BY <1>3 DEF DraftOf
<1>4. QED
  BY <1>1, <1>2, <1>3, ShowKeepsDrafts

LEMMA DraftsAlways == ComposerSpec => []DraftInv
<1>1. ComposerInit => DraftInv
  BY DEF ComposerInit, DraftInv, IsDraft, Empty, Key
<1>2. DraftInv /\ [ComposerNext]_composerVars => DraftInv'
  BY DraftStep
<1>3. QED
  BY <1>1, <1>2, PTL DEF ComposerSpec

(***************************************************************************)
(* The theorems.                                                           *)
(***************************************************************************)

(* However sends return late, conversations are created and the selection   *)
(* moves, a text is only ever handed over under the key it was typed under, *)
(* but for steering and follow-ups while the ref lags behind the selection. *)
THEOREM TextsGoWhereTheyWereTyped == ComposerSpec => []TextGoesWhereItWasTyped
<1>1. ComposerInit => TextInv
  BY DEF ComposerInit, TextInv, TextGoesWhereItWasTyped, Empty
<1>2. DraftInv /\ TextInv /\ [ComposerNext]_composerVars => TextInv'
  BY TextStep
<1>3. TextInv => TextGoesWhereItWasTyped
  BY DEF TextInv
<1>4. QED
  BY <1>1, <1>2, <1>3, DraftsAlways, PTL DEF ComposerSpec

(* Selecting, creating a conversation and leaving the view change no draft  *)
(* of any conversation, neither text nor attachments: the key of the draft  *)
(* without a conversation is no id.                                         *)
THEOREM MovesKeepDrafts ==
  ASSUME NewDraft \notin Conversation
  PROVE  ComposerSpec => MovingKeepsDrafts
<1>1. DraftInv /\ [ComposerNext]_composerVars
        => [key' # key \/ moves' # moves => \A k \in Key : DraftOf(k)' = DraftOf(k)]_composerVars
  BY MoveStep
<1>2. QED
  BY <1>1, DraftsAlways, PTL DEF ComposerSpec, MovingKeepsDrafts

(***************************************************************************)
(* The types of the composer.  The room that is left for attachments is    *)
(* counted: the sets of pictures and of documents are finite.              *)
(***************************************************************************)
Finished == {c \in Content : IsFiniteSet(c.images) /\ IsFiniteSet(c.documents)}
SendKinds == {"send", "request", "command", "steer", "followUp"}
SendType == [kind : SendKinds, n : 1..MaxCalls, key : Key, made : BOOLEAN,
             mounted : BOOLEAN, clears : BOOLEAN]
PickType == [kind : {"image", "document"}, mounted : BOOLEAN, new : SUBSET Piece]
FeedType == [up : BOOLEAN, follow : BOOLEAN, button : BOOLEAN]

DraftTypes == content \in Finished /\ store \in [Key -> Finished]
CallTypes == /\ sends \subseteq SendType /\ picks \subseteq PickType
             /\ \A p \in picks : IsFiniteSet(p.new)
ComposerIs ==
  /\ key \in Key /\ ref \in Key /\ creating \in Nat /\ DraftTypes /\ CallTypes
  /\ running \in BOOLEAN /\ slash \in BOOLEAN /\ feed \in FeedType
  /\ pieces \in 0..MaxPieces /\ edits \in 0..MaxEdits /\ moves \in 0..MaxMoves

\* What the handlers make of a draft is one.
LEMMA DraftsAreDrafts ==
  /\ Empty \in Finished
  /\ \A c \in Finished, k \in Key :
       /\ [c EXCEPT !.text = @ \union {k}, !.command = None] \in Finished
       /\ [c EXCEPT !.text = {k}, !.command = None] \in Finished
  /\ \A c \in Finished, m \in Command \union {None} :
       [c EXCEPT !.text = {}, !.command = m] \in Finished
<1>1. IsFiniteSet({})
  BY FS_EmptySet
<1>2. Empty \in Finished
  BY <1>1 DEF Finished, Content, Empty
<1>3. ASSUME NEW c \in Finished, NEW k \in Key
      PROVE  /\ [c EXCEPT !.text = @ \union {k}, !.command = None] \in Finished
             /\ [c EXCEPT !.text = {k}, !.command = None] \in Finished
  BY DEF Finished, Content
<1>4. ASSUME NEW c \in Finished, NEW m \in Command \union {None}
      PROVE  [c EXCEPT !.text = {}, !.command = m] \in Finished
  BY DEF Finished, Content
<1>5. QED
  BY <1>2, <1>3, <1>4

LEMMA AttachmentsAreDrafts ==
  \A p : \A c \in Finished, new \in SUBSET Piece :
    /\ IsFiniteSet(new) => [c EXCEPT !.images = @ \union new] \in Finished
    /\ IsFiniteSet(new) => [c EXCEPT !.images = new] \in Finished
    /\ IsFiniteSet(new) => [c EXCEPT !.documents = @ \union new] \in Finished
    /\ [c EXCEPT !.images = @ \ {p}, !.documents = @ \ {p}] \in Finished
<1> SUFFICES ASSUME NEW c \in Finished, NEW new \in SUBSET Piece, NEW p
             PROVE  /\ IsFiniteSet(new) => [c EXCEPT !.images = @ \union new] \in Finished
                    /\ IsFiniteSet(new) => [c EXCEPT !.images = new] \in Finished
                    /\ IsFiniteSet(new) => [c EXCEPT !.documents = @ \union new] \in Finished
                    /\ [c EXCEPT !.images = @ \ {p}, !.documents = @ \ {p}] \in Finished
  OBVIOUS
<1>1. IsFiniteSet(c.images) /\ IsFiniteSet(c.documents)
  BY DEF Finished
<1>2. IsFiniteSet(new) => IsFiniteSet(c.images \union new) /\ IsFiniteSet(c.documents \union new)
  BY <1>1, FS_Union
<1>3. IsFiniteSet(c.images \ {p}) /\ IsFiniteSet(c.documents \ {p})
  BY <1>1, FS_Difference
<1>4. QED
  BY <1>1, <1>2, <1>3 DEF Finished, Content

LEMMA PicksArePicks ==
  ASSUME ComposerIs, NEW n \in Nat, pieces + n <= MaxPieces, NEW room \in Int,
         NEW new, new = {pieces + i : i \in 1 .. Least(n, room)}
  PROVE  IsFiniteSet(new) /\ new \subseteq Piece
<1>1. Least(n, room) \in Int /\ Least(n, room) <= n
  BY DEF Least
<1>2. IsFiniteSet(1 .. Least(n, room))
  BY <1>1, FS_Interval
<1>3. IsFiniteSet(new)
  <2>1. PICK f : f = [i \in 1 .. Least(n, room) |-> pieces + i]
    OBVIOUS
  <2>2. new = {f[i] : i \in 1 .. Least(n, room)} /\ f \in [1 .. Least(n, room) -> new]
    BY <2>1
  <2>3. f \in Surjection(1 .. Least(n, room), new)
    BY <2>2 DEF Surjection
  <2>4. QED
    BY <1>2, <2>3, FS_Surjection
<1>4. new \subseteq Piece
  BY <1>1, ComposerAssumption DEF ComposerIs, Piece
<1>5. QED
  BY <1>3, <1>4

LEMMA FollowingIs == Following \in FeedType
  BY DEF Following, FeedType

\* Another draft is shown.
LEMMA ShowIs ==
  ASSUME ComposerIs, NEW k \in Key, Show(k)
  PROVE  key' \in Key /\ DraftTypes' /\ slash' \in BOOLEAN /\ feed' \in FeedType
<1>1. DraftsAfter(k) \in [Key -> Finished]
  BY DraftsAreDrafts DEF DraftsAfter, WithDraft, WithoutDraft, ComposerIs, DraftTypes
<1>2. DraftsAfter(k)[k] \in Finished
  BY <1>1
<1>3. DraftTypes' /\ key' \in Key
  BY <1>1, <1>2 DEF Show, Draft, DraftTypes
<1>4. slash' \in BOOLEAN
  BY DEF Show, Draft, SlashFor, ComposerIs
<1>5. feed' \in FeedType
  BY FollowingIs DEF Show
<1>6. QED
  BY <1>3, <1>4, <1>5

\* A draft is written, and the menu of slash commands follows it.
LEMMA WriteIs ==
  ASSUME ComposerIs, NEW c \in Finished, Draft(c)
  PROVE  content' \in Finished /\ slash' \in BOOLEAN
  BY DEF Draft, SlashFor, ComposerIs

\* A pick of attachments begins.
LEMMA PickIs ==
  ASSUME ComposerIs, NEW kind \in {"image", "document"}, NEW new, new \subseteq Piece,
         IsFiniteSet(new), picks' = picks \union {[kind |-> kind, mounted |-> TRUE, new |-> new]}
  PROVE  picks' \subseteq PickType /\ \A p \in picks' : IsFiniteSet(p.new)
<1>1. PICK yes : yes = TRUE
  OBVIOUS
<1>2. PICK p : p = [kind |-> kind, mounted |-> yes, new |-> new]
  OBVIOUS
<1>3. p \in PickType /\ IsFiniteSet(p.new)
  BY <1>1, <1>2 DEF PickType
<1>4. picks' = picks \union {p}
  BY <1>1, <1>2
<1>5. QED
  BY <1>3, <1>4 DEF ComposerIs, CallTypes

LEMMA BeginsIs ==
  ASSUME ComposerIs, NEW kind \in SendKinds, NEW clears \in BOOLEAN, Begins(kind, clears)
  PROVE  sends' \subseteq SendType
<1>1. PICK n \in 1..MaxCalls : sends' = sends \union {[Sending(kind, n) EXCEPT !.clears = clears]}
  BY DEF Begins
<1>2. [Sending(kind, n) EXCEPT !.clears = clears] \in SendType
  BY DEF Sending, SendType, ComposerIs
<1>3. QED
  BY <1>1, <1>2 DEF ComposerIs, CallTypes

LEMMA ReadingIs == ComposerIs /\ Reading => ComposerIs'
<1> SUFFICES ASSUME ComposerIs, Reading PROVE ComposerIs'
  OBVIOUS
<1>1. UNCHANGED <<key, ref, creating, content, store, sends, picks, running, slash, sent, pieces, moves>>
  BY DEF Reading, Wheel, Scrolled, FeedGrows, ScrollToBottom, bounds, selection
<1>e. edits' \in 0..MaxEdits
  <2>1. edits' = edits \/ (edits < MaxEdits /\ edits' = edits + 1)
    BY DEF Reading, Wheel, Edit, Scrolled, FeedGrows, ScrollToBottom, bounds
  <2>2. QED
    BY <2>1, ComposerAssumption DEF ComposerIs
<1>2. feed' \in FeedType
  <2>1. feed \in FeedType /\ Following \in FeedType
    BY DEF ComposerIs, Following, FeedType
  <2>2. \A b \in BOOLEAN : [feed EXCEPT !.button = b] \in FeedType
                           /\ [feed EXCEPT !.follow = b] \in FeedType
    BY <2>1 DEF FeedType
  <2>3. ASSUME NEW d \in {"up", "down"}, NEW near \in BOOLEAN, Wheel(d, near)
        PROVE  feed' \in FeedType
    BY <2>1, <2>3 DEF Wheel, FeedType
  <2>4. ASSUME NEW settling \in BOOLEAN, NEW away \in BOOLEAN, NEW bottom \in BOOLEAN,
               Scrolled(settling, away, bottom)
        PROVE  feed' \in FeedType
    <3>1. (IF feed.follow THEN FALSE ELSE away) \in BOOLEAN
      OBVIOUS
    <3>2. QED
      BY <2>1, <2>2, <2>4, <3>1 DEF Scrolled
  <2>5. CASE FeedGrows \/ ScrollToBottom
    BY <2>1, <2>2, <2>5 DEF FeedGrows, ScrollToBottom
  <2>6. QED
    BY <2>3, <2>4, <2>5 DEF Reading
<1>3. QED
  BY <1>1, <1>e, <1>2 DEF ComposerIs, DraftTypes, CallTypes

LEMMA WritingIs == ComposerIs /\ Writing => ComposerIs'
<1> SUFFICES ASSUME ComposerIs, Writing PROVE ComposerIs'
  OBVIOUS
<1>0. content \in Finished /\ key \in Key /\ store \in [Key -> Finished]
  BY DEF ComposerIs, DraftTypes
<1>1. CASE Type
  <2>1. content' \in Finished /\ slash' \in BOOLEAN
    BY <1>0, <1>1, DraftsAreDrafts, WriteIs DEF Type
  <2>2. QED
    BY <1>1, <2>1, ComposerAssumption DEF Type, Edit, selection, ComposerIs, DraftTypes, CallTypes
<1>2. ASSUME NEW c \in Command, TypeCommand(c) PROVE ComposerIs'
  <2>1. content' \in Finished /\ slash' \in BOOLEAN
    BY <1>0, <1>2, DraftsAreDrafts, WriteIs DEF TypeCommand
  <2>2. QED
    BY <1>2, <2>1, ComposerAssumption DEF TypeCommand, Edit, selection, ComposerIs, DraftTypes, CallTypes
<1>3. CASE Erase
  <2>1. content' \in Finished /\ slash' \in BOOLEAN
    BY <1>0, <1>3, DraftsAreDrafts, WriteIs DEF Erase
  <2>2. QED
    BY <1>3, <2>1 DEF Erase, bounds, selection, ComposerIs, DraftTypes, CallTypes
<1>4. ASSUME NEW image \in BOOLEAN, Prefill(image) PROVE ComposerIs'
  <2>1. pieces' \in 0..MaxPieces
    BY <1>4, ComposerAssumption DEF Prefill, ComposerIs
  <2>2. PICK c : c = [content EXCEPT !.text = {key}, !.command = None]
    OBVIOUS
  <2>3. c \in Finished
    BY <1>0, <2>2, DraftsAreDrafts
  <2>4. PICK new : new = {pieces + 1}
    OBVIOUS
  <2>5. IsFiniteSet(new)
    BY <2>4, FS_Singleton
  <2>6. image => new \subseteq Piece
    BY <1>0, <1>4, <2>4, ComposerAssumption DEF Prefill, ComposerIs, Piece
  <2>7. image => Draft([c EXCEPT !.images = new])
    BY <1>4, <2>2, <2>4 DEF Prefill
  <2>8. ~image => Draft(c)
    <3>1. ~image => Draft([c EXCEPT !.images = @])
      BY <1>4, <2>2 DEF Prefill
    <3>2. [c EXCEPT !.images = @] = c
      BY <2>3 DEF Finished, Content
    <3>3. QED
      BY <3>1, <3>2
  <2>9. content' \in Finished /\ slash' \in BOOLEAN
    <3>1. image => [c EXCEPT !.images = new] \in Finished
      BY <2>3, <2>5, <2>6, AttachmentsAreDrafts
    <3>2. QED
      BY <2>3, <2>7, <2>8, <3>1, WriteIs
  <2>10. QED
    BY <1>4, <2>1, <2>9, ComposerAssumption
       DEF Prefill, Edit, selection, ComposerIs, DraftTypes, CallTypes
<1>5. ASSUME NEW c \in Command, ApplySlashItem(c) PROVE ComposerIs'
  <2>1. content' \in Finished
    BY <1>0, <1>5, DraftsAreDrafts DEF ApplySlashItem
  <2>2. QED
    BY <1>5, <2>1 DEF ApplySlashItem, bounds, selection, ComposerIs, DraftTypes, CallTypes
<1>6. CASE CloseSlash
  BY <1>6 DEF CloseSlash, bounds, selection, ComposerIs, DraftTypes, CallTypes
<1>7. ASSUME NEW kind \in {"image", "document"}, NEW n \in 1..2, AddFiles(kind, n)
      PROVE  ComposerIs'
  <2> DEFINE there == IF kind = "image" THEN content.images ELSE content.documents
  <2>1. MaxAttachments - Cardinality(there) \in Int
    BY <1>0, FS_CardinalityType, ComposerAssumption DEF Finished
  <2>2. PICK new : new = {pieces + i : i \in 1 .. Least(n, MaxAttachments - Cardinality(there))}
    OBVIOUS
  <2>3. IsFiniteSet(new) /\ new \subseteq Piece
    <3>1. pieces + n <= MaxPieces /\ n \in Nat
      BY <1>7 DEF AddFiles
    <3>2. QED
      BY <2>1, <2>2, <3>1, PicksArePicks
  <2>4. picks' = picks \union {[kind |-> kind, mounted |-> TRUE, new |-> new]}
    BY <1>7, <2>2 DEF AddFiles
  <2>5. picks' \subseteq PickType /\ \A p \in picks' : IsFiniteSet(p.new)
    BY <2>3, <2>4, PickIs
  <2>6. pieces' \in 0..MaxPieces
    BY <1>7, ComposerAssumption DEF AddFiles, ComposerIs
  <2>7. QED
    BY <1>7, <2>5, <2>6 DEF AddFiles, selection, ComposerIs, DraftTypes, CallTypes
<1>8. CASE AddWorkspaceFile
  <2>1. PICK new : new = {pieces + 1}
    OBVIOUS
  <2>2. IsFiniteSet(new)
    BY <2>1, FS_Singleton
  <2>3. new \subseteq Piece
    BY <1>0, <1>8, <2>1, ComposerAssumption DEF AddWorkspaceFile, ComposerIs, Piece
  <2>4. picks' = picks \union {[kind |-> "document", mounted |-> TRUE, new |-> new]}
    BY <1>8, <2>1 DEF AddWorkspaceFile
  <2>5. picks' \subseteq PickType /\ \A p \in picks' : IsFiniteSet(p.new)
    BY <2>2, <2>3, <2>4, PickIs
  <2>6. pieces' \in 0..MaxPieces
    BY <1>8, ComposerAssumption DEF AddWorkspaceFile, ComposerIs
  <2>7. QED
    BY <1>8, <2>5, <2>6 DEF AddWorkspaceFile, selection, ComposerIs, DraftTypes, CallTypes
<1>9. ASSUME NEW p \in content.images \union content.documents, RemoveAttachment(p)
      PROVE  ComposerIs'
  <2>1. content' \in Finished
    BY <1>0, <1>9, AttachmentsAreDrafts DEF RemoveAttachment
  <2>2. QED
    BY <1>9, <2>1 DEF RemoveAttachment, bounds, selection, ComposerIs, DraftTypes, CallTypes
<1>10. CASE Submit \/ Resend \/ SubmitSteer \/ SubmitFollowUp
  <2>1. sends' \subseteq SendType
    <3>1. \E kind \in SendKinds, clears \in BOOLEAN : Begins(kind, clears)
      BY <1>10 DEF Submit, Resend, SubmitSteer, SubmitFollowUp, HandsOver, SendKinds
    <3>2. QED
      BY <3>1, BeginsIs
  <2>2. feed' \in FeedType
    BY <1>10, FollowingIs DEF Submit, Resend, SubmitSteer, SubmitFollowUp, ComposerIs
  <2>3. UNCHANGED <<key, ref, creating, content, store, picks, slash, pieces, edits, moves>>
    BY <1>10 DEF Submit, Resend, SubmitSteer, SubmitFollowUp, bounds, selection
  <2>4. running' \in BOOLEAN
    BY <1>10 DEF Submit, Resend, SubmitSteer, SubmitFollowUp, ComposerIs
  <2>5. QED
    BY <2>1, <2>2, <2>3, <2>4 DEF ComposerIs, DraftTypes, CallTypes
<1>11. CASE SubmitCommand
  <2>1. sends' \subseteq SendType
    <3>1. \E kind \in SendKinds, clears \in BOOLEAN : Begins(kind, clears)
      BY <1>11 DEF SubmitCommand, SendKinds
    <3>2. QED
      BY <3>1, BeginsIs
  <2>2. creating' \in Nat /\ running' \in BOOLEAN
    <3>1. creating' \in {creating, creating + 1} /\ running' \in {running, TRUE}
      BY <1>11 DEF SubmitCommand
    <3>2. creating \in Nat /\ running \in BOOLEAN
      BY DEF ComposerIs
    <3>3. creating' \in Nat
      BY <3>1, <3>2
    <3>4. running' \in BOOLEAN
      BY <3>1, <3>2
    <3>5. QED
      BY <3>3, <3>4
  <2>3. UNCHANGED <<key, ref, content, store, picks, slash, feed, pieces, edits, moves>>
    BY <1>11 DEF SubmitCommand, bounds
  <2>4. QED
    BY <2>1, <2>2, <2>3 DEF ComposerIs, DraftTypes, CallTypes
<1>12. QED
  BY <1>1, <1>2, <1>3, <1>4, <1>5, <1>6, <1>7, <1>8, <1>9, <1>10, <1>11 DEF Writing, Suggest

LEMMA MovingIs == ComposerIs /\ Moving => ComposerIs'
<1> SUFFICES ASSUME ComposerIs, Moving PROVE ComposerIs'
  OBVIOUS
<1>0. content \in Finished /\ key \in Key /\ store \in [Key -> Finished]
  BY DEF ComposerIs, DraftTypes
<1>1. ASSUME NEW k \in Key, Select(k) \/ ListMoves(k) PROVE ComposerIs'
  <2>1. Show(k) \/ UNCHANGED <<key, content, store, slash, feed>>
    BY <1>1 DEF Select, ListMoves
  <2>2. key' \in Key /\ DraftTypes' /\ slash' \in BOOLEAN /\ feed' \in FeedType
    BY <2>1, ShowIs DEF ComposerIs, DraftTypes
  <2>3. ref' \in Key /\ moves' \in 0..MaxMoves /\ running' \in BOOLEAN
    BY <1>1, ComposerAssumption DEF Select, ListMoves, Move, ComposerIs
  <2>4. UNCHANGED <<sends, picks, creating, pieces, edits>>
    BY <1>1 DEF Select, ListMoves
  <2>5. QED
    BY <2>2, <2>3, <2>4 DEF ComposerIs, CallTypes
<1>2. ASSUME NEW c \in Conversation, Created(c) PROVE ComposerIs'
  <2>1. key' \in Key /\ DraftTypes' /\ slash' \in BOOLEAN /\ feed' \in FeedType
    BY <1>2, ShowIs DEF Created, Key
  <2>2. sends' \subseteq SendType
    <3>1. CASE UNCHANGED sends
      BY <3>1 DEF ComposerIs, CallTypes
    <3>2. CASE \E s \in sends : sends' = (sends \ {s}) \union {[s EXCEPT !.made = TRUE]}
      BY <3>2 DEF ComposerIs, CallTypes, SendType
    <3>3. QED
      BY <1>2, <3>1, <3>2 DEF Created
  <2>3. creating' \in Nat /\ ref' \in Key /\ running' \in BOOLEAN
    BY <1>2 DEF Created, Key, ComposerIs
  <2>4. QED
    BY <1>2, <2>1, <2>2, <2>3 DEF Created, bounds, ComposerIs, CallTypes
<1>5. CASE Creates
  BY <1>5, ComposerAssumption DEF Creates, Move, ComposerIs, DraftTypes, CallTypes
<1>6. ASSUME NEW c \in Conversation, Deleted(c) PROVE ComposerIs'
  <2>1. store' \in [Key -> Finished]
    BY <1>0, <1>6, DraftsAreDrafts DEF Deleted, WithoutDraft
  <2>2. QED
    BY <1>6, <2>1 DEF Deleted, bounds, selection, ComposerIs, DraftTypes, CallTypes
<1>3. CASE Remount
  <2>1. store' \in [Key -> Finished]
    BY <1>0, <1>3, DraftsAreDrafts DEF Remount, WithDraft, WithoutDraft
  <2>2. content' \in Finished
    BY <1>0, <1>3, <2>1 DEF Remount
  <2>3. slash' \in BOOLEAN /\ feed' \in FeedType
    BY <1>3 DEF Remount, SlashFor, Following, FeedType
  <2>4. sends' \subseteq SendType
    <3>1. \A s \in SendType : [s EXCEPT !.mounted = FALSE] \in SendType
      BY DEF SendType
    <3>2. QED
      BY <1>3, <3>1 DEF Remount, ComposerIs, CallTypes
  <2>5. picks' \subseteq PickType /\ \A p \in picks' : IsFiniteSet(p.new)
    <3>1. \A p \in PickType : /\ [p EXCEPT !.mounted = FALSE] \in PickType
                              /\ [p EXCEPT !.mounted = FALSE].new = p.new
      BY DEF PickType
    <3>2. QED
      BY <1>3, <3>1 DEF Remount, ComposerIs, CallTypes
  <2>6. QED
    BY <1>3, <2>1, <2>2, <2>3, <2>4, <2>5, ComposerAssumption
       DEF Remount, Move, selection, ComposerIs, DraftTypes, CallTypes
<1>4. CASE RunChanges
  BY <1>4 DEF RunChanges, bounds, selection, ComposerIs, DraftTypes, CallTypes
<1>7. QED
  BY <1>1, <1>2, <1>3, <1>4, <1>5, <1>6 DEF Moving

LEMMA AnsweringIs == ComposerIs /\ Answering => ComposerIs'
<1> SUFFICES ASSUME ComposerIs, Answering PROVE ComposerIs'
  OBVIOUS
<1>0. content \in Finished /\ key \in Key /\ store \in [Key -> Finished]
  BY DEF ComposerIs, DraftTypes
<1>1. ASSUME NEW p \in picks, FilesAreRead(p) PROVE ComposerIs'
  <2>1. \A new \in {p.new, {}} : new \in SUBSET Piece /\ IsFiniteSet(new)
    BY FS_EmptySet DEF ComposerIs, CallTypes, PickType
  <2>2. content' \in Finished
    BY <1>0, <1>1, <2>1, AttachmentsAreDrafts DEF FilesAreRead, PreparedImages, PreparedDocuments
  <2>3. QED
    BY <1>1, <2>2 DEF FilesAreRead, bounds, selection, ComposerIs, DraftTypes, CallTypes
<1>2. ASSUME NEW s \in sends, NEW ok \in BOOLEAN, Returns(s, ok) PROVE ComposerIs'
  <2>1. store' \in [Key -> Finished]
    BY <1>0, <1>2, DraftsAreDrafts DEF Returns, WithoutDraft
  <2>2. content' \in Finished /\ slash' \in BOOLEAN
    <3>1. \/ UNCHANGED <<content, slash>>
          \/ Draft([content EXCEPT !.text = {}, !.command = None])
          \/ Draft(Empty)
      BY <1>2 DEF Returns
    <3>2. [content EXCEPT !.text = {}, !.command = None] \in Finished /\ Empty \in Finished
      BY <1>0, DraftsAreDrafts
    <3>3. QED
      BY <1>0, <3>1, <3>2, WriteIs DEF ComposerIs
  <2>3. sends' \subseteq SendType /\ running' \in BOOLEAN
    BY <1>2 DEF Returns, ComposerIs, CallTypes
  <2>4. QED
    BY <1>2, <2>1, <2>2, <2>3 DEF Returns, bounds, selection, ComposerIs, DraftTypes, CallTypes
<1>3. CASE CreationFails
  BY <1>3 DEF CreationFails, bounds, ComposerIs, DraftTypes, CallTypes
<1>4. QED
  BY <1>1, <1>2, <1>3 DEF Answering

(* The composer keeps its types: drafts, handlers under way, the feed.      *)
THEOREM ComposerTypeCorrect == ComposerSpec => []ComposerTypeOK
<1>1. ComposerInit => ComposerIs
  <2>1. Empty \in Finished
    BY DraftsAreDrafts
  <2>2. ComposerInit => running \in BOOLEAN /\ slash \in BOOLEAN /\ feed \in FeedType
    BY FollowingIs DEF ComposerInit
  <2>3. ComposerInit => pieces \in 0..MaxPieces /\ edits \in 0..MaxEdits /\ moves \in 0..MaxMoves
    BY ComposerAssumption DEF ComposerInit
  <2>4. ComposerInit => key \in Key /\ ref \in Key /\ creating \in Nat /\ DraftTypes /\ CallTypes
    BY <2>1 DEF ComposerInit, DraftTypes, CallTypes, Key
  <2>5. QED
    BY <2>2, <2>3, <2>4 DEF ComposerIs
<1>2. ComposerIs /\ [ComposerNext]_composerVars => ComposerIs'
  <2>1. ComposerIs /\ UNCHANGED composerVars => ComposerIs'
    BY DEF composerVars, ComposerIs, DraftTypes, CallTypes
  <2>2. QED
    BY <2>1, ReadingIs, WritingIs, MovingIs, AnsweringIs DEF ComposerNext
<1>3. ComposerIs => ComposerTypeOK
  BY DEF ComposerIs, DraftTypes, CallTypes, Finished, SendType, SendKinds, PickType, FeedType, ComposerTypeOK
<1>4. QED
  BY <1>1, <1>2, <1>3, PTL DEF ComposerSpec

(***************************************************************************)
(* Calls, and what the operators of Panel do with them.                    *)
(***************************************************************************)
IsCall(c) ==
  c = [kind |-> c.kind, op |-> c.op, arg |-> c.arg, alone |-> c.alone,
       parts |-> c.parts, at |-> c.at, got |-> c.got]

Proper(c) ==
  /\ IsCall(c)
  /\ c.kind \in {"load", "act", "detail"}
  /\ c.alone \subseteq c.parts
  /\ c.at \in {"sent", "served", "failed"}

\* d is c, but for the parts that others touch as well.
Twin(c, d) ==
  /\ c.kind = d.kind /\ c.op = d.op /\ c.arg = d.arg
  /\ c.parts = d.parts /\ c.at = d.at /\ c.got = d.got

\* c, once it was carried out or failed.
Marked(c, at, got) ==
  [kind |-> c.kind, op |-> c.op, arg |-> c.arg, alone |-> c.alone,
   parts |-> c.parts, at |-> at, got |-> got]

AllProper(S) == \A c \in S : Proper(c)
Has(S, op) == \E c \in S : c.op = op

\* The calls under way, once c was carried out or failed.
Answered(c, at, got) == (calls \ {c}) \union {Marked(c, at, got)}

\* The calls under way become those of S, but for the parts that others touch.
Follows(S) ==
  /\ \A e \in calls' : Proper(e) /\ \E c \in S : Twin(e, c)
  /\ \A c \in S : \E e \in calls' : Twin(e, c)

Base(most) == AllProper(calls) /\ clicks \in 0..most

\* What a step does, as far as the properties here are concerned.
Moves(u, S, most) ==
  /\ ui' = u /\ Follows(S)
  /\ clicks' = clicks \/ (clicks < most /\ clicks' = clicks + 1)

LEMMA WithAlone ==
  ASSUME NEW c, IsCall(c), NEW x
  PROVE  [c EXCEPT !.alone = x] =
           [kind |-> c.kind, op |-> c.op, arg |-> c.arg, alone |-> x,
            parts |-> c.parts, at |-> c.at, got |-> c.got]
  BY DEF IsCall

LEMMA Less ==
  ASSUME NEW c, NEW parts, Proper(c)
  PROVE  Proper([c EXCEPT !.alone = @ \ parts]) /\ Twin([c EXCEPT !.alone = @ \ parts], c)
<1>1. PICK x : x = c.alone \ parts
  OBVIOUS
<1>2. Proper([kind |-> c.kind, op |-> c.op, arg |-> c.arg, alone |-> x,
              parts |-> c.parts, at |-> c.at, got |-> c.got])
  BY <1>1 DEF Proper, IsCall
<1>3. [c EXCEPT !.alone = @ \ parts] = [c EXCEPT !.alone = x]
  BY <1>1
<1>4. QED
  BY <1>2, <1>3, WithAlone DEF Proper, Twin

LEMMA DisturbedFollows ==
  ASSUME NEW S, NEW parts, AllProper(S), calls' = P!Disturbed(S, parts)
  PROVE  Follows(S)
<1> DEFINE less(c) == [c EXCEPT !.alone = @ \ parts]
<1>1. \A c \in S : Proper(less(c)) /\ Twin(less(c), c)
  BY Less DEF AllProper
<1>2. calls' = {less(c) : c \in S}
  BY DEF P!Disturbed
<1> HIDE DEF less
<1>3. QED
  BY <1>1, <1>2 DEF Follows

LEMMA JoinedFollows ==
  ASSUME NEW old, NEW new, AllProper(old), AllProper(new),
         calls' = P!Joined(old, new)
  PROVE  Follows(old \union new)
<1>1. calls' = P!Disturbed(old \union new, P!Clash(old, new))
  BY DEF P!Joined
<1>2. AllProper(old \union new)
  BY DEF AllProper
<1>3. QED
  BY <1>1, <1>2, DisturbedFollows

LEMMA SameFollows ==
  ASSUME AllProper(calls), calls' = calls
  PROVE  Follows(calls)
  BY DEF Follows, Twin, AllProper

LEMMA MarkedFollows ==
  ASSUME NEW c \in calls, NEW S, S = calls, AllProper(calls),
         NEW at \in {"served", "failed"}, NEW got,
         calls' = (calls \ {c}) \union {Marked(c, at, got)}
  PROVE  Follows((calls \ {c}) \union {Marked(c, at, got)})
<1>1. Proper(Marked(c, at, got))
  BY DEF Marked, Proper, IsCall, AllProper
<1>2. QED
  BY <1>1 DEF Follows, Twin, AllProper

LEMMA Marking ==
  ASSUME NEW c, Proper(c), NEW got
  PROVE  /\ [c EXCEPT !.at = "served", !.got = got] = Marked(c, "served", got)
         /\ [c EXCEPT !.at = "failed"] = Marked(c, "failed", c.got)
<1> DEFINE d == [c EXCEPT !.at = "served"]
<1>1. d = [kind |-> c.kind, op |-> c.op, arg |-> c.arg, alone |-> c.alone,
           parts |-> c.parts, at |-> "served", got |-> c.got]
  BY DEF Proper, IsCall
<1> HIDE DEF d
<1>2. [d EXCEPT !.got = got] = Marked(c, "served", got)
  BY <1>1 DEF Marked
<1>3. [c EXCEPT !.at = "failed"] = Marked(c, "failed", c.got)
  BY DEF Proper, IsCall, Marked
<1>4. [c EXCEPT !.at = "served", !.got = got] = [d EXCEPT !.got = got]
  BY DEF d
<1>5. QED
  BY <1>2, <1>3, <1>4

LEMMA TurnMoves ==
  ASSUME NEW most, Base(most), NEW u, NEW new, NEW gone, AllProper(new),
         clicks < most, clicks' = clicks + 1, ui' = u, calls' = P!Joined(calls \ gone, new)
  PROVE  Moves(u, (calls \ gone) \union new, most)
<1>1. AllProper(calls \ gone)
  BY DEF Base, AllProper
<1>2. QED
  BY <1>1, JoinedFollows DEF Moves

LEMMA GoMoves ==
  ASSUME NEW most, Base(most), NEW u, NEW new, NEW gone, AllProper(new),
         clicks' = clicks, ui' = u, calls' = P!Joined(calls \ gone, new)
  PROVE  Moves(u, (calls \ gone) \union new, most)
<1>1. AllProper(calls \ gone)
  BY DEF Base, AllProper
<1>2. QED
  BY <1>1, JoinedFollows DEF Moves

LEMMA ChangeMoves ==
  ASSUME NEW most, Base(most), NEW parts, clicks < most, clicks' = clicks + 1, ui' = ui,
         calls' = P!Disturbed(calls, parts)
  PROVE  Moves(ui, calls, most)
  BY DisturbedFollows DEF Moves, Base

LEMMA ShowMoves ==
  ASSUME NEW most, Base(most), NEW u, clicks' = clicks, ui' = u, calls' = calls
  PROVE  Moves(u, calls, most)
  BY SameFollows DEF Moves, Base

LEMMA ServeMoves ==
  ASSUME NEW most, Base(most), NEW c \in calls, NEW got, clicks' = clicks, ui' = ui,
         calls' = (calls \ {c}) \union {[c EXCEPT !.at = "served", !.got = got]}
  PROVE  Moves(ui, Answered(c, "served", got), most)
<1>1. Proper(c)
  BY DEF Base, AllProper
<1>2. calls' = (calls \ {c}) \union {Marked(c, "served", got)}
  BY <1>1, Marking
<1>3. QED
  BY <1>2, MarkedFollows DEF Moves, Base, Answered

LEMMA FailMoves ==
  ASSUME NEW most, Base(most), NEW c \in calls, clicks' = clicks, ui' = ui,
         calls' = (calls \ {c}) \union {[c EXCEPT !.at = "failed"]}
  PROVE  Moves(ui, Answered(c, "failed", c.got), most)
<1>1. Proper(c)
  BY DEF Base, AllProper
<1>2. calls' = (calls \ {c}) \union {Marked(c, "failed", c.got)}
  BY <1>1, Marking
<1>3. QED
  BY <1>2, MarkedFollows DEF Moves, Base, Answered

LEMMA AnsweredHas ==
  \A c, at, got, op : c \in calls => (Has(Answered(c, at, got), op) <=> Has(calls, op))
<1>1. \A c, at, got : Marked(c, at, got).op = c.op
  BY DEF Marked
<1>2. QED
  BY <1>1 DEF Has, Answered

\* What is answered is what was asked.
LEMMA AnsweredAre ==
  \A c, at, got : c \in calls =>
    /\ \A e \in Answered(c, at, got) :
         \/ e \in calls
         \/ /\ e.kind = c.kind /\ e.op = c.op /\ e.arg = c.arg /\ e.parts = c.parts
            /\ e.at = at /\ e.got = got
    /\ \A d \in calls : \E e \in Answered(c, at, got) :
         e.kind = d.kind /\ e.op = d.op /\ e.arg = d.arg /\ e.parts = d.parts
<1> SUFFICES ASSUME NEW c, NEW at, NEW got, c \in calls
             PROVE  /\ \A e \in Answered(c, at, got) :
                         \/ e \in calls
                         \/ /\ e.kind = c.kind /\ e.op = c.op /\ e.arg = c.arg /\ e.parts = c.parts
                            /\ e.at = at /\ e.got = got
                    /\ \A d \in calls : \E e \in Answered(c, at, got) :
                         e.kind = d.kind /\ e.op = d.op /\ e.arg = d.arg /\ e.parts = d.parts
  OBVIOUS
<1>1. PICK m : m = Marked(c, at, got)
  OBVIOUS
<1>2. /\ m.kind = c.kind /\ m.op = c.op /\ m.arg = c.arg /\ m.parts = c.parts
      /\ m.at = at /\ m.got = got
  BY <1>1 DEF Marked
<1>3. Answered(c, at, got) = (calls \ {c}) \union {m}
  BY <1>1 DEF Answered
<1>4. QED
  BY <1>2, <1>3

\* A call that is sent now.
Fresh(c, kind, op, arg) ==
  Proper(c) /\ c.kind = kind /\ c.op = op /\ c.arg = arg /\ c.at = "sent"

LEMMA AllPropers ==
  /\ AllProper({})
  /\ \A c : Proper(c) => AllProper({c})
  /\ \A c, d : Proper(c) /\ Proper(d) => AllProper({c, d})
  BY DEF AllProper

\* An event is a call that was never sent.
LEMMA Arriving ==
  ASSUME NEW c, Proper(c)
  PROVE  /\ Proper([c EXCEPT !.at = "served"])
         /\ [c EXCEPT !.at = "served"].kind = c.kind
         /\ [c EXCEPT !.at = "served"].op = c.op /\ [c EXCEPT !.at = "served"].arg = c.arg
  BY DEF Proper, IsCall

\* The calls of S and those of T ask for the same.
Same(c, d) == c.kind = d.kind /\ c.op = d.op /\ c.arg = d.arg /\ c.parts = d.parts
Alike(S, T) ==
  /\ \A e \in T : \E c \in S : Same(c, e)
  /\ \A c \in S : \E e \in T : Same(c, e)

LEMMA FollowsAlike == ASSUME NEW S, Follows(S) PROVE Alike(S, calls')
  BY DEF Follows, Twin, Alike, Same

LEMMA AnsweredAlike == \A c, at, got : c \in calls => Alike(calls, Answered(c, at, got))
<1> SUFFICES ASSUME NEW c, NEW at, NEW got, c \in calls PROVE Alike(calls, Answered(c, at, got))
  OBVIOUS
<1>1. PICK m : m = Marked(c, at, got)
  OBVIOUS
<1>2. Same(c, m) /\ \A d : Same(d, d)
  BY <1>1 DEF Marked, Same
<1>3. Answered(c, at, got) = (calls \ {c}) \union {m}
  BY <1>1 DEF Answered
<1>4. QED
  BY <1>2, <1>3 DEF Alike

(***************************************************************************)
(* The git panel.                                                          *)
(***************************************************************************)
(* The markers of the git panel, and the difference it shows.               *)
GitOf(u, S) ==
  /\ DOMAIN u = {"status", "selected", "diff", "branches", "resolving", "busy"}
  /\ u.busy \subseteq {"status", "diff", "commit", "sync"}
  /\ u.selected # None => u.status # None /\ u.selected \in Git!Listed(u.status.files)
  /\ \A c \in S : c.op = "git_diff" => c.arg = u.selected /\ (c.at = "served" => c.got.entry = c.arg)
  /\ u.diff # None /\ "diff" \notin u.busy => u.diff.entry = u.selected
  /\ u.selected # None /\ "diff" \in u.busy => Has(S, "git_diff")
  /\ "status" \in u.busy => Has(S, "git_status")
  /\ "commit" \in u.busy => Has(S, "git_commit")
  /\ "sync" \in u.busy => Has(S, "git_sync")
  /\ u.resolving # None => Has(S, "git_resolve_conflict")

GitInv == Base(ClicksOf["git"]) /\ GitOf(ui, calls)

LEMMA GitKeeps ==
  ASSUME GitInv, NEW u, NEW S, Moves(u, S, ClicksOf["git"]), GitOf(u, S)
  PROVE  GitInv'
<1>1. GitOf(u, calls') /\ ui' = u
  BY DEF GitOf, Moves, Follows, Twin, Has
<1>2. Base(ClicksOf["git"])'
  BY LimitsAssumption DEF Moves, Follows, Base, AllProper, Panels, GitInv
<1>3. QED
  BY <1>1, <1>2 DEF GitInv

LEMMA GitTurns ==
  ASSUME GitInv, NEW u, NEW new, NEW gone, Git!Turns(u, new, gone), AllProper(new), GitOf(u, (calls \ gone) \union new)
  PROVE  GitInv'
<1>1. Moves(u, (calls \ gone) \union new, ClicksOf["git"])
  BY TurnMoves DEF GitInv, Git!Turns, Git!Joined, P!Joined, Git!Disturbed, P!Disturbed, Git!Clash, P!Clash, Git!Touched, P!Touched
<1>2. QED
  BY <1>1, GitKeeps

LEMMA GitClicks ==
  ASSUME GitInv, NEW u, NEW new, Git!Clicks(u, new), AllProper(new), GitOf(u, calls \union new)
  PROVE  GitInv'
<1>1. Git!Turns(u, new, {}) /\ (calls \ {}) \union new = calls \union new
  BY DEF Git!Clicks
<1>2. QED
  BY <1>1, GitTurns

LEMMA GitShows ==
  ASSUME GitInv, NEW u, Git!Shows(u), GitOf(u, calls)
  PROVE  GitInv'
<1>1. Moves(u, calls, ClicksOf["git"])
  BY ShowMoves DEF GitInv, Git!Shows
<1>2. QED
  BY <1>1, GitKeeps

LEMMA GitChanges ==
  ASSUME GitInv, NEW parts, NEW s, Git!ChangedElsewhere(parts, s)
  PROVE  GitInv'
<1>1. Moves(ui, calls, ClicksOf["git"])
  BY ChangeMoves DEF GitInv, Git!ChangedElsewhere, Git!Disturbed, P!Disturbed
<1>2. QED
  BY <1>1, GitKeeps DEF GitInv

LEMMA GitServes ==
  ASSUME GitInv, NEW c, NEW s, NEW got, Git!Serves(c, s, got), GitOf(ui, Answered(c, "served", got))
  PROVE  GitInv'
<1>1. Moves(ui, Answered(c, "served", got), ClicksOf["git"])
  BY ServeMoves DEF GitInv, Git!Serves
<1>2. QED
  BY <1>1, GitKeeps

LEMMA GitFails ==
  ASSUME GitInv, NEW c, Git!Fails(c), GitOf(ui, Answered(c, "failed", c.got))
  PROVE  GitInv'
<1>1. Moves(ui, Answered(c, "failed", c.got), ClicksOf["git"])
  BY FailMoves DEF GitInv, Git!Fails
<1>2. QED
  BY <1>1, GitKeeps

LEMMA GitGoes ==
  ASSUME GitInv, NEW c, NEW u, NEW new, NEW gone, NEW spoils, 
         Git!Goes(c, u, new, gone, spoils), AllProper(new), GitOf(u, (calls \ ({c} \union gone)) \union new)
  PROVE  GitInv'
<1>1. Moves(u, (calls \ ({c} \union gone)) \union new, ClicksOf["git"])
  BY GoMoves DEF GitInv, Git!Goes, Git!Joined, P!Joined, Git!Disturbed, P!Disturbed, Git!Clash, P!Clash, Git!Touched, P!Touched
<1>2. QED
  BY <1>1, GitKeeps

LEMMA GitSends ==
  ASSUME GitInv, NEW c, NEW u, NEW new, NEW spoils, Git!Goes(c, u, new, {}, spoils), AllProper(new),
         GitOf(u, (calls \ {c}) \union new)
  PROVE  GitInv'
<1>1. (calls \ ({c} \union {})) \union new = (calls \ {c}) \union new
  OBVIOUS
<1>2. QED
  BY <1>1, GitGoes

LEMMA GitEnds ==
  ASSUME GitInv, NEW c, NEW u, NEW spoils, Git!Goes(c, u, {}, {}, spoils), GitOf(u, calls \ {c})
  PROVE  GitInv'
<1>1. AllProper({}) /\ (calls \ {c}) \union {} = calls \ {c}
  BY DEF AllProper
<1>2. QED
  BY <1>1, GitSends


LEMMA GitNew ==
  /\ \A op, arg : Fresh(Git!Detail(op, arg), "detail", op, arg)
  /\ \A op, arg : Fresh(Git!Load(op, arg), "load", op, arg)
  /\ \A op, arg : Fresh(Git!Act(op, arg), "act", op, arg)
  BY DEF Git!Detail, Git!Load, Git!Act, Git!LoadOf, Git!ActOn, Git!Whole, Git!Sent, Fresh, Proper, IsCall

LEMMA GitInit == Git!Init => GitInv
  BY LimitsAssumption, GitNew DEF Git!Init, GitInv, GitOf, Base, Panels, AllProper, Git!Refresh, Has, Fresh

LEMMA GitHandle ==
  ASSUME GitInv, Git!Handle
  PROVE  GitInv'
<1>0. GitOf(ui, calls)
  BY DEF GitInv
<1>1. CASE Git!HandleStage
  BY <1>0, <1>1, GitClicks, GitNew, AllPropers DEF GitOf, Has, Fresh, Git!HandleStage
<1>2. CASE Git!HandleUnstage
  BY <1>0, <1>2, GitClicks, GitNew, AllPropers DEF GitOf, Has, Fresh, Git!HandleUnstage
<1>3. CASE Git!HandleDiscard
  BY <1>0, <1>3, GitClicks, GitNew, AllPropers DEF GitOf, Has, Fresh, Git!HandleDiscard
<1>4. CASE Git!HandleCheckout
  BY <1>0, <1>4, GitClicks, GitNew, AllPropers DEF GitOf, Has, Fresh, Git!HandleCheckout
<1>5. CASE Git!HandleInitRepo
  BY <1>0, <1>5, GitClicks, GitNew, AllPropers DEF GitOf, Has, Fresh, Git!HandleInitRepo
<1>6. CASE Git!OnRollback
  BY <1>0, <1>6, GitClicks, GitNew, AllPropers DEF GitOf, Has, Fresh, Git!OnRollback
<1>7. CASE Git!HandleResolveConflict
  BY <1>0, <1>7, GitClicks, GitNew, AllPropers DEF GitOf, Has, Fresh, Git!HandleResolveConflict
<1>8. CASE Git!HandleCommit
  BY <1>0, <1>8, GitClicks, GitNew, AllPropers DEF GitOf, Has, Fresh, Git!HandleCommit
<1>9. CASE \E a \in {"pull", "push"} : Git!HandleSync(a)
  BY <1>0, <1>9, GitClicks, GitNew, AllPropers DEF GitOf, Has, Fresh, Git!HandleSync
<1>10. CASE Git!OnRefresh
  BY <1>0, <1>10, GitClicks, GitNew, AllPropers DEF GitOf, Has, Fresh, Git!OnRefresh, Git!Refresh
<1>11. CASE \E e \in Git!Entry : Git!Select(e)
  <2>1. PICK e : Git!Turns(Git!Opened(ui, e), Git!AsksFor(e), Git!OldDiffs) /\ ui.status # None
                    /\ e \in Git!Listed(ui.status.files)
    BY <1>11 DEF Git!Select
  <2>2. GitOf(Git!Opened(ui, e), (calls \ Git!OldDiffs) \union Git!AsksFor(e))
    BY <1>0, <2>1, GitNew DEF GitOf, Fresh, Git!Opened, Git!AsksFor, Git!OldDiffs, Has
  <2>3. AllProper(Git!AsksFor(e))
    BY GitNew, AllPropers DEF Git!AsksFor, Fresh
  <2>4. QED
    BY <2>1, <2>2, <2>3, GitTurns
<1>12. QED
  BY <1>1, <1>2, <1>3, <1>4, <1>5, <1>6, <1>7, <1>8, <1>9, <1>10, <1>11 DEF Git!Handle

LEMMA GitServed ==
  ASSUME GitInv, Git!WorkGoesOn \/ Git!GitServes \/ (\E c \in calls : Git!Fails(c))
  PROVE  GitInv'
<1>0. GitOf(ui, calls)
  BY DEF GitInv
<1>1. CASE Git!WorkGoesOn
  BY <1>0, <1>1, GitChanges, GitNew, AllPropers DEF GitOf, Has, Fresh, Git!WorkGoesOn
<1>2. CASE Git!GitServes
  <2>1. PICK c \in calls : \E o : Git!Serves(c, o[1], Git!Answer(c, o[2]))
    BY <1>2 DEF Git!GitServes
  <2>2. PICK o : Git!Serves(c, o[1], Git!Answer(c, o[2]))
    BY <2>1
  <2>3. c.op = "git_diff" => Git!Answer(c, o[2]).entry = c.arg
    BY DEF Git!Answer
  <2>4. GitOf(ui, Answered(c, "served", Git!Answer(c, o[2])))
    BY <1>0, <2>3, AnsweredHas, AnsweredAre DEF GitOf
  <2>5. QED
    BY <2>2, <2>4, GitServes
<1>3. CASE \E c \in calls : Git!Fails(c)
  <2>1. PICK c \in calls : Git!Fails(c)
    BY <1>3
  <2>2. GitOf(ui, Answered(c, "failed", c.got))
    BY <1>0, AnsweredHas, AnsweredAre DEF GitOf
  <2>3. QED
    BY <2>1, <2>2, GitFails
<1>4. QED
  BY <1>1, <1>2, <1>3

LEMMA GitReselected ==
  ASSUME NEW u, Git!Reselected(u) # None
  PROVE  u.status # None /\ Git!Reselected(u) \in Git!Listed(u.status.files)
  BY DEF Git!Reselected

LEMMA GitStatusReturns ==
  ASSUME GitInv, NEW c, Git!StatusReturns(c)
  PROVE  GitInv'
<1> DEFINE u == [ui EXCEPT !.status = IF c.at = "served" THEN c.got ELSE None, !.busy = @ \ {"status"}]
           isRepo == c.at = "served" /\ c.got.repo
           branches == IF isRepo /\ ~Git!HasRepo THEN {Git!Detail("git_branches", None)} ELSE {}
           e == Git!Reselected(u)
<1>0. GitOf(ui, calls)
  BY DEF GitInv
<1>1. /\ c.op = "git_status"
      /\ IF e = ui.selected THEN Git!Goes(c, u, branches, {}, FALSE)
         ELSE Git!Goes(c, Git!Opened(u, e), Git!AsksFor(e) \union branches, Git!OldDiffs, FALSE)
  BY DEF Git!StatusReturns
<1>2. AllProper(branches) /\ \A d \in branches : d.op = "git_branches"
  BY GitNew DEF Fresh, AllProper
<1>3. e # None => u.status # None /\ e \in Git!Listed(u.status.files)
  BY GitReselected
<1>4. /\ u.selected = ui.selected /\ u.diff = ui.diff /\ u.resolving = ui.resolving
      /\ u.busy = ui.busy \ {"status"}
      /\ DOMAIN u = {"status", "selected", "diff", "branches", "resolving", "busy"}
  BY <1>0 DEF GitOf
<1> HIDE DEF u, branches, e
<1>5. CASE e = ui.selected
  <2>1. GitOf(u, (calls \ {c}) \union branches)
    BY <1>0, <1>1, <1>2, <1>3, <1>4, <1>5 DEF GitOf, Has
  <2>2. QED
    BY <1>1, <1>2, <1>5, <2>1, GitSends
<1>6. CASE e # ui.selected
  <2>1. /\ AllProper(Git!AsksFor(e) \union branches)
        /\ \A d \in Git!AsksFor(e) : d.op = "git_diff" /\ d.arg = e /\ d.at = "sent"
        /\ e # None => \E d \in Git!AsksFor(e) : d.op = "git_diff"
    BY <1>2, GitNew DEF Git!AsksFor, AllProper, Fresh
  <2>2. DOMAIN Git!Opened(u, e) = DOMAIN u
    BY DEF Git!Opened
  <2>3. /\ Git!Opened(u, e).status = u.status /\ Git!Opened(u, e).selected = e
        /\ Git!Opened(u, e).resolving = u.resolving
        /\ Git!Opened(u, e).diff = IF e = None THEN None ELSE u.diff
        /\ Git!Opened(u, e).busy = IF e = None THEN u.busy ELSE u.busy \union {"diff"}
    BY <1>4 DEF Git!Opened
  <2>4. GitOf(Git!Opened(u, e), (calls \ ({c} \union Git!OldDiffs)) \union (Git!AsksFor(e) \union branches))
    BY <1>0, <1>1, <1>2, <1>3, <1>4, <2>1, <2>2, <2>3 DEF GitOf, Has, Git!OldDiffs
  <2>5. QED
    BY <1>1, <1>6, <2>1, <2>4, GitGoes
<1>7. QED
  BY <1>5, <1>6

LEMMA GitRollbackReturns ==
  ASSUME GitInv, NEW c, Git!RollbackReturns(c)
  PROVE  GitInv'
<1> DEFINE u == [ui EXCEPT !.selected = None, !.diff = None, !.busy = @ \union {"status"}]
           e == Git!Reselected(u)
<1>0. GitOf(ui, calls)
  BY DEF GitInv
<1>1. /\ c.op = "rollback"
      /\ IF c.at = "served"
         THEN Git!Goes(c, Git!Opened(u, e), {Git!Refresh} \union Git!AsksFor(e), Git!OldDiffs, FALSE)
         ELSE Git!Goes(c, ui, {}, {}, FALSE)
  BY DEF Git!RollbackReturns
<1>2. e # None => u.status # None /\ e \in Git!Listed(u.status.files)
  BY GitReselected
<1>3. /\ u.status = ui.status /\ u.diff = None /\ u.resolving = ui.resolving
      /\ u.busy = ui.busy \union {"status"}
      /\ DOMAIN u = {"status", "selected", "diff", "branches", "resolving", "busy"}
  BY <1>0 DEF GitOf
<1> HIDE DEF u, e
<1>4. CASE c.at # "served"
  <2>1. GitOf(ui, calls \ {c})
    BY <1>0, <1>1 DEF GitOf, Has
  <2>2. QED
    BY <1>1, <1>4, <2>1, GitEnds
<1>5. CASE c.at = "served"
  <2>1. /\ AllProper({Git!Refresh} \union Git!AsksFor(e)) /\ Git!Refresh.op = "git_status"
        /\ \A d \in Git!AsksFor(e) : d.op = "git_diff" /\ d.arg = e /\ d.at = "sent"
        /\ e # None => \E d \in Git!AsksFor(e) : d.op = "git_diff"
    BY GitNew DEF Git!AsksFor, AllProper, Fresh, Git!Refresh
  <2>2. DOMAIN Git!Opened(u, e) = DOMAIN u
    BY DEF Git!Opened
  <2>3. /\ Git!Opened(u, e).status = u.status /\ Git!Opened(u, e).selected = e
        /\ Git!Opened(u, e).resolving = u.resolving
        /\ Git!Opened(u, e).diff = IF e = None THEN None ELSE u.diff
        /\ Git!Opened(u, e).busy = IF e = None THEN u.busy ELSE u.busy \union {"diff"}
    BY <1>3 DEF Git!Opened
  <2>4. GitOf(Git!Opened(u, e), (calls \ ({c} \union Git!OldDiffs)) \union ({Git!Refresh} \union Git!AsksFor(e)))
    BY <1>0, <1>1, <1>2, <1>3, <2>1, <2>2, <2>3 DEF GitOf, Has, Git!OldDiffs
  <2>5. QED
    BY <1>1, <1>5, <2>1, <2>4, GitGoes
<1>6. QED
  BY <1>4, <1>5

LEMMA GitReturned ==
  ASSUME GitInv, Git!GitReturns
  PROVE  GitInv'
<1>0. GitOf(ui, calls)
  BY DEF GitInv
<1>1. CASE \E c \in calls : Git!StatusReturns(c) \/ Git!RollbackReturns(c)
  BY <1>1, GitStatusReturns, GitRollbackReturns
<1>2. ASSUME NEW c \in calls, Git!DiffReturns(c) PROVE GitInv'
  <2>1. GitOf([ui EXCEPT !.diff = IF c.at = "served" THEN c.got ELSE [entry |-> c.arg, state |-> None],
                     !.busy = @ \ {"diff"}], calls \ {c})
    BY <1>0, <1>2 DEF GitOf, Has, Git!DiffReturns
  <2>2. QED
    BY <1>2, <2>1, GitEnds DEF Git!DiffReturns
<1>3. ASSUME NEW c \in calls, Git!BranchesReturn(c) PROVE GitInv'
  <2>1. GitOf([ui EXCEPT !.branches = @ \/ c.at = "served"], calls \ {c})
    BY <1>0, <1>3 DEF GitOf, Has, Git!BranchesReturn
  <2>2. QED
    BY <1>3, <2>1, GitEnds DEF Git!BranchesReturn
<1>4. ASSUME NEW c \in calls, Git!RefreshingReturns(c) PROVE GitInv'
  <2>1. GitOf(ui, calls \ {c})
    BY <1>0, <1>4 DEF GitOf, Has, Git!RefreshingReturns, Git!Refresh
  <2>2. GitOf([ui EXCEPT !.busy = @ \union {"status"}], (calls \ {c}) \union {Git!Refresh})
    BY <1>0, <1>4, GitNew DEF GitOf, Has, Fresh, Git!RefreshingReturns, Git!Refresh
  <2>3. AllProper({Git!Refresh})
    BY GitNew, AllPropers DEF Fresh, Git!Refresh
  <2>4. QED
    BY <1>4, <2>1, <2>2, <2>3, GitEnds, GitSends DEF Git!RefreshingReturns
<1>5. ASSUME NEW c \in calls, Git!GuardedReturns(c) PROVE GitInv'
  <2>1. GitOf([ui EXCEPT !.busy = @ \ Git!Clears(c), !.resolving = IF c.op = "git_resolve_conflict" THEN None ELSE @], calls \ {c})
    BY <1>0, <1>5 DEF GitOf, Has, Git!GuardedReturns, Git!Refresh, Git!Clears
  <2>2. GitOf([[ui EXCEPT !.busy = @ \ Git!Clears(c), !.resolving = IF c.op = "git_resolve_conflict" THEN None ELSE @]
       EXCEPT !.busy = @ \union {"status"}], (calls \ {c}) \union ({Git!Refresh} \union (IF c.op = "git_checkout" THEN {Git!Detail("git_branches", None)} ELSE {})))
    BY <1>0, <1>5, GitNew DEF GitOf, Has, Fresh, Git!GuardedReturns, Git!Refresh, Git!Clears
  <2>3. AllProper(({Git!Refresh} \union (IF c.op = "git_checkout" THEN {Git!Detail("git_branches", None)} ELSE {})))
    BY GitNew, AllPropers DEF Fresh, Git!Refresh, Git!Clears
  <2>4. QED
    BY <1>5, <2>1, <2>2, <2>3, GitEnds, GitSends DEF Git!GuardedReturns
<1>6. QED
  BY <1>1, <1>2, <1>3, <1>4, <1>5 DEF Git!GitReturns

LEMMA GitStep == GitInv /\ Git!Next => GitInv'
  BY GitHandle, GitServed, GitReturned DEF Git!Next

(***************************************************************************)
(* The models tab of the settings.                                         *)
(***************************************************************************)
\* The calls for which a marker of the models tab is on.
ModelsMarks(c, f) ==
  \/ f = "sync" /\ c.op = "fetch" /\ ~c.arg.form
  \/ f = "form" /\ c.op = "fetch" /\ c.arg.form
  \/ f = "batch" /\ c.op = "batchProbe"
  \/ f = "probe" /\ c.op \in {"probe", "formProbe"}
  \/ c.op = "load" /\ c.arg = f

(* The markers of the models tab.                                            *)
ModelsOf(u, S) ==
  /\ DOMAIN u = {"providers", "default", "thinking", "reviewer", "vision", "form", "model", "busy"}
  /\ DOMAIN u.busy = {"loading", "ping", "sync", "form", "batch", "probe", "vision"}
  /\ \A c \in S : c.op = "settings" => c.arg.field \in {"default", "thinking", "reviewer"}
  /\ u.busy.loading # FALSE => Has(S, "load")
  /\ u.busy.ping # None => Has(S, "ping")
  /\ u.busy.sync # None => \E c \in S : ModelsMarks(c, "sync")
  /\ u.busy.form # FALSE => \E c \in S : ModelsMarks(c, "form")
  /\ u.busy.batch # None => \E c \in S : ModelsMarks(c, "batch")
  /\ u.busy.probe # None => \E c \in S : ModelsMarks(c, "probe")
  /\ u.busy.vision # FALSE => Has(S, "vision")

ModelsInv == Base(ClicksOf["models"]) /\ ModelsOf(ui, calls)

LEMMA ModelsAlike ==
  ASSUME NEW u, NEW S, NEW T, Alike(S, T), ModelsOf(u, S)
  PROVE  ModelsOf(u, T)
<1>1. DOMAIN u = {"providers", "default", "thinking", "reviewer", "vision", "form", "model", "busy"}
  BY DEF ModelsOf, Alike, Same, Has, ModelsMarks
<1>2. DOMAIN u.busy = {"loading", "ping", "sync", "form", "batch", "probe", "vision"}
  BY DEF ModelsOf, Alike, Same, Has, ModelsMarks
<1>3. \A c \in T : c.op = "settings" => c.arg.field \in {"default", "thinking", "reviewer"}
  BY DEF ModelsOf, Alike, Same, Has, ModelsMarks
<1>4. u.busy.loading # FALSE => Has(T, "load")
  BY DEF ModelsOf, Alike, Same, Has, ModelsMarks
<1>5. u.busy.ping # None => Has(T, "ping")
  BY DEF ModelsOf, Alike, Same, Has, ModelsMarks
<1>6. u.busy.sync # None => \E c \in T : ModelsMarks(c, "sync")
  BY DEF ModelsOf, Alike, Same, Has, ModelsMarks
<1>7. u.busy.form # FALSE => \E c \in T : ModelsMarks(c, "form")
  BY DEF ModelsOf, Alike, Same, Has, ModelsMarks
<1>8. u.busy.batch # None => \E c \in T : ModelsMarks(c, "batch")
  BY DEF ModelsOf, Alike, Same, Has, ModelsMarks
<1>9. u.busy.probe # None => \E c \in T : ModelsMarks(c, "probe")
  BY DEF ModelsOf, Alike, Same, Has, ModelsMarks
<1>10. u.busy.vision # FALSE => Has(T, "vision")
  BY DEF ModelsOf, Alike, Same, Has, ModelsMarks
<1>11. QED
  BY <1>1, <1>2, <1>3, <1>4, <1>5, <1>6, <1>7, <1>8, <1>9, <1>10 DEF ModelsOf

LEMMA ModelsKeeps ==
  ASSUME ModelsInv, NEW u, NEW S, Moves(u, S, ClicksOf["models"]), ModelsOf(u, S)
  PROVE  ModelsInv'
<1>1. ModelsOf(u, calls') /\ ui' = u
  BY FollowsAlike, ModelsAlike DEF Moves
<1>2. Base(ClicksOf["models"])'
  BY LimitsAssumption DEF Moves, Follows, Base, AllProper, Panels, ModelsInv
<1>3. QED
  BY <1>1, <1>2 DEF ModelsInv

LEMMA ModelsTurns ==
  ASSUME ModelsInv, NEW u, NEW new, NEW gone, Models!Turns(u, new, gone), AllProper(new), ModelsOf(u, (calls \ gone) \union new)
  PROVE  ModelsInv'
<1>1. Moves(u, (calls \ gone) \union new, ClicksOf["models"])
  BY TurnMoves DEF ModelsInv, Models!Turns, Models!Joined, P!Joined, Models!Disturbed, P!Disturbed, Models!Clash, P!Clash, Models!Touched, P!Touched
<1>2. QED
  BY <1>1, ModelsKeeps

LEMMA ModelsClicks ==
  ASSUME ModelsInv, NEW u, NEW new, Models!Clicks(u, new), AllProper(new), ModelsOf(u, calls \union new)
  PROVE  ModelsInv'
<1>1. Models!Turns(u, new, {}) /\ (calls \ {}) \union new = calls \union new
  BY DEF Models!Clicks
<1>2. QED
  BY <1>1, ModelsTurns

LEMMA ModelsShows ==
  ASSUME ModelsInv, NEW u, Models!Shows(u), ModelsOf(u, calls)
  PROVE  ModelsInv'
<1>1. Moves(u, calls, ClicksOf["models"])
  BY ShowMoves DEF ModelsInv, Models!Shows
<1>2. QED
  BY <1>1, ModelsKeeps

LEMMA ModelsServes ==
  ASSUME ModelsInv, NEW c, NEW s, NEW got, Models!Serves(c, s, got), ModelsOf(ui, Answered(c, "served", got))
  PROVE  ModelsInv'
<1>1. Moves(ui, Answered(c, "served", got), ClicksOf["models"])
  BY ServeMoves DEF ModelsInv, Models!Serves
<1>2. QED
  BY <1>1, ModelsKeeps

LEMMA ModelsFails ==
  ASSUME ModelsInv, NEW c, Models!Fails(c), ModelsOf(ui, Answered(c, "failed", c.got))
  PROVE  ModelsInv'
<1>1. Moves(ui, Answered(c, "failed", c.got), ClicksOf["models"])
  BY FailMoves DEF ModelsInv, Models!Fails
<1>2. QED
  BY <1>1, ModelsKeeps

LEMMA ModelsGoes ==
  ASSUME ModelsInv, NEW c, NEW u, NEW new, NEW gone, NEW spoils, 
         Models!Goes(c, u, new, gone, spoils), AllProper(new), ModelsOf(u, (calls \ ({c} \union gone)) \union new)
  PROVE  ModelsInv'
<1>1. Moves(u, (calls \ ({c} \union gone)) \union new, ClicksOf["models"])
  BY GoMoves DEF ModelsInv, Models!Goes, Models!Joined, P!Joined, Models!Disturbed, P!Disturbed, Models!Clash, P!Clash, Models!Touched, P!Touched
<1>2. QED
  BY <1>1, ModelsKeeps

LEMMA ModelsSends ==
  ASSUME ModelsInv, NEW c, NEW u, NEW new, NEW spoils, Models!Goes(c, u, new, {}, spoils), AllProper(new),
         ModelsOf(u, (calls \ {c}) \union new)
  PROVE  ModelsInv'
<1>1. (calls \ ({c} \union {})) \union new = (calls \ {c}) \union new
  OBVIOUS
<1>2. QED
  BY <1>1, ModelsGoes

LEMMA ModelsEnds ==
  ASSUME ModelsInv, NEW c, NEW u, NEW spoils, Models!Goes(c, u, {}, {}, spoils), ModelsOf(u, calls \ {c})
  PROVE  ModelsInv'
<1>1. AllProper({}) /\ (calls \ {c}) \union {} = calls \ {c}
  BY DEF AllProper
<1>2. QED
  BY <1>1, ModelsSends


LEMMA ModelsNew ==
  /\ \A op, arg : Fresh(Models!Detail(op, arg), "detail", op, arg)
  /\ \A op, arg : Fresh(Models!Load(op, arg), "load", op, arg)
  /\ \A op, arg : Fresh(Models!Act(op, arg), "act", op, arg)
  BY DEF Models!Detail, Models!Load, Models!Act, Models!LoadOf, Models!ActOn, Models!Whole, Models!Sent, Fresh, Proper, IsCall

LEMMA ModelsInit == Models!Init => ModelsInv
<1> SUFFICES ASSUME Models!Init PROVE ModelsInv
  OBVIOUS
<1>1. PICK n1 : n1 = Models!LoadData(None) /\ Fresh(n1, "load", "load", None)
  BY ModelsNew DEF Models!LoadData
<1>2. PICK b : b = [Models!NoBusy EXCEPT !.loading = TRUE]
  OBVIOUS
<1>3. /\ DOMAIN b = {"loading", "ping", "sync", "form", "batch", "probe", "vision"}
      /\ b.ping = None /\ b.sync = None /\ b.form = FALSE /\ b.batch = None /\ b.probe = None
      /\ b.vision = FALSE
  BY <1>2 DEF Models!NoBusy
<1>4. ui.busy = b /\ calls = {n1} /\ clicks = 0
      /\ DOMAIN ui = {"providers", "default", "thinking", "reviewer", "vision", "form", "model", "busy"}
  BY <1>1, <1>2 DEF Models!Init
<1>5. ModelsOf(ui, calls)
  BY <1>1, <1>3, <1>4 DEF ModelsOf, Has, Fresh
<1>6. QED
  BY <1>1, <1>4, <1>5, LimitsAssumption DEF ModelsInv, Base, AllProper, Panels, Fresh

LEMMA ModelsMainPart ==
  ASSUME ModelsInv, Models!MainModel \/ Models!Reviewer \/ Models!Vision \/ Models!OpenNewProvider
  PROVE  ModelsInv'
<1>0. ModelsOf(ui, calls)
  BY DEF ModelsInv
<1>1. ASSUME NEW v, Models!Clicks(ui, {Models!Act("settings", [field |-> "default", value |-> v])}) PROVE ModelsInv'
  <2>1. PICK n1 : n1 = Models!Act("settings", [field |-> "default", value |-> v]) /\ Fresh(n1, "act", "settings", [field |-> "default", value |-> v])
    BY ModelsNew
  <2>2. ModelsOf(ui, calls \union {n1})
    <3>1. PICK T : T = calls \union {n1}
      OBVIOUS
    <3>2. DOMAIN ui = {"providers", "default", "thinking", "reviewer", "vision", "form", "model", "busy"}
      BY <1>0, <2>1, <3>1 DEF ModelsOf, Has, Fresh
    <3>3. DOMAIN ui.busy = {"loading", "ping", "sync", "form", "batch", "probe", "vision"}
      BY <1>0, <2>1, <3>1 DEF ModelsOf, Has, Fresh
    <3>4. \A c \in T : c.op = "settings" => c.arg.field \in {"default", "thinking", "reviewer"}
      BY <1>0, <2>1, <3>1 DEF ModelsOf, Has, Fresh
    <3>5. ui.busy.loading # FALSE => Has(T, "load")
      BY <1>0, <2>1, <3>1 DEF ModelsOf, Has, Fresh
    <3>6. ui.busy.ping # None => Has(T, "ping")
      BY <1>0, <2>1, <3>1 DEF ModelsOf, Has, Fresh
    <3>7. ui.busy.sync # None => \E d \in T : ModelsMarks(d, "sync")
      BY <1>0, <2>1, <3>1 DEF ModelsOf, Has, Fresh
    <3>8. ui.busy.form # FALSE => \E d \in T : ModelsMarks(d, "form")
      BY <1>0, <2>1, <3>1 DEF ModelsOf, Has, Fresh
    <3>9. ui.busy.batch # None => \E d \in T : ModelsMarks(d, "batch")
      BY <1>0, <2>1, <3>1 DEF ModelsOf, Has, Fresh
    <3>10. ui.busy.probe # None => \E d \in T : ModelsMarks(d, "probe")
      BY <1>0, <2>1, <3>1 DEF ModelsOf, Has, Fresh
    <3>11. ui.busy.vision # FALSE => Has(T, "vision")
      BY <1>0, <2>1, <3>1 DEF ModelsOf, Has, Fresh
    <3>12. QED
      BY <3>1, <3>2, <3>3, <3>4, <3>5, <3>6, <3>7, <3>8, <3>9, <3>10, <3>11 DEF ModelsOf
  <2>3. AllProper({n1})
    BY <2>1, AllPropers DEF Fresh
  <2>4. QED
    BY <1>0, <1>1, <2>1, <2>2, <2>3, ModelsClicks DEF Models!Clicks
<1>2. ASSUME Models!SelectThinkingLevel("low") PROVE ModelsInv'
  <2>1. PICK n1 : n1 = Models!Act("settings", [field |-> "thinking", value |-> "low"]) /\ Fresh(n1, "act", "settings", [field |-> "thinking", value |-> "low"])
    BY ModelsNew
  <2>2. ModelsOf(ui, calls \union {n1})
    <3>1. PICK T : T = calls \union {n1}
      OBVIOUS
    <3>2. DOMAIN ui = {"providers", "default", "thinking", "reviewer", "vision", "form", "model", "busy"}
      BY <1>0, <2>1, <3>1 DEF ModelsOf, Has, Fresh
    <3>3. DOMAIN ui.busy = {"loading", "ping", "sync", "form", "batch", "probe", "vision"}
      BY <1>0, <2>1, <3>1 DEF ModelsOf, Has, Fresh
    <3>4. \A c \in T : c.op = "settings" => c.arg.field \in {"default", "thinking", "reviewer"}
      BY <1>0, <2>1, <3>1 DEF ModelsOf, Has, Fresh
    <3>5. ui.busy.loading # FALSE => Has(T, "load")
      BY <1>0, <2>1, <3>1 DEF ModelsOf, Has, Fresh
    <3>6. ui.busy.ping # None => Has(T, "ping")
      BY <1>0, <2>1, <3>1 DEF ModelsOf, Has, Fresh
    <3>7. ui.busy.sync # None => \E d \in T : ModelsMarks(d, "sync")
      BY <1>0, <2>1, <3>1 DEF ModelsOf, Has, Fresh
    <3>8. ui.busy.form # FALSE => \E d \in T : ModelsMarks(d, "form")
      BY <1>0, <2>1, <3>1 DEF ModelsOf, Has, Fresh
    <3>9. ui.busy.batch # None => \E d \in T : ModelsMarks(d, "batch")
      BY <1>0, <2>1, <3>1 DEF ModelsOf, Has, Fresh
    <3>10. ui.busy.probe # None => \E d \in T : ModelsMarks(d, "probe")
      BY <1>0, <2>1, <3>1 DEF ModelsOf, Has, Fresh
    <3>11. ui.busy.vision # FALSE => Has(T, "vision")
      BY <1>0, <2>1, <3>1 DEF ModelsOf, Has, Fresh
    <3>12. QED
      BY <3>1, <3>2, <3>3, <3>4, <3>5, <3>6, <3>7, <3>8, <3>9, <3>10, <3>11 DEF ModelsOf
  <2>3. AllProper({n1})
    BY <2>1, AllPropers DEF Fresh
  <2>4. QED
    BY <1>0, <1>2, <2>1, <2>2, <2>3, ModelsClicks DEF Models!SelectThinkingLevel
<1>3. ASSUME Models!UpdateReviewer(~ui.reviewer) PROVE ModelsInv'
  <2>1. PICK n1 : n1 = Models!Act("settings", [field |-> "reviewer", value |-> ~ui.reviewer]) /\ Fresh(n1, "act", "settings", [field |-> "reviewer", value |-> ~ui.reviewer])
    BY ModelsNew
  <2>2. ModelsOf([ui EXCEPT !.reviewer = ~ui.reviewer], calls \union {n1})
    <3>1. PICK w : w = [ui EXCEPT !.reviewer = ~ui.reviewer]
      OBVIOUS
    <3>2. /\ DOMAIN w = DOMAIN ui
         /\ w.providers = ui.providers
         /\ w.default = ui.default
         /\ w.thinking = ui.thinking
         /\ w.reviewer = (~ui.reviewer)
         /\ w.vision = ui.vision
         /\ w.form = ui.form
         /\ w.model = ui.model
         /\ w.busy = ui.busy
      BY <1>0, <3>1 DEF ModelsOf
    <3>3. PICK T : T = calls \union {n1}
      OBVIOUS
    <3>4. DOMAIN w = {"providers", "default", "thinking", "reviewer", "vision", "form", "model", "busy"}
      BY <1>0, <2>1, <3>2, <3>3 DEF ModelsOf, Has, Fresh
    <3>5. DOMAIN w.busy = {"loading", "ping", "sync", "form", "batch", "probe", "vision"}
      BY <1>0, <2>1, <3>2, <3>3 DEF ModelsOf, Has, Fresh
    <3>6. \A c \in T : c.op = "settings" => c.arg.field \in {"default", "thinking", "reviewer"}
      BY <1>0, <2>1, <3>2, <3>3 DEF ModelsOf, Has, Fresh
    <3>7. w.busy.loading # FALSE => Has(T, "load")
      BY <1>0, <2>1, <3>2, <3>3 DEF ModelsOf, Has, Fresh
    <3>8. w.busy.ping # None => Has(T, "ping")
      BY <1>0, <2>1, <3>2, <3>3 DEF ModelsOf, Has, Fresh
    <3>9. w.busy.sync # None => \E d \in T : ModelsMarks(d, "sync")
      BY <1>0, <2>1, <3>2, <3>3 DEF ModelsOf, Has, Fresh
    <3>10. w.busy.form # FALSE => \E d \in T : ModelsMarks(d, "form")
      BY <1>0, <2>1, <3>2, <3>3 DEF ModelsOf, Has, Fresh
    <3>11. w.busy.batch # None => \E d \in T : ModelsMarks(d, "batch")
      BY <1>0, <2>1, <3>2, <3>3 DEF ModelsOf, Has, Fresh
    <3>12. w.busy.probe # None => \E d \in T : ModelsMarks(d, "probe")
      BY <1>0, <2>1, <3>2, <3>3 DEF ModelsOf, Has, Fresh
    <3>13. w.busy.vision # FALSE => Has(T, "vision")
      BY <1>0, <2>1, <3>2, <3>3 DEF ModelsOf, Has, Fresh
    <3>14. QED
      BY <3>1, <3>3, <3>4, <3>5, <3>6, <3>7, <3>8, <3>9, <3>10, <3>11, <3>12, <3>13 DEF ModelsOf
  <2>3. AllProper({n1})
    BY <2>1, AllPropers DEF Fresh
  <2>4. QED
    BY <1>0, <1>3, <2>1, <2>2, <2>3, ModelsClicks DEF Models!UpdateReviewer
<1>4. ASSUME Models!SaveVision(~ui.vision) PROVE ModelsInv'
  <2>1. PICK n1 : n1 = Models!Act("vision", ~ui.vision) /\ Fresh(n1, "act", "vision", ~ui.vision)
    BY ModelsNew
  <2>2. ModelsOf([ui EXCEPT !.busy.vision = TRUE], calls \union {n1})
    <3>1. PICK w : w = [ui EXCEPT !.busy.vision = TRUE]
      OBVIOUS
    <3>2. /\ DOMAIN w = DOMAIN ui
         /\ DOMAIN w.busy = DOMAIN ui.busy
         /\ w.busy.loading = ui.busy.loading
         /\ w.busy.ping = ui.busy.ping
         /\ w.busy.sync = ui.busy.sync
         /\ w.busy.form = ui.busy.form
         /\ w.busy.batch = ui.busy.batch
         /\ w.busy.probe = ui.busy.probe
         /\ w.busy.vision = (TRUE)
         /\ w.providers = ui.providers
         /\ w.default = ui.default
         /\ w.thinking = ui.thinking
         /\ w.reviewer = ui.reviewer
         /\ w.vision = ui.vision
         /\ w.form = ui.form
         /\ w.model = ui.model
      BY <1>0, <3>1 DEF ModelsOf
    <3>3. PICK T : T = calls \union {n1}
      OBVIOUS
    <3>4. DOMAIN w = {"providers", "default", "thinking", "reviewer", "vision", "form", "model", "busy"}
      BY <1>0, <2>1, <3>2, <3>3 DEF ModelsOf, Has, Fresh
    <3>5. DOMAIN w.busy = {"loading", "ping", "sync", "form", "batch", "probe", "vision"}
      BY <1>0, <2>1, <3>2, <3>3 DEF ModelsOf, Has, Fresh
    <3>6. \A c \in T : c.op = "settings" => c.arg.field \in {"default", "thinking", "reviewer"}
      BY <1>0, <2>1, <3>2, <3>3 DEF ModelsOf, Has, Fresh
    <3>7. w.busy.loading # FALSE => Has(T, "load")
      BY <1>0, <2>1, <3>2, <3>3 DEF ModelsOf, Has, Fresh
    <3>8. w.busy.ping # None => Has(T, "ping")
      BY <1>0, <2>1, <3>2, <3>3 DEF ModelsOf, Has, Fresh
    <3>9. w.busy.sync # None => \E d \in T : ModelsMarks(d, "sync")
      BY <1>0, <2>1, <3>2, <3>3 DEF ModelsOf, Has, Fresh
    <3>10. w.busy.form # FALSE => \E d \in T : ModelsMarks(d, "form")
      BY <1>0, <2>1, <3>2, <3>3 DEF ModelsOf, Has, Fresh
    <3>11. w.busy.batch # None => \E d \in T : ModelsMarks(d, "batch")
      BY <1>0, <2>1, <3>2, <3>3 DEF ModelsOf, Has, Fresh
    <3>12. w.busy.probe # None => \E d \in T : ModelsMarks(d, "probe")
      BY <1>0, <2>1, <3>2, <3>3 DEF ModelsOf, Has, Fresh
    <3>13. w.busy.vision # FALSE => Has(T, "vision")
      BY <1>0, <2>1, <3>2, <3>3 DEF ModelsOf, Has, Fresh
    <3>14. QED
      BY <3>1, <3>3, <3>4, <3>5, <3>6, <3>7, <3>8, <3>9, <3>10, <3>11, <3>12, <3>13 DEF ModelsOf
  <2>3. AllProper({n1})
    BY <2>1, AllPropers DEF Fresh
  <2>4. QED
    BY <1>0, <1>4, <2>1, <2>2, <2>3, ModelsClicks DEF Models!SaveVision
<1>5. ASSUME NEW f, Models!Shows([ui EXCEPT !.form = f]) PROVE ModelsInv'
  <2>1. ModelsOf([ui EXCEPT !.form = f], calls)
    <3>1. PICK w : w = [ui EXCEPT !.form = f]
      OBVIOUS
    <3>2. /\ DOMAIN w = DOMAIN ui
         /\ w.providers = ui.providers
         /\ w.default = ui.default
         /\ w.thinking = ui.thinking
         /\ w.reviewer = ui.reviewer
         /\ w.vision = ui.vision
         /\ w.form = (f)
         /\ w.model = ui.model
         /\ w.busy = ui.busy
      BY <1>0, <3>1 DEF ModelsOf
    <3>3. QED
      BY <1>0, <3>1, <3>2 DEF ModelsOf, Has
  <2>2. QED
    BY <1>0, <1>5, <2>1, ModelsShows, AllPropers DEF Models!Shows
<1>6. QED
  BY <1>1, <1>2, <1>3, <1>4, <1>5 DEF Models!MainModel, Models!Reviewer, Models!Vision, Models!SelectDefaultModel, Models!OpenNewProvider

LEMMA ModelsCardPart ==
  ASSUME ModelsInv, NEW p \in Provider, Models!CardHead(p) \/ Models!CardTools(p) \/ Models!BatchMenu(p) \/ Models!CardModels(p)
  PROVE  ModelsInv'
<1>0. ModelsOf(ui, calls)
  BY DEF ModelsInv
<1>1. ASSUME Models!HandleSyncModels(p) PROVE ModelsInv'
  <2>1. PICK n1 : n1 = Models!Act("fetch", [p |-> p, form |-> FALSE]) /\ Fresh(n1, "act", "fetch", [p |-> p, form |-> FALSE])
    BY ModelsNew DEF ModelsMarks
  <2>2. ModelsMarks(n1, "sync")
    BY <1>0, <2>1, <1>1 DEF ModelsOf, Has, Fresh, Models!HandleSyncModels, ModelsMarks
  <2>3. ModelsOf([ui EXCEPT !.busy.sync = p], calls \union {n1})
    <3>1. PICK w : w = [ui EXCEPT !.busy.sync = p]
      OBVIOUS
    <3>2. /\ DOMAIN w = DOMAIN ui
         /\ DOMAIN w.busy = DOMAIN ui.busy
         /\ w.busy.loading = ui.busy.loading
         /\ w.busy.ping = ui.busy.ping
         /\ w.busy.sync = (p)
         /\ w.busy.form = ui.busy.form
         /\ w.busy.batch = ui.busy.batch
         /\ w.busy.probe = ui.busy.probe
         /\ w.busy.vision = ui.busy.vision
         /\ w.providers = ui.providers
         /\ w.default = ui.default
         /\ w.thinking = ui.thinking
         /\ w.reviewer = ui.reviewer
         /\ w.vision = ui.vision
         /\ w.form = ui.form
         /\ w.model = ui.model
      BY <1>0, <3>1 DEF ModelsOf
    <3>3. PICK T : T = calls \union {n1}
      OBVIOUS
    <3>4. DOMAIN w = {"providers", "default", "thinking", "reviewer", "vision", "form", "model", "busy"}
      BY <1>0, <2>1, <2>2, <3>2, <3>3 DEF ModelsOf, Has, Fresh
    <3>5. DOMAIN w.busy = {"loading", "ping", "sync", "form", "batch", "probe", "vision"}
      BY <1>0, <2>1, <2>2, <3>2, <3>3 DEF ModelsOf, Has, Fresh
    <3>6. \A c \in T : c.op = "settings" => c.arg.field \in {"default", "thinking", "reviewer"}
      BY <1>0, <2>1, <2>2, <3>2, <3>3 DEF ModelsOf, Has, Fresh
    <3>7. w.busy.loading # FALSE => Has(T, "load")
      BY <1>0, <2>1, <2>2, <3>2, <3>3 DEF ModelsOf, Has, Fresh
    <3>8. w.busy.ping # None => Has(T, "ping")
      BY <1>0, <2>1, <2>2, <3>2, <3>3 DEF ModelsOf, Has, Fresh
    <3>9. w.busy.sync # None => \E d \in T : ModelsMarks(d, "sync")
      BY <1>0, <2>1, <2>2, <3>2, <3>3 DEF ModelsOf, Has, Fresh
    <3>10. w.busy.form # FALSE => \E d \in T : ModelsMarks(d, "form")
      BY <1>0, <2>1, <2>2, <3>2, <3>3 DEF ModelsOf, Has, Fresh
    <3>11. w.busy.batch # None => \E d \in T : ModelsMarks(d, "batch")
      BY <1>0, <2>1, <2>2, <3>2, <3>3 DEF ModelsOf, Has, Fresh
    <3>12. w.busy.probe # None => \E d \in T : ModelsMarks(d, "probe")
      BY <1>0, <2>1, <2>2, <3>2, <3>3 DEF ModelsOf, Has, Fresh
    <3>13. w.busy.vision # FALSE => Has(T, "vision")
      BY <1>0, <2>1, <2>2, <3>2, <3>3 DEF ModelsOf, Has, Fresh
    <3>14. QED
      BY <3>1, <3>3, <3>4, <3>5, <3>6, <3>7, <3>8, <3>9, <3>10, <3>11, <3>12, <3>13 DEF ModelsOf
  <2>4. AllProper({n1})
    BY <2>1, <2>2, AllPropers DEF Fresh
  <2>5. QED
    BY <1>0, <1>1, <2>1, <2>2, <2>3, <2>4, ModelsClicks DEF Models!HandleSyncModels, ModelsMarks
<1>2. ASSUME Models!HandlePing(p) PROVE ModelsInv'
  <2>1. PICK n1 : n1 = Models!Detail("ping", p) /\ Fresh(n1, "detail", "ping", p)
    BY ModelsNew
  <2>2. ModelsOf([ui EXCEPT !.busy.ping = p], calls \union {n1})
    <3>1. PICK w : w = [ui EXCEPT !.busy.ping = p]
      OBVIOUS
    <3>2. /\ DOMAIN w = DOMAIN ui
         /\ DOMAIN w.busy = DOMAIN ui.busy
         /\ w.busy.loading = ui.busy.loading
         /\ w.busy.ping = (p)
         /\ w.busy.sync = ui.busy.sync
         /\ w.busy.form = ui.busy.form
         /\ w.busy.batch = ui.busy.batch
         /\ w.busy.probe = ui.busy.probe
         /\ w.busy.vision = ui.busy.vision
         /\ w.providers = ui.providers
         /\ w.default = ui.default
         /\ w.thinking = ui.thinking
         /\ w.reviewer = ui.reviewer
         /\ w.vision = ui.vision
         /\ w.form = ui.form
         /\ w.model = ui.model
      BY <1>0, <3>1 DEF ModelsOf
    <3>3. PICK T : T = calls \union {n1}
      OBVIOUS
    <3>4. DOMAIN w = {"providers", "default", "thinking", "reviewer", "vision", "form", "model", "busy"}
      BY <1>0, <2>1, <3>2, <3>3 DEF ModelsOf, Has, Fresh
    <3>5. DOMAIN w.busy = {"loading", "ping", "sync", "form", "batch", "probe", "vision"}
      BY <1>0, <2>1, <3>2, <3>3 DEF ModelsOf, Has, Fresh
    <3>6. \A c \in T : c.op = "settings" => c.arg.field \in {"default", "thinking", "reviewer"}
      BY <1>0, <2>1, <3>2, <3>3 DEF ModelsOf, Has, Fresh
    <3>7. w.busy.loading # FALSE => Has(T, "load")
      BY <1>0, <2>1, <3>2, <3>3 DEF ModelsOf, Has, Fresh
    <3>8. w.busy.ping # None => Has(T, "ping")
      BY <1>0, <2>1, <3>2, <3>3 DEF ModelsOf, Has, Fresh
    <3>9. w.busy.sync # None => \E d \in T : ModelsMarks(d, "sync")
      BY <1>0, <2>1, <3>2, <3>3 DEF ModelsOf, Has, Fresh
    <3>10. w.busy.form # FALSE => \E d \in T : ModelsMarks(d, "form")
      BY <1>0, <2>1, <3>2, <3>3 DEF ModelsOf, Has, Fresh
    <3>11. w.busy.batch # None => \E d \in T : ModelsMarks(d, "batch")
      BY <1>0, <2>1, <3>2, <3>3 DEF ModelsOf, Has, Fresh
    <3>12. w.busy.probe # None => \E d \in T : ModelsMarks(d, "probe")
      BY <1>0, <2>1, <3>2, <3>3 DEF ModelsOf, Has, Fresh
    <3>13. w.busy.vision # FALSE => Has(T, "vision")
      BY <1>0, <2>1, <3>2, <3>3 DEF ModelsOf, Has, Fresh
    <3>14. QED
      BY <3>1, <3>3, <3>4, <3>5, <3>6, <3>7, <3>8, <3>9, <3>10, <3>11, <3>12, <3>13 DEF ModelsOf
  <2>3. AllProper({n1})
    BY <2>1, AllPropers DEF Fresh
  <2>4. QED
    BY <1>0, <1>2, <2>1, <2>2, <2>3, ModelsClicks DEF Models!HandlePing
<1>3. ASSUME NEW f, Models!Shows([ui EXCEPT !.form = f]) PROVE ModelsInv'
  <2>1. ModelsOf([ui EXCEPT !.form = f], calls)
    <3>1. PICK w : w = [ui EXCEPT !.form = f]
      OBVIOUS
    <3>2. /\ DOMAIN w = DOMAIN ui
         /\ w.providers = ui.providers
         /\ w.default = ui.default
         /\ w.thinking = ui.thinking
         /\ w.reviewer = ui.reviewer
         /\ w.vision = ui.vision
         /\ w.form = (f)
         /\ w.model = ui.model
         /\ w.busy = ui.busy
      BY <1>0, <3>1 DEF ModelsOf
    <3>3. QED
      BY <1>0, <3>1, <3>2 DEF ModelsOf, Has
  <2>2. QED
    BY <1>0, <1>3, <2>1, ModelsShows, AllPropers DEF Models!Shows
<1>4. ASSUME Models!HandleDeleteProvider(p) PROVE ModelsInv'
  <2>1. PICK n1 : n1 = Models!Act("delete", p) /\ Fresh(n1, "act", "delete", p)
    BY ModelsNew
  <2>2. ModelsOf(ui, calls \union {n1})
    <3>1. PICK T : T = calls \union {n1}
      OBVIOUS
    <3>2. QED
      BY <1>0, <2>1, <3>1 DEF ModelsOf, Has, Fresh
  <2>3. AllProper({n1})
    BY <2>1, AllPropers DEF Fresh
  <2>4. QED
    BY <1>0, <1>4, <2>1, <2>2, <2>3, ModelsClicks DEF Models!HandleDeleteProvider
<1>5. ASSUME NEW f, Models!Shows([ui EXCEPT !.model = f]) PROVE ModelsInv'
  <2>1. ModelsOf([ui EXCEPT !.model = f], calls)
    <3>1. PICK w : w = [ui EXCEPT !.model = f]
      OBVIOUS
    <3>2. /\ DOMAIN w = DOMAIN ui
         /\ w.providers = ui.providers
         /\ w.default = ui.default
         /\ w.thinking = ui.thinking
         /\ w.reviewer = ui.reviewer
         /\ w.vision = ui.vision
         /\ w.form = ui.form
         /\ w.model = (f)
         /\ w.busy = ui.busy
      BY <1>0, <3>1 DEF ModelsOf
    <3>3. QED
      BY <1>0, <3>1, <3>2 DEF ModelsOf, Has
  <2>2. QED
    BY <1>0, <1>5, <2>1, ModelsShows, AllPropers DEF Models!Shows
<1>6. ASSUME Models!HandleBatchProbe(p) PROVE ModelsInv'
  <2>1. PICK n1 : n1 = Models!Act("batchProbe", [p |-> p, ids |-> ModelId]) /\ Fresh(n1, "act", "batchProbe", [p |-> p, ids |-> ModelId])
    BY ModelsNew DEF ModelsMarks
  <2>2. ModelsMarks(n1, "batch")
    BY <1>0, <2>1, <1>6 DEF ModelsOf, Has, Fresh, Models!HandleBatchProbe, ModelsMarks
  <2>3. ModelsOf([ui EXCEPT !.busy.batch = p], calls \union {n1})
    <3>1. PICK w : w = [ui EXCEPT !.busy.batch = p]
      OBVIOUS
    <3>2. /\ DOMAIN w = DOMAIN ui
         /\ DOMAIN w.busy = DOMAIN ui.busy
         /\ w.busy.loading = ui.busy.loading
         /\ w.busy.ping = ui.busy.ping
         /\ w.busy.sync = ui.busy.sync
         /\ w.busy.form = ui.busy.form
         /\ w.busy.batch = (p)
         /\ w.busy.probe = ui.busy.probe
         /\ w.busy.vision = ui.busy.vision
         /\ w.providers = ui.providers
         /\ w.default = ui.default
         /\ w.thinking = ui.thinking
         /\ w.reviewer = ui.reviewer
         /\ w.vision = ui.vision
         /\ w.form = ui.form
         /\ w.model = ui.model
      BY <1>0, <3>1 DEF ModelsOf
    <3>3. PICK T : T = calls \union {n1}
      OBVIOUS
    <3>4. DOMAIN w = {"providers", "default", "thinking", "reviewer", "vision", "form", "model", "busy"}
      BY <1>0, <2>1, <2>2, <3>2, <3>3 DEF ModelsOf, Has, Fresh
    <3>5. DOMAIN w.busy = {"loading", "ping", "sync", "form", "batch", "probe", "vision"}
      BY <1>0, <2>1, <2>2, <3>2, <3>3 DEF ModelsOf, Has, Fresh
    <3>6. \A c \in T : c.op = "settings" => c.arg.field \in {"default", "thinking", "reviewer"}
      BY <1>0, <2>1, <2>2, <3>2, <3>3 DEF ModelsOf, Has, Fresh
    <3>7. w.busy.loading # FALSE => Has(T, "load")
      BY <1>0, <2>1, <2>2, <3>2, <3>3 DEF ModelsOf, Has, Fresh
    <3>8. w.busy.ping # None => Has(T, "ping")
      BY <1>0, <2>1, <2>2, <3>2, <3>3 DEF ModelsOf, Has, Fresh
    <3>9. w.busy.sync # None => \E d \in T : ModelsMarks(d, "sync")
      BY <1>0, <2>1, <2>2, <3>2, <3>3 DEF ModelsOf, Has, Fresh
    <3>10. w.busy.form # FALSE => \E d \in T : ModelsMarks(d, "form")
      BY <1>0, <2>1, <2>2, <3>2, <3>3 DEF ModelsOf, Has, Fresh
    <3>11. w.busy.batch # None => \E d \in T : ModelsMarks(d, "batch")
      BY <1>0, <2>1, <2>2, <3>2, <3>3 DEF ModelsOf, Has, Fresh
    <3>12. w.busy.probe # None => \E d \in T : ModelsMarks(d, "probe")
      BY <1>0, <2>1, <2>2, <3>2, <3>3 DEF ModelsOf, Has, Fresh
    <3>13. w.busy.vision # FALSE => Has(T, "vision")
      BY <1>0, <2>1, <2>2, <3>2, <3>3 DEF ModelsOf, Has, Fresh
    <3>14. QED
      BY <3>1, <3>3, <3>4, <3>5, <3>6, <3>7, <3>8, <3>9, <3>10, <3>11, <3>12, <3>13 DEF ModelsOf
  <2>4. AllProper({n1})
    BY <2>1, <2>2, AllPropers DEF Fresh
  <2>5. QED
    BY <1>0, <1>6, <2>1, <2>2, <2>3, <2>4, ModelsClicks DEF Models!HandleBatchProbe, ModelsMarks
<1>7. ASSUME NEW a, Models!Clicks(ui, {Models!Act("save", a)}) PROVE ModelsInv'
  <2>1. PICK n1 : n1 = Models!Act("save", a) /\ Fresh(n1, "act", "save", a)
    BY ModelsNew
  <2>2. ModelsOf(ui, calls \union {n1})
    <3>1. PICK T : T = calls \union {n1}
      OBVIOUS
    <3>2. QED
      BY <1>0, <2>1, <3>1 DEF ModelsOf, Has, Fresh
  <2>3. AllProper({n1})
    BY <2>1, AllPropers DEF Fresh
  <2>4. QED
    BY <1>0, <1>7, <2>1, <2>2, <2>3, ModelsClicks DEF Models!Clicks
<1>8. ASSUME NEW m, Models!HandleProbeSingleModel(p, m) PROVE ModelsInv'
  <2>1. PICK n1 : n1 = Models!Act("probe", [p |-> p, ids |-> {m.id}]) /\ Fresh(n1, "act", "probe", [p |-> p, ids |-> {m.id}])
    BY ModelsNew DEF ModelsMarks
  <2>2. ModelsMarks(n1, "probe")
    BY <1>0, <2>1, <1>8 DEF ModelsOf, Has, Fresh, Models!HandleProbeSingleModel, ModelsMarks
  <2>3. ModelsOf([ui EXCEPT !.busy.probe = m.id], calls \union {n1})
    <3>1. PICK w : w = [ui EXCEPT !.busy.probe = m.id]
      OBVIOUS
    <3>2. /\ DOMAIN w = DOMAIN ui
         /\ DOMAIN w.busy = DOMAIN ui.busy
         /\ w.busy.loading = ui.busy.loading
         /\ w.busy.ping = ui.busy.ping
         /\ w.busy.sync = ui.busy.sync
         /\ w.busy.form = ui.busy.form
         /\ w.busy.batch = ui.busy.batch
         /\ w.busy.probe = (m.id)
         /\ w.busy.vision = ui.busy.vision
         /\ w.providers = ui.providers
         /\ w.default = ui.default
         /\ w.thinking = ui.thinking
         /\ w.reviewer = ui.reviewer
         /\ w.vision = ui.vision
         /\ w.form = ui.form
         /\ w.model = ui.model
      BY <1>0, <3>1 DEF ModelsOf
    <3>3. PICK T : T = calls \union {n1}
      OBVIOUS
    <3>4. DOMAIN w = {"providers", "default", "thinking", "reviewer", "vision", "form", "model", "busy"}
      BY <1>0, <2>1, <2>2, <3>2, <3>3 DEF ModelsOf, Has, Fresh
    <3>5. DOMAIN w.busy = {"loading", "ping", "sync", "form", "batch", "probe", "vision"}
      BY <1>0, <2>1, <2>2, <3>2, <3>3 DEF ModelsOf, Has, Fresh
    <3>6. \A c \in T : c.op = "settings" => c.arg.field \in {"default", "thinking", "reviewer"}
      BY <1>0, <2>1, <2>2, <3>2, <3>3 DEF ModelsOf, Has, Fresh
    <3>7. w.busy.loading # FALSE => Has(T, "load")
      BY <1>0, <2>1, <2>2, <3>2, <3>3 DEF ModelsOf, Has, Fresh
    <3>8. w.busy.ping # None => Has(T, "ping")
      BY <1>0, <2>1, <2>2, <3>2, <3>3 DEF ModelsOf, Has, Fresh
    <3>9. w.busy.sync # None => \E d \in T : ModelsMarks(d, "sync")
      BY <1>0, <2>1, <2>2, <3>2, <3>3 DEF ModelsOf, Has, Fresh
    <3>10. w.busy.form # FALSE => \E d \in T : ModelsMarks(d, "form")
      BY <1>0, <2>1, <2>2, <3>2, <3>3 DEF ModelsOf, Has, Fresh
    <3>11. w.busy.batch # None => \E d \in T : ModelsMarks(d, "batch")
      BY <1>0, <2>1, <2>2, <3>2, <3>3 DEF ModelsOf, Has, Fresh
    <3>12. w.busy.probe # None => \E d \in T : ModelsMarks(d, "probe")
      BY <1>0, <2>1, <2>2, <3>2, <3>3 DEF ModelsOf, Has, Fresh
    <3>13. w.busy.vision # FALSE => Has(T, "vision")
      BY <1>0, <2>1, <2>2, <3>2, <3>3 DEF ModelsOf, Has, Fresh
    <3>14. QED
      BY <3>1, <3>3, <3>4, <3>5, <3>6, <3>7, <3>8, <3>9, <3>10, <3>11, <3>12, <3>13 DEF ModelsOf
  <2>4. AllProper({n1})
    BY <2>1, <2>2, AllPropers DEF Fresh
  <2>5. QED
    BY <1>0, <1>8, <2>1, <2>2, <2>3, <2>4, ModelsClicks DEF Models!HandleProbeSingleModel, ModelsMarks
<1>9. QED
  BY <1>1, <1>2, <1>3, <1>4, <1>5, <1>6, <1>7, <1>8 DEF Models!CardHead, Models!CardTools, Models!BatchMenu, Models!CardModels, Models!OpenProvider, Models!OpenNewModel, Models!OpenEditModel, Models!HandleDeleteModel, Models!HandleBatchUpdate

LEMMA ModelsFormPart ==
  ASSUME ModelsInv, Models!ProviderForm \/ Models!ModelForm
  PROVE  ModelsInv'
<1>0. ModelsOf(ui, calls)
  BY DEF ModelsInv
<1>1. ASSUME Models!CloseForms PROVE ModelsInv'
  <2>1. ModelsOf([ui EXCEPT !.form = None, !.model = None], calls)
    <3>1. PICK w : w = [ui EXCEPT !.form = None, !.model = None]
      OBVIOUS
    <3>2. /\ DOMAIN w = DOMAIN ui
         /\ w.providers = ui.providers
         /\ w.default = ui.default
         /\ w.thinking = ui.thinking
         /\ w.reviewer = ui.reviewer
         /\ w.vision = ui.vision
         /\ w.form = (None)
         /\ w.model = (None)
         /\ w.busy = ui.busy
      BY <1>0, <3>1 DEF ModelsOf
    <3>3. QED
      BY <1>0, <3>1, <3>2 DEF ModelsOf, Has
  <2>2. QED
    BY <1>0, <1>1, <2>1, ModelsShows, AllPropers DEF Models!CloseForms
<1>2. ASSUME Models!HandleSyncFormModels PROVE ModelsInv'
  <2>1. PICK n1 : n1 = Models!Act("fetch", [p |-> ui.form.p, form |-> TRUE]) /\ Fresh(n1, "act", "fetch", [p |-> ui.form.p, form |-> TRUE])
    BY ModelsNew DEF ModelsMarks
  <2>2. ModelsMarks(n1, "form")
    BY <1>0, <2>1, <1>2 DEF ModelsOf, Has, Fresh, Models!HandleSyncFormModels, ModelsMarks
  <2>3. ModelsOf([ui EXCEPT !.busy.form = TRUE], calls \union {n1})
    <3>1. PICK w : w = [ui EXCEPT !.busy.form = TRUE]
      OBVIOUS
    <3>2. /\ DOMAIN w = DOMAIN ui
         /\ DOMAIN w.busy = DOMAIN ui.busy
         /\ w.busy.loading = ui.busy.loading
         /\ w.busy.ping = ui.busy.ping
         /\ w.busy.sync = ui.busy.sync
         /\ w.busy.form = (TRUE)
         /\ w.busy.batch = ui.busy.batch
         /\ w.busy.probe = ui.busy.probe
         /\ w.busy.vision = ui.busy.vision
         /\ w.providers = ui.providers
         /\ w.default = ui.default
         /\ w.thinking = ui.thinking
         /\ w.reviewer = ui.reviewer
         /\ w.vision = ui.vision
         /\ w.form = ui.form
         /\ w.model = ui.model
      BY <1>0, <3>1 DEF ModelsOf
    <3>3. PICK T : T = calls \union {n1}
      OBVIOUS
    <3>4. DOMAIN w = {"providers", "default", "thinking", "reviewer", "vision", "form", "model", "busy"}
      BY <1>0, <2>1, <2>2, <3>2, <3>3 DEF ModelsOf, Has, Fresh
    <3>5. DOMAIN w.busy = {"loading", "ping", "sync", "form", "batch", "probe", "vision"}
      BY <1>0, <2>1, <2>2, <3>2, <3>3 DEF ModelsOf, Has, Fresh
    <3>6. \A c \in T : c.op = "settings" => c.arg.field \in {"default", "thinking", "reviewer"}
      BY <1>0, <2>1, <2>2, <3>2, <3>3 DEF ModelsOf, Has, Fresh
    <3>7. w.busy.loading # FALSE => Has(T, "load")
      BY <1>0, <2>1, <2>2, <3>2, <3>3 DEF ModelsOf, Has, Fresh
    <3>8. w.busy.ping # None => Has(T, "ping")
      BY <1>0, <2>1, <2>2, <3>2, <3>3 DEF ModelsOf, Has, Fresh
    <3>9. w.busy.sync # None => \E d \in T : ModelsMarks(d, "sync")
      BY <1>0, <2>1, <2>2, <3>2, <3>3 DEF ModelsOf, Has, Fresh
    <3>10. w.busy.form # FALSE => \E d \in T : ModelsMarks(d, "form")
      BY <1>0, <2>1, <2>2, <3>2, <3>3 DEF ModelsOf, Has, Fresh
    <3>11. w.busy.batch # None => \E d \in T : ModelsMarks(d, "batch")
      BY <1>0, <2>1, <2>2, <3>2, <3>3 DEF ModelsOf, Has, Fresh
    <3>12. w.busy.probe # None => \E d \in T : ModelsMarks(d, "probe")
      BY <1>0, <2>1, <2>2, <3>2, <3>3 DEF ModelsOf, Has, Fresh
    <3>13. w.busy.vision # FALSE => Has(T, "vision")
      BY <1>0, <2>1, <2>2, <3>2, <3>3 DEF ModelsOf, Has, Fresh
    <3>14. QED
      BY <3>1, <3>3, <3>4, <3>5, <3>6, <3>7, <3>8, <3>9, <3>10, <3>11, <3>12, <3>13 DEF ModelsOf
  <2>4. AllProper({n1})
    BY <2>1, <2>2, AllPropers DEF Fresh
  <2>5. QED
    BY <1>0, <1>2, <2>1, <2>2, <2>3, <2>4, ModelsClicks DEF Models!HandleSyncFormModels, ModelsMarks
<1>3. ASSUME NEW a, Models!Clicks(ui, {Models!Act("save", a)}) PROVE ModelsInv'
  <2>1. PICK n1 : n1 = Models!Act("save", a) /\ Fresh(n1, "act", "save", a)
    BY ModelsNew
  <2>2. ModelsOf(ui, calls \union {n1})
    <3>1. PICK T : T = calls \union {n1}
      OBVIOUS
    <3>2. QED
      BY <1>0, <2>1, <3>1 DEF ModelsOf, Has, Fresh
  <2>3. AllProper({n1})
    BY <2>1, AllPropers DEF Fresh
  <2>4. QED
    BY <1>0, <1>3, <2>1, <2>2, <2>3, ModelsClicks DEF Models!Clicks
<1>4. ASSUME Models!HandleFormProbe PROVE ModelsInv'
  <2>1. PICK n1 : n1 = Models!Act("formProbe", [p |-> ui.model.p, ids |-> {ui.model.id}]) /\ Fresh(n1, "act", "formProbe", [p |-> ui.model.p, ids |-> {ui.model.id}])
    BY ModelsNew DEF ModelsMarks
  <2>2. ModelsMarks(n1, "probe")
    BY <1>0, <2>1, <1>4 DEF ModelsOf, Has, Fresh, Models!HandleFormProbe, ModelsMarks
  <2>3. ModelsOf([ui EXCEPT !.busy.probe = ui.model.id], calls \union {n1})
    <3>1. PICK w : w = [ui EXCEPT !.busy.probe = ui.model.id]
      OBVIOUS
    <3>2. /\ DOMAIN w = DOMAIN ui
         /\ DOMAIN w.busy = DOMAIN ui.busy
         /\ w.busy.loading = ui.busy.loading
         /\ w.busy.ping = ui.busy.ping
         /\ w.busy.sync = ui.busy.sync
         /\ w.busy.form = ui.busy.form
         /\ w.busy.batch = ui.busy.batch
         /\ w.busy.probe = (ui.model.id)
         /\ w.busy.vision = ui.busy.vision
         /\ w.providers = ui.providers
         /\ w.default = ui.default
         /\ w.thinking = ui.thinking
         /\ w.reviewer = ui.reviewer
         /\ w.vision = ui.vision
         /\ w.form = ui.form
         /\ w.model = ui.model
      BY <1>0, <3>1 DEF ModelsOf
    <3>3. PICK T : T = calls \union {n1}
      OBVIOUS
    <3>4. DOMAIN w = {"providers", "default", "thinking", "reviewer", "vision", "form", "model", "busy"}
      BY <1>0, <2>1, <2>2, <3>2, <3>3 DEF ModelsOf, Has, Fresh
    <3>5. DOMAIN w.busy = {"loading", "ping", "sync", "form", "batch", "probe", "vision"}
      BY <1>0, <2>1, <2>2, <3>2, <3>3 DEF ModelsOf, Has, Fresh
    <3>6. \A c \in T : c.op = "settings" => c.arg.field \in {"default", "thinking", "reviewer"}
      BY <1>0, <2>1, <2>2, <3>2, <3>3 DEF ModelsOf, Has, Fresh
    <3>7. w.busy.loading # FALSE => Has(T, "load")
      BY <1>0, <2>1, <2>2, <3>2, <3>3 DEF ModelsOf, Has, Fresh
    <3>8. w.busy.ping # None => Has(T, "ping")
      BY <1>0, <2>1, <2>2, <3>2, <3>3 DEF ModelsOf, Has, Fresh
    <3>9. w.busy.sync # None => \E d \in T : ModelsMarks(d, "sync")
      BY <1>0, <2>1, <2>2, <3>2, <3>3 DEF ModelsOf, Has, Fresh
    <3>10. w.busy.form # FALSE => \E d \in T : ModelsMarks(d, "form")
      BY <1>0, <2>1, <2>2, <3>2, <3>3 DEF ModelsOf, Has, Fresh
    <3>11. w.busy.batch # None => \E d \in T : ModelsMarks(d, "batch")
      BY <1>0, <2>1, <2>2, <3>2, <3>3 DEF ModelsOf, Has, Fresh
    <3>12. w.busy.probe # None => \E d \in T : ModelsMarks(d, "probe")
      BY <1>0, <2>1, <2>2, <3>2, <3>3 DEF ModelsOf, Has, Fresh
    <3>13. w.busy.vision # FALSE => Has(T, "vision")
      BY <1>0, <2>1, <2>2, <3>2, <3>3 DEF ModelsOf, Has, Fresh
    <3>14. QED
      BY <3>1, <3>3, <3>4, <3>5, <3>6, <3>7, <3>8, <3>9, <3>10, <3>11, <3>12, <3>13 DEF ModelsOf
  <2>4. AllProper({n1})
    BY <2>1, <2>2, AllPropers DEF Fresh
  <2>5. QED
    BY <1>0, <1>4, <2>1, <2>2, <2>3, <2>4, ModelsClicks DEF Models!HandleFormProbe, ModelsMarks
<1>5. QED
  BY <1>1, <1>2, <1>3, <1>4 DEF Models!ProviderForm, Models!ModelForm, Models!HandleSaveProvider, Models!HandleAddModel

LEMMA ModelsServed ==
  ASSUME ModelsInv, Models!ShellServes \/ (\E c \in calls : Models!Fails(c))
  PROVE  ModelsInv'
<1>0. ModelsOf(ui, calls)
  BY DEF ModelsInv
<1>1. CASE Models!ShellServes
  <2>1. PICK c \in calls : (\E s, got : Models!Serves(c, s, got))
    BY <1>1 DEF Models!ShellServes
  <2>2. c \in calls => \A at, got : ModelsOf(ui, Answered(c, at, got))
    BY <1>0, AnsweredAlike, ModelsAlike
  <2>3. QED
    BY <2>1, <2>2, ModelsServes DEF Models!Serves
<1>2. CASE \E c \in calls : Models!Fails(c)
  <2>1. PICK c \in calls : Models!Fails(c)
    BY <1>2
  <2>2. ModelsOf(ui, Answered(c, "failed", c.got))
    BY <1>0, <2>1, AnsweredAlike, ModelsAlike DEF Models!Fails
  <2>3. QED
    BY <2>1, <2>2, ModelsFails
<1>3. QED
  BY <1>1, <1>2

\* Of the markers, Cleared puts out that of after.
ModelsOut(u, after, w) ==
  /\ DOMAIN w = DOMAIN u /\ DOMAIN w.busy = DOMAIN u.busy /\ w.busy.loading = u.busy.loading
  /\ IF after = "ping" THEN w.busy.ping = None ELSE w.busy.ping = u.busy.ping
  /\ IF after = "sync" THEN w.busy.sync = None ELSE w.busy.sync = u.busy.sync
  /\ IF after = "form" THEN w.busy.form = FALSE ELSE w.busy.form = u.busy.form
  /\ IF after = "batch" THEN w.busy.batch = None ELSE w.busy.batch = u.busy.batch
  /\ IF after = "probe" THEN w.busy.probe = None ELSE w.busy.probe = u.busy.probe
  /\ IF after = "vision" THEN w.busy.vision = FALSE ELSE w.busy.vision = u.busy.vision

LEMMA ModelsCleared ==
  ASSUME NEW u, NEW after,
         DOMAIN u = {"providers", "default", "thinking", "reviewer", "vision", "form", "model", "busy"},
         DOMAIN u.busy = {"loading", "ping", "sync", "form", "batch", "probe", "vision"},
         NEW w, w = Models!Cleared(u, after)
  PROVE  ModelsOut(u, after, w)
<1> USE DEF ModelsOut
<1>1. CASE after \in {"ping", "sync", "batch", "probe"}
  <2>1. w = [u EXCEPT !.busy = [u.busy EXCEPT ![after] = None]]
    BY <1>1 DEF Models!Cleared
  <2>2. PICK b : b = [u.busy EXCEPT ![after] = None]
    OBVIOUS
  <2>3. w.busy = b /\ DOMAIN w = DOMAIN u
    BY <2>1, <2>2
  <2>4. QED
    BY <1>1, <2>2, <2>3
<1>2. CASE after \in {"form", "vision"}
  <2>1. w = [u EXCEPT !.busy = [u.busy EXCEPT ![after] = FALSE]]
    BY <1>2 DEF Models!Cleared
  <2>2. PICK b : b = [u.busy EXCEPT ![after] = FALSE]
    OBVIOUS
  <2>3. w.busy = b /\ DOMAIN w = DOMAIN u
    BY <2>1, <2>2
  <2>4. QED
    BY <1>2, <2>2, <2>3
<1>3. CASE after \notin {"ping", "sync", "batch", "probe"} \union {"form", "vision"}
  BY <1>3 DEF Models!Cleared
<1>4. QED
  BY <1>1, <1>2, <1>3

\* A call returns: its marker goes out, or a load takes it over.
LEMMA ModelsRest ==
  ASSUME ModelsOf(ui, calls), NEW c \in calls, NEW w, NEW T, calls \ {c} \subseteq T,
         \A d \in T : d \in calls \/ d.op # "settings",
         DOMAIN w = DOMAIN ui, DOMAIN w.busy = DOMAIN ui.busy,
         w.busy.loading = FALSE \/ Has(T, "load") \/ (c.op # "load" /\ w.busy.loading = ui.busy.loading),
         w.busy.ping = None \/ (c.op # "ping" /\ w.busy.ping = ui.busy.ping),
         w.busy.vision = FALSE \/ (c.op # "vision" /\ w.busy.vision = ui.busy.vision),
         \/ w.busy.sync = None \/ \E d \in T : ModelsMarks(d, "sync")
         \/ (~ModelsMarks(c, "sync") /\ w.busy.sync = ui.busy.sync),
         \/ w.busy.form = FALSE \/ \E d \in T : ModelsMarks(d, "form")
         \/ (~ModelsMarks(c, "form") /\ w.busy.form = ui.busy.form),
         \/ w.busy.batch = None \/ \E d \in T : ModelsMarks(d, "batch")
         \/ (~ModelsMarks(c, "batch") /\ w.busy.batch = ui.busy.batch),
         \/ w.busy.probe = None \/ \E d \in T : ModelsMarks(d, "probe")
         \/ (~ModelsMarks(c, "probe") /\ w.busy.probe = ui.busy.probe)
  PROVE  ModelsOf(w, T)
<1>1. /\ w.busy.loading # FALSE => Has(T, "load")
      /\ w.busy.ping # None => Has(T, "ping")
      /\ w.busy.vision # FALSE => Has(T, "vision")
  BY DEF ModelsOf, Has
<1>2. QED
  BY <1>1 DEF ModelsOf

LEMMA ModelsEnding ==
  ASSUME ModelsOf(ui, calls), NEW c \in calls, NEW w,
         DOMAIN w = DOMAIN ui, DOMAIN w.busy = DOMAIN ui.busy,
         /\ w.busy.loading = FALSE \/ (c.op # "load" /\ w.busy.loading = ui.busy.loading),
         /\ w.busy.ping = None \/ (c.op # "ping" /\ w.busy.ping = ui.busy.ping),
         /\ w.busy.vision = FALSE \/ (c.op # "vision" /\ w.busy.vision = ui.busy.vision),
         /\ w.busy.sync = None \/ (~ModelsMarks(c, "sync") /\ w.busy.sync = ui.busy.sync),
         /\ w.busy.form = FALSE \/ (~ModelsMarks(c, "form") /\ w.busy.form = ui.busy.form),
         /\ w.busy.batch = None \/ (~ModelsMarks(c, "batch") /\ w.busy.batch = ui.busy.batch),
         /\ w.busy.probe = None \/ (~ModelsMarks(c, "probe") /\ w.busy.probe = ui.busy.probe)
  PROVE  ModelsOf(w, calls \ {c})
<1>1. /\ w.busy.loading # FALSE => Has(calls \ {c}, "load")
      /\ w.busy.ping # None => Has(calls \ {c}, "ping")
      /\ w.busy.vision # FALSE => Has(calls \ {c}, "vision")
  BY DEF ModelsOf, Has
<1>2. /\ w.busy.sync # None => \E d \in calls \ {c} : ModelsMarks(d, "sync")
      /\ w.busy.form # FALSE => \E d \in calls \ {c} : ModelsMarks(d, "form")
      /\ w.busy.batch # None => \E d \in calls \ {c} : ModelsMarks(d, "batch")
      /\ w.busy.probe # None => \E d \in calls \ {c} : ModelsMarks(d, "probe")
  BY DEF ModelsOf
<1>3. QED
  BY <1>1, <1>2 DEF ModelsOf

LEMMA ModelsReturned ==
  ASSUME ModelsInv, Models!TabReturns
  PROVE  ModelsInv'
<1>0. ModelsOf(ui, calls)
  BY DEF ModelsInv
<1>1. CASE \E c \in calls : Models!LoadReturns(c)
  <2>1. PICK c \in calls : Models!LoadReturns(c)
    BY <1>1
  <2>2. PICK u : u = IF Models!Ok(c)
             THEN [ui EXCEPT !.providers = c.got.providers, !.vision = c.got.vision, !.reviewer = c.got.reviewer,
                             !.default = IF c.got.default # None THEN c.got.default ELSE @,
                             !.thinking = c.got.thinking]
             ELSE [ui EXCEPT !.providers = Models!Nobody]
    OBVIOUS
  <2>3. DOMAIN u = DOMAIN ui /\ u.busy = ui.busy
    BY <1>0, <2>2 DEF ModelsOf
  <2>4. PICK b : b = [ui.busy EXCEPT !.loading = FALSE]
    OBVIOUS
  <2>5. PICK v : v = [u EXCEPT !.busy.loading = FALSE]
    OBVIOUS
  <2>6. v.busy = b /\ DOMAIN v = DOMAIN ui
    BY <1>0, <2>3, <2>4, <2>5 DEF ModelsOf
  <2>7. /\ DOMAIN v.busy = DOMAIN ui.busy /\ v.busy.loading = FALSE /\ v.busy.ping = ui.busy.ping
        /\ v.busy.sync = ui.busy.sync /\ v.busy.form = ui.busy.form /\ v.busy.batch = ui.busy.batch
        /\ v.busy.probe = ui.busy.probe /\ v.busy.vision = ui.busy.vision
    BY <1>0, <2>4, <2>6 DEF ModelsOf
  <2>8. c.op = "load" /\ Models!Goes(c, Models!Cleared(v, c.arg), {}, {}, FALSE)
    BY <2>1, <2>2, <2>5 DEF Models!LoadReturns
  <2>9. PICK w : w = Models!Cleared(v, c.arg)
    OBVIOUS
  <2>10. \A f \in {"sync", "form", "batch", "probe"} : ModelsMarks(c, f) => c.arg = f
    BY <2>8 DEF ModelsMarks
  <2>11. ModelsOf(w, calls \ {c})
    <3>1. /\ DOMAIN v = {"providers", "default", "thinking", "reviewer", "vision", "form", "model", "busy"}
          /\ DOMAIN v.busy = {"loading", "ping", "sync", "form", "batch", "probe", "vision"}
      BY <1>0, <2>6, <2>7 DEF ModelsOf
    <3>2. /\ DOMAIN w = DOMAIN ui /\ DOMAIN w.busy = DOMAIN ui.busy
          /\ w.busy.loading = FALSE \/ (c.op # "load" /\ w.busy.loading = ui.busy.loading)
          /\ w.busy.ping = None \/ (c.op # "ping" /\ w.busy.ping = ui.busy.ping)
          /\ w.busy.vision = FALSE \/ (c.op # "vision" /\ w.busy.vision = ui.busy.vision)
          /\ w.busy.sync = None \/ (~ModelsMarks(c, "sync") /\ w.busy.sync = ui.busy.sync)
          /\ w.busy.form = FALSE \/ (~ModelsMarks(c, "form") /\ w.busy.form = ui.busy.form)
          /\ w.busy.batch = None \/ (~ModelsMarks(c, "batch") /\ w.busy.batch = ui.busy.batch)
          /\ w.busy.probe = None \/ (~ModelsMarks(c, "probe") /\ w.busy.probe = ui.busy.probe)
      <4>1. ModelsOut(v, c.arg, w)
        BY <2>9, <3>1, ModelsCleared
      <4>2. QED
        BY <2>6, <2>7, <2>8, <2>9, <2>10, <3>1, <4>1 DEF ModelsOut
    <3>3. QED
      BY <1>0, <2>8, <3>2, ModelsEnding
  <2>12. QED
    BY <2>8, <2>9, <2>11, ModelsEnds
<1>2. CASE \E c \in calls : Models!SettingsReturn(c)
  <2>1. PICK c \in calls : Models!SettingsReturn(c)
    BY <1>2
  <2>2. PICK w : w = IF Models!Ok(c) THEN [ui EXCEPT ![c.arg.field] = c.arg.value] ELSE ui
    OBVIOUS
  <2>3. c.op = "settings" /\ c.arg.field \in {"default", "thinking", "reviewer"}
    BY <1>0, <2>1 DEF Models!SettingsReturn, ModelsOf
  <2>4. DOMAIN w = DOMAIN ui /\ w.busy = ui.busy
    BY <1>0, <2>2, <2>3 DEF ModelsOf
  <2>5. \A f \in {"sync", "form", "batch", "probe"} : ~ModelsMarks(c, f)
    BY <2>3 DEF ModelsMarks
  <2>6. ModelsOf(w, calls \ {c})
    BY <1>0, <2>3, <2>4, <2>5, ModelsEnding
  <2>7. QED
    BY <2>1, <2>2, <2>6, ModelsEnds DEF Models!SettingsReturn
<1>3. CASE \E c \in calls : Models!PingReturns(c) \/ Models!FormProbeReturns(c) \/ Models!VisionReturns(c)
  <2>1. PICK c \in calls : Models!PingReturns(c) \/ Models!FormProbeReturns(c) \/ Models!VisionReturns(c)
    BY <1>3
  <2>2. PICK u, after, s :
          /\ Models!Goes(c, Models!Cleared(u, after), {}, {}, s)
          /\ u = ui \/ u = [ui EXCEPT !.vision = c.got]
          /\ \/ c.op = "ping" /\ after = "ping"
             \/ c.op = "formProbe" /\ after = "probe"
             \/ c.op = "vision" /\ after = "vision"
    <3>1. CASE Models!PingReturns(c)
      BY <3>1 DEF Models!PingReturns
    <3>2. CASE Models!FormProbeReturns(c)
      BY <3>2 DEF Models!FormProbeReturns
    <3>3. CASE Models!VisionReturns(c)
      BY <3>3 DEF Models!VisionReturns
    <3>4. QED
      BY <2>1, <3>1, <3>2, <3>3
  <2>3. DOMAIN u = DOMAIN ui /\ u.busy = ui.busy
    BY <1>0, <2>2 DEF ModelsOf
  <2>4. \A f \in {"sync", "form", "batch", "probe"} : ModelsMarks(c, f) => after = f
    BY <2>2 DEF ModelsMarks
  <2>5. PICK w : w = Models!Cleared(u, after)
    OBVIOUS
  <2>6. ModelsOf(w, calls \ {c})
    <3>1. /\ DOMAIN u = {"providers", "default", "thinking", "reviewer", "vision", "form", "model", "busy"}
          /\ DOMAIN u.busy = {"loading", "ping", "sync", "form", "batch", "probe", "vision"}
      BY <1>0, <2>3 DEF ModelsOf
    <3>2. /\ DOMAIN w = DOMAIN ui /\ DOMAIN w.busy = DOMAIN ui.busy
          /\ w.busy.loading = FALSE \/ (c.op # "load" /\ w.busy.loading = ui.busy.loading)
          /\ w.busy.ping = None \/ (c.op # "ping" /\ w.busy.ping = ui.busy.ping)
          /\ w.busy.vision = FALSE \/ (c.op # "vision" /\ w.busy.vision = ui.busy.vision)
          /\ w.busy.sync = None \/ (~ModelsMarks(c, "sync") /\ w.busy.sync = ui.busy.sync)
          /\ w.busy.form = FALSE \/ (~ModelsMarks(c, "form") /\ w.busy.form = ui.busy.form)
          /\ w.busy.batch = None \/ (~ModelsMarks(c, "batch") /\ w.busy.batch = ui.busy.batch)
          /\ w.busy.probe = None \/ (~ModelsMarks(c, "probe") /\ w.busy.probe = ui.busy.probe)
      <4>1. ModelsOut(u, after, w)
        BY <2>5, <3>1, ModelsCleared
      <4>2. QED
        BY <2>2, <2>3, <2>4, <2>5, <3>1, <4>1 DEF ModelsOut
    <3>3. QED
      BY <1>0, <3>2, ModelsEnding
  <2>7. QED
    BY <2>2, <2>5, <2>6, ModelsEnds
<1>4. CASE \E c \in calls : Models!OperationReturns(c)
  <2>1. PICK c \in calls : Models!OperationReturns(c)
    BY <1>4
  <2>2. PICK u : u = CASE c.op = "fetch" /\ c.arg.form /\ ui.form # None /\ Models!Ok(c) /\ c.got # {} ->
                            [ui EXCEPT !.form.models = c.got]
                       [] c.op = "save" /\ Models!Ok(c) /\ c.arg.form = "provider" -> [ui EXCEPT !.form = None]
                       [] c.op = "save" /\ Models!Ok(c) /\ c.arg.form = "model" -> [ui EXCEPT !.model = None]
                       [] OTHER -> ui
    OBVIOUS
  <2>3. /\ c.op \in {"fetch", "batchProbe", "probe", "save", "delete"}
        /\ \/ Models!Goes(c, Models!Reloading(u), {Models!LoadData(Models!Waits(c))}, {}, FALSE)
           \/ Models!Goes(c, Models!Cleared(u, Models!Waits(c)), {}, {}, FALSE)
    BY <2>1, <2>2 DEF Models!OperationReturns
  <2>4. DOMAIN u = DOMAIN ui /\ u.busy = ui.busy
    BY <1>0, <2>2 DEF ModelsOf
  <2>5. PICK after : after = Models!Waits(c)
    OBVIOUS
  <2>6. \A f \in {"sync", "form", "batch", "probe"} : ModelsMarks(c, f) => after = f
    BY <2>3, <2>5 DEF ModelsMarks, Models!Waits
  <2>7. CASE Models!Goes(c, Models!Cleared(u, after), {}, {}, FALSE)
    <3>1. PICK w : w = Models!Cleared(u, after)
      OBVIOUS
    <3>2. /\ DOMAIN u = {"providers", "default", "thinking", "reviewer", "vision", "form", "model", "busy"}
          /\ DOMAIN u.busy = {"loading", "ping", "sync", "form", "batch", "probe", "vision"}
      BY <1>0, <2>4 DEF ModelsOf
    <3>3. /\ DOMAIN w = DOMAIN ui /\ DOMAIN w.busy = DOMAIN ui.busy
          /\ w.busy.loading = FALSE \/ (c.op # "load" /\ w.busy.loading = ui.busy.loading)
          /\ w.busy.ping = None \/ (c.op # "ping" /\ w.busy.ping = ui.busy.ping)
          /\ w.busy.vision = FALSE \/ (c.op # "vision" /\ w.busy.vision = ui.busy.vision)
          /\ w.busy.sync = None \/ (~ModelsMarks(c, "sync") /\ w.busy.sync = ui.busy.sync)
          /\ w.busy.form = FALSE \/ (~ModelsMarks(c, "form") /\ w.busy.form = ui.busy.form)
          /\ w.busy.batch = None \/ (~ModelsMarks(c, "batch") /\ w.busy.batch = ui.busy.batch)
          /\ w.busy.probe = None \/ (~ModelsMarks(c, "probe") /\ w.busy.probe = ui.busy.probe)
      <4>1. ModelsOut(u, after, w)
        BY <3>1, <3>2, ModelsCleared
      <4>2. QED
        BY <2>3, <2>4, <2>6, <3>1, <3>2, <4>1 DEF ModelsOut
    <3>4. ModelsOf(w, calls \ {c})
      BY <1>0, <3>3, ModelsEnding
    <3>5. QED
      BY <2>7, <3>1, <3>4, ModelsEnds
  <2>8. CASE Models!Goes(c, Models!Reloading(u), {Models!LoadData(after)}, {}, FALSE)
    <3>1. PICK n : n = Models!LoadData(after) /\ Fresh(n, "load", "load", after)
      BY ModelsNew DEF Models!LoadData
    <3>2. PICK b : b = [ui.busy EXCEPT !.loading = TRUE]
      OBVIOUS
    <3>3. PICK w : w = Models!Reloading(u)
      OBVIOUS
    <3>4. w.busy = b /\ DOMAIN w = DOMAIN ui
      BY <1>0, <2>4, <3>2, <3>3 DEF Models!Reloading, ModelsOf
    <3>5. /\ DOMAIN w.busy = DOMAIN ui.busy /\ w.busy.ping = ui.busy.ping
          /\ w.busy.sync = ui.busy.sync /\ w.busy.form = ui.busy.form /\ w.busy.batch = ui.busy.batch
          /\ w.busy.probe = ui.busy.probe /\ w.busy.vision = ui.busy.vision
      BY <1>0, <3>2, <3>4 DEF ModelsOf
    <3>6. PICK T : T = (calls \ {c}) \union {n}
      OBVIOUS
    <3>7. Has(T, "load") /\ \A d \in T : d \in calls \/ d.op # "settings"
      BY <3>1, <3>6 DEF Has, Fresh
    <3>8. \A f \in {"sync", "form", "batch", "probe"} :
            \/ ~ModelsMarks(c, f)
            \/ \E d \in T : ModelsMarks(d, f)
      BY <2>6, <3>1, <3>6 DEF ModelsMarks, Fresh
    <3>9. ModelsOf(w, T)
      <4>1. /\ calls \ {c} \subseteq T
            /\ w.busy.vision = FALSE \/ (c.op # "vision" /\ w.busy.vision = ui.busy.vision)
            /\ w.busy.ping = None \/ (c.op # "ping" /\ w.busy.ping = ui.busy.ping)
            /\ \/ w.busy.sync = None \/ \E d \in T : ModelsMarks(d, "sync")
               \/ (~ModelsMarks(c, "sync") /\ w.busy.sync = ui.busy.sync)
            /\ \/ w.busy.form = FALSE \/ \E d \in T : ModelsMarks(d, "form")
               \/ (~ModelsMarks(c, "form") /\ w.busy.form = ui.busy.form)
            /\ \/ w.busy.batch = None \/ \E d \in T : ModelsMarks(d, "batch")
               \/ (~ModelsMarks(c, "batch") /\ w.busy.batch = ui.busy.batch)
            /\ \/ w.busy.probe = None \/ \E d \in T : ModelsMarks(d, "probe")
               \/ (~ModelsMarks(c, "probe") /\ w.busy.probe = ui.busy.probe)
        BY <2>3, <3>5, <3>6, <3>8
      <4>2. QED
        BY <1>0, <3>4, <3>5, <3>7, <4>1, ModelsRest
    <3>10. AllProper({n})
      BY <3>1, AllPropers DEF Fresh
    <3>11. QED
      BY <2>8, <3>1, <3>3, <3>6, <3>9, <3>10, ModelsSends
  <2>9. QED
    BY <2>3, <2>5, <2>7, <2>8
<1>5. QED
  BY <1>1, <1>2, <1>3, <1>4 DEF Models!TabReturns

LEMMA ModelsStep == ModelsInv /\ Models!Next => ModelsInv'
  BY ModelsMainPart, ModelsCardPart, ModelsFormPart, ModelsServed, ModelsReturned DEF Models!Next

(***************************************************************************)
(* The extensions tab of the settings.                                     *)
(***************************************************************************)
(* The markers of the extensions tab: the mark of a load ends with the load  *)
(* of what is selected, as long as the selection did not leave the ref.      *)
ExtensionsOf(u, S) ==
  /\ DOMAIN u = {"selected", "ref", "lagged", "caps", "loading", "busy", "preview"}
  /\ u.lagged \in BOOLEAN
  /\ u.lagged = FALSE => u.ref = u.selected
  /\ \A c \in S : c.op = "capabilities" <=> c.kind = "load"
  /\ \A c \in S : c.kind # "detail"
  /\ u.loading # FALSE /\ u.lagged = FALSE => \E c \in S : c.op = "capabilities" /\ c.arg = u.selected
  /\ u.busy # None => \E c \in S : c.kind = "act"

ExtensionsInv == Base(ClicksOf["extensions"]) /\ ExtensionsOf(ui, calls)

LEMMA ExtensionsAlike ==
  ASSUME NEW u, NEW S, NEW T, Alike(S, T), ExtensionsOf(u, S)
  PROVE  ExtensionsOf(u, T)
<1>1. /\ DOMAIN u = {"selected", "ref", "lagged", "caps", "loading", "busy", "preview"}
      /\ u.lagged \in BOOLEAN
      /\ u.lagged = FALSE => u.ref = u.selected
  BY DEF ExtensionsOf
<1>2. \A c \in T : c.op = "capabilities" <=> c.kind = "load"
  BY DEF ExtensionsOf, Alike, Same, Has
<1>3. \A c \in T : c.kind # "detail"
  BY DEF ExtensionsOf, Alike, Same, Has
<1>4. u.loading # FALSE /\ u.lagged = FALSE =>
        \E c \in T : c.op = "capabilities" /\ c.arg = u.selected
  BY DEF ExtensionsOf, Alike, Same, Has
<1>5. u.busy # None => \E c \in T : c.kind = "act"
  BY DEF ExtensionsOf, Alike, Same, Has
<1>6. QED
  BY <1>1, <1>2, <1>3, <1>4, <1>5 DEF ExtensionsOf

LEMMA ExtensionsKeeps ==
  ASSUME ExtensionsInv, NEW u, NEW S, Moves(u, S, ClicksOf["extensions"]), ExtensionsOf(u, S)
  PROVE  ExtensionsInv'
<1>1. ExtensionsOf(u, calls') /\ ui' = u
  BY FollowsAlike, ExtensionsAlike DEF Moves
<1>2. Base(ClicksOf["extensions"])'
  BY LimitsAssumption DEF Moves, Follows, Base, AllProper, Panels, ExtensionsInv
<1>3. QED
  BY <1>1, <1>2 DEF ExtensionsInv

LEMMA ExtensionsTurns ==
  ASSUME ExtensionsInv, NEW u, NEW new, NEW gone, Extensions!Turns(u, new, gone), AllProper(new), ExtensionsOf(u, (calls \ gone) \union new)
  PROVE  ExtensionsInv'
<1>1. Moves(u, (calls \ gone) \union new, ClicksOf["extensions"])
  BY TurnMoves DEF ExtensionsInv, Extensions!Turns, Extensions!Joined, P!Joined, Extensions!Disturbed, P!Disturbed, Extensions!Clash, P!Clash, Extensions!Touched, P!Touched
<1>2. QED
  BY <1>1, ExtensionsKeeps

LEMMA ExtensionsClicks ==
  ASSUME ExtensionsInv, NEW u, NEW new, Extensions!Clicks(u, new), AllProper(new), ExtensionsOf(u, calls \union new)
  PROVE  ExtensionsInv'
<1>1. Extensions!Turns(u, new, {}) /\ (calls \ {}) \union new = calls \union new
  BY DEF Extensions!Clicks
<1>2. QED
  BY <1>1, ExtensionsTurns

LEMMA ExtensionsShows ==
  ASSUME ExtensionsInv, NEW u, Extensions!Shows(u), ExtensionsOf(u, calls)
  PROVE  ExtensionsInv'
<1>1. Moves(u, calls, ClicksOf["extensions"])
  BY ShowMoves DEF ExtensionsInv, Extensions!Shows
<1>2. QED
  BY <1>1, ExtensionsKeeps

LEMMA ExtensionsServes ==
  ASSUME ExtensionsInv, NEW c, NEW s, NEW got, Extensions!Serves(c, s, got), ExtensionsOf(ui, Answered(c, "served", got))
  PROVE  ExtensionsInv'
<1>1. Moves(ui, Answered(c, "served", got), ClicksOf["extensions"])
  BY ServeMoves DEF ExtensionsInv, Extensions!Serves
<1>2. QED
  BY <1>1, ExtensionsKeeps

LEMMA ExtensionsFails ==
  ASSUME ExtensionsInv, NEW c, Extensions!Fails(c), ExtensionsOf(ui, Answered(c, "failed", c.got))
  PROVE  ExtensionsInv'
<1>1. Moves(ui, Answered(c, "failed", c.got), ClicksOf["extensions"])
  BY FailMoves DEF ExtensionsInv, Extensions!Fails
<1>2. QED
  BY <1>1, ExtensionsKeeps

LEMMA ExtensionsGoes ==
  ASSUME ExtensionsInv, NEW c, NEW u, NEW new, NEW gone, NEW spoils, 
         Extensions!Goes(c, u, new, gone, spoils), AllProper(new), ExtensionsOf(u, (calls \ ({c} \union gone)) \union new)
  PROVE  ExtensionsInv'
<1>1. Moves(u, (calls \ ({c} \union gone)) \union new, ClicksOf["extensions"])
  BY GoMoves DEF ExtensionsInv, Extensions!Goes, Extensions!Joined, P!Joined, Extensions!Disturbed, P!Disturbed, Extensions!Clash, P!Clash, Extensions!Touched, P!Touched
<1>2. QED
  BY <1>1, ExtensionsKeeps

LEMMA ExtensionsSends ==
  ASSUME ExtensionsInv, NEW c, NEW u, NEW new, NEW spoils, Extensions!Goes(c, u, new, {}, spoils), AllProper(new),
         ExtensionsOf(u, (calls \ {c}) \union new)
  PROVE  ExtensionsInv'
<1>1. (calls \ ({c} \union {})) \union new = (calls \ {c}) \union new
  OBVIOUS
<1>2. QED
  BY <1>1, ExtensionsGoes

LEMMA ExtensionsEnds ==
  ASSUME ExtensionsInv, NEW c, NEW u, NEW spoils, Extensions!Goes(c, u, {}, {}, spoils), ExtensionsOf(u, calls \ {c})
  PROVE  ExtensionsInv'
<1>1. AllProper({}) /\ (calls \ {c}) \union {} = calls \ {c}
  BY DEF AllProper
<1>2. QED
  BY <1>1, ExtensionsSends


LEMMA ExtensionsNew ==
  /\ \A op, arg : Fresh(Extensions!Load(op, arg), "load", op, arg)
  /\ \A op, arg : Fresh(Extensions!Act(op, arg), "act", op, arg)
  BY DEF Extensions!Load, Extensions!Act, Extensions!LoadOf, Extensions!ActOn, Extensions!Whole, Extensions!Sent, Fresh, Proper, IsCall

LEMMA ExtensionsInit == Extensions!Init => ExtensionsInv
  BY LimitsAssumption DEF Extensions!Init, ExtensionsInv, ExtensionsOf, Base, Panels, AllProper, Has

\* A click on a button that changes what is installed.
LEMMA ExtensionsMutates ==
  ASSUME ExtensionsInv, NEW u, NEW op \in {"install", "remove"}, NEW p, Extensions!Mutates(u, op, p),
         u = ui \/ u = [ui EXCEPT !.preview = None]
  PROVE  ExtensionsInv'
<1>0. ExtensionsOf(ui, calls)
  BY DEF ExtensionsInv
<1>1. /\ DOMAIN u = DOMAIN ui /\ u.selected = ui.selected /\ u.loading = ui.loading
      /\ u.ref = ui.ref /\ u.lagged = ui.lagged
  BY <1>0 DEF ExtensionsOf
<1>2. Fresh(Extensions!Act(op, p), "act", op, p)
  BY ExtensionsNew
<1>3. ExtensionsOf([u EXCEPT !.busy = p], calls \union {Extensions!Act(op, p)})
  BY <1>0, <1>1, <1>2 DEF ExtensionsOf, Fresh
<1>4. AllProper({Extensions!Act(op, p)})
  BY <1>2, AllPropers DEF Fresh
<1>5. QED
  BY <1>3, <1>4, ExtensionsClicks DEF Extensions!Mutates

LEMMA ExtensionsShow ==
  ASSUME ExtensionsInv, NEW p, Extensions!Show(p)
  PROVE  ExtensionsInv'
<1>1. ExtensionsOf([ui EXCEPT !.preview = p], calls)
  BY DEF ExtensionsInv, ExtensionsOf
<1>2. QED
  BY <1>1, ExtensionsShows DEF Extensions!Show

\* Another conversation is on the screen.
LEMMA ExtensionsGoto ==
  ASSUME ExtensionsInv, NEW u, Extensions!Goto(u), DOMAIN u = DOMAIN ui, u.lagged \in BOOLEAN,
         u.lagged = FALSE => u.ref = u.selected, u.busy = ui.busy
  PROVE  ExtensionsInv'
<1>0. ExtensionsOf(ui, calls)
  BY DEF ExtensionsInv
<1>1. PICK n : n = Extensions!LoadCapabilities(u.selected)
               /\ Fresh(n, "load", "capabilities", u.selected)
  BY ExtensionsNew DEF Extensions!LoadCapabilities
<1>2. PICK new : new = IF u.selected = None THEN {} ELSE {n}
  OBVIOUS
<1>3. PICK w : w = [u EXCEPT !.caps = None, !.loading = u.selected # None]
  OBVIOUS
<1>4. /\ DOMAIN w = DOMAIN ui /\ w.lagged = u.lagged /\ w.ref = u.ref /\ w.selected = u.selected
      /\ w.loading = (u.selected # None) /\ w.busy = ui.busy
  BY <1>0, <1>3 DEF ExtensionsOf
<1>5. ExtensionsOf(w, calls \union new)
  BY <1>0, <1>1, <1>2, <1>4 DEF ExtensionsOf, Fresh
<1>6. AllProper(new)
  BY <1>1, <1>2, AllPropers DEF Fresh
<1>7. QED
  BY <1>1, <1>2, <1>3, <1>5, <1>6, ExtensionsClicks DEF Extensions!Goto

LEMMA ExtensionsHandle ==
  ASSUME ExtensionsInv, Extensions!SkillsTab \/ Extensions!MarketTab \/ Extensions!Preview \/ Extensions!OnReload
         \/ (\E id \in Chat \union {None} : Extensions!Select(id) \/ Extensions!ListMovesSelection(id))
  PROVE  ExtensionsInv'
<1>0. ExtensionsOf(ui, calls)
  BY DEF ExtensionsInv
<1>1. CASE Extensions!SkillsTab \/ Extensions!MarketTab \/ Extensions!Preview
  BY <1>1, ExtensionsMutates, ExtensionsShow DEF Extensions!SkillsTab, Extensions!MarketTab, Extensions!Preview, Extensions!PreviewFooter, Extensions!OnInstallPackage
<1>2. ASSUME NEW id \in Chat \union {None}, Extensions!Select(id) PROVE ExtensionsInv'
  <2>1. CASE id = ui.selected
    <3>1. ExtensionsOf([ui EXCEPT !.ref = id], calls)
      BY <1>0, <2>1 DEF ExtensionsOf
    <3>2. QED
      BY <1>2, <2>1, <3>1, ExtensionsShows DEF Extensions!Select
  <2>2. CASE id # ui.selected
    <3>1. PICK u : u = [ui EXCEPT !.selected = id, !.ref = id, !.lagged = FALSE]
      OBVIOUS
    <3>2. DOMAIN u = DOMAIN ui /\ u.lagged = FALSE /\ u.ref = u.selected /\ u.busy = ui.busy
      BY <1>0, <3>1 DEF ExtensionsOf
    <3>3. QED
      BY <1>2, <2>2, <3>1, <3>2, ExtensionsGoto DEF Extensions!Select
  <2>3. QED
    BY <2>1, <2>2
<1>5. ASSUME NEW id \in Chat \union {None}, Extensions!ListMovesSelection(id) PROVE ExtensionsInv'
  <2>1. PICK u : u = [ui EXCEPT !.selected = id, !.lagged = id # ui.ref]
    OBVIOUS
  <2>2. /\ DOMAIN u = DOMAIN ui /\ u.lagged \in BOOLEAN /\ u.busy = ui.busy
        /\ u.lagged = FALSE => u.ref = u.selected
    BY <1>0, <2>1 DEF ExtensionsOf
  <2>3. QED
    BY <1>5, <2>1, <2>2, ExtensionsGoto DEF Extensions!ListMovesSelection
<1>3. ASSUME Extensions!OnReload PROVE ExtensionsInv'
  <2>1. PICK n1 : n1 = Extensions!LoadCapabilities(ui.selected) /\ Fresh(n1, "load", "capabilities", ui.selected)
    BY ExtensionsNew DEF Extensions!LoadCapabilities
  <2>2. ExtensionsOf([ui EXCEPT !.loading = TRUE], calls \union {n1})
    <3>1. PICK w : w = [ui EXCEPT !.loading = TRUE]
      OBVIOUS
    <3>2. /\ DOMAIN w = DOMAIN ui
         /\ w.selected = ui.selected /\ w.ref = ui.ref /\ w.lagged = ui.lagged
         /\ w.caps = ui.caps
         /\ w.loading = (TRUE)
         /\ w.busy = ui.busy
         /\ w.preview = ui.preview
      BY <1>0, <3>1 DEF ExtensionsOf
    <3>3. PICK T : T = calls \union {n1}
      OBVIOUS
    <3>4. QED
      BY <1>0, <2>1, <3>1, <3>2, <3>3 DEF ExtensionsOf, Has, Fresh
  <2>3. AllProper({n1})
    BY <2>1, AllPropers DEF Fresh
  <2>4. QED
    BY <1>0, <1>3, <2>1, <2>2, <2>3, ExtensionsClicks DEF Extensions!OnReload, Extensions!LoadCapabilities
<1>4. QED
  BY <1>1, <1>2, <1>3, <1>5

LEMMA ExtensionsServed ==
  ASSUME ExtensionsInv, Extensions!ShellServes \/ (\E c \in calls : Extensions!Fails(c))
  PROVE  ExtensionsInv'
<1>0. ExtensionsOf(ui, calls)
  BY DEF ExtensionsInv
<1>1. CASE Extensions!ShellServes
  <2>1. PICK c \in calls : (\E s, got : Extensions!Serves(c, s, got))
    BY <1>1 DEF Extensions!ShellServes
  <2>2. c \in calls => \A at, got : ExtensionsOf(ui, Answered(c, at, got))
    BY <1>0, AnsweredAlike, ExtensionsAlike
  <2>3. QED
    BY <2>1, <2>2, ExtensionsServes DEF Extensions!Serves
<1>2. CASE \E c \in calls : Extensions!Fails(c)
  <2>1. PICK c \in calls : Extensions!Fails(c)
    BY <1>2
  <2>2. ExtensionsOf(ui, Answered(c, "failed", c.got))
    BY <1>0, <2>1, AnsweredAlike, ExtensionsAlike DEF Extensions!Fails
  <2>3. QED
    BY <2>1, <2>2, ExtensionsFails
<1>3. QED
  BY <1>1, <1>2

LEMMA ExtensionsReturned ==
  ASSUME ExtensionsInv, Extensions!Returns
  PROVE  ExtensionsInv'
<1>0. ExtensionsOf(ui, calls)
  BY DEF ExtensionsInv
<1>1. ASSUME NEW c \in calls, Extensions!CapabilitiesReturn(c) PROVE ExtensionsInv'
  <2>1. c.op = "capabilities"
    BY <1>0, <1>1 DEF ExtensionsOf, Extensions!CapabilitiesReturn
  <2>2. c.arg # ui.ref => ExtensionsOf(ui, calls \ {c})
    <3> SUFFICES ASSUME c.arg # ui.ref PROVE ExtensionsOf(ui, calls \ {c})
      OBVIOUS
    <3>1. PICK T : T = calls \ {c}
      OBVIOUS
    <3>2. QED
      BY <1>0, <2>1, <3>1 DEF ExtensionsOf, Has
  <2>3. c.arg = ui.ref => ExtensionsOf([ui EXCEPT !.caps = IF c.at = "served" THEN c.got ELSE @, !.loading = FALSE], calls \ {c})
    <3> SUFFICES ASSUME c.arg = ui.ref PROVE ExtensionsOf([ui EXCEPT !.caps = IF c.at = "served" THEN c.got ELSE @, !.loading = FALSE], calls \ {c})
      OBVIOUS
    <3>1. PICK w : w = [ui EXCEPT !.caps = IF c.at = "served" THEN c.got ELSE @, !.loading = FALSE]
      OBVIOUS
    <3>2. /\ DOMAIN w = DOMAIN ui
         /\ w.selected = ui.selected /\ w.ref = ui.ref /\ w.lagged = ui.lagged
         /\ w.caps = (IF c.at = "served" THEN c.got ELSE ui.caps)
         /\ w.loading = (FALSE)
         /\ w.busy = ui.busy
         /\ w.preview = ui.preview
      BY <1>0, <3>1 DEF ExtensionsOf
    <3>3. PICK T : T = calls \ {c}
      OBVIOUS
    <3>4. QED
      BY <1>0, <2>1, <3>1, <3>2, <3>3 DEF ExtensionsOf, Has
  <2>4. QED
    BY <1>0, <1>1, <2>1, <2>2, <2>3, ExtensionsEnds, AllPropers DEF Extensions!CapabilitiesReturn
<1>2. ASSUME NEW c \in calls, Extensions!MutationReturns(c) PROVE ExtensionsInv'
  <2>1. c.kind = "act"
    BY <1>0, <1>2 DEF ExtensionsOf, Extensions!MutationReturns
  <2>2. ExtensionsOf([ui EXCEPT !.caps = IF c.at = "served" THEN c.got ELSE @, !.busy = None], calls \ {c})
    <3>1. PICK w : w = [ui EXCEPT !.caps = IF c.at = "served" THEN c.got ELSE @, !.busy = None]
      OBVIOUS
    <3>2. /\ DOMAIN w = DOMAIN ui
         /\ w.selected = ui.selected /\ w.ref = ui.ref /\ w.lagged = ui.lagged
         /\ w.caps = (IF c.at = "served" THEN c.got ELSE ui.caps)
         /\ w.loading = ui.loading
         /\ w.busy = (None)
         /\ w.preview = ui.preview
      BY <1>0, <3>1 DEF ExtensionsOf
    <3>3. PICK T : T = calls \ {c}
      OBVIOUS
    <3>4. QED
      BY <1>0, <2>1, <3>1, <3>2, <3>3 DEF ExtensionsOf, Has
  <2>3. QED
    BY <1>0, <1>2, <2>1, <2>2, ExtensionsEnds, AllPropers DEF Extensions!MutationReturns
<1>3. QED
  BY <1>1, <1>2 DEF Extensions!Returns

LEMMA ExtensionsStep == ExtensionsInv /\ Extensions!Next => ExtensionsInv'
  BY ExtensionsHandle, ExtensionsServed, ExtensionsReturned DEF Extensions!Next

(***************************************************************************)
(* The memory view.                                                        *)
(***************************************************************************)
\* A restore ends when the archive was loaded again, a save when the hub was.
MemoryRestores(c) == c.op = "restore" \/ (c.op = "archive" /\ c.arg = "restore")
MemorySaves(c) == c.op = "handbook" \/ (c.op = "hub" /\ c.arg = "saving")

(* Each indicator of the memory view, and what will end it.                 *)
MemoryOf(u, S) ==
  /\ DOMAIN u = {"ws", "of", "late", "entries", "hub", "draft", "editing", "archive", "showArchive", "restoring", "busy", "flags"}
  /\ u.flags \subseteq {"hub", "consolidating", "saving", "archive"}
  /\ "hub" \in u.flags => Has(S, "hub")
  /\ "consolidating" \in u.flags => Has(S, "consolidate")
  /\ "saving" \in u.flags => \E c \in S : MemorySaves(c)
  /\ "archive" \in u.flags => Has(S, "archive")
  /\ u.busy # None => Has(S, "refresh") \/ Has(S, "delete")
  /\ u.restoring # None => \E c \in S : MemoryRestores(c)

MemoryInv == Base(ClicksOf["memory"]) /\ MemoryOf(ui, calls)

LEMMA MemoryAlike ==
  ASSUME NEW u, NEW S, NEW T, Alike(S, T), MemoryOf(u, S)
  PROVE  MemoryOf(u, T)
<1>1. QED
  BY DEF MemoryOf, Alike, Same, Has, MemoryRestores, MemorySaves

LEMMA MemoryKeeps ==
  ASSUME MemoryInv, NEW u, NEW S, Moves(u, S, ClicksOf["memory"]), MemoryOf(u, S)
  PROVE  MemoryInv'
<1>1. MemoryOf(u, calls') /\ ui' = u
  BY FollowsAlike, MemoryAlike DEF Moves
<1>2. Base(ClicksOf["memory"])'
  BY LimitsAssumption DEF Moves, Follows, Base, AllProper, Panels, MemoryInv
<1>3. QED
  BY <1>1, <1>2 DEF MemoryInv

LEMMA MemoryTurns ==
  ASSUME MemoryInv, NEW u, NEW new, NEW gone, Memory!Turns(u, new, gone), AllProper(new), MemoryOf(u, (calls \ gone) \union new)
  PROVE  MemoryInv'
<1>1. Moves(u, (calls \ gone) \union new, ClicksOf["memory"])
  BY TurnMoves DEF MemoryInv, Memory!Turns, Memory!Joined, P!Joined, Memory!Disturbed, P!Disturbed, Memory!Clash, P!Clash, Memory!Touched, P!Touched
<1>2. QED
  BY <1>1, MemoryKeeps

LEMMA MemoryClicks ==
  ASSUME MemoryInv, NEW u, NEW new, Memory!Clicks(u, new), AllProper(new), MemoryOf(u, calls \union new)
  PROVE  MemoryInv'
<1>1. Memory!Turns(u, new, {}) /\ (calls \ {}) \union new = calls \union new
  BY DEF Memory!Clicks
<1>2. QED
  BY <1>1, MemoryTurns

LEMMA MemoryShows ==
  ASSUME MemoryInv, NEW u, Memory!Shows(u), MemoryOf(u, calls)
  PROVE  MemoryInv'
<1>1. Moves(u, calls, ClicksOf["memory"])
  BY ShowMoves DEF MemoryInv, Memory!Shows
<1>2. QED
  BY <1>1, MemoryKeeps

LEMMA MemoryChanges ==
  ASSUME MemoryInv, NEW parts, NEW s, Memory!ChangedElsewhere(parts, s)
  PROVE  MemoryInv'
<1>1. Moves(ui, calls, ClicksOf["memory"])
  BY ChangeMoves DEF MemoryInv, Memory!ChangedElsewhere, Memory!Disturbed, P!Disturbed
<1>2. QED
  BY <1>1, MemoryKeeps DEF MemoryInv

LEMMA MemoryServes ==
  ASSUME MemoryInv, NEW c, NEW s, NEW got, Memory!Serves(c, s, got), MemoryOf(ui, Answered(c, "served", got))
  PROVE  MemoryInv'
<1>1. Moves(ui, Answered(c, "served", got), ClicksOf["memory"])
  BY ServeMoves DEF MemoryInv, Memory!Serves
<1>2. QED
  BY <1>1, MemoryKeeps

LEMMA MemoryFails ==
  ASSUME MemoryInv, NEW c, Memory!Fails(c), MemoryOf(ui, Answered(c, "failed", c.got))
  PROVE  MemoryInv'
<1>1. Moves(ui, Answered(c, "failed", c.got), ClicksOf["memory"])
  BY FailMoves DEF MemoryInv, Memory!Fails
<1>2. QED
  BY <1>1, MemoryKeeps

LEMMA MemoryGoes ==
  ASSUME MemoryInv, NEW c, NEW u, NEW new, NEW gone, NEW spoils, 
         Memory!Goes(c, u, new, gone, spoils), AllProper(new), MemoryOf(u, (calls \ ({c} \union gone)) \union new)
  PROVE  MemoryInv'
<1>1. Moves(u, (calls \ ({c} \union gone)) \union new, ClicksOf["memory"])
  BY GoMoves DEF MemoryInv, Memory!Goes, Memory!Joined, P!Joined, Memory!Disturbed, P!Disturbed, Memory!Clash, P!Clash, Memory!Touched, P!Touched
<1>2. QED
  BY <1>1, MemoryKeeps

LEMMA MemorySends ==
  ASSUME MemoryInv, NEW c, NEW u, NEW new, NEW spoils, Memory!Goes(c, u, new, {}, spoils), AllProper(new),
         MemoryOf(u, (calls \ {c}) \union new)
  PROVE  MemoryInv'
<1>1. (calls \ ({c} \union {})) \union new = (calls \ {c}) \union new
  OBVIOUS
<1>2. QED
  BY <1>1, MemoryGoes

LEMMA MemoryEnds ==
  ASSUME MemoryInv, NEW c, NEW u, NEW spoils, Memory!Goes(c, u, {}, {}, spoils), MemoryOf(u, calls \ {c})
  PROVE  MemoryInv'
<1>1. AllProper({}) /\ (calls \ {c}) \union {} = calls \ {c}
  BY DEF AllProper
<1>2. QED
  BY <1>1, MemorySends


LEMMA MemoryNew ==
  /\ \A parts, op, arg : Fresh(Memory!LoadOf(parts, op, arg), "load", op, arg)
  /\ \A parts, op, arg : Fresh(Memory!ActOn(parts, op, arg), "act", op, arg)
  BY DEF Memory!LoadOf, Memory!ActOn, Memory!Sent, Fresh, Proper, IsCall

LEMMA MemoryInit == Memory!Init => MemoryInv
<1> SUFFICES ASSUME Memory!Init PROVE MemoryInv
  OBVIOUS
<1>1. MemoryOf(ui, calls)
  BY DEF Memory!Init, MemoryOf
<1>2. QED
  BY <1>1, LimitsAssumption DEF MemoryInv, Base, AllProper, Panels, Memory!Init

LEMMA MemoryHandle ==
  ASSUME MemoryInv,
         \/ (\E w \in Workspace : Memory!SelectWorkspace(w))
         \/ Memory!OnRefresh \/ Memory!OnDelete \/ Memory!HandleConsolidateNow
         \/ (\E t \in Handbook : Memory!EditHandbook(t))
         \/ Memory!CancelHandbook \/ Memory!HandleSaveHandbook \/ Memory!ShowArchive \/ Memory!HideArchive \/ Memory!HandleRestore
  PROVE  MemoryInv'
<1>0. MemoryOf(ui, calls)
  BY DEF MemoryInv
<1>1. ASSUME NEW x, Memory!SelectWorkspace(x) PROVE MemoryInv'
  <2>1. PICK n1 : n1 = Memory!SurfaceLoad(x) /\ Fresh(n1, "load", "surface", x)
    BY MemoryNew DEF Memory!SurfaceLoad, Memory!LoadHub, Memory!Busy, MemorySaves, MemoryRestores
  <2>2. PICK n2 : n2 = Memory!LoadHub(None) /\ Fresh(n2, "load", "hub", None)
    BY MemoryNew DEF Memory!SurfaceLoad, Memory!LoadHub, Memory!Busy, MemorySaves, MemoryRestores
  <2>3. \A k \in calls : MemorySaves(k) \/ MemoryRestores(k) => k.op # "surface"
    BY <1>0, <2>1, <2>2, <1>1 DEF MemoryOf, Has, Fresh, Memory!SelectWorkspace, Memory!SurfaceLoad, Memory!LoadHub, Memory!Busy, MemorySaves, MemoryRestores
  <2>4. MemoryOf(Memory!Busy([ui EXCEPT !.ws = x], {"hub"}), (calls \ {k \in calls : k.op = "surface"}) \union {n1, n2})
    <3>1. PICK w : w = Memory!Busy([ui EXCEPT !.ws = x], {"hub"})
      OBVIOUS
    <3>2. /\ DOMAIN w = DOMAIN ui /\ w.flags = ui.flags \union {"hub"} /\ w.busy = ui.busy /\ w.restoring = ui.restoring
      BY <1>0, <3>1 DEF MemoryOf, Memory!SurfaceLoad, Memory!LoadHub, Memory!Busy, MemorySaves, MemoryRestores
    <3>3. PICK T : T = (calls \ {k \in calls : k.op = "surface"}) \union {n1, n2}
      OBVIOUS
    <3>4. QED
      BY <1>0, <2>1, <2>2, <2>3, <3>1, <3>2, <3>3 DEF MemoryOf, Has, Fresh
  <2>5. AllProper({n1, n2})
    BY <2>1, <2>2, <2>3, AllPropers DEF Fresh
  <2>6. QED
    BY <1>0, <1>1, <2>1, <2>2, <2>3, <2>4, <2>5, MemoryTurns DEF Memory!SelectWorkspace, Memory!SurfaceLoad, Memory!LoadHub, Memory!Busy, MemorySaves, MemoryRestores
<1>2. ASSUME Memory!OnRefresh PROVE MemoryInv'
  <2>1. PICK n1 : n1 = Memory!RefreshMemory(ui.ws) /\ Fresh(n1, "load", "refresh", ui.ws)
    BY MemoryNew DEF Memory!RefreshMemory, Memory!LoadHub, Memory!Busy, Memory!Refreshing
  <2>2. PICK n2 : n2 = Memory!LoadHub(None) /\ Fresh(n2, "load", "hub", None)
    BY MemoryNew DEF Memory!RefreshMemory, Memory!LoadHub, Memory!Busy, Memory!Refreshing
  <2>3. MemoryOf(Memory!Busy(Memory!Refreshing(ui, ui.ws), {"hub"}), calls \union {n1, n2})
    <3>1. PICK w : w = Memory!Busy(Memory!Refreshing(ui, ui.ws), {"hub"})
      OBVIOUS
    <3>2. /\ DOMAIN w = DOMAIN ui /\ w.flags = ui.flags \union {"hub"} /\ w.restoring = ui.restoring
      BY <1>0, <3>1 DEF MemoryOf, Memory!RefreshMemory, Memory!LoadHub, Memory!Busy, Memory!Refreshing
    <3>3. PICK T : T = calls \union {n1, n2}
      OBVIOUS
    <3>4. QED
      BY <1>0, <2>1, <2>2, <3>1, <3>2, <3>3 DEF MemoryOf, Has, Fresh
  <2>4. AllProper({n1, n2})
    BY <2>1, <2>2, AllPropers DEF Fresh
  <2>5. QED
    BY <1>0, <1>2, <2>1, <2>2, <2>3, <2>4, MemoryClicks DEF Memory!OnRefresh, Memory!RefreshMemory, Memory!LoadHub, Memory!Busy, Memory!Refreshing
<1>3. ASSUME NEW x, Memory!Clicks([ui EXCEPT !.busy = "delete-memory"], {Memory!ActOn({"entries", "archive"}, "delete", [w |-> ui.ws, e |-> x])}) PROVE MemoryInv'
  <2>1. PICK n1 : n1 = Memory!ActOn({"entries", "archive"}, "delete", [w |-> ui.ws, e |-> x]) /\ Fresh(n1, "act", "delete", [w |-> ui.ws, e |-> x])
    BY MemoryNew
  <2>2. MemoryOf([ui EXCEPT !.busy = "delete-memory"], calls \union {n1})
    <3>1. PICK w : w = [ui EXCEPT !.busy = "delete-memory"]
      OBVIOUS
    <3>2. /\ DOMAIN w = DOMAIN ui
         /\ w.ws = ui.ws
         /\ w.entries = ui.entries
         /\ w.hub = ui.hub
         /\ w.draft = ui.draft
         /\ w.editing = ui.editing
         /\ w.archive = ui.archive
         /\ w.showArchive = ui.showArchive
         /\ w.restoring = ui.restoring
         /\ w.busy = ("delete-memory")
         /\ w.flags = ui.flags
      BY <1>0, <3>1 DEF MemoryOf
    <3>3. PICK T : T = calls \union {n1}
      OBVIOUS
    <3>4. QED
      BY <1>0, <2>1, <3>1, <3>2, <3>3 DEF MemoryOf, Has, Fresh
  <2>3. AllProper({n1})
    BY <2>1, AllPropers DEF Fresh
  <2>4. QED
    BY <1>0, <1>3, <2>1, <2>2, <2>3, MemoryClicks DEF Memory!Clicks
<1>4. ASSUME Memory!HandleConsolidateNow PROVE MemoryInv'
  <2>1. PICK n1 : n1 = Memory!ActOn({"hub"}, "consolidate", None) /\ Fresh(n1, "act", "consolidate", None)
    BY MemoryNew DEF Memory!Busy
  <2>2. MemoryOf(Memory!Busy(ui, {"consolidating"}), calls \union {n1})
    <3>1. PICK w : w = Memory!Busy(ui, {"consolidating"})
      OBVIOUS
    <3>2. /\ DOMAIN w = DOMAIN ui /\ w.flags = ui.flags \union {"consolidating"} /\ w.busy = ui.busy /\ w.restoring = ui.restoring
      BY <1>0, <3>1 DEF MemoryOf, Memory!Busy
    <3>3. PICK T : T = calls \union {n1}
      OBVIOUS
    <3>4. QED
      BY <1>0, <2>1, <3>1, <3>2, <3>3 DEF MemoryOf, Has, Fresh
  <2>3. AllProper({n1})
    BY <2>1, AllPropers DEF Fresh
  <2>4. QED
    BY <1>0, <1>4, <2>1, <2>2, <2>3, MemoryClicks DEF Memory!HandleConsolidateNow, Memory!Busy
<1>5. ASSUME NEW x, Memory!EditHandbook(x) PROVE MemoryInv'
  <2>1. MemoryOf([ui EXCEPT !.editing = TRUE, !.draft = x], calls)
    <3>1. PICK w : w = [ui EXCEPT !.editing = TRUE, !.draft = x]
      OBVIOUS
    <3>2. /\ DOMAIN w = DOMAIN ui
         /\ w.ws = ui.ws
         /\ w.entries = ui.entries
         /\ w.hub = ui.hub
         /\ w.draft = (x)
         /\ w.editing = (TRUE)
         /\ w.archive = ui.archive
         /\ w.showArchive = ui.showArchive
         /\ w.restoring = ui.restoring
         /\ w.busy = ui.busy
         /\ w.flags = ui.flags
      BY <1>0, <3>1 DEF MemoryOf
    <3>3. QED
      BY <1>0, <3>1, <3>2 DEF MemoryOf, Has
  <2>2. QED
    BY <1>0, <1>5, <2>1, MemoryShows, AllPropers DEF Memory!EditHandbook
<1>6. ASSUME Memory!CancelHandbook PROVE MemoryInv'
  <2>1. PICK d0 : d0 = IF ui.hub = {} THEN None ELSE CHOOSE t \in ui.hub : TRUE
    OBVIOUS
  <2>2. MemoryOf([ui EXCEPT !.editing = FALSE, !.draft = d0], calls)
    <3>1. PICK w : w = [ui EXCEPT !.editing = FALSE, !.draft = d0]
      OBVIOUS
    <3>2. /\ DOMAIN w = DOMAIN ui
         /\ w.ws = ui.ws
         /\ w.entries = ui.entries
         /\ w.hub = ui.hub
         /\ w.draft = (d0)
         /\ w.editing = (FALSE)
         /\ w.archive = ui.archive
         /\ w.showArchive = ui.showArchive
         /\ w.restoring = ui.restoring
         /\ w.busy = ui.busy
         /\ w.flags = ui.flags
      BY <1>0, <3>1 DEF MemoryOf
    <3>3. QED
      BY <1>0, <2>1, <3>1, <3>2 DEF MemoryOf, Has, Fresh
  <2>3. QED
    BY <1>0, <1>6, <2>1, <2>2, MemoryShows, AllPropers DEF Memory!CancelHandbook
<1>7. ASSUME Memory!HandleSaveHandbook PROVE MemoryInv'
  <2>1. PICK n1 : n1 = Memory!ActOn({"hub"}, "handbook", ui.draft) /\ Fresh(n1, "act", "handbook", ui.draft)
    BY MemoryNew DEF Memory!Busy, MemorySaves
  <2>2. MemorySaves(n1)
    BY <1>0, <2>1, <1>7 DEF MemoryOf, Has, Fresh, Memory!HandleSaveHandbook, Memory!Busy, MemorySaves
  <2>3. MemoryOf(Memory!Busy(ui, {"saving"}), calls \union {n1})
    <3>1. PICK w : w = Memory!Busy(ui, {"saving"})
      OBVIOUS
    <3>2. /\ DOMAIN w = DOMAIN ui /\ w.flags = ui.flags \union {"saving"} /\ w.busy = ui.busy /\ w.restoring = ui.restoring
      BY <1>0, <3>1 DEF MemoryOf, Memory!Busy, MemorySaves
    <3>3. PICK T : T = calls \union {n1}
      OBVIOUS
    <3>4. QED
      BY <1>0, <2>1, <2>2, <3>1, <3>2, <3>3 DEF MemoryOf, Has, Fresh
  <2>4. AllProper({n1})
    BY <2>1, <2>2, AllPropers DEF Fresh
  <2>5. QED
    BY <1>0, <1>7, <2>1, <2>2, <2>3, <2>4, MemoryClicks DEF Memory!HandleSaveHandbook, Memory!Busy, MemorySaves
<1>8. ASSUME Memory!ShowArchive PROVE MemoryInv'
  <2>1. PICK n1 : n1 = Memory!LoadArchive(None) /\ Fresh(n1, "load", "archive", None)
    BY MemoryNew DEF Memory!LoadArchive, Memory!Busy
  <2>2. MemoryOf(Memory!Busy([ui EXCEPT !.showArchive = TRUE], {"archive"}), calls \union {n1})
    <3>1. PICK w : w = Memory!Busy([ui EXCEPT !.showArchive = TRUE], {"archive"})
      OBVIOUS
    <3>2. /\ DOMAIN w = DOMAIN ui /\ w.flags = ui.flags \union {"archive"} /\ w.busy = ui.busy /\ w.restoring = ui.restoring
      BY <1>0, <3>1 DEF MemoryOf, Memory!LoadArchive, Memory!Busy
    <3>3. PICK T : T = calls \union {n1}
      OBVIOUS
    <3>4. DOMAIN w = {"ws", "of", "late", "entries", "hub", "draft", "editing", "archive", "showArchive", "restoring", "busy", "flags"}
      BY <1>0, <2>1, <3>2, <3>3 DEF MemoryOf, Has, Fresh
    <3>5. w.flags \subseteq {"hub", "consolidating", "saving", "archive"}
      BY <1>0, <2>1, <3>2, <3>3 DEF MemoryOf, Has, Fresh
    <3>6. "hub" \in w.flags => Has(T, "hub")
      BY <1>0, <2>1, <3>2, <3>3 DEF MemoryOf, Has, Fresh
    <3>7. "consolidating" \in w.flags => Has(T, "consolidate")
      BY <1>0, <2>1, <3>2, <3>3 DEF MemoryOf, Has, Fresh
    <3>8. "saving" \in w.flags => \E d \in T : MemorySaves(d)
      BY <1>0, <2>1, <3>2, <3>3 DEF MemoryOf, Has, Fresh
    <3>9. "archive" \in w.flags => Has(T, "archive")
      BY <1>0, <2>1, <3>2, <3>3 DEF MemoryOf, Has, Fresh
    <3>10. w.busy # None => Has(T, "refresh") \/ Has(T, "delete")
      BY <1>0, <2>1, <3>2, <3>3 DEF MemoryOf, Has, Fresh
    <3>11. w.restoring # None => \E d \in T : MemoryRestores(d)
      BY <1>0, <2>1, <3>2, <3>3 DEF MemoryOf, Has, Fresh
    <3>12. QED
      BY <3>1, <3>3, <3>4, <3>5, <3>6, <3>7, <3>8, <3>9, <3>10, <3>11 DEF MemoryOf
  <2>3. AllProper({n1})
    BY <2>1, AllPropers DEF Fresh
  <2>4. QED
    BY <1>0, <1>8, <2>1, <2>2, <2>3, MemoryClicks DEF Memory!ShowArchive, Memory!LoadArchive, Memory!Busy
<1>9. ASSUME Memory!HideArchive PROVE MemoryInv'
  <2>1. MemoryOf([ui EXCEPT !.showArchive = FALSE], calls)
    <3>1. PICK w : w = [ui EXCEPT !.showArchive = FALSE]
      OBVIOUS
    <3>2. /\ DOMAIN w = DOMAIN ui
         /\ w.ws = ui.ws
         /\ w.entries = ui.entries
         /\ w.hub = ui.hub
         /\ w.draft = ui.draft
         /\ w.editing = ui.editing
         /\ w.archive = ui.archive
         /\ w.showArchive = (FALSE)
         /\ w.restoring = ui.restoring
         /\ w.busy = ui.busy
         /\ w.flags = ui.flags
      BY <1>0, <3>1 DEF MemoryOf
    <3>3. QED
      BY <1>0, <3>1, <3>2 DEF MemoryOf, Has
  <2>2. QED
    BY <1>0, <1>9, <2>1, MemoryShows, AllPropers DEF Memory!HideArchive
<1>10. ASSUME NEW x, Memory!Clicks([ui EXCEPT !.restoring = x.key], {Memory!ActOn({"entries", "archive"}, "restore", [w |-> ui.ws, e |-> x])}) PROVE MemoryInv'
  <2>1. PICK n1 : n1 = Memory!ActOn({"entries", "archive"}, "restore", [w |-> ui.ws, e |-> x]) /\ Fresh(n1, "act", "restore", [w |-> ui.ws, e |-> x])
    BY MemoryNew DEF MemoryRestores
  <2>2. MemoryRestores(n1)
    BY <1>0, <2>1, <1>10 DEF MemoryOf, Has, Fresh, Memory!Clicks, MemoryRestores
  <2>3. MemoryOf([ui EXCEPT !.restoring = x.key], calls \union {n1})
    <3>1. PICK w : w = [ui EXCEPT !.restoring = x.key]
      OBVIOUS
    <3>2. /\ DOMAIN w = DOMAIN ui
         /\ w.ws = ui.ws
         /\ w.entries = ui.entries
         /\ w.hub = ui.hub
         /\ w.draft = ui.draft
         /\ w.editing = ui.editing
         /\ w.archive = ui.archive
         /\ w.showArchive = ui.showArchive
         /\ w.restoring = (x.key)
         /\ w.busy = ui.busy
         /\ w.flags = ui.flags
      BY <1>0, <3>1 DEF MemoryOf
    <3>3. PICK T : T = calls \union {n1}
      OBVIOUS
    <3>4. QED
      BY <1>0, <2>1, <2>2, <3>1, <3>2, <3>3 DEF MemoryOf, Has, Fresh
  <2>4. AllProper({n1})
    BY <2>1, <2>2, AllPropers DEF Fresh
  <2>5. QED
    BY <1>0, <1>10, <2>1, <2>2, <2>3, <2>4, MemoryClicks DEF Memory!Clicks, MemoryRestores
<1>11. QED
  BY <1>1, <1>2, <1>3, <1>4, <1>5, <1>6, <1>7, <1>8, <1>9, <1>10 DEF Memory!OnDelete, Memory!HandleRestore

LEMMA MemoryServed ==
  ASSUME MemoryInv,
         Memory!DaemonServes \/ (\E c \in calls : Memory!Fails(c))
  PROVE  MemoryInv'
<1>0. MemoryOf(ui, calls)
  BY DEF MemoryInv
<1>1. CASE Memory!DaemonServes
  <2>1. PICK c \in calls : (\E s, got : Memory!Serves(c, s, got))
    BY <1>1 DEF Memory!DaemonServes
  <2>2. c \in calls => \A at, got : MemoryOf(ui, Answered(c, at, got))
    BY <1>0, AnsweredAlike, MemoryAlike
  <2>3. QED
    BY <2>1, <2>2, MemoryServes DEF Memory!Serves
<1>2. CASE \E c \in calls : Memory!Fails(c)
  <2>1. PICK c \in calls : Memory!Fails(c)
    BY <1>2
  <2>2. MemoryOf(ui, Answered(c, "failed", c.got))
    BY <1>0, <2>1, AnsweredAlike, MemoryAlike DEF Memory!Fails
  <2>3. QED
    BY <2>1, <2>2, MemoryFails
<1>3. QED
  BY <1>1, <1>2

LEMMA MemoryReturned ==
  ASSUME MemoryInv,
         Memory!Returns
  PROVE  MemoryInv'
<1>0. MemoryOf(ui, calls)
  BY DEF MemoryInv
<1>1. ASSUME NEW c \in calls, Memory!EntriesReturn(c) PROVE MemoryInv'
  <2>1. PICK got, b, late :
             /\ Memory!Goes(c, [ui EXCEPT !.entries = got, !.busy = b, !.of = c.arg, !.late = late], {}, {}, FALSE)
             /\ b = IF c.op = "refresh" THEN None ELSE ui.busy
    BY <1>0, <1>1, Zenon DEF Memory!EntriesReturn
  <2>2. c.op \in {"surface", "refresh"}
    BY <1>1 DEF Memory!EntriesReturn
  <2>3. ~MemorySaves(c) /\ ~MemoryRestores(c)
    BY <2>2 DEF MemorySaves, MemoryRestores
  <2>4. PICK w : w = [ui EXCEPT !.entries = got, !.busy = b, !.of = c.arg, !.late = late]
    OBVIOUS
  <2>5. DOMAIN w = DOMAIN ui /\ w.flags = ui.flags /\ w.busy = b /\ w.restoring = ui.restoring
    BY <1>0, <2>4 DEF MemoryOf
  <2>6. PICK T : T = calls \ {c}
    OBVIOUS
  <2>7. MemoryOf(w, T)
    BY <1>0, <2>1, <2>2, <2>3, <2>5, <2>6 DEF MemoryOf, Has
  <2>8. QED
    BY <2>1, <2>4, <2>6, <2>7, MemoryEnds
<1>2. ASSUME NEW c \in calls, Memory!HubReturns(c) PROVE MemoryInv'
  <2>1. c.op = "hub"
    BY <1>0, <1>2 DEF MemoryOf, Memory!HubReturns, Memory!Idle, Memory!Ok, MemorySaves, MemoryRestores
  <2>2. PICK f : f = IF c.arg = "saving" THEN {"hub", "saving"} ELSE {"hub"}
    BY DEF Memory!Idle, Memory!Ok, MemorySaves, MemoryRestores
  <2>3. ~MemoryRestores(c) /\ (MemorySaves(c) => c.arg = "saving")
    BY <1>0, <2>1, <2>2, <1>2 DEF MemoryOf, Has, Fresh, Memory!HubReturns, Memory!Idle, Memory!Ok, MemorySaves, MemoryRestores
  <2>4. c.at = "served" => MemoryOf([Memory!Idle(ui, f) EXCEPT !.hub = c.got, !.draft = CHOOSE t \in c.got : TRUE], calls \ {c})
    <3> SUFFICES ASSUME c.at = "served" PROVE MemoryOf([Memory!Idle(ui, f) EXCEPT !.hub = c.got, !.draft = CHOOSE t \in c.got : TRUE], calls \ {c})
      OBVIOUS
    <3>1. PICK w : w = [Memory!Idle(ui, f) EXCEPT !.hub = c.got, !.draft = CHOOSE t \in c.got : TRUE]
      OBVIOUS
    <3>2. /\ DOMAIN w = DOMAIN ui /\ w.flags = ui.flags \ f /\ w.busy = ui.busy /\ w.restoring = ui.restoring
      BY <1>0, <3>1, <2>1 DEF MemoryOf, Memory!Idle, Memory!Ok, MemorySaves, MemoryRestores
    <3>3. PICK T : T = calls \ {c}
      OBVIOUS
    <3>4. QED
      BY <1>0, <2>1, <2>2, <2>3, <3>1, <3>2, <3>3 DEF MemoryOf, Has, Fresh
  <2>5. c.at # "served" => MemoryOf(Memory!Idle(ui, f), calls \ {c})
    <3> SUFFICES ASSUME c.at # "served" PROVE MemoryOf(Memory!Idle(ui, f), calls \ {c})
      OBVIOUS
    <3>1. PICK w : w = Memory!Idle(ui, f)
      OBVIOUS
    <3>2. /\ DOMAIN w = DOMAIN ui /\ w.flags = ui.flags \ f /\ w.busy = ui.busy /\ w.restoring = ui.restoring
      BY <1>0, <3>1, <2>1 DEF MemoryOf, Memory!Idle, Memory!Ok, MemorySaves, MemoryRestores
    <3>3. PICK T : T = calls \ {c}
      OBVIOUS
    <3>4. QED
      BY <1>0, <2>1, <2>2, <2>3, <3>1, <3>2, <3>3 DEF MemoryOf, Has, Fresh
  <2>6. QED
    BY <1>0, <1>2, <2>1, <2>2, <2>3, <2>4, <2>5, MemoryEnds, AllPropers DEF Memory!HubReturns, Memory!Idle, Memory!Ok, MemorySaves, MemoryRestores
<1>3. ASSUME NEW c \in calls, Memory!ArchiveReturns(c) PROVE MemoryInv'
  <2>1. c.op = "archive"
    BY <1>0, <1>3 DEF MemoryOf, Memory!ArchiveReturns, Memory!Idle, Memory!Ok, Memory!Refreshing, Memory!RefreshMemory, MemorySaves, MemoryRestores
  <2>2. PICK n1 : n1 = Memory!RefreshMemory(ui.ws) /\ Fresh(n1, "load", "refresh", ui.ws)
    BY MemoryNew DEF Memory!Idle, Memory!Ok, Memory!Refreshing, Memory!RefreshMemory, MemorySaves, MemoryRestores
  <2>3. PICK a : a = IF c.at = "served" THEN c.got ELSE {}
    BY DEF Memory!Idle, Memory!Ok, Memory!Refreshing, Memory!RefreshMemory, MemorySaves, MemoryRestores
  <2>4. ~MemorySaves(c) /\ (MemoryRestores(c) => c.arg = "restore")
    BY <1>0, <2>1, <2>2, <2>3, <1>3 DEF MemoryOf, Has, Fresh, Memory!ArchiveReturns, Memory!Idle, Memory!Ok, Memory!Refreshing, Memory!RefreshMemory, MemorySaves, MemoryRestores
  <2>5. c.arg = "restore" => MemoryOf(Memory!Refreshing([[Memory!Idle(ui, {"archive"}) EXCEPT !.archive = a] EXCEPT !.restoring = None], ui.ws), (calls \ {c}) \union {n1})
    <3> SUFFICES ASSUME c.arg = "restore" PROVE MemoryOf(Memory!Refreshing([[Memory!Idle(ui, {"archive"}) EXCEPT !.archive = a] EXCEPT !.restoring = None], ui.ws), (calls \ {c}) \union {n1})
      OBVIOUS
    <3>1. PICK w : w = Memory!Refreshing([[Memory!Idle(ui, {"archive"}) EXCEPT !.archive = a] EXCEPT !.restoring = None], ui.ws)
      OBVIOUS
    <3>2. /\ DOMAIN w = DOMAIN ui /\ w.flags = ui.flags \ {"archive"} /\ w.restoring = None
      BY <1>0, <3>1, <2>1 DEF MemoryOf, Memory!Idle, Memory!Ok, Memory!Refreshing, Memory!RefreshMemory, MemorySaves, MemoryRestores
    <3>3. PICK T : T = (calls \ {c}) \union {n1}
      OBVIOUS
    <3>4. QED
      BY <1>0, <2>1, <2>2, <2>3, <2>4, <3>1, <3>2, <3>3 DEF MemoryOf, Has, Fresh
  <2>6. AllProper({n1})
    BY <2>1, <2>2, <2>3, <2>4, AllPropers DEF Fresh
  <2>7. c.arg # "restore" => MemoryOf([Memory!Idle(ui, {"archive"}) EXCEPT !.archive = a], calls \ {c})
    <3> SUFFICES ASSUME c.arg # "restore" PROVE MemoryOf([Memory!Idle(ui, {"archive"}) EXCEPT !.archive = a], calls \ {c})
      OBVIOUS
    <3>1. PICK w : w = [Memory!Idle(ui, {"archive"}) EXCEPT !.archive = a]
      OBVIOUS
    <3>2. /\ DOMAIN w = DOMAIN ui /\ w.flags = ui.flags \ {"archive"} /\ w.busy = ui.busy /\ w.restoring = ui.restoring
      BY <1>0, <3>1, <2>1 DEF MemoryOf, Memory!Idle, Memory!Ok, Memory!Refreshing, Memory!RefreshMemory, MemorySaves, MemoryRestores
    <3>3. PICK T : T = calls \ {c}
      OBVIOUS
    <3>4. QED
      BY <1>0, <2>1, <2>2, <2>3, <2>4, <3>1, <3>2, <3>3 DEF MemoryOf, Has, Fresh
  <2>8. QED
    BY <1>0, <1>3, <2>1, <2>2, <2>3, <2>4, <2>5, <2>6, <2>7, MemoryEnds, MemorySends, AllPropers DEF Memory!ArchiveReturns, Memory!Idle, Memory!Ok, Memory!Refreshing, Memory!RefreshMemory, MemorySaves, MemoryRestores
<1>4. ASSUME NEW c \in calls, Memory!DeleteReturns(c) PROVE MemoryInv'
  <2>1. c.op = "delete"
    BY <1>0, <1>4 DEF MemoryOf, Memory!DeleteReturns, Memory!Ok, Memory!Refreshing, Memory!RefreshMemory, MemorySaves, MemoryRestores
  <2>2. PICK n1 : n1 = Memory!RefreshMemory(c.arg.w) /\ Fresh(n1, "load", "refresh", c.arg.w)
    BY MemoryNew DEF Memory!Ok, Memory!Refreshing, Memory!RefreshMemory, MemorySaves, MemoryRestores
  <2>3. ~MemorySaves(c) /\ ~MemoryRestores(c)
    BY <1>0, <2>1, <2>2, <1>4 DEF MemoryOf, Has, Fresh, Memory!DeleteReturns, Memory!Ok, Memory!Refreshing, Memory!RefreshMemory, MemorySaves, MemoryRestores
  <2>4. c.at = "served" => MemoryOf(Memory!Refreshing(ui, c.arg.w), (calls \ {c}) \union {n1})
    <3> SUFFICES ASSUME c.at = "served" PROVE MemoryOf(Memory!Refreshing(ui, c.arg.w), (calls \ {c}) \union {n1})
      OBVIOUS
    <3>1. PICK w : w = Memory!Refreshing(ui, c.arg.w)
      OBVIOUS
    <3>2. /\ DOMAIN w = DOMAIN ui /\ w.flags = ui.flags /\ w.restoring = ui.restoring
      BY <1>0, <3>1, <2>1 DEF MemoryOf, Memory!Ok, Memory!Refreshing, Memory!RefreshMemory, MemorySaves, MemoryRestores
    <3>3. PICK T : T = (calls \ {c}) \union {n1}
      OBVIOUS
    <3>4. QED
      BY <1>0, <2>1, <2>2, <2>3, <3>1, <3>2, <3>3 DEF MemoryOf, Has, Fresh
  <2>5. AllProper({n1})
    BY <2>1, <2>2, <2>3, AllPropers DEF Fresh
  <2>6. c.at # "served" => MemoryOf([ui EXCEPT !.busy = None], calls \ {c})
    <3> SUFFICES ASSUME c.at # "served" PROVE MemoryOf([ui EXCEPT !.busy = None], calls \ {c})
      OBVIOUS
    <3>1. PICK w : w = [ui EXCEPT !.busy = None]
      OBVIOUS
    <3>2. /\ DOMAIN w = DOMAIN ui
         /\ w.ws = ui.ws
         /\ w.entries = ui.entries
         /\ w.hub = ui.hub
         /\ w.draft = ui.draft
         /\ w.editing = ui.editing
         /\ w.archive = ui.archive
         /\ w.showArchive = ui.showArchive
         /\ w.restoring = ui.restoring
         /\ w.busy = (None)
         /\ w.flags = ui.flags
      BY <1>0, <3>1, <2>1 DEF MemoryOf
    <3>3. PICK T : T = calls \ {c}
      OBVIOUS
    <3>4. QED
      BY <1>0, <2>1, <2>2, <2>3, <3>1, <3>2, <3>3 DEF MemoryOf, Has, Fresh
  <2>7. QED
    BY <1>0, <1>4, <2>1, <2>2, <2>3, <2>4, <2>5, <2>6, MemoryEnds, MemorySends, AllPropers DEF Memory!DeleteReturns, Memory!Ok, Memory!Refreshing, Memory!RefreshMemory, MemorySaves, MemoryRestores
<1>5. ASSUME NEW c \in calls, Memory!RestoreReturns(c) PROVE MemoryInv'
  <2>1. c.op = "restore"
    BY <1>0, <1>5 DEF MemoryOf, Memory!RestoreReturns, Memory!Ok, Memory!Busy, Memory!LoadArchive, MemorySaves, MemoryRestores
  <2>2. PICK n1 : n1 = Memory!LoadArchive("restore") /\ Fresh(n1, "load", "archive", "restore")
    BY MemoryNew DEF Memory!Ok, Memory!Busy, Memory!LoadArchive, MemorySaves, MemoryRestores
  <2>3. ~MemorySaves(c)
    BY <1>0, <2>1, <2>2, <1>5 DEF MemoryOf, Has, Fresh, Memory!RestoreReturns, Memory!Ok, Memory!Busy, Memory!LoadArchive, MemorySaves, MemoryRestores
  <2>4. MemoryRestores(n1)
    BY <1>0, <2>1, <2>2, <2>3, <1>5 DEF MemoryOf, Has, Fresh, Memory!RestoreReturns, Memory!Ok, Memory!Busy, Memory!LoadArchive, MemorySaves, MemoryRestores
  <2>5. c.at = "served" => MemoryOf(Memory!Busy(ui, {"archive"}), (calls \ {c}) \union {n1})
    <3> SUFFICES ASSUME c.at = "served" PROVE MemoryOf(Memory!Busy(ui, {"archive"}), (calls \ {c}) \union {n1})
      OBVIOUS
    <3>1. PICK w : w = Memory!Busy(ui, {"archive"})
      OBVIOUS
    <3>2. /\ DOMAIN w = DOMAIN ui /\ w.flags = ui.flags \union {"archive"} /\ w.restoring = ui.restoring /\ w.busy = ui.busy
      BY <1>0, <3>1, <2>1 DEF MemoryOf, Memory!Ok, Memory!Busy, Memory!LoadArchive, MemorySaves, MemoryRestores
    <3>3. PICK T : T = (calls \ {c}) \union {n1}
      OBVIOUS
    <3>4. QED
      BY <1>0, <2>1, <2>2, <2>3, <2>4, <3>1, <3>2, <3>3 DEF MemoryOf, Has, Fresh
  <2>6. AllProper({n1})
    BY <2>1, <2>2, <2>3, <2>4, AllPropers DEF Fresh
  <2>7. c.at # "served" => MemoryOf([ui EXCEPT !.restoring = None], calls \ {c})
    <3> SUFFICES ASSUME c.at # "served" PROVE MemoryOf([ui EXCEPT !.restoring = None], calls \ {c})
      OBVIOUS
    <3>1. PICK w : w = [ui EXCEPT !.restoring = None]
      OBVIOUS
    <3>2. /\ DOMAIN w = DOMAIN ui
         /\ w.ws = ui.ws
         /\ w.entries = ui.entries
         /\ w.hub = ui.hub
         /\ w.draft = ui.draft
         /\ w.editing = ui.editing
         /\ w.archive = ui.archive
         /\ w.showArchive = ui.showArchive
         /\ w.restoring = (None)
         /\ w.busy = ui.busy
         /\ w.flags = ui.flags
      BY <1>0, <3>1, <2>1 DEF MemoryOf
    <3>3. PICK T : T = calls \ {c}
      OBVIOUS
    <3>4. QED
      BY <1>0, <2>1, <2>2, <2>3, <2>4, <3>1, <3>2, <3>3 DEF MemoryOf, Has, Fresh
  <2>8. QED
    BY <1>0, <1>5, <2>1, <2>2, <2>3, <2>4, <2>5, <2>6, <2>7, MemoryEnds, MemorySends, AllPropers DEF Memory!RestoreReturns, Memory!Ok, Memory!Busy, Memory!LoadArchive, MemorySaves, MemoryRestores
<1>6. ASSUME NEW c \in calls, Memory!HandbookReturns(c) PROVE MemoryInv'
  <2>1. c.op = "handbook"
    BY <1>0, <1>6 DEF MemoryOf, Memory!HandbookReturns, Memory!Ok, Memory!Busy, Memory!Idle, Memory!LoadHub, MemorySaves, MemoryRestores
  <2>2. PICK n1 : n1 = Memory!LoadHub("saving") /\ Fresh(n1, "load", "hub", "saving")
    BY MemoryNew DEF Memory!Ok, Memory!Busy, Memory!Idle, Memory!LoadHub, MemorySaves, MemoryRestores
  <2>3. ~MemoryRestores(c)
    BY <1>0, <2>1, <2>2, <1>6 DEF MemoryOf, Has, Fresh, Memory!HandbookReturns, Memory!Ok, Memory!Busy, Memory!Idle, Memory!LoadHub, MemorySaves, MemoryRestores
  <2>4. MemorySaves(n1)
    BY <1>0, <2>1, <2>2, <2>3, <1>6 DEF MemoryOf, Has, Fresh, Memory!HandbookReturns, Memory!Ok, Memory!Busy, Memory!Idle, Memory!LoadHub, MemorySaves, MemoryRestores
  <2>5. c.at = "served" => MemoryOf(Memory!Busy([ui EXCEPT !.editing = FALSE], {"hub"}), (calls \ {c}) \union {n1})
    <3> SUFFICES ASSUME c.at = "served" PROVE MemoryOf(Memory!Busy([ui EXCEPT !.editing = FALSE], {"hub"}), (calls \ {c}) \union {n1})
      OBVIOUS
    <3>1. PICK w : w = Memory!Busy([ui EXCEPT !.editing = FALSE], {"hub"})
      OBVIOUS
    <3>2. /\ DOMAIN w = DOMAIN ui /\ w.flags = ui.flags \union {"hub"} /\ w.restoring = ui.restoring /\ w.busy = ui.busy
      BY <1>0, <3>1, <2>1 DEF MemoryOf, Memory!Ok, Memory!Busy, Memory!Idle, Memory!LoadHub, MemorySaves, MemoryRestores
    <3>3. PICK T : T = (calls \ {c}) \union {n1}
      OBVIOUS
    <3>4. DOMAIN w = {"ws", "of", "late", "entries", "hub", "draft", "editing", "archive", "showArchive", "restoring", "busy", "flags"}
      BY <1>0, <2>1, <2>2, <2>3, <2>4, <3>2, <3>3 DEF MemoryOf, Has, Fresh
    <3>5. w.flags \subseteq {"hub", "consolidating", "saving", "archive"}
      BY <1>0, <2>1, <2>2, <2>3, <2>4, <3>2, <3>3 DEF MemoryOf, Has, Fresh
    <3>6. "hub" \in w.flags => Has(T, "hub")
      BY <1>0, <2>1, <2>2, <2>3, <2>4, <3>2, <3>3 DEF MemoryOf, Has, Fresh
    <3>7. "consolidating" \in w.flags => Has(T, "consolidate")
      BY <1>0, <2>1, <2>2, <2>3, <2>4, <3>2, <3>3 DEF MemoryOf, Has, Fresh
    <3>8. "saving" \in w.flags => \E d \in T : MemorySaves(d)
      BY <1>0, <2>1, <2>2, <2>3, <2>4, <3>2, <3>3 DEF MemoryOf, Has, Fresh
    <3>9. "archive" \in w.flags => Has(T, "archive")
      BY <1>0, <2>1, <2>2, <2>3, <2>4, <3>2, <3>3 DEF MemoryOf, Has, Fresh
    <3>10. w.busy # None => Has(T, "refresh") \/ Has(T, "delete")
      BY <1>0, <2>1, <2>2, <2>3, <2>4, <3>2, <3>3 DEF MemoryOf, Has, Fresh
    <3>11. w.restoring # None => \E d \in T : MemoryRestores(d)
      BY <1>0, <2>1, <2>2, <2>3, <2>4, <3>2, <3>3 DEF MemoryOf, Has, Fresh
    <3>12. QED
      BY <3>1, <3>3, <3>4, <3>5, <3>6, <3>7, <3>8, <3>9, <3>10, <3>11 DEF MemoryOf
  <2>6. AllProper({n1})
    BY <2>1, <2>2, <2>3, <2>4, AllPropers DEF Fresh
  <2>7. c.at # "served" => MemoryOf(Memory!Idle(ui, {"saving"}), calls \ {c})
    <3> SUFFICES ASSUME c.at # "served" PROVE MemoryOf(Memory!Idle(ui, {"saving"}), calls \ {c})
      OBVIOUS
    <3>1. PICK w : w = Memory!Idle(ui, {"saving"})
      OBVIOUS
    <3>2. /\ DOMAIN w = DOMAIN ui /\ w.flags = ui.flags \ {"saving"} /\ w.restoring = ui.restoring /\ w.busy = ui.busy
      BY <1>0, <3>1, <2>1 DEF MemoryOf, Memory!Ok, Memory!Busy, Memory!Idle, Memory!LoadHub, MemorySaves, MemoryRestores
    <3>3. PICK T : T = calls \ {c}
      OBVIOUS
    <3>4. QED
      BY <1>0, <2>1, <2>2, <2>3, <2>4, <3>1, <3>2, <3>3 DEF MemoryOf, Has, Fresh
  <2>8. QED
    BY <1>0, <1>6, <2>1, <2>2, <2>3, <2>4, <2>5, <2>6, <2>7, MemoryEnds, MemorySends, AllPropers DEF Memory!HandbookReturns, Memory!Ok, Memory!Busy, Memory!Idle, Memory!LoadHub, MemorySaves, MemoryRestores
<1>7. ASSUME NEW c \in calls, Memory!ConsolidateReturns(c) PROVE MemoryInv'
  <2>1. c.op = "consolidate"
    BY <1>0, <1>7 DEF MemoryOf, Memory!ConsolidateReturns, Memory!Ok, Memory!Idle, MemorySaves, MemoryRestores
  <2>2. PICK n1 : n1 = Memory!ActOn({"hub"}, "timer", ui.ws) /\ Fresh(n1, "act", "timer", ui.ws)
    BY MemoryNew DEF Memory!Ok, Memory!Idle, MemorySaves, MemoryRestores
  <2>3. ~MemorySaves(c) /\ ~MemoryRestores(c)
    BY <1>0, <2>1, <2>2, <1>7 DEF MemoryOf, Has, Fresh, Memory!ConsolidateReturns, Memory!Ok, Memory!Idle, MemorySaves, MemoryRestores
  <2>4. c.at = "served" => MemoryOf(Memory!Idle(ui, {"consolidating"}), (calls \ {c}) \union {n1})
    <3> SUFFICES ASSUME c.at = "served" PROVE MemoryOf(Memory!Idle(ui, {"consolidating"}), (calls \ {c}) \union {n1})
      OBVIOUS
    <3>1. PICK w : w = Memory!Idle(ui, {"consolidating"})
      OBVIOUS
    <3>2. /\ DOMAIN w = DOMAIN ui /\ w.flags = ui.flags \ {"consolidating"} /\ w.restoring = ui.restoring /\ w.busy = ui.busy
      BY <1>0, <3>1, <2>1 DEF MemoryOf, Memory!Ok, Memory!Idle, MemorySaves, MemoryRestores
    <3>3. PICK T : T = (calls \ {c}) \union {n1}
      OBVIOUS
    <3>4. QED
      BY <1>0, <2>1, <2>2, <2>3, <3>1, <3>2, <3>3 DEF MemoryOf, Has, Fresh
  <2>5. AllProper({n1})
    BY <2>1, <2>2, <2>3, AllPropers DEF Fresh
  <2>6. c.at # "served" => MemoryOf(Memory!Idle(ui, {"consolidating"}), calls \ {c})
    <3> SUFFICES ASSUME c.at # "served" PROVE MemoryOf(Memory!Idle(ui, {"consolidating"}), calls \ {c})
      OBVIOUS
    <3>1. PICK w : w = Memory!Idle(ui, {"consolidating"})
      OBVIOUS
    <3>2. /\ DOMAIN w = DOMAIN ui /\ w.flags = ui.flags \ {"consolidating"} /\ w.restoring = ui.restoring /\ w.busy = ui.busy
      BY <1>0, <3>1, <2>1 DEF MemoryOf, Memory!Ok, Memory!Idle, MemorySaves, MemoryRestores
    <3>3. PICK T : T = calls \ {c}
      OBVIOUS
    <3>4. QED
      BY <1>0, <2>1, <2>2, <2>3, <3>1, <3>2, <3>3 DEF MemoryOf, Has, Fresh
  <2>7. QED
    BY <1>0, <1>7, <2>1, <2>2, <2>3, <2>4, <2>5, <2>6, MemoryEnds, MemorySends, AllPropers DEF Memory!ConsolidateReturns, Memory!Ok, Memory!Idle, MemorySaves, MemoryRestores
<1>8. ASSUME NEW c \in calls, Memory!TimerFires(c) PROVE MemoryInv'
  <2>1. c.op = "timer"
    BY <1>0, <1>8 DEF MemoryOf, Memory!TimerFires, Memory!Busy, Memory!Refreshing, Memory!LoadHub, Memory!RefreshMemory, MemorySaves, MemoryRestores
  <2>2. PICK n1 : n1 = Memory!LoadHub(None) /\ Fresh(n1, "load", "hub", None)
    BY MemoryNew DEF Memory!Busy, Memory!Refreshing, Memory!LoadHub, Memory!RefreshMemory, MemorySaves, MemoryRestores
  <2>3. PICK n2 : n2 = Memory!RefreshMemory(c.arg) /\ Fresh(n2, "load", "refresh", c.arg)
    BY MemoryNew DEF Memory!Busy, Memory!Refreshing, Memory!LoadHub, Memory!RefreshMemory, MemorySaves, MemoryRestores
  <2>4. ~MemorySaves(c) /\ ~MemoryRestores(c)
    BY <1>0, <2>1, <2>2, <2>3, <1>8 DEF MemoryOf, Has, Fresh, Memory!TimerFires, Memory!Busy, Memory!Refreshing, Memory!LoadHub, Memory!RefreshMemory, MemorySaves, MemoryRestores
  <2>5. MemoryOf(Memory!Busy(Memory!Refreshing(ui, c.arg), {"hub"}), (calls \ {c}) \union {n1, n2})
    <3>1. PICK w : w = Memory!Busy(Memory!Refreshing(ui, c.arg), {"hub"})
      OBVIOUS
    <3>2. /\ DOMAIN w = DOMAIN ui /\ w.flags = ui.flags \union {"hub"} /\ w.restoring = ui.restoring
      BY <1>0, <3>1, <2>1 DEF MemoryOf, Memory!Busy, Memory!Refreshing, Memory!LoadHub, Memory!RefreshMemory, MemorySaves, MemoryRestores
    <3>3. PICK T : T = (calls \ {c}) \union {n1, n2}
      OBVIOUS
    <3>4. QED
      BY <1>0, <2>1, <2>2, <2>3, <2>4, <3>1, <3>2, <3>3 DEF MemoryOf, Has, Fresh
  <2>6. AllProper({n1, n2})
    BY <2>1, <2>2, <2>3, <2>4, AllPropers DEF Fresh
  <2>7. QED
    BY <1>0, <1>8, <2>1, <2>2, <2>3, <2>4, <2>5, <2>6, MemorySends DEF Memory!TimerFires, Memory!Busy, Memory!Refreshing, Memory!LoadHub, Memory!RefreshMemory, MemorySaves, MemoryRestores
<1>9. QED
  BY <1>1, <1>2, <1>3, <1>4, <1>5, <1>6, <1>7, <1>8 DEF Memory!Returns, Memory!EntriesReturn

LEMMA MemoryStep == MemoryInv /\ Memory!Next => MemoryInv'
  BY MemoryHandle, MemoryServed, MemoryReturned DEF Memory!Next

(***************************************************************************)
(* The first tab of the memory view.                                       *)
(***************************************************************************)
(* The markers of the personal memories and of their tab.                   *)
PersonalOf(u, S) ==
  /\ DOMAIN u = {"memories", "loading", "mounts", "tab"}
  /\ u.tab # None => DOMAIN u.tab = {"mount", "filter", "form", "typed", "category", "submitting"}
  /\ u.loading # FALSE => Has(S, "list")
  /\ u.tab # None /\ u.tab.submitting # FALSE => \E c \in S : c.op = "upsert" /\ c.arg.mount = u.tab.mount

PersonalInv == Base(ClicksOf["personal"]) /\ PersonalOf(ui, calls)

LEMMA PersonalAlike ==
  ASSUME NEW u, NEW S, NEW T, Alike(S, T), PersonalOf(u, S)
  PROVE  PersonalOf(u, T)
<1>1. DOMAIN u = {"memories", "loading", "mounts", "tab"}
  BY DEF PersonalOf, Alike, Same, Has
<1>2. u.tab # None => DOMAIN u.tab = {"mount", "filter", "form", "typed", "category", "submitting"}
  BY DEF PersonalOf, Alike, Same, Has
<1>3. u.loading # FALSE => Has(T, "list")
  BY DEF PersonalOf, Alike, Same, Has
<1>4. u.tab # None /\ u.tab.submitting # FALSE => \E c \in T : c.op = "upsert" /\ c.arg.mount = u.tab.mount
  BY DEF PersonalOf, Alike, Same, Has
<1>5. QED
  BY <1>1, <1>2, <1>3, <1>4 DEF PersonalOf

LEMMA PersonalKeeps ==
  ASSUME PersonalInv, NEW u, NEW S, Moves(u, S, ClicksOf["personal"]), PersonalOf(u, S)
  PROVE  PersonalInv'
<1>1. PersonalOf(u, calls') /\ ui' = u
  BY FollowsAlike, PersonalAlike DEF Moves
<1>2. Base(ClicksOf["personal"])'
  BY LimitsAssumption DEF Moves, Follows, Base, AllProper, Panels, PersonalInv
<1>3. QED
  BY <1>1, <1>2 DEF PersonalInv

LEMMA PersonalTurns ==
  ASSUME PersonalInv, NEW u, NEW new, NEW gone, Personal!Turns(u, new, gone), AllProper(new), PersonalOf(u, (calls \ gone) \union new)
  PROVE  PersonalInv'
<1>1. Moves(u, (calls \ gone) \union new, ClicksOf["personal"])
  BY TurnMoves DEF PersonalInv, Personal!Turns, Personal!Joined, P!Joined, Personal!Disturbed, P!Disturbed, Personal!Clash, P!Clash, Personal!Touched, P!Touched
<1>2. QED
  BY <1>1, PersonalKeeps

LEMMA PersonalClicks ==
  ASSUME PersonalInv, NEW u, NEW new, Personal!Clicks(u, new), AllProper(new), PersonalOf(u, calls \union new)
  PROVE  PersonalInv'
<1>1. Personal!Turns(u, new, {}) /\ (calls \ {}) \union new = calls \union new
  BY DEF Personal!Clicks
<1>2. QED
  BY <1>1, PersonalTurns

LEMMA PersonalShows ==
  ASSUME PersonalInv, NEW u, Personal!Shows(u), PersonalOf(u, calls)
  PROVE  PersonalInv'
<1>1. Moves(u, calls, ClicksOf["personal"])
  BY ShowMoves DEF PersonalInv, Personal!Shows
<1>2. QED
  BY <1>1, PersonalKeeps

LEMMA PersonalChanges ==
  ASSUME PersonalInv, NEW parts, NEW s, Personal!ChangedElsewhere(parts, s)
  PROVE  PersonalInv'
<1>1. Moves(ui, calls, ClicksOf["personal"])
  BY ChangeMoves DEF PersonalInv, Personal!ChangedElsewhere, Personal!Disturbed, P!Disturbed
<1>2. QED
  BY <1>1, PersonalKeeps DEF PersonalInv

LEMMA PersonalServes ==
  ASSUME PersonalInv, NEW c, NEW s, NEW got, Personal!Serves(c, s, got), PersonalOf(ui, Answered(c, "served", got))
  PROVE  PersonalInv'
<1>1. Moves(ui, Answered(c, "served", got), ClicksOf["personal"])
  BY ServeMoves DEF PersonalInv, Personal!Serves
<1>2. QED
  BY <1>1, PersonalKeeps

LEMMA PersonalFails ==
  ASSUME PersonalInv, NEW c, Personal!Fails(c), PersonalOf(ui, Answered(c, "failed", c.got))
  PROVE  PersonalInv'
<1>1. Moves(ui, Answered(c, "failed", c.got), ClicksOf["personal"])
  BY FailMoves DEF PersonalInv, Personal!Fails
<1>2. QED
  BY <1>1, PersonalKeeps

LEMMA PersonalGoes ==
  ASSUME PersonalInv, NEW c, NEW u, NEW new, NEW gone, NEW spoils, 
         Personal!Goes(c, u, new, gone, spoils), AllProper(new), PersonalOf(u, (calls \ ({c} \union gone)) \union new)
  PROVE  PersonalInv'
<1>1. Moves(u, (calls \ ({c} \union gone)) \union new, ClicksOf["personal"])
  BY GoMoves DEF PersonalInv, Personal!Goes, Personal!Joined, P!Joined, Personal!Disturbed, P!Disturbed, Personal!Clash, P!Clash, Personal!Touched, P!Touched
<1>2. QED
  BY <1>1, PersonalKeeps

LEMMA PersonalSends ==
  ASSUME PersonalInv, NEW c, NEW u, NEW new, NEW spoils, Personal!Goes(c, u, new, {}, spoils), AllProper(new),
         PersonalOf(u, (calls \ {c}) \union new)
  PROVE  PersonalInv'
<1>1. (calls \ ({c} \union {})) \union new = (calls \ {c}) \union new
  OBVIOUS
<1>2. QED
  BY <1>1, PersonalGoes

LEMMA PersonalEnds ==
  ASSUME PersonalInv, NEW c, NEW u, NEW spoils, Personal!Goes(c, u, {}, {}, spoils), PersonalOf(u, calls \ {c})
  PROVE  PersonalInv'
<1>1. AllProper({}) /\ (calls \ {c}) \union {} = calls \ {c}
  BY DEF AllProper
<1>2. QED
  BY <1>1, PersonalSends


LEMMA PersonalNew ==
  /\ \A op, arg : Fresh(Personal!Load(op, arg), "load", op, arg)
  /\ \A op, arg : Fresh(Personal!Act(op, arg), "act", op, arg)
  BY DEF Personal!Load, Personal!Act, Personal!LoadOf, Personal!ActOn, Personal!Whole, Personal!Sent, Fresh, Proper, IsCall

LEMMA PersonalInit == Personal!Init => PersonalInv
<1> SUFFICES ASSUME Personal!Init PROVE PersonalInv
  OBVIOUS
<1>1. PICK n1 : n1 = Personal!LoadPersonalAgentData /\ Fresh(n1, "load", "list", None)
  BY PersonalNew DEF Personal!LoadPersonalAgentData
<1>2. /\ DOMAIN ui = {"memories", "loading", "mounts", "tab"} /\ ui.tab = Personal!Tab(1)
      /\ calls = {n1} /\ clicks = 0
  BY <1>1 DEF Personal!Init
<1>3. /\ DOMAIN Personal!Tab(1) = {"mount", "filter", "form", "typed", "category", "submitting"}
      /\ Personal!Tab(1).submitting = FALSE
  BY DEF Personal!Tab
<1>4. PersonalOf(ui, calls)
  BY <1>1, <1>2, <1>3 DEF PersonalOf, Has, Fresh
<1>5. QED
  BY <1>1, <1>2, <1>4, LimitsAssumption DEF PersonalInv, Base, AllProper, Panels, Fresh

LEMMA PersonalHandle ==
  ASSUME PersonalInv,
         \/ Personal!WorkspaceChanges \/ Personal!OnRefresh \/ Personal!SelectDomain \/ Personal!ToggleNewMemory
         \/ \E f \in {"all"} \union Category : Personal!SelectCategory(f)
         \/ \E typed \in BOOLEAN, c \in Category : Personal!TypesMemory(typed, c)
         \/ Personal!HandleCreateMemory \/ Personal!HandleDeleteMemory
  PROVE  PersonalInv'
<1>0. PersonalOf(ui, calls)
  BY DEF PersonalInv
<1>1. ASSUME Personal!WorkspaceChanges PROVE PersonalInv'
  <2>1. PICK n1 : n1 = Personal!LoadPersonalAgentData /\ Fresh(n1, "load", "list", None)
    BY PersonalNew DEF Personal!LoadPersonalAgentData
  <2>2. PersonalOf([ui EXCEPT !.loading = TRUE], calls \union {n1})
    <3>1. PICK w : w = [ui EXCEPT !.loading = TRUE]
      OBVIOUS
    <3>2. /\ DOMAIN w = DOMAIN ui
         /\ w.memories = ui.memories
         /\ w.loading = (TRUE)
         /\ w.mounts = ui.mounts
         /\ w.tab = ui.tab
      BY <1>0, <3>1 DEF PersonalOf
    <3>3. PICK T : T = calls \union {n1}
      OBVIOUS
    <3>4. QED
      BY <1>0, <2>1, <3>1, <3>2, <3>3 DEF PersonalOf, Has, Fresh
  <2>3. AllProper({n1})
    BY <2>1, AllPropers DEF Fresh
  <2>4. QED
    BY <1>0, <1>1, <2>1, <2>2, <2>3, PersonalClicks DEF Personal!WorkspaceChanges, Personal!LoadPersonalAgentData
<1>2. ASSUME Personal!OnRefresh PROVE PersonalInv'
  <2>1. PICK n1 : n1 = Personal!LoadPersonalAgentData /\ Fresh(n1, "load", "list", None)
    BY PersonalNew DEF Personal!LoadPersonalAgentData
  <2>2. PersonalOf([ui EXCEPT !.loading = TRUE], calls \union {n1})
    <3>1. PICK w : w = [ui EXCEPT !.loading = TRUE]
      OBVIOUS
    <3>2. /\ DOMAIN w = DOMAIN ui
         /\ w.memories = ui.memories
         /\ w.loading = (TRUE)
         /\ w.mounts = ui.mounts
         /\ w.tab = ui.tab
      BY <1>0, <3>1 DEF PersonalOf
    <3>3. PICK T : T = calls \union {n1}
      OBVIOUS
    <3>4. QED
      BY <1>0, <2>1, <3>1, <3>2, <3>3 DEF PersonalOf, Has, Fresh
  <2>3. AllProper({n1})
    BY <2>1, AllPropers DEF Fresh
  <2>4. QED
    BY <1>0, <1>2, <2>1, <2>2, <2>3, PersonalClicks DEF Personal!OnRefresh, Personal!LoadPersonalAgentData
<1>3. ASSUME Personal!SelectDomain, ui.tab # None PROVE PersonalInv'
  <2>1. PersonalOf([ui EXCEPT !.tab = None], calls \union {})
    <3>1. PICK w : w = [ui EXCEPT !.tab = None]
      OBVIOUS
    <3>2. /\ DOMAIN w = DOMAIN ui
         /\ w.memories = ui.memories
         /\ w.loading = ui.loading
         /\ w.mounts = ui.mounts
         /\ w.tab = (None)
      BY <1>0, <3>1 DEF PersonalOf
    <3>3. PICK T : T = calls \union {}
      OBVIOUS
    <3>4. QED
      BY <1>0, <3>1, <3>2, <3>3 DEF PersonalOf, Has
  <2>2. QED
    BY <1>0, <1>3, <2>1, PersonalClicks, AllPropers DEF Personal!SelectDomain, Personal!OnTab
<1>4. ASSUME Personal!SelectDomain, ui.tab = None PROVE PersonalInv'
  <2>1. PICK t : t = Personal!Tab(ui.mounts + 1)
    BY DEF Personal!OnTab, Personal!Tab
  <2>2. DOMAIN t = {"mount", "filter", "form", "typed", "category", "submitting"} /\ t.submitting = FALSE
    BY <1>0, <2>1, <1>4 DEF PersonalOf, Has, Fresh, Personal!SelectDomain, Personal!OnTab, Personal!Tab
  <2>3. PersonalOf([ui EXCEPT !.tab = t, !.mounts = @ + 1], calls \union {})
    <3>1. PICK w : w = [ui EXCEPT !.tab = t, !.mounts = @ + 1]
      OBVIOUS
    <3>2. /\ DOMAIN w = DOMAIN ui
         /\ w.memories = ui.memories
         /\ w.loading = ui.loading
         /\ w.mounts = (ui.mounts + 1)
         /\ w.tab = (t)
      BY <1>0, <3>1 DEF PersonalOf
    <3>3. PICK T : T = calls \union {}
      OBVIOUS
    <3>4. QED
      BY <1>0, <2>1, <2>2, <3>1, <3>2, <3>3 DEF PersonalOf, Has, Fresh
  <2>4. QED
    BY <1>0, <1>4, <2>1, <2>2, <2>3, PersonalClicks, AllPropers DEF Personal!SelectDomain, Personal!OnTab, Personal!Tab
<1>5. ASSUME NEW f, Personal!SelectCategory(f) PROVE PersonalInv'
  <2>1. ui.tab # None
    BY <1>0, <1>5 DEF PersonalOf, Personal!SelectCategory, Personal!OnTab
  <2>2. PersonalOf([ui EXCEPT !.tab.filter = f], calls)
    <3>1. PICK w : w = [ui EXCEPT !.tab.filter = f]
      OBVIOUS
    <3>2. /\ DOMAIN w = DOMAIN ui
         /\ DOMAIN w.tab = DOMAIN ui.tab
         /\ w.tab.mount = ui.tab.mount
         /\ w.tab.filter = (f)
         /\ w.tab.form = ui.tab.form
         /\ w.tab.typed = ui.tab.typed
         /\ w.tab.category = ui.tab.category
         /\ w.tab.submitting = ui.tab.submitting
         /\ w.memories = ui.memories
         /\ w.loading = ui.loading
         /\ w.mounts = ui.mounts
      BY <1>0, <3>1, <2>1 DEF PersonalOf
    <3>3. QED
      BY <1>0, <2>1, <3>1, <3>2 DEF PersonalOf, Has
  <2>3. QED
    BY <1>0, <1>5, <2>1, <2>2, PersonalShows, AllPropers DEF Personal!SelectCategory, Personal!OnTab
<1>6. ASSUME Personal!ToggleNewMemory PROVE PersonalInv'
  <2>1. ui.tab # None
    BY <1>0, <1>6 DEF PersonalOf, Personal!ToggleNewMemory, Personal!OnTab
  <2>2. PersonalOf([ui EXCEPT !.tab.form = ~@], calls)
    <3>1. PICK w : w = [ui EXCEPT !.tab.form = ~@]
      OBVIOUS
    <3>2. /\ DOMAIN w = DOMAIN ui
         /\ DOMAIN w.tab = DOMAIN ui.tab
         /\ w.tab.mount = ui.tab.mount
         /\ w.tab.filter = ui.tab.filter
         /\ w.tab.form = (~ui.tab.form)
         /\ w.tab.typed = ui.tab.typed
         /\ w.tab.category = ui.tab.category
         /\ w.tab.submitting = ui.tab.submitting
         /\ w.memories = ui.memories
         /\ w.loading = ui.loading
         /\ w.mounts = ui.mounts
      BY <1>0, <3>1, <2>1 DEF PersonalOf
    <3>3. QED
      BY <1>0, <2>1, <3>1, <3>2 DEF PersonalOf, Has
  <2>3. QED
    BY <1>0, <1>6, <2>1, <2>2, PersonalShows, AllPropers DEF Personal!ToggleNewMemory, Personal!OnTab
<1>7. ASSUME NEW typed, NEW c, Personal!TypesMemory(typed, c) PROVE PersonalInv'
  <2>1. ui.tab # None
    BY <1>0, <1>7 DEF PersonalOf, Personal!TypesMemory, Personal!OnTab
  <2>2. PersonalOf([ui EXCEPT !.tab.typed = typed, !.tab.category = c], calls)
    <3>1. PICK w : w = [ui EXCEPT !.tab.typed = typed, !.tab.category = c]
      OBVIOUS
    <3>2. /\ DOMAIN w = DOMAIN ui
         /\ DOMAIN w.tab = DOMAIN ui.tab
         /\ w.tab.mount = ui.tab.mount
         /\ w.tab.filter = ui.tab.filter
         /\ w.tab.form = ui.tab.form
         /\ w.tab.typed = (typed)
         /\ w.tab.category = (c)
         /\ w.tab.submitting = ui.tab.submitting
         /\ w.memories = ui.memories
         /\ w.loading = ui.loading
         /\ w.mounts = ui.mounts
      BY <1>0, <3>1, <2>1 DEF PersonalOf
    <3>3. QED
      BY <1>0, <2>1, <3>1, <3>2 DEF PersonalOf, Has
  <2>3. QED
    BY <1>0, <1>7, <2>1, <2>2, PersonalShows, AllPropers DEF Personal!TypesMemory, Personal!OnTab
<1>8. ASSUME NEW i, Personal!OnTab, Personal!Clicks([ui EXCEPT !.tab.submitting = TRUE], {Personal!Act("upsert", [mount |-> ui.tab.mount,
                         r |-> [id |-> i, category |-> ui.tab.category]])}) PROVE PersonalInv'
  <2>1. ui.tab # None
    BY <1>0, <1>8 DEF PersonalOf, Personal!Clicks, Personal!OnTab
  <2>2. PICK n1 : n1 = Personal!Act("upsert", [mount |-> ui.tab.mount, r |-> [id |-> i, category |-> ui.tab.category]]) /\ Fresh(n1, "act", "upsert", [mount |-> ui.tab.mount, r |-> [id |-> i, category |-> ui.tab.category]])
    BY PersonalNew DEF Personal!OnTab
  <2>3. PersonalOf([ui EXCEPT !.tab.submitting = TRUE], calls \union {n1})
    <3>1. PICK w : w = [ui EXCEPT !.tab.submitting = TRUE]
      OBVIOUS
    <3>2. /\ DOMAIN w = DOMAIN ui
         /\ DOMAIN w.tab = DOMAIN ui.tab
         /\ w.tab.mount = ui.tab.mount
         /\ w.tab.filter = ui.tab.filter
         /\ w.tab.form = ui.tab.form
         /\ w.tab.typed = ui.tab.typed
         /\ w.tab.category = ui.tab.category
         /\ w.tab.submitting = (TRUE)
         /\ w.memories = ui.memories
         /\ w.loading = ui.loading
         /\ w.mounts = ui.mounts
      BY <1>0, <3>1, <2>1 DEF PersonalOf
    <3>3. PICK T : T = calls \union {n1}
      OBVIOUS
    <3>4. DOMAIN w = {"memories", "loading", "mounts", "tab"}
      BY <1>0, <2>1, <2>2, <3>2, <3>3 DEF PersonalOf, Has, Fresh
    <3>5. w.tab # None => DOMAIN w.tab = {"mount", "filter", "form", "typed", "category", "submitting"}
      BY <1>0, <2>1, <2>2, <3>2, <3>3 DEF PersonalOf, Has, Fresh
    <3>6. w.loading # FALSE => Has(T, "list")
      BY <1>0, <2>1, <2>2, <3>2, <3>3 DEF PersonalOf, Has, Fresh
    <3>7. w.tab # None /\ w.tab.submitting # FALSE => \E d \in T : d.op = "upsert" /\ d.arg.mount = w.tab.mount
      BY <1>0, <2>1, <2>2, <3>2, <3>3 DEF PersonalOf, Has, Fresh
    <3>8. QED
      BY <3>1, <3>3, <3>4, <3>5, <3>6, <3>7 DEF PersonalOf
  <2>4. AllProper({n1})
    BY <2>1, <2>2, AllPropers DEF Fresh
  <2>5. QED
    BY <1>0, <1>8, <2>1, <2>2, <2>3, <2>4, PersonalClicks DEF Personal!Clicks, Personal!OnTab
<1>9. ASSUME NEW r, Personal!Clicks(ui, {Personal!Act("delete", [mount |-> ui.tab.mount, id |-> r.id])}) PROVE PersonalInv'
  <2>1. PICK n1 : n1 = Personal!Act("delete", [mount |-> ui.tab.mount, id |-> r.id]) /\ Fresh(n1, "act", "delete", [mount |-> ui.tab.mount, id |-> r.id])
    BY PersonalNew
  <2>2. PersonalOf(ui, calls \union {n1})
    <3>1. PICK T : T = calls \union {n1}
      OBVIOUS
    <3>2. QED
      BY <1>0, <2>1, <3>1 DEF PersonalOf, Has, Fresh
  <2>3. AllProper({n1})
    BY <2>1, AllPropers DEF Fresh
  <2>4. QED
    BY <1>0, <1>9, <2>1, <2>2, <2>3, PersonalClicks DEF Personal!Clicks
<1>10. QED
  BY <1>1, <1>2, <1>3, <1>4, <1>5, <1>6, <1>7, <1>8, <1>9 DEF Personal!HandleCreateMemory, Personal!HandleDeleteMemory

LEMMA PersonalServed ==
  ASSUME PersonalInv,
         Personal!DaemonServes \/ Personal!DistilledElsewhere \/ (\E c \in calls : Personal!Fails(c))
  PROVE  PersonalInv'
<1>0. PersonalOf(ui, calls)
  BY DEF PersonalInv
<1>1. CASE Personal!DaemonServes
  <2>1. PICK c \in calls : (\E s, got : Personal!Serves(c, s, got))
    BY <1>1 DEF Personal!DaemonServes
  <2>2. c \in calls => \A at, got : PersonalOf(ui, Answered(c, at, got))
    BY <1>0, AnsweredAlike, PersonalAlike
  <2>3. QED
    BY <2>1, <2>2, PersonalServes DEF Personal!Serves
<1>2. CASE Personal!DistilledElsewhere
  BY <1>2, PersonalChanges DEF Personal!DistilledElsewhere
<1>3. CASE \E c \in calls : Personal!Fails(c)
  <2>1. PICK c \in calls : Personal!Fails(c)
    BY <1>3
  <2>2. PersonalOf(ui, Answered(c, "failed", c.got))
    BY <1>0, <2>1, AnsweredAlike, PersonalAlike DEF Personal!Fails
  <2>3. QED
    BY <2>1, <2>2, PersonalFails
<1>4. QED
  BY <1>1, <1>2, <1>3

LEMMA PersonalReturned ==
  ASSUME PersonalInv,
         \E c \in calls : Personal!ListReturns(c) \/ Personal!HandlerReturns(c)
  PROVE  PersonalInv'
<1>0. PersonalOf(ui, calls)
  BY DEF PersonalInv
<1>1. ASSUME NEW c \in calls, Personal!ListReturns(c) PROVE PersonalInv'
  <2>1. c.op = "list"
    BY <1>0, <1>1 DEF PersonalOf, Personal!ListReturns
  <2>2. PersonalOf([ui EXCEPT !.memories = IF c.at = "served" THEN c.got ELSE {}, !.loading = FALSE], calls \ {c})
    <3>1. PICK w : w = [ui EXCEPT !.memories = IF c.at = "served" THEN c.got ELSE {}, !.loading = FALSE]
      OBVIOUS
    <3>2. /\ DOMAIN w = DOMAIN ui
         /\ w.memories = (IF c.at = "served" THEN c.got ELSE {})
         /\ w.loading = (FALSE)
         /\ w.mounts = ui.mounts
         /\ w.tab = ui.tab
      BY <1>0, <3>1, <2>1 DEF PersonalOf
    <3>3. PICK T : T = calls \ {c}
      OBVIOUS
    <3>4. QED
      BY <1>0, <2>1, <3>1, <3>2, <3>3 DEF PersonalOf, Has
  <2>3. QED
    BY <1>0, <1>1, <2>1, <2>2, PersonalEnds, AllPropers DEF Personal!ListReturns
<1>2. CASE \E c \in calls : Personal!HandlerReturns(c)
  <2>1. PICK c \in calls : Personal!HandlerReturns(c)
    BY <1>2
  <2>2. PICK u : u = Personal!Answered(c)
    OBVIOUS
  <2>3. /\ c.op \in {"upsert", "delete"}
        /\ \/ Personal!Goes(c, [u EXCEPT !.loading = TRUE], {Personal!LoadPersonalAgentData}, {}, FALSE)
           \/ Personal!Goes(c, u, {}, {}, FALSE)
    BY <2>1, <2>2 DEF Personal!HandlerReturns
  <2>4. /\ DOMAIN u = DOMAIN ui /\ u.loading = ui.loading
        /\ \/ u.tab = ui.tab /\ ~(c.op = "upsert" /\ ui.tab # None /\ ui.tab.mount = c.arg.mount)
           \/ /\ ui.tab # None /\ DOMAIN u.tab = DOMAIN ui.tab /\ u.tab.submitting = FALSE
    <3>1. CASE c.op = "delete" \/ ~Personal!Mine(c)
      BY <2>2, <3>1 DEF Personal!Answered, Personal!Mine, Personal!OnTab
    <3>2. CASE ~(c.op = "delete" \/ ~Personal!Mine(c))
      <4>1. ui.tab # None
        BY <3>2 DEF Personal!Mine, Personal!OnTab
      <4>2. /\ DOMAIN ui = {"memories", "loading", "mounts", "tab"}
            /\ DOMAIN ui.tab = {"mount", "filter", "form", "typed", "category", "submitting"}
        BY <1>0, <4>1 DEF PersonalOf
      <4>3. CASE c.at = "served"
        <5>1. u = [ui EXCEPT !.tab.typed = FALSE, !.tab.form = FALSE, !.tab.submitting = FALSE]
          BY <2>2, <3>2, <4>3 DEF Personal!Answered
        <5>2. DOMAIN u = DOMAIN ui /\ u.loading = ui.loading
          BY <4>2, <5>1
        <5>3. DOMAIN u.tab = DOMAIN ui.tab /\ u.tab.submitting = FALSE
          BY <4>2, <5>1
        <5>4. QED
          BY <4>1, <5>2, <5>3
      <4>4. CASE c.at # "served"
        <5>1. u = [ui EXCEPT !.tab.submitting = FALSE]
          BY <2>2, <3>2, <4>4 DEF Personal!Answered
        <5>2. DOMAIN u = DOMAIN ui /\ u.loading = ui.loading
          BY <4>2, <5>1
        <5>3. DOMAIN u.tab = DOMAIN ui.tab /\ u.tab.submitting = FALSE
          BY <4>2, <5>1
        <5>4. QED
          BY <4>1, <5>2, <5>3
      <4>5. QED
        BY <4>3, <4>4
    <3>3. QED
      BY <3>1, <3>2
  <2>5. PICK n : n = Personal!LoadPersonalAgentData /\ Fresh(n, "load", "list", None)
    BY PersonalNew DEF Personal!LoadPersonalAgentData
  <2>6. PersonalOf(u, calls \ {c})
    <3>1. PICK T : T = calls \ {c}
      OBVIOUS
    <3>2. u.loading # FALSE => Has(T, "list")
      BY <1>0, <2>3, <2>4, <3>1 DEF PersonalOf, Has
    <3>3. u.tab # None => DOMAIN u.tab = {"mount", "filter", "form", "typed", "category", "submitting"}
      BY <1>0, <2>4 DEF PersonalOf
    <3>4. u.tab # None /\ u.tab.submitting # FALSE => \E d \in T : d.op = "upsert" /\ d.arg.mount = u.tab.mount
      BY <1>0, <2>3, <2>4, <3>1 DEF PersonalOf
    <3>5. DOMAIN u = {"memories", "loading", "mounts", "tab"}
      BY <1>0, <2>4 DEF PersonalOf
    <3>6. QED
      BY <3>1, <3>2, <3>3, <3>4, <3>5 DEF PersonalOf
  <2>7. PICK w : w = [u EXCEPT !.loading = TRUE]
    OBVIOUS
  <2>8. DOMAIN w = DOMAIN u /\ w.tab = u.tab
    BY <1>0, <2>4, <2>7 DEF PersonalOf
  <2>9. PersonalOf(w, (calls \ {c}) \union {n})
    BY <2>5, <2>6, <2>8 DEF PersonalOf, Has, Fresh
  <2>10. AllProper({n})
    BY <2>5, AllPropers DEF Fresh
  <2>11. QED
    BY <2>3, <2>5, <2>6, <2>7, <2>9, <2>10, PersonalEnds, PersonalSends
<1>3. QED
  BY <1>1, <1>2

LEMMA PersonalStep == PersonalInv /\ Personal!Next => PersonalInv'
  BY PersonalHandle, PersonalServed, PersonalReturned DEF Personal!Next

(***************************************************************************)
(* The dialog that saves a message.                                        *)
(***************************************************************************)
(* The marker of the app's operations.                                      *)
SaveOf(u, S) ==
  /\ DOMAIN u = {"ws", "of", "late", "entries", "text", "form", "body", "busy"}
  /\ u.busy # None => \E c \in S : c.op \in {"write", "refresh", "other"}

SaveInv == Base(ClicksOf["save"]) /\ SaveOf(ui, calls)

LEMMA SaveAlike ==
  ASSUME NEW u, NEW S, NEW T, Alike(S, T), SaveOf(u, S)
  PROVE  SaveOf(u, T)
<1>1. QED
  BY DEF SaveOf, Alike, Same, Has

LEMMA SaveKeeps ==
  ASSUME SaveInv, NEW u, NEW S, Moves(u, S, ClicksOf["save"]), SaveOf(u, S)
  PROVE  SaveInv'
<1>1. SaveOf(u, calls') /\ ui' = u
  BY FollowsAlike, SaveAlike DEF Moves
<1>2. Base(ClicksOf["save"])'
  BY LimitsAssumption DEF Moves, Follows, Base, AllProper, Panels, SaveInv
<1>3. QED
  BY <1>1, <1>2 DEF SaveInv

LEMMA SaveTurns ==
  ASSUME SaveInv, NEW u, NEW new, NEW gone, Save!Turns(u, new, gone), AllProper(new), SaveOf(u, (calls \ gone) \union new)
  PROVE  SaveInv'
<1>1. Moves(u, (calls \ gone) \union new, ClicksOf["save"])
  BY TurnMoves DEF SaveInv, Save!Turns, Save!Joined, P!Joined, Save!Disturbed, P!Disturbed, Save!Clash, P!Clash, Save!Touched, P!Touched
<1>2. QED
  BY <1>1, SaveKeeps

LEMMA SaveClicks ==
  ASSUME SaveInv, NEW u, NEW new, Save!Clicks(u, new), AllProper(new), SaveOf(u, calls \union new)
  PROVE  SaveInv'
<1>1. Save!Turns(u, new, {}) /\ (calls \ {}) \union new = calls \union new
  BY DEF Save!Clicks
<1>2. QED
  BY <1>1, SaveTurns

LEMMA SaveShows ==
  ASSUME SaveInv, NEW u, Save!Shows(u), SaveOf(u, calls)
  PROVE  SaveInv'
<1>1. Moves(u, calls, ClicksOf["save"])
  BY ShowMoves DEF SaveInv, Save!Shows
<1>2. QED
  BY <1>1, SaveKeeps

LEMMA SaveServes ==
  ASSUME SaveInv, NEW c, NEW s, NEW got, Save!Serves(c, s, got), SaveOf(ui, Answered(c, "served", got))
  PROVE  SaveInv'
<1>1. Moves(ui, Answered(c, "served", got), ClicksOf["save"])
  BY ServeMoves DEF SaveInv, Save!Serves
<1>2. QED
  BY <1>1, SaveKeeps

LEMMA SaveFails ==
  ASSUME SaveInv, NEW c, Save!Fails(c), SaveOf(ui, Answered(c, "failed", c.got))
  PROVE  SaveInv'
<1>1. Moves(ui, Answered(c, "failed", c.got), ClicksOf["save"])
  BY FailMoves DEF SaveInv, Save!Fails
<1>2. QED
  BY <1>1, SaveKeeps

LEMMA SaveGoes ==
  ASSUME SaveInv, NEW c, NEW u, NEW new, NEW gone, NEW spoils, 
         Save!Goes(c, u, new, gone, spoils), AllProper(new), SaveOf(u, (calls \ ({c} \union gone)) \union new)
  PROVE  SaveInv'
<1>1. Moves(u, (calls \ ({c} \union gone)) \union new, ClicksOf["save"])
  BY GoMoves DEF SaveInv, Save!Goes, Save!Joined, P!Joined, Save!Disturbed, P!Disturbed, Save!Clash, P!Clash, Save!Touched, P!Touched
<1>2. QED
  BY <1>1, SaveKeeps

LEMMA SaveSends ==
  ASSUME SaveInv, NEW c, NEW u, NEW new, NEW spoils, Save!Goes(c, u, new, {}, spoils), AllProper(new),
         SaveOf(u, (calls \ {c}) \union new)
  PROVE  SaveInv'
<1>1. (calls \ ({c} \union {})) \union new = (calls \ {c}) \union new
  OBVIOUS
<1>2. QED
  BY <1>1, SaveGoes

LEMMA SaveEnds ==
  ASSUME SaveInv, NEW c, NEW u, NEW spoils, Save!Goes(c, u, {}, {}, spoils), SaveOf(u, calls \ {c})
  PROVE  SaveInv'
<1>1. AllProper({}) /\ (calls \ {c}) \union {} = calls \ {c}
  BY DEF AllProper
<1>2. QED
  BY <1>1, SaveSends


LEMMA SaveNew ==
  /\ \A parts, op, arg : Fresh(Save!LoadOf(parts, op, arg), "load", op, arg)
  /\ \A parts, op, arg : Fresh(Save!ActOn(parts, op, arg), "act", op, arg)
  /\ \A op, arg : Fresh(Save!Detail(op, arg), "detail", op, arg)
  BY DEF Save!LoadOf, Save!ActOn, Save!Detail, Save!Sent, Fresh, Proper, IsCall

LEMMA SaveInit == Save!Init => SaveInv
  BY LimitsAssumption DEF Save!Init, SaveInv, SaveOf, Base, Panels, AllProper

LEMMA SaveForm ==
  ASSUME SaveInv, NEW f, Save!Shows([ui EXCEPT !.form = f])
  PROVE  SaveInv'
<1>1. SaveOf([ui EXCEPT !.form = f], calls)
  BY DEF SaveInv, SaveOf
<1>2. QED
  BY <1>1, SaveShows

LEMMA SaveHandle ==
  ASSUME SaveInv,
         \/ \E t \in Message : Save!RememberFromChat(t)
         \/ \E t \in Save!Types : Save!HandleTypeChange(t)
         \/ \E s \in Save!Scope : Save!SetScope(s)
         \/ \E k \in MemoryKey \union {None} : Save!SetKey(k)
         \/ Save!OnClose \/ Save!HandleSubmit \/ Save!OtherOperation
         \/ \E w \in Workspace \union {None} : Save!SelectWorkspace(w)
  PROVE  SaveInv'
<1>0. SaveOf(ui, calls)
  BY DEF SaveInv
<1>1. ASSUME NEW t, Save!RememberFromChat(t) PROVE SaveInv'
  <2>1. SaveOf([ui EXCEPT !.text = t, !.form = IF ui.text = None THEN Save!Initial(t) ELSE @,
                   !.body = IF ui.text = None THEN t ELSE @], calls)
    <3>1. PICK w : w = [ui EXCEPT !.text = t, !.form = IF ui.text = None THEN Save!Initial(t) ELSE @,
                   !.body = IF ui.text = None THEN t ELSE @]
      OBVIOUS
    <3>2. /\ DOMAIN w = DOMAIN ui
         /\ w.ws = ui.ws
         /\ w.entries = ui.entries
         /\ w.text = (t)
         /\ w.form = (IF ui.text = None THEN Save!Initial(t) ELSE ui.form)
         /\ w.body = (IF ui.text = None THEN t ELSE ui.body)
         /\ w.busy = ui.busy
      BY <1>0, <3>1 DEF SaveOf
    <3>3. QED
      BY <1>0, <3>1, <3>2 DEF SaveOf, Has
  <2>2. QED
    BY <1>0, <1>1, <2>1, SaveShows, AllPropers DEF Save!RememberFromChat
<1>2. CASE \/ \E t \in Save!Types : Save!HandleTypeChange(t)
           \/ \E s \in Save!Scope : Save!SetScope(s)
           \/ \E k \in MemoryKey \union {None} : Save!SetKey(k)
  BY <1>2, SaveForm DEF Save!HandleTypeChange, Save!SetScope, Save!SetKey, Save!Fills
<1>3. ASSUME Save!OnClose PROVE SaveInv'
  <2>1. SaveOf(Save!Closed(ui), calls)
    <3>1. PICK w : w = Save!Closed(ui)
      OBVIOUS
    <3>2. DOMAIN w = DOMAIN ui /\ w.busy = ui.busy
      BY <1>0, <3>1 DEF SaveOf, Save!Closed
    <3>3. QED
      BY <1>0, <3>1, <3>2 DEF SaveOf, Has
  <2>2. QED
    BY <1>0, <1>3, <2>1, SaveShows, AllPropers DEF Save!OnClose, Save!Closed
<1>4. ASSUME Save!HandleSubmit, ui.form.scope = "project" /\ ui.ws # None PROVE SaveInv'
  <2>1. PICK n1 : n1 = Save!WriteMemoryEntry(Save!EntryAt(ui.ws), ui.ws) /\ Fresh(n1, "act", "write", [e |-> Save!EntryAt(ui.ws), ws |-> ui.ws])
    BY SaveNew DEF Save!WriteMemoryEntry
  <2>2. SaveOf([ui EXCEPT !.busy = "write-memory"], calls \union {n1})
    <3>1. PICK w : w = [ui EXCEPT !.busy = "write-memory"]
      OBVIOUS
    <3>2. /\ DOMAIN w = DOMAIN ui
         /\ w.ws = ui.ws
         /\ w.entries = ui.entries
         /\ w.text = ui.text
         /\ w.form = ui.form
         /\ w.body = ui.body
         /\ w.busy = ("write-memory")
      BY <1>0, <3>1 DEF SaveOf
    <3>3. PICK T : T = calls \union {n1}
      OBVIOUS
    <3>4. QED
      BY <1>0, <2>1, <3>1, <3>2, <3>3 DEF SaveOf, Has, Fresh
  <2>3. AllProper({n1})
    BY <2>1, AllPropers DEF Fresh
  <2>4. QED
    BY <1>0, <1>4, <2>1, <2>2, <2>3, SaveClicks DEF Save!HandleSubmit, Save!WriteMemoryEntry
<1>5. ASSUME Save!HandleSubmit, ~(ui.form.scope = "project" /\ ui.ws # None) PROVE SaveInv'
  <2>1. PICK n1 : n1 = Save!Detail("default", [e |-> Save!EntryAt(None), ws |-> ui.ws]) /\ Fresh(n1, "detail", "default", [e |-> Save!EntryAt(None), ws |-> ui.ws])
    BY SaveNew
  <2>2. SaveOf(ui, calls \union {n1})
    <3>1. PICK T : T = calls \union {n1}
      OBVIOUS
    <3>2. QED
      BY <1>0, <2>1, <3>1 DEF SaveOf, Has, Fresh
  <2>3. AllProper({n1})
    BY <2>1, AllPropers DEF Fresh
  <2>4. QED
    BY <1>0, <1>5, <2>1, <2>2, <2>3, SaveClicks DEF Save!HandleSubmit
<1>6. ASSUME Save!OtherOperation PROVE SaveInv'
  <2>1. PICK n1 : n1 = Save!Detail("other", None) /\ Fresh(n1, "detail", "other", None)
    BY SaveNew
  <2>2. SaveOf([ui EXCEPT !.busy = "other"], calls \union {n1})
    <3>1. PICK w : w = [ui EXCEPT !.busy = "other"]
      OBVIOUS
    <3>2. /\ DOMAIN w = DOMAIN ui
         /\ w.ws = ui.ws
         /\ w.entries = ui.entries
         /\ w.text = ui.text
         /\ w.form = ui.form
         /\ w.body = ui.body
         /\ w.busy = ("other")
      BY <1>0, <3>1 DEF SaveOf
    <3>3. PICK T : T = calls \union {n1}
      OBVIOUS
    <3>4. QED
      BY <1>0, <2>1, <3>1, <3>2, <3>3 DEF SaveOf, Has, Fresh
  <2>3. AllProper({n1})
    BY <2>1, AllPropers DEF Fresh
  <2>4. QED
    BY <1>0, <1>6, <2>1, <2>2, <2>3, SaveClicks DEF Save!OtherOperation
<1>7. ASSUME NEW v, Save!SelectWorkspace(v), v = None PROVE SaveInv'
  <2>1. PICK old : old = {c \in calls : c.op = "index"}
    OBVIOUS
  <2>2. SaveOf([ui EXCEPT !.ws = v, !.entries = {}, !.of = v, !.late = FALSE], (calls \ old) \union {})
    <3>1. PICK w : w = [ui EXCEPT !.ws = v, !.entries = {}, !.of = v, !.late = FALSE]
      OBVIOUS
    <3>2. /\ DOMAIN w = DOMAIN ui
         /\ w.ws = (v)
         /\ w.entries = ({})
         /\ w.text = ui.text
         /\ w.form = ui.form
         /\ w.body = ui.body
         /\ w.busy = ui.busy
      BY <1>0, <3>1 DEF SaveOf
    <3>3. PICK T : T = (calls \ old) \union {}
      OBVIOUS
    <3>4. QED
      BY <1>0, <2>1, <3>1, <3>2, <3>3 DEF SaveOf, Has, Fresh
  <2>3. QED
    BY <1>0, <1>7, <2>1, <2>2, SaveTurns, AllPropers DEF Save!SelectWorkspace
<1>8. ASSUME NEW v, Save!SelectWorkspace(v), v # None PROVE SaveInv'
  <2>1. PICK old : old = {c \in calls : c.op = "index"}
    OBVIOUS
  <2>2. PICK n1 : n1 = Save!LoadOf({"entries"}, "index", [ws |-> v]) /\ Fresh(n1, "load", "index", [ws |-> v])
    BY SaveNew
  <2>3. SaveOf([ui EXCEPT !.ws = v], (calls \ old) \union {n1})
    <3>1. PICK w : w = [ui EXCEPT !.ws = v]
      OBVIOUS
    <3>2. /\ DOMAIN w = DOMAIN ui
         /\ w.ws = (v)
         /\ w.entries = ui.entries
         /\ w.text = ui.text
         /\ w.form = ui.form
         /\ w.body = ui.body
         /\ w.busy = ui.busy
      BY <1>0, <3>1 DEF SaveOf
    <3>3. PICK T : T = (calls \ old) \union {n1}
      OBVIOUS
    <3>4. QED
      BY <1>0, <2>1, <2>2, <3>1, <3>2, <3>3 DEF SaveOf, Has, Fresh
  <2>4. AllProper({n1})
    BY <2>1, <2>2, AllPropers DEF Fresh
  <2>5. QED
    BY <1>0, <1>8, <2>1, <2>2, <2>3, <2>4, SaveTurns DEF Save!SelectWorkspace
<1>9. QED
  BY <1>1, <1>2, <1>3, <1>4, <1>5, <1>6, <1>7, <1>8

LEMMA SaveServed ==
  ASSUME SaveInv,
         Save!DaemonServes \/ (\E c \in calls : Save!Fails(c))
  PROVE  SaveInv'
<1>0. SaveOf(ui, calls)
  BY DEF SaveInv
<1>1. CASE Save!DaemonServes
  <2>1. PICK c \in calls : (\E s, got : Save!Serves(c, s, got))
    BY <1>1 DEF Save!DaemonServes
  <2>2. c \in calls => \A at, got : SaveOf(ui, Answered(c, at, got))
    BY <1>0, AnsweredAlike, SaveAlike
  <2>3. QED
    BY <2>1, <2>2, SaveServes DEF Save!Serves
<1>2. CASE \E c \in calls : Save!Fails(c)
  <2>1. PICK c \in calls : Save!Fails(c)
    BY <1>2
  <2>2. SaveOf(ui, Answered(c, "failed", c.got))
    BY <1>0, <2>1, AnsweredAlike, SaveAlike DEF Save!Fails
  <2>3. QED
    BY <2>1, <2>2, SaveFails
<1>3. QED
  BY <1>1, <1>2

LEMMA SaveReturned ==
  ASSUME SaveInv,
         \E c \in calls : \/ Save!DefaultReturns(c) \/ Save!WriteReturns(c)
         \/ Save!RefreshReturns(c) \/ Save!IndexReturns(c) \/ Save!OtherReturns(c)
  PROVE  SaveInv'
<1>0. SaveOf(ui, calls)
  BY DEF SaveInv
<1>1. ASSUME NEW c \in calls, Save!DefaultReturns(c) PROVE SaveInv'
  <2>1. PICK e : e = [c.arg.e EXCEPT !.ws = IF c.at = "served" THEN Home ELSE None]
    BY DEF Save!WriteMemoryEntry
  <2>2. PICK n1 : n1 = Save!WriteMemoryEntry(e, c.arg.ws) /\ Fresh(n1, "act", "write", [e |-> e, ws |-> c.arg.ws])
    BY SaveNew DEF Save!WriteMemoryEntry
  <2>3. SaveOf([ui EXCEPT !.busy = "write-memory"], (calls \ {c}) \union {n1})
    <3>1. PICK w : w = [ui EXCEPT !.busy = "write-memory"]
      OBVIOUS
    <3>2. /\ DOMAIN w = DOMAIN ui
         /\ w.ws = ui.ws
         /\ w.entries = ui.entries
         /\ w.text = ui.text
         /\ w.form = ui.form
         /\ w.body = ui.body
         /\ w.busy = ("write-memory")
      BY <1>0, <3>1 DEF SaveOf
    <3>3. PICK T : T = (calls \ {c}) \union {n1}
      OBVIOUS
    <3>4. QED
      BY <1>0, <2>1, <2>2, <3>1, <3>2, <3>3 DEF SaveOf, Has, Fresh
  <2>4. AllProper({n1})
    BY <2>1, <2>2, AllPropers DEF Fresh
  <2>5. QED
    BY <1>0, <1>1, <2>1, <2>2, <2>3, <2>4, SaveSends DEF Save!DefaultReturns, Save!WriteMemoryEntry
<1>2. ASSUME NEW c \in calls, Save!WriteReturns(c) PROVE SaveInv'
  <2>1. PICK n1 : n1 = Save!RefreshMemory(c.arg.ws) /\ Fresh(n1, "load", "refresh", [ws |-> c.arg.ws])
    BY SaveNew DEF Save!RefreshMemory, Save!Closed
  <2>2. SaveOf([ui EXCEPT !.busy = "memory-refresh"], (calls \ {c}) \union {n1})
    <3>1. PICK w : w = [ui EXCEPT !.busy = "memory-refresh"]
      OBVIOUS
    <3>2. /\ DOMAIN w = DOMAIN ui
         /\ w.ws = ui.ws
         /\ w.entries = ui.entries
         /\ w.text = ui.text
         /\ w.form = ui.form
         /\ w.body = ui.body
         /\ w.busy = ("memory-refresh")
      BY <1>0, <3>1 DEF SaveOf
    <3>3. PICK T : T = (calls \ {c}) \union {n1}
      OBVIOUS
    <3>4. QED
      BY <1>0, <2>1, <3>1, <3>2, <3>3 DEF SaveOf, Has, Fresh
  <2>3. AllProper({n1})
    BY <2>1, AllPropers DEF Fresh
  <2>4. SaveOf(Save!Closed([ui EXCEPT !.busy = None]), calls \ {c})
    <3>1. PICK w : w = Save!Closed([ui EXCEPT !.busy = None])
      OBVIOUS
    <3>2. DOMAIN w = DOMAIN ui /\ w.busy = None
      BY <1>0, <3>1 DEF SaveOf, Save!RefreshMemory, Save!Closed
    <3>3. PICK T : T = calls \ {c}
      OBVIOUS
    <3>4. QED
      BY <1>0, <2>1, <3>1, <3>2, <3>3 DEF SaveOf, Has, Fresh
  <2>5. QED
    BY <1>0, <1>2, <2>1, <2>2, <2>3, <2>4, SaveEnds, SaveSends, AllPropers DEF Save!WriteReturns, Save!RefreshMemory, Save!Closed
<1>3. ASSUME NEW c \in calls, Save!RefreshReturns(c) PROVE SaveInv'
  <2>1. c.at = "served" => SaveOf(Save!Indexed(Save!Closed([ui EXCEPT !.busy = None]), c), calls \ {c})
    <3> SUFFICES ASSUME c.at = "served" PROVE SaveOf(Save!Indexed(Save!Closed([ui EXCEPT !.busy = None]), c), calls \ {c})
      OBVIOUS
    <3>1. PICK w : w = Save!Indexed(Save!Closed([ui EXCEPT !.busy = None]), c)
      OBVIOUS
    <3>2. DOMAIN w = DOMAIN ui /\ w.busy = None
      BY <1>0, <3>1 DEF SaveOf, Save!Closed, Save!Indexed
    <3>3. PICK T : T = calls \ {c}
      OBVIOUS
    <3>4. QED
      BY <1>0, <3>1, <3>2, <3>3 DEF SaveOf, Has
  <2>2. c.at # "served" => SaveOf(Save!Closed([ui EXCEPT !.busy = None]), calls \ {c})
    <3> SUFFICES ASSUME c.at # "served" PROVE SaveOf(Save!Closed([ui EXCEPT !.busy = None]), calls \ {c})
      OBVIOUS
    <3>1. PICK w : w = Save!Closed([ui EXCEPT !.busy = None])
      OBVIOUS
    <3>2. DOMAIN w = DOMAIN ui /\ w.busy = None
      BY <1>0, <3>1 DEF SaveOf, Save!Closed
    <3>3. PICK T : T = calls \ {c}
      OBVIOUS
    <3>4. QED
      BY <1>0, <3>1, <3>2, <3>3 DEF SaveOf, Has
  <2>3. QED
    BY <1>0, <1>3, <2>1, <2>2, SaveEnds, AllPropers DEF Save!RefreshReturns, Save!Closed
<1>4. ASSUME NEW c \in calls, Save!IndexReturns(c) PROVE SaveInv'
  <2>1. c.op = "index"
    BY <1>4 DEF Save!IndexReturns
  <2>2. PICK T : T = calls \ {c}
    OBVIOUS
  <2>3. SaveOf(ui, T)
    BY <1>0, <2>1, <2>2 DEF SaveOf
  <2>4. SaveOf(Save!Indexed(ui, c), T)
    <3>1. PICK w : w = Save!Indexed(ui, c)
      OBVIOUS
    <3>2. DOMAIN w = DOMAIN ui /\ w.busy = ui.busy
      BY <1>0, <3>1 DEF SaveOf, Save!Indexed
    <3>3. QED
      BY <2>3, <3>1, <3>2 DEF SaveOf
  <2>5. QED
    BY <1>4, <2>2, <2>3, <2>4, SaveEnds DEF Save!IndexReturns
<1>5. ASSUME NEW c \in calls, Save!OtherReturns(c) PROVE SaveInv'
  <2>1. SaveOf([ui EXCEPT !.busy = None], calls \ {c})
    <3>1. PICK w : w = [ui EXCEPT !.busy = None]
      OBVIOUS
    <3>2. /\ DOMAIN w = DOMAIN ui
         /\ w.ws = ui.ws
         /\ w.entries = ui.entries
         /\ w.text = ui.text
         /\ w.form = ui.form
         /\ w.body = ui.body
         /\ w.busy = (None)
      BY <1>0, <3>1 DEF SaveOf
    <3>3. PICK T : T = calls \ {c}
      OBVIOUS
    <3>4. QED
      BY <1>0, <3>1, <3>2, <3>3 DEF SaveOf, Has
  <2>2. QED
    BY <1>0, <1>5, <2>1, SaveEnds, AllPropers DEF Save!OtherReturns
<1>6. QED
  BY <1>1, <1>2, <1>3, <1>4, <1>5

LEMMA SaveStep == SaveInv /\ Save!Next => SaveInv'
  BY SaveHandle, SaveServed, SaveReturned DEF Save!Next

(***************************************************************************)
(* The preview of a file.                                                  *)
(***************************************************************************)
(* The markers of the preview, and what was read for it.                    *)
PreviewOf(u, S) ==
  /\ DOMAIN u = {"ws", "path", "line", "loading", "failed", "text", "resolved", "opening", "notice", "copied"}
  /\ u.loading \in BOOLEAN /\ u.failed \in BOOLEAN
  /\ u.loading # FALSE => Has(S, "read")
  /\ u.opening # FALSE => Has(S, "editor")
  /\ u.path # None => \A c \in S : c.op = "read" => c.arg = Preview!At(u.ws, u.path)
  /\ u.path # None /\ u.loading = FALSE /\ u.failed = FALSE => u.resolved \in {None, Preview!At(u.ws, u.path)}

PreviewInv == Base(ClicksOf["preview"]) /\ PreviewOf(ui, calls)

LEMMA PreviewAlike ==
  ASSUME NEW u, NEW S, NEW T, Alike(S, T), PreviewOf(u, S)
  PROVE  PreviewOf(u, T)
<1>1. DOMAIN u = {"ws", "path", "line", "loading", "failed", "text", "resolved", "opening", "notice", "copied"}
  BY DEF PreviewOf, Alike, Same, Has
<1>2. u.loading \in BOOLEAN /\ u.failed \in BOOLEAN
  BY DEF PreviewOf, Alike, Same, Has
<1>3. u.loading # FALSE => Has(T, "read")
  BY DEF PreviewOf, Alike, Same, Has
<1>4. u.opening # FALSE => Has(T, "editor")
  BY DEF PreviewOf, Alike, Same, Has
<1>5. u.path # None => \A c \in T : c.op = "read" => c.arg = Preview!At(u.ws, u.path)
  BY DEF PreviewOf, Alike, Same, Has
<1>6. u.path # None /\ u.loading = FALSE /\ u.failed = FALSE => u.resolved \in {None, Preview!At(u.ws, u.path)}
  BY DEF PreviewOf, Alike, Same, Has
<1>7. QED
  BY <1>1, <1>2, <1>3, <1>4, <1>5, <1>6 DEF PreviewOf

LEMMA PreviewKeeps ==
  ASSUME PreviewInv, NEW u, NEW S, Moves(u, S, ClicksOf["preview"]), PreviewOf(u, S)
  PROVE  PreviewInv'
<1>1. PreviewOf(u, calls') /\ ui' = u
  BY FollowsAlike, PreviewAlike DEF Moves
<1>2. Base(ClicksOf["preview"])'
  BY LimitsAssumption DEF Moves, Follows, Base, AllProper, Panels, PreviewInv
<1>3. QED
  BY <1>1, <1>2 DEF PreviewInv

LEMMA PreviewTurns ==
  ASSUME PreviewInv, NEW u, NEW new, NEW gone, Preview!Turns(u, new, gone), AllProper(new), PreviewOf(u, (calls \ gone) \union new)
  PROVE  PreviewInv'
<1>1. Moves(u, (calls \ gone) \union new, ClicksOf["preview"])
  BY TurnMoves DEF PreviewInv, Preview!Turns, Preview!Joined, P!Joined, Preview!Disturbed, P!Disturbed, Preview!Clash, P!Clash, Preview!Touched, P!Touched
<1>2. QED
  BY <1>1, PreviewKeeps

LEMMA PreviewClicks ==
  ASSUME PreviewInv, NEW u, NEW new, Preview!Clicks(u, new), AllProper(new), PreviewOf(u, calls \union new)
  PROVE  PreviewInv'
<1>1. Preview!Turns(u, new, {}) /\ (calls \ {}) \union new = calls \union new
  BY DEF Preview!Clicks
<1>2. QED
  BY <1>1, PreviewTurns

LEMMA PreviewShows ==
  ASSUME PreviewInv, NEW u, Preview!Shows(u), PreviewOf(u, calls)
  PROVE  PreviewInv'
<1>1. Moves(u, calls, ClicksOf["preview"])
  BY ShowMoves DEF PreviewInv, Preview!Shows
<1>2. QED
  BY <1>1, PreviewKeeps

LEMMA PreviewChanges ==
  ASSUME PreviewInv, NEW parts, NEW s, Preview!ChangedElsewhere(parts, s)
  PROVE  PreviewInv'
<1>1. Moves(ui, calls, ClicksOf["preview"])
  BY ChangeMoves DEF PreviewInv, Preview!ChangedElsewhere, Preview!Disturbed, P!Disturbed
<1>2. QED
  BY <1>1, PreviewKeeps DEF PreviewInv

LEMMA PreviewServes ==
  ASSUME PreviewInv, NEW c, NEW s, NEW got, Preview!Serves(c, s, got), PreviewOf(ui, Answered(c, "served", got))
  PROVE  PreviewInv'
<1>1. Moves(ui, Answered(c, "served", got), ClicksOf["preview"])
  BY ServeMoves DEF PreviewInv, Preview!Serves
<1>2. QED
  BY <1>1, PreviewKeeps

LEMMA PreviewFails ==
  ASSUME PreviewInv, NEW c, Preview!Fails(c), PreviewOf(ui, Answered(c, "failed", c.got))
  PROVE  PreviewInv'
<1>1. Moves(ui, Answered(c, "failed", c.got), ClicksOf["preview"])
  BY FailMoves DEF PreviewInv, Preview!Fails
<1>2. QED
  BY <1>1, PreviewKeeps

LEMMA PreviewGoes ==
  ASSUME PreviewInv, NEW c, NEW u, NEW new, NEW gone, NEW spoils, 
         Preview!Goes(c, u, new, gone, spoils), AllProper(new), PreviewOf(u, (calls \ ({c} \union gone)) \union new)
  PROVE  PreviewInv'
<1>1. Moves(u, (calls \ ({c} \union gone)) \union new, ClicksOf["preview"])
  BY GoMoves DEF PreviewInv, Preview!Goes, Preview!Joined, P!Joined, Preview!Disturbed, P!Disturbed, Preview!Clash, P!Clash, Preview!Touched, P!Touched
<1>2. QED
  BY <1>1, PreviewKeeps

LEMMA PreviewSends ==
  ASSUME PreviewInv, NEW c, NEW u, NEW new, NEW spoils, Preview!Goes(c, u, new, {}, spoils), AllProper(new),
         PreviewOf(u, (calls \ {c}) \union new)
  PROVE  PreviewInv'
<1>1. (calls \ ({c} \union {})) \union new = (calls \ {c}) \union new
  OBVIOUS
<1>2. QED
  BY <1>1, PreviewGoes

LEMMA PreviewEnds ==
  ASSUME PreviewInv, NEW c, NEW u, NEW spoils, Preview!Goes(c, u, {}, {}, spoils), PreviewOf(u, calls \ {c})
  PROVE  PreviewInv'
<1>1. AllProper({}) /\ (calls \ {c}) \union {} = calls \ {c}
  BY DEF AllProper
<1>2. QED
  BY <1>1, PreviewSends


LEMMA PreviewNew ==
  /\ \A parts, op, arg : Fresh(Preview!LoadOf(parts, op, arg), "load", op, arg)
  /\ \A op, arg : Fresh(Preview!Detail(op, arg), "detail", op, arg)
  BY DEF Preview!LoadOf, Preview!Detail, Preview!Sent, Fresh, Proper, IsCall

LEMMA PreviewClosed == \A w : PreviewOf(Preview!Closed(w), {})
<1> SUFFICES ASSUME NEW w PROVE PreviewOf(Preview!Closed(w), {})
  OBVIOUS
<1>1. PICK u : u = Preview!Closed(w)
  OBVIOUS
<1>2. /\ DOMAIN u = {"ws", "path", "line", "loading", "failed", "text", "resolved", "opening", "notice", "copied"}
      /\ u.path = None /\ u.loading = FALSE /\ u.failed = FALSE /\ u.opening = FALSE
  BY <1>1 DEF Preview!Closed
<1>3. PreviewOf(u, {})
  BY <1>2 DEF PreviewOf
<1>4. QED
  BY <1>1, <1>3

LEMMA PreviewInit == Preview!Init => PreviewInv
  BY LimitsAssumption, PreviewClosed DEF Preview!Init, PreviewInv, Base, Panels, AllProper

LEMMA PreviewCloses ==
  ASSUME PreviewInv, Preview!OnClose
  PROVE  PreviewInv'
<1>1. Follows({}) /\ ui' = Preview!Closed(ui.ws) /\ clicks' = clicks
  BY DEF Preview!OnClose, Follows
<1>2. QED
  BY <1>1, PreviewClosed, PreviewKeeps DEF Moves

\* The file is read again, and what was read before is not waited for.
LEMMA PreviewReads ==
  ASSUME PreviewInv, NEW u, Preview!ReadWorkspaceFile(u),
         DOMAIN u = DOMAIN ui, u.opening = ui.opening
  PROVE  PreviewInv'
<1>0. PreviewOf(ui, calls)
  BY DEF PreviewInv
<1>1. PICK n : n = Preview!LoadOf({"file"}, "read", Preview!At(u.ws, u.path)) /\ Fresh(n, "load", "read", Preview!At(u.ws, u.path))
  BY PreviewNew
<1>2. PICK w : w = [u EXCEPT !.loading = TRUE, !.failed = FALSE]
  OBVIOUS
<1>3. /\ DOMAIN w = DOMAIN ui /\ w.opening = ui.opening /\ w.loading = TRUE /\ w.failed = FALSE
      /\ w.ws = u.ws /\ w.path = u.path
  BY <1>0, <1>2 DEF PreviewOf
<1>4. PICK T : T = (calls \ Preview!Reads) \union {n}
  OBVIOUS
<1>5. Has(T, "read") /\ (Has(calls, "editor") => Has(T, "editor"))
  BY <1>1, <1>4 DEF Has, Fresh, Preview!Reads
<1>6. \A c \in T : c.op = "read" => c.arg = Preview!At(w.ws, w.path)
  BY <1>1, <1>3, <1>4 DEF Fresh, Preview!Reads
<1>7. PreviewOf(w, T)
  BY <1>0, <1>3, <1>5, <1>6 DEF PreviewOf
<1>8. AllProper({n})
  BY <1>1, AllPropers DEF Fresh
<1>9. QED
  BY <1>1, <1>2, <1>4, <1>7, <1>8, PreviewTurns DEF Preview!ReadWorkspaceFile

LEMMA PreviewHandle ==
  ASSUME PreviewInv,
         \/ \E l \in Preview!Link : Preview!OpenFilePreview(l)
         \/ \E w \in Workspace : Preview!SelectWorkspace(w)
         \/ Preview!HandleCopyPath \/ Preview!HandleCopyCode \/ Preview!CopiedEnds
         \/ Preview!HandleOpenInEditor \/ Preview!NoticeEnds
  PROVE  PreviewInv'
<1>0. PreviewOf(ui, calls)
  BY DEF PreviewInv
<1>1. ASSUME NEW l, Preview!OpenFilePreview(l), l.path = ui.path PROVE PreviewInv'
  <2>1. l.path = ui.path
    BY <1>0, <1>1 DEF PreviewOf, Preview!OpenFilePreview
  <2>2. PreviewOf([ui EXCEPT !.path = l.path, !.line = l.line], calls)
    <3>1. PICK w : w = [ui EXCEPT !.path = l.path, !.line = l.line]
      OBVIOUS
    <3>2. /\ DOMAIN w = DOMAIN ui
         /\ w.ws = ui.ws
         /\ w.path = (l.path)
         /\ w.line = (l.line)
         /\ w.loading = ui.loading
         /\ w.failed = ui.failed
         /\ w.text = ui.text
         /\ w.resolved = ui.resolved
         /\ w.opening = ui.opening
         /\ w.notice = ui.notice
         /\ w.copied = ui.copied
      BY <1>0, <3>1, <2>1 DEF PreviewOf
    <3>3. QED
      BY <1>0, <2>1, <3>1, <3>2 DEF PreviewOf, Has
  <2>3. QED
    BY <1>0, <1>1, <2>1, <2>2, PreviewShows, AllPropers DEF Preview!OpenFilePreview
<1>2. CASE \E l \in Preview!Link : Preview!OpenFilePreview(l) /\ l.path # ui.path
  <2>1. PICK l : Preview!OpenFilePreview(l) /\ l.path # ui.path
    BY <1>2
  <2>2. PICK u : u = [ui EXCEPT !.path = l.path, !.line = l.line]
    OBVIOUS
  <2>3. DOMAIN u = DOMAIN ui /\ u.opening = ui.opening
    BY <1>0, <2>2 DEF PreviewOf
  <2>4. QED
    BY <2>1, <2>2, <2>3, PreviewReads DEF Preview!OpenFilePreview
<1>3. ASSUME NEW v, Preview!SelectWorkspace(v), ui.path = None PROVE PreviewInv'
  <2>1. ui.path = None
    BY <1>0, <1>3 DEF PreviewOf, Preview!SelectWorkspace, Preview!IsOpen
  <2>2. PreviewOf([ui EXCEPT !.ws = v], calls)
    <3>1. PICK w : w = [ui EXCEPT !.ws = v]
      OBVIOUS
    <3>2. /\ DOMAIN w = DOMAIN ui
         /\ w.ws = (v)
         /\ w.path = ui.path
         /\ w.line = ui.line
         /\ w.loading = ui.loading
         /\ w.failed = ui.failed
         /\ w.text = ui.text
         /\ w.resolved = ui.resolved
         /\ w.opening = ui.opening
         /\ w.notice = ui.notice
         /\ w.copied = ui.copied
      BY <1>0, <3>1, <2>1 DEF PreviewOf
    <3>3. QED
      BY <1>0, <2>1, <3>1, <3>2 DEF PreviewOf, Has
  <2>3. QED
    BY <1>0, <1>3, <2>1, <2>2, PreviewShows, AllPropers DEF Preview!SelectWorkspace, Preview!IsOpen
<1>4. CASE \E v \in Workspace : Preview!SelectWorkspace(v) /\ ui.path # None
  <2>1. PICK v : Preview!SelectWorkspace(v) /\ ui.path # None
    BY <1>4
  <2>2. PICK u : u = [ui EXCEPT !.ws = v]
    OBVIOUS
  <2>3. DOMAIN u = DOMAIN ui /\ u.opening = ui.opening
    BY <1>0, <2>2 DEF PreviewOf
  <2>4. QED
    BY <2>1, <2>2, <2>3, PreviewReads DEF Preview!SelectWorkspace, Preview!IsOpen
<1>5. ASSUME NEW s, Preview!Shows([ui EXCEPT !.copied = s]) PROVE PreviewInv'
  <2>1. PreviewOf([ui EXCEPT !.copied = s], calls)
    <3>1. PICK w : w = [ui EXCEPT !.copied = s]
      OBVIOUS
    <3>2. /\ DOMAIN w = DOMAIN ui
         /\ w.ws = ui.ws
         /\ w.path = ui.path
         /\ w.line = ui.line
         /\ w.loading = ui.loading
         /\ w.failed = ui.failed
         /\ w.text = ui.text
         /\ w.resolved = ui.resolved
         /\ w.opening = ui.opening
         /\ w.notice = ui.notice
         /\ w.copied = (s)
      BY <1>0, <3>1 DEF PreviewOf
    <3>3. QED
      BY <1>0, <3>1, <3>2 DEF PreviewOf, Has
  <2>2. QED
    BY <1>0, <1>5, <2>1, PreviewShows, AllPropers DEF Preview!Shows
<1>6. ASSUME Preview!HandleOpenInEditor PROVE PreviewInv'
  <2>1. PICK n1 : n1 = Preview!Detail("editor", Preview!Named) /\ Fresh(n1, "detail", "editor", Preview!Named)
    BY PreviewNew
  <2>2. PreviewOf([ui EXCEPT !.opening = TRUE, !.notice = FALSE], calls \union {n1})
    <3>1. PICK w : w = [ui EXCEPT !.opening = TRUE, !.notice = FALSE]
      OBVIOUS
    <3>2. /\ DOMAIN w = DOMAIN ui
         /\ w.ws = ui.ws
         /\ w.path = ui.path
         /\ w.line = ui.line
         /\ w.loading = ui.loading
         /\ w.failed = ui.failed
         /\ w.text = ui.text
         /\ w.resolved = ui.resolved
         /\ w.opening = (TRUE)
         /\ w.notice = (FALSE)
         /\ w.copied = ui.copied
      BY <1>0, <3>1 DEF PreviewOf
    <3>3. PICK T : T = calls \union {n1}
      OBVIOUS
    <3>4. QED
      BY <1>0, <2>1, <3>1, <3>2, <3>3 DEF PreviewOf, Has, Fresh
  <2>3. AllProper({n1})
    BY <2>1, AllPropers DEF Fresh
  <2>4. QED
    BY <1>0, <1>6, <2>1, <2>2, <2>3, PreviewClicks DEF Preview!HandleOpenInEditor
<1>7. ASSUME Preview!NoticeEnds PROVE PreviewInv'
  <2>1. PreviewOf([ui EXCEPT !.notice = FALSE], calls)
    <3>1. PICK w : w = [ui EXCEPT !.notice = FALSE]
      OBVIOUS
    <3>2. /\ DOMAIN w = DOMAIN ui
         /\ w.ws = ui.ws
         /\ w.path = ui.path
         /\ w.line = ui.line
         /\ w.loading = ui.loading
         /\ w.failed = ui.failed
         /\ w.text = ui.text
         /\ w.resolved = ui.resolved
         /\ w.opening = ui.opening
         /\ w.notice = (FALSE)
         /\ w.copied = ui.copied
      BY <1>0, <3>1 DEF PreviewOf
    <3>3. QED
      BY <1>0, <3>1, <3>2 DEF PreviewOf, Has
  <2>2. QED
    BY <1>0, <1>7, <2>1, PreviewShows, AllPropers DEF Preview!NoticeEnds
<1>8. QED
  BY <1>1, <1>2, <1>3, <1>4, <1>5, <1>6, <1>7 DEF Preview!HandleCopyPath, Preview!HandleCopyCode, Preview!CopiedEnds

LEMMA PreviewServed ==
  ASSUME PreviewInv,
         Preview!ShellServes \/ Preview!FileChanges \/ (\E c \in calls : Preview!Fails(c))
  PROVE  PreviewInv'
<1>0. PreviewOf(ui, calls)
  BY DEF PreviewInv
<1>1. CASE Preview!ShellServes
  <2>1. PICK c \in calls : (\E s, got : Preview!Serves(c, s, got)) \/ Preview!Fails(c)
    BY <1>1 DEF Preview!ShellServes
  <2>2. c \in calls => \A at, got : PreviewOf(ui, Answered(c, at, got))
    BY <1>0, AnsweredAlike, PreviewAlike
  <2>3. QED
    BY <2>1, <2>2, PreviewServes, PreviewFails DEF Preview!Serves, Preview!Fails
<1>2. CASE Preview!FileChanges
  BY <1>2, PreviewChanges DEF Preview!FileChanges
<1>3. CASE \E c \in calls : Preview!Fails(c)
  <2>1. PICK c \in calls : Preview!Fails(c)
    BY <1>3
  <2>2. PreviewOf(ui, Answered(c, "failed", c.got))
    BY <1>0, <2>1, AnsweredAlike, PreviewAlike DEF Preview!Fails
  <2>3. QED
    BY <2>1, <2>2, PreviewFails
<1>4. QED
  BY <1>1, <1>2, <1>3

LEMMA PreviewReturned ==
  ASSUME PreviewInv,
         \E c \in calls : Preview!ReadReturns(c) \/ Preview!EditorReturns(c)
  PROVE  PreviewInv'
<1>0. PreviewOf(ui, calls)
  BY DEF PreviewInv
<1>1. ASSUME NEW c \in calls, Preview!ReadReturns(c) PROVE PreviewInv'
  <2>1. c.op = "read"
    BY <1>0, <1>1 DEF PreviewOf, Preview!ReadReturns
  <2>2. c.at = "served" => PreviewOf([[ui EXCEPT !.loading = FALSE] EXCEPT !.text = c.got, !.resolved = c.arg], calls \ {c})
    <3> SUFFICES ASSUME c.at = "served" PROVE PreviewOf([[ui EXCEPT !.loading = FALSE] EXCEPT !.text = c.got, !.resolved = c.arg], calls \ {c})
      OBVIOUS
    <3>1. PICK w : w = [[ui EXCEPT !.loading = FALSE] EXCEPT !.text = c.got, !.resolved = c.arg]
      OBVIOUS
    <3>2. /\ DOMAIN w = DOMAIN ui /\ w.loading = FALSE /\ w.failed = ui.failed /\ w.resolved = c.arg
         /\ w.ws = ui.ws /\ w.path = ui.path /\ w.opening = ui.opening
      BY <1>0, <3>1, <2>1 DEF PreviewOf
    <3>3. PICK T : T = calls \ {c}
      OBVIOUS
    <3>4. QED
      BY <1>0, <2>1, <3>1, <3>2, <3>3 DEF PreviewOf, Has
  <2>3. c.at # "served" => PreviewOf([[ui EXCEPT !.loading = FALSE] EXCEPT !.failed = TRUE], calls \ {c})
    <3> SUFFICES ASSUME c.at # "served" PROVE PreviewOf([[ui EXCEPT !.loading = FALSE] EXCEPT !.failed = TRUE], calls \ {c})
      OBVIOUS
    <3>1. PICK w : w = [[ui EXCEPT !.loading = FALSE] EXCEPT !.failed = TRUE]
      OBVIOUS
    <3>2. /\ DOMAIN w = DOMAIN ui /\ w.loading = FALSE /\ w.failed = TRUE /\ w.resolved = ui.resolved
         /\ w.ws = ui.ws /\ w.path = ui.path /\ w.opening = ui.opening
      BY <1>0, <3>1, <2>1 DEF PreviewOf
    <3>3. PICK T : T = calls \ {c}
      OBVIOUS
    <3>4. QED
      BY <1>0, <2>1, <3>1, <3>2, <3>3 DEF PreviewOf, Has
  <2>4. QED
    BY <1>0, <1>1, <2>1, <2>2, <2>3, PreviewEnds, AllPropers DEF Preview!ReadReturns
<1>2. ASSUME NEW c \in calls, Preview!EditorReturns(c) PROVE PreviewInv'
  <2>1. c.op = "editor"
    BY <1>0, <1>2 DEF PreviewOf, Preview!EditorReturns
  <2>2. PreviewOf([ui EXCEPT !.opening = FALSE, !.notice = TRUE], calls \ {c})
    <3>1. PICK w : w = [ui EXCEPT !.opening = FALSE, !.notice = TRUE]
      OBVIOUS
    <3>2. /\ DOMAIN w = DOMAIN ui
         /\ w.ws = ui.ws
         /\ w.path = ui.path
         /\ w.line = ui.line
         /\ w.loading = ui.loading
         /\ w.failed = ui.failed
         /\ w.text = ui.text
         /\ w.resolved = ui.resolved
         /\ w.opening = (FALSE)
         /\ w.notice = (TRUE)
         /\ w.copied = ui.copied
      BY <1>0, <3>1, <2>1 DEF PreviewOf
    <3>3. PICK T : T = calls \ {c}
      OBVIOUS
    <3>4. QED
      BY <1>0, <2>1, <3>1, <3>2, <3>3 DEF PreviewOf, Has
  <2>3. QED
    BY <1>0, <1>2, <2>1, <2>2, PreviewEnds, AllPropers DEF Preview!EditorReturns
<1>3. QED
  BY <1>1, <1>2

LEMMA PreviewStep == PreviewInv /\ Preview!Next => PreviewInv'
  BY PreviewHandle, PreviewCloses, PreviewServed, PreviewReturned DEF Preview!Next
=============================================================================
