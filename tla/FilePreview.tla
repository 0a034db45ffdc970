------------------------------ MODULE FilePreview ------------------------------
(***************************************************************************)
(* The preview of a file that a message links to                           *)
(* (dialogs/file-preview-dialog.tsx, the link of lib/markdown.tsx and      *)
(* lib/file-links.ts, App.tsx's request, the shell's file commands).       *)
(*                                                                         *)
(* The dialog holds no focus: a link behind it can be followed, and the    *)
(* workspace, against which the path is resolved, can change meanwhile.    *)
(* A file is its contents, None when there is no such file; of a link its  *)
(* kind, its path and whether it names a line.                             *)
(***************************************************************************)
EXTENDS Panel

CONSTANTS Workspace, Path, Contents

Link == [kind : {"web", "file", "bare"}, path : Path, known : BOOLEAN, line : BOOLEAN]

\* An address of the web is no file; a bare name is one if its ending is known.
IsFileLink(l) == l.kind = "file" \/ (l.kind = "bare" /\ l.known)

-----------------------------------------------------------------------------
(* The shell: a path is looked for in the workspace *)

Found(at) == stored[at.ws][at.path]
ShellServes == \E c \in calls :
  \/ c.op = "read" /\ IF Found(c.arg) = None THEN Fails(c) ELSE Serves(c, stored, Found(c.arg))
  \/ c.op = "editor" /\ Serves(c, stored, None)

FileChanges == \E w \in Workspace, p \in Path : \E t \in Contents \union {None} :
  /\ t # stored[w][p]
  /\ ChangedElsewhere({"file"}, [stored EXCEPT ![w][p] = t])

-----------------------------------------------------------------------------
(* The dialog *)

Closed(w) == [ws |-> w, path |-> None, line |-> FALSE, loading |-> FALSE, failed |-> FALSE,
              text |-> None, resolved |-> None, opening |-> FALSE, notice |-> FALSE,
              copied |-> {}]
IsOpen == ui.path # None
At(w, p) == [ws |-> w, path |-> p]
Reads == {c \in calls : c.op = "read"}

\* The effect of the path and the workspace: the earlier answer is not waited
\* for, but the earlier text and the path it was found at stay.
ReadWorkspaceFile(u) ==
  Turns([u EXCEPT !.loading = TRUE, !.failed = FALSE],
        {LoadOf({"file"}, "read", At(u.ws, u.path))}, Reads)

OpenFilePreview(l) ==
  LET u == [ui EXCEPT !.path = l.path, !.line = l.line]
  IN  IsFileLink(l) /\ IF l.path = ui.path THEN Shows(u) ELSE ReadWorkspaceFile(u)

SelectWorkspace(w) ==
  LET u == [ui EXCEPT !.ws = w]
  IN  w # ui.ws /\ IF IsOpen THEN ReadWorkspaceFile(u) ELSE Shows(u)

\* Nothing of the dialog outlasts it.
OnClose ==
  /\ IsOpen
  /\ ui' = Closed(ui.ws) /\ calls' = {} /\ clean' = clean \ {"file"}
  /\ UNCHANGED <<stored, clicks>>

\* What the header names, copies and opens.
Named == IF ui.resolved # None THEN ui.resolved ELSE At(ui.ws, ui.path)

HandleCopyPath == IsOpen /\ Shows([ui EXCEPT !.copied = @ \union {"path"}])
HandleCopyCode ==
  /\ IsOpen /\ ui.text # None
  /\ Shows([ui EXCEPT !.copied = @ \union {"code"}])
CopiedEnds == \E what \in ui.copied : Shows([ui EXCEPT !.copied = @ \ {what}])

HandleOpenInEditor ==
  /\ IsOpen /\ ~ui.opening
  /\ Clicks([ui EXCEPT !.opening = TRUE, !.notice = FALSE], {Detail("editor", Named)})
NoticeEnds == Shows([ui EXCEPT !.notice = FALSE])

ReadReturns(c) ==
  /\ c.op = "read"
  /\ LET u == [ui EXCEPT !.loading = FALSE]
     IN  Goes(c, IF c.at = "served" THEN [u EXCEPT !.text = c.got, !.resolved = c.arg]
                                    ELSE [u EXCEPT !.failed = TRUE],
              {}, {}, FALSE)
\* Success or failure, a notice says which.
EditorReturns(c) ==
  c.op = "editor" /\ Goes(c, [ui EXCEPT !.opening = FALSE, !.notice = TRUE], {}, {}, FALSE)

Body == IF ui.loading THEN "loading" ELSE IF ui.failed THEN "error" ELSE "text"

-----------------------------------------------------------------------------
Init ==
  /\ \E one, two \in Contents \union {None} :
       stored = [w \in Workspace |-> [p \in Path |->
                   IF w = CHOOSE v \in Workspace : TRUE THEN one ELSE two]]
  /\ ui = Closed(CHOOSE w \in Workspace : TRUE)
  /\ calls = {} /\ clean = {} /\ clicks = 0

Next ==
  \/ \E l \in Link : OpenFilePreview(l)
  \/ \E w \in Workspace : SelectWorkspace(w)
  \/ OnClose \/ HandleCopyPath \/ HandleCopyCode \/ CopiedEnds
  \/ HandleOpenInEditor \/ NoticeEnds
  \/ FileChanges \/ ShellServes \/ \E c \in calls : Fails(c) \/ ReadReturns(c) \/ EditorReturns(c)

-----------------------------------------------------------------------------
InStep(part) == IsOpen => Body = "text" /\ ui.text = Found(At(ui.ws, ui.path))
BusyMeansCalling == calls = {} => ~ui.loading /\ ~ui.opening
DetailMatches == IsOpen /\ Body = "text" => Named = At(ui.ws, ui.path)
=============================================================================
