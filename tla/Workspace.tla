------------------------------ MODULE Workspace ------------------------------
(***************************************************************************)
(* The Shared files of /assistant/files (file_workspace.cpp) under         *)
(* everyone who changes them: the model's file tools, the editor window,   *)
(* the browser's uploads, SFTP downloads, and copy, rename and delete.  A  *)
(* replacement is staged in name.tmp and exchanged with the file through   *)
(* name.bak; the upload of a new file is written in place.  Bookmarks are  *)
(* kept in one more file, and a project must link a file before its tools  *)
(* may touch it.                                                           *)
(*                                                                         *)
(* One operation runs at a time, on the main loop.  A reset may come       *)
(* between any two calls on the card, and a call may be refused.           *)
(* recoverAtomicSdFile and the save of the bookmarks are one step each:    *)
(* module AtomicFile has what lies inside them.  A document is its length. *)
(***************************************************************************)
EXTENDS Integers, FiniteSets

CONSTANTS
  Name,        \* workspace-relative file names
  Doc,         \* what may be stored, positive lengths
  QuietFlush,  \* whether the card may lose the tail of a file without saying so
  MaxOps, MaxFaults, MaxResets

NoFile == -2   \* no file, or no bookmark, under the name
Cut == -1      \* only a part of what was to be written
Empty == 0

VARIABLES
  card,    \* for each name the file, its .tmp and its .bak
  marks,   \* the bookmark saved for each name
  links,   \* names the active project links
  op,      \* the operation under way, and the last one once it has ended
  pc,      \* the next call of it
  had,     \* commitTemporaryFile's hadTarget
  reply,   \* what its caller was told
  before,  \* card and marks when it began
  partial, \* new uploads whose beginning a reset or a refusal left behind
  left     \* what is left of the bounds

vars == <<card, marks, links, op, pc, had, reply, before, partial, left>>

Length(c) == IF c = Cut THEN 0 ELSE c
Stored(f) == IF f.file # NoFile THEN f.file ELSE f.bak
Exists(n) == card[n].file # NoFile

Tool == {"write", "append"}
InTmp == Tool \cup {"edit", "replace", "download"}
Kind == InTmp \cup {"create", "upload", "copy", "rename", "delete", "mark", "undo"}
Op == [kind : Kind, name : Name, to : Name, doc : Doc, fresh : BOOLEAN]

\* The name an operation gives its content to.
Target(o) == IF o.kind \in {"copy", "rename"} THEN o.to ELSE o.name

TypeOK ==
  /\ card \in [Name -> [file : Doc \cup {NoFile, Cut, Empty},
                        tmp : Doc \cup {NoFile, Cut, Empty}, bak : Doc \cup {NoFile, Cut, Empty}]]
  /\ marks \in [Name -> Doc \cup {NoFile, Empty}]
  /\ links \subseteq Name /\ partial \subseteq Name
  /\ op \in Op
  /\ pc \in {"boot", "idle", "recover", "create", "stage", "fill", "backup", "publish", "clean",
             "rename", "mark", "unmark", "remove", "link"}
  /\ had \in BOOLEAN
  /\ reply \in {"none", "ok", "error"}
  /\ DOMAIN before = {"card", "marks", "faults"}
  /\ left \in [ops : 0..MaxOps, faults : 0..MaxFaults, resets : 0..MaxResets]

Init ==
  /\ card \in [Name -> {[file |-> NoFile, tmp |-> NoFile, bak |-> NoFile],
                        [file |-> CHOOSE d \in Doc : \A e \in Doc : e <= d,
                         tmp |-> NoFile, bak |-> NoFile]}]
  /\ marks = [n \in Name |-> NoFile]
  /\ links \in SUBSET {n \in Name : Exists(n)}
  /\ op \in {o \in Op : o = CHOOSE x \in Op : TRUE}
  /\ pc = "boot" /\ had = FALSE /\ reply = "none"
  /\ before = [card |-> card, marks |-> marks, faults |-> MaxFaults]
  /\ partial = {}
  /\ left = [ops |-> MaxOps, faults |-> MaxFaults, resets |-> MaxResets]

-----------------------------------------------------------------------------
(* Calls on the card. *)

\* recoverAtomicSdFile on one name.
Recovered(f) == [file |-> Stored(f), tmp |-> NoFile, bak |-> NoFile]

Put(n, part, c) == card' = [card EXCEPT ![n][part] = c]

\* SD.rename of one file onto a name that is free.
Moved(n, from, to) == card' = [card EXCEPT ![n][to] = card[n][from], ![n][from] = NoFile]

Goto(step) ==
  /\ pc' = step
  /\ UNCHANGED <<links, op, reply, before, partial, left>>

End(word) ==
  /\ pc' = "idle" /\ reply' = word
  /\ UNCHANGED <<links, op, before, partial, left>>

\* A call the card refuses ends the operation with an error.
Refused ==
  /\ left.faults > 0
  /\ left' = [left EXCEPT !.faults = @ - 1]
  /\ pc' = "idle" /\ reply' = "error"
  /\ UNCHANGED <<links, op, before>>

\* removeIfPresent(temporary) on a failing path, which may fail as well.
TmpDropped(n) ==
  \/ card' = [card EXCEPT ![n].tmp = NoFile]
  \/ left.faults > 1 /\ UNCHANGED card

-----------------------------------------------------------------------------
(* initializeFileWorkspace, at every start. *)

\* recoverWorkspaceArtifacts walks the tree and recovers every name that has
\* a .tmp or a .bak; until it succeeds the workspace is not ready.
Boot ==
  /\ pc = "boot"
  /\ card' = [n \in Name |-> Recovered(card[n])]
  /\ pc' = "idle"
  /\ UNCHANGED <<marks, links, op, had, reply, before, partial, left>>

Reset ==
  /\ left.resets > 0
  /\ left' = [left EXCEPT !.resets = @ - 1]
  /\ pc' = "boot" /\ reply' = "none" /\ had' = FALSE
  /\ partial' = IF pc = "fill" /\ op.kind = "upload" THEN partial \cup {op.name} ELSE partial
  /\ UNCHANGED <<card, marks, links, op, before>>

-----------------------------------------------------------------------------
(* Operations. *)

\* loadWorkspaceBookmark refuses an offset past the end of the file.
MarkReadable(n) == marks[n] # NoFile => marks[n] <= Length(card[n].file)

\* What each operation asks before its first change; what is refused here
\* changes nothing.  They all look for the file itself, not for its .bak.
MayStart(o) ==
  CASE o.kind = "write" -> Exists(o.name) => o.name \in links
    [] o.kind = "append" -> Exists(o.name) /\ o.name \in links
    [] o.kind \in {"edit", "replace", "download"} -> TRUE
    [] o.kind \in {"create", "upload"} -> ~Exists(o.name)
    [] o.kind = "copy" -> Exists(o.name) /\ ~Exists(o.to)
    [] o.kind = "rename" -> /\ Exists(o.name) /\ o.name \notin links
                            /\ ~Exists(o.to) /\ MarkReadable(o.name)
    [] o.kind = "delete" -> Exists(o.name) /\ o.name \notin links
    [] o.kind = "mark" -> Exists(o.name) /\ o.doc <= Length(card[o.name].file)
    [] OTHER -> FALSE

FirstStep(kind) ==
  CASE kind \in InTmp -> "recover"
    [] kind \in {"create", "upload"} -> "create"
    [] kind = "copy" -> "stage"
    [] kind = "delete" -> "unmark"
    [] OTHER -> kind

\* fresh: a download that must not overwrite.
Start(o) ==
  /\ pc = "idle" /\ left.ops > 0
  /\ o.kind \in {"copy", "rename"} <=> o.to # o.name
  /\ o.fresh => o.kind = "download"
  /\ o.kind \in InTmp \cup {"upload", "mark"} \/ o.doc = CHOOSE d \in Doc : TRUE
  /\ MayStart(o)
  /\ op' = o /\ pc' = FirstStep(o.kind) /\ reply' = "none" /\ had' = FALSE
  /\ before' = [card |-> card, marks |-> marks, faults |-> left.faults]
  /\ left' = [left EXCEPT !.ops = @ - 1]
  /\ UNCHANGED <<card, marks, links, partial>>

\* linkSharedFileToProject and its inverse, from the project's own screens.
Link(n) ==
  /\ pc = "idle" /\ Exists(n) /\ n \notin links
  /\ links' = links \cup {n} /\ reply' = "none"
  /\ UNCHANGED <<card, marks, op, pc, had, before, partial, left>>

Unlink(n) ==
  /\ pc = "idle" /\ n \in links
  /\ links' = links \ {n} /\ reply' = "none"
  /\ UNCHANGED <<card, marks, op, pc, had, before, partial, left>>

\* createWorkspaceFile makes an empty file at once; an upload then fills it.
Create ==
  /\ pc = "create"
  /\ Put(op.name, "file", IF op.kind = "upload" THEN Cut ELSE Empty)
  /\ IF op.kind = "upload" THEN Goto("fill") ELSE End("ok")
  /\ UNCHANGED <<marks, had>>

\* prepareWorkspaceTarget, then the questions asked after it.
Prepare ==
  /\ pc = "recover"
  /\ card' = [card EXCEPT ![op.name] = Recovered(@)]
  /\ IF \/ op.kind \in {"append", "edit", "replace"} /\ Stored(card[op.name]) = NoFile
        \/ op.fresh /\ Stored(card[op.name]) # NoFile
     THEN End("error")
     ELSE Goto("stage")
  /\ UNCHANGED <<marks, had>>

\* SD.open(temporary, FILE_WRITE) truncates.
Stage ==
  /\ pc = "stage"
  /\ Put(Target(op), "tmp", Cut)
  /\ Goto("fill")
  /\ UNCHANGED <<marks, had>>

\* What a copy writes is the source; the others write op.doc.
NewContent == IF op.kind = "copy" THEN card[op.name].file ELSE op.doc

Fill ==
  /\ pc = "fill"
  /\ \E c \in {NewContent} \cup (IF QuietFlush THEN {Cut} ELSE {}) :
       Put(Target(op), IF op.kind = "upload" THEN "file" ELSE "tmp", c)
  /\ IF op.kind = "upload" THEN End("ok") ELSE Goto("backup")
  /\ UNCHANGED <<marks, had>>

\* The browser goes away, the user cancels, the remote ends early or the card
\* takes less than it was given: what was written is removed.  A download
\* whose deadline has passed leaves its .tmp.
FillStopped ==
  /\ pc = "fill"
  /\ \/ Put(Target(op), IF op.kind = "upload" THEN "file" ELSE "tmp", NoFile)
     \/ op.kind = "download" /\ UNCHANGED card
  /\ End("error")
  /\ UNCHANGED <<marks, had>>

\* ... and the removal is refused.
FillLeftBehind ==
  /\ pc = "fill"
  /\ partial' = IF op.kind = "upload" THEN partial \cup {op.name} ELSE partial
  /\ Refused
  /\ UNCHANGED <<card, marks, had>>

-----------------------------------------------------------------------------
(* commitTemporaryFile, and the rename at the end of a copy. *)

Backup ==
  /\ pc = "backup"
  /\ had' = Exists(Target(op))
  /\ IF Exists(Target(op)) THEN Moved(Target(op), "file", "bak") ELSE UNCHANGED card
  /\ Goto("publish")
  /\ UNCHANGED marks

BackupRefused ==
  /\ pc = "backup" /\ Exists(Target(op))
  /\ TmpDropped(op.name)
  /\ Refused
  /\ UNCHANGED <<marks, had, partial>>

\* What remains to be done once the content is in place.
After ==
  CASE op.kind = "write" /\ op.name \notin links -> "link"
    [] op.kind = "replace" -> "unmark"
    [] op.kind = "copy" -> "mark"
    [] OTHER -> "idle"

Proceed(step) == IF step = "idle" THEN End("ok") ELSE Goto(step)

Publish ==
  /\ pc = "publish"
  /\ Moved(Target(op), "tmp", "file")
  /\ Proceed(IF had THEN "clean" ELSE After)
  /\ UNCHANGED <<marks, had>>

\* The staged file cannot be put in place: the backup goes back, unless that
\* is refused too.
PublishRefused ==
  /\ pc = "publish"
  /\ LET n == Target(op)
         restored == IF had THEN [card EXCEPT ![n].file = card[n].bak, ![n].bak = NoFile] ELSE card
     IN \/ card' = [restored EXCEPT ![n].tmp = NoFile]
        \/ left.faults > 1 /\ card' \in {card, restored}
  /\ Refused
  /\ UNCHANGED <<marks, had, partial>>

Clean ==
  /\ pc = "clean"
  /\ Put(op.name, "bak", NoFile)
  /\ Proceed(After)
  /\ UNCHANGED <<marks, had>>

\* The caller is told of an error although the new content is in place.
CleanRefused ==
  /\ pc = "clean"
  /\ Refused
  /\ UNCHANGED <<card, marks, had, partial>>

-----------------------------------------------------------------------------
(* Bookmarks, renames, deletions and the link of a file the tool created. *)

Rename ==
  /\ pc = "rename"
  /\ card' = [card EXCEPT ![op.to].file = card[op.name].file, ![op.name].file = NoFile]
  /\ IF marks[op.name] = NoFile THEN End("ok") ELSE Goto("mark")
  /\ UNCHANGED <<marks, had>>

\* saveBookmarkEntries stores all of them anew.
SaveMark(n, offset) == marks' = [marks EXCEPT ![n] = offset]

\* saveWorkspaceBookmark; a copy takes the bookmark of its source along if it
\* can still be read, a rename the one it read before the file moved.
Mark ==
  /\ pc = "mark"
  /\ LET offset == IF op.kind = "mark" THEN op.doc ELSE marks[op.name]
     IN IF op.kind = "copy" /\ ~MarkReadable(op.name)
        THEN UNCHANGED marks /\ End("error")
        ELSE /\ SaveMark(Target(op), offset)
             /\ IF op.kind = "rename" THEN Goto("unmark") ELSE End("ok")
  /\ UNCHANGED <<card, had>>

\* clearWorkspaceBookmark.
Unmark ==
  /\ pc = "unmark"
  /\ SaveMark(op.name, NoFile)
  /\ IF op.kind \in {"delete", "undo"} THEN Goto("remove") ELSE End("ok")
  /\ UNCHANGED <<card, had>>

Remove ==
  /\ pc = "remove"
  /\ Put(op.name, "file", NoFile)
  /\ End(IF op.kind = "delete" THEN "ok" ELSE "error")
  /\ UNCHANGED <<marks, had>>

\* The file a tool has just created is linked to its project.
LinkCreated ==
  /\ pc = "link"
  /\ links' = links \cup {op.name}
  /\ pc' = "idle" /\ reply' = "ok"
  /\ UNCHANGED <<card, marks, op, had, before, partial, left>>

\* Linking fails: the file is deleted again.
LinkRefused ==
  /\ pc = "link" /\ left.faults > 0
  /\ left' = [left EXCEPT !.faults = @ - 1]
  /\ op' = [op EXCEPT !.kind = "undo"] /\ pc' = "unmark"
  /\ UNCHANGED <<card, marks, links, had, reply, before, partial>>

\* Any other call is refused before it has changed anything.
CallRefused ==
  /\ pc \in {"create", "recover", "stage", "rename", "mark", "unmark", "remove"}
  /\ Refused
  /\ UNCHANGED <<card, marks, had, partial>>

-----------------------------------------------------------------------------
Next ==
  \/ Boot \/ Reset
  \/ \E o \in Op : Start(o)
  \/ \E n \in Name : Link(n) \/ Unlink(n)
  \/ Create \/ Prepare \/ Stage \/ Fill \/ FillStopped \/ FillLeftBehind
  \/ Backup \/ BackupRefused \/ Publish \/ PublishRefused \/ Clean \/ CleanRefused
  \/ Rename \/ Mark \/ Unmark \/ Remove \/ LinkCreated \/ LinkRefused \/ CallRefused

Spec == Init /\ [][Next]_vars

-----------------------------------------------------------------------------
\* A name beside which a failing card had left a backup when the operation
\* began; see OldOrNew.
BackupLeft(n) == before.card[n].bak # NoFile

WasStored(n) == Stored(before.card[n])

\* What an operation may make of a name.
May(o, n) ==
  {WasStored(n)} \cup
  (IF n = Target(o)
   THEN CASE o.kind \in InTmp -> {o.doc}
          [] o.kind = "create" -> {Empty}
          [] o.kind = "upload" -> {Cut, o.doc, NoFile}
          [] o.kind \in {"copy", "rename"} -> {WasStored(o.name)}
          [] o.kind \in {"delete", "undo"} -> {NoFile, o.doc}
          [] OTHER -> {}
   ELSE IF o.kind = "rename" /\ n = o.name THEN {NoFile} ELSE {})

\* Between any two calls on the card, what a restart would find under a name
\* is what was there when the operation began or what it was asked to store;
\* no other name is touched.  A backup that could not be removed earlier is
\* excepted: removing or renaming the file beside it brings it back.
OldOrNew ==
  pc # "idle" => \A n \in Name : BackupLeft(n) \/ Stored(card[n]) \in May(op, n)

StoredAll == [n \in Name |-> Stored(card[n])]

\* Nothing but an operation changes what a restart would find: not a reset,
\* not the recovery after it, not linking.
RestartsChangeNothing ==
  [][(pc \in {"boot", "idle"} \/ pc' = "boot") => UNCHANGED StoredAll]_vars

\* Only the upload of a new file, which is written in place, can show a part
\* of a document under its name, or be copied or renamed as one; no staged
\* replacement ever does.
PartsAreNewUploads ==
  (\E n \in Name : Stored(card[n]) = Cut) =>
    partial # {} \/ (pc = "fill" /\ op.kind = "upload")

\* A project's links name files that are there: no rename, deletion, rollback,
\* failed exchange or reset takes one away.
LinkedFilesAreThere == \A n \in links : Stored(card[n]) # NoFile

\* The model's file tools, their rollback included, change only files that the
\* project links or that were not there before.
ToolsStayInTheProject ==
  [][\A n \in Name :
       /\ op.kind \in Tool \cup {"undo"} /\ pc \notin {"idle", "boot"}
       /\ StoredAll'[n] # StoredAll[n]
       => n \in links \/ WasStored(n) = NoFile \/ BackupLeft(n)]_vars

\* An operation that reports success has done all of it, the bookmark and the
\* link included.
SuccessIsComplete ==
  reply = "ok" /\ pc = "idle" /\ ~BackupLeft(op.name) /\ ~BackupLeft(op.to) =>
    LET stored == Stored(card[Target(op)]) IN
    CASE op.kind \in InTmp -> stored = op.doc /\ card[op.name].tmp = NoFile /\ card[op.name].bak = NoFile
                                /\ (op.kind = "write" => op.name \in links)
                                /\ (op.kind = "replace" => marks[op.name] = NoFile)
      [] op.kind = "upload" -> stored = op.doc
      [] op.kind = "rename" -> /\ stored = WasStored(op.name) /\ Stored(card[op.name]) = NoFile
                               /\ before.marks[op.name] # NoFile => marks[op.to] = before.marks[op.name]
                               /\ marks[op.name] = NoFile
      [] op.kind = "copy" -> stored = WasStored(op.name) /\ Stored(card[op.name]) = stored
      [] op.kind = "delete" -> stored = NoFile /\ marks[op.name] = NoFile
      [] OTHER -> TRUE

\* An operation that fails although the card refused nothing - canceled,
\* aborted, too short, refused for what it found - leaves every file as it was.
FailureIsClean ==
  reply = "error" /\ pc = "idle" /\ left.faults = before.faults /\ op.kind # "copy" =>
    \A n \in Name : Stored(card[n]) = WasStored(n)

\* docs/projects-workspace.md:67: "An edited window is written to a staged
\* replacement, reopened and checked, and only then exchanged with the
\* original".  replaceWorkspaceFileRange does not reopen it.
EditsAreChecked ==
  [][pc = "publish" /\ op.kind = "edit" /\ StoredAll'[op.name] # StoredAll[op.name]
       => StoredAll'[op.name] # Cut]_vars

\* Of the files: each is whole, linked ones are there, and what the user or the
\* model is told of an operation is what became of them.
FilesAreWhole ==
  /\ TypeOK
  /\ OldOrNew /\ PartsAreNewUploads /\ LinkedFilesAreThere
  /\ SuccessIsComplete /\ FailureIsClean
\* Nothing but an operation changes a file, and a tool only those it may.
NothingElseChanges == RestartsChangeNothing /\ ToolsStayInTheProject
=============================================================================
