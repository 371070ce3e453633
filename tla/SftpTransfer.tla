----------------------------- MODULE SftpTransfer -----------------------------
(***************************************************************************)
(* One controlled SFTP operation of ssh_client.cpp: the upload of a file   *)
(* and the model's text write, which stage a private remote file and       *)
(* rename it, the remote move, and the download, which stages name.tmp on  *)
(* the card.  libssh2 is not blocking: a request is sent, and the same     *)
(* call is made again until its answer has come.  Between two calls the    *)
(* user may cancel and the deadline may pass, and the request that is then *)
(* on its way may still be carried out by the server.                      *)
(*                                                                         *)
(* The server is external: it answers in its own time or never, and may    *)
(* refuse anything.  Blocks of a file are written as one.                  *)
(***************************************************************************)

CONSTANTS None, Old, New, Part, Theirs   \* what a path holds

VARIABLES
  job,      \* the operation, and whether it may overwrite
  dst, src, \* the path it is to change, and for a move the one it moves
  tmp,      \* the staged file
  session,  \* whether the SSH session can be used again
  req,      \* the request the client has not had the answer of
  wire,     \* requests given up on, which the server may still carry out
  pc,       \* the call being repeated
  owned,    \* temporaryOwned
  resolving,\* a pending create is followed up although the user has canceled
  fault,    \* a canceled or failed operation on its way through its cleanup
  canceled, late,
  reply     \* what the caller is told: outcome and what became of the staged file

vars == <<job, dst, src, tmp, session, req, wire, pc, owned, resolving, fault, canceled, late, reply>>

Call == {"create", "write", "close", "rename", "unlink", "open", "stat", "read"}
Idle == [call |-> "none", answer |-> "none"]

TypeOK ==
  /\ job \in [kind : {"none", "upload", "write", "move", "download"}, overwrite : BOOLEAN]
  /\ dst \in {None, Old, New, Part} /\ src \in {None, New}
  /\ tmp \in {None, Part, New, Theirs}
  /\ session \in {"open", "closed"}
  /\ req \in {Idle} \cup [call : Call, answer : {"awaited", "ok", "exists", "error"}]
  /\ wire \subseteq Call
  /\ pc \in Call \cup {"idle", "commit", "ended"}
  /\ {owned, resolving, fault, canceled, late} \subseteq BOOLEAN
  /\ reply \in [outcome : {"none", "ok", "failed", "unknown"},
                staged : {"none", "removed", "failed", "not_attempted"}]

Init ==
  /\ job = [kind |-> "none", overwrite |-> FALSE]
  /\ dst = None /\ src = None /\ tmp = None
  /\ session = "open" /\ req = Idle /\ wire = {}
  /\ pc = "idle"
  /\ owned = FALSE /\ resolving = FALSE /\ fault = FALSE /\ canceled = FALSE /\ late = FALSE
  /\ reply = [outcome |-> "none", staged |-> "none"]

\* The model's tools make their own connection and close it at the end
\* (withSelectedSftp); a transfer of the Web Console uses the terminal's.
ForModel == job.kind \in {"write", "move"}

\* A write and its cleanup take five seconds of their own when the deadline
\* of the operation has passed; an upload and a download have none.
Grace == job.kind = "write"

Begin(j) ==
  /\ pc = "idle"
  /\ job' = j
  /\ dst' \in {None, Old}
  /\ src' = IF j.kind = "move" THEN New ELSE None
  /\ tmp' \in IF j.kind \in {"upload", "write"} THEN {None, Theirs} ELSE {None}
  /\ pc' = CASE j.kind = "move" -> "rename" [] j.kind = "download" -> "open" [] OTHER -> "create"
  /\ UNCHANGED <<session, req, wire, owned, resolving, fault, canceled, late, reply>>

-----------------------------------------------------------------------------
(* The server. *)

\* What it does of a request, and what it may answer.
Carry(call, answer) ==
  CASE call = "create" /\ answer = "ok" -> tmp = None /\ tmp' = Part /\ UNCHANGED <<dst, src>>
    [] call = "create" /\ answer = "exists" -> tmp # None /\ UNCHANGED <<dst, src, tmp>>
    [] call = "write" /\ answer = "ok" -> tmp' = New /\ UNCHANGED <<dst, src>>
    [] call = "unlink" /\ answer = "ok" -> tmp # None /\ tmp' = None /\ UNCHANGED <<dst, src>>
    [] call = "rename" /\ answer = "ok" ->
         /\ job.overwrite \/ dst = None
         /\ dst' = IF job.kind = "move" THEN src ELSE tmp
         /\ src' = None
         /\ tmp' = IF job.kind = "move" THEN tmp ELSE None
    [] OTHER -> answer \in {"ok", "error"} /\ UNCHANGED <<dst, src, tmp>>

Serve(answer) ==
  /\ req.answer = "awaited"
  /\ (answer = "exists" => req.call = "create")
  /\ Carry(req.call, answer)
  /\ req' = [req EXCEPT !.answer = answer]
  /\ UNCHANGED <<job, session, wire, pc, owned, resolving, fault, canceled, late, reply>>

ServeLate(call) ==
  /\ call \in wire
  /\ Carry(call, "ok")
  /\ wire' = wire \ {call}
  /\ UNCHANGED <<job, session, req, pc, owned, resolving, fault, canceled, late, reply>>

Cancel == /\ pc \notin {"idle", "ended"} /\ ~canceled /\ canceled' = TRUE
          /\ UNCHANGED <<job, dst, src, tmp, session, req, wire, pc, owned, resolving, fault, late, reply>>

Expire == /\ pc \notin {"idle", "ended"} /\ ~late /\ late' = TRUE
          /\ UNCHANGED <<job, dst, src, tmp, session, req, wire, pc, owned, resolving, fault, canceled, reply>>

-----------------------------------------------------------------------------
(* Ways on. *)

\* The operation returns; a request still on its way is left to the server.
Return(outcome, staged, closes) ==
  /\ reply' = [outcome |-> outcome, staged |-> staged]
  /\ pc' = "ended"
  /\ session' = IF closes \/ ForModel THEN "closed" ELSE session
  /\ wire' = IF req.answer = "awaited" THEN wire \cup {req.call} ELSE wire
  /\ req' = Idle
  /\ UNCHANGED <<job, owned, resolving, fault, canceled, late>>

\* The next call; whatever answer the last one had has been taken.
Goto(call) ==
  /\ pc' = call /\ req' = Idle
  /\ UNCHANGED <<job, session, wire, resolving, canceled, late, reply>>

\* cleanupTemporary, and a download's cleanupLocalTemporary: the exact staged
\* file is removed if it is ours and if there is time.
CleanUp(handleOpen) ==
  IF job.kind = "download"
  THEN /\ \/ ~late /\ tmp' = None /\ Return("failed", "removed", handleOpen /\ late)
          \/ ~late /\ UNCHANGED tmp /\ Return("failed", "failed", handleOpen /\ late)
          \/ late /\ UNCHANGED tmp /\ Return("failed", "not_attempted", handleOpen)
       /\ UNCHANGED <<dst, src>>
  ELSE IF late /\ ~Grace
       THEN Return("failed", "not_attempted", handleOpen) /\ UNCHANGED <<dst, src, tmp>>
       ELSE /\ fault' = TRUE
            /\ Goto(IF handleOpen THEN "close" ELSE "unlink")
            /\ UNCHANGED <<dst, src, tmp, owned>>

-----------------------------------------------------------------------------
(* The client. *)

\* Whether the loop around a call looks at the cancellation, and whether it
\* must stop: the cleanup and an upload's close go on until the deadline.
Heeds == ~fault /\ ~resolving /\ ~(pc = "close" /\ job.kind \in {"upload", "download"})
Stopped == (Heeds /\ canceled) \/ (late /\ ~(Grace /\ (fault \/ resolving)))

\* The 5-second waits of a write may pass as well.
GaveUp == Stopped \/ (Grace /\ (fault \/ resolving) /\ late)

Ask ==
  /\ pc \in Call /\ req = Idle /\ ~Stopped /\ session = "open"
  /\ req' = [call |-> pc, answer |-> "awaited"]
  /\ UNCHANGED <<job, dst, src, tmp, session, wire, pc, owned, resolving, fault, canceled, late, reply>>

Answered(call, answer) == pc = call /\ req = [call |-> call, answer |-> answer]
Pending(call) == pc = call /\ GaveUp /\ req # Idle
NotAsked(call) == pc = call /\ Stopped /\ req = Idle

\* The staged file is ours from the moment its creation is confirmed.
Created ==
  /\ Answered("create", "ok") /\ (~Stopped \/ resolving)
  /\ owned' = TRUE
  /\ IF resolving
     THEN fault' = TRUE /\ Goto("close")
     ELSE UNCHANGED fault /\ Goto("write")
  /\ UNCHANGED <<dst, src, tmp>>

\* The private name is taken: eight other names are tried; none is ours.
Collided ==
  /\ Answered("create", "exists")
  /\ Return("failed", "not_attempted", FALSE)
  /\ UNCHANGED <<dst, src, tmp>>

CreateFailed ==
  /\ Answered("create", "error")
  /\ IF resolving THEN Return("unknown", "not_attempted", TRUE)
     ELSE Return("failed", "none", FALSE)
  /\ UNCHANGED <<dst, src, tmp>>

CreateNotAsked ==
  /\ NotAsked("create")
  /\ Return("failed", "none", FALSE)
  /\ UNCHANGED <<dst, src, tmp>>

\* A creation that was canceled halfway is followed up for as long as there is
\* time, so that the file it may have made is not left behind.
CreatePending ==
  /\ Pending("create")
  /\ IF ~resolving /\ (~late \/ Grace)
     THEN /\ resolving' = TRUE
          /\ UNCHANGED <<job, dst, src, tmp, session, req, wire, pc, owned, fault, canceled, late, reply>>
     ELSE Return("unknown", "not_attempted", TRUE) /\ UNCHANGED <<dst, src, tmp>>

Written ==
  /\ Answered("write", "ok") /\ ~Stopped
  /\ Goto("close")
  /\ UNCHANGED <<dst, src, tmp, owned, fault>>

WriteFailed ==
  /\ Answered("write", "error") \/ NotAsked("write")
  /\ CleanUp(TRUE)

WritePending ==
  /\ Pending("write")
  /\ IF job.kind = "upload"
     THEN Return("failed", "not_attempted", TRUE) /\ UNCHANGED <<dst, src, tmp>>
     ELSE CleanUp(TRUE)

Closed ==
  /\ Answered("close", "ok")
  /\ IF job.kind = "download"
     THEN IF fault THEN CleanUp(FALSE) ELSE Goto("commit") /\ UNCHANGED <<dst, src, tmp, owned, fault>>
     ELSE IF fault THEN Goto("unlink") /\ UNCHANGED <<dst, src, tmp, owned, fault>>
     ELSE IF canceled \/ late THEN CleanUp(FALSE)
     ELSE Goto("rename") /\ UNCHANGED <<dst, src, tmp, owned, fault>>

CloseFailed ==
  /\ Answered("close", "error") \/ NotAsked("close") \/ Pending("close")
  /\ CASE job.kind = "download" -> CleanUp(TRUE)
       [] Grace /\ ~fault -> CleanUp(FALSE)
       [] Grace /\ fault -> Goto("unlink") /\ UNCHANGED <<dst, src, tmp, owned, fault>>
       [] OTHER -> Return("failed", "not_attempted", TRUE) /\ UNCHANGED <<dst, src, tmp>>

Renamed ==
  /\ Answered("rename", "ok")
  /\ Return("ok", "none", FALSE)
  /\ UNCHANGED <<dst, src, tmp>>

\* The server has given a final status: nothing was renamed.
RenameFailed ==
  /\ Answered("rename", "error") \/ NotAsked("rename")
  /\ IF job.kind = "move"
     THEN Return("failed", "none", FALSE) /\ UNCHANGED <<dst, src, tmp>>
     ELSE CleanUp(FALSE)

\* Mutant: a rename that was not answered counts as one that failed.
RenamePending_Failed ==
  /\ Pending("rename")
  /\ IF job.kind = "move"
     THEN Return("failed", "none", FALSE) /\ UNCHANGED <<dst, src, tmp>>
     ELSE Return("failed", "not_attempted", TRUE) /\ UNCHANGED <<dst, src, tmp>>

\* No final status: it may have happened, or may happen yet; it is not retried
\* and nothing is cleaned up.
RenamePending ==
  /\ Pending("rename")
  /\ Return("unknown", "not_attempted", TRUE)
  /\ UNCHANGED <<dst, src, tmp>>

Unlinked ==
  /\ Answered("unlink", "ok")
  /\ Return("failed", "removed", FALSE)
  /\ UNCHANGED <<dst, src, tmp>>

UnlinkFailed ==
  /\ Answered("unlink", "error") \/ NotAsked("unlink") \/ Pending("unlink")
  /\ Return("failed", "failed", req # Idle)
  /\ UNCHANGED <<dst, src, tmp>>

-----------------------------------------------------------------------------
(* Download. *)

\* The remote file is opened and its size asked before name.tmp is made.
Opened ==
  /\ \/ Answered("open", "ok") /\ Goto("stat") /\ UNCHANGED tmp
     \/ Answered("stat", "ok") /\ ~canceled /\ ~late /\ Goto("read") /\ tmp' = Part
  /\ UNCHANGED <<dst, src, owned, fault>>

\* The end of a fetch that did not succeed, a size or a card that refuses what
\* has come included.  A request that is still on its way closes the session;
\* otherwise the handle is closed in the time that is left.
FetchStopped ==
  /\ \E call \in {"open", "stat", "read"} :
       \/ Pending(call)
            /\ \/ tmp' = None /\ tmp = Part /\ ~late /\ Return("failed", "removed", TRUE)
               \/ UNCHANGED tmp /\ Return("failed", "not_attempted", TRUE)
       \/ (Answered(call, "error") \/ NotAsked(call) \/ (call # "open" /\ Answered(call, "ok")))
            /\ \/ tmp' = None /\ tmp = Part /\ ~late /\ Return("failed", "removed", FALSE)
               \/ UNCHANGED tmp /\ Return("failed", "not_attempted", call # "open" /\ late)
  /\ UNCHANGED <<dst, src>>

\* All of it has come, if the size agrees with what was asked.
Fetched ==
  /\ Answered("read", "ok") /\ ~Stopped
  /\ tmp' = New
  /\ Goto("close")
  /\ UNCHANGED <<dst, src, owned, fault>>

\* commitWorkspaceBinaryTemporary, which module Workspace has the steps of;
\* when it fails either file may be in place.
Commit ==
  /\ pc = "commit"
  /\ IF canceled \/ late \/ (dst # None /\ ~job.overwrite)
     THEN CleanUp(FALSE)
     ELSE /\ \/ dst' = tmp /\ tmp' = None /\ Return("ok", "none", FALSE)
             \/ dst' \in {dst, tmp} /\ tmp' = None /\ Return("unknown", "not_attempted", FALSE)
          /\ UNCHANGED src

-----------------------------------------------------------------------------
Jobs == [kind : {"upload", "write", "move", "download"}, overwrite : BOOLEAN]

Next ==
  \/ \E j \in Jobs : Begin(j)
  \/ \E answer \in {"ok", "exists", "error"} : Serve(answer)
  \/ \E call \in Call : ServeLate(call)
  \/ Cancel \/ Expire \/ Ask
  \/ Created \/ Collided \/ CreateFailed \/ CreateNotAsked \/ CreatePending
  \/ Written \/ WriteFailed \/ WritePending \/ Closed \/ CloseFailed
  \/ Renamed \/ RenameFailed \/ RenamePending \/ Unlinked \/ UnlinkFailed
  \/ Opened \/ FetchStopped \/ Fetched \/ Commit

Spec == Init /\ [][Next]_vars

-----------------------------------------------------------------------------
\* The destination never holds a part of a file, whatever the server does of
\* the requests that were given up on.
DestinationIsWhole == dst \in {None, Old, New}

\* What was there is replaced only if that was allowed.
OverwriteIsAsked == [][dst = Old /\ dst' # Old => job.overwrite]_vars

\* An operation that is reported to have failed has not changed the
\* destination and cannot change it any more: the model may try again.
FailedIsFinal ==
  reply.outcome = "failed" => dst # New /\ "rename" \notin wire

\* One that is reported done is done.
DoneIsDone == reply.outcome = "ok" => dst = New /\ src = None

\* A private file of somebody else is neither written, renamed nor removed.
TheirsIsUntouched == [][tmp = Theirs => pc = "idle" \/ tmp' = Theirs]_vars

\* The report about the staged file is true: removed means that it is gone and
\* that no late request can bring it back.
StagedIsReported ==
  reply.staged = "removed" => tmp \notin {Part, New} /\ "create" \notin wire

\* A session that stays open has no request on its way: its answer would be
\* taken for the next one's.
NothingIsLeftOnTheSession == pc = "ended" /\ session = "open" => wire = {}

\* Of one operation: no half file, and what is reported of the destination, the
\* staged file and the session is true and stays so.
ReportsAreTrue ==
  /\ TypeOK
  /\ DestinationIsWhole /\ FailedIsFinal /\ DoneIsDone
  /\ StagedIsReported /\ NothingIsLeftOnTheSession

\* Nothing is replaced without being asked, nor any file that is not ours.
NothingElseIsTouched == OverwriteIsAsked /\ TheirsIsUntouched
=============================================================================
