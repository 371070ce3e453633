----------------------------- MODULE AtomicFile -----------------------------
(***************************************************************************)
(* The replacement protocol of sd_storage.cpp for one microSD file:        *)
(* writeAtomicJsonSdFile stages target.tmp, checks it, and                 *)
(* commitAtomicSdFile publishes it by two renames with target.bak holding  *)
(* the previous document; recoverAtomicSdFile repairs whatever a power     *)
(* loss left behind and runs first in every operation.                     *)
(*                                                                         *)
(* Each action is one call on the card, so a power loss (Crash) falls      *)
(* between any two of them, and each call may instead be refused by the    *)
(* card or by requireSdCleanupAccess.  The FAT rename and remove are       *)
(* taken as indivisible and durable when they return.                      *)
(***************************************************************************)
CONSTANTS Content,   \* the complete documents a caller may store
          Missing,   \* no file under that name
          Torn,      \* a file whose bytes are not a complete document
          NoRequest  \* no operation is in progress

ASSUME MarkersDistinct ==
  /\ Missing \notin Content
  /\ Torn \notin Content \cup {Missing}
  /\ NoRequest \notin Content \cup {Missing, Torn}

VARIABLES target,    \* the file itself
          bak,       \* target.bak
          tmp,       \* target.tmp
          pc,        \* the next call on the card
          goal,      \* the document being stored, Missing for a removal
          hadTarget, \* commitAtomicSdFile's local of that name
          reported   \* what the last operation told its caller

disk == <<target, bak, tmp>>
vars == <<target, bak, tmp, pc, goal, hadTarget, reported>>

Steps == {"idle", "recover", "recover_bak", "recover_tmp", "act", "removed",
          "verify", "commit", "commit_stage", "commit_publish", "commit_clean"}

TypeOK ==
  /\ target \in Content \cup {Missing}
  /\ bak \in Content \cup {Missing}
  /\ tmp \in Content \cup {Missing, Torn}
  /\ pc \in Steps
  /\ goal \in Content \cup {Missing, NoRequest}
  /\ hadTarget \in BOOLEAN
  /\ reported \in {"none", "ok", "error"}

Init ==
  /\ target = Missing /\ bak = Missing /\ tmp = Missing
  /\ pc = "idle"
  /\ goal = NoRequest
  /\ hadTarget = FALSE
  /\ reported = "none"

-----------------------------------------------------------------------------
(* Steps that leave the operation, and its callers, in a common way. *)

Goto(step) == /\ pc' = step
              /\ UNCHANGED <<goal, hadTarget, reported>>

Return(word) == /\ pc' = "idle"
                /\ goal' = NoRequest
                /\ hadTarget' = FALSE
                /\ reported' = word

\* A failing path first tries to remove target.tmp and returns either way.
ReturnErrorDroppingTmp ==
  /\ tmp' \in {tmp, Missing}
  /\ Return("error")

-----------------------------------------------------------------------------
\* A caller starts a write of g, or a removal (g = Missing).
Start(g) ==
  /\ pc = "idle"
  /\ pc' = "recover"
  /\ goal' = g
  /\ reported' = "none"
  /\ UNCHANGED <<disk, hadTarget>>

\* recoverAtomicSdFile, a target exists: drop the staged file, then the backup.
RecoverDropTmp ==
  /\ pc = "recover" /\ target # Missing
  /\ tmp' = Missing
  /\ Goto("recover_bak")
  /\ UNCHANGED <<target, bak>>

\* Mutant: a backup beside an existing target is left alone.
RecoverKeepBak ==
  /\ pc = "recover_bak"
  /\ Goto("act")
  /\ UNCHANGED disk

RecoverDropBak ==
  /\ pc = "recover_bak"
  /\ bak' = Missing
  /\ Goto("act")
  /\ UNCHANGED <<target, tmp>>

\* recoverAtomicSdFile, no target: the backup, if any, is the document.
RecoverRestore ==
  /\ pc = "recover" /\ target = Missing
  /\ target' = bak
  /\ bak' = Missing
  /\ Goto("recover_tmp")
  /\ UNCHANGED tmp

RecoverTmp ==
  /\ pc = "recover_tmp"
  /\ tmp' = Missing
  /\ Goto("act")
  /\ UNCHANGED <<target, bak>>

\* The body of the operation after recovery: a removal deletes the target and
\* looks that it is gone (clearPendingToolCall).
Remove ==
  /\ pc = "act" /\ goal = Missing /\ target # Missing
  /\ target' = Missing
  /\ Goto("removed")
  /\ UNCHANGED <<bak, tmp>>

ConfirmRemoved ==
  /\ pc = "removed"
  /\ Return("ok")
  /\ UNCHANGED disk

\* A write truncates target.tmp and fills it; flush and close report nothing,
\* so the bytes may be short although every call returned.
StageTmp ==
  /\ pc = "act" /\ goal \in Content
  /\ tmp' \in {goal, Torn}
  /\ Goto("verify")
  /\ UNCHANGED <<target, bak>>

\* Mutant: only the write calls are checked.
VerifyNothing ==
  /\ pc = "verify"
  /\ Goto("commit")
  /\ UNCHANGED disk

\* The staged file is read back and compared by size and hash.
VerifyTmp ==
  /\ pc = "verify" /\ tmp = goal
  /\ Goto("commit")
  /\ UNCHANGED disk

RejectTmp ==
  /\ pc = "verify" /\ tmp # goal
  /\ ReturnErrorDroppingTmp
  /\ UNCHANGED <<target, bak>>

-----------------------------------------------------------------------------
(* commitAtomicSdFile *)

CommitDropBak ==
  /\ pc = "commit"
  /\ bak' = Missing
  /\ Goto("commit_stage")
  /\ UNCHANGED <<target, tmp>>

\* Mutant: the target is removed instead of renamed.
CommitDropTarget ==
  /\ pc = "commit_stage"
  /\ hadTarget' = (target # Missing)
  /\ target' = Missing
  /\ pc' = "commit_publish"
  /\ UNCHANGED <<bak, tmp, goal, reported>>

\* The existing target, if there is one, becomes target.bak.
CommitStage ==
  /\ pc = "commit_stage"
  /\ hadTarget' = (target # Missing)
  /\ bak' = IF target # Missing THEN target ELSE bak
  /\ target' = Missing
  /\ pc' = "commit_publish"
  /\ UNCHANGED <<tmp, goal, reported>>

CommitPublish ==
  /\ pc = "commit_publish"
  /\ target' = tmp
  /\ tmp' = Missing
  /\ Goto("commit_clean")
  /\ UNCHANGED bak

CommitClean ==
  /\ pc = "commit_clean"
  /\ bak' = IF hadTarget THEN Missing ELSE bak
  /\ Return("ok")
  /\ UNCHANGED <<target, tmp>>

\* rename(tmp, target) refused: put the backup back, then drop the staged file.
CommitRollback ==
  /\ pc = "commit_publish"
  /\ target' = IF hadTarget THEN bak ELSE target
  /\ bak' = IF hadTarget THEN Missing ELSE bak
  /\ ReturnErrorDroppingTmp

-----------------------------------------------------------------------------
(* Refusals and power loss *)

\* A refused call that the code answers by returning its error at once; after
\* commit_publish this is the card vanishing or the failed rollback rename.
Refuse ==
  /\ pc \notin {"idle", "verify", "commit", "commit_stage"}
  /\ \/ pc # "act" /\ UNCHANGED tmp
     \/ pc = "act" /\ goal = Missing /\ UNCHANGED tmp
     \/ pc = "act" /\ goal # Missing /\ tmp' \in {tmp, Torn, Missing}
  /\ Return("error")
  /\ UNCHANGED <<target, bak>>

\* A refused call before the target was touched: target.tmp is dropped.
RefuseEarly ==
  /\ pc \in {"verify", "commit", "commit_stage"}
  /\ ReturnErrorDroppingTmp
  /\ UNCHANGED <<target, bak>>

\* Power loss or reset; a write in progress may leave target.tmp torn.
Crash ==
  /\ tmp' \in IF pc = "act" /\ goal # Missing THEN {tmp, Torn} ELSE {tmp}
  /\ Return("none")
  /\ UNCHANGED <<target, bak>>

Recover == RecoverDropTmp \/ RecoverDropBak \/ RecoverRestore \/ RecoverTmp
Write == StageTmp \/ VerifyTmp \/ RejectTmp
Commit == CommitDropBak \/ CommitStage \/ CommitPublish \/ CommitClean
            \/ CommitRollback

Next ==
  \/ \E g \in Content \cup {Missing} : Start(g)
  \/ Recover
  \/ Remove
  \/ ConfirmRemoved
  \/ Write
  \/ Commit
  \/ Refuse
  \/ RefuseEarly
  \/ Crash

Spec == Init /\ [][Next]_vars

-----------------------------------------------------------------------------
(* Properties *)

\* What recoverAtomicSdFile would make of the card now.
Recovered == IF target # Missing THEN target ELSE bak

Register == INSTANCE AtomicRegister
              WITH register <- Recovered, request <- goal

\* One file is one atomic register: no power loss or refused call, at any step
\* of writeAtomicJsonSdFile, commitAtomicSdFile or recoverAtomicSdFile, shows
\* a reader anything but the previous or the requested document, and a removed
\* file never returns from its backup.
ImplementsRegister == Register!RegisterSpec

\* An operation that reported success left exactly one copy: a later removal
\* of the target cannot bring back an older document from .bak, nor a later
\* recovery find a stale .tmp.
SuccessLeavesOneCopy == reported = "ok" => bak = Missing /\ tmp = Missing

\* While the target is away (between the two renames of commitAtomicSdFile)
\* the previous document is whole in .bak and the next one whole in .tmp.
BothCopiesDuringCommit ==
  pc = "commit_publish" /\ hadTarget => bak \in Content /\ tmp = goal

\* The inductive strengthening the proofs use.
StepInv ==
  /\ pc = "recover_bak" => target # Missing /\ tmp = Missing
  /\ pc \in {"recover_tmp", "act", "removed", "verify", "commit",
               "commit_stage"} => bak = Missing
  /\ pc \in {"act", "removed"} => tmp = Missing
  /\ pc = "removed" => goal = Missing /\ target = Missing
  /\ pc \in {"verify", "commit", "commit_stage", "commit_publish"}
       => goal \in Content
  /\ pc \in {"commit", "commit_stage", "commit_publish"} => tmp = goal
  /\ pc = "commit_publish" =>
       target = Missing /\ (hadTarget <=> bak # Missing)
  /\ pc = "commit_clean" =>
       /\ target = goal /\ goal \in Content /\ tmp = Missing
       /\ hadTarget <=> bak # Missing
  /\ pc = "idle" <=> goal = NoRequest
  /\ pc # "idle" => reported = "none"
  /\ SuccessLeavesOneCopy

IInv == TypeOK /\ StepInv
=============================================================================
