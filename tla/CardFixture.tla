----------------------------- MODULE CardFixture -----------------------------
(***************************************************************************)
(* The P2LARGE and P2ATOMIC commands of SerialDiagnostics.ino: one makes a *)
(* file past the sizes a signed offset holds and reads it back, the other  *)
(* one that has a directory where its backup would go, so that an edit     *)
(* must fail and change nothing.  Either is recorded in a file of its own  *)
(* outside of its directory, and removed by a cleanup that may be cut off  *)
(* and asked for again.                                                    *)
(*                                                                         *)
(* The record is the register that AtomicFile implements, except that its  *)
(* .tmp may be all there is of it.  While a command runs the user does     *)
(* nothing.                                                                *)
(***************************************************************************)
EXTENDS Naturals

CONSTANTS MaxResets, MaxFaults, MaxEdits

VARIABLES
  kind,      \* large or atomic
  owner,     \* the state on record
  stray,     \* BOOLEAN: a .tmp of the record and no record
  root,      \* BOOLEAN: the directory exists
  file,      \* the file: a part of it, whole, or edited, which may change its size
  backup,    \* BOOLEAN: the directory in the place of the backup exists
  alien,     \* BOOLEAN: an entry of the user's is in one of the directories
  cmd, pc,   \* the command and its next call: clean, verify, a setup, one that
             \* clears what is there first, one that undoes what it has made
  told,
  refused,   \* history: a call of this command was refused
  left

vars == <<kind, owner, stray, root, file, backup, alien, cmd, pc, told, refused, left>>
tree == <<root, file, backup, alien>>
record == <<owner, stray>>

TypeOK ==
  /\ kind \in {"large", "atomic"}
  /\ owner \in {"absent", "pending", "complete", "cleaning"}
  /\ file \in {"none", "part", "whole", "patched", "longer"}
  /\ {stray, root, backup, alien, refused} \subseteq BOOLEAN
  /\ stray => owner = "absent"
  /\ cmd \in {"none", "setup", "clear", "undo", "clean", "verify"}
  /\ told \in {"none", "passed", "failed"}

Init ==
  /\ kind \in {"large", "atomic"}
  /\ owner = "absent" /\ stray = FALSE
  /\ root = FALSE /\ file = "none" /\ backup = FALSE /\ alien = FALSE
  /\ cmd = "none" /\ pc = "idle" /\ told = "none" /\ refused = FALSE
  /\ left = [resets |-> MaxResets, faults |-> MaxFaults, edits |-> MaxEdits]

HasOwner == owner # "absent" \/ stray
Absent == ~HasOwner /\ ~root

Goto(step) == pc' = step /\ UNCHANGED <<kind, cmd, told, refused, left>>
End(word) ==
  /\ pc' = "idle" /\ cmd' = "none"
  /\ told' = (IF cmd = "undo" THEN "failed" ELSE word)
  /\ UNCHANGED kind

\* A call is refused: a setup that has its record cleans up.
Fail ==
  /\ left.faults > 0 /\ left' = [left EXCEPT !.faults = @ - 1] /\ refused' = TRUE
  /\ IF cmd = "setup" /\ pc \notin {"space", "own"}
     THEN cmd' = "undo" /\ pc' = "begin" /\ UNCHANGED <<kind, told>>
     ELSE End("failed")

Command(name, step) ==
  /\ pc = "idle"
  /\ cmd' = name /\ pc' = step /\ refused' = FALSE
  /\ UNCHANGED <<kind, record, tree, told, left>>

\* What does not hold ends the command.
Refuse ==
  /\ pc = "over" /\ End("failed")
  /\ UNCHANGED <<record, tree, refused, left>>

-----------------------------------------------------------------------------
(* The setup.                                                              *)

Setup == IF Absent THEN Command("setup", "space") ELSE Command("clear", "begin")

Space ==
  /\ pc = "space" /\ UNCHANGED <<record, tree>>
  /\ \/ Goto("own")
     \/ kind = "large" /\ Fail

\* writeP2LargeOwnership, writeP2AtomicOwnership: atomic, see above.
Write(step, new, next) ==
  /\ pc = step /\ UNCHANGED tree
  /\ \/ owner' = new /\ stray' = FALSE /\ Goto(next)
     \/ /\ owner' \in {owner, new}
        /\ stray' \in (IF owner' = "absent" THEN BOOLEAN ELSE {FALSE})
        /\ Fail

Own == Write("own", "pending", "root")

MakeRoot ==
  /\ pc = "root" /\ UNCHANGED <<record, file, backup, alien>>
  /\ \/ root' = TRUE /\ Goto("open")
     \/ UNCHANGED root /\ Fail

Open ==
  /\ pc = "open" /\ UNCHANGED <<record, root, backup, alien>>
  /\ \/ file' = "part" /\ Goto("fill")
     \/ UNCHANGED file /\ Fail

\* The blocks are written and the size or the digest is looked at again.
Fill ==
  /\ pc = "fill" /\ UNCHANGED <<record, root, backup, alien>>
  /\ \/ file' = "whole" /\ Goto(IF kind = "large" THEN "complete" ELSE "backup")
     \/ UNCHANGED file /\ Fail

\* The preflight and the range test change nothing.
MakeBackup ==
  /\ pc = "backup" /\ UNCHANGED <<record, root, file, alien>>
  /\ \/ backup' = TRUE /\ Goto("replace")
     \/ UNCHANGED backup /\ Fail

\* recoverAtomicSdFile cannot remove the directory: nothing is staged.
Replace ==
  /\ pc = "replace" /\ Goto("complete")
  /\ UNCHANGED <<record, tree>>

Complete == Write("complete", "complete", "made")

Made ==
  /\ pc = "made" /\ End("passed")
  /\ UNCHANGED <<record, tree, refused, left>>

-----------------------------------------------------------------------------
\* P2LARGEVERIFY reads a few places of what is on record.
Verify == kind = "large" /\ Command("verify", "verify")

Verified ==
  /\ pc = "verify" /\ stray' = FALSE
  /\ \/ owner = "complete" /\ file \in {"whole", "patched"} /\ End("passed")
     \/ ~(owner = "complete" /\ file = "whole") /\ End("failed")
  /\ UNCHANGED <<owner, tree, refused, left>>

-----------------------------------------------------------------------------
(* cleanupP2LargeFixture, cleanupP2AtomicFixture                           *)

Clean == Command("clean", "begin")

\* Without a record nothing is touched; reading it recovers the file.
Begin ==
  /\ pc = "begin"
  /\ stray' = FALSE
  /\ Goto(IF Absent THEN "cleaned" ELSE IF owner = "absent" THEN "over" ELSE "validate")
  /\ UNCHANGED <<owner, tree>>

BeginRefused ==
  /\ pc = "begin" /\ HasOwner /\ Fail
  /\ UNCHANGED <<record, tree>>

\* Mutant: the directory is only looked through before the cleanup has begun.
Valid_Once ==
  /\ owner # "cleaning" => ~alien
  /\ owner = "complete" => root /\ file \in {"whole", "patched"}

\* validateP2LargeOwnedTree looks at sizes, validateP2AtomicOwnedTree at the
\* digest, and once the cleanup has begun neither.
Valid ==
  /\ root => ~alien
  /\ owner = "complete" =>
       /\ root /\ file \in (IF kind = "large" THEN {"whole", "patched"} ELSE {"whole"})
       /\ kind = "atomic" => backup
  /\ owner = "pending" /\ kind = "large" => file # "longer"

Validate ==
  /\ pc = "validate" /\ Goto(IF Valid THEN "mark" ELSE "over")
  /\ UNCHANGED <<record, tree>>

Mark == Write("mark", "cleaning", "file")

RemoveFile ==
  /\ pc = "file" /\ UNCHANGED <<record, root, backup, alien>>
  /\ \/ file' = "none" /\ Goto("rmbackup")
     \/ file # "none" /\ UNCHANGED file /\ Fail

RemoveBackup ==
  /\ pc = "rmbackup" /\ UNCHANGED <<record, root, file, alien>>
  /\ \/ backup' = FALSE /\ Goto("rmroot")
     \/ backup /\ UNCHANGED backup /\ Fail

\* The card removes no directory that holds something.
RemoveRoot ==
  /\ pc = "rmroot" /\ UNCHANGED <<record, file, backup, alien>>
  /\ \/ ~alien /\ root' = FALSE /\ Goto("owner")
     \/ root /\ UNCHANGED root /\ Fail

RemoveOwner ==
  /\ pc = "owner" /\ UNCHANGED <<stray, tree>>
  /\ \/ owner' = "absent" /\ Goto("cleaned")
     \/ UNCHANGED owner /\ Fail

\* The setup goes on when what was there has been cleared.
Cleaned ==
  /\ pc = "cleaned" /\ UNCHANGED <<record, tree, refused, left>>
  /\ IF cmd = "clear"
     THEN cmd' = "setup" /\ pc' = "space" /\ UNCHANGED <<kind, told>>
     ELSE End("passed")

-----------------------------------------------------------------------------
(* The user and the power.                                                 *)

Edit ==
  /\ pc = "idle" /\ left.edits > 0 /\ left' = [left EXCEPT !.edits = @ - 1]
  /\ \/ root /\ alien' = TRUE /\ UNCHANGED file
     \/ file # "none" /\ file' \in {"patched", "longer"} /\ UNCHANGED alien
  /\ UNCHANGED <<kind, record, root, backup, cmd, pc, told, refused>>

TidyUp ==
  /\ pc = "idle" /\ alien /\ alien' = FALSE
  /\ UNCHANGED <<kind, record, root, file, backup, cmd, pc, told, refused, left>>

Reset ==
  /\ pc # "idle" /\ left.resets > 0 /\ left' = [left EXCEPT !.resets = @ - 1]
  /\ pc' = "idle" /\ cmd' = "none" /\ told' = "none"
  /\ stray' \in (IF pc = "own" THEN BOOLEAN ELSE {stray})
  /\ UNCHANGED <<kind, owner, tree, refused>>

Next ==
  \/ Setup \/ Refuse \/ Space \/ Own \/ MakeRoot \/ Open \/ Fill \/ MakeBackup \/ Replace
  \/ Complete \/ Made \/ Verify \/ Verified
  \/ Clean \/ Begin \/ BeginRefused \/ Validate \/ Mark
  \/ RemoveFile \/ RemoveBackup \/ RemoveRoot \/ RemoveOwner \/ Cleaned
  \/ Edit \/ TidyUp \/ Reset

Spec == Init /\ [][Next]_vars

-----------------------------------------------------------------------------
\* A cleanup leaves nothing behind, wherever the setup and earlier cleanups
\* were cut off, unless a call was refused, the user put something there or
\* changed a file that is not yet being removed.
Settles ==
  [][cmd = "clean" /\ told' # "none" /\ pc' = "idle" /\ pc # "idle"
       => refused' \/ alien \/ file \in {"patched", "longer"} \/ Absent']_vars

\* What the user put into a directory keeps the whole fixture in place, and a
\* completed file whose size has changed, or that one byte of the small file
\* has, is not removed.
OthersStay ==
  [][pc # "idle" =>
       /\ alien => root' /\ file' = file /\ backup' = backup
       /\ owner = "complete" /\ (file = "longer" \/ (file = "patched" /\ kind = "atomic"))
            => file' = file /\ owner' = owner]_vars
=============================================================================
