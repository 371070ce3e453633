---------------------------- MODULE UnicodeFixture ----------------------------
(***************************************************************************)
(* The P2UNICODESETUP and P2UNICODECLEAN commands of SerialDiagnostics.ino:*)
(* a file with a long Unicode path is fetched over SFTP from a public host,*)
(* whose key may have to be trusted for the time being, and everything is  *)
(* removed again.  A record beside the file, replaced atomically, says what*)
(* the commands own, so that a cleanup may go on after a reset.            *)
(*                                                                         *)
(* Between two commands the user may add files, edit the fetched one and   *)
(* trust or forget the host; while one runs nothing else does.  The record *)
(* is the register that AtomicFile implements: after a refusal or a reset  *)
(* it is the old or the new one.                                           *)
(***************************************************************************)
EXTENDS Naturals

CONSTANTS MaxResets, MaxFaults, MaxEdits

VARIABLES
  depth,     \* how many of the top, the first and the leaf directory exist
  target,    \* the file
  part,      \* BOOLEAN: target.sftp-part exists
  owner,     \* the ownership record
  alien,     \* the directories that hold an entry of the user's
  trust,     \* the stored key of the host: none, that of the server, another
  ram,       \* the command's copy of the record
  cmd, pc,   \* the command and its next call: clean, setup, a setup that has
             \* failed, one that undoes what it has made
  told,
  ours,      \* history: the command trusted the host
  refused,   \* history: a call of this command was refused
  changed,   \* history: the user changed the file or the trust since the setup
  left

vars == <<depth, target, part, owner, alien, trust, ram, cmd, pc, told, ours,
          refused, changed, left>>
tree == <<depth, target, part, alien>>
history == <<ours, changed>>

NoFile == "no file"
NoRecord == [state |-> "absent", verified |-> FALSE, added |-> FALSE, cleaned |-> TRUE]
Pending == [NoRecord EXCEPT !.state = "pending"]

TypeOK ==
  /\ depth \in 0..3 /\ alien \subseteq 1..3
  /\ target \in {NoFile, "fetched", "edited"}
  /\ trust \in {"none", "server", "other"}
  /\ {owner.state, ram.state} \subseteq {"absent", "pending", "complete", "cleaning"}
  /\ {part, ours, refused, changed} \subseteq BOOLEAN
  /\ cmd \in {"none", "setup", "failing", "undo", "clean"} /\ told \in {"none", "passed", "failed"}

Init ==
  /\ depth = 0 /\ target = NoFile /\ part = FALSE /\ owner = NoRecord /\ alien = {}
  /\ trust \in {"none", "server", "other"} /\ ours = FALSE
  /\ ram = NoRecord /\ cmd = "none" /\ pc = "idle" /\ told = "none"
  /\ refused = FALSE /\ changed = FALSE
  /\ left = [resets |-> MaxResets, faults |-> MaxFaults, edits |-> MaxEdits]

\* p2UnicodeFixtureIsEntirelyAbsent
Absent == depth = 0 /\ target = NoFile /\ ~part /\ owner = NoRecord

Goto(step) == pc' = step /\ UNCHANGED <<cmd, told, refused, left>>

\* The command is over: what it tells.
End(word) ==
  /\ pc' = "idle" /\ cmd' = "none"
  /\ told' = IF cmd = "undo" THEN "failed" ELSE word

\* A call is refused: a cleanup ends, and so does a setup that has no record
\* yet; any other sees to the trusted host and to the rest.
Fail ==
  /\ left.faults > 0 /\ left' = [left EXCEPT !.faults = @ - 1] /\ refused' = TRUE
  /\ IF cmd \in {"clean", "undo"} \/ pc = "own" THEN End("failed")
     ELSE /\ cmd' = "failing" /\ UNCHANGED told
          /\ pc' = IF ram'.added /\ ~ram'.cleaned /\ pc \notin {"forget", "forgot"}
                   THEN "forget" ELSE "begin"

-----------------------------------------------------------------------------
(* The setup.                                                              *)

Setup ==
  /\ pc = "idle"
  /\ cmd' = "setup" /\ refused' = FALSE /\ ram' = Pending
  /\ pc' = IF Absent THEN "own" ELSE "over"
  /\ changed' = (changed /\ ~Absent)
  /\ UNCHANGED <<tree, owner, trust, told, ours, left>>

\* Paths are there already, or what is there is not what the record says.
Refuse ==
  /\ pc = "over" /\ End("failed")
  /\ UNCHANGED <<tree, owner, trust, ram, history, refused, left>>

\* writeP2UnicodeOwnership: the top directory is made for it.
WriteOwnership(new) ==
  /\ depth' = IF depth = 0 THEN 1 ELSE depth
  /\ ram' = new
  /\ UNCHANGED <<target, part, alien, trust, history>>
Written(new, next) == WriteOwnership(new) /\ owner' = new /\ Goto(next)
WriteRefused(new) == WriteOwnership(new) /\ owner' \in {owner, new} /\ Fail

Own == pc = "own" /\ (Written(ram, "connect") \/ WriteRefused(ram))

\* The network, the connection and the check of the stored key.
Connect ==
  /\ pc = "connect" /\ UNCHANGED <<tree, owner, trust, ram, history>>
  /\ \/ trust = "none" /\ Goto("record")
     \/ trust = "server" /\ Goto("fetch")
     \/ Fail

\* A key that has changed needs no refusal.
KeyChanged ==
  /\ pc = "connect" /\ trust = "other"
  /\ pc' = "begin" /\ cmd' = "failing"
  /\ UNCHANGED <<tree, owner, trust, ram, told, refused, history, left>>

\* That the key will be trusted is on record before it is.
Added == [ram EXCEPT !.added = TRUE, !.cleaned = FALSE]
Record == pc = "record" /\ (Written(Added, "trust") \/ WriteRefused(Added))

Trust ==
  /\ pc = "trust" /\ UNCHANGED <<tree, owner, ram, changed>>
  /\ \/ trust' = "server" /\ Goto("fetch")
     \/ trust' \in {trust, "server"} /\ Fail
  /\ ours' = (trust' = "server")

\* Authentication, SFTP and the first bytes of the download.
Fetch ==
  /\ pc = "fetch" /\ UNCHANGED <<target, alien, owner, trust, ram, history>>
  /\ \/ depth' = 3 /\ part' = TRUE /\ Goto("fetched")
     \/ UNCHANGED <<depth, part>> /\ Fail

Fetched ==
  /\ pc = "fetched" /\ UNCHANGED <<depth, alien, owner, trust, ram, history>>
  /\ \/ /\ part' = FALSE /\ target' = "fetched"
        /\ Goto(IF ram.added THEN "forget" ELSE "complete")
     \/ part' \in {part, FALSE} /\ UNCHANGED target /\ Fail

Verified == [ram EXCEPT !.state = "complete", !.verified = TRUE]
Complete == pc = "complete" /\ (Written(Verified, "view") \/ WriteRefused(Verified))

\* The file is found in the list and opened in the viewer.
View ==
  /\ pc = "view" /\ UNCHANGED <<tree, owner, trust, ram, history>>
  /\ \/ End("passed") /\ UNCHANGED <<refused, left>>
     \/ Fail

-----------------------------------------------------------------------------
(* cleanupP2UnicodeTemporaryTrust                                          *)

Forget ==
  /\ pc = "forget" /\ UNCHANGED <<tree, owner, ram, changed>>
  /\ \/ trust # "other" /\ trust' = "none" /\ ours' = FALSE /\ Goto("forgot")
     \/ UNCHANGED <<trust, ours>> /\ Fail

ForgetMismatch ==
  /\ pc = "forget" /\ trust = "other"
  /\ IF cmd \in {"clean", "undo"}
     THEN pc' = "over" /\ UNCHANGED cmd ELSE pc' = "begin" /\ cmd' = "failing"
  /\ UNCHANGED <<tree, owner, trust, ram, told, refused, history, left>>

Forgotten == [ram EXCEPT !.cleaned = TRUE]
AfterTrust ==
  IF cmd \in {"clean", "undo"} THEN "validate"
  ELSE IF cmd = "failing" THEN "begin" ELSE "complete"
Forgot == pc = "forgot" /\ (Written(Forgotten, AfterTrust) \/ WriteRefused(Forgotten))

-----------------------------------------------------------------------------
(* cleanupP2UnicodeFixture                                                 *)

Clean ==
  /\ pc = "idle"
  /\ cmd' = "clean" /\ pc' = "begin" /\ refused' = FALSE
  /\ UNCHANGED <<tree, owner, trust, ram, told, history, left>>

\* loadP2UnicodeOwnership; without a record only empty directories are removed.
Begin ==
  /\ pc = "begin" /\ ram' = owner
  /\ cmd' = IF cmd = "failing" THEN "undo" ELSE cmd
  /\ pc' = IF Absent THEN "done"
           ELSE IF owner = NoRecord
           THEN IF target = NoFile /\ ~part /\ alien = {} THEN "leaf" ELSE "over"
           ELSE IF owner.added /\ ~owner.cleaned THEN "forget" ELSE "validate"
  /\ UNCHANGED <<tree, owner, trust, told, refused, history, left>>

\* recoverAtomicSdFile is refused.
BeginRefused ==
  /\ pc = "begin" /\ UNCHANGED <<tree, owner, trust, ram, history>>
  /\ left.faults > 0 /\ left' = [left EXCEPT !.faults = @ - 1] /\ refused' = TRUE
  /\ pc' = "idle" /\ cmd' = "none" /\ told' = "failed"

\* validateP2UnicodeOwnedTree, validateVerifiedP2UnicodeCleaningTree and
\* validatePendingP2UnicodeOwnedTree, with the digest of what was verified.
Valid ==
  /\ alien = {}
  /\ ram.verified => ~part /\ target \in {NoFile, "fetched"}
  /\ ram.state = "complete" => target = "fetched" /\ depth = 3

Validate ==
  /\ pc = "validate" /\ UNCHANGED <<tree, owner, trust, ram, history>>
  /\ Goto(IF ~Valid THEN "over" ELSE IF ram.state = "cleaning" THEN "target" ELSE "mark")

Cleaning == [ram EXCEPT !.state = "cleaning"]
Mark == pc = "mark" /\ (Written(Cleaning, "target") \/ WriteRefused(Cleaning))

RemoveTarget ==
  /\ pc = "target" /\ UNCHANGED <<depth, part, alien, owner, trust, ram, history>>
  /\ \/ target' = NoFile /\ Goto("part")
     \/ target # NoFile /\ UNCHANGED target /\ Fail

RemovePart ==
  /\ pc = "part" /\ UNCHANGED <<depth, target, alien, owner, trust, ram, history>>
  /\ \/ part' = FALSE /\ Goto("leaf")
     \/ part /\ UNCHANGED part /\ Fail

\* removeP2UnicodeEmptyDirectory
RemoveDirectory(step, d, next) ==
  /\ pc = step /\ UNCHANGED <<target, part, alien, owner, trust, ram, history>>
  /\ \/ depth' = (IF depth >= d THEN d - 1 ELSE depth) /\ Goto(next)
     \/ depth >= d /\ UNCHANGED depth /\ Fail

RemoveLeaf == RemoveDirectory("leaf", 3, "first")
RemoveFirst == RemoveDirectory("first", 2, IF owner = NoRecord THEN "top" ELSE "owner")

RemoveOwner ==
  /\ pc = "owner" /\ UNCHANGED <<tree, trust, ram, history>>
  /\ \/ owner' = NoRecord /\ Goto("top")
     \/ UNCHANGED owner /\ Fail

RemoveTop == RemoveDirectory("top", 1, "done")

Done ==
  /\ pc = "done" /\ End("passed")
  /\ UNCHANGED <<tree, owner, trust, ram, refused, history, left>>

-----------------------------------------------------------------------------
(* The user and the power.                                                 *)

Edit ==
  /\ pc = "idle" /\ left.edits > 0 /\ left' = [left EXCEPT !.edits = @ - 1]
  /\ \/ /\ \E d \in 1..depth : alien' = alien \cup {d}
        /\ UNCHANGED <<target, trust, history>>
     \/ /\ target # NoFile /\ target' \in {NoFile, "edited"} /\ changed' = TRUE
        /\ UNCHANGED <<alien, trust, ours>>
     \/ /\ trust' \in {"none", "server", "other"} /\ ours' = FALSE /\ changed' = TRUE
        /\ UNCHANGED <<alien, target>>
  /\ UNCHANGED <<depth, part, owner, ram, cmd, pc, told, refused>>

\* The user takes away what they put there.
TidyUp ==
  /\ pc = "idle" /\ alien # {}
  /\ alien' = {}
  /\ UNCHANGED <<depth, target, part, owner, trust, ram, cmd, pc, told, refused,
                 history, left>>

Reset ==
  /\ pc # "idle" /\ left.resets > 0 /\ left' = [left EXCEPT !.resets = @ - 1]
  /\ pc' = "idle" /\ cmd' = "none" /\ told' = "none" /\ ram' = NoRecord
  /\ UNCHANGED <<tree, owner, trust, refused, history>>

Next ==
  \/ Setup \/ Refuse \/ Own \/ Connect \/ KeyChanged \/ Record \/ Trust
  \/ Fetch \/ Fetched \/ Complete \/ View
  \/ Forget \/ ForgetMismatch \/ Forgot
  \/ Clean \/ Begin \/ BeginRefused \/ Validate \/ Mark \/ RemoveTarget \/ RemovePart
  \/ RemoveLeaf \/ RemoveFirst \/ RemoveOwner \/ RemoveTop \/ Done
  \/ Edit \/ TidyUp \/ Reset

Spec == Init /\ [][Next]_vars

-----------------------------------------------------------------------------
\* A cleanup that nobody stood in the way of leaves nothing behind, however
\* often and wherever the setup and earlier cleanups were cut off.
Settles ==
  [][cmd = "clean" /\ told' # "none" /\ pc' = "idle" /\ pc # "idle"
       => refused' \/ changed \/ alien # {} \/ Absent']_vars

\* The trust that the setup added goes with the fixture.
TrustIsReturned == pc = "idle" /\ Absent => ~ours

\* What was verified and edited since stays, as does any directory in which
\* somebody put a file, and a trusted key that the setup did not add, or that
\* the user changed after it had.
OthersStay ==
  [][pc # "idle" =>
       /\ target = "edited" /\ owner.verified => target' = target
       /\ alien # {} => depth' >= depth /\ target' = target
       /\ trust # "none" /\ trust' = "none" => ours \/ (changed /\ trust = "server")]_vars
=============================================================================
