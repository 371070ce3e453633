---------------------------- MODULE SharedFixture ----------------------------
(***************************************************************************)
(* The P2SHAREDTEST and P2SHAREDCLEAN commands of SerialDiagnostics.ino:   *)
(* a Shared file is linked to two of three new projects, the tools of each *)
(* are tried, one project is deleted, and all is cleaned up.  The ids of   *)
(* the projects are drawn and put on record before any of them exists, so  *)
(* that what a reset leaves of one can be told from the user's projects.   *)
(*                                                                         *)
(* The record and the index of the projects are registers (AtomicFile).    *)
(* While a command runs the user does nothing.                             *)
(***************************************************************************)
EXTENDS Naturals

CONSTANTS MaxResets, MaxFaults, MaxEdits

Role == 1..3          \* first, second, denied
Linked == {1, 2}

VARIABLES
  root,      \* BOOLEAN: the directory exists
  owner,     \* the state on record
  file,      \* the Shared file
  dir,       \* [Role -> what is on the card of the project]
  listed,    \* the roles whose project is in the index
  alien,     \* BOOLEAN: an entry of the user's is in the directory
  twin,      \* BOOLEAN: a project of the user's has one of the titles (an
             \* owned project with another title is refused by the same check)
  cmd, pc, role,   \* the command, its next call, the project it is about
  told,
  refused,   \* history: a call of this command was refused
  left

vars == <<root, owner, file, dir, listed, alien, twin, cmd, pc, role, told, refused, left>>
projects == <<dir, listed>>
users == <<alien, twin>>

TypeOK ==
  /\ owner \in {"absent", "pending", "complete", "cleaning"}
  /\ file \in {"none", "empty", "marker", "edited"}
  /\ dir \in [Role -> {"none", "part", "fresh", "linked"}]
  /\ listed \subseteq Role /\ \A r \in listed : dir[r] # "none"
  /\ {root, alien, twin, refused} \subseteq BOOLEAN /\ (owner # "absent" => root)
  /\ cmd \in {"none", "test", "undo", "clean"} /\ role \in Role
  /\ told \in {"none", "passed", "failed"}

Init ==
  /\ root = FALSE /\ owner = "absent" /\ file = "none"
  /\ dir = [r \in Role |-> "none"] /\ listed = {}
  /\ alien = FALSE /\ twin = FALSE
  /\ cmd = "none" /\ pc = "idle" /\ role = 1 /\ told = "none" /\ refused = FALSE
  /\ left = [resets |-> MaxResets, faults |-> MaxFaults, edits |-> MaxEdits]

Goto(step) == pc' = step /\ UNCHANGED <<cmd, role, told, refused, left>>

\* The next project, or the next call after the last one.
Then(last, again, step) ==
  /\ IF role = last THEN role' = 1 /\ pc' = step ELSE role' = role + 1 /\ pc' = again
  /\ UNCHANGED <<cmd, told, refused, left>>

End(word) ==
  /\ pc' = "idle" /\ cmd' = "none" /\ role' = 1
  /\ told' = IF cmd = "undo" THEN "failed" ELSE word

\* A test that fails goes on to its cleanup, once there is something to clean.
Stop ==
  IF cmd = "test" /\ root' /\ pc \notin {"begin", "validate", "mark", "find", "unlist", "tree",
                                         "file", "owner", "root"}
  THEN cmd' = "undo" /\ pc' = "begin" /\ role' = 1 /\ UNCHANGED told
  ELSE End("failed")

Fail == left.faults > 0 /\ left' = [left EXCEPT !.faults = @ - 1] /\ refused' = TRUE /\ Stop

\* What does not hold ends the command.
Refuse ==
  /\ pc = "over" /\ End("failed")
  /\ UNCHANGED <<root, owner, file, projects, users, refused, left>>

\* requireP2SharedTitlesAbsent
TitlesAbsent == listed = {} /\ ~twin

-----------------------------------------------------------------------------
(* runP2SharedProjectIsolationTest                                         *)

\* A fixture that is there is cleaned up, but the test has failed.
Test ==
  /\ pc = "idle" /\ refused' = FALSE /\ role' = 1
  /\ IF root THEN cmd' = "undo" /\ pc' = "begin"
     ELSE cmd' = "test" /\ pc' = IF TitlesAbsent THEN "mkdir" ELSE "over"
  /\ UNCHANGED <<root, owner, file, projects, users, told, left>>

MakeRoot ==
  /\ pc = "mkdir" /\ UNCHANGED <<owner, file, projects, users>>
  /\ \/ root' = TRUE /\ Goto("own")
     \/ root' \in BOOLEAN /\ Fail

\* writeP2SharedOwnership
Write(step, new, next) ==
  /\ pc = step /\ UNCHANGED <<root, file, projects, users>>
  /\ \/ owner' = new /\ Goto(next)
     \/ owner' \in {owner, new} /\ Fail

Own == Write("own", "pending", "create")

CreateFile ==
  /\ pc = "create" /\ UNCHANGED <<root, owner, projects, users>>
  /\ \/ file' = "empty" /\ Goto("fill")
     \/ file' \in {"none", "empty"} /\ Fail

FillFile ==
  /\ pc = "fill" /\ UNCHANGED <<root, owner, projects, users>>
  /\ \/ file' = "marker" /\ Goto("dirs")
     \/ UNCHANGED file /\ Fail

\* createProjectWithId: its directories, its document, its index entry.
MakeDirectories ==
  /\ pc = "dirs" /\ UNCHANGED <<root, owner, file, listed, users>>
  /\ \/ dir' = [dir EXCEPT ![role] = "part"] /\ Goto("document")
     \/ dir' \in {dir, [dir EXCEPT ![role] = "part"]} /\ Fail

WriteDocument ==
  /\ pc = "document" /\ UNCHANGED <<root, owner, file, listed, users>>
  /\ \/ dir' = [dir EXCEPT ![role] = "fresh"] /\ Goto("list")
     \/ dir' \in {dir, [dir EXCEPT ![role] = "none"]} /\ Fail

List ==
  /\ pc = "list" /\ UNCHANGED <<root, owner, file, users>>
  /\ \/ listed' = listed \cup {role} /\ Then(3, "dirs", "link") /\ UNCHANGED dir
     \/ UNCHANGED listed /\ dir' \in {dir, [dir EXCEPT ![role] = "none"]} /\ Fail

Link ==
  /\ pc = "link" /\ UNCHANGED <<root, owner, file, listed, users>>
  /\ \/ dir' = [dir EXCEPT ![role] = "linked"] /\ Then(2, "link", "complete")
     \/ dir' \in {dir, [dir EXCEPT ![role] = "linked"]} /\ Fail

Complete == Write("complete", "complete", "unlink")

\* The tools are tried, which changes nothing, and the first project is deleted.
DeleteFirst ==
  /\ pc = "unlink" /\ UNCHANGED <<root, owner, file, dir, users>>
  /\ \/ listed' = listed \ {1} /\ Goto("untree")
     \/ UNCHANGED listed /\ Fail

DeleteFirstTree ==
  /\ pc = "untree" /\ UNCHANGED <<root, owner, file, users>>
  /\ \/ dir' = [dir EXCEPT ![1] = "none"] /\ UNCHANGED listed /\ Goto("begin")
     \/ dir' \in {dir, [dir EXCEPT ![1] = "part"]} /\ listed' = listed \cup {1} /\ Fail

-----------------------------------------------------------------------------
(* cleanupP2SharedFixture                                                  *)

Clean ==
  /\ pc = "idle" /\ refused' = FALSE
  /\ cmd' = "clean" /\ pc' = "begin" /\ role' = 1
  /\ UNCHANGED <<root, owner, file, projects, users, told, left>>

Absent == ~root /\ file = "none" /\ listed = {} /\ \A r \in Role : dir[r] = "none"

\* Without a record an empty directory is removed, if no project is left.
Begin ==
  /\ pc = "begin" /\ UNCHANGED <<root, owner, file, projects, users>>
  /\ Goto(IF owner # "absent" THEN "validate"
          ELSE IF ~TitlesAbsent THEN "over"
          ELSE IF ~root THEN "done"
          ELSE IF file = "none" /\ ~alien THEN "root" ELSE "over")

BeginRefused ==
  /\ pc = "begin" /\ root /\ UNCHANGED <<root, owner, file, projects, users>>
  /\ Fail

\* validateP2SharedOwnedFile: it may only be empty while the record is pending.
FileValid ==
  \/ file = "marker"
  \/ file = "empty" /\ owner = "pending"
  \/ file = "none" /\ owner # "complete"

\* With validateP2SharedDirectory and validateP2SharedOwnedProjectIds.
Validate ==
  /\ pc = "validate" /\ UNCHANGED <<root, owner, file, projects, users>>
  /\ Goto(IF FileValid /\ ~alien /\ ~twin THEN "mark" ELSE "over")

Mark == Write("mark", "cleaning", "find")

\* Mutant: a project that the index does not have is not looked for.
Find_ListedOnly ==
  /\ pc = "find" /\ UNCHANGED <<root, owner, file, projects, users>>
  /\ \/ role \in listed /\ Goto("unlist")
     \/ role \notin listed /\ Then(3, "find", "file")

\* findP2SharedOwnedProject, and validateP2SharedPartialProject when the index
\* does not have it: only one that was never linked can be what was left.
Find ==
  /\ pc = "find" /\ UNCHANGED <<root, owner, file, projects, users>>
  /\ \/ role \in listed /\ Goto("unlist")
     \/ role \notin listed /\ dir[role] = "none" /\ Then(3, "find", "file")
     \/ role \notin listed /\ dir[role] \in {"part", "fresh"} /\ Goto("tree")
     \/ role \notin listed /\ dir[role] = "linked" /\ Goto("over")

Unlist ==
  /\ pc = "unlist" /\ UNCHANGED <<root, owner, file, dir, users>>
  /\ \/ listed' = listed \ {role} /\ Goto("tree")
     \/ UNCHANGED listed /\ Fail

\* A deletion that fails puts the index entry back.
RemoveTree ==
  /\ pc = "tree" /\ UNCHANGED <<root, owner, file, users>>
  /\ \/ /\ dir' = [dir EXCEPT ![role] = "none"] /\ UNCHANGED listed
        /\ Then(3, "find", "file")
     \/ /\ dir' \in {dir, [dir EXCEPT ![role] = "part"]}
        /\ listed' \in {listed, listed \cup {role}} /\ Fail

RemoveFile ==
  /\ pc = "file" /\ UNCHANGED <<root, owner, projects, users>>
  /\ \/ file' = "none" /\ Goto("owner")
     \/ file # "none" /\ UNCHANGED file /\ Fail

RemoveOwner ==
  /\ pc = "owner" /\ UNCHANGED <<root, file, projects, users>>
  /\ \/ owner' = "absent" /\ Goto("root")
     \/ UNCHANGED owner /\ Fail

RemoveRoot ==
  /\ pc = "root" /\ UNCHANGED <<owner, file, projects, users>>
  /\ \/ root' = FALSE /\ Goto("done")
     \/ UNCHANGED root /\ Fail

Done ==
  /\ pc = "done" /\ End("passed")
  /\ UNCHANGED <<root, owner, file, projects, users, refused, left>>

-----------------------------------------------------------------------------
(* The user and the power.                                                 *)

Edit ==
  /\ pc = "idle" /\ left.edits > 0 /\ left' = [left EXCEPT !.edits = @ - 1]
  /\ \/ root /\ alien' = TRUE /\ UNCHANGED <<file, twin>>
     \/ twin' = TRUE /\ UNCHANGED <<file, alien>>
     \/ file # "none" /\ file' = "edited" /\ UNCHANGED <<alien, twin>>
  /\ UNCHANGED <<root, owner, projects, cmd, pc, role, told, refused>>

TidyUp ==
  /\ pc = "idle" /\ (alien \/ twin) /\ alien' = FALSE /\ twin' = FALSE
  /\ UNCHANGED <<root, owner, file, projects, cmd, pc, role, told, refused, left>>

Reset ==
  /\ pc # "idle" /\ left.resets > 0 /\ left' = [left EXCEPT !.resets = @ - 1]
  /\ pc' = "idle" /\ cmd' = "none" /\ role' = 1 /\ told' = "none"
  /\ dir' \in (CASE pc = "tree" -> {dir, [dir EXCEPT ![role] = "part"]}
                 [] pc = "untree" -> {dir, [dir EXCEPT ![1] = "part"]}
                 [] OTHER -> {dir})
  /\ UNCHANGED <<root, owner, file, listed, users, refused>>

Next ==
  \/ Test \/ Refuse \/ MakeRoot \/ Own \/ CreateFile \/ FillFile
  \/ MakeDirectories \/ WriteDocument \/ List \/ Link \/ Complete
  \/ DeleteFirst \/ DeleteFirstTree
  \/ Clean \/ Begin \/ BeginRefused \/ Validate \/ Mark \/ Find \/ Unlist \/ RemoveTree
  \/ RemoveFile \/ RemoveOwner \/ RemoveRoot \/ Done
  \/ Edit \/ TidyUp \/ Reset

Spec == Init /\ [][Next]_vars

-----------------------------------------------------------------------------
Ends == cmd = "clean" /\ told' # "none" /\ pc' = "idle" /\ pc # "idle"

\* A cleanup that nobody stood in the way of leaves nothing behind, however
\* often and wherever the test and earlier cleanups were cut off.  False: see
\* Stuck.
AlwaysSettles ==
  [][Ends => refused' \/ alien \/ file = "edited" \/ twin \/ Absent']_vars

\* Two resets are not recovered from: in the first cleanup after a test that
\* was cut off before it had filled its file, since the empty file is only
\* accepted while the record is pending; and in the deletion of a linked
\* project, whose directory without an index entry is taken for a changed one.
Stuck ==
  \/ file = "empty" /\ owner = "cleaning"
  \/ \E r \in Linked : r \notin listed /\ dir[r] = "linked"

\* Any other cleanup does.
Settles ==
  [][Ends => refused' \/ alien \/ file = "edited" \/ twin \/ Stuck \/ Absent']_vars

\* Nothing is removed while the user has something in the fixture.
OthersStay ==
  [][pc # "idle" /\ (alien \/ file = "edited" \/ twin)
       => root' = root /\ file' = file /\ projects' = projects]_vars
=============================================================================
