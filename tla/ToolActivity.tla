---------------------------- MODULE ToolActivity ----------------------------
(***************************************************************************)
(* The journal of tool runs (tool_activity.cpp) with its callers.          *)
(*                                                                         *)
(* A tool run is two lines of a journal on the card, one when it starts    *)
(* and one when it ends.  The journal has two generations; when the        *)
(* current file is full, or its last line is cut, it replaces the          *)
(* previous one.  executeAuditedToolCall (tool_router.cpp) writes both     *)
(* lines within one boot.  The run of an approved Python script does not:  *)
(* its number goes into NVS, the device restarts twice, and startup        *)
(* (CardputerAssistant.ino) writes the second line, retrying at each boot. *)
(*                                                                         *)
(* pc is the next effect on the card; a refusal or a reset may fall on any.*)
(***************************************************************************)
EXTENDS Naturals, Sequences, FiniteSets

CONSTANTS Tool, Python,    \* catalog names; python_run is one of them
          None,
          Keep,            \* kMaximumRecentActivities
          MaxLines,        \* lines a file holds: kMaximumJournalBytes
          Callers,         \* who may start a tool, see Caller
          Outcomes,        \* bound: the ends of a run that are explored
          Faults,          \* what may be left half done, see Fault
          MaxSequence,     \* bound on the runs numbered
          MaxDisturbances  \* bound on refusals and resets

Caller == {"prompt",   \* a chat request, on the device or the Web Console
           "toolTest"} \* the serial diagnostic TOOLTEST
Fault == {"tornAppend", \* a refused write or a reset keeps part of the line
          "shortFlush"} \* flush and close report nothing

ASSUME ToolAssumption == Python \in Tool
ASSUME SizeAssumption == Keep \in Nat \ {0} /\ MaxLines \in Nat \ {0}
ASSUME CallerAssumption == Callers \subseteq Caller /\ Faults \subseteq Fault

Terminal == {"succeeded", "failed", "canceled"}
ASSUME BoundAssumption ==
  MaxSequence \in Nat /\ MaxDisturbances \in Nat /\ Outcomes \subseteq Terminal
\* One line.  The status of a terminal line stands for all it reports
\* (duration, output size, exit status).
Line == [seq : Nat, tool : Tool, status : Terminal \cup {"running"}]
\* What readers make of a line written behind a cut one.
Garbled == [seq |-> 0, tool |-> Python, status |-> "running"]
\* torn: behind the last newline there is part of a line.  A missing file
\* reads as the empty one.
File == [lines : Seq(Line), torn : BOOLEAN]
Empty == [lines |-> << >>, torn |-> FALSE]

ASSUME NoneAssumption ==
  None \notin Line \cup [kind : {"start", "finish", "recover"}, line : Line]

VARIABLES
  current, previous, \* the two generations on the card
  next,              \* nextSequence
  initialized,       \* journalInitialized
  active,            \* activeActivity, or None
  owed,              \* the run value in NVS: terminal line to write, or None
  op, pc,            \* the append in progress; the next effect
  begun, ended,      \* history: numbers and last lines reported as written
  faulted,           \* history: the faults that have happened
  disturbances

card == <<current, previous>>
ram == <<next, initialized, active>>
history == <<begun, ended, faulted>>
vars == <<current, previous, next, initialized, active, owed, op, pc, begun,
          ended, faulted, disturbances>>

Step == {"boot", "recover", "settle", "idle", "dispatch", "remove", "rename",
         "append"}
Writing == pc \in {"remove", "rename", "append"}

TypeOK ==
  /\ current \in File /\ previous \in File
  /\ next \in Nat /\ initialized \in BOOLEAN
  /\ active \in Line \cup {None} /\ owed \in Line \cup {None}
  /\ op \in [kind : {"start", "finish", "recover"}, line : Line] \cup {None}
  /\ pc \in Step
  /\ begun \subseteq Nat /\ ended \subseteq Line /\ faulted \subseteq Faults
  /\ disturbances \in Nat

Init ==
  /\ current = Empty /\ previous = Empty
  /\ next = 1 /\ initialized = FALSE /\ active = None
  /\ owed = None /\ op = None /\ pc = "boot"
  /\ begun = {} /\ ended = {} /\ faulted = {} /\ disturbances = 0

-----------------------------------------------------------------------------
(* Reading                                                                 *)

Lines(s) == {s[i] : i \in DOMAIN s}
Journal == previous.lines \o current.lines
Numbers(s) == {e.seq : e \in Lines(s)}

\* Line f may come somewhere behind line e: numbers never fall, and a number
\* has one running line and then at most one terminal line of the same tool.
Follows(e, f) ==
  /\ e.seq <= f.seq
  /\ e.seq = f.seq =>
       e.status = "running" /\ f.status # "running" /\ e.tool = f.tool
Ordered(s) == \A i, j \in DOMAIN s : i < j => Follows(s[i], s[j])

\* readJournal: every line parses, sizes are in bounds, numbers never fall.
Reads ==
  /\ \A e \in Lines(Journal) : e.seq # 0
  /\ Len(previous.lines) <= MaxLines /\ Len(current.lines) <= MaxLines
  /\ \A i, j \in DOMAIN Journal : i < j => Journal[i].seq <= Journal[j].seq

\* Mutant: the limit is one number too small.
RecentOffByOne(e) == Cardinality({m \in Numbers(Journal) : m > e.seq}) < Keep - 1
\* readJournal retains the lines of the last Keep numbers.
Recent(e) == Cardinality({m \in Numbers(Journal) : m > e.seq}) < Keep
Retained == {e \in Lines(Journal) : Recent(e)}

\* The highest number read: the last one, as Reads has checked.
Highest == IF Journal = << >> THEN 0 ELSE Journal[Len(Journal)].seq

\* Mutant: the first line of a number is kept.
FirstOf(n) ==
  CHOOSE e \in Retained :
    \E i \in DOMAIN Journal :
      /\ Journal[i] = e /\ e.seq = n
      /\ \A j \in DOMAIN Journal : Journal[j].seq = n => i <= j
\* foldRecentActivities: each number once, by its last line; a running line
\* is interrupted unless it is the active run.
LastOf(n) ==
  CHOOSE e \in Retained :
    \E i \in DOMAIN Journal :
      /\ Journal[i] = e /\ e.seq = n
      /\ \A j \in DOMAIN Journal : Journal[j].seq = n => j <= i
IsActive(e) == active # None /\ active.seq = e.seq
Projected(e) ==
  IF e.status = "running" /\ ~IsActive(e)
  THEN [e EXCEPT !.status = "interrupted"] ELSE e
Shown == {Projected(LastOf(e.seq)) : e \in Retained}

\* finishPersistedToolActivity: the lines of the number in NVS are Python's,
\* each once; the running one is there, a terminal one is the one that would
\* be written.
Found(line) == {e \in Retained : e.seq = line.seq}
Running(line) == [line EXCEPT !.status = "running"]
RunningFound(line) == Running(line) \in Found(line)
Twice(line) == \E i, j \in DOMAIN Journal :
  i # j /\ Journal[i] = Journal[j] /\ Journal[i] \in Found(line)
Finishable(line) ==
  /\ Reads
  /\ RunningFound(line) /\ ~Twice(line)
  /\ \A e \in Found(line) : e = line \/ (e.status = "running" /\ e.tool = Python)

-----------------------------------------------------------------------------
(* Startup                                                                 *)

Disturbed ==
  /\ disturbances < MaxDisturbances
  /\ disturbances' = disturbances + 1

\* setup calls initializeToolActivityJournal, then consumePythonRunAtStartup,
\* the second only if the first succeeded.
Initialize ==
  /\ pc = "boot"
  /\ IF Reads
     THEN /\ initialized' = TRUE /\ next' = Highest + 1
          /\ pc' = IF owed = None THEN "idle" ELSE "recover"
     ELSE /\ UNCHANGED <<initialized, next>>
          /\ pc' = "idle"
  /\ UNCHANGED <<card, active, owed, op, history, disturbances>>

\* Card access or a later check of the startup is refused; nothing is changed
\* and the device goes on without the recovery.
StartupRefused ==
  /\ pc \in {"boot", "recover", "settle"} /\ Disturbed
  /\ pc' = "idle"
  /\ UNCHANGED <<card, ram, owed, op, history>>

\* Mutant: the tail of the file is not inspected.
FitsUninspected == Len(current.lines) + 1 <= MaxLines
\* rotateBeforeAppend: the line fits and the file does not end in part of one.
Fits == ~current.torn /\ Len(current.lines) + 1 <= MaxLines

Begin(kind, line) ==
  /\ op' = [kind |-> kind, line |-> line]
  /\ pc' = IF Fits THEN "append" ELSE "remove"

\* Mutant: a terminal line that is already there is an error.
RecoverOnce ==
  /\ pc = "recover"
  /\ \/ /\ ~Finishable(owed) \/ owed \in Found(owed)
        /\ pc' = "idle" /\ UNCHANGED op
     \/ /\ Finishable(owed) /\ owed \notin Found(owed)
        /\ Begin("recover", owed)
  /\ UNCHANGED <<card, ram, owed, history, disturbances>>
Recover ==
  /\ pc = "recover"
  /\ \/ /\ ~Finishable(owed)
        /\ pc' = "idle" /\ UNCHANGED op
     \/ /\ Finishable(owed) /\ owed \in Found(owed)
        /\ pc' = "settle" /\ UNCHANGED op
     \/ /\ Finishable(owed) /\ owed \notin Found(owed)
        /\ Begin("recover", owed)
  /\ UNCHANGED <<card, ram, owed, history, disturbances>>

\* The chat has the result and finalizePythonRunHandoff erases the run value.
Settle ==
  /\ pc = "settle"
  /\ owed' = None /\ pc' = "idle"
  /\ UNCHANGED <<card, ram, op, history, disturbances>>

-----------------------------------------------------------------------------
(* Tool runs                                                               *)

\* Mutant: a prompt does not look either.
MayAlwaysStart(caller) == TRUE
\* A record of pending_tool_call stays until the run value is gone, and every
\* prompt is refused while there is one.  TOOLTEST does not look.
MayStart(caller) == caller = "prompt" => owed = None

\* startToolActivity up to its first effect; it initializes the journal
\* if startup could not.
Start(caller, tool) ==
  /\ pc = "idle" /\ active = None
  /\ caller \in Callers /\ MayStart(caller)
  /\ caller = "toolTest" => tool # Python
  /\ initialized \/ Reads
  /\ LET number == IF initialized THEN next ELSE Highest + 1 IN
     /\ number <= MaxSequence
     /\ next' = number
     /\ Begin("start", [seq |-> number, tool |-> tool, status |-> "running"])
  /\ initialized' = TRUE
  /\ UNCHANGED <<card, active, owed, history, disturbances>>

\* The tool ends in this boot: finishToolActivity.  For python_run, staging
\* failed or was cancelled.
Finish(status) ==
  /\ pc = "dispatch" /\ status \in Outcomes
  /\ active.tool = Python => status # "succeeded"
  /\ Begin("finish", [active EXCEPT !.status = status])
  /\ UNCHANGED <<card, ram, owed, history, disturbances>>

\* stagePythonRun has stored the run value and the device restarts, into
\* MicroPython and back.  status is what the recovery will find.
HandOff(status) ==
  /\ pc = "dispatch" /\ active.tool = Python
  /\ status \in {"succeeded", "failed"} \cap Outcomes
  /\ owed' = [active EXCEPT !.status = status]
  /\ active' = None /\ initialized' = FALSE /\ next' = 1
  /\ pc' = "boot"
  /\ UNCHANGED <<card, op, history, disturbances>>

\* Mutant: the run is ended as cancelled although a run value may exist.
HandOffAmbiguousCanceled ==
  /\ pc = "dispatch" /\ active.tool = Python /\ Disturbed
  /\ owed' = [active EXCEPT !.status = "failed"]
  /\ Begin("finish", [active EXCEPT !.status = "canceled"])
  /\ UNCHANGED <<card, ram, history>>
\* Storing the run value reported a failure but took place: the run is ended
\* as failed, and the value is left to the next startup.
HandOffAmbiguous ==
  /\ pc = "dispatch" /\ active.tool = Python /\ Disturbed
  /\ owed' = [active EXCEPT !.status = "failed"]
  /\ Begin("finish", [active EXCEPT !.status = "failed"])
  /\ UNCHANGED <<card, ram, history>>

-----------------------------------------------------------------------------
(* appendActivity                                                          *)

Remove ==
  /\ pc = "remove"
  /\ previous' = Empty /\ pc' = "rename"
  /\ UNCHANGED <<current, ram, owed, op, history, disturbances>>

Rename ==
  /\ pc = "rename"
  /\ previous' = current /\ current' = Empty /\ pc' = "append"
  /\ UNCHANGED <<ram, owed, op, history, disturbances>>

\* FILE_APPEND continues behind the last byte.
Appended ==
  [lines |-> Append(current.lines, IF current.torn THEN Garbled ELSE op.line),
   torn |-> FALSE]
Cut == [current EXCEPT !.torn = TRUE]

\* The caller goes on with success.
Succeed ==
  /\ op' = None
  /\ CASE op.kind = "start" ->
            /\ active' = op.line /\ next' = next + 1 /\ pc' = "dispatch"
            /\ begun' = begun \cup {op.line.seq}
            /\ ended' = {e \in ended : e.seq # op.line.seq}
       [] op.kind = "finish" ->
            /\ active' = None /\ pc' = "idle" /\ UNCHANGED <<next, begun>>
            /\ ended' = ended \cup {op.line}
       [] op.kind = "recover" ->
            /\ pc' = "settle" /\ UNCHANGED <<active, next, begun>>
            /\ ended' = ended \cup {op.line}
  /\ UNCHANGED <<initialized, owed, previous>>

AppendLine ==
  /\ pc = "append"
  /\ current' = Appended
  /\ Succeed
  /\ UNCHANGED <<faulted, disturbances>>

\* All calls reported success, the card has part of the line.
AppendShort ==
  /\ pc = "append" /\ "shortFlush" \in Faults /\ Disturbed
  /\ current' = Cut /\ faulted' = faulted \cup {"shortFlush"}
  /\ Succeed

\* Part of the line is written.
Tear ==
  /\ pc = "append" /\ "tornAppend" \in Faults
  /\ current' = Cut /\ faulted' = faulted \cup {"tornAppend"}

\* A call is refused.  finishToolActivity gives up the active run all the same.
AppendRefused ==
  /\ Writing /\ Disturbed
  /\ UNCHANGED <<current, faulted>> \/ Tear
  /\ active' = IF op.kind = "finish" THEN None ELSE active
  /\ op' = None /\ pc' = "idle"
  /\ UNCHANGED <<previous, next, initialized, owed, begun, ended>>

-----------------------------------------------------------------------------
Crash ==
  /\ Disturbed
  /\ UNCHANGED <<current, faulted>> \/ Tear
  /\ active' = None /\ initialized' = FALSE /\ next' = 1
  /\ op' = None /\ pc' = "boot"
  /\ UNCHANGED <<previous, owed, begun, ended>>

\* The user restarts the device.
Restart ==
  /\ pc = "idle"
  /\ active' = None /\ initialized' = FALSE /\ next' = 1
  /\ pc' = "boot"
  /\ UNCHANGED <<card, owed, op, history, disturbances>>

Startup == Initialize \/ Recover \/ Settle
Write == Remove \/ Rename \/ AppendLine

Next ==
  \/ Startup \/ StartupRefused
  \/ \E caller \in Caller, tool \in Tool : Start(caller, tool)
  \/ \E status \in Terminal : Finish(status) \/ HandOff(status)
  \/ HandOffAmbiguous
  \/ Write \/ AppendShort \/ AppendRefused
  \/ Crash \/ Restart

Spec == Init /\ [][Next]_vars

\* The firmware's loop takes its next step; a user whose prompts are refused
\* restarts.  disturbances is bounded, so they end.
FairSpec ==
  /\ Spec
  /\ WF_vars(Startup) /\ WF_vars(Write)
  /\ WF_vars(\E status \in Terminal : Finish(status) \/ HandOff(status))
  /\ WF_vars(Restart /\ owed # None)

-----------------------------------------------------------------------------
(* Properties                                                              *)

\* Every reader accepts the journal, through every rotation and reset: each
\* line parses, numbers never fall, and no number has conflicting lines
\* (readJournal, foldRecentActivities).  Otherwise no tool can start any more.
JournalReads == Reads /\ Ordered(Journal)

\* Each attempt of the startup to write the last line of a run that NVS names
\* is accepted, however many attempts were cut off before.
OwedFinishAccepted == pc = "recover" => Finishable(owed)
\* So it is as long as no line was cut.
WholeFinishAccepted == faulted = {} => OwedFinishAccepted

\* A run whose end was reported as written, and not cut behind that report, is
\* shown with exactly that end or no longer; never as interrupted, never as
\* another end.
ShownAsEnded ==
  "shortFlush" \notin faulted =>
    \A e \in ended, s \in Shown : s.seq = e.seq => s = e

\* The last Keep runs are shown, also between the steps of a rotation, if no
\* line was cut.  The sizes of the code are chosen for it: a file holds two
\* lines for each.
RecentShown ==
  faulted = {} =>
    \A n \in begun :
      Cardinality({m \in begun : m > n}) < Keep => \E s \in Shown : s.seq = n

\* A run value is in the end settled, so the pending record can go, if no line
\* was cut.
OwedIsSettled == owed # None ~> owed = None \/ faulted # {}

-----------------------------------------------------------------------------
(* The inductive invariant behind JournalReads                             *)

StepInv ==
  /\ op # None <=> Writing
  /\ pc = "rename" => previous = Empty
  /\ pc = "append" => Fits
  /\ pc \in {"recover", "settle"} => owed # None /\ initialized
  /\ pc \in {"boot", "recover", "settle", "idle"} => active = None
  /\ pc = "dispatch" => active # None /\ owed = None

\* What is about to be written, by who writes it.
OpInv ==
  op # None =>
    /\ op.kind = "start" =>
         /\ initialized /\ owed = None /\ active = None
         /\ op.line.seq = next /\ op.line.status = "running"
    /\ op.kind # "start" => op.line.seq < next /\ op.line.seq > 0
    /\ op.kind = "recover" => op.line = owed /\ active = None /\ initialized
    /\ op.kind = "finish" => owed = None \/ owed.seq = op.line.seq
    /\ \A e \in Lines(Journal) : Follows(e, op.line)

\* The active run has at most its running line, and it is the last number.
ActiveIsLast ==
  active # None =>
    /\ active.status = "running" /\ 0 < active.seq /\ active.seq < next
    /\ pc = "dispatch" => \A status \in Terminal, e \in Lines(Journal) :
                            Follows(e, [active EXCEPT !.status = status])

\* A number that is about to be given is higher than every one on the card.
NextIsFresh ==
  initialized => next > 0 /\ \A e \in Lines(Journal) : e.seq < next

\* Nothing was started behind a run whose end is owed.
OwedIsLast ==
  owed # None =>
    /\ owed.tool = Python /\ owed.status \in Terminal /\ owed.seq > 0
    /\ \A e \in Lines(Journal) : e.seq <= owed.seq

IInv ==
  TypeOK /\ JournalReads /\ StepInv /\ OpInv /\ ActiveIsLast /\ NextIsFresh
  /\ OwedIsLast
-----------------------------------------------------------------------------
(* The inductive invariant behind WholeFinishAccepted: as long as faulted = {} *)

LastIs(line) == Journal # << >> /\ Journal[Len(Journal)] = line

\* The line that will need its end is the last one of the journal, so a
\* rotation cannot drop it: a file is only rotated when it is full.
RotatesFull == ~current.torn /\ (pc = "remove" => ~Fits)

ActiveAtEnd == active # None => LastIs(active)

OpAtEnd ==
  /\ op # None /\ op.kind = "finish" =>
       active # None /\ owed \in {None, op.line} /\ Running(op.line) = active
  /\ op # None /\ op.kind = "recover" => LastIs(Running(owed))

OwedAtEnd ==
  owed # None =>
    /\ Running(owed) \in Lines(Journal)
    /\ LastIs(owed) \/ LastIs(Running(owed))

WholeInv == RotatesFull /\ ActiveAtEnd /\ OpAtEnd /\ OwedAtEnd
=============================================================================
