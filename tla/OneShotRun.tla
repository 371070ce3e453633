----------------------------- MODULE OneShotRun -----------------------------
(***************************************************************************)
(* One approved Python script, from the confirmation in CardMind to the    *)
(* assistant message that reports it.  Two firmware images share the       *)
(* device and never run together: CardMind (tool_router.cpp,               *)
(* python_mode.cpp, CardputerAssistant.ino) and MicroPython with           *)
(* cardmind_supervisor.py.  They communicate only through what survives a  *)
(* reset: the pending tool call on the microSD card, four fixed request    *)
(* and result files beside it, the NVS value cardmind_py/run, the NVS      *)
(* marker open_web and the selected boot partition.                        *)
(*                                                                         *)
(* pc is the next durable effect of whichever image is running; "off" is   *)
(* the instant between two boots.  A reset (Crash) may fall between any    *)
(* two effects, and any call may be refused; both are counted in           *)
(* disturbances so that liveness can assume finitely many of them.         *)
(***************************************************************************)
EXTENDS Integers, Sequences

CONSTANTS Call,            \* pending tool call ids, each a python_run call
          Source,          \* versions of the script file in the workspace
          Absent,          \* no such file, no such call
          Torn,            \* a file that is not one complete document
          MaxDisturbances  \* bound on resets and refusals

ASSUME CallAssumption ==
  /\ Absent \notin Call \cup Source
  /\ Torn \notin Call \cup {Absent}
\* A result that does not exist is not mistaken for one.
ASSUME ResultAssumption == Absent \notin {"exit0", "exit1"}
ASSUME DisturbancesAssumption == MaxDisturbances \in Nat

VARIABLES
  pend,        \* pending_tool.json: id, state, message count it was frozen at
  frozen,      \* script version (size and SHA-256) frozen in each call's record
  approvable,  \* resumablePendingIdThisBoot
  run,         \* NVS cardmind_py/run: state, id, return surface
  sd,          \* the four fixed request and result files
  openWeb,     \* NVS cardmind_py/open_web
  boot,        \* the selected boot partition
  audit,       \* journal of tool activities: the event last recorded per call
  chat,        \* the originating chat's history
  source,      \* the script file's current version
  pc,          \* the next effect
  exit,        \* content of a call's result document
  launches,    \* how many times each call's script was started
  disturbances

durable == <<pend, frozen, run, sd, openWeb, boot, audit, chat, source>>
history == <<exit, launches>>
vars == <<pend, frozen, approvable, run, sd, openWeb, boot, audit, chat,
          source, pc, exit, launches, disturbances>>

Artifacts == {"requestTmp", "request", "resultTmp", "result"}

NoPending == [id |-> Absent, state |-> "none", count |-> 0]
NoRun == [state |-> "none", id |-> Absent, surface |-> "device"]

Outcomes == {"exit0", "exit1"}
\* The assistant messages the startup code attaches.
RecoveryTexts == Outcomes \cup {"beforeStaging", "beforeExecution",
                                "effectsUnknown", "invalidResult"}
Texts == RecoveryTexts \cup {"prompt", "reply"}

CardMindSteps == {"startup", "attach", "finalize", "erase", "startupClear",
  "startupClean", "ready", "prepare", "audit", "request", "commitRequest",
  "persist", "select", "reply", "clear"}
PythonSteps == {"supervisor", "claim", "execute", "writeResult",
  "publishResult", "complete"}

PendingRecord == [id : Call \cup {Absent}, count : Nat,
                  state : {"none", "awaiting", "claimed", "denied"}]
RunValue == [state : {"none", "pending", "claimed", "complete"},
             id : Call \cup {Absent}, surface : {"device", "web"}]
ArtifactState == [Artifacts -> Call \cup {Absent, Torn}]
ChatMessage == [text : Texts, about : Call]

TypeOK ==
  /\ pend \in PendingRecord
  /\ frozen \in [Call -> Source \cup {Absent}]
  /\ approvable \in Call \cup {Absent}
  /\ run \in RunValue
  /\ sd \in ArtifactState
  /\ openWeb \in {0, 1}
  /\ boot \in {"cardmind", "python"}
  /\ audit \in [Call -> {"none", "running", "failed", "canceled"}
                          \cup Outcomes]
  /\ chat \in Seq(ChatMessage)
  /\ source \in Source
  /\ pc \in {"off"} \cup CardMindSteps \cup PythonSteps
  /\ exit \in [Call -> Outcomes \cup {Absent}]
  /\ launches \in [Call -> Nat]
  /\ disturbances \in 0..MaxDisturbances

Init ==
  /\ pend = NoPending
  /\ frozen = [i \in Call |-> Absent]
  /\ approvable = Absent
  /\ run = NoRun
  /\ sd = [a \in Artifacts |-> Absent]
  /\ openWeb = 0
  /\ boot = "cardmind"
  /\ audit = [i \in Call |-> "none"]
  /\ chat = << >>
  /\ source \in Source
  /\ pc = "off"
  /\ exit = [i \in Call |-> Absent]
  /\ launches = [i \in Call |-> 0]
  /\ disturbances = 0

-----------------------------------------------------------------------------
(* Shared vocabulary *)

Disturbed ==
  /\ disturbances < MaxDisturbances
  /\ disturbances' = disturbances + 1

\* storePendingToolCall replaces the record and may still report an error; the
\* handler then stops, and a new record is not resumable in this boot.
Stored(i, next) ==
  \/ pc' = next /\ approvable' = i /\ UNCHANGED disturbances
  \/ pc' = "ready" /\ UNCHANGED approvable /\ Disturbed

Message(text, i) == [text |-> text, about |-> i]

\* cleanupPythonRunArtifacts removes in this order and stops at a refusal, so
\* it leaves the card with some number of the files removed.
CleanupOrder == <<"requestTmp", "request", "resultTmp", "result">>
Removed(n) ==
  [a \in Artifacts |-> IF \E k \in 1..n : CleanupOrder[k] = a
                       THEN Absent ELSE sd[a]]

\* validateCurrentPendingIdentity: the chat has not moved and the script is
\* still the version that was shown for approval.
IdentityCurrent == /\ Len(chat) = pend.count
                   /\ source = frozen[pend.id]

\* buildPendingToolCall freezes the target and the chat position.
Awaiting(i) == [id |-> i, state |-> "awaiting", count |-> Len(chat)]

-----------------------------------------------------------------------------
(* CardMind: conversation and confirmation *)

\* The user's prompt is stored, the model asks for python_run and the call is
\* saved for confirmation.  A prompt is refused while any record exists.
Ask(i) ==
  /\ pc = "ready" /\ pend = NoPending /\ frozen[i] = Absent
  /\ chat' = Append(chat, Message("prompt", i))
  /\ pend' = [Awaiting(i) EXCEPT !.count = Len(chat) + 1]
  /\ frozen' = [frozen EXCEPT ![i] = source]
  /\ Stored(i, "ready")
  /\ UNCHANGED <<run, sd, openWeb, boot, audit, source, history>>

\* The user edits the script or empties the chat, in CardMind.
EditSource(v) ==
  /\ pc = "ready" /\ v # source
  /\ source' = v
  /\ UNCHANGED <<pend, frozen, approvable, run, sd, openWeb, boot, audit,
                 chat, pc, history, disturbances>>

ClearHistory ==
  /\ pc = "ready" /\ chat # << >>
  /\ chat' = << >>
  /\ UNCHANGED <<pend, frozen, approvable, run, sd, openWeb, boot, audit,
                 source, pc, history, disturbances>>

\* claimPendingToolCallApproval: only what was asked in this boot, of a chat and
\* a script that have not changed since.
Approve ==
  /\ pc = "ready" /\ pend.state = "awaiting"
  /\ approvable = pend.id
  /\ IdentityCurrent
  /\ pend' = [pend EXCEPT !.state = "claimed"]
  /\ Stored(pend.id, "prepare")
  /\ UNCHANGED <<frozen, run, sd, openWeb, boot, audit, chat,
                 source, history>>

Deny ==
  /\ pc = "ready" /\ pend.state = "awaiting"
  /\ approvable = pend.id /\ Len(chat) = pend.count
  /\ pend' = [pend EXCEPT !.state = "denied"]
  /\ Stored(pend.id, "reply")
  /\ UNCHANGED <<frozen, run, sd, openWeb, boot, audit, chat,
                 source, history>>

\* handlePendingAcknowledge, acknowledgeInterruptedPendingTool: a call that can
\* still be decided, and a claimed python_run, cannot be acknowledged away.
Acknowledge ==
  /\ pc = "ready"
  /\ \/ pend.state = "denied"
     \/ pend.state = "awaiting" /\ ~(approvable = pend.id /\ IdentityCurrent)
  /\ pend' = NoPending
  /\ approvable' = IF approvable = pend.id THEN Absent ELSE approvable
  /\ UNCHANGED <<frozen, run, sd, openWeb, boot, audit, chat, source, pc,
                 history, disturbances>>

-----------------------------------------------------------------------------
(* CardMind: approvePendingProjectToolCall and stagePythonRun *)

StageStep(from, to) == pc = from /\ pc' = to

\* Revalidation and preparePythonRunStaging.
Prepare ==
  /\ StageStep("prepare", "audit")
  /\ IdentityCurrent
  /\ run.state = "none"
  /\ sd' = Removed(4)
  /\ UNCHANGED <<pend, frozen, approvable, run, openWeb, boot, audit, chat,
                 source, history, disturbances>>

\* A refused revalidation answers the model; a refused preparation stops.
PrepareRefused ==
  /\ pc = "prepare" /\ Disturbed
  /\ \/ pc' = "reply" /\ UNCHANGED sd
     \/ pc' = "ready" /\ \E n \in 0..3 : sd' = Removed(n)
  /\ UNCHANGED <<pend, frozen, approvable, run, openWeb, boot, audit, chat,
                 source, history>>

StartAudit ==
  /\ StageStep("audit", "request")
  /\ audit' = [audit EXCEPT ![pend.id] = "running"]
  /\ UNCHANGED <<pend, frozen, approvable, run, sd, openWeb, boot, chat,
                 source, history, disturbances>>

StartAuditRefused ==
  /\ StageStep("audit", "reply") /\ Disturbed
  /\ UNCHANGED <<durable, approvable, history>>

WriteRequest ==
  /\ StageStep("request", "commitRequest")
  /\ sd' = [sd EXCEPT !["requestTmp"] = pend.id]
  /\ UNCHANGED <<pend, frozen, approvable, run, openWeb, boot, audit, chat,
                 source, history, disturbances>>

CommitRequest ==
  /\ StageStep("commitRequest", "persist")
  /\ sd["request"] = Absent
  /\ sd' = [sd EXCEPT !["request"] = sd["requestTmp"],
                      !["requestTmp"] = Absent]
  /\ UNCHANGED <<pend, frozen, approvable, run, openWeb, boot, audit, chat,
                 source, history, disturbances>>

\* writeRunBlob: the last effect before another image may act on the request.
PersistRun(surface) ==
  /\ StageStep("persist", "select")
  /\ run' = [state |-> "pending", id |-> pend.id, surface |-> surface]
  /\ UNCHANGED <<pend, frozen, approvable, sd, openWeb, boot, audit, chat,
                 source, history, disturbances>>

\* esp_ota_set_boot_partition, then the restart that ends the handler.
SelectPython ==
  /\ StageStep("select", "off")
  /\ boot' = "python"
  /\ approvable' = Absent
  /\ UNCHANGED <<pend, frozen, run, sd, openWeb, audit, chat, source,
                 history, disturbances>>

\* Mutant: the cancellation latch is read after writeRunBlob.
CancelAfterPersist ==
  /\ StageStep("select", "reply")
  /\ sd' = [sd EXCEPT !["requestTmp"] = Absent, !["request"] = Absent]
  /\ audit' = [audit EXCEPT ![pend.id] = "canceled"]
  /\ UNCHANGED <<pend, frozen, approvable, run, openWeb, boot, chat, source,
                 history, disturbances>>

\* The user cancels before anything was staged, or at the latch before
\* writeRunBlob, where the request is removed again.  The journal may refuse the
\* event, and the card the removal.
Cancel ==
  LET removed == [sd EXCEPT !["requestTmp"] = Absent, !["request"] = Absent]
      canceled == [audit EXCEPT ![pend.id] = "canceled"] IN
  /\ pc \in {"request", "persist"}
  /\ \/ /\ pc' = "reply" /\ sd' = removed /\ audit' = canceled
        /\ UNCHANGED disturbances
     \/ /\ Disturbed
        /\ \/ pc' = "reply" /\ sd' = removed
           \/ pc = "persist" /\ pc' = "ready" /\ UNCHANGED sd
        /\ audit' \in {audit, canceled}
  /\ UNCHANGED <<pend, frozen, approvable, run, openWeb, boot, chat, source,
                 history>>

\* finishToolActivity records the failure, unless the journal refuses it too.
AuditFailure == audit' \in {audit, [audit EXCEPT ![pend.id] = "failed"]}

\* A failure that left nothing behind answers the model; one that may have left
\* the request or the run value stops and leaves both to the next startup.
StagingRefused ==
  /\ Disturbed
  /\ \/ /\ pc = "request"
        /\ \/ pc' = "reply" /\ UNCHANGED sd
           \/ pc' = "ready" /\ sd' = [sd EXCEPT !["requestTmp"] = Torn]
        /\ UNCHANGED run
     \/ /\ pc = "commitRequest"
        /\ sd' \in {sd, [sd EXCEPT !["requestTmp"] = Absent]}
        /\ pc' = "ready"
        /\ UNCHANGED run
     \/ /\ pc = "persist"
        /\ \E s \in {"device", "web"} :
             run' \in {run, [state |-> "pending", id |-> pend.id,
                             surface |-> s]}
        /\ pc' = "ready"
        /\ UNCHANGED sd
     \/ /\ pc = "select"
        /\ \/ pc' = "reply" /\ run' = NoRun /\ sd' = Removed(4)
           \/ pc' = "ready" /\ run' = NoRun /\ \E n \in 0..3 : sd' = Removed(n)
           \/ pc' = "ready" /\ UNCHANGED <<run, sd>>
  /\ AuditFailure
  /\ UNCHANGED <<pend, frozen, approvable, openWeb, boot, chat, source,
                 history>>

-----------------------------------------------------------------------------
(* CardMind: continuePendingToolDecision, continueWebPendingDecision *)

\* The model answers the failed or denied tool call.
Reply ==
  /\ StageStep("reply", "clear")
  /\ Len(chat) = pend.count
  /\ chat' = Append(chat, Message("reply", pend.id))
  /\ UNCHANGED <<pend, frozen, approvable, run, sd, openWeb, boot, audit,
                 source, history, disturbances>>

\* The model asks for another script: the terminal record is replaced.
ReplaceTerminal(j) ==
  /\ pc = "reply"
  /\ approvable = pend.id /\ frozen[j] = Absent
  /\ pend' = Awaiting(j)
  /\ frozen' = [frozen EXCEPT ![j] = source]
  /\ Stored(j, "ready")
  /\ UNCHANGED <<run, sd, openWeb, boot, audit, chat, source, history>>

\* No answer, or the chat cannot be read or written: the record stays.
ReplyRefused ==
  /\ StageStep("reply", "ready") /\ Disturbed
  /\ UNCHANGED <<durable, approvable, history>>

ClearPending ==
  /\ StageStep("clear", "ready")
  /\ pend' = NoPending
  /\ approvable' = Absent
  /\ UNCHANGED <<frozen, run, sd, openWeb, boot, audit, chat, source, history,
                 disturbances>>

ClearRefused ==
  /\ StageStep("clear", "ready") /\ Disturbed
  /\ UNCHANGED <<durable, approvable, history>>

-----------------------------------------------------------------------------
(* Resets and the manual Python workspace *)

Boot ==
  /\ pc = "off"
  /\ pc' = IF boot = "python" THEN "supervisor" ELSE "startup"
  /\ UNCHANGED <<durable, approvable, history, disturbances>>

\* The user restarts the device from an idle screen.
PowerCycle ==
  /\ StageStep("ready", "off")
  /\ approvable' = Absent
  /\ UNCHANGED <<durable, history, disturbances>>

\* Mutant: the workspace opens although a run value exists.
EnterManualPythonAlways ==
  /\ StageStep("ready", "off")
  /\ boot' = "python"
  /\ approvable' = Absent
  /\ UNCHANGED <<pend, frozen, run, sd, openWeb, audit, chat, source, history,
                 disturbances>>

\* activatePythonMode, refused while a run value exists.
EnterManualPython ==
  /\ StageStep("ready", "off")
  /\ run.state = "none"
  /\ boot' = "python"
  /\ approvable' = Absent
  /\ UNCHANGED <<pend, frozen, run, sd, openWeb, audit, chat, source, history,
                 disturbances>>

\* acknowledgePythonHandoffRequest, once the Web Console listens again.
AcknowledgeWeb ==
  /\ pc = "ready" /\ openWeb = 1
  /\ openWeb' = 0
  /\ UNCHANGED <<pend, frozen, approvable, run, sd, boot, audit, chat, source,
                 pc, history, disturbances>>

\* A reset between two effects.  The script may have been started by then.
Crash ==
  /\ pc # "off" /\ Disturbed
  /\ pc' = "off"
  /\ approvable' = Absent
  /\ UNCHANGED <<durable, history>>

-----------------------------------------------------------------------------
(* MicroPython: cardmind_supervisor.start *)

\* Without a run value this is the manual workspace: scripts are edited there
\* and its console returns to the Web Console of CardMind.
EditInPython(v) ==
  /\ pc = "supervisor" /\ run.state = "none" /\ v # source
  /\ source' = v
  /\ UNCHANGED <<pend, frozen, approvable, run, sd, openWeb, boot, audit,
                 chat, pc, history, disturbances>>

\* The console's way back; also the whole handling of a run value that is not
\* pending, which is never executed.
LeavePython ==
  /\ StageStep("supervisor", "off")
  /\ run.state # "pending"
  /\ openWeb' = IF run.state = "none" THEN 1 ELSE openWeb
  /\ boot' = "cardmind"
  /\ UNCHANGED <<pend, frozen, approvable, run, sd, audit, chat, source,
                 history, disturbances>>

\* Mutants: the script is executed before set_boot and the claim; CardMind is
\* not selected.
ExecuteBeforeClaim ==
  /\ StageStep("supervisor", "execute")
  /\ run.state = "pending"
  /\ UNCHANGED <<durable, approvable, history, disturbances>>

ClaimWithoutPreselect ==
  /\ StageStep("supervisor", "claim")
  /\ run.state = "pending"
  /\ UNCHANGED <<durable, approvable, history, disturbances>>

\* _execute_one_shot selects CardMind before anything else ...
PreselectCardMind ==
  /\ StageStep("supervisor", "claim")
  /\ run.state = "pending"
  /\ boot' = "cardmind"
  /\ UNCHANGED <<pend, frozen, approvable, run, sd, openWeb, audit, chat,
                 source, history, disturbances>>

\* ... and makes the claim durable before it looks at the request.
Claim ==
  /\ StageStep("claim", "execute")
  /\ run' = [run EXCEPT !.state = "claimed"]
  /\ UNCHANGED <<pend, frozen, approvable, sd, openWeb, boot, audit, chat,
                 source, history, disturbances>>

\* _strict_request: the exact request and the exact approved bytes.
RequestValid == sd["request"] = run.id /\ source = frozen[run.id]

\* exec of the script; an invalid request becomes a failed result instead.
Execute ==
  /\ StageStep("execute", "writeResult")
  /\ IF RequestValid
     THEN /\ launches' = [launches EXCEPT ![run.id] = @ + 1]
          /\ \E e \in Outcomes : exit' = [exit EXCEPT ![run.id] = e]
     ELSE /\ exit' = [exit EXCEPT ![run.id] = "exit1"]
          /\ UNCHANGED launches
  /\ UNCHANGED <<durable, approvable, disturbances>>

\* The request or the script cannot be read back: a failed result, no launch.
ExecuteRefused ==
  /\ StageStep("execute", "writeResult") /\ Disturbed
  /\ exit' = [exit EXCEPT ![run.id] = "exit1"]
  /\ UNCHANGED <<durable, approvable, launches>>

\* The watchdog or a power loss ends the script.
Interrupt ==
  /\ StageStep("execute", "off") /\ Disturbed
  /\ RequestValid
  /\ launches' = [launches EXCEPT ![run.id] = @ + 1]
  /\ UNCHANGED <<durable, approvable, exit>>

\* _persist_result needs both result names free.
WriteResult ==
  /\ StageStep("writeResult", "publishResult")
  /\ sd["resultTmp"] = Absent /\ sd["result"] = Absent
  /\ sd' = [sd EXCEPT !["resultTmp"] = run.id]
  /\ UNCHANGED <<pend, frozen, approvable, run, openWeb, boot, audit, chat,
                 source, history, disturbances>>

PublishResult ==
  /\ StageStep("publishResult", "complete")
  /\ sd' = [sd EXCEPT !["result"] = sd["resultTmp"],
                      !["resultTmp"] = Absent]
  /\ UNCHANGED <<pend, frozen, approvable, run, openWeb, boot, audit, chat,
                 source, history, disturbances>>

\* The result's hash goes into the run value last; then the reset.
CompleteRun ==
  /\ StageStep("complete", "off")
  /\ run' = [run EXCEPT !.state = "complete"]
  /\ UNCHANGED <<pend, frozen, approvable, sd, openWeb, boot, audit, chat,
                 source, history, disturbances>>

\* An exception, perhaps after the effect took place: boot.py selects CardMind
\* and resets.
SupervisorRefused ==
  /\ pc \in PythonSteps /\ Disturbed
  /\ run' \in CASE pc = "claim" -> {run, [run EXCEPT !.state = "claimed"]}
                [] pc = "complete" -> {run, [run EXCEPT !.state = "complete"]}
                [] OTHER -> {run}
  /\ sd' \in IF pc = "writeResult"
            THEN {sd, [sd EXCEPT !["resultTmp"] = Torn]} ELSE {sd}
  /\ boot' = "cardmind"
  /\ pc' = "off"
  /\ UNCHANGED <<pend, frozen, approvable, openWeb, audit, chat, source,
                 history>>

-----------------------------------------------------------------------------
(* CardMind: consumePythonRunAtStartup *)

RunFound == run.state # "none"

\* Mutant: a claimed run is taken for one that never started.
ClaimedTextOptimistic ==
  CASE run.state \in {"pending", "claimed"} -> "beforeExecution"
    [] run.state = "complete" ->
         IF sd["result"] = run.id THEN exit[run.id] ELSE "invalidResult"
    [] OTHER -> "none"

\* loadPythonRunRecovery: what the run value says happened.
AttachedText ==
  CASE run.state = "pending" -> "beforeExecution"
    [] run.state = "claimed" -> "effectsUnknown"
    [] run.state = "complete" ->
         IF sd["result"] = run.id THEN exit[run.id] ELSE "invalidResult"
    [] OTHER -> "none"

DetachedResult ==
  /\ ~RunFound
  /\ sd["request"] # Absent /\ sd["result"] # Absent
  /\ sd["requestTmp"] = Absent /\ sd["resultTmp"] = Absent

\* A request another call left behind, read as if it were this record's.
ForeignRequest ==
  /\ ~RunFound
  /\ sd["request"] \notin {Absent, pend.id}
  /\ sd["requestTmp"] = Absent /\ sd["resultTmp"] = Absent

\* Result files that no run value and no matching request explain.
Unexplained ==
  /\ ~RunFound /\ ~DetachedResult
  /\ sd["result"] # Absent \/ sd["resultTmp"] # Absent

\* The assistant message this startup attaches or expects to find attached.
RecoveryText ==
  CASE RunFound -> AttachedText
    [] DetachedResult -> IF sd["result"] = pend.id THEN exit[pend.id]
                                                   ELSE "invalidResult"
    [] Unexplained -> "none"
    [] OTHER -> "beforeStaging"

\* finishPersistedToolActivity's terminal event for that message.
Terminal(text) == IF text \in Outcomes THEN text ELSE "failed"

\* Without a claimed python_run there is nothing to attach: a run value or
\* files left by an earlier cleanup are removed, or reported if a newer call
\* is waiting.
StartupWithoutClaim ==
  /\ StageStep("startup", "ready")
  /\ pend.state # "claimed"
  /\ IF pend.state = "none"
     THEN run' = NoRun /\ sd' = Removed(4)
     ELSE UNCHANGED <<run, sd>>
  /\ UNCHANGED <<pend, frozen, approvable, openWeb, boot, audit, chat, source,
                 history, disturbances>>

\* Mutant: an activity already finished by an earlier boot is an error.
UnrecoverableWhenFinished ==
  \/ RunFound /\ run.id # pend.id
  \/ ForeignRequest \/ Unexplained
  \/ (RunFound \/ DetachedResult) /\ audit[pend.id] # "running"

\* The run value or the files cannot be explained by this record, or its
\* activity was already finished differently.
Unrecoverable ==
  \/ RunFound /\ run.id # pend.id
  \/ ForeignRequest \/ Unexplained
  \/ /\ RunFound \/ DetachedResult
     /\ audit[pend.id] \notin {"running", Terminal(RecoveryText)}

StartupRejects ==
  /\ StageStep("startup", "ready")
  /\ pend.state = "claimed" /\ Unrecoverable
  /\ UNCHANGED <<durable, approvable, history, disturbances>>

\* The persisted activity is finished first, idempotently.
StartupAudit ==
  /\ StageStep("startup", "attach")
  /\ pend.state = "claimed" /\ ~Unrecoverable
  /\ audit' = IF RunFound \/ DetachedResult
              THEN [audit EXCEPT ![pend.id] = Terminal(RecoveryText)]
              ELSE audit
  /\ UNCHANGED <<pend, frozen, approvable, run, sd, openWeb, boot, chat,
                 source, history, disturbances>>

\* Mutant: the chat position is not compared before appending.
AttachableAnywhere == ~DetachedResult
Attachable == Len(chat) = pend.count /\ ~DetachedResult
AlreadyAttached ==
  /\ Len(chat) = pend.count + 1
  /\ chat[Len(chat)].text = RecoveryText

Attach ==
  /\ StageStep("attach", "finalize")
  /\ \/ /\ Attachable
        /\ chat' = Append(chat, Message(RecoveryText, pend.id))
     \/ AlreadyAttached /\ UNCHANGED chat
  /\ UNCHANGED <<pend, frozen, approvable, run, sd, openWeb, boot, audit,
                 source, history, disturbances>>

\* "Originating chat history does not match the exact Python result"
AttachRejects ==
  /\ StageStep("attach", "ready")
  /\ ~Attachable /\ ~AlreadyAttached
  /\ UNCHANGED <<durable, approvable, history, disturbances>>

FinalizeForgetsWeb ==
  /\ StageStep("finalize", "erase")
  /\ UNCHANGED <<durable, approvable, history, disturbances>>

\* finalizePythonRunHandoff: the Web return marker first, then the run value.
MarkWebReturn ==
  /\ StageStep("finalize", "erase")
  /\ openWeb' = IF RunFound /\ run.surface = "web" THEN 1 ELSE openWeb
  /\ UNCHANGED <<pend, frozen, approvable, run, sd, boot, audit, chat, source,
                 history, disturbances>>

EraseRun ==
  /\ StageStep("erase", "startupClear")
  /\ run' = NoRun
  /\ UNCHANGED <<pend, frozen, approvable, sd, openWeb, boot, audit, chat,
                 source, history, disturbances>>

StartupClear ==
  /\ StageStep("startupClear", "startupClean")
  /\ pend' = NoPending
  /\ UNCHANGED <<frozen, approvable, run, sd, openWeb, boot, audit, chat,
                 source, history, disturbances>>

StartupClean ==
  /\ StageStep("startupClean", "ready")
  /\ sd' = Removed(4)
  /\ UNCHANGED <<pend, frozen, approvable, run, openWeb, boot, audit, chat,
                 source, history, disturbances>>

\* A refused effect ends the startup work; the next boot tries again.
StartupRefused ==
  /\ pc \in {"startup", "attach", "finalize", "erase", "startupClear",
             "startupClean"}
  /\ Disturbed
  /\ sd' \in IF pc = "startupClean" \/ (pc = "startup" /\ pend = NoPending)
             THEN {Removed(n) : n \in 0..3} ELSE {sd}
  /\ pc' = "ready"
  /\ UNCHANGED <<pend, frozen, approvable, run, openWeb, boot, audit, chat,
                 source, history>>

-----------------------------------------------------------------------------
Conversation ==
  \/ \E i \in Call : Ask(i)
  \/ \E v \in Source : EditSource(v) \/ EditInPython(v)
  \/ ClearHistory
  \/ Approve
  \/ Deny
  \/ Acknowledge
  \/ PowerCycle
  \/ EnterManualPython
  \/ AcknowledgeWeb

Staging ==
  \/ Prepare \/ PrepareRefused
  \/ StartAudit \/ StartAuditRefused
  \/ WriteRequest
  \/ CommitRequest
  \/ \E s \in {"device", "web"} : PersistRun(s)
  \/ SelectPython
  \/ Cancel
  \/ StagingRefused

Continuation ==
  \/ Reply
  \/ \E j \in Call : ReplaceTerminal(j)
  \/ ReplyRefused
  \/ ClearPending \/ ClearRefused

Supervisor ==
  \/ LeavePython
  \/ PreselectCardMind
  \/ Claim
  \/ Execute \/ ExecuteRefused \/ Interrupt
  \/ WriteResult
  \/ PublishResult
  \/ CompleteRun
  \/ SupervisorRefused

Startup ==
  \/ StartupWithoutClaim
  \/ StartupAudit \/ StartupRejects
  \/ Attach \/ AttachRejects
  \/ MarkWebReturn
  \/ EraseRun
  \/ StartupClear
  \/ StartupClean
  \/ StartupRefused

Next == \/ Conversation \/ Staging \/ Continuation
        \/ Boot \/ Crash
        \/ Supervisor \/ Startup

Spec == Init /\ [][Next]_vars

\* A started handler, supervisor or startup keeps running; the user leaves the
\* Python workspace at some time and, told that recovery must complete,
\* restarts a device that holds a claimed call.
Fairness ==
  /\ WF_vars(Boot)
  /\ WF_vars(Staging)
  /\ WF_vars(Continuation)
  /\ WF_vars(Supervisor)
  /\ WF_vars(Startup)
  /\ WF_vars(PowerCycle /\ pend.state = "claimed")

FairSpec == Spec /\ Fairness

-----------------------------------------------------------------------------
(* Safety *)

\* P5 "at-most-one CardMind launch/no replay": whatever is interrupted, refused
\* or restarted, a script approved once is started at most once.
AtMostOneLaunch == \A i \in Call : launches[i] <= 1

\* A run value exists only while the exact claimed record does: it is written
\* after the claim and erased before the record is cleared, so a script is
\* never runnable without an owner in some chat.
RunHasOwner ==
  RunFound => pend.state = "claimed" /\ pend.id = run.id

\* What is about to be executed is the exact request and the exact script that
\* was shown for approval, whatever was edited, in either image, in between.
ApprovedScriptRuns == pc = "execute" => RequestValid

\* A run that may already have started never leaves MicroPython selected: any
\* reset then returns to CardMind.
NoReturnToPython ==
  run.state \in {"claimed", "complete"} => boot = "cardmind"

\* Once the supervisor declares a result complete, that result is readable
\* until the record that needs it is gone.
CompleteHasResult ==
  run.state = "complete" => sd["result"] = run.id /\ exit[run.id] \in Outcomes

\* A message never misreports the device: "no code executed" is only said, and
\* stays true, of a call that never started; success is only said of one that
\* ran, and agrees with the audit journal.
TruthfulMessages ==
  \A k \in 1..Len(chat) :
    LET m == chat[k] IN
    /\ m.text \in {"beforeStaging", "beforeExecution", "reply"}
         => launches[m.about] = 0
    /\ m.text = "exit0" => launches[m.about] = 1
    /\ m.text \in Outcomes =>
         audit[m.about] = m.text /\ exit[m.about] = m.text

\* Exactly-once attachment: a call gets one assistant message, and a recovered
\* one directly follows the prompt it answers.
OneAnswerInPlace ==
  \A k \in 1..Len(chat) :
    chat[k].text # "prompt" =>
      /\ k > 1 /\ chat[k - 1].text = "prompt"
      /\ \A l \in 1..Len(chat) :
           chat[l].text # "prompt" /\ chat[l].about = chat[k].about => l = k

\* The run of a Web approval is forgotten only when the return to the Web
\* Console is already durable, so no reset in between strands the browser.
WebReturnDurable ==
  [][run.state \in {"claimed", "complete"} /\ run'.state = "none"
       /\ run.surface = "web" => openWeb' = 1]_vars

\* A record holding a claimed call blocks every prompt, and only a startup can
\* remove it: neither this startup nor any later one can, because the chat has
\* moved, or because an earlier call's cleanup was refused and its files remain.
Blocked ==
  /\ pend.state = "claimed"
  /\ \/ ~Attachable /\ ~AlreadyAttached
     \/ /\ ~RunFound
        /\ \E a \in {"request", "result"} : sd[a] \notin {Absent, pend.id}

\* Recovery converges: once resets and refusals end, a claimed call is cleared,
\* or is in the one condition the startup code refuses.
ClaimedEndsOrBlocks ==
  \A i \in Call :
    pend.state = "claimed" /\ pend.id = i ~> pend.id # i \/ Blocked

-----------------------------------------------------------------------------
(* The inductive invariant the proofs use, in named parts *)

StagingSteps == {"prepare", "audit", "request", "commitRequest", "persist",
                 "select"}
ExecutionSteps == {"execute", "writeResult", "publishResult", "complete"}

\* The record is the claimed one throughout staging and recovery, and what the
\* model answers was decided.
RecordInv ==
  /\ pend.id = Absent <=> pend.state = "none"
  /\ pend.id # Absent => frozen[pend.id] # Absent
  /\ pc \in StagingSteps \cup {"attach", "finalize", "erase", "startupClear"}
       => pend.state = "claimed"
  /\ pc \in {"reply", "clear"} => pend.state \in {"claimed", "denied"}
  /\ pc = "startupClean" => pend.state = "none"

\* The run value agrees with the step and with the boot partition.
RunInv ==
  /\ RunHasOwner
  /\ NoReturnToPython
  /\ pc \in {"prepare", "audit", "request", "commitRequest", "persist",
             "reply", "clear", "startupClear", "startupClean"}
       => run.state = "none"
  /\ pc \in {"select", "claim"} => run.state = "pending"
  /\ pc \in ExecutionSteps => run.state = "claimed"
  /\ boot = "python" => pc \in {"off", "supervisor"}
  /\ pc = "supervisor" => boot = "python"
  /\ pc = "erase" /\ RunFound /\ run.surface = "web" => openWeb = 1

\* A call that was launched cannot reach the launch again.
LaunchInv ==
  \A i \in Call : launches[i] # 0 =>
    /\ launches[i] = 1
    /\ frozen[i] # Absent
    /\ pend.id = i => pend.state = "claimed" /\ pc \notin StagingSteps
    /\ run.id = i => run.state # "pending" /\ pc # "execute"

\* A runnable request is the approved one.
RequestInv ==
  /\ pc \in StagingSteps \ {"prepare"} => source = frozen[pend.id]
  /\ pc = "commitRequest" => sd["requestTmp"] = pend.id
  /\ pc = "persist" => sd["request"] = pend.id
  /\ pc \in {"select", "claim", "execute"} => RequestValid
  /\ boot = "python" /\ run.state = "pending" => RequestValid

\* The result follows the script and precedes the word that it is complete.
ResultInv ==
  /\ CompleteHasResult
  /\ pc \in ExecutionSteps \ {"execute"} => exit[run.id] \in Outcomes
  /\ pc = "publishResult" => sd["resultTmp"] = run.id
  /\ pc = "complete" => sd["result"] = run.id
  /\ \A i \in Call :
       sd["resultTmp"] = i \/ sd["result"] = i => exit[i] \in Outcomes

\* What the startup attaches was explained before.
RecoveryInv == pc = "attach" => ~Unrecoverable

IInv == /\ TypeOK
        /\ RecordInv /\ RunInv /\ LaunchInv
        /\ RequestInv /\ ResultInv /\ RecoveryInv

-----------------------------------------------------------------------------
(* What the P5 crash contract says and the code does not do *)

\* P5_TRACEABILITY "Chat append, before cleanup": the message this run attached
\* is recognised by the next startup.
OwnAttachmentAccepted ==
  pc = "attach" /\ Len(chat) = pend.count + 1 =>
    LET m == chat[Len(chat)] IN
    m.about = pend.id /\ m.text \in RecoveryTexts => m.text = RecoveryText

\* P5_TRACEABILITY, first row of the contract: a deterministic pre-run failure
\* that was answered to the model is detected after a reboot and cleaned.
AnsweredFailureAccepted ==
  pc = "attach" /\ Len(chat) = pend.count + 1 =>
    chat[Len(chat)] # Message("reply", pend.id)

\* P5_TRACEABILITY, the same row: a call claimed before anything was staged is
\* recovered, and files an earlier call left are only removed.
OrphansNeverBlock ==
  pc = "startup" /\ pend.state = "claimed" /\ audit[pend.id] = "none"
    => ~Unrecoverable
=============================================================================
