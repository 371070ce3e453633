-------------------------- MODULE OneShotRunProofs --------------------------
(***************************************************************************)
(* Proofs about OneShotRun for every set of calls and script versions and  *)
(* any number of resets and refused effects.  Everything follows from one  *)
(* inductive invariant, IInv, the conjunction of                           *)
(*   TypeOK      the types,                                                *)
(*   RecordInv   which pending record goes with which step,                *)
(*   RunInv      which run value and boot partition go with which step,    *)
(*   LaunchInv   that a launched call cannot reach the launch again,       *)
(*   RequestInv  that a runnable request is the approved one,              *)
(*   ResultInv   that a complete run has its result,                       *)
(*   RecoveryInv that what is attached was explained first.                *)
(* One lemma per group of actions shows that its steps keep IInv; the      *)
(* steps that change several kinds of state have a lemma of their own.     *)
(* A second invariant, MessageInv, inductive given IInv, is about what the *)
(* chat already says of each call.                                         *)
(***************************************************************************)
EXTENDS OneShotRun, TLAPS

-----------------------------------------------------------------------------
(* Vocabulary *)

\* Removing the first n artifacts only makes files absent.
LEMMA RemovedFacts ==
  ASSUME TypeOK, NEW n \in 0..4
  PROVE  /\ Removed(n) \in ArtifactState
         /\ \A a \in Artifacts : Removed(n)[a] \in {Absent, sd[a]}
BY DEF TypeOK, ArtifactState, Removed, Artifacts

\* The messages of the startup are assistant messages about a real call.
LEMMA RecoveryTextType ==
  ASSUME IInv, pc = "attach"
  PROVE  RecoveryText \in Texts /\ pend.id \in Call
<1>1. RecoveryText \in Texts
  BY DEF IInv, TypeOK, RecordInv, RunInv, ResultInv, RecoveryInv, RunHasOwner,
         CompleteHasResult, Unrecoverable, RecoveryText, AttachedText,
         RunFound, Texts, RecoveryTexts, RunValue, PendingRecord, Unexplained
<1>2. pend.id \in Call
  BY DEF IInv, TypeOK, RecordInv, PendingRecord
<1>3. QED
  BY <1>1, <1>2

\* Abandoning the staging before the run value exists keeps the invariant.
LEMMA AbandonStaging ==
  ASSUME IInv, TypeOK',
         pc \in StagingSteps, run.state = "none",
         pc' \in {"reply", "ready"},
         UNCHANGED <<pend, frozen, run, boot, openWeb, source, exit, launches>>,
         sd'["result"] \in {sd["result"], Absent},
         sd'["resultTmp"] \in {sd["resultTmp"], Absent}
  PROVE  IInv'
<1>1. RecordInv'
  BY DEF IInv, RecordInv, StagingSteps
<1>2. RunInv'
  BY DEF IInv, RunInv, RunHasOwner, RunFound, NoReturnToPython, StagingSteps,
         ExecutionSteps
<1>3. LaunchInv'
  BY DEF IInv, LaunchInv, StagingSteps
<1>4. RequestInv'
  BY DEF IInv, RequestInv, StagingSteps
<1>5. ResultInv'
  BY CallAssumption DEF IInv, ResultInv, CompleteHasResult, ExecutionSteps
<1>6. RecoveryInv'
  BY DEF RecoveryInv
<1>7. QED
  BY <1>1, <1>2, <1>3, <1>4, <1>5, <1>6 DEF IInv

\* A new call is awaiting, and was never launched.
LEMMA AskPreserves ==
  ASSUME IInv, NEW i \in Call, Ask(i)
  PROVE  IInv'
<1>1. TypeOK'
  <2>1. pend' \in PendingRecord
    BY DEF IInv, TypeOK, Ask, Awaiting, PendingRecord
  <2>2. chat' \in Seq(ChatMessage)
    <3>1. Message("prompt", i) \in ChatMessage
      BY DEF Message, ChatMessage, Texts
    <3>2. QED
      BY <3>1 DEF IInv, TypeOK, Ask
  <2>3. QED
    BY <2>1, <2>2, DisturbancesAssumption
    DEF IInv, TypeOK, Ask, Stored, Disturbed, CardMindSteps, history
<1>2. /\ RecordInv' /\ RunInv' /\ LaunchInv'
      /\ RequestInv' /\ ResultInv' /\ RecoveryInv'
  BY SMTT(30), CallAssumption
  DEF IInv, TypeOK, PendingRecord, RunValue, RecordInv, RunInv, LaunchInv,
      RequestInv, ResultInv, RecoveryInv, RunHasOwner, NoReturnToPython,
      CompleteHasResult, RunFound, RequestValid, StagingSteps,
      ExecutionSteps, Ask, Stored, Disturbed, Awaiting, NoPending, history
<1>3. QED
  BY <1>1, <1>2 DEF IInv

\* The cancellation removes only request files.
LEMMA CancelPreserves ==
  ASSUME IInv, Cancel
  PROVE  IInv'
<1>1. TypeOK'
  <2>1. sd' \in ArtifactState
    BY DEF IInv, TypeOK, Cancel, ArtifactState, Artifacts
  <2>2. audit' \in [Call -> {"none", "running", "failed", "canceled"}
                              \cup Outcomes]
    BY DEF IInv, TypeOK, Cancel
  <2>3. QED
    BY <2>1, <2>2, DisturbancesAssumption
    DEF IInv, TypeOK, Cancel, Disturbed, CardMindSteps, history
<1>2. sd'["result"] = sd["result"] /\ sd'["resultTmp"] = sd["resultTmp"]
  BY DEF IInv, TypeOK, ArtifactState, Artifacts, Cancel
<1>3. QED
  BY <1>1, <1>2, AbandonStaging
  DEF IInv, RunInv, Cancel, StagingSteps, history

\* A refused preparation may have removed some files.
LEMMA PrepareRefusedPreserves ==
  ASSUME IInv, PrepareRefused
  PROVE  IInv'
<1>1. TypeOK'
  BY RemovedFacts, DisturbancesAssumption
  DEF IInv, TypeOK, PrepareRefused, Disturbed, CardMindSteps, history
<1>2. /\ sd'["result"] \in {sd["result"], Absent}
      /\ sd'["resultTmp"] \in {sd["resultTmp"], Absent}
  BY RemovedFacts DEF IInv, TypeOK, Artifacts, PrepareRefused
<1>3. QED
  BY <1>1, <1>2, AbandonStaging
  DEF IInv, RunInv, PrepareRefused, StagingSteps, history

\* A refused staging effect leaves the call claimed; the run value, if it was
\* written, names it.
LEMMA StagingRefusedPreserves ==
  ASSUME IInv, StagingRefused
  PROVE  IInv'
<1>1. TypeOK'
  <2>1. run' \in RunValue
    <3>1. pend.id \in Call \cup {Absent}
      BY DEF IInv, TypeOK, PendingRecord
    <3>2. QED
      BY <3>1 DEF IInv, TypeOK, RunValue, StagingRefused, NoRun
  <2>2. sd' \in ArtifactState
    <3>1. ASSUME NEW n \in 0..4 PROVE Removed(n) \in ArtifactState
      BY RemovedFacts DEF IInv
    <3>2. CASE pc = "select"
      BY <3>1, <3>2 DEF IInv, TypeOK, StagingRefused
    <3>3. CASE pc # "select"
      BY <3>3 DEF IInv, TypeOK, StagingRefused, ArtifactState, Artifacts
    <3>4. QED
      BY <3>2, <3>3
  <2>3. audit' \in [Call -> {"none", "running", "failed", "canceled"}
                              \cup Outcomes]
    BY DEF IInv, TypeOK, StagingRefused, AuditFailure
  <2>4. QED
    BY <2>1, <2>2, <2>3, DisturbancesAssumption
    DEF IInv, TypeOK, StagingRefused, Disturbed, CardMindSteps, history
<1>2. /\ RecordInv' /\ RunInv' /\ LaunchInv'
      /\ RequestInv' /\ ResultInv' /\ RecoveryInv'
  BY SMTT(30), RemovedFacts, CallAssumption
  DEF IInv, TypeOK, PendingRecord, RunValue, ArtifactState, Artifacts,
      RecordInv, RunInv, LaunchInv, RequestInv, ResultInv, RecoveryInv,
      RunHasOwner, NoReturnToPython, CompleteHasResult, RunFound,
      RequestValid, StagingSteps, ExecutionSteps, StagingRefused,
      AuditFailure, NoRun, history
<1>3. QED
  BY <1>1, <1>2 DEF IInv

\* The supervisor reaches the script with a claim and for the first time, so
\* one more launch is the first.
LEMMA ExecutePreserves ==
  ASSUME IInv, Execute
  PROVE  IInv'
<1>1. RequestValid /\ run.state = "claimed" /\ run.id \in Call
  BY DEF IInv, TypeOK, RunValue, RecordInv, PendingRecord, RunInv,
         RunHasOwner, RunFound, RequestInv, Execute, StageStep, ExecutionSteps
<1>2. launches[run.id] = 0
  BY <1>1 DEF IInv, LaunchInv, Execute, StageStep
<1>3. PICK e \in Outcomes : exit' = [exit EXCEPT ![run.id] = e]
  BY DEF Execute, Outcomes
<1>4. TypeOK'
  <2>1. exit' \in [Call -> Outcomes \cup {Absent}]
    BY <1>3 DEF IInv, TypeOK
  <2>2. launches' \in [Call -> Nat]
    BY <1>1 DEF IInv, TypeOK, Execute
  <2>3. QED
    BY <2>1, <2>2 DEF IInv, TypeOK, Execute, StageStep, PythonSteps, durable
<1>5. LaunchInv'
  BY <1>1, <1>2
  DEF IInv, TypeOK, RecordInv, RunInv, LaunchInv, RunHasOwner, RunFound,
      PendingRecord, Execute, StageStep, StagingSteps, durable
<1>6. RecordInv' /\ RunInv' /\ RequestInv'
  BY <1>1
  DEF IInv, RecordInv, RunInv, RequestInv, RunHasOwner, RunFound,
      NoReturnToPython, Execute, StageStep, ExecutionSteps, StagingSteps,
      RequestValid, durable
<1>7. ResultInv'
  <2>1. \A i \in Call : exit[i] \in Outcomes => exit'[i] \in Outcomes
    BY <1>3 DEF IInv, TypeOK
  <2>2. exit'[run.id] \in Outcomes
    BY <1>1, <1>3 DEF IInv, TypeOK
  <2>3. QED
    BY <1>1, <2>1, <2>2
    DEF IInv, ResultInv, CompleteHasResult, Execute, StageStep, ExecutionSteps,
        durable
<1>8. QED
  BY <1>4, <1>5, <1>6, <1>7 DEF IInv, RecoveryInv, Execute, StageStep

\* A script cut short counts as launched.
LEMMA InterruptPreserves ==
  ASSUME IInv, Interrupt
  PROVE  IInv'
<1>1. run.state = "claimed" /\ run.id \in Call
  BY DEF IInv, TypeOK, RunValue, RecordInv, PendingRecord, RunInv,
         RunHasOwner, RunFound, Interrupt, StageStep, ExecutionSteps
<1>2. launches[run.id] = 0
  BY <1>1 DEF IInv, LaunchInv, Interrupt, StageStep
<1>3. TypeOK'
  <2>1. launches' \in [Call -> Nat]
    BY <1>1 DEF IInv, TypeOK, Interrupt
  <2>2. QED
    BY <2>1, DisturbancesAssumption
    DEF IInv, TypeOK, Interrupt, StageStep, Disturbed, durable
<1>4. /\ RecordInv' /\ RunInv' /\ LaunchInv'
      /\ RequestInv' /\ ResultInv' /\ RecoveryInv'
  BY <1>1, <1>2
  DEF IInv, TypeOK, RecordInv, RunInv, LaunchInv, RequestInv, ResultInv,
      RecoveryInv, RunHasOwner, RunFound, NoReturnToPython,
      CompleteHasResult, PendingRecord, Interrupt, StageStep, StagingSteps,
      ExecutionSteps, RequestValid, durable
<1>5. QED
  BY <1>3, <1>4 DEF IInv

\* boot.py always leaves CardMind selected.
LEMMA SupervisorRefusedPreserves ==
  ASSUME IInv, SupervisorRefused
  PROVE  IInv'
<1>1. TypeOK'
  <2>1. run' \in RunValue
    BY DEF IInv, TypeOK, RunValue, SupervisorRefused
  <2>2. sd' \in ArtifactState
    BY DEF IInv, TypeOK, ArtifactState, Artifacts, SupervisorRefused
  <2>3. QED
    BY <2>1, <2>2, DisturbancesAssumption
    DEF IInv, TypeOK, SupervisorRefused, Disturbed, PythonSteps, history
<1>2. /\ RecordInv' /\ RunInv' /\ LaunchInv'
      /\ RequestInv' /\ ResultInv' /\ RecoveryInv'
  BY SMTT(30), CallAssumption
  DEF IInv, TypeOK, PendingRecord, RunValue, ArtifactState, Artifacts,
      RecordInv, RunInv, LaunchInv, RequestInv, ResultInv, RecoveryInv,
      RunHasOwner, NoReturnToPython, CompleteHasResult, RunFound,
      RequestValid, StagingSteps, ExecutionSteps, PythonSteps,
      SupervisorRefused, history
<1>3. QED
  BY <1>1, <1>2 DEF IInv

\* The audit event does not change what the startup will say.
LEMMA StartupAuditPreserves ==
  ASSUME IInv, StartupAudit
  PROVE  IInv'
<1>1. TypeOK'
  <2>1. Terminal(RecoveryText) \in {"failed"} \cup Outcomes
    BY DEF Terminal
  <2>2. QED
    BY <2>1 DEF IInv, TypeOK, StartupAudit, StageStep, CardMindSteps, history
<1>2. RecordInv' /\ RunInv' /\ LaunchInv' /\ RequestInv' /\ ResultInv'
  BY DEF IInv, TypeOK, RecordInv, RunInv, LaunchInv, RequestInv, ResultInv,
         RunHasOwner, RunFound, NoReturnToPython, CompleteHasResult,
         StartupAudit, StageStep, ExecutionSteps, StagingSteps, RequestValid,
         history, CardMindSteps, PythonSteps
<1>3. RecoveryInv'
  <2>1. pend.id \in Call
    BY DEF IInv, TypeOK, RecordInv, StartupAudit, PendingRecord
  <2>2. /\ RecoveryText' = RecoveryText
        /\ RunFound' = RunFound
        /\ DetachedResult' = DetachedResult
        /\ Unexplained' = Unexplained
        /\ ForeignRequest' = ForeignRequest
    BY DEF StartupAudit, RecoveryText, AttachedText, RunFound, DetachedResult,
           Unexplained, ForeignRequest, history
  <2>3. QED
    BY <2>1, <2>2
    DEF IInv, TypeOK, Unrecoverable, RecoveryInv, StartupAudit, Terminal,
        Outcomes, history
<1>4. QED
  BY <1>1, <1>2, <1>3 DEF IInv

\* Attaching the message touches only the chat.
LEMMA AttachPreserves ==
  ASSUME IInv, Attach
  PROVE  IInv'
<1>1. chat' \in Seq(ChatMessage)
  <2>1. Message(RecoveryText, pend.id) \in ChatMessage
    BY RecoveryTextType DEF Message, ChatMessage, Attach, StageStep
  <2>2. chat \in Seq(ChatMessage)
    BY DEF IInv, TypeOK
  <2>3. QED
    BY <2>1, <2>2 DEF Attach
<1>2. TypeOK'
  BY <1>1 DEF IInv, TypeOK, Attach, StageStep, CardMindSteps, history
<1>3. /\ RecordInv' /\ RunInv' /\ LaunchInv'
      /\ RequestInv' /\ ResultInv' /\ RecoveryInv'
  BY DEF IInv, RecordInv, RunInv, LaunchInv, RequestInv, ResultInv,
         RecoveryInv, RunHasOwner, NoReturnToPython, CompleteHasResult,
         RunFound, RequestValid, StagingSteps, ExecutionSteps, Attach,
         StageStep, history
<1>4. QED
  BY <1>2, <1>3 DEF IInv

-----------------------------------------------------------------------------
(* Every step keeps the invariant *)

\* What the user does between handlers, in either image, keeps the invariant.
LEMMA ConversationPreserves ==
  ASSUME IInv, Conversation
  PROVE  IInv'
<1> USE DEF IInv, TypeOK, PendingRecord, RunValue, ArtifactState, Artifacts,
    Outcomes, CardMindSteps, PythonSteps, durable, history, Disturbed
<1>1. ASSUME NEW i \in Call, Ask(i) PROVE IInv'
  BY <1>1, AskPreserves
<1>2. ASSUME NEW v \in Source, EditSource(v)
      PROVE  IInv'
  <2>1. TypeOK'
    BY <1>2 DEF EditSource
  <2>2. /\ RecordInv' /\ RunInv' /\ LaunchInv'
        /\ RequestInv' /\ ResultInv' /\ RecoveryInv'
    BY SMTT(30), <1>2 DEF EditSource, RecordInv, RunInv, LaunchInv,
        RequestInv, ResultInv, RecoveryInv, RunHasOwner, NoReturnToPython,
        CompleteHasResult, RunFound, RequestValid, StagingSteps,
        ExecutionSteps
  <2>3. QED
    BY <2>1, <2>2
<1>3. ASSUME ClearHistory
      PROVE  IInv'
  <2>1. TypeOK'
    BY <1>3 DEF ClearHistory
  <2>2. /\ RecordInv' /\ RunInv' /\ LaunchInv'
        /\ RequestInv' /\ ResultInv' /\ RecoveryInv'
    BY SMTT(30), <1>3 DEF ClearHistory, RecordInv, RunInv, LaunchInv,
        RequestInv, ResultInv, RecoveryInv, RunHasOwner, NoReturnToPython,
        CompleteHasResult, RunFound, RequestValid, StagingSteps,
        ExecutionSteps
  <2>3. QED
    BY <2>1, <2>2
<1>4. ASSUME Approve
      PROVE  IInv'
  <2>1. TypeOK'
    <3>1. pend' \in PendingRecord
      BY <1>4 DEF Approve
    <3>2. QED
      BY <1>4, <3>1, DisturbancesAssumption DEF Approve, Stored,
          IdentityCurrent
  <2>2. /\ RecordInv' /\ RunInv' /\ LaunchInv'
        /\ RequestInv' /\ ResultInv' /\ RecoveryInv'
    BY SMTT(30), <1>4 DEF Approve, Stored, IdentityCurrent, RecordInv, RunInv,
        LaunchInv, RequestInv, ResultInv, RecoveryInv, RunHasOwner,
        NoReturnToPython, CompleteHasResult, RunFound, RequestValid,
        StagingSteps, ExecutionSteps
  <2>3. QED
    BY <2>1, <2>2
<1>5. ASSUME Deny
      PROVE  IInv'
  <2>1. TypeOK'
    <3>1. pend' \in PendingRecord
      BY <1>5 DEF Deny
    <3>2. QED
      BY <1>5, <3>1, DisturbancesAssumption DEF Deny, Stored
  <2>2. /\ RecordInv' /\ RunInv' /\ LaunchInv'
        /\ RequestInv' /\ ResultInv' /\ RecoveryInv'
    BY SMTT(30), <1>5 DEF Deny, Stored, RecordInv, RunInv, LaunchInv,
        RequestInv, ResultInv, RecoveryInv, RunHasOwner, NoReturnToPython,
        CompleteHasResult, RunFound, RequestValid, StagingSteps,
        ExecutionSteps
  <2>3. QED
    BY <2>1, <2>2
<1>6. ASSUME Acknowledge
      PROVE  IInv'
  <2>1. TypeOK'
    BY <1>6 DEF Acknowledge, NoPending
  <2>2. /\ RecordInv' /\ RunInv' /\ LaunchInv'
        /\ RequestInv' /\ ResultInv' /\ RecoveryInv'
    BY SMTT(30), <1>6, CallAssumption DEF Acknowledge, NoPending, RecordInv,
        RunInv, LaunchInv, RequestInv, ResultInv, RecoveryInv, RunHasOwner,
        NoReturnToPython, CompleteHasResult, RunFound, RequestValid,
        StagingSteps, ExecutionSteps
  <2>3. QED
    BY <2>1, <2>2
<1>7. ASSUME PowerCycle
      PROVE  IInv'
  <2>1. TypeOK'
    BY <1>7 DEF PowerCycle, StageStep
  <2>2. /\ RecordInv' /\ RunInv' /\ LaunchInv'
        /\ RequestInv' /\ ResultInv' /\ RecoveryInv'
    BY SMTT(30), <1>7 DEF PowerCycle, StageStep, RecordInv, RunInv, LaunchInv,
        RequestInv, ResultInv, RecoveryInv, RunHasOwner, NoReturnToPython,
        CompleteHasResult, RunFound, RequestValid, StagingSteps,
        ExecutionSteps
  <2>3. QED
    BY <2>1, <2>2
<1>8. ASSUME EnterManualPython
      PROVE  IInv'
  <2>1. TypeOK'
    BY <1>8 DEF EnterManualPython, StageStep
  <2>2. /\ RecordInv' /\ RunInv' /\ LaunchInv'
        /\ RequestInv' /\ ResultInv' /\ RecoveryInv'
    BY SMTT(30), <1>8 DEF EnterManualPython, StageStep, RecordInv, RunInv,
        LaunchInv, RequestInv, ResultInv, RecoveryInv, RunHasOwner,
        NoReturnToPython, CompleteHasResult, RunFound, RequestValid,
        StagingSteps, ExecutionSteps
  <2>3. QED
    BY <2>1, <2>2
<1>9. ASSUME AcknowledgeWeb
      PROVE  IInv'
  <2>1. TypeOK'
    BY <1>9 DEF AcknowledgeWeb
  <2>2. /\ RecordInv' /\ RunInv' /\ LaunchInv'
        /\ RequestInv' /\ ResultInv' /\ RecoveryInv'
    BY SMTT(30), <1>9 DEF AcknowledgeWeb, RecordInv, RunInv, LaunchInv,
        RequestInv, ResultInv, RecoveryInv, RunHasOwner, NoReturnToPython,
        CompleteHasResult, RunFound, RequestValid, StagingSteps,
        ExecutionSteps
  <2>3. QED
    BY <2>1, <2>2
<1>10. ASSUME NEW v \in Source, EditInPython(v)
      PROVE  IInv'
  <2>1. TypeOK'
    BY <1>10 DEF EditInPython
  <2>2. /\ RecordInv' /\ RunInv' /\ LaunchInv'
        /\ RequestInv' /\ ResultInv' /\ RecoveryInv'
    BY SMTT(30), <1>10 DEF EditInPython, RecordInv, RunInv, LaunchInv,
        RequestInv, ResultInv, RecoveryInv, RunHasOwner, NoReturnToPython,
        CompleteHasResult, RunFound, RequestValid, StagingSteps,
        ExecutionSteps
  <2>3. QED
    BY <2>1, <2>2
<1>11. QED
  BY <1>1, <1>2, <1>3, <1>4, <1>5, <1>6, <1>7, <1>8, <1>9, <1>10 DEF
      Conversation

\* Approval and staging keep the invariant: at every effect the record is
\* claimed, the script unchanged and the run value absent until it is written.
LEMMA StagingPreserves ==
  ASSUME IInv, Staging
  PROVE  IInv'
<1> USE DEF IInv, TypeOK, PendingRecord, RunValue, ArtifactState, Artifacts,
    Outcomes, CardMindSteps, PythonSteps, durable, history, Disturbed
<1>1. ASSUME Prepare
      PROVE  IInv'
  <2>1. TypeOK'
    BY <1>1, RemovedFacts DEF Prepare, StageStep, IdentityCurrent
  <2>2. /\ RecordInv' /\ RunInv' /\ LaunchInv'
        /\ RequestInv' /\ ResultInv' /\ RecoveryInv'
    BY SMTT(30), <1>1, RemovedFacts, CallAssumption DEF Prepare, StageStep,
        IdentityCurrent, RecordInv, RunInv, LaunchInv, RequestInv, ResultInv,
        RecoveryInv, RunHasOwner, NoReturnToPython, CompleteHasResult,
        RunFound, RequestValid, StagingSteps, ExecutionSteps
  <2>3. QED
    BY <2>1, <2>2
<1>2. ASSUME PrepareRefused PROVE IInv'
  BY <1>2, PrepareRefusedPreserves
<1>3. ASSUME StartAudit
      PROVE  IInv'
  <2>1. TypeOK'
    BY <1>3 DEF StartAudit, StageStep, RecordInv, StagingSteps
  <2>2. /\ RecordInv' /\ RunInv' /\ LaunchInv'
        /\ RequestInv' /\ ResultInv' /\ RecoveryInv'
    BY SMTT(30), <1>3 DEF StartAudit, StageStep, RecordInv, RunInv, LaunchInv,
        RequestInv, ResultInv, RecoveryInv, RunHasOwner, NoReturnToPython,
        CompleteHasResult, RunFound, RequestValid, StagingSteps,
        ExecutionSteps
  <2>3. QED
    BY <2>1, <2>2
<1>4. ASSUME StartAuditRefused
      PROVE  IInv'
  <2>1. TypeOK'
    BY <1>4, DisturbancesAssumption DEF StartAuditRefused, StageStep
  <2>2. /\ RecordInv' /\ RunInv' /\ LaunchInv'
        /\ RequestInv' /\ ResultInv' /\ RecoveryInv'
    BY SMTT(30), <1>4 DEF StartAuditRefused, StageStep, RecordInv, RunInv,
        LaunchInv, RequestInv, ResultInv, RecoveryInv, RunHasOwner,
        NoReturnToPython, CompleteHasResult, RunFound, RequestValid,
        StagingSteps, ExecutionSteps
  <2>3. QED
    BY <2>1, <2>2
<1>5. ASSUME WriteRequest
      PROVE  IInv'
  <2>1. TypeOK'
    BY <1>5 DEF WriteRequest, StageStep, RecordInv, StagingSteps
  <2>2. /\ RecordInv' /\ RunInv' /\ LaunchInv'
        /\ RequestInv' /\ ResultInv' /\ RecoveryInv'
    BY SMTT(30), <1>5, CallAssumption DEF WriteRequest, StageStep, RecordInv,
        RunInv, LaunchInv, RequestInv, ResultInv, RecoveryInv, RunHasOwner,
        NoReturnToPython, CompleteHasResult, RunFound, RequestValid,
        StagingSteps, ExecutionSteps
  <2>3. QED
    BY <2>1, <2>2
<1>6. ASSUME CommitRequest
      PROVE  IInv'
  <2>1. TypeOK'
    BY <1>6, ZenonT(60) DEF CommitRequest, StageStep
  <2>2. /\ RecordInv' /\ RunInv' /\ LaunchInv'
        /\ RequestInv' /\ ResultInv' /\ RecoveryInv'
    BY SMTT(30), <1>6, CallAssumption DEF CommitRequest, StageStep, RecordInv,
        RunInv, LaunchInv, RequestInv, ResultInv, RecoveryInv, RunHasOwner,
        NoReturnToPython, CompleteHasResult, RunFound, RequestValid,
        StagingSteps, ExecutionSteps
  <2>3. QED
    BY <2>1, <2>2
<1>7. ASSUME NEW s \in {"device", "web"}, PersistRun(s)
      PROVE  IInv'
  <2>1. TypeOK'
    BY <1>7 DEF PersistRun, StageStep, RecordInv, StagingSteps
  <2>2. /\ RecordInv' /\ RunInv' /\ LaunchInv'
        /\ RequestInv' /\ ResultInv' /\ RecoveryInv'
    BY SMTT(30), <1>7, CallAssumption DEF PersistRun, StageStep, RecordInv,
        RunInv, LaunchInv, RequestInv, ResultInv, RecoveryInv, RunHasOwner,
        NoReturnToPython, CompleteHasResult, RunFound, RequestValid,
        StagingSteps, ExecutionSteps
  <2>3. QED
    BY <2>1, <2>2
<1>8. ASSUME SelectPython
      PROVE  IInv'
  <2>1. TypeOK'
    BY <1>8 DEF SelectPython, StageStep
  <2>2. /\ RecordInv' /\ RunInv' /\ LaunchInv'
        /\ RequestInv' /\ ResultInv' /\ RecoveryInv'
    BY SMTT(30), <1>8 DEF SelectPython, StageStep, RecordInv, RunInv,
        LaunchInv, RequestInv, ResultInv, RecoveryInv, RunHasOwner,
        NoReturnToPython, CompleteHasResult, RunFound, RequestValid,
        StagingSteps, ExecutionSteps
  <2>3. QED
    BY <2>1, <2>2
<1>9. ASSUME Cancel PROVE IInv'
  BY <1>9, CancelPreserves
<1>10. ASSUME StagingRefused PROVE IInv'
  BY <1>10, StagingRefusedPreserves
<1>11. QED
  BY <1>1, <1>2, <1>3, <1>4, <1>5, <1>6, <1>7, <1>8, <1>9, <1>10 DEF Staging

\* Answering the model and clearing the record keep the invariant.
LEMMA ContinuationPreserves ==
  ASSUME IInv, Continuation
  PROVE  IInv'
<1> USE DEF IInv, TypeOK, PendingRecord, RunValue, ArtifactState, Artifacts,
    Outcomes, CardMindSteps, PythonSteps, durable, history, Disturbed
<1>1. ASSUME Reply
      PROVE  IInv'
  <2>1. TypeOK'
    BY <1>1 DEF Reply, StageStep, Message, ChatMessage, Texts, RecoveryTexts,
        RecordInv, StagingSteps
  <2>2. /\ RecordInv' /\ RunInv' /\ LaunchInv'
        /\ RequestInv' /\ ResultInv' /\ RecoveryInv'
    BY SMTT(30), <1>1 DEF Reply, StageStep, Message, RecordInv, RunInv,
        LaunchInv, RequestInv, ResultInv, RecoveryInv, RunHasOwner,
        NoReturnToPython, CompleteHasResult, RunFound, RequestValid,
        StagingSteps, ExecutionSteps
  <2>3. QED
    BY <2>1, <2>2
<1>2. ASSUME NEW j \in Call, ReplaceTerminal(j)
      PROVE  IInv'
  <2>1. TypeOK'
    BY <1>2, DisturbancesAssumption DEF ReplaceTerminal, Stored, Awaiting
  <2>2. /\ RecordInv' /\ RunInv' /\ LaunchInv'
        /\ RequestInv' /\ ResultInv' /\ RecoveryInv'
    BY SMTT(30), <1>2, CallAssumption DEF ReplaceTerminal, Stored, Awaiting,
        RecordInv, RunInv, LaunchInv, RequestInv, ResultInv, RecoveryInv,
        RunHasOwner, NoReturnToPython, CompleteHasResult, RunFound,
        RequestValid, StagingSteps, ExecutionSteps
  <2>3. QED
    BY <2>1, <2>2
<1>3. ASSUME ReplyRefused
      PROVE  IInv'
  <2>1. TypeOK'
    BY <1>3, DisturbancesAssumption DEF ReplyRefused, StageStep
  <2>2. /\ RecordInv' /\ RunInv' /\ LaunchInv'
        /\ RequestInv' /\ ResultInv' /\ RecoveryInv'
    BY SMTT(30), <1>3 DEF ReplyRefused, StageStep, RecordInv, RunInv,
        LaunchInv, RequestInv, ResultInv, RecoveryInv, RunHasOwner,
        NoReturnToPython, CompleteHasResult, RunFound, RequestValid,
        StagingSteps, ExecutionSteps
  <2>3. QED
    BY <2>1, <2>2
<1>4. ASSUME ClearPending
      PROVE  IInv'
  <2>1. TypeOK'
    BY <1>4 DEF ClearPending, StageStep, NoPending
  <2>2. /\ RecordInv' /\ RunInv' /\ LaunchInv'
        /\ RequestInv' /\ ResultInv' /\ RecoveryInv'
    BY SMTT(30), <1>4, CallAssumption DEF ClearPending, StageStep, NoPending,
        RecordInv, RunInv, LaunchInv, RequestInv, ResultInv, RecoveryInv,
        RunHasOwner, NoReturnToPython, CompleteHasResult, RunFound,
        RequestValid, StagingSteps, ExecutionSteps
  <2>3. QED
    BY <2>1, <2>2
<1>5. ASSUME ClearRefused
      PROVE  IInv'
  <2>1. TypeOK'
    BY <1>5, DisturbancesAssumption DEF ClearRefused, StageStep
  <2>2. /\ RecordInv' /\ RunInv' /\ LaunchInv'
        /\ RequestInv' /\ ResultInv' /\ RecoveryInv'
    BY SMTT(30), <1>5 DEF ClearRefused, StageStep, RecordInv, RunInv,
        LaunchInv, RequestInv, ResultInv, RecoveryInv, RunHasOwner,
        NoReturnToPython, CompleteHasResult, RunFound, RequestValid,
        StagingSteps, ExecutionSteps
  <2>3. QED
    BY <2>1, <2>2
<1>6. QED
  BY <1>1, <1>2, <1>3, <1>4, <1>5 DEF Continuation

\* The supervisor keeps the invariant: CardMind is selected and the claim
\* made before the script starts.
LEMMA SupervisorPreserves ==
  ASSUME IInv, Supervisor
  PROVE  IInv'
<1> USE DEF IInv, TypeOK, PendingRecord, RunValue, ArtifactState, Artifacts,
    Outcomes, CardMindSteps, PythonSteps, durable, history, Disturbed
<1>1. ASSUME LeavePython
      PROVE  IInv'
  <2>1. TypeOK'
    BY <1>1 DEF LeavePython, StageStep
  <2>2. /\ RecordInv' /\ RunInv' /\ LaunchInv'
        /\ RequestInv' /\ ResultInv' /\ RecoveryInv'
    BY SMTT(30), <1>1 DEF LeavePython, StageStep, RecordInv, RunInv,
        LaunchInv, RequestInv, ResultInv, RecoveryInv, RunHasOwner,
        NoReturnToPython, CompleteHasResult, RunFound, RequestValid,
        StagingSteps, ExecutionSteps
  <2>3. QED
    BY <2>1, <2>2
<1>2. ASSUME PreselectCardMind
      PROVE  IInv'
  <2>1. TypeOK'
    BY <1>2 DEF PreselectCardMind, StageStep
  <2>2. /\ RecordInv' /\ RunInv' /\ LaunchInv'
        /\ RequestInv' /\ ResultInv' /\ RecoveryInv'
    BY SMTT(30), <1>2 DEF PreselectCardMind, StageStep, RecordInv, RunInv,
        LaunchInv, RequestInv, ResultInv, RecoveryInv, RunHasOwner,
        NoReturnToPython, CompleteHasResult, RunFound, RequestValid,
        StagingSteps, ExecutionSteps
  <2>3. QED
    BY <2>1, <2>2
<1>3. ASSUME Claim
      PROVE  IInv'
  <2>1. TypeOK'
    <3>1. run' \in RunValue
      BY <1>3 DEF Claim
    <3>2. QED
      BY <1>3, <3>1 DEF Claim, StageStep
  <2>2. /\ RecordInv' /\ RunInv' /\ LaunchInv'
        /\ RequestInv' /\ ResultInv' /\ RecoveryInv'
    BY SMTT(30), <1>3 DEF Claim, StageStep, RecordInv, RunInv, LaunchInv,
        RequestInv, ResultInv, RecoveryInv, RunHasOwner, NoReturnToPython,
        CompleteHasResult, RunFound, RequestValid, StagingSteps,
        ExecutionSteps
  <2>3. QED
    BY <2>1, <2>2
<1>4. ASSUME Execute PROVE IInv'
  BY <1>4, ExecutePreserves
<1>5. ASSUME ExecuteRefused
      PROVE  IInv'
  <2>1. TypeOK'
    <3>1. exit' \in [Call -> Outcomes \cup {Absent}]
      BY <1>5 DEF ExecuteRefused
    <3>2. QED
      BY <1>5, <3>1, DisturbancesAssumption DEF ExecuteRefused, StageStep
  <2>2. /\ RecordInv' /\ RunInv' /\ LaunchInv'
        /\ RequestInv' /\ ResultInv' /\ RecoveryInv'
    BY SMTT(30), <1>5 DEF ExecuteRefused, StageStep, RecordInv, RunInv,
        LaunchInv, RequestInv, ResultInv, RecoveryInv, RunHasOwner,
        NoReturnToPython, CompleteHasResult, RunFound, RequestValid,
        StagingSteps, ExecutionSteps
  <2>3. QED
    BY <2>1, <2>2
<1>6. ASSUME Interrupt PROVE IInv'
  BY <1>6, InterruptPreserves
<1>7. ASSUME WriteResult
      PROVE  IInv'
  <2>1. TypeOK'
    BY <1>7 DEF WriteResult, StageStep, RunInv, ExecutionSteps, RunHasOwner,
        RunFound
  <2>2. /\ RecordInv' /\ RunInv' /\ LaunchInv'
        /\ RequestInv' /\ ResultInv' /\ RecoveryInv'
    BY SMTT(30), <1>7, CallAssumption DEF WriteResult, StageStep, RecordInv,
        RunInv, LaunchInv, RequestInv, ResultInv, RecoveryInv, RunHasOwner,
        NoReturnToPython, CompleteHasResult, RunFound, RequestValid,
        StagingSteps, ExecutionSteps
  <2>3. QED
    BY <2>1, <2>2
<1>8. ASSUME PublishResult
      PROVE  IInv'
  <2>1. TypeOK'
    <3>1. sd' \in ArtifactState
      BY <1>8 DEF PublishResult
    <3>2. QED
      BY <1>8, <3>1, ZenonT(60) DEF PublishResult, StageStep
  <2>2. /\ RecordInv' /\ RunInv' /\ LaunchInv'
        /\ RequestInv' /\ ResultInv' /\ RecoveryInv'
    BY SMTT(30), <1>8, CallAssumption DEF PublishResult, StageStep, RecordInv,
        RunInv, LaunchInv, RequestInv, ResultInv, RecoveryInv, RunHasOwner,
        NoReturnToPython, CompleteHasResult, RunFound, RequestValid,
        StagingSteps, ExecutionSteps
  <2>3. QED
    BY <2>1, <2>2
<1>9. ASSUME CompleteRun
      PROVE  IInv'
  <2>1. TypeOK'
    <3>1. run' \in RunValue
      BY <1>9 DEF CompleteRun
    <3>2. QED
      BY <1>9, <3>1 DEF CompleteRun, StageStep
  <2>2. /\ RecordInv' /\ RunInv' /\ LaunchInv'
        /\ RequestInv' /\ ResultInv' /\ RecoveryInv'
    BY SMTT(30), <1>9 DEF CompleteRun, StageStep, RecordInv, RunInv,
        LaunchInv, RequestInv, ResultInv, RecoveryInv, RunHasOwner,
        NoReturnToPython, CompleteHasResult, RunFound, RequestValid,
        StagingSteps, ExecutionSteps
  <2>3. QED
    BY <2>1, <2>2
<1>10. ASSUME SupervisorRefused PROVE IInv'
  BY <1>10, SupervisorRefusedPreserves
<1>11. QED
  BY <1>1, <1>2, <1>3, <1>4, <1>5, <1>6, <1>7, <1>8, <1>9, <1>10 DEF
      Supervisor

\* Startup recovery keeps the invariant: the run value goes before the record.
LEMMA StartupPreserves ==
  ASSUME IInv, Startup
  PROVE  IInv'
<1> USE DEF IInv, TypeOK, PendingRecord, RunValue, ArtifactState, Artifacts,
    Outcomes, CardMindSteps, PythonSteps, durable, history, Disturbed
<1>1. ASSUME StartupWithoutClaim
      PROVE  IInv'
  <2>1. TypeOK'
    BY <1>1, RemovedFacts, SMTT(30) DEF StartupWithoutClaim, StageStep, NoRun, NoPending
  <2>2. /\ RecordInv' /\ RunInv' /\ LaunchInv'
        /\ RequestInv' /\ ResultInv' /\ RecoveryInv'
    BY SMTT(30), <1>1, RemovedFacts, CallAssumption DEF StartupWithoutClaim,
        StageStep, NoRun, NoPending, RecordInv, RunInv, LaunchInv, RequestInv,
        ResultInv, RecoveryInv, RunHasOwner, NoReturnToPython,
        CompleteHasResult, RunFound, RequestValid, StagingSteps,
        ExecutionSteps
  <2>3. QED
    BY <2>1, <2>2
<1>2. ASSUME StartupAudit PROVE IInv'
  BY <1>2, StartupAuditPreserves
<1>3. ASSUME StartupRejects
      PROVE  IInv'
  <2>1. TypeOK'
    BY <1>3 DEF StartupRejects, StageStep
  <2>2. /\ RecordInv' /\ RunInv' /\ LaunchInv'
        /\ RequestInv' /\ ResultInv' /\ RecoveryInv'
    BY SMTT(30), <1>3 DEF StartupRejects, StageStep, RecordInv, RunInv,
        LaunchInv, RequestInv, ResultInv, RecoveryInv, RunHasOwner,
        NoReturnToPython, CompleteHasResult, RunFound, RequestValid,
        StagingSteps, ExecutionSteps
  <2>3. QED
    BY <2>1, <2>2
<1>4. ASSUME Attach PROVE IInv'
  BY <1>4, AttachPreserves
<1>5. ASSUME AttachRejects
      PROVE  IInv'
  <2>1. TypeOK'
    BY <1>5 DEF AttachRejects, StageStep
  <2>2. /\ RecordInv' /\ RunInv' /\ LaunchInv'
        /\ RequestInv' /\ ResultInv' /\ RecoveryInv'
    BY SMTT(30), <1>5 DEF AttachRejects, StageStep, RecordInv, RunInv,
        LaunchInv, RequestInv, ResultInv, RecoveryInv, RunHasOwner,
        NoReturnToPython, CompleteHasResult, RunFound, RequestValid,
        StagingSteps, ExecutionSteps
  <2>3. QED
    BY <2>1, <2>2
<1>6. ASSUME MarkWebReturn
      PROVE  IInv'
  <2>1. TypeOK'
    BY <1>6 DEF MarkWebReturn, StageStep
  <2>2. /\ RecordInv' /\ RunInv' /\ LaunchInv'
        /\ RequestInv' /\ ResultInv' /\ RecoveryInv'
    BY SMTT(30), <1>6 DEF MarkWebReturn, StageStep, RecordInv, RunInv,
        LaunchInv, RequestInv, ResultInv, RecoveryInv, RunHasOwner,
        NoReturnToPython, CompleteHasResult, RunFound, RequestValid,
        StagingSteps, ExecutionSteps
  <2>3. QED
    BY <2>1, <2>2
<1>7. ASSUME EraseRun
      PROVE  IInv'
  <2>1. TypeOK'
    BY <1>7 DEF EraseRun, StageStep, NoRun
  <2>2. /\ RecordInv' /\ RunInv' /\ LaunchInv'
        /\ RequestInv' /\ ResultInv' /\ RecoveryInv'
    BY SMTT(30), <1>7, CallAssumption DEF EraseRun, StageStep, NoRun,
        RecordInv, RunInv, LaunchInv, RequestInv, ResultInv, RecoveryInv,
        RunHasOwner, NoReturnToPython, CompleteHasResult, RunFound,
        RequestValid, StagingSteps, ExecutionSteps
  <2>3. QED
    BY <2>1, <2>2
<1>8. ASSUME StartupClear
      PROVE  IInv'
  <2>1. TypeOK'
    BY <1>8 DEF StartupClear, StageStep, NoPending
  <2>2. /\ RecordInv' /\ RunInv' /\ LaunchInv'
        /\ RequestInv' /\ ResultInv' /\ RecoveryInv'
    BY SMTT(30), <1>8, CallAssumption DEF StartupClear, StageStep, NoPending,
        RecordInv, RunInv, LaunchInv, RequestInv, ResultInv, RecoveryInv,
        RunHasOwner, NoReturnToPython, CompleteHasResult, RunFound,
        RequestValid, StagingSteps, ExecutionSteps
  <2>3. QED
    BY <2>1, <2>2
<1>9. ASSUME StartupClean
      PROVE  IInv'
  <2>1. TypeOK'
    BY <1>9, RemovedFacts, SMTT(30) DEF StartupClean, StageStep
  <2>2. /\ RecordInv' /\ RunInv' /\ LaunchInv'
        /\ RequestInv' /\ ResultInv' /\ RecoveryInv'
    BY SMTT(30), <1>9, RemovedFacts, CallAssumption DEF StartupClean,
        StageStep, RecordInv, RunInv, LaunchInv, RequestInv, ResultInv,
        RecoveryInv, RunHasOwner, NoReturnToPython, CompleteHasResult,
        RunFound, RequestValid, StagingSteps, ExecutionSteps
  <2>3. QED
    BY <2>1, <2>2
<1>10. ASSUME StartupRefused
      PROVE  IInv'
  <2>1. TypeOK'
    BY <1>10, RemovedFacts, DisturbancesAssumption DEF StartupRefused,
        NoPending
  <2>2. /\ RecordInv' /\ RunInv' /\ LaunchInv'
        /\ RequestInv' /\ ResultInv' /\ RecoveryInv'
    BY SMTT(30), <1>10, RemovedFacts, CallAssumption DEF StartupRefused,
        NoPending, RecordInv, RunInv, LaunchInv, RequestInv, ResultInv,
        RecoveryInv, RunHasOwner, NoReturnToPython, CompleteHasResult,
        RunFound, RequestValid, StagingSteps, ExecutionSteps
  <2>3. QED
    BY <2>1, <2>2
<1>11. QED
  BY <1>1, <1>2, <1>3, <1>4, <1>5, <1>6, <1>7, <1>8, <1>9, <1>10 DEF Startup

\* A boot and a reset change only the step.
LEMMA ResetPreserves ==
  ASSUME IInv, Boot \/ Crash
  PROVE  IInv'
<1>1. TypeOK'
  BY DisturbancesAssumption
  DEF IInv, TypeOK, Boot, Crash, Disturbed, CardMindSteps, PythonSteps,
      durable, history
<1>2. /\ RecordInv' /\ RunInv' /\ LaunchInv'
      /\ RequestInv' /\ ResultInv' /\ RecoveryInv'
  BY DEF IInv, TypeOK, RecordInv, RunInv, LaunchInv, RequestInv, ResultInv,
         RecoveryInv, RunHasOwner, NoReturnToPython, CompleteHasResult,
         RunFound, RequestValid, StagingSteps, ExecutionSteps, CardMindSteps,
         PythonSteps, Boot, Crash, durable, history
<1>3. QED
  BY <1>1, <1>2 DEF IInv

\* A fresh device satisfies the invariant.
LEMMA InitIInv == Init => IInv
<1> SUFFICES ASSUME Init PROVE IInv
  OBVIOUS
<1>1. TypeOK
  BY DisturbancesAssumption
  DEF Init, TypeOK, NoPending, NoRun, PendingRecord, RunValue, ArtifactState
<1>2. /\ RecordInv /\ RunInv /\ LaunchInv
      /\ RequestInv /\ ResultInv /\ RecoveryInv
  BY CallAssumption
  DEF Init, NoPending, NoRun, RecordInv, RunInv, LaunchInv, RequestInv,
      ResultInv, RecoveryInv, RunHasOwner, NoReturnToPython,
      CompleteHasResult, RunFound, StagingSteps, ExecutionSteps, Artifacts
<1>3. QED
  BY <1>1, <1>2 DEF IInv

\* Every step keeps the invariant.
LEMMA NextIInv == IInv /\ [Next]_vars => IInv'
<1> SUFFICES ASSUME IInv, [Next]_vars PROVE IInv'
  OBVIOUS
<1>1. CASE Conversation
  BY <1>1, ConversationPreserves
<1>2. CASE Staging
  BY <1>2, StagingPreserves
<1>3. CASE Continuation
  BY <1>3, ContinuationPreserves
<1>4. CASE Boot \/ Crash
  BY <1>4, ResetPreserves
<1>5. CASE Supervisor
  BY <1>5, SupervisorPreserves
<1>6. CASE Startup
  BY <1>6, StartupPreserves
<1>7. CASE UNCHANGED vars
  BY <1>7
  DEF IInv, TypeOK, RecordInv, RunInv, LaunchInv, RequestInv, ResultInv,
      RecoveryInv, RunHasOwner, NoReturnToPython, CompleteHasResult, RunFound,
      RequestValid, Unrecoverable, RecoveryText, AttachedText, DetachedResult,
      Unexplained, ForeignRequest, vars, history
<1>8. QED
  BY <1>1, <1>2, <1>3, <1>4, <1>5, <1>6, <1>7 DEF Next

-----------------------------------------------------------------------------
(* The theorems *)

\* The inductive invariant holds throughout, for any number of calls, script
\* versions, resets and refusals.
THEOREM RunInvariant == Spec => []IInv
<1>1. Init => IInv
  BY InitIInv
<1>2. IInv /\ [Next]_vars => IInv'
  BY NextIInv
<1>3. QED
  BY <1>1, <1>2, PTL DEF Spec

\* An approved script is started at most once, whatever is reset or refused.
THEOREM LaunchedAtMostOnce == Spec => []AtMostOneLaunch
<1>1. IInv => AtMostOneLaunch
  <2>1. SUFFICES ASSUME IInv, NEW i \in Call
                 PROVE  launches[i] <= 1
    BY DEF AtMostOneLaunch
  <2>2. launches[i] \in Nat
    BY <2>1 DEF IInv, TypeOK
  <2>3. QED
    BY <2>1, <2>2 DEF IInv, LaunchInv
<1>2. QED
  BY <1>1, RunInvariant, PTL

\* A runnable script always belongs to the claimed record on the card.
THEOREM RunAlwaysOwned == Spec => []RunHasOwner
<1>1. IInv => RunHasOwner
  BY DEF IInv, RunInv
<1>2. QED
  BY <1>1, RunInvariant, PTL

\* What is executed is the exact request and the exact approved script.
THEOREM ExactScriptRuns == Spec => []ApprovedScriptRuns
<1>1. IInv => ApprovedScriptRuns
  BY DEF IInv, RequestInv, ApprovedScriptRuns
<1>2. QED
  BY <1>1, RunInvariant, PTL

\* After the claim every reset returns to CardMind.
THEOREM ClaimReturnsToCardMind == Spec => []NoReturnToPython
<1>1. IInv => NoReturnToPython
  BY DEF IInv, RunInv
<1>2. QED
  BY <1>1, RunInvariant, PTL

\* A complete run has its result on the card.
THEOREM CompleteIsReadable == Spec => []CompleteHasResult
<1>1. IInv => CompleteHasResult
  BY DEF IInv, ResultInv
<1>2. QED
  BY <1>1, RunInvariant, PTL

\* The return to the Web Console is durable before the run is forgotten.
THEOREM WebReturnIsDurable == Spec => WebReturnDurable
<1> DEFINE A == run.state \in {"claimed", "complete"} /\ run'.state = "none"
                  /\ run.surface = "web" => openWeb' = 1
<1>1. IInv /\ [Next]_vars => [A]_vars
  <2>1. SUFFICES ASSUME IInv, Next,
                        run.state \in {"claimed", "complete"},
                        run'.state = "none", run.surface = "web"
                 PROVE  openWeb' = 1
    BY DEF A
  <2>2. run' # run
    BY <2>1
  <2>3. ~Conversation /\ ~Continuation /\ ~Boot /\ ~Crash
    BY <2>2
    DEF Conversation, Ask, EditSource, EditInPython, ClearHistory, Approve,
        Deny, Acknowledge, PowerCycle, EnterManualPython, AcknowledgeWeb,
        Continuation, Reply, ReplaceTerminal, ReplyRefused, ClearPending,
        ClearRefused, Boot, Crash, durable
  <2>4. ~Staging
    BY <2>1, <2>2
    DEF IInv, RunInv, Staging, Prepare, PrepareRefused, StartAudit,
        StartAuditRefused, WriteRequest, CommitRequest, PersistRun,
        SelectPython, Cancel, StagingRefused, StageStep, durable
  <2>5. ~Supervisor
    BY <2>1, <2>2
    DEF IInv, TypeOK, RunValue, RunInv, Supervisor, LeavePython,
        PreselectCardMind, Claim, Execute, ExecuteRefused, Interrupt,
        WriteResult, PublishResult, CompleteRun, SupervisorRefused, durable
  <2>6. EraseRun
    BY <2>1, <2>2, <2>3, <2>4, <2>5
    DEF IInv, TypeOK, PendingRecord, RunInv, RecordInv, RunHasOwner, RunFound,
        Next, Startup, StartupWithoutClaim, StartupAudit, StartupRejects,
        Attach, AttachRejects, MarkWebReturn, StartupClear, StartupClean,
        StartupRefused, durable
  <2>7. QED
    BY <2>1, <2>6 DEF IInv, RunInv, RunFound, EraseRun, StageStep
<1>2. QED
  BY <1>1, RunInvariant, PTL DEF Spec, WebReturnDurable

-----------------------------------------------------------------------------
(* The messages of the chat.  IInv speaks of what the device is about to   *)
(* do; what the chat already says of a call stays true only because an     *)
(* answered call is never started again, and is answered once only because *)
(* the record remembers how long the chat was when it was asked.           *)

\* The pending call's answer is in the chat, one message after its prompt.
Answered == pend.state # "none" /\ Len(chat) = pend.count + 1

\* Every message is about a call that was asked; a later call is a new one.
MessagesOfAsked ==
  \A k \in 1..Len(chat) : frozen[chat[k].about] # Absent

\* While a record exists the chat is empty, or ends with the prompt the record
\* was frozen at, or holds the answer after that prompt.
Position ==
  /\ pend.state # "none" =>
       /\ pend.count >= 1
       /\ \/ Len(chat) = 0
          \/ Len(chat) = pend.count /\ chat[pend.count].text = "prompt"
          \/ Len(chat) = pend.count + 1
  /\ pc \in StagingSteps \cup {"reply"} => Len(chat) = pend.count
  /\ pc \in {"clear", "finalize", "erase", "startupClear"} =>
       Len(chat) = pend.count + 1

\* A call without an answer at its place has none anywhere.
Unanswered ==
  ~Answered => \A k \in 1..Len(chat) :
                 chat[k].text # "prompt" => chat[k].about # pend.id

\* An answered call cannot be started any more.
AnswerEndsRun ==
  Answered => /\ pc \notin {"claim"} \cup ExecutionSteps
              /\ RunFound => boot = "cardmind"

\* What the startup will say of a call agrees with what happened to it.
Evidence ==
  /\ \A i \in Call : exit[i] = "exit0" => launches[i] = 1
  /\ pend.state # "none" /\ Len(chat) = pend.count /\ launches[pend.id] # 0
       => run.state \in {"claimed", "complete"}
  /\ pc = "attach" /\ RunFound => audit[pend.id] = Terminal(RecoveryText)

MessageInv == /\ MessagesOfAsked /\ Position /\ Unanswered
              /\ AnswerEndsRun /\ Evidence
              /\ TruthfulMessages /\ OneAnswerInPlace

\* The chat stays as it is, and what its messages report of a call stays too.
KeepsMessages ==
  /\ chat' = chat
  /\ \A i \in Call : frozen[i] # Absent => frozen'[i] # Absent
  /\ \A i \in Call :
       \/ i = pend.id /\ ~Answered
       \/ /\ launches'[i] = launches[i] /\ exit'[i] = exit[i]
          /\ audit[i] \in Outcomes => audit'[i] = audit[i]

\* Such a step leaves every message true and in its place.
LEMMA KeptMessages ==
  ASSUME IInv, MessageInv, KeepsMessages
  PROVE  (MessagesOfAsked /\ TruthfulMessages /\ OneAnswerInPlace)'
<1>1. \A k \in 1..Len(chat) : chat[k] \in ChatMessage
  BY DEF IInv, TypeOK
<1>2. MessagesOfAsked'
  BY <1>1 DEF MessageInv, MessagesOfAsked, KeepsMessages, ChatMessage
<1>3. OneAnswerInPlace'
  BY DEF MessageInv, OneAnswerInPlace, KeepsMessages
<1>4. TruthfulMessages'
  <2>1. SUFFICES ASSUME NEW k \in 1..Len(chat), chat[k].text # "prompt"
                 PROVE
    /\ chat[k].text \in {"beforeStaging", "beforeExecution", "reply"}
         => launches'[chat[k].about] = 0
    /\ chat[k].text = "exit0" => launches'[chat[k].about] = 1
    /\ chat[k].text \in Outcomes =>
         audit'[chat[k].about] = chat[k].text /\ exit'[chat[k].about] = chat[k].text
    BY DEF TruthfulMessages, KeepsMessages, Outcomes
  <2>2. chat[k].about \in Call /\ ~(chat[k].about = pend.id /\ ~Answered)
    BY <1>1, <2>1 DEF MessageInv, Unanswered, ChatMessage
  <2>3. QED
    BY <2>1, <2>2 DEF MessageInv, TruthfulMessages, KeepsMessages
<1>5. QED
  BY <1>2, <1>3, <1>4

\* A message appended in its place, and true, keeps them too.
LEMMA AppendedMessage ==
  ASSUME IInv, MessageInv, NEW m \in ChatMessage,
         chat' = Append(chat, m),
         \A i \in Call : frozen[i] # Absent => frozen'[i] # Absent,
         frozen'[m.about] # Absent,
         UNCHANGED <<audit, exit, launches>>,
         m.text # "prompt" =>
           /\ chat # << >> /\ chat[Len(chat)].text = "prompt"
           /\ \A k \in 1..Len(chat) :
                chat[k].text # "prompt" => chat[k].about # m.about
           /\ m.text \in {"beforeStaging", "beforeExecution", "reply"}
                => launches[m.about] = 0
           /\ m.text = "exit0" => launches[m.about] = 1
           /\ m.text \in Outcomes =>
                audit[m.about] = m.text /\ exit[m.about] = m.text
  PROVE  (MessagesOfAsked /\ TruthfulMessages /\ OneAnswerInPlace)'
<1>1. /\ chat \in Seq(ChatMessage)
      /\ \A k \in 1..Len(chat) : chat[k] \in ChatMessage
  BY DEF IInv, TypeOK
<1>2. /\ Len(chat') = Len(chat) + 1 /\ Len(chat) \in Nat
      /\ \A k \in 1..Len(chat) : chat'[k] = chat[k]
      /\ chat'[Len(chat) + 1] = m
  BY <1>1
<1>3. MessagesOfAsked'
  BY <1>1, <1>2 DEF MessageInv, MessagesOfAsked, ChatMessage
<1>4. TruthfulMessages'
  BY <1>2 DEF MessageInv, TruthfulMessages, Outcomes
<1>5. OneAnswerInPlace'
  <2>1. chat # << >> => Len(chat) > 0
    BY <1>1
  <2>2. SUFFICES ASSUME NEW k \in 1..Len(chat) + 1, chat'[k].text # "prompt"
                 PROVE  /\ k > 1 /\ chat'[k - 1].text = "prompt"
                        /\ \A l \in 1..Len(chat) + 1 :
                             chat'[l].text # "prompt"
                             /\ chat'[l].about = chat'[k].about => l = k
    BY <1>2 DEF OneAnswerInPlace
  <2>3. CASE k = Len(chat) + 1
    BY <1>2, <2>1, <2>2, <2>3
  <2>4. CASE k \in 1..Len(chat)
    <3>1. /\ k > 1 /\ chat[k - 1].text = "prompt" /\ k - 1 \in 1..Len(chat)
          /\ \A l \in 1..Len(chat) :
               chat[l].text # "prompt" /\ chat[l].about = chat[k].about => l = k
      BY <1>2, <2>2, <2>4 DEF MessageInv, OneAnswerInPlace
    <3>2. QED
      BY <1>2, <2>2, <2>4, <3>1
  <2>5. QED
    BY <1>2, <2>3, <2>4
<1>6. QED
  BY <1>3, <1>4, <1>5

\* A claimed record has a position in the chat, and an identifier.
LEMMA PositionFacts ==
  ASSUME IInv
  PROVE  /\ Len(chat) \in Nat /\ pend.count \in Nat
         /\ pend.id \in Call \cup {Absent} /\ run.id \in Call \cup {Absent}
         /\ pend.state # "none" <=> pend.id \in Call
         /\ chat # << >> <=> Len(chat) > 0
         /\ \A k \in 1..Len(chat) : chat[k].about \in Call
<1>1. chat \in Seq(ChatMessage) /\ \A k \in 1..Len(chat) : chat[k] \in ChatMessage
  BY DEF IInv, TypeOK
<1>2. QED
  BY <1>1, CallAssumption
  DEF IInv, TypeOK, RecordInv, PendingRecord, RunValue, ChatMessage

\* The staging, the supervisor, a boot and a reset leave the chat alone, and
\* record something only of a call that has no answer yet.
LEMMA StagingKeeps ==
  ASSUME IInv, MessageInv, Staging
  PROVE  KeepsMessages
<1>1. pc \in StagingSteps
  BY DEF Staging, Prepare, PrepareRefused, StartAudit, StartAuditRefused,
         WriteRequest, CommitRequest, PersistRun, SelectPython, Cancel,
         StagingRefused, StageStep, StagingSteps
<1>2. ~Answered
  BY <1>1, PositionFacts DEF MessageInv, Position, Answered
<1>3. chat' = chat /\ frozen' = frozen /\ UNCHANGED <<launches, exit>>
  BY DEF Staging, Prepare, PrepareRefused, StartAudit, StartAuditRefused,
         WriteRequest, CommitRequest, PersistRun, SelectPython, Cancel,
         StagingRefused, StageStep, durable, history
<1>4. audit' \in {audit} \cup {[audit EXCEPT ![pend.id] = e] :
                                 e \in {"running", "canceled", "failed"}}
  BY DEF Staging, Prepare, PrepareRefused, StartAudit, StartAuditRefused,
         WriteRequest, CommitRequest, PersistRun, SelectPython, Cancel,
         StagingRefused, AuditFailure, durable
<1>5. \A i \in Call : i # pend.id => audit'[i] = audit[i]
  BY <1>4 DEF IInv, TypeOK
<1>6. QED
  BY <1>2, <1>3, <1>5 DEF KeepsMessages

\* The supervisor runs the script of a call that has no answer yet.
LEMMA SupervisorKeeps ==
  ASSUME IInv, MessageInv, Supervisor
  PROVE  KeepsMessages
<1>1. chat' = chat /\ frozen' = frozen /\ audit' = audit
  BY DEF Supervisor, LeavePython, PreselectCardMind, Claim, Execute,
         ExecuteRefused, Interrupt, WriteResult, PublishResult, CompleteRun,
         SupervisorRefused, durable
<1>2. CASE pc = "execute"
  <2>1. run.id = pend.id /\ ~Answered
    BY <1>2 DEF IInv, RunInv, RunHasOwner, RunFound, MessageInv, AnswerEndsRun,
                ExecutionSteps
  <2>2. \A i \in Call : i # run.id =>
          launches'[i] = launches[i] /\ exit'[i] = exit[i]
    BY <1>2
    DEF IInv, TypeOK, Supervisor, LeavePython, PreselectCardMind, Claim,
        Execute, ExecuteRefused, Interrupt, WriteResult, PublishResult,
        CompleteRun, SupervisorRefused, StageStep, history
  <2>3. QED
    BY <1>1, <2>1, <2>2 DEF KeepsMessages
<1>3. CASE pc # "execute"
  <2>1. UNCHANGED <<launches, exit>>
    BY <1>3
    DEF Supervisor, LeavePython, PreselectCardMind, Claim, Execute,
        ExecuteRefused, Interrupt, WriteResult, PublishResult, CompleteRun,
        SupervisorRefused, StageStep, history
  <2>2. QED
    BY <1>1, <2>1 DEF KeepsMessages
<1>4. QED
  BY <1>2, <1>3

\* The startup's audit event repeats a result it recorded before.
LEMMA StartupKeeps ==
  ASSUME IInv, MessageInv, Startup, chat' = chat
  PROVE  KeepsMessages
<1>1. frozen' = frozen /\ UNCHANGED <<launches, exit>>
  BY DEF Startup, StartupWithoutClaim, StartupAudit, StartupRejects, Attach,
         AttachRejects, MarkWebReturn, EraseRun, StartupClear, StartupClean,
         StartupRefused, durable, history
<1>2. CASE StartupAudit
  <2>1. \A i \in Call : audit[i] \in Outcomes => audit'[i] = audit[i]
    BY <1>2
    DEF IInv, TypeOK, StartupAudit, Unrecoverable, Outcomes
  <2>2. QED
    BY <1>1, <2>1 DEF KeepsMessages
<1>3. CASE ~StartupAudit
  <2>1. audit' = audit
    BY <1>3
    DEF Startup, StartupWithoutClaim, StartupRejects, Attach, AttachRejects,
        MarkWebReturn, EraseRun, StartupClear, StartupClean, StartupRefused,
        durable
  <2>2. QED
    BY <1>1, <2>1 DEF KeepsMessages
<1>4. QED
  BY <1>2, <1>3

\* The user and the model record nothing of a call.
LEMMA ConversationKeeps ==
  ASSUME IInv, MessageInv, Conversation \/ Continuation \/ Boot \/ Crash,
         chat' = chat
  PROVE  KeepsMessages
<1>1. UNCHANGED <<audit, launches, exit>>
  BY DEF Conversation, Ask, EditSource, EditInPython, ClearHistory, Approve,
         Deny, Acknowledge, PowerCycle, EnterManualPython, AcknowledgeWeb,
         Continuation, Reply, ReplaceTerminal, ReplyRefused, ClearPending,
         ClearRefused, Boot, Crash, durable, history
<1>2. frozen' = frozen \/ \E j \in Call : frozen' = [frozen EXCEPT ![j] = source]
  BY DEF Conversation, Ask, EditSource, EditInPython, ClearHistory, Approve,
         Deny, Acknowledge, PowerCycle, EnterManualPython, AcknowledgeWeb,
         Continuation, Reply, ReplaceTerminal, ReplyRefused, ClearPending,
         ClearRefused, Boot, Crash, durable, history
<1>3. \A i \in Call : frozen[i] # Absent => frozen'[i] # Absent
  BY <1>2, CallAssumption DEF IInv, TypeOK
<1>4. QED
  BY <1>1, <1>3 DEF KeepsMessages

\* The prompt of a call never asked before.
LEMMA AskMessages ==
  ASSUME IInv, MessageInv, NEW i \in Call, Ask(i)
  PROVE  (MessagesOfAsked /\ TruthfulMessages /\ OneAnswerInPlace)'
<1>1. Message("prompt", i) \in ChatMessage /\ Message("prompt", i).about = i
      /\ Message("prompt", i).text = "prompt"
  BY DEF Message, ChatMessage, Texts
<1>2. frozen'[i] # Absent /\ \A j \in Call : frozen[j] # Absent => frozen'[j] # Absent
  BY CallAssumption DEF IInv, TypeOK, Ask
<1>3. chat' = Append(chat, Message("prompt", i)) /\ UNCHANGED <<audit, exit, launches>>
  BY DEF Ask, history
<1>4. QED
  BY <1>1, <1>2, <1>3, AppendedMessage

\* The model's answer to a call that was denied or failed before it started.
LEMMA ReplyMessages ==
  ASSUME IInv, MessageInv, Reply
  PROVE  (MessagesOfAsked /\ TruthfulMessages /\ OneAnswerInPlace)'
<1>1. pend.id \in Call /\ pend.state # "none" /\ run.state = "none"
      /\ frozen[pend.id] # Absent
  BY CallAssumption
  DEF IInv, TypeOK, RecordInv, RunInv, PendingRecord, Reply, StageStep
<1>2. /\ Message("reply", pend.id) \in ChatMessage
      /\ Message("reply", pend.id).about = pend.id
      /\ Message("reply", pend.id).text = "reply"
  BY <1>1 DEF Message, ChatMessage, Texts
<1>3. /\ Len(chat) = pend.count /\ Len(chat) >= 1
      /\ chat[Len(chat)].text = "prompt" /\ ~Answered
  BY <1>1, PositionFacts DEF MessageInv, Position, Answered, Reply
<1>4. launches[pend.id] = 0
  BY <1>1, <1>3 DEF MessageInv, Evidence
<1>5. \A k \in 1..Len(chat) : chat[k].text # "prompt" => chat[k].about # pend.id
  BY <1>3 DEF MessageInv, Unanswered
<1>6. /\ chat' = Append(chat, Message("reply", pend.id))
      /\ UNCHANGED <<audit, exit, launches, frozen>>
  BY DEF Reply, history
<1>7. QED
  BY <1>1, <1>2, <1>3, <1>4, <1>5, <1>6, PositionFacts, AppendedMessage DEF Outcomes

\* The message the startup attaches says what the run value proves.
LEMMA AttachMessages ==
  ASSUME IInv, MessageInv, Attach
  PROVE  (MessagesOfAsked /\ TruthfulMessages /\ OneAnswerInPlace)'
<1>1. CASE chat' = chat
  <2>1. Startup
    BY DEF Startup
  <2>2. QED
    BY <1>1, <2>1, StartupKeeps, KeptMessages
<1>2. CASE chat' # chat
  <2>1. /\ Attachable
        /\ chat' = Append(chat, Message(RecoveryText, pend.id))
        /\ UNCHANGED <<audit, exit, launches, frozen>>
        /\ pc = "attach"
    BY <1>2 DEF Attach, StageStep, history
  <2>2. /\ pend.id \in Call /\ pend.state = "claimed"
        /\ frozen[pend.id] # Absent
        /\ RecoveryText \in Texts
    BY <2>1, RecoveryTextType, CallAssumption
    DEF IInv, RecordInv
  <2>3. /\ Message(RecoveryText, pend.id) \in ChatMessage
        /\ Message(RecoveryText, pend.id).about = pend.id
        /\ Message(RecoveryText, pend.id).text = RecoveryText
    BY <2>2 DEF Message, ChatMessage
  <2>4. /\ Len(chat) = pend.count /\ Len(chat) >= 1
        /\ chat[Len(chat)].text = "prompt" /\ ~Answered
    BY <2>1, <2>2, PositionFacts DEF MessageInv, Position, Answered, Attachable
  <2>5. \A k \in 1..Len(chat) : chat[k].text # "prompt" => chat[k].about # pend.id
    BY <2>4 DEF MessageInv, Unanswered
  <2>6. RecoveryText \in {"beforeStaging", "beforeExecution", "reply"}
          => launches[pend.id] = 0
    <3>1. ASSUME launches[pend.id] # 0
          PROVE  run.state \in {"claimed", "complete"}
      BY <2>2, <2>4, <3>1 DEF MessageInv, Evidence
    <3>2. ASSUME run.state \in {"claimed", "complete"}
          PROVE  RecoveryText \notin {"beforeStaging", "beforeExecution", "reply"}
      BY <3>2 DEF IInv, RunInv, RunHasOwner, ResultInv, CompleteHasResult,
                  RecoveryText, RunFound, AttachedText, Outcomes,
                  DetachedResult, Unexplained
    <3>3. QED
      BY <3>1, <3>2
  <2>7. RecoveryText \in Outcomes =>
          /\ exit[pend.id] = RecoveryText
          /\ audit[pend.id] = RecoveryText
    <3>1. ASSUME RecoveryText \in Outcomes
          PROVE  RunFound /\ exit[pend.id] = RecoveryText
      BY <2>1, <3>1
      DEF IInv, RunInv, RunHasOwner, ResultInv, CompleteHasResult,
          RecoveryText, RunFound, AttachedText, Attachable, Outcomes,
          DetachedResult, Unexplained
    <3>2. QED
      BY <2>1, <3>1 DEF MessageInv, Evidence, Terminal
  <2>8. RecoveryText = "exit0" => launches[pend.id] = 1
    BY <2>2, <2>7 DEF MessageInv, Evidence, Outcomes
  <2>9. PICK m \in ChatMessage : m = Message(RecoveryText, pend.id)
    BY <2>3
  <2>10. chat # << >>
    BY <2>4, PositionFacts
  <2>11. m.text = RecoveryText /\ m.about = pend.id
    BY <2>3, <2>9
  <2>12. frozen'[m.about] # Absent /\ chat' = Append(chat, m)
    BY <2>1, <2>2, <2>9, <2>11
  <2>13. \A i \in Call : frozen[i] # Absent => frozen'[i] # Absent
    BY <2>1
  <2>14. QED
    BY <2>1, <2>4, <2>5, <2>6, <2>7, <2>8, <2>10, <2>11, <2>12, <2>13,
       AppendedMessage
<1>3. QED
  BY <1>1, <1>2

\* The parts of MessageInv that say where the answer stands and what may follow.
Placed == Position /\ Unanswered /\ AnswerEndsRun /\ Evidence

\* Staging starts with an unanswered call that was never launched, and leaves
\* it unanswered.
LEMMA StagingPlaces ==
  ASSUME IInv, MessageInv, Staging
  PROVE  Placed'
<1>1. pc \in StagingSteps
  BY DEF Staging, Prepare, PrepareRefused, StartAudit, StartAuditRefused,
         WriteRequest, CommitRequest, PersistRun, SelectPython, Cancel,
         StagingRefused, StageStep, StagingSteps
<1>2. /\ UNCHANGED <<chat, pend, launches, exit>>
      /\ pc' \in StagingSteps \cup {"reply", "ready", "off"}
  BY DEF Staging, Prepare, PrepareRefused, StartAudit, StartAuditRefused,
         WriteRequest, CommitRequest, PersistRun, SelectPython, Cancel,
         StagingRefused, StageStep, durable, history, StagingSteps
<1>3. Len(chat) = pend.count /\ pend.state = "claimed" /\ launches[pend.id] = 0
  BY <1>1, PositionFacts
  DEF MessageInv, Position, IInv, RecordInv, LaunchInv
<1>4. ~Answered /\ ~Answered'
  BY <1>2, <1>3, PositionFacts DEF Answered
<1>5. Position'
  BY <1>2, <1>3 DEF MessageInv, Position, StagingSteps
<1>6. Unanswered' /\ AnswerEndsRun'
  BY <1>2, <1>4 DEF MessageInv, Unanswered, AnswerEndsRun
<1>7. Evidence'
  BY <1>2, <1>3 DEF MessageInv, Evidence, StagingSteps
<1>8. QED
  BY <1>5, <1>6, <1>7 DEF Placed

\* The supervisor leaves the chat and the record alone.
LEMMA SupervisorPlaces ==
  ASSUME IInv, MessageInv, Supervisor
  PROVE  Placed'
<1>1. /\ UNCHANGED <<chat, pend, audit>>
      /\ pc \in PythonSteps
      /\ pc' \in PythonSteps \cup {"off"}
  BY DEF Supervisor, LeavePython, PreselectCardMind, Claim, Execute,
         ExecuteRefused, Interrupt, WriteResult, PublishResult, CompleteRun,
         SupervisorRefused, StageStep, PythonSteps, durable
<1>2. Position' /\ Unanswered'
  BY <1>1 DEF MessageInv, Position, Unanswered, Answered, StagingSteps, PythonSteps
<1>3. AnswerEndsRun'
  <2>1. ASSUME Answered PROVE /\ pc' = "off"
                              /\ RunFound' => boot' = "cardmind"
    BY <2>1, <1>1
    DEF MessageInv, AnswerEndsRun, IInv, RunInv, RunFound, Supervisor,
        LeavePython, PreselectCardMind, Claim, Execute, ExecuteRefused,
        Interrupt, WriteResult, PublishResult, CompleteRun, SupervisorRefused,
        StageStep, PythonSteps, ExecutionSteps, durable
  <2>2. QED
    BY <1>1, <2>1 DEF AnswerEndsRun, Answered, ExecutionSteps
<1>4. Evidence'
  <2>1. CASE Execute \/ ExecuteRefused \/ Interrupt
    <3>1. pc = "execute" /\ run.id \in Call /\ run.state = "claimed"
          /\ run' = run /\ pend.id = run.id
      BY <2>1
      DEF IInv, RunInv, RunHasOwner, RunFound, RecordInv, TypeOK, RunValue,
          PendingRecord, Execute, ExecuteRefused, Interrupt, StageStep,
          ExecutionSteps, durable
    <3>2. launches[run.id] = 0
      BY <3>1 DEF IInv, LaunchInv
    <3>3. \A i \in Call : exit'[i] = "exit0" => launches'[i] = 1
      BY <2>1, <3>1, <3>2
      DEF MessageInv, Evidence, IInv, TypeOK, Execute, ExecuteRefused,
          Interrupt, Outcomes
    <3>4. QED
      BY <1>1, <3>1, <3>3 DEF Evidence, PythonSteps
  <2>2. CASE ~(Execute \/ ExecuteRefused \/ Interrupt)
    <3>1. UNCHANGED <<launches, exit>>
          /\ (run' = run \/ run'.state \in {"claimed", "complete"})
      BY <2>2
      DEF IInv, TypeOK, RunValue, Supervisor, LeavePython, PreselectCardMind,
          Claim, WriteResult, PublishResult, CompleteRun, SupervisorRefused,
          history
    <3>2. QED
      BY <1>1, <3>1 DEF MessageInv, Evidence, PythonSteps
  <2>3. QED
    BY <2>1, <2>2
<1>5. QED
  BY <1>2, <1>3, <1>4 DEF Placed

\* A reset keeps what the chat and the record say.
LEMMA ResetPlaces ==
  ASSUME IInv, MessageInv, Boot \/ Crash
  PROVE  Placed'
<1>1. /\ UNCHANGED <<chat, pend, run, boot, audit, launches, exit>>
      /\ pc' \in {"off", "supervisor", "startup"}
  BY DEF Boot, Crash, durable, history
<1>2. QED
  BY <1>1
  DEF Placed, MessageInv, Position, Unanswered, AnswerEndsRun, Evidence,
      Answered, RunFound, StagingSteps, ExecutionSteps

\* The startup answers at the position of the record, or finds its answer there.
LEMMA StartupPlaces ==
  ASSUME IInv, IInv', MessageInv, Startup
  PROVE  Placed'
<1>1. UNCHANGED <<launches, exit, boot>>
  BY DEF Startup, StartupWithoutClaim, StartupAudit, StartupRejects, Attach,
         AttachRejects, MarkWebReturn, EraseRun, StartupClear, StartupClean,
         StartupRefused, durable, history
<1>2. CASE StartupAudit
  <2>1. UNCHANGED <<chat, pend, run>> /\ pc' = "attach"
        /\ RecoveryText' = RecoveryText
    BY <1>2 DEF StartupAudit, StageStep, RecoveryText, AttachedText, RunFound,
                DetachedResult, Unexplained, history
  <2>2. RunFound => audit'[pend.id] = Terminal(RecoveryText)
    BY <1>2, PositionFacts DEF IInv, TypeOK, StartupAudit
  <2>3. QED
    BY <1>1, <2>1, <2>2
    DEF Placed, MessageInv, Position, Unanswered, AnswerEndsRun, Evidence,
        Answered, RunFound, StagingSteps, ExecutionSteps, Terminal
<1>3. CASE Attach
  <2>1. /\ UNCHANGED <<pend, run>> /\ pc = "attach" /\ pc' = "finalize"
        /\ pend.state = "claimed"
    BY <1>3 DEF IInv, RecordInv, Attach, StageStep
  <2>2. Len(chat') = pend.count + 1
    BY <1>3, PositionFacts DEF IInv, TypeOK, Attach, Attachable, AlreadyAttached
  <2>3. Answered'
    BY <2>1, <2>2 DEF Answered
  <2>4. boot = "cardmind"
    BY <2>1 DEF IInv, RunInv, TypeOK
  <2>5. QED
    BY <1>1, <2>1, <2>2, <2>3, <2>4, PositionFacts
    DEF Placed, MessageInv, Position, Unanswered, AnswerEndsRun, Evidence,
        StagingSteps, ExecutionSteps
<1>4. CASE MarkWebReturn
  BY <1>4
  DEF MarkWebReturn, StageStep, history,
      Placed, MessageInv, Position, Unanswered, AnswerEndsRun, Evidence,
      Answered, RunFound, StagingSteps, ExecutionSteps
<1>5. CASE EraseRun
  BY <1>5, PositionFacts
  DEF EraseRun, StageStep, history, NoRun, IInv, RecordInv,
      Placed, MessageInv, Position, Unanswered, AnswerEndsRun, Evidence,
      Answered, RunFound, StagingSteps, ExecutionSteps
<1>6. CASE StartupClear \/ StartupClean
  BY <1>6, PositionFacts, CallAssumption
  DEF StartupClear, StartupClean, StageStep, history, NoPending, IInv, RecordInv,
      Placed, MessageInv, Position, Unanswered, AnswerEndsRun, Evidence,
      Answered, RunFound, StagingSteps, ExecutionSteps, RunInv
<1>7. CASE StartupWithoutClaim
  BY <1>7, PositionFacts, CallAssumption
  DEF StartupWithoutClaim, StageStep, history, NoRun, IInv, RecordInv,
      Placed, MessageInv, Position, Unanswered, AnswerEndsRun, Evidence,
      Answered, RunFound, StagingSteps, ExecutionSteps, RunInv
<1>8. CASE StartupRejects \/ AttachRejects \/ StartupRefused
  BY <1>8
  DEF StartupRejects, AttachRejects, StartupRefused, StageStep, history, durable,
      Placed, MessageInv, Position, Unanswered, AnswerEndsRun, Evidence,
      Answered, RunFound, StagingSteps, ExecutionSteps, RunInv
<1>9. QED
  BY <1>2, <1>3, <1>4, <1>5, <1>6, <1>7, <1>8 DEF Startup

\* The model's answer ends the decision; a replaced record starts a new one.
LEMMA ContinuationPlaces ==
  ASSUME IInv, MessageInv, Continuation
  PROVE  Placed'
<1>1. CASE Reply
  <2>1. Len(chat') = pend.count + 1
    BY <1>1, PositionFacts DEF IInv, TypeOK, Reply
  <2>2. pend.state # "none" /\ run.state = "none"
    BY <1>1 DEF IInv, RecordInv, RunInv, Reply, StageStep
  <2>3. QED
    BY <1>1, <2>1, <2>2, PositionFacts
    DEF Reply, StageStep, history, Placed, MessageInv, Position, Unanswered, AnswerEndsRun,
        Evidence, Answered, RunFound, StagingSteps, ExecutionSteps
<1>2. ASSUME NEW j \in Call, ReplaceTerminal(j) PROVE Placed'
  <2>1. /\ Len(chat) = pend.count /\ Len(chat) >= 1
        /\ chat[Len(chat)].text = "prompt"
    BY <1>2, PositionFacts
    DEF ReplaceTerminal, IInv, RecordInv, MessageInv, Position
  <2>2. /\ pend'.count = Len(chat) /\ pend'.id = j /\ pc' = "ready"
        /\ pend'.state = "awaiting" /\ UNCHANGED <<chat, launches, exit, run, audit, boot>>
    BY <1>2 DEF ReplaceTerminal, Awaiting, Stored, history
  <2>3. launches[j] = 0
    BY <1>2 DEF IInv, LaunchInv, ReplaceTerminal
  <2>4. \A k \in 1..Len(chat) : chat[k].about # j
    BY <1>2 DEF MessageInv, MessagesOfAsked, ReplaceTerminal
  <2>5. QED
    BY <2>1, <2>2, <2>3, <2>4, PositionFacts
    DEF Placed, MessageInv, Position, Unanswered, AnswerEndsRun,
        Evidence, Answered, RunFound, StagingSteps, ExecutionSteps
<1>3. CASE ReplyRefused \/ ClearPending \/ ClearRefused
  BY <1>3, PositionFacts, CallAssumption
  DEF ReplyRefused, ClearPending, ClearRefused, StageStep, history, durable,
      NoPending, Placed, MessageInv, Position, Unanswered, AnswerEndsRun,
      Evidence, Answered, RunFound, StagingSteps, ExecutionSteps, IInv, RunInv
<1>4. QED
  BY <1>1, <1>2, <1>3 DEF Continuation

\* A prompt starts a new position; nothing else the user does moves one except
\* emptying the chat, after which the record cannot be answered.
LEMMA ConversationPlaces ==
  ASSUME IInv, MessageInv, Conversation
  PROVE  Placed'
<1>1. ASSUME NEW i \in Call, Ask(i) PROVE Placed'
  <2>1. /\ Len(chat') = Len(chat) + 1
        /\ chat'[Len(chat) + 1].text = "prompt"
        /\ \A k \in 1..Len(chat) : chat'[k] = chat[k]
    <3>1. Message("prompt", i) \in ChatMessage /\ Message("prompt", i).text = "prompt"
      BY DEF Message, ChatMessage, Texts
    <3>2. QED
      BY <1>1, <3>1 DEF IInv, TypeOK, Ask
  <2>2. /\ pend'.count = Len(chat) + 1 /\ pend'.id = i /\ pc' = "ready"
        /\ pend'.state = "awaiting" /\ UNCHANGED <<launches, exit, run, audit, boot>>
    BY <1>1 DEF Ask, Awaiting, Stored, history
  <2>3. launches[i] = 0
    BY <1>1 DEF IInv, LaunchInv, Ask
  <2>4. \A k \in 1..Len(chat) : chat[k].about # i
    BY <1>1 DEF MessageInv, MessagesOfAsked, Ask
  <2>5. \A k \in 1..Len(chat') : chat'[k].text # "prompt" => chat'[k].about # i
    BY <2>1, <2>4, PositionFacts
  <2>6. QED
    BY <2>1, <2>2, <2>3, <2>5, PositionFacts
    DEF Placed, MessageInv, Position, Unanswered, AnswerEndsRun,
        Evidence, Answered, RunFound, StagingSteps, ExecutionSteps
<1>2. CASE ClearHistory
  <2>1. Len(chat') = 0
    BY <1>2 DEF ClearHistory
  <2>2. UNCHANGED <<pend, run, boot, audit, launches, exit>> /\ pc' = "ready"
    BY <1>2 DEF ClearHistory, history
  <2>3. QED
    BY <2>1, <2>2, PositionFacts
    DEF Placed, MessageInv, Position, Unanswered, AnswerEndsRun,
        Evidence, Answered, RunFound, StagingSteps, ExecutionSteps
<1>3. CASE Approve \/ Deny
  <2>1. /\ Len(chat) = pend.count /\ pend.state = "awaiting"
        /\ pend'.count = pend.count /\ pend'.id = pend.id
        /\ pend'.state # "none"
        /\ UNCHANGED <<chat, run, boot, audit, launches, exit>>
        /\ pc' \in {"prepare", "reply", "ready"}
    BY <1>3 DEF IInv, TypeOK, PendingRecord, Approve, Deny, Stored,
                IdentityCurrent, history
  <2>2. launches[pend.id] = 0
    BY <2>1, PositionFacts DEF IInv, LaunchInv
  <2>3. QED
    BY <2>1, <2>2, PositionFacts
    DEF Placed, MessageInv, Position, Unanswered, AnswerEndsRun,
        Evidence, Answered, RunFound, StagingSteps, ExecutionSteps
<1>4. CASE Acknowledge
  BY <1>4, PositionFacts, CallAssumption
  DEF Acknowledge, NoPending, history, Placed, MessageInv, Position,
      Unanswered, AnswerEndsRun, Evidence, Answered, RunFound, StagingSteps,
      ExecutionSteps
<1>5. CASE PowerCycle \/ EnterManualPython \/ AcknowledgeWeb
           \/ \E v \in Source : EditSource(v) \/ EditInPython(v)
  <2>1. /\ UNCHANGED <<chat, pend, run, audit, launches, exit>>
        /\ pc' \in {"off", "ready", "supervisor"}
        /\ RunFound => boot' = boot
    BY <1>5 DEF PowerCycle, EnterManualPython, AcknowledgeWeb, EditSource,
                EditInPython, StageStep, RunFound, durable, history
  <2>2. QED
    BY <2>1
    DEF Placed, MessageInv, Position, Unanswered, AnswerEndsRun, Evidence,
        Answered, RunFound, StagingSteps, ExecutionSteps
<1>6. QED
  BY <1>1, <1>2, <1>3, <1>4, <1>5 DEF Conversation

\* Before the first prompt there is nothing to misreport.
LEMMA InitMessages == Init => MessageInv
<1> SUFFICES ASSUME Init PROVE MessageInv
  OBVIOUS
<1>1. Len(chat) = 0 /\ \A k \in 1..Len(chat) : FALSE
  BY DEF Init
<1>2. /\ pend.state = "none" /\ pc = "off"
      /\ \A i \in Call : exit[i] # "exit0" /\ launches[i] = 0
      /\ ~Answered
  BY <1>1, ResultAssumption DEF Init, NoPending, Answered
<1>3. MessagesOfAsked /\ Unanswered /\ TruthfulMessages /\ OneAnswerInPlace
  BY <1>1 DEF MessagesOfAsked, Unanswered, TruthfulMessages, OneAnswerInPlace
<1>4. Position /\ AnswerEndsRun /\ Evidence
  BY <1>2 DEF Position, AnswerEndsRun, Evidence, StagingSteps
<1>5. QED
  BY <1>3, <1>4 DEF MessageInv

\* Every step keeps the messages true and in place.
LEMMA NextMessages == IInv /\ IInv' /\ MessageInv /\ [Next]_vars => MessageInv'
<1> SUFFICES ASSUME IInv, IInv', MessageInv, [Next]_vars PROVE MessageInv'
  OBVIOUS
<1> DEFINE Kept == (MessagesOfAsked /\ TruthfulMessages /\ OneAnswerInPlace)'
<1>1. CASE UNCHANGED vars
  BY <1>1
  DEF vars, durable, history, MessageInv, MessagesOfAsked, Position, Unanswered,
      AnswerEndsRun, Evidence, TruthfulMessages, OneAnswerInPlace, Answered,
      RunFound, RecoveryText, AttachedText, DetachedResult, Unexplained,
      Terminal
<1>2. CASE Staging
  BY <1>2, StagingKeeps, KeptMessages, StagingPlaces DEF MessageInv, Placed
<1>3. CASE Supervisor
  BY <1>3, SupervisorKeeps, KeptMessages, SupervisorPlaces DEF MessageInv, Placed
<1>4. CASE Boot \/ Crash
  <2>1. chat' = chat
    BY <1>4 DEF Boot, Crash, durable
  <2>2. QED
    BY <1>4, <2>1, ConversationKeeps, KeptMessages, ResetPlaces
    DEF MessageInv, Placed
<1>5. CASE Startup
  <2>1. Kept
    <3>1. CASE Attach
      BY <3>1, AttachMessages
    <3>2. CASE ~Attach
      <4>1. chat' = chat
        BY <1>5, <3>2
        DEF Startup, StartupWithoutClaim, StartupAudit, StartupRejects,
            AttachRejects, MarkWebReturn, EraseRun, StartupClear, StartupClean,
            StartupRefused, durable
      <4>2. QED
        BY <1>5, <4>1, StartupKeeps, KeptMessages
    <3>3. QED
      BY <3>1, <3>2
  <2>2. QED
    BY <1>5, <2>1, StartupPlaces DEF MessageInv, Placed
<1>6. CASE Continuation
  <2>1. Kept
    <3>1. CASE Reply
      BY <3>1, ReplyMessages
    <3>2. CASE ~Reply
      <4>1. chat' = chat
        BY <1>6, <3>2
        DEF Continuation, ReplaceTerminal, ReplyRefused, ClearPending,
            ClearRefused, durable
      <4>2. QED
        BY <1>6, <4>1, ConversationKeeps, KeptMessages
    <3>3. QED
      BY <3>1, <3>2
  <2>2. QED
    BY <1>6, <2>1, ContinuationPlaces DEF MessageInv, Placed
<1>7. CASE Conversation
  <2>1. Kept
    <3>1. ASSUME NEW i \in Call, Ask(i) PROVE Kept
      BY <3>1, AskMessages
    <3>2. CASE ClearHistory
      BY <3>2 DEF ClearHistory, MessagesOfAsked, TruthfulMessages, OneAnswerInPlace
    <3>3. CASE ~(ClearHistory \/ \E i \in Call : Ask(i))
      <4>1. chat' = chat
        BY <1>7, <3>3
        DEF Conversation, EditSource, EditInPython, Approve, Deny, Acknowledge,
            PowerCycle, EnterManualPython, AcknowledgeWeb, durable
      <4>2. QED
        BY <1>7, <4>1, ConversationKeeps, KeptMessages
    <3>4. QED
      BY <3>1, <3>2, <3>3
  <2>2. QED
    BY <1>7, <2>1, ConversationPlaces DEF MessageInv, Placed
<1>8. QED
  BY <1>1, <1>2, <1>3, <1>4, <1>5, <1>6, <1>7 DEF Next

\* What the chat says of a call stays inductive, given the first invariant.
THEOREM MessageInvariant == Spec => []MessageInv
<1>1. Init => MessageInv
  BY InitMessages
<1>2. IInv /\ IInv' /\ MessageInv /\ [Next]_vars => MessageInv'
  BY NextMessages
<1>3. QED
  BY <1>1, <1>2, RunInvariant, PTL DEF Spec

\* No message misreports the device, now or after anything that happens later.
THEOREM MessagesAreTruthful == Spec => []TruthfulMessages
<1>1. MessageInv => TruthfulMessages
  BY DEF MessageInv
<1>2. QED
  BY <1>1, MessageInvariant, PTL

\* A call is answered at most once, directly after the prompt it answers.
THEOREM AnsweredOnceInPlace == Spec => []OneAnswerInPlace
<1>1. MessageInv => OneAnswerInPlace
  BY DEF MessageInv
<1>2. QED
  BY <1>1, MessageInvariant, PTL
=============================================================================
