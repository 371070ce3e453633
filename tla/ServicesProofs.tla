---------------------------- MODULE ServicesProofs ----------------------------
(***************************************************************************)
(* Proofs about the services of MCServices that keep their state between   *)
(* two commands: the files that are replaced atomically, the firmware      *)
(* update, the session of the web console, the settings, the fixtures of   *)
(* the diagnostics and the files of a project.  A step of the whole is a   *)
(* step of one service (Frames), so that what each service keeps to is     *)
(* proved of its own actions.  ConversationProofs has the services that    *)
(* talk to another host.                                                   *)
(***************************************************************************)
EXTENDS MCServices, Sequences, TLAPS

\* A step of all services is one of each service, or leaves it alone.
LEMMA Frames ==
  [ServicesNext]_allVars =>
    /\ [Firmware!Next]_firmwareVars /\ [Web!Next]_webVars /\ [Settings!Next]_setVars
    /\ [Sftp!Next]_sftpVars /\ [Files!Next]_filesVars
    /\ [Unicode!Next]_uniVars /\ [Large!Next]_bigVars /\ [Shared!Next]_sharedVars
    /\ [Context!Next]_contextVars /\ [Speech!Next]_sayVars /\ [Model!Next]_answerVars
<1> SUFFICES ASSUME [ServicesNext]_allVars
             PROVE  /\ [Firmware!Next]_firmwareVars /\ [Web!Next]_webVars
                    /\ [Settings!Next]_setVars
                    /\ [Sftp!Next]_sftpVars /\ [Files!Next]_filesVars
                    /\ [Unicode!Next]_uniVars /\ [Large!Next]_bigVars
                    /\ [Shared!Next]_sharedVars
                    /\ [Context!Next]_contextVars /\ [Speech!Next]_sayVars
                    /\ [Model!Next]_answerVars
  OBVIOUS
<1>1. CASE UNCHANGED allVars
  BY <1>1 DEF allVars, fixtureVars
<1>2. CASE AtomicStep
  BY <1>2 DEF AtomicStep, fixtureVars
<1>3. CASE SftpStep
  BY <1>3 DEF SftpStep, fixtureVars
<1>4. CASE WebStep
  BY <1>4 DEF WebStep, fixtureVars
<1>5. CASE ContextStep
  BY <1>5 DEF ContextStep, fixtureVars
<1>6. CASE FilesStep
  BY <1>6 DEF FilesStep, fixtureVars
<1>7. CASE FirmwareStep
  BY <1>7 DEF FirmwareStep, fixtureVars
<1>8. CASE UnicodeStep
  BY <1>8 DEF UnicodeStep, fixtureVars
<1>9. CASE LargeStep
  BY <1>9 DEF LargeStep, fixtureVars
<1>10. CASE SharedStep
  BY <1>10 DEF SharedStep, fixtureVars
<1>11. CASE SettingsStep
  BY <1>11 DEF SettingsStep, fixtureVars
<1>12. CASE VoiceStep
  BY <1>12 DEF VoiceStep, fixtureVars
<1>13. CASE AnswerStep
  BY <1>13 DEF AnswerStep, fixtureVars
<1> QED
  BY <1>1, <1>2, <1>3, <1>4, <1>5, <1>6, <1>7, <1>8, <1>9, <1>10, <1>11, <1>12, <1>13
     DEF ServicesNext

-----------------------------------------------------------------------------
(* AtomicFile.  It implements AtomicRegister for every set of documents.   *)
(* IInv says, for each step of the protocol, which of the three names holds*)
(* what; with it a step either leaves Recovered alone or replaces it by the*)
(* requested document.                                                     *)

\* The protocol starts from an empty directory.
LEMMA InitIInv == Init => IInv
  BY MarkersDistinct
  DEF Init, IInv, TypeOK, StepInv, SuccessLeavesOneCopy, Steps

\* Every call on the card, refusal and power loss preserves IInv.
LEMMA NextIInv == IInv /\ [Next]_vars => IInv'
  <1> SUFFICES ASSUME IInv, [Next]_vars PROVE IInv'
    OBVIOUS
  <1> USE MarkersDistinct
      DEF IInv, TypeOK, StepInv, SuccessLeavesOneCopy, Steps
  <1>1. ASSUME NEW g \in Content \cup {Missing}, Start(g) PROVE IInv'
    BY <1>1 DEF Start, disk
  <1>2. CASE Recover
    <2>1. CASE RecoverDropTmp
      BY <2>1 DEF RecoverDropTmp, Goto
    <2>2. CASE RecoverDropBak
      BY <2>2 DEF RecoverDropBak, Goto
    <2>3. CASE RecoverRestore
      BY <2>3 DEF RecoverRestore, Goto
    <2>4. CASE RecoverTmp
      BY <2>4 DEF RecoverTmp, Goto
    <2>5. QED
      BY <1>2, <2>1, <2>2, <2>3, <2>4 DEF Recover
  <1>3. CASE Remove \/ ConfirmRemoved
    BY <1>3 DEF Remove, ConfirmRemoved, Goto, Return, disk
  <1>4. CASE Write
    <2>1. CASE StageTmp
      BY <2>1 DEF StageTmp, Goto
    <2>2. CASE VerifyTmp
      BY <2>2 DEF VerifyTmp, Goto, disk
    <2>3. CASE RejectTmp
      BY <2>3 DEF RejectTmp, Return, ReturnErrorDroppingTmp
    <2>4. QED
      BY <1>4, <2>1, <2>2, <2>3 DEF Write
  <1>5. CASE Commit
    <2>1. CASE CommitDropBak
      BY <2>1 DEF CommitDropBak, Goto
    <2>2. CASE CommitStage
      BY <2>2 DEF CommitStage
    <2>3. CASE CommitPublish
      BY <2>3 DEF CommitPublish, Goto
    <2>4. CASE CommitClean
      BY <2>4 DEF CommitClean, Return
    <2>5. CASE CommitRollback
      BY <2>5 DEF CommitRollback, Return, ReturnErrorDroppingTmp
    <2>6. QED
      BY <1>5, <2>1, <2>2, <2>3, <2>4, <2>5 DEF Commit
  <1>6. CASE Refuse
    BY <1>6 DEF Refuse, Return
  <1>7. CASE RefuseEarly
    BY <1>7 DEF RefuseEarly, Return, ReturnErrorDroppingTmp
  <1>8. CASE Crash
    BY <1>8 DEF Crash, Return
  <1>9. CASE UNCHANGED vars
    BY <1>9 DEF vars
  <1>10. QED
    BY <1>1, <1>2, <1>3, <1>4, <1>5, <1>6, <1>7, <1>8, <1>9 DEF Next

\* The state of the three names is always one the next operation can handle:
\* whatever call was refused or interrupted before, the types and the step
\* facts of the protocol hold.
THEOREM ProtocolInvariant == Spec => []IInv
  <1>1. QED
    BY InitIInv, NextIInv, PTL DEF Spec

\* While the target is away the previous and the next document are both whole.
THEOREM CommitKeepsBothCopies == Spec => []BothCopiesDuringCommit
  <1>1. IInv => BothCopiesDuringCommit
    BY DEF IInv, TypeOK, StepInv, BothCopiesDuringCommit
  <1>2. QED
    BY <1>1, ProtocolInvariant, PTL

\* A success report leaves exactly one copy of the file on the card.
THEOREM SuccessIsClean == Spec => []SuccessLeavesOneCopy
  <1>1. IInv => SuccessLeavesOneCopy
    BY DEF IInv, StepInv
  <1>2. QED
    BY <1>1, ProtocolInvariant, PTL

\* Each step of the protocol is a step of the register, or none.
LEMMA StepRefines == IInv /\ [Next]_vars => [Register!RegisterNext]_(Register!rvars)
  <1> SUFFICES ASSUME IInv, [Next]_vars
               PROVE  [Register!RegisterNext]_(Register!rvars)
    OBVIOUS
  <1> USE MarkersDistinct DEF IInv, TypeOK, StepInv, Recovered,
        Register!RegisterNext, Register!rvars
  <1>1. ASSUME NEW g \in Content \cup {Missing}, Start(g)
        PROVE  Register!Ask(g)
    BY <1>1 DEF Start, Register!Ask, disk
  <1>2. CASE Recover
    BY <1>2 DEF Recover, RecoverDropTmp, RecoverDropBak, RecoverRestore,
                RecoverTmp, Goto
  <1>3. CASE Remove
    BY <1>3 DEF Remove, Goto, Register!TakeEffect
  <1>4. CASE ConfirmRemoved
    BY <1>4 DEF ConfirmRemoved, Return, disk, Register!Succeed
  <1>5. CASE Write
    BY <1>5 DEF Write, StageTmp, VerifyTmp, RejectTmp, Goto, Return,
                ReturnErrorDroppingTmp, disk, Register!GiveUp
  <1>6. CASE Commit
    <2>1. CASE CommitDropBak
      BY <2>1 DEF CommitDropBak, Goto
    <2>2. CASE CommitStage
      BY <2>2 DEF CommitStage
    <2>3. CASE CommitPublish
      BY <2>3 DEF CommitPublish, Goto, Register!TakeEffect
    <2>4. CASE CommitClean
      BY <2>4 DEF CommitClean, Return, Register!Succeed
    <2>5. CASE CommitRollback
      BY <2>5 DEF CommitRollback, Return, ReturnErrorDroppingTmp,
                  Register!GiveUp
    <2>6. QED
      BY <1>6, <2>1, <2>2, <2>3, <2>4, <2>5 DEF Commit
  <1>7. CASE Refuse
    BY <1>7 DEF Refuse, Return, Register!GiveUp
  <1>8. CASE RefuseEarly
    BY <1>8 DEF RefuseEarly, Return, ReturnErrorDroppingTmp, Register!GiveUp
  <1>9. CASE Crash
    BY <1>9 DEF Crash, Return, Register!GiveUp, Register!Forget
  <1>10. CASE UNCHANGED vars
    BY <1>10 DEF vars
  <1>11. QED
    BY <1>1, <1>2, <1>3, <1>4, <1>5, <1>6, <1>7, <1>8, <1>9, <1>10 DEF Next

\* The replacement protocol gives its callers an atomic register: readers see
\* the previous or the requested document after any failure or power loss.
THEOREM FileIsAtomicRegister == Spec => ImplementsRegister
  <1>1. Init => Register!RegisterInit
    BY DEF Init, Register!RegisterInit, Recovered
  <1>2. QED
    BY <1>1, StepRefines, ProtocolInvariant, PTL
       DEF Spec, ImplementsRegister, Register!RegisterSpec

-----------------------------------------------------------------------------
(* FirmwareUpdate.                                                         *)

InCardMind == {"cardmind", "confirm", "download", "stream", "publish", "verify", "sha", "size",
               "pending", "error", "activate"}
OfARelease == InCardMind \ {"cardmind"}
InSupervisor == {"mount", "update", "write", "written", "clear", "forget", "remove", "select",
                 "workspace"}

\* The values of the variables, and of what is not in TypeOK.
FirmwareTypes ==
  /\ image \in Version \cup {0} /\ boot \in {"cardmind", "python"}
  /\ bin \in Version \cup {0} /\ download \in Version \cup {0, -1}
  /\ nvs \in [sha : Version \cup {0}, size : Nat, pending : BOOLEAN]
  /\ info \in Version \cup {0} /\ trouble \in BOOLEAN /\ leftover \in BOOLEAN
  /\ budget \in [resets : 0..MaxResets, faults : 0..MaxFaults]
  /\ phase \in InCardMind \cup InSupervisor \cup {"off"}

\* Each image runs from its own partition, and the release the user agreed to is one.
FirmwarePlaces ==
  /\ phase \in InCardMind => boot = "cardmind"
  /\ phase \in InSupervisor => boot = "python"
  /\ phase \in OfARelease => info \in Version

\* What has been found out of the files, call by call.
FirmwareStages ==
  /\ phase = "publish" => download = info
  /\ phase \in {"sha", "size", "pending", "error", "activate"} => bin = info
  /\ phase \in {"size", "pending", "error", "activate"} => nvs.sha = info
  /\ phase \in {"error", "activate"} => nvs.pending
  /\ phase \in {"forget", "remove", "select"} => ~nvs.pending

\* A partition is half written only while its request and file are there, and the
\* supervisor on the way to it.
HalfIsOnItsWay ==
  /\ phase \in {"write", "written"} \/ (image = Firmware!Half /\ ~trouble) =>
       /\ boot = "python" /\ nvs.pending /\ bin # Firmware!NoFile
       /\ nvs.size = bin \div 4
  /\ image = Firmware!Half /\ ~trouble =>
       phase \in {"off", "mount", "update", "write", "written"}

\* A request that was handed over is that of the file, whoever starts next.
RequestIsOfTheFile ==
  /\ nvs.pending /\ ~leftover /\ boot = "python" => nvs.sha = bin
  /\ phase \in InCardMind \ {"error", "activate"} /\ nvs.pending => leftover

FirmwareInv ==
  FirmwareTypes /\ FirmwarePlaces /\ FirmwareStages /\ HalfIsOnItsWay /\ RequestIsOfTheFile

\* Versions are numbered from 1: 0 stands for none and for half of one.
LEMMA VersionIsNat == \A v \in Version : v \in Nat /\ v # 0
  BY ServicesAssumption

\* A size is a number.
LEMMA QuarterIsNat == \A v \in Nat : v \div 4 \in Nat
  OBVIOUS

\* The size of every version is a number.
LEMMA SizeIsNat == \A v \in Version : [w \in Version |-> w \div 4][v] \in Nat
  BY VersionIsNat, QuarterIsNat

\* CardMind starts whole, with nothing downloaded and nothing asked of the supervisor.
LEMMA InitFirmware == ServicesInit => FirmwareInv
<1> SUFFICES ASSUME ServicesInit PROVE FirmwareInv
  OBVIOUS
<1>1. Firmware!Init
  BY DEF ServicesInit
<1>2. Firmware!First \in Version
  BY ServicesAssumption DEF Firmware!First
<1>3. FirmwareTypes
  <2>1. /\ image \in Version /\ boot = "cardmind" /\ bin = 0 /\ download = 0 /\ info = 0
        /\ nvs = [sha |-> 0, size |-> 0, pending |-> FALSE]
        /\ phase = "cardmind" /\ trouble = FALSE /\ leftover = FALSE
        /\ budget = [resets |-> MaxResets, faults |-> MaxFaults]
    BY <1>1, <1>2
       DEF Firmware!Init, Firmware!NoFile, Firmware!NothingStaged, Firmware!NoRelease
  <2>2. MaxResets \in Nat /\ MaxFaults \in Nat
    BY ServicesAssumption
  <2>3. /\ nvs \in [sha : Version \cup {0}, size : Nat, pending : BOOLEAN]
        /\ budget \in [resets : 0..MaxResets, faults : 0..MaxFaults]
    BY <2>1, <2>2
  <2> QED
    BY <2>1, <2>3 DEF FirmwareTypes, InCardMind
<1>4. /\ phase = "cardmind" /\ boot = "cardmind" /\ image # 0 /\ nvs.pending = FALSE
  BY <1>1, <1>2, ServicesAssumption DEF Firmware!Init, Firmware!NothingStaged
<1>5. FirmwarePlaces
  BY <1>4 DEF FirmwarePlaces, InSupervisor, OfARelease
<1>6. FirmwareStages /\ RequestIsOfTheFile
  BY <1>4 DEF FirmwareStages, RequestIsOfTheFile
<1>7. HalfIsOnItsWay
  BY <1>4 DEF HalfIsOnItsWay, Firmware!Half
<1>8. QED
  BY <1>3, <1>5, <1>6, <1>7 DEF FirmwareInv

\* Every step keeps the values; a release that is worked on is a version.
LEMMA FirmwareTypesKept == FirmwareInv /\ [Firmware!Next]_firmwareVars => FirmwareTypes'
<1> SUFFICES ASSUME FirmwareInv, [Firmware!Next]_firmwareVars PROVE FirmwareTypes'
  OBVIOUS
<1> USE DEF InCardMind, InSupervisor, Firmware!NoFile, Firmware!Half,
        Firmware!Cut, Firmware!NoRelease, Firmware!Goto, Firmware!Refused, Firmware!card,
        Firmware!flash, Firmware!history
<1>0. /\ FirmwareTypes
      /\ phase \in OfARelease => info \in Version
      /\ phase = "publish" => download = info
      /\ phase = "written" => bin # 0
  BY DEF FirmwareInv, FirmwarePlaces, FirmwareStages, HalfIsOnItsWay
<1>b. /\ budget.faults > 0 =>
             [budget EXCEPT !.faults = @ - 1] \in [resets : 0..MaxResets, faults : 0..MaxFaults]
      /\ budget.resets > 0 =>
             [budget EXCEPT !.resets = @ - 1] \in [resets : 0..MaxResets, faults : 0..MaxFaults]
  <2>1. MaxResets \in Nat /\ MaxFaults \in Nat
    BY ServicesAssumption
  <2>2. budget \in [resets : 0..MaxResets, faults : 0..MaxFaults]
    BY <1>0 DEF FirmwareTypes
  <2>3. /\ budget.faults > 0 => budget.faults - 1 \in 0..MaxFaults
        /\ budget.resets > 0 => budget.resets - 1 \in 0..MaxResets
    BY <2>1, <2>2
  <2> QED BY <2>2, <2>3
<1>n. /\ [nvs EXCEPT !.sha = info] \in [sha : Version \cup {0}, size : Nat, pending : BOOLEAN]
      /\ \A b \in BOOLEAN : [nvs EXCEPT !.pending = b] \in [sha : Version \cup {0}, size : Nat, pending : BOOLEAN]
      /\ \A z \in Nat : [nvs EXCEPT !.size = z] \in [sha : Version \cup {0}, size : Nat, pending : BOOLEAN]
      /\ Firmware!NothingStaged \in [sha : Version \cup {0}, size : Nat, pending : BOOLEAN]
  BY <1>0 DEF Firmware!NothingStaged, FirmwareTypes
<1>s. \A v \in Version : [w \in Version |-> w \div 4][v] \in Nat
  BY SizeIsNat
<1>1. CASE \E v \in Version : Firmware!Check(v)
  BY <1>1, <1>0 DEF FirmwareTypes, OfARelease, Firmware!Check
<1>2. CASE Firmware!Decline
  BY <1>2, <1>0, <1>b, <1>n, <1>s DEF FirmwareTypes, OfARelease, Firmware!Decline
<1>3. CASE Firmware!Discard
  BY <1>3, <1>0, <1>b, <1>n, <1>s DEF FirmwareTypes, OfARelease, Firmware!Discard
<1>4. CASE Firmware!Download
  BY <1>4, <1>0, <1>b, <1>n, <1>s DEF FirmwareTypes, OfARelease, Firmware!Download
<1>5. CASE Firmware!Streamed
  BY <1>5, <1>0, <1>b, <1>n, <1>s DEF FirmwareTypes, OfARelease, Firmware!Streamed
<1>6. CASE Firmware!StreamStopped
  BY <1>6, <1>0, <1>b, <1>n, <1>s DEF FirmwareTypes, OfARelease, Firmware!StreamStopped
<1>7. CASE Firmware!Publish
  BY <1>7, <1>0, <1>b, <1>n, <1>s DEF FirmwareTypes, OfARelease, Firmware!Publish
<1>8. CASE Firmware!Verify
  BY <1>8, <1>0, <1>b, <1>n, <1>s DEF FirmwareTypes, OfARelease, Firmware!Verify
<1>9. CASE Firmware!VerifyStopped
  BY <1>9, <1>0, <1>b, <1>n, <1>s DEF FirmwareTypes, OfARelease, Firmware!VerifyStopped
<1>10. CASE Firmware!StageSha
  BY <1>10, <1>0, <1>b, <1>n, <1>s DEF FirmwareTypes, OfARelease, Firmware!StageSha,
     Firmware!Stage
<1>11. CASE Firmware!StageSize
  BY <1>11, <1>0, <1>b, <1>n, <1>s DEF FirmwareTypes, OfARelease, Firmware!StageSize,
     Firmware!Stage
<1>12. CASE Firmware!StagePending
  BY <1>12, <1>0, <1>b, <1>n, <1>s DEF FirmwareTypes, OfARelease, Firmware!StagePending,
     Firmware!Stage
<1>13. CASE Firmware!StageError
  BY <1>13, <1>0, <1>b, <1>n, <1>s DEF FirmwareTypes, OfARelease, Firmware!StageError,
     Firmware!Stage
<1>14. CASE Firmware!Activate
  BY <1>14, <1>0, <1>b, <1>n, <1>s DEF FirmwareTypes, OfARelease, Firmware!Activate
<1>15. CASE Firmware!ActivateRefused
  BY <1>15, <1>0, <1>b, <1>n, <1>s DEF FirmwareTypes, OfARelease, Firmware!ActivateRefused
<1>16. CASE Firmware!EnterPython
  BY <1>16, <1>0, <1>b, <1>n, <1>s DEF FirmwareTypes, OfARelease, Firmware!EnterPython
<1>17. CASE Firmware!Reset
  BY <1>17, <1>0, <1>b, <1>n, <1>s DEF FirmwareTypes, OfARelease, Firmware!Reset
<1>18. CASE Firmware!Start
  BY <1>18, <1>0, <1>b, <1>n, <1>s DEF FirmwareTypes, OfARelease, Firmware!Start
<1>19. CASE Firmware!MountCard
  BY <1>19, <1>0, <1>b, <1>n, <1>s, ZenonT(60) DEF FirmwareTypes, OfARelease, Firmware!MountCard,
     Firmware!Recover
<1>20. CASE Firmware!Begin
  BY <1>20, <1>0, <1>b, <1>n, <1>s DEF FirmwareTypes, OfARelease, Firmware!Begin
<1>21. CASE Firmware!Write
  BY <1>21, <1>0, <1>b, <1>n, <1>s DEF FirmwareTypes, OfARelease, Firmware!Write
<1>22. CASE Firmware!Written
  BY <1>22, <1>0, <1>b, <1>n, <1>s DEF FirmwareTypes, OfARelease, Firmware!Written
<1>23. CASE Firmware!WriteFailed
  BY <1>23, <1>0, <1>b, <1>n, <1>s DEF FirmwareTypes, OfARelease, Firmware!WriteFailed
<1>24. CASE Firmware!ClearPending
  BY <1>24, <1>0, <1>b, <1>n, <1>s DEF FirmwareTypes, OfARelease, Firmware!ClearPending
<1>25. CASE Firmware!Forget
  BY <1>25, <1>0, <1>b, <1>n, <1>s DEF FirmwareTypes, OfARelease, Firmware!Forget
<1>26. CASE Firmware!Remove
  BY <1>26, <1>0, <1>b, <1>n, <1>s DEF FirmwareTypes, OfARelease, Firmware!Remove
<1>27. CASE Firmware!Select
  BY <1>27, <1>0, <1>b, <1>n, <1>s DEF FirmwareTypes, OfARelease, Firmware!Select
<1>28. CASE Firmware!Return
  BY <1>28, <1>0, <1>b, <1>n, <1>s DEF FirmwareTypes, OfARelease, Firmware!Return,
     Firmware!Recover
<1>29. CASE UNCHANGED firmwareVars
  BY <1>29, <1>0 DEF FirmwareTypes, firmwareVars
<1> QED
  BY <1>1, <1>2, <1>3, <1>4, <1>5, <1>6, <1>7, <1>8, <1>9, <1>10, <1>11, <1>12, <1>13, <1>14,
     <1>15, <1>16, <1>17, <1>18, <1>19, <1>20, <1>21, <1>22, <1>23, <1>24, <1>25, <1>26,
     <1>27, <1>28, <1>29 DEF Firmware!Next

\* Every step keeps the invariant: a request outlives the file it is about nowhere
\* but in CardMind, and a half written partition never loses either.
LEMMA FirmwareInvKept == FirmwareInv /\ [Firmware!Next]_firmwareVars => FirmwareInv'
<1> SUFFICES ASSUME FirmwareInv, [Firmware!Next]_firmwareVars PROVE FirmwareInv'
  OBVIOUS
<1> USE VersionIsNat
    DEF InCardMind, InSupervisor, OfARelease, Firmware!NoFile, Firmware!Half,
        Firmware!Cut, Firmware!NoRelease, Firmware!Goto, Firmware!Refused, Firmware!card,
        Firmware!flash, Firmware!history, Firmware!NothingStaged, FirmwareTypes,
        FirmwarePlaces, FirmwareStages, HalfIsOnItsWay, RequestIsOfTheFile, FirmwareInv
<1>0. FirmwareTypes'
  BY FirmwareTypesKept
<1>1. CASE \E v \in Version : Firmware!Check(v)
  BY <1>0, <1>1 DEF Firmware!Check
<1>2. CASE Firmware!Decline
  BY <1>0, <1>2 DEF Firmware!Decline
<1>3. CASE Firmware!Discard
  BY <1>0, <1>3 DEF Firmware!Discard
<1>4. CASE Firmware!Download
  BY <1>0, <1>4 DEF Firmware!Download
<1>5. CASE Firmware!Streamed
  BY <1>0, <1>5 DEF Firmware!Streamed
<1>6. CASE Firmware!StreamStopped
  BY <1>0, <1>6 DEF Firmware!StreamStopped
<1>7. CASE Firmware!Publish
  BY <1>0, <1>7 DEF Firmware!Publish
<1>8. CASE Firmware!Verify
  BY <1>0, <1>8 DEF Firmware!Verify
<1>9. CASE Firmware!VerifyStopped
  BY <1>0, <1>9 DEF Firmware!VerifyStopped
<1>10. CASE Firmware!StageSha
  BY <1>0, <1>10 DEF Firmware!StageSha, Firmware!Stage
<1>11. CASE Firmware!StageSize
  BY <1>0, <1>11 DEF Firmware!StageSize, Firmware!Stage
<1>12. CASE Firmware!StagePending
  BY <1>0, <1>12 DEF Firmware!StagePending, Firmware!Stage
<1>13. CASE Firmware!StageError
  BY <1>0, <1>13 DEF Firmware!StageError, Firmware!Stage
<1>14. CASE Firmware!Activate
  BY <1>0, <1>14 DEF Firmware!Activate
<1>15. CASE Firmware!ActivateRefused
  BY <1>0, <1>15 DEF Firmware!ActivateRefused
<1>16. CASE Firmware!EnterPython
  BY <1>0, <1>16 DEF Firmware!EnterPython
<1>17. CASE Firmware!Reset
  BY <1>0, <1>17 DEF Firmware!Reset
<1>18. CASE Firmware!Start
  BY <1>0, <1>18 DEF Firmware!Start
<1>19. CASE Firmware!MountCard
  BY <1>0, <1>19 DEF Firmware!MountCard, Firmware!Recover
<1>20. CASE Firmware!Begin
  BY <1>0, <1>20 DEF Firmware!Begin
<1>21. CASE Firmware!Write
  BY <1>0, <1>21 DEF Firmware!Write
<1>22. CASE Firmware!Written
  BY <1>0, <1>22 DEF Firmware!Written
<1>23. CASE Firmware!WriteFailed
  BY <1>0, <1>23 DEF Firmware!WriteFailed
<1>24. CASE Firmware!ClearPending
  BY <1>0, <1>24 DEF Firmware!ClearPending
<1>25. CASE Firmware!Forget
  BY <1>0, <1>25 DEF Firmware!Forget
<1>26. CASE Firmware!Remove
  BY <1>0, <1>26 DEF Firmware!Remove
<1>27. CASE Firmware!Select
  BY <1>0, <1>27 DEF Firmware!Select
<1>28. CASE Firmware!Return
  BY <1>0, <1>28 DEF Firmware!Return, Firmware!Recover
<1>29. CASE UNCHANGED firmwareVars
  BY <1>0, <1>29 DEF firmwareVars
<1> QED
  BY <1>1, <1>2, <1>3, <1>4, <1>5, <1>6, <1>7, <1>8, <1>9, <1>10, <1>11, <1>12, <1>13, <1>14,
     <1>15, <1>16, <1>17, <1>18, <1>19, <1>20, <1>21, <1>22, <1>23, <1>24, <1>25, <1>26,
     <1>27, <1>28, <1>29 DEF Firmware!Next

\* A partition becomes whole only by the supervisor's last block (Written), which
\* leaves the version whose SHA the request names, or a request nobody cleared.
LEMMA FirmwareIsVerified ==
  FirmwareInv /\ [Firmware!Next]_firmwareVars =>
    (image' # image /\ image' # Firmware!Half => image' = nvs.sha \/ leftover)
<1> SUFFICES ASSUME FirmwareInv, [Firmware!Next]_firmwareVars, image' # image, image' # 0, ~leftover
             PROVE  image' = nvs.sha
  BY DEF Firmware!Half
<1>1. Firmware!Written
  BY DEF Firmware!Next, firmwareVars, Firmware!Check, Firmware!Decline, Firmware!Discard,
     Firmware!Download,
     Firmware!Streamed, Firmware!StreamStopped, Firmware!Publish, Firmware!Verify,
     Firmware!VerifyStopped,
     Firmware!StageSha, Firmware!StageSize, Firmware!StagePending, Firmware!StageError,
     Firmware!Stage,
     Firmware!Activate, Firmware!ActivateRefused, Firmware!EnterPython, Firmware!Reset,
     Firmware!Start,
     Firmware!MountCard, Firmware!Recover, Firmware!Begin, Firmware!Write, Firmware!WriteFailed,
     Firmware!ClearPending, Firmware!Forget, Firmware!Remove, Firmware!Select, Firmware!Return,
     Firmware!flash,
     Firmware!Half
<1>2. nvs.pending /\ boot = "python"
  BY <1>1 DEF Firmware!Written, FirmwareInv, HalfIsOnItsWay
<1>3. QED
  BY <1>1, <1>2 DEF Firmware!Written, FirmwareInv, RequestIsOfTheFile

\* What the invariant says of the published file, of a half and of the start.
LEMMA FirmwareIsSafe ==
  FirmwareInv =>
    Firmware!TypeOK /\ Firmware!PublishedIsWhole /\ Firmware!HalfIsResumable /\ Firmware!BootIsWhole
<1> SUFFICES ASSUME FirmwareInv
             PROVE  Firmware!TypeOK /\ Firmware!PublishedIsWhole /\ Firmware!HalfIsResumable
                     /\ Firmware!BootIsWhole
  OBVIOUS
<1>1. FirmwareTypes
  BY DEF FirmwareInv
<1>2. Firmware!TypeOK
  BY <1>1 DEF FirmwareTypes, Firmware!TypeOK, Firmware!NoFile, Firmware!Half, Firmware!Cut,
     Firmware!NoRelease
<1>3. Firmware!PublishedIsWhole
  <2>1. bin # -1
    BY <1>1, VersionIsNat DEF FirmwareTypes
  <2> QED BY <2>1 DEF Firmware!PublishedIsWhole, Firmware!Cut, FirmwareInv, FirmwareStages
<1>4. Firmware!HalfIsResumable
  <2> SUFFICES ASSUME image = 0, ~trouble
               PROVE  boot = "python" /\ nvs.pending /\ nvs.size = [v \in Version |-> v \div 4][bin]
    BY DEF Firmware!HalfIsResumable, Firmware!Half
  <2>1. boot = "python" /\ nvs.pending /\ bin # 0 /\ nvs.size = bin \div 4
    BY DEF FirmwareInv, HalfIsOnItsWay, Firmware!Half, Firmware!NoFile
  <2>2. bin \in Version
    BY <1>1, <2>1 DEF FirmwareTypes
  <2> QED BY <2>1, <2>2
<1>5. Firmware!BootIsWhole
  BY DEF Firmware!BootIsWhole, FirmwareInv, HalfIsOnItsWay
<1> QED BY <1>2, <1>3, <1>4, <1>5

\* ota_update.cpp and the supervisor: what is installed was verified, a partition that
\* is half written is resumed after any resets, and CardMind starts whole.
THEOREM UpdatesAreSafe == ServicesSpec => UpdateIsSafe
<1>1. ServicesInit => FirmwareInv
  BY InitFirmware
<1>2. FirmwareInv /\ [ServicesNext]_allVars => FirmwareInv'
  BY Frames, FirmwareInvKept
<1>3. FirmwareInv /\ [ServicesNext]_allVars =>
        [image' # image /\ image' # Firmware!Half => image' = nvs.sha \/ leftover]_firmwareVars
  BY Frames, FirmwareIsVerified
<1>4. QED
  BY <1>1, <1>2, <1>3, FirmwareIsSafe, PTL DEF ServicesSpec, UpdateIsSafe,
     Firmware!UpdateIsSafe, Firmware!InstalledIsVerified,
     Firmware!vars, firmwareVars

-----------------------------------------------------------------------------
(* WebSession.                                                             *)

WebTimes ==
  /\ now \in 0..Wrap - 1 /\ activityAt \in 0..Wrap - 1
  /\ lockedUntil \in 0..Wrap - 1 /\ beatAt \in 0..Wrap - 1
  /\ failures \in 0..MaxFailures - 1
  /\ idle \in 0..LifeTicks /\ sinceLock \in 0..LockTicks
WebFlags ==
  /\ open \in BOOLEAN /\ passed \in BOOLEAN /\ expires \in BOOLEAN /\ session \in BOOLEAN
  /\ presence \in BOOLEAN /\ cookie \in [Browser -> {"none", "current", "old"}]
WebTypes == WebTimes /\ WebFlags

\* As long as a session may expire its age is the time it has not been used for; the loop
\* has passed before the clock goes on, so it is not missed.
AgeIsKnown ==
  open /\ session /\ expires => Web!Age(activityAt) = idle /\ (passed => idle < LifeTicks)

\* The end of a lock that lasts is ahead, less than half of the clock.
LockIsAhead ==
  sinceLock < LockTicks => Web!Age(lockedUntil) = Wrap - (LockTicks - sinceLock)

BrowserHasSession == presence => session

WebInv == WebTypes /\ AgeIsKnown /\ LockIsAhead /\ BrowserHasSession

\* The constants, one by one.
LEMMA ClockFacts ==
  /\ Wrap \in Nat /\ Wrap > 0 /\ LockTicks \in Nat /\ LockTicks > 0 /\ 2 * LockTicks <= Wrap
  /\ LifeTicks \in Nat /\ LifeTicks > 0 /\ LifeTicks < Wrap /\ MaxFailures \in Nat
      /\ MaxFailures > 0
  BY ServicesAssumption

\* What is less than two turns of the clock wraps once at most.
LEMMA WrapOnce ==
  ASSUME NEW x \in 0..2 * Wrap - 1
  PROVE  x % Wrap = IF x < Wrap THEN x ELSE x - Wrap
<1> PICK w \in Nat \ {0} : w = Wrap
  BY ClockFacts
<1>1. CASE x < w
  <2>1. x \in 0..w - 1 BY <1>1
  <2> QED BY <1>1, <2>1
<1>2. CASE x >= w
  <2>1. x \in w..2 * w - 1 BY <1>2
  <2>2. x % w = x - w BY <2>1
  <2> QED BY <1>2, <2>2
<1> QED BY <1>1, <1>2

\* millis() - at, as an unsigned number.
LEMMA AgeIs ==
  ASSUME NEW n \in 0..Wrap - 1, NEW t \in 0..Wrap - 1
  PROVE  (n + Wrap - t) % Wrap = IF t <= n THEN n - t ELSE n + Wrap - t
<1>1. n + Wrap - t \in 0..2 * Wrap - 1
  BY ClockFacts
<1>2. (n + Wrap - t) % Wrap = IF n + Wrap - t < Wrap THEN n + Wrap - t ELSE n + Wrap - t - Wrap
  BY <1>1, WrapOnce, ClockFacts
<1>3. QED
  BY <1>2, ClockFacts

\* millis() + t for a t within a lock.
LEMMA Later ==
  ASSUME NEW n \in 0..Wrap - 1, NEW t \in 0..LockTicks
  PROVE  (n + t) % Wrap = IF n + t < Wrap THEN n + t ELSE n + t - Wrap
<1>1. n + t \in 0..2 * Wrap - 1
  BY ClockFacts
<1>2. QED BY <1>1, WrapOnce, ClockFacts

\* The console is closed, at any time of the clock.
LEMMA InitWeb == ServicesInit => WebInv
<1> SUFFICES ASSUME ServicesInit PROVE WebInv
  OBVIOUS
<1>1. Web!Init
  BY DEF ServicesInit
<1>2. WebTimes
  BY <1>1, ClockFacts DEF Web!Init, Web!Clock, WebTimes
<1>3. WebFlags /\ AgeIsKnown /\ BrowserHasSession
  BY <1>1 DEF Web!Init, WebFlags, AgeIsKnown, BrowserHasSession
<1>4. LockIsAhead
  BY <1>1, ClockFacts DEF Web!Init, LockIsAhead
<1> QED
  BY <1>2, <1>3, <1>4 DEF WebInv, WebTypes

\* Every step keeps the times on the clock and the counts below their limits.
LEMMA WebTimesKept == WebTimes /\ [Web!Next]_webVars => WebTimes'
<1> SUFFICES ASSUME WebTimes, [Web!Next]_webVars PROVE WebTimes'
  OBVIOUS
<1> USE DEF WebTimes, Web!ClearSession, Web!console, Web!times
<1>1. (now + 1) % Wrap \in 0..Wrap - 1 /\ (now + LockTicks) % Wrap \in 0..Wrap - 1
  BY Later, ClockFacts
<1>2. CASE Web!Tick
  BY <1>1, <1>2, ClockFacts DEF Web!Tick
<1>3. CASE Web!Open \/ Web!LoopPass \/ Web!Exit \/ Web!RequestExpired
  BY <1>3, ClockFacts DEF Web!Open, Web!LoopPass, Web!Exit, Web!RequestExpired
<1>4. CASE Web!LoginWrong
  BY <1>1, <1>4, ClockFacts DEF Web!LoginWrong
<1>5. ASSUME NEW b \in Browser,
             \/ Web!LoginRight(b) \/ Web!Request(b) \/ Web!Heartbeat(b)
             \/ Web!Logout(b) \/ Web!SaveSettings(b)
      PROVE  WebTimes'
  BY <1>5, ClockFacts
     DEF Web!LoginRight, Web!Request, Web!Heartbeat, Web!Logout, Web!SaveSettings
<1>6. CASE UNCHANGED webVars
  BY <1>6 DEF webVars
<1> QED
  BY <1>2, <1>3, <1>4, <1>5, <1>6 DEF Web!Next

\* Every step keeps the flags, and each browser's cookie of one of three kinds.
LEMMA WebFlagsKept == WebFlags /\ [Web!Next]_webVars => WebFlags'
<1> SUFFICES ASSUME WebFlags, [Web!Next]_webVars PROVE WebFlags'
  OBVIOUS
<1> USE DEF WebFlags, Web!ClearSession, Web!console, Web!times
<1>1. Web!Older \in [Browser -> {"none", "current", "old"}]
  BY DEF Web!Older
<1>2. \A b \in Browser :
        /\ [Web!Older EXCEPT ![b] = "current"] \in [Browser -> {"none", "current", "old"}]
        /\ [cookie EXCEPT ![b] = "current"] \in [Browser -> {"none", "current", "old"}]
  BY <1>1
<1>3. CASE Web!Tick \/ Web!LoginWrong
  BY <1>3 DEF Web!Tick, Web!LoginWrong
<1>4. CASE Web!Open \/ Web!LoopPass \/ Web!Exit \/ Web!RequestExpired
  BY <1>1, <1>4 DEF Web!Open, Web!LoopPass, Web!Exit, Web!RequestExpired
<1>5. ASSUME NEW b \in Browser, Web!LoginRight(b) PROVE WebFlags'
  BY <1>2, <1>5 DEF Web!LoginRight
<1>6. ASSUME NEW b \in Browser,
             Web!Request(b) \/ Web!Heartbeat(b) \/ Web!Logout(b) \/ Web!SaveSettings(b)
      PROVE  WebFlags'
  BY <1>1, <1>6 DEF Web!Request, Web!Heartbeat, Web!Logout, Web!SaveSettings
<1>7. CASE UNCHANGED webVars
  BY <1>7 DEF webVars
<1> QED
  BY <1>3, <1>4, <1>5, <1>6, <1>7 DEF Web!Next

\* Every step keeps the invariant: the clock goes on only after the loop has dropped
\* a session that has reached its lifetime, and no further than the end of a lock.
LEMMA WebInvKept == WebInv /\ [Web!Next]_webVars => WebInv'
<1> SUFFICES ASSUME WebInv, [Web!Next]_webVars PROVE WebInv'
  OBVIOUS
<1>0. WebTypes /\ WebTypes'
  BY WebTimesKept, WebFlagsKept DEF WebInv, WebTypes
<1>t. /\ now \in 0..Wrap - 1 /\ now' \in 0..Wrap - 1
      /\ activityAt \in 0..Wrap - 1 /\ activityAt' \in 0..Wrap - 1
      /\ lockedUntil \in 0..Wrap - 1 /\ lockedUntil' \in 0..Wrap - 1
      /\ idle \in 0..LifeTicks /\ sinceLock \in 0..LockTicks
  BY <1>0 DEF WebTypes, WebTimes
<1>a. /\ Web!Age(activityAt) = IF activityAt <= now THEN now - activityAt
                               ELSE now + Wrap - activityAt
      /\ Web!Age(lockedUntil) = IF lockedUntil <= now THEN now - lockedUntil
                                ELSE now + Wrap - lockedUntil
      /\ Web!Age(activityAt)' = IF activityAt' <= now' THEN now' - activityAt'
                                ELSE now' + Wrap - activityAt'
      /\ Web!Age(lockedUntil)' = IF lockedUntil' <= now' THEN now' - lockedUntil'
                                 ELSE now' + Wrap - lockedUntil'
  BY <1>t, AgeIs DEF Web!Age
<1>k. AgeIsKnown /\ LockIsAhead /\ BrowserHasSession
  BY DEF WebInv
<1> USE DEF AgeIsKnown, LockIsAhead, BrowserHasSession, Web!ClearSession, Web!console, Web!times
<1>5. CASE Web!Tick
  <2>1. now' = IF now + 1 < Wrap THEN now + 1 ELSE now + 1 - Wrap
    <3>1. 1 \in 0..LockTicks
      BY ClockFacts
    <3> QED BY <1>5, <1>t, <3>1, Later DEF Web!Tick
  <2>2. AgeIsKnown'
    BY <1>5, <1>t, <1>a, <1>k, <2>1, ClockFacts DEF Web!Tick
  <2>3. LockIsAhead'
    BY <1>5, <1>t, <1>a, <1>k, <2>1, ClockFacts DEF Web!Tick
  <2> QED BY <1>0, <1>5, <1>k, <2>2, <2>3 DEF Web!Tick, WebInv
<1>6. CASE Web!Open \/ Web!Exit \/ Web!RequestExpired
  <2>1. session' = FALSE /\ presence' = FALSE
    BY <1>6 DEF Web!Open, Web!Exit, Web!RequestExpired
  <2>2. LockIsAhead'
    BY <1>6, <1>t, <1>a, <1>k, ClockFacts DEF Web!Open, Web!Exit, Web!RequestExpired
  <2> QED BY <1>0, <2>1, <2>2 DEF WebInv
<1>7. CASE Web!LoopPass
  <2>1. LockIsAhead' /\ BrowserHasSession'
    BY <1>7, <1>t, <1>a, <1>k, ClockFacts DEF Web!LoopPass
  <2>2. AgeIsKnown'
    <3> SUFFICES ASSUME open', session', expires'
                 PROVE  Web!Age(activityAt)' = idle' /\ idle' < LifeTicks
      OBVIOUS
    <3>1. /\ UNCHANGED <<session, activityAt, now, open, expires, idle>>
          /\ ~(Web!Age(activityAt) >= LifeTicks)
      BY <1>7 DEF Web!LoopPass, Web!Expired
    <3>2. Web!Age(activityAt) = idle
      BY <3>1, <1>k
    <3>3. Web!Age(activityAt)' = Web!Age(activityAt)
      BY <3>1 DEF Web!Age
    <3> QED BY <3>1, <3>2, <3>3, <1>t, ClockFacts
  <2> QED BY <1>0, <2>1, <2>2 DEF WebInv
<1>8. CASE Web!LoginWrong
  <2>1. AgeIsKnown' /\ BrowserHasSession'
    BY <1>8, <1>t, <1>a, <1>k DEF Web!LoginWrong
  <2>2. CASE UNCHANGED <<lockedUntil, sinceLock>>
    BY <1>0, <1>8, <1>t, <1>a, <1>k, <2>1, <2>2 DEF Web!LoginWrong, WebInv
  <2>3. CASE lockedUntil' = (now + LockTicks) % Wrap /\ sinceLock' = 0
    <3>1. lockedUntil' = IF now + LockTicks < Wrap THEN now + LockTicks ELSE now + LockTicks - Wrap
      <4>1. LockTicks \in 0..LockTicks
        BY ClockFacts
      <4> QED BY <2>3, <1>t, <4>1, Later
    <3>2. LockIsAhead'
      BY <1>8, <2>3, <1>t, <1>a, <3>1, ClockFacts DEF Web!LoginWrong
    <3> QED BY <1>0, <2>1, <3>2 DEF WebInv
  <2> QED BY <1>8, <2>2, <2>3 DEF Web!LoginWrong
<1>9. ASSUME NEW b \in Browser, Web!LoginRight(b) \/ Web!Request(b) \/ Web!SaveSettings(b)
      PROVE  WebInv'
  <2>1. /\ activityAt' = now /\ idle' = 0 /\ now' = now /\ sinceLock' = sinceLock
        /\ lockedUntil' = lockedUntil /\ BrowserHasSession'
    BY <1>9, <1>k DEF Web!LoginRight, Web!Request, Web!SaveSettings, Web!Active
  <2>2. AgeIsKnown' /\ LockIsAhead'
    BY <2>1, <1>t, <1>a, <1>k, ClockFacts
  <2> QED BY <1>0, <2>1, <2>2 DEF WebInv
<1>10. ASSUME NEW b \in Browser, Web!Heartbeat(b) \/ Web!Logout(b)
       PROVE  WebInv'
  <2>1. /\ session' => /\ session /\ UNCHANGED <<open, expires, passed, activityAt>>
        /\ UNCHANGED <<now, idle, sinceLock, lockedUntil>> /\ BrowserHasSession'
    BY <1>10, <1>k DEF Web!Heartbeat, Web!Logout, Web!Active
  <2>2. LockIsAhead'
    BY <2>1, <1>k DEF Web!Age
  <2>3. AgeIsKnown'
    BY <2>1, <1>k DEF Web!Age
  <2> QED BY <1>0, <2>1, <2>2, <2>3 DEF WebInv
<1>11. CASE UNCHANGED webVars
  BY <1>0, <1>11, <1>t, <1>a, <1>k DEF webVars, WebInv
<1> QED
  BY <1>5, <1>6, <1>7, <1>8, <1>9, <1>10, <1>11 DEF Web!Next

\* A session begins (handleLogin) only when no lock lasts: the signed comparison is
\* right because the end of a lock is less than half of the clock away.
LEMMA LoginIsUnlocked ==
  WebInv /\ [Web!Next]_webVars => (idle' = 0 /\ idle # 0 /\ ~session => sinceLock = LockTicks)
<1> SUFFICES ASSUME WebInv, [Web!Next]_webVars, idle' = 0, idle # 0, ~session
             PROVE  sinceLock = LockTicks
  OBVIOUS
<1>1. WebTypes
  BY DEF WebInv
<1>2. idle \in Nat
  BY <1>1 DEF WebTypes, WebTimes
<1>3. PICK b \in Browser : Web!LoginRight(b)
  BY <1>2, ClockFacts
     DEF Web!Next, webVars, Web!Tick, Web!Open, Web!LoopPass, Web!Exit, Web!LoginWrong,
         Web!RequestExpired, Web!Request, Web!Heartbeat, Web!Logout, Web!SaveSettings, Web!Active,
         Web!times, Web!ClearSession
<1>4. ~(Web!Age(lockedUntil) >= Wrap \div 2)
  BY <1>3 DEF Web!LoginRight, Web!Locked, Web!Ahead
<1>5. sinceLock < LockTicks => Web!Age(lockedUntil) = Wrap - (LockTicks - sinceLock)
  BY DEF WebInv, LockIsAhead
<1>6. sinceLock \in 0..LockTicks
  BY <1>1 DEF WebTypes, WebTimes
<1> QED
  BY <1>4, <1>5, <1>6, ClockFacts

\* A request is accepted only within the lifetime of the session.
LEMMA WebIsSafe == WebInv => Web!SessionIsFresh
<1> SUFFICES ASSUME WebInv PROVE Web!SessionIsFresh
  OBVIOUS
<1>1. WebTypes
  BY DEF WebInv
<1>2. Web!TypeOK
  BY <1>1 DEF WebTypes, WebTimes, WebFlags, Web!TypeOK, Web!Clock
<1>3. Web!AcceptedIsFresh
  BY <1>1, ClockFacts DEF Web!AcceptedIsFresh, Web!Active, Web!Expired, WebInv, AgeIsKnown,
     WebTypes, WebTimes
<1>4. Web!PresenceNeedsSession
  BY DEF Web!PresenceNeedsSession, Web!BrowserConnected, WebInv, BrowserHasSession
<1> QED BY <1>2, <1>3, <1>4 DEF Web!SessionIsFresh

\* web_console.cpp: no session is used beyond its lifetime and none begins under a
\* lock, although millis() wraps.
THEOREM SessionsGuarded == ServicesSpec => SessionsAreGuarded
<1>1. ServicesInit => WebInv
  BY InitWeb
<1>2. WebInv /\ [ServicesNext]_allVars => WebInv'
  BY Frames, WebInvKept
<1>3. WebInv /\ [ServicesNext]_allVars =>
        [idle' = 0 /\ idle # 0 /\ ~session => sinceLock = LockTicks]_webVars
  BY Frames, LoginIsUnlocked
<1> QED
  BY <1>1, <1>2, <1>3, WebIsSafe, PTL
     DEF ServicesSpec, SessionsAreGuarded, Web!LockHolds, Web!vars, webVars

-----------------------------------------------------------------------------
(* DeviceSettings.                                                         *)

SettingsPlaces ==
  {"boot", "start", "dead", "device", "web", "portal", "provider", "save", "apply", "reload"}

SettingsValues ==
  /\ setNvs \in [Settings!Field -> Nat] /\ setRam \in [Settings!Field -> Nat]
  /\ setCopy \in [Settings!Field -> Nat] /\ setForm \in [Settings!Field -> Nat]
  /\ setTold \in [Settings!Field -> Nat] /\ setAsked \in [Settings!Field -> SUBSET Nat]
SettingsBounds == [saves : 0..MaxSaves, faults : 0..Few, resets : 0..Few]
SettingsSteps ==
  /\ setEdited \subseteq Settings!Field /\ setPut \in 0..6
  /\ setPc \in SettingsPlaces /\ setEditor \in {"device", "web", "portal"}
  /\ setLeft \in SettingsBounds
SettingsTypes == SettingsValues /\ SettingsSteps

\* Whoever saves, from the first entry on.
SavedBy(who) == setPc = "save" /\ setEditor = who

\* What s has of a field was reported, or asked for since.
IsGood(s, f) == s[f] = setTold[f] \/ s[f] \in setAsked[f]

PolicyIsSet == setTold["policy"] # 0 /\ 0 \notin setAsked["policy"]

StoredIsGood ==
  \A f \in Settings!Field :
    \/ IsGood(setNvs, f)
    \/ f = "policy" /\ setNvs[f] = 0 /\ setTold[f] = 1 /\ setPc \in {"boot", "dead"}

\* The device goes on with what it has, unless the settings are to be read again.
DeviceGoesOn ==
  \/ setPc \in {"device", "apply"} \/ SavedBy("device")
  \/ setPc \in {"portal", "provider"} /\ setExit = "free"
RamIsGood ==
  DeviceGoesOn \/ setPc \in {"start", "reload"} => \A f \in Settings!Field : IsGood(setRam, f)

\* The web console saves what it has; the portal asks for an API profile each time.
CopyIsGood ==
  /\ setPc = "web" \/ SavedBy("web") => \A f \in Settings!Field : IsGood(setCopy, f)
  /\ setPc \in {"portal", "provider"} \/ SavedBy("portal") =>
       \A f \in Settings!Field \ {"api"} : IsGood(setCopy, f)

FormIsGood ==
  setPc \in {"save", "provider", "apply"} => \A f \in Settings!Field : IsGood(setForm, f)

\* How far a save has come, and what it has changed.
SaveIsOnItsWay ==
  /\ setPc = "save" => \A i \in 1..setPut : setNvs[Settings!Order[i]] = setForm[Settings!Order[i]]
  /\ setPc = "save" /\ "api" \in setEdited => setNvs["api"] = setForm["api"]
  /\ setPc = "apply" =>
       /\ setRam = setForm
       /\ \A f \in setEdited : setNvs[f] = setForm[f]
  /\ setPc = "reload" => setEdited = {}
  /\ setPc = "provider" => setEditor = "portal" /\ setPut = 0
  /\ SavedBy("portal") => setExit # "free"
  /\ SavedBy("device") => setEdited = {"look"} \/ setForm["look"] = setRam["look"]

LookIsApplied == DeviceGoesOn /\ setPc # "apply" /\ ~setUnapplied => setApplied = setRam["look"]

SettingsGood ==
  /\ PolicyIsSet /\ StoredIsGood /\ RamIsGood /\ CopyIsGood /\ FormIsGood
  /\ SaveIsOnItsWay /\ LookIsApplied

SettingsInv == SettingsTypes /\ (~setStale => SettingsGood)

\* saveSettings writes every field but the API profile, each at its place.
LEMMA FieldIs ==
  /\ Settings!Field = {"ssid", "password", "model", "text", "look", "policy", "api"}
  /\ Len(Settings!Order) = 6
  /\ \A i \in 1..6 : Settings!Order[i] \in Settings!Field
  /\ \A f \in Settings!Field \ {"api"} : \E i \in 1..6 : Settings!Order[i] = f
<1>1. Len(Settings!Order) = 6
  BY DEF Settings!Order
<1>2. /\ Settings!Order[1] = "ssid" /\ Settings!Order[2] = "password"
      /\ Settings!Order[3] = "model" /\ Settings!Order[4] = "text"
      /\ Settings!Order[5] = "look" /\ Settings!Order[6] = "policy"
  BY DEF Settings!Order
<1>3. Settings!Field = {Settings!Order[i] : i \in 1..6} \cup {"api"}
  BY <1>1 DEF Settings!Field
<1>4. {Settings!Order[i] : i \in 1..6} = {"ssid", "password", "model", "text", "look", "policy"}
  BY <1>2
<1>5. Settings!Field = {"ssid", "password", "model", "text", "look", "policy", "api"}
  BY <1>3, <1>4
<1> QED BY <1>1, <1>2, <1>3, <1>5

\* The settings as they left the factory, or as an earlier firmware left them.
LEMMA InitSettings == ServicesInit => SettingsInv
<1> SUFFICES ASSUME ServicesInit PROVE SettingsInv
  OBVIOUS
<1>1. Settings!Init
  BY DEF ServicesInit
<1>2. PICK policy \in {0, 1}, rest \in {0, 1} :
        /\ policy <= rest
        /\ setNvs = [f \in Settings!Field |-> IF f = "policy" THEN policy
                                              ELSE IF f \in {"text", "look"} THEN 1 ELSE rest]
  BY <1>1 DEF Settings!Init
<1>3. "policy" \in Settings!Field /\ "look" \in Settings!Field /\ "look" # "policy"
  BY FieldIs
<1>4. /\ setNvs \in [Settings!Field -> Nat] /\ setNvs["look"] = 1
      /\ setNvs["policy"] \in {0, 1}
  BY <1>2, <1>3
<1>5. /\ setRam = setNvs /\ setCopy = setNvs /\ setForm = setNvs
      /\ setTold = [setNvs EXCEPT !["policy"] = 1]
      /\ setAsked = [f \in Settings!Field |-> {}]
      /\ setPc = "boot" /\ setEdited = {} /\ setEditor = "device" /\ setPut = 0
      /\ setExit = "free" /\ setLeft = [saves |-> MaxSaves, faults |-> Few, resets |-> Few]
  BY <1>1 DEF Settings!Init
<1>6. SettingsTypes
  <2>1. setTold \in [Settings!Field -> Nat] /\ setAsked \in [Settings!Field -> SUBSET Nat]
    BY <1>3, <1>4, <1>5
  <2>2. SettingsValues
    BY <1>4, <1>5, <2>1 DEF SettingsValues
  <2>3. SettingsSteps
    BY <1>5, ServicesAssumption DEF SettingsSteps, SettingsPlaces, SettingsBounds
  <2> QED BY <2>2, <2>3 DEF SettingsTypes
<1>7. PolicyIsSet /\ StoredIsGood
  BY <1>3, <1>4, <1>5 DEF PolicyIsSet, StoredIsGood, IsGood
<1>8. RamIsGood /\ CopyIsGood /\ FormIsGood /\ SaveIsOnItsWay /\ LookIsApplied
  BY <1>5 DEF RamIsGood, CopyIsGood, FormIsGood, SaveIsOnItsWay, LookIsApplied, DeviceGoesOn,
     SavedBy
<1> QED BY <1>6, <1>7, <1>8 DEF SettingsInv, SettingsGood

\* Bounds that are not used up can be spent.
LEMMA SettingsSpend ==
  ASSUME SettingsTypes
  PROVE  /\ setLeft.saves > 0 => [setLeft EXCEPT !.saves = @ - 1] \in SettingsBounds
         /\ setLeft.faults > 0 => [setLeft EXCEPT !.faults = @ - 1] \in SettingsBounds
         /\ setLeft.resets > 0 => [setLeft EXCEPT !.resets = @ - 1] \in SettingsBounds
<1>1. setLeft \in SettingsBounds
  BY DEF SettingsTypes, SettingsSteps
<1>2. /\ setLeft.saves > 0 => setLeft.saves - 1 \in 0..MaxSaves
      /\ setLeft.faults > 0 => setLeft.faults - 1 \in 0..Few
      /\ setLeft.resets > 0 => setLeft.resets - 1 \in 0..Few
  BY <1>1, ServicesAssumption DEF SettingsBounds
<1> QED BY <1>1, <1>2 DEF SettingsBounds

\* No save asks for 0, which stands for none.
LEMMA NewIsNew == SettingsTypes => Settings!NewValue \in Nat /\ Settings!NewValue # 0
  BY ServicesAssumption DEF Settings!NewValue, SettingsTypes, SettingsSteps, SettingsBounds

\* A save that begins (Ask): the candidate has new values in the fields of F, which
\* are asked for from now on, and is as its base elsewhere.
LEMMA AskFacts ==
  ASSUME SettingsTypes,
         NEW who \in {"device", "web", "portal"}, NEW base \in [Settings!Field -> Nat],
         NEW F \in SUBSET Settings!Field, NEW next \in SettingsPlaces,
         Settings!Ask(who, base, F, next)
  PROVE  /\ SettingsTypes'
         /\ UNCHANGED <<setNvs, setRam, setCopy, setExit, setApplied, setTold, setUnapplied,
                        setStale>>
         /\ setEdited' = F /\ setEditor' = who /\ setPut' = 0 /\ setPc' = next
         /\ \A f \in F : setForm'[f] \in setAsked'[f]
         /\ \A f \in Settings!Field \ F : setForm'[f] = base[f]
         /\ \A f \in Settings!Field : setAsked[f] \subseteq setAsked'[f]
         /\ \A f \in Settings!Field : 0 \in setAsked'[f] => 0 \in setAsked[f]
<1> DEFINE n == Settings!NewValue
<1>1. n \in Nat /\ n # 0
  BY NewIsNew
<1>2. /\ setForm' = [f \in Settings!Field |-> IF f \in F THEN n ELSE base[f]]
      /\ setAsked' = [f \in Settings!Field |-> setAsked[f] \cup (IF f \in F THEN {n} ELSE {})]
      /\ UNCHANGED <<setNvs, setRam, setCopy, setExit, setApplied, setTold, setUnapplied,
                     setStale>>
      /\ setEdited' = F /\ setEditor' = who /\ setPut' = 0 /\ setPc' = next
  BY DEF Settings!Ask
<1>3. setLeft' \in SettingsBounds
  <2>1. setLeft.saves > 0 /\ setLeft' = [setLeft EXCEPT !.saves = @ - 1]
    BY DEF Settings!Ask
  <2> QED BY <2>1, SettingsSpend
<1> HIDE DEF n
<1>4. SettingsTypes'
  BY <1>1, <1>2, <1>3 DEF SettingsTypes, SettingsValues, SettingsSteps
<1> QED
  BY <1>1, <1>2, <1>4

\* A save that begins keeps the invariant if what the editor starts from is good.
LEMMA AskKeeps ==
  ASSUME SettingsInv,
         NEW who \in {"device", "web", "portal"}, NEW base \in [Settings!Field -> Nat],
         NEW F \in SUBSET Settings!Field, NEW next \in {"save", "provider"},
         Settings!Ask(who, base, F, next),
         ~setStale => \A f \in Settings!Field \ F : IsGood(base, f),
         \/ who = "device" /\ next = "save" /\ setPc = "device" /\ base = setRam /\ "api" \notin F
            /\ (F = {"look"} \/ "look" \notin F)
         \/ who = "web" /\ next = "save" /\ setPc = "web" /\ "api" \notin F
         \/ who = "portal" /\ next = "provider" /\ setPc = "portal"
  PROVE  SettingsInv'
<1>0. SettingsTypes /\ next \in SettingsPlaces
  BY DEF SettingsInv, SettingsPlaces
<1>1. /\ SettingsTypes'
      /\ UNCHANGED <<setNvs, setRam, setCopy, setExit, setApplied, setTold, setUnapplied, setStale>>
      /\ setEdited' = F /\ setEditor' = who /\ setPut' = 0 /\ setPc' = next
      /\ \A f \in F : setForm'[f] \in setAsked'[f]
      /\ \A f \in Settings!Field \ F : setForm'[f] = base[f]
      /\ \A f \in Settings!Field : setAsked[f] \subseteq setAsked'[f]
      /\ \A f \in Settings!Field : 0 \in setAsked'[f] => 0 \in setAsked[f]
  BY <1>0, AskFacts
<1> SUFFICES ASSUME ~setStale PROVE SettingsGood'
  BY <1>1 DEF SettingsInv
<1>2. SettingsGood
  BY DEF SettingsInv
<1>3. \A s, f : f \in Settings!Field /\ IsGood(s, f) => s[f] = setTold'[f] \/ s[f] \in setAsked'[f]
  BY <1>1 DEF IsGood
<1>4. "policy" \in Settings!Field /\ "look" \in Settings!Field /\ "api" \in Settings!Field
  BY FieldIs
<1>5. PolicyIsSet'
  BY <1>1, <1>2, <1>4 DEF SettingsGood, PolicyIsSet
<1>6. StoredIsGood'
  BY <1>1, <1>2, <1>3 DEF SettingsGood, StoredIsGood, IsGood
<1>7. RamIsGood'
  BY <1>1, <1>2, <1>3 DEF SettingsGood, RamIsGood, IsGood, DeviceGoesOn, SavedBy
<1>8. CopyIsGood'
  BY <1>1, <1>2, <1>3 DEF SettingsGood, CopyIsGood, IsGood, SavedBy
<1>9. FormIsGood'
  BY <1>1, <1>2, <1>3 DEF FormIsGood, IsGood
<1>10. SaveIsOnItsWay'
  BY <1>1, <1>4 DEF SaveIsOnItsWay, SavedBy
<1>11. LookIsApplied'
  BY <1>1, <1>2 DEF SettingsGood, LookIsApplied, DeviceGoesOn, SavedBy
<1> QED
  BY <1>5, <1>6, <1>7, <1>8, <1>9, <1>10, <1>11 DEF SettingsGood

\* The editors, each with what it starts from.
LEMMA EditorsKeep ==
  ASSUME SettingsInv,
         \/ Settings!PickWifi \/ Settings!EditText \/ Settings!EditLook \/ Settings!EditPolicy
         \/ Settings!WebSettings \/ Settings!Submit
  PROVE  SettingsInv'
<1>1. /\ setRam \in [Settings!Field -> Nat] /\ setCopy \in [Settings!Field -> Nat]
  BY DEF SettingsInv, SettingsTypes, SettingsValues
<1>2. /\ setPc = "device" /\ ~setStale => \A f \in Settings!Field : IsGood(setRam, f)
      /\ setPc = "web" /\ ~setStale => \A f \in Settings!Field : IsGood(setCopy, f)
      /\ setPc = "portal" /\ ~setStale => \A f \in Settings!Field \ {"api"} : IsGood(setCopy, f)
  BY DEF SettingsInv, SettingsGood, RamIsGood, CopyIsGood, DeviceGoesOn
<1>3. ASSUME NEW F \in SUBSET (Settings!Field \ {"api"}), F = {"look"} \/ "look" \notin F,
             setPc = "device", Settings!Ask("device", setRam, F, "save")
      PROVE  SettingsInv'
  BY <1>1, <1>2, <1>3, AskKeeps
<1>4. ASSUME NEW F \in SUBSET (Settings!Field \ {"api"}),
             setPc = "web", Settings!Ask("web", setCopy, F, "save")
      PROVE  SettingsInv'
  BY <1>1, <1>2, <1>4, AskKeeps
<1>5. ASSUME NEW F \in SUBSET Settings!Field, "api" \in F,
             setPc = "portal", Settings!Ask("portal", setCopy, F, "provider")
      PROVE  SettingsInv'
  BY <1>1, <1>2, <1>5, AskKeeps
<1>6. CASE Settings!PickWifi
  BY <1>3, <1>6, FieldIs DEF Settings!PickWifi
<1>7. CASE Settings!EditText
  BY <1>3, <1>7, FieldIs DEF Settings!EditText
<1>8. CASE Settings!EditLook
  BY <1>3, <1>8, FieldIs DEF Settings!EditLook
<1>9. CASE Settings!EditPolicy
  BY <1>3, <1>9, FieldIs DEF Settings!EditPolicy
<1>10. CASE Settings!WebSettings
  <2>1. \A F \in Settings!Groups \cup {{"model"}, Settings!Field \ {"api"}} :
           F \in SUBSET (Settings!Field \ {"api"})
    BY FieldIs DEF Settings!Groups
  <2> QED BY <1>4, <1>10, <2>1 DEF Settings!WebSettings
<1>11. CASE Settings!Submit
  BY <1>5, <1>11, FieldIs DEF Settings!Submit
<1> QED
  BY <1>6, <1>7, <1>8, <1>9, <1>10, <1>11

\* The values, apart from the saves that begin.
LEMMA SettingsTypesKept ==
  ASSUME SettingsInv,
         \/ Settings!Load \/ Settings!Dead \/ Settings!Start \/ Settings!PickModel
         \/ Settings!OpenWeb \/ Settings!WebProvider \/ Settings!Reload \/ Settings!ReloadRefused
         \/ Settings!Setup \/ Settings!Provider \/ Settings!ProviderRefused \/ Settings!LeavePortal
         \/ Settings!Restart \/ Settings!Put \/ Settings!SaveRefused \/ Settings!Saved
         \/ Settings!Apply \/ Settings!ApplyRefused \/ Settings!Reset
  PROVE  SettingsTypes'
<1> USE DEF Settings!Goto, Settings!Fault, Settings!saving, Settings!history
<1>0. SettingsTypes /\ SettingsValues /\ SettingsSteps
  BY DEF SettingsInv, SettingsTypes
<1>1. /\ setLeft.saves > 0 => [setLeft EXCEPT !.saves = @ - 1] \in SettingsBounds
      /\ setLeft.faults > 0 => [setLeft EXCEPT !.faults = @ - 1] \in SettingsBounds
      /\ setLeft.resets > 0 => [setLeft EXCEPT !.resets = @ - 1] \in SettingsBounds
  BY <1>0, SettingsSpend
<1>2. /\ \A f \in Settings!Field, v \in Nat :
           /\ [setNvs EXCEPT ![f] = v] \in [Settings!Field -> Nat]
           /\ [setRam EXCEPT ![f] = v] \in [Settings!Field -> Nat]
           /\ [setCopy EXCEPT ![f] = v] \in [Settings!Field -> Nat]
           /\ [setTold EXCEPT ![f] = v] \in [Settings!Field -> Nat]
           /\ [setAsked EXCEPT ![f] = {}] \in [Settings!Field -> SUBSET Nat]
      /\ \A f \in Settings!Field : setForm[f] \in Nat /\ setNvs[f] \in Nat
  BY <1>0 DEF SettingsValues
<1>3. Settings!NewValue \in Nat
  BY <1>0, NewIsNew
<1>4. "policy" \in Settings!Field /\ "model" \in Settings!Field /\ "api" \in Settings!Field
  BY FieldIs
<1>5. SettingsSteps'
  <2>1. CASE Settings!Load \/ Settings!Dead \/ Settings!Start \/ Settings!OpenWeb \/ Settings!Reload
             \/ Settings!ReloadRefused \/ Settings!Setup \/ Settings!LeavePortal \/ Settings!Restart
    BY <1>0, <1>1, <2>1
       DEF SettingsSteps, SettingsPlaces, Settings!Load, Settings!Dead, Settings!Start,
           Settings!OpenWeb, Settings!Reload, Settings!ReloadRefused, Settings!Setup,
           Settings!OpenPortal, Settings!LeavePortal, Settings!Restart
  <2>2. CASE Settings!PickModel \/ Settings!WebProvider \/ Settings!Provider
               \/ Settings!ProviderRefused
    BY <1>0, <1>1, <2>2
       DEF SettingsSteps, SettingsPlaces, Settings!PickModel, Settings!WebProvider,
           Settings!Provider, Settings!ProviderRefused
  <2>3. CASE Settings!Put
    BY <1>0, <2>3, FieldIs DEF SettingsSteps, Settings!Put
  <2>4. CASE Settings!SaveRefused \/ Settings!Saved \/ Settings!Apply \/ Settings!ApplyRefused
    BY <1>0, <1>1, <2>4
       DEF SettingsSteps, SettingsPlaces, Settings!SaveRefused, Settings!Saved, Settings!Apply,
           Settings!ApplyRefused
  <2>5. CASE Settings!Reset
    BY <1>0, <1>1, <2>5 DEF SettingsSteps, SettingsPlaces, Settings!Reset
  <2> QED BY <2>1, <2>2, <2>3, <2>4, <2>5
<1>6. SettingsValues'
  <2>1. CASE Settings!Dead \/ Settings!Start \/ Settings!OpenWeb \/ Settings!ReloadRefused
             \/ Settings!Setup \/ Settings!LeavePortal \/ Settings!Restart \/ Settings!SaveRefused
             \/ Settings!ApplyRefused \/ Settings!Reset
    BY <1>0, <2>1
       DEF SettingsValues, Settings!Dead, Settings!Start, Settings!OpenWeb,
           Settings!ReloadRefused, Settings!Setup, Settings!OpenPortal, Settings!LeavePortal,
           Settings!Restart, Settings!SaveRefused, Settings!ApplyRefused, Settings!Reset
  <2>2. CASE Settings!Load \/ Settings!Reload
    <3>1. setNvs' = [setNvs EXCEPT !["policy"] = IF setNvs["policy"] = 0 THEN 1 ELSE setNvs["policy"]]
      BY <2>2 DEF Settings!Load, Settings!Reload, Settings!Read
    <3>2. (IF setNvs["policy"] = 0 THEN 1 ELSE setNvs["policy"]) \in Nat
      BY <1>2, <1>4
    <3>3. setNvs' \in [Settings!Field -> Nat]
      BY <1>2, <1>4, <3>1, <3>2
    <3> QED BY <1>0, <2>2, <3>3 DEF SettingsValues, Settings!Load, Settings!Reload, Settings!Read
  <2>3. CASE Settings!PickModel \/ Settings!WebProvider
    BY <1>0, <1>2, <1>3, <1>4, <2>3, SMTT(30)
        DEF SettingsValues, Settings!PickModel, Settings!WebProvider
  <2>4. CASE Settings!Provider \/ Settings!ProviderRefused
    BY <1>0, <1>2, <1>4, <2>4 DEF SettingsValues, Settings!Provider, Settings!ProviderRefused
  <2>5. CASE Settings!Put
    <3>1. setPut + 1 \in 1..6
      BY <1>0, <2>5, FieldIs DEF SettingsSteps, Settings!Put
    <3>2. Settings!Order[setPut + 1] \in Settings!Field
      BY <3>1, FieldIs
    <3> QED BY <1>0, <1>2, <2>5, <3>2 DEF SettingsValues, Settings!Put
  <2>6. CASE Settings!Saved \/ Settings!Apply
    <3>1. /\ [f \in Settings!Field |-> IF f \in setEdited THEN setForm[f] ELSE setTold[f]] \in [Settings!Field -> Nat]
          /\ [f \in Settings!Field |-> IF f \in setEdited THEN {} ELSE setAsked[f]] \in [Settings!Field -> SUBSET Nat]
      BY <1>0 DEF SettingsValues
    <3> QED BY <1>0, <2>6, <3>1 DEF SettingsValues, Settings!Saved, Settings!Apply, Settings!Report
  <2> QED BY <2>1, <2>2, <2>3, <2>4, <2>5, <2>6
<1> QED BY <1>5, <1>6 DEF SettingsTypes

\* loadSettings, which stores a policy if there is none.
LEMMA LoadKeeps == ASSUME SettingsInv, Settings!Load PROVE SettingsInv'
<1>0. SettingsTypes /\ SettingsTypes'
  BY SettingsTypesKept DEF SettingsInv
<1>1. /\ setPc = "boot" /\ setPc' = "start" /\ setRam' = setNvs'
      /\ setNvs' = [setNvs EXCEPT !["policy"] = IF @ = 0 THEN 1 ELSE @]
      /\ UNCHANGED <<setCopy, setForm, setEdited, setEditor, setPut, setExit, setApplied, setTold,
                     setAsked, setUnapplied, setStale>>
  BY DEF Settings!Load, Settings!Read, Settings!Goto, Settings!saving, Settings!history
<1> SUFFICES ASSUME ~setStale PROVE SettingsGood'
  BY <1>0, <1>1 DEF SettingsInv
<1>2. SettingsGood
  BY DEF SettingsInv
<1>3. \A f \in Settings!Field : IsGood(setNvs', f)
  <2> SUFFICES ASSUME NEW f \in Settings!Field PROVE IsGood(setNvs', f)
    OBVIOUS
  <2>1. setNvs \in [Settings!Field -> Nat]
    BY <1>0 DEF SettingsTypes, SettingsValues
  <2>2. IsGood(setNvs, f) \/ (f = "policy" /\ setNvs[f] = 0 /\ setTold[f] = 1)
    BY <1>2 DEF SettingsGood, StoredIsGood
  <2>3. setNvs[f] = 0 /\ f = "policy" => setTold[f] = 1
    BY <1>2, <2>2 DEF SettingsGood, PolicyIsSet, IsGood
  <2>4. setNvs'[f] = IF f = "policy" /\ setNvs[f] = 0 THEN 1 ELSE setNvs[f]
    BY <1>1, <2>1
  <2> QED BY <2>2, <2>3, <2>4 DEF IsGood
<1>4. \A f \in Settings!Field : IsGood(setNvs, f)' /\ IsGood(setRam, f)'
  BY <1>1, <1>3 DEF IsGood
<1>5. PolicyIsSet' /\ StoredIsGood' /\ RamIsGood'
  BY <1>1, <1>2, <1>4 DEF SettingsGood, PolicyIsSet, StoredIsGood, RamIsGood
<1>6. CopyIsGood' /\ FormIsGood' /\ SaveIsOnItsWay' /\ LookIsApplied'
  BY <1>1 DEF CopyIsGood, FormIsGood, SaveIsOnItsWay, LookIsApplied, DeviceGoesOn, SavedBy
<1> QED BY <1>5, <1>6 DEF SettingsGood

\* The start after it, and one that fails.
LEMMA StartKeeps == ASSUME SettingsInv, Settings!Dead \/ Settings!Start PROVE SettingsInv'
<1>0. SettingsTypes /\ SettingsTypes'
  BY SettingsTypesKept DEF SettingsInv
<1>1. /\ UNCHANGED <<setNvs, setRam, setForm, setEdited, setEditor, setPut, setTold, setAsked,
                     setStale>>
      /\ \/ setPc \in {"boot", "start"} /\ setPc' = "dead"
         \/ /\ setPc = "start" /\ setPc' \in {"device", "portal"}
            /\ setApplied' = setRam["look"]
            /\ setPc' = "portal" => setCopy' = setRam
  BY DEF Settings!Dead, Settings!Start, Settings!OpenPortal, Settings!Goto, Settings!saving,
         Settings!history
<1> SUFFICES ASSUME ~setStale PROVE SettingsGood'
  BY <1>0, <1>1 DEF SettingsInv
<1>2. SettingsGood
  BY DEF SettingsInv
<1>3. PolicyIsSet' /\ StoredIsGood'
  <2>1. setPc = "start" => \A f \in Settings!Field : setNvs[f] = 0 =>
            ~(f = "policy" /\ ~IsGood(setNvs, f))
    BY <1>2 DEF SettingsGood, StoredIsGood
  <2>2. PolicyIsSet'
    BY <1>1, <1>2 DEF SettingsGood, PolicyIsSet
  <2>3. StoredIsGood'
    BY <1>1, <1>2, <2>1 DEF SettingsGood, StoredIsGood, IsGood
  <2> QED BY <2>2, <2>3
<1>4. RamIsGood' /\ CopyIsGood' /\ FormIsGood' /\ SaveIsOnItsWay' /\ LookIsApplied'
  <2>1. setPc = "start" => \A f \in Settings!Field : IsGood(setRam, f)
    BY <1>2 DEF SettingsGood, RamIsGood
  <2>2. RamIsGood'
    BY <1>1, <2>1 DEF RamIsGood, IsGood, DeviceGoesOn, SavedBy
  <2>3. CopyIsGood'
    BY <1>1, <2>1 DEF CopyIsGood, IsGood, SavedBy
  <2>4. FormIsGood' /\ SaveIsOnItsWay' /\ LookIsApplied'
    BY <1>1 DEF FormIsGood, SaveIsOnItsWay, LookIsApplied, DeviceGoesOn, SavedBy
  <2> QED BY <2>2, <2>3, <2>4
<1> QED BY <1>3, <1>4 DEF SettingsGood

\* What the device does that is no save.
LEMMA DeviceKeeps ==
  ASSUME SettingsInv,
         Settings!PickModel \/ Settings!OpenWeb \/ Settings!Setup \/ Settings!LeavePortal
  PROVE  SettingsInv'
<1>0. SettingsTypes /\ SettingsTypes'
  BY SettingsTypesKept DEF SettingsInv
<1>1. setStale' = setStale
  BY DEF Settings!PickModel, Settings!OpenWeb, Settings!Setup, Settings!LeavePortal,
     Settings!history
<1> SUFFICES ASSUME ~setStale PROVE SettingsGood'
  BY <1>0, <1>1 DEF SettingsInv
<1>2. SettingsGood
  BY DEF SettingsInv
<1>3. CASE Settings!PickModel
  <2> DEFINE n == Settings!NewValue
  <2>1. /\ setPc = "device" /\ setPc' = "device"
        /\ setNvs' = [setNvs EXCEPT !["model"] = n] /\ setRam' = [setRam EXCEPT !["model"] = n]
        /\ setTold' = [setTold EXCEPT !["model"] = n]
            /\ setAsked' = [setAsked EXCEPT !["model"] = {}]
        /\ UNCHANGED <<setApplied, setUnapplied>>
    BY <1>3 DEF Settings!PickModel
  <2>2. "model" \in Settings!Field /\ "policy" # "model" /\ "look" # "model"
        /\ "policy" \in Settings!Field /\ "look" \in Settings!Field
    BY FieldIs
  <2>3. SettingsValues
    BY <1>0 DEF SettingsTypes
  <2> HIDE DEF n
  <2>4. \A f \in Settings!Field :
          /\ f # "model" => setNvs'[f] = setNvs[f] /\ setRam'[f] = setRam[f]
                            /\ setTold'[f] = setTold[f] /\ setAsked'[f] = setAsked[f]
          /\ f = "model" => setNvs'[f] = n /\ setRam'[f] = n /\ setTold'[f] = n
    BY <2>1, <2>2, <2>3 DEF SettingsValues
  <2>5. PolicyIsSet' /\ LookIsApplied'
    BY <1>2, <2>1, <2>2, <2>4
       DEF SettingsGood, PolicyIsSet, LookIsApplied, DeviceGoesOn, SavedBy
  <2>6. StoredIsGood' /\ RamIsGood'
    BY <1>2, <2>1, <2>2, <2>4
       DEF SettingsGood, StoredIsGood, RamIsGood, DeviceGoesOn, IsGood
  <2>7. CopyIsGood' /\ FormIsGood' /\ SaveIsOnItsWay'
    BY <2>1 DEF CopyIsGood, FormIsGood, SaveIsOnItsWay, SavedBy
  <2> QED BY <2>5, <2>6, <2>7 DEF SettingsGood
<1>4. CASE Settings!OpenWeb \/ Settings!Setup \/ Settings!LeavePortal
  <2>1. /\ UNCHANGED <<setNvs, setRam, setForm, setEdited, setEditor, setPut, setApplied, setTold,
                       setAsked, setUnapplied>>
        /\ \/ setPc = "device" /\ setPc' \in {"web", "portal"} /\ setCopy' = setRam
           \/ setPc = "portal" /\ setExit = "free" /\ setPc' = "device"
    BY <1>4 DEF Settings!OpenWeb, Settings!Setup, Settings!OpenPortal, Settings!LeavePortal,
                Settings!Goto, Settings!saving, Settings!history
  <2>2. (\A f \in Settings!Field : IsGood(setRam, f))
         /\ (~setUnapplied => setApplied = setRam["look"])
    BY <1>2, <2>1 DEF SettingsGood, RamIsGood, LookIsApplied, DeviceGoesOn
  <2>3. PolicyIsSet' /\ StoredIsGood'
    BY <1>2, <2>1 DEF SettingsGood, PolicyIsSet, StoredIsGood, IsGood
  <2>4. RamIsGood' /\ CopyIsGood' /\ LookIsApplied'
    BY <2>1, <2>2 DEF RamIsGood, CopyIsGood, LookIsApplied, IsGood, DeviceGoesOn, SavedBy
  <2>5. FormIsGood' /\ SaveIsOnItsWay'
    BY <2>1 DEF FormIsGood, SaveIsOnItsWay, SavedBy
  <2> QED BY <2>3, <2>4, <2>5 DEF SettingsGood
<1> QED BY <1>3, <1>4

\* The web console, and the return from it.
LEMMA WebKeeps ==
  ASSUME SettingsInv, Settings!WebProvider \/ Settings!Reload \/ Settings!ReloadRefused
  PROVE  SettingsInv'
<1>0. SettingsTypes /\ SettingsTypes'
  BY SettingsTypesKept DEF SettingsInv
<1>1. CASE Settings!ReloadRefused
  BY <1>0, <1>1 DEF Settings!ReloadRefused, SettingsInv
<1>2. CASE Settings!WebProvider
  <2> DEFINE n == Settings!NewValue
  <2>1. /\ setPc = "web" /\ setPc' = "web" /\ setStale' = setStale
        /\ setNvs' = [setNvs EXCEPT !["api"] = n] /\ setCopy' = [setCopy EXCEPT !["api"] = n]
        /\ setTold' = [setTold EXCEPT !["api"] = n] /\ setAsked' = [setAsked EXCEPT !["api"] = {}]
    BY <1>2 DEF Settings!WebProvider
  <2> SUFFICES ASSUME ~setStale PROVE SettingsGood'
    BY <1>0, <2>1 DEF SettingsInv
  <2>s. SettingsGood
    BY DEF SettingsInv
  <2>2. "api" \in Settings!Field /\ "policy" # "api" /\ "policy" \in Settings!Field
    BY FieldIs
  <2>3. SettingsValues
    BY <1>0 DEF SettingsTypes
  <2> HIDE DEF n
  <2>4. \A f \in Settings!Field :
          /\ f # "api" => setNvs'[f] = setNvs[f] /\ setCopy'[f] = setCopy[f]
                          /\ setTold'[f] = setTold[f] /\ setAsked'[f] = setAsked[f]
          /\ f = "api" => setNvs'[f] = n /\ setCopy'[f] = n /\ setTold'[f] = n
    BY <2>1, <2>2, <2>3 DEF SettingsValues
  <2>5. PolicyIsSet'
    BY <2>s, <2>1, <2>2, <2>4 DEF SettingsGood, PolicyIsSet
  <2>6. StoredIsGood' /\ CopyIsGood'
    BY <2>s, <2>1, <2>2, <2>4 DEF SettingsGood, StoredIsGood, CopyIsGood, SavedBy, IsGood
  <2>7. RamIsGood' /\ FormIsGood' /\ SaveIsOnItsWay' /\ LookIsApplied'
    BY <2>1 DEF RamIsGood, FormIsGood, SaveIsOnItsWay, LookIsApplied, DeviceGoesOn, SavedBy
  <2> QED BY <2>5, <2>6, <2>7 DEF SettingsGood
<1>3. CASE Settings!Reload
  <2>1. /\ setPc = "web" /\ setPc' = "reload" /\ setRam' = setNvs' /\ setEdited' = {}
        /\ setNvs' = [setNvs EXCEPT !["policy"] = IF @ = 0 THEN 1 ELSE @]
        /\ UNCHANGED <<setTold, setAsked, setStale>>
    BY <1>3 DEF Settings!Reload, Settings!Read, Settings!Goto, Settings!history
  <2> SUFFICES ASSUME ~setStale PROVE SettingsGood'
    BY <1>0, <2>1 DEF SettingsInv
  <2>2. SettingsGood
    BY DEF SettingsInv
  <2>3. \A f \in Settings!Field : IsGood(setNvs, f)
    BY <2>1, <2>2 DEF SettingsGood, StoredIsGood
  <2>4. setNvs["policy"] # 0 /\ setNvs \in [Settings!Field -> Nat]
    BY <1>0, <2>2, <2>3, FieldIs DEF SettingsGood, PolicyIsSet, IsGood, SettingsTypes,
       SettingsValues
  <2>5. setNvs' = setNvs
    BY <2>1, <2>4
  <2>6. PolicyIsSet' /\ StoredIsGood' /\ RamIsGood'
    BY <2>1, <2>2, <2>3, <2>5 DEF SettingsGood, PolicyIsSet, StoredIsGood, RamIsGood, IsGood
  <2>7. CopyIsGood' /\ FormIsGood' /\ SaveIsOnItsWay' /\ LookIsApplied'
    BY <2>1 DEF CopyIsGood, FormIsGood, SaveIsOnItsWay, LookIsApplied, DeviceGoesOn, SavedBy
  <2> QED BY <2>6, <2>7 DEF SettingsGood
<1> QED BY <1>1, <1>2, <1>3

\* The Local setup portal: the API profile comes first.
LEMMA PortalKeeps ==
  ASSUME SettingsInv, Settings!Provider \/ Settings!ProviderRefused \/ Settings!Restart
  PROVE  SettingsInv'
<1>0. SettingsTypes /\ SettingsTypes'
  BY SettingsTypesKept DEF SettingsInv
<1>1. setStale' = setStale
  BY DEF Settings!Provider, Settings!ProviderRefused, Settings!Restart, Settings!history
<1> SUFFICES ASSUME ~setStale PROVE SettingsGood'
  BY <1>0, <1>1 DEF SettingsInv
<1>2. SettingsGood
  BY DEF SettingsInv
<1>3. "api" \in Settings!Field /\ "policy" # "api" /\ "policy" \in Settings!Field
  BY FieldIs
<1>4. SettingsValues /\ setForm["api"] \in Nat
  BY <1>0, <1>3 DEF SettingsTypes, SettingsValues
<1>5. CASE Settings!Provider
  <2>1. /\ setPc = "provider" /\ setPc' = "save" /\ setExit' # "free"
        /\ setNvs' = [setNvs EXCEPT !["api"] = setForm["api"]]
        /\ setTold' = [setTold EXCEPT !["api"] = setForm["api"]]
        /\ setAsked' = [setAsked EXCEPT !["api"] = {}]
        /\ UNCHANGED <<setRam, setCopy, setForm, setEdited, setEditor, setPut>>
    BY <1>5 DEF Settings!Provider, Settings!Goto, Settings!saving
  <2>2. \A f \in Settings!Field :
          /\ f # "api" =>
                 setNvs'[f] = setNvs[f] /\ setTold'[f] = setTold[f] /\ setAsked'[f] = setAsked[f]
          /\ f = "api" => setNvs'[f] = setForm[f] /\ setTold'[f] = setForm[f]
    BY <1>3, <1>4, <2>1 DEF SettingsValues
  <2>3. setEditor = "portal" /\ setPut = 0
    BY <1>2, <2>1 DEF SettingsGood, SaveIsOnItsWay
  <2>4. PolicyIsSet'
    BY <1>2, <1>3, <2>2 DEF SettingsGood, PolicyIsSet
  <2>5. StoredIsGood' /\ CopyIsGood' /\ FormIsGood'
    BY <1>2, <1>3, <2>1, <2>2, <2>3 DEF SettingsGood, StoredIsGood, CopyIsGood, FormIsGood,
       SavedBy, IsGood
  <2>6. SaveIsOnItsWay' /\ RamIsGood' /\ LookIsApplied'
    BY <1>3, <2>1, <2>2, <2>3 DEF SaveIsOnItsWay, RamIsGood, LookIsApplied, DeviceGoesOn,
       SavedBy
  <2> QED BY <2>4, <2>5, <2>6 DEF SettingsGood
<1>6. CASE Settings!ProviderRefused
  <2>1. /\ setPc = "provider" /\ setPc' = "portal" /\ (setExit' = "free" => setExit = "free")
        /\ setNvs' \in {setNvs, [setNvs EXCEPT !["api"] = setForm["api"]]}
        /\ UNCHANGED <<setRam, setCopy, setForm, setEdited, setEditor, setPut, setApplied, setTold,
                       setAsked, setUnapplied>>
    BY <1>6 DEF Settings!ProviderRefused, Settings!saving, Settings!history
  <2>2. \A f \in Settings!Field : setNvs'[f] = setNvs[f] \/ (f = "api" /\ setNvs'[f] = setForm[f])
    BY <1>3, <1>4, <2>1 DEF SettingsValues
  <2>3. \A f \in Settings!Field : IsGood(setForm, f)
    BY <1>2, <2>1 DEF SettingsGood, FormIsGood
  <2>4. PolicyIsSet' /\ StoredIsGood'
    BY <1>2, <1>3, <2>1, <2>2, <2>3 DEF SettingsGood, PolicyIsSet, StoredIsGood, IsGood
  <2>5. RamIsGood' /\ CopyIsGood' /\ LookIsApplied'
    BY <1>2, <2>1 DEF SettingsGood, RamIsGood, CopyIsGood, LookIsApplied, DeviceGoesOn,
       SavedBy, IsGood
  <2>6. FormIsGood' /\ SaveIsOnItsWay'
    BY <2>1 DEF FormIsGood, SaveIsOnItsWay, SavedBy
  <2> QED BY <2>4, <2>5, <2>6 DEF SettingsGood
<1>7. CASE Settings!Restart
  <2>1. setPc = "portal" /\ setPc' = "boot" /\ UNCHANGED <<setNvs, setTold, setAsked>>
    BY <1>7 DEF Settings!Restart, Settings!Goto, Settings!history
  <2>2. PolicyIsSet' /\ StoredIsGood'
    BY <1>2, <2>1 DEF SettingsGood, PolicyIsSet, StoredIsGood, IsGood
  <2>3. RamIsGood' /\ CopyIsGood' /\ FormIsGood' /\ SaveIsOnItsWay' /\ LookIsApplied'
    BY <2>1 DEF RamIsGood, CopyIsGood, FormIsGood, SaveIsOnItsWay, LookIsApplied,
       DeviceGoesOn, SavedBy
  <2> QED BY <2>2, <2>3 DEF SettingsGood
<1> QED BY <1>5, <1>6, <1>7

\* One entry is written.
LEMMA PutKeeps == ASSUME SettingsInv, Settings!Put PROVE SettingsInv'
<1>0. SettingsTypes /\ SettingsTypes'
  BY SettingsTypesKept DEF SettingsInv
<1>1. /\ setPc = "save" /\ setPut < 6 /\ setPut' = setPut + 1
      /\ setNvs' = [setNvs EXCEPT ![Settings!Order[setPut + 1]] = setForm[Settings!Order[setPut + 1]]]
      /\ UNCHANGED <<setRam, setCopy, setForm, setEdited, setPc, setEditor, setExit, setApplied,
                     setTold, setAsked, setUnapplied, setStale>>
  BY FieldIs DEF Settings!Put, Settings!history
<1> SUFFICES ASSUME ~setStale PROVE SettingsGood'
  BY <1>0, <1>1 DEF SettingsInv
<1>2. SettingsGood
  BY DEF SettingsInv
<1>3. setPut \in 0..5 /\ SettingsValues
  BY <1>0, <1>1 DEF SettingsTypes, SettingsSteps
<1>4. PICK p \in 1..6 : p = setPut + 1
  BY <1>3
<1>5. PICK e \in Settings!Field : e = Settings!Order[p]
  BY FieldIs
<1>6. \A f \in Settings!Field : setNvs'[f] = IF f = e THEN setForm[f] ELSE setNvs[f]
  BY <1>1, <1>3, <1>4, <1>5 DEF SettingsValues
<1>7. \A f \in Settings!Field : IsGood(setForm, f)
  BY <1>1, <1>2 DEF SettingsGood, FormIsGood
<1>8. PolicyIsSet' /\ StoredIsGood'
  BY <1>1, <1>2, <1>6, <1>7 DEF SettingsGood, PolicyIsSet, StoredIsGood, IsGood
<1>9. RamIsGood' /\ CopyIsGood' /\ FormIsGood' /\ LookIsApplied'
  BY <1>1, <1>2 DEF SettingsGood, RamIsGood, CopyIsGood, FormIsGood, LookIsApplied,
     DeviceGoesOn,
                    SavedBy, IsGood
<1>10. SaveIsOnItsWay'
  <2>1. \A i \in 1..setPut : setNvs[Settings!Order[i]] = setForm[Settings!Order[i]]
    BY <1>1, <1>2 DEF SettingsGood, SaveIsOnItsWay
  <2>2. \A i \in 1..setPut' : setNvs'[Settings!Order[i]] = setForm'[Settings!Order[i]]
    <3> SUFFICES ASSUME NEW i \in 1..p PROVE setNvs'[Settings!Order[i]] = setForm[Settings!Order[i]]
      BY <1>1, <1>4
    <3>1. i \in 1..6 /\ (i = p \/ i \in 1..setPut)
      BY <1>3, <1>4
    <3>2. Settings!Order[i] \in Settings!Field
      BY <3>1, FieldIs
    <3> QED BY <1>5, <1>6, <2>1, <3>1, <3>2
  <2>3. "api" \in setEdited => setNvs'["api"] = setForm["api"]
    BY <1>1, <1>2, <1>6, FieldIs DEF SettingsGood, SaveIsOnItsWay
  <2> QED BY <1>1, <1>2, <2>2, <2>3 DEF SettingsGood, SaveIsOnItsWay, SavedBy
<1> QED BY <1>8, <1>9, <1>10 DEF SettingsGood

\* What is reported was written.
LEMMA ReportFacts ==
  ASSUME SettingsInv, ~setStale, Settings!Report,
         \A f \in setEdited : setNvs[f] = setForm[f],
         \A f \in Settings!Field : IsGood(setForm, f)
  PROVE  /\ PolicyIsSet'
         /\ \A s, f : f \in Settings!Field /\ IsGood(s, f)
                       /\ (f \in setEdited => s[f] = setForm[f]) =>
                        s[f] = setTold'[f] \/ s[f] \in setAsked'[f]
<1>1. SettingsGood /\ setEdited \subseteq Settings!Field /\ "policy" \in Settings!Field
  BY FieldIs DEF SettingsInv, SettingsTypes, SettingsSteps
<1>2. \A f \in Settings!Field :
        /\ setTold'[f] = IF f \in setEdited THEN setForm[f] ELSE setTold[f]
        /\ setAsked'[f] = IF f \in setEdited THEN {} ELSE setAsked[f]
  BY DEF Settings!Report
<1>3. PolicyIsSet'
  BY <1>1, <1>2 DEF SettingsGood, PolicyIsSet, IsGood
<1>4. \A s, f : f \in Settings!Field /\ IsGood(s, f) /\ (f \in setEdited => s[f] = setForm[f]) =>
                  s[f] = setTold'[f] \/ s[f] \in setAsked'[f]
  BY <1>2 DEF IsGood
<1> QED BY <1>3, <1>4

\* The end of a save.
LEMMA SavedKeeps == ASSUME SettingsInv, Settings!SaveRefused \/ Settings!Saved PROVE SettingsInv'
<1>0. SettingsTypes /\ SettingsTypes'
  BY SettingsTypesKept DEF SettingsInv
<1>1. setStale' = setStale
  BY DEF Settings!SaveRefused, Settings!Saved, Settings!Report, Settings!history
<1> SUFFICES ASSUME ~setStale PROVE SettingsGood'
  BY <1>0, <1>1 DEF SettingsInv
<1>2. SettingsGood
  BY DEF SettingsInv
<1>3. setEditor \in {"device", "web", "portal"} /\ setEdited \subseteq Settings!Field
  BY <1>0 DEF SettingsTypes, SettingsSteps
<1>4. CASE Settings!SaveRefused
  <2>1. /\ setPc = "save" /\ setPc' = setEditor
        /\ UNCHANGED <<setNvs, setRam, setCopy, setForm, setEdited, setEditor, setPut, setExit,
                       setApplied, setTold, setAsked, setUnapplied>>
    BY <1>4 DEF Settings!SaveRefused, Settings!saving, Settings!history
  <2>2. setEditor = "portal" => setExit # "free"
    BY <1>2, <2>1 DEF SettingsGood, SaveIsOnItsWay, SavedBy
  <2>3. PolicyIsSet' /\ StoredIsGood'
    BY <1>2, <2>1 DEF SettingsGood, PolicyIsSet, StoredIsGood, IsGood
  <2>4. RamIsGood' /\ CopyIsGood' /\ LookIsApplied'
    BY <1>2, <1>3, <2>1, <2>2
       DEF SettingsGood, RamIsGood, CopyIsGood, LookIsApplied, DeviceGoesOn, SavedBy, IsGood
  <2>5. FormIsGood' /\ SaveIsOnItsWay'
    BY <1>3, <2>1 DEF FormIsGood, SaveIsOnItsWay, SavedBy
  <2> QED BY <2>3, <2>4, <2>5 DEF SettingsGood
<1>5. CASE Settings!Saved
  <2>1. /\ setPc = "save" /\ setPut = 6
        /\ setPc' = IF setEditor = "device" /\ setEdited = {"look"} THEN "apply" ELSE setEditor
        /\ IF setEditor = "device" THEN setRam' = setForm /\ UNCHANGED setCopy
           ELSE setCopy' = setForm /\ UNCHANGED setRam
        /\ setExit' = IF setEditor = "portal" THEN "restart" ELSE setExit
        /\ UNCHANGED <<setNvs, setForm, setEdited, setEditor, setPut, setApplied, setUnapplied>>
    BY <1>5, FieldIs DEF Settings!Saved, Settings!Goto, Settings!saving
  <2>2. \A f \in setEdited : setNvs[f] = setForm[f]
    <3> SUFFICES ASSUME NEW f \in setEdited PROVE setNvs[f] = setForm[f]
      OBVIOUS
    <3>1. CASE f = "api"
      BY <1>2, <2>1, <3>1 DEF SettingsGood, SaveIsOnItsWay
    <3>2. CASE f # "api"
      <4>1. PICK i \in 1..6 : Settings!Order[i] = f
        BY <1>3, <3>2, FieldIs
      <4> QED BY <1>2, <2>1, <4>1 DEF SettingsGood, SaveIsOnItsWay
    <3> QED BY <3>1, <3>2
  <2>3. \A f \in Settings!Field : IsGood(setForm, f) /\ IsGood(setNvs, f)
    BY <1>2, <2>1 DEF SettingsGood, FormIsGood, StoredIsGood
  <2>4. CASE setPc' = "apply"
    <3>1. UNCHANGED <<setTold, setAsked>> /\ setEditor = "device" /\ setEdited = {"look"}
      BY <1>3, <1>5, <2>1, <2>4 DEF Settings!Saved
    <3>2. PolicyIsSet' /\ StoredIsGood' /\ RamIsGood' /\ FormIsGood'
      BY <1>2, <2>1, <2>3, <2>4, <3>1
         DEF SettingsGood, PolicyIsSet, StoredIsGood, RamIsGood, FormIsGood, IsGood
    <3>3. CopyIsGood' /\ SaveIsOnItsWay' /\ LookIsApplied'
      BY <2>1, <2>2, <2>4, <3>1 DEF CopyIsGood, SaveIsOnItsWay, LookIsApplied, SavedBy
    <3> QED BY <3>2, <3>3 DEF SettingsGood
  <2>5. CASE setPc' # "apply"
    <3>1. Settings!Report /\ setPc' = setEditor
      BY <1>5, <2>1, <2>5 DEF Settings!Saved
    <3>2. /\ PolicyIsSet'
          /\ \A s, f : f \in Settings!Field /\ IsGood(s, f)
                        /\ (f \in setEdited => s[f] = setForm[f]) =>
                         s[f] = setTold'[f] \/ s[f] \in setAsked'[f]
      BY <2>2, <2>3, <3>1, ReportFacts
    <3>3. \A f \in Settings!Field :
            /\ setForm[f] = setTold'[f] \/ setForm[f] \in setAsked'[f]
            /\ setNvs[f] = setTold'[f] \/ setNvs[f] \in setAsked'[f]
      BY <2>2, <2>3, <3>2
    <3>4. StoredIsGood' /\ RamIsGood' /\ CopyIsGood'
      BY <1>3, <2>1, <3>1, <3>3
         DEF StoredIsGood, RamIsGood, CopyIsGood, DeviceGoesOn, SavedBy, IsGood
    <3>5. FormIsGood' /\ SaveIsOnItsWay'
      BY <1>3, <2>1, <3>1 DEF FormIsGood, SaveIsOnItsWay, SavedBy
    <3>6. LookIsApplied'
      BY <1>2, <1>3, <2>1, <2>5, <3>1 DEF SettingsGood, LookIsApplied, SaveIsOnItsWay,
         DeviceGoesOn, SavedBy
    <3> QED BY <3>2, <3>4, <3>5, <3>6 DEF SettingsGood
  <2> QED BY <2>4, <2>5
<1> QED BY <1>4, <1>5

\* The hardware takes the look, or refuses it, or there is a reset.
LEMMA ApplyKeeps ==
  ASSUME SettingsInv, Settings!Apply \/ Settings!ApplyRefused \/ Settings!Reset
  PROVE  SettingsInv'
<1>0. SettingsTypes /\ SettingsTypes'
  BY SettingsTypesKept DEF SettingsInv
<1>1. setStale' = setStale
  BY DEF Settings!Apply, Settings!ApplyRefused, Settings!Reset, Settings!Report,
     Settings!history
<1> SUFFICES ASSUME ~setStale PROVE SettingsGood'
  BY <1>0, <1>1 DEF SettingsInv
<1>2. SettingsGood
  BY DEF SettingsInv
<1>3. CASE Settings!Apply
  <2>1. /\ setPc \in {"apply", "reload"} /\ setPc' = "device" /\ setApplied' = setRam["look"]
        /\ Settings!Report /\ UNCHANGED <<setNvs, setRam, setForm, setEdited>>
    BY <1>3 DEF Settings!Apply, Settings!Goto, Settings!saving
  <2>2. /\ \A f \in Settings!Field : IsGood(setRam, f) /\ IsGood(setNvs, f)
        /\ \A f \in setEdited : setNvs[f] = setForm[f] /\ setRam[f] = setForm[f]
    BY <1>2, <2>1 DEF SettingsGood, RamIsGood, StoredIsGood, SaveIsOnItsWay, DeviceGoesOn
  <2>3. \A f \in Settings!Field :
          /\ f \in setEdited => setTold'[f] = setForm[f]
          /\ f \notin setEdited => setTold'[f] = setTold[f] /\ setAsked'[f] = setAsked[f]
          /\ setAsked'[f] \subseteq setAsked[f]
    BY <2>1 DEF Settings!Report
  <2>4. PolicyIsSet'
    <3>1. CASE "policy" \in setEdited
      BY <1>2, <2>2, <2>3, <3>1, FieldIs DEF SettingsGood, PolicyIsSet, IsGood
    <3>2. CASE "policy" \notin setEdited
      BY <1>2, <2>3, <3>2, FieldIs DEF SettingsGood, PolicyIsSet
    <3> QED BY <3>1, <3>2
  <2>5. \A f \in Settings!Field :
          /\ setRam[f] = setTold'[f] \/ setRam[f] \in setAsked'[f]
          /\ setNvs[f] = setTold'[f] \/ setNvs[f] \in setAsked'[f]
    BY <2>2, <2>3 DEF IsGood
  <2>6. StoredIsGood' /\ RamIsGood' /\ CopyIsGood' /\ FormIsGood' /\ SaveIsOnItsWay'
         /\ LookIsApplied'
    BY <2>1, <2>5 DEF StoredIsGood, RamIsGood, CopyIsGood, FormIsGood, SaveIsOnItsWay,
       LookIsApplied,
                      IsGood, SavedBy
  <2> QED BY <2>4, <2>6 DEF SettingsGood
<1>4. CASE Settings!ApplyRefused
  <2>1. /\ setPc \in {"apply", "reload"} /\ setPc' = "device" /\ setUnapplied' = TRUE
        /\ UNCHANGED <<setNvs, setRam, setTold, setAsked>>
    BY <1>4 DEF Settings!ApplyRefused
  <2>2. PolicyIsSet' /\ StoredIsGood' /\ RamIsGood'
    BY <1>2, <2>1 DEF SettingsGood, PolicyIsSet, StoredIsGood, RamIsGood, IsGood, DeviceGoesOn
  <2>3. CopyIsGood' /\ FormIsGood' /\ SaveIsOnItsWay' /\ LookIsApplied'
    BY <2>1 DEF CopyIsGood, FormIsGood, SaveIsOnItsWay, LookIsApplied, SavedBy
  <2> QED BY <2>2, <2>3 DEF SettingsGood
<1>5. CASE Settings!Reset
  <2>1. setPc' = "boot" /\ UNCHANGED <<setNvs, setTold, setAsked>>
    BY <1>5 DEF Settings!Reset, Settings!history
  <2>2. PolicyIsSet' /\ StoredIsGood'
    BY <1>2, <2>1 DEF SettingsGood, PolicyIsSet, StoredIsGood, IsGood
  <2>3. RamIsGood' /\ CopyIsGood' /\ FormIsGood' /\ SaveIsOnItsWay' /\ LookIsApplied'
    BY <2>1 DEF RamIsGood, CopyIsGood, FormIsGood, SaveIsOnItsWay, LookIsApplied,
       DeviceGoesOn, SavedBy
  <2> QED BY <2>2, <2>3 DEF SettingsGood
<1> QED BY <1>3, <1>4, <1>5

\* Every step keeps the invariant.
LEMMA SettingsInvKept == SettingsInv /\ [Settings!Next]_setVars => SettingsInv'
<1> SUFFICES ASSUME SettingsInv, [Settings!Next]_setVars PROVE SettingsInv'
  OBVIOUS
<1>1. CASE UNCHANGED setVars
  BY <1>1 DEF setVars, SettingsInv, SettingsTypes, SettingsValues, SettingsSteps, SettingsGood,
              PolicyIsSet, StoredIsGood, RamIsGood, CopyIsGood, FormIsGood, SaveIsOnItsWay,
              LookIsApplied, DeviceGoesOn, SavedBy, IsGood
<1>2. CASE Settings!Next
  BY <1>2, LoadKeeps, StartKeeps, EditorsKeep, DeviceKeeps, WebKeeps, PortalKeeps, PutKeeps,
     SavedKeeps, ApplyKeeps DEF Settings!Next
<1> QED BY <1>1, <1>2

\* What the invariant says of the settings in NVS, of the device and of the hardware.
LEMMA SettingsTold == SettingsInv => SettingsAreAsTold
<1> SUFFICES ASSUME SettingsInv, ~setStale
             PROVE  /\ \A f \in Settings!Field : setNvs[f] \in {setTold[f], 0} \cup setAsked[f]
                    /\ setNvs["policy"] = 0 => setPc \in {"boot", "dead"}
                    /\ setPc = "device" =>
                           \A f \in Settings!Field : setRam[f] \in {setTold[f]} \cup setAsked[f]
                    /\ setPc = "device" /\ ~setUnapplied => setApplied = setRam["look"]
  BY DEF SettingsAreAsTold, Settings!SettingsAreAsTold
<1>1. SettingsGood /\ "policy" \in Settings!Field
  BY FieldIs DEF SettingsInv
<1>2. \A f \in Settings!Field : setNvs[f] \in {setTold[f], 0} \cup setAsked[f]
  BY <1>1 DEF SettingsGood, StoredIsGood, IsGood
<1>3. setNvs["policy"] = 0 => setPc \in {"boot", "dead"}
  BY <1>1 DEF SettingsGood, StoredIsGood, PolicyIsSet, IsGood
<1>4. setPc = "device" => \A f \in Settings!Field : setRam[f] \in {setTold[f]} \cup setAsked[f]
  BY <1>1 DEF SettingsGood, RamIsGood, DeviceGoesOn, IsGood
<1>5. setPc = "device" /\ ~setUnapplied => setApplied = setRam["look"]
  BY <1>1 DEF SettingsGood, LookIsApplied, DeviceGoesOn
<1> QED BY <1>2, <1>3, <1>4, <1>5

\* storage.cpp, provisioning.cpp and the menus: every setting in NVS and on the device
\* is the one last reported saved, or one an attempt asked for since, whichever of the
\* editors saved it and wherever a reset or a refusal came in between.
THEOREM SettingsTrue == ServicesSpec => []SettingsAreAsTold
<1>1. ServicesInit => SettingsInv
  BY InitSettings
<1>2. SettingsInv /\ [ServicesNext]_allVars => SettingsInv'
  BY Frames, SettingsInvKept
<1> QED
  BY <1>1, <1>2, SettingsTold, PTL DEF ServicesSpec

-----------------------------------------------------------------------------
(* CardFixture: the large file and the one that is replaced atomically.    *)

LargeTypes ==
  /\ bigKind \in {"large", "atomic"}
  /\ bigOwner \in {"absent", "pending", "complete", "cleaning"}
  /\ bigFile \in {"none", "part", "whole", "patched", "longer"}
  /\ bigPc \in {"idle", "over", "space", "own", "root", "open", "fill", "backup", "replace",
                "complete", "made", "verify", "begin", "validate", "mark", "file", "rmbackup",
                "rmroot", "owner", "cleaned"}

\* How far a command has come, from what is on record.
LargeRecord ==
  /\ bigPc \in {"space", "own", "cleaned"} => Large!Absent
  /\ bigPc \in {"root", "open", "fill", "backup", "replace", "complete"} => bigOwner = "pending"
  /\ bigPc \in {"validate", "mark"} => bigOwner # "absent"
  /\ bigPc = "made" => bigOwner = "complete"
  /\ bigPc \in {"file", "rmbackup", "rmroot", "owner"} => bigOwner = "cleaning"
  /\ bigPc = "owner" => ~bigRoot
  /\ bigOwner # "absent" => ~bigStray
  /\ bigRoot => bigOwner # "absent"

\* What the setup has made; the directory stays with what is in it.
LargeMade ==
  /\ bigPc \in {"space", "own", "root", "open", "fill", "backup", "replace", "complete", "made"} =>
       bigCmd = "setup"
  /\ bigPc = "verify" => bigCmd = "verify"
  /\ bigPc \in {"open", "fill", "backup", "replace", "complete"} => bigRoot
  /\ bigPc \in {"backup", "replace", "complete"} => bigFile = "whole"
  /\ bigPc \in {"replace", "complete"} /\ bigKind = "atomic" => bigBackup
  /\ bigOwner = "complete" =>
       bigRoot /\ bigFile \in {"whole", "patched", "longer"} /\ (bigKind = "atomic" => bigBackup)

\* What the user put there was looked for.
LargeOthers ==
  /\ bigAlien => bigRoot /\ bigPc \in {"idle", "begin", "validate", "over", "verify"}
  /\ bigPc = "mark" /\ bigOwner = "complete" =>
       bigFile = "whole" \/ (bigFile = "patched" /\ bigKind = "large")
  /\ bigPc = "over" /\ bigCmd = "clean" =>
       bigAlien \/ bigFile \in {"patched", "longer"} \/ Large!Absent

LargeInv == LargeTypes /\ LargeRecord /\ LargeMade /\ LargeOthers

\* No command has been given.
LEMMA InitLarge == ServicesInit => LargeInv
  BY DEF ServicesInit, Large!Init, LargeInv, LargeTypes, LargeRecord, LargeMade, LargeOthers

\* A call that is refused ends the command, or turns a setup into a cleanup.
LEMMA LargeFails ==
  ASSUME LargeInv, Large!Fail, LargeTypes', UNCHANGED <<bigAlien>>,
         bigOwner' # "absent" => ~bigStray', bigRoot' => bigOwner' # "absent",
         bigOwner' = "complete" =>
           bigRoot' /\ bigFile' \in {"whole", "patched", "longer"}
            /\ (bigKind' = "atomic" => bigBackup'),
         bigAlien => bigRoot'
  PROVE  LargeInv'
<1>1. bigPc' \in {"begin", "idle"}
  BY DEF Large!Fail, Large!End
<1>2. LargeRecord' /\ LargeMade' /\ LargeOthers'
  BY <1>1 DEF LargeRecord, LargeMade, LargeOthers
<1> QED BY <1>2 DEF LargeInv

\* The record is replaced atomically.
LEMMA LargeWrites ==
  ASSUME LargeInv, NEW step, NEW new, NEW next, Large!Write(step, new, next),
         \/ step = "own" /\ new = "pending" /\ next = "root"
         \/ step = "complete" /\ new = "complete" /\ next = "made"
         \/ step = "mark" /\ new = "cleaning" /\ next = "file"
  PROVE  LargeInv'
<1>1. /\ bigPc = step /\ UNCHANGED <<bigRoot, bigFile, bigBackup, bigAlien, bigKind>>
      /\ \/ bigOwner' = new /\ bigStray' = FALSE /\ Large!Goto(next)
         \/ /\ bigOwner' \in {bigOwner, new}
            /\ bigStray' \in (IF bigOwner' = "absent" THEN BOOLEAN ELSE {FALSE})
            /\ Large!Fail
  BY DEF Large!Write, Large!tree, Large!Goto, Large!Fail, Large!End
<1>2. CASE bigOwner' = new /\ bigStray' = FALSE /\ Large!Goto(next)
  <2>1. bigPc' = next /\ bigCmd' = bigCmd
    BY <1>2 DEF Large!Goto
  <2>2. LargeTypes'
    BY <1>1, <1>2, <2>1 DEF LargeInv, LargeTypes
  <2>3. LargeRecord' /\ LargeMade' /\ LargeOthers'
    BY <1>1, <1>2, <2>1
       DEF LargeInv, LargeTypes, LargeRecord, LargeMade, LargeOthers, Large!Absent, Large!HasOwner
  <2> QED BY <2>2, <2>3 DEF LargeInv
<1>3. CASE /\ bigOwner' \in {bigOwner, new}
           /\ bigStray' \in (IF bigOwner' = "absent" THEN BOOLEAN ELSE {FALSE})
           /\ Large!Fail
  <2>1. bigPc' \in {"begin", "idle"}
    BY <1>3 DEF Large!Fail, Large!End
  <2>2. LargeTypes'
    BY <1>1, <1>3, <2>1 DEF LargeInv, LargeTypes
  <2>3. /\ bigOwner' # "absent" => ~bigStray'
        /\ bigRoot' => bigOwner' # "absent"
        /\ bigAlien => bigRoot'
    BY <1>1, <1>3 DEF LargeInv, LargeRecord, LargeOthers
  <2>4. bigOwner' = "complete" =>
          bigRoot' /\ bigFile' \in {"whole", "patched", "longer"}
           /\ (bigKind' = "atomic" => bigBackup')
    BY <1>1, <1>3 DEF LargeInv, LargeMade
  <2> QED BY <1>1, <1>3, <2>2, <2>3, <2>4, LargeFails
<1> QED BY <1>1, <1>2, <1>3

\* Every step of the two commands and of their user keeps the invariant.
LEMMA LargeInvKept == LargeInv /\ [Large!Next]_bigVars => LargeInv'
<1> SUFFICES ASSUME LargeInv, [Large!Next]_bigVars PROVE LargeInv'
  OBVIOUS
<1>1. CASE UNCHANGED bigVars
  BY <1>1 DEF bigVars, LargeInv, LargeTypes, LargeRecord, LargeMade, LargeOthers, Large!Absent,
         Large!HasOwner
<1>2. CASE Large!Own \/ Large!Complete \/ Large!Mark
  BY <1>2, LargeWrites DEF Large!Own, Large!Complete, Large!Mark
<1>3. CASE Large!Fail /\ UNCHANGED <<bigOwner, bigStray, bigRoot, bigFile, bigBackup, bigAlien>>
  <2>1. bigPc' \in {"begin", "idle"} /\ bigKind' = bigKind
    BY <1>3 DEF Large!Fail, Large!End
  <2>2. LargeTypes'
    BY <1>3, <2>1 DEF LargeInv, LargeTypes
  <2> QED BY <1>3, <2>1, <2>2, LargeFails DEF LargeInv, LargeRecord, LargeMade, LargeOthers
<1>4. CASE Large!Setup \/ Large!Clean \/ Large!Verify \/ Large!Refuse
  BY <1>4 DEF Large!Setup, Large!Clean, Large!Verify, Large!Command, Large!Refuse, Large!End,
         Large!record, Large!tree,
              LargeInv, LargeTypes, LargeRecord, LargeMade, LargeOthers, Large!Absent,
              Large!HasOwner
<1>5. CASE Large!Space \/ Large!MakeRoot \/ Large!Open \/ Large!Fill \/ Large!MakeBackup
             \/ Large!Replace
  BY <1>3, <1>5 DEF Large!Space, Large!MakeRoot, Large!Open, Large!Fill, Large!MakeBackup,
         Large!Replace, Large!Goto,
              Large!record, Large!tree,
              LargeInv, LargeTypes, LargeRecord, LargeMade, LargeOthers, Large!Absent,
              Large!HasOwner
<1>6. CASE Large!Made \/ Large!Verified \/ Large!Cleaned
  BY <1>6 DEF Large!Made, Large!Verified, Large!Cleaned, Large!End, Large!record, Large!tree,
              LargeInv, LargeTypes, LargeRecord, LargeMade, LargeOthers, Large!Absent,
              Large!HasOwner
<1>7. CASE Large!Begin \/ Large!BeginRefused \/ Large!Validate
  BY <1>3, <1>7 DEF Large!Begin, Large!BeginRefused, Large!Validate, Large!Valid, Large!Goto,
              Large!record, Large!tree,
              LargeInv, LargeTypes, LargeRecord, LargeMade, LargeOthers, Large!Absent,
              Large!HasOwner
<1>8. CASE Large!RemoveFile \/ Large!RemoveBackup \/ Large!RemoveRoot \/ Large!RemoveOwner
  BY <1>3, <1>8
     DEF Large!RemoveFile, Large!RemoveBackup, Large!RemoveRoot, Large!RemoveOwner, Large!Goto,
              Large!record, Large!tree,
              LargeInv, LargeTypes, LargeRecord, LargeMade, LargeOthers, Large!Absent,
              Large!HasOwner
<1>9. CASE Large!Edit \/ Large!TidyUp \/ Large!Reset
  BY <1>9 DEF Large!Edit, Large!TidyUp, Large!Reset, Large!record, Large!tree,
              LargeInv, LargeTypes, LargeRecord, LargeMade, LargeOthers, Large!Absent,
              Large!HasOwner
<1> QED BY <1>1, <1>2, <1>4, <1>5, <1>6, <1>7, <1>8, <1>9 DEF Large!Next

\* A cleanup leaves nothing behind that nobody stood in the way of.
LEMMA LargeSettles ==
  LargeInv /\ [Large!Next]_bigVars =>
    [bigCmd = "clean" /\ bigTold' # "none" /\ bigPc' = "idle" /\ bigPc # "idle"
       => bigRefused' \/ bigAlien \/ bigFile \in {"patched", "longer"} \/ Large!Absent']_bigVars
<1> SUFFICES ASSUME LargeInv, Large!Next, bigCmd = "clean", bigTold' # "none", bigPc' = "idle", bigPc # "idle",
                    ~bigRefused', ~bigAlien, bigFile \notin {"patched", "longer"}
             PROVE  Large!Absent'
  OBVIOUS
<1>1. ~Large!Fail
  BY DEF Large!Fail
<1>2. ~Large!Reset
  BY DEF Large!Reset
<1>3. CASE Large!Refuse \/ Large!Cleaned
  BY <1>3
     DEF Large!Refuse, Large!Cleaned, Large!record, Large!tree, LargeInv, LargeRecord, LargeOthers,
              Large!Absent, Large!HasOwner
<1>4. CASE Large!Made \/ Large!Verified
  BY <1>4 DEF Large!Made, Large!Verified, LargeInv, LargeMade
<1>5. CASE Large!Setup \/ Large!Clean \/ Large!Verify \/ Large!Edit \/ Large!TidyUp
  BY <1>5 DEF Large!Setup, Large!Clean, Large!Verify, Large!Edit, Large!TidyUp, Large!Command
<1>6. CASE Large!Space \/ Large!Own \/ Large!MakeRoot \/ Large!Open \/ Large!Fill
             \/ Large!MakeBackup
           \/ Large!Replace \/ Large!Complete \/ Large!Mark
  BY <1>1, <1>6
     DEF Large!Space, Large!Own, Large!MakeRoot, Large!Open, Large!Fill, Large!MakeBackup,
                    Large!Replace, Large!Complete, Large!Mark, Large!Write, Large!Goto
<1>7. CASE Large!Begin \/ Large!BeginRefused \/ Large!Validate
  BY <1>1, <1>7 DEF Large!Begin, Large!BeginRefused, Large!Validate, Large!Goto
<1>8. CASE Large!RemoveFile \/ Large!RemoveBackup \/ Large!RemoveRoot \/ Large!RemoveOwner
  BY <1>1, <1>8
     DEF Large!RemoveFile, Large!RemoveBackup, Large!RemoveRoot, Large!RemoveOwner, Large!Goto
<1> QED
  BY <1>2, <1>3, <1>4, <1>5, <1>6, <1>7, <1>8 DEF Large!Next

\* What the user has put into the fixture or changed stays, and all the rest with it.
LEMMA LargeOthersStay ==
  LargeInv /\ [Large!Next]_bigVars =>
    [bigPc # "idle" =>
       /\ bigAlien => bigRoot' /\ bigFile' = bigFile /\ bigBackup' = bigBackup
       /\ bigOwner = "complete"
           /\ (bigFile = "longer" \/ (bigFile = "patched" /\ bigKind = "atomic"))
            => bigFile' = bigFile /\ bigOwner' = bigOwner]_bigVars
<1> SUFFICES ASSUME LargeInv, Large!Next, bigPc # "idle"
             PROVE  /\ bigAlien => bigRoot' /\ bigFile' = bigFile /\ bigBackup' = bigBackup
                    /\ bigOwner = "complete"
                        /\ (bigFile = "longer" \/ (bigFile = "patched" /\ bigKind = "atomic"))
                         => bigFile' = bigFile /\ bigOwner' = bigOwner
  OBVIOUS
<1> USE DEF LargeInv, LargeRecord, LargeMade, LargeOthers
<1>1. CASE Large!Setup \/ Large!Clean \/ Large!Verify \/ Large!Edit \/ Large!TidyUp
  BY <1>1 DEF Large!Setup, Large!Clean, Large!Verify, Large!Edit, Large!TidyUp, Large!Command
<1>2. CASE Large!Refuse \/ Large!Cleaned \/ Large!Made \/ Large!Verified \/ Large!Begin
             \/ Large!BeginRefused
           \/ Large!Validate \/ Large!Reset \/ Large!Space \/ Large!Replace
  BY <1>2
     DEF Large!Refuse, Large!Cleaned, Large!Made, Large!Verified, Large!Begin, Large!BeginRefused,
              Large!Validate, Large!Reset, Large!Space, Large!Replace, Large!tree, Large!record
<1>3. CASE Large!Own \/ Large!Complete \/ Large!Mark
  BY <1>3 DEF Large!Own, Large!Complete, Large!Mark, Large!Write, Large!tree, Large!Absent,
         Large!HasOwner
<1>4. CASE Large!MakeRoot \/ Large!Open \/ Large!Fill \/ Large!MakeBackup
  BY <1>4 DEF Large!MakeRoot, Large!Open, Large!Fill, Large!MakeBackup, Large!record
<1>5. CASE Large!RemoveFile \/ Large!RemoveBackup \/ Large!RemoveRoot \/ Large!RemoveOwner
  BY <1>5 DEF Large!RemoveFile, Large!RemoveBackup, Large!RemoveRoot, Large!RemoveOwner,
         Large!record, Large!tree
<1> QED BY <1>1, <1>2, <1>3, <1>4, <1>5 DEF Large!Next

\* P2LARGE and P2ATOMIC: after every behaviour, a cleanup settles and the rest stays.
THEOREM LargeIsCleaned == ServicesSpec => Large!Settles /\ Large!OthersStay
<1>1. ServicesInit => LargeInv
  BY InitLarge
<1>2. LargeInv /\ [ServicesNext]_allVars => LargeInv'
  BY Frames, LargeInvKept
<1>3. LargeInv /\ [ServicesNext]_allVars =>
        [bigCmd = "clean" /\ bigTold' # "none" /\ bigPc' = "idle" /\ bigPc # "idle"
           => bigRefused' \/ bigAlien \/ bigFile \in {"patched", "longer"}
              \/ Large!Absent']_bigVars
  BY Frames, LargeSettles
<1>4. LargeInv /\ [ServicesNext]_allVars =>
        [bigPc # "idle" =>
           /\ bigAlien => bigRoot' /\ bigFile' = bigFile /\ bigBackup' = bigBackup
           /\ bigOwner = "complete"
              /\ (bigFile = "longer" \/ (bigFile = "patched" /\ bigKind = "atomic"))
                => bigFile' = bigFile /\ bigOwner' = bigOwner]_bigVars
  BY Frames, LargeOthersStay
<1> QED
  BY <1>1, <1>2, <1>3, <1>4, PTL
     DEF ServicesSpec, Large!Settles, Large!OthersStay, Large!vars, bigVars

-----------------------------------------------------------------------------
(* SharedFixture: the file that two projects share.                        *)

SharedTypes ==
  /\ sharedOwner \in {"absent", "pending", "complete", "cleaning"}
  /\ sharedFile \in {"none", "empty", "marker", "edited"}
  /\ sharedDir \in [Shared!Role -> {"none", "part", "fresh", "linked"}]
  /\ sharedListed \subseteq Shared!Role
  /\ sharedRole \in Shared!Role
  /\ sharedPc \in {"idle", "over", "mkdir", "own", "create", "fill", "dirs", "document", "list",
                   "link", "complete", "unlink", "untree", "begin", "validate", "mark", "find",
                   "unlist", "tree", "file", "owner", "root", "done"}

Gone(r) == sharedDir[r] = "none" /\ r \notin sharedListed
SharedMaking == {"create", "fill", "dirs", "document", "list", "link", "complete"}

SharedRecord ==
  /\ sharedPc \in {"mkdir", "own"} => sharedOwner = "absent"
  /\ sharedPc = "mkdir" => ~sharedRoot
  /\ sharedPc \in SharedMaking => sharedOwner = "pending"
  /\ sharedPc \in {"unlink", "untree"} => sharedOwner = "complete"
  /\ sharedPc \in {"validate", "mark"} => sharedOwner # "absent"
  /\ sharedPc \in {"find", "unlist", "tree", "file", "owner"} => sharedOwner = "cleaning"
  /\ sharedPc \in {"root", "done"} => sharedOwner = "absent"
  /\ sharedPc = "own" \/ sharedOwner # "absent" \/ sharedAlien => sharedRoot
  /\ sharedPc = "done" => ~sharedRoot
  /\ sharedOwner = "absent" => sharedFile = "none" /\ \A r \in Shared!Role : Gone(r)
  /\ sharedOwner = "complete" => sharedFile \in {"marker", "edited"}

SharedMade ==
  /\ sharedPc \in {"complete", "unlink", "untree", "begin", "validate", "mark"} => sharedRole = 1
  /\ sharedPc \in {"dirs", "document", "list", "link", "complete"} => sharedFile = "marker"
  /\ sharedPc \in {"find", "unlist", "tree"} => \A r \in Shared!Role : r < sharedRole => Gone(r)
  /\ sharedPc = "tree" => sharedRole \notin sharedListed
  /\ sharedPc \in {"file", "owner"} => \A r \in Shared!Role : Gone(r)
  /\ sharedPc = "owner" => sharedFile = "none"
  /\ sharedPc = "link" => sharedRole \in Shared!Linked
  /\ sharedDir[3] # "linked"

SharedOthers ==
  /\ sharedAlien \/ sharedFile = "edited" \/ sharedTwin =>
       sharedPc \in {"idle", "over", "begin", "validate"}
  /\ sharedPc = "over" /\ sharedCmd = "clean" =>
       sharedAlien \/ sharedFile = "edited" \/ sharedTwin \/ Shared!Stuck

SharedInv == SharedTypes /\ SharedRecord /\ SharedMade /\ SharedOthers

\* The three projects.
LEMMA RoleFacts == Shared!Role = {1, 2, 3} /\ Shared!Linked = {1, 2}
  BY DEF Shared!Role, Shared!Linked

\* No command has been given.
LEMMA InitShared == ServicesInit => SharedInv
<1> SUFFICES ASSUME ServicesInit PROVE SharedInv
  OBVIOUS
<1>1. /\ sharedRoot = FALSE /\ sharedOwner = "absent" /\ sharedFile = "none"
      /\ sharedDir = [r \in Shared!Role |-> "none"] /\ sharedListed = {}
      /\ sharedAlien = FALSE /\ sharedTwin = FALSE
      /\ sharedCmd = "none" /\ sharedPc = "idle" /\ sharedRole = 1
  BY DEF ServicesInit, Shared!Init
<1>2. \A r \in Shared!Role : sharedDir[r] = "none" /\ Gone(r)
  BY <1>1 DEF Gone
<1> QED BY <1>1, <1>2, RoleFacts
        DEF SharedInv, SharedTypes, SharedRecord, SharedMade, SharedOthers, SharedMaking

\* A call that is refused: the command ends, or goes on with its cleanup.
LEMMA SharedFails ==
  ASSUME SharedInv, sharedPc' \in {"idle", "begin"}, sharedRole' = 1,
         UNCHANGED <<sharedAlien, sharedTwin>>, SharedTypes',
         sharedOwner' # "absent" \/ sharedAlien => sharedRoot',
         sharedOwner' = "absent" => sharedFile' = "none" /\ \A r \in Shared!Role : Gone(r)',
         sharedOwner' = "complete" => sharedFile' \in {"marker", "edited"},
         sharedDir'[3] # "linked"
  PROVE  SharedInv'
<1> QED BY DEF SharedInv, SharedRecord, SharedMade, SharedOthers, SharedMaking

\* The record is replaced atomically.
LEMMA SharedWrites ==
  ASSUME SharedInv, NEW step, NEW new, NEW next, Shared!Write(step, new, next),
         \/ step = "own" /\ new = "pending" /\ next = "create"
         \/ step = "complete" /\ new = "complete" /\ next = "unlink"
         \/ step = "mark" /\ new = "cleaning" /\ next = "find"
  PROVE  SharedInv'
<1>1. /\ sharedPc = step
      /\ UNCHANGED <<sharedRoot, sharedFile, sharedDir, sharedListed, sharedAlien, sharedTwin>>
      /\ \/ sharedOwner' = new /\ Shared!Goto(next)
         \/ sharedOwner' \in {sharedOwner, new} /\ Shared!Fail
  BY DEF Shared!Write, Shared!projects, Shared!users
<1>2. \A r \in Shared!Role : Gone(r)' = Gone(r)
  BY <1>1 DEF Gone
<1>3. CASE sharedOwner' = new /\ Shared!Goto(next)
  <2>1. sharedPc' = next /\ sharedCmd' = sharedCmd /\ sharedRole' = sharedRole
    BY <1>3 DEF Shared!Goto
  <2>2. SharedTypes'
    BY <1>1, <1>3, <2>1 DEF SharedInv, SharedTypes
  <2>3. SharedRecord'
    BY <1>1, <1>2, <1>3, <2>1 DEF SharedInv, SharedRecord, SharedMade, SharedMaking
  <2>4. SharedMade'
    BY <1>1, <1>3, <2>1, RoleFacts DEF SharedInv, SharedMade
  <2>5. SharedOthers'
    BY <1>1, <1>3, <2>1 DEF SharedInv, SharedOthers
  <2> QED BY <2>2, <2>3, <2>4, <2>5 DEF SharedInv
<1>4. CASE sharedOwner' \in {sharedOwner, new} /\ Shared!Fail
  <2>1. sharedPc' \in {"begin", "idle"} /\ sharedRole' = 1 /\ sharedRole' \in Shared!Role
    BY <1>4, RoleFacts DEF Shared!Fail, Shared!Stop, Shared!End
  <2>2. SharedTypes'
    BY <1>1, <1>4, <2>1 DEF SharedInv, SharedTypes
  <2>3. sharedOwner' = "complete" => sharedFile' \in {"marker", "edited"}
    BY <1>1, <1>4 DEF SharedInv, SharedRecord, SharedMade
  <2>4. /\ sharedOwner' # "absent" \/ sharedAlien => sharedRoot'
        /\ sharedOwner' = "absent" => sharedFile' = "none" /\ \A r \in Shared!Role : Gone(r)'
        /\ sharedDir'[3] # "linked"
    BY <1>1, <1>2, <1>4 DEF SharedInv, SharedRecord, SharedMade, SharedMaking
  <2> QED BY <1>1, <2>1, <2>2, <2>3, <2>4, SharedFails
<1> QED BY <1>1, <1>3, <1>4

\* A refused call that has changed nothing.
LEMMA SharedRefuses ==
  ASSUME SharedInv, Shared!Fail,
         UNCHANGED <<sharedRoot, sharedOwner, sharedFile, sharedDir, sharedListed, sharedAlien,
                     sharedTwin>>
  PROVE  SharedInv'
<1>1. sharedPc' \in {"begin", "idle"} /\ sharedRole' = 1 /\ sharedRole' \in Shared!Role
  BY RoleFacts DEF Shared!Fail, Shared!Stop, Shared!End
<1>2. SharedTypes'
  BY <1>1 DEF SharedInv, SharedTypes
<1>3. \A r \in Shared!Role : Gone(r)' = Gone(r)
  BY DEF Gone
<1> QED BY <1>1, <1>2, <1>3, SharedFails DEF SharedInv, SharedRecord, SharedMade

\* A command begins, or ends, and changes nothing.
LEMMA SharedTurns ==
  ASSUME SharedInv, Shared!Test \/ Shared!Clean \/ Shared!Refuse \/ Shared!Done \/ Shared!Begin
                    \/ Shared!BeginRefused \/ Shared!Validate
  PROVE  SharedInv'
<1>1. UNCHANGED <<sharedRoot, sharedOwner, sharedFile, sharedDir, sharedListed, sharedAlien,
                  sharedTwin>>
  BY DEF Shared!Test, Shared!Clean, Shared!Refuse, Shared!Done, Shared!Begin,
         Shared!BeginRefused, Shared!Validate, Shared!projects, Shared!users
<1>2. \A r \in Shared!Role : Gone(r)' = Gone(r)
  BY <1>1 DEF Gone
<1>3. CASE Shared!BeginRefused
  BY <1>1, <1>3, SharedRefuses DEF Shared!BeginRefused
<1>4. CASE Shared!Test \/ Shared!Clean
  <2>1. /\ sharedPc = "idle" /\ sharedRole' = 1
        /\ sharedPc' = "begin" \/ (~sharedRoot /\ Shared!TitlesAbsent /\ sharedPc' = "mkdir")
           \/ (~Shared!TitlesAbsent /\ sharedPc' = "over" /\ sharedCmd' = "test")
    BY <1>4 DEF Shared!Test, Shared!Clean
  <2>2. SharedTypes'
    BY <1>1, <2>1, RoleFacts DEF SharedInv, SharedTypes
  <2>3. SharedRecord' /\ SharedMade' /\ SharedOthers'
    BY <1>1, <1>2, <2>1 DEF SharedInv, SharedRecord, SharedMade, SharedOthers, SharedMaking,
                            Shared!TitlesAbsent
  <2> QED BY <2>2, <2>3 DEF SharedInv
<1>5. CASE Shared!Refuse \/ Shared!Done
  <2>1. sharedPc' = "idle" /\ sharedRole' = 1
    BY <1>5 DEF Shared!Refuse, Shared!Done, Shared!End
  <2>2. SharedTypes'
    BY <1>1, <2>1, RoleFacts DEF SharedInv, SharedTypes
  <2> QED BY <1>1, <1>2, <2>1, <2>2, SharedFails DEF SharedInv, SharedRecord, SharedMade
<1>6. CASE Shared!Begin
  <2>1. /\ sharedPc = "begin" /\ sharedRole' = sharedRole /\ sharedCmd' = sharedCmd
        /\ \/ sharedOwner # "absent" /\ sharedPc' = "validate"
           \/ sharedOwner = "absent" /\ ~Shared!TitlesAbsent /\ sharedPc' = "over"
           \/ sharedOwner = "absent" /\ Shared!TitlesAbsent /\ ~sharedRoot /\ sharedPc' = "done"
           \/ /\ sharedOwner = "absent" /\ Shared!TitlesAbsent /\ sharedRoot
              /\ \/ sharedFile = "none" /\ ~sharedAlien /\ sharedPc' = "root"
                 \/ ~(sharedFile = "none" /\ ~sharedAlien) /\ sharedPc' = "over"
    BY <1>6 DEF Shared!Begin, Shared!Goto
  <2>2. SharedTypes'
    BY <1>1, <2>1 DEF SharedInv, SharedTypes
  <2>3. SharedRecord' /\ SharedMade'
    BY <1>1, <1>2, <2>1 DEF SharedInv, SharedRecord, SharedMade, SharedMaking
  <2>4. sharedOwner = "absent" /\ ~Shared!TitlesAbsent => sharedTwin
    BY RoleFacts DEF SharedInv, SharedTypes, SharedRecord, Gone, Shared!TitlesAbsent
  <2>5. sharedAlien => sharedRoot
    BY DEF SharedInv, SharedRecord
  <2>6. sharedOwner = "absent" => sharedFile = "none"
    BY DEF SharedInv, SharedRecord
  <2>7. SharedOthers'
    BY <1>1, <2>1, <2>4, <2>5, <2>6 DEF SharedOthers, Shared!TitlesAbsent
  <2> QED BY <2>2, <2>3, <2>7 DEF SharedInv
<1>7. CASE Shared!Validate
  <2>1. /\ sharedPc = "validate" /\ sharedRole' = sharedRole /\ sharedCmd' = sharedCmd
        /\ \/ sharedPc' = "mark" /\ Shared!FileValid /\ ~sharedAlien /\ ~sharedTwin
           \/ sharedPc' = "over" /\ ~(Shared!FileValid /\ ~sharedAlien /\ ~sharedTwin)
    BY <1>7 DEF Shared!Validate, Shared!Goto
  <2>2. SharedTypes'
    BY <1>1, <2>1 DEF SharedInv, SharedTypes
  <2>3. SharedRecord' /\ SharedMade'
    BY <1>1, <1>2, <2>1 DEF SharedInv, SharedRecord, SharedMade, SharedMaking
  <2>4. Shared!FileValid => sharedFile # "edited"
    BY DEF Shared!FileValid
  <2>5. ~Shared!FileValid => sharedFile = "edited" \/ Shared!Stuck
    BY <2>1 DEF SharedInv, SharedTypes, SharedRecord, Shared!FileValid, Shared!Stuck
  <2>6. Shared!Stuck => Shared!Stuck'
    BY <1>1 DEF Shared!Stuck
  <2>7. SharedOthers'
    BY <1>1, <2>1, <2>4, <2>5, <2>6 DEF SharedOthers
  <2> QED BY <2>2, <2>3, <2>7 DEF SharedInv
<1> QED BY <1>3, <1>4, <1>5, <1>6, <1>7

\* What a command still works on: nobody else's.
LEMMA SharedOwn ==
  ASSUME SharedInv, sharedPc \notin {"idle", "over", "begin", "validate"}
  PROVE  ~sharedAlien /\ ~sharedTwin /\ sharedFile # "edited"
  BY DEF SharedInv, SharedOthers

\* The setup: the directory, the file and the projects are made.
LEMMA SharedMakes ==
  ASSUME SharedInv, Shared!MakeRoot \/ Shared!CreateFile \/ Shared!FillFile
    \/ Shared!MakeDirectories
                    \/ Shared!WriteDocument \/ Shared!List \/ Shared!Link
  PROVE  SharedInv'
<1>1. ~sharedAlien /\ ~sharedTwin /\ UNCHANGED <<sharedAlien, sharedTwin, sharedOwner>>
  BY SharedOwn DEF Shared!MakeRoot, Shared!CreateFile, Shared!FillFile, Shared!MakeDirectories,
     Shared!WriteDocument, Shared!List, Shared!Link, Shared!users, Shared!projects
<1>2. sharedPc = "mkdir" \/ sharedPc \in SharedMaking
  BY DEF Shared!MakeRoot, Shared!CreateFile, Shared!FillFile, Shared!MakeDirectories,
         Shared!WriteDocument, Shared!List, Shared!Link, SharedMaking
<1>3. CASE Shared!MakeRoot
  <2>1. /\ sharedPc = "mkdir" /\ UNCHANGED <<sharedFile, sharedDir, sharedListed>>
        /\ \/ sharedRoot' = TRUE /\ Shared!Goto("own")
           \/ sharedRoot' \in BOOLEAN /\ Shared!Fail
    BY <1>3 DEF Shared!MakeRoot, Shared!projects, Shared!users
  <2>2. \A r \in Shared!Role : Gone(r)' = Gone(r)
    BY <2>1 DEF Gone
  <2>3. \/ sharedPc' = "own" /\ sharedRoot' /\ sharedRole' \in Shared!Role
        \/ sharedPc' \in {"idle", "begin"} /\ sharedRole' = 1 /\ sharedRole' \in Shared!Role
    BY <2>1, RoleFacts DEF Shared!Goto, Shared!Fail, Shared!Stop, Shared!End, SharedInv, SharedTypes
  <2>4. SharedTypes'
    BY <1>1, <2>1, <2>3 DEF SharedInv, SharedTypes
  <2> QED BY <1>1, <2>1, <2>2, <2>3, <2>4
          DEF SharedInv, SharedRecord, SharedMade, SharedOthers, SharedMaking
<1>4. ASSUME sharedPc \in SharedMaking, SharedTypes', sharedRoot' = sharedRoot,
             \/ sharedPc' \in {"idle", "begin", "complete"} /\ sharedRole' = 1
             \/ sharedPc' \in SharedMaking \ {"complete"},
             sharedPc' \in {"dirs", "document", "list", "link", "complete"} =>
                 sharedFile' = "marker",
             sharedPc' = "link" => sharedRole' \in Shared!Linked,
             sharedDir'[3] # "linked", sharedFile' # "edited"
      PROVE  SharedInv'
  BY <1>1, <1>4 DEF SharedInv, SharedRecord, SharedMade, SharedOthers, SharedMaking
<1>5. CASE Shared!CreateFile \/ Shared!FillFile
  <2>1. /\ sharedPc \in {"create", "fill"} /\ UNCHANGED <<sharedRoot, sharedDir, sharedListed>>
        /\ \/ sharedFile' = "empty" /\ Shared!Goto("fill")
           \/ sharedFile' = "marker" /\ Shared!Goto("dirs")
           \/ sharedFile' \in {"none", "empty", sharedFile} /\ Shared!Fail
    BY <1>5 DEF Shared!CreateFile, Shared!FillFile, Shared!projects, Shared!users
  <2>2. sharedFile # "edited"
    BY <2>1, SharedOwn
  <2>3. \/ /\ sharedPc' \in {"fill", "dirs"} /\ sharedRole' \in Shared!Role
           /\ sharedPc' = "dirs" => sharedFile' = "marker"
        \/ sharedPc' \in {"idle", "begin"} /\ sharedRole' = 1 /\ sharedRole' \in Shared!Role
    BY <2>1, RoleFacts DEF Shared!Goto, Shared!Fail, Shared!Stop, Shared!End, SharedInv, SharedTypes
  <2>4. SharedTypes'
    BY <1>1, <2>1, <2>3 DEF SharedInv, SharedTypes
  <2>5. sharedDir'[3] # "linked" /\ sharedFile' # "edited"
    BY <2>1, <2>2 DEF SharedInv, SharedMade
  <2> QED BY <1>4, <2>1, <2>3, <2>4, <2>5 DEF SharedMaking
<1>6. CASE Shared!MakeDirectories \/ Shared!WriteDocument \/ Shared!List \/ Shared!Link
  <2>1. /\ sharedPc \in {"dirs", "document", "list", "link"} /\ UNCHANGED <<sharedRoot, sharedFile>>
        /\ sharedFile = "marker"
    BY <1>6 DEF Shared!MakeDirectories, Shared!WriteDocument, Shared!List, Shared!Link,
                SharedInv, SharedMade
  <2>2. /\ sharedRole \in Shared!Role
        /\ sharedDir \in [Shared!Role -> {"none", "part", "fresh", "linked"}]
        /\ sharedListed \subseteq Shared!Role /\ sharedDir[3] # "linked"
    BY DEF SharedInv, SharedTypes, SharedMade
  <2>3. /\ sharedListed' \subseteq Shared!Role
        /\ \/ sharedDir' = sharedDir
           \/ \E d \in {"none", "part", "fresh"} : sharedDir' = [sharedDir EXCEPT ![sharedRole] = d]
           \/ sharedPc = "link" /\ sharedDir' = [sharedDir EXCEPT ![sharedRole] = "linked"]
    BY <1>6, <2>2 DEF Shared!MakeDirectories, Shared!WriteDocument, Shared!List, Shared!Link
  <2>4. sharedPc = "link" => sharedRole # 3
    BY RoleFacts DEF SharedInv, SharedMade
  <2>5. sharedDir' \in [Shared!Role -> {"none", "part", "fresh", "linked"}]
         /\ sharedDir'[3] # "linked"
    BY <2>2, <2>3, <2>4, RoleFacts
  <2>6. /\ sharedRole' \in Shared!Role
        /\ \/ sharedPc' \in {"idle", "begin", "complete"} /\ sharedRole' = 1
           \/ sharedPc' \in {"dirs", "document", "list", "link"}
              /\ (sharedPc' = "link" => sharedRole' \in Shared!Linked)
    <3>1. CASE Shared!Fail
      BY <3>1, RoleFacts DEF Shared!Fail, Shared!Stop, Shared!End
    <3>2. CASE Shared!MakeDirectories \/ Shared!WriteDocument
      BY <2>2, <3>1, <3>2 DEF Shared!MakeDirectories, Shared!WriteDocument, Shared!Goto
    <3>3. CASE Shared!List
      BY <2>2, <3>1, <3>3, RoleFacts DEF Shared!List, Shared!Then
    <3>4. CASE Shared!Link
      <4>1. sharedRole \in {1, 2}
        BY <3>4, RoleFacts DEF Shared!Link, SharedInv, SharedMade
      <4> QED BY <3>1, <3>4, <4>1, RoleFacts DEF Shared!Link, Shared!Then
    <3> QED BY <1>6, <3>2, <3>3, <3>4
  <2>7. SharedTypes'
    BY <1>1, <2>1, <2>3, <2>5, <2>6 DEF SharedInv, SharedTypes
  <2> QED BY <1>4, <2>1, <2>5, <2>6, <2>7 DEF SharedMaking
<1> QED BY <1>3, <1>5, <1>6

\* The first project is deleted, before the cleanup of the rest.
LEMMA SharedDeletes ==
  ASSUME SharedInv, Shared!DeleteFirst \/ Shared!DeleteFirstTree PROVE SharedInv'
<1>1. /\ sharedPc \in {"unlink", "untree"} /\ sharedOwner = "complete"
      /\ UNCHANGED <<sharedRoot, sharedOwner, sharedFile, sharedAlien, sharedTwin>>
  BY DEF Shared!DeleteFirst, Shared!DeleteFirstTree, Shared!users, SharedInv, SharedRecord
<1>2. ~sharedAlien /\ ~sharedTwin /\ sharedFile # "edited" /\ sharedRole = 1
       /\ sharedDir[3] # "linked"
      /\ sharedDir \in [Shared!Role -> {"none", "part", "fresh", "linked"}]
      /\ sharedListed \subseteq Shared!Role /\ sharedFile = "marker" /\ sharedRoot
  BY <1>1, SharedOwn DEF SharedInv, SharedTypes, SharedRecord, SharedMade
<1>3. /\ sharedListed' \subseteq Shared!Role
      /\ \/ sharedDir' = sharedDir
         \/ \E d \in {"none", "part"} : sharedDir' = [sharedDir EXCEPT ![1] = d]
  BY <1>2, RoleFacts DEF Shared!DeleteFirst, Shared!DeleteFirstTree
<1>4. sharedDir' \in [Shared!Role -> {"none", "part", "fresh", "linked"}]
       /\ sharedDir'[3] # "linked"
  BY <1>2, <1>3, RoleFacts
<1>5. sharedRole' = 1 /\ sharedRole' \in Shared!Role /\ sharedPc' \in {"idle", "begin", "untree"}
  BY <1>2, RoleFacts DEF Shared!DeleteFirst, Shared!DeleteFirstTree, Shared!Goto, Shared!Fail,
     Shared!Stop, Shared!End
<1>6. SharedTypes'
  BY <1>1, <1>3, <1>4, <1>5 DEF SharedInv, SharedTypes
<1> QED BY <1>1, <1>2, <1>4, <1>5, <1>6
        DEF SharedInv, SharedRecord, SharedMade, SharedOthers, SharedMaking

\* The cleanup goes through the projects.
LEMMA SharedClears ==
  ASSUME SharedInv, Shared!Find \/ Shared!Unlist \/ Shared!RemoveTree PROVE SharedInv'
<1>1. /\ sharedPc \in {"find", "unlist", "tree"} /\ sharedOwner = "cleaning"
      /\ UNCHANGED <<sharedRoot, sharedOwner, sharedFile, sharedAlien, sharedTwin>>
  BY DEF Shared!Find, Shared!Unlist, Shared!RemoveTree, Shared!users, Shared!projects,
         SharedInv, SharedRecord
<1>2. ~sharedAlien /\ ~sharedTwin /\ sharedFile # "edited" /\ sharedRole \in Shared!Role
      /\ sharedDir[3] # "linked"
      /\ sharedDir \in [Shared!Role -> {"none", "part", "fresh", "linked"}]
      /\ sharedListed \subseteq Shared!Role /\ sharedRoot
      /\ \A r \in Shared!Role : r < sharedRole => sharedDir[r] = "none" /\ r \notin sharedListed
  BY <1>1, SharedOwn DEF SharedInv, SharedTypes, SharedRecord, SharedMade, Gone
<1>3. /\ sharedListed' \subseteq sharedListed \cup {sharedRole}
      /\ \/ sharedDir' = sharedDir
         \/ \E d \in {"none", "part"} : sharedDir' = [sharedDir EXCEPT ![sharedRole] = d]
  BY <1>2 DEF Shared!Find, Shared!Unlist, Shared!RemoveTree, Shared!projects
<1>4. sharedDir' \in [Shared!Role -> {"none", "part", "fresh", "linked"}]
       /\ sharedDir'[3] # "linked"
      /\ sharedListed' \subseteq Shared!Role
      /\ \A r \in Shared!Role : r < sharedRole => sharedDir'[r] = "none" /\ r \notin sharedListed'
  BY <1>2, <1>3, RoleFacts
<1>5. CASE Shared!Fail
  <2>1. sharedRole' = 1 /\ sharedRole' \in Shared!Role /\ sharedPc' \in {"idle", "begin"}
    BY <1>5, RoleFacts DEF Shared!Fail, Shared!Stop, Shared!End
  <2>2. SharedTypes'
    BY <1>1, <1>4, <2>1 DEF SharedInv, SharedTypes
  <2> QED BY <1>1, <1>2, <1>4, <2>1, <2>2, SharedFails
<1>6. CASE \/ Shared!Goto("unlist") /\ UNCHANGED sharedDir
           \/ Shared!Goto("tree") /\ sharedRole \notin sharedListed' /\ UNCHANGED sharedDir
  <2>1. /\ sharedRole' = sharedRole
        /\ sharedPc' \in {"unlist", "tree"}
        /\ (sharedPc' = "tree" => sharedRole \notin sharedListed')
    BY <1>6 DEF Shared!Goto
  <2>2. SharedTypes'
    BY <1>1, <1>4, <2>1 DEF SharedInv, SharedTypes
  <2> QED BY <1>1, <1>2, <1>4, <2>1, <2>2
          DEF SharedInv, SharedRecord, SharedMade, SharedOthers, SharedMaking, Gone
<1>7. CASE /\ Shared!Goto("over") /\ UNCHANGED <<sharedDir, sharedListed>>
           /\ sharedRole \notin sharedListed /\ sharedDir[sharedRole] = "linked"
  <2>1. sharedRole' = sharedRole /\ sharedPc' = "over" /\ sharedRole # 3
    BY <1>2, <1>7 DEF Shared!Goto
  <2>2. SharedTypes'
    BY <1>1, <1>4, <2>1 DEF SharedInv, SharedTypes
  <2>3. Shared!Stuck'
    BY <1>2, <1>7, <2>1, RoleFacts DEF Shared!Stuck
  <2> QED BY <1>1, <1>2, <1>4, <2>1, <2>2, <2>3
          DEF SharedInv, SharedRecord, SharedMade, SharedOthers, SharedMaking
<1>8. CASE /\ Shared!Then(3, "find", "file")
           /\ sharedRole \notin sharedListed' /\ sharedDir'[sharedRole] = "none"
  <2>1. \/ sharedRole = 3 /\ sharedRole' = 1 /\ sharedPc' = "file"
        \/ sharedRole # 3 /\ sharedRole' = sharedRole + 1 /\ sharedPc' = "find"
    BY <1>8 DEF Shared!Then
  <2>2. sharedRole' \in Shared!Role
    BY <1>2, <2>1, RoleFacts
  <2>3. SharedTypes'
    BY <1>1, <1>4, <2>1, <2>2 DEF SharedInv, SharedTypes
  <2>4. \A r \in Shared!Role : r <= sharedRole => sharedDir'[r] = "none" /\ r \notin sharedListed'
    BY <1>2, <1>4, <1>8, RoleFacts
  <2>5. /\ sharedPc' = "find" => \A r \in Shared!Role : r < sharedRole' => Gone(r)'
        /\ sharedPc' = "file" => \A r \in Shared!Role : Gone(r)'
    BY <1>2, <2>1, <2>4, RoleFacts DEF Gone
  <2> QED BY <1>1, <1>2, <1>4, <2>1, <2>3, <2>5
          DEF SharedInv, SharedRecord, SharedMade, SharedOthers, SharedMaking
<1>9. CASE Shared!Find
  BY <1>6, <1>7, <1>8, <1>9 DEF Shared!Find, Shared!projects
<1>10. CASE Shared!Unlist
  BY <1>5, <1>6, <1>10 DEF Shared!Unlist
<1>11. CASE Shared!RemoveTree
  <2>1. sharedPc = "tree" /\ sharedRole \notin sharedListed
    BY <1>11 DEF Shared!RemoveTree, SharedInv, SharedMade
  <2>2. sharedDir' = [sharedDir EXCEPT ![sharedRole] = "none"] => sharedDir'[sharedRole] = "none"
    BY <1>2
  <2> QED BY <1>5, <1>8, <1>11, <2>1, <2>2 DEF Shared!RemoveTree
<1> QED BY <1>9, <1>10, <1>11

\* The file, the record and the directory go last.
LEMMA SharedRemoves ==
  ASSUME SharedInv, Shared!RemoveFile \/ Shared!RemoveOwner \/ Shared!RemoveRoot PROVE SharedInv'
<1>1. /\ sharedPc \in {"file", "owner", "root"}
      /\ UNCHANGED <<sharedDir, sharedListed, sharedAlien, sharedTwin>>
      /\ ~sharedAlien /\ ~sharedTwin /\ sharedFile # "edited"
  BY SharedOwn
     DEF Shared!RemoveFile, Shared!RemoveOwner, Shared!RemoveRoot, Shared!users, Shared!projects
<1>2. \A r \in Shared!Role : Gone(r)' = Gone(r)
  BY <1>1 DEF Gone
<1>3. CASE Shared!Fail /\ UNCHANGED <<sharedRoot, sharedOwner, sharedFile>>
  BY <1>1, <1>3, SharedRefuses
<1>4. CASE \/ sharedPc = "file" /\ sharedFile' = "none" /\ Shared!Goto("owner")
               /\ UNCHANGED <<sharedRoot, sharedOwner>>
           \/ sharedPc = "owner" /\ sharedOwner' = "absent" /\ Shared!Goto("root")
               /\ UNCHANGED <<sharedRoot, sharedFile>>
           \/ sharedPc = "root" /\ sharedRoot' = FALSE /\ Shared!Goto("done")
               /\ UNCHANGED <<sharedOwner, sharedFile>>
  <2>1. sharedRole' = sharedRole /\ sharedCmd' = sharedCmd
        /\ sharedPc' = (IF sharedPc = "file" THEN "owner" ELSE IF sharedPc = "owner" THEN "root" ELSE "done")
    BY <1>4 DEF Shared!Goto
  <2>2. SharedTypes'
    BY <1>1, <1>4, <2>1 DEF SharedInv, SharedTypes
  <2>3. SharedRecord'
    BY <1>1, <1>2, <1>4, <2>1 DEF SharedInv, SharedRecord, SharedMade, SharedMaking
  <2>4. SharedMade'
    BY <1>1, <1>2, <1>4, <2>1 DEF SharedInv, SharedRecord, SharedMade, SharedMaking
  <2>5. SharedOthers'
    BY <1>1, <1>4, <2>1 DEF SharedOthers
  <2> QED BY <2>2, <2>3, <2>4, <2>5 DEF SharedInv
<1> QED BY <1>3, <1>4 DEF Shared!RemoveFile, Shared!RemoveOwner, Shared!RemoveRoot,
               Shared!projects, Shared!users

\* The user, and a reset.
LEMMA SharedUses ==
  ASSUME SharedInv, Shared!Edit \/ Shared!TidyUp \/ Shared!Reset PROVE SharedInv'
<1>1. CASE Shared!Edit \/ Shared!TidyUp
  <2>1. /\ sharedPc = "idle" /\ UNCHANGED <<sharedRoot, sharedOwner, sharedDir, sharedListed,
                                            sharedPc, sharedRole>>
        /\ sharedFile' = sharedFile \/ (sharedFile # "none" /\ sharedFile' = "edited")
        /\ sharedAlien' => sharedAlien \/ sharedRoot
    BY <1>1 DEF Shared!Edit, Shared!TidyUp, Shared!projects
  <2>2. \A r \in Shared!Role : Gone(r)' = Gone(r)
    BY <2>1 DEF Gone
  <2>3. SharedTypes'
    BY <2>1 DEF SharedInv, SharedTypes
  <2> QED BY <2>1, <2>2, <2>3 DEF SharedInv, SharedRecord, SharedMade, SharedOthers, SharedMaking
<1>2. CASE Shared!Reset
  <2>1. /\ sharedPc' = "idle" /\ sharedRole' = 1
        /\ UNCHANGED <<sharedRoot, sharedOwner, sharedFile, sharedListed, sharedAlien, sharedTwin>>
        /\ \/ sharedDir' = sharedDir
           \/ sharedPc \in {"tree", "untree"}
               /\ sharedDir' = [sharedDir EXCEPT ![sharedRole] = "part"]
           \/ sharedPc \in {"tree", "untree"} /\ sharedDir' = [sharedDir EXCEPT ![1] = "part"]
    <3>1. /\ sharedPc' = "idle" /\ sharedRole' = 1
          /\ UNCHANGED <<sharedRoot, sharedOwner, sharedFile, sharedListed, sharedAlien, sharedTwin>>
          /\ sharedDir' \in (CASE sharedPc = "tree" -> {sharedDir, [sharedDir EXCEPT ![sharedRole] = "part"]}
                               [] sharedPc = "untree" -> {sharedDir, [sharedDir EXCEPT ![1] = "part"]}
                               [] OTHER -> {sharedDir})
      BY <1>2 DEF Shared!Reset, Shared!users
    <3>2. CASE sharedPc = "tree"
      BY <3>1, <3>2
    <3>3. CASE sharedPc = "untree"
      BY <3>1, <3>3
    <3>4. CASE sharedPc # "tree" /\ sharedPc # "untree"
      BY <3>1, <3>4
    <3> QED BY <3>1, <3>2, <3>3, <3>4
  <2>2. /\ sharedDir \in [Shared!Role -> {"none", "part", "fresh", "linked"}]
        /\ sharedRole \in Shared!Role /\ sharedDir[3] # "linked" /\ sharedRole' \in Shared!Role
    BY <2>1, RoleFacts DEF SharedInv, SharedTypes, SharedMade
  <2>3. sharedDir' \in [Shared!Role -> {"none", "part", "fresh", "linked"}]
         /\ sharedDir'[3] # "linked"
    BY <2>1, <2>2, RoleFacts
  <2>4. SharedTypes'
    BY <2>1, <2>2, <2>3 DEF SharedInv, SharedTypes
  <2>5. sharedOwner = "absent" => \A r \in Shared!Role : Gone(r)'
    BY <2>1 DEF SharedInv, SharedRecord, Gone
  <2> QED BY <2>1, <2>3, <2>4, <2>5, SharedFails DEF SharedInv, SharedRecord
<1> QED BY <1>1, <1>2

\* Every step of the test, of its cleanup and of their user keeps the invariant.
LEMMA SharedInvKept == SharedInv /\ [Shared!Next]_sharedVars => SharedInv'
<1> SUFFICES ASSUME SharedInv, [Shared!Next]_sharedVars PROVE SharedInv'
  OBVIOUS
<1>1. CASE UNCHANGED sharedVars
  <2>1. \A r \in Shared!Role : Gone(r)' = Gone(r)
    BY <1>1 DEF sharedVars, Gone
  <2> QED BY <1>1, <2>1
             DEF sharedVars, SharedInv, SharedTypes, SharedRecord, SharedMade, SharedOthers,
                            Shared!Stuck
<1>2. CASE Shared!Own \/ Shared!Complete \/ Shared!Mark
  BY <1>2, SharedWrites DEF Shared!Own, Shared!Complete, Shared!Mark
<1> QED BY <1>1, <1>2, SharedTurns, SharedMakes, SharedDeletes, SharedClears, SharedRemoves,
           SharedUses
        DEF Shared!Next

\* A cleanup leaves nothing behind, but where it cannot go on.
LEMMA SharedSettles ==
  SharedInv /\ [Shared!Next]_sharedVars =>
    [Shared!Ends => sharedRefused' \/ sharedAlien \/ sharedFile = "edited" \/ sharedTwin
                    \/ Shared!Stuck \/ Shared!Absent']_sharedVars
<1> SUFFICES ASSUME SharedInv, Shared!Next, Shared!Ends, ~sharedRefused', ~sharedAlien, sharedFile # "edited",
                    ~sharedTwin, ~Shared!Stuck
             PROVE  Shared!Absent'
  OBVIOUS
<1>1. sharedCmd = "clean" /\ sharedTold' # "none" /\ sharedPc' = "idle" /\ sharedPc # "idle"
  BY DEF Shared!Ends
<1>2. ~Shared!Fail
  BY DEF Shared!Fail
<1>3. ~Shared!Reset /\ ~Shared!Edit /\ ~Shared!TidyUp /\ ~Shared!Test /\ ~Shared!Clean
  BY <1>1 DEF Shared!Reset, Shared!Edit, Shared!TidyUp, Shared!Test, Shared!Clean
<1>4. ~Shared!Refuse
  BY <1>1 DEF Shared!Refuse, SharedInv, SharedOthers
<1>5. ~Shared!MakeRoot /\ ~Shared!Own /\ ~Shared!CreateFile /\ ~Shared!FillFile
       /\ ~Shared!MakeDirectories
      /\ ~Shared!WriteDocument
  BY <1>1, <1>2 DEF Shared!MakeRoot, Shared!Own, Shared!Write, Shared!CreateFile, Shared!FillFile,
     Shared!MakeDirectories, Shared!WriteDocument, Shared!Goto
<1>6. ~Shared!List /\ ~Shared!Link /\ ~Shared!Complete /\ ~Shared!DeleteFirst
       /\ ~Shared!DeleteFirstTree
  BY <1>1, <1>2 DEF Shared!List, Shared!Link, Shared!Complete, Shared!Write, Shared!DeleteFirst,
     Shared!DeleteFirstTree, Shared!Goto, Shared!Then
<1>7. ~Shared!Begin /\ ~Shared!BeginRefused /\ ~Shared!Validate /\ ~Shared!Mark
  BY <1>1, <1>2
     DEF Shared!Begin, Shared!BeginRefused, Shared!Validate, Shared!Mark, Shared!Write, Shared!Goto
<1>8. ~Shared!Find /\ ~Shared!Unlist /\ ~Shared!RemoveTree
  BY <1>1, <1>2 DEF Shared!Find, Shared!Unlist, Shared!RemoveTree, Shared!Goto, Shared!Then
<1>9. ~Shared!RemoveFile /\ ~Shared!RemoveOwner /\ ~Shared!RemoveRoot
  BY <1>1, <1>2 DEF Shared!RemoveFile, Shared!RemoveOwner, Shared!RemoveRoot, Shared!Goto
<1>10. Shared!Done
  BY <1>3, <1>4, <1>5, <1>6, <1>7, <1>8, <1>9 DEF Shared!Next
<1>11. /\ ~sharedRoot /\ sharedFile = "none" /\ \A r \in Shared!Role : Gone(r)
       /\ sharedListed \subseteq Shared!Role
       /\ UNCHANGED <<sharedRoot, sharedFile, sharedDir, sharedListed>>
  BY <1>10 DEF Shared!Done, Shared!projects, SharedInv, SharedTypes, SharedRecord
<1> QED BY <1>11 DEF Shared!Absent, Gone

\* Nothing is removed while the user has something in the fixture.
LEMMA SharedOthersStay ==
  SharedInv /\ [Shared!Next]_sharedVars =>
    [sharedPc # "idle" /\ (sharedAlien \/ sharedFile = "edited" \/ sharedTwin)
       => sharedRoot' = sharedRoot /\ sharedFile' = sharedFile
          /\ Shared!projects' = Shared!projects]_sharedVars
<1> SUFFICES ASSUME SharedInv, Shared!Next, sharedPc \in {"over", "begin", "validate"}
             PROVE  UNCHANGED <<sharedRoot, sharedFile, sharedDir, sharedListed>>
  BY DEF SharedInv, SharedOthers, Shared!projects
<1>1. CASE Shared!Reset
  BY <1>1 DEF Shared!Reset
<1>2. CASE Shared!Refuse \/ Shared!Begin \/ Shared!BeginRefused \/ Shared!Validate
  BY <1>2 DEF Shared!Refuse, Shared!Begin, Shared!BeginRefused, Shared!Validate, Shared!projects
<1> QED
  BY <1>1, <1>2
     DEF Shared!Next, Shared!Test, Shared!MakeRoot, Shared!Own, Shared!CreateFile, Shared!FillFile,
         Shared!MakeDirectories, Shared!WriteDocument, Shared!List, Shared!Link, Shared!Complete,
         Shared!DeleteFirst, Shared!DeleteFirstTree, Shared!Clean, Shared!Mark, Shared!Find,
         Shared!Unlist, Shared!RemoveTree, Shared!RemoveFile, Shared!RemoveOwner, Shared!RemoveRoot,
         Shared!Done, Shared!Edit, Shared!TidyUp, Shared!Write

\* P2SHARED: a cleanup settles, but for the two resets of Stuck, and the rest stays.
THEOREM SharedIsCleaned == ServicesSpec => Shared!Settles /\ Shared!OthersStay
<1>1. ServicesInit => SharedInv
  BY InitShared
<1>2. SharedInv /\ [ServicesNext]_allVars => SharedInv'
  BY Frames, SharedInvKept
<1>3. SharedInv /\ [ServicesNext]_allVars =>
        [Shared!Ends => sharedRefused' \/ sharedAlien \/ sharedFile = "edited" \/ sharedTwin
                        \/ Shared!Stuck \/ Shared!Absent']_sharedVars
  BY Frames, SharedSettles
<1>4. SharedInv /\ [ServicesNext]_allVars =>
        [sharedPc # "idle" /\ (sharedAlien \/ sharedFile = "edited" \/ sharedTwin)
           => sharedRoot' = sharedRoot /\ sharedFile' = sharedFile
              /\ Shared!projects' = Shared!projects]_sharedVars
  BY Frames, SharedOthersStay
<1> QED
  BY <1>1, <1>2, <1>3, <1>4, PTL
     DEF ServicesSpec, Shared!Settles, Shared!OthersStay, Shared!vars, sharedVars

-----------------------------------------------------------------------------
(* UnicodeFixture: the file that is fetched from a host trusted for the    *)
(* time being.                                                             *)

UniRecord == [state : {"absent", "pending", "complete", "cleaning"}, verified : BOOLEAN,
              added : BOOLEAN, cleaned : BOOLEAN]
UniTypes ==
  /\ uniDepth \in 0..3 /\ uniAlien \subseteq 1..uniDepth
  /\ uniFile \in {Unicode!NoFile, "fetched", "edited"}
  /\ uniTrust \in {"none", "server", "other"}
  /\ uniOwner \in UniRecord /\ uniRam \in UniRecord
  /\ uniCmd \in {"none", "setup", "failing", "undo", "clean"}
  /\ uniPc \in {"idle", "over", "own", "connect", "record", "trust", "fetch", "fetched", "complete",
                "view", "forget", "forgot", "begin", "validate", "mark", "target", "part",
                "leaf", "first", "owner", "top", "done"}

Returned(record) == record.added => record.cleaned
UniMaking == {"connect", "record", "trust", "fetch", "fetched", "complete"}
UniClearing == {"validate", "mark", "target", "part"}
UniRemoving == {"leaf", "first", "owner", "top", "done"}

\* What the record stands for, whatever the command is at.  The trust is on
\* record before it is given, and until it has been returned.
UniStanding ==
  /\ uniOwner.state # "absent" <=> uniOwner # Unicode!NoRecord
  /\ uniOwner # Unicode!NoRecord => uniDepth >= 1
  /\ uniOwner = Unicode!NoRecord => uniFile = Unicode!NoFile /\ ~uniPart
  /\ uniOwner.verified => ~uniPart
  /\ uniOwner.state = "complete" => uniDepth = 3 /\ (uniFile # Unicode!NoFile \/ uniChanged)
  /\ uniFile = "edited" => uniChanged
  /\ uniOurs => uniTrust = "server" /\ uniOwner.added /\ ~uniOwner.cleaned
  /\ ~Returned(uniOwner) =>
       /\ uniTrust = "server" => uniOurs \/ uniChanged
       /\ uniTrust = "other" => uniChanged

\* Which command is at it.
UniCommand ==
  /\ uniPc \in UniMaking \cup {"own", "view"} => uniCmd = "setup"
  /\ uniPc \in UniClearing \cup UniRemoving => uniCmd \in {"clean", "undo"}
  /\ uniPc = "begin" => uniCmd \in {"clean", "failing"}
  /\ uniPc = "over" => uniCmd \in {"setup", "clean", "undo"}
  /\ uniPc \in {"forget", "forgot"} => uniCmd # "none"

\* The command's copy of the record.
UniCopy ==
  /\ uniPc = "own" => Unicode!Absent /\ uniRam = Unicode!Pending
  /\ uniPc \in UniMaking \cup UniClearing => uniOwner = uniRam
  /\ uniPc \in {"forget", "forgot"} /\ uniCmd \in {"clean", "undo"} => uniOwner = uniRam
  /\ uniPc \in UniMaking \/ (uniPc \in {"forget", "forgot"} /\ uniCmd \in {"setup", "failing"}) =>
       /\ uniOwner.state = "pending" /\ ~uniOwner.verified
       /\ uniRam.state = "pending" /\ ~uniRam.verified
  /\ uniPc \in UniMaking \cup UniClearing \cup {"own", "view", "forget", "forgot"} =>
       uniRam.state # "absent"
  /\ uniPc \in {"target", "part"} => uniOwner.state = "cleaning"
  /\ uniPc \in {"leaf", "first", "owner"} => uniOwner.state \in {"absent", "cleaning"}
  /\ uniPc \in {"top", "done"} => uniOwner = Unicode!NoRecord
  /\ uniPc = "owner" => uniOwner # Unicode!NoRecord

UniTree ==
  /\ uniPc \in UniMaking \ {"complete"} => uniFile = Unicode!NoFile
  /\ uniPc = "fetched" => uniDepth = 3
  /\ uniPc = "complete" \/ (uniPc \in {"forget", "forgot"} /\ uniCmd = "setup") =>
       uniFile = "fetched" /\ uniDepth = 3 /\ ~uniPart
  /\ uniPc \in {"part"} \cup UniRemoving => uniFile = Unicode!NoFile
  /\ uniPc \in UniRemoving => ~uniPart
  /\ uniPc = "first" => uniDepth <= 2
  /\ uniPc \in {"owner", "top"} => uniDepth <= 1
  /\ uniPc = "done" => uniDepth = 0

\* What is known of the trust.
UniTrust ==
  /\ uniPc \in {"record", "trust"} => uniTrust = "none"
  /\ uniPc \in {"connect", "record"} => ~uniRam.added
  /\ uniPc \in {"trust", "forget", "forgot"} => ~Returned(uniRam)
  /\ uniPc \in {"fetch", "fetched"} => (uniRam.added => ~uniRam.cleaned)
  /\ uniPc \in {"forget", "forgot"} =>
       /\ uniTrust = "server" => uniOurs \/ uniChanged
       /\ uniTrust = "other" => uniChanged
  /\ uniPc = "forgot" => ~uniOurs
  /\ uniPc \in UniClearing \cup {"leaf", "first", "owner"} => Returned(uniOwner)
  /\ uniPc \in {"complete", "view"} => Returned(uniRam)

UniOthers ==
  /\ uniAlien # {} =>
       \/ uniPc = "idle" \/ (uniCmd = "setup" /\ uniPc = "over")
       \/ uniCmd = "clean" /\ uniPc \in {"begin", "over", "forget", "forgot", "validate"}
  /\ uniPc \in {"mark", "target"} /\ uniRam.verified => uniFile # "edited"
  /\ uniPc = "over" /\ uniCmd = "clean" => uniChanged \/ uniAlien # {}

UniInv == UniTypes /\ UniStanding /\ UniCommand /\ UniCopy /\ UniTree /\ UniTrust /\ UniOthers

\* What a record that is written holds.
LEMMA UniRecordFacts ==
  /\ Unicode!NoRecord \in UniRecord /\ Unicode!Pending \in UniRecord
  /\ Unicode!NoRecord.state = "absent" /\ ~Unicode!NoRecord.added
  /\ ~Unicode!NoRecord.verified
  /\ Unicode!Pending.state = "pending" /\ ~Unicode!Pending.added
  /\ ~Unicode!Pending.verified
  BY DEF Unicode!NoRecord, Unicode!Pending, UniRecord

LEMMA UniCopies ==
  ASSUME UniTypes
  PROVE  /\ Unicode!Added \in UniRecord /\ Unicode!Verified \in UniRecord
         /\ Unicode!Forgotten \in UniRecord /\ Unicode!Cleaning \in UniRecord
         /\ Unicode!Added.state = uniRam.state /\ Unicode!Added.verified = uniRam.verified
         /\ Unicode!Added.added = TRUE /\ Unicode!Added.cleaned = FALSE
         /\ Unicode!Verified.state = "complete" /\ Unicode!Verified.verified = TRUE
         /\ Unicode!Verified.added = uniRam.added /\ Unicode!Verified.cleaned = uniRam.cleaned
         /\ Unicode!Forgotten.state = uniRam.state /\ Unicode!Forgotten.verified = uniRam.verified
         /\ Unicode!Forgotten.added = uniRam.added /\ Unicode!Forgotten.cleaned = TRUE
         /\ Unicode!Cleaning.state = "cleaning" /\ Unicode!Cleaning.verified = uniRam.verified
         /\ Unicode!Cleaning.added = uniRam.added /\ Unicode!Cleaning.cleaned = uniRam.cleaned
<1>1. uniRam \in UniRecord
  BY DEF UniTypes
<1>2. Unicode!Added \in UniRecord /\ Unicode!Verified \in UniRecord
      /\ Unicode!Forgotten \in UniRecord /\ Unicode!Cleaning \in UniRecord
  BY <1>1 DEF UniRecord, Unicode!Added, Unicode!Verified, Unicode!Forgotten, Unicode!Cleaning
<1>3. /\ Unicode!Added.state = uniRam.state /\ Unicode!Added.verified = uniRam.verified
      /\ Unicode!Added.added = TRUE /\ Unicode!Added.cleaned = FALSE
  BY <1>1 DEF UniRecord, Unicode!Added
<1>4. /\ Unicode!Verified.state = "complete" /\ Unicode!Verified.verified = TRUE
      /\ Unicode!Verified.added = uniRam.added /\ Unicode!Verified.cleaned = uniRam.cleaned
  BY <1>1 DEF UniRecord, Unicode!Verified
<1>5. /\ Unicode!Forgotten.state = uniRam.state /\ Unicode!Forgotten.verified = uniRam.verified
      /\ Unicode!Forgotten.added = uniRam.added /\ Unicode!Forgotten.cleaned = TRUE
  BY <1>1 DEF UniRecord, Unicode!Forgotten
<1>6. /\ Unicode!Cleaning.state = "cleaning" /\ Unicode!Cleaning.verified = uniRam.verified
      /\ Unicode!Cleaning.added = uniRam.added /\ Unicode!Cleaning.cleaned = uniRam.cleaned
  BY <1>1 DEF UniRecord, Unicode!Cleaning
<1> QED BY <1>2, <1>3, <1>4, <1>5, <1>6

\* Nothing has been done.
LEMMA InitUni == ServicesInit => UniInv
<1> SUFFICES ASSUME Unicode!Init PROVE UniInv
  BY DEF ServicesInit
<1>1. UniTypes
  BY UniRecordFacts DEF Unicode!Init, UniTypes
<1>2. UniStanding
  BY UniRecordFacts DEF Unicode!Init, Unicode!NoFile, UniStanding, Returned
<1>3. UniCommand /\ UniCopy /\ UniTree /\ UniTrust /\ UniOthers
  BY DEF Unicode!Init, UniCommand, UniCopy, UniTree, UniTrust, UniOthers, UniMaking, UniClearing,
         UniRemoving
<1> QED BY <1>1, <1>2, <1>3 DEF UniInv

\* Between two commands nothing but what stands need hold.
LEMMA UniRests ==
  ASSUME UniTypes', UniStanding', uniPc' = "idle" PROVE UniInv'
  BY DEF UniInv, UniCommand, UniCopy, UniTree, UniTrust, UniOthers, UniMaking, UniClearing,
         UniRemoving

\* A failed setup starts the cleanup.
LEMMA UniTurns ==
  ASSUME UniTypes', UniStanding', uniPc' = "begin", uniCmd' = "failing", uniAlien' = {}
  PROVE  UniInv'
  BY DEF UniInv, UniCommand, UniCopy, UniTree, UniTrust, UniOthers, UniMaking, UniClearing,
         UniRemoving

\* A call that is refused ends a cleanup; a setup sees to the trust first that
\* it may have added.
LEMMA UniFails ==
  ASSUME UniTypes, UniTypes', UniStanding', Unicode!Fail,
         uniAlien' # {} => uniCmd = "clean",
         uniCmd \in {"setup", "failing", "clean", "undo"},
         uniCmd \in {"setup", "failing"} /\ uniPc # "own" /\ uniRam'.added /\ ~uniRam'.cleaned =>
           \/ uniPc \in {"forget", "forgot"}
           \/ /\ uniOwner'.state = "pending" /\ ~uniOwner'.verified
              /\ uniRam'.state = "pending" /\ ~uniRam'.verified
              /\ uniTrust' = "server" => uniOurs' \/ uniChanged'
              /\ uniTrust' = "other" => uniChanged'
  PROVE  UniInv'
<1>1. CASE uniCmd \in {"clean", "undo"} \/ uniPc = "own"
  <2>1. uniPc' = "idle"
    BY <1>1 DEF Unicode!Fail, Unicode!End
  <2> QED BY <2>1, UniRests
<1>2. CASE uniCmd \notin {"clean", "undo"} /\ uniPc # "own"
  <2>1. /\ uniCmd' = "failing" /\ uniAlien' = {}
        /\ uniPc' = IF uniRam'.added /\ ~uniRam'.cleaned /\ uniPc \notin {"forget", "forgot"}
                    THEN "forget" ELSE "begin"
    BY <1>2 DEF Unicode!Fail
  <2>2. CASE uniRam'.added /\ ~uniRam'.cleaned /\ uniPc \notin {"forget", "forgot"}
    <3>1. uniPc' = "forget"
      BY <2>1, <2>2
    <3>2. /\ uniOwner'.state = "pending" /\ ~uniOwner'.verified
          /\ uniRam'.state = "pending" /\ ~uniRam'.verified
          /\ uniTrust' = "server" => uniOurs' \/ uniChanged'
          /\ uniTrust' = "other" => uniChanged'
      BY <1>2, <2>2
    <3>3. UniCommand' /\ UniTree' /\ UniOthers'
      BY <2>1, <3>1 DEF UniCommand, UniTree, UniOthers, UniMaking, UniClearing, UniRemoving
    <3>4. UniCopy'
      BY <2>1, <3>1, <3>2 DEF UniCopy, UniMaking, UniClearing
    <3>5. UniTrust'
      BY <2>2, <3>1, <3>2 DEF UniTrust, UniClearing, Returned
    <3> QED BY <3>3, <3>4, <3>5 DEF UniInv
  <2>3. CASE ~(uniRam'.added /\ ~uniRam'.cleaned /\ uniPc \notin {"forget", "forgot"})
    BY <2>1, <2>3, UniTurns
  <2> QED BY <2>2, <2>3
<1> QED BY <1>1, <1>2

\* A setup or a cleanup begins, and one that finds what it may not touch ends.
LEMMA UniStarts ==
  ASSUME UniInv, Unicode!Setup \/ Unicode!Refuse \/ Unicode!Clean \/ Unicode!Done
  PROVE  UniInv'
<1> USE DEF UniInv
<1>1. CASE Unicode!Setup
  <2>1. /\ uniCmd' = "setup" /\ uniRam' = Unicode!Pending /\ uniPc = "idle"
        /\ UNCHANGED <<uniDepth, uniFile, uniPart, uniAlien, uniOwner, uniTrust, uniOurs>>
        /\ uniPc' = IF Unicode!Absent THEN "own" ELSE "over"
        /\ uniChanged' = (uniChanged /\ ~Unicode!Absent)
    BY <1>1 DEF Unicode!Setup, Unicode!tree
  <2>2. UniTypes'
    BY <2>1, UniRecordFacts DEF UniTypes
  <2>3. CASE Unicode!Absent
    <3>1. Unicode!Absent' /\ uniPc' = "own" /\ uniAlien' = {} /\ ~uniOurs'
      BY <2>1, <2>3, UniRecordFacts DEF Unicode!Absent, UniStanding, UniTypes
    <3>2. UniStanding'
      BY <3>1, UniRecordFacts DEF UniStanding, Unicode!Absent, Unicode!NoFile, Returned
    <3>3. UniCommand' /\ UniTree' /\ UniTrust' /\ UniOthers'
      BY <2>1, <3>1
         DEF UniCommand, UniTree, UniTrust, UniOthers, UniMaking, UniClearing, UniRemoving
    <3>4. UniCopy'
      BY <2>1, <3>1, UniRecordFacts DEF UniCopy, UniMaking, UniClearing
    <3> QED BY <2>2, <3>2, <3>3, <3>4
  <2>4. CASE ~Unicode!Absent
    <3>1. uniPc' = "over" /\ (uniChanged' <=> uniChanged)
      BY <2>1, <2>4
    <3>2. UniStanding'
      BY <2>1, <3>1 DEF UniStanding, Returned
    <3>3. UniCommand' /\ UniCopy' /\ UniTree' /\ UniTrust' /\ UniOthers'
      BY <2>1, <3>1
         DEF UniCommand, UniCopy, UniTree, UniTrust, UniOthers, UniMaking, UniClearing, UniRemoving
    <3> QED BY <2>2, <3>2, <3>3
  <2> QED BY <2>3, <2>4
<1>2. CASE Unicode!Refuse \/ Unicode!Done
  <2>1. /\ uniPc' = "idle" /\ uniCmd' = "none"
        /\ UNCHANGED <<uniDepth, uniFile, uniPart, uniAlien, uniOwner, uniTrust, uniRam, uniOurs,
                       uniChanged>>
    BY <1>2 DEF Unicode!Refuse, Unicode!Done, Unicode!End, Unicode!tree, Unicode!history
  <2>2. UniTypes' /\ UniStanding'
    BY <2>1 DEF UniTypes, UniStanding, Returned
  <2> QED BY <2>1, <2>2, UniRests
<1>3. CASE Unicode!Clean
  <2>1. /\ uniPc' = "begin" /\ uniCmd' = "clean" /\ uniPc = "idle"
        /\ UNCHANGED <<uniDepth, uniFile, uniPart, uniAlien, uniOwner, uniTrust, uniRam, uniOurs,
                       uniChanged>>
    BY <1>3 DEF Unicode!Clean, Unicode!tree, Unicode!history
  <2>2. UniTypes' /\ UniStanding'
    BY <2>1 DEF UniTypes, UniStanding, Returned
  <2>3. UniCommand' /\ UniCopy' /\ UniTree' /\ UniTrust' /\ UniOthers'
    BY <2>1
       DEF UniCommand, UniCopy, UniTree, UniTrust, UniOthers, UniMaking, UniClearing, UniRemoving
  <2> QED BY <2>2, <2>3
<1> QED BY <1>1, <1>2, <1>3

\* The record is replaced, or the call is refused and the record is the old or
\* the new one; the top directory is made in either case.
LEMMA UniWrites ==
  ASSUME UniInv, NEW new \in UniRecord, Unicode!WriteOwnership(new), uniOwner' \in {uniOwner, new},
         new.state # "absent",
         new.state = "complete" => uniDepth = 3 /\ (uniFile # Unicode!NoFile \/ uniChanged),
         new.verified => ~uniPart,
         uniOurs => new.added /\ ~new.cleaned,
         ~Returned(new) =>
           /\ uniTrust = "server" => uniOurs \/ uniChanged
           /\ uniTrust = "other" => uniChanged,
         uniOwner = Unicode!NoRecord => uniFile = Unicode!NoFile /\ ~uniPart
  PROVE  /\ uniRam' = new /\ UNCHANGED <<uniFile, uniPart, uniAlien, uniTrust, uniOurs, uniChanged>>
         /\ uniDepth' \in 1..3 /\ uniDepth' >= uniDepth /\ (uniDepth >= 1 => uniDepth' = uniDepth)
         /\ uniAlien' \subseteq 1..uniDepth' /\ uniOwner' \in UniRecord /\ uniRam' \in UniRecord
         /\ UniStanding'
<1>1. /\ uniRam' = new /\ UNCHANGED <<uniFile, uniPart, uniAlien, uniTrust, uniOurs, uniChanged>>
      /\ uniDepth' = IF uniDepth = 0 THEN 1 ELSE uniDepth
  BY DEF Unicode!WriteOwnership, Unicode!history
<1>2. uniDepth \in 0..3 /\ uniAlien \subseteq 1..uniDepth /\ uniOwner \in UniRecord
  BY DEF UniInv, UniTypes
<1>3. uniDepth' \in 1..3 /\ uniDepth' >= uniDepth /\ (uniDepth >= 1 => uniDepth' = uniDepth)
      /\ uniAlien' \subseteq 1..uniDepth'
  BY <1>1, <1>2
<1>4. uniOwner' \in UniRecord /\ uniRam' \in UniRecord
  BY <1>1, <1>2
<1>5. UniStanding'
  <2>1. CASE uniOwner' = uniOwner
    BY <1>1, <1>2, <1>3, <2>1 DEF UniInv, UniStanding, Returned
  <2>2. CASE uniOwner' = new
    <3>1. uniOwner' # Unicode!NoRecord
      BY <2>2, UniRecordFacts
    <3> QED BY <1>1, <1>2, <1>3, <2>2, <3>1 DEF UniInv, UniStanding, Returned
  <2> QED BY <2>1, <2>2
<1> QED BY <1>1, <1>3, <1>4, <1>5

LEMMA UniOwn == ASSUME UniInv, Unicode!Own PROVE UniInv'
<1>1. /\ uniPc = "own" /\ uniCmd = "setup" /\ Unicode!Absent /\ uniRam = Unicode!Pending
      /\ Unicode!WriteOwnership(uniRam)
      /\ \/ uniOwner' = uniRam /\ Unicode!Goto("connect")
         \/ uniOwner' \in {uniOwner, uniRam} /\ Unicode!Fail
  BY DEF Unicode!Own, Unicode!Written, Unicode!WriteRefused, UniInv, UniCommand, UniCopy
<1>2. uniAlien = {} /\ ~uniOurs /\ uniOwner = Unicode!NoRecord /\ uniFile = Unicode!NoFile
       /\ ~uniPart
  BY <1>1, UniRecordFacts DEF UniInv, UniTypes, UniOthers, UniStanding, Unicode!Absent
<1>3. uniOwner' \in {uniOwner, uniRam}
  BY <1>1
<1>4. /\ uniRam' = uniRam /\ UNCHANGED <<uniFile, uniPart, uniAlien, uniTrust, uniOurs, uniChanged>>
      /\ uniDepth' \in 1..3 /\ uniAlien' \subseteq 1..uniDepth'
      /\ uniOwner' \in UniRecord /\ uniRam' \in UniRecord /\ UniStanding'
  BY <1>1, <1>2, <1>3, UniRecordFacts, UniWrites DEF Returned
<1>5. CASE uniOwner' = uniRam /\ Unicode!Goto("connect")
  <2>1. uniPc' = "connect" /\ uniCmd' = "setup"
    BY <1>1, <1>5 DEF Unicode!Goto
  <2>2. UniTypes'
    BY <1>4, <2>1 DEF UniInv, UniTypes
  <2>3. UniCommand' /\ UniTree' /\ UniOthers'
    BY <1>2, <1>4, <2>1 DEF UniCommand, UniTree, UniOthers, UniMaking, UniClearing, UniRemoving
  <2>4. UniCopy' /\ UniTrust'
    BY <1>1, <1>4, <1>5, <2>1, UniRecordFacts DEF UniCopy, UniTrust, UniMaking, UniClearing
  <2> QED BY <1>4, <2>2, <2>3, <2>4 DEF UniInv
<1>6. CASE Unicode!Fail
  <2>1. uniPc' \in {"idle", "forget", "begin"} /\ uniCmd' \in {"none", "failing"}
    BY <1>6 DEF Unicode!Fail, Unicode!End
  <2>2. UniTypes'
    BY <1>4, <2>1 DEF UniInv, UniTypes
  <2> QED BY <1>1, <1>2, <1>4, <1>6, <2>2, UniFails DEF UniInv
<1> QED BY <1>1, <1>5, <1>6

\* The stored key of the host is looked at.
LEMMA UniConnects == ASSUME UniInv, Unicode!Connect \/ Unicode!KeyChanged PROVE UniInv'
<1>1. /\ uniPc = "connect" /\ uniCmd = "setup"
      /\ UNCHANGED <<uniDepth, uniFile, uniPart, uniAlien, uniOwner, uniTrust, uniRam, uniOurs,
                     uniChanged>>
      /\ \/ uniTrust = "none" /\ Unicode!Goto("record")
         \/ uniTrust = "server" /\ Unicode!Goto("fetch")
         \/ uniPc' = "begin" /\ uniCmd' = "failing"
         \/ Unicode!Fail
  BY DEF Unicode!Connect, Unicode!KeyChanged, Unicode!tree, Unicode!history, UniInv, UniCommand,
         UniMaking
<1>2. uniAlien' = {} /\ ~uniRam.added /\ uniOwner = uniRam
  BY <1>1 DEF UniInv, UniOthers, UniTrust, UniCopy, UniMaking
<1>3. UniStanding'
  BY <1>1 DEF UniInv, UniStanding, Returned
<1>4. /\ uniCmd' \in {"setup", "failing", "none"}
      /\ uniPc' \in {"record", "fetch", "begin", "forget", "idle"}
  BY <1>1 DEF Unicode!Fail, Unicode!End, Unicode!Goto
<1>5. UniTypes'
  BY <1>1, <1>4 DEF UniInv, UniTypes
<1>6. CASE \/ uniTrust = "none" /\ Unicode!Goto("record")
           \/ uniTrust = "server" /\ Unicode!Goto("fetch")
  <2>1. /\ uniPc' \in {"record", "fetch"} /\ uniCmd' = "setup"
        /\ uniPc' = "record" => uniTrust' = "none"
    BY <1>1, <1>6 DEF Unicode!Goto
  <2>2. UniCommand' /\ UniOthers'
    BY <1>2, <2>1 DEF UniCommand, UniOthers, UniMaking, UniClearing, UniRemoving
  <2>3. UniCopy' /\ UniTree' /\ UniTrust'
    BY <1>1, <1>2, <2>1 DEF UniInv, UniCopy, UniTree, UniTrust, UniMaking, UniClearing, UniRemoving
  <2> QED BY <1>3, <1>5, <2>2, <2>3 DEF UniInv
<1>7. CASE uniPc' = "begin" /\ uniCmd' = "failing"
  BY <1>2, <1>3, <1>5, <1>7, UniTurns
<1>8. CASE Unicode!Fail
  BY <1>1, <1>2, <1>3, <1>5, <1>8, UniFails DEF UniInv
<1> QED BY <1>1, <1>6, <1>7, <1>8

\* That the key will be trusted is recorded.
LEMMA UniRecordsTrust == ASSUME UniInv, Unicode!Record PROVE UniInv'
<1>1. /\ uniPc = "record" /\ uniCmd = "setup" /\ Unicode!WriteOwnership(Unicode!Added)
      /\ \/ uniOwner' = Unicode!Added /\ Unicode!Goto("trust")
         \/ uniOwner' \in {uniOwner, Unicode!Added} /\ Unicode!Fail
  BY DEF Unicode!Record, Unicode!Written, Unicode!WriteRefused, UniInv, UniCommand, UniMaking
<1>2. /\ uniAlien = {} /\ uniTrust = "none" /\ ~uniOurs /\ uniFile = Unicode!NoFile
      /\ uniOwner.state = "pending" /\ ~uniOwner.verified /\ uniRam.state = "pending"
          /\ ~uniRam.verified
      /\ uniOwner # Unicode!NoRecord
  BY <1>1 DEF UniInv, UniOthers, UniTrust, UniStanding, UniTree, UniCopy, UniMaking
<1>3. /\ Unicode!Added \in UniRecord /\ Unicode!Added.state = "pending" /\ ~Unicode!Added.verified
      /\ Unicode!Added.added /\ ~Unicode!Added.cleaned
  BY <1>2, UniCopies DEF UniInv
<1>4. uniOwner' \in {uniOwner, Unicode!Added}
  BY <1>1
<1>5. /\ uniRam' = Unicode!Added /\ UNCHANGED <<uniFile, uniPart, uniAlien, uniTrust, uniOurs,
                                                uniChanged>>
      /\ uniDepth' \in 1..3 /\ uniAlien' \subseteq 1..uniDepth'
      /\ uniOwner' \in UniRecord /\ uniRam' \in UniRecord /\ UniStanding'
  BY <1>1, <1>2, <1>3, <1>4, UniWrites DEF Returned
<1>6. CASE uniOwner' = Unicode!Added /\ Unicode!Goto("trust")
  <2>1. uniPc' = "trust" /\ uniCmd' = "setup"
    BY <1>1, <1>6 DEF Unicode!Goto
  <2>2. UniTypes'
    BY <1>5, <2>1 DEF UniInv, UniTypes
  <2>3. UniCommand' /\ UniTree' /\ UniOthers'
    BY <1>2, <1>5, <2>1 DEF UniCommand, UniTree, UniOthers, UniMaking, UniClearing, UniRemoving
  <2>4. UniCopy' /\ UniTrust'
    BY <1>2, <1>3, <1>5, <1>6, <2>1 DEF UniCopy, UniTrust, UniMaking, UniClearing, Returned
  <2> QED BY <1>5, <2>2, <2>3, <2>4 DEF UniInv
<1>7. CASE Unicode!Fail
  <2>1. uniPc' \in {"idle", "forget", "begin"} /\ uniCmd' \in {"none", "failing"}
    BY <1>7 DEF Unicode!Fail, Unicode!End
  <2>2. UniTypes'
    BY <1>5, <2>1 DEF UniInv, UniTypes
  <2>3. uniOwner'.state = "pending" /\ ~uniOwner'.verified
    BY <1>2, <1>3, <1>4
  <2> QED BY <1>1, <1>2, <1>3, <1>5, <1>7, <2>2, <2>3, UniFails DEF UniInv
<1> QED BY <1>1, <1>6, <1>7

\* The host is trusted, or the call that does it is refused before or after.
LEMMA UniTrusts == ASSUME UniInv, Unicode!Trust PROVE UniInv'
<1>1. /\ uniPc = "trust" /\ uniCmd = "setup"
      /\ UNCHANGED <<uniDepth, uniFile, uniPart, uniAlien, uniOwner, uniRam, uniChanged>>
      /\ uniTrust' \in {uniTrust, "server"} /\ (uniOurs' <=> uniTrust' = "server")
      /\ Unicode!Goto("fetch") \/ Unicode!Fail
  BY DEF Unicode!Trust, Unicode!tree, UniInv, UniCommand, UniMaking
<1>2. /\ uniAlien = {} /\ uniTrust = "none" /\ uniFile = Unicode!NoFile /\ uniOwner = uniRam
      /\ uniOwner.state = "pending" /\ ~uniOwner.verified /\ ~Returned(uniRam)
  BY <1>1 DEF UniInv, UniOthers, UniTrust, UniTree, UniCopy, UniMaking
<1>3. UniStanding'
  BY <1>1, <1>2 DEF UniInv, UniStanding, Returned
<1>4. /\ uniCmd' \in {"setup", "failing", "none"} /\ uniPc' \in {"fetch", "begin", "forget", "idle"}
  BY <1>1 DEF Unicode!Fail, Unicode!End, Unicode!Goto
<1>5. UniTypes'
  BY <1>1, <1>2, <1>4 DEF UniInv, UniTypes
<1>6. CASE Unicode!Goto("fetch")
  <2>1. uniPc' = "fetch" /\ uniCmd' = "setup"
    BY <1>1, <1>6 DEF Unicode!Goto
  <2>2. UniCommand' /\ UniTree' /\ UniOthers'
    BY <1>1, <1>2, <2>1 DEF UniCommand, UniTree, UniOthers, UniMaking, UniClearing, UniRemoving
  <2>3. UniCopy' /\ UniTrust'
    BY <1>1, <1>2, <2>1 DEF UniCopy, UniTrust, UniMaking, UniClearing, Returned
  <2> QED BY <1>3, <1>5, <2>2, <2>3 DEF UniInv
<1>7. CASE Unicode!Fail
  <2>1. uniTrust' \in {"none", "server"}
    BY <1>1, <1>2
  <2> QED BY <1>1, <1>2, <1>3, <1>5, <1>7, <2>1, UniFails DEF UniInv
<1> QED BY <1>1, <1>6, <1>7

\* The download begins, and ends.
LEMMA UniFetches == ASSUME UniInv, Unicode!Fetch \/ Unicode!Fetched PROVE UniInv'
<1>1. /\ uniPc \in {"fetch", "fetched"} /\ uniCmd = "setup"
      /\ UNCHANGED <<uniAlien, uniOwner, uniTrust, uniRam, uniOurs, uniChanged>>
  BY DEF Unicode!Fetch, Unicode!Fetched, Unicode!history, UniInv, UniCommand, UniMaking
<1>2. /\ uniAlien = {} /\ uniFile = Unicode!NoFile /\ uniOwner = uniRam
      /\ uniOwner.state = "pending" /\ ~uniOwner.verified /\ (uniRam.added => ~uniRam.cleaned)
      /\ uniOwner # Unicode!NoRecord /\ uniDepth \in 1..3
      /\ uniPc = "fetched" => uniDepth = 3
  BY <1>1 DEF UniInv, UniTypes, UniOthers, UniTrust, UniTree, UniCopy, UniStanding, UniMaking
<1>3. /\ uniDepth' \in {uniDepth, 3} /\ (uniPc = "fetched" => uniDepth' = 3)
      /\ uniFile' \in {Unicode!NoFile, "fetched"}
  BY <1>1, <1>2 DEF Unicode!Fetch, Unicode!Fetched
<1>4. UniStanding'
  <2>1. uniFile' # "edited"
    BY <1>3 DEF Unicode!NoFile
  <2>2. uniDepth' >= 1
    BY <1>2, <1>3
  <2> QED BY <1>1, <1>2, <2>1, <2>2 DEF UniInv, UniStanding, Returned
<1>5. /\ uniCmd' \in {"setup", "failing", "none"}
      /\ uniPc' \in {"fetched", "forget", "complete", "begin", "idle"}
  BY <1>1 DEF Unicode!Fetch, Unicode!Fetched, Unicode!Fail, Unicode!End, Unicode!Goto
<1>6. UniTypes'
  BY <1>1, <1>2, <1>3, <1>5 DEF UniInv, UniTypes
<1>7. CASE Unicode!Fail
  BY <1>1, <1>2, <1>4, <1>6, <1>7, UniFails DEF UniInv, UniStanding, Returned
<1>8. CASE /\ uniPc = "fetch" /\ uniDepth' = 3 /\ Unicode!Goto("fetched")
           /\ uniFile' = Unicode!NoFile
  <2>1. uniPc' = "fetched" /\ uniCmd' = "setup"
    BY <1>1, <1>8 DEF Unicode!Goto
  <2>2. UniCommand' /\ UniTree' /\ UniOthers'
    BY <1>1, <1>2, <1>8, <2>1
       DEF UniCommand, UniTree, UniOthers, UniMaking, UniClearing, UniRemoving
  <2>3. UniCopy' /\ UniTrust'
    BY <1>1, <1>2, <2>1 DEF UniCopy, UniTrust, UniMaking, UniClearing
  <2> QED BY <1>4, <1>6, <2>2, <2>3 DEF UniInv
<1>9. CASE /\ uniPc = "fetched" /\ uniFile' = "fetched" /\ uniPart' = FALSE
           /\ Unicode!Goto(IF uniRam.added THEN "forget" ELSE "complete")
  <2>1. /\ uniPc' = IF uniRam.added THEN "forget" ELSE "complete"
        /\ uniPc' \in {"forget", "complete"} /\ uniCmd' = "setup" /\ uniDepth' = 3
    BY <1>1, <1>3, <1>9 DEF Unicode!Goto
  <2>2. UniCommand' /\ UniTree' /\ UniOthers'
    BY <1>1, <1>2, <1>9, <2>1
       DEF UniCommand, UniTree, UniOthers, UniMaking, UniClearing, UniRemoving
  <2>3. UniCopy'
    BY <1>1, <1>2, <2>1 DEF UniCopy, UniMaking, UniClearing
  <2>4. UniTrust'
    BY <1>1, <1>2, <2>1 DEF UniInv, UniStanding, UniTrust, UniMaking, UniClearing, Returned
  <2> QED BY <1>4, <1>6, <2>2, <2>3, <2>4 DEF UniInv
<1> QED BY <1>2, <1>7, <1>8, <1>9 DEF Unicode!Fetch, Unicode!Fetched

\* What was fetched is on record as verified.
LEMMA UniCompletes == ASSUME UniInv, Unicode!Complete PROVE UniInv'
<1>1. /\ uniPc = "complete" /\ uniCmd = "setup" /\ Unicode!WriteOwnership(Unicode!Verified)
      /\ \/ uniOwner' = Unicode!Verified /\ Unicode!Goto("view")
         \/ uniOwner' \in {uniOwner, Unicode!Verified} /\ Unicode!Fail
  BY DEF Unicode!Complete, Unicode!Written, Unicode!WriteRefused, UniInv, UniCommand, UniMaking
<1>2. /\ uniAlien = {} /\ uniFile = "fetched" /\ ~uniPart /\ uniDepth = 3 /\ uniOwner = uniRam
      /\ Returned(uniRam) /\ ~uniOurs /\ uniOwner # Unicode!NoRecord
  BY <1>1 DEF UniInv, UniOthers, UniTrust, UniTree, UniCopy, UniStanding, UniMaking, Returned
<1>3. /\ Unicode!Verified \in UniRecord /\ Unicode!Verified.state = "complete"
      /\ Returned(Unicode!Verified)
  BY <1>2, UniCopies DEF UniInv, Returned
<1>4. uniOwner' \in {uniOwner, Unicode!Verified} /\ uniFile # Unicode!NoFile
  BY <1>1, <1>2 DEF Unicode!NoFile
<1>5. /\ uniRam' = Unicode!Verified
      /\ UNCHANGED <<uniFile, uniPart, uniAlien, uniTrust, uniOurs, uniChanged>>
      /\ uniDepth' \in 1..3 /\ uniAlien' \subseteq 1..uniDepth'
      /\ uniOwner' \in UniRecord /\ uniRam' \in UniRecord /\ UniStanding'
  BY <1>1, <1>2, <1>3, <1>4, UniWrites
<1>6. CASE uniOwner' = Unicode!Verified /\ Unicode!Goto("view")
  <2>1. uniPc' = "view" /\ uniCmd' = "setup"
    BY <1>1, <1>6 DEF Unicode!Goto
  <2>2. UniTypes'
    BY <1>5, <2>1 DEF UniInv, UniTypes
  <2>3. UniCommand' /\ UniTree' /\ UniOthers'
    BY <1>2, <1>5, <2>1 DEF UniCommand, UniTree, UniOthers, UniMaking, UniClearing, UniRemoving
  <2>4. UniCopy' /\ UniTrust'
    BY <1>3, <1>5, <2>1 DEF UniCopy, UniTrust, UniMaking, UniClearing
  <2> QED BY <1>5, <2>2, <2>3, <2>4 DEF UniInv
<1>7. CASE Unicode!Fail
  <2>1. uniPc' \in {"idle", "forget", "begin"} /\ uniCmd' \in {"none", "failing"}
    BY <1>7 DEF Unicode!Fail, Unicode!End
  <2>2. UniTypes'
    BY <1>5, <2>1 DEF UniInv, UniTypes
  <2>3. ~(uniRam'.added /\ ~uniRam'.cleaned)
    BY <1>3, <1>5 DEF Returned
  <2> QED BY <1>1, <1>2, <1>5, <1>7, <2>2, <2>3, UniFails DEF UniInv
<1> QED BY <1>1, <1>6, <1>7

\* The file is looked at.
LEMMA UniViews == ASSUME UniInv, Unicode!View PROVE UniInv'
<1>1. /\ uniPc = "view" /\ uniCmd = "setup"
      /\ UNCHANGED <<uniDepth, uniFile, uniPart, uniAlien, uniOwner, uniTrust, uniRam, uniOurs,
                     uniChanged>>
      /\ Unicode!End("passed") \/ Unicode!Fail
  BY DEF Unicode!View, Unicode!tree, Unicode!history, UniInv, UniCommand
<1>2. uniAlien' = {} /\ Returned(uniRam)
  BY <1>1 DEF UniInv, UniOthers, UniTrust
<1>3. UniStanding'
  BY <1>1 DEF UniInv, UniStanding, Returned
<1>4. uniCmd' \in {"failing", "none"} /\ uniPc' \in {"begin", "forget", "idle"}
  BY <1>1 DEF Unicode!Fail, Unicode!End
<1>5. UniTypes'
  BY <1>1, <1>4 DEF UniInv, UniTypes
<1>6. CASE Unicode!End("passed")
  BY <1>3, <1>5, <1>6, UniRests DEF Unicode!End
<1>7. CASE Unicode!Fail
  BY <1>1, <1>2, <1>3, <1>5, <1>7, UniFails DEF UniInv, Returned
<1> QED BY <1>1, <1>6, <1>7

\* The host is forgotten that was trusted for the time being.
LEMMA UniForgets == ASSUME UniInv, Unicode!Forget \/ Unicode!ForgetMismatch PROVE UniInv'
<1>1. /\ uniPc = "forget" /\ uniCmd \in {"setup", "failing", "undo", "clean"}
      /\ UNCHANGED <<uniDepth, uniFile, uniPart, uniAlien, uniOwner, uniRam, uniChanged>>
      /\ \/ uniTrust # "other" /\ uniTrust' = "none" /\ uniOurs' = FALSE /\ Unicode!Goto("forgot")
         \/ uniTrust' = uniTrust /\ uniOurs' = uniOurs /\ Unicode!Fail
         \/ /\ uniTrust' = uniTrust /\ uniOurs' = uniOurs /\ uniTrust = "other"
            /\ IF uniCmd \in {"clean", "undo"} THEN uniPc' = "over" /\ uniCmd' = uniCmd
               ELSE uniPc' = "begin" /\ uniCmd' = "failing"
  BY DEF Unicode!Forget, Unicode!ForgetMismatch, Unicode!tree, Unicode!history, UniInv, UniTypes,
         UniCommand
<1>2. /\ ~Returned(uniRam)
      /\ uniTrust = "server" => uniOurs \/ uniChanged
      /\ uniTrust = "other" => uniChanged
      /\ uniAlien' # {} => uniCmd = "clean"
  BY <1>1 DEF UniInv, UniOthers, UniTrust
<1>3. UniStanding'
  BY <1>1 DEF UniInv, UniStanding, Returned
<1>4. /\ uniCmd' \in {"setup", "failing", "undo", "clean", "none"}
      /\ uniPc' \in {"forgot", "over", "begin", "idle"}
  BY <1>1 DEF Unicode!Fail, Unicode!End, Unicode!Goto
<1>5. UniTypes'
  BY <1>1, <1>4 DEF UniInv, UniTypes
<1>6. CASE uniTrust' = "none" /\ uniOurs' = FALSE /\ Unicode!Goto("forgot")
  <2>1. uniPc' = "forgot" /\ uniCmd' = uniCmd
    BY <1>6 DEF Unicode!Goto
  <2>2. UniCommand' /\ UniTree' /\ UniOthers'
    BY <1>1, <1>2, <2>1
       DEF UniInv, UniCommand, UniTree, UniOthers, UniMaking, UniClearing, UniRemoving
  <2>3. UniCopy'
    BY <1>1, <2>1 DEF UniInv, UniCopy, UniMaking, UniClearing
  <2>4. UniTrust'
    BY <1>1, <1>2, <1>6, <2>1 DEF UniTrust, UniClearing
  <2> QED BY <1>3, <1>5, <2>2, <2>3, <2>4 DEF UniInv
<1>7. CASE Unicode!Fail
  BY <1>1, <1>2, <1>3, <1>5, <1>7, UniFails DEF UniInv
<1>8. CASE uniTrust = "other" /\ uniTrust' = uniTrust /\ uniPc' = "over" /\ uniCmd' = uniCmd
           /\ uniCmd \in {"clean", "undo"}
  <2>1. uniChanged'
    BY <1>1, <1>2, <1>8
  <2> QED BY <1>1, <1>2, <1>3, <1>5, <1>8, <2>1
          DEF UniInv, UniCommand, UniCopy, UniTree, UniTrust, UniOthers, UniMaking, UniClearing, UniRemoving
<1>9. CASE uniPc' = "begin" /\ uniCmd' = "failing" /\ uniCmd \notin {"clean", "undo"}
  BY <1>1, <1>2, <1>3, <1>5, <1>9, UniTurns
<1> QED BY <1>1, <1>6, <1>7, <1>8, <1>9

\* That it was forgotten is recorded.
LEMMA UniForgot == ASSUME UniInv, Unicode!Forgot PROVE UniInv'
<1>1. /\ uniPc = "forgot" /\ uniCmd \in {"setup", "failing", "undo", "clean"}
      /\ Unicode!WriteOwnership(Unicode!Forgotten)
      /\ \/ uniOwner' = Unicode!Forgotten /\ Unicode!Goto(Unicode!AfterTrust)
         \/ uniOwner' \in {uniOwner, Unicode!Forgotten} /\ Unicode!Fail
  BY DEF Unicode!Forgot, Unicode!Written, Unicode!WriteRefused, UniInv, UniTypes, UniCommand
<1>2. /\ ~uniOurs /\ uniRam.state # "absent" /\ (uniAlien # {} => uniCmd = "clean")
      /\ uniTrust = "server" => uniOurs \/ uniChanged
      /\ uniTrust = "other" => uniChanged
      /\ uniCmd \in {"clean", "undo"} => uniOwner = uniRam
      /\ uniCmd \in {"setup", "failing"} =>
           /\ uniOwner.state = "pending" /\ ~uniOwner.verified
           /\ uniRam.state = "pending" /\ ~uniRam.verified
  BY <1>1 DEF UniInv, UniOthers, UniTrust, UniCopy
<1>3. /\ Unicode!Forgotten \in UniRecord /\ Unicode!Forgotten.state = uniRam.state
      /\ Unicode!Forgotten.verified = uniRam.verified /\ Unicode!Forgotten.cleaned
  BY UniCopies DEF UniInv
<1>4. uniOwner' \in {uniOwner, Unicode!Forgotten}
  BY <1>1
<1>5. /\ uniRam.state = "complete" => uniDepth = 3 /\ (uniFile # Unicode!NoFile \/ uniChanged)
      /\ uniRam.verified => ~uniPart
      /\ uniOwner = Unicode!NoRecord => uniFile = Unicode!NoFile /\ ~uniPart
  BY <1>1, <1>2 DEF UniInv, UniStanding
<1>6. /\ uniRam' = Unicode!Forgotten
      /\ UNCHANGED <<uniFile, uniPart, uniAlien, uniTrust, uniOurs, uniChanged>>
      /\ uniDepth' \in 1..3 /\ (uniDepth >= 1 => uniDepth' = uniDepth)
          /\ uniAlien' \subseteq 1..uniDepth'
      /\ uniOwner' \in UniRecord /\ uniRam' \in UniRecord /\ UniStanding'
  BY <1>1, <1>2, <1>3, <1>4, <1>5, UniWrites DEF Returned
<1>7. CASE uniOwner' = Unicode!Forgotten /\ Unicode!Goto(Unicode!AfterTrust)
  <2>1. /\ uniCmd' = uniCmd
        /\ uniPc' = IF uniCmd \in {"clean", "undo"} THEN "validate"
                    ELSE IF uniCmd = "failing" THEN "begin" ELSE "complete"
    BY <1>7 DEF Unicode!Goto, Unicode!AfterTrust
  <2>2. UniTypes'
    BY <1>1, <1>6, <2>1 DEF UniInv, UniTypes
  <2>3. Returned(uniOwner') /\ Returned(uniRam')
    BY <1>3, <1>6, <1>7 DEF Returned
  <2>4. CASE uniPc' = "validate" /\ uniCmd \in {"clean", "undo"}
    <3>1. UniCommand' /\ UniTree' /\ UniOthers'
      BY <1>2, <1>6, <2>1, <2>4
         DEF UniCommand, UniTree, UniOthers, UniMaking, UniClearing, UniRemoving
    <3>2. UniCopy' /\ UniTrust'
      BY <1>2, <1>3, <1>6, <1>7, <2>3, <2>4 DEF UniCopy, UniTrust, UniMaking, UniClearing, Returned
    <3> QED BY <1>6, <2>2, <3>1, <3>2 DEF UniInv
  <2>5. CASE uniPc' = "begin" /\ uniCmd = "failing"
    BY <1>2, <1>6, <2>1, <2>2, <2>5, UniTurns
  <2>6. CASE uniPc' = "complete" /\ uniCmd = "setup"
    <3>1. uniFile = "fetched" /\ uniDepth = 3 /\ ~uniPart
      BY <1>1, <2>6 DEF UniInv, UniTree
    <3>2. UniCommand' /\ UniTree' /\ UniOthers'
      BY <1>2, <1>6, <2>1, <2>6, <3>1
         DEF UniCommand, UniTree, UniOthers, UniMaking, UniClearing, UniRemoving
    <3>3. UniCopy' /\ UniTrust'
      BY <1>2, <1>3, <1>6, <1>7, <2>1, <2>3, <2>6
         DEF UniCopy, UniTrust, UniMaking, UniClearing, Returned
    <3> QED BY <1>6, <2>2, <3>2, <3>3 DEF UniInv
  <2> QED BY <1>1, <2>1, <2>4, <2>5, <2>6
<1>8. CASE Unicode!Fail
  <2>1. /\ uniPc' \in {"idle", "forget", "begin"}
        /\ uniCmd' \in {"none", "failing"}
    BY <1>8 DEF Unicode!Fail, Unicode!End
  <2>2. UniTypes'
    BY <1>6, <2>1 DEF UniInv, UniTypes
  <2> QED BY <1>1, <1>2, <1>6, <1>8, <2>2, UniFails DEF UniInv
<1> QED BY <1>1, <1>7, <1>8

\* A cleanup reads the record.
LEMMA UniBegins == ASSUME UniInv, Unicode!Begin \/ Unicode!BeginRefused PROVE UniInv'
<1>1. /\ uniPc = "begin" /\ uniCmd \in {"clean", "failing"}
      /\ UNCHANGED <<uniDepth, uniFile, uniPart, uniAlien, uniOwner, uniTrust, uniOurs, uniChanged>>
  BY DEF Unicode!Begin, Unicode!BeginRefused, Unicode!tree, Unicode!history, UniInv, UniCommand
<1>2. UniStanding'
  BY <1>1 DEF UniInv, UniStanding, Returned
<1>3. uniOwner \in UniRecord /\ (uniAlien # {} => uniCmd = "clean")
  BY <1>1 DEF UniInv, UniTypes, UniOthers
<1>4. CASE Unicode!BeginRefused
  <2>1. uniPc' = "idle" /\ uniCmd' = "none" /\ uniRam' = uniRam
    BY <1>4 DEF Unicode!BeginRefused
  <2>2. UniTypes'
    BY <1>1, <2>1 DEF UniInv, UniTypes
  <2> QED BY <1>2, <2>1, <2>2, UniRests
<1>5. CASE Unicode!Begin
  <2>1. /\ uniRam' = uniOwner
        /\ uniCmd' = IF uniCmd = "failing" THEN "undo" ELSE uniCmd
        /\ uniPc' = IF Unicode!Absent THEN "done"
                    ELSE IF uniOwner = Unicode!NoRecord
                    THEN IF uniFile = Unicode!NoFile /\ ~uniPart /\ uniAlien = {} THEN "leaf"
                         ELSE "over"
                    ELSE IF uniOwner.added /\ ~uniOwner.cleaned THEN "forget" ELSE "validate"
    BY <1>5 DEF Unicode!Begin
  <2>2. uniCmd' \in {"clean", "undo"} /\ (uniAlien' # {} => uniCmd' = "clean")
        /\ uniPc' \in {"done", "leaf", "over", "forget", "validate"}
    BY <1>1, <1>3, <2>1
  <2>3. UniTypes'
    BY <1>1, <1>3, <2>1, <2>2 DEF UniInv, UniTypes
  <2>4. UniCommand'
    BY <2>2 DEF UniCommand, UniMaking, UniClearing, UniRemoving
  <2>5. CASE Unicode!Absent
    <3>1. /\ uniPc' = "done" /\ uniDepth' = 0 /\ uniFile' = Unicode!NoFile /\ ~uniPart'
          /\ uniOwner' = Unicode!NoRecord /\ uniAlien' = {}
      BY <1>1, <2>1, <2>5 DEF Unicode!Absent, UniInv, UniTypes
    <3>2. UniCopy' /\ UniTree' /\ UniTrust' /\ UniOthers'
      BY <3>1 DEF UniCopy, UniTree, UniTrust, UniOthers, UniMaking, UniClearing, UniRemoving
    <3> QED BY <1>2, <2>3, <2>4, <3>2 DEF UniInv
  <2>6. CASE ~Unicode!Absent /\ uniOwner = Unicode!NoRecord
    <3>1. uniFile = Unicode!NoFile /\ ~uniPart /\ Returned(uniOwner)
      BY <2>6, UniRecordFacts DEF UniInv, UniStanding, Returned
    <3>2. uniPc' = IF uniAlien = {} THEN "leaf" ELSE "over"
      BY <2>1, <2>6, <3>1
    <3>3. UniCopy' /\ UniTree' /\ UniTrust' /\ UniOthers'
      BY <1>1, <2>2, <2>6, <3>1, <3>2, UniRecordFacts
         DEF UniCopy, UniTree, UniTrust, UniOthers, UniMaking, UniClearing, UniRemoving
    <3> QED BY <1>2, <2>3, <2>4, <3>3 DEF UniInv
  <2>7. CASE ~Unicode!Absent /\ uniOwner # Unicode!NoRecord
    <3>1. /\ uniPc' = IF uniOwner.added /\ ~uniOwner.cleaned THEN "forget" ELSE "validate"
          /\ uniOwner.state # "absent"
      BY <2>1, <2>7 DEF UniInv, UniStanding
    <3>2. UniTree' /\ UniOthers'
      BY <1>1, <2>2, <3>1 DEF UniTree, UniOthers, UniMaking, UniClearing, UniRemoving
    <3>3. UniCopy'
      BY <1>1, <2>1, <2>2, <3>1 DEF UniCopy, UniMaking, UniClearing
    <3>4. UniTrust'
      BY <1>1, <2>1, <2>2, <3>1 DEF UniInv, UniStanding, UniTrust, UniClearing, Returned
    <3> QED BY <1>2, <2>3, <2>4, <3>2, <3>3, <3>4 DEF UniInv
  <2> QED BY <2>5, <2>6, <2>7
<1> QED BY <1>4, <1>5

\* What the record says is there is compared with what is there.
LEMMA UniValidates == ASSUME UniInv, Unicode!Validate PROVE UniInv'
<1>1. /\ uniPc = "validate" /\ uniCmd \in {"clean", "undo"} /\ uniCmd' = uniCmd
      /\ UNCHANGED <<uniDepth, uniFile, uniPart, uniAlien, uniOwner, uniTrust, uniRam, uniOurs,
                     uniChanged>>
      /\ uniPc' = IF ~Unicode!Valid THEN "over"
                  ELSE IF uniRam.state = "cleaning" THEN "target" ELSE "mark"
  BY DEF Unicode!Validate, Unicode!Goto, Unicode!tree, Unicode!history, UniInv, UniCommand,
         UniClearing
<1>2. /\ uniOwner = uniRam /\ Returned(uniOwner) /\ uniRam.state # "absent"
          /\ uniOwner.state # "absent"
      /\ uniAlien # {} => uniCmd = "clean"
  BY <1>1 DEF UniInv, UniCopy, UniTrust, UniOthers, UniMaking, UniClearing
<1>3. UniStanding'
  BY <1>1 DEF UniInv, UniStanding, Returned
<1>4. UniTypes'
  BY <1>1 DEF UniInv, UniTypes
<1>5. UniCommand' /\ UniTree'
  BY <1>1 DEF UniCommand, UniTree, UniMaking, UniClearing, UniRemoving
<1>6. UniCopy' /\ UniTrust'
  BY <1>1, <1>2 DEF UniCopy, UniTrust, UniMaking, UniClearing, Returned
<1>7. UniOthers'
  <2>1. CASE ~Unicode!Valid
    <3>1. uniAlien # {} \/ uniChanged
      <4>1. CASE uniRam.verified /\ uniFile = "edited"
        BY <4>1 DEF UniInv, UniStanding
      <4>2. CASE uniRam.state = "complete"
        BY <1>2, <2>1, <4>2 DEF UniInv, UniStanding, UniTypes, Unicode!Valid
      <4>3. CASE ~(uniRam.verified /\ uniFile = "edited") /\ uniRam.state # "complete"
        BY <1>2, <2>1, <4>3 DEF UniInv, UniStanding, UniTypes, Unicode!Valid
      <4> QED BY <4>1, <4>2, <4>3
    <3> QED BY <1>1, <1>2, <2>1, <3>1 DEF UniOthers
  <2>2. CASE Unicode!Valid
    BY <1>1, <2>2 DEF UniOthers, Unicode!Valid, Unicode!NoFile
  <2> QED BY <2>1, <2>2
<1> QED BY <1>3, <1>4, <1>5, <1>6, <1>7 DEF UniInv

\* That it is being removed is recorded.
LEMMA UniMarks == ASSUME UniInv, Unicode!Mark PROVE UniInv'
<1>1. /\ uniPc = "mark" /\ uniCmd \in {"undo", "clean"} /\ Unicode!WriteOwnership(Unicode!Cleaning)
      /\ \/ uniOwner' = Unicode!Cleaning /\ Unicode!Goto("target")
         \/ uniOwner' \in {uniOwner, Unicode!Cleaning} /\ Unicode!Fail
  BY DEF Unicode!Mark, Unicode!Written, Unicode!WriteRefused, UniInv, UniCommand, UniClearing
<1>2. /\ uniAlien = {} /\ uniOwner = uniRam /\ Returned(uniRam) /\ uniRam.state # "absent"
      /\ (uniRam.verified => uniFile # "edited")
      /\ (uniOurs => uniOwner.added /\ ~uniOwner.cleaned)
  BY <1>1 DEF UniInv, UniOthers, UniTrust, UniCopy, UniStanding, UniMaking, UniClearing
<1>3. /\ Unicode!Cleaning \in UniRecord /\ Unicode!Cleaning.state = "cleaning"
      /\ Unicode!Cleaning.verified = uniRam.verified /\ Returned(Unicode!Cleaning) /\ ~uniOurs
  BY <1>2, UniCopies DEF UniInv, Returned
<1>4. uniOwner' \in {uniOwner, Unicode!Cleaning}
  BY <1>1
<1>5. /\ uniRam.verified => ~uniPart
      /\ uniOwner = Unicode!NoRecord => uniFile = Unicode!NoFile /\ ~uniPart
  BY <1>2 DEF UniInv, UniStanding
<1>6. /\ uniRam' = Unicode!Cleaning
      /\ UNCHANGED <<uniFile, uniPart, uniAlien, uniTrust, uniOurs, uniChanged>>
      /\ uniDepth' \in 1..3 /\ uniAlien' \subseteq 1..uniDepth'
      /\ uniOwner' \in UniRecord /\ uniRam' \in UniRecord /\ UniStanding'
  BY <1>1, <1>2, <1>3, <1>4, <1>5, UniWrites
<1>7. CASE uniOwner' = Unicode!Cleaning /\ Unicode!Goto("target")
  <2>1. uniPc' = "target" /\ uniCmd' = uniCmd
    BY <1>7 DEF Unicode!Goto
  <2>2. UniTypes'
    BY <1>1, <1>6, <2>1 DEF UniInv, UniTypes
  <2>3. UniCommand' /\ UniTree'
    BY <1>1, <1>6, <2>1 DEF UniCommand, UniTree, UniMaking, UniClearing, UniRemoving
  <2>4. UniCopy' /\ UniTrust'
    BY <1>3, <1>6, <1>7, <2>1 DEF UniCopy, UniTrust, UniMaking, UniClearing
  <2>5. UniOthers'
    BY <1>2, <1>3, <1>6, <2>1 DEF UniOthers
  <2> QED BY <1>6, <2>2, <2>3, <2>4, <2>5 DEF UniInv
<1>8. CASE Unicode!Fail
  <2>1. uniPc' = "idle" /\ uniCmd' = "none"
    BY <1>1, <1>8 DEF Unicode!Fail, Unicode!End
  <2>2. UniTypes'
    BY <1>6, <2>1 DEF UniInv, UniTypes
  <2> QED BY <1>6, <2>1, <2>2, UniRests
<1> QED BY <1>1, <1>7, <1>8

\* The file and its part are removed.
LEMMA UniRemovesFile == ASSUME UniInv, Unicode!RemoveTarget \/ Unicode!RemovePart PROVE UniInv'
<1>1. /\ uniPc \in {"target", "part"} /\ uniCmd \in {"undo", "clean"}
      /\ UNCHANGED <<uniDepth, uniAlien, uniOwner, uniTrust, uniRam, uniOurs, uniChanged>>
      /\ \/ uniPc = "target" /\ uniFile' = Unicode!NoFile /\ uniPart' = uniPart
             /\ Unicode!Goto("part")
         \/ uniPc = "part" /\ uniFile' = uniFile /\ uniPart' = FALSE /\ Unicode!Goto("leaf")
         \/ uniFile' = uniFile /\ uniPart' = uniPart /\ Unicode!Fail
  BY DEF Unicode!RemoveTarget, Unicode!RemovePart, Unicode!history, UniInv, UniCommand, UniClearing
<1>2. /\ uniAlien = {} /\ uniOwner = uniRam /\ Returned(uniOwner) /\ uniOwner.state = "cleaning"
      /\ uniRam.state # "absent" /\ (uniPc = "part" => uniFile = Unicode!NoFile)
  BY <1>1 DEF UniInv, UniOthers, UniTrust, UniCopy, UniTree, UniMaking, UniClearing
<1>3. UniStanding'
  <2>1. uniFile' = Unicode!NoFile \/ uniFile' = uniFile
    BY <1>1
  <2>2. uniPart' => uniPart
    BY <1>1
  <2>3. uniOwner # Unicode!NoRecord
    BY <1>2, UniRecordFacts
  <2>4. Unicode!NoFile # "edited"
    BY DEF Unicode!NoFile
  <2> QED BY <1>1, <1>2, <2>1, <2>2, <2>3, <2>4 DEF UniInv, UniStanding, Returned
<1>4. CASE Unicode!Fail
  <2>1. uniPc' = "idle" /\ uniCmd' = "none"
    BY <1>1, <1>4 DEF Unicode!Fail, Unicode!End
  <2>2. UniTypes'
    BY <1>1, <2>1 DEF UniInv, UniTypes
  <2> QED BY <1>3, <2>1, <2>2, UniRests
<1>5. CASE ~Unicode!Fail
  <2>1. /\ uniCmd' = uniCmd /\ uniPc' \in {"part", "leaf"} /\ uniFile' = Unicode!NoFile
        /\ uniPc' = "leaf" => ~uniPart'
    BY <1>1, <1>2, <1>5 DEF Unicode!Goto
  <2>2. UniTypes'
    BY <1>1, <2>1 DEF UniInv, UniTypes
  <2>3. UniCommand' /\ UniTree' /\ UniOthers'
    BY <1>1, <1>2, <2>1 DEF UniCommand, UniTree, UniOthers, UniMaking, UniClearing, UniRemoving
  <2>4. UniCopy' /\ UniTrust'
    BY <1>1, <1>2, <2>1 DEF UniCopy, UniTrust, UniMaking, UniClearing
  <2> QED BY <1>3, <2>2, <2>3, <2>4 DEF UniInv
<1> QED BY <1>4, <1>5

\* The record goes before the top directory does.
LEMMA UniRemovesTree ==
  ASSUME UniInv,
         Unicode!RemoveLeaf \/ Unicode!RemoveFirst \/ Unicode!RemoveOwner \/ Unicode!RemoveTop
  PROVE  UniInv'
<1>1. /\ uniPc \in {"leaf", "first", "owner", "top"} /\ uniCmd \in {"undo", "clean"}
      /\ UNCHANGED <<uniFile, uniPart, uniAlien, uniTrust, uniRam, uniOurs, uniChanged>>
  BY DEF Unicode!RemoveLeaf, Unicode!RemoveFirst, Unicode!RemoveOwner, Unicode!RemoveTop,
         Unicode!RemoveDirectory, Unicode!tree, Unicode!history, UniInv, UniCommand, UniRemoving
<1>2. /\ uniAlien = {} /\ uniFile = Unicode!NoFile /\ ~uniPart /\ uniDepth \in 0..3
      /\ uniOwner.state \in {"absent", "cleaning"} /\ Returned(uniOwner) /\ uniOwner \in UniRecord
      /\ uniPc = "first" => uniDepth <= 2
      /\ uniPc \in {"owner", "top"} => uniDepth <= 1
      /\ uniPc = "owner" => uniOwner # Unicode!NoRecord
      /\ uniPc = "top" => uniOwner = Unicode!NoRecord
      /\ uniOwner # Unicode!NoRecord => uniDepth >= 1
  BY <1>1, UniRecordFacts DEF UniInv, UniTypes, UniOthers, UniTrust, UniCopy, UniTree,
         UniStanding, UniRemoving, Returned
<1>3. /\ uniDepth' \in 0..3 /\ uniOwner' \in {uniOwner, Unicode!NoRecord}
      /\ uniOwner' # Unicode!NoRecord => uniDepth' >= 1
  BY <1>1, <1>2 DEF Unicode!RemoveLeaf, Unicode!RemoveFirst, Unicode!RemoveOwner, Unicode!RemoveTop,
         Unicode!RemoveDirectory, Unicode!tree
<1>4. ~uniOurs' /\ Returned(uniOwner')
  BY <1>1, <1>2, <1>3, UniRecordFacts DEF UniInv, UniStanding, Returned
<1>5. UniStanding'
  BY <1>1, <1>2, <1>3, <1>4, UniRecordFacts DEF UniInv, UniStanding, Unicode!NoFile
<1>6. CASE Unicode!Fail
  <2>1. uniPc' = "idle" /\ uniCmd' = "none"
    BY <1>1, <1>6 DEF Unicode!Fail, Unicode!End
  <2>2. UniTypes'
    BY <1>1, <1>2, <1>3, <2>1, UniRecordFacts DEF UniInv, UniTypes
  <2> QED BY <1>5, <2>1, <2>2, UniRests
<1>7. CASE ~Unicode!Fail
  <2>1. /\ uniCmd' = uniCmd
        /\ \/ uniPc' = "first" /\ uniDepth' <= 2 /\ uniOwner' = uniOwner
           \/ uniPc' = "owner" /\ uniDepth' <= 1 /\ uniOwner' = uniOwner
               /\ uniOwner # Unicode!NoRecord
           \/ uniPc' = "top" /\ uniDepth' <= 1 /\ uniOwner' = Unicode!NoRecord
           \/ uniPc' = "done" /\ uniDepth' = 0 /\ uniOwner' = Unicode!NoRecord
    BY <1>1, <1>2, <1>7 DEF Unicode!RemoveLeaf, Unicode!RemoveFirst, Unicode!RemoveOwner,
       Unicode!RemoveTop, Unicode!RemoveDirectory, Unicode!tree, Unicode!Goto
  <2>2. UniTypes'
    BY <1>1, <1>2, <1>3, <2>1, UniRecordFacts DEF UniInv, UniTypes
  <2>3. UniCommand' /\ UniTree' /\ UniOthers'
    BY <1>1, <1>2, <2>1 DEF UniCommand, UniTree, UniOthers, UniMaking, UniClearing, UniRemoving
  <2>4. UniCopy' /\ UniTrust'
    BY <1>2, <1>4, <2>1 DEF UniCopy, UniTrust, UniMaking, UniClearing
  <2> QED BY <1>5, <2>2, <2>3, <2>4 DEF UniInv
<1> QED BY <1>6, <1>7

\* The user and the power.
LEMMA UniElse ==
  ASSUME UniInv, Unicode!Edit \/ Unicode!TidyUp \/ Unicode!Reset PROVE UniInv'
<1>1. /\ uniPc' = "idle" /\ uniCmd' \in {uniCmd, "none"}
          /\ UNCHANGED <<uniDepth, uniPart, uniOwner>>
      /\ uniRam' \in {uniRam, Unicode!NoRecord}
      /\ uniAlien' \subseteq 1..uniDepth
      /\ \/ UNCHANGED <<uniFile, uniTrust, uniOurs, uniChanged>>
         \/ /\ uniChanged' = TRUE /\ UNCHANGED <<uniTrust, uniOurs>>
            /\ uniFile # Unicode!NoFile /\ uniFile' \in {Unicode!NoFile, "edited"}
         \/ /\ uniChanged' = TRUE /\ uniFile' = uniFile
            /\ uniOurs' = FALSE /\ uniTrust' \in {"none", "server", "other"}
  BY DEF UniInv, UniTypes, Unicode!Edit, Unicode!TidyUp, Unicode!Reset, Unicode!tree,
         Unicode!history
<1>2. UniTypes'
  BY <1>1, UniRecordFacts DEF UniInv, UniTypes
<1>3. UniStanding'
  <2>1. CASE UNCHANGED <<uniFile, uniTrust, uniOurs, uniChanged>>
    BY <1>1, <2>1 DEF UniInv, UniStanding, Returned
  <2>2. CASE /\ uniChanged' = TRUE /\ UNCHANGED <<uniTrust, uniOurs>>
             /\ uniFile # Unicode!NoFile /\ uniFile' \in {Unicode!NoFile, "edited"}
    BY <1>1, <2>2 DEF UniInv, UniStanding, Returned
  <2>3. CASE /\ uniChanged' = TRUE /\ uniFile' = uniFile
             /\ uniOurs' = FALSE /\ uniTrust' \in {"none", "server", "other"}
    BY <1>1, <2>3 DEF UniInv, UniStanding, Returned
  <2> QED BY <1>1, <2>1, <2>2, <2>3
<1> QED BY <1>1, <1>2, <1>3, UniRests

\* Every step of the two commands and of their user keeps the invariant.
LEMMA UniInvKept == UniInv /\ [Unicode!Next]_uniVars => UniInv'
<1>1. ASSUME UniInv, UNCHANGED uniVars PROVE UniInv'
  BY <1>1 DEF uniVars, UniInv, UniTypes, UniStanding, UniCommand, UniCopy, UniTree, UniTrust,
         UniOthers, Unicode!Absent, Returned
<1>2. ASSUME UniInv, Unicode!Next PROVE UniInv'
  BY <1>2, UniStarts, UniOwn, UniConnects, UniRecordsTrust, UniTrusts, UniFetches, UniCompletes,
     UniViews,
     UniForgets, UniForgot, UniBegins, UniValidates, UniMarks, UniRemovesFile, UniRemovesTree,
     UniElse
     DEF Unicode!Next
<1> QED BY <1>1, <1>2

\* A trust that the setup added is on a record that has not been removed.
LEMMA UniTrustIsReturned == UniInv => Unicode!TrustIsReturned
  BY UniRecordFacts DEF UniInv, UniStanding, Unicode!TrustIsReturned, Unicode!Absent

\* A cleanup leaves nothing behind that nobody stood in the way of.
LEMMA UniSettles ==
  UniInv /\ [Unicode!Next]_uniVars =>
    [uniCmd = "clean" /\ uniTold' # "none" /\ uniPc' = "idle" /\ uniPc # "idle"
       => uniRefused' \/ uniChanged \/ uniAlien # {} \/ Unicode!Absent']_uniVars
<1> SUFFICES ASSUME UniInv, Unicode!Next, uniCmd = "clean", uniTold' # "none", uniPc' = "idle",
                    uniPc # "idle", ~uniRefused', ~uniChanged, uniAlien = {}
             PROVE  Unicode!Absent'
  OBVIOUS
<1>1. ~Unicode!Fail
  BY DEF Unicode!Fail
<1>2. ~Unicode!Reset /\ ~Unicode!BeginRefused
  BY DEF Unicode!Reset, Unicode!BeginRefused
<1>3. CASE Unicode!Refuse
  BY <1>3 DEF Unicode!Refuse, UniInv, UniOthers
<1>4. CASE Unicode!Done
  BY <1>4 DEF Unicode!Done, Unicode!tree, UniInv, UniCopy, UniTree, UniRemoving, Unicode!Absent
<1>5. CASE Unicode!View
  BY <1>5 DEF Unicode!View, UniInv, UniCommand
<1>6. CASE Unicode!Setup \/ Unicode!Clean \/ Unicode!Edit \/ Unicode!TidyUp
  BY <1>6 DEF Unicode!Setup, Unicode!Clean, Unicode!Edit, Unicode!TidyUp
<1>7. CASE \/ Unicode!Own \/ Unicode!Connect \/ Unicode!KeyChanged \/ Unicode!Record
                \/ Unicode!Trust
           \/ Unicode!Complete
  BY <1>1, <1>7 DEF Unicode!Own, Unicode!Connect, Unicode!KeyChanged, Unicode!Record, Unicode!Trust,
     Unicode!Complete, Unicode!Written, Unicode!WriteRefused, Unicode!Goto
<1>8. CASE Unicode!Fetch \/ Unicode!Fetched
  <2>1. uniCmd = "setup"
    BY <1>8 DEF Unicode!Fetch, Unicode!Fetched, UniInv, UniCommand, UniMaking
  <2> QED BY <2>1
<1>9. CASE Unicode!Forget \/ Unicode!ForgetMismatch
  BY <1>1, <1>9 DEF Unicode!Forget, Unicode!ForgetMismatch, Unicode!Goto
<1>10. CASE Unicode!Forgot
  <2>1. uniPc' = Unicode!AfterTrust /\ Unicode!AfterTrust = "validate"
    BY <1>1, <1>10
       DEF Unicode!Forgot, Unicode!Written, Unicode!WriteRefused, Unicode!Goto, Unicode!AfterTrust
  <2> QED BY <2>1
<1>11. CASE Unicode!Begin
  <2>1. uniPc' \in {"done", "leaf", "over", "forget", "validate"}
    BY <1>11 DEF Unicode!Begin
  <2> QED BY <2>1
<1>12. CASE Unicode!Validate
  <2>1. uniPc' \in {"over", "target", "mark"}
    BY <1>12 DEF Unicode!Validate, Unicode!Goto
  <2> QED BY <2>1
<1>13. CASE Unicode!Mark \/ Unicode!RemoveTarget \/ Unicode!RemovePart
  BY <1>1, <1>13 DEF Unicode!Mark, Unicode!RemoveTarget, Unicode!RemovePart, Unicode!Written,
     Unicode!WriteRefused, Unicode!Goto
<1>14. CASE Unicode!RemoveLeaf \/ Unicode!RemoveFirst \/ Unicode!RemoveOwner \/ Unicode!RemoveTop
  <2>1. uniPc' \in {"first", "owner", "top", "done"}
    BY <1>1, <1>14
       DEF Unicode!RemoveLeaf, Unicode!RemoveFirst, Unicode!RemoveOwner, Unicode!RemoveTop,
       Unicode!RemoveDirectory, Unicode!Goto
  <2> QED BY <2>1
<1> QED
  BY <1>2, <1>3, <1>4, <1>5, <1>6, <1>7, <1>8, <1>9, <1>10, <1>11, <1>12, <1>13, <1>14
     DEF Unicode!Next

\* What the user has put there, edited or trusted stays.
LEMMA UniOthersStay ==
  UniInv /\ [Unicode!Next]_uniVars =>
    [uniPc # "idle" =>
       /\ uniFile = "edited" /\ uniOwner.verified => uniFile' = uniFile
       /\ uniAlien # {} => uniDepth' >= uniDepth /\ uniFile' = uniFile
       /\ uniTrust # "none" /\ uniTrust' = "none" =>
            uniOurs \/ (uniChanged /\ uniTrust = "server")]_uniVars
<1> SUFFICES ASSUME UniInv, Unicode!Next, uniPc # "idle"
             PROVE  /\ uniFile = "edited" /\ uniOwner.verified => uniFile' = uniFile
                    /\ uniAlien # {} => uniDepth' >= uniDepth /\ uniFile' = uniFile
                    /\ uniTrust # "none" /\ uniTrust' = "none" =>
                         uniOurs \/ (uniChanged /\ uniTrust = "server")
  OBVIOUS
<1>1. uniDepth \in 0..3
  BY DEF UniInv, UniTypes
<1>2. CASE \/ Unicode!Setup \/ Unicode!Clean \/ Unicode!Edit \/ Unicode!TidyUp
  BY <1>2 DEF Unicode!Setup, Unicode!Clean, Unicode!Edit, Unicode!TidyUp
<1>3. CASE \/ Unicode!Refuse \/ Unicode!Connect \/ Unicode!KeyChanged \/ Unicode!View
           \/ Unicode!ForgetMismatch \/ Unicode!Begin \/ Unicode!BeginRefused \/ Unicode!Validate
           \/ Unicode!Done \/ Unicode!Reset
  <2>1. UNCHANGED <<uniDepth, uniFile, uniTrust>>
    BY <1>3 DEF Unicode!Refuse, Unicode!Connect, Unicode!KeyChanged, Unicode!View,
           Unicode!ForgetMismatch,
       Unicode!Begin, Unicode!BeginRefused, Unicode!Validate, Unicode!Done, Unicode!Reset,
       Unicode!tree
  <2> QED BY <1>1, <2>1
<1>4. CASE Unicode!Own \/ Unicode!Record \/ Unicode!Complete \/ Unicode!Forgot \/ Unicode!Mark
  <2>1. UNCHANGED <<uniFile, uniTrust>> /\ uniDepth' \in {uniDepth, 1}
         /\ (uniDepth' = 1 \/ uniDepth' = uniDepth)
        /\ (uniDepth >= 1 => uniDepth' = uniDepth)
    BY <1>1, <1>4 DEF Unicode!Own, Unicode!Record, Unicode!Complete, Unicode!Forgot, Unicode!Mark,
       Unicode!Written, Unicode!WriteRefused, Unicode!WriteOwnership
  <2> QED BY <1>1, <2>1
<1>5. CASE Unicode!Trust
  <2>1. uniTrust = "none" /\ UNCHANGED <<uniDepth, uniFile>>
    BY <1>5 DEF Unicode!Trust, Unicode!tree, UniInv, UniTrust
  <2> QED BY <1>1, <2>1
<1>6. CASE Unicode!Fetch \/ Unicode!Fetched
  <2>1. uniAlien = {} /\ uniTrust' = uniTrust /\ uniFile = Unicode!NoFile
    BY <1>6 DEF Unicode!Fetch, Unicode!Fetched, UniInv, UniOthers, UniTree, UniMaking
  <2> QED BY <2>1 DEF Unicode!NoFile
<1>7. CASE Unicode!Forget
  <2>1. UNCHANGED <<uniDepth, uniFile>> /\ (uniTrust = "other" => uniTrust' = uniTrust)
        /\ (uniTrust = "server" => uniOurs \/ uniChanged)
    BY <1>7 DEF Unicode!Forget, Unicode!tree, UniInv, UniTrust
  <2> QED BY <1>1, <2>1 DEF UniInv, UniTypes
<1>8. CASE Unicode!RemoveTarget
  <2>1. uniAlien = {} /\ uniTrust' = uniTrust /\ uniOwner = uniRam
         /\ (uniRam.verified => uniFile # "edited")
    BY <1>8 DEF Unicode!RemoveTarget, UniInv, UniOthers, UniCopy, UniClearing, UniMaking
  <2> QED BY <2>1
<1>9. CASE \/ Unicode!RemovePart \/ Unicode!RemoveLeaf \/ Unicode!RemoveFirst \/ Unicode!RemoveOwner
           \/ Unicode!RemoveTop
  <2>1. uniAlien = {} /\ UNCHANGED <<uniTrust, uniFile>>
    BY <1>9 DEF Unicode!RemovePart, Unicode!RemoveLeaf, Unicode!RemoveFirst, Unicode!RemoveOwner,
       Unicode!RemoveTop, Unicode!RemoveDirectory, Unicode!tree, UniInv, UniOthers
  <2> QED BY <2>1
<1> QED
  BY <1>2, <1>3, <1>4, <1>5, <1>6, <1>7, <1>8, <1>9 DEF Unicode!Next

\* P2UNICODE: a cleanup settles, the trust that the setup added is returned with it,
\* and the rest stays.
THEOREM UnicodeIsCleaned ==
  ServicesSpec => Unicode!Settles /\ []Unicode!TrustIsReturned /\ Unicode!OthersStay
<1>1. ServicesInit => UniInv
  BY InitUni
<1>2. UniInv /\ [ServicesNext]_allVars => UniInv'
  BY Frames, UniInvKept
<1>3. UniInv /\ [ServicesNext]_allVars =>
        [uniCmd = "clean" /\ uniTold' # "none" /\ uniPc' = "idle" /\ uniPc # "idle"
           => uniRefused' \/ uniChanged \/ uniAlien # {} \/ Unicode!Absent']_uniVars
  BY Frames, UniSettles
<1>4. UniInv /\ [ServicesNext]_allVars =>
        [uniPc # "idle" =>
           /\ uniFile = "edited" /\ uniOwner.verified => uniFile' = uniFile
           /\ uniAlien # {} => uniDepth' >= uniDepth /\ uniFile' = uniFile
           /\ uniTrust # "none" /\ uniTrust' = "none" =>
                uniOurs \/ (uniChanged /\ uniTrust = "server")]_uniVars
  BY Frames, UniOthersStay
<1> QED
  BY <1>1, <1>2, <1>3, <1>4, UniTrustIsReturned, PTL
     DEF ServicesSpec, Unicode!Settles, Unicode!OthersStay, Unicode!vars, uniVars

\* SerialDiagnostics.ino: what a fixture's setup made goes with the first cleanup that
\* nobody stands in the way of, however often and wherever the setup, the test and
\* earlier cleanups were cut off by a reset or a refused call; the two resets that the
\* shared fixture does not recover from are those of its Stuck.
THEOREM FixturesAreCleaned == ServicesSpec => CleanupsSettle
  BY LargeIsCleaned, SharedIsCleaned, UnicodeIsCleaned DEF CleanupsSettle

-----------------------------------------------------------------------------
(* Workspace.                                                              *)

Stores == Doc \cup {Files!NoFile, Files!Cut, Files!Empty}
Copies == [file : Stores, tmp : Stores, bak : Stores]
Offsets == Doc \cup {Files!NoFile, Files!Empty}

FilesData ==
  /\ card \in [Name -> Copies] /\ marks \in [Name -> Offsets]
  /\ before \in [card : [Name -> Copies], marks : [Name -> Offsets], faults : 0..Few]
FilesControl ==
  /\ links \subseteq Name /\ partial \subseteq Name
  /\ at \in {"boot", "idle", "recover", "create", "stage", "fill", "backup", "publish", "clean",
             "rename", "mark", "unmark", "remove", "link"}
  /\ had \in BOOLEAN /\ told \in {"none", "ok", "error"}
FilesBounds ==
  /\ op \in Files!Op
  /\ left \in [ops : 0..MaxOps, faults : 0..Few, resets : 0..MaxResets]
  /\ left.faults <= before.faults
FilesTypes == FilesData /\ FilesControl /\ FilesBounds

Running == at \notin {"idle", "boot"}

\* Which steps an operation takes, and what was asked before its first change.
FilesPlaces ==
  /\ at = "boot" => told = "none"
  /\ at = "recover" => op.kind \in Files!InTmp
  /\ at = "create" => op.kind \in {"create", "upload"}
  /\ at \in {"stage", "backup", "publish"} => op.kind \in Files!InTmp \cup {"copy"}
  /\ at = "fill" => op.kind \in Files!InTmp \cup {"copy", "upload"}
  /\ at = "clean" => op.kind \in Files!InTmp
  /\ at = "rename" => op.kind = "rename"
  /\ at = "mark" => op.kind \in {"mark", "copy", "rename"}
  /\ at = "unmark" => op.kind \in {"replace", "rename", "delete", "undo"}
  /\ at = "remove" => op.kind \in {"delete", "undo"}
  /\ at = "link" => op.kind = "write" /\ op.name \notin links
AskedFirst ==
  Running =>
    /\ op.kind \in {"copy", "rename"} <=> op.to # op.name
    /\ op.kind \in {"rename", "delete", "undo"} => op.name \notin links
    /\ op.kind = "undo" => left.faults < before.faults
    /\ op.kind \in {"copy", "rename"} =>
         before.card[op.name].file # Files!NoFile /\ before.card[op.to].file = Files!NoFile
    /\ op.kind \in {"create", "upload"} => before.card[op.name].file = Files!NoFile
    /\ op.kind \in Files!Tool \cup {"undo"} =>
         op.name \in links \/ before.card[op.name].file = Files!NoFile
    /\ \A n \in links : Files!WasStored(n) # Files!NoFile

\* What the card holds at each step, from what it held when the operation began.
OthersAreAsBefore ==
  Running =>
    /\ \A n \in Name \ {op.name, op.to} : card[n] = before.card[n]
    /\ op.kind = "copy" => card[op.name] = before.card[op.name]
    /\ \/ at \in {"create", "recover", "rename"} \/ op.kind \in {"mark", "delete"}
       \/ at = "stage" /\ op.kind = "copy"
       => card = before.card
ReplacedAsCalled ==
  op.kind \in Files!InTmp \cup {"undo"} =>
    LET f == card[op.name] was == Files!WasStored(op.name) IN
    /\ at = "stage" => f = [file |-> was, tmp |-> Files!NoFile, bak |-> Files!NoFile]
    /\ at = "fill" => f = [file |-> was, tmp |-> Files!Cut, bak |-> Files!NoFile]
    /\ at = "backup" => f = [file |-> was, tmp |-> op.doc, bak |-> Files!NoFile]
    /\ at = "publish" => f = [file |-> Files!NoFile, tmp |-> op.doc, bak |-> was]
                         /\ (had <=> was # Files!NoFile)
    /\ at = "clean" => f.file = op.doc /\ f.tmp = Files!NoFile
    /\ at \in {"link", "unmark", "remove"} =>
         f = [file |-> op.doc, tmp |-> Files!NoFile, bak |-> Files!NoFile]
MadeAsCalled ==
  /\ at = "fill" /\ op.kind = "upload" =>
       card[op.name].file = Files!Cut /\ card[op.name].bak = before.card[op.name].bak
  /\ Running /\ op.kind \in {"copy", "rename"} =>
       /\ card[op.to].bak = before.card[op.to].bak
       /\ card[op.to].file = (IF at \in {"mark", "unmark"} THEN before.card[op.name].file
                              ELSE Files!NoFile)
  /\ at \in {"backup", "publish"} /\ op.kind = "copy" => card[op.to].tmp = before.card[op.name].file
  /\ at = "publish" /\ op.kind = "copy" => ~had
  /\ at \in {"mark", "unmark"} /\ op.kind = "rename" =>
       card[op.name].file = Files!NoFile /\ card[op.name].bak = before.card[op.name].bak
MarksAsCalled ==
  /\ Running /\ at # "remove" /\ ~(at = "unmark" /\ op.kind = "rename") => marks = before.marks
  /\ at = "mark" /\ op.kind = "rename" => marks[op.name] # Files!NoFile
  /\ at = "unmark" /\ op.kind = "rename" => marks[op.to] = before.marks[op.name]
  /\ at = "remove" => marks[op.name] = Files!NoFile

\* What a restart would find, at any time, an operation under way or not.
StoredIsOldOrNew ==
  \A n \in Name : Files!BackupLeft(n) \/ Files!Stored(card[n]) \in Files!May(op, n)

\* A part of a document is only where an upload left it, or is filling it.
PartsAreLeft ==
  \A n \in Name :
    /\ card[n].bak = Files!Cut => partial # {}
    /\ card[n].file = Files!Cut =>
         partial # {} \/ (at = "fill" /\ op.kind = "upload" /\ n = op.name)

FilesInv ==
  /\ FilesTypes /\ FilesPlaces /\ AskedFirst /\ OthersAreAsBefore /\ ReplacedAsCalled
  /\ MadeAsCalled /\ MarksAsCalled /\ StoredIsOldOrNew /\ PartsAreLeft
  /\ Files!LinkedFilesAreThere /\ Files!SuccessIsComplete /\ Files!FailureIsClean

\* Nothing, a part and an empty file are told apart from every document.
LEMMA LengthFacts ==
  /\ Files!NoFile = -2 /\ Files!Cut = -1 /\ Files!Empty = 0
  /\ \A d \in Doc : d \in Nat /\ d > 0 /\ d \notin {Files!NoFile, Files!Cut, Files!Empty}
  BY LengthsAssumption DEF Files!NoFile, Files!Cut, Files!Empty

\* A call that writes or removes one of the three files of a name.
LEMMA PutFacts ==
  ASSUME card \in [Name -> Copies], NEW n \in Name, NEW c \in Stores
  PROVE  /\ Files!Put(n, "file", c) =>
              /\ card' \in [Name -> Copies] /\ \A m \in Name \ {n} : card'[m] = card[m]
              /\ card'[n].file = c /\ card'[n].tmp = card[n].tmp /\ card'[n].bak = card[n].bak
         /\ Files!Put(n, "tmp", c) =>
              /\ card' \in [Name -> Copies] /\ \A m \in Name \ {n} : card'[m] = card[m]
              /\ card'[n].file = card[n].file /\ card'[n].tmp = c /\ card'[n].bak = card[n].bak
         /\ Files!Put(n, "bak", c) =>
              /\ card' \in [Name -> Copies] /\ \A m \in Name \ {n} : card'[m] = card[m]
              /\ card'[n].file = card[n].file /\ card'[n].tmp = card[n].tmp /\ card'[n].bak = c
<1>1. /\ [card[n] EXCEPT !.file = c] \in Copies /\ [card[n] EXCEPT !.tmp = c] \in Copies
      /\ [card[n] EXCEPT !.bak = c] \in Copies
  BY DEF Copies
<1>2. CASE Files!Put(n, "file", c)
  <2>1. card' = [card EXCEPT ![n] = [card[n] EXCEPT !.file = c]]
    BY <1>2 DEF Files!Put
  <2> QED BY <1>1, <2>1 DEF Copies, Files!Put
<1>3. CASE Files!Put(n, "tmp", c)
  <2>1. card' = [card EXCEPT ![n] = [card[n] EXCEPT !.tmp = c]]
    BY <1>3 DEF Files!Put
  <2> QED BY <1>1, <2>1 DEF Copies, Files!Put
<1>4. CASE Files!Put(n, "bak", c)
  <2>1. card' = [card EXCEPT ![n] = [card[n] EXCEPT !.bak = c]]
    BY <1>4 DEF Files!Put
  <2> QED BY <1>1, <2>1 DEF Copies, Files!Put
<1> QED BY <1>2, <1>3, <1>4

\* A rename onto a free one of the three.
LEMMA MovedFacts ==
  ASSUME card \in [Name -> Copies], NEW n \in Name
  PROVE  /\ Files!Moved(n, "file", "bak") =>
              /\ card' \in [Name -> Copies] /\ \A m \in Name \ {n} : card'[m] = card[m]
              /\ card'[n].file = Files!NoFile /\ card'[n].tmp = card[n].tmp
              /\ card'[n].bak = card[n].file
         /\ Files!Moved(n, "tmp", "file") =>
              /\ card' \in [Name -> Copies] /\ \A m \in Name \ {n} : card'[m] = card[m]
              /\ card'[n].file = card[n].tmp /\ card'[n].tmp = Files!NoFile
              /\ card'[n].bak = card[n].bak
<1>1. Files!NoFile \in Stores
  BY DEF Stores
<1>2. card[n] \in Copies
  OBVIOUS
<1>3. ASSUME Files!Moved(n, "file", "bak")
      PROVE  /\ card' \in [Name -> Copies] /\ \A m \in Name \ {n} : card'[m] = card[m]
             /\ card'[n].file = Files!NoFile /\ card'[n].tmp = card[n].tmp
             /\ card'[n].bak = card[n].file
  <2>1. PICK r : r = [[card[n] EXCEPT !.bak = card[n].file] EXCEPT !.file = Files!NoFile]
    OBVIOUS
  <2>2. r \in Copies /\ r.file = Files!NoFile /\ r.tmp = card[n].tmp /\ r.bak = card[n].file
    BY <1>1, <1>2, <2>1 DEF Copies
  <2>3. card' = [card EXCEPT ![n] = r]
    BY <1>3, <2>1 DEF Files!Moved
  <2> QED BY <2>2, <2>3
<1>4. ASSUME Files!Moved(n, "tmp", "file")
      PROVE  /\ card' \in [Name -> Copies] /\ \A m \in Name \ {n} : card'[m] = card[m]
             /\ card'[n].file = card[n].tmp /\ card'[n].tmp = Files!NoFile
             /\ card'[n].bak = card[n].bak
  <2>1. PICK r : r = [[card[n] EXCEPT !.file = card[n].tmp] EXCEPT !.tmp = Files!NoFile]
    OBVIOUS
  <2>2. r \in Copies /\ r.file = card[n].tmp /\ r.tmp = Files!NoFile /\ r.bak = card[n].bak
    BY <1>1, <1>2, <2>1 DEF Copies
  <2>3. card' = [card EXCEPT ![n] = r]
    BY <1>4, <2>1 DEF Files!Moved
  <2> QED BY <2>2, <2>3
<1> QED BY <1>3, <1>4

\* What an operation may make of a name, one kind after the other.
LEMMA MayFacts ==
  ASSUME NEW o \in Files!Op, NEW n \in Name
  PROVE  /\ Files!WasStored(n) \in Files!May(o, n)
         /\ o.kind \in Files!InTmp => o.doc \in Files!May(o, o.name)
         /\ o.kind = "create" => Files!Empty \in Files!May(o, o.name)
         /\ o.kind = "upload" => {Files!Cut, o.doc, Files!NoFile} \subseteq Files!May(o, o.name)
         /\ o.kind \in {"copy", "rename"} => Files!WasStored(o.name) \in Files!May(o, o.to)
         /\ o.kind \in {"delete", "undo"} => {Files!NoFile, o.doc} \subseteq Files!May(o, o.name)
         /\ o.kind = "rename" /\ o.to # o.name => Files!NoFile \in Files!May(o, o.name)
  BY DEF Files!May, Files!Target, Files!InTmp, Files!Tool

\* The values of the operation under way, and the name it gives its content to.
LEMMA OpFacts ==
  ASSUME FilesInv
  PROVE  /\ op \in Files!Op /\ op.name \in Name /\ op.to \in Name /\ op.doc \in Doc
         /\ card \in [Name -> Copies] /\ marks \in [Name -> Offsets]
         /\ before.card \in [Name -> Copies] /\ before.marks \in [Name -> Offsets]
         /\ \A n \in Name : card[n].file \in Stores /\ card[n].tmp \in Stores
                             /\ card[n].bak \in Stores
         /\ \A n \in Name : before.card[n].file \in Stores /\ before.card[n].bak \in Stores
         /\ \A n \in Name : Files!WasStored(n) \in Stores
         /\ Doc \subseteq Stores /\ {Files!NoFile, Files!Cut, Files!Empty} \subseteq Stores
         /\ op.kind \in {"copy", "rename"} => Files!Target(op) = op.to
         /\ op.kind \notin {"copy", "rename"} => Files!Target(op) = op.name
         /\ Files!InTmp = {"write", "append", "edit", "replace", "download"}
         /\ op.doc # Files!NoFile /\ op.doc # Files!Cut
<1>1. /\ op \in Files!Op /\ card \in [Name -> Copies] /\ marks \in [Name -> Offsets]
      /\ before.card \in [Name -> Copies] /\ before.marks \in [Name -> Offsets]
  BY DEF FilesInv, FilesTypes, FilesData, FilesBounds
<1>2. op.name \in Name /\ op.to \in Name /\ op.doc \in Doc
  BY <1>1 DEF Files!Op
<1>3. /\ \A n \in Name : card[n].file \in Stores /\ card[n].tmp \in Stores /\ card[n].bak \in Stores
      /\ \A n \in Name : before.card[n].file \in Stores /\ before.card[n].bak \in Stores
  BY <1>1 DEF Copies
<1>4. \A n \in Name : Files!WasStored(n) \in Stores
  BY <1>3 DEF Files!WasStored, Files!Stored
<1>5. Doc \subseteq Stores /\ {Files!NoFile, Files!Cut, Files!Empty} \subseteq Stores
  BY DEF Stores
<1>6. /\ op.kind \in {"copy", "rename"} => Files!Target(op) = op.to
      /\ op.kind \notin {"copy", "rename"} => Files!Target(op) = op.name
      /\ Files!InTmp = {"write", "append", "edit", "replace", "download"}
  BY DEF Files!Target, Files!InTmp, Files!Tool
<1>7. op.doc # Files!NoFile /\ op.doc # Files!Cut
  BY <1>2, LengthFacts
<1> QED BY <1>1, <1>2, <1>3, <1>4, <1>5, <1>6, <1>7

\* A step in which every name keeps what a restart would find.
LEMMA SameStored ==
  ASSUME FilesInv, UNCHANGED <<op, before>>,
         \A n \in Name : Files!Stored(card'[n]) = Files!Stored(card[n])
  PROVE  StoredIsOldOrNew' /\ (links' \subseteq links => Files!LinkedFilesAreThere')
<1>1. \A n \in Name : Files!BackupLeft(n)' = Files!BackupLeft(n)
                       /\ Files!May(op, n)' = Files!May(op, n)
  BY DEF Files!BackupLeft, Files!May, Files!WasStored, Files!Target
<1>2. StoredIsOldOrNew'
  BY <1>1 DEF FilesInv, StoredIsOldOrNew
<1>3. links \subseteq Name
  BY DEF FilesInv, FilesTypes, FilesControl
<1> QED BY <1>2, <1>3 DEF FilesInv, Files!LinkedFilesAreThere

\* A step that changes one name, to something the operation may make of it.
LEMMA OneStored ==
  ASSUME FilesInv, UNCHANGED <<op, before, links>>, NEW m \in Name,
         \A n \in Name \ {m} : card'[n] = card[n],
         \/ Files!Stored(card'[m]) \in Files!May(op, m) \cup {Files!Stored(card[m])}
         \/ Files!BackupLeft(m),
         Files!Stored(card'[m]) # Files!NoFile \/ m \notin links
  PROVE  StoredIsOldOrNew' /\ Files!LinkedFilesAreThere'
<1>1. \A n \in Name : Files!BackupLeft(n)' = Files!BackupLeft(n)
                       /\ Files!May(op, n)' = Files!May(op, n)
  BY DEF Files!BackupLeft, Files!May, Files!WasStored, Files!Target
<1>2. StoredIsOldOrNew'
  BY <1>1 DEF FilesInv, StoredIsOldOrNew
<1>3. links \subseteq Name
  BY DEF FilesInv, FilesTypes, FilesControl
<1> QED BY <1>2, <1>3 DEF FilesInv, Files!LinkedFilesAreThere

\* An operation goes on.
LEMMA FilesGoto ==
  ASSUME FilesInv, Running, NEW s, Files!Goto(s),
         s \in {"recover", "create", "stage", "fill", "backup", "publish", "clean",
                "rename", "mark", "unmark", "remove", "link"},
         card' \in [Name -> Copies], marks' \in [Name -> Offsets], had' \in BOOLEAN,
         FilesPlaces', OthersAreAsBefore', ReplacedAsCalled', MadeAsCalled', MarksAsCalled',
         StoredIsOldOrNew', PartsAreLeft', Files!LinkedFilesAreThere'
  PROVE  FilesInv'
<1>1. at' = s /\ UNCHANGED <<links, op, told, before, partial, left>>
  BY DEF Files!Goto
<1>2. FilesTypes'
  BY <1>1 DEF FilesInv, FilesTypes, FilesData, FilesControl, FilesBounds
<1>3. AskedFirst'
  BY <1>1 DEF FilesInv, AskedFirst, Running, Files!WasStored
<1>4. Files!SuccessIsComplete' /\ Files!FailureIsClean'
  BY <1>1 DEF Files!SuccessIsComplete, Files!FailureIsClean
<1> QED BY <1>2, <1>3, <1>4 DEF FilesInv

\* An operation ends, in a state that is as it is told.
LEMMA FilesEnd ==
  ASSUME FilesInv, at' = "idle", told' \in {"ok", "error"}, UNCHANGED <<op, before>>,
         card' \in [Name -> Copies], marks' \in [Name -> Offsets], had' \in BOOLEAN,
         links' \subseteq Name, partial' \subseteq Name,
         left' \in [ops : 0..MaxOps, faults : 0..Few, resets : 0..MaxResets],
         left'.faults <= left.faults,
         StoredIsOldOrNew', PartsAreLeft', Files!LinkedFilesAreThere',
         told' = "ok" => Files!SuccessIsComplete',
         told' = "error" => left'.faults < left.faults \/ Files!FailureIsClean'
  PROVE  FilesInv'
<1>1. FilesTypes
  BY DEF FilesInv
<1>2. left.faults \in Nat /\ left'.faults \in Nat /\ before.faults \in Nat
       /\ left.faults <= before.faults
  BY <1>1, ServicesAssumption DEF FilesTypes, FilesBounds, FilesData
<1>3. FilesData' /\ FilesControl'
  BY <1>1 DEF FilesTypes, FilesData, FilesControl
<1>4. FilesBounds'
  BY <1>1, <1>2 DEF FilesTypes, FilesBounds
<1>5. ~Running'
  BY DEF Running
<1>6. FilesPlaces' /\ AskedFirst' /\ OthersAreAsBefore' /\ MarksAsCalled'
  BY <1>5 DEF FilesPlaces, AskedFirst, OthersAreAsBefore, MarksAsCalled, Running
<1>7. ReplacedAsCalled' /\ MadeAsCalled'
  BY <1>5 DEF ReplacedAsCalled, MadeAsCalled, Running
<1>8. Files!SuccessIsComplete'
  BY DEF Files!SuccessIsComplete
<1>9. Files!FailureIsClean'
  <2>1. CASE left'.faults < left.faults
    BY <1>2, <2>1 DEF Files!FailureIsClean
  <2>2. CASE told' = "ok"
    BY <2>2 DEF Files!FailureIsClean
  <2> QED BY <2>1, <2>2
<1> QED BY <1>3, <1>4, <1>6, <1>7, <1>8, <1>9 DEF FilesInv, FilesTypes

\* A call is refused: what the card and the bookmarks hold is as it should be.
LEMMA FilesRefused ==
  ASSUME FilesInv, Files!Refused, UNCHANGED <<marks, had>>, card' \in [Name -> Copies],
         partial' \subseteq Name, PartsAreLeft',
         \A n \in Name : Files!Stored(card'[n]) = Files!Stored(card[n])
  PROVE  FilesInv'
<1>1. /\ left.faults > 0 /\ left' = [left EXCEPT !.faults = @ - 1]
      /\ at' = "idle" /\ told' = "error" /\ UNCHANGED <<links, op, before>>
  BY DEF Files!Refused
<1>2. FilesTypes
  BY DEF FilesInv
<1>3. /\ left.faults \in 0..Few /\ left.faults - 1 \in 0..Few
  BY <1>1, <1>2, ServicesAssumption DEF FilesTypes, FilesBounds
<1>4. /\ left' \in [ops : 0..MaxOps, faults : 0..Few, resets : 0..MaxResets]
      /\ left'.faults = left.faults - 1
  BY <1>1, <1>2, <1>3 DEF FilesTypes, FilesBounds
<1>5. left'.faults < left.faults /\ left'.faults <= left.faults
  BY <1>3, <1>4, ServicesAssumption
<1>6. StoredIsOldOrNew' /\ Files!LinkedFilesAreThere'
  BY <1>1, SameStored
<1>7. marks' \in [Name -> Offsets] /\ had' \in BOOLEAN /\ links' \subseteq Name
  BY <1>1, <1>2 DEF FilesTypes, FilesData, FilesControl
<1> QED BY <1>1, <1>4, <1>5, <1>6, <1>7, FilesEnd

\* No operation is under way, and nothing has been told.
LEMMA FilesRest ==
  ASSUME FilesInv, at' \in {"idle", "boot"}, told' = "none", FilesTypes',
         StoredIsOldOrNew', PartsAreLeft', Files!LinkedFilesAreThere'
  PROVE  FilesInv'
<1>1. ~Running'
  BY DEF Running
<1>2. FilesPlaces' /\ AskedFirst' /\ OthersAreAsBefore' /\ MarksAsCalled'
  BY <1>1 DEF FilesPlaces, AskedFirst, OthersAreAsBefore, MarksAsCalled, Running
<1>3. ReplacedAsCalled' /\ MadeAsCalled'
  BY <1>1 DEF ReplacedAsCalled, MadeAsCalled, Running
<1>4. Files!SuccessIsComplete' /\ Files!FailureIsClean'
  BY DEF Files!SuccessIsComplete, Files!FailureIsClean
<1> QED BY <1>2, <1>3, <1>4 DEF FilesInv

\* The start: recoverWorkspaceArtifacts.
LEMMA BootKeeps ==
  ASSUME FilesInv, Files!Boot
  PROVE  FilesInv' /\ \A n \in Name : Files!Stored(card'[n]) = Files!Stored(card[n])
<1>1. /\ at = "boot" /\ at' = "idle" /\ UNCHANGED <<marks, links, op, had, told, before, partial,
                                                    left>>
      /\ card' = [n \in Name |-> Files!Recovered(card[n])]
  BY DEF Files!Boot
<1>2. \A n \in Name : /\ card'[n] = [file |-> Files!Stored(card[n]), tmp |-> Files!NoFile, bak |-> Files!NoFile]
                      /\ Files!Stored(card[n]) \in Stores
  BY <1>1, OpFacts DEF Files!Recovered, Files!Stored
<1>3. card' \in [Name -> Copies]
  BY <1>1, <1>2, OpFacts DEF Copies, Files!Recovered
<1>4. ASSUME NEW n \in Name
      PROVE  card'[n].file = Files!Stored(card[n]) /\ card'[n].bak = Files!NoFile
  <2>1. PICK c : c = card'[n]
    OBVIOUS
  <2>2. c = [file |-> Files!Stored(card[n]), tmp |-> Files!NoFile, bak |-> Files!NoFile]
    BY <1>2, <2>1
  <2>3. c.file = Files!Stored(card[n]) /\ c.bak = Files!NoFile
    BY <2>2
  <2> QED BY <2>1, <2>3
<1>5. \A n \in Name : Files!Stored(card'[n]) = Files!Stored(card[n])
  BY <1>4 DEF Files!Stored
<1>6. StoredIsOldOrNew' /\ Files!LinkedFilesAreThere'
  BY <1>1, <1>5, SameStored
<1>7. PartsAreLeft'
  <2>1. PartsAreLeft
    BY DEF FilesInv
  <2>2. ASSUME NEW n \in Name
        PROVE  /\ card'[n].bak # Files!Cut
               /\ card'[n].file = Files!Cut => partial # {}
    BY <1>1, <1>4, <2>1, LengthFacts DEF PartsAreLeft, Files!Stored
  <2> QED BY <1>1, <2>2 DEF PartsAreLeft
<1>8. told' = "none"
  BY <1>1 DEF FilesInv, FilesPlaces
<1>9. FilesTypes'
  BY <1>1, <1>3 DEF FilesInv, FilesTypes, FilesData, FilesControl, FilesBounds
<1> QED BY <1>1, <1>5, <1>6, <1>7, <1>8, <1>9, FilesRest

\* A reset, at any point.
LEMMA ResetKeeps == ASSUME FilesInv, Files!Reset PROVE FilesInv'
<1>1. /\ left.resets > 0 /\ left' = [left EXCEPT !.resets = @ - 1]
      /\ at' = "boot" /\ told' = "none" /\ had' = FALSE
      /\ partial' = IF at = "fill" /\ op.kind = "upload" THEN partial \cup {op.name} ELSE partial
      /\ UNCHANGED <<card, marks, links, op, before>>
  BY DEF Files!Reset
<1>2. FilesTypes
  BY DEF FilesInv
<1>3. left.resets \in 0..MaxResets /\ left.resets - 1 \in 0..MaxResets
  BY <1>1, <1>2, ServicesAssumption DEF FilesTypes, FilesBounds
<1>4. /\ left' \in [ops : 0..MaxOps, faults : 0..Few, resets : 0..MaxResets]
      /\ left'.faults = left.faults
  BY <1>1, <1>2, <1>3 DEF FilesTypes, FilesBounds
<1>5. partial' \subseteq Name
  BY <1>1, <1>2, OpFacts DEF FilesTypes, FilesControl
<1>6. FilesTypes'
  BY <1>1, <1>2, <1>4, <1>5 DEF FilesTypes, FilesData, FilesControl, FilesBounds
<1>7. StoredIsOldOrNew' /\ Files!LinkedFilesAreThere'
  BY <1>1, SameStored
<1>8. PartsAreLeft'
  BY <1>1 DEF FilesInv, PartsAreLeft
<1> QED BY <1>1, <1>6, <1>7, <1>8, FilesRest

\* An operation begins.
LEMMA AskedKeeps == ASSUME FilesInv, NEW o \in Files!Op, Files!Start(o) PROVE FilesInv'
<1>1. /\ at = "idle" /\ left.ops > 0
      /\ o.kind \in {"copy", "rename"} <=> o.to # o.name
      /\ Files!MayStart(o)
      /\ op' = o /\ at' = Files!FirstStep(o.kind) /\ told' = "none" /\ had' = FALSE
      /\ before' = [card |-> card, marks |-> marks, faults |-> left.faults]
      /\ left' = [left EXCEPT !.ops = @ - 1]
      /\ UNCHANGED <<card, marks, links, partial>>
  BY DEF Files!Start
<1>2. before'.card = card /\ before'.marks = marks /\ before'.faults = left.faults
  BY <1>1
<1>3. o.kind \in Files!Kind /\ o.kind # "undo" /\ o.name \in Name /\ o.to \in Name
  BY <1>1 DEF Files!Op, Files!MayStart
<1>4. /\ o.kind \in Files!InTmp => at' = "recover"
      /\ o.kind \in {"create", "upload"} => at' = "create"
      /\ o.kind = "copy" => at' = "stage"
      /\ o.kind = "delete" => at' = "unmark"
      /\ o.kind \in {"rename", "mark"} => at' = o.kind
  BY <1>1 DEF Files!FirstStep, Files!InTmp, Files!Tool
<1>5. Files!Kind = {"write", "append", "edit", "replace", "download", "create", "upload", "copy",
                    "rename", "delete", "mark", "undo"}
      /\ Files!InTmp = {"write", "append", "edit", "replace", "download"}
      /\ Files!Tool = {"write", "append"}
  BY DEF Files!Kind, Files!InTmp, Files!Tool
<1>6. /\ o.kind = "write" /\ card[o.name].file # Files!NoFile => o.name \in links
      /\ o.kind = "append" => o.name \in links
      /\ o.kind \in {"create", "upload"} => card[o.name].file = Files!NoFile
      /\ o.kind \in {"copy", "rename"} =>
             card[o.name].file # Files!NoFile /\ card[o.to].file = Files!NoFile
      /\ o.kind \in {"rename", "delete"} => o.name \notin links
  BY <1>1 DEF Files!MayStart, Files!Exists
<1>7. FilesTypes
  BY DEF FilesInv
<1>8. FilesTypes'
  <2>1. left.ops \in 0..MaxOps /\ left.ops - 1 \in 0..MaxOps /\ left.faults \in 0..Few
    BY <1>1, <1>7, ServicesAssumption DEF FilesTypes, FilesBounds
  <2>2. /\ left' \in [ops : 0..MaxOps, faults : 0..Few, resets : 0..MaxResets]
        /\ left'.faults = left.faults
    BY <1>1, <1>7, <2>1 DEF FilesTypes, FilesBounds
  <2>3. left'.faults <= before'.faults
    BY <1>2, <2>1, <2>2, ServicesAssumption
  <2>4. FilesData'
    BY <1>1, <1>7, <2>1 DEF FilesTypes, FilesData
  <2>5. FilesControl'
    BY <1>1, <1>3, <1>4, <1>5, <1>7 DEF FilesTypes, FilesControl
  <2> QED BY <1>1, <2>2, <2>3, <2>4, <2>5 DEF FilesTypes, FilesBounds
<1>9. FilesPlaces'
  BY <1>1, <1>3, <1>4, <1>5 DEF FilesPlaces
<1>10. AskedFirst'
  <2>1. \A n \in links : Files!Stored(card[n]) # Files!NoFile
    BY DEF FilesInv, Files!LinkedFilesAreThere
  <2>2. \A n \in links' : Files!WasStored(n)' # Files!NoFile
    BY <1>1, <1>2, <2>1 DEF Files!WasStored
  <2> QED BY <1>1, <1>2, <1>3, <1>5, <1>6, <2>2 DEF AskedFirst
<1>11. OthersAreAsBefore'
  BY <1>1, <1>2 DEF OthersAreAsBefore
<1>12. ReplacedAsCalled'
  BY <1>1, <1>3, <1>4 DEF ReplacedAsCalled
<1>13. MadeAsCalled'
  BY <1>1, <1>2, <1>4, <1>5, <1>6 DEF MadeAsCalled
<1>14. MarksAsCalled'
  BY <1>1, <1>2, <1>3, <1>4, <1>5 DEF MarksAsCalled
<1>15. StoredIsOldOrNew'
  <2>1. \A n \in Name : Files!Stored(card'[n]) = Files!WasStored(n)'
    BY <1>1, <1>2 DEF Files!WasStored
  <2>2. \A n \in Name : Files!WasStored(n)' \in Files!May(op, n)'
    BY DEF Files!May
  <2> QED BY <2>1, <2>2 DEF StoredIsOldOrNew
<1>16. PartsAreLeft'
  BY <1>1 DEF FilesInv, PartsAreLeft
<1>17. Files!LinkedFilesAreThere'
  BY <1>1 DEF FilesInv, Files!LinkedFilesAreThere
<1>18. Files!SuccessIsComplete' /\ Files!FailureIsClean'
  BY <1>1 DEF Files!SuccessIsComplete, Files!FailureIsClean
<1> QED BY <1>8, <1>9, <1>10, <1>11, <1>12, <1>13, <1>14, <1>15, <1>16, <1>17, <1>18 DEF FilesInv

\* A file is linked to the project, or no longer.
LEMMA LinksKeep ==
  ASSUME FilesInv, NEW m \in Name, Files!Link(m) \/ Files!Unlink(m) PROVE FilesInv'
<1>1. /\ at = "idle" /\ told' = "none"
      /\ UNCHANGED <<card, marks, op, at, had, before, partial, left>>
      /\ \/ links' = links \cup {m} /\ card[m].file # Files!NoFile
         \/ links' = links \ {m}
  BY DEF Files!Link, Files!Unlink, Files!Exists
<1>2. FilesTypes'
  BY <1>1 DEF FilesInv, FilesTypes, FilesData, FilesControl, FilesBounds
<1>3. StoredIsOldOrNew'
  BY <1>1, SameStored
<1>4. Files!LinkedFilesAreThere'
  BY <1>1 DEF FilesInv, Files!LinkedFilesAreThere, Files!Stored
<1>5. PartsAreLeft'
  BY <1>1 DEF FilesInv, PartsAreLeft
<1> QED BY <1>1, <1>2, <1>3, <1>4, <1>5, FilesRest

\* A file is made: empty, or to be filled by an upload.
LEMMA CreateKeeps == ASSUME FilesInv, Files!Create PROVE FilesInv'
<1>1. /\ at = "create" /\ UNCHANGED <<marks, had, links, op, before, partial, left>>
      /\ Files!Put(op.name, "file", IF op.kind = "upload" THEN Files!Cut ELSE Files!Empty)
      /\ IF op.kind = "upload" THEN Files!Goto("fill") ELSE Files!End("ok")
  BY DEF Files!Create, Files!Goto, Files!End
<1>2. op.kind \in {"create", "upload"} /\ op.to = op.name
  BY <1>1 DEF FilesInv, FilesPlaces, AskedFirst, Running
<1>3. card = before.card /\ marks = before.marks
  BY <1>1 DEF FilesInv, OthersAreAsBefore, MarksAsCalled, Running
<1>4. PICK c \in Stores : c = IF op.kind = "upload" THEN Files!Cut ELSE Files!Empty
  BY DEF Stores
<1>5. /\ card' \in [Name -> Copies] /\ \A m \in Name \ {op.name} : card'[m] = card[m]
      /\ card'[op.name].file = c /\ card'[op.name].bak = card[op.name].bak
  BY <1>1, <1>4, OpFacts, PutFacts
<1>6. Files!Stored(card'[op.name]) = c /\ c # Files!NoFile
  BY <1>4, <1>5, LengthFacts DEF Files!Stored
<1>7. c \in Files!May(op, op.name)
  BY <1>2, <1>4, OpFacts, MayFacts
<1>8. StoredIsOldOrNew' /\ Files!LinkedFilesAreThere'
  BY <1>1, <1>5, <1>6, <1>7, OpFacts, OneStored
<1>9. marks' \in [Name -> Offsets] /\ had' \in BOOLEAN
  BY <1>1 DEF FilesInv, FilesTypes, FilesData, FilesControl
<1>10. CASE op.kind = "upload"
  <2>1. Files!Goto("fill") /\ at' = "fill"
    BY <1>1, <1>10 DEF Files!Goto
  <2>2. FilesPlaces' /\ OthersAreAsBefore' /\ ReplacedAsCalled' /\ MarksAsCalled'
    BY <1>1, <1>2, <1>3, <1>5, <1>10, <2>1, OpFacts
       DEF FilesPlaces, OthersAreAsBefore, ReplacedAsCalled, MarksAsCalled, Running
  <2>3. MadeAsCalled'
    BY <1>1, <1>3, <1>4, <1>5, <1>10, <2>1 DEF MadeAsCalled
  <2>4. PartsAreLeft'
    BY <1>1, <1>5, <1>10, <2>1 DEF FilesInv, PartsAreLeft
  <2> QED BY <1>1, <1>5, <1>8, <1>9, <2>1, <2>2, <2>3, <2>4, FilesGoto DEF Running
<1>11. CASE op.kind = "create"
  <2>1. at' = "idle" /\ told' = "ok"
    BY <1>1, <1>11 DEF Files!End
  <2>2. PartsAreLeft'
    BY <1>1, <1>4, <1>5, <1>11, LengthFacts DEF FilesInv, PartsAreLeft
  <2>3. Files!SuccessIsComplete'
    BY <1>1, <1>11, OpFacts DEF Files!SuccessIsComplete
  <2> QED BY <1>1, <1>5, <1>8, <1>9, <2>1, <2>2, <2>3, FilesEnd
          DEF FilesInv, FilesTypes, FilesControl, FilesBounds
<1> QED BY <1>2, <1>10, <1>11

\* prepareWorkspaceTarget recovers the name, and the questions after it.
LEMMA PrepareKeeps == ASSUME FilesInv, Files!Prepare PROVE FilesInv'
<1>1. /\ at = "recover" /\ UNCHANGED <<marks, had, links, op, before, partial, left>>
      /\ card' = [card EXCEPT ![op.name] = Files!Recovered(@)]
      /\ Files!End("error") \/ Files!Goto("stage")
  BY DEF Files!Prepare, Files!Goto, Files!End
<1>2. op.kind \in Files!InTmp /\ op.to = op.name
  BY <1>1, OpFacts DEF FilesInv, FilesPlaces, AskedFirst, Running
<1>3. card = before.card /\ marks = before.marks
  BY <1>1 DEF FilesInv, OthersAreAsBefore, MarksAsCalled, Running
<1>4. PICK r : r = [file |-> Files!Stored(card[op.name]), tmp |-> Files!NoFile, bak |-> Files!NoFile]
  OBVIOUS
<1>5. r.file = Files!Stored(card[op.name]) /\ r.bak = Files!NoFile /\ r.tmp = Files!NoFile
  BY <1>4
<1>6. r \in Copies /\ card' = [card EXCEPT ![op.name] = r]
  <2>1. Files!Stored(card[op.name]) \in Stores /\ Files!NoFile \in Stores
    BY OpFacts DEF Files!Stored
  <2> QED BY <1>1, <1>4, <2>1 DEF Copies, Files!Recovered
<1>7. /\ card' \in [Name -> Copies] /\ card'[op.name] = r
      /\ \A m \in Name \ {op.name} : card'[m] = card[m]
  BY <1>6, OpFacts
<1>8. \A n \in Name : Files!Stored(card'[n]) = Files!Stored(card[n])
  BY <1>5, <1>7, OpFacts DEF Files!Stored
<1>9. StoredIsOldOrNew' /\ Files!LinkedFilesAreThere'
  BY <1>1, <1>8, SameStored
<1>10. marks' \in [Name -> Offsets] /\ had' \in BOOLEAN
  BY <1>1 DEF FilesInv, FilesTypes, FilesData, FilesControl
<1>11. PartsAreLeft'
  <2>1. PartsAreLeft
    BY DEF FilesInv
  <2>2. ASSUME NEW n \in Name
        PROVE  /\ card'[n].bak = Files!Cut => partial # {}
               /\ card'[n].file = Files!Cut => partial # {}
    <3>1. CASE n = op.name
      BY <1>1, <1>5, <1>7, <2>1, <3>1, OpFacts, LengthFacts DEF PartsAreLeft, Files!Stored
    <3>2. CASE n # op.name
      BY <1>1, <1>7, <2>1, <3>2 DEF PartsAreLeft
    <3> QED BY <3>1, <3>2
  <2> QED BY <1>1, <2>2 DEF PartsAreLeft
<1>12. CASE Files!End("error")
  <2>1. at' = "idle" /\ told' = "error"
    BY <1>12 DEF Files!End
  <2>2. Files!FailureIsClean'
    BY <1>1, <1>3, <1>8 DEF Files!FailureIsClean, Files!WasStored
  <2> QED BY <1>1, <1>7, <1>9, <1>10, <1>11, <2>1, <2>2, FilesEnd
          DEF FilesInv, FilesTypes, FilesControl, FilesBounds
<1>13. CASE Files!Goto("stage")
  <2>1. at' = "stage"
    BY <1>13 DEF Files!Goto
  <2>2. FilesPlaces' /\ OthersAreAsBefore' /\ MarksAsCalled' /\ MadeAsCalled'
    BY <1>1, <1>2, <1>3, <1>7, <2>1, OpFacts
       DEF FilesPlaces, OthersAreAsBefore, MarksAsCalled, MadeAsCalled, Running
  <2>3. ReplacedAsCalled'
    BY <1>1, <1>3, <1>4, <1>7, <2>1 DEF ReplacedAsCalled, Files!WasStored
  <2> QED BY <1>1, <1>7, <1>9, <1>10, <1>11, <1>13, <2>2, <2>3, FilesGoto DEF Running
<1> QED BY <1>1, <1>12, <1>13

\* The staged file is opened.
LEMMA StageKeeps == ASSUME FilesInv, Files!Stage PROVE FilesInv'
<1>1. /\ at = "stage" /\ at' = "fill" /\ Files!Goto("fill")
      /\ Files!Put(Files!Target(op), "tmp", Files!Cut)
      /\ UNCHANGED <<marks, had, links, op, before, partial, left>>
  BY DEF Files!Stage, Files!Goto
<1>2. /\ op.kind \in Files!InTmp \cup {"copy"}
      /\ op.kind = "copy" <=> op.to # op.name
      /\ op.kind = "copy" => card = before.card
      /\ marks = before.marks
      /\ \A n \in Name \ {op.name, op.to} : card[n] = before.card[n]
  BY <1>1, OpFacts DEF FilesInv, FilesPlaces, AskedFirst, OthersAreAsBefore, MarksAsCalled, Running
<1>3. PICK t \in Name : t = Files!Target(op) /\ t \in {op.name, op.to}
  BY OpFacts
<1>4. /\ card' \in [Name -> Copies] /\ \A m \in Name \ {t} : card'[m] = card[m]
      /\ card'[t].file = card[t].file /\ card'[t].tmp = Files!Cut /\ card'[t].bak = card[t].bak
  BY <1>1, <1>3, OpFacts, PutFacts
<1>5. \A n \in Name : card'[n].file = card[n].file /\ card'[n].bak = card[n].bak
  BY <1>3, <1>4
<1>6. \A n \in Name : Files!Stored(card'[n]) = Files!Stored(card[n])
  BY <1>5 DEF Files!Stored
<1>7. StoredIsOldOrNew' /\ Files!LinkedFilesAreThere'
  BY <1>1, <1>6, SameStored
<1>8. marks' \in [Name -> Offsets] /\ had' \in BOOLEAN
  BY <1>1 DEF FilesInv, FilesTypes, FilesData, FilesControl
<1>9. FilesPlaces' /\ MarksAsCalled'
  BY <1>1, <1>2, OpFacts DEF FilesPlaces, MarksAsCalled, Running
<1>10. OthersAreAsBefore'
  BY <1>1, <1>2, <1>3, <1>4, OpFacts DEF OthersAreAsBefore, Running
<1>11. ReplacedAsCalled'
  <2>1. ASSUME op.kind \in Files!InTmp
        PROVE  card'[op.name] = [file |-> Files!WasStored(op.name), tmp |-> Files!Cut, bak |-> Files!NoFile]
    <3>1. card[op.name] = [file |-> Files!WasStored(op.name), tmp |-> Files!NoFile, bak |-> Files!NoFile]
      BY <1>1, <2>1 DEF FilesInv, ReplacedAsCalled
    <3>2. PICK w : w = Files!WasStored(op.name)
      OBVIOUS
    <3>3. PICK c \in Copies : c = card[op.name]
      BY OpFacts
    <3>4. c.file = w /\ c.bak = Files!NoFile
      BY <3>1, <3>2, <3>3
    <3>5. PICK d \in Copies : d = card'[op.name]
      BY <1>4, OpFacts
    <3>6. t = op.name
      BY <1>3, <2>1, OpFacts
    <3>7. d.file = w /\ d.tmp = Files!Cut /\ d.bak = Files!NoFile
      BY <1>4, <3>3, <3>4, <3>5, <3>6
    <3>8. d = [file |-> w, tmp |-> Files!Cut, bak |-> Files!NoFile]
      BY <3>7 DEF Copies
    <3> QED BY <3>2, <3>5, <3>8
  <2>2. op.kind # "undo"
    BY <1>2, OpFacts
  <2> QED BY <1>1, <2>1, <2>2 DEF ReplacedAsCalled, Files!WasStored
<1>12. MadeAsCalled'
  BY <1>1, <1>2, <1>5, OpFacts DEF FilesInv, MadeAsCalled, Running
<1>13. PartsAreLeft'
  BY <1>1, <1>5 DEF FilesInv, PartsAreLeft
<1> QED BY <1>1, <1>4, <1>7, <1>8, <1>9, <1>10, <1>11, <1>12, <1>13, FilesGoto DEF Running

\* The three files of a name, one after the other.
LEMMA ReplacedFields ==
  ASSUME FilesInv, op.kind \in Files!InTmp \cup {"undo"}
  PROVE  LET f == card[op.name] was == Files!WasStored(op.name) IN
         /\ at = "fill" => f.file = was /\ f.tmp = Files!Cut /\ f.bak = Files!NoFile
         /\ at = "backup" => f.file = was /\ f.tmp = op.doc /\ f.bak = Files!NoFile
         /\ at = "publish" => /\ f.file = Files!NoFile /\ f.tmp = op.doc /\ f.bak = was
                              /\ had <=> was # Files!NoFile
         /\ at = "clean" => f.file = op.doc /\ f.tmp = Files!NoFile
         /\ at \in {"link", "unmark", "remove"} =>
              f.file = op.doc /\ f.tmp = Files!NoFile /\ f.bak = Files!NoFile
<1>1. PICK c \in Copies : c = card[op.name]
  BY OpFacts
<1>2. PICK w : w = Files!WasStored(op.name)
  OBVIOUS
<1>3. /\ at = "fill" => c = [file |-> w, tmp |-> Files!Cut, bak |-> Files!NoFile]
      /\ at = "backup" => c = [file |-> w, tmp |-> op.doc, bak |-> Files!NoFile]
      /\ at = "publish" => c = [file |-> Files!NoFile, tmp |-> op.doc, bak |-> w]
                           /\ (had <=> w # Files!NoFile)
      /\ at = "clean" => c.file = op.doc /\ c.tmp = Files!NoFile
      /\ at \in {"link", "unmark", "remove"} =>
           c = [file |-> op.doc, tmp |-> Files!NoFile, bak |-> Files!NoFile]
  BY <1>1, <1>2 DEF FilesInv, ReplacedAsCalled
<1>4. /\ at = "fill" => c.file = w /\ c.tmp = Files!Cut /\ c.bak = Files!NoFile
      /\ at = "backup" => c.file = w /\ c.tmp = op.doc /\ c.bak = Files!NoFile
      /\ at = "publish" => c.file = Files!NoFile /\ c.tmp = op.doc /\ c.bak = w
      /\ at \in {"link", "unmark", "remove"} =>
           c.file = op.doc /\ c.tmp = Files!NoFile /\ c.bak = Files!NoFile
  BY <1>3
<1> QED BY <1>1, <1>2, <1>3, <1>4

\* A record of the three is known by what it holds.
LEMMA CopyIs ==
  ASSUME NEW c \in Copies, NEW x, NEW y, NEW z, c.file = x, c.tmp = y, c.bak = z
  PROVE  c = [file |-> x, tmp |-> y, bak |-> z]
  BY DEF Copies

\* What was to be stored has been written, all of it.
LEMMA FillKeeps == ASSUME FilesInv, QuietFlush = FALSE, Files!Fill PROVE FilesInv'
<1>1. /\ at = "fill" /\ UNCHANGED <<marks, had, links, op, before, partial, left>>
      /\ Files!Put(Files!Target(op), IF op.kind = "upload" THEN "file" ELSE "tmp", Files!NewContent)
      /\ IF op.kind = "upload" THEN Files!End("ok") ELSE Files!Goto("backup")
  BY QuietFlush = FALSE DEF Files!Fill, Files!Goto, Files!End
<1>2. /\ op.kind \in Files!InTmp \cup {"copy", "upload"}
      /\ op.kind = "copy" <=> op.to # op.name
      /\ op.kind = "copy" => card[op.name] = before.card[op.name]
      /\ marks = before.marks
      /\ \A n \in Name \ {op.name, op.to} : card[n] = before.card[n]
  BY <1>1, OpFacts DEF FilesInv, FilesPlaces, AskedFirst, OthersAreAsBefore, MarksAsCalled, Running
<1>3. PICK t \in Name : t = Files!Target(op) /\ t \in {op.name, op.to}
  BY OpFacts
<1>4. PICK c \in Stores : c = Files!NewContent
  BY OpFacts DEF Files!NewContent
<1>5. marks' \in [Name -> Offsets] /\ had' \in BOOLEAN
  BY <1>1 DEF FilesInv, FilesTypes, FilesData, FilesControl
<1>6. CASE op.kind = "upload"
  <2>1. t = op.name /\ c = op.doc /\ at' = "idle" /\ told' = "ok"
    BY <1>1, <1>3, <1>4, <1>6, OpFacts DEF Files!NewContent, Files!End
  <2>2. /\ card' \in [Name -> Copies] /\ \A m \in Name \ {t} : card'[m] = card[m]
        /\ card'[t].file = c /\ card'[t].bak = card[t].bak
    BY <1>1, <1>3, <1>4, <1>6, OpFacts, PutFacts
  <2>3. Files!Stored(card'[t]) = op.doc /\ op.doc # Files!NoFile
    BY <2>1, <2>2, OpFacts DEF Files!Stored
  <2>4. op.doc \in Files!May(op, t)
    BY <1>6, <2>1, OpFacts, MayFacts
  <2>5. StoredIsOldOrNew' /\ Files!LinkedFilesAreThere'
    BY <1>1, <2>2, <2>3, <2>4, OneStored
  <2>6. PartsAreLeft'
    BY <1>1, <2>1, <2>2, OpFacts DEF FilesInv, PartsAreLeft
  <2>7. Files!SuccessIsComplete'
    BY <1>1, <1>3, <1>6, <2>3, OpFacts DEF Files!SuccessIsComplete, Files!Target
  <2> QED BY <1>1, <1>5, <2>1, <2>2, <2>5, <2>6, <2>7, FilesEnd
          DEF FilesInv, FilesTypes, FilesControl, FilesBounds
<1>7. CASE op.kind # "upload"
  <2>1. Files!Goto("backup") /\ at' = "backup"
    BY <1>1, <1>7 DEF Files!Goto
  <2>2. /\ card' \in [Name -> Copies] /\ \A m \in Name \ {t} : card'[m] = card[m]
        /\ card'[t].file = card[t].file /\ card'[t].tmp = c /\ card'[t].bak = card[t].bak
    BY <1>1, <1>3, <1>4, <1>7, OpFacts, PutFacts
  <2>3. \A n \in Name : card'[n].file = card[n].file /\ card'[n].bak = card[n].bak
    BY <2>2
  <2>4. \A n \in Name : Files!Stored(card'[n]) = Files!Stored(card[n])
    BY <2>3 DEF Files!Stored
  <2>5. StoredIsOldOrNew' /\ Files!LinkedFilesAreThere'
    BY <1>1, <2>4, SameStored
  <2>6. FilesPlaces' /\ MarksAsCalled'
    BY <1>1, <1>2, <1>7, <2>1, OpFacts DEF FilesPlaces, MarksAsCalled, Running
  <2>7. OthersAreAsBefore'
    BY <1>1, <1>2, <1>3, <2>1, <2>2, OpFacts DEF OthersAreAsBefore, Running
  <2>8. ReplacedAsCalled'
    <3>1. ASSUME op.kind \in Files!InTmp
          PROVE  card'[op.name] = [file |-> Files!WasStored(op.name), tmp |-> op.doc, bak |-> Files!NoFile]
      <4>1. t = op.name /\ c = op.doc
        BY <1>3, <1>4, <3>1, OpFacts DEF Files!NewContent
      <4>2. /\ card'[op.name].file = Files!WasStored(op.name) /\ card'[op.name].tmp = op.doc
            /\ card'[op.name].bak = Files!NoFile
        BY <1>1, <2>2, <3>1, <4>1, ReplacedFields
      <4> QED BY <2>2, <4>2, OpFacts, CopyIs
    <3>2. op.kind # "undo"
      BY <1>2, OpFacts
    <3> QED BY <1>1, <2>1, <3>1, <3>2 DEF ReplacedAsCalled, Files!WasStored
  <2>9. MadeAsCalled'
    <3>1. MadeAsCalled
      BY DEF FilesInv
    <3>2. ASSUME op.kind = "copy" PROVE t = op.to /\ c = before.card[op.name].file
      BY <1>2, <1>3, <1>4, <3>2, OpFacts DEF Files!NewContent
    <3>3. op.kind # "rename"
      BY <1>2, OpFacts
    <3> QED BY <1>1, <1>2, <1>7, <2>1, <2>2, <2>3, <3>1, <3>2, <3>3, OpFacts
               DEF MadeAsCalled, Running
  <2>10. PartsAreLeft'
    BY <1>1, <1>7, <2>1, <2>3 DEF FilesInv, PartsAreLeft
  <2> QED BY <1>1, <1>5, <2>1, <2>2, <2>5, <2>6, <2>7, <2>8, <2>9, <2>10, FilesGoto DEF Running
<1> QED BY <1>6, <1>7

\* What has been written of it is removed: the operation is given up.
LEMMA FillStoppedKeeps == ASSUME FilesInv, Files!FillStopped PROVE FilesInv'
<1>1. /\ at = "fill" /\ at' = "idle" /\ told' = "error"
      /\ UNCHANGED <<marks, had, links, op, before, partial, left>>
      /\ \/ Files!Put(Files!Target(op), IF op.kind = "upload" THEN "file" ELSE "tmp", Files!NoFile)
         \/ op.kind = "download" /\ UNCHANGED card
  BY DEF Files!FillStopped, Files!End
<1>2. /\ op.kind \in Files!InTmp \cup {"copy", "upload"}
      /\ op.kind = "copy" <=> op.to # op.name
      /\ \A n \in Name \ {op.name, op.to} : card[n] = before.card[n]
      /\ op.kind = "upload" => before.card[op.name].file = Files!NoFile
      /\ \A n \in links : Files!WasStored(n) # Files!NoFile
  BY <1>1, OpFacts DEF FilesInv, FilesPlaces, AskedFirst, OthersAreAsBefore, Running
<1>3. PICK t \in Name : t = Files!Target(op) /\ t \in {op.name, op.to}
  BY OpFacts
<1>4. Files!NoFile \in Stores /\ marks' \in [Name -> Offsets] /\ had' \in BOOLEAN
  BY <1>1 DEF FilesInv, FilesTypes, FilesData, FilesControl, Stores
<1>5. CASE op.kind = "upload"
  <2>1. /\ card' \in [Name -> Copies] /\ \A m \in Name \ {t} : card'[m] = card[m]
        /\ card'[t].file = Files!NoFile /\ card'[t].bak = card[t].bak
    BY <1>1, <1>3, <1>4, <1>5, OpFacts, PutFacts
  <2>2. t = op.name /\ op.to = op.name
    BY <1>2, <1>3, <1>5, OpFacts
  <2>3. card[t].bak = before.card[t].bak
    BY <1>1, <1>5, <2>2 DEF FilesInv, MadeAsCalled
  <2>4. Files!Stored(card'[t]) = Files!WasStored(t)
    BY <1>2, <1>5, <2>1, <2>2, <2>3 DEF Files!Stored, Files!WasStored
  <2>5. Files!WasStored(t) \in Files!May(op, t)
    BY OpFacts, MayFacts
  <2>6. StoredIsOldOrNew' /\ Files!LinkedFilesAreThere'
    BY <1>1, <1>2, <2>1, <2>4, <2>5, OneStored
  <2>7. PartsAreLeft'
    BY <1>1, <2>1, <2>2, LengthFacts DEF FilesInv, PartsAreLeft
  <2>8. \A n \in Name : Files!Stored(card'[n]) = Files!WasStored(n)
    BY <1>2, <2>1, <2>2, <2>4 DEF Files!WasStored
  <2>9. Files!FailureIsClean'
    BY <1>1, <2>8 DEF Files!FailureIsClean, Files!WasStored
  <2> QED BY <1>1, <1>4, <2>1, <2>6, <2>7, <2>9, FilesEnd
          DEF FilesInv, FilesTypes, FilesControl, FilesBounds
<1>6. CASE op.kind # "upload"
  <2>1. /\ card' \in [Name -> Copies]
        /\ \A n \in Name : card'[n].file = card[n].file /\ card'[n].bak = card[n].bak
    <3>1. CASE Files!Put(t, "tmp", Files!NoFile)
      BY <1>3, <1>4, <3>1, OpFacts, PutFacts
    <3>2. CASE UNCHANGED card
      BY <3>2, OpFacts
    <3> QED BY <1>1, <1>3, <1>6, <3>1, <3>2
  <2>2. \A n \in Name : Files!Stored(card'[n]) = Files!Stored(card[n])
    BY <2>1 DEF Files!Stored
  <2>3. StoredIsOldOrNew' /\ Files!LinkedFilesAreThere'
    BY <1>1, <2>2, SameStored
  <2>4. PartsAreLeft'
    BY <1>1, <1>6, <2>1 DEF FilesInv, PartsAreLeft
  <2>5. ASSUME op.kind # "copy" PROVE \A n \in Name : Files!Stored(card[n]) = Files!WasStored(n)
    <3>1. op.kind \in Files!InTmp /\ op.to = op.name
      BY <1>2, <1>6, <2>5, OpFacts
    <3>2. Files!Stored(card[op.name]) = Files!WasStored(op.name)
      BY <1>1, <3>1, ReplacedFields DEF Files!Stored
    <3> QED BY <1>2, <3>1, <3>2 DEF Files!WasStored
  <2>6. Files!FailureIsClean'
    BY <1>1, <2>2, <2>5 DEF Files!FailureIsClean, Files!WasStored
  <2> QED BY <1>1, <1>4, <2>1, <2>3, <2>4, <2>6, FilesEnd
          DEF FilesInv, FilesTypes, FilesControl, FilesBounds
<1> QED BY <1>5, <1>6

\* The removal is refused.
LEMMA FillLeftBehindKeeps == ASSUME FilesInv, Files!FillLeftBehind PROVE FilesInv'
<1>1. /\ at = "fill" /\ Files!Refused /\ UNCHANGED <<card, marks, had>>
      /\ partial' = IF op.kind = "upload" THEN partial \cup {op.name} ELSE partial
      /\ op' = op
  BY DEF Files!FillLeftBehind, Files!Refused
<1>2. partial' \subseteq Name
  BY <1>1, OpFacts DEF FilesInv, FilesTypes, FilesControl
<1>3. PartsAreLeft'
  BY <1>1 DEF FilesInv, PartsAreLeft
<1> QED BY <1>1, <1>2, <1>3, OpFacts, FilesRefused

\* The file that is to be replaced is set aside.
LEMMA BackupKeeps == ASSUME FilesInv, Files!Backup PROVE FilesInv'
<1>1. /\ at = "backup" /\ at' = "publish" /\ Files!Goto("publish")
      /\ had' = (card[Files!Target(op)].file # Files!NoFile)
      /\ IF card[Files!Target(op)].file # Files!NoFile
         THEN Files!Moved(Files!Target(op), "file", "bak") ELSE UNCHANGED card
      /\ UNCHANGED <<marks, links, op, before, partial, left>>
  BY DEF Files!Backup, Files!Goto, Files!Exists
<1>2. /\ op.kind \in Files!InTmp \cup {"copy"}
      /\ op.kind = "copy" <=> op.to # op.name
      /\ op.kind = "copy" => card[op.name] = before.card[op.name]
      /\ marks = before.marks
      /\ \A n \in Name \ {op.name, op.to} : card[n] = before.card[n]
  BY <1>1, OpFacts DEF FilesInv, FilesPlaces, AskedFirst, OthersAreAsBefore, MarksAsCalled, Running
<1>3. marks' \in [Name -> Offsets] /\ had' \in BOOLEAN
  BY <1>1 DEF FilesInv, FilesTypes, FilesData, FilesControl
<1>4. FilesPlaces' /\ MarksAsCalled'
  BY <1>1, <1>2, OpFacts DEF FilesPlaces, MarksAsCalled, Running
<1>5. CASE op.kind = "copy"
  <2>1. Files!Target(op) = op.to /\ card[op.to].file = Files!NoFile
    BY <1>1, <1>5, OpFacts DEF FilesInv, MadeAsCalled, Running
  <2>2. card' = card /\ had' = FALSE
    BY <1>1, <2>1
  <2>3. StoredIsOldOrNew' /\ Files!LinkedFilesAreThere'
    BY <1>1, <2>2, SameStored
  <2>4. OthersAreAsBefore' /\ MadeAsCalled'
    BY <1>1, <1>2, <1>5, <2>2, OpFacts DEF FilesInv, OthersAreAsBefore, MadeAsCalled, Running
  <2>5. ReplacedAsCalled'
    BY <1>1, <1>5, OpFacts DEF ReplacedAsCalled
  <2>6. PartsAreLeft'
    BY <1>1, <2>2 DEF FilesInv, PartsAreLeft
  <2> QED BY <1>1, <1>3, <1>4, <2>2, <2>3, <2>4, <2>5, <2>6, OpFacts, FilesGoto DEF Running
<1>6. CASE op.kind \in Files!InTmp
  <2>1. Files!Target(op) = op.name /\ op.to = op.name
    BY <1>2, <1>6, OpFacts
  <2>2. PICK w : w = Files!WasStored(op.name)
    OBVIOUS
  <2>3. card[op.name].file = w /\ card[op.name].tmp = op.doc /\ card[op.name].bak = Files!NoFile
    BY <1>1, <1>6, <2>2, ReplacedFields
  <2>4. /\ card' \in [Name -> Copies] /\ \A m \in Name \ {op.name} : card'[m] = card[m]
        /\ card'[op.name].file = Files!NoFile /\ card'[op.name].tmp = op.doc
        /\ card'[op.name].bak = w
    <3>1. CASE w # Files!NoFile
      BY <1>1, <2>1, <2>3, <3>1, OpFacts, MovedFacts
    <3>2. CASE w = Files!NoFile
      BY <1>1, <2>1, <2>3, <3>2, OpFacts
    <3> QED BY <3>1, <3>2
  <2>5. \A n \in Name : Files!Stored(card'[n]) = Files!Stored(card[n])
    BY <2>3, <2>4 DEF Files!Stored
  <2>6. StoredIsOldOrNew' /\ Files!LinkedFilesAreThere'
    BY <1>1, <2>5, SameStored
  <2>7. OthersAreAsBefore' /\ MadeAsCalled'
    BY <1>1, <1>2, <1>6, <2>1, <2>4, OpFacts DEF OthersAreAsBefore, MadeAsCalled, Running
  <2>8. card'[op.name] = [file |-> Files!NoFile, tmp |-> op.doc, bak |-> w]
    BY <2>4, OpFacts, CopyIs
  <2>9. ReplacedAsCalled'
    BY <1>1, <1>6, <2>1, <2>2, <2>3, <2>8 DEF ReplacedAsCalled, Files!WasStored
  <2>10. PartsAreLeft'
    <3>1. card'[op.name].bak = Files!Cut => partial # {}
      BY <1>1, <1>6, <2>3, <2>4, OpFacts DEF FilesInv, PartsAreLeft
    <3>2. card'[op.name].file # Files!Cut
      BY <2>4, LengthFacts
    <3> QED BY <1>1, <2>4, <3>1, <3>2 DEF FilesInv, PartsAreLeft
  <2> QED BY <1>1, <1>3, <1>4, <2>4, <2>6, <2>7, <2>9, <2>10, FilesGoto DEF Running
<1> QED BY <1>2, <1>5, <1>6

\* ... which the card refuses.
LEMMA BackupRefusedKeeps == ASSUME FilesInv, Files!BackupRefused PROVE FilesInv'
<1>1. /\ at = "backup" /\ Files!Refused /\ UNCHANGED <<marks, had, partial>> /\ op' = op
      /\ \/ card' = [card EXCEPT ![op.name].tmp = Files!NoFile]
         \/ card' = card
  BY DEF Files!BackupRefused, Files!Refused, Files!TmpDropped
<1>2. /\ card' \in [Name -> Copies]
      /\ \A n \in Name : card'[n].file = card[n].file /\ card'[n].bak = card[n].bak
  <2>1. CASE card' = card
    BY <2>1, OpFacts
  <2>2. CASE card' = [card EXCEPT ![op.name].tmp = Files!NoFile]
    <3>1. Files!Put(op.name, "tmp", Files!NoFile)
      BY <2>2 DEF Files!Put
    <3>2. Files!NoFile \in Stores
      BY DEF Stores
    <3> QED BY <3>1, <3>2, OpFacts, PutFacts
  <2> QED BY <1>1, <2>1, <2>2
<1>3. \A n \in Name : Files!Stored(card'[n]) = Files!Stored(card[n])
  BY <1>2 DEF Files!Stored
<1>4. PartsAreLeft' /\ partial' \subseteq Name
  BY <1>1, <1>2 DEF FilesInv, PartsAreLeft, FilesTypes, FilesControl
<1> QED BY <1>1, <1>2, <1>3, <1>4, FilesRefused

\* A replacement is in place; what remains to be done is begun.
LEMMA AfterKeeps ==
  ASSUME FilesInv, at \in {"publish", "clean"}, op.kind \in Files!InTmp,
         Files!Proceed(Files!After), UNCHANGED <<marks, had, links, op, before, partial, left>>,
         card' \in [Name -> Copies], \A m \in Name \ {op.name} : card'[m] = card[m],
         card'[op.name].file = op.doc, card'[op.name].tmp = Files!NoFile,
         card'[op.name].bak = Files!NoFile, PartsAreLeft'
  PROVE  FilesInv'
<1>1. /\ op.to = op.name /\ marks = before.marks
      /\ \A n \in Name \ {op.name} : card[n] = before.card[n]
  BY OpFacts DEF FilesInv, FilesPlaces, AskedFirst, OthersAreAsBefore, MarksAsCalled, Running
<1>2. Files!Stored(card'[op.name]) = op.doc /\ op.doc # Files!NoFile
  BY OpFacts DEF Files!Stored
<1>3. op.doc \in Files!May(op, op.name)
  BY OpFacts, MayFacts
<1>4. StoredIsOldOrNew' /\ Files!LinkedFilesAreThere'
  BY <1>2, <1>3, OpFacts, OneStored
<1>5. marks' \in [Name -> Offsets] /\ had' \in BOOLEAN
  BY DEF FilesInv, FilesTypes, FilesData, FilesControl
<1>6. card'[op.name] = [file |-> op.doc, tmp |-> Files!NoFile, bak |-> Files!NoFile]
  BY OpFacts, CopyIs
<1>7. PICK s : s = Files!After
  OBVIOUS
<1>8. /\ s \in {"link", "unmark", "idle"}
      /\ s = "link" <=> op.kind = "write" /\ op.name \notin links
      /\ s = "unmark" <=> op.kind = "replace"
  <2>1. op.kind # "copy"
    BY OpFacts
  <2>2. CASE op.kind = "write"
    BY <1>7, <2>2 DEF Files!After
  <2>3. CASE op.kind = "replace"
    BY <1>7, <2>3 DEF Files!After
  <2>4. CASE op.kind \notin {"write", "replace"}
    BY <1>7, <2>1, <2>4 DEF Files!After
  <2> QED BY <2>2, <2>3, <2>4
<1>9. CASE s = "idle"
  <2>1. at' = "idle" /\ told' = "ok"
    BY <1>7, <1>9 DEF Files!Proceed, Files!End
  <2>2. op.kind = "write" => op.name \in links
    BY <1>8, <1>9
  <2>3. op.kind # "replace"
    BY <1>8, <1>9
  <2>4. Files!Target(op) = op.name
    BY OpFacts
  <2>5. Files!Target(op)' = op.name
    BY <2>4 DEF Files!Target
  <2>6. op' = op /\ links' = links /\ op.kind \in Files!InTmp /\ op.kind # "upload"
        /\ op.kind # "rename" /\ op.kind # "copy" /\ op.kind # "delete"
    BY OpFacts
  <2>7. Files!SuccessIsComplete'
    BY <1>2, <2>2, <2>3, <2>5, <2>6 DEF Files!SuccessIsComplete
  <2> QED BY <1>4, <1>5, <2>1, <2>7, FilesEnd DEF FilesInv, FilesTypes, FilesControl, FilesBounds
<1>10. CASE s # "idle"
  <2>1. Files!Goto(s) /\ at' = s
    BY <1>7, <1>10 DEF Files!Proceed, Files!Goto
  <2>2. FilesPlaces' /\ MarksAsCalled'
    BY <1>1, <1>8, <1>10, <2>1, OpFacts DEF FilesPlaces, MarksAsCalled, Running
  <2>3. OthersAreAsBefore' /\ MadeAsCalled'
    BY <1>1, <1>8, <1>10, <2>1, OpFacts DEF OthersAreAsBefore, MadeAsCalled, Running
  <2>4. ReplacedAsCalled'
    BY <1>6, <1>8, <1>10, <2>1 DEF ReplacedAsCalled
  <2> QED BY <1>4, <1>5, <1>8, <1>10, <2>1, <2>2, <2>3, <2>4, FilesGoto DEF Running
<1> QED BY <1>9, <1>10

\* The staged file is given its name.
LEMMA PublishKeeps == ASSUME FilesInv, Files!Publish PROVE FilesInv'
<1>1. /\ at = "publish" /\ Files!Moved(Files!Target(op), "tmp", "file")
      /\ Files!Proceed(IF had THEN "clean" ELSE Files!After)
      /\ UNCHANGED <<marks, had, links, op, before, partial, left>>
  BY DEF Files!Publish, Files!Proceed, Files!Goto, Files!End
<1>2. /\ op.kind \in Files!InTmp \cup {"copy"}
      /\ op.kind = "copy" <=> op.to # op.name
      /\ op.kind = "copy" =>
             card[op.name] = before.card[op.name] /\ before.card[op.name].file # Files!NoFile
      /\ marks = before.marks
      /\ \A n \in Name \ {op.name, op.to} : card[n] = before.card[n]
  BY <1>1, OpFacts DEF FilesInv, FilesPlaces, AskedFirst, OthersAreAsBefore, MarksAsCalled, Running
<1>3. PICK t \in Name : t = Files!Target(op) /\ t \in {op.name, op.to}
  BY OpFacts
<1>4. /\ card' \in [Name -> Copies] /\ \A m \in Name \ {t} : card'[m] = card[m]
      /\ card'[t].file = card[t].tmp /\ card'[t].tmp = Files!NoFile /\ card'[t].bak = card[t].bak
  BY <1>1, <1>3, OpFacts, MovedFacts
<1>5. marks' \in [Name -> Offsets] /\ had' \in BOOLEAN
  BY <1>1 DEF FilesInv, FilesTypes, FilesData, FilesControl
<1>6. CASE op.kind = "copy"
  <2>1. t = op.to /\ t # op.name
    BY <1>2, <1>3, <1>6, OpFacts
  <2>2. card[t].tmp = before.card[op.name].file /\ card[t].bak = before.card[t].bak /\ ~had
    BY <1>1, <1>6, <2>1 DEF FilesInv, MadeAsCalled, Running
  <2>3. Files!Goto("mark") /\ at' = "mark"
    BY <1>1, <1>6, <2>2 DEF Files!Proceed, Files!After, Files!Goto
  <2>4. Files!Stored(card'[t]) = before.card[op.name].file
         /\ before.card[op.name].file = Files!WasStored(op.name)
    BY <1>2, <1>4, <1>6, <2>2 DEF Files!Stored, Files!WasStored
  <2>5. Files!WasStored(op.name) \in Files!May(op, t)
    BY <1>6, <2>1, OpFacts, MayFacts
  <2>6. StoredIsOldOrNew' /\ Files!LinkedFilesAreThere'
    BY <1>1, <1>2, <1>4, <1>6, <2>4, <2>5, OneStored
  <2>7. FilesPlaces' /\ OthersAreAsBefore' /\ MarksAsCalled'
    BY <1>1, <1>2, <1>4, <1>6, <2>1, <2>3, OpFacts
       DEF FilesPlaces, OthersAreAsBefore, MarksAsCalled, Running
  <2>8. ReplacedAsCalled' /\ MadeAsCalled'
    BY <1>1, <1>4, <1>6, <2>1, <2>2, <2>3, OpFacts DEF ReplacedAsCalled, MadeAsCalled, Running
  <2>9. PartsAreLeft'
    <3>1. PartsAreLeft
      BY DEF FilesInv
    <3>2. card'[t].file = Files!Cut => partial # {}
      BY <1>1, <1>2, <1>4, <1>6, <2>2, <3>1, OpFacts DEF PartsAreLeft
    <3> QED BY <1>1, <1>4, <3>1, <3>2 DEF PartsAreLeft
  <2> QED BY <1>1, <1>4, <1>5, <2>3, <2>6, <2>7, <2>8, <2>9, FilesGoto DEF Running
<1>7. CASE op.kind \in Files!InTmp
  <2>1. t = op.name /\ op.to = op.name
    BY <1>2, <1>3, <1>7, OpFacts
  <2>2. /\ card[t].tmp = op.doc /\ card[t].bak = Files!WasStored(t)
        /\ had <=> Files!WasStored(t) # Files!NoFile
    BY <1>1, <1>7, <2>1, ReplacedFields
  <2>3. PartsAreLeft'
    BY <1>1, <1>4, <2>2, OpFacts DEF FilesInv, PartsAreLeft
  <2>4. CASE ~had
    BY <1>1, <1>4, <1>7, <2>1, <2>2, <2>3, <2>4, AfterKeeps
  <2>5. CASE had
    <3>1. Files!Goto("clean") /\ at' = "clean"
      BY <1>1, <2>5 DEF Files!Proceed, Files!Goto
    <3>2. Files!Stored(card'[t]) = op.doc /\ op.doc # Files!NoFile
      BY <1>4, <2>2, OpFacts DEF Files!Stored
    <3>3. op.doc \in Files!May(op, t)
      BY <1>7, <2>1, OpFacts, MayFacts
    <3>4. StoredIsOldOrNew' /\ Files!LinkedFilesAreThere'
      BY <1>1, <1>4, <3>2, <3>3, OneStored
    <3>5. FilesPlaces' /\ OthersAreAsBefore' /\ MarksAsCalled'
      BY <1>1, <1>2, <1>4, <1>7, <2>1, <3>1, OpFacts
         DEF FilesPlaces, OthersAreAsBefore, MarksAsCalled, Running
    <3>6. ReplacedAsCalled' /\ MadeAsCalled'
      BY <1>1, <1>4, <1>7, <2>1, <2>2, <3>1, OpFacts DEF ReplacedAsCalled, MadeAsCalled, Running
    <3> QED BY <1>1, <1>4, <1>5, <2>3, <3>1, <3>4, <3>5, <3>6, FilesGoto DEF Running
  <2> QED BY <2>4, <2>5
<1> QED BY <1>2, <1>6, <1>7

\* ... which the card refuses: what was set aside may go back.
LEMMA PublishRefusedKeeps == ASSUME FilesInv, Files!PublishRefused PROVE FilesInv'
<1>1. /\ at = "publish" /\ Files!Refused /\ UNCHANGED <<marks, had, partial>> /\ op' = op
  BY DEF Files!PublishRefused, Files!Refused
<1>2. op.kind \in Files!InTmp \cup {"copy"}
  BY <1>1, OpFacts DEF FilesInv, FilesPlaces
<1>3. PICK t \in Name : t = Files!Target(op) /\ t \in {op.name, op.to}
  BY OpFacts
<1>4. PICK c \in Copies : c = card[t]
  BY OpFacts
<1>5. had => c.file = Files!NoFile /\ c.bak # Files!NoFile
  <2>1. op.kind = "copy" => ~had
    BY <1>1 DEF FilesInv, MadeAsCalled
  <2>2. op.kind \in Files!InTmp => t = op.name
    BY <1>3, OpFacts
  <2> QED BY <1>1, <1>2, <1>4, <2>1, <2>2, ReplacedFields
<1>6. PICK back : back = [[c EXCEPT !.file = c.bak] EXCEPT !.bak = Files!NoFile]
  OBVIOUS
<1>7. back \in Copies /\ back.file = c.bak /\ back.bak = Files!NoFile
  BY <1>6, OpFacts DEF Copies
<1>8. PICK r \in Copies : r = IF had THEN back ELSE c
  BY <1>7
<1>9. (IF had THEN [card EXCEPT ![t].file = card[t].bak, ![t].bak = Files!NoFile] ELSE card)
      = [card EXCEPT ![t] = r]
  BY <1>4, <1>6, <1>8, OpFacts
<1>10. PICK d : d = [r EXCEPT !.tmp = Files!NoFile]
  OBVIOUS
<1>11. d \in Copies /\ d.file = r.file /\ d.bak = r.bak
  BY <1>8, <1>10, OpFacts DEF Copies
<1>12. PICK k \in Copies : card' = [card EXCEPT ![t] = k] /\ k \in {c, r, d}
  <2>1. \/ card' = [[card EXCEPT ![t] = r] EXCEPT ![t].tmp = Files!NoFile]
        \/ card' = card \/ card' = [card EXCEPT ![t] = r]
    BY <1>3, <1>9 DEF Files!PublishRefused
  <2>2. card = [card EXCEPT ![t] = c]
    BY <1>4, OpFacts
  <2>3. [[card EXCEPT ![t] = r] EXCEPT ![t].tmp = Files!NoFile] = [card EXCEPT ![t] = d]
    BY <1>10, OpFacts
  <2> QED BY <1>4, <1>8, <1>11, <2>1, <2>2, <2>3
<1>13. /\ card' \in [Name -> Copies] /\ card'[t] = k
       /\ \A m \in Name \ {t} : card'[m] = card[m]
  BY <1>12, OpFacts
<1>14. /\ Files!Stored(k) = Files!Stored(c)
       /\ k.bak \in {c.bak, Files!NoFile} /\ k.file \in {c.file, c.bak}
  BY <1>5, <1>7, <1>8, <1>11, <1>12 DEF Files!Stored
<1>15. \A n \in Name : Files!Stored(card'[n]) = Files!Stored(card[n])
  BY <1>4, <1>13, <1>14
<1>16. PartsAreLeft'
  <2>1. PartsAreLeft
    BY DEF FilesInv
  <2>2. (k.bak = Files!Cut \/ k.file = Files!Cut) => partial # {}
    BY <1>1, <1>4, <1>14, <2>1, LengthFacts DEF PartsAreLeft
  <2> QED BY <1>1, <1>13, <2>1, <2>2 DEF PartsAreLeft
<1>17. partial' \subseteq Name
  BY <1>1 DEF FilesInv, FilesTypes, FilesControl
<1> QED BY <1>1, <1>13, <1>15, <1>16, <1>17, FilesRefused

\* What was set aside is removed.
LEMMA CleanKeeps == ASSUME FilesInv, Files!Clean PROVE FilesInv'
<1>1. /\ at = "clean" /\ Files!Put(op.name, "bak", Files!NoFile) /\ Files!Proceed(Files!After)
      /\ UNCHANGED <<marks, had, links, op, before, partial, left>>
  BY DEF Files!Clean, Files!Proceed, Files!Goto, Files!End
<1>2. op.kind \in Files!InTmp /\ Files!NoFile \in Stores
  BY <1>1 DEF FilesInv, FilesPlaces, Stores
<1>3. card[op.name].file = op.doc /\ card[op.name].tmp = Files!NoFile
  BY <1>1, <1>2, ReplacedFields
<1>4. /\ card' \in [Name -> Copies] /\ \A m \in Name \ {op.name} : card'[m] = card[m]
      /\ card'[op.name].file = op.doc /\ card'[op.name].tmp = Files!NoFile
      /\ card'[op.name].bak = Files!NoFile
  BY <1>1, <1>2, <1>3, OpFacts, PutFacts
<1>5. PartsAreLeft'
  BY <1>1, <1>4, OpFacts, LengthFacts DEF FilesInv, PartsAreLeft
<1> QED BY <1>1, <1>2, <1>4, <1>5, AfterKeeps

\* A call that is refused before it has changed anything, or a cleaning that is.
LEMMA RefusalKeeps ==
  ASSUME FilesInv, Files!CleanRefused \/ Files!CallRefused PROVE FilesInv'
<1>1. /\ at # "fill" /\ Files!Refused /\ UNCHANGED <<card, marks, had, partial>> /\ op' = op
  BY DEF Files!CleanRefused, Files!CallRefused, Files!Refused
<1>2. PartsAreLeft' /\ partial' \subseteq Name
  BY <1>1 DEF FilesInv, PartsAreLeft, FilesTypes, FilesControl
<1> QED BY <1>1, <1>2, OpFacts, FilesRefused

\* The file gets its other name.
LEMMA RenameKeeps == ASSUME FilesInv, Files!Rename PROVE FilesInv'
<1>1. /\ at = "rename"
      /\ card' = [card EXCEPT ![op.to].file = card[op.name].file, ![op.name].file = Files!NoFile]
      /\ IF marks[op.name] = Files!NoFile THEN Files!End("ok") ELSE Files!Goto("mark")
      /\ UNCHANGED <<marks, had, links, op, before, partial, left>>
  BY DEF Files!Rename, Files!Goto, Files!End
<1>2. /\ op.kind = "rename" /\ op.to # op.name /\ op.name \notin links
      /\ card = before.card /\ marks = before.marks
      /\ card[op.name].file # Files!NoFile /\ card[op.to].file = Files!NoFile
  BY <1>1 DEF FilesInv, FilesPlaces, AskedFirst, OthersAreAsBefore, MarksAsCalled, Running
<1>3. PICK n \in Name : n = op.name
  BY OpFacts
<1>4. PICK t \in Name : t = op.to
  BY OpFacts
<1>5. PICK f \in Stores : f = card[n].file
  BY <1>3, OpFacts
<1>6. PICK x \in Copies : x = [card[t] EXCEPT !.file = f]
  <2>1. card[t] \in Copies
    BY OpFacts
  <2>2. [card[t] EXCEPT !.file = f] \in Copies
    BY <2>1 DEF Copies
  <2> QED BY <2>2
<1>7. PICK y \in Copies : y = [card[n] EXCEPT !.file = Files!NoFile]
  BY <1>3, OpFacts DEF Copies
<1>8. card' = [[card EXCEPT ![t] = x] EXCEPT ![n] = y]
  <2>1. card' = [[card EXCEPT ![t].file = f] EXCEPT ![n].file = Files!NoFile]
    BY <1>1, <1>3, <1>4, <1>5
  <2>2. [card EXCEPT ![t].file = f] = [card EXCEPT ![t] = x]
    BY <1>4, <1>6, OpFacts
  <2>3. [card EXCEPT ![t] = x][n] = card[n]
    BY <1>2, <1>3, <1>4, OpFacts
  <2> QED BY <1>7, <2>1, <2>2, <2>3
<1>9. /\ card' \in [Name -> Copies] /\ card'[t] = x /\ card'[n] = y
      /\ \A m \in Name \ {n, t} : card'[m] = card[m]
  BY <1>2, <1>3, <1>4, <1>8, OpFacts
<1>10. /\ x.file = f /\ x.bak = card[t].bak
       /\ y.file = Files!NoFile /\ y.bak = card[n].bak
  BY <1>3, <1>4, <1>5, <1>6, <1>7, OpFacts DEF Copies
<1>11. /\ Files!Stored(card'[t]) = f /\ f # Files!NoFile /\ f = Files!WasStored(n)
       /\ Files!Stored(card'[n]) = card[n].bak
  BY <1>2, <1>3, <1>5, <1>9, <1>10 DEF Files!Stored, Files!WasStored
<1>12. StoredIsOldOrNew'
  <2>1. \A m \in Name : Files!BackupLeft(m)' = Files!BackupLeft(m)
                         /\ Files!May(op, m)' = Files!May(op, m)
    BY <1>1 DEF Files!BackupLeft, Files!May, Files!WasStored, Files!Target
  <2>2. Files!Stored(card'[t]) \in Files!May(op, t)
    BY <1>2, <1>3, <1>4, <1>11, OpFacts, MayFacts
  <2>3. Files!BackupLeft(n) \/ Files!Stored(card'[n]) \in Files!May(op, n)
    BY <1>2, <1>3, <1>11, OpFacts, MayFacts DEF Files!BackupLeft
  <2> QED BY <1>9, <2>1, <2>2, <2>3 DEF FilesInv, StoredIsOldOrNew
<1>13. Files!LinkedFilesAreThere'
  <2>1. links \subseteq Name
    BY DEF FilesInv, FilesTypes, FilesControl
  <2> QED BY <1>1, <1>2, <1>3, <1>9, <1>11, <2>1, SMTT(30)
          DEF FilesInv, Files!LinkedFilesAreThere
<1>14. marks' \in [Name -> Offsets] /\ had' \in BOOLEAN
  BY <1>1 DEF FilesInv, FilesTypes, FilesData, FilesControl
<1>15. PartsAreLeft'
  <2>1. PartsAreLeft
    BY DEF FilesInv
  <2>2. /\ x.file = Files!Cut \/ x.bak = Files!Cut => partial # {}
        /\ y.bak = Files!Cut => partial # {}
        /\ y.file # Files!Cut
    BY <1>1, <1>3, <1>4, <1>5, <1>10, <2>1, LengthFacts DEF PartsAreLeft
  <2>3. ASSUME NEW m \in Name
        PROVE  (card'[m].file = Files!Cut \/ card'[m].bak = Files!Cut) => partial # {}
    <3>1. CASE m \in {n, t}
      BY <1>9, <2>2, <3>1
    <3>2. CASE m \notin {n, t}
      BY <1>1, <1>9, <2>1, <3>2 DEF PartsAreLeft
    <3> QED BY <3>1, <3>2
  <2> QED BY <1>1, <2>3 DEF PartsAreLeft
<1>16. CASE marks[op.name] = Files!NoFile
  <2>1. at' = "idle" /\ told' = "ok"
    BY <1>1, <1>16 DEF Files!End
  <2>2. ASSUME ~Files!BackupLeft(n) PROVE Files!Stored(card'[n]) = Files!NoFile
    BY <1>2, <1>11, <2>2 DEF Files!BackupLeft
  <2>3. Files!Target(op) = t
    BY <1>2, <1>4, OpFacts
  <2>4. op.kind # "upload" /\ op.kind \notin Files!InTmp
    BY <1>2, OpFacts
  <2>5. /\ ~Files!BackupLeft(op.name)' => Files!Stored(card'[op.name]) = Files!NoFile
        /\ Files!Stored(card'[Files!Target(op)']) = Files!WasStored(op.name)'
        /\ marks'[op.name] = Files!NoFile /\ before'.marks[op.name] = Files!NoFile
    BY <1>1, <1>2, <1>3, <1>4, <1>11, <1>16, <2>2, <2>3
       DEF Files!BackupLeft, Files!WasStored, Files!Target
  <2>6. Files!SuccessIsComplete'
    BY <1>1, <1>2, <2>4, <2>5 DEF Files!SuccessIsComplete
  <2> QED BY <1>1, <1>9, <1>12, <1>13, <1>14, <1>15, <2>1, <2>6, FilesEnd
          DEF FilesInv, FilesTypes, FilesControl, FilesBounds
<1>17. CASE marks[op.name] # Files!NoFile
  <2>1. Files!Goto("mark") /\ at' = "mark"
    BY <1>1, <1>17 DEF Files!Goto
  <2>2. FilesPlaces' /\ OthersAreAsBefore' /\ ReplacedAsCalled' /\ MarksAsCalled'
    BY <1>1, <1>2, <1>3, <1>4, <1>9, <1>17, <2>1, OpFacts
       DEF FilesPlaces, OthersAreAsBefore, ReplacedAsCalled, MarksAsCalled, Running
  <2>3. MadeAsCalled'
    BY <1>1, <1>2, <1>3, <1>4, <1>5, <1>9, <1>10, <2>1 DEF MadeAsCalled, Running
  <2> QED BY <1>1, <1>9, <1>12, <1>13, <1>14, <1>15, <2>1, <2>2, <2>3, FilesGoto DEF Running
<1> QED BY <1>16, <1>17

\* A bookmark is saved; a copy takes the one of its source along.
LEMMA MarkKeeps == ASSUME FilesInv, Files!Mark PROVE FilesInv'
<1>1. /\ at = "mark" /\ UNCHANGED <<card, had, links, op, before, partial, left>>
      /\ \/ op.kind = "copy" /\ UNCHANGED marks /\ Files!End("error")
         \/ /\ marks' = [marks EXCEPT ![Files!Target(op)] =
                                       IF op.kind = "mark" THEN op.doc ELSE marks[op.name]]
            /\ IF op.kind = "rename" THEN Files!Goto("unmark") ELSE Files!End("ok")
  BY DEF Files!Mark, Files!SaveMark, Files!Goto, Files!End
<1>2. /\ op.kind \in {"mark", "copy", "rename"} /\ marks = before.marks
      /\ op.kind \in {"copy", "rename"} <=> op.to # op.name
      /\ op.kind \in {"copy", "rename"} =>
           /\ before.card[op.name].file # Files!NoFile
           /\ card[op.to].file = before.card[op.name].file
      /\ op.kind = "copy" => card[op.name] = before.card[op.name]
  BY <1>1
     DEF FilesInv, FilesPlaces, AskedFirst, OthersAreAsBefore, MadeAsCalled, MarksAsCalled, Running
<1>3. card' \in [Name -> Copies] /\ had' \in BOOLEAN
  BY <1>1, OpFacts DEF FilesInv, FilesTypes, FilesControl
<1>4. marks' \in [Name -> Offsets]
  <2>1. (IF op.kind = "mark" THEN op.doc ELSE marks[op.name]) \in Offsets
    BY OpFacts DEF Offsets
  <2> QED BY <1>1, <2>1, OpFacts
<1>5. StoredIsOldOrNew' /\ Files!LinkedFilesAreThere'
  BY <1>1, SameStored
<1>6. PartsAreLeft'
  BY <1>1 DEF FilesInv, PartsAreLeft
<1>7. CASE Files!End("error") /\ op.kind = "copy"
  <2>1. at' = "idle" /\ told' = "error" /\ Files!FailureIsClean'
    BY <1>1, <1>7 DEF Files!End, Files!FailureIsClean
  <2> QED BY <1>1, <1>3, <1>4, <1>5, <1>6, <2>1, FilesEnd
          DEF FilesInv, FilesTypes, FilesControl, FilesBounds
<1>8. CASE Files!End("ok") /\ op.kind # "rename"
  <2>1. at' = "idle" /\ told' = "ok"
    BY <1>8 DEF Files!End
  <2>2. /\ op.kind # "upload" /\ op.kind \notin Files!InTmp /\ op.kind # "rename"
            /\ op.kind # "delete"
    BY <1>2, <1>8, OpFacts
  <2>3. ASSUME op.kind = "copy"
        PROVE  /\ Files!Stored(card'[Files!Target(op)']) = Files!WasStored(op.name)'
               /\ Files!Stored(card'[op.name]) = Files!WasStored(op.name)'
    <3>1. Files!Target(op)' = op.to
      BY <1>1, <2>3 DEF Files!Target
    <3> QED BY <1>1, <1>2, <2>3, <3>1 DEF Files!Stored, Files!WasStored
  <2>4. Files!SuccessIsComplete'
    <3>1. CASE op.kind = "copy"
      BY <1>1, <2>2, <2>3, <3>1 DEF Files!SuccessIsComplete
    <3>2. CASE op.kind # "copy"
      BY <1>1, <2>2, <3>2 DEF Files!SuccessIsComplete
    <3> QED BY <3>1, <3>2
  <2> QED BY <1>1, <1>3, <1>4, <1>5, <1>6, <2>1, <2>4, FilesEnd
          DEF FilesInv, FilesTypes, FilesControl, FilesBounds
<1>9. CASE Files!Goto("unmark") /\ op.kind = "rename"
  <2>1. at' = "unmark" /\ marks' = [marks EXCEPT ![op.to] = marks[op.name]]
    BY <1>1, <1>9, OpFacts DEF Files!Goto, Files!End
  <2>2. MarksAsCalled'
    BY <1>1, <1>2, <1>9, <2>1, OpFacts DEF MarksAsCalled, Running
  <2>3. FilesPlaces' /\ OthersAreAsBefore' /\ ReplacedAsCalled' /\ MadeAsCalled'
    BY <1>1, <1>9, <2>1, OpFacts
       DEF FilesInv, FilesPlaces, OthersAreAsBefore, ReplacedAsCalled, MadeAsCalled, Running
  <2> QED BY <1>1, <1>3, <1>4, <1>5, <1>6, <1>9, <2>2, <2>3, FilesGoto DEF Running
<1> QED BY <1>1, <1>7, <1>8, <1>9

\* A bookmark is removed.
LEMMA UnmarkKeeps == ASSUME FilesInv, Files!Unmark PROVE FilesInv'
<1>1. /\ at = "unmark" /\ UNCHANGED <<card, had, links, op, before, partial, left>>
      /\ marks' = [marks EXCEPT ![op.name] = Files!NoFile]
      /\ IF op.kind \in {"delete", "undo"} THEN Files!Goto("remove") ELSE Files!End("ok")
  BY DEF Files!Unmark, Files!SaveMark, Files!Goto, Files!End
<1>2. /\ op.kind \in {"replace", "rename", "delete", "undo"}
      /\ op.kind = "rename" <=> op.to # op.name
      /\ op.kind = "rename" =>
           /\ before.card[op.name].file # Files!NoFile
           /\ card[op.to].file = before.card[op.name].file
           /\ card[op.name].file = Files!NoFile /\ card[op.name].bak = before.card[op.name].bak
           /\ marks[op.to] = before.marks[op.name]
  BY <1>1 DEF FilesInv, FilesPlaces, AskedFirst, MadeAsCalled, MarksAsCalled, Running
<1>3. card' \in [Name -> Copies] /\ had' \in BOOLEAN
  BY <1>1, OpFacts DEF FilesInv, FilesTypes, FilesControl
<1>4. marks' \in [Name -> Offsets] /\ marks'[op.name] = Files!NoFile
      /\ \A n \in Name \ {op.name} : marks'[n] = marks[n]
  <2>1. Files!NoFile \in Offsets
    BY DEF Offsets
  <2> QED BY <1>1, <2>1, OpFacts
<1>5. StoredIsOldOrNew' /\ Files!LinkedFilesAreThere'
  BY <1>1, SameStored
<1>6. PartsAreLeft'
  BY <1>1 DEF FilesInv, PartsAreLeft
<1>7. CASE op.kind \in {"delete", "undo"}
  <2>1. Files!Goto("remove") /\ at' = "remove"
    BY <1>1, <1>7 DEF Files!Goto
  <2>2. MarksAsCalled' /\ FilesPlaces'
    BY <1>1, <1>4, <1>7, <2>1 DEF MarksAsCalled, FilesPlaces
  <2>3. OthersAreAsBefore' /\ ReplacedAsCalled' /\ MadeAsCalled'
    BY <1>1, <1>7, <2>1, OpFacts
       DEF FilesInv, OthersAreAsBefore, ReplacedAsCalled, MadeAsCalled, Running
  <2> QED BY <1>1, <1>3, <1>4, <1>5, <1>6, <2>1, <2>2, <2>3, FilesGoto DEF Running
<1>8. CASE op.kind = "replace"
  <2>1. at' = "idle" /\ told' = "ok"
    BY <1>1, <1>8 DEF Files!End
  <2>2. op.kind \in Files!InTmp /\ op.kind # "write" /\ op.kind # "upload" /\ op.kind # "rename"
        /\ op.kind # "copy" /\ op.kind # "delete"
    BY <1>8, OpFacts
  <2>3. /\ card[op.name].file = op.doc /\ card[op.name].tmp = Files!NoFile
        /\ card[op.name].bak = Files!NoFile
    BY <1>1, <2>2, ReplacedFields
  <2>4. Files!Target(op)' = op.name
    BY <1>1, <1>8 DEF Files!Target
  <2>5. /\ Files!Stored(card'[Files!Target(op)']) = op.doc
        /\ card'[op.name].tmp = Files!NoFile /\ card'[op.name].bak = Files!NoFile
    BY <1>1, <2>3, <2>4, OpFacts DEF Files!Stored
  <2>6. Files!SuccessIsComplete'
    BY <1>1, <1>4, <2>2, <2>5 DEF Files!SuccessIsComplete
  <2> QED BY <1>1, <1>3, <1>4, <1>5, <1>6, <2>1, <2>6, FilesEnd
          DEF FilesInv, FilesTypes, FilesControl, FilesBounds
<1>9. CASE op.kind = "rename"
  <2>1. at' = "idle" /\ told' = "ok"
    BY <1>1, <1>9 DEF Files!End
  <2>2. op.kind \notin Files!InTmp /\ op.kind # "upload" /\ op.kind = "rename"
    BY <1>9, OpFacts
  <2>3. Files!Target(op)' = op.to
    BY <1>1, <1>9 DEF Files!Target
  <2>4. /\ Files!Stored(card'[Files!Target(op)']) = Files!WasStored(op.name)'
        /\ ~Files!BackupLeft(op.name)' => Files!Stored(card'[op.name]) = Files!NoFile
    BY <1>1, <1>2, <1>9, <2>3 DEF Files!Stored, Files!WasStored, Files!BackupLeft
  <2>5. marks'[op.to] = before'.marks[op.name]
    BY <1>1, <1>2, <1>4, <1>9, OpFacts
  <2>6. Files!SuccessIsComplete'
    BY <1>1, <1>4, <2>2, <2>4, <2>5 DEF Files!SuccessIsComplete
  <2> QED BY <1>1, <1>3, <1>4, <1>5, <1>6, <2>1, <2>6, FilesEnd
          DEF FilesInv, FilesTypes, FilesControl, FilesBounds
<1> QED BY <1>2, <1>7, <1>8, <1>9

\* A file is deleted, or the one that could not be linked.
LEMMA RemoveKeeps == ASSUME FilesInv, Files!Remove PROVE FilesInv'
<1>1. /\ at = "remove" /\ at' = "idle" /\ told' = (IF op.kind = "delete" THEN "ok" ELSE "error")
      /\ Files!Put(op.name, "file", Files!NoFile)
      /\ UNCHANGED <<marks, had, links, op, before, partial, left>>
  BY DEF Files!Remove, Files!End
<1>2. /\ op.kind \in {"delete", "undo"} /\ op.to = op.name /\ op.name \notin links
      /\ op.kind = "delete" => card = before.card
      /\ op.kind = "undo" => left.faults < before.faults
      /\ marks[op.name] = Files!NoFile
  BY <1>1 DEF FilesInv, FilesPlaces, AskedFirst, OthersAreAsBefore, MarksAsCalled, Running
<1>3. marks' \in [Name -> Offsets] /\ had' \in BOOLEAN /\ Files!NoFile \in Stores
  BY <1>1 DEF FilesInv, FilesTypes, FilesData, FilesControl, Stores
<1>4. /\ card' \in [Name -> Copies] /\ \A m \in Name \ {op.name} : card'[m] = card[m]
      /\ card'[op.name].file = Files!NoFile /\ card'[op.name].bak = card[op.name].bak
  BY <1>1, <1>3, OpFacts, PutFacts
<1>5. Files!Stored(card'[op.name]) = card[op.name].bak
  BY <1>4 DEF Files!Stored
<1>6. op.kind = "undo" => card[op.name].bak = Files!NoFile
  BY <1>1, ReplacedFields
<1>7. Files!BackupLeft(op.name) \/ card[op.name].bak = Files!NoFile
  BY <1>2, <1>6 DEF Files!BackupLeft
<1>8. Files!NoFile \in Files!May(op, op.name)
  BY <1>2, OpFacts, MayFacts
<1>9. StoredIsOldOrNew' /\ Files!LinkedFilesAreThere'
  BY <1>1, <1>2, <1>4, <1>5, <1>7, <1>8, OpFacts, OneStored
<1>10. PartsAreLeft'
  BY <1>1, <1>4, LengthFacts DEF FilesInv, PartsAreLeft
<1>11. told' = "ok" => Files!SuccessIsComplete'
  <2>1. CASE op.kind = "delete"
    <3>1. op.kind \notin Files!InTmp /\ op.kind # "upload" /\ op.kind # "rename" /\ op.kind # "copy"
      BY <2>1, OpFacts
    <3>2. Files!Target(op)' = op.name
      BY <1>1, <2>1 DEF Files!Target
    <3>3. ~Files!BackupLeft(op.name)' => Files!Stored(card'[Files!Target(op)']) = Files!NoFile
      BY <1>1, <1>5, <1>7, <3>2 DEF Files!BackupLeft
    <3> QED BY <1>1, <1>2, <2>1, <3>1, <3>3 DEF Files!SuccessIsComplete
  <2> QED BY <1>1, <1>2, <2>1
<1>12. told' = "error" => Files!FailureIsClean'
  <2>1. ASSUME op.kind = "undo" PROVE left'.faults # before'.faults
    <3>1. left.faults \in Nat /\ before.faults \in Nat
      BY ServicesAssumption DEF FilesInv, FilesTypes, FilesData, FilesBounds
    <3> QED BY <1>1, <1>2, <2>1, <3>1
  <2> QED BY <1>1, <1>2, <2>1 DEF Files!FailureIsClean
<1> QED BY <1>1, <1>3, <1>4, <1>9, <1>10, <1>11, <1>12, FilesEnd
        DEF FilesInv, FilesTypes, FilesControl, FilesBounds

\* The file a tool has created is linked.
LEMMA LinkCreatedKeeps == ASSUME FilesInv, Files!LinkCreated PROVE FilesInv'
<1>1. /\ at = "link" /\ at' = "idle" /\ told' = "ok" /\ links' = links \cup {op.name}
      /\ UNCHANGED <<card, marks, op, had, before, partial, left>>
  BY DEF Files!LinkCreated
<1>2. op.kind = "write" /\ op.kind \in Files!InTmp
  BY <1>1, OpFacts DEF FilesInv, FilesPlaces
<1>3. /\ card[op.name].file = op.doc /\ card[op.name].tmp = Files!NoFile
      /\ card[op.name].bak = Files!NoFile
  BY <1>1, <1>2, ReplacedFields
<1>4. Files!Stored(card[op.name]) = op.doc /\ op.doc # Files!NoFile
  BY <1>3, OpFacts DEF Files!Stored
<1>5. StoredIsOldOrNew'
  BY <1>1, SameStored
<1>6. Files!LinkedFilesAreThere'
  BY <1>1, <1>4 DEF FilesInv, Files!LinkedFilesAreThere
<1>7. PartsAreLeft'
  BY <1>1 DEF FilesInv, PartsAreLeft
<1>8. Files!SuccessIsComplete'
  <2>1. Files!Target(op)' = op.name
    BY <1>1, <1>2 DEF Files!Target
  <2>2. op.name \in links' /\ op.kind # "replace"
    BY <1>1, <1>2
  <2> QED BY <1>1, <1>2, <1>3, <1>4, <2>1, <2>2 DEF Files!SuccessIsComplete
<1>9. links' \subseteq Name /\ partial' \subseteq Name /\ had' \in BOOLEAN
  BY <1>1, OpFacts DEF FilesInv, FilesTypes, FilesControl
<1> QED BY <1>1, <1>5, <1>6, <1>7, <1>8, <1>9, OpFacts, FilesEnd
        DEF FilesInv, FilesTypes, FilesBounds

\* It cannot be linked, and is to be deleted again.
LEMMA LinkRefusedKeeps == ASSUME FilesInv, Files!LinkRefused PROVE FilesInv'
<1>1. /\ at = "link" /\ at' = "unmark" /\ left.faults > 0
      /\ left' = [left EXCEPT !.faults = @ - 1] /\ op' = [op EXCEPT !.kind = "undo"]
      /\ UNCHANGED <<card, marks, links, had, told, before, partial>>
  BY DEF Files!LinkRefused
<1>2. op.kind = "write" /\ op.kind \in Files!InTmp /\ op.name \notin links /\ op.to = op.name
  BY <1>1, OpFacts DEF FilesInv, FilesPlaces, AskedFirst, Running
<1>3. /\ op' \in Files!Op /\ op'.kind = "undo" /\ op'.name = op.name /\ op'.to = op.to
      /\ op'.doc = op.doc
  BY <1>1, OpFacts DEF Files!Op, Files!Kind
<1>4. FilesTypes
  BY DEF FilesInv
<1>5. /\ left.faults \in 0..Few /\ left.faults - 1 \in 0..Few /\ before.faults \in 0..Few
  BY <1>1, <1>4, ServicesAssumption DEF FilesTypes, FilesBounds, FilesData
<1>6. /\ left' \in [ops : 0..MaxOps, faults : 0..Few, resets : 0..MaxResets]
      /\ left'.faults = left.faults - 1
  BY <1>1, <1>4, <1>5 DEF FilesTypes, FilesBounds
<1>7. left'.faults < before'.faults /\ left'.faults <= before'.faults
  BY <1>1, <1>4, <1>5, <1>6, ServicesAssumption DEF FilesTypes, FilesBounds
<1>8. FilesTypes'
  BY <1>1, <1>3, <1>4, <1>6, <1>7 DEF FilesTypes, FilesData, FilesControl, FilesBounds
<1>9. FilesPlaces' /\ MarksAsCalled'
  BY <1>1, <1>3 DEF FilesInv, FilesPlaces, MarksAsCalled, Running
<1>10. AskedFirst'
  <2>1. AskedFirst
    BY DEF FilesInv
  <2>2. \A n \in links' : Files!WasStored(n)' # Files!NoFile
    BY <1>1, <2>1 DEF AskedFirst, Running, Files!WasStored
  <2>3. op.name \in links \/ before.card[op.name].file = Files!NoFile
    BY <1>1, <1>2, <2>1 DEF AskedFirst, Running, Files!Tool
  <2> QED BY <1>1, <1>2, <1>3, <1>7, <2>2, <2>3 DEF AskedFirst
<1>11. OthersAreAsBefore' /\ MadeAsCalled'
  BY <1>1, <1>2, <1>3, OpFacts DEF FilesInv, OthersAreAsBefore, MadeAsCalled, Running
<1>12. ReplacedAsCalled'
  BY <1>1, <1>2, <1>3 DEF FilesInv, ReplacedAsCalled
<1>13. StoredIsOldOrNew'
  <2>1. \A n \in Name : Files!May(op, n) \subseteq Files!May(op, n)'
    <3>1. op'.kind \notin Files!InTmp /\ op.kind # "upload"
      BY <1>2, <1>3, OpFacts
    <3>2. PICK m \in Name : m = op.name
      BY OpFacts
    <3>3. Files!Target(op) = m /\ Files!Target(op)' = m
      BY <1>2, <1>3, <3>2, OpFacts DEF Files!Target
    <3>4. ASSUME NEW n \in Name
          PROVE  Files!WasStored(n)' = Files!WasStored(n)
                  /\ Files!WasStored(n)' \in Files!May(op, n)'
      BY <1>1 DEF Files!WasStored, Files!May
    <3>5. Files!May(op, m) = {Files!WasStored(m)} \cup {op.doc}
      BY <1>2, <3>3 DEF Files!May
    <3>6. op.doc \in Files!May(op, m)'
      BY <1>3, <3>1, <3>3 DEF Files!May
    <3>7. ASSUME NEW n \in Name, n # m PROVE Files!May(op, n) = {Files!WasStored(n)}
      BY <1>2, <3>3, <3>7 DEF Files!May
    <3>8. ASSUME NEW n \in Name PROVE Files!May(op, n) \subseteq Files!May(op, n)'
      <4>1. CASE n = m
        BY <3>4, <3>5, <3>6, <4>1
      <4>2. CASE n # m
        BY <3>4, <3>7, <4>2
      <4> QED BY <4>1, <4>2
    <3> QED BY <3>8
  <2>2. \A n \in Name : /\ Files!BackupLeft(n)' = Files!BackupLeft(n)
                        /\ Files!Stored(card[n])' = Files!Stored(card[n])
    BY <1>1 DEF Files!BackupLeft, Files!Stored
  <2> QED BY <2>1, <2>2 DEF FilesInv, StoredIsOldOrNew
<1>14. PartsAreLeft' /\ Files!LinkedFilesAreThere'
  BY <1>1 DEF FilesInv, PartsAreLeft, Files!LinkedFilesAreThere
<1>15. Files!SuccessIsComplete' /\ Files!FailureIsClean'
  BY <1>1 DEF Files!SuccessIsComplete, Files!FailureIsClean
<1> QED BY <1>8, <1>9, <1>10, <1>11, <1>12, <1>13, <1>14, <1>15 DEF FilesInv

\* Nothing has been done yet.
LEMMA InitFiles == ServicesInit => FilesInv
<1> SUFFICES ASSUME ServicesInit PROVE FilesInv
  OBVIOUS
<1>1. PICK most \in Doc : most = CHOOSE d \in Doc : \A e \in Doc : e <= d
  BY LengthsAssumption
<1>2. /\ card \in [Name -> {[file |-> Files!NoFile, tmp |-> Files!NoFile, bak |-> Files!NoFile],
                            [file |-> most, tmp |-> Files!NoFile, bak |-> Files!NoFile]}]
      /\ marks = [n \in Name |-> Files!NoFile]
      /\ links \in SUBSET {n \in Name : Files!Exists(n)}
      /\ op \in Files!Op /\ at = "boot" /\ had = FALSE /\ told = "none"
      /\ before = [card |-> card, marks |-> marks, faults |-> Few]
      /\ partial = {} /\ left = [ops |-> MaxOps, faults |-> Few, resets |-> MaxResets]
  BY <1>1 DEF ServicesInit, Files!Init
<1>3. most \in Stores /\ Files!NoFile \in Stores /\ Files!NoFile \in Offsets /\ most # Files!Cut
  BY LengthFacts DEF Stores, Offsets
<1>4. {[file |-> Files!NoFile, tmp |-> Files!NoFile, bak |-> Files!NoFile],
       [file |-> most, tmp |-> Files!NoFile, bak |-> Files!NoFile]} \subseteq Copies
  BY <1>3 DEF Copies
<1>5. card \in [Name -> Copies]
  BY <1>2, <1>4
<1>6. ASSUME NEW n \in Name
      PROVE  card[n].bak = Files!NoFile /\ card[n].file \in {Files!NoFile, most}
  <2>1. PICK c : c = card[n]
    OBVIOUS
  <2>2. c = [file |-> Files!NoFile, tmp |-> Files!NoFile, bak |-> Files!NoFile]
        \/ c = [file |-> most, tmp |-> Files!NoFile, bak |-> Files!NoFile]
    BY <1>2, <2>1
  <2>3. c.bak = Files!NoFile /\ c.file \in {Files!NoFile, most}
    BY <2>2
  <2> QED BY <2>1, <2>3
<1>7. before.card = card /\ before.marks = marks /\ before.faults = Few
  BY <1>2
<1>8. FilesTypes
  <2>1. FilesData
    BY <1>2, <1>3, <1>5, ServicesAssumption DEF FilesData
  <2>2. FilesControl
    BY <1>2 DEF FilesControl
  <2>3. FilesBounds
    BY <1>2, ServicesAssumption DEF FilesBounds
  <2> QED BY <2>1, <2>2, <2>3 DEF FilesTypes
<1>9. FilesPlaces /\ AskedFirst /\ OthersAreAsBefore /\ ReplacedAsCalled /\ MadeAsCalled
       /\ MarksAsCalled
  BY <1>2 DEF FilesPlaces, AskedFirst, OthersAreAsBefore, ReplacedAsCalled, MadeAsCalled,
              MarksAsCalled, Running
<1>10. StoredIsOldOrNew
  <2>1. \A n \in Name : Files!Stored(card[n]) = Files!WasStored(n)
    BY <1>7 DEF Files!WasStored
  <2>2. \A n \in Name : Files!WasStored(n) \in Files!May(op, n)
    BY DEF Files!May
  <2> QED BY <2>1, <2>2 DEF StoredIsOldOrNew
<1>11. PartsAreLeft
  BY <1>3, <1>6, LengthFacts DEF PartsAreLeft
<1>12. Files!LinkedFilesAreThere
  BY <1>2 DEF Files!LinkedFilesAreThere, Files!Exists, Files!Stored
<1>13. Files!SuccessIsComplete /\ Files!FailureIsClean
  BY <1>2 DEF Files!SuccessIsComplete, Files!FailureIsClean
<1> QED BY <1>8, <1>9, <1>10, <1>11, <1>12, <1>13 DEF FilesInv

\* Every step keeps the invariant of the files, on a card that does not lose the end
\* of one without saying so.
LEMMA FilesInvKept ==
  ASSUME QuietFlush = FALSE PROVE FilesInv /\ [Files!Next]_filesVars => FilesInv'
<1> SUFFICES ASSUME FilesInv, [Files!Next]_filesVars PROVE FilesInv'
  OBVIOUS
<1>1. CASE UNCHANGED filesVars
  <2>1. UNCHANGED <<card, marks, links, op, at, had, told, before, partial, left>>
    BY <1>1 DEF filesVars
  <2>2. FilesTypes' /\ FilesPlaces' /\ AskedFirst' /\ OthersAreAsBefore'
    BY <2>1 DEF FilesInv, FilesTypes, FilesData, FilesControl, FilesBounds, FilesPlaces,
                AskedFirst, OthersAreAsBefore, Running, Files!WasStored
  <2>3. ReplacedAsCalled' /\ MadeAsCalled' /\ MarksAsCalled'
    BY <2>1 DEF FilesInv, ReplacedAsCalled, MadeAsCalled, MarksAsCalled, Running, Files!WasStored
  <2>4. StoredIsOldOrNew' /\ Files!LinkedFilesAreThere'
    BY <2>1, SameStored
  <2>5. PartsAreLeft' /\ Files!SuccessIsComplete' /\ Files!FailureIsClean'
    BY <2>1 DEF FilesInv, PartsAreLeft, Files!SuccessIsComplete, Files!FailureIsClean,
                Files!Target, Files!BackupLeft, Files!WasStored
  <2> QED BY <2>2, <2>3, <2>4, <2>5 DEF FilesInv
<1>2. CASE Files!Boot
  BY <1>2, BootKeeps
<1>3. CASE Files!Reset
  BY <1>3, ResetKeeps
<1>4. CASE \E o \in Files!Op : Files!Start(o)
  BY <1>4, AskedKeeps
<1>5. CASE \E n \in Name : Files!Link(n) \/ Files!Unlink(n)
  BY <1>5, LinksKeep
<1>6. CASE Files!Create \/ Files!Prepare \/ Files!Stage \/ Files!Fill
  BY <1>6, QuietFlush = FALSE, CreateKeeps, PrepareKeeps, StageKeeps, FillKeeps
<1>7. CASE Files!FillStopped \/ Files!FillLeftBehind \/ Files!Backup \/ Files!BackupRefused
  BY <1>7, FillStoppedKeeps, FillLeftBehindKeeps, BackupKeeps, BackupRefusedKeeps
<1>8. CASE Files!Publish \/ Files!PublishRefused \/ Files!Clean \/ Files!CleanRefused
             \/ Files!CallRefused
  BY <1>8, PublishKeeps, PublishRefusedKeeps, CleanKeeps, RefusalKeeps
<1>9. CASE Files!Rename \/ Files!Mark \/ Files!Unmark \/ Files!Remove
  BY <1>9, RenameKeeps, MarkKeeps, UnmarkKeeps, RemoveKeeps
<1>10. CASE Files!LinkCreated \/ Files!LinkRefused
  BY <1>10, LinkCreatedKeeps, LinkRefusedKeeps
<1> QED BY <1>1, <1>2, <1>3, <1>4, <1>5, <1>6, <1>7, <1>8, <1>9, <1>10 DEF Files!Next

\* The files are whole, and what is told of them is true.
LEMMA FilesAreWholeNow == FilesInv => Files!FilesAreWhole
<1> SUFFICES ASSUME FilesInv PROVE Files!FilesAreWhole
  OBVIOUS
<1>1. Files!TypeOK
  <2>1. FilesTypes
    BY DEF FilesInv
  <2>2. Files!NoFile \in Stores
    BY DEF Stores
  <2>3. Copies = [file : Stores, tmp : Stores, bak : Stores]
        /\ Stores = Doc \cup {Files!NoFile, Files!Cut, Files!Empty}
        /\ Offsets = Doc \cup {Files!NoFile, Files!Empty}
    BY DEF Copies, Stores, Offsets
  <2>4. DOMAIN before = {"card", "marks", "faults"}
    BY <2>1 DEF FilesTypes, FilesData
  <2> QED BY <2>1, <2>3, <2>4 DEF Files!TypeOK, FilesTypes, FilesData, FilesControl, FilesBounds
<1>2. Files!OldOrNew
  BY DEF FilesInv, StoredIsOldOrNew, Files!OldOrNew
<1>3. Files!PartsAreNewUploads
  BY DEF FilesInv, PartsAreLeft, Files!PartsAreNewUploads, Files!Stored
<1> QED BY <1>1, <1>2, <1>3 DEF FilesInv, Files!FilesAreWhole

\* Nothing but an operation changes what a restart would find.
LEMMA RestartsChangeNothing ==
  FilesInv /\ [Files!Next]_filesVars =>
    [((at \in {"boot", "idle"} \/ at' = "boot") => UNCHANGED Files!StoredAll)]_filesVars
<1> SUFFICES ASSUME FilesInv, Files!Next, at \in {"boot", "idle"} \/ at' = "boot"
             PROVE  \A n \in Name : Files!Stored(card'[n]) = Files!Stored(card[n])
  BY DEF Files!StoredAll
<1>1. CASE Files!Boot
  BY <1>1, BootKeeps
<1>2. CASE Files!Reset \/ \E o \in Files!Op : Files!Start(o)
  BY <1>2 DEF Files!Reset, Files!Start
<1>3. CASE \E n \in Name : Files!Link(n) \/ Files!Unlink(n)
  BY <1>3 DEF Files!Link, Files!Unlink
<1>4. CASE Files!Create \/ Files!Prepare \/ Files!Stage \/ Files!Fill \/ Files!FillStopped
  BY <1>4 DEF Files!Create, Files!Prepare, Files!Stage, Files!Fill, Files!FillStopped,
              Files!Goto, Files!End
<1>5. CASE Files!FillLeftBehind \/ Files!BackupRefused \/ Files!PublishRefused \/ Files!CleanRefused
           \/ Files!CallRefused
  BY <1>5 DEF Files!FillLeftBehind, Files!BackupRefused, Files!PublishRefused,
              Files!CleanRefused, Files!CallRefused, Files!Refused
<1>6. CASE Files!Backup
  BY <1>6 DEF Files!Backup, Files!Goto
<1>7. CASE Files!Publish \/ Files!Clean
  BY <1>7 DEF Files!Publish, Files!Clean, Files!Proceed, Files!After, Files!Goto, Files!End
<1>8. CASE Files!Rename \/ Files!Mark \/ Files!Unmark \/ Files!Remove
  BY <1>8 DEF Files!Rename, Files!Mark, Files!Unmark, Files!Remove, Files!Goto, Files!End
<1>9. CASE Files!LinkCreated \/ Files!LinkRefused
  BY <1>9 DEF Files!LinkCreated, Files!LinkRefused
<1> QED BY <1>1, <1>2, <1>3, <1>4, <1>5, <1>6, <1>7, <1>8, <1>9 DEF Files!Next

\* A file tool writes under its own name only.
LEMMA ToolsWriteTheirName ==
  ASSUME FilesInv, Files!Next, Running, op.kind \in Files!Tool \cup {"undo"},
         NEW n \in Name, n # op.name
  PROVE  card'[n] = card[n]
<1>1. /\ op.kind \notin {"create", "upload", "copy", "rename"}
      /\ Files!Target(op) = op.name
  BY DEF Files!Tool, Files!Target
<1>2. card \in [Name -> Copies] /\ op.name \in Name
  BY OpFacts
<1>3. CASE Files!Boot \/ (\E o \in Files!Op : Files!Start(o))
           \/ (\E m \in Name : Files!Link(m) \/ Files!Unlink(m))
  BY <1>3 DEF Files!Boot, Files!Start, Files!Link, Files!Unlink, Running
<1>4. CASE Files!Reset \/ Files!FillLeftBehind \/ Files!CleanRefused \/ Files!CallRefused
             \/ Files!Mark
           \/ Files!Unmark \/ Files!LinkCreated \/ Files!LinkRefused
  BY <1>4 DEF Files!Reset, Files!FillLeftBehind, Files!CleanRefused, Files!CallRefused,
              Files!Mark, Files!Unmark, Files!LinkCreated, Files!LinkRefused
<1>5. CASE Files!Create \/ Files!Rename
  BY <1>1, <1>5 DEF FilesInv, FilesPlaces, Files!Create, Files!Rename
<1>6. CASE Files!Prepare \/ Files!BackupRefused
  BY <1>2, <1>6 DEF Files!Prepare, Files!BackupRefused, Files!TmpDropped
<1>7. CASE Files!Stage \/ Files!Fill \/ Files!FillStopped
  BY <1>1, <1>2, <1>7 DEF Files!Stage, Files!Fill, Files!FillStopped, Files!Put
<1>8. CASE Files!Clean \/ Files!Remove
  BY <1>2, <1>8 DEF Files!Clean, Files!Remove, Files!Put
<1>9. CASE Files!Backup \/ Files!Publish
  BY <1>1, <1>2, <1>9 DEF Files!Backup, Files!Publish, Files!Moved
<1>10. CASE Files!PublishRefused
  BY <1>1, <1>2, <1>10 DEF Files!PublishRefused
<1> QED BY <1>3, <1>4, <1>5, <1>6, <1>7, <1>8, <1>9, <1>10 DEF Files!Next

\* That name is one the project links, or one there was no file under.
LEMMA ToolsStay ==
  FilesInv /\ [Files!Next]_filesVars =>
    [\A n \in Name :
       /\ op.kind \in Files!Tool \cup {"undo"} /\ at \notin {"idle", "boot"}
       /\ Files!StoredAll'[n] # Files!StoredAll[n]
       => n \in links \/ Files!WasStored(n) = Files!NoFile \/ Files!BackupLeft(n)]_filesVars
<1> SUFFICES ASSUME FilesInv, Files!Next, NEW n \in Name,
                    op.kind \in Files!Tool \cup {"undo"}, at \notin {"idle", "boot"},
                    Files!Stored(card'[n]) # Files!Stored(card[n])
             PROVE  n \in links \/ Files!WasStored(n) = Files!NoFile \/ Files!BackupLeft(n)
  BY DEF Files!StoredAll
<1>1. n = op.name
  BY ToolsWriteTheirName DEF Running
<1>2. op.name \in links \/ before.card[op.name].file = Files!NoFile
  BY DEF FilesInv, AskedFirst, Running
<1> QED BY <1>1, <1>2 DEF Files!WasStored, Files!Stored, Files!BackupLeft

\* Neither a restart nor a file tool outside its project changes what is stored.
THEOREM ToolsLeaveOthers == ASSUME QuietFlush = FALSE PROVE ServicesSpec => Files!NothingElseChanges
<1>1. ServicesInit => FilesInv
  BY InitFiles
<1>2. FilesInv /\ [ServicesNext]_allVars => FilesInv'
  BY QuietFlush = FALSE, Frames, FilesInvKept
<1>3. FilesInv /\ [ServicesNext]_allVars =>
        [((at \in {"boot", "idle"} \/ at' = "boot") => UNCHANGED Files!StoredAll)]_filesVars
  BY Frames, RestartsChangeNothing
<1>4. FilesInv /\ [ServicesNext]_allVars =>
        [\A n \in Name :
           /\ op.kind \in Files!Tool \cup {"undo"} /\ at \notin {"idle", "boot"}
           /\ Files!StoredAll'[n] # Files!StoredAll[n]
           => n \in links \/ Files!WasStored(n) = Files!NoFile \/ Files!BackupLeft(n)]_filesVars
  BY Frames, ToolsStay
<1> QED
  BY <1>1, <1>2, <1>3, <1>4, PTL
     DEF ServicesSpec, Files!NothingElseChanges, Files!RestartsChangeNothing,
         Files!ToolsStayInTheProject, Files!vars, filesVars
=============================================================================
