------------------------------ MODULE MCServices ------------------------------
(***************************************************************************)
(* Services that share no state with each other, checked in one run: each  *)
(* behaviour is that of one of them.  AtomicFile is extended, so that its  *)
(* assumption is evaluated too; a property of another service is the one   *)
(* its module states.                                                      *)
(***************************************************************************)
EXTENDS AtomicFile, Integers

CONSTANTS
  None, Old, New, Part, Theirs,
  Browser, Wrap, LockTicks, LifeTicks, BeatTicks, MaxFailures,
  MaxMessages, Sizes, Budget, TailMessages, RetainedMessages, Refusals,
  Name, Doc, QuietFlush, MaxOps, MaxFaults, MaxResets,
  Version, MaxEdits, MaxSaves, Few,
  MinSamples, MaxSamples, Pieces, Chunks, Segments, MaxTakes,
  MaxQuestions, MaxPieces, MaxAttempts, MaxRounds

\* Versions are numbered from 1 and there is an oldest; the bounds of the runs are
\* finite.  A lock and a session last less than the clock takes to wrap around:
\* 30 s (kLoginLockMs) and the lifetime, of 2^32 ms.
ASSUME ServicesAssumption ==
  /\ Version \subseteq Nat \ {0} /\ \E v \in Version : \A w \in Version : v <= w
  /\ {MaxOps, MaxFaults, MaxResets, MaxSaves, Few} \subseteq Nat
  /\ {MinSamples, MaxSamples, Segments, MaxTakes} \subseteq Nat
  /\ {MaxMessages, RetainedMessages} \subseteq Nat /\ TailMessages \in Nat \ {0}
  /\ {MaxQuestions, MaxPieces, MaxRounds} \subseteq Nat
  /\ {Wrap, LockTicks, LifeTicks, MaxFailures, Pieces, Chunks, MaxAttempts}
       \subseteq Nat \ {0}
  /\ LifeTicks < Wrap /\ 2 * LockTicks <= Wrap

\* What a path holds can be told apart.
ASSUME ContentsAssumption ==
  /\ None \notin {Old, New, Part, Theirs} /\ Old \notin {New, Part, Theirs}
  /\ New \notin {Part, Theirs} /\ Part # Theirs

\* A document is its length, of those in Doc the largest is in the files at first.
ASSUME LengthsAssumption ==
  Doc \subseteq Nat \ {0} /\ \E d \in Doc : \A e \in Doc : e <= d

VARIABLES
  service,
  job, dst, src, staged, ssh, req, wire, call, owned, resolving, fault, canceled, late, reply,
  now, open, passed, expires, session, cookie, activityAt, failures, lockedUntil,
  presence, beatAt, idle, sinceLock,
  log, counted, covered, window, surface, automatic, asking, lost,
  card, marks, links, op, at, had, told, before, partial, left,
  image, boot, bin, download, nvs, info, phase, trouble, leftover, budget,
  uniDepth, uniFile, uniPart, uniOwner, uniAlien, uniTrust, uniRam, uniCmd, uniPc, uniTold,
  uniOurs, uniRefused, uniChanged, uniLeft,
  bigKind, bigOwner, bigStray, bigRoot, bigFile, bigBackup, bigAlien, bigCmd, bigPc, bigTold,
  bigRefused, bigLeft,
  sharedRoot, sharedOwner, sharedFile, sharedDir, sharedListed, sharedAlien, sharedTwin,
  sharedCmd, sharedPc, sharedRole, sharedTold, sharedRefused, sharedLeft,
  setNvs, setRam, setCopy, setForm, setEdited, setPc, setEditor, setPut, setExit, setApplied,
  setTold, setAsked, setUnapplied, setStale, setLeft,
  sayPc, sayReady, sayValid, sayAttempt, sayWav, sayTakes, sayReply, sayDraft, sayKept,
  sayDoc, sayChunk, saySegment, sayPcm, sayPos, sayRing, sayNext, sayQueue, sayHeard,
  sayTold, sayLeft,
  ansPc, ansAsk, ansRound, ansRetried, ansRequired, ansWritten, ansFile,
  ansTurn, ansAttempt, ansBody, ansSink, ansGood, ansBuffer, ansShown, ansSaid, ansMade,
  ansTold, ansLeft

Sftp == INSTANCE SftpTransfer WITH tmp <- staged, pc <- call, session <- ssh
Web == INSTANCE WebSession
Context == INSTANCE ContextWindow
Files == INSTANCE Workspace WITH MaxFaults <- Few, pc <- at, reply <- told
Firmware == INSTANCE FirmwareUpdate WITH
              tmp <- download, pc <- phase, left <- budget, Size <- [v \in Version |-> v \div 4]
Unicode == INSTANCE UnicodeFixture WITH
             MaxFaults <- Few, depth <- uniDepth, target <- uniFile, part <- uniPart,
             owner <- uniOwner, alien <- uniAlien, trust <- uniTrust, ram <- uniRam,
             cmd <- uniCmd, pc <- uniPc, told <- uniTold, ours <- uniOurs,
             refused <- uniRefused, changed <- uniChanged, left <- uniLeft
Large == INSTANCE CardFixture WITH
           kind <- bigKind, owner <- bigOwner, stray <- bigStray, root <- bigRoot,
           file <- bigFile, backup <- bigBackup, alien <- bigAlien, cmd <- bigCmd,
           pc <- bigPc, told <- bigTold, refused <- bigRefused, left <- bigLeft
Shared == INSTANCE SharedFixture WITH
            MaxFaults <- Few, root <- sharedRoot, owner <- sharedOwner, file <- sharedFile,
            dir <- sharedDir, listed <- sharedListed, alien <- sharedAlien, twin <- sharedTwin,
            cmd <- sharedCmd, pc <- sharedPc, role <- sharedRole, told <- sharedTold,
            refused <- sharedRefused, left <- sharedLeft
Settings == INSTANCE DeviceSettings WITH
              MaxFaults <- Few, MaxResets <- Few,
              nvs <- setNvs, ram <- setRam, copy <- setCopy, form <- setForm,
              edited <- setEdited, pc <- setPc, editor <- setEditor, put <- setPut,
              exit <- setExit, applied <- setApplied, told <- setTold, asked <- setAsked,
              unapplied <- setUnapplied, stale <- setStale, left <- setLeft
Speech == INSTANCE Voice WITH
            MaxFaults <- Few, MaxResets <- Few, Documents <- [1..Chunks -> 0..Segments],
            pc <- sayPc, ready <- sayReady, valid <- sayValid, attempt <- sayAttempt, wav
            <- sayWav, takes <- sayTakes, reply <- sayReply, draft <- sayDraft, kept <-
            sayKept, doc <- sayDoc, chunk <- sayChunk, segment <- saySegment, pcm <-
            sayPcm, pos <- sayPos, ring <- sayRing, next <- sayNext, queue <- sayQueue,
            heard <- sayHeard, told <- sayTold, left <- sayLeft

\* Without tools, a search command, a file asked for, and one to be written
\* after a search.
Asked ==
  {[kind |-> "plain", access |-> FALSE, write |-> FALSE, groups |-> {}],
   [kind |-> "search", access |-> FALSE, write |-> FALSE, groups |-> {"web"}],
   [kind |-> "tools", access |-> TRUE, write |-> FALSE, groups |-> {}],
   [kind |-> "tools", access |-> TRUE, write |-> TRUE, groups |-> {"web"}]}
Model == INSTANCE Completion WITH
            Questions <- Asked, MaxFaults <- Few, MaxResets <- Few,
            pc <- ansPc, ask <- ansAsk, round <- ansRound,
            retried <- ansRetried, required <- ansRequired, written
            <- ansWritten, file <- ansFile, turn <- ansTurn, attempt <-
            ansAttempt, body <- ansBody, sink <- ansSink, good <- ansGood,
            buffer <- ansBuffer, shown <- ansShown, said <- ansSaid, made <-
            ansMade, told <- ansTold, left <- ansLeft

sftpVars == <<job, dst, src, staged, ssh, req, wire, call, owned, resolving, fault, canceled,
              late, reply>>
webVars == <<now, open, passed, expires, session, cookie, activityAt, failures, lockedUntil,
             presence, beatAt, idle, sinceLock>>
contextVars == <<log, counted, covered, window, surface, automatic, asking, lost>>
filesVars == <<card, marks, links, op, at, had, told, before, partial, left>>
firmwareVars == <<image, boot, bin, download, nvs, info, phase, trouble, leftover, budget>>
uniVars == <<uniDepth, uniFile, uniPart, uniOwner, uniAlien, uniTrust, uniRam, uniCmd, uniPc,
             uniTold, uniOurs, uniRefused, uniChanged, uniLeft>>
bigVars == <<bigKind, bigOwner, bigStray, bigRoot, bigFile, bigBackup, bigAlien, bigCmd, bigPc,
             bigTold, bigRefused, bigLeft>>
sharedVars == <<sharedRoot, sharedOwner, sharedFile, sharedDir, sharedListed, sharedAlien,
                sharedTwin, sharedCmd, sharedPc, sharedRole, sharedTold, sharedRefused,
                sharedLeft>>
setVars == <<setNvs, setRam, setCopy, setForm, setEdited, setPc, setEditor, setPut, setExit,
             setApplied, setTold, setAsked, setUnapplied, setStale, setLeft>>
sayVars == <<sayPc, sayReady, sayValid, sayAttempt, sayWav, sayTakes, sayReply, sayDraft,
             sayKept, sayDoc, sayChunk, saySegment, sayPcm, sayPos, sayRing, sayNext,
             sayQueue, sayHeard, sayTold, sayLeft>>
answerVars == <<ansPc, ansAsk, ansRound, ansRetried, ansRequired,
               ansWritten, ansFile, ansTurn, ansAttempt, ansBody, ansSink, ansGood,
               ansBuffer, ansShown, ansSaid, ansMade, ansTold, ansLeft>>
fixtureVars == <<uniVars, bigVars, sharedVars>>
allVars == <<service, vars, sftpVars, webVars, contextVars, filesVars, firmwareVars,
             fixtureVars, setVars, sayVars, answerVars>>

\* Only the service a behaviour is about has more than one beginning.
ServicesInit ==
  /\ service \in {"atomic", "sftp", "web", "context", "files", "firmware",
                "unicode", "large", "shared", "settings", "voice",
                "answer"}
  /\ Init /\ Sftp!Init /\ Web!Init /\ Context!Init /\ Files!Init /\ Firmware!Init
  /\ Unicode!Init /\ Large!Init /\ Shared!Init /\ Settings!Init /\ Speech!Init
  /\ Model!Init
  /\ service # "web" => now = 0
  /\ service # "context" => automatic
  /\ service # "unicode" => uniTrust = "none"
  /\ service # "large" => bigKind = "large"
  /\ service # "settings" => setNvs["policy"] = 1
  /\ service # "answer" => ansFile = Model!NoFile
  /\ service # "files" => \A n \in Name : ~Files!Exists(n)

AtomicStep ==
  /\ service = "atomic" /\ Next
  /\ UNCHANGED <<service, sftpVars, webVars, contextVars, filesVars, firmwareVars,
                 fixtureVars, setVars, sayVars, answerVars>>
SftpStep ==
  /\ service = "sftp" /\ Sftp!Next
  /\ UNCHANGED <<service, vars, webVars, contextVars, filesVars, firmwareVars, fixtureVars,
                 setVars, sayVars, answerVars>>
WebStep ==
  /\ service = "web" /\ Web!Next
  /\ UNCHANGED <<service, vars, sftpVars, contextVars, filesVars, firmwareVars, fixtureVars,
                 setVars, sayVars, answerVars>>
ContextStep ==
  /\ service = "context" /\ Context!Next
  /\ UNCHANGED <<service, vars, sftpVars, webVars, filesVars, firmwareVars, fixtureVars,
                 setVars, sayVars, answerVars>>
FilesStep ==
  /\ service = "files" /\ Files!Next
  /\ UNCHANGED <<service, vars, sftpVars, webVars, contextVars, firmwareVars, fixtureVars,
                 setVars, sayVars, answerVars>>
FirmwareStep ==
  /\ service = "firmware" /\ Firmware!Next
  /\ UNCHANGED <<service, vars, sftpVars, webVars, contextVars, filesVars, fixtureVars,
                 setVars, sayVars, answerVars>>
UnicodeStep ==
  /\ service = "unicode" /\ Unicode!Next
  /\ UNCHANGED <<service, vars, sftpVars, webVars, contextVars, filesVars, firmwareVars,
                 bigVars, sharedVars, setVars, sayVars, answerVars>>
LargeStep ==
  /\ service = "large" /\ Large!Next
  /\ UNCHANGED <<service, vars, sftpVars, webVars, contextVars, filesVars, firmwareVars,
                 uniVars, sharedVars, setVars, sayVars, answerVars>>
SharedStep ==
  /\ service = "shared" /\ Shared!Next
  /\ UNCHANGED <<service, vars, sftpVars, webVars, contextVars, filesVars, firmwareVars,
                 uniVars, bigVars, setVars, sayVars, answerVars>>
SettingsStep ==
  /\ service = "settings" /\ Settings!Next
  /\ UNCHANGED <<service, vars, sftpVars, webVars, contextVars, filesVars, firmwareVars,
                 fixtureVars, sayVars, answerVars>>
VoiceStep ==
  /\ service = "voice" /\ Speech!Next
  /\ UNCHANGED <<service, vars, sftpVars, webVars, contextVars, filesVars, firmwareVars,
                 fixtureVars, setVars, answerVars>>
AnswerStep ==
  /\ service = "answer" /\ Model!Next
  /\ UNCHANGED <<service, vars, sftpVars, webVars, contextVars, filesVars, firmwareVars,
                 fixtureVars, setVars, sayVars>>

ServicesNext == AtomicStep \/ SftpStep \/ WebStep \/ ContextStep \/ FilesStep \/ FirmwareStep
                \/ UnicodeStep \/ LargeStep \/ SharedStep \/ SettingsStep \/ VoiceStep
                \/ AnswerStep

ServicesSpec == ServicesInit /\ [][ServicesNext]_allVars

-----------------------------------------------------------------------------
\* WebSession: a request is answered only within the lifetime of its session,
\* and nobody gets in while the lock of failed attempts lasts.
SessionsAreGuarded == []Web!SessionIsFresh /\ Web!LockHolds

\* ContextWindow: a request fits, in order, beside the summary of its chat.
RequestsAreRight == Context!RequestsAreRight

\* Workspace, SftpTransfer: a file is whole, and what is reported of an operation
\* or a transfer and of what it leaves behind is true.
FilesAreAsTold == Files!FilesAreWhole /\ Sftp!ReportsAreTrue

\* Completion: an answer that is given is all of it, and what was required.
AnswersAreWhole == Model!AnswersAreWhole

\* FirmwareUpdate: what is installed was verified, what is interrupted resumed.
UpdateIsSafe == Firmware!UpdateIsSafe

\* DeviceSettings: a setting is as it was reported, or asked for since.
SettingsAreAsTold == Settings!SettingsAreAsTold

\* Voice: what is heard, written down and left behind is what it should be.
VoiceIsFaithful == Speech!VoiceIsFaithful

\* The fixtures of the diagnostics: a cleanup that nobody stood in the way of
\* leaves nothing behind, not even the trust in a host, after any resets.
CleanupsSettle ==
  /\ Unicode!Settles /\ []Unicode!TrustIsReturned /\ Large!Settles /\ Shared!Settles

\* Nothing else changes: not what the user put into a fixture, not a file that a
\* transfer was not to overwrite or that is not its own, and no file by a restart
\* or by a tool outside its project.
OthersStay ==
  /\ Unicode!OthersStay /\ Large!OthersStay /\ Shared!OthersStay
  /\ Sftp!NothingElseIsTouched /\ Files!NothingElseChanges
=============================================================================
