------------------------- MODULE WebSshWorkerProofs -------------------------
(***************************************************************************)
(* That a session of WebSshWorker is safe, and that the browser is told    *)
(* the truth, whatever the profiles and the keys are.                      *)
(*                                                                         *)
(* Neither property is inductive: what may be said of a session depends on *)
(* where the task is.  IInv says, for each step of the task, how far the   *)
(* client and the flags have come (WhereTheTaskIs), what stands between    *)
(* the two tasks of a first connection (Waiting), which entry of           *)
(* known_hosts vouches for the session (Vouched), and what became of a     *)
(* stop (Stops).                                                           *)
(***************************************************************************)
EXTENDS WebSshWorker, TLAPS

\* The handle and the task agree; the stage it ends with is fixed late; a
\* terminal is announced behind its last look.
WhereTheTaskIs ==
  /\ wpc = "off" <=> task = "none"
  /\ wpc \notin {"off", "clear", "publish", "end"} => wstage = "Idle"
  /\ wpc = "clear" => wstage # "Connected"
  /\ wpc \in {"publish", "end"} => (terminalOpen <=> wstage = "Connected")
  /\ wpc \in {"publish", "end"} => ~secret
  /\ terminalOpen => wpc \in {"off", "publish", "end"}
  /\ hostChanged => wpc \in {"off", "clear", "publish", "end"}

\* How far the session has come when the task is at a step, or is over.
SessionOf(step) ==
  CASE step = "begin" -> IF task = "connect" THEN {"prepared"} ELSE {"connected"}
    [] step = "connect" -> {"prepared"}
    [] step = "connected" -> {"closed", "connected"}
    [] step \in {"trust", "authenticating", "authenticate"} -> {"connected"}
    [] step = "authenticated" -> {"closed", "authenticated"}
    [] step = "open" -> {"authenticated"}
    [] step = "opened" -> {"authenticated", "terminal", "ended"}
    [] step \in {"fail", "clear"} -> ClientState
    [] step \in {"publish", "end", "off"} ->
         IF terminalOpen THEN {"terminal", "ended"}
         ELSE IF awaitingTrust THEN {"connected"} ELSE {"closed"}
SessionFits ==
  /\ client \in SessionOf(wpc)
  /\ clientKey = Absent <=> client \in {"closed", "prepared"}

\* A host key that was shown waits alone: no task, no terminal, no block.
Waiting ==
  /\ awaitingTrust =>
       task = "none" /\ ~terminalOpen /\ ~hostChanged /\ fingerprint = clientKey
  /\ hostChanged => ~terminalOpen

\* Past the decision about trust, known_hosts holds the key of the session.
PastTrust ==
  \/ client \in {"authenticated", "terminal", "ended"}
  \/ wpc \in {"authenticating", "authenticate"}
  \/ wpc = "begin" /\ task = "authenticate"
Vouched == PastTrust => known[profile] = clientKey

\* A handler in progress belongs to a console that is served; one that uses
\* the client found a terminal, which the task leaves alone.
Handlers ==
  /\ mpc # "idle" => console = "on"
  /\ mpc \in {"using", "reading"} => terminalOpen

\* A stop of the running attempt is pending unless it came too late, and
\* nothing else asks the task to stop.
Stops ==
  /\ task # "none" /\ cancel => stopped
  /\ task # "none" /\ stopped /\ ~late => cancel
  /\ stopped /\ ~late /\ wpc \in {"publish", "end"} => wstage # "Connected"
  /\ wpc = "end" => stage = wstage \/ (late /\ stage = "Stopping")

IInv ==
  /\ TypeOK /\ WhereTheTaskIs /\ SessionFits /\ Waiting /\ Vouched /\ Handlers
  /\ ConnectionIsSelected /\ SecretIsNeeded /\ ClosedConsoleIsClean
  /\ Stops /\ OnlyAskedStops /\ StageIsTruthful /\ StopIsHonoured
-----------------------------------------------------------------------------
(* Each step preserves it *)

\* At the start there is neither a task nor a session.
LEMMA InitHolds == Init => IInv
  BY AbsentAssumption
  DEF Init, IInv, TypeOK, WhereTheTaskIs, SessionFits, SessionOf, Waiting,
      PastTrust, Vouched, Handlers, Stops, ConnectionIsSelected, SecretIsNeeded,
      ClosedConsoleIsClean, OnlyAskedStops, StageIsTruthful, Truthful,
      StopIsHonoured, Locked, Stage, WorkerStep, ClientStep, ClientState

\* One step of the task, whatever the handlers do meanwhile.
LEMMA WorkerPreserves == ASSUME IInv, Worker PROVE IInv'
<1> USE AbsentAssumption
    DEF IInv, TypeOK, WhereTheTaskIs, SessionFits, SessionOf, Waiting,
      PastTrust, Vouched, Handlers, Stops, ConnectionIsSelected, SecretIsNeeded,
      ClosedConsoleIsClean, OnlyAskedStops, StageIsTruthful, Truthful,
      StopIsHonoured, Locked, Stage, WorkerStep, ClientStep, ClientState,
      flags, session, worker, stored, history, WorkerFrame, To, Publish, Fail,
      Session, Closed, Disconnected
<1>1. CASE Begin
  BY <1>1 DEF Begin
<1>2. CASE Connect
  BY <1>2 DEF Connect, ConnectOutcome
<1>3. CASE Connected
  BY <1>3 DEF Connected
<1>4. CASE TrustUnreadable
  BY <1>4 DEF TrustUnreadable
<1>5. CASE TrustMatches
  BY <1>5 DEF TrustMatches, Trust, Entry
<1>6. CASE TrustChanged
  <2> USE <1>6 DEF TrustChanged, Trust, Entry
  <2>1. TypeOK'
    BY ZenonT(60)
  <2>2. WhereTheTaskIs' /\ Waiting' /\ Handlers'
    OBVIOUS
  <2>3. SessionFits' /\ Vouched'
    OBVIOUS
  <2>4. Stops' /\ OnlyAskedStops' /\ StageIsTruthful' /\ StopIsHonoured'
    OBVIOUS
  <2>5. ConnectionIsSelected' /\ SecretIsNeeded' /\ ClosedConsoleIsClean'
    OBVIOUS
  <2> QED BY <2>1, <2>2, <2>3, <2>4, <2>5
<1>7. CASE TrustMissing
  BY <1>7 DEF TrustMissing, Trust, Entry
<1>8. CASE Authenticating
  BY <1>8 DEF Authenticating
<1>9. CASE Authenticate
  BY <1>9 DEF Authenticate, AuthenticateOutcome
<1>10. CASE Authenticated
  BY <1>10 DEF Authenticated
<1>11. CASE OpenTerminal
  BY <1>11 DEF OpenTerminal, OpenOutcome
<1>12. CASE Opened
  <2> USE <1>12 DEF Opened
  <2>1. TypeOK'
    BY ZenonT(60)
  <2>2. WhereTheTaskIs' /\ Waiting' /\ Handlers'
    OBVIOUS
  <2>3. SessionFits' /\ Vouched'
    OBVIOUS
  <2>4. Stops' /\ OnlyAskedStops' /\ StageIsTruthful' /\ StopIsHonoured'
    OBVIOUS
  <2>5. ConnectionIsSelected' /\ SecretIsNeeded' /\ ClosedConsoleIsClean'
    OBVIOUS
  <2> QED BY <2>1, <2>2, <2>3, <2>4, <2>5
<1>13. CASE Failing
  BY <1>13 DEF Failing
<1>14. CASE Clear
  <2> USE <1>14 DEF Clear
  <2>1. TypeOK'
    BY ZenonT(60)
  <2>2. WhereTheTaskIs' /\ Waiting' /\ Handlers'
    OBVIOUS
  <2>3. SessionFits' /\ Vouched'
    OBVIOUS
  <2>4. Stops' /\ OnlyAskedStops' /\ StageIsTruthful' /\ StopIsHonoured'
    OBVIOUS
  <2>5. ConnectionIsSelected' /\ SecretIsNeeded' /\ ClosedConsoleIsClean'
    OBVIOUS
  <2> QED BY <2>1, <2>2, <2>3, <2>4, <2>5
<1>15. CASE PublishEnd
  BY <1>15 DEF PublishEnd
<1>16. CASE End
  <2> USE <1>16 DEF End
  <2>1. TypeOK'
    <3>1. {cancel, hostChanged, awaitingTrust, terminalOpen, secret}' \subseteq BOOLEAN
      OBVIOUS
    <3>2. {stopped, late}' \subseteq BOOLEAN
      OBVIOUS
    <3> QED BY <3>1, <3>2
  <2>2. WhereTheTaskIs' /\ Waiting' /\ Handlers'
    OBVIOUS
  <2>3. SessionFits' /\ Vouched'
    OBVIOUS
  <2>4. Stops' /\ OnlyAskedStops' /\ StageIsTruthful' /\ StopIsHonoured'
    OBVIOUS
  <2>5. ConnectionIsSelected' /\ SecretIsNeeded' /\ ClosedConsoleIsClean'
    OBVIOUS
  <2> QED BY <2>1, <2>2, <2>3, <2>4, <2>5
<1> QED
  BY <1>1, <1>2, <1>3, <1>4, <1>5, <1>6, <1>7, <1>8, <1>9, <1>10, <1>11, <1>12,
     <1>13, <1>14, <1>15, <1>16 DEF Worker

\* A stop, whoever asks for it: of the running task, or of what is left.
LEMMA StopPreserves ==
  ASSUME IInv, CloseConnection, console = "on", console' \in {"on", "closing"},
         mpc' = "idle", stopped', UNCHANGED stored
  PROVE  IInv'
<1> USE AbsentAssumption
    DEF IInv, TypeOK, WhereTheTaskIs, SessionFits, SessionOf, Waiting,
      PastTrust, Vouched, Handlers, Stops, ConnectionIsSelected, SecretIsNeeded,
      ClosedConsoleIsClean, OnlyAskedStops, StageIsTruthful, Truthful,
      StopIsHonoured, Locked, Stage, WorkerStep, ClientStep, ClientState,
      flags, session, worker, stored, Session, Closed, Disconnected,
      CloseConnection, TooLate
<1>1. CASE task # "none"
  <2>1. TypeOK'
    BY <1>1
  <2>2. WhereTheTaskIs' /\ Waiting' /\ Handlers' /\ SessionFits' /\ Vouched'
    BY <1>1
  <2>3. Stops' /\ OnlyAskedStops' /\ StageIsTruthful' /\ StopIsHonoured'
    BY <1>1
  <2>4. ConnectionIsSelected' /\ SecretIsNeeded' /\ ClosedConsoleIsClean'
    BY <1>1
  <2> QED BY <2>1, <2>2, <2>3, <2>4
<1>2. CASE task = "none"
  <2>1. TypeOK'
    BY <1>2
  <2>2. WhereTheTaskIs' /\ Waiting' /\ Handlers' /\ SessionFits' /\ Vouched'
    BY <1>2
  <2>3. Stops' /\ OnlyAskedStops' /\ StageIsTruthful' /\ StopIsHonoured'
    BY <1>2
  <2>4. ConnectionIsSelected' /\ SecretIsNeeded' /\ ClosedConsoleIsClean'
    BY <1>2
  <2> QED BY <2>1, <2>2, <2>3, <2>4
<1> QED
  BY <1>1, <1>2

\* One step of a handler, or of the loop of the console.
LEMMA MainPreserves == ASSUME IInv, Main PROVE IInv'
<1>1. CASE Stop
  BY <1>1, StopPreserves DEF Stop, Serving
<1>2. CASE PollClose
  BY <1>2, StopPreserves DEF PollClose, IInv, Handlers
<1>3. CASE Leave
  BY <1>3, StopPreserves DEF Leave, Serving
<1> USE AbsentAssumption
    DEF IInv, TypeOK, WhereTheTaskIs, SessionFits, SessionOf, Waiting,
      PastTrust, Vouched, Handlers, Stops, ConnectionIsSelected, SecretIsNeeded,
      ClosedConsoleIsClean, OnlyAskedStops, StageIsTruthful, Truthful,
      StopIsHonoured, Locked, Stage, WorkerStep, ClientStep, ClientState,
      flags, session, worker, stored, history, Serving, Session, Closed,
      Disconnected, Forgotten, CloseConnection, TooLate
<1>4. CASE StartRefused
  BY <1>4 DEF StartRefused
<1>5. CASE Start
  BY <1>5 DEF Start, Prepared, StartWorker
<1>6. CASE TrustAccepted
  BY <1>6 DEF TrustAccepted, Trust, Entry, Remember, StartWorker
<1>7. CASE TrustFailed
  BY <1>7, ZenonT(60) DEF TrustFailed, Trust, Entry, Remember, NoWorker
<1>8. CASE Forget
  BY <1>8 DEF Forget, ForgetAllowed, Remove
<1>9. CASE ForgetRefused
  BY <1>9 DEF ForgetRefused, ForgetAllowed, Remove
<1>10. CASE ChangeProfile
  BY <1>10 DEF ChangeProfile
<1>11. CASE Prompt
  BY <1>11 DEF Prompt
<1>12. CASE Use
  BY <1>12 DEF Use
<1>13. CASE Poll
  BY <1>13 DEF Poll
<1>14. CASE Used
  BY <1>14 DEF Used
<1>15. CASE Read
  BY <1>15 DEF Read
<1>16. CASE Look
  BY <1>16 DEF Look
<1>17. CASE Open
  BY <1>17 DEF Open
<1>18. CASE Release
  BY <1>18 DEF Release
<1> QED
  BY <1>1, <1>2, <1>3, <1>4, <1>5, <1>6, <1>7, <1>8, <1>9, <1>10, <1>11, <1>12,
     <1>13, <1>14, <1>15, <1>16, <1>17, <1>18
  DEF Main, Handling

\* The server ends the terminal, or the device restarts.
LEMMA OthersPreserve == ASSUME IInv, RemoteEnds \/ Reset PROVE IInv'
<1> USE AbsentAssumption
    DEF IInv, TypeOK, WhereTheTaskIs, SessionFits, SessionOf, Waiting,
      PastTrust, Vouched, Handlers, Stops, ConnectionIsSelected, SecretIsNeeded,
      ClosedConsoleIsClean, OnlyAskedStops, StageIsTruthful, Truthful,
      StopIsHonoured, Locked, Stage, WorkerStep, ClientStep, ClientState,
      flags, session, worker, stored, history, Session
<1>1. CASE RemoteEnds
  BY <1>1 DEF RemoteEnds
<1>2. CASE Reset
  BY <1>2 DEF Reset
<1> QED
  BY <1>1, <1>2

\* A step of something else.
LEMMA StutterPreserves == ASSUME IInv, UNCHANGED vars PROVE IInv'
<1> USE DEF vars, flags, session, worker, stored, history
<1>1. TypeOK'
  BY DEF IInv, TypeOK
<1>2. WhereTheTaskIs' /\ Waiting' /\ Handlers' /\ SessionFits' /\ Vouched'
  BY DEF IInv, WhereTheTaskIs, Waiting, Handlers, SessionFits, SessionOf,
         PastTrust, Vouched
<1>3. Stops' /\ OnlyAskedStops' /\ StageIsTruthful' /\ StopIsHonoured'
  BY DEF IInv, Stops, OnlyAskedStops, StageIsTruthful, Truthful, StopIsHonoured
<1>4. ConnectionIsSelected' /\ SecretIsNeeded' /\ ClosedConsoleIsClean'
  BY DEF IInv, ConnectionIsSelected, SecretIsNeeded, ClosedConsoleIsClean, Locked
<1> QED BY <1>1, <1>2, <1>3, <1>4 DEF IInv

\* IInv holds in every behaviour.
THEOREM Invariance == Spec => []IInv
<1>1. IInv /\ [Next]_vars => IInv'
  BY WorkerPreserves, MainPreserves, OthersPreserve, StutterPreserves DEF Next
<1> QED
  BY InitHolds, <1>1, PTL DEF Spec

-----------------------------------------------------------------------------
(* What follows *)

\* The session is safe: the task and the handlers never use the client at
\* once, it authenticates and opens a terminal only with the key in
\* known_hosts, for the selected profile, and connection and secret go when
\* the attempt, the terminal or the console is over.
THEOREM SessionSafety == Spec => []SessionIsSafe
<1>1. IInv => SessionIsSafe
  <2> SUFFICES ASSUME IInv PROVE SessionIsSafe
    OBVIOUS
  <2>1. ClientHasOneUser
    BY DEF IInv, WhereTheTaskIs, Handlers, ClientHasOneUser, ClientStep
  <2>2. OnlyTrustedHosts
    BY DEF IInv, SessionFits, SessionOf, Vouched, PastTrust, OnlyTrustedHosts
  <2> QED
    BY <2>1, <2>2 DEF IInv, SessionIsSafe
<1> QED
  BY Invariance, <1>1, PTL

\* The browser is told the truth: stops are honoured and only stops end an
\* attempt as stopped, the stage it is shown is what there is, what a lost stop
\* leaves open is marked, and a changed host key can always be forgotten.
THEOREM BrowserTold == Spec => []BrowserIsTold
<1>1. IInv => BrowserIsTold
  <2> SUFFICES ASSUME IInv PROVE BrowserIsTold
    OBVIOUS
  <2>1. NothingIsOrphaned
    BY DEF IInv, WhereTheTaskIs, SessionFits, SessionOf, NothingIsOrphaned
  <2>2. MismatchCanBeForgotten
    BY DEF IInv, WhereTheTaskIs, Waiting, ConnectionIsSelected, Locked,
           ForgetAllowed, MismatchCanBeForgotten
  <2> QED
    BY <2>1, <2>2 DEF IInv, BrowserIsTold
<1> QED
  BY Invariance, <1>1, PTL

=============================================================================
