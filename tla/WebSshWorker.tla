---------------------------- MODULE WebSshWorker ----------------------------
(***************************************************************************)
(* The SSH terminal of the Web Console: the handlers of web_console.cpp,   *)
(* which run in the main loop, and the FreeRTOS task that connects,        *)
(* authenticates and opens the terminal beside them (runWebSshWorker).     *)
(* They share one SshClient (ssh_client.cpp), which has no lock, and a few *)
(* variables, of which some are written under webSshStateMux.              *)
(*                                                                         *)
(* One action of the task is one access to the shared state or one call of *)
(* the client.  A handler that found no task is alone until it starts one, *)
(* so it is one action; handlers that overlap with the task, or use the    *)
(* client for a while, have a step of their own for each access.           *)
(***************************************************************************)
EXTENDS FiniteSets

CONSTANTS Profile, \* a profile's id, host and port
          Key,     \* host keys a server may show
          Absent   \* no key, no profile

ASSUME AbsentAssumption == Absent \notin Profile \cup Key

VARIABLES
  task,         \* webSshTask: "none", or what the task was started for
  stage,        \* webSshStage
  cancel,       \* webSshCancelRequested
  hostChanged, awaitingTrust, terminalOpen,
  fingerprint,  \* webSshFingerprint
  profile,      \* webSshProfileId, -Host, -Port
  secret,       \* webSshProfile holds a password or a passphrase
  client,       \* webSshClient: how far the session has come
  clientKey,    \* its hostFingerprint
  wpc, wstage,  \* the task: next step, and the stage it will end with
  mpc,          \* the main loop: the handler in progress
  console,      \* runWebConsole: "off", "on", "closing"
  known,        \* known_hosts on the card
  selected,     \* the selected profile
  stopped,      \* history: a stop was answered since the last start
  late          \* history: after the task had looked for the last time

worker == <<task, wpc, wstage>>
flags == <<stage, cancel, hostChanged, awaitingTrust, terminalOpen, fingerprint>>
session == <<profile, secret, client, clientKey>>
stored == <<known, selected>>
history == <<stopped, late>>
vars == <<worker, flags, session, mpc, console, stored, history>>

Stage == {"Idle", "Connecting", "AwaitingTrust", "Authenticating", "Opening",
          "Connected", "Stopping", "Failed"}
\* The steps of the task in which it calls the client.
ClientStep == {"connect", "authenticate", "open", "clear"}
WorkerStep == ClientStep \cup
  {"off", "begin", "connected", "trust", "authenticating", "authenticated",
   "opened", "fail", "publish", "end"}
ClientState == {"closed", "prepared", "connected", "authenticated", "terminal",
                "ended"}

TypeOK ==
  /\ task \in {"none", "connect", "authenticate"}
  /\ stage \in Stage /\ wstage \in {"Idle", "Failed", "Connected"}
  /\ {cancel, hostChanged, awaitingTrust, terminalOpen, secret} \subseteq BOOLEAN
  /\ fingerprint \in Key \cup {Absent} /\ clientKey \in Key \cup {Absent}
  /\ profile \in Profile \cup {Absent} /\ selected \in Profile
  /\ client \in ClientState /\ wpc \in WorkerStep
  /\ mpc \in {"idle", "using", "reading", "read", "closing"}
  /\ console \in {"off", "on", "closing"}
  /\ known \in [Profile -> Key \cup {Absent}]
  /\ {stopped, late} \subseteq BOOLEAN

Init ==
  /\ task = "none" /\ wpc = "off" /\ wstage = "Idle" /\ stage = "Idle"
  /\ cancel = FALSE /\ hostChanged = FALSE /\ awaitingTrust = FALSE
  /\ terminalOpen = FALSE /\ fingerprint = Absent /\ profile = Absent
  /\ secret = FALSE /\ client = "closed" /\ clientKey = Absent
  /\ mpc = "idle" /\ console = "off" /\ stopped = FALSE /\ late = FALSE
  /\ known = [p \in Profile |-> Absent] /\ selected \in Profile

-----------------------------------------------------------------------------
(* The client                                                              *)

Session(c, k) == client' = c /\ clientKey' = k
Closed == Session("closed", Absent)                   \* SshClient::close

\* connectPrepared: refused, or a session with the key the server shows.
ConnectOutcome == Closed \/ \E k \in Key : Session("connected", k)
\* authenticate closes the client when the server refuses.
AuthenticateOutcome == Closed \/ Session("authenticated", clientKey)
\* openTerminal leaves the session as it is when the channel is refused.
OpenOutcome == UNCHANGED <<client, clientKey>> \/ Session("terminal", clientKey)
IsOpen == client = "terminal"

Prepared == Session("prepared", Absent)               \* prepareConnection

\* known_hosts: loadTrustedSshFingerprint, trustSshHost, forgetTrustedSshHost.
Entry == known[profile]
Remember == known' = [known EXCEPT ![profile] = fingerprint]
Remove == known' = [known EXCEPT ![profile] = Absent]
\* checkTrustedSshHost, for a file that can be read
Trust(k) ==
  IF Entry = Absent THEN "missing" ELSE IF Entry = k THEN "matches" ELSE "changed"

-----------------------------------------------------------------------------
(* Shared by both sides                                                    *)

Locked == task # "none" \/ awaitingTrust \/ terminalOpen \/ hostChanged

\* clearWebSshConnection
Disconnected ==
  /\ Closed /\ awaitingTrust' = FALSE /\ terminalOpen' = FALSE /\ secret' = FALSE
\* clearWebSshAuthorityCapture
Forgotten == profile' = Absent /\ hostChanged' = FALSE /\ fingerprint' = Absent

\* A stop comes too late to be seen: a terminal is being handed over, or the
\* last stage has been published.
TooLate == wpc = "end" \/ (wpc = "publish" /\ wstage = "Connected")

\* closeWebSshConnection: ask the task to stop, or close.
CloseConnection ==
  IF task # "none"
  THEN /\ cancel' = TRUE /\ stage' = "Stopping"
       /\ late' = (late \/ TooLate)
       /\ UNCHANGED <<hostChanged, awaitingTrust, terminalOpen, fingerprint,
                      session, worker>>
  ELSE /\ Disconnected /\ stage' = "Idle" /\ late' = FALSE
       /\ UNCHANGED <<cancel, hostChanged, fingerprint, profile, worker>>

-----------------------------------------------------------------------------
(* The task                                                                *)

To(step) == wpc' = step /\ UNCHANGED <<task, wstage>>
Publish(s) == stage' = s
Fail == To("fail")
WorkerFrame == UNCHANGED <<mpc, console, stored, history>>

Begin ==
  /\ wpc = "begin"
  /\ IF task = "authenticate" THEN To("authenticating") /\ UNCHANGED stage
     ELSE To("connect") /\ Publish("Connecting")
  /\ UNCHANGED <<cancel, hostChanged, awaitingTrust, terminalOpen, fingerprint,
                 session>>
  /\ WorkerFrame

Connect ==
  /\ wpc = "connect" /\ ConnectOutcome /\ To("connected")
  /\ UNCHANGED <<flags, profile, secret>> /\ WorkerFrame

Connected ==
  /\ wpc = "connected"
  /\ IF client = "closed" \/ cancel THEN Fail ELSE To("trust")
  /\ UNCHANGED <<flags, session>> /\ WorkerFrame

\* The trust decision.  Without an entry the task ends and leaves the session
\* open for handleSshTrust.
TrustUnreadable ==
  /\ wpc = "trust" /\ wpc' = "clear" /\ wstage' = "Failed"
  /\ UNCHANGED <<task, flags, session>> /\ WorkerFrame
TrustMatches ==
  /\ wpc = "trust" /\ Trust(clientKey) = "matches" /\ To("authenticating")
  /\ UNCHANGED <<flags, session>> /\ WorkerFrame
TrustChanged ==
  /\ wpc = "trust" /\ Trust(clientKey) = "changed"
  /\ fingerprint' = clientKey /\ hostChanged' = TRUE /\ awaitingTrust' = FALSE
  /\ wpc' = "clear" /\ wstage' = "Failed"
  /\ UNCHANGED <<task, stage, cancel, terminalOpen, session>> /\ WorkerFrame
TrustMissing ==
  /\ wpc = "trust" /\ Trust(clientKey) = "missing"
  /\ fingerprint' = clientKey /\ hostChanged' = FALSE /\ awaitingTrust' = TRUE
  /\ Publish("AwaitingTrust") /\ task' = "none" /\ wpc' = "off"
  /\ late' = (late \/ cancel)
  /\ UNCHANGED <<wstage, cancel, terminalOpen, session, mpc, console, stored,
                 stopped>>

Authenticating ==
  /\ wpc = "authenticating" /\ Publish("Authenticating") /\ To("authenticate")
  /\ UNCHANGED <<cancel, hostChanged, awaitingTrust, terminalOpen, fingerprint,
                 session>>
  /\ WorkerFrame

Authenticate ==
  /\ wpc = "authenticate" /\ AuthenticateOutcome /\ To("authenticated")
  /\ UNCHANGED <<flags, profile, secret>> /\ WorkerFrame

Authenticated ==
  /\ wpc = "authenticated"
  /\ IF client = "closed" \/ cancel THEN Fail /\ UNCHANGED stage
     ELSE To("open") /\ Publish("Opening")
  /\ UNCHANGED <<cancel, hostChanged, awaitingTrust, terminalOpen, fingerprint,
                 session>>
  /\ WorkerFrame

\* The check behind openTerminal: the last look at the cancellation.
OpenTerminal ==
  /\ wpc = "open" /\ OpenOutcome
  /\ wpc' = "opened" /\ UNCHANGED <<task, wstage>>
  /\ UNCHANGED <<flags, profile, secret>> /\ WorkerFrame
\* Mutant: the last look is skipped.
OpenedBlind ==
  /\ wpc = "opened"
  /\ IF client # "terminal"
     THEN Fail /\ UNCHANGED <<flags, session>>
     ELSE /\ awaitingTrust' = FALSE /\ terminalOpen' = TRUE /\ secret' = FALSE
          /\ wpc' = "publish" /\ wstage' = "Connected"
          /\ UNCHANGED <<task, stage, cancel, hostChanged, fingerprint, profile,
                         client, clientKey>>
  /\ WorkerFrame
Opened ==
  /\ wpc = "opened"
  /\ IF client # "terminal" \/ cancel
     THEN Fail /\ UNCHANGED <<flags, session>>
     ELSE /\ awaitingTrust' = FALSE /\ terminalOpen' = TRUE /\ secret' = FALSE
          /\ wpc' = "publish" /\ wstage' = "Connected"
          /\ UNCHANGED <<task, stage, cancel, hostChanged, fingerprint, profile,
                         client, clientKey>>
  /\ WorkerFrame

\* The arguments of completeWebSshWorker, evaluated before it runs.
Failing ==
  /\ wpc = "fail" /\ wpc' = "clear" /\ UNCHANGED task
  /\ wstage' = IF cancel THEN "Idle" ELSE "Failed"
  /\ UNCHANGED <<flags, session>> /\ WorkerFrame
Clear ==
  /\ wpc = "clear" /\ Disconnected /\ To("publish")
  /\ UNCHANGED <<stage, cancel, hostChanged, fingerprint, profile>>
  /\ WorkerFrame
PublishEnd ==
  /\ wpc = "publish" /\ Publish(wstage) /\ To("end")
  /\ UNCHANGED <<cancel, hostChanged, awaitingTrust, terminalOpen, fingerprint,
                 session>>
  /\ WorkerFrame
\* Mutant: the handle of the task is not given back.
EndKeepingTask ==
  /\ wpc = "end" /\ wpc' = "off" /\ cancel' = FALSE
  /\ UNCHANGED <<task, wstage, stage, hostChanged, awaitingTrust, terminalOpen,
                 fingerprint, session>>
  /\ WorkerFrame
End ==
  /\ wpc = "end" /\ task' = "none" /\ wpc' = "off" /\ cancel' = FALSE
  /\ UNCHANGED <<wstage, stage, hostChanged, awaitingTrust, terminalOpen,
                 fingerprint, session>>
  /\ WorkerFrame

Worker ==
  \/ Begin \/ Connect \/ Connected \/ TrustUnreadable \/ TrustMatches
  \/ TrustChanged \/ TrustMissing \/ Authenticating \/ Authenticate
  \/ Authenticated \/ OpenTerminal \/ Opened \/ Failing \/ Clear \/ PublishEnd
  \/ End
-----------------------------------------------------------------------------
(* Handlers                                                                *)

Serving == console = "on" /\ mpc = "idle"

\* startWebSshWorker
StartWorker(kind) ==
  /\ task' = kind /\ wpc' = "begin" /\ wstage' = "Idle"
  /\ cancel' = FALSE /\ stopped' = FALSE /\ late' = FALSE
NoWorker == cancel' = FALSE /\ UNCHANGED <<worker, stopped, late>>

\* handleSshStart: the profile cannot be loaded or is incomplete, nothing can
\* be allocated, or the task starts.
StartRefused ==
  /\ Serving /\ ~Locked
  /\ Disconnected /\ Forgotten /\ stage' = "Idle"
  /\ \/ UNCHANGED <<worker, cancel>>           \* profile or prepareConnection
     \/ cancel' = FALSE /\ UNCHANGED worker   \* startWebSshWorker
  /\ UNCHANGED <<mpc, console, stored, history>>
Start ==
  /\ Serving /\ ~Locked
  /\ awaitingTrust' = FALSE /\ terminalOpen' = FALSE /\ stage' = "Idle"
  /\ hostChanged' = FALSE /\ fingerprint' = Absent
  /\ profile' = selected /\ secret' = TRUE
  /\ Prepared /\ StartWorker("connect")
  /\ UNCHANGED <<mpc, console, stored>>

\* handleSshTrust.  trustSshHost stores nothing under a changed entry; when it
\* fails while it commits, the entry may be there.
TrustAccepted ==
  /\ Serving /\ awaitingTrust /\ Trust(fingerprint) # "changed"
  /\ Remember
  /\ awaitingTrust' = FALSE /\ StartWorker("authenticate")
  /\ UNCHANGED <<stage, hostChanged, terminalOpen, fingerprint, session, mpc,
                 console, selected>>
TrustFailed ==
  /\ Serving /\ awaitingTrust
  /\ \/ UNCHANGED known
     \/ Trust(fingerprint) # "changed" /\ Remember
  /\ hostChanged' = (known'[profile] \notin {Absent, fingerprint})
  /\ Disconnected /\ stage' = "Failed"
  /\ \/ UNCHANGED <<worker, cancel, stopped, late>>
     \/ NoWorker
  /\ UNCHANGED <<fingerprint, profile, mpc, console, selected>>

\* handleSshForget
ForgetAllowed ==
  /\ task = "none" /\ hostChanged /\ ~awaitingTrust /\ ~terminalOpen
  /\ profile = selected
Forget ==
  /\ Serving /\ ForgetAllowed
  /\ Remove
  /\ Disconnected /\ Forgotten /\ stage' = "Idle"
  /\ UNCHANGED <<worker, cancel, mpc, console, selected, history>>
ForgetRefused ==
  /\ Serving /\ ForgetAllowed
  /\ Remove
  /\ UNCHANGED <<worker, flags, session, mpc, console, selected, history>>

\* handleSshSettings, handleSshSelect, handleSshDelete: another profile, or
\* the selected one with another host.
ChangeProfile ==
  /\ Serving /\ ~Locked /\ selected' \in Profile \ {selected}
  /\ UNCHANGED <<worker, flags, session, mpc, console, known, history>>

\* handleSshStop
Stop ==
  /\ Serving /\ CloseConnection /\ stopped' = TRUE
  /\ UNCHANGED <<mpc, console, stored>>

\* handlePrompt, handlePromptRetry, handleChatCompact: refused while the task
\* runs; otherwise memory is freed first.
Prompt ==
  /\ Serving /\ task = "none" /\ (terminalOpen \/ awaitingTrust)
  /\ CloseConnection
  /\ UNCHANGED <<mpc, console, stored, stopped>>

\* handleSshInput, handleSshResize, handleSftp...: the client is in use until
\* the call returns.
Use ==
  /\ Serving /\ terminalOpen /\ IsOpen /\ mpc' = "using"
  /\ UNCHANGED <<worker, flags, session, console, stored, history>>
Used ==
  /\ mpc = "using" /\ mpc' = "idle"
  /\ UNCHANGED <<worker, flags, session, console, stored, history>>

\* Mutant: a terminal that is being opened is read.
PollEarly ==
  /\ Serving /\ mpc' = IF terminalOpen \/ client # "closed" THEN "reading" ELSE "read"
  /\ UNCHANGED <<worker, flags, session, console, stored, history>>
\* handleSshOutput: read, look whether the terminal is open, close if not.
Poll ==
  /\ Serving /\ mpc' = IF terminalOpen THEN "reading" ELSE "read"
  /\ UNCHANGED <<worker, flags, session, console, stored, history>>
Read ==
  /\ mpc = "reading" /\ mpc' \in {"read", "closing"}
  /\ UNCHANGED <<worker, flags, session, console, stored, history>>
Look ==
  /\ mpc = "read" /\ mpc' = IF terminalOpen /\ IsOpen THEN "idle" ELSE "closing"
  /\ UNCHANGED <<worker, flags, session, console, stored, history>>
PollClose ==
  /\ mpc = "closing" /\ mpc' = "idle" /\ CloseConnection /\ stopped' = TRUE
  /\ UNCHANGED <<console, stored>>
Handling == Used \/ Read \/ Look \/ PollClose

-----------------------------------------------------------------------------
(* The console and its surroundings                                        *)

Open ==
  /\ console = "off" /\ console' = "on"
  /\ UNCHANGED <<worker, flags, session, mpc, stored, history>>
\* The loop of runWebConsole ends: Esc, End session, EXIT.
Leave ==
  /\ Serving /\ console' = "closing" /\ CloseConnection /\ stopped' = TRUE
  /\ UNCHANGED <<mpc, stored>>
\* ... then waits for the task, and releaseConsoleSessionState.
Release ==
  /\ console = "closing" /\ task = "none" /\ console' = "off"
  /\ Disconnected /\ stage' = "Idle" /\ Forgotten
  /\ UNCHANGED <<worker, cancel, mpc, stored, history>>
\* The server ends the terminal.
RemoteEnds ==
  /\ client = "terminal" /\ Session("ended", clientKey)
  /\ UNCHANGED <<worker, flags, profile, secret, mpc, console, stored, history>>
\* Restart into Python, or a loss of power.
Reset ==
  /\ task' = "none" /\ wpc' = "off" /\ wstage' = "Idle" /\ stage' = "Idle"
  /\ cancel' = FALSE /\ hostChanged' = FALSE /\ awaitingTrust' = FALSE
  /\ terminalOpen' = FALSE /\ fingerprint' = Absent /\ profile' = Absent
  /\ secret' = FALSE /\ client' = "closed" /\ clientKey' = Absent
  /\ mpc' = "idle" /\ console' = "off" /\ stopped' = FALSE /\ late' = FALSE
  /\ UNCHANGED stored

Main ==
  \/ StartRefused \/ Start \/ TrustAccepted \/ TrustFailed \/ Forget
  \/ ForgetRefused \/ ChangeProfile \/ Stop \/ Prompt \/ Use \/ Poll \/ Handling
  \/ Open \/ Leave \/ Release
Next == Worker \/ Main \/ RemoteEnds \/ Reset

Spec == Init /\ [][Next]_vars
\* Every call of the client has a timeout, and the main loop goes on.
FairSpec == Spec /\ WF_vars(Worker) /\ WF_vars(Handling) /\ WF_vars(Release)

-----------------------------------------------------------------------------
(* Properties                                                              *)

\* The client has no lock: while the task is in a call of it, no handler is in
\* another (terminalOpen is set behind the last call of the task).
ClientHasOneUser == ~(wpc \in ClientStep /\ mpc \in {"using", "reading"})

\* Nothing is authenticated to, and no terminal is open, with a host key other
\* than the trusted one; between the two tasks of a first connection the user
\* may do anything the Web Console offers.
OnlyTrustedHosts ==
  wpc = "authenticate" \/ client \in {"authenticated", "terminal", "ended"} =>
    clientKey # Absent /\ known[profile] = clientKey

\* What an attempt, an open terminal or a blocked host key belong to is the
\* profile still selected, so forgetting a key forgets the one that was shown.
ConnectionIsSelected == Locked => profile = selected

\* A changed host key blocks the profiles only as long as the user can resolve it.
MismatchCanBeForgotten == hostChanged /\ task = "none" => ForgetAllowed

\* Password and passphrase are in memory only while an attempt may still use
\* them, whatever way it ends.
SecretIsNeeded == secret => task # "none" \/ awaitingTrust

\* Leaving the console leaves no connection, no task and no secret behind.
ClosedConsoleIsClean ==
  console = "off" =>
    /\ task = "none" /\ wpc = "off" /\ client = "closed"
    /\ ~secret /\ ~Locked

\* An attempt ends as stopped only if it was asked to stop, and not because of
\* a request that an earlier attempt was sent.
OnlyAskedStops ==
  wpc \in {"clear", "publish"} /\ wstage = "Idle" => stopped

\* The stage the browser shows tells, once no task runs, what there is; a stop
\* that came too late may leave "Stopping" behind, and no other stage that is
\* wrong.
Truthful ==
  /\ stage = "Connected" <=> terminalOpen
  /\ stage = "AwaitingTrust" <=> awaitingTrust
  /\ stage \in {"Idle", "Failed", "Connected", "AwaitingTrust"}
  /\ stage \in {"Idle", "Failed"} => client = "closed"
StageIsTruthful ==
  task = "none" => Truthful \/ (late /\ stage = "Stopping")

\* A session that outlives its attempt, a lost stop's too, is always marked as
\* waiting for trust or as a terminal: no attempt starts over it, what needs its
\* memory closes it, and what is marked is there.
NothingIsOrphaned ==
  task = "none" => (client # "closed" <=> awaitingTrust \/ terminalOpen)

\* A stop that is answered before the task looks for the last time leaves
\* nothing open once the task is over.
StopIsHonoured ==
  stopped /\ ~late /\ task = "none" => client = "closed" /\ stage \in {"Idle", "Failed"}

\* The same of every stop, as the documents promise it.
EveryStopIsHonoured ==
  stopped /\ task = "none" => client = "closed" /\ stage \in {"Idle", "Failed"}

\* Every attempt ends, with or without a stop, and closing the console never
\* waits for ever for its task.
AttemptEnds == task # "none" ~> task = "none"
ConsoleCloses == console = "closing" ~> console = "off"

\* Of the SSH session: the client has one user at a time, it speaks to the
\* trusted host of the selected profile, and secrets and connection go when
\* what they were for is over.
SessionIsSafe ==
  /\ TypeOK
  /\ ClientHasOneUser /\ OnlyTrustedHosts /\ ConnectionIsSelected
  /\ SecretIsNeeded /\ ClosedConsoleIsClean

\* Of what the browser asks and is told: stops are honoured, or leave what the
\* next one finds, nothing else stops an attempt, the stage is true and a
\* changed host can be resolved.
BrowserIsTold ==
  /\ OnlyAskedStops /\ StageIsTruthful /\ StopIsHonoured
  /\ NothingIsOrphaned /\ MismatchCanBeForgotten

\* Nothing waits for ever: every attempt ends and so does closing the console.
EverythingEnds == AttemptEnds /\ ConsoleCloses
=============================================================================
