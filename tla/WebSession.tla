------------------------------ MODULE WebSession ------------------------------
(***************************************************************************)
(* Who may use the Web Console: login, lockout, session lifetime, logout   *)
(* and browser presence of web_console.cpp.  All times are readings of     *)
(* millis(), which wraps: they are compared by their difference, as        *)
(* unsigned for an age and as signed for a deadline.  Here the clock has   *)
(* Wrap ticks, and the time that has really gone by is kept beside it.     *)
(*                                                                         *)
(* While the console is open its loop passes at least once in a tick.      *)
(***************************************************************************)
EXTENDS Naturals

CONSTANTS
  Browser,
  Wrap,         \* ticks of the clock before it is 0 again
  LockTicks,    \* kLoginLockMs
  LifeTicks,    \* idleMilliseconds of a lifetime that expires
  BeatTicks,    \* kWebBrowserPresenceTimeoutMs
  MaxFailures   \* kMaximumLoginFailures

VARIABLES
  now,        \* millis()
  open, passed, \* the console is open; its loop has passed in this tick
  expires,    \* the chosen webSessionLifetime is one that expires
  session,    \* there is a sessionToken
  cookie,     \* each browser's: none, the session's, or one of an older session
  activityAt, \* sessionLastActivityAt
  failures, lockedUntil,
  presence, beatAt, \* browserPresenceInitialized, browserLastHeartbeatAt
  idle, sinceLock  \* history: ticks that went by, up to the limit

vars == <<now, open, passed, expires, session, cookie, activityAt, failures, lockedUntil,
          presence, beatAt, idle, sinceLock>>
times == <<idle, sinceLock>>
console == <<now, open, passed>>

Clock == 0..Wrap - 1

TypeOK ==
  /\ {now, activityAt, lockedUntil, beatAt} \subseteq Clock
  /\ {open, passed, expires, session, presence} \subseteq BOOLEAN
  /\ cookie \in [Browser -> {"none", "current", "old"}]
  /\ failures \in 0..MaxFailures - 1
  /\ idle \in 0..LifeTicks /\ sinceLock \in 0..LockTicks

Init ==
  /\ now \in Clock /\ open = FALSE /\ passed = FALSE /\ expires = TRUE
  /\ session = FALSE /\ cookie = [b \in Browser |-> "none"] /\ activityAt = 0
  /\ failures = 0 /\ lockedUntil = 0
  /\ presence = FALSE /\ beatAt = 0
  /\ idle = LifeTicks /\ sinceLock = LockTicks

-----------------------------------------------------------------------------
Age(at) == (now + Wrap - at) % Wrap

\* static_cast<int32_t>(millis() - deadline) < 0
Ahead(deadline) == Age(deadline) >= Wrap \div 2

Locked == Ahead(lockedUntil)
Expired == expires /\ Age(activityAt) >= LifeTicks
BrowserConnected == presence /\ Age(beatAt) < BeatTicks

\* sessionIsActiveWithoutRefresh of a request of browser b.
Active(b) == open /\ session /\ cookie[b] = "current" /\ ~Expired

Older == [b \in Browser |-> IF cookie[b] = "current" THEN "old" ELSE cookie[b]]

\* clearSessionAuthentication, clearBrowserPresence
ClearSession ==
  /\ session' = FALSE /\ cookie' = Older /\ activityAt' = 0
  /\ presence' = FALSE /\ beatAt' = 0

-----------------------------------------------------------------------------
\* Time goes by; an open console has passed its loop before.
Tick ==
  /\ open => passed
  /\ now' = (now + 1) % Wrap /\ passed' = FALSE
  /\ idle' = (IF idle = LifeTicks THEN idle ELSE idle + 1)
  /\ sinceLock' = (IF sinceLock = LockTicks THEN sinceLock ELSE sinceLock + 1)
  /\ UNCHANGED <<open, expires, session, cookie, activityAt, failures, lockedUntil, presence, beatAt>>

\* runWebConsole; the lock of an earlier console is not kept.
Open ==
  /\ ~open /\ open' = TRUE /\ passed' = FALSE
  /\ ClearSession
  /\ failures' = 0 /\ lockedUntil' = 0 /\ sinceLock' = LockTicks
  /\ UNCHANGED <<now, expires, idle>>

LoopPass ==
  /\ open /\ passed' = TRUE
  /\ IF session /\ Expired THEN ClearSession
     ELSE UNCHANGED <<session, cookie, activityAt, presence, beatAt>>
  /\ UNCHANGED <<now, open, expires, failures, lockedUntil, times>>

\* Left by the keyboard, the serial console or handleCloseConsole.
Exit ==
  /\ open /\ open' = FALSE
  /\ ClearSession
  /\ failures' = 0 /\ lockedUntil' = 0 /\ sinceLock' = LockTicks
  /\ UNCHANGED <<now, passed, expires, idle>>

\* Mutant: the lock is looked at when the password is wrong only.
LoginRight_EvenLocked(b) ==
  /\ open
  /\ failures' = 0
  /\ session' = TRUE /\ cookie' = [Older EXCEPT ![b] = "current"]
  /\ activityAt' = now /\ idle' = 0
  /\ UNCHANGED <<console, expires, presence, beatAt, lockedUntil, sinceLock>>

\* A session that is there is joined.
LoginRight(b) ==
  /\ open /\ ~Locked
  /\ failures' = 0
  /\ IF session /\ ~Expired
     THEN /\ cookie' = [cookie EXCEPT ![b] = "current"]
          /\ UNCHANGED <<session, presence, beatAt>>
     ELSE /\ session' = TRUE /\ cookie' = [Older EXCEPT ![b] = "current"]
          /\ presence' = FALSE /\ beatAt' = 0
  /\ activityAt' = now /\ idle' = 0
  /\ UNCHANGED <<console, expires, lockedUntil, sinceLock>>

LoginWrong ==
  /\ open /\ ~Locked
  /\ IF failures + 1 < MaxFailures
     THEN failures' = failures + 1 /\ UNCHANGED <<lockedUntil, sinceLock>>
     ELSE failures' = 0 /\ lockedUntil' = (now + LockTicks) % Wrap /\ sinceLock' = 0
  /\ UNCHANGED <<console, expires, session, cookie, activityAt, presence, beatAt, idle>>

\* A request that counts as activity.
Request(b) ==
  /\ Active(b)
  /\ activityAt' = now /\ idle' = 0
  /\ UNCHANGED <<console, expires, session, cookie, failures, lockedUntil, presence, beatAt, sinceLock>>

\* One that finds the session expired ends it.
RequestExpired ==
  /\ open /\ session /\ Expired
  /\ ClearSession
  /\ UNCHANGED <<console, expires, failures, lockedUntil, times>>

\* A heartbeat shows that the browser is there, and is no activity.
Heartbeat(b) ==
  /\ Active(b)
  /\ presence' = TRUE /\ beatAt' = now
  /\ UNCHANGED <<console, expires, session, cookie, activityAt, failures, lockedUntil, idle, sinceLock>>

Logout(b) ==
  /\ Active(b)
  /\ ClearSession
  /\ UNCHANGED <<console, expires, failures, lockedUntil, times>>

\* handleSettings: another lifetime holds from this request on.
SaveSettings(b) ==
  /\ Active(b)
  /\ expires' = ~expires
  /\ activityAt' = now /\ idle' = 0
  /\ UNCHANGED <<console, session, cookie, failures, lockedUntil, presence, beatAt, sinceLock>>

Next ==
  \/ Tick \/ Open \/ LoopPass \/ Exit \/ LoginWrong \/ RequestExpired
  \/ \E b \in Browser : LoginRight(b) \/ Request(b) \/ Heartbeat(b) \/ Logout(b) \/ SaveSettings(b)

Spec == Init /\ [][Next]_vars

-----------------------------------------------------------------------------
\* A request is answered only within the lifetime of the session, however
\* often the clock has wrapped since it was last used.
AcceptedIsFresh == \A b \in Browser : Active(b) /\ expires => idle < LifeTicks

\* Nobody gets in while the lock of the failed attempts lasts.
LockHolds == [][idle' = 0 /\ idle # 0 /\ ~session => sinceLock = LockTicks]_vars

\* A browser is shown as connected only while there is a session.
PresenceNeedsSession == open /\ BrowserConnected => session

\* docs/web-console.md:182 "Five failed password attempts cause a 30-second
\* lockout": nothing else does.
LockIsFromFailures == open /\ Locked => sinceLock < LockTicks

\* Of the session: it is used within its lifetime, and its browser with it.
SessionIsFresh == TypeOK /\ AcceptedIsFresh /\ PresenceNeedsSession
=============================================================================
