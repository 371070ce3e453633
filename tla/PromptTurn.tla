----------------------------- MODULE PromptTurn -----------------------------
(***************************************************************************)
(* One question to the model and everything it may set off: the prompt is  *)
(* stored before it is sent, the answer may be interrupted by tool calls,  *)
(* a tool call may need the user's confirmation, the confirmation is a     *)
(* record on the card that outlives a reset, and the answer is stored only *)
(* when the model has given it.                                            *)
(*                                                                         *)
(* The device's own screens and the Web Console run the same steps with    *)
(* small differences; both are here, the surface being a parameter.  A     *)
(* request runs to its end inside one callback, so the steps of a request  *)
(* interleave only with a reset and with failing writes, which may fall    *)
(* between any two of them; the user's other actions happen between        *)
(* requests.  A write of the chat is one step here: ChatHistory has its    *)
(* parts.  python_run, which ends in a restart, is in OneShotRun.          *)
(***************************************************************************)
EXTENDS Integers, Sequences, FiniteSets

CONSTANTS
  MaxTurns,    \* prompts sent
  MaxRetries,  \* requests repeated
  MaxRounds,   \* kMaximumToolRounds: tool calls in one answer
  MaxEdits,    \* changes the user makes between requests
  MaxFaults    \* writes that fail, and resets

ASSUME BoundsAssumption == {MaxTurns, MaxRetries, MaxRounds, MaxEdits, MaxFaults} \subseteq Nat

VARIABLES
  chat,       \* the messages of the chat on the card
  revision,   \* its revision, with the project's
  layers,     \* what each scope permits of each tool
  target,     \* the version of what a tool acts on: 0 when there is none
  provider,   \* the authority revision of the API profile in use
  record,     \* the pending tool call on the card
  resumable,  \* resumablePendingIdThisBoot
  context,    \* devicePendingContext and webPendingContext
  retry,      \* the turn whose request the device can repeat
  surface,    \* the one in the foreground
  task,       \* the request under way
  ran,        \* every tool call executed, for the properties
  told,       \* the questions whose loose ends the user has acknowledged or erased
  budget      \* what is left of the bounds

vars == <<chat, revision, layers, target, provider, record, resumable, context, retry,
          surface, task, ran, told, budget>>

Surface == {"device", "web"}

(* "write" stands for the tools that create or replace a file of the       *)
(* project, "ssh" for those that act through the selected SSH profile.     *)
Tool == {"write", "ssh"}
Layer == {"master", "project", "chat"}

Off == 0
Ask == 1
Allow == 2
Inherit == 3

None == [id |-> 0]
Idle == [op |-> "idle"]
NoContext == [id |-> 0, provider |-> 0]

(* The most restrictive scope decides, and a tool without what it needs is *)
(* unavailable, which a request treats as denied.                          *)
Decision(t) ==
  LET levels == {layers[l][t] : l \in Layer}
  IN IF t = "ssh" /\ target[t] = 0 THEN Off
     ELSE CHOOSE d \in levels : \A e \in levels : d =< e

Plan == [t \in Tool |-> Decision(t)]

Mandatory(t) == t = "ssh" \/ target[t] # 0

Count == Len(chat)
LastTurn == IF Count = 0 THEN 0 ELSE IF chat[Count].role = "user" THEN chat[Count].turn ELSE 0
Append1(role, turn) == Append(chat, [role |-> role, turn |-> turn])

Turns == MaxTurns - budget.turns
Requests == Turns + MaxRetries - budget.retries
FaultLeft == budget.faults > 0
SpendFault == budget' = [budget EXCEPT !.faults = @ - 1]

-----------------------------------------------------------------------------
(* The request.                                                            *)

Request(s, turn, request) ==
  [op |-> "stream", by |-> s, turn |-> turn, id |-> 0, rounds |-> 0, plan |-> Plan,
   request |-> request, lasting |-> FALSE]

At(op) == task.op = op
Go(op) == task' = [task EXCEPT !.op = op]
Stop == task' = Idle

IdleOn(s) == At("idle") /\ surface = s

(* A continuation that ends badly forgets how to go on; a prompt that does *)
(* is kept for Retry on the device, and the Web Console retries whatever   *)
(* question ends the chat.                                                 *)
Failed ==
  /\ Stop
  /\ IF task.id # 0
       THEN context' = [context EXCEPT ![task.by] = NoContext] /\ UNCHANGED retry
       ELSE retry' = (IF task.by = "device" THEN task.turn ELSE retry) /\ UNCHANGED context

(* The question is appended, then the chat's metadata saved, by the Web    *)
(* Console only for the first one; only then is the request sent.  If the  *)
(* second write fails the question stays.                                  *)
Submit(s) ==
  /\ IdleOn(s) /\ record = None /\ Turns < MaxTurns
  /\ \E stored \in BOOLEAN :
       /\ stored \/ (FaultLeft /\ (s = "device" \/ Count = 0))
       /\ budget' = [budget EXCEPT !.turns = @ - 1, !.faults = IF stored THEN @ ELSE @ - 1]
       /\ chat' = Append1("user", Turns + 1)
       /\ revision' = revision + (IF stored /\ (s = "device" \/ Count = 0) THEN 2 ELSE 1)
       /\ retry' = (IF s = "device" THEN Turns + 1 ELSE retry)
       /\ IF stored
            THEN /\ task' = Request(s, Turns + 1, Requests + 1)
                 /\ context' = (IF s = "device" THEN [context EXCEPT ![s] = NoContext] ELSE context)
            ELSE UNCHANGED <<task, context>>
  /\ UNCHANGED <<layers, target, provider, record, resumable, surface, ran, told>>

\* Mutant: Retry does not look at how the chat ends.
RetryAlways(s) ==
  /\ IdleOn(s) /\ record = None /\ Count > 0 /\ budget.retries > 0
  /\ task' = Request(s, chat[Count].turn, Requests + 1)
  /\ context' = (IF s = "device" THEN [context EXCEPT ![s] = NoContext] ELSE context)
  /\ budget' = [budget EXCEPT !.retries = @ - 1]
  /\ UNCHANGED <<chat, revision, layers, target, provider, record, resumable, retry, surface, ran,
                 told>>

(* The question that ends the chat is sent again without being stored      *)
(* again; the device repeats only the one whose request it saw fail.       *)
Retry(s) ==
  /\ IdleOn(s) /\ record = None /\ LastTurn # 0 /\ budget.retries > 0
  /\ s = "device" => retry = LastTurn
  /\ task' = Request(s, LastTurn, Requests + 1)
  /\ context' = (IF s = "device" THEN [context EXCEPT ![s] = NoContext] ELSE context)
  /\ budget' = [budget EXCEPT !.retries = @ - 1]
  /\ UNCHANGED <<chat, revision, layers, target, provider, record, resumable, retry, surface, ran,
                 told>>

-----------------------------------------------------------------------------
(* The tool loop.                                                          *)

(* The model answers, or the connection, the user or the round limit ends  *)
(* the request.                                                            *)
Answer == At("stream") /\ Go("save")
          /\ UNCHANGED <<chat, revision, layers, target, provider, record, resumable, context,
                         retry, surface, ran, told, budget>>

Break == At("stream") /\ Failed
         /\ UNCHANGED <<chat, revision, layers, target, provider, record, resumable, surface, ran,
                        told, budget>>

NextRound == [task EXCEPT !.op = "stream", !.rounds = @ + 1]

(* A tool the plan leaves out answers with an error the model reads.       *)
Refuse(t) ==
  /\ At("stream") /\ task.rounds < MaxRounds /\ task.plan[t] = Off
  /\ task' = NextRound
  /\ UNCHANGED <<chat, revision, layers, target, provider, record, resumable, context, retry,
                 surface, ran, told, budget>>

(* The target as the tool leaves it: a written file is another one.        *)
Written(t) == IF t = "write" THEN [target EXCEPT ![t] = @ + 1] ELSE target

Executed(t, id, shown) ==
  [request |-> task.request, turn |-> task.turn, id |-> id, tool |-> t, before |-> target[t],
   shown |-> shown, levels |-> {layers[l][t] : l \in Layer}, claimed |-> record.id = id /\ id # 0]

(* An audited call: refused when the activity log cannot be written, run   *)
(* otherwise, and the user may have stopped it meanwhile, which ends the   *)
(* request whatever the tool did.                                          *)
Audited(t, id, shown, then) ==
  \/ /\ FaultLeft /\ SpendFault
     /\ task' = then /\ UNCHANGED <<target, ran, context, retry>>
  \/ /\ ran' = Append(ran, Executed(t, id, shown))
     /\ target' \in {target, Written(t)}
     /\ \/ task' = then /\ UNCHANGED <<context, retry>>
        \/ Failed
     /\ UNCHANGED budget

Run(t) ==
  /\ At("stream") /\ task.rounds < MaxRounds
  /\ task.plan[t] = Allow /\ ~Mandatory(t)
  /\ Audited(t, 0, target[t], NextRound)
  /\ UNCHANGED <<chat, revision, layers, provider, record, resumable, surface, told>>

Waiting(t) ==
  [id |-> budget.ids + 1, state |-> "awaiting", tool |-> t,
   reason |-> IF Mandatory(t) THEN "mandatory" ELSE "policy_ask", target |-> target[t],
   revision |-> revision, count |-> Count, turn |-> task.turn, rounds |-> task.rounds,
   request |-> task.request]

(* The call needs the user: the record is written, in place of the one     *)
(* this request continues if there is one, and remembered as of this boot. *)
(* A write that fails may still have left the record.                      *)
Confirm(t) ==
  /\ At("stream") /\ task.rounds < MaxRounds
  /\ \/ task.plan[t] = Ask
     \/ task.plan[t] = Allow /\ Mandatory(t)
  /\ \/ /\ IF task.id = 0 THEN record = None
           ELSE record.id = task.id /\ record.state # "awaiting" /\ resumable = task.id
        /\ record' = Waiting(t)
        /\ resumable' = budget.ids + 1
        /\ context' = [context EXCEPT ![task.by] =
                         [id |-> budget.ids + 1,
                          provider |-> IF task.id = 0 THEN provider ELSE @.provider]]
        /\ retry' = (IF task.by = "device" /\ task.id = 0 THEN 0 ELSE retry)
        /\ Stop
        /\ budget' = [budget EXCEPT !.ids = @ + 1]
     \/ /\ FaultLeft /\ record' \in {record, Waiting(t)}
        /\ budget' = [budget EXCEPT !.faults = @ - 1, !.ids = IF record' = record THEN @ ELSE @ + 1]
        /\ Failed /\ UNCHANGED resumable
  /\ UNCHANGED <<chat, revision, layers, target, provider, surface, ran, told>>

\* Mutant: the record goes before the answer is stored.
SaveAnswerAfterClearing ==
  /\ At("save") /\ Stop
  /\ record' = None
  /\ \/ chat' = Append1("assistant", task.turn) /\ UNCHANGED budget
     \/ FaultLeft /\ SpendFault /\ UNCHANGED chat
  /\ UNCHANGED <<revision, layers, target, provider, resumable, context, retry, surface, ran, told>>

(* The answer is appended to the chat the question is in.                  *)
SaveAnswer ==
  /\ At("save")
  /\ \/ /\ chat' = Append1("assistant", task.turn)
        /\ IF task.id = 0
             THEN Stop /\ retry' = (IF task.by = "device" THEN 0 ELSE retry)
                  /\ revision' = revision + (IF task.by = "device" THEN 2 ELSE 1)
             ELSE Go("clear") /\ revision' = revision + 1 /\ UNCHANGED retry
        /\ UNCHANGED <<context, budget>>
     \/ /\ FaultLeft /\ SpendFault /\ Stop
        /\ context' = (IF task.id # 0 THEN [context EXCEPT ![task.by] = NoContext] ELSE context)
        /\ retry' = (IF task.id = 0 /\ task.by = "device" THEN 0 ELSE retry)
        /\ UNCHANGED <<chat, revision>>
  /\ UNCHANGED <<layers, target, provider, record, resumable, surface, ran, told>>

(* The record goes last, and stays as a finished one if it cannot.         *)
ClearRecord ==
  /\ At("clear") /\ Stop
  /\ context' = [context EXCEPT ![task.by] = NoContext]
  /\ \/ /\ record' = None
        /\ resumable' = (IF resumable = task.id THEN 0 ELSE resumable)
        /\ UNCHANGED budget
     \/ FaultLeft /\ SpendFault /\ UNCHANGED <<record, resumable>>
  /\ UNCHANGED <<chat, revision, layers, target, provider, retry, surface, ran, told>>

-----------------------------------------------------------------------------
(* The user's decision.                                                    *)

(* What the record says of the project, the chat and the target still      *)
(* holds, in this boot, on the surface that asked.                         *)
Current ==
  record.revision = revision /\ record.count = Count /\ record.target = target[record.tool]

Resumable(s) ==
  record.state = "awaiting" /\ context[s].id = record.id /\ resumable = record.id

(* Whether the call is shown with Allow and Deny.  Otherwise it can only   *)
(* be acknowledged.                                                        *)
Offered(s) ==
  /\ Resumable(s) /\ Current
  /\ s = "web" => context[s].provider = provider /\ Decision(record.tool) # Off

Permitted(s) ==
  /\ record # None /\ Offered(s)
  /\ context[s].provider = provider /\ Decision(record.tool) # Off

Refusable(s) == record # None /\ Offered(s) /\ context[s].provider = provider

Dismissible(s) == record # None /\ ~Offered(s)

(* The request goes on where the record says it was.                       *)
Continued(s) ==
  [op |-> "stream", by |-> s, turn |-> record.turn, id |-> record.id,
   rounds |-> record.rounds + 1, plan |-> Plan, request |-> record.request, lasting |-> FALSE]

(* The approval is written before the call is executed, so that it is      *)
(* never executed on the strength of a record that could be used again.    *)
Approve(s, lasting) ==
  /\ IdleOn(s) /\ Permitted(s)
  /\ lasting => record.reason = "policy_ask"
  /\ LET claimed == [record EXCEPT !.state = "claimed"]
     IN \/ /\ record' = claimed
           /\ task' = [Continued(s) EXCEPT !.op = "execute", !.lasting = lasting]
           /\ UNCHANGED budget
        \/ FaultLeft /\ SpendFault /\ record' \in {record, claimed} /\ UNCHANGED task
  /\ UNCHANGED <<chat, revision, layers, target, provider, resumable, context, retry, surface,
                 ran, told>>

(* The claimed call runs, once, with what the claim was checked against.   *)
Execute ==
  /\ At("execute")
  /\ Audited(record.tool, task.id, record.target,
             [task EXCEPT !.op = IF task.lasting THEN "allow" ELSE "stream"])
  /\ UNCHANGED <<chat, revision, layers, provider, record, resumable, surface, told>>

(* "Allow for chat": the permission is saved after the call has run, and   *)
(* the rest of the answer goes by it.                                      *)
AllowForChat ==
  /\ At("allow")
  /\ UNCHANGED <<chat, target, provider, record, resumable, context, retry, surface, ran, told>>
  /\ \/ /\ layers' = [layers EXCEPT !["chat"][record.tool] = Allow]
        /\ revision' = revision + 1
        /\ task' = [task EXCEPT !.op = "stream", !.plan = Plan']
        /\ UNCHANGED budget
     \/ FaultLeft /\ SpendFault /\ Go("stream") /\ UNCHANGED <<layers, revision>>

(* A denied call is one the model hears of; on the device it can be denied *)
(* even when no policy would let it run, and then the answer ends there.   *)
Deny(s) ==
  /\ IdleOn(s) /\ Refusable(s)
  /\ LET denied == [record EXCEPT !.state = "denied"]
     IN \/ /\ record' = denied /\ UNCHANGED budget
           /\ IF Decision(record.tool) = Off
                THEN context' = [context EXCEPT ![s] = NoContext] /\ UNCHANGED task
                ELSE task' = Continued(s) /\ UNCHANGED context
        \/ FaultLeft /\ SpendFault /\ record' \in {record, denied} /\ UNCHANGED <<task, context>>
  /\ UNCHANGED <<chat, revision, layers, target, provider, resumable, retry, surface, ran, told>>

(* A call that can no longer go on is dismissed, without running it.       *)
Acknowledge(s) ==
  /\ IdleOn(s) /\ Dismissible(s)
  /\ \/ /\ record' = None /\ told' = told \union {record.turn}
        /\ resumable' = (IF resumable = record.id THEN 0 ELSE resumable)
        /\ context' = (IF s = "device" \/ context[s].id = record.id
                         THEN [context EXCEPT ![s] = NoContext] ELSE context)
        /\ UNCHANGED budget
     \/ FaultLeft /\ SpendFault /\ UNCHANGED <<record, told, resumable, context>>
  /\ UNCHANGED <<chat, revision, layers, target, provider, retry, surface, task, ran>>

-----------------------------------------------------------------------------
(* Between requests.                                                       *)

EnterWeb ==
  /\ IdleOn("device") /\ surface' = "web"
  /\ UNCHANGED <<chat, revision, layers, target, provider, record, resumable, context, retry,
                 task, ran, told, budget>>

LeaveWeb ==
  /\ IdleOn("web") /\ surface' = "device"
  /\ context' = [context EXCEPT !["web"] = NoContext]
  /\ UNCHANGED <<chat, revision, layers, target, provider, record, resumable, retry, task, ran,
                 told, budget>>

Edit == At("idle") /\ budget.edits > 0 /\ budget' = [budget EXCEPT !.edits = @ - 1]

Rename ==
  /\ Edit /\ revision' = revision + 1
  /\ UNCHANGED <<chat, layers, target, provider, record, resumable, context, retry, surface,
                 task, ran, told>>

SetPermission(l, t, d) ==
  /\ Edit /\ (l = "master" => d # Inherit)
  /\ layers' = [layers EXCEPT ![l][t] = d]
  /\ revision' = (IF l = "master" THEN revision ELSE revision + 1)
  /\ UNCHANGED <<chat, target, provider, record, resumable, context, retry, surface, task, ran,
                 told>>

(* A file changed from outside the chat, another SSH profile.              *)
ChangeTarget(t) ==
  /\ Edit /\ target' \in {[target EXCEPT ![t] = 0], [target EXCEPT ![t] = @ + 1]}
  /\ UNCHANGED <<chat, revision, layers, provider, record, resumable, context, retry, surface,
                 task, ran, told>>

ChangeProvider ==
  /\ Edit /\ provider' = provider + 1
  /\ UNCHANGED <<chat, revision, layers, target, record, resumable, context, retry, surface,
                 task, ran, told>>

ClearChat ==
  /\ Edit /\ chat' = <<>> /\ revision' = revision + 1
  /\ told' = told \union 1..Turns
  /\ UNCHANGED <<layers, target, provider, record, resumable, context, retry, surface, task, ran>>

(* Everything but the card is lost.                                        *)
Reset ==
  /\ FaultLeft /\ SpendFault
  /\ task' = Idle /\ resumable' = 0 /\ retry' = 0 /\ surface' = "device"
  /\ context' = [s \in Surface |-> NoContext]
  /\ UNCHANGED <<chat, revision, layers, target, provider, record, ran, told>>

Init ==
  /\ chat = <<>> /\ revision = 0 /\ provider = 1 /\ record = None /\ resumable = 0
  /\ layers = [l \in Layer |-> [t \in Tool |->
                IF l = "project" /\ t = "write" THEN Ask ELSE IF l = "master" THEN Allow ELSE Inherit]]
  /\ target = [t \in Tool |-> IF t = "ssh" THEN 1 ELSE 0]
  /\ context = [s \in Surface |-> NoContext]
  /\ retry = 0 /\ surface = "device" /\ task = Idle /\ ran = <<>> /\ told = {}
  /\ budget = [turns |-> MaxTurns, retries |-> MaxRetries, edits |-> MaxEdits,
               faults |-> MaxFaults, ids |-> 0]

Next ==
  \/ \E s \in Surface :
       \/ Submit(s) \/ Retry(s) \/ Deny(s) \/ Acknowledge(s)
       \/ \E lasting \in BOOLEAN : Approve(s, lasting)
  \/ Answer \/ Break \/ SaveAnswer \/ ClearRecord \/ Execute \/ AllowForChat
  \/ \E t \in Tool :
       \/ Refuse(t) \/ Run(t) \/ Confirm(t) \/ ChangeTarget(t)
       \/ \E l \in Layer, d \in {Off, Ask, Allow, Inherit} : SetPermission(l, t, d)
  \/ EnterWeb \/ LeaveWeb \/ Rename \/ ChangeProvider \/ ClearChat \/ Reset

Spec == Init /\ [][Next]_vars

-----------------------------------------------------------------------------
(* Properties.                                                             *)

TypeOK ==
  /\ chat \in Seq([role : {"user", "assistant"}, turn : 1..MaxTurns])
  /\ layers \in [Layer -> [Tool -> {Off, Ask, Allow, Inherit}]] /\ target \in [Tool -> Nat]
  /\ {revision, provider, resumable, retry} \subseteq Nat
  /\ context \in [Surface -> [id : Nat, provider : Nat]]
  /\ surface \in Surface /\ told \subseteq 1..MaxTurns
  /\ record # None => record.state \in {"awaiting", "claimed", "denied"} /\ record.tool \in Tool
  /\ ~At("idle") => task.turn \in 1..MaxTurns /\ task.rounds \in 0..MaxRounds

(* A tool call the user confirmed is executed at most once, whatever fails *)
(* and whenever the device is reset: the record is claimed before the call *)
(* runs and a claimed record can only be acknowledged.                     *)
ConfirmedOnce ==
  \A i, j \in DOMAIN ran : ran[i].id = ran[j].id /\ ran[i].id # 0 => i = j

(* Nothing acts through SSH or replaces a file but on the user's decision, *)
(* and what it acts on is then what the user was shown.                    *)
RunsWhatWasShown ==
  \A i \in DOMAIN ran :
    /\ ran[i].tool = "ssh" \/ ran[i].before # 0 => ran[i].id # 0
    /\ ran[i].shown = ran[i].before

(* A tool runs only while no scope forbids it, and without a question to   *)
(* the user only while every scope that says anything allows it: a wider   *)
(* permission of a chat or a project never outvotes a stricter one.        *)
RunsUnderPolicy ==
  \A i \in DOMAIN ran :
    /\ Off \notin ran[i].levels
    /\ ran[i].id = 0 => Ask \notin ran[i].levels

(* One sending of a question takes no more rounds than the limit, the      *)
(* confirmed calls of its continuations included.                          *)
RoundsBounded ==
  \A i \in DOMAIN ran :
    Cardinality({j \in DOMAIN ran : ran[j].request = ran[i].request}) =< MaxRounds

(* An answer stands right after the question it answers, also when the     *)
(* chat was changed while a call waited for the user, and no question has  *)
(* two answers.                                                            *)
AnswersFollowQuestions ==
  \A i \in DOMAIN chat :
    chat[i].role = "assistant" =>
      i > 1 /\ chat[i - 1] = [role |-> "user", turn |-> chat[i].turn]

(* A confirmed call that ran is never forgotten: the answer it led to is   *)
(* in the chat, or its record is still on the card to say that its effect  *)
(* is unknown, or the user has been told so.                               *)
EffectsAccountedFor ==
  \A i \in DOMAIN ran :
    ran[i].id # 0 =>
      \/ ran[i].turn \in told
      \/ record # None /\ record.turn = ran[i].turn
      \/ [role |-> "assistant", turn |-> ran[i].turn] \in {chat[n] : n \in DOMAIN chat}

(* In the Web Console a pending call can always be decided or dismissed:   *)
(* it never keeps the user from asking anything else.                      *)
WebHasAWayOut ==
  At("idle") /\ record # None => Permitted("web") \/ Refusable("web") \/ Dismissible("web")

(* The same of the device.  Not so once the API profile has changed: the   *)
(* device still offers Allow and Deny, refuses both, and does not offer to *)
(* discard the call.                                                       *)
DeviceHasAWayOut ==
  At("idle") /\ record # None => Permitted("device") \/ Refusable("device") \/ Dismissible("device")

(* No other call keeps the device waiting for ever, and one that does was  *)
(* asked on the device, so that the Web Console can dismiss it.            *)
StuckOnlyByProfile ==
  At("idle") /\ record # None /\ ~DeviceHasAWayOut =>
    /\ context["device"].id = record.id /\ context["device"].provider # provider
    /\ Dismissible("web")

(* Of the tools: they run as the policy and the user decided, once, and    *)
(* what they did is not forgotten.                                         *)
ToolsRunAsDecided ==
  TypeOK /\ ConfirmedOnce /\ RunsWhatWasShown /\ RunsUnderPolicy /\ EffectsAccountedFor

(* Of the turn: rounds are bounded, answers follow their questions, the    *)
(* Web Console is never stuck and the device only by a changed profile.    *)
TurnIsOrderly ==
  RoundsBounded /\ AnswersFollowQuestions /\ WebHasAWayOut /\ StuckOnlyByProfile
=============================================================================
