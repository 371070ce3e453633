-------------------------- MODULE PromptTurnProofs --------------------------
(***************************************************************************)
(* That the tools run as the policy and the user decided, and that a turn  *)
(* is orderly, for any bounds on what may happen.                          *)
(*                                                                         *)
(* What is said of the calls that ran and of the messages in the chat      *)
(* follows from what stands while a request is under way: the plan is what *)
(* the scopes say now (Planned), the record on the card is the one the     *)
(* request continues (Holding), a claimed call has not run and acts on     *)
(* what was shown (Claimed), the chat ends with the question (Asked), and  *)
(* the rounds cover the calls (Counted).  A record that waits keeps the    *)
(* part of this that lets the request go on later.                         *)
(***************************************************************************)
EXTENDS PromptTurn, SequenceTheorems, FiniteSetTheorems, TLAPS

-----------------------------------------------------------------------------
(* The inductive invariant *)

Turn == 1..MaxTurns
Level == {Off, Ask, Allow, Inherit}
Message == [role : {"user", "assistant"}, turn : Turn]
Call == [request : Nat, turn : Turn, id : Nat, tool : Tool, before : Nat,
         shown : Nat, levels : SUBSET Level, claimed : BOOLEAN]
Pending == [id : Nat \ {0}, state : {"awaiting", "claimed", "denied"}, tool : Tool,
            reason : {"mandatory", "policy_ask"}, target : Nat, revision : Nat,
            count : Nat, turn : Turn, rounds : Nat, request : Nat]
Running == [op : {"stream", "save", "clear", "execute", "allow"}, by : Surface,
            turn : Turn, id : Nat, rounds : 0..MaxRounds, plan : [Tool -> Level],
            request : Nat, lasting : BOOLEAN]
Budget == [turns : 0..MaxTurns, retries : 0..MaxRetries, edits : Nat,
           faults : Nat, ids : Nat]

Contexts == [Surface -> [id : Nat, provider : Nat]]

Types ==
  /\ chat \in Seq(Message) /\ ran \in Seq(Call)
  /\ layers \in [Layer -> [Tool -> Level]] /\ target \in [Tool -> Nat]
  /\ revision \in Nat /\ provider \in Nat /\ resumable \in Nat /\ retry \in Nat
  /\ context \in Contexts
  /\ surface \in Surface /\ told \subseteq Turn
  /\ record \in Pending \cup {None} /\ task \in Running \cup {Idle}
  /\ budget \in Budget

Awaiting == record # None /\ record.state = "awaiting"
Unused(id) == \A i \in DOMAIN ran : ran[i].id # id
Ends(turn) == Count > 0 /\ chat[Count] = [role |-> "user", turn |-> turn]
Answered(turn) == \E i \in DOMAIN chat : chat[i] = [role |-> "assistant", turn |-> turn]
Sent(s, request) == {j \in DOMAIN s : s[j].request = request}

\* No scope changes while a request is under way.
Planned == ~At("idle") => task.plan = Plan

\* The record on the card is the one the request continues, and no other.
Holding ==
  /\ ~At("idle") /\ task.id = 0 => record = None /\ task.op \in {"stream", "save"}
  /\ ~At("idle") /\ task.id # 0 =>
       /\ record # None /\ record.state # "awaiting"
       /\ record.id = task.id /\ record.turn = task.turn
       /\ record.request = task.request
  /\ record # None => record.rounds < MaxRounds

\* A claimed call has not run, and what it acts on is what was shown.
Claimed ==
  At("execute") =>
    /\ Unused(record.id)
    /\ record.target = target[record.tool] /\ Decision(record.tool) # Off

\* No call runs twice: an id that ran is not given again, and its record does
\* not wait any more.
Once ==
  /\ ConfirmedOnce
  /\ \A i \in DOMAIN ran : ran[i].id =< budget.ids
  /\ record.id =< budget.ids
  /\ Awaiting => Unused(record.id)

\* The question is the last message until it is answered; a record that waits
\* knows by the revision whether that is still so.
Asked ==
  /\ task.op \in {"stream", "save", "execute", "allow"} => Ends(task.turn)
  /\ At("clear") => Answered(task.turn)
  /\ Awaiting => record.revision =< revision
  /\ Awaiting /\ record.revision = revision => Ends(record.turn)

\* Turns and requests are numbered upwards.
Numbered ==
  /\ \A i \in DOMAIN chat : chat[i].turn =< Turns
  /\ \A i \in DOMAIN ran : ran[i].turn =< Turns /\ ran[i].request =< Requests
  /\ record # None => record.turn =< Turns /\ record.request =< Requests
  /\ ~At("idle") => task.turn =< Turns /\ task.request =< Requests

\* The rounds of a request cover the calls that ran for it.
Counted ==
  /\ \A r \in Nat : Cardinality(Sent(ran, r)) =< MaxRounds
  /\ ~At("idle") =>
       Cardinality(Sent(ran, task.request)) + (IF At("execute") THEN 1 ELSE 0)
         =< task.rounds
  /\ Awaiting => Cardinality(Sent(ran, record.request)) =< record.rounds

IInv ==
  /\ Types /\ Planned /\ Holding /\ Claimed /\ Once /\ Asked /\ Numbered /\ Counted
  /\ RunsWhatWasShown /\ RunsUnderPolicy /\ EffectsAccountedFor
  /\ AnswersFollowQuestions

-----------------------------------------------------------------------------
(* The operators *)

\* Of some levels one is the strictest.
LEMMA StrictestFacts ==
  ASSUME NEW S \in SUBSET Level, S # {}
  PROVE  LET d == CHOOSE d \in S : \A e \in S : d =< e
         IN  d \in S /\ \A e \in S : d =< e
<1>1. S \subseteq 0..3
  BY DEF Level, Off, Ask, Allow, Inherit
<1>2. \E d \in S : \A e \in S : d =< e
  <2>1. CASE 0 \in S
    BY <1>1, <2>1
  <2>2. CASE 0 \notin S /\ 1 \in S
    BY <1>1, <2>2
  <2>3. CASE 0 \notin S /\ 1 \notin S /\ 2 \in S
    BY <1>1, <2>3
  <2>4. CASE S = {3}
    BY <2>4
  <2>5. ASSUME 0 \notin S, 1 \notin S, 2 \notin S PROVE S = {3}
    <3>1. \A e \in S : e = 3
      BY <1>1, <2>5
    <3> QED BY <3>1
  <2> QED BY <2>1, <2>2, <2>3, <2>4, <2>5
<1> QED BY <1>2

\* The decision is the strictest level of any scope, or Off.
LEMMA DecisionFacts ==
  ASSUME Types, NEW t \in Tool
  PROVE  /\ Decision(t) \in Level
         /\ Decision(t) # Off => Off \notin {layers[l][t] : l \in Layer}
         /\ Decision(t) = Allow => Ask \notin {layers[l][t] : l \in Layer}
         /\ {layers[l][t] : l \in Layer} \in SUBSET Level
<1> DEFINE levels == {layers[l][t] : l \in Layer}
           d == CHOOSE d \in levels : \A e \in levels : d =< e
<1>1. levels \in SUBSET Level /\ levels # {}
  BY DEF Types, Layer
<1>2. Decision(t) = IF t = "ssh" /\ target[t] = 0 THEN Off ELSE d
  BY DEF Decision
<1> HIDE DEF levels
<1>3. d \in levels /\ \A e \in levels : d =< e
  BY <1>1, StrictestFacts
<1> HIDE DEF d
<1>4. /\ Decision(t) \in Level
      /\ Decision(t) # Off => Off \notin levels
      /\ Decision(t) = Allow => Ask \notin levels
  BY <1>1, <1>2, <1>3 DEF Level, Off, Ask, Allow, Inherit
<1> QED BY <1>1, <1>4 DEF levels

\* The bounds are numbers.
LEMMA Bounds == MaxTurns \in Nat /\ MaxRetries \in Nat /\ MaxRounds \in Nat
                  /\ MaxEdits \in Nat /\ MaxFaults \in Nat
  BY BoundsAssumption

\* The plan a request freezes has a level for every tool.
LEMMA PlanFacts == Types => Plan \in [Tool -> Level]
  BY DecisionFacts DEF Plan

\* What a request starts as, and what it goes on as behind a decided record.
LEMMA RequestFacts ==
  ASSUME Types, NEW s \in Surface, NEW turn \in Turn, NEW request \in Nat
  PROVE  Request(s, turn, request) \in Running
  BY PlanFacts, Bounds DEF Request, Running

\* What a request goes on as behind a decided record is a running task.
LEMMA ContinuedFacts ==
  ASSUME Types, Holding, NEW s \in Surface, record # None
  PROVE  Continued(s) \in Running
<1>1. record \in Pending
  BY DEF Types
<1>2. record.rounds + 1 \in 0..MaxRounds
  BY <1>1, Bounds DEF Holding, Pending
<1> QED BY <1>1, <1>2, PlanFacts DEF Continued, Running, Pending

\* A request under way is a whole one; otherwise there is none.
LEMMA Busy == ASSUME Types, ~At("idle") PROVE task \in Running
  BY DEF Types, At, Idle

\* An idle task holds nothing of a request.
LEMMA AtRest == ASSUME Types, At("idle") PROVE task = Idle
  BY DEF Types, At, Running

\* Forgetting how to go on.
LEMMA ContextFacts ==
  ASSUME context \in Contexts, NEW s \in Surface
  PROVE  [context EXCEPT ![s] = NoContext] \in Contexts
<1>1. NoContext \in [id : Nat, provider : Nat]
  BY DEF NoContext
<1> QED BY <1>1 DEF Contexts

\* A failed request ends and leaves what a retry needs.
LEMMA FailedFacts ==
  ASSUME Types, task \in Running, Failed
  PROVE  /\ task' = Idle
         /\ context' \in Contexts /\ retry' \in Nat
<1>1. task.by \in Surface /\ task.turn \in Nat
  BY DEF Running, Turn
<1>2. context \in Contexts /\ retry \in Nat
  BY DEF Types
<1> QED BY <1>1, <1>2, ContextFacts DEF Failed, Stop

\* What the history of calls remembers of a call is well formed.
LEMMA ExecutedFacts ==
  ASSUME Types, task \in Running, NEW t \in Tool, NEW id \in Nat, NEW shown \in Nat
  PROVE  Executed(t, id, shown) \in Call
<1>1. /\ task.request \in Nat /\ task.turn \in Turn
      /\ target[t] \in Nat
      /\ {layers[l][t] : l \in Layer} \in SUBSET Level
      /\ (record.id = id /\ id # 0) \in BOOLEAN
  BY DecisionFacts DEF Types, Running
<1> QED BY <1>1 DEF Executed, Call

\* A write that fails is counted.
LEMMA SpendFacts ==
  ASSUME budget \in Budget, FaultLeft, SpendFault
  PROVE  /\ budget' \in Budget /\ budget'.ids = budget.ids
         /\ budget'.turns = budget.turns /\ budget'.retries = budget.retries
  BY DEF FaultLeft, SpendFault, Budget

\* An audited call leaves everything else as it is, and ran, or did not.
LEMMA AuditedFacts ==
  ASSUME Types, task \in Running, NEW t \in Tool, NEW id \in Nat, NEW shown \in Nat,
         NEW then \in Running, Audited(t, id, shown, then)
  PROVE  /\ ran' \in Seq(Call) /\ target' \in [Tool -> Nat]
         /\ task' \in {then, Idle}
         /\ context' \in Contexts /\ retry' \in Nat
         /\ budget' \in Budget /\ budget'.ids = budget.ids
         /\ Turns' = Turns /\ Requests' = Requests
         /\ ran' \in {ran, Append(ran, Executed(t, id, shown))}
         /\ target' # target => target' = [target EXCEPT !["write"] = @ + 1] /\ t = "write"
         /\ (ran' = ran /\ target' = target) \/ ran' = Append(ran, Executed(t, id, shown))
<1>1. CASE FaultLeft /\ SpendFault /\ task' = then /\ UNCHANGED <<target, ran, context, retry>>
  <2>1. /\ budget' \in Budget /\ budget'.ids = budget.ids
        /\ budget'.turns = budget.turns /\ budget'.retries = budget.retries
    BY <1>1, SpendFacts DEF Types
  <2> QED BY <1>1, <2>1 DEF Types, Turns, Requests
<1>2. CASE /\ ran' = Append(ran, Executed(t, id, shown))
           /\ target' \in {target, Written(t)}
           /\ (task' = then /\ UNCHANGED <<context, retry>>) \/ Failed
           /\ UNCHANGED budget
  <2>1. ran' \in Seq(Call)
    BY <1>2, ExecutedFacts DEF Types
  <2>2. target' \in [Tool -> Nat]
        /\ (target' # target => target' = [target EXCEPT !["write"] = @ + 1] /\ t = "write")
    BY <1>2 DEF Types, Written, Tool
  <2>3. /\ task' \in {then, Idle}
        /\ context' \in Contexts /\ retry' \in Nat
    BY <1>2, FailedFacts DEF Types
  <2> QED BY <1>2, <2>1, <2>2, <2>3 DEF Types, Turns, Requests
<1> QED BY <1>1, <1>2 DEF Audited

-----------------------------------------------------------------------------
(* Types *)

\* A fresh chat is well formed.
LEMMA TypesInit == Init => Types
  BY Bounds DEF Init, Types, Surface, Tool, Layer, Level, Off, Ask, Allow, Inherit,
     NoContext, Contexts, Budget, Pending, None, Running, Idle

\* What the budget says about turns and requests so far.
LEMMA NumberFacts ==
  ASSUME budget \in Budget
  PROVE  Turns \in 0..MaxTurns /\ Requests \in Nat /\ budget.turns = MaxTurns - Turns
  BY Bounds DEF Turns, Requests, Budget

\* A prompt keeps the types.
LEMMA SubmitTypes ==
  ASSUME IInv, NEW s \in Surface, Submit(s)
  PROVE  Types'
<1> USE Bounds
<1>1. /\ budget \in Budget /\ context \in Contexts /\ chat \in Seq(Message)
      /\ revision \in Nat /\ retry \in Nat
  BY DEF IInv, Types
<1>2. Turns + 1 \in Turn /\ Requests + 1 \in Nat /\ budget.turns > 0
  <2>1. Turns < MaxTurns
    BY DEF Submit
  <2> QED BY <1>1, <2>1, NumberFacts DEF Turn
<1>3. PICK stored \in BOOLEAN :
        /\ stored \/ FaultLeft
        /\ budget' = [budget EXCEPT !.turns = @ - 1, !.faults = IF stored THEN @ ELSE @ - 1]
        /\ chat' = Append1("user", Turns + 1)
        /\ revision' = revision + (IF stored /\ (s = "device" \/ Count = 0) THEN 2 ELSE 1)
        /\ retry' = (IF s = "device" THEN Turns + 1 ELSE retry)
        /\ IF stored
             THEN /\ task' = Request(s, Turns + 1, Requests + 1)
                  /\ context' = (IF s = "device" THEN [context EXCEPT ![s] = NoContext] ELSE context)
             ELSE UNCHANGED <<task, context>>
  BY DEF Submit
<1>4. budget' \in Budget
  <2> DEFINE left == IF stored THEN budget.faults ELSE budget.faults - 1
  <2>1. budget.turns - 1 \in 0..MaxTurns /\ left \in Nat
    BY <1>1, <1>2, <1>3, SMTT(30) DEF Budget, FaultLeft
  <2>2. budget' = [budget EXCEPT !.turns = budget.turns - 1, !.faults = left]
    BY <1>3
  <2> HIDE DEF left
  <2> QED BY <1>1, <2>1, <2>2 DEF Budget
<1>5. Append1("user", Turns + 1) \in Seq(Message)
  BY <1>1, <1>2 DEF Append1, Message
<1>6. context' \in Contexts
  BY <1>1, <1>3, ContextFacts
<1>7. task' \in Running \cup {Idle}
  BY <1>2, <1>3, RequestFacts DEF IInv, Types
<1>8. revision' \in Nat /\ retry' \in Nat
  BY <1>1, <1>2, <1>3 DEF Turn
<1> QED
  BY <1>3, <1>4, <1>5, <1>6, <1>7, <1>8 DEF IInv, Types, Submit

\* A retry keeps the types.
LEMMA RetryTypes ==
  ASSUME IInv, NEW s \in Surface, Retry(s)
  PROVE  Types'
<1> USE Bounds
<1>1. budget \in Budget /\ context \in Contexts /\ chat \in Seq(Message)
  BY DEF IInv, Types
<1>2. LastTurn \in Turn
  <2>1. LastTurn # 0
    BY DEF Retry
  <2>2. Count # 0 /\ Count \in Nat /\ chat[Count] \in Message
    BY <1>1, <2>1 DEF LastTurn, Count
  <2> QED BY <2>1, <2>2 DEF LastTurn, Message
<1>3. Requests + 1 \in Nat
  BY <1>1, NumberFacts
<1>4. budget' \in Budget
  BY <1>1 DEF Retry, Budget
<1>5. task' \in Running /\ context' \in Contexts
  BY <1>1, <1>2, <1>3, ContextFacts, RequestFacts DEF Retry, IInv
<1> QED
  BY <1>4, <1>5 DEF IInv, Types, Retry

\* What a response of the model brings keeps the types.
LEMMA StreamTypes ==
  ASSUME IInv, NEW t \in Tool, Answer \/ Break \/ Refuse(t) \/ Run(t)
  PROVE  Types'
<1>1. task \in Running
  BY Busy DEF Answer, Break, Refuse, Run, At, IInv
<1>2. CASE Answer
  <2>1. task' \in Running
    BY <1>1, <1>2 DEF Answer, Go, Running
  <2> QED BY <1>2, <2>1 DEF Answer, IInv, Types
<1>3. CASE Break
  BY <1>1, <1>3, FailedFacts DEF Break, IInv, Types
<1>4. ASSUME task.rounds < MaxRounds PROVE NextRound \in Running
  <2>1. task.rounds + 1 \in 0..MaxRounds
    BY <1>1, <1>4, Bounds DEF Running
  <2>2. NextRound = [task EXCEPT !.op = "stream", !.rounds = task.rounds + 1]
    BY DEF NextRound
  <2> QED BY <1>1, <2>1, <2>2 DEF Running
<1>5. CASE Refuse(t)
  BY <1>4, <1>5 DEF Refuse, IInv, Types
<1>6. CASE Run(t)
  <2>1. NextRound \in Running /\ target[t] \in Nat /\ Audited(t, 0, target[t], NextRound)
    BY <1>4, <1>6 DEF Run, IInv, Types
  <2> QED
    BY <1>1, <1>6, <2>1, AuditedFacts DEF Run, IInv, Types
<1> QED
  BY <1>2, <1>3, <1>5, <1>6

\* A call saved for confirmation keeps the types.
LEMMA ConfirmTypes ==
  ASSUME IInv, NEW t \in Tool, Confirm(t)
  PROVE  Types' /\ Waiting(t) \in Pending
<1>1. task \in Running /\ budget \in Budget /\ budget.ids \in Nat
  BY Busy DEF Confirm, At, IInv, Types, Budget
<1>2. Waiting(t) \in Pending
  <2>1. /\ target[t] \in Nat /\ revision \in Nat /\ Count \in Nat
        /\ task.turn \in Turn /\ task.rounds \in Nat /\ task.request \in Nat
        /\ budget.ids + 1 \in Nat \ {0}
    BY <1>1, Bounds DEF IInv, Types, Running, Count
  <2> QED BY <2>1 DEF Waiting, Pending
<1>3. Types'
  <2> DEFINE way == [id |-> budget.ids + 1,
                       provider |-> IF task.id = 0 THEN provider ELSE context[task.by].provider]
  <2>1. CASE /\ record' = Waiting(t) /\ resumable' = budget.ids + 1
             /\ context' = [context EXCEPT ![task.by] = way]
             /\ retry' = (IF task.by = "device" /\ task.id = 0 THEN 0 ELSE retry)
             /\ Stop /\ budget' = [budget EXCEPT !.ids = @ + 1]
    <3>1. context' \in Contexts
      <4>1. task.by \in Surface /\ context \in Contexts /\ provider \in Nat
        BY <1>1 DEF Running, IInv, Types
      <4>2. way \in [id : Nat, provider : Nat]
        BY <1>1, <4>1 DEF Contexts
      <4> HIDE DEF way
      <4> QED BY <2>1, <4>1, <4>2 DEF Contexts
    <3>2. budget' \in Budget
      BY <1>1, <2>1 DEF Budget
    <3> QED BY <1>1, <1>2, <2>1, <3>1, <3>2 DEF Confirm, Stop, IInv, Types
  <2>2. CASE /\ FaultLeft /\ record' \in {record, Waiting(t)}
             /\ budget' = [budget EXCEPT !.faults = @ - 1,
                                         !.ids = IF record' = record THEN @ ELSE @ + 1]
             /\ Failed /\ UNCHANGED resumable
    <3>1. budget' \in Budget
      <4> DEFINE given == IF record' = record THEN budget.ids ELSE budget.ids + 1
      <4>1. budget.faults - 1 \in Nat /\ given \in Nat
        BY <1>1, <2>2 DEF Budget, FaultLeft
      <4>2. budget' = [budget EXCEPT !.faults = budget.faults - 1, !.ids = given]
        BY <2>2
      <4> HIDE DEF given
      <4> QED BY <1>1, <4>1, <4>2 DEF Budget
    <3> QED BY <1>1, <1>2, <2>2, <3>1, FailedFacts DEF Confirm, IInv, Types
  <2> QED BY <2>1, <2>2 DEF Confirm
<1> QED BY <1>2, <1>3

\* Saving the answer or clearing the record keeps the types.
LEMMA SaveTypes ==
  ASSUME IInv, SaveAnswer \/ ClearRecord
  PROVE  Types'
<1>1. task \in Running /\ budget \in Budget /\ task.by \in Surface /\ context \in Contexts
  BY Busy DEF SaveAnswer, ClearRecord, At, IInv, Types, Running
<1>2. [context EXCEPT ![task.by] = NoContext] \in Contexts
  BY <1>1, ContextFacts
<1>3. FaultLeft /\ SpendFault => budget' \in Budget
  BY <1>1, SpendFacts
<1>4. CASE SaveAnswer
  <2>1. Append1("assistant", task.turn) \in Seq(Message)
    BY <1>1 DEF IInv, Types, Append1, Message, Running
  <2>2. chat' \in Seq(Message) /\ revision' \in Nat /\ retry' \in Nat /\ budget' \in Budget
    BY <1>1, <1>3, <1>4, <2>1 DEF SaveAnswer, IInv, Types
  <2>3. context' \in Contexts
    BY <1>1, <1>2, <1>4 DEF SaveAnswer
  <2>4. task' \in Running \cup {Idle}
    BY <1>1, <1>4 DEF SaveAnswer, Stop, Go, Running
  <2> QED BY <1>4, <2>2, <2>3, <2>4 DEF SaveAnswer, IInv, Types
<1>5. CASE ClearRecord
  BY <1>1, <1>2, <1>3, <1>5 DEF ClearRecord, Stop, IInv, Types
<1> QED BY <1>4, <1>5

\* An approval keeps the types.
LEMMA ApproveTypes ==
  ASSUME IInv, NEW s \in Surface, NEW lasting \in BOOLEAN, Approve(s, lasting)
  PROVE  Types'
<1> DEFINE claimed == [record EXCEPT !.state = "claimed"]
<1>1. record \in Pending /\ record # None
  BY DEF Approve, Permitted, IInv, Types
<1>2. claimed \in Pending
  BY <1>1 DEF Pending
<1>3. [Continued(s) EXCEPT !.op = "execute", !.lasting = lasting] \in Running
  <2>1. Continued(s) \in Running
    BY <1>1, ContinuedFacts DEF IInv
  <2> QED BY <2>1 DEF Running
<1> HIDE DEF claimed
<1>4. record' \in Pending
  BY <1>1, <1>2 DEF Approve, claimed
<1>5. task' \in Running \cup {Idle}
  BY <1>3 DEF Approve, IInv, Types
<1>6. budget' \in Budget
  BY SpendFacts DEF Approve, IInv, Types
<1> QED BY <1>4, <1>5, <1>6 DEF Approve, IInv, Types

\* Running an approved call, or allowing the tool for the chat, keeps the types.
LEMMA ExecuteTypes ==
  ASSUME IInv, Execute \/ AllowForChat
  PROVE  Types'
<1>1. /\ task \in Running /\ task.op \in {"execute", "allow"}
      /\ record \in Pending /\ record.tool \in Tool /\ record.target \in Nat
  BY Busy DEF Execute, AllowForChat, At, IInv, Types, Holding, Pending
<1>2. CASE Execute
  <2> DEFINE then == [task EXCEPT !.op = IF task.lasting THEN "allow" ELSE "stream"]
  <2>1. then \in Running /\ task.id \in Nat
    BY <1>1 DEF Running
  <2>2. Audited(record.tool, task.id, record.target, then)
    BY <1>2 DEF Execute
  <2> HIDE DEF then
  <2> QED BY <1>1, <1>2, <2>1, <2>2, AuditedFacts, SMTT(30) DEF Execute, IInv, Types
<1>3. CASE AllowForChat
  <2>1. CASE /\ layers' = [layers EXCEPT !["chat"][record.tool] = Allow]
             /\ revision' = revision + 1
             /\ task' = [task EXCEPT !.op = "stream", !.plan = Plan']
             /\ UNCHANGED budget
    <3>1. layers' \in [Layer -> [Tool -> Level]]
      <4>1. [layers["chat"] EXCEPT ![record.tool] = Allow] \in [Tool -> Level]
        BY <1>1 DEF IInv, Types, Layer, Level
      <4> QED BY <2>1, <4>1 DEF IInv, Types, Layer
    <3>2. Plan' \in [Tool -> Level]
      <4>1. \A t \in Tool : Decision(t)' \in Level
        <5> SUFFICES ASSUME NEW t \in Tool PROVE Decision(t)' \in Level
          OBVIOUS
        <5> DEFINE levels == {layers'[l][t] : l \in Layer}
                   d == CHOOSE d \in levels : \A e \in levels : d =< e
        <5>1. levels \in SUBSET Level /\ levels # {}
          BY <3>1 DEF Layer
        <5>2. Decision(t)' = IF t = "ssh" /\ target'[t] = 0 THEN Off ELSE d
          BY DEF Decision
        <5> HIDE DEF levels
        <5>3. d \in levels
          BY <5>1, StrictestFacts
        <5> QED BY <5>1, <5>2, <5>3 DEF Level
      <4> QED BY <4>1 DEF Plan
    <3>3. task' \in Running
      BY <1>1, <2>1, <3>2 DEF Running
    <3> QED BY <1>3, <2>1, <3>1, <3>3 DEF AllowForChat, IInv, Types
  <2>2. CASE FaultLeft /\ SpendFault /\ Go("stream") /\ UNCHANGED <<layers, revision>>
    <3>1. task' \in Running
      BY <1>1, <2>2 DEF Go, Running
    <3> QED BY <1>3, <2>2, <3>1, SpendFacts DEF AllowForChat, IInv, Types
  <2> QED BY <1>3, <2>1, <2>2 DEF AllowForChat
<1> QED BY <1>2, <1>3

\* A denial or an acknowledgement keeps the types.
LEMMA DecideTypes ==
  ASSUME IInv, NEW s \in Surface, Deny(s) \/ Acknowledge(s)
  PROVE  Types'
<1>1. context \in Contexts /\ [context EXCEPT ![s] = NoContext] \in Contexts
  BY ContextFacts DEF IInv, Types
<1>2. FaultLeft /\ SpendFault => budget' \in Budget
  BY SpendFacts DEF IInv, Types
<1>3. record \in Pending /\ record # None
  BY DEF Deny, Acknowledge, Refusable, Dismissible, IInv, Types
<1>4. CASE Deny(s)
  <2> DEFINE denied == [record EXCEPT !.state = "denied"]
  <2>1. denied \in Pending
    BY <1>3 DEF Pending
  <2>2. Continued(s) \in Running
    BY <1>3, ContinuedFacts DEF IInv
  <2> HIDE DEF denied
  <2>3. record' \in Pending /\ budget' \in Budget
    BY <1>2, <1>3, <1>4, <2>1 DEF Deny, denied, IInv, Types
  <2>4. task' \in Running \cup {Idle} /\ context' \in Contexts
    BY <1>1, <1>4, <2>2 DEF Deny, IInv, Types
  <2> QED BY <1>4, <2>3, <2>4 DEF Deny, IInv, Types
<1>5. CASE Acknowledge(s)
  <2>1. record.turn \in Turn
    BY <1>3 DEF Pending
  <2>2. told' \subseteq Turn /\ record' \in Pending \cup {None} /\ resumable' \in Nat
    BY <1>3, <1>5, <2>1 DEF Acknowledge, IInv, Types
  <2>3. context' \in Contexts /\ budget' \in Budget
    BY <1>1, <1>2, <1>5 DEF Acknowledge, IInv, Types
  <2> QED BY <1>5, <2>2, <2>3 DEF Acknowledge, IInv, Types
<1> QED BY <1>4, <1>5

\* An edit spends its budget only, and only while nothing is in progress.
LEMMA EditFacts ==
  ASSUME budget \in Budget, Edit
  PROVE  /\ budget' \in Budget /\ budget'.ids = budget.ids
         /\ budget'.turns = budget.turns /\ budget'.retries = budget.retries
         /\ At("idle")
  BY DEF Edit, Budget

\* What the user does between requests keeps the types.
LEMMA IdleTypes ==
  ASSUME IInv, EnterWeb \/ LeaveWeb \/ Rename \/ ChangeProvider \/ ClearChat \/ Reset
  PROVE  Types'
<1>1. Edit => budget' \in Budget
  BY EditFacts DEF IInv, Types
<1>2. CASE EnterWeb \/ LeaveWeb
  <2>1. [context EXCEPT !["web"] = NoContext] \in Contexts
    BY ContextFacts DEF IInv, Types, Surface
  <2> QED BY <1>2, <2>1 DEF EnterWeb, LeaveWeb, IInv, Types, Surface
<1>3. CASE Rename \/ ChangeProvider
  BY <1>1, <1>3 DEF Rename, ChangeProvider, IInv, Types
<1>4. CASE ClearChat
  <2>1. 1..Turns \subseteq Turn
    BY NumberFacts, Bounds DEF IInv, Types, Turn
  <2>2. << >> \in Seq(Message)
    OBVIOUS
  <2> QED BY <1>1, <1>4, <2>1, <2>2 DEF ClearChat, IInv, Types
<1>5. CASE Reset
  <2>1. [s \in Surface |-> NoContext] \in Contexts
    BY DEF Contexts, NoContext
  <2> QED BY <1>5, <2>1, SpendFacts DEF Reset, IInv, Types, Surface
<1> QED BY <1>2, <1>3, <1>4, <1>5

\* Changing a target or a permission keeps the types.
LEMMA EditTypes ==
  ASSUME IInv, NEW t \in Tool, NEW l \in Layer, NEW d \in {Off, Ask, Allow, Inherit},
         ChangeTarget(t) \/ SetPermission(l, t, d)
  PROVE  Types'
<1>1. Edit => budget' \in Budget
  BY EditFacts DEF IInv, Types
<1>2. CASE ChangeTarget(t)
  <2>1. target' \in [Tool -> Nat]
    <3>1. target \in [Tool -> Nat]
      BY DEF IInv, Types
    <3>2. [target EXCEPT ![t] = 0] \in [Tool -> Nat] /\ [target EXCEPT ![t] = @ + 1] \in [Tool -> Nat]
      BY <3>1
    <3> QED BY <1>2, <3>2 DEF ChangeTarget
  <2> QED BY <1>1, <1>2, <2>1 DEF ChangeTarget, IInv, Types
<1>3. CASE SetPermission(l, t, d)
  <2>1. [layers[l] EXCEPT ![t] = d] \in [Tool -> Level]
    BY DEF IInv, Types, Level
  <2>2. layers' \in [Layer -> [Tool -> Level]] /\ revision' \in Nat
    BY <1>3, <2>1 DEF SetPermission, IInv, Types
  <2> QED BY <1>1, <1>3, <2>2 DEF SetPermission, IInv, Types
<1> QED BY <1>2, <1>3

\* Whatever is done, everything keeps its type.
LEMMA TypesPreserved ==
  ASSUME IInv, [Next]_vars
  PROVE  Types'
<1>1. CASE UNCHANGED vars
  BY <1>1 DEF vars, IInv, Types
<1>2. ASSUME NEW s \in Surface,
             Submit(s) \/ Retry(s) \/ Deny(s) \/ Acknowledge(s)
             \/ \E lasting \in BOOLEAN : Approve(s, lasting)
      PROVE  Types'
  BY <1>2, SubmitTypes, RetryTypes, DecideTypes, ApproveTypes
<1>3. CASE Answer \/ Break
  BY <1>3, StreamTypes DEF Tool
<1>4. CASE SaveAnswer \/ ClearRecord \/ Execute \/ AllowForChat
  BY <1>4, SaveTypes, ExecuteTypes
<1>5. ASSUME NEW t \in Tool,
             Refuse(t) \/ Run(t) \/ Confirm(t) \/ ChangeTarget(t)
             \/ \E l \in Layer, d \in {Off, Ask, Allow, Inherit} : SetPermission(l, t, d)
      PROVE  Types'
  BY <1>5, StreamTypes, ConfirmTypes, EditTypes DEF Layer
<1>6. CASE EnterWeb \/ LeaveWeb \/ Rename \/ ChangeProvider \/ ClearChat \/ Reset
  BY <1>6, IdleTypes
<1> QED BY <1>1, <1>2, <1>3, <1>4, <1>5, <1>6 DEF Next

-----------------------------------------------------------------------------
(* Sequences of calls and of messages *)

\* What Append does to length, domain and elements.
LEMMA AppendFacts ==
  ASSUME NEW S, NEW s \in Seq(S), NEW x \in S
  PROVE  /\ Len(s) \in Nat /\ DOMAIN s = 1..Len(s) /\ Len(Append(s, x)) = Len(s) + 1
         /\ DOMAIN Append(s, x) = DOMAIN s \cup {Len(s) + 1}
         /\ Len(s) + 1 \notin DOMAIN s
         /\ Append(s, x)[Len(s) + 1] = x
         /\ \A i \in DOMAIN s : Append(s, x)[i] = s[i] /\ i \in Nat
<1>1. /\ Len(s) \in Nat /\ DOMAIN s = 1..Len(s) /\ Len(Append(s, x)) = Len(s) + 1
      /\ DOMAIN Append(s, x) = 1..Len(s) + 1
      /\ Append(s, x)[Len(s) + 1] = x
      /\ \A i \in 1..Len(s) : Append(s, x)[i] = s[i]
  OBVIOUS
<1>2. 1..Len(s) + 1 = 1..Len(s) \cup {Len(s) + 1} /\ Len(s) + 1 \notin 1..Len(s)
  BY <1>1
<1> QED BY <1>1, <1>2

\* One more call of a request is one more in its count.
LEMMA SentFacts ==
  ASSUME NEW s \in Seq(Call), NEW r
  PROVE  /\ IsFiniteSet(Sent(s, r)) /\ Cardinality(Sent(s, r)) \in Nat
         /\ \A x \in Call : Cardinality(Sent(Append(s, x), r)) =
              Cardinality(Sent(s, r)) + (IF x.request = r THEN 1 ELSE 0)
<1>1. IsFiniteSet(Sent(s, r)) /\ Cardinality(Sent(s, r)) \in Nat
  <2>1. Sent(s, r) \subseteq 1..Len(s)
    BY DEF Sent
  <2>2. IsFiniteSet(1..Len(s))
    BY FS_Interval
  <2> QED BY <2>1, <2>2, FS_Subset, FS_CardinalityType
<1>2. ASSUME NEW x \in Call
      PROVE  Cardinality(Sent(Append(s, x), r)) =
               Cardinality(Sent(s, r)) + (IF x.request = r THEN 1 ELSE 0)
  <2>1. CASE x.request = r
    <3>1. Sent(Append(s, x), r) = Sent(s, r) \cup {Len(s) + 1}
      BY <2>1, AppendFacts DEF Sent
    <3>2. Len(s) + 1 \notin Sent(s, r)
      BY AppendFacts DEF Sent
    <3> QED BY <1>1, <2>1, <3>1, <3>2, FS_AddElement, ZenonT(60)
  <2>2. CASE x.request # r
    <3>1. Sent(Append(s, x), r) = Sent(s, r)
      BY <2>2, AppendFacts DEF Sent
    <3> QED BY <1>1, <2>2, <3>1
  <2> QED BY <2>1, <2>2
<1> QED BY <1>1, <1>2

\* No call ran for a request that has not been made.
LEMMA NoneSent ==
  ASSUME IInv
  PROVE  Cardinality(Sent(ran, Requests + 1)) = 0
<1>1. Requests \in Nat /\ ran \in Seq(Call)
  BY NumberFacts DEF IInv, Types
<1>2. \A i \in DOMAIN ran : ran[i].request \in Nat /\ ran[i].request =< Requests
  <2>1. \A i \in DOMAIN ran : ran[i] \in Call
    BY <1>1
  <2> QED BY <2>1 DEF IInv, Numbered, Call
<1>3. Sent(ran, Requests + 1) = {}
  BY <1>1, <1>2 DEF Sent
<1> QED BY <1>3, FS_EmptySet

-----------------------------------------------------------------------------
(* Steps that end a request, or are taken between requests *)

\* The request is over or there was none; the chat, the calls that ran and the
\* record are as they were, except that the record may not wait any more.
LEMMA RestPreserves ==
  ASSUME IInv, Types', task' = Idle, UNCHANGED <<chat, ran>>,
         revision' \in {revision, revision + 1}, told' = told,
         Turns' = Turns, Requests' = Requests, budget'.ids = budget.ids,
         record' = record \/ (record # None /\ \E x \in {"claimed", "denied"} :
                                 record' = [record EXCEPT !.state = x])
  PROVE  IInv'
<1>1. At("idle")' /\ ~At("execute")' /\ ~At("clear")'
      /\ task'.op \notin {"stream", "save", "execute", "allow"}
  BY DEF At, Idle
<1>2. /\ record'.id = record.id /\ (record' = None <=> record = None)
      /\ record # None => /\ record'.turn = record.turn /\ record'.request = record.request
                          /\ record'.rounds = record.rounds /\ record'.revision = record.revision
      /\ Awaiting' => Awaiting /\ record' = record
  <2>1. CASE record' = record
    BY <2>1 DEF Awaiting
  <2>2. CASE record # None /\ \E x \in {"claimed", "denied"} :
               record' = [record EXCEPT !.state = x]
    <3>1. record \in Pending
      BY <2>2 DEF IInv, Types
    <3> QED BY <2>2, <3>1 DEF Pending, None, Awaiting
  <2> QED BY <2>1, <2>2
<1>3. Planned' /\ Holding' /\ Claimed'
  BY <1>1, <1>2 DEF IInv, Planned, Holding, Claimed
<1>4. Once'
  BY <1>2 DEF IInv, Once, ConfirmedOnce, Unused
<1>5. Asked'
  <2>1. revision \in Nat /\ (Awaiting => record.revision \in Nat)
    BY DEF IInv, Types, Awaiting, Pending
  <2> QED BY <1>1, <1>2, <2>1 DEF IInv, Asked, Ends, Count, Awaiting
<1>6. Numbered'
  BY <1>1, <1>2 DEF IInv, Numbered
<1>7. Counted'
  BY <1>1, <1>2 DEF IInv, Counted
<1>8. RunsWhatWasShown' /\ RunsUnderPolicy' /\ AnswersFollowQuestions'
  BY DEF IInv, RunsWhatWasShown, RunsUnderPolicy, AnswersFollowQuestions
<1>9. EffectsAccountedFor'
  BY <1>2 DEF IInv, EffectsAccountedFor
<1> QED BY <1>3, <1>4, <1>5, <1>6, <1>7, <1>8, <1>9 DEF IInv

\* The user's other actions, a reset, a broken request, a write that fails.
LEMMA RestSteps ==
  ASSUME IInv, Types',
         \/ EnterWeb \/ LeaveWeb \/ Rename \/ ChangeProvider \/ Reset \/ Break
         \/ \E t \in Tool : ChangeTarget(t)
         \/ \E t \in Tool, l \in Layer, d \in Level : SetPermission(l, t, d)
  PROVE  IInv'
<1>1. budget \in Budget /\ revision \in Nat
  BY DEF IInv, Types
<1>2. ASSUME budget' = budget \/ Edit \/ (FaultLeft /\ SpendFault)
      PROVE  Turns' = Turns /\ Requests' = Requests /\ budget'.ids = budget.ids
  BY <1>1, <1>2, EditFacts, SpendFacts DEF Turns, Requests
<1>3. ASSUME At("idle"), UNCHANGED task PROVE task' = Idle
  BY <1>3, AtRest DEF IInv
<1>4. CASE EnterWeb \/ LeaveWeb
  BY <1>2, <1>3, <1>4, RestPreserves DEF EnterWeb, LeaveWeb, IdleOn
<1>5. CASE Rename \/ ChangeProvider
  <2>1. Edit /\ At("idle")
    BY <1>5 DEF Rename, ChangeProvider, Edit
  <2> QED BY <1>2, <1>3, <1>5, <2>1, RestPreserves DEF Rename, ChangeProvider
<1>6. CASE \E t \in Tool : ChangeTarget(t)
  <2>1. PICK t \in Tool : ChangeTarget(t)
    BY <1>6
  <2>2. Edit /\ At("idle")
    BY <2>1 DEF ChangeTarget, Edit
  <2> QED BY <1>2, <1>3, <2>1, <2>2, RestPreserves DEF ChangeTarget
<1>7. CASE \E t \in Tool, l \in Layer, d \in Level : SetPermission(l, t, d)
  <2>1. PICK t \in Tool, l \in Layer, d \in Level : SetPermission(l, t, d)
    BY <1>7
  <2>2. Edit /\ At("idle")
    BY <2>1 DEF SetPermission, Edit
  <2> QED BY <1>2, <1>3, <2>1, <2>2, RestPreserves DEF SetPermission
<1>8. CASE Reset
  BY <1>2, <1>8, RestPreserves DEF Reset
<1>9. CASE Break
  BY <1>2, <1>9, RestPreserves DEF Break, Failed, Stop
<1> QED BY <1>4, <1>5, <1>6, <1>7, <1>8, <1>9

\* The chat is emptied, and the user knows of what was in it.
LEMMA ClearChatPreserves ==
  ASSUME IInv, Types', ClearChat
  PROVE  IInv'
<1>1. /\ task' = Idle /\ chat' = << >> /\ revision' = revision + 1 /\ Edit
      /\ UNCHANGED <<record, ran>>
      /\ DOMAIN chat' = {}
  BY AtRest DEF ClearChat, Edit, IInv
<1>2. /\ Turns' = Turns /\ Requests' = Requests /\ budget'.ids = budget.ids
      /\ Turns \in Nat
  BY <1>1, EditFacts, NumberFacts, Bounds DEF IInv, Types, Turns, Requests
<1>3. At("idle")' /\ ~At("execute")' /\ ~At("clear")'
      /\ task'.op \notin {"stream", "save", "execute", "allow"}
  BY <1>1 DEF At, Idle
<1>4. Planned' /\ Holding' /\ Claimed' /\ Once'
  BY <1>1, <1>2, <1>3
  DEF IInv, Planned, Holding, Claimed, Once, ConfirmedOnce, Unused, Awaiting
<1>5. Asked'
  <2>1. revision \in Nat /\ (Awaiting => record.revision \in Nat)
    BY DEF IInv, Types, Awaiting, Pending
  <2> QED BY <1>1, <1>3, <2>1 DEF IInv, Asked, Awaiting
<1>6. Numbered' /\ Counted'
  BY <1>1, <1>2, <1>3 DEF IInv, Numbered, Counted, Awaiting
<1>7. RunsWhatWasShown' /\ RunsUnderPolicy' /\ AnswersFollowQuestions'
  BY <1>1 DEF IInv, RunsWhatWasShown, RunsUnderPolicy, AnswersFollowQuestions
<1>8. EffectsAccountedFor'
  <2>1. \A i \in DOMAIN ran : ran[i].turn \in 1..Turns
    <3>1. \A i \in DOMAIN ran : ran[i] \in Call
      BY DEF IInv, Types
    <3> QED BY <1>2, <3>1, Bounds DEF IInv, Numbered, Call, Turn
  <2> QED BY <1>1, <2>1 DEF ClearChat, EffectsAccountedFor
<1> QED BY <1>4, <1>5, <1>6, <1>7, <1>8 DEF IInv

-----------------------------------------------------------------------------
(* Steps that start a request *)

\* A request starts for the question that ends the chat, with no record about.
LEMMA StartPreserves ==
  ASSUME IInv, Types', NEW s \in Surface, NEW turn \in Turn,
         record = None, UNCHANGED <<record, ran, layers, target, told>>,
         task' \in {Idle, Request(s, turn, Requests + 1)},
         Turns =< Turns', turn =< Turns', Requests' = Requests + 1,
         budget'.ids = budget.ids,
         chat' = chat \/ chat' = Append1("user", turn), Ends(turn)',
         Turns \in Nat, Turns' \in Nat, Requests \in Nat
  PROVE  IInv'
<1> USE Bounds
<1>1. /\ task' = Idle \/ /\ task' \in Running /\ task'.op = "stream" /\ task'.id = 0
                         /\ task'.rounds = 0 /\ task'.turn = turn
                         /\ task'.request = Requests + 1 /\ task'.plan = Plan
      /\ ~At("execute")' /\ ~At("clear")'
      /\ task'.op \in {"stream", "save", "execute", "allow"} => task'.turn = turn
      /\ ~Awaiting /\ ~Awaiting'
  BY DEF Types, At, Idle, Request, Running, Awaiting
<1>2. Plan' = Plan
  BY DEF Plan, Decision
<1>3. Planned' /\ Holding' /\ Claimed'
  BY <1>1, <1>2 DEF IInv, Planned, Holding, Claimed, At, Idle
<1>4. Once'
  BY <1>1 DEF IInv, Once, ConfirmedOnce
<1>5. Asked'
  BY <1>1 DEF Asked
<1>6. chat \in Seq(Message)
      /\ \A i \in DOMAIN chat : chat[i].turn \in Nat /\ chat[i] \in Message
  <2>1. chat \in Seq(Message) /\ \A i \in DOMAIN chat : chat[i] \in Message
    BY DEF IInv, Types
  <2> QED BY <2>1 DEF Message, Turn
<1>7. [role |-> "user", turn |-> turn] \in Message
  BY DEF Message
<1>8. /\ \A i \in DOMAIN chat : i \in DOMAIN chat' /\ chat'[i] = chat[i]
      /\ \A i \in DOMAIN chat' :
           i \in DOMAIN chat \/ chat'[i] = [role |-> "user", turn |-> turn]
  BY <1>6, <1>7, AppendFacts DEF Append1
<1>9. Numbered'
  <2>1. \A i \in DOMAIN chat' : chat'[i].turn =< Turns'
    BY <1>6, <1>8 DEF IInv, Numbered
  <2>2. \A i \in DOMAIN ran : ran[i].turn \in Nat /\ ran[i].request \in Nat
    <3>1. \A i \in DOMAIN ran : ran[i] \in Call
      BY DEF IInv, Types
    <3> QED BY <3>1 DEF Call, Turn
  <2> QED BY <1>1, <2>1, <2>2 DEF IInv, Numbered, At, Idle
<1>10. Counted'
  BY <1>1, NoneSent DEF IInv, Counted, At, Idle
<1>11. RunsWhatWasShown' /\ RunsUnderPolicy'
  BY DEF IInv, RunsWhatWasShown, RunsUnderPolicy
<1>12. EffectsAccountedFor'
  BY <1>8 DEF IInv, EffectsAccountedFor
<1>13. AnswersFollowQuestions'
  <2> SUFFICES ASSUME NEW i \in DOMAIN chat', chat'[i].role = "assistant"
               PROVE  i > 1 /\ chat'[i - 1] = [role |-> "user", turn |-> chat'[i].turn]
    BY DEF AnswersFollowQuestions
  <2>1. i \in DOMAIN chat /\ chat'[i] = chat[i]
    BY <1>8
  <2>2. i > 1 /\ chat[i - 1] = [role |-> "user", turn |-> chat[i].turn]
    BY <2>1 DEF IInv, AnswersFollowQuestions
  <2>3. i - 1 \in DOMAIN chat
    BY <1>6, <2>1, <2>2
  <2> QED BY <1>8, <2>1, <2>2, <2>3
<1> QED
  BY <1>3, <1>4, <1>5, <1>9, <1>10, <1>11, <1>12, <1>13 DEF IInv

\* A prompt opens a turn of its own, with a plan of its own.
LEMMA SubmitPreserves ==
  ASSUME IInv, Types', NEW s \in Surface, Submit(s)
  PROVE  IInv'
<1>1. budget \in Budget /\ chat \in Seq(Message) /\ Turns < MaxTurns /\ record = None
      /\ At("idle")
  BY DEF IInv, Types, Submit, IdleOn
<1>2. /\ Turns \in Nat /\ Requests \in Nat /\ Turns + 1 \in Turn
  BY <1>1, NumberFacts, Bounds DEF Turn
<1>3. budget'.turns = budget.turns - 1 /\ budget'.retries = budget.retries
      /\ budget'.ids = budget.ids
  BY <1>1 DEF Submit, Budget
<1>4. Turns' = Turns + 1 /\ Requests' = Requests + 1
  BY <1>1, <1>2, <1>3, Bounds, SMTT(30) DEF Turns, Requests, Budget
<1>5. chat' = Append1("user", Turns + 1)
  BY DEF Submit
<1>6. PICK turn \in Turn : turn = Turns + 1
  BY <1>2
<1>7. task' \in {Idle, Request(s, turn, Requests + 1)}
  BY <1>1, <1>6, AtRest DEF Submit, IInv
<1>8. Ends(turn)'
  <2>1. [role |-> "user", turn |-> turn] \in Message
    BY DEF Message
  <2> QED BY <1>1, <1>5, <1>6, <2>1, AppendFacts DEF Ends, Count, Append1
<1>9. UNCHANGED <<record, ran, layers, target, told>>
  BY DEF Submit
<1> QED
  BY <1>1, <1>2, <1>3, <1>4, <1>5, <1>6, <1>7, <1>8, <1>9, StartPreserves

\* A retry goes on with the turn that failed.
LEMMA RetryPreserves ==
  ASSUME IInv, Types', NEW s \in Surface, Retry(s)
  PROVE  IInv'
<1>1. budget \in Budget /\ chat \in Seq(Message) /\ record = None /\ LastTurn # 0
  BY DEF IInv, Types, Retry
<1>2. Ends(LastTurn) /\ LastTurn \in Turn /\ LastTurn =< Turns
  <2>1. /\ Count \in Nat /\ Count > 0 /\ chat[Count] \in Message
        /\ chat[Count].role = "user" /\ chat[Count].turn = LastTurn
        /\ Count \in DOMAIN chat
    BY <1>1 DEF LastTurn, Count
  <2> QED BY <2>1 DEF Ends, Message, IInv, Numbered
<1>3. Turns \in Nat /\ Requests \in Nat
  BY <1>1, NumberFacts, Bounds
<1>4. budget'.turns = budget.turns /\ budget'.retries = budget.retries - 1
      /\ budget'.ids = budget.ids
  BY <1>1 DEF Retry, Budget
<1>5. Turns' = Turns /\ Requests' = Requests + 1
  BY <1>1, <1>3, <1>4, Bounds DEF Turns, Requests, Budget
<1>6. PICK turn \in Turn : turn = LastTurn
  BY <1>2
<1>7. /\ task' = Request(s, turn, Requests + 1)
      /\ UNCHANGED <<chat, record, ran, layers, target, told>>
  BY <1>6 DEF Retry
<1>8. Ends(turn)'
  BY <1>2, <1>6, <1>7 DEF Ends, Count
<1> QED
  BY <1>1, <1>2, <1>3, <1>4, <1>5, <1>6, <1>7, <1>8, StartPreserves

-----------------------------------------------------------------------------
(* Steps of a request *)

\* The request goes on and nothing else has changed but a scope's permission.
LEMMA OnPreserves ==
  ASSUME IInv, Types', ~At("idle"), ~At("clear"), task' \in Running,
         UNCHANGED <<chat, ran, record, told, target>>,
         revision' \in {revision, revision + 1},
         Turns' = Turns, Requests' = Requests, budget'.ids = budget.ids,
         task'.op \in {"stream", "save", "allow"},
         task'.op = "allow" => task.id # 0,
         task'.id = task.id, task'.turn = task.turn, task'.request = task.request,
         task'.rounds \in {task.rounds, task.rounds + 1}, Planned'
  PROVE  IInv'
<1>1. /\ task \in Running /\ task.rounds \in Nat
      /\ task.op \in {"stream", "save", "execute", "allow"}
      /\ ~At("idle")' /\ ~At("execute")' /\ ~At("clear")'
  BY Busy, Bounds DEF IInv, Running, At
<1>2. ~Awaiting /\ ~Awaiting'
  BY DEF IInv, Holding, Awaiting
<1>3. Holding' /\ Claimed'
  BY <1>1 DEF IInv, Holding, Claimed, At
<1>4. Once' /\ Asked'
  BY <1>1, <1>2 DEF IInv, Once, ConfirmedOnce, Asked, Ends, Count
<1>5. Numbered'
  BY DEF IInv, Numbered
<1>6. Counted'
  <2>1. Cardinality(Sent(ran, task.request)) \in Nat
    BY SentFacts DEF IInv, Types
  <2> QED BY <1>1, <1>2, <2>1 DEF IInv, Counted
<1>7. RunsWhatWasShown' /\ RunsUnderPolicy' /\ EffectsAccountedFor'
      /\ AnswersFollowQuestions'
  BY DEF IInv, RunsWhatWasShown, RunsUnderPolicy, EffectsAccountedFor,
         AnswersFollowQuestions
<1> QED
  BY <1>3, <1>4, <1>5, <1>6, <1>7 DEF IInv

\* An answer, a refusal and a lasting permission run nothing.
LEMMA OnSteps ==
  ASSUME IInv, Types', Answer \/ AllowForChat \/ \E t \in Tool : Refuse(t)
  PROVE  IInv'
<1>1. /\ task \in Running /\ ~At("idle") /\ ~At("clear") /\ task.plan = Plan
      /\ budget \in Budget /\ revision \in Nat
  BY Busy DEF Answer, AllowForChat, Refuse, At, IInv, Types, Planned
<1>2. CASE Answer
  <2>1. task' = [task EXCEPT !.op = "save"] /\ Plan' = Plan
    BY <1>2 DEF Answer, Go, Plan, Decision
  <2>2. Planned'
    BY <1>1, <2>1 DEF Planned, Running
  <2> QED
    BY <1>1, <1>2, <2>1, <2>2, OnPreserves DEF Answer, Running, Turns, Requests
<1>3. CASE \E t \in Tool : Refuse(t)
  <2>1. PICK t \in Tool : Refuse(t)
    BY <1>3
  <2>2. task' = NextRound /\ Plan' = Plan /\ task' \in Running
    <3>1. task' = NextRound /\ NextRound.op = "stream" /\ Plan' = Plan
      BY <1>1, <2>1 DEF Refuse, Plan, Decision, NextRound, Running
    <3> QED BY <3>1 DEF Types, Idle
  <2>3. Planned'
    BY <1>1, <2>2 DEF Planned, Running, NextRound
  <2> QED
    BY <1>1, <2>1, <2>2, <2>3, OnPreserves DEF Refuse, NextRound, Running, Turns, Requests
<1>4. CASE AllowForChat
  <2>1. UNCHANGED <<chat, target, record, ran, told>> /\ At("allow")
    BY <1>4 DEF AllowForChat
  <2>2. CASE /\ revision' = revision + 1
             /\ task' = [task EXCEPT !.op = "stream", !.plan = Plan']
             /\ UNCHANGED budget
    <3>1. task' \in Running /\ task'.op = "stream" /\ task'.id = task.id
          /\ task'.turn = task.turn /\ task'.request = task.request
          /\ task'.rounds = task.rounds /\ task'.plan = Plan'
      BY <1>1, <2>2 DEF Running, Types, Idle
    <3> QED
      BY <1>1, <2>1, <2>2, <3>1, OnPreserves DEF Turns, Requests, Planned
  <2>3. CASE FaultLeft /\ SpendFault /\ Go("stream") /\ UNCHANGED <<layers, revision>>
    <3>1. task' \in Running /\ task'.op = "stream" /\ task'.id = task.id
          /\ task'.turn = task.turn /\ task'.request = task.request
          /\ task'.rounds = task.rounds /\ task'.plan = Plan'
      BY <1>1, <2>1, <2>3 DEF Go, Running, Plan, Decision
    <3> QED
      BY <1>1, <2>1, <2>3, <3>1, OnPreserves, SpendFacts DEF Turns, Requests, Planned
  <2> QED BY <1>4, <2>2, <2>3 DEF AllowForChat
<1> QED BY <1>2, <1>3, <1>4

\* A call has run, for the round it is counted in.
LEMMA RanPreserves ==
  ASSUME IInv, Types', ~At("idle"), NEW x \in Call, ran' = Append(ran, x),
         UNCHANGED <<chat, record, told, revision, layers>>,
         target' # target => target' = [target EXCEPT !["write"] = @ + 1],
         Turns' = Turns, Requests' = Requests, budget'.ids = budget.ids,
         x.request = task.request, x.turn = task.turn, x.shown = x.before,
         Off \notin x.levels,
         \/ At("execute") /\ x.id = task.id /\ task.id # 0
         \/ /\ At("stream") /\ task.rounds < MaxRounds
            /\ x.id = 0 /\ x.tool # "ssh" /\ x.before = 0 /\ Ask \notin x.levels,
         \/ task' = Idle
         \/ /\ task' \in Running /\ task'.op \in {"stream", "allow"}
            /\ task'.op = "allow" => At("execute")
            /\ task'.id = task.id /\ task'.turn = task.turn /\ task'.plan = task.plan
            /\ task'.request = task.request
            /\ task'.rounds = task.rounds + (IF At("execute") THEN 0 ELSE 1)
  PROVE  IInv'
<1>1. /\ task \in Running /\ task.rounds \in 0..MaxRounds /\ task.request \in Nat
      /\ task.turn \in Turn /\ budget.ids \in Nat /\ ran \in Seq(Call)
      /\ task.op \in {"stream", "execute"} /\ MaxRounds \in Nat
  BY Busy, Bounds DEF IInv, Types, Budget, Running, At
<1>2. /\ ~Awaiting /\ ~Awaiting' /\ ~At("execute")' /\ ~At("clear")'
  BY DEF IInv, Holding, Awaiting, At, Idle
<1>3. /\ \A i \in DOMAIN ran' : ran'[i] = x \/ i \in DOMAIN ran
      /\ \A i \in DOMAIN ran : ran'[i] = ran[i] /\ ran[i] \in Call
      /\ DOMAIN ran' = DOMAIN ran \cup {Len(ran) + 1} /\ ran'[Len(ran) + 1] = x
      /\ Len(ran) + 1 \notin DOMAIN ran
  BY <1>1, AppendFacts
<1>4. Planned'
  <2>1. task.plan = Plan
    BY DEF IInv, Planned
  <2>2. Plan' = Plan
    <3>1. target'["ssh"] = target["ssh"]
      <4>1. target \in [Tool -> Nat]
        BY DEF IInv, Types
      <4> QED BY <4>1 DEF Tool
    <3>2. \A t \in Tool : Decision(t)' = Decision(t)
      BY <3>1 DEF Decision
    <3> QED BY <3>2 DEF Plan
  <2> QED BY <2>1, <2>2 DEF Planned, At, Idle
<1>5. Holding' /\ Claimed'
  BY <1>1, <1>2 DEF IInv, Holding, Claimed, At, Idle
<1>6. Once'
  <2>1. x.id # 0 => x.id = record.id /\ Unused(record.id)
    BY DEF IInv, Holding, Claimed, At
  <2>2. \A i \in DOMAIN ran : ran[i].id # 0 => ran[i].id # x.id
    BY <2>1 DEF Unused
  <2>3. ConfirmedOnce'
    BY <1>3, <2>2 DEF IInv, Once, ConfirmedOnce
  <2>4. x.id =< budget.ids
    BY <1>1, <2>1 DEF IInv, Once
  <2> QED BY <1>2, <1>3, <2>3, <2>4 DEF IInv, Once
<1>7. Asked'
  BY <1>1, <1>2 DEF IInv, Asked, Ends, Count, Idle
<1>8. Numbered'
  BY <1>1, <1>3 DEF IInv, Numbered, At, Idle
<1>9. Counted'
  <2>1. /\ \A r \in Nat : /\ Cardinality(Sent(ran, r)) \in Nat
                          /\ Cardinality(Sent(ran', r)) =
                               Cardinality(Sent(ran, r)) + (IF task.request = r THEN 1 ELSE 0)
    BY <1>1, SentFacts
  <2>2. Cardinality(Sent(ran', task.request)) =< task.rounds + (IF At("execute") THEN 0 ELSE 1)
        /\ Cardinality(Sent(ran', task.request)) =< MaxRounds
    <3> DEFINE c == Cardinality(Sent(ran, task.request))
    <3>1. c \in Nat /\ Cardinality(Sent(ran', task.request)) = c + 1
      BY <1>1, <2>1
    <3>2. c + (IF At("execute") THEN 1 ELSE 0) =< task.rounds
      BY DEF IInv, Counted
    <3> HIDE DEF c
    <3>3. CASE At("execute")
      BY <1>1, <3>1, <3>2, <3>3
    <3>4. CASE ~At("execute")
      <4>1. task.rounds < MaxRounds
        BY <3>4
      <4> QED BY <1>1, <3>1, <3>2, <3>4, <4>1
    <3> QED BY <3>3, <3>4
  <2>3. \A r \in Nat : Cardinality(Sent(ran', r)) =< MaxRounds
    <3> SUFFICES ASSUME NEW r \in Nat PROVE Cardinality(Sent(ran', r)) =< MaxRounds
      OBVIOUS
    <3>1. Cardinality(Sent(ran, r)) =< MaxRounds
      BY DEF IInv, Counted
    <3>2. CASE r = task.request
      BY <2>2, <3>2
    <3>3. CASE r # task.request
      <4>1. Cardinality(Sent(ran', r)) = Cardinality(Sent(ran, r)) + 0
        BY <2>1, <3>3
      <4>2. Cardinality(Sent(ran, r)) \in Nat
        BY <2>1
      <4> QED BY <3>1, <4>1, <4>2
    <3> QED BY <3>2, <3>3
  <2>4. ~At("idle")' => /\ Cardinality(Sent(ran', task'.request)) =< task'.rounds
                        /\ Cardinality(Sent(ran', task'.request)) \in Nat
                        /\ task'.rounds \in Nat
    <3> SUFFICES ASSUME ~At("idle")'
                 PROVE  /\ Cardinality(Sent(ran', task'.request)) =< task'.rounds
                        /\ Cardinality(Sent(ran', task'.request)) \in Nat
                        /\ task'.rounds \in Nat
      OBVIOUS
    <3>1. task'.request = task.request
          /\ task'.rounds = task.rounds + (IF At("execute") THEN 0 ELSE 1)
      BY DEF At, Idle
    <3>2. Cardinality(Sent(ran', task.request)) \in Nat
      <4>1. ran' \in Seq(Call)
        BY DEF Types
      <4> QED BY <4>1, SentFacts
    <3> QED BY <1>1, <2>2, <3>1, <3>2
  <2>5. ~At("idle")' => Cardinality(Sent(ran', task'.request))
                          + (IF At("execute")' THEN 1 ELSE 0) =< task'.rounds
    BY <1>2, <2>4
  <2> QED BY <1>2, <2>3, <2>5 DEF Counted
<1>10. RunsWhatWasShown' /\ RunsUnderPolicy'
  BY <1>3 DEF IInv, RunsWhatWasShown, RunsUnderPolicy
<1>11. EffectsAccountedFor'
  <2>1. x.id # 0 => record # None /\ record.turn = x.turn
    BY DEF IInv, Holding, At
  <2> QED BY <1>3, <2>1 DEF IInv, EffectsAccountedFor
<1>12. AnswersFollowQuestions'
  BY DEF IInv, AnswersFollowQuestions
<1> QED
  BY <1>4, <1>5, <1>6, <1>7, <1>8, <1>9, <1>10, <1>11, <1>12 DEF IInv

\* A call that needs no confirmation runs under the plan of its request.
LEMMA RunPreserves ==
  ASSUME IInv, Types', NEW t \in Tool, Run(t)
  PROVE  IInv'
<1>1. /\ task \in Running /\ ~At("idle") /\ ~At("clear") /\ ~At("execute") /\ At("stream")
      /\ task.plan = Plan /\ task.rounds \in Nat /\ task.rounds < MaxRounds
      /\ target[t] \in Nat
  BY Busy DEF Run, At, IInv, Types, Planned, Running
<1>2. Decision(t) = Allow
  BY <1>1 DEF Run, Plan
<1>3. t # "ssh" /\ target[t] = 0
  BY <1>1 DEF Run, Mandatory, IInv, Types
<1>4. /\ NextRound \in Running /\ NextRound.op = "stream" /\ NextRound.id = task.id
      /\ NextRound.turn = task.turn /\ NextRound.plan = task.plan
      /\ NextRound.request = task.request /\ NextRound.rounds = task.rounds + 1
  <2>1. task.rounds + 1 \in 0..MaxRounds
    BY <1>1, Bounds
  <2>2. NextRound = [task EXCEPT !.op = "stream", !.rounds = task.rounds + 1]
    BY DEF NextRound
  <2> QED BY <1>1, <2>1, <2>2 DEF Running
<1> DEFINE x == Executed(t, 0, target[t])
<1>5. /\ x \in Call /\ x.request = task.request /\ x.turn = task.turn /\ x.id = 0
      /\ x.tool = t /\ x.before = target[t] /\ x.shown = x.before
      /\ x.levels = {layers[l][t] : l \in Layer}
  BY <1>1, ExecutedFacts DEF Executed, IInv
<1>6. Off \notin x.levels /\ Ask \notin x.levels
  BY <1>2, <1>5, DecisionFacts DEF IInv, Off, Allow
<1>7. /\ Audited(t, 0, target[t], NextRound)
      /\ UNCHANGED <<chat, revision, layers, provider, record, resumable, surface, told>>
  BY DEF Run
<1>8. /\ task' \in {NextRound, Idle}
      /\ budget'.ids = budget.ids /\ Turns' = Turns /\ Requests' = Requests
      /\ target' # target => target' = [target EXCEPT !["write"] = @ + 1]
      /\ (ran' = ran /\ target' = target) \/ ran' = Append(ran, x)
  BY <1>1, <1>4, <1>7, AuditedFacts DEF IInv
<1> HIDE DEF x
<1>9. CASE ran' = Append(ran, x)
  BY <1>1, <1>3, <1>4, <1>5, <1>6, <1>7, <1>8, <1>9, RanPreserves
<1>10. CASE ran' = ran /\ target' = target
  <2>1. Plan' = Plan
    BY <1>7, <1>10 DEF Plan, Decision
  <2>2. CASE task' = Idle
    BY <1>7, <1>8, <1>10, <2>2, RestPreserves
  <2>3. CASE task' = NextRound
    <3>1. Planned'
      BY <1>1, <1>4, <2>1, <2>3 DEF Planned
    <3> QED BY <1>1, <1>4, <1>7, <1>8, <1>10, <2>3, <3>1, OnPreserves
  <2> QED BY <1>8, <2>2, <2>3
<1> QED BY <1>8, <1>9, <1>10

\* The approved call runs as it was shown, once.
LEMMA ExecutePreserves ==
  ASSUME IInv, Types', Execute
  PROVE  IInv'
<1>1. /\ task \in Running /\ ~At("idle") /\ ~At("clear") /\ At("execute") /\ ~At("stream")
      /\ task.plan = Plan /\ task.rounds \in Nat /\ task.id \in Nat /\ task.id # 0
      /\ record # None /\ record \in Pending /\ record.tool \in Tool
      /\ record.target \in Nat /\ record.target = target[record.tool]
  BY Busy, SMTT(30) DEF Execute, At, IInv, Types, Planned, Running, Holding, Claimed, Pending
<1> DEFINE then == [task EXCEPT !.op = IF task.lasting THEN "allow" ELSE "stream"]
<1>2. /\ then \in Running /\ then.op \in {"allow", "stream"} /\ then.id = task.id
      /\ then.turn = task.turn /\ then.plan = task.plan
      /\ then.request = task.request /\ then.rounds = task.rounds
  BY <1>1 DEF Running
<1> DEFINE x == Executed(record.tool, task.id, record.target)
<1>3. /\ x \in Call /\ x.request = task.request /\ x.turn = task.turn /\ x.id = task.id
      /\ x.before = target[record.tool] /\ x.shown = record.target
      /\ x.levels = {layers[l][record.tool] : l \in Layer}
  BY <1>1, ExecutedFacts DEF Executed, IInv
<1>4. Off \notin x.levels
  <2>1. Decision(record.tool) # Off
    BY <1>1 DEF IInv, Claimed
  <2> QED BY <1>1, <1>3, <2>1, DecisionFacts DEF IInv
<1>5. /\ Audited(record.tool, task.id, record.target, then)
      /\ UNCHANGED <<chat, revision, layers, provider, record, resumable, surface, told>>
  BY DEF Execute
<1> HIDE DEF then
<1>6. /\ task' \in {then, Idle}
      /\ budget'.ids = budget.ids /\ Turns' = Turns /\ Requests' = Requests
      /\ target' # target => target' = [target EXCEPT !["write"] = @ + 1]
      /\ (ran' = ran /\ target' = target) \/ ran' = Append(ran, x)
  BY <1>1, <1>2, <1>5, AuditedFacts DEF IInv
<1> HIDE DEF x
<1>7. CASE ran' = Append(ran, x)
  BY <1>1, <1>2, <1>3, <1>4, <1>5, <1>6, <1>7, RanPreserves
<1>8. CASE ran' = ran /\ target' = target
  <2>1. Plan' = Plan
    BY <1>5, <1>8 DEF Plan, Decision
  <2>2. CASE task' = Idle
    BY <1>5, <1>6, <1>8, <2>2, RestPreserves
  <2>3. CASE task' = then
    <3>1. Planned'
      BY <1>1, <1>2, <2>1, <2>3 DEF Planned
    <3> QED BY <1>1, <1>2, <1>5, <1>6, <1>8, <2>3, <3>1, OnPreserves
  <2> QED BY <1>6, <2>2, <2>3
<1> QED BY <1>6, <1>7, <1>8

\* The request ends in a record that waits for the user.
LEMMA WaitPreserves ==
  ASSUME IInv, Types', NEW t \in Tool, At("stream"), task.rounds < MaxRounds,
         record' = Waiting(t), task' = Idle, budget'.ids = budget.ids + 1,
         Turns' = Turns, Requests' = Requests,
         UNCHANGED <<chat, ran, told, revision>>
  PROVE  IInv'
<1>1. /\ task \in Running /\ budget.ids \in Nat /\ task.rounds \in Nat /\ revision \in Nat
      /\ ~At("idle")
  <2>1. task \in Running /\ ~At("idle") /\ budget \in Budget /\ revision \in Nat
    BY Busy DEF At, IInv, Types
  <2> QED BY <2>1, Bounds DEF Budget, Running
<1>2. /\ record'.id = budget.ids + 1 /\ record'.turn = task.turn
      /\ record'.request = task.request /\ record'.rounds = task.rounds
      /\ record'.revision = revision /\ record' # None
  BY <1>1 DEF Waiting, None
<1>3. At("idle")' /\ ~At("execute")' /\ ~At("clear")'
      /\ task'.op \notin {"stream", "save", "execute", "allow"}
  BY DEF At, Idle
<1>4. Planned' /\ Holding' /\ Claimed'
  BY <1>2, <1>3 DEF Planned, Holding, Claimed
<1>5. Once'
  <2>1. \A i \in DOMAIN ran : ran[i].id \in Nat /\ ran[i].id =< budget.ids
    <3>1. \A i \in DOMAIN ran : ran[i] \in Call
      BY DEF IInv, Types
    <3> QED BY <3>1 DEF IInv, Once, Call
  <2>2. \A i \in DOMAIN ran : ran[i].id # budget.ids + 1 /\ ran[i].id =< budget.ids + 1
    BY <1>1, <2>1
  <2> QED BY <1>1, <1>2, <2>2 DEF IInv, Once, ConfirmedOnce, Unused
<1>6. Asked'
  BY <1>1, <1>2, <1>3 DEF IInv, Asked, Ends, Count, At
<1>7. Numbered'
  BY <1>1, <1>2, <1>3 DEF IInv, Numbered
<1>8. Counted'
  <2>1. Cardinality(Sent(ran, task.request)) \in Nat
    BY SentFacts DEF IInv, Types
  <2> QED BY <1>1, <1>2, <1>3, <2>1 DEF IInv, Counted, At
<1>9. RunsWhatWasShown' /\ RunsUnderPolicy' /\ AnswersFollowQuestions'
  BY DEF IInv, RunsWhatWasShown, RunsUnderPolicy, AnswersFollowQuestions
<1>10. EffectsAccountedFor'
  <2>1. record # None => record.turn = task.turn
    BY <1>1 DEF IInv, Holding
  <2> QED BY <1>2, <2>1 DEF IInv, EffectsAccountedFor
<1> QED
  BY <1>4, <1>5, <1>6, <1>7, <1>8, <1>9, <1>10 DEF IInv

\* A call that needs confirmation becomes the one pending record.
LEMMA ConfirmPreserves ==
  ASSUME IInv, Types', NEW t \in Tool, Confirm(t)
  PROVE  IInv'
<1>1. /\ At("stream") /\ task.rounds < MaxRounds /\ budget \in Budget /\ task \in Running
      /\ UNCHANGED <<chat, revision, layers, target, provider, surface, ran, told>>
  BY Busy DEF Confirm, At, IInv, Types
<1>2. CASE /\ record' = Waiting(t) /\ Stop /\ budget' = [budget EXCEPT !.ids = @ + 1]
  BY <1>1, <1>2, WaitPreserves DEF Stop, Budget, Turns, Requests
<1>3. CASE /\ FaultLeft /\ record' \in {record, Waiting(t)}
           /\ budget' = [budget EXCEPT !.faults = @ - 1,
                                       !.ids = IF record' = record THEN @ ELSE @ + 1]
           /\ Failed
  <2>1. /\ budget'.turns = budget.turns /\ budget'.retries = budget.retries
        /\ budget'.ids = IF record' = record THEN budget.ids ELSE budget.ids + 1
    BY <1>1, <1>3 DEF Budget
  <2>2. Turns' = Turns /\ Requests' = Requests
    BY <2>1 DEF Turns, Requests
  <2>3. task' = Idle
    BY <1>3 DEF Failed, Stop
  <2>4. CASE record' = record
    BY <1>1, <2>1, <2>2, <2>3, <2>4, RestPreserves
  <2>5. CASE record' # record
    BY <1>1, <1>3, <2>1, <2>2, <2>3, <2>5, WaitPreserves
  <2> QED BY <2>4, <2>5
<1> QED BY <1>2, <1>3 DEF Confirm

\* The answer is behind its question.
LEMMA AnswerPreserves ==
  ASSUME IInv, Types', At("save"), chat' = Append1("assistant", task.turn),
         UNCHANGED <<ran, record, told>>, revision' \in Nat, revision < revision',
         budget'.ids = budget.ids, Turns' = Turns, Requests' = Requests,
         IF task.id = 0 THEN task' = Idle ELSE task' = [task EXCEPT !.op = "clear"],
         UNCHANGED <<layers, target>>
  PROVE  IInv'
<1>1. /\ task \in Running /\ task.rounds \in Nat /\ task.turn \in Turn
      /\ ~At("idle") /\ chat \in Seq(Message)
  <2>1. task \in Running /\ ~At("idle") /\ chat \in Seq(Message)
    BY Busy DEF At, IInv, Types
  <2> QED BY <2>1, Bounds DEF Running
<1>2. /\ ~At("execute")' /\ task'.op \notin {"stream", "save", "execute", "allow"}
      /\ ~At("idle")' => /\ task'.turn = task.turn /\ task'.id = task.id /\ task'.id # 0
                         /\ task'.request = task.request /\ task'.rounds = task.rounds
                         /\ task'.plan = task.plan
  BY <1>1 DEF At, Idle, Running
<1>3. ~Awaiting /\ ~Awaiting'
  BY <1>1 DEF IInv, Holding, Awaiting
<1>4. [role |-> "assistant", turn |-> task.turn] \in Message
  BY <1>1 DEF Message
<1>5. /\ \A i \in DOMAIN chat : i \in DOMAIN chat' /\ chat'[i] = chat[i]
      /\ \A i \in DOMAIN chat' : i \in DOMAIN chat \/ i = Count + 1
      /\ Count + 1 \in DOMAIN chat' /\ Count \in Nat /\ DOMAIN chat = 1..Count
      /\ chat'[Count + 1] = [role |-> "assistant", turn |-> task.turn]
  BY <1>1, <1>4, AppendFacts DEF Append1, Count
<1>6. Planned' /\ Holding' /\ Claimed'
  <2>1. Plan' = Plan
    BY DEF Plan, Decision
  <2>2. Planned'
    BY <1>1, <1>2, <2>1 DEF IInv, Planned
  <2>3. Holding' /\ Claimed'
    BY <1>1, <1>2 DEF IInv, Holding, Claimed
  <2> QED BY <2>2, <2>3
<1>7. Once'
  BY <1>3 DEF IInv, Once, ConfirmedOnce
<1>8. Asked'
  <2>1. At("clear")' => Answered(task.turn)' /\ task'.turn = task.turn
    BY <1>1, <1>2, <1>5 DEF At, Answered
  <2> QED BY <1>2, <1>3, <2>1 DEF Asked, Answered
<1>9. Numbered'
  <2>1. \A i \in DOMAIN chat' : chat'[i].turn =< Turns'
    BY <1>1, <1>5 DEF IInv, Numbered
  <2> QED BY <1>1, <1>2, <2>1 DEF IInv, Numbered
<1>10. Counted'
  <2>1. Cardinality(Sent(ran, task.request)) \in Nat
    BY SentFacts DEF IInv, Types
  <2>2. Cardinality(Sent(ran, task.request)) + 0 =< task.rounds
    BY <2>1 DEF IInv, Counted, At
  <2> QED BY <1>2, <1>3, <2>2 DEF IInv, Counted
<1>11. RunsWhatWasShown' /\ RunsUnderPolicy'
  BY DEF IInv, RunsWhatWasShown, RunsUnderPolicy
<1>12. EffectsAccountedFor'
  BY <1>5 DEF IInv, EffectsAccountedFor
<1>13. AnswersFollowQuestions'
  <2> SUFFICES ASSUME NEW i \in DOMAIN chat', chat'[i].role = "assistant"
               PROVE  i > 1 /\ chat'[i - 1] = [role |-> "user", turn |-> chat'[i].turn]
    BY DEF AnswersFollowQuestions
  <2>1. CASE i \in DOMAIN chat
    <3>1. i > 1 /\ chat[i - 1] = [role |-> "user", turn |-> chat[i].turn]
      BY <1>5, <2>1 DEF IInv, AnswersFollowQuestions
    <3>2. i - 1 \in DOMAIN chat
      BY <1>5, <2>1, <3>1
    <3> QED BY <1>5, <2>1, <3>1, <3>2
  <2>2. CASE i = Count + 1
    <3>1. Count > 0 /\ chat[Count] = [role |-> "user", turn |-> task.turn]
      BY DEF IInv, Asked, At, Ends
    <3>2. Count \in DOMAIN chat /\ i - 1 = Count /\ i > 1
      BY <1>5, <2>2, <3>1
    <3> QED BY <1>5, <2>2, <3>1, <3>2
  <2> QED BY <1>5, <2>1, <2>2
<1> QED
  BY <1>6, <1>7, <1>8, <1>9, <1>10, <1>11, <1>12, <1>13 DEF IInv

\* The answer follows the prompt of its turn.
LEMMA SaveAnswerPreserves ==
  ASSUME IInv, Types', SaveAnswer
  PROVE  IInv'
<1>1. /\ At("save") /\ budget \in Budget /\ revision \in Nat
      /\ UNCHANGED <<layers, target, provider, record, resumable, surface, ran, told>>
  BY DEF SaveAnswer, IInv, Types
<1>2. CASE /\ chat' = Append1("assistant", task.turn)
           /\ IF task.id = 0
                THEN Stop /\ retry' = (IF task.by = "device" THEN 0 ELSE retry)
                     /\ revision' = revision + (IF task.by = "device" THEN 2 ELSE 1)
                ELSE Go("clear") /\ revision' = revision + 1 /\ UNCHANGED retry
           /\ UNCHANGED <<context, budget>>
  <2>1. revision' \in Nat /\ revision < revision'
    BY <1>1, <1>2
  <2>2. IF task.id = 0 THEN task' = Idle ELSE task' = [task EXCEPT !.op = "clear"]
    BY <1>2 DEF Stop, Go
  <2> QED BY <1>1, <1>2, <2>1, <2>2, AnswerPreserves DEF Turns, Requests
<1>3. CASE FaultLeft /\ SpendFault /\ Stop /\ UNCHANGED <<chat, revision>>
  <2>1. /\ budget'.ids = budget.ids /\ Turns' = Turns /\ Requests' = Requests
    BY <1>1, <1>3, SpendFacts DEF Turns, Requests
  <2> QED BY <1>1, <1>3, <2>1, RestPreserves DEF Stop
<1> QED BY <1>2, <1>3 DEF SaveAnswer

\* The record is gone, for a reason that accounts for what it stood for.
LEMMA GonePreserves ==
  ASSUME IInv, Types', record # None, record' = None, task' = Idle,
         told \subseteq told', record.turn \in told' \/ Answered(record.turn),
         UNCHANGED <<chat, ran, revision>>,
         budget'.ids = budget.ids, Turns' = Turns, Requests' = Requests
  PROVE  IInv'
<1>1. At("idle")' /\ ~At("execute")' /\ ~At("clear")' /\ ~Awaiting'
      /\ task'.op \notin {"stream", "save", "execute", "allow"}
  BY DEF At, Idle, Awaiting
<1>2. Planned' /\ Holding' /\ Claimed'
  BY <1>1 DEF Planned, Holding, Claimed
<1>3. Once'
  <2>1. record'.id =< budget'.ids
    <3>1. budget.ids \in Nat
      BY DEF IInv, Types, Budget
    <3> QED BY <3>1 DEF None
  <2> QED BY <1>1, <2>1 DEF IInv, Once, ConfirmedOnce
<1>4. Asked' /\ Numbered' /\ Counted'
  BY <1>1 DEF IInv, Asked, Numbered, Counted
<1>5. RunsWhatWasShown' /\ RunsUnderPolicy' /\ AnswersFollowQuestions'
  BY DEF IInv, RunsWhatWasShown, RunsUnderPolicy, AnswersFollowQuestions
<1>6. EffectsAccountedFor'
  BY DEF IInv, EffectsAccountedFor, Answered
<1> QED
  BY <1>2, <1>3, <1>4, <1>5, <1>6 DEF IInv

\* The record goes only after its call was decided and answered.
LEMMA ClearRecordPreserves ==
  ASSUME IInv, Types', ClearRecord
  PROVE  IInv'
<1>1. /\ At("clear") /\ ~At("idle") /\ budget \in Budget /\ task' = Idle
      /\ UNCHANGED <<chat, revision, ran, told>>
  BY DEF ClearRecord, Stop, At, IInv, Types
<1>2. record # None /\ Answered(record.turn)
  BY <1>1 DEF IInv, Holding, Asked, At
<1>3. CASE record' = None /\ UNCHANGED budget
  BY <1>1, <1>2, <1>3, GonePreserves DEF Turns, Requests
<1>4. CASE FaultLeft /\ SpendFault /\ UNCHANGED record
  <2>1. /\ budget'.ids = budget.ids /\ Turns' = Turns /\ Requests' = Requests
    BY <1>1, <1>4, SpendFacts DEF Turns, Requests
  <2> QED BY <1>1, <1>4, <2>1, RestPreserves
<1> QED BY <1>3, <1>4 DEF ClearRecord

\* An acknowledged record is gone without having run.
LEMMA AcknowledgePreserves ==
  ASSUME IInv, Types', NEW s \in Surface, Acknowledge(s)
  PROVE  IInv'
<1>1. /\ task' = Idle /\ budget \in Budget /\ record # None
      /\ UNCHANGED <<chat, revision, ran>>
  BY AtRest DEF Acknowledge, IdleOn, Dismissible, IInv, Types
<1>2. CASE record' = None /\ told' = told \union {record.turn} /\ UNCHANGED budget
  BY <1>1, <1>2, GonePreserves DEF Turns, Requests
<1>3. CASE FaultLeft /\ SpendFault /\ UNCHANGED <<record, told>>
  <2>1. /\ budget'.ids = budget.ids /\ Turns' = Turns /\ Requests' = Requests
    BY <1>1, <1>3, SpendFacts DEF Turns, Requests
  <2> QED BY <1>1, <1>3, <2>1, RestPreserves
<1> QED BY <1>2, <1>3 DEF Acknowledge

\* The user has decided, and the request goes on from its record.
LEMMA DecidedPreserves ==
  ASSUME IInv, Types', NEW s \in Surface, At("idle"), record # None, Offered(s),
         NEW x \in {"claimed", "denied"}, record' = [record EXCEPT !.state = x],
         task' \in Running, task'.op \in {"execute", "stream"},
         task'.op = "execute" => Decision(record.tool) # Off,
         task'.id = record.id, task'.turn = record.turn, task'.request = record.request,
         task'.rounds = record.rounds + 1, task'.plan = Plan,
         UNCHANGED <<chat, ran, layers, target, revision, told>>,
         budget'.ids = budget.ids, Turns' = Turns, Requests' = Requests
  PROVE  IInv'
<1>1. /\ Awaiting /\ record \in Pending /\ record.rounds \in Nat /\ record.id # 0
      /\ record.request \in Nat
      /\ record.revision = revision /\ record.target = target[record.tool]
  BY DEF IInv, Types, Offered, Resumable, Current, Awaiting, Pending
<1>2. /\ record' # None /\ record'.state = x /\ record'.id = record.id
      /\ record'.turn = record.turn /\ record'.request = record.request
      /\ record'.rounds = record.rounds /\ record'.tool = record.tool
      /\ record'.target = record.target /\ ~Awaiting'
  BY <1>1 DEF Pending, None, Awaiting
<1>3. ~At("clear")' /\ ~At("idle")' /\ task'.id # 0
  BY <1>1 DEF At
<1>4. Planned'
  <2>1. Plan' = Plan
    BY DEF Plan, Decision
  <2> QED BY <2>1 DEF Planned
<1>5. Holding'
  BY <1>1, <1>2, <1>3 DEF IInv, Holding
<1>6. Claimed'
  <2>1. Decision(record.tool)' = Decision(record.tool)
    BY <1>2 DEF Decision
  <2> QED BY <1>1, <1>2, <2>1 DEF IInv, Once, Claimed, Unused, At
<1>7. Once'
  BY <1>2 DEF IInv, Once, ConfirmedOnce
<1>8. Asked'
  BY <1>1, <1>2, <1>3 DEF IInv, Asked, Ends, Count
<1>9. Numbered'
  BY <1>2 DEF IInv, Numbered
<1>10. Counted'
  <2>1. Cardinality(Sent(ran, record.request)) \in Nat
    BY SentFacts DEF IInv, Types
  <2>2. Cardinality(Sent(ran, record.request)) =< record.rounds
    BY <1>1 DEF IInv, Counted
  <2>3. Cardinality(Sent(ran', task'.request)) + (IF At("execute")' THEN 1 ELSE 0) =< task'.rounds
    BY <1>1, <2>1, <2>2
  <2> QED BY <1>2, <2>3 DEF IInv, Counted
<1>11. RunsWhatWasShown' /\ RunsUnderPolicy' /\ AnswersFollowQuestions'
  BY DEF IInv, RunsWhatWasShown, RunsUnderPolicy, AnswersFollowQuestions
<1>12. EffectsAccountedFor'
  BY <1>2 DEF IInv, EffectsAccountedFor
<1> QED
  BY <1>4, <1>5, <1>6, <1>7, <1>8, <1>9, <1>10, <1>11, <1>12 DEF IInv

\* A decision is about the record that was shown.
LEMMA DecidePreserves ==
  ASSUME IInv, Types', NEW s \in Surface,
         Deny(s) \/ \E lasting \in BOOLEAN : Approve(s, lasting)
  PROVE  IInv'
<1>1. /\ At("idle") /\ task = Idle /\ budget \in Budget /\ record # None /\ Offered(s)
      /\ UNCHANGED <<chat, revision, layers, target, ran, told>>
  BY AtRest DEF Deny, Approve, IdleOn, Refusable, Permitted, IInv, Types
<1>2. /\ Continued(s) \in Running /\ Continued(s).op = "stream"
      /\ Continued(s).id = record.id /\ Continued(s).turn = record.turn
      /\ Continued(s).request = record.request /\ Continued(s).rounds = record.rounds + 1
      /\ Continued(s).plan = Plan
  BY <1>1, ContinuedFacts DEF IInv, Continued
<1>3. ASSUME FaultLeft, SpendFault, UNCHANGED task, NEW x \in {"claimed", "denied"},
             record' \in {record, [record EXCEPT !.state = x]}
      PROVE  IInv'
  <2>1. /\ budget'.ids = budget.ids /\ Turns' = Turns /\ Requests' = Requests
    BY <1>1, <1>3, SpendFacts DEF Turns, Requests
  <2> QED BY <1>1, <1>3, <2>1, RestPreserves
<1>4. CASE \E lasting \in BOOLEAN : Approve(s, lasting)
  <2>1. PICK lasting \in BOOLEAN : Approve(s, lasting)
    BY <1>4
  <2>2. CASE /\ record' = [record EXCEPT !.state = "claimed"]
             /\ task' = [Continued(s) EXCEPT !.op = "execute", !.lasting = lasting]
             /\ UNCHANGED budget
    <3>1. /\ task' \in Running /\ task'.op = "execute" /\ task'.id = record.id
          /\ task'.turn = record.turn /\ task'.request = record.request
          /\ task'.rounds = record.rounds + 1 /\ task'.plan = Plan
      BY <1>2, <2>2 DEF Running
    <3>2. Decision(record.tool) # Off
      BY <2>1 DEF Approve, Permitted
    <3> QED BY <1>1, <2>2, <3>1, <3>2, DecidedPreserves DEF Turns, Requests
  <2>3. CASE FaultLeft /\ SpendFault /\ UNCHANGED task
             /\ record' \in {record, [record EXCEPT !.state = "claimed"]}
    BY <1>3, <2>3
  <2> QED BY <2>1, <2>2, <2>3 DEF Approve
<1>5. CASE Deny(s)
  <2>1. CASE record' = [record EXCEPT !.state = "denied"] /\ UNCHANGED <<budget, task>>
    BY <1>1, <2>1, RestPreserves DEF Turns, Requests
  <2>2. CASE record' = [record EXCEPT !.state = "denied"] /\ UNCHANGED budget
             /\ task' = Continued(s)
    BY <1>1, <1>2, <2>2, DecidedPreserves DEF Turns, Requests
  <2>3. CASE FaultLeft /\ SpendFault /\ UNCHANGED task
             /\ record' \in {record, [record EXCEPT !.state = "denied"]}
    BY <1>3, <2>3
  <2> QED BY <1>5, <2>1, <2>2, <2>3 DEF Deny
<1> QED BY <1>4, <1>5

\* A step that changes nothing keeps the invariant.
LEMMA StutterPreserves ==
  ASSUME IInv, UNCHANGED vars
  PROVE  IInv'
<1> USE DEF vars
<1>1. Types'
  BY DEF IInv, Types
<1>2. At("idle")' = At("idle") /\ At("execute")' = At("execute") /\ At("clear")' = At("clear")
      /\ Awaiting' = Awaiting /\ Plan' = Plan
  BY DEF At, Awaiting, Plan, Decision
<1>3. Planned' /\ Holding' /\ Once'
  BY <1>2 DEF IInv, Planned, Holding, Once, ConfirmedOnce, Unused
<1>4. Claimed'
  BY <1>2 DEF IInv, Claimed, Unused, Decision
<1>5. Asked' /\ Numbered' /\ Counted'
  BY <1>2 DEF IInv, Asked, Numbered, Counted, Ends, Answered, Count, Turns, Requests
<1>6. RunsWhatWasShown' /\ RunsUnderPolicy' /\ EffectsAccountedFor' /\ AnswersFollowQuestions'
  BY DEF IInv, RunsWhatWasShown, RunsUnderPolicy, EffectsAccountedFor, AnswersFollowQuestions
<1> QED BY <1>1, <1>3, <1>4, <1>5, <1>6 DEF IInv

-----------------------------------------------------------------------------
(* Every behaviour *)

\* A fresh chat satisfies the invariant.
LEMMA InitHolds == Init => IInv
<1> SUFFICES ASSUME Init PROVE IInv
  OBVIOUS
<1>1. Types /\ At("idle") /\ task = Idle /\ record = None
  BY TypesInit DEF Init, At, Idle
<1>2. ran = << >> /\ chat = << >> /\ DOMAIN ran = {} /\ DOMAIN chat = {}
      /\ budget.ids = 0
  BY DEF Init
<1>3. ~At("execute") /\ ~At("clear") /\ ~Awaiting
      /\ task.op \notin {"stream", "save", "execute", "allow"}
  BY <1>1 DEF At, Idle, Awaiting
<1>4. \A r : Cardinality(Sent(ran, r)) = 0
  <2>1. \A r : Sent(ran, r) = {}
    BY <1>2 DEF Sent
  <2> QED BY <2>1, FS_EmptySet
<1>5. Planned /\ Holding /\ Claimed /\ Asked /\ Numbered
  BY <1>1, <1>2, <1>3 DEF Planned, Holding, Claimed, Asked, Numbered
<1>6. Once /\ Counted
  BY <1>1, <1>2, <1>3, <1>4, Bounds DEF Once, ConfirmedOnce, Counted, None
<1>7. RunsWhatWasShown /\ RunsUnderPolicy /\ EffectsAccountedFor /\ AnswersFollowQuestions
  BY <1>2 DEF RunsWhatWasShown, RunsUnderPolicy, EffectsAccountedFor, AnswersFollowQuestions
<1> QED BY <1>1, <1>5, <1>6, <1>7 DEF IInv

\* IInv holds in every behaviour, whatever the bounds are.
THEOREM TurnInvariant == Spec => []IInv
<1>1. IInv /\ [Next]_vars => IInv'
  <2> SUFFICES ASSUME IInv, [Next]_vars PROVE IInv'
    OBVIOUS
  <2>1. Types'
    BY TypesPreserved
  <2>2. CASE UNCHANGED vars
    BY <2>2, StutterPreserves
  <2>3. ASSUME NEW s \in Surface,
               Submit(s) \/ Retry(s) \/ Deny(s) \/ Acknowledge(s)
               \/ \E lasting \in BOOLEAN : Approve(s, lasting)
        PROVE  IInv'
    BY <2>1, <2>3, SubmitPreserves, RetryPreserves, DecidePreserves, AcknowledgePreserves
  <2>4. CASE Answer \/ AllowForChat
    BY <2>1, <2>4, OnSteps
  <2>5. CASE SaveAnswer \/ ClearRecord \/ Execute
    BY <2>1, <2>5, SaveAnswerPreserves, ClearRecordPreserves, ExecutePreserves
  <2>6. ASSUME NEW t \in Tool, Refuse(t) \/ Run(t) \/ Confirm(t)
        PROVE  IInv'
    BY <2>1, <2>6, OnSteps, RunPreserves, ConfirmPreserves
  <2>7. CASE EnterWeb \/ LeaveWeb \/ Rename \/ ChangeProvider \/ Reset \/ Break
             \/ (\E t \in Tool : ChangeTarget(t))
             \/ \E t \in Tool, l \in Layer, d \in Level : SetPermission(l, t, d)
    BY <2>1, <2>7, RestSteps
  <2>8. CASE ClearChat
    BY <2>1, <2>8, ClearChatPreserves
  <2> QED
    BY <2>2, <2>3, <2>4, <2>5, <2>6, <2>7, <2>8 DEF Next, Level
<1> QED
  BY InitHolds, <1>1, PTL DEF Spec

-----------------------------------------------------------------------------
(* Which surface asked *)

\* What is remembered of a call was numbered before, and a call that was asked
\* on the device was not asked in the Web Console.
OneAsker ==
  /\ \A s \in Surface : context[s].id =< budget.ids
  /\ context["device"].id # 0 => context["web"].id # context["device"].id

\* A step that forgets at most what was asked.
Forgets ==
  /\ \A s \in Surface : context'[s] \in {context[s], NoContext}
  /\ budget'.ids >= budget.ids

\* Forgetting a call does not confuse the surfaces.
LEMMA ForgetsPreserves ==
  ASSUME Types, Types', OneAsker, Forgets
  PROVE  OneAsker'
<1>1. budget.ids \in Nat /\ budget'.ids \in Nat
  BY DEF Types, Budget
<1>2. \A s \in Surface : context[s].id \in Nat /\ context'[s].id \in {context[s].id, 0}
  BY DEF Types, Contexts, Forgets, NoContext
<1>3. \A s \in Surface : context'[s].id =< budget'.ids
  BY <1>1, <1>2 DEF OneAsker, Forgets
<1>4. "device" \in Surface /\ "web" \in Surface
  BY DEF Surface
<1>5. context'["device"].id # 0 => context'["web"].id # context'["device"].id
  BY <1>2, <1>4 DEF OneAsker
<1> QED BY <1>3, <1>5 DEF OneAsker

\* Forgetting one context, or none, forgets at most what was asked.
LEMMA OneForgotten ==
  ASSUME Types, NEW s \in Surface,
         context' \in {context, [context EXCEPT ![s] = NoContext]},
         budget' = budget \/ budget'.ids >= budget.ids
  PROVE  Forgets
<1>1. budget.ids \in Nat
  BY DEF Types, Budget
<1>2. \A q \in Surface : context'[q] \in {context[q], NoContext}
  BY DEF Types, Contexts
<1> QED BY <1>1, <1>2 DEF Forgets

\* Only a call that is saved for confirmation is remembered.
LEMMA OthersForget ==
  ASSUME IInv, [Next]_vars, \A t \in Tool : ~Confirm(t)
  PROVE  Forgets
<1>1. /\ Types /\ budget \in Budget /\ budget.ids \in Nat
      /\ "device" \in Surface /\ "web" \in Surface
  BY DEF IInv, Types, Budget, Surface
<1>2. FaultLeft /\ SpendFault => budget'.ids = budget.ids
  BY <1>1, SpendFacts
<1>3. Edit => budget'.ids = budget.ids
  BY <1>1, EditFacts
<1>4. ~At("idle") => task \in Running /\ task.by \in Surface
  BY <1>1, Busy DEF Running
<1>5. Failed => \E s \in {task.by} : context' \in {context, [context EXCEPT ![s] = NoContext]}
  BY DEF Failed
<1>6. CASE UNCHANGED vars
  BY <1>1, <1>6, OneForgotten DEF vars
<1>7. ASSUME NEW s \in Surface, Submit(s) \/ Retry(s)
      PROVE  Forgets
  <2>1. CASE Submit(s)
    <3>1. context' \in {context, [context EXCEPT ![s] = NoContext]}
      BY <2>1 DEF Submit
    <3>2. budget'.ids = budget.ids
      BY <1>1, <2>1 DEF Submit, Budget
    <3> QED BY <1>1, <3>1, <3>2, OneForgotten
  <2>2. CASE Retry(s)
    <3>1. context' \in {context, [context EXCEPT ![s] = NoContext]}
      BY <2>2 DEF Retry
    <3>2. budget'.ids = budget.ids
      BY <1>1, <2>2 DEF Retry, Budget
    <3> QED BY <1>1, <3>1, <3>2, OneForgotten
  <2> QED BY <1>7, <2>1, <2>2
<1>8. ASSUME NEW s \in Surface,
             Deny(s) \/ Acknowledge(s) \/ \E lasting \in BOOLEAN : Approve(s, lasting)
      PROVE  Forgets
  <2>1. context' \in {context, [context EXCEPT ![s] = NoContext]}
    BY <1>8 DEF Deny, Acknowledge, Approve
  <2>2. budget' = budget \/ (FaultLeft /\ SpendFault)
    BY <1>8 DEF Deny, Acknowledge, Approve
  <2> QED BY <1>1, <1>2, <2>1, <2>2, OneForgotten
<1>9. CASE Answer \/ AllowForChat
  <2>1. context' = context /\ (budget' = budget \/ (FaultLeft /\ SpendFault))
    BY <1>9 DEF Answer, AllowForChat
  <2> QED BY <1>1, <1>2, <2>1, OneForgotten
<1>10. CASE Break \/ SaveAnswer \/ ClearRecord
  <2>1. ~At("idle")
    BY <1>10 DEF Break, SaveAnswer, ClearRecord, At
  <2>2. context' \in {context, [context EXCEPT ![task.by] = NoContext]}
    BY <1>10 DEF Break, Failed, SaveAnswer, ClearRecord
  <2>3. budget' = budget \/ (FaultLeft /\ SpendFault)
    BY <1>10 DEF Break, SaveAnswer, ClearRecord
  <2> QED BY <1>1, <1>2, <1>4, <2>1, <2>2, <2>3, OneForgotten
<1>11. CASE Execute \/ \E t \in Tool : Refuse(t) \/ Run(t)
  <2>1. ~At("idle")
    BY <1>11 DEF Execute, Refuse, Run, At
  <2>2. context' \in {context, [context EXCEPT ![task.by] = NoContext]}
    BY <1>11 DEF Execute, Refuse, Run, Audited, Failed
  <2>3. budget' = budget \/ (FaultLeft /\ SpendFault)
    BY <1>11 DEF Execute, Refuse, Run, Audited
  <2> QED BY <1>1, <1>2, <1>4, <2>1, <2>2, <2>3, OneForgotten
<1>12. CASE EnterWeb \/ LeaveWeb \/ Rename \/ ChangeProvider \/ ClearChat
            \/ (\E t \in Tool : ChangeTarget(t))
            \/ \E t \in Tool, l \in Layer, d \in Level : SetPermission(l, t, d)
  <2>1. context' \in {context, [context EXCEPT !["web"] = NoContext]}
    BY <1>12 DEF EnterWeb, LeaveWeb, Rename, ChangeProvider, ClearChat, ChangeTarget,
                 SetPermission
  <2>2. budget' = budget \/ Edit
    BY <1>12 DEF EnterWeb, LeaveWeb, Rename, ChangeProvider, ClearChat, ChangeTarget,
                 SetPermission
  <2> QED BY <1>1, <1>3, <2>1, <2>2, OneForgotten
<1>13. CASE Reset
  BY <1>1, <1>2, <1>13 DEF Reset, Forgets
<1> QED
  BY <1>6, <1>7, <1>8, <1>9, <1>10, <1>11, <1>12, <1>13 DEF Next, Level

\* A call is asked on one surface, whatever is done.
LEMMA OneAskerPreserved ==
  ASSUME IInv, Types', OneAsker, [Next]_vars
  PROVE  OneAsker'
<1>1. CASE \A t \in Tool : ~Confirm(t)
  BY <1>1, OthersForget, ForgetsPreserves DEF IInv
<1>2. ASSUME NEW t \in Tool, Confirm(t)
      PROVE  OneAsker'
  <2>1. /\ task.by \in Surface /\ budget \in Budget /\ budget.ids \in Nat
        /\ context \in Contexts /\ Types
    BY <1>2, Busy DEF Confirm, At, IInv, Types, Budget, Running
  <2> DEFINE way == [id |-> budget.ids + 1,
                       provider |-> IF task.id = 0 THEN provider ELSE context[task.by].provider]
  <2>2. CASE context' = [context EXCEPT ![task.by] = way] /\ budget' = [budget EXCEPT !.ids = @ + 1]
    <3>1. way.id = budget.ids + 1 /\ budget'.ids = budget.ids + 1
      BY <2>1, <2>2 DEF Budget
    <3> HIDE DEF way
    <3>2. \A s \in Surface : context'[s] = IF s = task.by THEN way ELSE context[s]
      BY <2>1, <2>2 DEF Contexts
    <3>3. \A s \in Surface : context[s].id \in Nat /\ context[s].id =< budget.ids
      BY <2>1 DEF Contexts, OneAsker
    <3>4. \A s \in Surface : context'[s].id =< budget'.ids
      BY <2>1, <3>1, <3>2, <3>3
    <3>5. context'["device"].id # 0 => context'["web"].id # context'["device"].id
      BY <2>1, <3>1, <3>2, <3>3 DEF OneAsker, Surface
    <3> QED BY <3>4, <3>5 DEF OneAsker
  <2>3. CASE /\ budget' = [budget EXCEPT !.faults = @ - 1,
                                         !.ids = IF record' = record THEN @ ELSE @ + 1]
             /\ Failed
    <3>1. budget'.ids \in {budget.ids, budget.ids + 1}
      BY <2>1, <2>3 DEF Budget
    <3>2. context' \in {context, [context EXCEPT ![task.by] = NoContext]}
      BY <2>3 DEF Failed
    <3>3. Forgets
      BY <2>1, <3>1, <3>2, OneForgotten
    <3> QED BY <2>1, <3>3, ForgetsPreserves
  <2> QED BY <1>2, <2>2, <2>3 DEF Confirm
<1> QED BY <1>1, <1>2

\* In every behaviour a call is asked on one surface.
THEOREM OneAskerAlways == Spec => []OneAsker
<1>1. Init => OneAsker
  <2> SUFFICES ASSUME Init PROVE OneAsker
    OBVIOUS
  <2>1. \A s \in Surface : context[s].id = 0
    BY DEF Init, NoContext
  <2>2. "device" \in Surface /\ budget.ids = 0
    BY DEF Init, Surface
  <2> QED BY <2>1, <2>2 DEF OneAsker
<1>2. IInv /\ IInv' /\ OneAsker /\ [Next]_vars => OneAsker'
  BY OneAskerPreserved DEF IInv
<1> QED BY TurnInvariant, <1>1, <1>2, PTL DEF Spec

-----------------------------------------------------------------------------
(* What follows *)

\* Tools run as decided: a confirmed call at most once whatever fails and
\* whenever the device is reset, on what the user was shown, only as the
\* scopes permit, and its effect is in an answer, in the record or told.
THEOREM ToolsDecided == Spec => []ToolsRunAsDecided
<1>1. IInv => ToolsRunAsDecided
  <2> SUFFICES ASSUME IInv PROVE ToolsRunAsDecided
    OBVIOUS
  <2>1. TypeOK
    <3>1. Types /\ (~At("idle") => task \in Running)
      BY Busy DEF IInv
    <3>2. record # None => record.state \in {"awaiting", "claimed", "denied"} /\ record.tool \in Tool
      BY <3>1 DEF Types, Pending
    <3>3. ~At("idle") => task.turn \in 1..MaxTurns /\ task.rounds \in 0..MaxRounds
      BY <3>1 DEF Running, Turn
    <3> QED
      BY <3>1, <3>2, <3>3 DEF Types, TypeOK, Message, Turn, Level, Contexts
  <2> QED BY <2>1 DEF IInv, Once, ToolsRunAsDecided
<1> QED BY TurnInvariant, <1>1, PTL

\* A turn is orderly: one sending of a question runs no more tools than it has
\* rounds, also across confirmations and resets, an answer stands behind its
\* question, the Web Console can always decide or dismiss a call, and the
\* device can unless the API profile changed, when the Web Console can.
THEOREM TurnOrder == Spec => []TurnIsOrderly
<1>1. IInv /\ OneAsker => TurnIsOrderly
  <2> SUFFICES ASSUME IInv, OneAsker PROVE TurnIsOrderly
    OBVIOUS
  <2>1. RoundsBounded
    <3>1. \A i \in DOMAIN ran : ran[i].request \in Nat
      <4>1. \A i \in DOMAIN ran : ran[i] \in Call
        BY DEF IInv, Types
      <4> QED BY <4>1 DEF Call
    <3> QED BY <3>1 DEF IInv, Counted, Sent, RoundsBounded
  <2>2. WebHasAWayOut
    BY DEF WebHasAWayOut, Permitted, Refusable, Dismissible, Offered
  <2>3. StuckOnlyByProfile
    <3> SUFFICES ASSUME At("idle"), record # None, ~DeviceHasAWayOut
                 PROVE  /\ context["device"].id = record.id
                        /\ context["device"].provider # provider
                        /\ Dismissible("web")
      BY DEF StuckOnlyByProfile
    <3>1. record.id # 0
      BY DEF IInv, Types, Pending
    <3>2. Offered("device") /\ context["device"].provider # provider
      BY DEF DeviceHasAWayOut, Refusable, Dismissible
    <3>3. context["device"].id = record.id
      BY <3>2 DEF Offered, Resumable
    <3>4. context["web"].id # record.id
      BY <3>1, <3>3 DEF OneAsker
    <3>5. Dismissible("web")
      BY <3>4 DEF Dismissible, Offered, Resumable
    <3> QED BY <3>2, <3>3, <3>5
  <2> QED BY <2>1, <2>2, <2>3 DEF IInv, TurnIsOrderly
<1> QED BY TurnInvariant, OneAskerAlways, <1>1, PTL

=============================================================================
