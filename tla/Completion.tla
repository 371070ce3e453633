------------------------------ MODULE Completion ------------------------------
(***************************************************************************)
(* The answer to one question (api_client.cpp): requests to the model, one *)
(* per round, each of them staged on the card when the model is offered    *)
(* tools, streamed answers, tool calls between them, and the conditions    *)
(* on which the whole is called a success.  PromptTurn has what surrounds  *)
(* it, and takes a request for a step.                                     *)
(*                                                                         *)
(* The text of a turn arrives in pieces, a tool call in two parts: its id  *)
(* and name, and its arguments.  Network, server, model and user may fail  *)
(* or stop at any time; what the card refuses is bounded by MaxFaults.     *)
(* The server is taken to send nothing behind [DONE].                      *)
(***************************************************************************)
EXTENDS Naturals, Sequences, FiniteSets

CONSTANTS
  Questions, MaxQuestions,
  MaxPieces,     \* pieces of text in one turn
  MaxAttempts,   \* kMaxAttempts
  MaxRounds,     \* kMaximumToolRounds
  MaxFaults, MaxResets

VARIABLES
  pc,        \* where the program is
  ask,       \* the question, and how it is sent
  round,     \* roundIndex
  retried,   \* missingRequiredToolRetries
  required,  \* remainingRequiredGroups
  written,   \* completedWorkspaceWrite
  file,      \* /assistant/model-request.tmp
  turn,      \* turns begun
  attempt,
  body,      \* what was posted last
  sink,      \* SseStream
  good,      \* CompletionTurnResult.success
  buffer,    \* bufferedText
  shown,     \* completeResponse, which is also what onText was given
  said,      \* history: the text the model sent as part of this answer
  made,      \* history: the calls taken up
  told,      \* what the caller was told
  left

answer == <<buffer, shown, said>>
progress == <<round, retried, required, written>>
vars == <<pc, ask, progress, file, turn, attempt, body, sink, good, answer, made, told, left>>

NoFile == [question |-> 0, turn |-> 0, whole |-> FALSE]

\* What a reset may have left of an earlier question.
Stale == [question |-> 0, turn |-> 1, whole |-> TRUE]

\* A call that only reads a file is one that wrote none: ok is FALSE.
Tool == {"write", "web"}
Group(t) == IF t = "web" THEN "web" ELSE "files"

\* No calls yet: a call that was not begun has no parts.
Fresh == [text |-> 0, parts |-> <<0, 0>>, done |-> FALSE, failed |-> FALSE]

\* A question is sent without tools when the plan has none; a search command
\* begins with a call that needs no model.  Who asks for a file to be written
\* asks for access to it (requestsWorkspaceWrite, requestsWorkspaceAccess).
Question ==
  {q \in [kind : {"plain", "tools", "search"}, access : BOOLEAN, write : BOOLEAN,
          groups : SUBSET {"files", "web"}] :
     /\ q.write => q.access
     /\ q.access => q.kind = "tools"
     /\ q.kind = "plain" => q.groups = {}}

Number == MaxQuestions - left.questions

TypeOK ==
  /\ pc \in {"idle", "stage", "post", "stream", "judge", "cleanup", "turn", "tool", "waiting"}
  /\ ask \in Question /\ round \in 0..MaxRounds
  /\ {retried, written, good} \subseteq BOOLEAN /\ required \subseteq {"files", "web"}
  /\ file \in [question : 0..MaxQuestions, turn : Nat, whole : BOOLEAN]
  /\ attempt \in 1..MaxAttempts
  /\ sink \in [text : 0..MaxPieces, parts : Seq(0..2), done : BOOLEAN, failed : BOOLEAN]
  /\ told \in {"none", "ok", "failed", "unclean", "waiting"}

Init ==
  /\ pc = "idle" /\ ask = [kind |-> "plain", access |-> FALSE, write |-> FALSE, groups |-> {}]
  /\ round = 0 /\ retried = FALSE /\ required = {} /\ written = FALSE
  /\ file \in {NoFile, Stale} /\ turn = 0 /\ attempt = 1 /\ body = NoFile /\ sink = Fresh /\ good = FALSE
  /\ buffer = <<>> /\ shown = <<>> /\ said = <<>> /\ made = <<>> /\ told = "none"
  /\ left = [questions |-> MaxQuestions, faults |-> MaxFaults, resets |-> MaxResets]

Fault == left.faults > 0 /\ left' = [left EXCEPT !.faults = @ - 1]
Goto(where) == pc' = where /\ UNCHANGED left
End(word) == pc' = "idle" /\ told' = word /\ UNCHANGED left

Tools == ask.kind # "plain"
Buffering == ask.access /\ round = 0

-----------------------------------------------------------------------------
(* The question and the request.                                           *)

\* The plan is consistent and has the groups that the question requires.
Begin(q) ==
  /\ pc = "idle" /\ left.questions > 0
  /\ left' = [left EXCEPT !.questions = @ - 1]
  /\ ask' = q /\ required' = q.groups /\ body' = NoFile
  /\ round' = 0 /\ retried' = FALSE /\ written' = FALSE
  /\ buffer' = <<>> /\ shown' = <<>> /\ said' = <<>> /\ made' = <<>> /\ told' = "none"
  /\ turn' = (IF q.kind = "tools" THEN 0 ELSE 1) /\ attempt' = 1
  \* buildWebSearchCommandTurn makes a call of its own.
  /\ sink' = (IF q.kind = "search" THEN [Fresh EXCEPT !.parts = <<2, 0>>] ELSE Fresh)
  /\ good' = (q.kind = "search")
  /\ pc' = (CASE q.kind = "plain" -> "post" [] q.kind = "tools" -> "stage"
              [] q.kind = "search" -> "turn")
  /\ UNCHANGED file

\* buildToolChatRequest: instructions, history, and the calls and results of the
\* rounds so far, as they are for the turn that begins.
Request(whole) == [question |-> Number, turn |-> turn + 1, whole |-> whole]

\* stageToolRequest: the file of before is removed, the request written and
\* counted; what the card then keeps of it is only seen in its size.
Stage ==
  /\ pc = "stage" /\ turn' = turn + 1 /\ attempt' = 1 /\ pc' = "post"
  /\ \/ file' = Request(TRUE) /\ UNCHANGED left
     \/ file' = Request(FALSE) /\ Fault
  /\ UNCHANGED <<ask, progress, body, sink, good, answer, made, told>>

StageRefused ==
  /\ pc = "stage" /\ turn' = turn + 1 /\ Fault /\ pc' = "cleanup" /\ good' = FALSE
  /\ file' \in {file, NoFile, Request(FALSE)}
  /\ UNCHANGED <<ask, progress, attempt, body, sink, answer, made, told>>

NoMemory ==
  /\ pc = "stage" /\ End("failed")
  /\ UNCHANGED <<ask, progress, file, turn, attempt, body, sink, good, answer, made>>

\* No memory either, a cancellation, no connection, another content type, or a
\* card that does not give the request back.
NoAnswer ==
  /\ pc = "post" /\ good' = FALSE
  /\ Goto(IF Tools THEN "cleanup" ELSE "turn")
  /\ UNCHANGED <<ask, progress, file, turn, attempt, body, sink, answer, made, told>>

\* A status that may pass, or no status: the same request is posted again.
Retry ==
  /\ pc = "post" /\ attempt < MaxAttempts
  /\ Tools => file.whole
  /\ attempt' = attempt + 1
  /\ UNCHANGED <<pc, ask, progress, file, turn, body, sink, good, answer, made, told, left>>

\* sendToolRequest, or the request from memory, and an event stream begins.
Post ==
  /\ pc = "post"
  /\ Tools => file.whole
  /\ body' = (IF Tools THEN file ELSE [question |-> Number, turn |-> turn, whole |-> TRUE])
  /\ sink' = Fresh /\ attempt' = 1 /\ Goto("stream")
  /\ UNCHANGED <<ask, progress, file, turn, good, answer, made, told>>

-----------------------------------------------------------------------------
(* The stream.                                                             *)

Piece == <<turn, sink.text + 1>>

\* The first turn of a question that needs a file is kept back.
Text ==
  /\ pc = "stream" /\ ~sink.done /\ sink.text < MaxPieces
  /\ said' = Append(said, Piece) /\ sink' = [sink EXCEPT !.text = @ + 1]
  /\ IF Buffering THEN buffer' = Append(buffer, Piece) /\ UNCHANGED shown
                  ELSE shown' = Append(shown, Piece) /\ UNCHANGED buffer
  /\ UNCHANGED <<pc, ask, progress, file, turn, attempt, body, good, made, told, left>>

CallPart(i) ==
  /\ pc = "stream" /\ ~sink.done /\ sink.parts[i] < 2
  /\ sink' = [sink EXCEPT !.parts[i] = @ + 1]
  /\ UNCHANGED <<pc, ask, progress, file, turn, attempt, body, good, answer, made, told, left>>

DoneLine ==
  /\ pc = "stream" /\ ~sink.done /\ sink' = [sink EXCEPT !.done = TRUE]
  /\ UNCHANGED <<pc, ask, progress, file, turn, attempt, body, good, answer, made, told, left>>

\* The connection ends, with text on the way that never arrives, and without
\* the transport noticing it.
Lose ==
  /\ pc = "stream" /\ ~sink.done /\ sink.text < MaxPieces
  /\ said' = Append(said, Piece) /\ Goto("judge")
  /\ UNCHANGED <<ask, progress, file, turn, attempt, body, sink, good, buffer, shown, made, told>>

\* An error event, malformed JSON, an index out of range, a broken connection
\* or a cancellation; of the first three nothing is made before the end.
Close ==
  /\ pc = "stream" /\ Goto("judge")
  /\ \/ UNCHANGED sink
     \/ sink' = [sink EXCEPT !.failed = TRUE]
  /\ UNCHANGED <<ask, progress, file, turn, attempt, body, good, answer, made, told>>

\* The vector of calls reaches up to the highest index that was named.
Called == {i \in 1..2 : \E j \in i..2 : sink.parts[j] > 0}

\* Mutant: a stream that ends is taken for one that is complete.
WholeTurn_Unsentineled ==
  /\ ~sink.failed
  /\ sink.text > 0 \/ Called # {}
  /\ \A i \in Called : sink.parts[i] = 2

\* The end of streamCompletionTurn.
WholeTurn ==
  /\ ~sink.failed
  /\ sink.text > 0 \/ Called # {}
  /\ sink.done
  /\ \A i \in Called : sink.parts[i] = 2

Judge ==
  /\ pc = "judge" /\ good' = WholeTurn
  /\ Goto(IF Tools THEN "cleanup" ELSE "turn")
  /\ UNCHANGED <<ask, progress, file, turn, attempt, body, sink, answer, made, told>>

\* removeToolRequest: the answer is lost with a refusal.
Cleanup ==
  /\ pc = "cleanup"
  /\ \/ file' = NoFile /\ Goto("turn") /\ UNCHANGED told
     \/ Fault /\ pc' = "idle" /\ told' = "unclean" /\ UNCHANGED file
  /\ UNCHANGED <<ask, progress, turn, attempt, body, sink, good, answer, made>>

-----------------------------------------------------------------------------
(* What a turn leads to.                                                   *)

TurnFailed ==
  /\ pc = "turn" /\ ~good /\ End("failed")
  /\ UNCHANGED <<ask, progress, file, turn, attempt, body, sink, good, answer, made>>

\* The tool that the question needs was not called: asked once more.
AskAgain ==
  /\ pc = "turn" /\ good /\ Called = {} /\ Buffering /\ ~retried
  /\ retried' = TRUE /\ buffer' = <<>> /\ said' = shown /\ Goto("stage")
  /\ UNCHANGED <<ask, round, required, written, file, turn, attempt, body, sink, good,
                 shown, made, told>>

Enough ==
  /\ ~Buffering
  /\ ask.write => written
  /\ required = {}
  /\ sink.text > 0

Answered ==
  /\ pc = "turn" /\ good /\ Called = {} /\ Enough /\ End("ok")
  /\ UNCHANGED <<ask, progress, file, turn, attempt, body, sink, good, answer, made>>

NotEnough ==
  /\ pc = "turn" /\ good /\ Called = {} /\ ~Enough /\ (Buffering => retried) /\ End("failed")
  /\ UNCHANGED <<ask, progress, file, turn, attempt, body, sink, good, answer, made>>

\* One call a turn, in so many rounds; what was kept back is shown before it.
TakeUp ==
  /\ pc = "turn" /\ good /\ Called # {}
  /\ shown' = shown \o buffer /\ buffer' = <<>> /\ UNCHANGED said
  /\ IF Tools /\ round < MaxRounds /\ Cardinality(Called) = 1
     THEN Goto("tool") /\ UNCHANGED told ELSE End("failed")
  /\ UNCHANGED <<ask, progress, file, turn, attempt, body, sink, good, made>>

Take(t) ==
  /\ required' = required \ {Group(t)}
  /\ made' = Append(made, [turn |-> turn, parts |-> sink.parts[1], tool |-> t, ok |-> FALSE])

\* The result goes into the next request.
NextRound ==
  /\ round' = round + 1 /\ Goto("stage")
  /\ sink' = Fresh /\ good' = FALSE /\ body' = NoFile

Run(t) ==
  /\ pc = "tool"
  /\ \E ok \in BOOLEAN :
       /\ required' = required \ {Group(t)}
       /\ made' = Append(made, [turn |-> turn, parts |-> sink.parts[1], tool |-> t, ok |-> ok])
       /\ written' = (written \/ (ok /\ t = "write"))
  /\ NextRound
  /\ UNCHANGED <<ask, retried, file, turn, attempt, answer, told>>

\* Canceled before or in the tool, or its output is empty or too much.
RunFailed ==
  /\ pc = "tool" /\ End("failed")
  /\ UNCHANGED <<ask, progress, file, turn, attempt, body, sink, good, answer, made>>

\* The call needs a confirmation, and the loop is left with what it needs to
\* go on: a PendingToolContinuation.
Await(t) ==
  /\ pc = "tool" /\ Take(t)
  /\ pc' = "waiting" /\ told' = "waiting" /\ UNCHANGED left
  /\ UNCHANGED <<ask, round, retried, written, file, turn, attempt, body, sink, good,
                 answer>>

\* continueChatCompletionAfterPendingToolResult, once it was decided.  What
\* was shown before is not part of the answer.
Resume ==
  /\ pc = "waiting" /\ told' = "none"
  /\ \E ok \in BOOLEAN :
       /\ made' = [made EXCEPT ![Len(made)].ok = ok]
       /\ written' = (written \/ (ok /\ made[Len(made)].tool = "write"))
  /\ retried' = FALSE
  /\ shown' = <<>> /\ said' = <<>> /\ buffer' = <<>>
  /\ NextRound
  /\ UNCHANGED <<ask, required, file, turn, attempt>>

Dismiss ==
  /\ pc = "waiting" /\ End("failed")
  /\ UNCHANGED <<ask, progress, file, turn, attempt, body, sink, good, answer, made>>

Reset ==
  /\ pc # "idle" /\ left.resets > 0 /\ left' = [left EXCEPT !.resets = @ - 1]
  /\ pc' = "idle" /\ told' = "none" /\ body' = NoFile /\ sink' = Fresh /\ good' = FALSE
  /\ round' = 0 /\ retried' = FALSE /\ required' = {} /\ written' = FALSE
  /\ shown' = <<>> /\ said' = <<>> /\ buffer' = <<>> /\ made' = <<>>
  /\ turn' = 0 /\ attempt' = 1
  /\ UNCHANGED <<ask, file>>

Next ==
  \/ \E q \in Questions : Begin(q)
  \/ Stage \/ StageRefused \/ NoMemory \/ NoAnswer \/ Retry \/ Post
  \/ Text \/ DoneLine \/ Lose \/ Close \/ Judge \/ Cleanup
  \/ \E i \in 1..2 : CallPart(i)
  \/ TurnFailed \/ AskAgain \/ Answered \/ NotEnough \/ TakeUp
  \/ \E t \in Tool : Run(t) \/ Await(t)
  \/ RunFailed \/ Resume \/ Dismiss \/ Reset

Spec == Init /\ [][Next]_vars

-----------------------------------------------------------------------------
\* What is called an answer is all of the text that the model sent for it.
SuccessIsWhole == told = "ok" => shown = said

Before(p, q) == p[1] < q[1] \/ (p[1] = q[1] /\ p[2] < q[2])

\* No retry and no further round shows a piece again or out of its order.
ShownInOrder == \A i, j \in 1..Len(shown) : i < j => Before(shown[i], shown[j])

\* An answer meets what the question required, also across a confirmation:
\* its groups were used and its file was written, really.
RequirementsAreMet ==
  told = "ok" =>
    LET calls == {made[i] : i \in 1..Len(made)}
    IN /\ ask.groups \subseteq {Group(c.tool) : c \in calls}
       /\ ask.access => calls # {}
       /\ ask.write => \E c \in calls : c.tool = "write" /\ c.ok

\* A call is taken up once, whole, and only so many of them for a question.
CallsAreWhole ==
  /\ Len(made) =< MaxRounds
  /\ \A i \in 1..Len(made) : made[i].parts = 2
  /\ \A i, j \in 1..Len(made) : i < j => made[i].turn < made[j].turn

\* What the model is answering is the whole request of this round.
RequestIsOfThisTurn ==
  pc = "stream" => body = [question |-> Number, turn |-> turn, whole |-> TRUE]

\* The request does not stay on the card with the conversation in it, unless
\* that was said or the device was reset.
NoRequestStays ==
  /\ pc \in {"turn", "tool", "waiting"} \/ told \in {"ok", "failed"}
  /\ turn > (CASE ask.kind = "tools" -> 0 [] ask.kind = "search" -> 1 [] OTHER -> turn)
  => file = NoFile

\* An answer that is given is the answer, to the question, as it was required.
AnswersAreWhole ==
  /\ SuccessIsWhole /\ ShownInOrder /\ RequirementsAreMet
  /\ CallsAreWhole /\ RequestIsOfThisTurn /\ NoRequestStays
=============================================================================
