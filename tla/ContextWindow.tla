---------------------------- MODULE ContextWindow ----------------------------
(***************************************************************************)
(* What of a chat a request carries.  The raw messages stay on the card;   *)
(* the chat's metadata say how many of them, from the first one on, its    *)
(* summary stands for.  The device keeps the window of the next request in *)
(* memory (history), the Web Console reads it from the card each time.     *)
(* Messages that do not fit the budget are left out, the oldest first, when*)
(* a prompt is sent and again when its answer has come; with automatic     *)
(* compaction the model then summarizes those the answer pushed out.       *)
(*                                                                         *)
(* A message is its place in the log, a summary the set of messages it was *)
(* made from.  An answer the card refused is 0 in the device's window.     *)
(***************************************************************************)
EXTENDS Naturals, Sequences, SequencesExt, FiniteSetsExt

CONSTANTS
  MaxMessages, Sizes,     \* bounds: messages of a chat, their sizes
  Budget,                 \* the project's contextByteBudget
  TailMessages,           \* messages loadProjectChat returns at most
  RetainedMessages,       \* kRetainedMessages of a regeneration
  Refusals                \* whether the card may refuse to store an answer

VARIABLES
  log,        \* the raw history: the role and the size of each message
  counted,    \* summarizedMessageCount
  covered,    \* the messages contextSummary was made from
  window,     \* the device's history
  surface,    \* who serves the user: the device, or its Web Console
  automatic,  \* the project's automaticCompaction
  asking,     \* the request that is out; a decision on a tool call resumes it
  lost        \* an answer in the device's window is not on the card

vars == <<log, counted, covered, window, surface, automatic, asking, lost>>

Nothing == [phase |-> "none", request |-> <<>>]
Idle == asking = Nothing

TypeOK ==
  /\ log \in Seq([role : {"user", "assistant"}, bytes : Sizes])
  /\ counted \in 0..MaxMessages /\ covered \subseteq 1..MaxMessages
  /\ window \in Seq(0..MaxMessages)
  /\ surface \in {"device", "web"}
  /\ asking \in [phase : {"none", "sent", "resumed"}, request : Seq(0..MaxMessages)]
  /\ {automatic, lost} \subseteq BOOLEAN

Init ==
  /\ log = <<>> /\ counted = 0 /\ covered = {}
  /\ window = <<>> /\ surface = "device"
  /\ automatic \in BOOLEAN
  /\ asking = Nothing /\ lost = FALSE

-----------------------------------------------------------------------------
\* The size of messages w of the log l; a lost answer has the largest.
SizeOf(l, w) ==
  FoldSeq(LAMBDA i, n : n + (IF i = 0 THEN Max(Sizes) ELSE l[i].bytes), 0, w)

\* firstMessageWithinByteBudget: as many of the newest as fit, and always one.
FirstRetained(l, w) ==
  Min({i \in 1..Len(w) : i = Len(w) \/ SizeOf(l, SubSeq(w, i, Len(w))) <= Budget})

\* fitMessagesToByteBudget, and takeMessagesDroppedToByteBudget.
Fit(l, w) == SubSeq(w, FirstRetained(l, w), Len(w))
Dropped(l, w) == SubSeq(w, 1, FirstRetained(l, w) - 1)

\* Mutant: the tail is sent whole, summarized or not.
UnsummarizedTail_Whole(n, k) ==
  LET first == IF n > TailMessages THEN n - TailMessages ELSE 0
  IN [i \in 1..n - first |-> first + i]

\* unsummarizedChatTail of a chat of n messages, k of them summarized.
UnsummarizedTail(n, k) ==
  LET first == IF n > TailMessages /\ n - TailMessages > k THEN n - TailMessages ELSE Min({k, n})
  IN [i \in 1..n - first |-> first + i]

Tail0 == UnsummarizedTail(Len(log), counted)

-----------------------------------------------------------------------------
\* The chat is opened, or the device starts with it.
ActivateChat ==
  /\ Idle /\ surface = "device"
  /\ window' = Tail0 /\ lost' = FALSE
  /\ UNCHANGED <<log, counted, covered, surface, automatic, asking>>

OpenWebConsole ==
  /\ Idle /\ surface = "device" /\ surface' = "web"
  /\ UNCHANGED <<log, counted, covered, window, automatic, asking, lost>>

\* The device reads its chat again when the console is closed.
CloseWebConsole ==
  /\ Idle /\ surface = "web" /\ surface' = "device"
  /\ window' = Tail0 /\ lost' = FALSE
  /\ UNCHANGED <<log, counted, covered, automatic, asking>>

\* Sends request r; the device's window becomes what is sent.
Ask(r) ==
  /\ asking' = [phase |-> "sent", request |-> r]
  /\ window' = IF surface = "device" THEN r ELSE window
  /\ UNCHANGED <<counted, covered, surface, automatic>>

SubmitPrompt(bytes) ==
  /\ Idle /\ Len(log) < MaxMessages
  /\ log' = Append(log, [role |-> "user", bytes |-> bytes])
  /\ Ask(Fit(log', Append(IF surface = "device" THEN window ELSE Tail0, Len(log) + 1)))
  /\ UNCHANGED lost

\* The last prompt was not answered; its request is made from the card again.
Retry ==
  /\ Idle /\ Tail0 # <<>> /\ log[Len(log)].role = "user"
  /\ Ask(Fit(log, Tail0))
  /\ lost' = (IF surface = "device" THEN FALSE ELSE lost)
  /\ UNCHANGED log

\* A tool call waits for the user's decision; the request goes on with it.
\* The Web Console, and a chat that is not the active one, read it again.
Resume ==
  /\ asking.phase = "sent"
  /\ asking' = [phase |-> "resumed", request |-> IF surface = "device" THEN window ELSE Fit(log, Tail0)]
  /\ UNCHANGED <<log, counted, covered, window, surface, automatic, lost>>

Fail ==
  /\ ~Idle /\ asking' = Nothing
  /\ UNCHANGED <<log, counted, covered, window, surface, automatic, lost>>

\* The summary takes in the first n of the messages that were dropped: as many
\* as fit the request that is made of them.  None if that request fails.
Summarize(dropped, n) ==
  /\ covered' = covered \cup ({dropped[i] : i \in 1..n} \ {0})
  /\ counted' = Min({Len(log'), counted + n})

Answer(bytes, stored, n) ==
  /\ ~Idle /\ Len(log) < MaxMessages /\ (Refusals \/ stored)
  /\ LET l == Append(log, [role |-> "assistant", bytes |-> bytes])
         whole == Append(asking.request, Len(l))
         dropped == Dropped(l, whole)
     IN /\ log' = IF stored THEN l ELSE log
        /\ n \in 0..Len(dropped)
        /\ n > 0 => stored /\ automatic /\ asking.phase = "sent"
        /\ Summarize(dropped, n)
        \* A device's own answer stays in its window even when it is not stored.
        /\ IF surface = "device" /\ (stored \/ asking.phase = "sent")
           THEN /\ window' = [i \in 1..Len(Fit(l, whole)) |->
                                IF Fit(l, whole)[i] = Len(l) /\ ~stored THEN 0 ELSE Fit(l, whole)[i]]
                /\ lost' = (lost \/ ~stored)
           ELSE UNCHANGED <<window, lost>>
  /\ asking' = Nothing
  /\ UNCHANGED <<surface, automatic>>

\* Made page by page from the raw history and stored when all of it is there.
RegenerateSummary ==
  /\ Idle /\ Len(log) > RetainedMessages
  /\ counted' = Len(log) - RetainedMessages
  /\ covered' = 1..counted'
  /\ IF surface = "device"
     THEN window' = UnsummarizedTail(Len(log), counted') /\ lost' = FALSE
     ELSE UNCHANGED <<window, lost>>
  /\ UNCHANGED <<log, surface, automatic, asking>>

ClearChat ==
  /\ Idle /\ log' = <<>> /\ counted' = 0 /\ covered' = {}
  /\ IF surface = "device" THEN window' = <<>> /\ lost' = FALSE ELSE UNCHANGED <<window, lost>>
  /\ UNCHANGED <<surface, automatic, asking>>

Next ==
  \/ ActivateChat \/ OpenWebConsole \/ CloseWebConsole
  \/ \E bytes \in Sizes : SubmitPrompt(bytes)
  \/ Retry \/ Resume \/ Fail
  \/ \E bytes \in Sizes, stored \in BOOLEAN, n \in 0..MaxMessages : Answer(bytes, stored, n)
  \/ RegenerateSummary \/ ClearChat

Spec == Init /\ [][Next]_vars

-----------------------------------------------------------------------------
\* A request ends with the prompt it is for, its messages are in the order of
\* the chat, and it fits the budget unless that prompt alone does not.
RequestIsFit ==
  Idle \/
    LET r == asking.request
    IN /\ r # <<>> /\ Last(r) = Len(log) /\ log[Len(log)].role = "user"
       /\ \A i, j \in 1..Len(r) : i < j /\ 0 \notin {r[i], r[j]} => r[i] < r[j]
       /\ SizeOf(log, r) <= Budget \/ Len(r) = 1

\* A message the summary is counted to stand for is not sent as well.
NothingIsSentTwice ==
  Idle \/ lost \/ \A i \in Range(asking.request) : i > counted

\* The summary stands for messages of this chat.
SummaryIsOfThisChat == counted <= Len(log) /\ covered \subseteq 1..Len(log)

\* docs/user-guide.md:42 "With automatic compaction enabled, CardMind
\* summarizes omitted turns and includes that summary in later requests": a
\* message that is counted as summarized is in the summary.
CountedIsSummarized == 1..counted \subseteq covered

\* Of every request: it fits, in order, beside a summary of this chat and of
\* nothing it carries itself.
RequestsAreRight ==
  TypeOK /\ RequestIsFit /\ NothingIsSentTwice /\ SummaryIsOfThisChat
=============================================================================
