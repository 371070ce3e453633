---------------------------- MODULE ChatHistory ----------------------------
(***************************************************************************)
(* One chat of project_chat_storage.cpp.  Its messages live in an          *)
(* append-only history file; a bounded tail (the model's context), the     *)
(* metadata, a pending-append marker and the chat's line in the project's  *)
(* index are separate files, and one append changes all five.  Every       *)
(* operation starts with recoverPendingAppend, which finishes or drops     *)
(* what an interrupted append left.                                        *)
(*                                                                         *)
(* pc is the next durable effect.  An interruption (reset, or a refused    *)
(* call answered by returning the error) may fall on any of them and       *)
(* leaves that effect done, not done or, for the files that are not        *)
(* written atomically, half done as far as Faults says.                    *)
(***************************************************************************)
EXTENDS Integers, Sequences

CONSTANTS Message,         \* contents of a message
          Absent,          \* no marker, no operation
          TailLimit,       \* kStoredTailMessages
          MaxBatch,        \* bound on the messages of one append
          MaxCount,        \* bound on the messages of the chat
          MaxRevision,     \* bound on the metadata revision
          MaxDisturbances, \* bound on interruptions
          Faults           \* what an interruption may leave half done

AllFaults == {"tornAppend", \* a refused write or reset keeps a prefix
              "shortFlush", \* flushed files are shorter than what was written
              "cutClear"}   \* a clear that stops between two files

ASSUME LimitAssumption == TailLimit \in Nat \ {0} /\ MaxBatch \in Nat
ASSUME BoundAssumption ==
  MaxCount \in Nat /\ MaxRevision \in Nat /\ MaxDisturbances \in Nat
ASSUME AbsentAssumption ==
  Absent \notin [old : Nat, new : Nat]
                  \cup {"append", "clear", "load", "draft", "page", "save"}
ASSUME FaultAssumption == Faults \subseteq AllFaults

VARIABLES
  hist,    \* history.jsonl: records, how its last line ends
  tail,    \* tail.jsonl: the same
  meta,    \* chat.json: message_count and revision
  index,   \* the chat's line in the project's index: the same
  marker,  \* append.json: old_count and new_count
  op,      \* the operation in progress, or the last one
  pc,      \* the next durable effect
  reported, disturbances,
  faulted  \* history: the faults that have happened

disk == <<hist, tail, meta, index, marker>>
vars == <<hist, tail, meta, index, marker, op, pc, reported, disturbances,
          faulted>>

Record == [seq : Nat, msg : Message]
\* end: the last line is complete ("line"), complete but for its newline
\* ("open"), or cut ("torn", recs without it).  joined: some line holds two
\* records.  away: between the two renames of commitAtomicSdFile the file is
\* under its .bak name; recs describes that file.
LineFile == [recs : Seq(Record), end : {"line", "open", "torn"},
             joined : BOOLEAN, away : BOOLEAN]
Summary == [count : Nat, revision : Nat]

Empty == [recs |-> << >>, end |-> "line", joined |-> FALSE, away |-> FALSE]

Batches == UNION {[1..n -> Message] : n \in 1..MaxBatch}
Operations == [kind : {"append"}, batch : Batches]
                \cup [kind : {"clear", "load", "draft", "page", "save"},
                      batch : {<< >>}]
NoOperation == [kind |-> Absent, batch |-> << >>]

EffectSteps == {"recoverDrop", "recoverTail", "recoverMeta", "recoverIndex",
  "recoverUnmark", "rebuild", "stage", "write", "tail", "meta", "index",
  "unmark", "clearHistory", "clearTail", "clearMeta", "clearIndex",
  "saveMeta", "saveIndex"}

TypeOK ==
  /\ hist \in LineFile /\ tail \in LineFile
  /\ meta \in Summary /\ index \in Summary
  /\ marker = Absent \/ marker \in [old : Nat, new : Nat]
  /\ op \in Operations \cup {NoOperation}
  /\ pc \in {"idle", "recover", "check"} \cup EffectSteps
  /\ reported \in {"none", "ok", "error"}
  /\ disturbances \in 0..MaxDisturbances /\ faulted \subseteq Faults

\* createProjectChat: empty files, metadata of revision 1, an index line.
Init ==
  /\ hist = Empty /\ tail = Empty
  /\ meta = [count |-> 0, revision |-> 1] /\ index = meta
  /\ marker = Absent
  /\ op = NoOperation
  /\ pc = "idle" /\ reported = "none"
  /\ disturbances = 0 /\ faulted = {}

-----------------------------------------------------------------------------
(* Scans of the line files *)

LastSeq(recs) == recs[Len(recs)].seq

\* scanTailSource accepts the whole file.  A last record without its newline
\* is accepted, a line with two records is not.
Readable(f) ==
  /\ ~f.away /\ ~f.joined /\ f.end # "torn"
  /\ \A i \in 1..Len(f.recs) - 1 : f.recs[i + 1].seq = f.recs[i].seq + 1

\* The records are exactly 1..n.
Complete(recs, n) ==
  /\ Len(recs) = n
  /\ n > 0 => recs[1].seq = 1 /\ LastSeq(recs) = n

\* retainTailRecord over the records: the longest suffix within the limit.
Window(recs) ==
  IF Len(recs) <= TailLimit THEN recs
  ELSE SubSeq(recs, Len(recs) - TailLimit + 1, Len(recs))

\* Mutant: the tail is accepted whatever it holds.
AnyTail == ~tail.away

\* scanProjectChatTail: the tail ends with the last message of the metadata.
TailMatches ==
  /\ Readable(tail)
  /\ LET n == Len(tail.recs) IN
       IF meta.count = 0 THEN n = 0
       ELSE /\ n \in 1..meta.count
            /\ LastSeq(tail.recs) = meta.count
            /\ tail.recs[1].seq = meta.count - n + 1

\* Mutant: an untouched history is not recognised.
NeverUncommitted == FALSE

\* recoverPendingAppend: nothing of the append reached the history ...
Uncommitted == Readable(hist) /\ Complete(hist.recs, marker.old)
\* ... or all of it did.
Committed == Readable(hist) /\ Complete(hist.recs, marker.new)

\* updateTailAfterAppend reads back what was appended.
AppendedReadBack ==
  /\ hist.recs # << >> /\ hist.end # "torn"
  /\ LastSeq(hist.recs) = marker.new

-----------------------------------------------------------------------------
(* What each durable effect stores *)

Numbered(n, batch) ==
  [i \in 1..Len(batch) |-> [seq |-> n + i, msg |-> batch[i]]]

\* The history with the first k records of the batch and a last line that
\* ends so.  Bytes written behind an open line join it.
Extended(k, end) ==
  [recs |-> hist.recs \o Numbered(meta.count, SubSeq(op.batch, 1, k)),
   end |-> end,
   joined |-> hist.joined \/ hist.end = "open",
   away |-> FALSE]

\* Mutant: opened with FILE_WRITE.
NewHistoryTruncated ==
  CASE pc = "write" ->
         [recs |-> Numbered(meta.count, op.batch), end |-> "line",
          joined |-> FALSE, away |-> FALSE]
    [] pc = "clearHistory" -> Empty
    [] OTHER -> hist

NewHistory ==
  CASE pc = "write" -> Extended(Len(op.batch), "line")
    [] pc = "clearHistory" -> Empty
    [] OTHER -> hist

\* The append stopped, or the last flush fell short, somewhere in the bytes.
PartHistory ==
  {hist}
    \cup {Extended(k, "torn") : k \in 0..Len(op.batch) - 1}
    \cup {Extended(k, e) : k \in 1..Len(op.batch), e \in {"line", "open"}}

\* updateTailAfterAppend copies a suffix of the old tail, if one fits beside
\* the appended records, and then the appended lines.
TailAfterAppend ==
  LET n == Len(hist.recs)
      appended == SubSeq(hist.recs, n - Len(op.batch) + 1, n)
      kept == Window(tail.recs \o appended)
  IN [recs |-> kept,
      end |-> hist.end,
      joined |-> Len(kept) > Len(appended) /\ tail.end = "open",
      away |-> FALSE]

NewTail ==
  CASE pc \in {"recoverTail", "rebuild"} ->
         [recs |-> Window(hist.recs), end |-> hist.end, joined |-> FALSE,
          away |-> FALSE]
    [] pc = "tail" -> TailAfterAppend
    [] pc = "clearTail" -> Empty
    [] OTHER -> tail

\* The staged tail is renamed without being read back.
ShortTail ==
  {[NewTail EXCEPT !.recs = SubSeq(@, 1, Len(@) - 1), !.end = "torn"],
   [NewTail EXCEPT !.end = "open"]}

NewMeta ==
  [count |-> CASE pc = "recoverMeta" -> marker.new
               [] pc = "meta" -> meta.count + Len(op.batch)
               [] pc = "clearMeta" -> 0
               [] OTHER -> meta.count,
   revision |-> meta.revision + 1]

\* Mutant: no marker is written.
NewMarkerNone == Absent

NewMarker ==
  IF pc = "stage"
  THEN [old |-> meta.count, new |-> meta.count + Len(op.batch)]
  ELSE Absent

HistorySteps == {"write", "clearHistory"}
TailSteps == {"recoverTail", "rebuild", "tail", "clearTail"}
MetaSteps == {"recoverMeta", "meta", "clearMeta", "saveMeta"}
IndexSteps == {"recoverIndex", "index", "clearIndex", "saveIndex"}
MarkerSteps == {"recoverDrop", "recoverUnmark", "stage", "unmark"}

\* The order of the effects.  "idle" stands for a successful return.
Following ==
  [s \in EffectSteps |->
     CASE s \in {"recoverDrop", "recoverUnmark", "rebuild"} -> "check"
       [] s = "recoverTail" -> "recoverMeta"
       [] s = "recoverMeta" -> "recoverIndex"
       [] s = "recoverIndex" -> "recoverUnmark"
       [] s = "stage" -> "write"
       [] s = "write" -> "tail"
       [] s = "tail" -> "meta"
       [] s = "meta" -> "index"
       [] s = "index" -> "unmark"
       [] s = "clearHistory" -> "clearTail"
       [] s = "clearTail" -> "clearMeta"
       [] s = "clearMeta" -> "clearIndex"
       [] s = "saveMeta" -> "saveIndex"
       [] OTHER -> "idle"]

Goto(step) == pc' = step /\ UNCHANGED <<op, reported, disturbances, faulted>>

Return(word) ==
  pc' = "idle" /\ reported' = word /\ UNCHANGED <<op, disturbances, faulted>>

\* Mutant: saving metadata leaves the index to the next append.
ProceedSkippingIndex ==
  IF pc = "saveMeta" \/ Following[pc] = "idle" THEN Return("ok")
  ELSE Goto(Following[pc])

Proceed ==
  IF Following[pc] = "idle" THEN Return("ok") ELSE Goto(Following[pc])

Disturbed ==
  /\ disturbances < MaxDisturbances
  /\ disturbances' = disturbances + 1

-----------------------------------------------------------------------------
(* Operations *)

\* The bounds stop only what changes the chat.
Start(o) ==
  /\ pc = "idle"
  /\ o.kind \in {"append", "clear", "save"} =>
       meta.count + Len(o.batch) <= MaxCount /\ meta.revision < MaxRevision
  /\ pc' = "recover" /\ op' = o /\ reported' = "none"
  /\ UNCHANGED <<disk, disturbances, faulted>>

\* recoverPendingAppend
Recover ==
  /\ pc = "recover"
  /\ \/ marker = Absent /\ Goto("check")
     \/ /\ marker # Absent
        /\ \/ Uncommitted /\ Goto("recoverDrop")
           \/ ~Uncommitted /\ Committed /\ Goto("recoverTail")
           \/ ~Uncommitted /\ ~Committed /\ Return("error")
  /\ UNCHANGED disk

\* rebuildTailFile wants a history that agrees with the metadata.
TailRebuilds == Readable(hist) /\ Complete(hist.recs, meta.count)

\* readProjectChatMessages from the start to the end, without the metadata.
PageReads == Readable(hist) /\ (hist.recs = << >> \/ hist.recs[1].seq = 1)

\* appendProjectChatMessages before its first effect: quota, free space, index
\* lines and counters may refuse; the history must be there.
Preflight == Return("error") \/ (~hist.away /\ Goto("stage"))

\* loadProjectChatMetadataDocument, loadProjectChatMetadata: a missing tail is
\* rebuilt, then compared.  saveProjectChatMetadata and readProjectChatMessages
\* do not look at the tail, saveProjectChatDraft only looks for it.  A save by a
\* caller whose message count is out of date is refused.
Check ==
  /\ pc = "check"
  /\ \/ op.kind = "save" /\ (Goto("saveMeta") \/ Return("error"))
     \/ op.kind = "page" /\ Return(IF PageReads THEN "ok" ELSE "error")
     \/ /\ op.kind \notin {"save", "page"} /\ tail.away
        /\ IF TailRebuilds THEN Goto("rebuild") ELSE Return("error")
     \/ op.kind = "draft" /\ ~tail.away /\ Return("ok")
     \/ /\ op.kind \in {"append", "clear", "load"} /\ ~tail.away
        /\ \/ ~TailMatches /\ Return("error")
           \/ TailMatches /\ op.kind = "load" /\ Return("ok")
           \/ TailMatches /\ op.kind = "clear" /\ Goto("clearHistory")
           \/ TailMatches /\ op.kind = "append" /\ Preflight
  /\ UNCHANGED disk

StoreHistory ==
  /\ pc \in HistorySteps
  /\ hist' = NewHistory
  /\ Proceed
  /\ UNCHANGED <<tail, meta, index, marker>>

\* The tail after an append needs the appended records to read back.
StoreTail ==
  /\ pc \in TailSteps
  /\ pc = "tail" => AppendedReadBack
  /\ tail' = NewTail
  /\ Proceed
  /\ UNCHANGED <<hist, meta, index, marker>>

AppendRejected ==
  /\ pc = "tail" /\ ~AppendedReadBack
  /\ Return("error")
  /\ UNCHANGED disk

StoreMeta ==
  /\ pc \in MetaSteps
  /\ meta' = NewMeta
  /\ Proceed
  /\ UNCHANGED <<hist, tail, index, marker>>

\* upsertProjectChatSummary
StoreIndex ==
  /\ pc \in IndexSteps
  /\ index' = meta
  /\ Proceed
  /\ UNCHANGED <<hist, tail, meta, marker>>

StoreMarker ==
  /\ pc \in MarkerSteps
  /\ marker' = NewMarker
  /\ Proceed
  /\ UNCHANGED <<hist, tail, meta, index>>

\* Every write call succeeded, yet the card holds less: File.flush and
\* File.close report nothing.
FlushShort ==
  /\ "shortFlush" \in Faults /\ Disturbed
  /\ \/ /\ pc = "write"
        /\ hist' \in PartHistory
        /\ UNCHANGED tail
     \/ /\ pc \in TailSteps \ {"clearTail"}
        /\ pc = "tail" => AppendedReadBack
        /\ NewTail.recs # << >>
        /\ tail' \in ShortTail
        /\ UNCHANGED hist
  /\ pc' = Following[pc] /\ faulted' = faulted \cup {"shortFlush"}
  /\ UNCHANGED <<meta, index, marker, op, reported>>

-----------------------------------------------------------------------------
(* Interruptions *)

\* A file under the atomic replacement protocol, read by code that does not
\* recover it: the previous document, the same under its .bak name, or the new.
Uncertain(old, new) ==
  {[old EXCEPT !.away = FALSE], [old EXCEPT !.away = TRUE], new}

InterruptedHistory ==
  CASE pc = "write" -> {hist, NewHistory}
         \cup (IF "tornAppend" \in Faults THEN PartHistory ELSE {})
    [] pc = "clearHistory" -> {hist}
         \cup (IF "cutClear" \in Faults THEN Uncertain(hist, Empty) ELSE {})
    [] OTHER -> {hist}

InterruptedTail ==
  IF pc \in TailSteps /\ (pc = "tail" => AppendedReadBack)
  THEN {tail} \cup Uncertain(tail, NewTail) ELSE {tail}

\* The effect is done or not done; in between, it is cut.
IsWhole ==
  /\ pc \notin {"clearTail", "clearMeta"}
  /\ hist' = hist \/ (pc = "write" /\ hist' = NewHistory)

\* A reset, or a refused call after which the operation returns its error.
Interrupt ==
  /\ pc # "idle" /\ Disturbed
  /\ pc \in {"clearTail", "clearMeta"} => "cutClear" \in Faults
  /\ hist' \in InterruptedHistory
  /\ tail' \in InterruptedTail
  /\ meta' \in IF pc \in MetaSteps THEN {meta, NewMeta} ELSE {meta}
  /\ index' \in IF pc \in IndexSteps THEN {index, meta} ELSE {index}
  /\ marker' \in IF pc \in MarkerSteps THEN {marker, NewMarker} ELSE {marker}
  /\ pc' = "idle" /\ reported' \in {"none", "error"}
  /\ faulted' = IF IsWhole THEN faulted
                ELSE faulted \cup {IF pc = "write" THEN "tornAppend" ELSE "cutClear"}
  /\ UNCHANGED op

Next ==
  \/ \E o \in Operations : Start(o)
  \/ Recover
  \/ Check
  \/ StoreHistory
  \/ StoreTail
  \/ AppendRejected
  \/ StoreMeta
  \/ StoreIndex
  \/ StoreMarker
  \/ FlushShort
  \/ Interrupt

Spec == Init /\ [][Next]_vars

-----------------------------------------------------------------------------
(* Properties *)

\* The marked append is in the history as a whole.
Appended == hist.recs # << >> /\ LastSeq(hist.recs) >= marker.new

\* Records of a marked append that is not whole are read by nothing:
\* recoverPendingAppend refuses every operation.
Kept == {i \in 1..Len(hist.recs) :
           marker # Absent /\ ~Appended => hist.recs[i].seq <= marker.old}

Log == INSTANCE ChatLog
  WITH Request <- Operations, NoRequest <- NoOperation,
       log <- [i \in Kept |-> hist.recs[i].msg],
       request <- IF pc = "idle" THEN NoOperation ELSE op,
       done <- \/ pc \in {"tail", "meta", "index", "unmark"} /\ Appended
               \/ pc \in {"clearTail", "clearMeta", "clearIndex"},
       reported <- reported

\* The raw history is a log of whole appends and clears, whatever is
\* interrupted or cut short in an append, its recovery, a clear or the
\* rebuilding of the tail: no message is lost, reordered or stored twice by
\* one call, and a reported success is in it.
ImplementsChatLog == Log!LogSpec

\* What loadProjectChat and readProjectChatMessages return, when they return,
\* is the log: the count is its length, the context its last messages.  A clear
\* that was cut is excepted.
ReadsAreConsistent ==
  pc = "idle" /\ reported = "ok" /\ "cutClear" \notin faulted =>
    /\ op.kind \in {"load", "page"} =>
         marker = Absent /\ Complete(hist.recs, meta.count)
    /\ op.kind = "load" => tail.recs = Window(hist.recs)

\* A reported append, clear or save is in the list of chats, and nothing is
\* left to recover, unless a clear was cut.
SuccessIsListed ==
  pc = "idle" /\ reported = "ok" /\ "cutClear" \notin faulted
    /\ op.kind \in {"append", "clear", "save"} =>
    index = meta /\ marker = Absent /\ meta.count = Len(hist.recs)

\* The next load of the chat will succeed.
Loads ==
  /\ marker = Absent \/ Uncommitted \/ Committed
  /\ \/ marker # Absent /\ ~Uncommitted
     \/ TailMatches
     \/ tail.away /\ TailRebuilds

\* The inductive strengthening the proofs use.  EndsAt(n): the history is empty
\* or its last record is number n.
EndsAt(n) == hist.recs = << >> \/ LastSeq(hist.recs) = n

\* Numbers in the history are positive and consecutive.
Consecutive(recs) ==
  \A i \in 1..Len(recs) :
    recs[i].seq > 0 /\ recs[i].seq = recs[1].seq + i - 1

NumberedInv == Consecutive(hist.recs)

\* Without a marker the history ends where the metadata says.
UnmarkedInv == marker = Absent => EndsAt(meta.count)

\* With one, the metadata is on either side of the append, on the far side
\* only if the history is, and the history is between.
MarkedInv ==
  marker # Absent =>
    /\ marker.old < marker.new
    /\ meta.count \in {marker.old, marker.new}
    /\ hist.recs # << >> => LastSeq(hist.recs) \in marker.old..marker.new
    /\ meta.count = marker.new => Appended

\* What each step may rely on.
StepInv ==
  /\ pc # "idle" => op \in Operations
  /\ pc \in {"check", "rebuild", "stage", "clearHistory", "clearTail",
             "clearMeta", "clearIndex", "saveMeta", "saveIndex"} =>
       marker = Absent
  /\ pc \in {"recoverDrop", "recoverTail", "recoverMeta", "recoverIndex",
             "recoverUnmark", "write", "tail", "meta", "index", "unmark"} =>
       marker # Absent
  /\ pc = "recoverDrop" => Complete(hist.recs, marker.old)
  /\ pc \in {"recoverTail", "recoverMeta", "recoverIndex", "recoverUnmark"} =>
       Complete(hist.recs, marker.new)
  /\ pc \in {"recoverIndex", "recoverUnmark", "index", "unmark"} =>
       meta.count = marker.new
  /\ pc \in {"stage", "write", "tail", "meta", "index", "unmark"} =>
       op.kind = "append"
  /\ pc \in {"write", "tail", "meta"} =>
       /\ meta.count = marker.old
       /\ marker.new = marker.old + Len(op.batch)
  /\ pc = "write" => EndsAt(marker.old)
  /\ pc = "tail" /\ Appended => Len(op.batch) <= Len(hist.recs)
  /\ pc = "meta" => Appended
  /\ pc \in {"clearHistory", "clearTail", "clearMeta", "clearIndex"} =>
       op.kind = "clear"
  /\ pc \in {"clearTail", "clearMeta", "clearIndex"} => hist.recs = << >>
  /\ pc \in {"saveMeta", "saveIndex"} => op.kind = "save"

IInv == TypeOK /\ NumberedInv /\ UnmarkedInv /\ MarkedInv /\ StepInv

\* Between operations a chat can be loaded, so used, cleared and deleted.
NeverLocked == pc = "idle" => Loads

\* So it can after resets and refusals at any effect, if none was left half
\* done: recoverPendingAppend and rebuildTailFile repair what they find.
WholeNeverLocked == faulted = {} => NeverLocked

\* An append that reported success leaves a chat that can be loaded.
AppendedChatLoads ==
  pc = "idle" /\ reported = "ok" /\ op.kind = "append" => Loads

\* The messages the metadata covers.
Covered ==
  {hist.recs[i] : i \in {j \in DOMAIN hist.recs : hist.recs[j].seq <= meta.count}}

\* A pending tool call is bound to the revision of the chat it was shown for.
\* The revision never goes back, and as long as it stays neither the count nor a
\* message it covers is changed, lost or replaced, whatever was interrupted; but
\* a clear empties the history first and counts later, so one that is cut keeps
\* the revision of messages that are gone.
RevisionBindsMessages ==
  [][/\ meta'.revision >= meta.revision
     /\ meta'.count # meta.count => meta'.revision > meta.revision
     /\ "cutClear" \notin faulted' /\ Covered' # Covered =>
          meta'.revision > meta.revision \/ (pc = "clearHistory" /\ pc' = "clearTail")]_vars
=============================================================================
