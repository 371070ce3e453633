------------------------- MODULE ChatHistoryProofs -------------------------
(* Proofs about ChatHistory, for any messages, limits, faults and number of  *)
(* interruptions.                                                            *)
EXTENDS ChatHistory, SequenceTheorems, TLAPS

-----------------------------------------------------------------------------
(* Sequences of records *)

\* Numbered gives consecutive records after number n.
LEMMA NumberedPrefix ==
  ASSUME NEW n \in Nat, NEW batch \in Seq(Message), NEW k \in 0..Len(batch)
  PROVE  LET added == Numbered(n, SubSeq(batch, 1, k)) IN
           /\ added \in Seq(Record)
           /\ Len(added) = k
           /\ \A i \in 1..k : added[i] = [seq |-> n + i, msg |-> batch[i]]
<1> DEFINE part == SubSeq(batch, 1, k)
           added == Numbered(n, part)
<1>1. part \in Seq(Message) /\ Len(part) = k
      /\ \A i \in 1..k : part[i] = batch[i]
  OBVIOUS
<1>2. added = [i \in 1..k |-> [seq |-> n + i, msg |-> part[i]]]
  BY <1>1 DEF Numbered
<1>3. \A i \in 1..k : [seq |-> n + i, msg |-> part[i]] \in Record
  BY <1>1 DEF Record
<1>4. added \in [1..k -> Record] /\ DOMAIN added = 1..k
  BY <1>2, <1>3
<1>5. added \in Seq(Record)
  BY <1>4, SeqDef
<1>6. Len(added) = k
  BY <1>4, <1>5, LenProperties
<1> QED BY <1>1, <1>2, <1>5, <1>6

\* Appending the next records keeps the numbering and the old records, and
\* ends at the number of the last one.
LEMMA AppendKeepsNumbers ==
  ASSUME NEW recs \in Seq(Record), Consecutive(recs),
         NEW n \in Nat, recs = << >> \/ LastSeq(recs) = n,
         NEW batch \in Seq(Message), NEW k \in 0..Len(batch)
  PROVE  LET longer == recs \o Numbered(n, SubSeq(batch, 1, k)) IN
           /\ longer \in Seq(Record)
           /\ Len(longer) = Len(recs) + k
           /\ \A i \in 1..Len(recs) : longer[i] = recs[i]
           /\ \A i \in 1..k :
                longer[Len(recs) + i] = [seq |-> n + i, msg |-> batch[i]]
           /\ Consecutive(longer)
           /\ longer # << >> => LastSeq(longer) = n + k
<1> DEFINE added == Numbered(n, SubSeq(batch, 1, k))
           longer == recs \o added
<1>1. /\ added \in Seq(Record) /\ Len(added) = k
      /\ \A i \in 1..k : added[i] = [seq |-> n + i, msg |-> batch[i]]
  BY NumberedPrefix
<1> HIDE DEF added
<1>2. /\ longer \in Seq(Record) /\ Len(longer) = Len(recs) + k
      /\ \A i \in 1..Len(recs) + k :
           longer[i] = IF i <= Len(recs) THEN recs[i] ELSE added[i - Len(recs)]
  BY <1>1, ConcatProperties
<1> HIDE DEF longer
<1>a. Len(recs) \in Nat /\ (Len(recs) > 0 <=> recs # << >>)
      /\ \A i \in 1..Len(recs) : recs[i].seq \in Nat
  <2>1. Len(recs) \in Nat
    BY LenProperties
  <2>2. Len(recs) > 0 <=> recs # << >>
    BY EmptySeq
  <2>3. ASSUME NEW i \in 1..Len(recs)
        PROVE  recs[i].seq \in Nat
    <3>1. recs[i] \in Record
      BY ElementOfSeq
    <3> QED BY <3>1 DEF Record
  <2> QED BY <2>1, <2>2, <2>3
<1>b. PICK m \in Nat : m = Len(recs)
  BY <1>a
<1>3. \A i \in 1..Len(recs) : longer[i] = recs[i]
  BY <1>2
<1>4. \A i \in 1..k : longer[m + i] = [seq |-> n + i, msg |-> batch[i]]
  <2> TAKE i \in 1..k
  <2>1. m + i \in 1..m + k /\ ~(m + i <= m) /\ m + i - m = i
    OBVIOUS
  <2>2. longer[m + i] = added[i]
    BY <2>1, <1>2, <1>b, SMTT(30)
  <2> QED BY <2>2, <1>1
<1>5. \A i \in 1..m + k : longer[i].seq = n + i - m /\ longer[i].seq > 0
  <2> TAKE i \in 1..m + k
  <2>1. CASE i <= m
    <3>1. i \in 1..m /\ m \in 1..m /\ 1 \in 1..m
      BY <2>1
    <3>2. PICK f \in Nat : f = recs[1].seq
      BY <3>1, <1>a, <1>b
    <3>3. recs[i].seq > 0 /\ recs[i].seq = f + i - 1
      BY <3>1, <3>2, <1>b DEF Consecutive
    <3>4. recs[m].seq = f + m - 1 /\ recs[m].seq = n
      BY <3>1, <3>2, <1>a, <1>b DEF Consecutive, LastSeq
    <3>5. f + i - 1 = n + i - m
      BY <3>4
    <3> QED BY <3>1, <3>3, <3>5, <1>3, <1>b
  <2>2. CASE i > m
    <3>1. i - m \in 1..k /\ m + (i - m) = i
      BY <2>2
    <3>2. PICK j \in 1..k : i = m + j
      BY <3>1
    <3>3. longer[m + j].seq = n + j
      <4>1. longer[m + j] = [seq |-> n + j, msg |-> batch[j]]
        BY <1>4
      <4>2. [seq |-> n + j, msg |-> batch[j]].seq = n + j
        OBVIOUS
      <4> QED BY <4>1, <4>2
    <3>4. n + j = n + i - m /\ n + j > 0
      BY <3>2
    <3> QED BY <3>2, <3>3, <3>4
  <2> QED BY <2>1, <2>2
<1>6. Consecutive(longer)
  <2> SUFFICES ASSUME NEW i \in 1..m + k
               PROVE  longer[i].seq > 0 /\ longer[i].seq = longer[1].seq + i - 1
    BY <1>2, <1>b DEF Consecutive
  <2>1. longer[1].seq = n + 1 - m
    BY <1>5
  <2>2. longer[i].seq = n + i - m /\ longer[i].seq > 0
    BY <1>5
  <2> QED BY <2>1, <2>2
<1>7. longer # << >> => LastSeq(longer) = n + k
  <2> HAVE longer # << >>
  <2>1. m + k \in 1..m + k /\ Len(longer) = m + k
    BY <1>2, <1>b, EmptySeq
  <2>2. longer[m + k].seq = n + (m + k) - m
    BY <1>5, <2>1
  <2> QED BY <2>1, <2>2 DEF LastSeq
<1>8. \A i \in 1..k :
        longer[Len(recs) + i] = [seq |-> n + i, msg |-> batch[i]]
  BY <1>4, <1>b
<1> QED BY <1>2, <1>3, <1>6, <1>7, <1>8 DEF longer, added

\* A window of records is made of records.
LEMMA WindowType ==
  ASSUME NEW recs \in Seq(Record)
  PROVE  Window(recs) \in Seq(Record)
BY LimitAssumption DEF Window

-----------------------------------------------------------------------------
(* Operations and the effects *)

\* The operations by kind: only an append has messages.
LEMMA OperationTypes ==
  ASSUME NEW o \in Operations
  PROVE  /\ o.kind \in {"append", "clear", "load", "draft", "page", "save"}
         /\ o.batch \in Seq(Message)
         /\ o.kind = "append" => Len(o.batch) \in Nat \ {0}
         /\ o.kind # "append" => o.batch = << >>
<1>1. CASE o \in [kind : {"append"}, batch : Batches]
  <2>1. PICK n \in 1..MaxBatch : o.batch \in [1..n -> Message]
    BY <1>1 DEF Batches
  <2>2. n \in Nat \ {0}
    BY <2>1, LimitAssumption
  <2>3. o.batch \in Seq(Message)
    BY <2>1, <2>2, SeqDef
  <2>4. Len(o.batch) = n
    BY <2>1, <2>2, <2>3, LenProperties
  <2> QED BY <1>1, <2>2, <2>3, <2>4
<1>2. CASE o \in [kind : {"clear", "load", "draft", "page", "save"},
                  batch : {<< >>}]
  BY <1>2, EmptySeq
<1> QED BY <1>1, <1>2 DEF Operations

\* The table of the following steps, value by value.
LEMMA FollowingValues ==
  /\ Following["recoverDrop"] = "check" /\ Following["recoverTail"] = "recoverMeta"
  /\ Following["recoverMeta"] = "recoverIndex"
  /\ Following["recoverIndex"] = "recoverUnmark"
  /\ Following["recoverUnmark"] = "check" /\ Following["rebuild"] = "check"
  /\ Following["stage"] = "write" /\ Following["write"] = "tail"
  /\ Following["tail"] = "meta" /\ Following["meta"] = "index"
  /\ Following["index"] = "unmark" /\ Following["unmark"] = "idle"
  /\ Following["clearHistory"] = "clearTail" /\ Following["clearTail"] = "clearMeta"
  /\ Following["clearMeta"] = "clearIndex" /\ Following["clearIndex"] = "idle"
  /\ Following["saveMeta"] = "saveIndex" /\ Following["saveIndex"] = "idle"
BY DEF Following, EffectSteps

\* h is the history with the first k records of the append behind it.
Extends(h, k) ==
  /\ h \in LineFile /\ Consecutive(h.recs)
  /\ Len(h.recs) = Len(hist.recs) + k
  /\ \A i \in 1..Len(hist.recs) : h.recs[i] = hist.recs[i]
  /\ \A i \in 1..k : h.recs[Len(hist.recs) + i]
                       = [seq |-> meta.count + i, msg |-> op.batch[i]]
  /\ h.recs # << >> => LastSeq(h.recs) = meta.count + k

\* What writing leaves, whole or in part, extends the history.
LEMMA WriteExtends ==
  ASSUME IInv, pc = "write"
  PROVE  /\ Extends(NewHistory, Len(op.batch))
         /\ \A h \in PartHistory : \E k \in 0..Len(op.batch) : Extends(h, k)
<1>1. /\ hist \in LineFile /\ Consecutive(hist.recs) /\ EndsAt(meta.count)
      /\ meta.count \in Nat /\ op \in Operations /\ op.kind = "append"
  BY DEF IInv, TypeOK, NumberedInv, StepInv, Summary
<1>2. op.batch \in Seq(Message) /\ Len(op.batch) \in Nat
  BY <1>1, OperationTypes
<1>3. hist.recs \in Seq(Record) /\ hist.joined \in BOOLEAN
      /\ hist.end \in {"line", "open", "torn"}
  BY <1>1 DEF LineFile
<1>4. ASSUME NEW k \in 0..Len(op.batch), NEW end \in {"line", "open", "torn"}
      PROVE  Extends(Extended(k, end), k)
  <2> DEFINE longer == hist.recs \o Numbered(meta.count, SubSeq(op.batch, 1, k))
  <2>1. /\ longer \in Seq(Record)
        /\ Len(longer) = Len(hist.recs) + k
        /\ \A i \in 1..Len(hist.recs) : longer[i] = hist.recs[i]
        /\ \A i \in 1..k : longer[Len(hist.recs) + i]
                             = [seq |-> meta.count + i, msg |-> op.batch[i]]
        /\ Consecutive(longer)
        /\ longer # << >> => LastSeq(longer) = meta.count + k
    BY <1>1, <1>2, <1>3, AppendKeepsNumbers, ZenonT(60) DEF EndsAt
  <2> HIDE DEF longer
  <2>2. Extended(k, end).recs = longer
    BY DEF Extended, longer
  <2>3. Extended(k, end) \in LineFile
    <3>1. (hist.joined \/ hist.end = "open") \in BOOLEAN
      BY <1>3
    <3> QED BY <2>1, <3>1, <1>3 DEF Extended, LineFile, longer
  <2> QED BY <2>1, <2>2, <2>3 DEF Extends
<1>5. Extends(NewHistory, Len(op.batch))
  BY <1>2, <1>4 DEF NewHistory
<1>6. ASSUME NEW h \in PartHistory
      PROVE  \E k \in 0..Len(op.batch) : Extends(h, k)
  <2>1. CASE h = hist
    <3>1. hist.recs # << >> => LastSeq(hist.recs) = meta.count
      BY <1>1 DEF EndsAt
    <3>2. Extends(hist, 0)
      BY <1>1, <1>3, <3>1 DEF Extends
    <3> QED BY <2>1, <3>2, <1>2
  <2>2. CASE \E k \in 0..Len(op.batch) - 1 : h = Extended(k, "torn")
    BY <2>2, <1>2, <1>4
  <2>3. CASE \E k \in 1..Len(op.batch), e \in {"line", "open"} : h = Extended(k, e)
    BY <2>3, <1>2, <1>4
  <2> QED BY <2>1, <2>2, <2>3 DEF PartHistory
<1> QED BY <1>5, <1>6

\* The tail an effect stores is a line file, and so is a cut one.
LEMMA TailTypes ==
  ASSUME IInv, pc \in TailSteps, pc = "tail" => AppendedReadBack
  PROVE  NewTail \in LineFile /\ ShortTail \subseteq LineFile
<1>1. /\ hist.recs \in Seq(Record) /\ tail.recs \in Seq(Record)
      /\ hist.end \in {"line", "open", "torn"} /\ tail \in LineFile
  BY DEF IInv, TypeOK, LineFile
<1>2. NewTail \in LineFile
  <2>1. CASE pc \in {"recoverTail", "rebuild"}
    BY <2>1, <1>1, WindowType DEF NewTail, LineFile
  <2>2. CASE pc = "tail"
    <3> DEFINE n == Len(hist.recs)
               appended == SubSeq(hist.recs, n - Len(op.batch) + 1, n)
               kept == Window(tail.recs \o appended)
    <3>1. op \in Operations /\ op.kind = "append"
      BY <2>2 DEF IInv, StepInv
    <3>2. n \in Nat /\ Len(op.batch) \in Nat /\ Len(op.batch) <= n
      BY <2>2, <3>1, <1>1, OperationTypes, LenProperties
         DEF IInv, StepInv, MarkedInv, TypeOK, AppendedReadBack, Appended
    <3>3. \A i \in n - Len(op.batch) + 1..n : hist.recs[i] \in Record
      <4> SUFFICES ASSUME NEW i \in n - Len(op.batch) + 1..n
                   PROVE  i \in 1..Len(hist.recs)
        BY <1>1, ElementOfSeq
      <4> QED BY <3>2
    <3>4. appended \in Seq(Record)
      BY <3>2, <3>3, SubSeqProperties
    <3>5. kept \in Seq(Record)
      BY <3>4, <1>1, WindowType, ConcatProperties
    <3> HIDE DEF n, appended, kept
    <3>6. (Len(kept) > Len(appended) /\ tail.end = "open") \in BOOLEAN
      OBVIOUS
    <3>7. TailAfterAppend \in LineFile
      BY <3>5, <3>6, <1>1 DEF TailAfterAppend, LineFile, n, appended, kept
    <3> QED BY <2>2, <3>7 DEF NewTail
  <2>3. CASE pc = "clearTail"
    BY <2>3, EmptySeq DEF NewTail, Empty, LineFile
  <2> QED BY <2>1, <2>2, <2>3 DEF TailSteps
<1>3. ShortTail \subseteq LineFile
  <2>1. NewTail.recs \in Seq(Record)
    BY <1>2 DEF LineFile
  <2>2. SubSeq(NewTail.recs, 1, Len(NewTail.recs) - 1) \in Seq(Record)
    <3>1. \A i \in 1..Len(NewTail.recs) - 1 : NewTail.recs[i] \in Record
      BY <2>1, ElementOfSeq, LenProperties
    <3> QED BY <2>1, <3>1, LenProperties, SubSeqProperties
  <2> QED BY <1>2, <2>2 DEF ShortTail, LineFile
<1> QED BY <1>2, <1>3

-----------------------------------------------------------------------------
(* The invariant *)

\* A new chat satisfies the invariant.
LEMMA InitIInv == Init => IInv
<1> SUFFICES ASSUME Init PROVE IInv
  OBVIOUS
<1>1. Empty \in LineFile /\ Len(Empty.recs) = 0
  BY EmptySeq DEF Empty, LineFile
<1>2. TypeOK
  BY <1>1, BoundAssumption DEF Init, TypeOK, Summary
<1>3. NumberedInv /\ UnmarkedInv /\ MarkedInv /\ StepInv
  BY <1>1 DEF Init, NumberedInv, Consecutive, UnmarkedInv, EndsAt, MarkedInv,
     StepInv, Empty
<1> QED BY <1>2, <1>3 DEF IInv

\* An operation begins.
LEMMA StartIInv ==
  ASSUME IInv, NEW o \in Operations, Start(o)
  PROVE  IInv'
<1>1. TypeOK'
  BY DEF IInv, TypeOK, Start, disk
<1>2. NumberedInv' /\ UnmarkedInv' /\ MarkedInv'
  BY DEF IInv, Start, disk, NumberedInv, UnmarkedInv, MarkedInv, EndsAt,
     Appended
<1>3. StepInv'
  BY DEF IInv, Start, disk, StepInv
<1> QED BY <1>1, <1>2, <1>3 DEF IInv

\* recoverPendingAppend decides.
LEMMA RecoverIInv ==
  ASSUME IInv, Recover
  PROVE  IInv'
<1>1. TypeOK'
  BY DEF IInv, TypeOK, Recover, Goto, Return, disk, EffectSteps
<1>2. NumberedInv' /\ UnmarkedInv' /\ MarkedInv'
  BY DEF IInv, Recover, Goto, Return, disk, NumberedInv, UnmarkedInv,
     MarkedInv, EndsAt, Appended
<1>3. StepInv'
  BY DEF IInv, Recover, Goto, Return, disk, StepInv, Uncommitted, Committed,
     Complete, Appended, EndsAt
<1> QED BY <1>1, <1>2, <1>3 DEF IInv

\* The tail is compared, the operation decides.
LEMMA CheckIInv ==
  ASSUME IInv, Check
  PROVE  IInv'
<1>1. TypeOK'
  BY DEF IInv, TypeOK, Check, Preflight, Goto, Return, disk, EffectSteps
<1>2. NumberedInv' /\ UnmarkedInv' /\ MarkedInv'
  BY DEF IInv, Check, Preflight, Goto, Return, disk, NumberedInv, UnmarkedInv,
     MarkedInv, EndsAt, Appended
<1>3. StepInv'
  BY DEF IInv, Check, Preflight, Goto, Return, disk, StepInv, Complete, Appended, EndsAt
<1> QED BY <1>1, <1>2, <1>3 DEF IInv

\* The history is written or cleared.
LEMMA StoreHistoryIInv ==
  ASSUME IInv, StoreHistory
  PROVE  IInv'
<1>1. CASE pc = "write"
  <2>1. Extends(NewHistory, Len(op.batch))
    BY <1>1, WriteExtends
  <2>2. /\ hist' = NewHistory /\ pc' = "tail"
        /\ UNCHANGED <<tail, meta, index, marker, op, reported, disturbances, faulted>>
    BY <1>1, FollowingValues DEF StoreHistory, Proceed, Goto
  <2>3. /\ op \in Operations /\ op.kind = "append" /\ meta.count = marker.old
        /\ marker.new = marker.old + Len(op.batch) /\ marker # Absent
        /\ marker \in [old : Nat, new : Nat]
    BY <1>1 DEF IInv, StepInv, TypeOK
  <2>4. /\ Len(op.batch) \in Nat \ {0} /\ meta.count \in Nat
        /\ Len(hist.recs) \in Nat
    BY <2>3, OperationTypes, LenProperties DEF IInv, TypeOK, Summary, LineFile
  <2>5. TypeOK'
    BY <2>1, <2>2 DEF IInv, TypeOK, Extends, EffectSteps
  <2>6. NumberedInv'
    BY <2>1, <2>2 DEF Extends, NumberedInv
  <2>7. UnmarkedInv' /\ MarkedInv'
    BY <2>1, <2>2, <2>3, <2>4 DEF Extends, UnmarkedInv, MarkedInv
  <2>8. StepInv'
    <3>1. Len(op.batch) <= Len(NewHistory.recs)
      <4>1. Len(NewHistory.recs) = Len(hist.recs) + Len(op.batch)
        BY <2>1 DEF Extends
      <4>2. \A m, n \in Nat : n <= m + n
        OBVIOUS
      <4> QED BY <2>4, <4>1, <4>2
    <3> QED BY <2>2, <2>3, <3>1 DEF StepInv
  <2> QED BY <2>5, <2>6, <2>7, <2>8 DEF IInv
<1>2. CASE pc = "clearHistory"
  <2>1. /\ hist' = Empty /\ pc' = "clearTail"
        /\ UNCHANGED <<tail, meta, index, marker, op, reported, disturbances, faulted>>
    BY <1>2, FollowingValues DEF StoreHistory, Proceed, Goto, NewHistory
  <2>2. Empty \in LineFile /\ Empty.recs = << >> /\ Len(Empty.recs) = 0
    BY EmptySeq DEF Empty, LineFile
  <2>3. marker = Absent /\ op \in Operations /\ op.kind = "clear"
    BY <1>2 DEF IInv, StepInv
  <2>4. TypeOK'
    BY <2>1, <2>2 DEF IInv, TypeOK, EffectSteps
  <2>5. NumberedInv' /\ UnmarkedInv' /\ MarkedInv'
    BY <2>1, <2>2, <2>3
       DEF NumberedInv, Consecutive, UnmarkedInv, EndsAt, MarkedInv
  <2>6. StepInv'
    BY <2>1, <2>2, <2>3 DEF StepInv
  <2> QED BY <2>4, <2>5, <2>6 DEF IInv
<1> QED BY <1>1, <1>2 DEF StoreHistory, HistorySteps

\* The tail is written.
LEMMA StoreTailIInv ==
  ASSUME IInv, StoreTail
  PROVE  IInv'
<1>1. /\ hist' = hist /\ UNCHANGED <<meta, index, marker, op, disturbances, faulted>>
      /\ pc \in TailSteps /\ pc' = Following[pc] /\ reported' = reported
  BY FollowingValues DEF StoreTail, Proceed, Goto, TailSteps
<1>2. tail' \in LineFile
  BY TailTypes DEF StoreTail
<1>3. pc' \in {"recoverMeta", "check", "meta", "clearMeta"}
  BY <1>1, FollowingValues DEF TailSteps
<1>4. TypeOK'
  BY <1>1, <1>2, <1>3 DEF IInv, TypeOK, EffectSteps
<1>5. NumberedInv' /\ UnmarkedInv' /\ MarkedInv'
  BY <1>1 DEF IInv, NumberedInv, UnmarkedInv, MarkedInv, EndsAt, Appended
<1>6. pc = "tail" => Appended
  BY DEF IInv, StepInv, MarkedInv, TypeOK, StoreTail, AppendedReadBack, Appended
<1>7. StepInv'
  BY <1>1, <1>6, FollowingValues
     DEF IInv, StepInv, TailSteps, Complete, Appended, EndsAt
<1> QED BY <1>4, <1>5, <1>7 DEF IInv

\* The appended records do not read back.
LEMMA AppendRejectedIInv ==
  ASSUME IInv, AppendRejected
  PROVE  IInv'
BY DEF IInv, TypeOK, NumberedInv, UnmarkedInv, MarkedInv, StepInv, EndsAt,
   Appended, AppendRejected, Return, disk

\* The metadata are written.
LEMMA StoreMetaIInv ==
  ASSUME IInv, StoreMeta
  PROVE  IInv'
<1>1. /\ UNCHANGED <<hist, tail, index, marker, op, disturbances, faulted, reported>>
      /\ pc \in MetaSteps /\ pc' = Following[pc] /\ meta' = NewMeta
  BY FollowingValues DEF StoreMeta, Proceed, Goto, MetaSteps
<1>2. pc' \in {"recoverIndex", "index", "clearIndex", "saveIndex"}
  BY <1>1, FollowingValues DEF MetaSteps
<1>3. /\ op \in Operations /\ Len(op.batch) \in Nat /\ meta \in Summary
      /\ marker = Absent \/ marker \in [old : Nat, new : Nat]
  <2>1. op \in Operations
    BY <1>1 DEF IInv, StepInv, MetaSteps
  <2> QED BY <2>1, OperationTypes, LenProperties DEF IInv, TypeOK
<1>4. CASE pc = "recoverMeta"
  <2>1. /\ pc' = "recoverIndex" /\ meta' = [count |-> marker.new,
                                            revision |-> meta.revision + 1]
        /\ marker # Absent /\ Complete(hist.recs, marker.new)
    BY <1>1, <1>4, FollowingValues DEF NewMeta, IInv, StepInv
  <2>2. TypeOK'
    BY <1>1, <1>3, <2>1 DEF IInv, TypeOK, EffectSteps, Summary
  <2>3. NumberedInv' /\ UnmarkedInv' /\ MarkedInv'
    BY <1>1, <1>3, <2>1, EmptySeq
       DEF IInv, NumberedInv, UnmarkedInv, MarkedInv, EndsAt, Appended, Complete
  <2>4. StepInv'
    BY <1>1, <1>3, <2>1 DEF StepInv, Complete
  <2> QED BY <2>2, <2>3, <2>4 DEF IInv
<1>5. CASE pc = "meta"
  <2>1. /\ pc' = "index" /\ meta' = [count |-> meta.count + Len(op.batch),
                                     revision |-> meta.revision + 1]
        /\ marker # Absent /\ op.kind = "append" /\ Appended
        /\ meta.count + Len(op.batch) = marker.new
    BY <1>1, <1>5, FollowingValues DEF NewMeta, IInv, StepInv
  <2>2. TypeOK'
    BY <1>1, <1>3, <2>1 DEF IInv, TypeOK, EffectSteps, Summary
  <2>3. NumberedInv' /\ UnmarkedInv' /\ MarkedInv'
    BY <1>1, <1>3, <2>1
       DEF IInv, NumberedInv, UnmarkedInv, MarkedInv, EndsAt, Appended
  <2>4. StepInv'
    BY <1>1, <1>3, <2>1 DEF StepInv
  <2> QED BY <2>2, <2>3, <2>4 DEF IInv
<1>6. CASE pc = "clearMeta"
  <2>1. /\ pc' = "clearIndex" /\ meta' = [count |-> 0,
                                          revision |-> meta.revision + 1]
        /\ marker = Absent /\ op.kind = "clear" /\ hist.recs = << >>
    BY <1>1, <1>6, FollowingValues DEF NewMeta, IInv, StepInv
  <2>2. TypeOK'
    BY <1>1, <1>3, <2>1 DEF IInv, TypeOK, EffectSteps, Summary
  <2>3. NumberedInv' /\ UnmarkedInv' /\ MarkedInv'
    BY <1>1, <2>1 DEF IInv, NumberedInv, UnmarkedInv, MarkedInv, EndsAt
  <2>4. StepInv'
    BY <1>1, <1>3, <2>1 DEF StepInv
  <2> QED BY <2>2, <2>3, <2>4 DEF IInv
<1>7. CASE pc = "saveMeta"
  <2>1. /\ pc' = "saveIndex" /\ meta' = [count |-> meta.count,
                                         revision |-> meta.revision + 1]
        /\ marker = Absent /\ op.kind = "save"
    BY <1>1, <1>7, FollowingValues DEF NewMeta, IInv, StepInv
  <2>2. TypeOK'
    BY <1>1, <1>3, <2>1 DEF IInv, TypeOK, EffectSteps, Summary
  <2>3. NumberedInv' /\ UnmarkedInv' /\ MarkedInv'
    BY <1>1, <2>1 DEF IInv, NumberedInv, UnmarkedInv, MarkedInv, EndsAt
  <2>4. StepInv'
    BY <1>1, <1>3, <2>1 DEF StepInv
  <2> QED BY <2>2, <2>3, <2>4 DEF IInv
<1> QED BY <1>1, <1>4, <1>5, <1>6, <1>7 DEF MetaSteps

\* The line of the chat in the index is written.
LEMMA StoreIndexIInv ==
  ASSUME IInv, StoreIndex
  PROVE  IInv'
<1>1. /\ UNCHANGED <<hist, tail, meta, marker, op, disturbances, faulted>>
      /\ index' = meta /\ pc \in IndexSteps
      /\ reported' \in {"none", "ok", "error"}
      /\ \/ pc = "recoverIndex" /\ pc' = "recoverUnmark"
         \/ pc = "index" /\ pc' = "unmark"
         \/ pc' = "idle"
  BY FollowingValues
     DEF IInv, TypeOK, StoreIndex, Proceed, Goto, Return, IndexSteps
<1>2. TypeOK'
  BY <1>1 DEF IInv, TypeOK, EffectSteps
<1>3. NumberedInv' /\ UnmarkedInv' /\ MarkedInv'
  BY <1>1 DEF IInv, NumberedInv, UnmarkedInv, MarkedInv, EndsAt, Appended
<1>4. StepInv'
  BY <1>1 DEF IInv, StepInv, Complete
<1> QED BY <1>2, <1>3, <1>4 DEF IInv

\* What a marker step leaves, done or not, keeps the invariant's view of the
\* history.
LEMMA MarkerTypes ==
  ASSUME IInv, pc \in MarkerSteps
  PROVE  /\ NewMarker = Absent \/ NewMarker \in [old : Nat, new : Nat]
         /\ pc # "stage" => NewMarker = Absent /\ EndsAt(meta.count)
         /\ pc = "stage" =>
              /\ NewMarker = [old |-> meta.count,
                              new |-> meta.count + Len(op.batch)]
              /\ NewMarker # Absent /\ EndsAt(meta.count)
              /\ Len(op.batch) \in Nat \ {0} /\ meta.count \in Nat
<1>1. op \in Operations /\ meta.count \in Nat /\ Len(hist.recs) \in Nat
  BY LenProperties
     DEF IInv, TypeOK, StepInv, MarkerSteps, Summary, LineFile
<1>2. CASE pc = "stage"
  <2>1. Len(op.batch) \in Nat \ {0} /\ marker = Absent
    BY <1>1, <1>2, OperationTypes DEF IInv, StepInv
  <2>2. NewMarker = [old |-> meta.count, new |-> meta.count + Len(op.batch)]
    BY <1>2 DEF NewMarker
  <2>3. NewMarker \in [old : Nat, new : Nat]
    BY <1>1, <2>1, <2>2
  <2> QED BY <1>1, <1>2, <2>1, <2>2, <2>3, AbsentAssumption
          DEF IInv, UnmarkedInv
<1>3. CASE pc # "stage"
  <2>1. NewMarker = Absent
    BY <1>3 DEF NewMarker
  <2>2. EndsAt(meta.count)
    BY <1>1, <1>3
       DEF IInv, TypeOK, StepInv, MarkedInv, MarkerSteps, EndsAt, Complete, Appended
  <2> QED BY <1>3, <2>1, <2>2
<1> QED BY <1>2, <1>3

\* The marker is written or removed.
LEMMA StoreMarkerIInv ==
  ASSUME IInv, StoreMarker
  PROVE  IInv'
<1>1. /\ UNCHANGED <<hist, tail, meta, index, op, disturbances, faulted>>
      /\ marker' = NewMarker /\ pc \in MarkerSteps
      /\ reported' \in {"none", "ok", "error"}
      /\ \/ pc \in {"recoverDrop", "recoverUnmark"} /\ pc' = "check"
         \/ pc = "stage" /\ pc' = "write"
         \/ pc = "unmark" /\ pc' = "idle"
  BY FollowingValues
     DEF IInv, TypeOK, StoreMarker, Proceed, Goto, Return, MarkerSteps
<1>2. TypeOK'
  BY <1>1, MarkerTypes DEF IInv, TypeOK, EffectSteps
<1>3. NumberedInv' /\ UnmarkedInv'
  BY <1>1, MarkerTypes DEF IInv, NumberedInv, UnmarkedInv, EndsAt
<1>4. MarkedInv'
  BY <1>1, MarkerTypes DEF IInv, MarkedInv, EndsAt, Appended
<1>5. StepInv'
  BY <1>1, MarkerTypes DEF IInv, StepInv, EndsAt
<1> QED BY <1>2, <1>3, <1>4, <1>5 DEF IInv

\* A flushed file is short.
LEMMA FlushShortIInv ==
  ASSUME IInv, FlushShort
  PROVE  IInv'
<1>0. /\ UNCHANGED <<meta, index, marker, op, reported>> /\ pc' = Following[pc]
      /\ disturbances' \in 0..MaxDisturbances /\ faulted' \subseteq Faults
  BY BoundAssumption DEF FlushShort, Disturbed, IInv, TypeOK
<1>1. CASE pc = "write" /\ hist' \in PartHistory /\ UNCHANGED tail
  <2>1. PICK k \in 0..Len(op.batch) : Extends(hist', k)
    BY <1>1, WriteExtends
  <2>2. pc' = "tail"
    BY <1>0, <1>1, FollowingValues
  <2>3. /\ op \in Operations /\ op.kind = "append" /\ meta.count = marker.old
        /\ marker.new = marker.old + Len(op.batch) /\ marker # Absent
        /\ marker \in [old : Nat, new : Nat]
    BY <1>1 DEF IInv, StepInv, TypeOK
  <2>4. /\ Len(op.batch) \in Nat \ {0} /\ meta.count \in Nat
        /\ Len(hist.recs) \in Nat
    BY <2>3, OperationTypes, LenProperties DEF IInv, TypeOK, Summary, LineFile
  <2>5. TypeOK'
    BY <1>0, <1>1, <2>1, <2>2 DEF IInv, TypeOK, Extends, EffectSteps
  <2>6. NumberedInv'
    BY <2>1 DEF Extends, NumberedInv
  <2>7. UnmarkedInv' /\ MarkedInv'
    BY <1>0, <2>1, <2>3, <2>4 DEF Extends, UnmarkedInv, MarkedInv, Appended
  <2>8. Appended' => Len(op.batch) <= Len(hist'.recs)
    <3>1. Appended' => k = Len(op.batch)
      BY <1>0, <2>1, <2>3, <2>4 DEF Extends, Appended
    <3>2. Len(hist'.recs) = Len(hist.recs) + k
      BY <2>1 DEF Extends
    <3>3. \A m, n \in Nat : n <= m + n
      OBVIOUS
    <3> QED BY <2>4, <3>1, <3>2, <3>3
  <2>9. StepInv'
    BY <1>0, <2>2, <2>3, <2>8 DEF StepInv
  <2> QED BY <2>5, <2>6, <2>7, <2>9 DEF IInv
<1>2. CASE /\ pc \in TailSteps \ {"clearTail"} /\ (pc = "tail" => AppendedReadBack)
           /\ tail' \in ShortTail /\ UNCHANGED hist
  <2>1. tail' \in LineFile
    BY <1>2, TailTypes
  <2>2. pc' \in {"recoverMeta", "check", "meta"}
    BY <1>0, <1>2, FollowingValues DEF TailSteps
  <2>3. TypeOK'
    BY <1>0, <1>2, <2>1, <2>2 DEF IInv, TypeOK, EffectSteps
  <2>4. NumberedInv' /\ UnmarkedInv' /\ MarkedInv'
    BY <1>0, <1>2
       DEF IInv, NumberedInv, UnmarkedInv, MarkedInv, EndsAt, Appended
  <2>5. pc = "tail" => Appended
    BY <1>2 DEF IInv, StepInv, MarkedInv, TypeOK, AppendedReadBack, Appended
  <2>6. StepInv'
    BY <1>0, <1>2, <2>5, FollowingValues
       DEF IInv, StepInv, TailSteps, Complete, Appended, EndsAt
  <2> QED BY <2>3, <2>4, <2>6 DEF IInv
<1> QED BY <1>1, <1>2 DEF FlushShort

\* What is left half done is one of the faults.
LEMMA InterruptFaulted ==
  ASSUME IInv, Interrupt
  PROVE  faulted' \subseteq Faults
<1>1. faulted \subseteq Faults
  BY DEF IInv, TypeOK
<1>2. CASE IsWhole
  BY <1>1, <1>2 DEF Interrupt
<1>3. CASE pc = "write" /\ ~IsWhole
  <2>1. hist' \in InterruptedHistory /\ hist' \notin {hist, NewHistory}
    BY <1>3 DEF Interrupt, IsWhole
  <2>2. "tornAppend" \in Faults
    BY <1>3, <2>1 DEF InterruptedHistory
  <2> QED BY <1>1, <1>3, <2>2 DEF Interrupt
<1>4. CASE pc # "write" /\ ~IsWhole
  <2>1. hist' \in InterruptedHistory
        /\ (pc \in {"clearTail", "clearMeta"} => "cutClear" \in Faults)
        /\ (pc \in {"clearTail", "clearMeta"} \/ hist' # hist)
    BY <1>4 DEF Interrupt, IsWhole
  <2>2. "cutClear" \in Faults
    BY <1>4, <2>1 DEF InterruptedHistory
  <2> QED BY <1>1, <1>4, <2>2 DEF Interrupt
<1> QED BY <1>2, <1>3, <1>4

\* A reset or a refusal at any effect.
LEMMA InterruptIInv ==
  ASSUME IInv, Interrupt
  PROVE  IInv'
<1>0. /\ pc' = "idle" /\ op' = op /\ pc # "idle"
      /\ reported' \in {"none", "ok", "error"}
      /\ disturbances' \in 0..MaxDisturbances /\ faulted' \subseteq Faults
  BY BoundAssumption, InterruptFaulted DEF Interrupt, Disturbed, IInv, TypeOK
<1>1. StepInv'
  BY <1>0 DEF StepInv
<1>2. tail' \in LineFile
  <2>1. CASE pc \in TailSteps /\ (pc = "tail" => AppendedReadBack)
    BY <2>1, TailTypes, ZenonT(60)
       DEF Interrupt, InterruptedTail, Uncertain, IInv, TypeOK, LineFile
  <2>2. CASE ~(pc \in TailSteps /\ (pc = "tail" => AppendedReadBack))
    BY <2>2 DEF Interrupt, InterruptedTail, IInv, TypeOK
  <2> QED BY <2>1, <2>2
<1>3. CASE pc = "write"
  <2>1. PICK k \in 0..Len(op.batch) : Extends(hist', k)
    <3>1. /\ hist' \in {hist, NewHistory} \cup PartHistory
          /\ Len(op.batch) \in Nat
      <4>1. op \in Operations
        BY <1>3 DEF IInv, StepInv
      <4> QED BY <1>3, <4>1, OperationTypes, LenProperties
              DEF Interrupt, InterruptedHistory
    <3>2. hist \in PartHistory
      BY DEF PartHistory
    <3> QED BY <1>3, <3>1, <3>2, WriteExtends
  <2>2. UNCHANGED <<meta, index, marker>>
    BY <1>3 DEF Interrupt, MetaSteps, IndexSteps, MarkerSteps
  <2>3. /\ op \in Operations /\ op.kind = "append" /\ meta.count = marker.old
        /\ marker.new = marker.old + Len(op.batch) /\ marker # Absent
        /\ marker \in [old : Nat, new : Nat]
    BY <1>3 DEF IInv, StepInv, TypeOK
  <2>4. Len(op.batch) \in Nat \ {0} /\ meta.count \in Nat
    BY <2>3, OperationTypes DEF IInv, TypeOK, Summary
  <2>5. TypeOK'
    BY <1>0, <1>2, <2>1, <2>2, <2>3 DEF IInv, TypeOK, Extends
  <2>6. NumberedInv'
    BY <2>1 DEF Extends, NumberedInv
  <2>7. UnmarkedInv' /\ MarkedInv'
    BY <2>1, <2>2, <2>3, <2>4 DEF Extends, UnmarkedInv, MarkedInv, Appended
  <2> QED BY <1>1, <2>5, <2>6, <2>7 DEF IInv
<1>4. CASE pc = "clearHistory"
  <2>1. /\ UNCHANGED <<meta, index, marker>> /\ marker = Absent
        /\ hist' \in {hist} \cup Uncertain(hist, Empty)
    BY <1>4 DEF IInv, StepInv, Interrupt, InterruptedHistory, MetaSteps,
       IndexSteps, MarkerSteps
  <2>2. /\ hist' \in LineFile
        /\ \/ hist'.recs = hist.recs
           \/ hist'.recs = << >> /\ Len(hist'.recs) = 0
    <3>1. Empty \in LineFile /\ Empty.recs = << >> /\ Len(Empty.recs) = 0
      BY EmptySeq DEF Empty, LineFile
    <3>2. hist \in LineFile
      BY DEF IInv, TypeOK
    <3>3. ASSUME NEW away \in BOOLEAN
          PROVE  /\ [hist EXCEPT !.away = away] \in LineFile
                 /\ [hist EXCEPT !.away = away].recs = hist.recs
      BY <3>2 DEF LineFile
    <3>4. \/ hist' = hist
          \/ hist' = Empty
          \/ \E away \in BOOLEAN : hist' = [hist EXCEPT !.away = away]
      BY <2>1 DEF Uncertain
    <3> QED BY <3>1, <3>2, <3>3, <3>4
  <2>3. TypeOK'
    BY <1>0, <1>2, <2>1, <2>2 DEF IInv, TypeOK
  <2>4. NumberedInv' /\ UnmarkedInv' /\ MarkedInv'
    BY <2>1, <2>2 DEF IInv, NumberedInv, Consecutive, UnmarkedInv, EndsAt,
       MarkedInv
  <2> QED BY <1>1, <2>3, <2>4 DEF IInv
<1>5. CASE pc \in MarkerSteps
  <2>1. /\ UNCHANGED <<hist, meta, index>> /\ marker' \in {marker, NewMarker}
    BY <1>5 DEF Interrupt, InterruptedHistory, MetaSteps, IndexSteps, MarkerSteps
  <2>2. TypeOK'
    BY <1>0, <1>2, <1>5, <2>1, MarkerTypes DEF IInv, TypeOK
  <2>3. NumberedInv' /\ UnmarkedInv'
    BY <1>5, <2>1, MarkerTypes DEF IInv, NumberedInv, UnmarkedInv, EndsAt
  <2>4. MarkedInv'
    BY <1>5, <2>1, MarkerTypes DEF IInv, MarkedInv, EndsAt, Appended
  <2> QED BY <1>1, <2>2, <2>3, <2>4 DEF IInv
<1>6. CASE pc \in MetaSteps
  <2>1. /\ UNCHANGED <<hist, index, marker>> /\ meta' \in {meta, NewMeta}
    BY <1>6 DEF Interrupt, InterruptedHistory, MetaSteps, IndexSteps, MarkerSteps
  <2>2. /\ op \in Operations /\ Len(op.batch) \in Nat /\ meta \in Summary
        /\ marker = Absent \/ marker \in [old : Nat, new : Nat]
    <3>1. op \in Operations
      BY <1>6 DEF IInv, StepInv, MetaSteps
    <3> QED BY <3>1, OperationTypes, LenProperties DEF IInv, TypeOK
  <2>3. NewMeta \in Summary
    BY <1>6, <2>2
       DEF NewMeta, MetaSteps, Summary, IInv, StepInv
  <2>4. \/ meta'.count = meta.count
        \/ pc \in {"recoverMeta", "meta"} /\ meta'.count = marker.new
        \/ pc = "clearMeta" /\ meta'.count = 0
    BY <1>6, <2>1, <2>2
       DEF NewMeta, MetaSteps, IInv, StepInv
  <2>5. TypeOK'
    BY <1>0, <1>2, <2>1, <2>2, <2>3 DEF IInv, TypeOK
  <2>6. NumberedInv'
    BY <2>1 DEF IInv, NumberedInv
  <2>7. UnmarkedInv' /\ MarkedInv'
    BY <2>1, <2>2, <2>4, EmptySeq
       DEF IInv, StepInv, UnmarkedInv, MarkedInv, EndsAt, Appended, Complete
  <2> QED BY <1>1, <2>5, <2>6, <2>7 DEF IInv
<1>7. CASE pc \notin MarkerSteps \cup MetaSteps \cup {"write", "clearHistory"}
  <2>1. /\ UNCHANGED <<hist, meta, marker>> /\ index' \in {index, meta}
    BY <1>7 DEF Interrupt, InterruptedHistory
  <2>2. TypeOK'
    BY <1>0, <1>2, <2>1 DEF IInv, TypeOK
  <2>3. NumberedInv' /\ UnmarkedInv' /\ MarkedInv'
    BY <2>1 DEF IInv, NumberedInv, UnmarkedInv, MarkedInv, EndsAt, Appended
  <2> QED BY <1>1, <2>2, <2>3 DEF IInv
<1> QED BY <1>3, <1>4, <1>5, <1>6, <1>7

\* Every reachable state satisfies the invariant: the message numbers are
\* consecutive, and the metadata and the marker tell where the history ends
\* (or, with a marker, between which two numbers), whatever was interrupted.
THEOREM HistoryInvariant == Spec => []IInv
<1>1. Init => IInv
  BY InitIInv
<1>2. IInv /\ [Next]_vars => IInv'
  <2> SUFFICES ASSUME IInv, [Next]_vars PROVE IInv'
    OBVIOUS
  <2>1. CASE \E o \in Operations : Start(o)
    BY <2>1, StartIInv
  <2>2. CASE Recover
    BY <2>2, RecoverIInv
  <2>3. CASE Check
    BY <2>3, CheckIInv
  <2>4. CASE StoreHistory
    BY <2>4, StoreHistoryIInv
  <2>5. CASE StoreTail
    BY <2>5, StoreTailIInv
  <2>6. CASE AppendRejected
    BY <2>6, AppendRejectedIInv
  <2>7. CASE StoreMeta
    BY <2>7, StoreMetaIInv
  <2>8. CASE StoreIndex
    BY <2>8, StoreIndexIInv
  <2>9. CASE StoreMarker
    BY <2>9, StoreMarkerIInv
  <2>10. CASE FlushShort
    BY <2>10, FlushShortIInv
  <2>11. CASE Interrupt
    BY <2>11, InterruptIInv
  <2>12. CASE UNCHANGED vars
    BY <2>12 DEF vars, IInv, TypeOK, NumberedInv, UnmarkedInv, MarkedInv,
       StepInv, EndsAt, Appended
  <2> QED BY <2>1, <2>2, <2>3, <2>4, <2>5, <2>6, <2>7, <2>8, <2>9, <2>10,
             <2>11, <2>12 DEF Next
<1> QED BY <1>1, <1>2, PTL DEF Spec

-----------------------------------------------------------------------------
(* What is read: the history, the metadata and the tail agree as long as no *)
(* clear was cut.                                                           *)

Uncut == "cutClear" \notin faulted
Size == Len(hist.recs)

\* t is what retainTailRecord keeps of the first n records of r.
IsTail(r, t, n) ==
  /\ n \in 0..Len(r)
  /\ Len(t) = IF n <= TailLimit THEN n ELSE TailLimit
  /\ \A i \in 1..Len(t) : t[i] = r[n - Len(t) + i]

\* The history starts with message 1 and its size is known from the metadata
\* or, during an append, lies between the two numbers of the marker.
CountedInv == Uncut =>
  /\ hist.recs # << >> => hist.recs[1].seq = 1
  /\ marker = Absent /\ pc \notin {"clearTail", "clearMeta"} => meta.count = Size
  /\ marker # Absent => Size \in marker.old..marker.new

\* A tail that is not cut belongs to some earlier end of the history.
TailInv == Uncut =>
  (pc # "clearTail" /\ tail.end # "torn"
     => \E n \in 0..Size : IsTail(hist.recs, tail.recs, n))

\* An append goes on from a tail that was compared; the list is written last.
ReadyInv == Uncut =>
  /\ pc \in {"stage", "write", "tail"} => TailMatches
  /\ pc = "unmark" => index = meta

ReadInv == /\ CountedInv /\ TailInv /\ ReadyInv
           /\ ReadsAreConsistent /\ SuccessIsListed

\* Where the tail has caught up with the history: not between the write of an
\* append, or of a clear, and the tail that follows it.
TailIsDue ==
  \/ marker = Absent /\ pc # "clearTail"
  \/ marker # Absent /\ Size = marker.old
  \/ pc \in {"meta", "index", "unmark", "recoverMeta", "recoverIndex",
             "recoverUnmark"}

\* Nothing was left half done: the files end with whole lines, the marked
\* append is in the history or not, and a tail that is due is there.
WholeInv == faulted = {} =>
  /\ hist.end = "line" /\ ~hist.joined /\ ~hist.away
  /\ tail.end = "line" /\ ~tail.joined
  /\ marker # Absent => Size \in {marker.old, marker.new}
  /\ TailIsDue => IsTail(hist.recs, tail.recs, Size)

\* The types of what is compared.
LEMMA SizeFacts ==
  ASSUME IInv
  PROVE  /\ hist.recs \in Seq(Record) /\ tail.recs \in Seq(Record)
         /\ Size \in Nat /\ Len(tail.recs) \in Nat
         /\ hist.recs = << >> <=> Size = 0
         /\ tail.recs = << >> <=> Len(tail.recs) = 0
         /\ meta.count \in Nat
         /\ marker # Absent => marker.old \in Nat /\ marker.new \in Nat
<1>1. hist.recs \in Seq(Record) /\ tail.recs \in Seq(Record)
  BY DEF IInv, TypeOK, LineFile
<1>2. meta.count \in Nat /\ (marker # Absent => marker.old \in Nat /\ marker.new \in Nat)
  BY DEF IInv, TypeOK, Summary
<1> QED BY <1>1, <1>2, LenProperties, EmptySeq DEF Size

\* Counted from message 1, numbers are positions.
LEMMA SeqIsPosition ==
  ASSUME IInv, CountedInv, Uncut
  PROVE  /\ \A i \in 1..Size : hist.recs[i].seq = i
         /\ hist.recs # << >> => LastSeq(hist.recs) = Size
<1>1. \A i \in 1..Size : hist.recs[i].seq = i
  <2> TAKE i \in 1..Size
  <2>1. hist.recs # << >> /\ Size \in Nat
    BY SizeFacts
  <2>2. hist.recs[1].seq = 1 /\ hist.recs[i].seq = hist.recs[1].seq + i - 1
    BY <2>1 DEF CountedInv, IInv, NumberedInv, Consecutive, Size
  <2> QED BY <2>2
<1>2. hist.recs # << >> => Size \in 1..Size
  BY SizeFacts
<1> QED BY <1>1, <1>2 DEF LastSeq, Size

\* Faults are remembered.
LEMMA FaultsStay == Next => faulted \subseteq faulted'
BY DEF Next, Start, Recover, Check, Preflight, StoreHistory, StoreTail,
   AppendRejected, StoreMeta, StoreIndex, StoreMarker, FlushShort, Interrupt,
   Proceed, Goto, Return

\* An interruption that cuts no clear is whole, or is one of the write.
LEMMA WholeUnlessCut ==
  ASSUME Interrupt, Uncut'
  PROVE  /\ pc \notin {"clearTail", "clearMeta"}
         /\ pc # "write" => hist' = hist
<1>1. CASE IsWhole
  BY <1>1 DEF IsWhole
<1>2. CASE ~IsWhole
  <2>1. faulted' = faulted \cup {IF pc = "write" THEN "tornAppend" ELSE "cutClear"}
    BY <1>2 DEF Interrupt
  <2>2. pc = "write"
    BY <2>1 DEF Uncut
  <2> QED BY <2>2
<1> QED BY <1>1, <1>2

\* How the history changes while no clear is cut.
LEMMA HistoryChanges ==
  ASSUME IInv, Next, Uncut'
  PROVE  \/ hist'.recs = hist.recs
         \/ /\ pc = "write" /\ pc' \in {"tail", "idle"}
            /\ UNCHANGED <<tail, meta, index, marker>>
            /\ \E k \in 0..Len(op.batch) : Extends(hist', k)
         \/ /\ pc = "clearHistory" /\ pc' = "clearTail" /\ hist'.recs = << >>
            /\ UNCHANGED <<tail, meta, index, marker>>
<1>1. CASE StoreHistory
  <2>1. CASE pc = "write"
    <3>1. /\ pc' = "tail" /\ hist' = NewHistory
          /\ UNCHANGED <<tail, meta, index, marker>>
      BY <1>1, <2>1, FollowingValues DEF StoreHistory, Proceed, Goto
    <3>2. Len(op.batch) \in 0..Len(op.batch)
      BY <2>1, OperationTypes, LenProperties DEF IInv, StepInv
    <3> QED BY <2>1, <3>1, <3>2, WriteExtends
  <2>2. CASE pc = "clearHistory"
    BY <1>1, <2>2, FollowingValues DEF StoreHistory, Proceed, Goto, NewHistory, Empty
  <2> QED BY <1>1, <2>1, <2>2 DEF StoreHistory, HistorySteps
<1>2. CASE FlushShort
  <2>1. CASE pc = "write" /\ hist' \in PartHistory /\ UNCHANGED tail
    BY <1>2, <2>1, WriteExtends, FollowingValues DEF FlushShort
  <2> QED BY <1>2, <2>1 DEF FlushShort
<1>3. CASE Interrupt
  <2>1. CASE pc = "write"
    <3>1. /\ hist' \in {hist, NewHistory} \cup PartHistory
          /\ Len(op.batch) \in Nat /\ pc' = "idle"
          /\ UNCHANGED <<tail, meta, index, marker>>
      <4>1. op \in Operations
        BY <2>1 DEF IInv, StepInv
      <4>2. Len(op.batch) \in Nat
        BY <4>1, OperationTypes, LenProperties
      <4>3. hist' \in {hist, NewHistory} \cup PartHistory
        BY <1>3, <2>1 DEF Interrupt, InterruptedHistory
      <4>4. tail' = tail
        BY <1>3, <2>1 DEF Interrupt, InterruptedTail, TailSteps
      <4> QED BY <1>3, <2>1, <4>2, <4>3, <4>4
              DEF Interrupt, MetaSteps, IndexSteps, MarkerSteps
    <3>2. hist \in PartHistory
      BY DEF PartHistory
    <3> QED BY <2>1, <3>1, <3>2, WriteExtends
  <2>2. CASE pc # "write"
    <3>1. hist' = hist
      BY <1>3, <2>2, WholeUnlessCut
    <3> QED BY <3>1
  <2> QED BY <2>1, <2>2
<1> QED BY <1>1, <1>2, <1>3
        DEF Next, Start, Recover, Check, Preflight, StoreTail, AppendRejected,
            StoreMeta, StoreIndex, StoreMarker, disk

\* What an append writes is not covered yet: the metadata still counts what was
\* there before.
LEMMA WriteCoversNothing ==
  ASSUME IInv, pc = "write", UNCHANGED meta,
         NEW k \in 0..Len(op.batch), Extends(hist', k)
  PROVE  Covered' = Covered
<1> DEFINE n == Len(hist.recs)
<1>1. /\ hist.recs \in Seq(Record) /\ n \in Nat /\ DOMAIN hist.recs = 1..n
      /\ meta.count \in Nat /\ Len(op.batch) \in Nat
  <2>1. op \in Operations /\ op.kind = "append"
    BY DEF IInv, StepInv
  <2> QED BY <2>1, OperationTypes, LenProperties DEF IInv, TypeOK, LineFile, Summary
<1>2. /\ DOMAIN hist'.recs = 1..n + k
      /\ \A i \in 1..n : hist'.recs[i] = hist.recs[i]
      /\ \A i \in 1..k : hist'.recs[n + i].seq = meta.count + i
  <2>1. hist'.recs \in Seq(Record) /\ Len(hist'.recs) = n + k
    BY DEF Extends, LineFile
  <2>2. DOMAIN hist'.recs = 1..n + k
    BY <2>1, LenProperties
  <2>3. \A i \in 1..n : hist'.recs[i] = hist.recs[i]
    BY DEF Extends
  <2>4. \A i \in 1..k : hist'.recs[n + i] = [seq |-> meta.count + i, msg |-> op.batch[i]]
    BY DEF Extends
  <2>5. \A i \in 1..k : hist'.recs[n + i].seq = meta.count + i
    <3> SUFFICES ASSUME NEW i \in 1..k PROVE hist'.recs[n + i].seq = meta.count + i
      OBVIOUS
    <3>1. hist'.recs[n + i] = [seq |-> meta.count + i, msg |-> op.batch[i]]
      BY <2>4
    <3> QED BY <3>1
  <2> QED BY <2>2, <2>3, <2>5
<1> HIDE DEF n
<1>3. {j \in 1..n + k : hist'.recs[j].seq <= meta.count}
        = {j \in 1..n : hist.recs[j].seq <= meta.count}
  <2>1. 1..n \subseteq 1..n + k
    BY <1>1
  <2>2. \A j \in 1..n + k : hist'.recs[j].seq <= meta.count => j \in 1..n
    <3> SUFFICES ASSUME NEW j \in 1..n + k, j \notin 1..n
                 PROVE  ~(hist'.recs[j].seq <= meta.count)
      OBVIOUS
    <3>1. j - n \in 1..k /\ j = n + (j - n)
      BY <1>1
    <3>2. hist'.recs[j].seq = meta.count + (j - n)
      BY <1>2, <3>1
    <3> QED BY <1>1, <3>1, <3>2
  <2> QED BY <1>2, <2>1, <2>2
<1> QED BY <1>1, <1>2, <1>3 DEF Covered

\* A pending tool call's revision binds the messages it was shown for: it never
\* goes back, moves with every change of the count, and while it stays no covered
\* message changes but by a clear that will move it, interruptions included.
THEOREM RevisionsBind == Spec => RevisionBindsMessages
<1> DEFINE Advance ==
             /\ meta'.revision >= meta.revision
             /\ meta'.count # meta.count => meta'.revision > meta.revision
           Binding ==
             "cutClear" \notin faulted' /\ Covered' # Covered =>
               meta'.revision > meta.revision \/ (pc = "clearHistory" /\ pc' = "clearTail")
<1>1. IInv /\ [Next]_vars => [Advance /\ Binding]_vars
  <2> SUFFICES ASSUME IInv, Next PROVE Advance /\ Binding
    OBVIOUS
  <2>1. meta.revision \in Nat
    BY DEF IInv, TypeOK, Summary
  <2>2. meta' = meta \/ meta' = NewMeta
    BY DEF Next, Start, Recover, Check, StoreHistory, StoreTail, AppendRejected,
       StoreMeta, StoreIndex, StoreMarker, FlushShort, Interrupt, disk
  <2>3. NewMeta.revision = meta.revision + 1
    BY DEF NewMeta
  <2>4. Advance
    BY <2>1, <2>2, <2>3
  <2>5. Binding
    <3> SUFFICES ASSUME Uncut', meta' = meta PROVE Binding
      BY <2>1, <2>2, <2>3 DEF Uncut
    <3>1. CASE hist'.recs = hist.recs
      BY <3>1 DEF Covered
    <3>2. CASE pc = "write" /\ \E k \in 0..Len(op.batch) : Extends(hist', k)
      BY <3>2, WriteCoversNothing
    <3> QED BY <3>1, <3>2, HistoryChanges
  <2> QED BY <2>4, <2>5
<1> QED BY <1>1, HistoryInvariant, PTL DEF Spec, RevisionBindsMessages

\* The marker and the metadata change only at their own steps.
LEMMA MarkerChanges ==
  ASSUME IInv, Next, Uncut'
  PROVE  /\ \/ marker' = marker
            \/ /\ pc \in MarkerSteps /\ marker' = NewMarker
               /\ UNCHANGED <<hist, meta>>
         /\ \/ meta'.count = meta.count
            \/ /\ pc \in {"recoverMeta", "meta"} /\ marker' = marker
               /\ hist' = hist
            \/ /\ pc = "clearMeta" /\ pc' = "clearIndex" /\ meta'.count = 0
               /\ UNCHANGED <<hist, marker>>
<1>1. CASE Interrupt
  <2>1. pc \notin {"clearTail", "clearMeta"}
    BY <1>1, WholeUnlessCut
  <2>2. pc # "write" => hist' = hist
    BY <1>1, WholeUnlessCut
  <2>3. /\ marker' \in IF pc \in MarkerSteps THEN {marker, NewMarker} ELSE {marker}
        /\ meta' \in IF pc \in MetaSteps THEN {meta, NewMeta} ELSE {meta}
    BY <1>1 DEF Interrupt
  <2>4. pc = "saveMeta" => NewMeta.count = meta.count
    BY DEF NewMeta
  <2>5. CASE pc \in MarkerSteps
    BY <2>2, <2>3, <2>5 DEF MarkerSteps, MetaSteps
  <2>6. CASE pc \in MetaSteps
    <3>1. marker' = marker /\ hist' = hist
      BY <2>2, <2>3, <2>6 DEF MarkerSteps, MetaSteps
    <3>2. pc \in {"recoverMeta", "meta", "saveMeta"}
      BY <2>1, <2>6 DEF MetaSteps
    <3>3. meta' = meta \/ meta' = NewMeta
      BY <2>3
    <3> QED BY <2>4, <3>1, <3>2, <3>3
  <2>7. CASE pc \notin MarkerSteps \cup MetaSteps
    BY <2>3, <2>7
  <2> QED BY <2>5, <2>6, <2>7
<1>2. CASE StoreMeta
  <2>1. /\ UNCHANGED <<hist, marker>> /\ pc \in MetaSteps /\ meta' = NewMeta
        /\ pc' = Following[pc]
    BY <1>2, FollowingValues DEF StoreMeta, Proceed, Goto, MetaSteps
  <2>2. pc = "clearMeta" => pc' = "clearIndex"
    BY <2>1, FollowingValues
  <2>3. /\ pc = "saveMeta" => NewMeta.count = meta.count
        /\ pc = "clearMeta" => NewMeta.count = 0
    BY DEF NewMeta
  <2>4. CASE pc = "clearMeta"
    BY <2>1, <2>2, <2>3, <2>4
  <2>5. CASE pc = "saveMeta"
    BY <2>1, <2>3, <2>5
  <2>6. CASE pc \in {"recoverMeta", "meta"}
    BY <2>1, <2>6
  <2> QED BY <2>1, <2>4, <2>5, <2>6 DEF MetaSteps
<1>3. CASE StoreMarker
  BY <1>3 DEF StoreMarker
<1> QED BY <1>1, <1>2, <1>3
        DEF Next, Start, Recover, Check, Preflight, StoreHistory, StoreTail,
            AppendRejected, StoreIndex, FlushShort, disk

\* A clear that is not cut goes on to its end.
LEMMA ClearGoesOn ==
  ASSUME IInv, Next, Uncut'
  PROVE  /\ pc = "clearTail" => pc' = "clearMeta" /\ StoreTail
         /\ pc = "clearMeta" => pc' = "clearIndex" /\ meta'.count = 0
<1>1. CASE pc = "clearTail"
  <2>1. StoreTail
    BY <1>1, WholeUnlessCut
    DEF Next, Start, Recover, Check, StoreHistory, StoreMeta, StoreIndex,
        StoreMarker, AppendRejected, FlushShort, HistorySteps, MetaSteps,
        IndexSteps, MarkerSteps
  <2> QED BY <1>1, <2>1, FollowingValues DEF StoreTail, Proceed, Goto
<1>2. CASE pc = "clearMeta"
  <2>1. StoreMeta
    BY <1>2, WholeUnlessCut
    DEF Next, Start, Recover, Check, StoreHistory, StoreTail, StoreIndex,
        StoreMarker, AppendRejected, FlushShort, HistorySteps, TailSteps,
        IndexSteps, MarkerSteps
  <2>2. NewMeta.count = 0
    BY <1>2 DEF NewMeta
  <2> QED BY <1>2, <2>1, <2>2, FollowingValues DEF StoreMeta, Proceed, Goto
<1> QED BY <1>1, <1>2

\* A write appends to exactly what the metadata counts.
LEMMA WriteAtEnd ==
  ASSUME IInv, CountedInv, Uncut, pc \in {"stage", "write"}
  PROVE  Size = meta.count
<1>1. CASE pc = "stage"
  BY <1>1 DEF CountedInv, IInv, StepInv
<1>2. CASE pc = "write"
  <2>1. /\ marker # Absent /\ meta.count = marker.old /\ EndsAt(marker.old)
    BY <1>2 DEF IInv, StepInv
  <2>2. CASE hist.recs = << >>
    BY <2>1, <2>2, SizeFacts DEF CountedInv
  <2>3. CASE hist.recs # << >>
    BY <2>1, <2>3, SeqIsPosition DEF EndsAt
  <2> QED BY <2>2, <2>3
<1> QED BY <1>1, <1>2

\* Every step keeps the count.
LEMMA CountedStep ==
  ASSUME IInv, IInv', CountedInv, Next
  PROVE  CountedInv'
<1> SUFFICES ASSUME Uncut' PROVE CountedInv'
  BY DEF CountedInv
<1>1. Uncut
  BY FaultsStay DEF Uncut
<1>2. Size \in Nat /\ Size' \in Nat
  <2>1. hist.recs \in Seq(Record) /\ hist'.recs \in Seq(Record)
    BY DEF IInv, TypeOK, LineFile
  <2> QED BY <2>1, LenProperties DEF Size
<1>3. ASSUME pc = "write", UNCHANGED <<meta, marker>>,
             NEW k \in 0..Len(op.batch), Extends(hist', k)
      PROVE  CountedInv'
  <2>1. /\ marker # Absent /\ meta.count = marker.old /\ op \in Operations
        /\ marker.new = marker.old + Len(op.batch) /\ op.kind = "append"
    BY <1>3 DEF IInv, StepInv
  <2>2. Size = meta.count /\ meta.count \in Nat /\ Len(op.batch) \in Nat
    BY <1>1, <1>3, <2>1, WriteAtEnd, SizeFacts, OperationTypes
  <2>3. Size' = Size + k
    BY <1>3 DEF Extends, Size
  <2>4. hist'.recs # << >> => hist'.recs[1].seq = 1
    <3> HAVE hist'.recs # << >>
    <3>1. Size' # 0
      <4>1. hist'.recs \in Seq(Record)
        BY DEF IInv, TypeOK, LineFile
      <4> QED BY <4>1, EmptySeq DEF Size
    <3>2. CASE Size = 0
      <4>1. 1 \in 1..k /\ Len(hist.recs) + 1 = 1
        BY <1>2, <2>3, <3>1, <3>2 DEF Size
      <4>2. hist'.recs[Len(hist.recs) + 1] = [seq |-> meta.count + 1, msg |-> op.batch[1]]
        BY <1>3, <4>1 DEF Extends
      <4> QED BY <2>2, <3>2, <4>1, <4>2
    <3>3. CASE Size # 0
      <4>1. 1 \in 1..Len(hist.recs) /\ hist.recs # << >>
        BY <1>2, <3>3, SizeFacts DEF Size
      <4>2. hist'.recs[1] = hist.recs[1]
        BY <1>3, <4>1 DEF Extends
      <4> QED BY <1>1, <4>1, <4>2 DEF CountedInv
    <3> QED BY <3>2, <3>3
  <2>5. Size' \in marker.old..marker.new
    BY <2>1, <2>2, <2>3
  <2> QED BY <1>3, <2>1, <2>4, <2>5 DEF CountedInv
<1>4. ASSUME hist'.recs = << >>, pc' = "clearTail", pc = "clearHistory",
             UNCHANGED <<meta, marker>>
      PROVE  CountedInv'
  <2>1. marker = Absent
    BY <1>4 DEF IInv, StepInv
  <2> QED BY <1>4, <2>1 DEF CountedInv
<1>5. ASSUME hist'.recs = hist.recs
      PROVE  CountedInv'
  <2>1. Size' = Size
    BY <1>5 DEF Size
  <2>2. CASE marker' = marker
    <3>1. ASSUME marker = Absent, pc' \notin {"clearTail", "clearMeta"}
          PROVE  meta'.count = Size
      <4>1. pc # "clearTail"
        BY <3>1, ClearGoesOn
      <4>2. CASE pc = "clearMeta"
        <5>1. meta'.count = 0 /\ hist.recs = << >>
          BY <4>2, ClearGoesOn DEF IInv, StepInv
        <5> QED BY <5>1, SizeFacts
      <4>3. CASE pc # "clearMeta"
        <5>1. meta.count = Size
          BY <1>1, <3>1, <4>1, <4>3 DEF CountedInv
        <5>2. pc \notin {"recoverMeta", "meta"}
          BY <3>1 DEF IInv, StepInv
        <5> QED BY <4>3, <5>1, <5>2, MarkerChanges
      <4> QED BY <4>2, <4>3
    <3> QED BY <1>1, <1>5, <2>1, <2>2, <3>1 DEF CountedInv
  <2>3. CASE marker' # marker
    <3>1. pc \in MarkerSteps /\ marker' = NewMarker /\ UNCHANGED <<hist, meta>>
      BY <2>3, MarkerChanges
    <3>2. CASE pc = "stage"
      <4>1. /\ marker'.old = meta.count /\ marker' # Absent
            /\ marker'.new = meta.count + Len(op.batch)
            /\ Len(op.batch) \in Nat /\ meta.count \in Nat
        BY <3>1, <3>2, MarkerTypes
      <4>2. Size = meta.count
        BY <1>1, <3>2, WriteAtEnd
      <4> QED BY <1>1, <1>5, <2>1, <4>1, <4>2 DEF CountedInv
    <3>3. CASE pc # "stage"
      <4>1. marker' = Absent /\ marker # Absent
        BY <2>3, <3>1, <3>3, MarkerTypes
      <4>2. meta.count = Size
        <5>1. EndsAt(meta.count)
          BY <3>1, <3>3, MarkerTypes
        <5>2. CASE hist.recs # << >>
          BY <1>1, <5>1, <5>2, SeqIsPosition DEF EndsAt
        <5>3. CASE hist.recs = << >>
          <6>1. Size = 0 /\ marker.old = 0 /\ ~Appended
            BY <1>1, <4>1, <5>3, SizeFacts DEF CountedInv, Appended
          <6>2. meta.count = marker.old
            BY <4>1, <6>1 DEF IInv, MarkedInv
          <6> QED BY <6>1, <6>2
        <5> QED BY <5>2, <5>3
      <4> QED BY <1>1, <1>5, <2>1, <3>1, <4>1, <4>2 DEF CountedInv
    <3> QED BY <3>2, <3>3
  <2> QED BY <2>2, <2>3
<1> QED BY <1>3, <1>4, <1>5, HistoryChanges

-----------------------------------------------------------------------------
(* The tail *)

\* The window of a file is its tail.
LEMMA WindowIsTail ==
  ASSUME NEW r \in Seq(Record)
  PROVE  IsTail(r, Window(r), Len(r))
<1>1. PICK n \in Nat : n = Len(r)
  BY LenProperties
<1>2. TailLimit \in Nat \ {0}
  BY LimitAssumption
<1>3. CASE n <= TailLimit
  <2>1. Window(r) = r
    BY <1>1, <1>3 DEF Window
  <2> QED BY <1>1, <1>3, <2>1 DEF IsTail
<1>4. CASE ~(n <= TailLimit)
  <2> DEFINE w == SubSeq(r, n - TailLimit + 1, n)
  <2>1. Window(r) = w
    BY <1>1, <1>4 DEF Window
  <2>2. /\ Len(w) = TailLimit
        /\ \A i \in 1..TailLimit : w[i] = r[n - TailLimit + i]
    <3>1. n - TailLimit + 1 \in 1..n + 1
      BY <1>2, <1>4
    <3> QED BY <1>1, <1>2, <1>4, <3>1
  <2> QED BY <1>1, <1>2, <1>4, <2>1, <2>2 DEF IsTail
<1> QED BY <1>3, <1>4

\* It stays the tail of the same end when the file grows.
LEMMA TailOfLonger ==
  ASSUME NEW r, NEW s, NEW t, NEW n, Len(r) \in Nat, Len(s) \in Nat, IsTail(r, t, n),
         Len(r) <= Len(s), \A i \in 1..Len(r) : s[i] = r[i]
  PROVE  IsTail(s, t, n)
<1>1. n \in 0..Len(r) /\ n \in 0..Len(s) /\ TailLimit \in Nat
  BY LimitAssumption DEF IsTail
<1>2. Len(t) \in 0..n
  BY <1>1 DEF IsTail
<1>3. ASSUME NEW i \in 1..Len(t) PROVE t[i] = s[n - Len(t) + i]
  <2>1. n - Len(t) + i \in 1..Len(r)
    BY <1>1, <1>2
  <2> QED BY <2>1 DEF IsTail
<1> QED BY <1>1, <1>3 DEF IsTail

\* Copying a suffix of the tail and the appended records gives the new tail.
LEMMA TailAfterRecords ==
  ASSUME NEW r \in Seq(Record), NEW t \in Seq(Record), NEW n \in Nat, NEW b \in Nat,
         Len(r) = n + b, IsTail(r, t, n)
  PROVE  IsTail(r, Window(t \o SubSeq(r, n + 1, n + b)), n + b)
<1> DEFINE a == SubSeq(r, n + 1, n + b)
           both == t \o a
<1>1. a \in Seq(Record) /\ Len(a) = b /\ \A i \in 1..b : a[i] = r[n + i]
  <2>1. \A i \in n + 1..n + b : r[i] \in Record
    <3> TAKE i \in n + 1..n + b
    <3>1. i \in 1..Len(r)
      OBVIOUS
    <3> QED BY <3>1, ElementOfSeq
  <2>2. a \in Seq(Record) /\ Len(a) = n + b - (n + 1) + 1
        /\ \A i \in 1..n + b - (n + 1) + 1 : a[i] = r[n + 1 + i - 1]
    BY <2>1, SubSeqProperties
  <2>3. n + b - (n + 1) + 1 = b /\ \A i \in 1..b : n + 1 + i - 1 = n + i
    OBVIOUS
  <2> QED BY <2>2, <2>3
<1> HIDE DEF a
<1>2. PICK m \in Nat : m = Len(t)
  BY LenProperties
<1>3. /\ both \in Seq(Record) /\ Len(both) = m + b
      /\ \A i \in 1..m + b : both[i] = IF i <= m THEN t[i] ELSE a[i - m]
  BY <1>1, <1>2, ConcatProperties
<1> HIDE DEF both
<1>4. TailLimit \in Nat \ {0} /\ m = IF n <= TailLimit THEN n ELSE TailLimit
  BY <1>2, LimitAssumption DEF IsTail
<1>5. \A i \in 1..m + b : both[i] = r[n - m + i]
  <2> TAKE i \in 1..m + b
  <2>1. CASE i <= m
    <3>1. i \in 1..m /\ t[i] = r[n - m + i]
      BY <1>2, <2>1 DEF IsTail
    <3> QED BY <1>3, <2>1, <3>1
  <2>2. CASE ~(i <= m)
    <3>1. i - m \in 1..b /\ n + (i - m) = n - m + i
      BY <2>2
    <3> QED BY <1>1, <1>3, <2>2, <3>1
  <2> QED BY <2>1, <2>2
<1>6. PICK w \in Seq(Record) : w = Window(both) /\ IsTail(both, w, m + b)
  BY <1>3, WindowIsTail, WindowType
<1>7. PICK c \in Nat : c = n + b
  OBVIOUS
<1>8. PICK l \in Nat : l = Len(w)
  BY <1>6, LenProperties
<1>9. l = IF c <= TailLimit THEN c ELSE TailLimit
  BY <1>4, <1>6, <1>7, <1>8 DEF IsTail
<1>10. \A i \in 1..l : w[i] = r[c - l + i]
  <2> TAKE i \in 1..l
  <2>1. w[i] = both[m + b - l + i]
    <3>1. \A j \in 1..Len(w) : w[j] = both[m + b - Len(w) + j]
      BY <1>6 DEF IsTail
    <3> QED BY <1>8, <3>1
  <2>2. l \in 0..m + b
    BY <1>4, <1>7, <1>9
  <2>3. m + b - l + i \in 1..m + b
    BY <2>2
  <2>4. n - m + (m + b - l + i) = c - l + i
    BY <1>7, <2>2
  <2> QED BY <1>5, <2>1, <2>3, <2>4
<1>11. c \in 0..Len(r)
  BY <1>7
<1>12. IsTail(r, w, c)
  BY <1>8, <1>9, <1>10, <1>11 DEF IsTail
<1> QED BY <1>6, <1>7, <1>12 DEF both, a

\* Only one sequence is the tail.
LEMMA TailIsWindow ==
  ASSUME NEW r \in Seq(Record), NEW t \in Seq(Record), IsTail(r, t, Len(r))
  PROVE  t = Window(r)
<1>1. IsTail(r, Window(r), Len(r)) /\ Window(r) \in Seq(Record)
  BY WindowIsTail, WindowType
<1>2. Len(t) = Len(Window(r)) /\ \A i \in 1..Len(t) : t[i] = Window(r)[i]
  BY <1>1 DEF IsTail
<1> QED BY <1>1, <1>2, SeqEqual

\* A tail that agrees with the metadata is the tail of the records it counts.
LEMMA MatchingTail ==
  ASSUME IInv, CountedInv, TailInv, Uncut, TailMatches, pc # "clearTail"
  PROVE  IsTail(hist.recs, tail.recs, meta.count)
<1>1. PICK n \in 0..Size : IsTail(hist.recs, tail.recs, n)
  BY DEF TailInv, TailMatches, Readable
<1>2. PICK m \in Nat : m = Len(tail.recs)
  BY SizeFacts
<1>3. /\ meta.count \in Nat /\ Size \in Nat /\ TailLimit \in Nat \ {0}
      /\ m = IF n <= TailLimit THEN n ELSE TailLimit
      /\ \A i \in 1..m : tail.recs[i] = hist.recs[n - m + i]
  BY <1>1, <1>2, SizeFacts, LimitAssumption DEF IsTail
<1>4. CASE meta.count = 0
  <2>1. m = 0
    BY <1>2, <1>4 DEF TailMatches
  <2>2. n = 0
    BY <1>3, <2>1
  <2> QED BY <1>1, <1>4, <2>2
<1>5. CASE meta.count # 0
  <2>1. m \in 1..meta.count /\ tail.recs[m].seq = meta.count
    BY <1>2, <1>5 DEF TailMatches, LastSeq
  <2>2. m \in 1..m /\ n - m + m = n /\ n \in 1..Size
    BY <1>3, <2>1
  <2>3. tail.recs[m] = hist.recs[n]
    BY <1>3, <2>2
  <2>4. n = meta.count
    BY <2>1, <2>2, <2>3, SeqIsPosition
  <2> QED BY <1>1, <2>4
<1> QED BY <1>4, <1>5

\* Every way the tail is written leaves the tail of the whole history.
LEMMA WrittenTail ==
  ASSUME IInv, CountedInv, TailInv, ReadyInv, Uncut, pc \in TailSteps,
         pc = "tail" => AppendedReadBack
  PROVE  IsTail(hist.recs, NewTail.recs, Size)
<1> USE DEF TailSteps
<1>1. CASE pc \in {"recoverTail", "rebuild"}
  <2>1. NewTail.recs = Window(hist.recs)
    BY <1>1 DEF NewTail
  <2> QED BY <2>1, SizeFacts, WindowIsTail DEF Size
<1>2. CASE pc = "clearTail"
  <2>1. NewTail.recs = << >> /\ hist.recs = << >>
    BY <1>2 DEF NewTail, Empty, IInv, StepInv
  <2> QED BY <2>1, LimitAssumption DEF IsTail, Size
<1>3. CASE pc = "tail"
  <2>1. /\ op.kind = "append" /\ meta.count = marker.old /\ op \in Operations
        /\ marker.new = marker.old + Len(op.batch) /\ marker # Absent
    BY <1>3 DEF IInv, StepInv
  <2>2. PICK b \in Nat : b = Len(op.batch)
    BY <2>1, OperationTypes
  <2>3. PICK n \in Nat : n = meta.count
    BY SizeFacts
  <2>4. Size = n + b
    BY <1>3, <2>1, <2>2, <2>3, SeqIsPosition DEF AppendedReadBack
  <2>5. IsTail(hist.recs, tail.recs, n)
    BY <1>3, <2>3, MatchingTail DEF ReadyInv
  <2>6. NewTail.recs = Window(tail.recs \o SubSeq(hist.recs, n + 1, n + b))
    <3>1. n + b - b + 1 = n + 1
      OBVIOUS
    <3>2. NewTail.recs = Window(tail.recs \o SubSeq(hist.recs, n + b - b + 1, n + b))
      BY <1>3, <2>2, <2>4 DEF NewTail, TailAfterAppend, Size
    <3> QED BY <3>1, <3>2
  <2>7. IsTail(hist.recs, Window(tail.recs \o SubSeq(hist.recs, n + 1, n + b)), n + b)
    BY <2>4, <2>5, SizeFacts, TailAfterRecords DEF Size
  <2> QED BY <2>4, <2>6, <2>7
<1> QED BY <1>1, <1>2, <1>3

\* How the tail changes: not at all but for its name, or as NewTail says,
\* unless it is cut.
LEMMA TailChanges ==
  ASSUME IInv, Next
  PROVE  \/ tail'.recs = tail.recs /\ tail'.end = tail.end
         \/ /\ pc \in TailSteps /\ hist' = hist
            /\ pc = "tail" => AppendedReadBack
            /\ tail'.end # "torn" => tail'.recs = NewTail.recs
<1>1. CASE StoreTail
  BY <1>1 DEF StoreTail
<1>2. CASE FlushShort
  <2>1. CASE pc = "write"
    BY <1>2, <2>1 DEF FlushShort, TailSteps
  <2>2. CASE pc # "write"
    <3>1. /\ pc \in TailSteps /\ hist' = hist /\ tail' \in ShortTail
          /\ pc = "tail" => AppendedReadBack
      BY <1>2, <2>2 DEF FlushShort
    <3>2. NewTail \in LineFile
      BY <3>1, TailTypes
    <3>3. \/ tail' = [NewTail EXCEPT !.end = "open"]
          \/ tail' = [NewTail EXCEPT !.recs = SubSeq(@, 1, Len(@) - 1),
                                     !.end = "torn"]
      BY <3>1 DEF ShortTail
    <3>4. tail'.end # "torn" => tail'.recs = NewTail.recs
      BY <3>2, <3>3 DEF LineFile
    <3> QED BY <3>1, <3>4
  <2> QED BY <2>1, <2>2
<1>3. CASE Interrupt
  <2>1. CASE pc \in TailSteps /\ (pc = "tail" => AppendedReadBack)
    <3>1. hist' = hist /\ tail' \in {tail} \cup Uncertain(tail, NewTail)
      BY <1>3, <2>1 DEF Interrupt, InterruptedTail, InterruptedHistory, TailSteps
    <3>2. tail \in LineFile
      BY DEF IInv, TypeOK
    <3>3. tail' = NewTail \/ (tail'.recs = tail.recs /\ tail'.end = tail.end)
      BY <3>1, <3>2 DEF Uncertain, LineFile
    <3> QED BY <2>1, <3>1, <3>3
  <2>2. CASE ~(pc \in TailSteps /\ (pc = "tail" => AppendedReadBack))
    BY <1>3, <2>2 DEF Interrupt, InterruptedTail
  <2> QED BY <2>1, <2>2
<1> QED BY <1>1, <1>2, <1>3
        DEF Next, Start, Recover, Check, StoreHistory, AppendRejected,
            StoreMeta, StoreIndex, StoreMarker, disk

\* Every step keeps the tail.
LEMMA TailStep ==
  ASSUME IInv, IInv', CountedInv, TailInv, ReadyInv, Next
  PROVE  TailInv'
<1> SUFFICES ASSUME Uncut', pc' # "clearTail", tail'.end # "torn"
             PROVE  \E n \in 0..Size' : IsTail(hist'.recs, tail'.recs, n)
  BY DEF TailInv
<1>1. Uncut
  BY FaultsStay DEF Uncut
<1>2. Size \in Nat /\ Size' \in Nat
  <2>1. hist'.recs \in Seq(Record)
    BY DEF IInv, TypeOK, LineFile
  <2> QED BY <2>1, SizeFacts, LenProperties DEF Size
<1>3. CASE /\ pc \in TailSteps /\ hist' = hist
           /\ pc = "tail" => AppendedReadBack
           /\ tail'.recs = NewTail.recs
  <2>1. IsTail(hist.recs, NewTail.recs, Size) /\ Size' = Size
    BY <1>1, <1>3, WrittenTail DEF Size
  <2> QED BY <1>2, <1>3, <2>1
<1>4. CASE tail'.recs = tail.recs /\ tail'.end = tail.end
  <2>1. CASE pc = "clearTail"
    <3>1. tail' = NewTail /\ hist' = hist
      BY <2>1, ClearGoesOn DEF StoreTail
    <3> QED BY <1>3, <2>1, <3>1 DEF TailSteps
  <2>2. CASE pc # "clearTail"
    <3>1. PICK n \in 0..Size : IsTail(hist.recs, tail.recs, n)
      BY <1>1, <1>4, <2>2 DEF TailInv
    <3>2. CASE hist'.recs = hist.recs
      BY <1>4, <3>1, <3>2 DEF Size
    <3>3. CASE \E k \in 0..Len(op.batch) : Extends(hist', k) /\ pc = "write"
      <4>1. PICK k \in 0..Len(op.batch) : Extends(hist', k) /\ pc = "write"
        BY <3>3
      <4>2. /\ Len(hist'.recs) = Len(hist.recs) + k
            /\ \A i \in 1..Len(hist.recs) : hist'.recs[i] = hist.recs[i]
        BY <4>1 DEF Extends
      <4>3. Len(op.batch) \in Nat
        <5>1. op \in Operations
          BY <4>1 DEF IInv, StepInv
        <5> QED BY <5>1, OperationTypes, LenProperties
      <4>4. Len(hist.recs) \in Nat /\ Len(hist'.recs) \in Nat
            /\ Len(hist.recs) <= Len(hist'.recs)
        BY <1>2, <4>1, <4>2, <4>3 DEF Size
      <4>5. IsTail(hist'.recs, tail.recs, n)
        BY <3>1, <4>2, <4>4, TailOfLonger
      <4>6. n \in 0..Size'
        BY <3>1, <4>4 DEF Size
      <4> QED BY <1>4, <4>5, <4>6
    <3> QED BY <3>2, <3>3, HistoryChanges
  <2> QED BY <2>1, <2>2
<1> QED BY <1>3, <1>4, TailChanges

\* Every step keeps what an append goes on from.
LEMMA ReadyStep ==
  ASSUME IInv, ReadyInv, Next
  PROVE  ReadyInv'
<1> SUFFICES ASSUME Uncut' PROVE ReadyInv'
  BY DEF ReadyInv
<1>1. Uncut
  BY FaultsStay DEF Uncut
<1>2. ASSUME pc' \in {"stage", "write", "tail"} PROVE TailMatches'
  <2>1. /\ tail' = tail /\ meta' = meta
        /\ TailMatches \/ pc \in {"stage", "write"}
    <3>1. CASE Check
      BY <1>2, <3>1 DEF Check, Preflight, Goto, Return, disk
    <3>2. CASE StoreHistory
      BY <1>2, <3>2, FollowingValues DEF StoreHistory, Proceed, Goto, HistorySteps
    <3>3. CASE FlushShort
      BY <1>2, <3>3, FollowingValues DEF FlushShort, TailSteps
    <3>4. CASE StoreMarker
      BY <1>2, <3>4, FollowingValues DEF StoreMarker, Proceed, Goto, Return, MarkerSteps
    <3>5. CASE StoreTail
      BY <1>2, <3>5, FollowingValues DEF StoreTail, Proceed, Goto, TailSteps
    <3>6. CASE StoreMeta
      BY <1>2, <3>6, FollowingValues DEF StoreMeta, Proceed, Goto, MetaSteps
    <3>7. CASE StoreIndex
      BY <1>2, <3>7, FollowingValues DEF StoreIndex, Proceed, Goto, Return, IndexSteps
    <3> QED BY <1>2, <3>1, <3>2, <3>3, <3>4, <3>5, <3>6, <3>7
            DEF Next, Start, Recover, AppendRejected, Goto, Return, Interrupt
  <2>2. TailMatches
    BY <1>1, <2>1 DEF ReadyInv
  <2> QED BY <2>1, <2>2 DEF TailMatches, Readable
<1>3. ASSUME pc' = "unmark" PROVE index' = meta'
  <2>1. StoreIndex
    BY <1>3, FollowingValues
       DEF Next, Start, Recover, Check, Preflight, StoreHistory, StoreTail,
           AppendRejected, StoreMeta, StoreMarker, FlushShort, Interrupt,
           Proceed, Goto, Return, HistorySteps, TailSteps, MetaSteps,
           MarkerSteps
  <2> QED BY <2>1 DEF StoreIndex
<1> QED BY <1>2, <1>3 DEF ReadyInv

\* A success is returned by the last effect or by a check that only reads.
LEMMA SuccessfulReturns ==
  ASSUME IInv, Next, pc' = "idle", reported' = "ok"
  PROVE  \/ Check /\ UNCHANGED disk /\ pc = "check"
         \/ StoreMarker /\ pc = "unmark" /\ op' = op
         \/ StoreIndex /\ pc \in {"clearIndex", "saveIndex"} /\ op' = op
<1>1. CASE StoreMarker
  BY <1>1, FollowingValues DEF StoreMarker, Proceed, Goto, Return, MarkerSteps
<1>2. CASE StoreIndex
  BY <1>2, FollowingValues DEF StoreIndex, Proceed, Goto, Return, IndexSteps
<1>3. CASE Check
  BY <1>3 DEF Check
<1> QED BY <1>1, <1>2, <1>3, FollowingValues
        DEF Next, Start, Recover, StoreHistory, StoreTail, AppendRejected,
            StoreMeta, FlushShort, Interrupt, Proceed, Goto, Return,
            HistorySteps, TailSteps, MetaSteps

\* Every step keeps what callers are told.
LEMMA ReportStep ==
  ASSUME IInv, IInv', CountedInv, CountedInv', TailInv, ReadyInv, Next
  PROVE  ReadsAreConsistent' /\ SuccessIsListed'
<1> SUFFICES ASSUME pc' = "idle", reported' = "ok", Uncut'
             PROVE  ReadsAreConsistent' /\ SuccessIsListed'
  BY DEF ReadsAreConsistent, SuccessIsListed, Uncut
<1>1. Uncut
  BY FaultsStay DEF Uncut
<1>2. CASE Check /\ UNCHANGED disk /\ pc = "check"
  <2>1. marker = Absent /\ meta.count = Size
    BY <1>1, <1>2 DEF IInv, StepInv, CountedInv
  <2>2. /\ op' = op /\ op.kind \in {"load", "page", "draft"}
        /\ op.kind = "load" => TailMatches
    BY <1>2 DEF Check, Preflight, Goto, Return
  <2>3. Complete(hist.recs, meta.count)
    BY <1>1, <2>1, SizeFacts, SeqIsPosition DEF CountedInv, Complete, Size
  <2>4. op.kind = "load" => tail.recs = Window(hist.recs)
    <3> HAVE op.kind = "load"
    <3>1. IsTail(hist.recs, tail.recs, Len(hist.recs))
      BY <1>1, <1>2, <2>1, <2>2, MatchingTail DEF Size
    <3> QED BY <3>1, SizeFacts, TailIsWindow
  <2>5. ReadsAreConsistent'
    BY <1>2, <2>1, <2>2, <2>3, <2>4 DEF ReadsAreConsistent, disk
  <2> QED BY <2>2, <2>5 DEF SuccessIsListed
<1>3. CASE StoreMarker /\ pc = "unmark" /\ op' = op
  <2>1. /\ op.kind = "append" /\ index = meta /\ marker' = Absent
        /\ index' = index /\ meta' = meta
    BY <1>1, <1>3 DEF IInv, StepInv, ReadyInv, StoreMarker, NewMarker
  <2>2. meta'.count = Size'
    BY <2>1 DEF CountedInv
  <2> QED BY <1>3, <2>1, <2>2 DEF SuccessIsListed, ReadsAreConsistent, Size
<1>4. CASE StoreIndex /\ pc \in {"clearIndex", "saveIndex"} /\ op' = op
  <2>1. /\ op.kind \in {"clear", "save"} /\ index' = meta' /\ marker' = Absent
    BY <1>4 DEF IInv, StepInv, StoreIndex
  <2>2. meta'.count = Size'
    BY <2>1 DEF CountedInv
  <2> QED BY <1>4, <2>1, <2>2 DEF SuccessIsListed, ReadsAreConsistent, Size
<1> QED BY <1>2, <1>3, <1>4, SuccessfulReturns

-----------------------------------------------------------------------------
(* Nothing half done *)

\* How the history changes while nothing is left half done.
LEMMA WholeHistorySteps ==
  ASSUME IInv, Next, faulted' = {}
  PROVE  \/ hist' = hist
         \/ /\ pc = "write" /\ pc' \in {"tail", "idle"} /\ hist' = NewHistory
            /\ UNCHANGED <<tail, meta, index, marker>>
         \/ /\ pc = "clearHistory" /\ pc' = "clearTail" /\ hist' = Empty
            /\ UNCHANGED <<tail, meta, index, marker>>
<1>1. CASE StoreHistory
  BY <1>1, FollowingValues DEF StoreHistory, Proceed, Goto, HistorySteps, NewHistory
<1>2. CASE Interrupt
  <2>1. IsWhole
    BY <1>2 DEF Interrupt
  <2> QED BY <1>2, <2>1
          DEF IsWhole, Interrupt, InterruptedTail, TailSteps, MetaSteps,
              IndexSteps, MarkerSteps
<1>3. CASE FlushShort
  BY <1>3 DEF FlushShort
<1> QED BY <1>1, <1>2, <1>3
        DEF Next, Start, Recover, Check, StoreTail, AppendRejected, StoreMeta,
            StoreIndex, StoreMarker, disk

\* How the tail changes while nothing is left half done.
LEMMA WholeTailSteps ==
  ASSUME IInv, Next, faulted' = {}
  PROVE  \/ UNCHANGED <<tail.recs, tail.end, tail.joined>> /\ ~StoreTail
         \/ /\ pc \in TailSteps /\ hist' = hist /\ tail' = NewTail
            /\ pc = "tail" => AppendedReadBack
<1>1. CASE StoreTail
  BY <1>1 DEF StoreTail
<1>2. CASE Interrupt /\ ~StoreTail
  <2>1. CASE pc \in TailSteps /\ (pc = "tail" => AppendedReadBack)
    <3>1. hist' = hist /\ tail' \in {tail} \cup Uncertain(tail, NewTail)
      BY <1>2, <2>1 DEF Interrupt, InterruptedTail, InterruptedHistory, TailSteps
    <3>2. tail \in LineFile
      BY DEF IInv, TypeOK
    <3>3. tail' = NewTail \/ UNCHANGED <<tail.recs, tail.end, tail.joined>>
      BY <3>1, <3>2 DEF Uncertain, LineFile
    <3> QED BY <1>2, <2>1, <3>1, <3>3
  <2>2. CASE ~(pc \in TailSteps /\ (pc = "tail" => AppendedReadBack))
    BY <1>2, <2>2 DEF Interrupt, InterruptedTail
  <2> QED BY <2>1, <2>2
<1>3. CASE FlushShort
  BY <1>3 DEF FlushShort
<1>4. CASE ~(StoreTail \/ Interrupt \/ FlushShort)
  <2>1. tail' = tail
    BY <1>4
    DEF Next, Start, Recover, Check, StoreHistory, AppendRejected, StoreMeta,
        StoreIndex, StoreMarker, disk
  <2> QED BY <1>4, <2>1
<1> QED BY <1>1, <1>2, <1>3, <1>4

\* A tail that is due was due before the step, or is written by it.
LEMMA DueBefore ==
  ASSUME IInv, CountedInv, faulted' = {}, Next, TailIsDue', hist' = hist,
         ~StoreTail
  PROVE  TailIsDue
<1>1. Uncut /\ Uncut'
  BY FaultsStay DEF Uncut
<1>2. Size' = Size
  BY DEF Size
<1>3. CASE marker' = marker
  <2>1. CASE marker = Absent /\ pc' # "clearTail"
    <3>1. pc # "clearTail"
      BY <1>1, ClearGoesOn
    <3> QED BY <2>1, <3>1 DEF TailIsDue
  <2>2. CASE marker # Absent /\ Size = marker.old
    BY <2>2 DEF TailIsDue
  <2>3. CASE pc' \in {"meta", "index", "unmark", "recoverMeta", "recoverIndex",
                      "recoverUnmark"}
    <3>1. pc \in {"meta", "index", "recoverMeta", "recoverIndex"}
      <4>1. CASE StoreMeta \/ StoreIndex \/ StoreMarker
        BY <2>3, <4>1, FollowingValues
        DEF StoreMeta, StoreIndex, StoreMarker, Proceed, Goto, Return,
            MetaSteps, IndexSteps, MarkerSteps
      <4>2. CASE StoreHistory
        BY <2>3, <4>2, FollowingValues DEF StoreHistory, Proceed, Goto, HistorySteps
      <4>3. ~FlushShort
        BY DEF FlushShort
      <4> QED BY <2>3, <4>1, <4>2, <4>3
              DEF Next, Start, Recover, Check, Preflight, AppendRejected,
                  Interrupt, Goto, Return
    <3> QED BY <3>1 DEF TailIsDue
  <2> QED BY <1>2, <1>3, <2>1, <2>2, <2>3 DEF TailIsDue
<1>4. CASE marker' # marker
  <2>1. pc \in MarkerSteps /\ marker' = NewMarker
    BY <1>1, <1>4, MarkerChanges
  <2>2. CASE pc = "recoverDrop"
    <3>1. Size = marker.old /\ marker # Absent
      BY <2>2 DEF IInv, StepInv, Complete, Size
    <3> QED BY <3>1 DEF TailIsDue
  <2>3. CASE pc = "stage"
    BY <2>3 DEF TailIsDue, IInv, StepInv
  <2>4. CASE pc \in {"recoverUnmark", "unmark"}
    BY <2>4 DEF TailIsDue
  <2> QED BY <2>1, <2>2, <2>3, <2>4 DEF MarkerSteps
<1> QED BY <1>3, <1>4

\* Every step keeps what holds while nothing is left half done.
LEMMA WholeStep ==
  ASSUME IInv, IInv', CountedInv, TailInv, ReadyInv, WholeInv, Next
  PROVE  WholeInv'
<1> SUFFICES ASSUME faulted' = {} PROVE WholeInv'
  BY DEF WholeInv
<1>1. faulted = {} /\ Uncut /\ Uncut'
  BY FaultsStay DEF Uncut
<1>2. Size \in Nat
  BY SizeFacts
<1>3. hist'.end = "line" /\ ~hist'.joined /\ ~hist'.away
  <2>1. CASE hist' = NewHistory /\ pc = "write"
    BY <1>1, <2>1 DEF WholeInv, NewHistory, Extended
  <2> QED BY <1>1, <2>1, WholeHistorySteps DEF WholeInv, Empty
<1>4. tail'.end = "line" /\ ~tail'.joined
  <2>1. CASE pc \in TailSteps /\ tail' = NewTail
    BY <1>1, <2>1 DEF WholeInv, NewTail, TailAfterAppend, Empty, TailSteps
  <2> QED BY <1>1, <2>1, WholeTailSteps DEF WholeInv
<1>5. marker' # Absent => Size' \in {marker'.old, marker'.new}
  <2> HAVE marker' # Absent
  <2>1. CASE hist' = hist /\ marker' = marker
    BY <1>1, <2>1 DEF WholeInv, Size
  <2>2. CASE hist' = hist /\ marker' # marker
    <3>1. pc = "stage" /\ marker' = NewMarker
      BY <1>1, <2>2, MarkerChanges, MarkerTypes
    <3>2. marker'.old = meta.count /\ Size = meta.count
      BY <1>1, <3>1, MarkerTypes, WriteAtEnd DEF MarkerSteps
    <3> QED BY <2>2, <3>2 DEF Size
  <2>3. CASE pc = "write" /\ hist' = NewHistory /\ marker' = marker
    <3>1. meta.count = marker.old /\ marker.new = marker.old + Len(op.batch)
      BY <2>3 DEF IInv, StepInv
    <3>2. Size' = Size + Len(op.batch)
      BY <2>3, WriteExtends DEF Extends, Size
    <3> QED BY <1>1, <2>3, <3>1, <3>2, WriteAtEnd
  <2>4. CASE pc = "clearHistory" /\ marker' = marker
    BY <2>4 DEF IInv, StepInv
  <2> QED BY <1>1, <2>1, <2>2, <2>3, <2>4, WholeHistorySteps
<1>6. ASSUME TailIsDue' PROVE IsTail(hist'.recs, tail'.recs, Size')
  <2>1. CASE /\ pc \in TailSteps /\ hist' = hist /\ tail' = NewTail
             /\ pc = "tail" => AppendedReadBack
    <3>1. IsTail(hist.recs, NewTail.recs, Size) /\ Size' = Size
      BY <1>1, <2>1, WrittenTail DEF Size
    <3> QED BY <2>1, <3>1
  <2>2. CASE tail'.recs = tail.recs /\ ~StoreTail /\ hist' = hist
    <3>1. TailIsDue
      BY <1>6, <2>2, DueBefore
    <3>2. IsTail(hist.recs, tail.recs, Size) /\ Size' = Size
      BY <1>1, <2>2, <3>1 DEF WholeInv, Size
    <3> QED BY <2>2, <3>2
  <2>3. ~(pc = "write" /\ pc' \in {"tail", "idle"} /\ hist' = NewHistory
            /\ marker' = marker)
    <3> SUFFICES ASSUME pc = "write", pc' \in {"tail", "idle"},
                        hist' = NewHistory, marker' = marker
                 PROVE  FALSE
      OBVIOUS
    <3>1. /\ marker # Absent /\ op \in Operations /\ op.kind = "append"
          /\ meta.count = marker.old
      BY DEF IInv, StepInv
    <3>2. Len(op.batch) \in Nat \ {0} /\ Size' = Size + Len(op.batch)
      BY <3>1, OperationTypes, WriteExtends DEF Extends, Size
    <3>3. Size' # marker'.old
      BY <1>1, <1>2, <3>1, <3>2, WriteAtEnd
    <3> QED BY <1>6, <3>1, <3>3 DEF TailIsDue
  <2>4. ~(pc = "clearHistory" /\ pc' = "clearTail" /\ marker' = marker)
    BY <1>6 DEF TailIsDue, IInv, StepInv
  <2> QED BY <2>1, <2>2, <2>3, <2>4, WholeHistorySteps, WholeTailSteps
<1> QED BY <1>3, <1>4, <1>5, <1>6 DEF WholeInv

\* The tail of all counted records agrees with the metadata.
LEMMA TailAgrees ==
  ASSUME IInv, CountedInv, Uncut, IsTail(hist.recs, tail.recs, Size),
         meta.count = Size,
         ~tail.away, ~tail.joined, tail.end # "torn"
  PROVE  TailMatches
<1>1. PICK m \in Nat : m = Len(tail.recs)
  BY SizeFacts
<1>2. /\ Size \in Nat /\ TailLimit \in Nat \ {0}
      /\ m = IF Size <= TailLimit THEN Size ELSE TailLimit
      /\ \A i \in 1..m : tail.recs[i] = hist.recs[Size - m + i]
  BY <1>1, SizeFacts, LimitAssumption DEF IsTail
<1>3. \A i \in 1..m : tail.recs[i].seq = Size - m + i
  <2> TAKE i \in 1..m
  <2>1. Size - m + i \in 1..Size
    BY <1>2
  <2>2. hist.recs[Size - m + i].seq = Size - m + i
    BY <2>1, SeqIsPosition
  <2> QED BY <1>2, <2>2
<1>4. Readable(tail)
  <2>1. ASSUME NEW i \in 1..m - 1
        PROVE  tail.recs[i + 1].seq = tail.recs[i].seq + 1
    <3>1. i \in 1..m /\ i + 1 \in 1..m
      OBVIOUS
    <3> QED BY <1>2, <1>3, <3>1
  <2> QED BY <1>1, <2>1 DEF Readable
<1>5. CASE Size = 0
  BY <1>1, <1>2, <1>4, <1>5 DEF TailMatches
<1>6. CASE Size # 0
  <2>1. m \in 1..Size /\ 1 \in 1..m /\ m \in 1..m
    BY <1>2, <1>6
  <2>2. LastSeq(tail.recs) = Size /\ tail.recs[1].seq = Size - m + 1
    <3>1. tail.recs[m].seq = Size - m + m /\ tail.recs[1].seq = Size - m + 1
      BY <1>3, <2>1
    <3>2. Size - m + m = Size
      BY <1>2
    <3> QED BY <1>1, <3>1, <3>2 DEF LastSeq
  <2> QED BY <1>1, <1>4, <1>6, <2>1, <2>2 DEF TailMatches
<1> QED BY <1>5, <1>6

\* Between operations a chat with nothing half done can be loaded.
LEMMA WholeLoads ==
  ASSUME IInv, CountedInv, WholeInv, faulted = {}, pc = "idle"
  PROVE  Loads
<1>1. Uncut /\ Size \in Nat
  BY SizeFacts DEF Uncut
<1>2. Readable(hist)
  <2>1. ASSUME NEW i \in 1..Size - 1
        PROVE  hist.recs[i + 1].seq = hist.recs[i].seq + 1
    <3>1. i \in 1..Size /\ i + 1 \in 1..Size
      BY <1>1
    <3> QED BY <1>1, <3>1, SeqIsPosition
  <2> QED BY <2>1 DEF WholeInv, Readable, Size
<1>3. Complete(hist.recs, Size)
  BY <1>1, SizeFacts, SeqIsPosition DEF CountedInv, Complete, Size
<1>4. marker # Absent => Uncommitted \/ Committed
  BY <1>2, <1>3 DEF WholeInv, Uncommitted, Committed
<1>5. ASSUME marker = Absent \/ Uncommitted
      PROVE  TailMatches \/ (tail.away /\ TailRebuilds)
  <2>1. meta.count = Size
    <3>1. CASE marker = Absent
      BY <1>1, <3>1 DEF CountedInv
    <3>2. CASE marker # Absent
      <4>1. Size = marker.old
        BY <1>5, <3>2 DEF Uncommitted, Complete, Size
      <4>2. marker.old < marker.new /\ marker.old \in Nat /\ marker.new \in Nat
        BY <3>2, SizeFacts DEF IInv, MarkedInv
      <4>3. ~Appended
        BY <1>1, <4>1, <4>2, SeqIsPosition DEF Appended
      <4> QED BY <3>2, <4>1, <4>3 DEF IInv, MarkedInv
    <3> QED BY <3>1, <3>2
  <2>2. CASE tail.away
    BY <1>2, <1>3, <2>1, <2>2 DEF TailRebuilds
  <2>3. CASE ~tail.away
    <3>1. TailIsDue
      BY <1>5 DEF TailIsDue, Uncommitted, Complete, Size
    <3>2. IsTail(hist.recs, tail.recs, Size) /\ tail.end = "line" /\ ~tail.joined
      BY <3>1 DEF WholeInv
    <3> QED BY <1>1, <2>1, <2>3, <3>2, TailAgrees
  <2> QED BY <2>2, <2>3
<1> QED BY <1>4, <1>5 DEF Loads

-----------------------------------------------------------------------------
(* The theorems *)

\* It all holds in the beginning.
LEMMA ReadInit == Init => ReadInv /\ WholeInv
<1> SUFFICES ASSUME Init PROVE ReadInv /\ WholeInv
  OBVIOUS
<1>1. /\ hist = Empty /\ tail = Empty /\ meta.count = 0 /\ marker = Absent
      /\ pc = "idle" /\ reported = "none"
  BY DEF Init
<1>2. Size = 0 /\ hist.recs = << >> /\ tail.recs = << >>
  BY <1>1 DEF Size, Empty
<1>3. IsTail(hist.recs, tail.recs, 0)
  BY <1>2, LimitAssumption DEF IsTail
<1>4. ReadInv
  BY <1>1, <1>2, <1>3
     DEF ReadInv, CountedInv, TailInv, ReadyInv, ReadsAreConsistent, SuccessIsListed
<1>5. WholeInv
  BY <1>1, <1>2, <1>3 DEF WholeInv, Empty
<1> QED BY <1>4, <1>5

\* Every step keeps it.
LEMMA ReadStep == IInv /\ IInv' /\ ReadInv /\ WholeInv /\ [Next]_vars
                    => ReadInv' /\ WholeInv'
<1> SUFFICES ASSUME IInv, IInv', ReadInv, WholeInv, [Next]_vars
             PROVE  ReadInv' /\ WholeInv'
  OBVIOUS
<1>1. CASE Next
  <2>1. CountedInv'
    BY <1>1, CountedStep DEF ReadInv
  <2>2. TailInv' /\ ReadyInv'
    BY <1>1, TailStep, ReadyStep DEF ReadInv
  <2>3. ReadsAreConsistent' /\ SuccessIsListed'
    BY <1>1, <2>1, ReportStep DEF ReadInv
  <2>4. WholeInv'
    BY <1>1, WholeStep DEF ReadInv
  <2> QED BY <2>1, <2>2, <2>3, <2>4 DEF ReadInv
<1>2. CASE UNCHANGED vars
  <2>1. UNCHANGED <<hist, tail, meta, index, marker, op, pc, reported, faulted>>
    BY <1>2 DEF vars
  <2>2. CountedInv' /\ ReadyInv'
    BY <2>1 DEF ReadInv, CountedInv, ReadyInv, Uncut, Size, TailMatches, Readable
  <2>3. TailInv'
    BY <2>1 DEF ReadInv, TailInv, Uncut, Size
  <2>4. ReadsAreConsistent' /\ SuccessIsListed'
    BY <2>1 DEF ReadInv, ReadsAreConsistent, SuccessIsListed
  <2>5. WholeInv'
    BY <2>1 DEF WholeInv, TailIsDue, Size
  <2> QED BY <2>2, <2>3, <2>4, <2>5 DEF ReadInv
<1> QED BY <1>1, <1>2

\* What is read agrees with what was written, as long as no clear is cut: the
\* invariant that carries the reads and the reports of success.
THEOREM ReadInvariant == Spec => [](ReadInv /\ WholeInv)
<1>1. Init => ReadInv /\ WholeInv
  BY ReadInit
<1>2. IInv /\ IInv' /\ ReadInv /\ WholeInv /\ [Next]_vars => ReadInv' /\ WholeInv'
  BY ReadStep
<1> QED BY <1>1, <1>2, HistoryInvariant, PTL DEF Spec

\* A load or a page that succeeds returns the log: the count is its length,
\* the context its last messages.
THEOREM ReadsConsistent == Spec => []ReadsAreConsistent
<1>1. ReadInv => ReadsAreConsistent
  BY DEF ReadInv
<1> QED BY <1>1, ReadInvariant, PTL

\* An append, a clear or a save that succeeds is in the list of chats.
THEOREM SuccessListed == Spec => []SuccessIsListed
<1>1. ReadInv => SuccessIsListed
  BY DEF ReadInv
<1> QED BY <1>1, ReadInvariant, PTL

\* Interruptions that leave no effect half done never lock a chat.
THEOREM WholeUnlocked == Spec => []WholeNeverLocked
<1>1. IInv /\ ReadInv /\ WholeInv => WholeNeverLocked
  BY WholeLoads DEF ReadInv, WholeNeverLocked, NeverLocked
<1> QED BY <1>1, HistoryInvariant, ReadInvariant, PTL

-----------------------------------------------------------------------------
(* The refinement: every step of ChatHistory is one step of ChatLog's log or *)
(* leaves it alone.  First the mapped state, and the log's steps in it.      *)

LogNow == [i \in Kept |-> hist.recs[i].msg]
Asked == IF pc = "idle" THEN NoOperation ELSE op
Done == \/ pc \in {"tail", "meta", "index", "unmark"} /\ Appended
        \/ pc \in {"clearTail", "clearMeta", "clearIndex"}

Changing(o) == o.kind \in {"append", "clear"}

\* What changes nothing the log shows is a stutter.
LEMMA StutterStep ==
  ASSUME LogNow' = LogNow, Asked' = Asked, Done' <=> Done,
         reported' = reported
  PROVE  [Log!LogNext]_(Log!lvars)
BY DEF Log!lvars, LogNow, Asked, Done

\* A step that asks.
LEMMA AskStep ==
  ASSUME NEW o \in Operations, Asked = NoOperation, Asked' = o, ~Done',
         reported' = "none", LogNow' = LogNow
  PROVE  [Log!LogNext]_(Log!lvars)
<1>1. Log!Ask(o)
  BY DEF Log!Ask, LogNow, Asked, Done
<1> QED BY <1>1 DEF Log!LogNext

\* A step that takes effect.
LEMMA TakeEffectStep ==
  ASSUME Asked # NoOperation, Changing(Asked), ~Done, Done', Asked' = Asked,
         reported' = reported,
         LogNow' = IF Asked.kind = "append" THEN LogNow \o Asked.batch ELSE << >>
  PROVE  [Log!LogNext]_(Log!lvars)
<1>1. Log!TakeEffect
  BY DEF Log!TakeEffect, Log!Applied, Log!Changes, Changing, LogNow, Asked, Done
<1> QED BY <1>1 DEF Log!LogNext

\* A step that reports success.
LEMMA SucceedStep ==
  ASSUME Asked # NoOperation, Changing(Asked) => Done, Asked' = NoOperation,
         ~Done', reported' = "ok", LogNow' = LogNow
  PROVE  [Log!LogNext]_(Log!lvars)
<1>1. Log!Succeed
  BY DEF Log!Succeed, Log!Changes, Changing, LogNow, Asked, Done
<1> QED BY <1>1 DEF Log!LogNext

\* A step that gives up, having taken effect or not.
LEMMA GiveUpStep ==
  ASSUME Asked # NoOperation, Asked' = NoOperation, ~Done',
         reported' \in {"error", "none"},
         \/ LogNow' = LogNow
         \/ /\ Changing(Asked) /\ ~Done
            /\ LogNow' = IF Asked.kind = "append" THEN LogNow \o Asked.batch
                                                  ELSE << >>
  PROVE  [Log!LogNext]_(Log!lvars)
<1>1. Log!GiveUp
  BY DEF Log!GiveUp, Log!Applied, Log!Changes, Changing, LogNow, Asked, Done
<1> QED BY <1>1 DEF Log!LogNext

\* An operation in progress is one of the requests.
LEMMA InProgress ==
  ASSUME IInv, pc # "idle"
  PROVE  Asked = op /\ op \in Operations /\ Asked # NoOperation
<1>1. op \in Operations
  BY DEF IInv, StepInv
<1>2. op.kind # Absent
  BY <1>1, OperationTypes, AbsentAssumption
<1> QED BY <1>1, <1>2 DEF Asked, NoOperation

\* A step of one operation to the next effect, the log as it was.
LEMMA GotoStep ==
  ASSUME IInv, pc # "idle", pc' # "idle", op' = op, reported' = reported,
         LogNow' = LogNow, Done' <=> Done
  PROVE  [Log!LogNext]_(Log!lvars)
<1>1. Asked' = Asked
  BY DEF Asked
<1> QED BY <1>1, StutterStep

\* The log depends on the history and the marker only.
LEMMA SameLog ==
  ASSUME hist' = hist, marker' = marker
  PROVE  LogNow' = LogNow /\ (Appended' <=> Appended)
BY DEF LogNow, Kept, Appended

-----------------------------------------------------------------------------
(* What is kept of the history *)

\* No number is above the last one.
LEMMA NumbersBelow ==
  ASSUME NEW recs \in Seq(Record), Consecutive(recs), NEW i \in 1..Len(recs)
  PROVE  recs[i].seq <= LastSeq(recs) /\ recs # << >>
<1>1. PICK n \in Nat : n = Len(recs)
  BY LenProperties
<1>2. i \in 1..n /\ n \in 1..n /\ 1 \in 1..n
  BY <1>1
<1>3. PICK f \in Nat : f = recs[1].seq
  <2>1. recs[1] \in Record
    BY <1>1, <1>2, ElementOfSeq
  <2> QED BY <2>1 DEF Record
<1>4. recs[i].seq = f + i - 1 /\ recs[n].seq = f + n - 1
  BY <1>1, <1>2, <1>3 DEF Consecutive
<1>5. f + i - 1 <= f + n - 1
  BY <1>2
<1> QED BY <1>1, <1>2, <1>4, <1>5, EmptySeq DEF LastSeq

\* All of it is, unless a marked append is there in part.
LEMMA WholeLog ==
  ASSUME IInv, marker = Absent \/ Appended \/ EndsAt(marker.old)
  PROVE  Kept = 1..Len(hist.recs)
<1>1. hist.recs \in Seq(Record) /\ Consecutive(hist.recs)
  BY DEF IInv, TypeOK, LineFile, NumberedInv
<1>2. CASE marker = Absent \/ Appended
  BY <1>2 DEF Kept
<1>3. CASE EndsAt(marker.old)
  <2>1. \A i \in 1..Len(hist.recs) : hist.recs[i].seq <= marker.old
    <3> TAKE i \in 1..Len(hist.recs)
    <3>1. hist.recs[i].seq <= LastSeq(hist.recs) /\ hist.recs # << >>
      BY <1>1, NumbersBelow
    <3> QED BY <1>3, <3>1 DEF EndsAt
  <2> QED BY <2>1 DEF Kept
<1> QED BY <1>2, <1>3

\* Setting or removing the marker does not change the log.
LEMMA MarkerKeepsLog ==
  ASSUME IInv, pc \in MarkerSteps, hist' = hist, marker' \in {marker, NewMarker}
  PROVE  LogNow' = LogNow
<1>1. CASE marker' = marker
  BY <1>1, SameLog
<1>2. CASE marker' = NewMarker /\ pc = "stage"
  <2>1. marker = Absent /\ EndsAt(meta.count) /\ marker'.old = meta.count
    BY <1>2, MarkerTypes DEF IInv, StepInv
  <2>2. Kept = 1..Len(hist.recs)
    BY <2>1, WholeLog
  <2>3. \A i \in 1..Len(hist.recs) : hist.recs[i].seq <= meta.count
    <3> TAKE i \in 1..Len(hist.recs)
    <3>1. hist.recs[i].seq <= LastSeq(hist.recs) /\ hist.recs # << >>
      BY NumbersBelow DEF IInv, TypeOK, LineFile, NumberedInv
    <3> QED BY <2>1, <3>1 DEF EndsAt
  <2>4. Kept' = 1..Len(hist.recs)
    BY <2>1, <2>3 DEF Kept
  <2> QED BY <2>2, <2>4 DEF LogNow
<1>3. CASE marker' = NewMarker /\ pc # "stage"
  <2>1. Appended \/ EndsAt(marker.old)
    BY <1>3 DEF IInv, TypeOK, StepInv, MarkedInv, MarkerSteps, Complete, EndsAt,
       Appended
  <2>2. Kept = 1..Len(hist.recs)
    BY <2>1, WholeLog
  <2>3. marker' = Absent
    BY <1>3 DEF NewMarker
  <2>4. Kept' = 1..Len(hist.recs)
    BY <2>3 DEF Kept
  <2> QED BY <2>2, <2>4 DEF LogNow
<1> QED BY <1>1, <1>2, <1>3

\* The elements of two sequences of messages, one behind the other.
LEMMA BothSequences ==
  ASSUME NEW s \in Seq(Message), NEW t \in Seq(Message),
         NEW n, NEW b, Len(s) = n, Len(t) = b
  PROVE  /\ s \o t \in Seq(Message) /\ Len(s \o t) = n + b
         /\ \A i \in 1..n + b : (s \o t)[i] = IF i <= n THEN s[i] ELSE t[i - n]
BY ConcatProperties

\* Writing the first k records of an append changes the log when k is all of
\* them, and not before.
LEMMA WriteChangesLog ==
  ASSUME IInv, pc = "write", marker' = marker,
         NEW k \in 0..Len(op.batch), Extends(hist', k)
  PROVE  /\ ~Appended
         /\ k = Len(op.batch) => Appended' /\ LogNow' = LogNow \o op.batch
         /\ k # Len(op.batch) => ~Appended' /\ LogNow' = LogNow
<1>1. /\ op \in Operations /\ op.kind = "append" /\ meta.count = marker.old
      /\ marker.new = marker.old + Len(op.batch) /\ marker # Absent
      /\ marker.old \in Nat /\ marker.new \in Nat /\ EndsAt(marker.old)
      /\ hist.recs \in Seq(Record)
  BY DEF IInv, StepInv, TypeOK, LineFile
<1>2. op.batch \in Seq(Message) /\ Len(op.batch) \in Nat \ {0}
  BY <1>1, OperationTypes
<1>3. PICK n \in Nat, b \in Nat : n = Len(hist.recs) /\ b = Len(op.batch)
  BY <1>1, <1>2, LenProperties
<1>b. b # 0
  BY <1>2, <1>3
<1>4. Kept = 1..n /\ ~Appended
  <2>1. Kept = 1..n
    BY <1>1, <1>3, WholeLog
  <2> QED BY <1>1, <1>2, <2>1 DEF EndsAt, Appended
<1>5. \A i \in 1..n : hist.recs[i].msg \in Message /\ hist.recs[i].seq <= marker.old
  <2> TAKE i \in 1..n
  <2>1. hist.recs[i].seq <= LastSeq(hist.recs) /\ hist.recs # << >>
    BY <1>3, NumbersBelow DEF IInv, TypeOK, LineFile, NumberedInv
  <2>2. hist.recs[i].msg \in Message
    <3>1. hist.recs[i] \in Record
      BY <1>1, <1>3, ElementOfSeq
    <3> QED BY <3>1 DEF Record
  <2> QED BY <1>1, <2>1, <2>2 DEF EndsAt
<1>6. LogNow = [i \in 1..n |-> hist.recs[i].msg]
  BY <1>4 DEF LogNow
<1>7. LogNow \in Seq(Message) /\ Len(LogNow) = n
  <2>1. LogNow \in [1..n -> Message] /\ DOMAIN LogNow = 1..n
    BY <1>5, <1>6
  <2>2. LogNow \in Seq(Message)
    BY <2>1, SeqDef
  <2> QED BY <2>1, <2>2, LenProperties
<1>8. /\ Len(hist'.recs) = n + k /\ hist'.recs \in Seq(Record)
      /\ \A i \in 1..n : hist'.recs[i] = hist.recs[i]
      /\ \A i \in 1..k : hist'.recs[n + i]
                           = [seq |-> marker.old + i, msg |-> op.batch[i]]
      /\ hist'.recs # << >> => LastSeq(hist'.recs) = marker.old + k
  BY <1>1, <1>3 DEF Extends, LineFile
<1>9. ASSUME k = Len(op.batch)
      PROVE  Appended' /\ LogNow' = LogNow \o op.batch
  <2>1. hist'.recs # << >>
    <3>1. Len(hist'.recs) = n + b
      BY <1>3, <1>8, <1>9
    <3>2. n + b # 0
      BY <1>b
    <3> QED BY <3>1, <3>2, EmptySeq
  <2>2. Appended'
    BY <1>1, <1>2, <1>8, <1>9, <2>1 DEF Appended
  <2>3. Kept' = 1..n + b
    BY <1>3, <1>8, <1>9, <2>2 DEF Kept
  <2>4. LogNow' = [i \in 1..n + b |-> hist'.recs[i].msg]
    BY <2>3 DEF LogNow
  <2> DEFINE both == LogNow \o op.batch
  <2>5. /\ both \in Seq(Message) /\ Len(both) = n + b
        /\ \A i \in 1..n + b :
             both[i] = IF i <= n THEN LogNow[i] ELSE op.batch[i - n]
    <3>1. Len(op.batch) = b
      BY <1>3
    <3>2. \A s, t \in Seq(Message) : Len(s) = n /\ Len(t) = b =>
            /\ s \o t \in Seq(Message) /\ Len(s \o t) = n + b
            /\ \A i \in 1..n + b :
                 (s \o t)[i] = IF i <= n THEN s[i] ELSE t[i - n]
      BY BothSequences
    <3>3. LogNow \in Seq(Message) /\ op.batch \in Seq(Message)
      BY <1>2, <1>7
    <3>4. Len(LogNow) = n
      BY <1>7
    <3> QED BY <3>1, <3>2, <3>3, <3>4, Zenon
  <2> HIDE DEF both
  <2>6. both = [i \in 1..n + b |-> both[i]]
    BY <2>5, LenProperties
  <2>7. ASSUME NEW i \in 1..n + b
        PROVE  hist'.recs[i].msg = both[i]
    <3>1. CASE i <= n
      <4>1. i \in 1..n
        BY <3>1
      <4>2. hist'.recs[i] = hist.recs[i] /\ LogNow[i] = hist.recs[i].msg
        BY <1>6, <1>8, <4>1
      <4> QED BY <2>5, <3>1, <4>2
    <3>2. CASE i > n
      <4>1. i - n \in 1..b /\ n + (i - n) = i /\ ~(i <= n)
        BY <3>2
      <4>2. i - n \in 1..k
        BY <1>3, <1>9, <4>1
      <4>3. hist'.recs[n + (i - n)]
              = [seq |-> marker.old + (i - n), msg |-> op.batch[i - n]]
        BY <1>8, <4>2
      <4>4. hist'.recs[i] = hist'.recs[n + (i - n)]
        BY <4>1
      <4>5. hist'.recs[i].msg = op.batch[i - n]
        BY <4>3, <4>4
      <4>6. both[i] = op.batch[i - n]
        BY <2>5, <4>1
      <4> QED BY <4>5, <4>6
    <3> QED BY <3>1, <3>2
  <2>8. LogNow' = both
    BY <2>4, <2>6, <2>7
  <2> QED BY <2>2, <2>8 DEF both
<1>10. ASSUME k # Len(op.batch)
       PROVE  ~Appended' /\ LogNow' = LogNow
  <2>1. ~Appended'
    BY <1>1, <1>2, <1>8, <1>10 DEF Appended
  <2>2. ASSUME NEW i \in 1..n + k
        PROVE  hist'.recs[i].seq <= marker.old <=> i \in 1..n
    <3>1. CASE i <= n
      BY <1>5, <1>8, <3>1
    <3>2. CASE i > n
      <4>1. PICK j \in 1..k : i = n + j
        <5>1. i - n \in 1..k /\ i = n + (i - n)
          BY <3>2
        <5> QED BY <5>1
      <4>2. hist'.recs[n + j] = [seq |-> marker.old + j, msg |-> op.batch[j]]
        BY <1>8
      <4>3. hist'.recs[n + j].seq = marker.old + j
        BY <4>2
      <4>4. ~(marker.old + j <= marker.old)
        BY <1>1
      <4> QED BY <3>2, <4>1, <4>3, <4>4
    <3> QED BY <3>1, <3>2
  <2>3. Kept' = {i \in 1..n + k : hist'.recs[i].seq <= marker.old}
    BY <1>1, <1>8, <2>1 DEF Kept
  <2>4. Kept' = 1..n
    BY <2>2, <2>3
  <2> QED BY <1>6, <1>8, <2>1, <2>4 DEF LogNow
<1> QED BY <1>4, <1>9, <1>10

-----------------------------------------------------------------------------
(* One step *)

\* The start of an operation asks.
LEMMA StartRefines ==
  ASSUME IInv, NEW o \in Operations, Start(o)
  PROVE  [Log!LogNext]_(Log!lvars)
<1>1. /\ pc = "idle" /\ pc' = "recover" /\ op' = o /\ reported' = "none"
      /\ hist' = hist /\ marker' = marker
  BY DEF Start, disk
<1>2. Asked = NoOperation /\ Asked' = o /\ ~Done'
  BY <1>1 DEF Asked, Done
<1> QED BY <1>1, <1>2, SameLog, AskStep

\* The decision of recoverPendingAppend.
LEMMA RecoverRefines ==
  ASSUME IInv, Recover
  PROVE  [Log!LogNext]_(Log!lvars)
<1>1. pc = "recover" /\ op' = op /\ hist' = hist /\ marker' = marker
  BY DEF Recover, Goto, Return, disk
<1>2. Asked = op /\ Asked # NoOperation /\ ~Done /\ LogNow' = LogNow
  BY <1>1, InProgress, SameLog DEF Done
<1>3. CASE reported' = reported /\ pc' \in {"check", "recoverDrop", "recoverTail"}
  BY <1>1, <1>2, <1>3, GotoStep DEF Done
<1>4. CASE reported' = "error" /\ pc' = "idle"
  <2>1. Asked' = NoOperation /\ ~Done'
    BY <1>4 DEF Asked, Done
  <2> QED BY <1>2, <1>4, <2>1, GiveUpStep
<1> QED BY <1>3, <1>4 DEF Recover, Goto, Return

\* The check of the tail: a read reports, a refusal gives up.
LEMMA CheckRefines ==
  ASSUME IInv, Check
  PROVE  [Log!LogNext]_(Log!lvars)
<1>1. pc = "check" /\ op' = op /\ hist' = hist /\ marker' = marker
  BY DEF Check, Preflight, Goto, Return, disk
<1>2. Asked = op /\ Asked # NoOperation /\ ~Done /\ LogNow' = LogNow
  BY <1>1, InProgress, SameLog DEF Done
<1>3. CASE /\ reported' = reported
           /\ pc' \in {"saveMeta", "rebuild", "clearHistory", "stage"}
  BY <1>1, <1>2, <1>3, GotoStep DEF Done
<1>4. CASE reported' = "error" /\ pc' = "idle"
  <2>1. Asked' = NoOperation /\ ~Done'
    BY <1>4 DEF Asked, Done
  <2> QED BY <1>2, <1>4, <2>1, GiveUpStep
<1>5. CASE reported' = "ok" /\ pc' = "idle" /\ op.kind \in {"page", "draft", "load"}
  <2>1. Asked' = NoOperation /\ ~Done' /\ ~Changing(Asked)
    BY <1>2, <1>5 DEF Asked, Done, Changing
  <2> QED BY <1>2, <1>5, <2>1, SucceedStep
<1> QED BY <1>3, <1>4, <1>5 DEF Check, Preflight, Goto, Return

\* The write leaves the history with the first k records: the log changes if
\* that is all of them.
LEMMA WriteRefines ==
  ASSUME IInv, pc = "write", pc' = "tail", UNCHANGED <<op, marker, reported>>,
         NEW k \in 0..Len(op.batch), Extends(hist', k)
  PROVE  [Log!LogNext]_(Log!lvars)
<1>1. /\ Asked = op /\ Asked # NoOperation /\ Asked' = Asked /\ ~Done
      /\ op.kind = "append"
  BY InProgress DEF Asked, Done, IInv, StepInv
<1>2. CASE k = Len(op.batch)
  <2>1. Done' /\ LogNow' = LogNow \o op.batch
    BY <1>2, WriteChangesLog DEF Done
  <2> QED BY <1>1, <2>1, TakeEffectStep DEF Changing
<1>3. CASE k # Len(op.batch)
  <2>1. ~Done' /\ LogNow' = LogNow
    BY <1>3, WriteChangesLog DEF Done
  <2> QED BY <1>1, <2>1, StutterStep
<1> QED BY <1>2, <1>3

\* The write of the history takes effect, so does its removal.
LEMMA StoreHistoryRefines ==
  ASSUME IInv, StoreHistory
  PROVE  [Log!LogNext]_(Log!lvars)
<1>1. CASE pc = "write"
  <2>1. /\ hist' = NewHistory /\ pc' = "tail"
        /\ UNCHANGED <<op, marker, reported>>
    BY <1>1, FollowingValues DEF StoreHistory, Proceed, Goto
  <2>2. Extends(hist', Len(op.batch)) /\ Len(op.batch) \in Nat
    BY <1>1, <2>1, WriteExtends, InProgress, OperationTypes, LenProperties
  <2> QED BY <1>1, <2>1, <2>2, WriteRefines
<1>2. CASE pc = "clearHistory"
  <2>1. /\ hist' = Empty /\ pc' = "clearTail"
        /\ UNCHANGED <<op, marker, reported>>
    BY <1>2, FollowingValues DEF StoreHistory, Proceed, Goto, NewHistory
  <2>2. /\ Asked = op /\ Asked # NoOperation /\ Asked' = Asked /\ ~Done /\ Done'
        /\ op.kind = "clear"
    BY <1>2, <2>1, InProgress DEF Asked, Done, IInv, StepInv
  <2>3. LogNow' = << >>
    BY <2>1 DEF LogNow, Kept, Empty
  <2> QED BY <2>1, <2>2, <2>3, TakeEffectStep DEF Changing
<1> QED BY <1>1, <1>2 DEF StoreHistory, HistorySteps

\* The tail is not in the log.
LEMMA StoreTailRefines ==
  ASSUME IInv, StoreTail
  PROVE  [Log!LogNext]_(Log!lvars)
<1>1. /\ UNCHANGED <<hist, marker, op, reported>> /\ pc \in TailSteps
      /\ pc' = Following[pc] /\ pc # "idle" /\ pc' # "idle"
  BY FollowingValues DEF StoreTail, Proceed, Goto, TailSteps
<1>2. LogNow' = LogNow /\ (Done' <=> Done)
  BY <1>1, SameLog, FollowingValues DEF Done, TailSteps
<1> QED BY <1>1, <1>2, GotoStep

\* A rejected append gives up.
LEMMA AppendRejectedRefines ==
  ASSUME IInv, AppendRejected
  PROVE  [Log!LogNext]_(Log!lvars)
<1>1. /\ UNCHANGED <<hist, marker>> /\ pc = "tail" /\ pc' = "idle"
      /\ reported' = "error"
  BY DEF AppendRejected, Return, disk
<1>2. Asked # NoOperation /\ Asked' = NoOperation /\ ~Done' /\ LogNow' = LogNow
  BY <1>1, InProgress, SameLog DEF Asked, Done
<1> QED BY <1>1, <1>2, GiveUpStep

\* The metadata are not in the log.
LEMMA StoreMetaRefines ==
  ASSUME IInv, StoreMeta
  PROVE  [Log!LogNext]_(Log!lvars)
<1>1. /\ UNCHANGED <<hist, marker, op, reported>> /\ pc \in MetaSteps
      /\ pc' = Following[pc] /\ pc # "idle" /\ pc' # "idle"
  BY FollowingValues DEF StoreMeta, Proceed, Goto, MetaSteps
<1>2. LogNow' = LogNow /\ (Done' <=> Done)
  BY <1>1, SameLog, FollowingValues DEF Done, MetaSteps
<1> QED BY <1>1, <1>2, GotoStep

\* The index line is not in the log; with it a clear or a save reports.
LEMMA StoreIndexRefines ==
  ASSUME IInv, StoreIndex
  PROVE  [Log!LogNext]_(Log!lvars)
<1>1. UNCHANGED <<hist, marker, op>> /\ LogNow' = LogNow
  BY SameLog DEF StoreIndex, Proceed, Goto, Return
<1>2. CASE pc \in {"recoverIndex", "index"}
  <2>1. reported' = reported /\ pc' \in {"recoverUnmark", "unmark"}
        /\ pc' = Following[pc]
    BY <1>2, FollowingValues DEF StoreIndex, Proceed, Goto
  <2>2. Done' <=> Done
    BY <1>1, <1>2, <2>1, SameLog, FollowingValues DEF Done
  <2> QED BY <1>1, <1>2, <2>1, <2>2, GotoStep
<1>3. CASE pc \in {"clearIndex", "saveIndex"}
  <2>1. reported' = "ok" /\ pc' = "idle"
    BY <1>3, FollowingValues DEF StoreIndex, Proceed, Return
  <2>2. /\ Asked # NoOperation /\ Asked' = NoOperation /\ ~Done'
        /\ Changing(Asked) => Done
    BY <1>3, <2>1, InProgress DEF Asked, Done, Changing, IInv, StepInv
  <2> QED BY <1>1, <2>1, <2>2, SucceedStep
<1> QED BY <1>2, <1>3 DEF StoreIndex, IndexSteps

\* The marker hides nothing when it is written or goes.
LEMMA StoreMarkerRefines ==
  ASSUME IInv, StoreMarker
  PROVE  [Log!LogNext]_(Log!lvars)
<1>1. UNCHANGED <<hist, op>> /\ LogNow' = LogNow
  BY MarkerKeepsLog DEF StoreMarker, Proceed, Goto, Return
<1>2. CASE pc # "unmark"
  <2>1. /\ reported' = reported /\ pc' \in {"check", "write"}
        /\ pc \in {"recoverDrop", "recoverUnmark", "stage"}
    BY <1>2, FollowingValues DEF StoreMarker, Proceed, Goto, MarkerSteps
  <2>2. ~Done /\ ~Done'
    BY <2>1 DEF Done
  <2> QED BY <1>1, <2>1, <2>2, GotoStep
<1>3. CASE pc = "unmark"
  <2>1. reported' = "ok" /\ pc' = "idle"
    BY <1>3, FollowingValues DEF StoreMarker, Proceed, Return
  <2>2. Appended
    BY <1>3 DEF IInv, StepInv, MarkedInv
  <2>3. Asked # NoOperation /\ Asked' = NoOperation /\ ~Done' /\ Done
    BY <1>3, <2>1, <2>2, InProgress DEF Asked, Done
  <2> QED BY <1>1, <2>1, <2>3, SucceedStep
<1> QED BY <1>2, <1>3

\* A short flush takes effect if it keeps the last record.
LEMMA FlushShortRefines ==
  ASSUME IInv, FlushShort
  PROVE  [Log!LogNext]_(Log!lvars)
<1>1. UNCHANGED <<op, marker, reported>> /\ pc' = Following[pc]
  BY DEF FlushShort
<1>2. CASE pc = "write" /\ hist' \in PartHistory
  <2>1. PICK k \in 0..Len(op.batch) : Extends(hist', k)
    BY <1>2, WriteExtends
  <2>2. pc' = "tail"
    BY <1>1, <1>2, FollowingValues
  <2> QED BY <1>1, <1>2, <2>1, <2>2, WriteRefines
<1>3. CASE pc \in TailSteps \ {"clearTail"} /\ UNCHANGED hist
  <2>1. pc # "idle" /\ pc' # "idle"
    BY <1>1, <1>3, FollowingValues DEF TailSteps
  <2>2. LogNow' = LogNow /\ (Done' <=> Done)
    BY <1>1, <1>3, SameLog, FollowingValues DEF Done, TailSteps
  <2> QED BY <1>1, <2>1, <2>2, GotoStep
<1> QED BY <1>2, <1>3 DEF FlushShort

\* An interruption gives up.
LEMMA InterruptRefines ==
  ASSUME IInv, Interrupt
  PROVE  [Log!LogNext]_(Log!lvars)
<1>1. /\ pc # "idle" /\ pc' = "idle" /\ op' = op
      /\ reported' \in {"error", "none"}
  BY DEF Interrupt
<1>2. Asked = op /\ Asked # NoOperation /\ Asked' = NoOperation /\ ~Done'
  BY <1>1, InProgress DEF Asked, Done
<1>3. CASE pc = "write"
  <2>1. PICK k \in 0..Len(op.batch) : Extends(hist', k)
    <3>1. hist' \in {hist, NewHistory} \cup PartHistory
      BY <1>3 DEF Interrupt, InterruptedHistory
    <3>2. hist \in PartHistory /\ Len(op.batch) \in Nat
      BY <1>1, InProgress, OperationTypes, LenProperties DEF PartHistory
    <3> QED BY <1>3, <3>1, <3>2, WriteExtends
  <2>2. marker' = marker
    BY <1>3 DEF Interrupt, MarkerSteps
  <2>3. LogNow' = LogNow \/ LogNow' = LogNow \o op.batch
    BY <1>3, <2>1, <2>2, WriteChangesLog
  <2>4. ~Done /\ op.kind = "append"
    BY <1>3 DEF Done, IInv, StepInv
  <2> QED BY <1>1, <1>2, <2>3, <2>4, GiveUpStep DEF Changing
<1>4. CASE pc = "clearHistory"
  <2>1. marker' = marker /\ marker = Absent /\ op.kind = "clear" /\ ~Done
    BY <1>4 DEF Interrupt, MarkerSteps, IInv, StepInv, Done
  <2>2. \/ hist' = hist
        \/ hist' = Empty
        \/ \E away \in BOOLEAN : hist' = [hist EXCEPT !.away = away]
    BY <1>4 DEF Interrupt, InterruptedHistory, Uncertain
  <2>3. CASE hist' = Empty
    <3>1. LogNow' = << >>
      BY <2>3 DEF LogNow, Kept, Empty
    <3> QED BY <1>1, <1>2, <2>1, <3>1, GiveUpStep DEF Changing
  <2>4. CASE hist' # Empty
    <3>1. hist'.recs = hist.recs
      BY <2>2, <2>4 DEF IInv, TypeOK, LineFile
    <3>2. LogNow' = LogNow
      BY <2>1, <3>1 DEF LogNow, Kept
    <3> QED BY <1>1, <1>2, <3>2, GiveUpStep
  <2> QED BY <2>3, <2>4
<1>5. CASE pc \notin {"write", "clearHistory"}
  <2>1. hist' = hist
    BY <1>5 DEF Interrupt, InterruptedHistory
  <2>2. LogNow' = LogNow
    <3>1. CASE pc \in MarkerSteps
      BY <2>1, <3>1, MarkerKeepsLog DEF Interrupt
    <3>2. CASE pc \notin MarkerSteps
      BY <2>1, <3>2, SameLog DEF Interrupt
    <3> QED BY <3>1, <3>2
  <2> QED BY <1>1, <1>2, <2>2, GiveUpStep
<1> QED BY <1>3, <1>4, <1>5

\* The history file is a log of whole appends and clears: ChatLog, for every
\* interruption and every way an append can be cut short.
THEOREM HistoryImplementsLog == Spec => ImplementsChatLog
<1>1. Init => Log!LogInit
  <2> SUFFICES ASSUME Init PROVE Log!LogInit
    OBVIOUS
  <2>1. Kept = {}
    BY DEF Init, Kept, Empty
  <2>2. [i \in Kept |-> hist.recs[i].msg] = << >>
    BY <2>1
  <2> QED BY <2>2 DEF Init, Log!LogInit
<1>2. IInv /\ [Next]_vars => [Log!LogNext]_(Log!lvars)
  <2> SUFFICES ASSUME IInv, [Next]_vars PROVE [Log!LogNext]_(Log!lvars)
    OBVIOUS
  <2>1. CASE \E o \in Operations : Start(o)
    BY <2>1, StartRefines
  <2>2. CASE Recover
    BY <2>2, RecoverRefines
  <2>3. CASE Check
    BY <2>3, CheckRefines
  <2>4. CASE StoreHistory
    BY <2>4, StoreHistoryRefines
  <2>5. CASE StoreTail
    BY <2>5, StoreTailRefines
  <2>6. CASE AppendRejected
    BY <2>6, AppendRejectedRefines
  <2>7. CASE StoreMeta
    BY <2>7, StoreMetaRefines
  <2>8. CASE StoreIndex
    BY <2>8, StoreIndexRefines
  <2>9. CASE StoreMarker
    BY <2>9, StoreMarkerRefines
  <2>10. CASE FlushShort
    BY <2>10, FlushShortRefines
  <2>11. CASE Interrupt
    BY <2>11, InterruptRefines
  <2>12. CASE UNCHANGED vars
    BY <2>12, SameLog, StutterStep DEF vars, Asked, Done
  <2> QED BY <2>1, <2>2, <2>3, <2>4, <2>5, <2>6, <2>7, <2>8, <2>9, <2>10,
             <2>11, <2>12 DEF Next
<1> QED BY <1>1, <1>2, HistoryInvariant, PTL DEF Spec, ImplementsChatLog, Log!LogSpec

=============================================================================
