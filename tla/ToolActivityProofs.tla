------------------------- MODULE ToolActivityProofs -------------------------
(* Proofs about ToolActivity, for any tools, sizes, faults and number of     *)
(* disturbances.                                                             *)
EXTENDS ToolActivity, SequenceTheorems, FunctionTheorems, FiniteSetTheorems,
        TLAPS

-----------------------------------------------------------------------------
(* Journals as sequences of lines *)

\* A line that may come behind every other one keeps a journal ordered.
LEMMA OrderedAppend ==
  ASSUME NEW s \in Seq(Line), NEW x \in Line, Ordered(s),
         \A e \in Lines(s) : Follows(e, x)
  PROVE  LET t == Append(s, x) IN
           t \in Seq(Line) /\ Ordered(t) /\ Lines(t) = Lines(s) \cup {x}
<1> DEFINE t == Append(s, x)
<1>1. PICK n \in Nat : n = Len(s)
  OBVIOUS
<1>2. t \in Seq(Line) /\ DOMAIN t = 1..n + 1 /\ DOMAIN s = 1..n
  BY <1>1
<1>3. (\A i \in 1..n : t[i] = s[i]) /\ t[n + 1] = x
  BY <1>1
<1> HIDE DEF t
<1>4. \A i \in 1..n : s[i] \in Lines(s)
  BY <1>2 DEF Lines
<1>5. Ordered(t)
  <2> SUFFICES ASSUME NEW i \in 1..n + 1, NEW j \in 1..n + 1, i < j
               PROVE  Follows(t[i], t[j])
    BY <1>2 DEF Ordered
  <2>1. CASE j \in 1..n
    <3>1. i \in 1..n
      BY <2>1
    <3> QED BY <2>1, <3>1, <1>2, <1>3 DEF Ordered
  <2>2. CASE j = n + 1
    <3>1. i \in 1..n
      BY <2>2
    <3> QED BY <2>2, <3>1, <1>3, <1>4
  <2> QED BY <2>1, <2>2
<1>6. Lines(t) = Lines(s) \cup {x}
  <2>1. \A i \in 1..n + 1 : i \in 1..n \/ i = n + 1
    OBVIOUS
  <2>2. \A i \in 1..n : i \in 1..n + 1
    OBVIOUS
  <2>3. n + 1 \in 1..n + 1
    OBVIOUS
  <2> QED BY <2>1, <2>2, <2>3, <1>2, <1>3, Zenon DEF Lines
<1> QED BY <1>2, <1>5, <1>6 DEF t

\* What the journal is after each change of the card.
LEMMA ConcatFacts ==
  ASSUME NEW a \in Seq(Line), NEW b \in Seq(Line), NEW x \in Line
  PROVE  /\ a \o b \in Seq(Line)
         /\ a \o Append(b, x) = Append(a \o b, x)
         /\ << >> \o b = b /\ b \o << >> = b
OBVIOUS

\* Dropping the previous generation keeps the order of the lines that remain.
LEMMA OrderedSuffix ==
  ASSUME NEW a \in Seq(Line), NEW b \in Seq(Line), Ordered(a \o b)
  PROVE  Ordered(b) /\ Lines(b) \subseteq Lines(a \o b)
<1>1. PICK m \in Nat, n \in Nat : m = Len(a) /\ n = Len(b)
  OBVIOUS
<1> DEFINE c == a \o b
<1>2. DOMAIN c = 1..m + n /\ DOMAIN b = 1..n /\ \A i \in 1..n : c[m + i] = b[i]
  BY <1>1
<1> HIDE DEF c
<1>3. \A i \in 1..n : m + i \in 1..m + n
  OBVIOUS
<1>4. Ordered(b)
  <2> SUFFICES ASSUME NEW i \in 1..n, NEW j \in 1..n, i < j
               PROVE  Follows(b[i], b[j])
    BY <1>2 DEF Ordered
  <2>1. m + i < m + j /\ m + i \in DOMAIN c /\ m + j \in DOMAIN c
    BY <1>2, <1>3
  <2>2. Follows(c[m + i], c[m + j])
    BY <2>1 DEF Ordered, c
  <2> QED BY <2>2, <1>2
<1>5. Lines(b) \subseteq Lines(c)
  BY <1>2, <1>3 DEF Lines
<1> QED BY <1>4, <1>5 DEF c

\* The number of the last line is the highest one.
LEMMA HighestIsLast ==
  ASSUME Journal \in Seq(Line), Ordered(Journal)
  PROVE  Highest \in Nat /\ \A e \in Lines(Journal) : e.seq <= Highest
<1>1. PICK n \in Nat : n = Len(Journal)
  OBVIOUS
<1>2. DOMAIN Journal = 1..n /\ \A i \in 1..n : Journal[i].seq \in Nat
  <2>1. DOMAIN Journal = 1..n
    BY <1>1
  <2>2. \A i \in 1..n : Journal[i] \in Line
    BY <1>1, ElementOfSeq
  <2> QED BY <2>1, <2>2 DEF Line
<1>3. Highest \in Nat
  <2>1. CASE Journal = << >>
    BY <2>1 DEF Highest
  <2>2. CASE Journal # << >>
    <3>1. n # 0
      BY <2>2, <1>1, EmptySeq
    <3>2. n \in 1..n
      BY <3>1
    <3> QED BY <2>2, <3>2, <1>1, <1>2 DEF Highest
  <2> QED BY <2>1, <2>2
<1>4. ASSUME NEW i \in 1..n
      PROVE  Journal[i].seq <= Highest
  <2>1. n \in 1..n /\ n # 0 /\ (i = n \/ i < n)
    OBVIOUS
  <2>2. Journal # << >>
    BY <2>1, <1>1
  <2>3. Highest = Journal[n].seq
    BY <2>2, <1>1 DEF Highest
  <2>4. CASE i = n
    BY <2>3, <2>4, <1>2, <2>1
  <2>5. CASE i < n
    <3>1. Follows(Journal[i], Journal[n])
      BY <2>5, <2>1, <1>2 DEF Ordered
    <3> QED BY <3>1, <2>3 DEF Follows
  <2> QED BY <2>1, <2>4, <2>5
<1> QED BY <1>2, <1>3, <1>4 DEF Lines

-----------------------------------------------------------------------------
(* Steps that leave every line where it is *)

\* Cutting the last line or changing anything but the card keeps the journal.
LEMMA SameLines ==
  ASSUME previous'.lines = previous.lines, current'.lines = current.lines
  PROVE  Journal' = Journal /\ (JournalReads => JournalReads')
<1>1. Journal' = Journal
  BY DEF Journal
<1>2. Lines(Journal)' = Lines(Journal) /\ Ordered(Journal)' = Ordered(Journal)
  BY <1>1 DEF Lines, Ordered, Follows
<1>3. Reads' = Reads
  BY <1>1, <1>2 DEF Reads
<1> QED BY <1>1, <1>2, <1>3 DEF JournalReads

\* The journal and its lines are well typed.
LEMMA JournalType ==
  ASSUME TypeOK
  PROVE  Journal \in Seq(Line) /\ Lines(Journal) \subseteq Line
<1>1. previous.lines \in Seq(Line) /\ current.lines \in Seq(Line)
  BY DEF TypeOK, File
<1>2. Journal \in Seq(Line)
  BY <1>1, ConcatFacts DEF Journal
<1>3. ASSUME NEW i \in DOMAIN Journal
      PROVE  Journal[i] \in Line
  BY <1>2, <1>3, ElementOfSeq, LenProperties
<1> QED BY <1>2, <1>3 DEF Lines

\* Init establishes the invariant: the journal is empty.
LEMMA InitIInv == Init => IInv
<1> SUFFICES ASSUME Init PROVE IInv
  OBVIOUS
<1> USE DEF Init, Empty
<1>1. Journal = << >>
  BY DEF Journal
<1>2. Lines(Journal) = {}
  BY <1>1 DEF Lines
<1>a. Empty \in File
  BY DEF File
<1>3. TypeOK
  BY <1>a DEF TypeOK, Step
<1>4. JournalReads
  BY <1>1, <1>2, SizeAssumption DEF JournalReads, Reads, Ordered
<1>5. StepInv /\ OpInv /\ ActiveIsLast /\ NextIsFresh /\ OwedIsLast
  BY <1>2, NoneAssumption
  DEF StepInv, OpInv, ActiveIsLast, NextIsFresh, OwedIsLast, Writing
<1> QED BY <1>3, <1>4, <1>5 DEF IInv

\* Losing the RAM keeps the invariant whatever the step was: every boot
\* starts from the card and the run value alone.
LEMMA BootKeeps ==
  ASSUME IInv, TypeOK',
         previous'.lines = previous.lines, current'.lines = current.lines,
         active' = None, initialized' = FALSE, op' = None, pc' = "boot",
         owed' = owed
  PROVE  IInv'
<1>1. Journal' = Journal /\ JournalReads'
  BY SameLines DEF IInv
<1>2. StepInv' /\ OpInv' /\ ActiveIsLast' /\ NextIsFresh'
  BY DEF StepInv, OpInv, ActiveIsLast, NextIsFresh, Writing
<1>3. OwedIsLast'
  BY <1>1 DEF IInv, OwedIsLast
<1> QED BY <1>1, <1>2, <1>3 DEF IInv

\* So does a step that ends or gives up what was going on.
LEMMA IdleKeeps ==
  ASSUME IInv, TypeOK',
         previous'.lines = previous.lines, current'.lines = current.lines,
         active' = None, op' = None, pc' = "idle",
         initialized' = initialized, next' = next, owed' \in {owed, None}
  PROVE  IInv'
<1>1. Journal' = Journal /\ JournalReads'
  BY SameLines DEF IInv
<1>2. StepInv' /\ OpInv' /\ ActiveIsLast'
  BY DEF StepInv, OpInv, ActiveIsLast, Writing
<1>3. NextIsFresh' /\ OwedIsLast'
  BY <1>1 DEF IInv, NextIsFresh, OwedIsLast
<1> QED BY <1>1, <1>2, <1>3 DEF IInv
-----------------------------------------------------------------------------
(* Startup *)

\* Initialize gives the next run a number no line has.
LEMMA InitializeKeeps == IInv /\ Initialize => IInv'
<1> SUFFICES ASSUME IInv, Initialize PROVE IInv'
  OBVIOUS
<1> USE DEF Initialize, card, history
<1>1. Journal' = Journal /\ JournalReads' /\ TypeOK
  BY SameLines DEF IInv
<1>2. Highest \in Nat /\ \A e \in Lines(Journal) : e.seq <= Highest
  BY <1>1, JournalType, HighestIsLast DEF IInv, JournalReads
<1>4. Reads /\ active = None /\ op = None
  BY DEF IInv, JournalReads, StepInv, Writing
<1>3. TypeOK'
  <2>1. next' \in Nat /\ initialized' \in BOOLEAN /\ pc' \in Step
    BY <1>2, <1>4 DEF Step
  <2> QED BY <1>1, <2>1 DEF TypeOK
<1>5. NextIsFresh'
  <2>1. \A e \in Lines(Journal) : e.seq \in Nat
    BY <1>1, JournalType DEF Line
  <2> QED BY <1>1, <1>2, <1>4, <2>1 DEF NextIsFresh
<1>6. StepInv' /\ OpInv' /\ ActiveIsLast' /\ OwedIsLast'
  BY <1>1, <1>4 DEF IInv, StepInv, OpInv, ActiveIsLast, OwedIsLast, Writing
<1> QED BY <1>1, <1>3, <1>5, <1>6 DEF IInv

\* Every line of the number that is owed is retained: it is the last number.
LEMMA OwedIsRetained ==
  ASSUME IInv, owed # None, NEW e \in Lines(Journal), e.seq = owed.seq
  PROVE  e \in Found(owed)
<1>1. \A f \in Lines(Journal) : f.seq \in Nat
  BY JournalType DEF IInv, Line
<1>2. {m \in Numbers(Journal) : m > e.seq} = {}
  BY <1>1 DEF IInv, OwedIsLast, Numbers
<1>3. Cardinality({m \in Numbers(Journal) : m > e.seq}) = 0
  BY <1>2, FS_EmptySet
<1> QED BY <1>3, SizeAssumption DEF Found, Retained, Recent

\* Starting an append of a line that may come last.
LEMMA BeginKeeps ==
  ASSUME IInv, TypeOK', NEW kind \in {"finish", "recover"}, NEW line \in Line,
         Begin(kind, line), UNCHANGED <<card, ram>>,
         ~Writing,
         kind = "recover" =>
           active = None /\ initialized /\ owed' = owed /\ line = owed,
         kind = "finish" =>
           (owed' = None \/ (owed'.seq = line.seq /\ owed'.tool = Python
                             /\ owed'.status \in Terminal /\ owed' \in Line)),
         0 < line.seq, line.seq < next,
         \A e \in Lines(Journal) : Follows(e, line)
  PROVE  IInv'
<1> USE DEF card, ram
<1>1. Journal' = Journal /\ JournalReads'
  BY SameLines DEF IInv
<1>2. op' # None /\ op'.kind = kind /\ op'.line = line
  BY NoneAssumption DEF Begin
<1>3. pc' \in {"append", "remove"} /\ (pc' = "append" => Fits')
  BY DEF Begin, Fits
<1>4. StepInv'
  BY <1>2, <1>3 DEF StepInv, Writing
<1>5. OpInv'
  BY <1>1, <1>2 DEF OpInv
<1>6. ActiveIsLast' /\ NextIsFresh'
  BY <1>1, <1>3 DEF IInv, ActiveIsLast, NextIsFresh
<1>7. OwedIsLast'
  BY <1>1 DEF IInv, OwedIsLast, Follows
<1> QED BY <1>1, <1>4, <1>5, <1>6, <1>7 DEF IInv
\* Recover writes the line that is owed only behind lines it may follow.
LEMMA RecoverKeeps == IInv /\ Recover => IInv'
<1> SUFFICES ASSUME IInv, Recover PROVE IInv'
  OBVIOUS
<1> USE DEF card, ram, history
<1>1. /\ TypeOK /\ op = None /\ active = None /\ owed # None /\ initialized
      /\ pc = "recover" /\ owed' = owed
  BY DEF IInv, StepInv, Writing, Recover
<1>2. Journal' = Journal /\ JournalReads'
  BY SameLines DEF IInv, Recover
<1>3. CASE pc' \in {"idle", "settle"} /\ UNCHANGED op
  <2>1. TypeOK'
    BY <1>1, <1>3 DEF TypeOK, Recover, Step
  <2>2. StepInv' /\ OpInv' /\ ActiveIsLast' /\ NextIsFresh' /\ OwedIsLast'
    BY <1>1, <1>2, <1>3
    DEF IInv, StepInv, OpInv, ActiveIsLast, NextIsFresh, OwedIsLast, Writing,
        Recover
  <2> QED BY <1>2, <2>1, <2>2 DEF IInv
<1>4. CASE Finishable(owed) /\ owed \notin Found(owed)
           /\ Begin("recover", owed)
  <2>1. owed \in Line
    BY <1>1 DEF TypeOK
  <2>2. TypeOK'
    BY <1>1, <1>4, <2>1 DEF TypeOK, Recover, Step, Begin
  <2>3. ~Writing
    BY <1>1 DEF Writing
  <2>4. ASSUME NEW e \in Lines(Journal)
        PROVE  Follows(e, owed)
    <3>1. CASE e.seq = owed.seq
      <4>1. e \in Found(owed)
        BY <1>1, <3>1, OwedIsRetained
      <4>2. e.status = "running" /\ e.tool = Python
        BY <4>1, <1>4 DEF Finishable
      <4>3. owed.tool = Python /\ owed.status # "running"
        BY <1>1 DEF IInv, OwedIsLast, Terminal
      <4>4. e.seq <= owed.seq
        BY <1>1 DEF IInv, OwedIsLast
      <4> QED BY <4>2, <4>3, <4>4 DEF Follows
    <3>2. CASE e.seq # owed.seq
      BY <1>1, <3>2 DEF IInv, OwedIsLast, Follows
    <3> QED BY <3>1, <3>2
  <2>5. 0 < owed.seq /\ owed.seq < next
    <3>1. PICK e \in Lines(Journal) : e = [owed EXCEPT !.status = "running"]
      BY <1>4 DEF Finishable, RunningFound, Running, Found, Retained
    <3>2. e.seq = owed.seq
      BY <2>1, <3>1 DEF Line
    <3> QED BY <1>1, <3>2 DEF IInv, NextIsFresh, OwedIsLast
  <2>6. UNCHANGED <<card, ram>>
    BY DEF Recover
  <2> QED BY <1>1, <1>4, <2>1, <2>2, <2>3, <2>4, <2>5, <2>6, BeginKeeps
<1> QED BY <1>3, <1>4 DEF Recover

-----------------------------------------------------------------------------
(* Tool runs *)

\* A start numbers its line behind every one on the card.
LEMMA StartKeeps ==
  ASSUME "toolTest" \notin Callers, IInv,
         NEW caller \in Caller, NEW tool \in Tool, Start(caller, tool)
  PROVE  IInv'
<1> USE DEF card, history
<1>1. TypeOK /\ op = None /\ active = None /\ pc = "idle" /\ owed = None
  BY DEF IInv, StepInv, Writing, Start, MayStart, Caller
<1>2. Journal' = Journal /\ JournalReads' /\ owed' = None /\ active' = None
  BY <1>1, SameLines DEF IInv, Start
<1>3. next' \in Nat /\ next' > 0 /\ \A e \in Lines(Journal) : e.seq < next'
  <2>1. Highest \in Nat /\ \A e \in Lines(Journal) : e.seq <= Highest
    BY <1>1, JournalType, HighestIsLast DEF IInv, JournalReads
  <2>2. CASE initialized
    BY <1>1, <2>2 DEF Start, IInv, NextIsFresh, TypeOK
  <2>3. CASE ~initialized
    <3>1. next' = Highest + 1
      BY <2>3 DEF Start
    <3>2. \A e \in Lines(Journal) : e.seq \in Nat
      BY <1>1, JournalType DEF Line
    <3> QED BY <2>1, <3>1, <3>2
  <2> QED BY <2>2, <2>3
<1> DEFINE line == [seq |-> next', tool |-> tool, status |-> "running"]
<1>4. Begin("start", line) /\ initialized' = TRUE
  BY DEF Start
<1>5. op' = [kind |-> "start", line |-> line] /\ line \in Line
  BY <1>3, <1>4 DEF Begin, Line
<1>6. op' # None /\ op'.kind = "start" /\ op'.line = line
      /\ line.seq = next' /\ line.status = "running"
  BY <1>5, NoneAssumption
<1>7. pc' \in {"append", "remove"} /\ (pc' = "append" => Fits')
  BY <1>4 DEF Begin, Fits, Start
<1>8. TypeOK'
  BY <1>1, <1>3, <1>5, <1>7 DEF TypeOK, Start, Step
<1>9. StepInv' /\ ActiveIsLast' /\ OwedIsLast'
  BY <1>2, <1>6, <1>7 DEF StepInv, ActiveIsLast, OwedIsLast, Writing
<1>10. OpInv'
  <2>1. \A e \in Lines(Journal) : Follows(e, line)
    <3>1. \A e \in Lines(Journal) : e.seq \in Nat
      BY <1>1, JournalType DEF Line
    <3> QED BY <1>3, <1>6, <3>1 DEF Follows
  <2> QED BY <1>2, <1>4, <1>6, <2>1 DEF OpInv
<1>11. NextIsFresh'
  BY <1>2, <1>3 DEF NextIsFresh
<1> QED BY <1>2, <1>8, <1>9, <1>10, <1>11 DEF IInv

\* The terminal line of the active run may come behind all others.
LEMMA ActiveMayEnd ==
  ASSUME IInv, pc = "dispatch", NEW status \in Terminal
  PROVE  LET line == [active EXCEPT !.status = status] IN
           /\ line \in Line /\ line.seq = active.seq /\ line.status = status
           /\ line.tool = active.tool /\ 0 < line.seq /\ line.seq < next
           /\ \A e \in Lines(Journal) : Follows(e, line)
           /\ owed = None
<1>1. active \in Line /\ owed = None
  BY DEF IInv, StepInv, TypeOK
<1>2. active.seq = active.seq /\ 0 < active.seq /\ active.seq < next
  BY <1>1, NoneAssumption DEF IInv, ActiveIsLast
<1>3. LET line == [active EXCEPT !.status = status] IN
        /\ line \in Line /\ line.seq = active.seq /\ line.status = status
        /\ line.tool = active.tool
  BY <1>1 DEF Line
<1>4. \A e \in Lines(Journal) : Follows(e, [active EXCEPT !.status = status])
  BY <1>1, NoneAssumption DEF IInv, ActiveIsLast
<1> QED BY <1>1, <1>2, <1>3, <1>4

\* An end in the same boot.
LEMMA FinishKeeps ==
  ASSUME IInv, NEW status \in Terminal, Finish(status)
  PROVE  IInv'
<1> DEFINE line == [active EXCEPT !.status = status]
<1>1. /\ line \in Line /\ 0 < line.seq /\ line.seq < next /\ owed = None
      /\ \A e \in Lines(Journal) : Follows(e, line)
  BY ActiveMayEnd DEF Finish
<1>2. Begin("finish", line) /\ UNCHANGED <<card, ram, owed, history, disturbances>>
      /\ pc = "dispatch"
  BY DEF Finish
<1> HIDE DEF line
<1>3. TypeOK'
  BY <1>1, <1>2 DEF IInv, TypeOK, Begin, Step, card, ram, history
<1>4. ~Writing /\ owed' = None
  BY <1>1, <1>2 DEF Writing
<1> QED BY <1>1, <1>2, <1>3, <1>4, BeginKeeps

\* An end left to the startup: the RAM is lost, the run value is not.
LEMMA HandOffKeeps ==
  ASSUME IInv, NEW status \in Terminal, HandOff(status)
  PROVE  IInv'
<1> DEFINE line == [active EXCEPT !.status = status]
<1>1. /\ line \in Line /\ 0 < line.seq /\ line.status = status
      /\ line.tool = active.tool /\ line.seq = active.seq
      /\ \A e \in Lines(Journal) : Follows(e, line)
  BY ActiveMayEnd DEF HandOff
<1>2. /\ owed' = line /\ active' = None /\ initialized' = FALSE /\ next' = 1
      /\ pc' = "boot" /\ op' = op /\ active.tool = Python
      /\ UNCHANGED <<previous, current, begun, ended, faulted, disturbances>>
  BY DEF HandOff, card, history
<1> HIDE DEF line
<1>3. op = None
  BY DEF IInv, StepInv, Writing, HandOff
<1>4. TypeOK'
  BY <1>1, <1>2 DEF IInv, TypeOK, Step
<1>5. Journal' = Journal /\ JournalReads'
  BY <1>2, SameLines DEF IInv
<1>6. StepInv' /\ OpInv' /\ ActiveIsLast' /\ NextIsFresh'
  BY <1>2, <1>3 DEF StepInv, OpInv, ActiveIsLast, NextIsFresh, Writing
<1>7. OwedIsLast'
  BY <1>1, <1>2, <1>5 DEF OwedIsLast, Follows
<1> QED BY <1>4, <1>5, <1>6, <1>7 DEF IInv

\* An end written although the run value exists.
LEMMA HandOffAmbiguousKeeps == IInv /\ HandOffAmbiguous => IInv'
<1> SUFFICES ASSUME IInv, HandOffAmbiguous PROVE IInv'
  OBVIOUS
<1> DEFINE line == [active EXCEPT !.status = "failed"]
<1>1. /\ line \in Line /\ 0 < line.seq /\ line.seq < next
      /\ line.status = "failed" /\ line.tool = active.tool
      /\ \A e \in Lines(Journal) : Follows(e, line)
  BY ActiveMayEnd DEF HandOffAmbiguous, Terminal
<1>2. /\ Begin("finish", line) /\ owed' = line /\ active.tool = Python
      /\ UNCHANGED <<card, ram, history>> /\ pc = "dispatch" /\ Disturbed
  BY DEF HandOffAmbiguous
<1> HIDE DEF line
<1>3. TypeOK'
  BY <1>1, <1>2
  DEF IInv, TypeOK, Begin, Step, card, ram, history, Disturbed
<1>4. ~Writing
  BY <1>2 DEF Writing
<1> QED BY <1>1, <1>2, <1>3, <1>4, BeginKeeps DEF Terminal
-----------------------------------------------------------------------------
(* Appending a line *)

\* An ordered journal of numbered lines within the sizes is readable.
LEMMA ReadsOrdered ==
  ASSUME Ordered(Journal), \A e \in Lines(Journal) : e.seq # 0,
         Len(previous.lines) <= MaxLines, Len(current.lines) <= MaxLines
  PROVE  JournalReads
BY DEF JournalReads, Reads, Ordered, Follows

\* The previous generation goes.
LEMMA RemoveKeeps == IInv /\ Remove => IInv'
<1> SUFFICES ASSUME IInv, Remove PROVE IInv'
  OBVIOUS
<1> USE DEF Remove, ram, history
<1>1. previous.lines \in Seq(Line) /\ current.lines \in Seq(Line)
  BY DEF IInv, TypeOK, File
<1>2. Journal' = current.lines
  BY <1>1, ConcatFacts DEF Journal, Empty
<1>3. Ordered(current.lines) /\ Lines(current.lines) \subseteq Lines(Journal)
  BY <1>1, OrderedSuffix DEF IInv, JournalReads, Journal
<1>4. JournalReads'
  <2>1. \A i, j \in DOMAIN current.lines :
          i < j => current.lines[i].seq <= current.lines[j].seq
    BY <1>3 DEF Ordered, Follows
  <2>2. Ordered(Journal)' /\ Lines(Journal)' = Lines(current.lines)
    BY <1>2, <1>3 DEF Ordered, Lines, Follows
  <2>3. Len(previous'.lines) <= MaxLines /\ Len(current'.lines) <= MaxLines
    BY SizeAssumption DEF IInv, JournalReads, Reads, Empty
  <2> QED BY <1>2, <1>3, <2>1, <2>2, <2>3 DEF IInv, JournalReads, Reads
<1>5. TypeOK'
  BY DEF IInv, TypeOK, Step, File, Empty
<1>6. StepInv' /\ ActiveIsLast'
  BY DEF IInv, StepInv, ActiveIsLast, Writing
<1>7. Lines(Journal)' \subseteq Lines(Journal)
  BY <1>2, <1>3 DEF Lines
<1>8. OpInv' /\ NextIsFresh' /\ OwedIsLast'
  BY <1>7 DEF IInv, OpInv, NextIsFresh, OwedIsLast
<1> QED BY <1>4, <1>5, <1>6, <1>8 DEF IInv

\* The current generation becomes the previous one.
LEMMA RenameKeeps == IInv /\ Rename => IInv'
<1> SUFFICES ASSUME IInv, Rename PROVE IInv'
  OBVIOUS
<1> USE DEF Rename, ram, history
<1>1. previous.lines = << >> /\ current.lines \in Seq(Line)
  BY DEF IInv, StepInv, TypeOK, File, Empty
<1>2. Journal = current.lines /\ Journal' = current.lines
  BY <1>1, ConcatFacts DEF Journal, Empty
<1>3. JournalReads'
  <2>1. Ordered(Journal)' /\ Lines(Journal)' = Lines(Journal)
    BY <1>2 DEF IInv, JournalReads, Ordered, Lines, Follows
  <2>2. Len(previous'.lines) <= MaxLines /\ Len(current'.lines) <= MaxLines
    BY SizeAssumption DEF IInv, JournalReads, Reads, Empty
  <2> QED BY <1>2, <2>1, <2>2 DEF IInv, JournalReads, Reads
<1>4. TypeOK'
  BY DEF IInv, TypeOK, Step, File, Empty
<1>5. Fits'
  BY SizeAssumption DEF Fits, Empty
<1>6. StepInv' /\ ActiveIsLast'
  BY <1>5 DEF IInv, StepInv, ActiveIsLast, Writing
<1>7. OpInv' /\ NextIsFresh' /\ OwedIsLast'
  BY <1>2 DEF IInv, OpInv, NextIsFresh, OwedIsLast
<1> QED BY <1>3, <1>4, <1>6, <1>7 DEF IInv

\* What an append that reports success does to everything but the card: the
\* invariant holds for a journal that has the line or lost it.
LEMMA SucceedKeeps ==
  ASSUME IInv, pc = "append", Succeed, TypeOK', JournalReads',
         Lines(Journal') \subseteq Lines(Journal) \cup {op.line}
  PROVE  IInv'
<1>1. /\ op # None /\ op.line \in Line
      /\ op.kind \in {"start", "finish", "recover"}
  BY DEF IInv, StepInv, Writing, TypeOK
<1>2. /\ TypeOK /\ op' = None /\ initialized' = initialized /\ owed' = owed
      /\ next \in Nat
  BY DEF IInv, Succeed, TypeOK
<1>3. \A e \in Lines(Journal) : Follows(e, op.line)
  BY <1>1 DEF IInv, OpInv
<1>4. op.line.seq \in Nat /\ \A e \in Lines(Journal) : e.seq \in Nat
  BY <1>1, <1>2, JournalType DEF Line
<1>5. CASE op.kind = "start"
  <2>1. active' = op.line /\ next' = next + 1 /\ pc' = "dispatch"
    BY <1>5 DEF Succeed
  <2>2. /\ initialized /\ owed = None /\ next > 0
        /\ op.line.seq = next /\ op.line.status = "running"
        /\ \A e \in Lines(Journal) : e.seq < next
    BY <1>1, <1>5 DEF IInv, OpInv, NextIsFresh
  <2>3. StepInv' /\ OpInv' /\ OwedIsLast'
    BY <1>1, <1>2, <2>1, <2>2, NoneAssumption
    DEF StepInv, OpInv, OwedIsLast, Writing
  <2>4. NextIsFresh'
    BY <1>2, <1>4, <2>1, <2>2 DEF NextIsFresh
  <2>5. ActiveIsLast'
    <3>1. ASSUME NEW status \in Terminal, NEW e \in Lines(Journal) \cup {op.line}
          PROVE  Follows(e, [op.line EXCEPT !.status = status])
      <4>1. /\ [op.line EXCEPT !.status = status].seq = next
            /\ [op.line EXCEPT !.status = status].status # "running"
            /\ [op.line EXCEPT !.status = status].tool = op.line.tool
        BY <1>1, <2>2 DEF Line, Terminal
      <4>2. CASE e = op.line
        BY <1>2, <2>2, <4>1, <4>2 DEF Follows
      <4>3. CASE e \in Lines(Journal)
        BY <1>2, <1>4, <2>2, <4>1, <4>3 DEF Follows
      <4> QED BY <4>2, <4>3
    <3> QED BY <1>2, <2>1, <2>2, <3>1 DEF ActiveIsLast
  <2> QED BY <2>3, <2>4, <2>5 DEF IInv
<1>6. CASE op.kind # "start"
  <2>1. op.line.seq < next /\ next' = next
    BY <1>1, <1>6 DEF IInv, OpInv, Succeed
  <2>2. NextIsFresh'
    BY <1>2, <2>1 DEF IInv, NextIsFresh
  <2>3. OpInv'
    BY <1>2 DEF OpInv
  <2>4. CASE op.kind = "finish"
    <3>1. active' = None /\ pc' = "idle"
      BY <2>4 DEF Succeed
    <3>2. StepInv' /\ ActiveIsLast'
      BY <1>2, <3>1 DEF StepInv, ActiveIsLast, Writing
    <3>3. OwedIsLast'
      BY <1>1, <1>2, <1>4, <2>4 DEF IInv, OpInv, OwedIsLast
    <3> QED BY <2>2, <2>3, <3>2, <3>3 DEF IInv
  <2>5. CASE op.kind = "recover"
    <3>1. active' = active /\ pc' = "settle"
      BY <2>5 DEF Succeed
    <3>2. op.line = owed /\ owed # None
      BY <1>1, <2>5, NoneAssumption DEF IInv, OpInv
    <3>3. active = None /\ initialized
      BY <1>1, <2>5 DEF IInv, OpInv
    <3>4. StepInv' /\ ActiveIsLast'
      BY <1>2, <3>1, <3>2, <3>3 DEF StepInv, ActiveIsLast, Writing
    <3>5. OwedIsLast'
      BY <1>1, <1>2, <1>4, <3>2 DEF IInv, OwedIsLast
    <3> QED BY <2>2, <2>3, <3>4, <3>5 DEF IInv
  <2> QED BY <1>1, <1>6, <2>4, <2>5
<1> QED BY <1>5, <1>6

\* The types behind a reported success.
LEMMA SucceedType ==
  ASSUME IInv, pc = "append", Succeed, current' \in File,
         disturbances' \in Nat, faulted' \subseteq Faults
  PROVE  TypeOK'
<1>1. /\ op # None /\ op.line \in Line
      /\ op.kind \in {"start", "finish", "recover"} /\ op.line.seq \in Nat
  BY DEF IInv, StepInv, Writing, TypeOK, Line
<1>2. CASE op.kind = "start"
  BY <1>1, <1>2 DEF IInv, TypeOK, Succeed, Step
<1>3. CASE op.kind = "finish"
  BY <1>1, <1>3 DEF IInv, TypeOK, Succeed, Step
<1>4. CASE op.kind = "recover"
  BY <1>1, <1>4 DEF IInv, TypeOK, Succeed, Step
<1> QED BY <1>1, <1>2, <1>3, <1>4
\* The line is written.
LEMMA AppendLineKeeps == IInv /\ AppendLine => IInv'
<1> SUFFICES ASSUME IInv, AppendLine PROVE IInv'
  OBVIOUS
<1>1. /\ pc = "append" /\ Fits /\ op # None /\ op.line \in Line /\ TypeOK
      /\ Succeed /\ previous' = previous /\ current' = Appended
      /\ disturbances' = disturbances /\ faulted' = faulted
  BY DEF IInv, StepInv, Writing, TypeOK, AppendLine, Succeed
<1>2. previous.lines \in Seq(Line) /\ current.lines \in Seq(Line)
  BY <1>1 DEF TypeOK, File
<1>3. current'.lines = Append(current.lines, op.line) /\ current' \in File
  BY <1>1, <1>2 DEF Appended, Fits, File
<1>4. Journal' = Append(Journal, op.line)
  <2>1. previous.lines \o Append(current.lines, op.line)
          = Append(previous.lines \o current.lines, op.line)
    BY <1>1, <1>2, ConcatFacts
  <2> QED BY <1>1, <1>3, <2>1 DEF Journal
<1>5. /\ Journal \in Seq(Line) /\ Ordered(Journal)
      /\ \A e \in Lines(Journal) : Follows(e, op.line)
  BY <1>1, JournalType DEF IInv, JournalReads, OpInv
<1>6. /\ Journal' \in Seq(Line) /\ Ordered(Append(Journal, op.line))
      /\ Lines(Append(Journal, op.line)) = Lines(Journal) \cup {op.line}
  BY <1>1, <1>4, <1>5, OrderedAppend
<1>7. Ordered(Journal)' /\ Lines(Journal)' = Lines(Journal) \cup {op.line}
      /\ Lines(Journal') = Lines(Journal) \cup {op.line}
  BY <1>4, <1>6 DEF Ordered, Lines, Follows
<1>8. JournalReads'
  <2>1. op.line.seq # 0
    <3>1. CASE op.kind = "start"
      BY <1>1, <3>1 DEF IInv, OpInv, NextIsFresh, TypeOK
    <3>2. CASE op.kind # "start"
      BY <1>1, <3>2 DEF IInv, OpInv
    <3> QED BY <3>1, <3>2
  <2>2. (\A e \in Lines(Journal) : e.seq # 0)'
    BY <1>7, <2>1 DEF IInv, JournalReads, Reads
  <2>3. Len(previous'.lines) <= MaxLines /\ Len(current'.lines) <= MaxLines
    <3>1. Len(current'.lines) = Len(current.lines) + 1
      BY <1>1, <1>2, <1>3, AppendProperties
    <3> QED BY <1>1, <3>1 DEF IInv, JournalReads, Reads, Fits
  <2>4. (\A i, j \in DOMAIN Journal : i < j => Journal[i].seq <= Journal[j].seq)'
    BY <1>7 DEF Ordered, Follows
  <2> QED BY <1>7, <2>2, <2>3, <2>4 DEF JournalReads, Reads
<1>9. TypeOK'
  BY <1>1, <1>3, SucceedType DEF TypeOK
<1> QED BY <1>1, <1>7, <1>8, <1>9, SucceedKeeps

\* The line is reported as written but cut.
LEMMA AppendShortKeeps == IInv /\ AppendShort => IInv'
<1> SUFFICES ASSUME IInv, AppendShort PROVE IInv'
  OBVIOUS
<1>1. /\ TypeOK /\ pc = "append" /\ Succeed /\ previous' = previous
      /\ current' = Cut /\ disturbances' = disturbances + 1
      /\ faulted' \subseteq Faults
  BY DEF IInv, TypeOK, AppendShort, Succeed, Disturbed
<1>2. current'.lines = current.lines /\ current' \in File
  BY <1>1 DEF TypeOK, File, Cut
<1>3. Journal' = Journal /\ JournalReads'
  BY <1>1, <1>2, SameLines DEF IInv
<1>4. Lines(Journal') \subseteq Lines(Journal) \cup {op.line}
  BY <1>3
<1>5. TypeOK'
  BY <1>1, <1>2, SucceedType DEF TypeOK
<1> QED BY <1>1, <1>3, <1>4, <1>5, SucceedKeeps

\* The line is refused.
LEMMA AppendRefusedKeeps == IInv /\ AppendRefused => IInv'
<1> SUFFICES ASSUME IInv, AppendRefused PROVE IInv'
  OBVIOUS
<1>1. /\ TypeOK /\ op # None /\ op' = None /\ pc' = "idle"
      /\ UNCHANGED <<previous, next, initialized, owed, begun, ended>>
      /\ disturbances' = disturbances + 1
      /\ current' = current \/ current' = Cut
      /\ faulted' \subseteq Faults
      /\ active' = IF op.kind = "finish" THEN None ELSE active
  BY DEF IInv, TypeOK, StepInv, AppendRefused, Tear, Disturbed
<1>2. current'.lines = current.lines /\ current' \in File
  BY <1>1 DEF TypeOK, File, Cut
<1>3. active' = None
  <2>1. op.kind \in {"start", "finish", "recover"}
    BY <1>1 DEF TypeOK
  <2>2. op.kind \in {"start", "recover"} => active = None
    BY <1>1 DEF IInv, OpInv
  <2> QED BY <1>1, <2>1, <2>2
<1>4. TypeOK'
  BY <1>1, <1>2, <1>3 DEF TypeOK, Step
<1> QED BY <1>1, <1>2, <1>3, <1>4, IdleKeeps

-----------------------------------------------------------------------------
(* Resets, and steps that only give up *)

\* A reset or a restart.
LEMMA CrashKeeps == IInv /\ (Crash \/ Restart) => IInv'
<1> SUFFICES ASSUME IInv, Crash \/ Restart PROVE IInv'
  OBVIOUS
<1>1. /\ TypeOK /\ op' = None /\ pc' = "boot" /\ active' = None
      /\ initialized' = FALSE /\ next' = 1
      /\ UNCHANGED <<previous, owed, begun, ended>>
      /\ disturbances' \in Nat /\ faulted' \subseteq Faults
      /\ current' = current \/ current' = Cut
  <2>1. CASE Crash
    BY <2>1 DEF IInv, TypeOK, Crash, Tear, Disturbed
  <2>2. CASE Restart
    BY <2>2 DEF IInv, TypeOK, StepInv, Writing, Restart, history, card
  <2> QED BY <2>1, <2>2
<1>2. current'.lines = current.lines /\ current' \in File
  BY <1>1 DEF TypeOK, File, Cut
<1>3. TypeOK'
  BY <1>1, <1>2 DEF TypeOK, Step
<1> QED BY <1>1, <1>2, <1>3, BootKeeps

\* The run value is settled, or the startup goes on without it.
LEMMA GiveUpKeeps == IInv /\ (Settle \/ StartupRefused) => IInv'
<1> SUFFICES ASSUME IInv, Settle \/ StartupRefused PROVE IInv'
  OBVIOUS
<1>1. /\ TypeOK /\ op = None /\ active = None /\ op' = None /\ pc' = "idle"
      /\ UNCHANGED <<previous, current, next, initialized, active, begun, ended,
                     faulted>>
      /\ disturbances' \in Nat /\ owed' \in {owed, None}
  <2>1. CASE Settle
    BY <2>1 DEF IInv, TypeOK, StepInv, Writing, Settle, card, ram, history
  <2>2. CASE StartupRefused
    BY <2>2 DEF IInv, TypeOK, StepInv, Writing, StartupRefused, Disturbed,
                card, ram, history
  <2> QED BY <2>1, <2>2
<1>2. TypeOK'
  BY <1>1 DEF TypeOK, Step
<1> QED BY <1>1, <1>2, IdleKeeps

-----------------------------------------------------------------------------
\* Every step keeps the invariant.
LEMMA NextIInv == "toolTest" \notin Callers /\ IInv /\ [Next]_vars => IInv'
<1> SUFFICES ASSUME "toolTest" \notin Callers, IInv, [Next]_vars PROVE IInv'
  OBVIOUS
<1>1. CASE Initialize
  BY <1>1, InitializeKeeps
<1>2. CASE Recover
  BY <1>2, RecoverKeeps
<1>3. CASE Settle \/ StartupRefused
  BY <1>3, GiveUpKeeps
<1>4. CASE \E caller \in Caller, tool \in Tool : Start(caller, tool)
  BY <1>4, StartKeeps
<1>5. CASE \E status \in Terminal : Finish(status) \/ HandOff(status)
  BY <1>5, FinishKeeps, HandOffKeeps
<1>6. CASE HandOffAmbiguous
  BY <1>6, HandOffAmbiguousKeeps
<1>7. CASE Remove
  BY <1>7, RemoveKeeps
<1>8. CASE Rename
  BY <1>8, RenameKeeps
<1>9. CASE AppendLine
  BY <1>9, AppendLineKeeps
<1>10. CASE AppendShort
  BY <1>10, AppendShortKeeps
<1>11. CASE AppendRefused
  BY <1>11, AppendRefusedKeeps
<1>12. CASE Crash \/ Restart
  BY <1>12, CrashKeeps
<1>13. CASE UNCHANGED vars
  <2>1. Journal' = Journal /\ JournalReads'
    BY <1>13, SameLines DEF IInv, vars
  <2>2. TypeOK' /\ StepInv'
    BY <1>13 DEF IInv, vars, TypeOK, StepInv, Writing, Fits
  <2>3. OpInv' /\ ActiveIsLast' /\ NextIsFresh' /\ OwedIsLast'
    BY <1>13, <2>1
    DEF IInv, vars, OpInv, ActiveIsLast, NextIsFresh, OwedIsLast
  <2> QED BY <2>1, <2>2, <2>3 DEF IInv
<1> QED
  BY <1>1, <1>2, <1>3, <1>4, <1>5, <1>6, <1>7, <1>8, <1>9, <1>10, <1>11, <1>12,
     <1>13 DEF Next, Startup, Write

-----------------------------------------------------------------------------
(* Which line is the last one *)

\* An appended line is the last one.
LEMMA LastOfAppend ==
  ASSUME NEW s \in Seq(Line), NEW x \in Line
  PROVE  Append(s, x) # << >> /\ Append(s, x)[Len(Append(s, x))] = x
BY AppendProperties

\* The last line of two generations is the one of the second.
LEMMA LastOfConcat ==
  ASSUME NEW a \in Seq(Line), NEW b \in Seq(Line), b # << >>
  PROVE  a \o b # << >> /\ (a \o b)[Len(a \o b)] = b[Len(b)]
<1>1. PICK m \in Nat, n \in Nat : m = Len(a) /\ n = Len(b)
  OBVIOUS
<1>2. n # 0
  BY <1>1, EmptySeq
<1>3. Len(a \o b) = m + n /\ m + n # 0
  BY <1>1, <1>2, ConcatProperties
<1>4. (a \o b)[m + n] = b[n]
  BY <1>1, <1>2
<1> QED BY <1>1, <1>3, <1>4, EmptySeq

\* The last line of a journal is one of its lines.
LEMMA LastIsIn ==
  ASSUME NEW s \in Seq(Line), s # << >>
  PROVE  s[Len(s)] \in Lines(s)
<1>1. PICK n \in Nat : n = Len(s) /\ DOMAIN s = 1..n
  OBVIOUS
<1>2. n # 0
  BY <1>1, EmptySeq
<1>3. n \in 1..n
  BY <1>2
<1> QED BY <1>1, <1>3 DEF Lines

\* The last line is in the journal.
LEMMA LastIsLine ==
  ASSUME TypeOK, NEW line, LastIs(line)
  PROVE  line \in Lines(Journal)
BY JournalType, LastIsIn DEF LastIs

\* The running line of a line.
LEMMA RunningFacts ==
  ASSUME NEW line \in Line
  PROVE  /\ Running(line) \in Line /\ Running(line).seq = line.seq
         /\ Running(line).tool = line.tool /\ Running(line).status = "running"
         /\ line.status = "running" => Running(line) = line
         /\ \A status \in Terminal :
              Running([line EXCEPT !.status = status]) = Running(line)
BY DEF Running, Line

\* What WholeInv says is not disturbed by a step that keeps the lines.
LEMMA SameLast ==
  ASSUME Journal' = Journal
  PROVE  /\ Lines(Journal)' = Lines(Journal)
         /\ \A line : LastIs(line)' <=> LastIs(line)
BY DEF Lines, LastIs

-----------------------------------------------------------------------------
(* The end that is owed is accepted *)

\* What readers accept has the owed run's running line, once, and at most
\* the terminal line that would be written.
LEMMA WholeIsFinishable ==
  ASSUME IInv, WholeInv, owed # None
  PROVE  Finishable(owed)
<1>1. /\ TypeOK /\ Reads /\ Ordered(Journal) /\ owed \in Line
      /\ owed.tool = Python
  BY DEF IInv, JournalReads, TypeOK, OwedIsLast
<1>2. Journal \in Seq(Line)
  BY <1>1, JournalType
<1>3. PICK n \in Nat : n = Len(Journal) /\ DOMAIN Journal = 1..n
  BY <1>2
<1>4. RunningFound(owed)
  <2>1. Running(owed) \in Lines(Journal) /\ Running(owed).seq = owed.seq
    BY <1>1, RunningFacts DEF WholeInv, OwedAtEnd
  <2> QED BY <2>1, OwedIsRetained DEF RunningFound
<1>5. ~Twice(owed)
  <2> SUFFICES ASSUME NEW i \in 1..n, NEW j \in 1..n, i # j,
                      Journal[i] = Journal[j]
               PROVE  FALSE
    BY <1>3 DEF Twice
  <2>1. i < j \/ j < i
    OBVIOUS
  <2>2. Follows(Journal[i], Journal[i])
    BY <1>1, <1>3, <2>1 DEF Ordered
  <2> QED BY <2>2 DEF Follows
<1>6. ASSUME NEW e \in Found(owed)
      PROVE  e = owed \/ (e.status = "running" /\ e.tool = Python)
  <2>1. PICK i \in 1..n : Journal[i] = e
    BY <1>3 DEF Found, Retained, Lines
  <2>2. e.seq = owed.seq
    BY DEF Found
  <2>3. PICK last \in {owed, Running(owed)} : LastIs(last)
    BY DEF WholeInv, OwedAtEnd
  <2>4. Journal[n] = last /\ n \in 1..n /\ last.seq = owed.seq
    BY <1>1, <1>3, <2>1, <2>3, RunningFacts DEF LastIs
  <2>5. CASE i = n
    BY <1>1, <2>1, <2>3, <2>4, <2>5, RunningFacts
  <2>6. CASE i # n
    <3>1. Follows(e, last)
      BY <1>1, <1>3, <2>1, <2>4, <2>6 DEF Ordered
    <3>2. e.status = "running" /\ last.status # "running" /\ e.tool = last.tool
      BY <2>2, <2>4, <3>1 DEF Follows
    <3> QED BY <1>1, <2>3, <3>2, RunningFacts
  <2> QED BY <2>5, <2>6
<1> QED BY <1>1, <1>4, <1>5, <1>6 DEF Finishable

\* Nothing is owed in the beginning.
LEMMA InitWhole == Init => WholeInv
BY DEF Init, WholeInv, RotatesFull, ActiveAtEnd, OpAtEnd, OwedAtEnd, Empty

\* Steps that leave card and run value alone and end what was going on, or
\* begin nothing.
LEMMA QuietKeepsWhole ==
  ASSUME WholeInv, UNCHANGED card, owed' \in {owed, None},
         active' \in {active, None}, op' = None, pc' # "remove"
  PROVE  WholeInv'
<1>1. Journal' = Journal
  BY DEF card, Journal
<1>2. RotatesFull' /\ ActiveAtEnd' /\ OpAtEnd'
  BY <1>1, SameLast DEF WholeInv, RotatesFull, ActiveAtEnd, OpAtEnd, card
<1>3. OwedAtEnd'
  BY <1>1, SameLast DEF WholeInv, OwedAtEnd, Running
<1> QED BY <1>2, <1>3 DEF WholeInv

\* The recovery writes the end of the last line.
LEMMA RecoverKeepsWhole == IInv /\ WholeInv /\ Recover => WholeInv'
<1> SUFFICES ASSUME IInv, WholeInv, Recover PROVE WholeInv'
  OBVIOUS
<1>1. /\ op = None /\ owed # None /\ owed' = owed /\ active' = active
      /\ UNCHANGED card
  BY DEF IInv, StepInv, Writing, Recover, ram
<1>2. CASE pc' \in {"idle", "settle"} /\ UNCHANGED op
  BY <1>1, <1>2, QuietKeepsWhole
<1>3. CASE owed \notin Found(owed) /\ Begin("recover", owed)
  <2>1. op' = [kind |-> "recover", line |-> owed] /\ (pc' = "remove" => ~Fits)
    BY <1>3 DEF Begin
  <2>2. LastIs(Running(owed))
    <3>1. ~LastIs(owed)
      BY <1>1, <1>3, LastIsLine, OwedIsRetained DEF IInv
    <3> QED BY <1>1, <3>1 DEF WholeInv, OwedAtEnd
  <2>3. Journal' = Journal /\ Fits' = Fits /\ current' = current
    BY <1>1 DEF card, Journal, Fits
  <2>4. op' # None /\ op'.kind = "recover"
    BY <1>1, <2>1, NoneAssumption DEF IInv, TypeOK
  <2>5. Running(owed)' = Running(owed)
    BY <1>1 DEF Running
  <2>6. RotatesFull' /\ ActiveAtEnd' /\ OpAtEnd'
    BY <1>1, <2>1, <2>2, <2>3, <2>4, <2>5, SameLast
    DEF WholeInv, RotatesFull, ActiveAtEnd, OpAtEnd
  <2>7. OwedAtEnd'
    BY <1>1, <2>3, <2>5, SameLast DEF WholeInv, OwedAtEnd
  <2> QED BY <2>6, <2>7 DEF WholeInv
<1> QED BY <1>2, <1>3 DEF Recover

\* Nothing is owed when a tool starts.
LEMMA StartKeepsWhole ==
  ASSUME "toolTest" \notin Callers, IInv, WholeInv,
         NEW caller \in Caller, NEW tool \in Tool, Start(caller, tool)
  PROVE  WholeInv'
<1>1. owed' = None /\ active' = None /\ UNCHANGED card
  BY DEF IInv, StepInv, Start, MayStart, Caller
<1>2. PICK line \in Line : Begin("start", line)
  <2>1. TypeOK /\ JournalReads
    BY DEF IInv
  <2>2. Highest \in Nat
    BY <2>1, JournalType, HighestIsLast DEF JournalReads
  <2>3. next' \in Nat
    BY <2>1, <2>2 DEF Start, TypeOK
  <2> QED BY <2>3 DEF Start, Line
<1>3. op' # None /\ op'.kind = "start" /\ (pc' = "remove" => ~Fits)
  BY <1>2, NoneAssumption DEF Begin
<1>4. Fits' = Fits /\ current' = current
  BY <1>1 DEF card, Fits
<1> QED BY <1>1, <1>3, <1>4
  DEF WholeInv, RotatesFull, ActiveAtEnd, OpAtEnd, OwedAtEnd

\* The active run, which is the last line, ends in this boot.
LEMMA EndKeepsWhole ==
  ASSUME IInv, WholeInv, pc = "dispatch", NEW status \in Terminal,
         LET line == [active EXCEPT !.status = status] IN
           Begin("finish", line) /\ owed' \in {None, line},
         UNCHANGED <<card, active>>
  PROVE  WholeInv'
<1> DEFINE line == [active EXCEPT !.status = status]
<1>1. /\ active # None /\ active \in Line /\ line \in Line
      /\ active.status = "running"
  BY ActiveMayEnd DEF IInv, StepInv, TypeOK, ActiveIsLast
<1>2. Running(line) = active /\ LastIs(active) /\ TypeOK
  BY <1>1, RunningFacts DEF IInv, WholeInv, ActiveAtEnd
<1>3. op' = [kind |-> "finish", line |-> line] /\ (pc' = "remove" => ~Fits)
      /\ owed' \in {None, line}
  BY DEF Begin
<1>4. active' = active /\ current' = current /\ Journal' = Journal
      /\ Fits' = Fits
  BY DEF card, Journal, Fits
<1> HIDE DEF line
<1>5. op' # None /\ op'.kind = "finish" /\ op'.line = line
  BY <1>1, <1>3, NoneAssumption
<1>6. RotatesFull' /\ ActiveAtEnd'
  BY <1>3, <1>4, SameLast DEF WholeInv, RotatesFull, ActiveAtEnd
<1>7. OpAtEnd'
  BY <1>1, <1>2, <1>3, <1>4, <1>5 DEF OpAtEnd, Running
<1>8. OwedAtEnd'
  <2>1. active \in Lines(Journal)
    BY <1>2, LastIsLine
  <2>2. owed' # None => Running(owed)' = active
    BY <1>2, <1>3 DEF Running
  <2> QED BY <1>2, <1>4, <2>1, <2>2, SameLast DEF OwedAtEnd
<1> QED BY <1>6, <1>7, <1>8 DEF WholeInv

\* The run value names the active run, which is the last line.
LEMMA HandOffKeepsWhole ==
  ASSUME IInv, WholeInv, NEW status \in Terminal, HandOff(status)
  PROVE  WholeInv'
<1> DEFINE line == [active EXCEPT !.status = status]
<1>1. /\ active # None /\ active \in Line /\ line \in Line /\ TypeOK
      /\ active.status = "running" /\ op = None
  BY ActiveMayEnd DEF HandOff, IInv, StepInv, TypeOK, ActiveIsLast, Writing
<1>2. Running(line) = active /\ LastIs(active)
  BY <1>1, RunningFacts DEF WholeInv, ActiveAtEnd
<1>3. /\ owed' = line /\ active' = None /\ op' = None /\ pc' = "boot"
      /\ current' = current /\ Journal' = Journal
  BY <1>1 DEF HandOff, card, Journal
<1> HIDE DEF line
<1>4. RotatesFull' /\ ActiveAtEnd' /\ OpAtEnd'
  BY <1>3 DEF WholeInv, RotatesFull, ActiveAtEnd, OpAtEnd
<1>5. OwedAtEnd'
  <2>1. active \in Lines(Journal)
    BY <1>1, <1>2, LastIsLine
  <2>2. Running(owed)' = active
    BY <1>2, <1>3 DEF Running
  <2> QED BY <1>2, <1>3, <2>1, <2>2, SameLast DEF OwedAtEnd
<1> QED BY <1>4, <1>5 DEF WholeInv

\* A file that is rotated is full, so it has the last line.
LEMMA RemoveKeepsWhole == IInv /\ WholeInv /\ Remove => WholeInv'
<1> SUFFICES ASSUME IInv, WholeInv, Remove PROVE WholeInv'
  OBVIOUS
<1> USE DEF Remove, ram
<1>1. /\ TypeOK /\ previous.lines \in Seq(Line) /\ current.lines \in Seq(Line)
      /\ ~Fits /\ ~current.torn /\ current' = current /\ op # None
  BY DEF IInv, StepInv, Writing, TypeOK, File, WholeInv, RotatesFull
<1>2. current.lines # << >>
  BY <1>1, SizeAssumption, EmptySeq DEF Fits
<1>3. Journal' = current.lines
  BY <1>1, ConcatFacts DEF Journal, Empty
<1>4. ASSUME NEW line
      PROVE  LastIs(line)' <=> LastIs(line)
  <2>1. Journal # << >> /\ Journal[Len(Journal)] = current.lines[Len(current.lines)]
    BY <1>1, <1>2, LastOfConcat DEF Journal
  <2> QED BY <1>2, <1>3, <2>1 DEF LastIs
<1>5. RotatesFull' /\ ActiveAtEnd' /\ OpAtEnd'
  BY <1>1, <1>4 DEF WholeInv, RotatesFull, ActiveAtEnd, OpAtEnd, Running
<1>6. OwedAtEnd'
  <2> SUFFICES ASSUME owed # None PROVE OwedAtEnd'
    BY DEF OwedAtEnd
  <2>1. LastIs(Running(owed))
    <3>1. op.kind # "start"
      BY <1>1 DEF IInv, OpInv
    <3>2. op.kind \in {"start", "finish", "recover"}
      BY <1>1 DEF TypeOK
    <3> QED BY <1>1, <3>1, <3>2 DEF WholeInv, OpAtEnd, ActiveAtEnd
  <2>2. LastIs(Running(owed))' /\ Running(owed)' = Running(owed)
    BY <1>4, <2>1 DEF Running
  <2>3. current.lines[Len(current.lines)] \in Lines(current.lines)
    BY <1>1, <1>2, LastIsIn
  <2>4. Running(owed)' \in Lines(Journal)'
    BY <1>3, <2>2, <2>3 DEF LastIs, Lines
  <2> QED BY <2>2, <2>4 DEF OwedAtEnd
<1> QED BY <1>5, <1>6 DEF WholeInv

\* Renaming keeps the journal.
LEMMA RenameKeepsWhole == IInv /\ WholeInv /\ Rename => WholeInv'
<1> SUFFICES ASSUME IInv, WholeInv, Rename PROVE WholeInv'
  OBVIOUS
<1> USE DEF Rename, ram
<1>1. Journal' = Journal
  BY ConcatFacts DEF IInv, StepInv, TypeOK, File, Empty, Journal
<1>2. RotatesFull' /\ ActiveAtEnd' /\ OpAtEnd'
  BY <1>1, SameLast
  DEF WholeInv, RotatesFull, ActiveAtEnd, OpAtEnd, Running, Empty
<1>3. OwedAtEnd'
  BY <1>1, SameLast DEF WholeInv, OwedAtEnd, Running
<1> QED BY <1>2, <1>3 DEF WholeInv

\* A line that is written is behind the one it ends.
LEMMA AppendLineKeepsWhole == IInv /\ WholeInv /\ AppendLine => WholeInv'
<1> SUFFICES ASSUME IInv, WholeInv, AppendLine PROVE WholeInv'
  OBVIOUS
<1>1. /\ TypeOK /\ op # None /\ op.line \in Line /\ Fits /\ Succeed
      /\ op.kind \in {"start", "finish", "recover"} /\ owed' = owed
      /\ previous' = previous /\ current' = Appended /\ op' = None
  BY DEF IInv, StepInv, Writing, TypeOK, AppendLine, Succeed
<1>2. /\ current.lines \in Seq(Line) /\ previous.lines \in Seq(Line)
      /\ current'.lines = Append(current.lines, op.line) /\ ~current'.torn
  BY <1>1 DEF TypeOK, File, Appended, Fits
<1>3. Journal \in Seq(Line) /\ Journal' = Append(Journal, op.line)
  <2>1. previous.lines \o Append(current.lines, op.line)
          = Append(previous.lines \o current.lines, op.line)
    BY <1>1, <1>2, ConcatFacts
  <2> QED BY <1>1, <1>2, <2>1, JournalType DEF Journal
<1>4. Journal' # << >> /\ Journal'[Len(Journal')] = op.line
  BY <1>1, <1>3, LastOfAppend
<1>5. ASSUME NEW e \in Lines(Journal)
      PROVE  e \in Lines(Journal)'
  <2>1. PICK i \in DOMAIN Journal : Journal[i] = e
    BY DEF Lines
  <2>2. i \in DOMAIN Append(Journal, op.line)
        /\ Append(Journal, op.line)[i] = Journal[i]
    BY <1>1, <1>3
  <2> QED BY <1>3, <2>1, <2>2 DEF Lines
<1>6. pc' # "remove" /\ OpAtEnd'
  BY <1>1 DEF Succeed, OpAtEnd
<1>7. ActiveAtEnd'
  BY <1>1, <1>4 DEF Succeed, ActiveAtEnd, IInv, OpInv, LastIs
<1>8. OwedAtEnd'
  <2> SUFFICES ASSUME owed # None PROVE OwedAtEnd'
    BY <1>1 DEF OwedAtEnd
  <2>1. op.line = owed
    BY <1>1 DEF WholeInv, OpAtEnd, IInv, OpInv
  <2>2. Running(owed) \in Lines(Journal) /\ Running(owed)' = Running(owed)
    BY <1>1 DEF WholeInv, OwedAtEnd, Running
  <2> QED BY <1>1, <1>4, <1>5, <2>1, <2>2 DEF OwedAtEnd, LastIs
<1> QED BY <1>2, <1>6, <1>7, <1>8 DEF WholeInv, RotatesFull

\* Without torn writes, what does not append leaves the card as it is.
LEMMA RestKeepsWhole ==
  ASSUME faulted' = {}, IInv, WholeInv,
         Initialize \/ Settle \/ StartupRefused \/ AppendRefused \/ Crash
           \/ Restart \/ UNCHANGED vars
  PROVE  WholeInv'
<1>1. CASE Initialize \/ Settle \/ StartupRefused \/ Restart
  <2>1. op' = None
    BY <1>1 DEF IInv, StepInv, Writing, Initialize, Settle, StartupRefused, Restart
  <2>2. UNCHANGED card /\ pc' # "remove" /\ owed' \in {owed, None}
        /\ active' \in {active, None}
    BY <1>1 DEF Initialize, Settle, StartupRefused, Restart, ram
  <2> QED BY <2>1, <2>2, QuietKeepsWhole
<1>2. CASE AppendRefused \/ Crash
  <2>1. UNCHANGED card /\ pc' # "remove" /\ owed' = owed /\ op' = None
        /\ active' \in {active, None}
    BY <1>2 DEF AppendRefused, Crash, Tear, card
  <2> QED BY <2>1, QuietKeepsWhole
<1>3. CASE UNCHANGED vars
  <2>1. Journal' = Journal /\ Fits' = Fits
    BY <1>3 DEF vars, Journal, Fits
  <2> QED BY <1>3, <2>1, SameLast
          DEF vars, WholeInv, RotatesFull, ActiveAtEnd, OpAtEnd, OwedAtEnd, Running
<1> QED BY <1>1, <1>2, <1>3

\* What was cut is remembered.
LEMMA FaultsStay == [Next]_vars /\ faulted' = {} => faulted = {}
BY DEF Next, vars, Startup, Write, Initialize, Recover, Settle, StartupRefused,
       Start, Finish, HandOff, HandOffAmbiguous, Remove, Rename, AppendLine,
       AppendShort, AppendRefused, Tear, Crash, Restart, history

\* Every step keeps it while no line is cut.
LEMMA NextWhole ==
  ASSUME "toolTest" \notin Callers, faulted' = {}, IInv, WholeInv, [Next]_vars
  PROVE  WholeInv'
<1>1. CASE Recover
  BY <1>1, RecoverKeepsWhole
<1>2. CASE \E caller \in Caller, tool \in Tool : Start(caller, tool)
  BY <1>2, StartKeepsWhole
<1>3. CASE \E status \in Terminal : HandOff(status)
  BY <1>3, HandOffKeepsWhole
<1>4. CASE \E status \in Terminal : Finish(status)
  <2>1. PICK status \in Terminal : Finish(status)
    BY <1>4
  <2>2. owed = None
    BY <2>1 DEF Finish, IInv, StepInv
  <2> QED BY <2>1, <2>2, EndKeepsWhole DEF Finish, ram
<1>5. CASE HandOffAmbiguous
  BY <1>5, EndKeepsWhole DEF HandOffAmbiguous, ram, Terminal
<1>6. CASE Remove
  BY <1>6, RemoveKeepsWhole
<1>7. CASE Rename
  BY <1>7, RenameKeepsWhole
<1>8. CASE AppendLine
  BY <1>8, AppendLineKeepsWhole
<1>9. CASE AppendShort
  BY <1>9 DEF AppendShort
<1>10. CASE Initialize \/ Settle \/ StartupRefused \/ AppendRefused \/ Crash
              \/ Restart \/ UNCHANGED vars
  BY <1>10, RestKeepsWhole
<1> QED
  BY <1>1, <1>2, <1>3, <1>4, <1>5, <1>6, <1>7, <1>8, <1>9, <1>10
  DEF Next, Startup, Write

-----------------------------------------------------------------------------
(* Theorems *)

\* The inductive invariant, if no tool is started past the pending record.
THEOREM ActivityInvariant ==
  ASSUME "toolTest" \notin Callers
  PROVE  Spec => []IInv
<1>1. Init => IInv
  BY InitIInv
<1>2. IInv /\ [Next]_vars => IInv'
  BY NextIInv
<1> QED BY <1>1, <1>2, PTL DEF Spec

\* The journal is readable for ever (readJournal, foldRecentActivities),
\* whatever is torn, refused or reset, if prompts alone start tools.
THEOREM JournalAlwaysReads ==
  ASSUME "toolTest" \notin Callers
  PROVE  Spec => []JournalReads
<1>1. IInv => JournalReads
  BY DEF IInv
<1> QED BY <1>1, ActivityInvariant, PTL

\* The owed end of a Python run is accepted by finishPersistedToolActivity at
\* every attempt, however the device was reset, as long as no line was cut.
THEOREM WholeFinishAlwaysAccepted ==
  ASSUME "toolTest" \notin Callers
  PROVE  Spec => []WholeFinishAccepted
<1> DEFINE Inv == IInv /\ (faulted = {} => WholeInv)
<1>1. Init => Inv
  BY InitIInv, InitWhole
<1>2. Inv /\ [Next]_vars => Inv'
  BY NextIInv, NextWhole, FaultsStay
<1>3. Inv => WholeFinishAccepted
  BY WholeIsFinishable DEF WholeFinishAccepted, OwedFinishAccepted, IInv, StepInv
<1> QED BY <1>1, <1>2, <1>3, PTL DEF Spec
-----------------------------------------------------------------------------
(* What is shown: the inductive invariants *)

\* As long as no line was shortened behind a reported success, a run that ended
\* has its last line in the journal or none, and nobody is about to write
\* another one.
EndedInv == "shortFlush" \notin faulted =>
  /\ \A e \in ended : e.status \in Terminal
  /\ \A e \in ended : e.seq \in Numbers(Journal) => e \in Lines(Journal)
  /\ active # None => \A e \in ended : e.seq # active.seq
  /\ op # None /\ op.kind # "start" =>
       op.line.status \in Terminal /\ \A e \in ended : e.seq # op.line.seq

Above(numbers, n) == {m \in numbers : m > n}

\* As long as no line was cut, the journal holds begun runs only, and the last
\* Keep of them.
BegunInv == faulted = {} =>
  /\ IsFiniteSet(begun)
  /\ Numbers(Journal) \subseteq begun
  /\ active # None => active.seq \in begun
  /\ owed # None => owed.seq \in begun
  /\ op # None /\ op.kind # "start" => op.line.seq \in begun
  /\ \A n \in begun : Cardinality(Above(begun, n)) < Keep => n \in Numbers(Journal)

-----------------------------------------------------------------------------
(* What is shown of a number *)

\* Behind a terminal line there is no other line of its number.
LEMMA TerminalIsLast ==
  ASSUME Ordered(Journal), NEW i \in DOMAIN Journal, NEW j \in DOMAIN Journal,
         DOMAIN Journal \subseteq Nat,
         Journal[i].seq = Journal[j].seq, Journal[i].status # "running"
  PROVE  j <= i
<1>1. CASE i < j
  <2>1. Follows(Journal[i], Journal[j])
    BY <1>1 DEF Ordered
  <2> QED BY <2>1 DEF Follows
<1>2. i \in Nat /\ j \in Nat
  OBVIOUS
<1> QED BY <1>1, <1>2

\* The last line of a retained number exists: the terminal one, if there is one.
LEMMA LastOfNumber ==
  ASSUME TypeOK, Ordered(Journal), NEW e \in Retained
  PROVE  /\ LastOf(e.seq) \in Retained
         /\ LastOf(e.seq).seq = e.seq
         /\ e.status # "running" => LastOf(e.seq) = e
<1> DEFINE Ends(f) ==
      \E i \in DOMAIN Journal :
        /\ Journal[i] = f /\ f.seq = e.seq
        /\ \A j \in DOMAIN Journal : Journal[j].seq = e.seq => j <= i
<1>1. DOMAIN Journal \subseteq Nat
  <2>1. PICK n \in Nat : DOMAIN Journal = 1..n
    BY JournalType
  <2> QED BY <2>1
<1>2. PICK i \in DOMAIN Journal : Journal[i] = e
  BY DEF Retained, Lines
<1>3. e.status # "running" => Ends(e)
  BY <1>1, <1>2, TerminalIsLast
<1>4. \E f \in Retained : Ends(f)
  <2>1. CASE \A j \in DOMAIN Journal : Journal[j].seq = e.seq => j <= i
    BY <1>2, <2>1
  <2>2. CASE \E j \in DOMAIN Journal : Journal[j].seq = e.seq /\ ~(j <= i)
    <3>1. PICK j \in DOMAIN Journal : Journal[j].seq = e.seq /\ ~(j <= i)
      BY <2>2
    <3>2. i \in Nat /\ j \in Nat
      BY <1>1
    <3>3. Follows(e, Journal[j])
      BY <1>2, <3>1, <3>2 DEF Ordered
    <3>4. Journal[j].status # "running"
      BY <3>1, <3>3 DEF Follows
    <3>5. \A k \in DOMAIN Journal : Journal[k].seq = e.seq => k <= j
      BY <1>1, <3>1, <3>4, TerminalIsLast
    <3>6. Journal[j] \in Retained
      BY <3>1 DEF Retained, Recent, Lines
    <3> QED BY <3>1, <3>5, <3>6
  <2> QED BY <2>1, <2>2
<1>5. LastOf(e.seq) \in Retained /\ Ends(LastOf(e.seq))
  BY <1>4 DEF LastOf
<1>6. ASSUME e.status # "running" PROVE LastOf(e.seq) = e
  <2>1. PICK k \in DOMAIN Journal :
          /\ Journal[k] = LastOf(e.seq) /\ LastOf(e.seq).seq = e.seq
          /\ \A j \in DOMAIN Journal : Journal[j].seq = e.seq => j <= k
    BY <1>5
  <2>2. i <= k /\ k <= i
    BY <1>1, <1>2, <1>6, <2>1, TerminalIsLast
  <2>3. i = k
    BY <1>1, <2>2
  <2> QED BY <1>2, <2>1, <2>3
<1> QED BY <1>5, <1>6

\* Showing a line keeps its number.
LEMMA ProjectedFacts ==
  ASSUME NEW e \in Line
  PROVE  Projected(e).seq = e.seq /\ (e.status # "running" => Projected(e) = e)
BY DEF Projected, Line

\* A run that ended is shown with its end.
LEMMA EndedIsShown ==
  ASSUME TypeOK, JournalReads, EndedInv
  PROVE  ShownAsEnded
<1> SUFFICES ASSUME "shortFlush" \notin faulted, NEW e \in ended,
                    NEW s \in Shown, s.seq = e.seq
             PROVE  s = e
  BY DEF ShownAsEnded
<1>1. Ordered(Journal) /\ Lines(Journal) \subseteq Line
  BY JournalType DEF JournalReads
<1>2. PICK r \in Retained : s = Projected(LastOf(r.seq))
  BY DEF Shown
<1>3. LastOf(r.seq) \in Line /\ LastOf(r.seq).seq = r.seq /\ r \in Lines(Journal)
  BY <1>1, LastOfNumber DEF Retained
<1>4. r.seq = e.seq
  BY <1>2, <1>3, ProjectedFacts
<1>5. e.status # "running" /\ e \in Lines(Journal)
  BY <1>3, <1>4 DEF EndedInv, Numbers, Terminal
<1>6. e \in Retained
  BY <1>4, <1>5 DEF Retained, Recent
<1>7. LastOf(e.seq) = e
  BY <1>1, <1>5, <1>6, LastOfNumber
<1> QED BY <1>1, <1>2, <1>4, <1>5, <1>7, ProjectedFacts

\* The last Keep runs are shown.
LEMMA BegunIsShown ==
  ASSUME TypeOK, JournalReads, BegunInv
  PROVE  RecentShown
<1> SUFFICES ASSUME faulted = {}, NEW n \in begun, Cardinality(Above(begun, n)) < Keep
             PROVE  \E s \in Shown : s.seq = n
  BY DEF RecentShown, Above
<1>1. Ordered(Journal) /\ Lines(Journal) \subseteq Line
  BY JournalType DEF JournalReads
<1>2. PICK e \in Lines(Journal) : e.seq = n
  BY DEF BegunInv, Numbers
<1>3. Recent(e)
  <2>1. IsFiniteSet(Above(begun, n)) /\ Above(Numbers(Journal), n) \in SUBSET Above(begun, n)
    <3>1. IsFiniteSet(begun) /\ Above(begun, n) \in SUBSET begun
      BY DEF BegunInv, Above
    <3> QED BY <3>1, FS_Subset DEF BegunInv, Above
  <2>2. /\ Cardinality(Above(Numbers(Journal), n)) <= Cardinality(Above(begun, n))
        /\ IsFiniteSet(Above(Numbers(Journal), n))
    BY <2>1, FS_Subset
  <2>3. /\ Cardinality(Above(Numbers(Journal), n)) \in Nat
        /\ Cardinality(Above(begun, n)) \in Nat /\ Keep \in Nat
    BY <2>1, <2>2, FS_CardinalityType, SizeAssumption
  <2>4. Cardinality(Above(Numbers(Journal), n)) < Keep
    BY <2>2, <2>3
  <2> QED BY <1>2, <2>4 DEF Recent, Above
<1>4. e \in Retained
  BY <1>2, <1>3 DEF Retained
<1>5. LastOf(e.seq) \in Line /\ LastOf(e.seq).seq = n
  BY <1>1, <1>2, <1>4, LastOfNumber DEF Retained
<1>6. Projected(LastOf(e.seq)) \in Shown
  BY <1>4 DEF Shown
<1> QED BY <1>5, <1>6, ProjectedFacts

-----------------------------------------------------------------------------
(* What the steps do to it *)

\* The lines of two generations.
LEMMA LinesOfConcat ==
  ASSUME NEW a \in Seq(Line), NEW b \in Seq(Line)
  PROVE  /\ Lines(a \o b) = Lines(a) \cup Lines(b)
         /\ Ordered(a \o b) =>
              \A e \in Lines(a), f \in Lines(b) : Follows(e, f)
<1>1. PICK m \in Nat, n \in Nat : m = Len(a) /\ n = Len(b)
  OBVIOUS
<1> DEFINE c == a \o b
<1>2. /\ DOMAIN c = 1..m + n /\ DOMAIN b = 1..n /\ DOMAIN a = 1..m
      /\ \A i \in 1..n : c[m + i] = b[i]
      /\ \A i \in 1..m : c[i] = a[i]
  BY <1>1
<1> HIDE DEF c
<1>3. /\ \A i \in 1..n : m + i \in 1..m + n
      /\ \A i \in 1..m : i \in 1..m + n
      /\ \A i \in 1..m + n : i \in 1..m \/ (i - m \in 1..n /\ m + (i - m) = i)
      /\ \A i \in 1..m, j \in 1..n : i < m + j
  OBVIOUS
<1>4. Lines(a) \subseteq Lines(c) /\ Lines(b) \subseteq Lines(c)
  BY <1>2, <1>3 DEF Lines
<1>5. Lines(c) \subseteq Lines(a) \cup Lines(b)
  <2> SUFFICES ASSUME NEW e \in Lines(c) PROVE e \in Lines(a) \cup Lines(b)
    OBVIOUS
  <2>1. PICK i \in 1..m + n : c[i] = e
    BY <1>2 DEF Lines
  <2>2. CASE i \in 1..m
    BY <1>2, <2>1, <2>2 DEF Lines
  <2>3. CASE i - m \in 1..n /\ m + (i - m) = i
    <3>1. c[m + (i - m)] = b[i - m]
      BY <1>2, <2>3
    <3> QED BY <1>2, <2>1, <2>3, <3>1 DEF Lines
  <2> QED BY <1>3, <2>2, <2>3
<1>6. ASSUME Ordered(c), NEW e \in Lines(a), NEW f \in Lines(b)
      PROVE  Follows(e, f)
  <2>1. PICK i \in 1..m, j \in 1..n : a[i] = e /\ b[j] = f
    BY <1>2 DEF Lines
  <2>2. Follows(c[i], c[m + j])
    BY <1>2, <1>3, <1>6, <2>1 DEF Ordered
  <2> QED BY <1>2, <2>1, <2>2
<1> QED BY <1>4, <1>5, <1>6 DEF c

\* How the journal changes: a line is appended, the previous generation goes,
\* or no line changes.
LEMMA JournalSteps ==
  ASSUME IInv, [Next]_vars
  PROVE  \/ AppendLine /\ Lines(Journal') = Lines(Journal) \cup {op.line}
         \/ AppendShort
         \/ Remove /\ Lines(Journal') = Lines(current.lines)
         \/ Lines(Journal') = Lines(Journal) /\ ~AppendLine /\ ~AppendShort /\ ~Remove
<1>1. TypeOK /\ Journal \in Seq(Line)
  BY JournalType DEF IInv
<1>2. CASE AppendLine
  <2>1. /\ op # None /\ op.line \in Line /\ previous' = previous
        /\ current' = Appended /\ Fits
    BY <1>2 DEF IInv, StepInv, Writing, TypeOK, AppendLine, Succeed
  <2>2. previous.lines \in Seq(Line) /\ current.lines \in Seq(Line)
    BY <1>1 DEF TypeOK, File
  <2>3. current'.lines = Append(current.lines, op.line)
    BY <2>1, <2>2 DEF Appended, Fits, File
  <2>4. Journal' = Append(Journal, op.line)
    <3>1. previous.lines \o Append(current.lines, op.line)
            = Append(previous.lines \o current.lines, op.line)
      BY <2>1, <2>2, ConcatFacts
    <3> QED BY <2>1, <2>3, <3>1 DEF Journal
  <2>5. Lines(Append(Journal, op.line)) = Lines(Journal) \cup {op.line}
    BY <1>1, <2>1, OrderedAppend DEF IInv, JournalReads, OpInv
  <2> QED BY <1>2, <2>4, <2>5
<1>3. CASE Remove
  <2>1. current.lines \in Seq(Line) /\ previous'.lines = << >> /\ current' = current
    BY <1>1, <1>3 DEF TypeOK, File, Remove, Empty
  <2>2. Journal' = current.lines
    BY <2>1, ConcatFacts DEF Journal
  <2> QED BY <1>3, <2>2
<1>4. CASE Rename
  <2>1. Journal' = Journal
    BY <1>1, <1>4, ConcatFacts DEF IInv, StepInv, TypeOK, File, Empty, Journal, Rename
  <2>2. ~AppendLine /\ ~AppendShort /\ ~Remove
    BY <1>4 DEF Rename, AppendLine, AppendShort, Remove
  <2> QED BY <2>1, <2>2
<1>5. ASSUME ~AppendLine, ~AppendShort, ~Remove, ~Rename
      PROVE  Journal' = Journal
  <2>1. previous' = previous /\ (current' = current \/ current' = Cut)
    BY <1>5 DEF Next, vars, Startup, Write, Initialize, Recover, Settle,
       StartupRefused, Start, Finish, HandOff, HandOffAmbiguous, AppendRefused,
       Tear, Crash, Restart, card
  <2>2. current'.lines = current.lines
    BY <1>1, <2>1 DEF TypeOK, File, Cut
  <2> QED BY <2>1, <2>2, SameLines
<1> QED BY <1>2, <1>3, <1>4, <1>5

\* Who may write a line of a number: only the run that has it, or its recovery.
LEMMA HolderSteps ==
  ASSUME IInv, [Next]_vars, ~AppendLine, ~AppendShort
  PROVE  /\ begun' = begun /\ ended' = ended
         /\ active' \in {active, None}
         /\ \/ owed' \in {owed, None}
            \/ active # None /\ owed'.seq = active.seq
         /\ \/ op' \in {op, None}
            \/ op'.kind = "start"
            \/ /\ active # None /\ op'.line.seq = active.seq
               /\ op'.line.status \in Terminal
            \/ owed # None /\ op'.line = owed /\ Finishable(owed) /\ owed \notin Found(owed)
<1>1. ASSUME pc = "dispatch", NEW status \in Terminal
      PROVE  LET line == [active EXCEPT !.status = status] IN
               active # None /\ line.seq = active.seq /\ line.status = status
  BY <1>1, ActiveMayEnd DEF IInv, StepInv
<1>2. CASE \E status \in Terminal : Finish(status)
  <2>1. PICK status \in Terminal : Finish(status)
    BY <1>2
  <2> DEFINE line == [active EXCEPT !.status = status]
  <2>2. active # None /\ line.seq = active.seq /\ line.status = status
    BY <1>1, <2>1 DEF Finish
  <2>3. /\ op'.line = line /\ owed' = owed /\ active' = active
        /\ begun' = begun /\ ended' = ended
    BY <2>1 DEF Finish, Begin, ram, history
  <2> QED BY <2>1, <2>2, <2>3
<1>3. CASE \E status \in Terminal : HandOff(status)
  BY <1>1, <1>3 DEF HandOff, history
<1>4. CASE HandOffAmbiguous
  <2>1. "failed" \in Terminal
    BY DEF Terminal
  <2> QED BY <1>1, <1>4, <2>1 DEF HandOffAmbiguous, Begin, ram, history
<1>5. CASE \E caller \in Caller, tool \in Tool : Start(caller, tool)
  BY <1>5 DEF Start, Begin, history
<1>6. CASE Recover
  BY <1>6 DEF Recover, Begin, ram, history, IInv, StepInv
<1>7. CASE Initialize \/ Settle \/ StartupRefused \/ Remove \/ Rename
  BY <1>7 DEF Initialize, Settle, StartupRefused, Remove, Rename, ram, history
<1>8. CASE AppendRefused \/ Crash \/ Restart
  BY <1>8 DEF AppendRefused, Crash, Restart, history
<1>9. CASE UNCHANGED vars
  BY <1>9 DEF vars
<1> QED BY <1>2, <1>3, <1>4, <1>5, <1>6, <1>7, <1>8, <1>9
        DEF Next, Startup, Write

\* What a success reports.
LEMMA SucceedSteps ==
  ASSUME IInv, AppendLine
  PROVE  /\ op # None /\ op' = None /\ owed' = owed /\ op.kind \in {"start", "finish", "recover"}
         /\ op.kind = "start" =>
              /\ active' = op.line /\ begun' = begun \cup {op.line.seq}
              /\ ended' = {e \in ended : e.seq # op.line.seq}
         /\ op.kind # "start" =>
              /\ active' = None /\ begun' = begun
              /\ ended' = ended \cup {op.line}
<1>1. op # None /\ op.kind \in {"start", "finish", "recover"}
  BY DEF AppendLine, IInv, StepInv, Writing, TypeOK
<1>2. CASE op.kind = "start"
  BY <1>1, <1>2 DEF AppendLine, Succeed
<1>3. CASE op.kind = "finish"
  BY <1>1, <1>3 DEF AppendLine, Succeed
<1>4. CASE op.kind = "recover"
  BY <1>1, <1>4 DEF AppendLine, Succeed, IInv, OpInv
<1> QED BY <1>1, <1>2, <1>3, <1>4

\* The run whose end is about to be recovered has not ended.
LEMMA OwedHasNotEnded ==
  ASSUME IInv, EndedInv, "shortFlush" \notin faulted, owed # None,
         Finishable(owed), owed \notin Found(owed)
  PROVE  owed.status \in Terminal /\ \A e \in ended : e.seq # owed.seq
<1>1. ASSUME NEW e \in ended, e.seq = owed.seq
      PROVE  FALSE
  <2>1. Running(owed) \in Lines(Journal) /\ Running(owed).seq = owed.seq
    BY RunningFacts DEF Finishable, RunningFound, Found, Retained, IInv, TypeOK
  <2>2. e \in Lines(Journal) /\ e.status \in Terminal
    BY <1>1, <2>1 DEF EndedInv, Numbers
  <2>3. e \in Found(owed)
    BY <1>1, <2>2, OwedIsRetained
  <2> QED BY <2>2, <2>3 DEF Finishable, Terminal
<1> QED BY <1>1 DEF IInv, OwedIsLast

\* Faults are never forgotten.
LEMMA FaultsGrow == [Next]_vars => faulted \subseteq faulted'
BY DEF Next, vars, Startup, Write, Initialize, Recover, Settle, StartupRefused,
       Start, Finish, HandOff, HandOffAmbiguous, Remove, Rename, AppendLine,
       AppendShort, AppendRefused, Tear, Crash, Restart, history

\* Every step keeps it that a run that ended has its end in the journal or
\* nothing.
LEMMA EndedStep ==
  ASSUME IInv, EndedInv, [Next]_vars
  PROVE  EndedInv'
<1> SUFFICES ASSUME "shortFlush" \notin faulted' PROVE EndedInv'
  BY DEF EndedInv
<1>1. "shortFlush" \notin faulted /\ ~AppendShort
  BY FaultsGrow DEF AppendShort
<1>2. CASE AppendLine
  <2>1. Lines(Journal') = Lines(Journal) \cup {op.line}
    BY <1>1, <1>2, JournalSteps DEF AppendLine, Remove
  <2>2. ASSUME NEW e \in ended'
        PROVE  e.status \in Terminal /\ (e.seq \in Numbers(Journal') => e \in Lines(Journal'))
    <3>1. CASE e = op.line /\ op.kind # "start"
      BY <1>1, <1>2, <2>1, <3>1, SucceedSteps DEF EndedInv
    <3>2. CASE e \in ended /\ e.seq # op.line.seq
      BY <1>1, <2>1, <3>2 DEF EndedInv, Numbers
    <3>3. op.kind # "start" => \A f \in ended : f.seq # op.line.seq
      BY <1>1, <1>2, SucceedSteps DEF EndedInv
    <3> QED BY <1>2, <2>2, <3>1, <3>2, <3>3, SucceedSteps
  <2>3. active' # None => \A e \in ended' : e.seq # active'.seq
    BY <1>2, SucceedSteps
  <2>4. op' = None
    BY <1>2, SucceedSteps
  <2> QED BY <2>2, <2>3, <2>4 DEF EndedInv
<1>3. CASE ~AppendLine
  <2>1. ended' = ended /\ active' \in {active, None}
    BY <1>1, <1>3, HolderSteps
  <2>2. ASSUME NEW e \in ended, e.seq \in Numbers(Journal')
        PROVE  e \in Lines(Journal')
    <3>1. CASE Lines(Journal') = Lines(Journal)
      BY <1>1, <2>2, <3>1 DEF EndedInv, Numbers
    <3>2. CASE Lines(Journal') = Lines(current.lines)
      <4>1. PICK f \in Lines(current.lines) : f.seq = e.seq
        BY <2>2, <3>2 DEF Numbers
      <4>2. /\ previous.lines \in Seq(Line) /\ current.lines \in Seq(Line)
            /\ Ordered(Journal)
        BY DEF IInv, TypeOK, File, JournalReads
      <4>3. /\ Lines(Journal) = Lines(previous.lines) \cup Lines(current.lines)
            /\ \A g \in Lines(previous.lines) : Follows(g, f)
        BY <4>1, <4>2, LinesOfConcat DEF Journal
      <4>4. e \in Lines(Journal) /\ e.status \in Terminal
        BY <1>1, <4>1, <4>3 DEF EndedInv, Numbers
      <4>5. e \notin Lines(previous.lines)
        BY <4>1, <4>3, <4>4 DEF Follows, Terminal
      <4> QED BY <3>2, <4>3, <4>4, <4>5
    <3> QED BY <1>1, <1>3, <3>1, <3>2, JournalSteps
  <2>3. op' # None /\ op'.kind # "start" =>
          op'.line.status \in Terminal /\ \A e \in ended : e.seq # op'.line.seq
    <3>1. CASE op' \in {op, None}
      BY <1>1, <3>1 DEF EndedInv
    <3>2. CASE /\ active # None /\ op'.line.seq = active.seq
               /\ op'.line.status \in Terminal
      BY <1>1, <3>2 DEF EndedInv
    <3>3. CASE /\ owed # None /\ op'.line = owed /\ Finishable(owed)
               /\ owed \notin Found(owed)
      BY <1>1, <3>3, OwedHasNotEnded
    <3> QED BY <1>1, <1>3, <3>1, <3>2, <3>3, HolderSteps
  <2>4. active' # None => \A e \in ended : e.seq # active'.seq
    BY <1>1, <2>1 DEF EndedInv
  <2>5. \A e \in ended : e.status \in Terminal
    BY <1>1 DEF EndedInv
  <2> QED BY <2>1, <2>2, <2>3, <2>4, <2>5 DEF EndedInv
<1> QED BY <1>2, <1>3

\* A number has at most two lines.
LEMMA TwoLinesEach ==
  ASSUME NEW s \in Seq(Line), Ordered(s)
  PROVE  /\ IsFiniteSet(Numbers(s)) /\ Cardinality(Numbers(s)) \in Nat
         /\ Len(s) <= 2 * Cardinality(Numbers(s))
<1>1. PICK l \in Nat : l = Len(s) /\ DOMAIN s = 1..l
  BY LenProperties
<1> DEFINE numbers == Numbers(s)
           number == [i \in 1..l |-> s[i].seq]
           slot == [i \in 1..l |-> <<s[i].seq, IF s[i].status = "running" THEN 0 ELSE 1>>]
<1>2. /\ \A i \in 1..l : s[i].seq \in numbers
      /\ \A n \in numbers : \E i \in 1..l : s[i].seq = n
  BY <1>1 DEF Numbers, Lines
<1>3. /\ \A i \in 1..l, j \in 1..l : i < j => Follows(s[i], s[j])
  BY <1>1 DEF Ordered
<1> HIDE DEF numbers
<1>4. /\ IsFiniteSet(1..l) /\ Cardinality(1..l) = l
      /\ IsFiniteSet(0..1) /\ Cardinality(0..1) = 2
  <2>1. IsFiniteSet(1..l) /\ Cardinality(1..l) = IF 1 > l THEN 0 ELSE l - 1 + 1
    BY FS_Interval
  <2>2. PICK zero \in Int, one \in Int : zero = 0 /\ one = 1
    OBVIOUS
  <2>3. /\ IsFiniteSet(zero..one)
        /\ Cardinality(zero..one) = IF zero > one THEN 0 ELSE one - zero + 1
    BY FS_Interval
  <2> QED BY <2>1, <2>2, <2>3
<1>5. IsFiniteSet(numbers) /\ Cardinality(numbers) \in Nat
  <2>1. number \in Surjection(1..l, numbers)
    BY <1>2, Fun_IsSurj
  <2>2. IsFiniteSet(numbers)
    BY <1>4, <2>1, FS_Surjection
  <2> QED BY <2>2, FS_CardinalityType
<1>6. IsFiniteSet(numbers \X (0..1)) /\ Cardinality(numbers \X (0..1)) = Cardinality(numbers) * 2
  BY <1>4, <1>5, FS_Product
<1>7. ASSUME Cardinality(numbers) * 2 < l
      PROVE  FALSE
  <2>1. slot \in [1..l -> numbers \X (0..1)]
    BY <1>2
  <2> HIDE DEF slot
  <2>2. PICK i \in 1..l, j \in 1..l : i # j /\ slot[i] = slot[j]
    BY <1>4, <1>6, <1>7, <2>1, FS_PigeonHole
  <2>3. s[i].seq = s[j].seq /\ (s[i].status = "running" <=> s[j].status = "running")
    BY <2>2 DEF slot
  <2>4. ASSUME NEW a \in 1..l, NEW b \in 1..l, a < b, s[a].seq = s[b].seq,
               s[a].status = "running" <=> s[b].status = "running"
        PROVE  FALSE
    BY <1>3, <2>4 DEF Follows
  <2>5. i < j \/ j < i
    BY <2>2
  <2> QED BY <2>3, <2>4, <2>5
<1> QED BY <1>1, <1>5, <1>7 DEF numbers

\* A rotation keeps the last Keep numbers, if a full file has them.
LEMMA RotationKeepsRecent ==
  ASSUME IInv, WholeInv, BegunInv, faulted = {}, MaxLines >= 2 * Keep - 1,
         Remove, NEW n \in begun, Cardinality(Above(begun, n)) < Keep
  PROVE  n \in Numbers(current.lines)
<1>1. /\ previous.lines \in Seq(Line) /\ current.lines \in Seq(Line)
      /\ Ordered(previous.lines \o current.lines)
  BY DEF IInv, TypeOK, File, JournalReads, Journal
<1>2. /\ Lines(Journal) = Lines(previous.lines) \cup Lines(current.lines)
      /\ \A e \in Lines(previous.lines), f \in Lines(current.lines) : Follows(e, f)
  BY <1>1, LinesOfConcat DEF Journal
<1>3. Ordered(current.lines)
  BY <1>1, OrderedSuffix
<1> DEFINE numbers == Numbers(current.lines)
<1>4. /\ IsFiniteSet(numbers) /\ Cardinality(numbers) \in Nat
      /\ Len(current.lines) <= 2 * Cardinality(numbers)
  BY <1>1, <1>3, TwoLinesEach
<1>5. Keep <= Cardinality(numbers)
  <2>1. ~(Len(current.lines) + 1 <= MaxLines) /\ Len(current.lines) \in Nat
    BY <1>1, LenProperties DEF Remove, WholeInv, RotatesFull, Fits
  <2>2. Keep \in Nat /\ MaxLines \in Nat
    BY SizeAssumption
  <2> HIDE DEF numbers
  <2> QED BY <1>4, <2>1, <2>2
<1>6. n \in Numbers(Journal)
  BY DEF BegunInv
<1>7. CASE n \notin numbers
  <2>1. PICK e \in Lines(Journal) : e.seq = n
    BY <1>6 DEF Numbers
  <2>2. e \in Lines(previous.lines)
    BY <1>2, <1>7, <2>1 DEF Numbers
  <2>3. Lines(Journal) \subseteq Line
    BY JournalType DEF IInv
  <2>4. ASSUME NEW m \in numbers PROVE m \in Above(begun, n)
    <3>1. PICK f \in Lines(current.lines) : f.seq = m
      BY DEF Numbers
    <3>2. n <= m /\ n # m
      BY <1>2, <1>7, <2>1, <2>2, <3>1 DEF Follows
    <3>3. n \in Nat /\ m \in Nat /\ m \in begun
      BY <1>2, <2>1, <2>3, <3>1 DEF BegunInv, Numbers, Line
    <3> QED BY <3>2, <3>3 DEF Above
  <2>5. IsFiniteSet(Above(begun, n))
    <3>1. IsFiniteSet(begun) /\ Above(begun, n) \in SUBSET begun
      BY DEF BegunInv, Above
    <3> QED BY <3>1, FS_Subset
  <2>6. Cardinality(numbers) <= Cardinality(Above(begun, n))
    <3>1. numbers \in SUBSET Above(begun, n)
      BY <2>4
    <3> QED BY <2>5, <3>1, FS_Subset
  <2>7. Cardinality(Above(begun, n)) \in Nat /\ Keep \in Nat
    BY <2>5, FS_CardinalityType, SizeAssumption
  <2> QED BY <1>4, <1>5, <2>6, <2>7
<1> QED BY <1>7

\* Every step keeps the last Keep begun runs in the journal.
LEMMA BegunStep ==
  ASSUME IInv, faulted = {} => WholeInv, BegunInv, MaxLines >= 2 * Keep - 1, [Next]_vars
  PROVE  BegunInv'
<1> SUFFICES ASSUME faulted' = {} PROVE BegunInv'
  BY DEF BegunInv
<1>1. faulted = {} /\ ~AppendShort
  BY FaultsGrow DEF AppendShort
<1>2. CASE AppendLine
  <2>1. Lines(Journal') = Lines(Journal) \cup {op.line}
    BY <1>1, <1>2, JournalSteps DEF AppendLine, Remove
  <2>2. /\ begun' = begun \cup {op.line.seq} /\ op' = None /\ owed' = owed
        /\ active' # None => active' = op.line
    BY <1>1, <1>2, SucceedSteps DEF BegunInv
  <2>3. Numbers(Journal') = Numbers(Journal) \cup {op.line.seq}
    BY <2>1 DEF Numbers
  <2>4. IsFiniteSet(begun')
    <3>1. IsFiniteSet(begun \cup {op.line.seq})
      BY <1>1, FS_AddElement DEF BegunInv
    <3> QED BY <2>2, <3>1
  <2>5. ASSUME NEW n \in begun', Cardinality(Above(begun', n)) < Keep
        PROVE  n \in Numbers(Journal')
    <3>1. CASE n = op.line.seq
      BY <2>3, <3>1
    <3>2. CASE n \in begun
      <4>1. IsFiniteSet(Above(begun', n)) /\ Above(begun', n) \in SUBSET begun'
        <5>1. Above(begun', n) \in SUBSET begun'
          BY DEF Above
        <5> QED BY <2>4, <5>1, FS_Subset
      <4>2. Above(begun, n) \in SUBSET Above(begun', n)
        BY <2>2 DEF Above
      <4>3. /\ IsFiniteSet(Above(begun, n))
            /\ Cardinality(Above(begun, n)) <= Cardinality(Above(begun', n))
        BY <4>1, <4>2, FS_Subset
      <4>4. /\ Cardinality(Above(begun, n)) \in Nat /\ Keep \in Nat
            /\ Cardinality(Above(begun', n)) \in Nat
        BY <4>1, <4>3, FS_CardinalityType, SizeAssumption
      <4>5. Cardinality(Above(begun, n)) < Keep
        BY <2>5, <4>3, <4>4
      <4> QED BY <1>1, <2>3, <3>2, <4>5 DEF BegunInv
    <3> QED BY <2>2, <3>1, <3>2
  <2> QED BY <1>1, <2>2, <2>3, <2>4, <2>5 DEF BegunInv
<1>3. CASE ~AppendLine
  <2>1. begun' = begun
    BY <1>1, <1>3, HolderSteps
  <2>2. IsFiniteSet(begun)
    BY <1>1 DEF BegunInv
  <2>3. /\ Numbers(Journal') \subseteq begun
        /\ \A n \in begun : Cardinality(Above(begun, n)) < Keep => n \in Numbers(Journal')
    <3>1. CASE Lines(Journal') = Lines(Journal)
      BY <1>1, <3>1 DEF BegunInv, Numbers
    <3>2. CASE Remove /\ Lines(Journal') = Lines(current.lines)
      <4>1. previous.lines \in Seq(Line) /\ current.lines \in Seq(Line)
        BY DEF IInv, TypeOK, File
      <4>2. Lines(current.lines) \subseteq Lines(Journal)
        BY <4>1, LinesOfConcat DEF Journal
      <4>3. Numbers(Journal') = Numbers(current.lines)
        BY <3>2 DEF Numbers
      <4>4. Numbers(current.lines) \subseteq Numbers(Journal)
        BY <4>2 DEF Numbers
      <4> QED BY <1>1, <3>2, <4>3, <4>4, RotationKeepsRecent DEF BegunInv
    <3> QED BY <1>1, <1>3, <3>1, <3>2, JournalSteps
  <2>4. active' # None => active'.seq \in begun
    BY <1>1, <1>3, HolderSteps DEF BegunInv
  <2>5. owed' # None => owed'.seq \in begun
    BY <1>1, <1>3, HolderSteps DEF BegunInv
  <2>6. op' # None /\ op'.kind # "start" => op'.line.seq \in begun
    BY <1>1, <1>3, HolderSteps DEF BegunInv
  <2> QED BY <2>1, <2>2, <2>3, <2>4, <2>5, <2>6 DEF BegunInv
<1> QED BY <1>2, <1>3

\* Nothing has begun.
LEMMA InitShown == Init => EndedInv /\ BegunInv
<1> SUFFICES ASSUME Init PROVE EndedInv /\ BegunInv
  OBVIOUS
<1>1. Journal = << >>
  BY DEF Init, Empty, Journal
<1>2. Lines(Journal) = {} /\ Numbers(Journal) = {}
  BY <1>1 DEF Lines, Numbers
<1> QED BY <1>2, FS_EmptySet DEF Init, EndedInv, BegunInv

\* A run whose end was reported is shown with that end or not at all
\* (foldRecentActivities), however often the device was reset.
THEOREM EndsAreShown ==
  ASSUME "toolTest" \notin Callers
  PROVE  Spec => []ShownAsEnded
<1>1. Init => EndedInv
  BY InitShown
<1>2. IInv /\ EndedInv /\ [Next]_vars => EndedInv'
  BY EndedStep
<1>3. IInv /\ EndedInv => ShownAsEnded
  BY EndedIsShown DEF IInv
<1> QED BY <1>1, <1>2, <1>3, ActivityInvariant, PTL DEF Spec

\* The last Keep runs are shown for any sizes with room for them: two lines of
\* each but one in a file.
THEOREM RecentAreShown ==
  ASSUME "toolTest" \notin Callers, MaxLines >= 2 * Keep - 1
  PROVE  Spec => []RecentShown
<1> DEFINE Inv == IInv /\ (faulted = {} => WholeInv) /\ BegunInv
<1>1. Init => Inv
  BY InitIInv, InitWhole, InitShown
<1>2. Inv /\ [Next]_vars => Inv'
  BY NextIInv, NextWhole, FaultsStay, BegunStep
<1>3. Inv => RecentShown
  BY BegunIsShown DEF IInv
<1> QED BY <1>1, <1>2, <1>3, PTL DEF Spec
================================================================================
