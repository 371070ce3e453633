-------------------------- MODULE ConversationProofs --------------------------
(***************************************************************************)
(* Proofs about the services of MCServices that talk to another host: to   *)
(* the model, with the window of the chat that is sent with a prompt, the  *)
(* answer and the calls it is made with, and what is dictated and read     *)
(* aloud; and to an SSH server, with its files.  Each has an invariant of  *)
(* its own state, kept by its own actions (Frames).  At the end are the    *)
(* theorems about files on either side.                                    *)
(***************************************************************************)
EXTENDS ServicesProofs, WellFoundedInduction

-----------------------------------------------------------------------------
(* ContextWindow.                                                          *)

\* The bounds of a chat.
LEMMA ContextBounds ==
  {MaxMessages, TailMessages, RetainedMessages} \subseteq Nat /\ TailMessages # 0
BY ServicesAssumption

\* What the window and a request hold of n messages is in the order of the chat; an
\* answer that is not on the card has no place in it.
InChatOrder(n, w) ==
  /\ \A i \in 1..Len(w) : w[i] <= n
  /\ \A i, j \in 1..Len(w) : i < j /\ 0 \notin {w[i], w[j]} => w[i] < w[j]

\* The last of n messages, none of them among the k that are summarized.
IsTail(n, k, w) ==
  /\ n - Len(w) >= k
  /\ \A i \in 1..Len(w) : w[i] = n - Len(w) + i

\* A request is of this chat, and ends with the prompt it is for.
RequestIsOfChat ==
  Context!Idle \/
    /\ counted < Len(log) /\ log[Len(log)].role = "user"
    /\ asking.request # <<>> /\ Context!Last(asking.request) = Len(log)
    /\ InChatOrder(Len(log), asking.request)
    /\ Context!SizeOf(log, asking.request) <= Budget \/ Len(asking.request) = 1
    /\ surface = "device" => asking.request = window
    /\ surface = "web" \/ ~lost => \A i \in 1..Len(asking.request) : asking.request[i] > counted

WindowIsOfChat ==
  surface = "device" => InChatOrder(Len(log), window) /\ (~lost => IsTail(Len(log), counted,
    window))

ContextInv ==
  /\ Context!TypeOK /\ Context!SummaryIsOfThisChat /\ Len(log) <= MaxMessages
  /\ WindowIsOfChat /\ RequestIsOfChat

\* A set of naturals has a least element.
LEMMA LeastNatural ==
  ASSUME NEW S \in SUBSET Nat, S # {}
  PROVE  Context!Min(S) \in S /\ \A n \in S : Context!Min(S) <= n
<1> DEFINE R == OpToRel(<, Nat)
<1>1. IsWellFoundedOn(R, Nat)
  BY NatLessThanWellFounded
<1>2. \A m, n \in Nat : m < n => <<m, n>> \in R
  BY DEF OpToRel
<1> HIDE DEF R
<1>3. PICK m \in S : \A n \in S : ~(<<n, m>> \in R)
  BY <1>1, WFMin
<1>4. ASSUME NEW n \in S PROVE m <= n
  <2>1. m \in Nat /\ n \in Nat
    OBVIOUS
  <2>2. n < m => <<n, m>> \in R
    BY <2>1, <1>2
  <2>3. ~(n < m)
    BY <2>2, <1>3
  <2> QED
    BY <2>1, <2>3
<1> QED
  BY <1>4 DEF Context!Min

\* The least of two.
LEMMA LeastOfTwo ==
  ASSUME NEW m \in Nat, NEW n \in Nat
  PROVE  Context!Min({m, n}) \in {m, n} /\ Context!Min({m, n}) <= m /\ Context!Min({m, n}) <= n
BY LeastNatural

\* fitContextWindow keeps the last message whatever its size, and what it keeps
\* of more than that fits.
LEMMA FirstRetainedFits ==
  ASSUME NEW l, NEW S, NEW w \in Seq(S), w # <<>>
  PROVE  /\ Context!FirstRetained(l, w) \in 1..Len(w)
         /\ Context!FirstRetained(l, w) = Len(w)
            \/ Context!SizeOf(l, SubSeq(w, Context!FirstRetained(l, w), Len(w))) <= Budget
<1> DEFINE F == {i \in 1..Len(w) : i = Len(w) \/ Context!SizeOf(l, SubSeq(w, i,
    Len(w))) <= Budget}
<1>1. Len(w) \in F /\ F \in SUBSET Nat
  OBVIOUS
<1>2. Context!Min(F) \in F
  <2> HIDE DEF F
  <2> QED
    BY <1>1, LeastNatural
<1> QED
  BY <1>2 DEF Context!FirstRetained

\* A fit is the window from some message on; what is dropped is what is before it.
LEMMA FitIsTheRest ==
  ASSUME NEW l, NEW S, NEW w \in Seq(S), w # <<>>
  PROVE  \E f \in 1..Len(w) :
           /\ Context!Fit(l, w) \in Seq(S) /\ Context!Fit(l, w) # <<>>
           /\ Len(Context!Fit(l, w)) = Len(w) - f + 1
           /\ \A i \in 1..Len(Context!Fit(l, w)) : Context!Fit(l, w)[i] = w[f - 1 + i]
           /\ Context!SizeOf(l, Context!Fit(l, w)) <= Budget \/ Len(Context!Fit(l, w)) = 1
           /\ Context!Dropped(l, w) \in Seq(S) /\ Len(Context!Dropped(l, w)) = f - 1
           /\ \A i \in 1..Len(Context!Dropped(l, w)) : Context!Dropped(l, w)[i] = w[i]
<1>1. PICK f \in 1..Len(w) :
        /\ f = Context!FirstRetained(l, w)
        /\ f = Len(w) \/ Context!SizeOf(l, SubSeq(w, f, Len(w))) <= Budget
  BY FirstRetainedFits
<1>2. Context!Fit(l, w) = SubSeq(w, f, Len(w)) /\ Context!Dropped(l, w) = SubSeq(w, 1, f - 1)
  BY <1>1 DEF Context!Fit, Context!Dropped
<1>3. /\ SubSeq(w, f, Len(w)) \in Seq(S)
      /\ Len(SubSeq(w, f, Len(w))) = Len(w) - f + 1
      /\ \A i \in 1..Len(w) - f + 1 : SubSeq(w, f, Len(w))[i] = w[f - 1 + i]
  OBVIOUS
<1>4. /\ SubSeq(w, 1, f - 1) \in Seq(S) /\ Len(SubSeq(w, 1, f - 1)) = f - 1
      /\ \A i \in 1..f - 1 : SubSeq(w, 1, f - 1)[i] = w[i]
  OBVIOUS
<1>5. Context!SizeOf(l, SubSeq(w, f, Len(w))) <= Budget \/ Len(SubSeq(w, f, Len(w))) = 1
  BY <1>1, <1>3
<1>6. SubSeq(w, f, Len(w)) # <<>>
  <2> DEFINE s == SubSeq(w, f, Len(w))
  <2>1. Len(s) # 0
    BY <1>3
  <2> HIDE DEF s
  <2>2. s # <<>>
    BY <2>1
  <2> QED
    BY <2>2 DEF s
<1> QED
  BY <1>2, <1>3, <1>4, <1>5, <1>6

\* The unsummarized tail is the last messages, of those the summary does not cover;
\* it is empty only when the summary covers them all.
LEMMA TailIsLast ==
  ASSUME NEW n \in Nat, NEW k \in Nat, k <= n, TailMessages \in Nat \ {0}
  PROVE  /\ Context!UnsummarizedTail(n, k) \in Seq(1..n)
         /\ Len(Context!UnsummarizedTail(n, k)) <= n - k
         /\ \A i \in 1..Len(Context!UnsummarizedTail(n, k)) :
              Context!UnsummarizedTail(n, k)[i] = n - Len(Context!UnsummarizedTail(n, k)) + i
         /\ k < n <=> Context!UnsummarizedTail(n, k) # <<>>
<1>1. Context!Min({k, n}) = k
  BY LeastOfTwo
<1> DEFINE first == IF n > TailMessages /\ n - TailMessages > k THEN n - TailMessages ELSE Context!Min({k, n})
           t == [i \in 1..n - first |-> first + i]
<1>2. first \in Nat /\ k <= first /\ first <= n /\ (k < n <=> first < n)
  BY <1>1
<1>3. Context!UnsummarizedTail(n, k) = t
  BY DEF Context!UnsummarizedTail
<1> HIDE DEF first
<1>4. t \in Seq(1..n) /\ Len(t) = n - first
  BY <1>2
<1>5. \A i \in 1..n - first : t[i] = first + i
  OBVIOUS
<1> HIDE DEF t
<1>6. t # <<>> <=> 0 < Len(t)
  BY <1>4
<1>7. Len(t) <= n - k /\ \A i \in 1..Len(t) : t[i] = n - Len(t) + i
  BY <1>2, <1>4, <1>5
<1>8. k < n <=> t # <<>>
  BY <1>2, <1>4, <1>6
<1> QED
  BY <1>3, <1>4, <1>7, <1>8

\* The types of what the operators of a request return.
Entries == 0..MaxMessages
Messages == [role : {"user", "assistant"}, bytes : Sizes]

\* A request made of a sequence that ends with the prompt.
LEMMA FitIsOfChat ==
  ASSUME NEW l, NEW n \in Nat, NEW k \in Nat,
         NEW w \in Seq(Entries), w # <<>>, InChatOrder(n, w)
  PROVE  /\ Context!Fit(l, w) \in Seq(Entries) /\ Context!Fit(l, w) # <<>>
         /\ InChatOrder(n, Context!Fit(l, w))
         /\ Context!Last(Context!Fit(l, w)) = Context!Last(w)
         /\ Context!SizeOf(l, Context!Fit(l, w)) <= Budget \/ Len(Context!Fit(l, w)) = 1
         /\ \A m \in 0..Len(Context!Dropped(l, w)) : IsTail(n, k, w) => IsTail(n, k + m,
            Context!Fit(l, w))
         /\ Context!Dropped(l, w) \in Seq(Entries)
         /\ \A i \in 1..Len(Context!Dropped(l, w)) : Context!Dropped(l, w)[i] <= n
<1> DEFINE r == Context!Fit(l, w)  d == Context!Dropped(l, w)
<1>1. PICK f \in 1..Len(w) :
        /\ r \in Seq(Entries) /\ r # <<>>
        /\ Len(r) = Len(w) - f + 1
        /\ \A i \in 1..Len(r) : r[i] = w[f - 1 + i]
        /\ Context!SizeOf(l, r) <= Budget \/ Len(r) = 1
        /\ d \in Seq(Entries) /\ Len(d) = f - 1
        /\ \A i \in 1..Len(d) : d[i] = w[i]
  BY FitIsTheRest
<1> HIDE DEF r, d
<1>2. Len(w) \in Nat /\ Len(r) \in Nat
  BY <1>1
<1>3. \A i \in 1..Len(r) : f - 1 + i \in 1..Len(w)
  BY <1>1, <1>2
<1>4. \A i \in 1..Len(w) : w[i] \in Nat
  BY ContextBounds DEF Entries
<1>5. InChatOrder(n, r)
  <2>1. \A i \in 1..Len(r) : r[i] <= n
    BY <1>1, <1>3 DEF InChatOrder
  <2>2. ASSUME NEW i \in 1..Len(r), NEW j \in 1..Len(r), i < j, 0 \notin {r[i], r[j]}
        PROVE  r[i] < r[j]
    <3>1. f - 1 + i \in 1..Len(w) /\ f - 1 + j \in 1..Len(w) /\ f - 1 + i < f - 1 + j
      BY <2>2, <1>2, <1>3
    <3>2. r[i] = w[f - 1 + i] /\ r[j] = w[f - 1 + j]
      BY <1>1
    <3> QED
      BY <2>2, <3>1, <3>2 DEF InChatOrder
  <2> QED
    BY <2>1, <2>2 DEF InChatOrder
<1>6. Context!Last(r) = Context!Last(w)
  <2>1. Len(r) \in 1..Len(r) /\ f - 1 + Len(r) = Len(w)
    BY <1>1, <1>2
  <2>2. r[Len(r)] = w[Len(w)]
    BY <2>1, <1>1
  <2> QED
    BY <2>2 DEF Context!Last
<1>7. ASSUME NEW m \in 0..Len(d), IsTail(n, k, w) PROVE IsTail(n, k + m, r)
  <2>1. n - Len(r) >= k + m
    <3>1. n - Len(w) >= k
      BY <1>7 DEF IsTail
    <3> QED
      BY <3>1, <1>1, <1>2
  <2>2. ASSUME NEW i \in 1..Len(r) PROVE r[i] = n - Len(r) + i
    <3>1. r[i] = w[f - 1 + i] /\ f - 1 + i \in 1..Len(w)
      BY <1>1, <1>3
    <3>2. w[f - 1 + i] = n - Len(w) + (f - 1 + i)
      BY <3>1, <1>7 DEF IsTail
    <3> QED
      BY <3>1, <3>2, <1>1, <1>2
  <2> QED
    BY <2>1, <2>2 DEF IsTail
<1>8. \A i \in 1..Len(d) : d[i] <= n
  <2>1. \A i \in 1..Len(d) : i \in 1..Len(w)
    BY <1>1, <1>2
  <2> QED
    BY <2>1, <1>1 DEF InChatOrder
<1> QED
  BY <1>1, <1>5, <1>6, <1>7, <1>8 DEF r, d

\* The tail of the chat is one, in order, and empty when all of it is summarized.
LEMMA TailIsOfChat ==
  ASSUME Context!TypeOK, Context!SummaryIsOfThisChat, Len(log) <= MaxMessages
  PROVE  /\ Context!Tail0 \in Seq(Entries) /\ InChatOrder(Len(log), Context!Tail0)
         /\ IsTail(Len(log), counted, Context!Tail0)
         /\ Context!Tail0 # <<>> => counted < Len(log) /\ Context!Last(Context!Tail0) = Len(log)
         /\ counted < Len(log) => Context!Tail0 # <<>>
<1> DEFINE t == Context!Tail0
<1>1. Len(log) \in Nat /\ counted \in Nat /\ counted <= Len(log) /\ MaxMessages \in Nat
  BY ContextBounds DEF Context!TypeOK, Context!SummaryIsOfThisChat
<1>2. /\ t \in Seq(1..Len(log)) /\ Len(t) <= Len(log) - counted
      /\ \A i \in 1..Len(t) : t[i] = Len(log) - Len(t) + i
      /\ counted < Len(log) <=> t # <<>>
  BY <1>1, TailIsLast, ContextBounds DEF Context!Tail0
<1> HIDE DEF t
<1>3. Len(t) \in Nat
  BY <1>2
<1>4. t \in Seq(Entries)
  <2>1. \A i \in 1..Len(t) : t[i] \in Entries
    BY <1>1, <1>2 DEF Entries
  <2>2. t = [i \in 1..Len(t) |-> t[i]]
    BY <1>2
  <2> QED
    BY <2>1, <2>2, <1>3
<1>5. InChatOrder(Len(log), t)
  <2>1. \A i \in 1..Len(t) : t[i] <= Len(log)
    BY <1>1, <1>2, <1>3
  <2>2. \A i, j \in 1..Len(t) : i < j => t[i] < t[j]
    BY <1>1, <1>2, <1>3
  <2> QED
    BY <2>1, <2>2 DEF InChatOrder
<1>6. IsTail(Len(log), counted, t)
  BY <1>1, <1>2, <1>3 DEF IsTail
<1>7. ASSUME t # <<>> PROVE Context!Last(t) = Len(log)
  <2>1. Len(t) \in 1..Len(t)
    BY <1>2, <1>3, <1>7
  <2>2. t[Len(t)] = Len(log) - Len(t) + Len(t)
    BY <2>1, <1>2
  <2>3. t[Len(t)] = Len(log)
    BY <2>2, <1>1, <1>3
  <2> QED
    BY <2>3 DEF Context!Last
<1> QED
  BY <1>2, <1>4, <1>5, <1>6, <1>7 DEF t

\* What is in a tail is not in the summary.
LEMMA TailIsUncounted ==
  ASSUME NEW n \in Nat, NEW k \in Nat, NEW w \in Seq(Entries), IsTail(n, k, w)
  PROVE  \A i \in 1..Len(w) : w[i] > k
<1>1. Len(w) \in Nat
  OBVIOUS
<1> QED
  BY <1>1 DEF IsTail

\* One more message at the end.
LEMMA AppendedIsOfChat ==
  ASSUME NEW n \in Nat, n < MaxMessages, NEW k \in Nat,
         NEW w \in Seq(Entries), InChatOrder(n, w)
  PROVE  /\ Append(w, n + 1) \in Seq(Entries) /\ Append(w, n + 1) # <<>>
         /\ InChatOrder(n + 1, Append(w, n + 1)) /\ Context!Last(Append(w, n + 1)) = n + 1
         /\ IsTail(n, k, w) => IsTail(n + 1, k, Append(w, n + 1))
<1> DEFINE a == Append(w, n + 1)
<1>1. n + 1 \in Entries /\ MaxMessages \in Nat
  BY ContextBounds DEF Entries
<1>2. /\ a \in Seq(Entries) /\ Len(a) = Len(w) + 1
      /\ a[Len(w) + 1] = n + 1 /\ \A i \in 1..Len(w) : a[i] = w[i]
  BY <1>1
<1>3. Len(w) \in Nat /\ \A i \in 1..Len(w) : w[i] \in Nat
  BY ContextBounds DEF Entries
<1> HIDE DEF a
<1>4. \A i \in 1..Len(a) : i \in 1..Len(w) \/ i = Len(w) + 1
  BY <1>2, <1>3
<1>5. a # <<>> /\ Context!Last(a) = n + 1
  BY <1>2, <1>3 DEF Context!Last
<1>6. InChatOrder(n + 1, a)
  <2>1. \A i \in 1..Len(a) : a[i] <= n + 1
    BY <1>2, <1>3, <1>4 DEF InChatOrder
  <2>2. ASSUME NEW i \in 1..Len(a), NEW j \in 1..Len(a), i < j, 0 \notin {a[i], a[j]}
        PROVE  a[i] < a[j]
    <3>1. i \in 1..Len(w)
      BY <1>2, <1>3, <1>4, <2>2
    <3>2. CASE j = Len(w) + 1
      BY <3>1, <3>2, <1>2, <1>3 DEF InChatOrder
    <3>3. CASE j \in 1..Len(w)
      BY <3>1, <3>3, <1>2, <2>2 DEF InChatOrder
    <3> QED
      BY <3>2, <3>3, <1>4
  <2> QED
    BY <2>1, <2>2 DEF InChatOrder
<1>7. ASSUME IsTail(n, k, w) PROVE IsTail(n + 1, k, a)
  <2>1. n + 1 - Len(a) >= k
    BY <1>2, <1>3, <1>7 DEF IsTail
  <2>2. ASSUME NEW i \in 1..Len(a) PROVE a[i] = n + 1 - Len(a) + i
    <3>1. CASE i \in 1..Len(w)
      BY <3>1, <1>2, <1>3, <1>7 DEF IsTail
    <3>2. CASE i = Len(w) + 1
      BY <3>2, <1>2, <1>3
    <3> QED
      BY <3>1, <3>2, <1>4
  <2> QED
    BY <2>1, <2>2 DEF IsTail
<1> QED
  BY <1>2, <1>5, <1>6, <1>7 DEF a

\* The state and the operators a step of the chat is made of.
LEMMA ContextTypes ==
  ASSUME ContextInv
  PROVE  /\ Len(log) \in Nat /\ Len(log) \in 0..MaxMessages /\ counted \in Nat
         /\ counted <= Len(log)
         /\ MaxMessages \in Nat /\ RetainedMessages \in Nat
         /\ log \in Seq(Messages) /\ window \in Seq(Entries) /\ asking.request \in Seq(Entries)
         /\ covered \subseteq 1..Len(log)
BY ContextBounds DEF ContextInv, Context!TypeOK, Context!SummaryIsOfThisChat, Messages, Entries

\* The device's window is read from the card again.
LEMMA ReadAgain ==
  ASSUME ContextInv
  PROVE  /\ Context!Tail0 \in Seq(Entries) /\ InChatOrder(Len(log), Context!Tail0)
         /\ IsTail(Len(log), counted, Context!Tail0)
BY TailIsOfChat DEF ContextInv

\* ContextInv, its parts named as the state they are of.
LEMMA QuietStepKept ==
  ASSUME ContextInv, Context!ActivateChat \/ Context!OpenWebConsole
         \/ Context!CloseWebConsole \/ Context!Fail
  PROVE  ContextInv'
<1>1. log' = log /\ counted' = counted /\ covered' = covered /\ asking' \in {asking,
      Context!Nothing}
  BY DEF Context!ActivateChat, Context!OpenWebConsole, Context!CloseWebConsole, Context!Fail
<1>2. surface' \in {"device", "web"} /\ automatic' \in BOOLEAN /\ lost' \in BOOLEAN
  BY DEF Context!ActivateChat, Context!OpenWebConsole, Context!CloseWebConsole, Context!Fail,
     ContextInv, Context!TypeOK
<1>3. window' \in Seq(Entries) /\ WindowIsOfChat'
  <2>1. CASE window' = Context!Tail0 /\ lost' = FALSE
    BY <2>1, <1>1, ReadAgain DEF WindowIsOfChat
  <2>2. CASE UNCHANGED <<window, lost>> /\ (surface' = surface \/ surface' = "web")
    BY <2>2, <1>1, ContextTypes DEF WindowIsOfChat, ContextInv
  <2> QED
    BY <2>1, <2>2 DEF Context!ActivateChat, Context!OpenWebConsole, Context!CloseWebConsole,
       Context!Fail
<1>4. asking' = Context!Nothing
  BY DEF Context!ActivateChat, Context!OpenWebConsole, Context!CloseWebConsole, Context!Fail,
     Context!Idle
<1>5. RequestIsOfChat'
  BY <1>4 DEF RequestIsOfChat, Context!Idle
<1>6. Context!TypeOK'
  <2>1. Context!Nothing \in [phase : {"none", "sent", "resumed"}, request : Seq(0..MaxMessages)]
    BY DEF Context!Nothing
  <2> QED
    BY <2>1, <1>1, <1>2, <1>3, <1>4 DEF Context!TypeOK, ContextInv, Entries
<1> QED
  BY <1>1, <1>3, <1>5, <1>6 DEF ContextInv, Context!SummaryIsOfThisChat

\* A request that goes out is of this chat, and so is what is left in the window.
LEMMA AskedIsOfChat ==
  ASSUME ContextInv, NEW r \in Seq(Entries), r # <<>>, Context!Ask(r),
         log' \in Seq(Messages), Len(log') \in Len(log)..MaxMessages, counted < Len(log'),
         log'[Len(log')].role = "user", lost' \in BOOLEAN,
         InChatOrder(Len(log'), r), Context!Last(r) = Len(log'),
         Context!SizeOf(log', r) <= Budget \/ Len(r) = 1,
         surface = "web" \/ ~lost' => IsTail(Len(log'), counted, r)
  PROVE  ContextInv'
<1>1. /\ asking' = [phase |-> "sent", request |-> r]
      /\ window' = IF surface = "device" THEN r ELSE window
      /\ counted' = counted /\ covered' = covered /\ surface' = surface
      /\ automatic' = automatic
  BY DEF Context!Ask
<1>2. Context!TypeOK'
  <2>1. asking' \in [phase : {"none", "sent", "resumed"}, request : Seq(0..MaxMessages)]
    BY <1>1 DEF Entries
  <2>2. window' \in Seq(0..MaxMessages)
    BY <1>1, ContextTypes DEF Entries
  <2> QED
    BY <2>1, <2>2, <1>1 DEF Context!TypeOK, ContextInv, Messages
<1>3. Len(log') \in Nat /\ Len(log') <= MaxMessages /\ Len(log) <= Len(log')
  BY ContextTypes
<1>4. Context!SummaryIsOfThisChat'
  BY <1>1, <1>3, ContextTypes DEF Context!SummaryIsOfThisChat
<1>5. WindowIsOfChat'
  BY <1>1 DEF WindowIsOfChat
<1>6. surface = "web" \/ ~lost' => \A i \in 1..Len(r) : r[i] > counted
  BY <1>3, ContextTypes, TailIsUncounted
<1>7. asking'.request = r
  BY <1>1
<1>8. RequestIsOfChat'
  BY <1>1, <1>6, <1>7 DEF RequestIsOfChat
<1> QED
  BY <1>2, <1>3, <1>4, <1>5, <1>8 DEF ContextInv

\* A prompt is appended to the chat and to the window it is sent with.
LEMMA SubmitPromptKept ==
  ASSUME ContextInv, NEW bytes \in Sizes, Context!SubmitPrompt(bytes)
  PROVE  ContextInv'
<1> DEFINE m == [role |-> "user", bytes |-> bytes]
           v == IF surface = "device" THEN window ELSE Context!Tail0
           w == Append(v, Len(log) + 1)
           r == Context!Fit(log', w)
<1>1. log' = Append(log, m) /\ Context!Ask(r) /\ Len(log) < MaxMessages /\ lost' = lost
      /\ Context!Idle
  BY DEF Context!SubmitPrompt
<1>2. m \in Messages
  BY DEF Messages
<1>3. /\ log' \in Seq(Messages) /\ Len(log') = Len(log) + 1 /\ log'[Len(log')] = m
  BY <1>1, <1>2, ContextTypes
<1>4. Len(log') \in Len(log)..MaxMessages /\ counted < Len(log')
  BY <1>1, <1>3, ContextTypes
<1>5. v \in Seq(Entries) /\ InChatOrder(Len(log), v)
      /\ (surface = "web" \/ ~lost => IsTail(Len(log), counted, v))
  BY ContextTypes, ReadAgain DEF ContextInv, WindowIsOfChat, Context!TypeOK
<1> HIDE DEF v
<1>6. /\ w \in Seq(Entries) /\ w # <<>>
      /\ InChatOrder(Len(log'), w) /\ Context!Last(w) = Len(log')
      /\ surface = "web" \/ ~lost => IsTail(Len(log'), counted, w)
  <2>1. Len(log) \in Nat /\ counted \in Nat /\ Len(log) < MaxMessages
    BY <1>1, ContextTypes
  <2>2. /\ w \in Seq(Entries) /\ w # <<>>
        /\ InChatOrder(Len(log) + 1, w) /\ Context!Last(w) = Len(log) + 1
        /\ IsTail(Len(log), counted, v) => IsTail(Len(log) + 1, counted, w)
    BY <2>1, <1>5, AppendedIsOfChat
  <2> HIDE DEF w
  <2> QED
    BY <2>2, <1>3, <1>5
<1> HIDE DEF w
<1>7. 0 \in 0..Len(Context!Dropped(log', w)) /\ Len(log') \in Nat /\ counted + 0 = counted
      /\ counted \in Nat
  <2>1. Len(log') \in Nat /\ counted \in Nat
    BY <1>3, ContextTypes
  <2>2. Context!Dropped(log', w) \in Seq(Entries)
    BY <2>1, <1>6, FitIsOfChat
  <2>3. Len(Context!Dropped(log', w)) \in Nat
    BY <2>2
  <2> QED
    BY <2>1, <2>3
<1>8. /\ r \in Seq(Entries) /\ r # <<>>
      /\ InChatOrder(Len(log'), r) /\ Context!Last(r) = Len(log')
      /\ Context!SizeOf(log', r) <= Budget \/ Len(r) = 1
  BY <1>6, <1>7, FitIsOfChat
<1>9. surface = "web" \/ ~lost => IsTail(Len(log'), counted, r)
  <2>1. IsTail(Len(log'), counted, w) => IsTail(Len(log'), counted + 0, r)
    BY <1>6, <1>7, FitIsOfChat
  <2> QED
    BY <2>1, <1>6, <1>7
<1> HIDE DEF r
<1>10. log'[Len(log')].role = "user"
  BY <1>3
<1>11. lost' \in BOOLEAN
  BY <1>1 DEF ContextInv, Context!TypeOK
<1>12. surface = "web" \/ ~lost' => IsTail(Len(log'), counted, r)
  BY <1>1, <1>9
<1> QED
  BY <1>1, <1>3, <1>4, <1>8, <1>10, <1>11, <1>12, AskedIsOfChat

\* Without a new message.
LEMMA FitTailIsOfChat ==
  ASSUME ContextInv, Context!Tail0 # <<>>
  PROVE  /\ Context!Fit(log, Context!Tail0) \in Seq(Entries)
         /\ Context!Fit(log, Context!Tail0) # <<>>
         /\ InChatOrder(Len(log), Context!Fit(log, Context!Tail0))
         /\ Context!Last(Context!Fit(log, Context!Tail0)) = Len(log)
         /\ Context!SizeOf(log, Context!Fit(log, Context!Tail0)) <= Budget
            \/ Len(Context!Fit(log, Context!Tail0)) = 1
         /\ IsTail(Len(log), counted, Context!Fit(log, Context!Tail0)) /\ counted < Len(log)
<1> DEFINE w == Context!Tail0  d == Context!Dropped(log, w)  r == Context!Fit(log, w)
<1>1. /\ w \in Seq(Entries) /\ w # <<>> /\ InChatOrder(Len(log), w)
      /\ IsTail(Len(log), counted, w) /\ counted < Len(log) /\ Context!Last(w) = Len(log)
  BY TailIsOfChat DEF ContextInv
<1> HIDE DEF w
<1>2. Len(log) \in Nat /\ counted \in Nat /\ counted + 0 = counted
  BY ContextTypes
<1>3. /\ r \in Seq(Entries) /\ r # <<>>
      /\ InChatOrder(Len(log), r) /\ Context!Last(r) = Context!Last(w)
      /\ Context!SizeOf(log, r) <= Budget \/ Len(r) = 1
      /\ d \in Seq(Entries)
      /\ \A m \in 0..Len(d) :
           IsTail(Len(log), counted, w) => IsTail(Len(log), counted + m, r)
  BY <1>1, <1>2, FitIsOfChat
<1> HIDE DEF r, d
<1>4. 0 \in 0..Len(d)
  BY <1>3
<1>5. IsTail(Len(log), counted, r)
  BY <1>1, <1>2, <1>3, <1>4
<1> QED
  BY <1>1, <1>3, <1>5 DEF r, w

\* A request repeated is a fit of the tail, which ends with the same prompt.
LEMMA RetryKept ==
  ASSUME ContextInv, Context!Retry
  PROVE  ContextInv'
<1> DEFINE r == Context!Fit(log, Context!Tail0)
<1>1. /\ Context!Tail0 # <<>> /\ log' = log /\ Context!Ask(r) /\ log[Len(log)].role = "user"
      /\ lost' = IF surface = "device" THEN FALSE ELSE lost
  BY DEF Context!Retry
<1>2. /\ r \in Seq(Entries) /\ r # <<>>
      /\ InChatOrder(Len(log), r) /\ Context!Last(r) = Len(log)
      /\ Context!SizeOf(log, r) <= Budget \/ Len(r) = 1
      /\ IsTail(Len(log), counted, r) /\ counted < Len(log)
  BY <1>1, FitTailIsOfChat
<1> HIDE DEF r
<1>3. Len(log) \in Len(log)..MaxMessages /\ log \in Seq(Messages)
  BY ContextTypes
<1>4. lost' \in BOOLEAN
  BY <1>1 DEF ContextInv, Context!TypeOK
<1> QED
  BY <1>1, <1>2, <1>3, <1>4, AskedIsOfChat

\* A chat resumed has the window fitted anew.
LEMMA ResumeKept ==
  ASSUME ContextInv, Context!Resume
  PROVE  ContextInv'
<1> DEFINE f == Context!Fit(log, Context!Tail0)
<1>1. /\ asking.phase = "sent"
      /\ asking' = [phase |-> "resumed", request |-> IF surface = "device" THEN window ELSE f]
      /\ UNCHANGED <<log, counted, covered, window, surface, automatic, lost>>
  BY DEF Context!Resume
<1>2. ~Context!Idle
  BY <1>1 DEF Context!Idle, Context!Nothing
<1>3. counted < Len(log) /\ Context!Tail0 # <<>> /\ log[Len(log)].role = "user"
  BY <1>2, TailIsOfChat DEF ContextInv, RequestIsOfChat
<1>4. /\ f \in Seq(Entries) /\ f # <<>>
      /\ InChatOrder(Len(log), f) /\ Context!Last(f) = Len(log)
      /\ Context!SizeOf(log, f) <= Budget \/ Len(f) = 1
      /\ IsTail(Len(log), counted, f)
  BY <1>3, FitTailIsOfChat
<1>5. \A i \in 1..Len(f) : f[i] > counted
  <2> HIDE DEF f
  <2> QED
    BY <1>4, ContextTypes, TailIsUncounted
<1> HIDE DEF f
<1> DEFINE q == IF surface = "device" THEN window ELSE f
<1>6. CASE surface = "device"
  <2>1. asking'.request = asking.request
    BY <1>1, <1>2, <1>6 DEF ContextInv, RequestIsOfChat
  <2>2. asking'.request = window'
    BY <1>1, <1>6
  <2>3. RequestIsOfChat'
    BY <2>1, <2>2, <1>1, <1>2 DEF ContextInv, RequestIsOfChat
  <2>4. asking' \in [phase : {"none", "sent", "resumed"}, request : Seq(0..MaxMessages)]
    BY <1>1, <1>6, ContextTypes DEF Entries
  <2> QED
    BY <2>3, <2>4, <1>1 DEF ContextInv, Context!TypeOK, WindowIsOfChat,
       Context!SummaryIsOfThisChat
<1>7. CASE surface = "web"
  <2>1. asking'.request = f
    BY <1>1, <1>7
  <2>3. RequestIsOfChat'
    BY <2>1, <1>1, <1>3, <1>4, <1>5, <1>7 DEF RequestIsOfChat
  <2>4. asking' \in [phase : {"none", "sent", "resumed"}, request : Seq(0..MaxMessages)]
    BY <1>1, <1>7, <1>4 DEF Entries
  <2> QED
    BY <2>3, <2>4, <1>1 DEF ContextInv, Context!TypeOK, WindowIsOfChat,
       Context!SummaryIsOfThisChat
<1> QED
  BY <1>6, <1>7 DEF ContextInv, Context!TypeOK

\* With nothing asked, a summary and a window of this chat are all there is to keep.
LEMMA IdleIsKept ==
  ASSUME ContextInv, asking' = Context!Nothing,
         log' \in Seq(Messages), Len(log') \in 0..MaxMessages,
         counted' \in 0..Len(log'), covered' \subseteq 1..Len(log'),
         window' \in Seq(Entries), WindowIsOfChat', lost' \in BOOLEAN,
         surface' = surface, automatic' = automatic
  PROVE  ContextInv'
<1>1. MaxMessages \in Nat
  BY ContextTypes
<1>2. counted' \in 0..MaxMessages /\ covered' \subseteq 1..MaxMessages
  BY <1>1
<1>3. Context!Nothing \in [phase : {"none", "sent", "resumed"}, request : Seq(0..MaxMessages)]
  BY DEF Context!Nothing
<1>4. Context!TypeOK'
  BY <1>2, <1>3 DEF Context!TypeOK, ContextInv, Messages, Entries
<1>5. Context!SummaryIsOfThisChat' /\ Len(log') <= MaxMessages
  BY <1>1 DEF Context!SummaryIsOfThisChat
<1>6. RequestIsOfChat'
  BY DEF RequestIsOfChat, Context!Idle
<1> QED
  BY <1>4, <1>5, <1>6 DEF ContextInv

\* A summary made on demand covers all but the retained messages.
LEMMA RegenerateSummaryKept ==
  ASSUME ContextInv, Context!RegenerateSummary
  PROVE  ContextInv'
<1> DEFINE k == Len(log) - RetainedMessages  t == Context!UnsummarizedTail(Len(log), k)
<1>1. /\ log' = log /\ counted' = k /\ covered' = 1..k /\ Context!Idle
      /\ surface' = surface /\ automatic' = automatic /\ asking' = asking
      /\ Len(log) > RetainedMessages
  BY DEF Context!RegenerateSummary
<1>2. k \in 0..Len(log) /\ k \in Nat /\ k <= Len(log)
  BY <1>1, ContextTypes
<1>3. 1..k \subseteq 1..Len(log)
  BY <1>2, ContextTypes
<1>4. /\ t \in Seq(1..Len(log)) /\ Len(t) <= Len(log) - k
      /\ \A i \in 1..Len(t) : t[i] = Len(log) - Len(t) + i
  BY <1>2, ContextTypes, TailIsLast, ContextBounds
<1>5. /\ surface = "device" => window' = t /\ lost' = FALSE
      /\ surface = "web" => UNCHANGED <<window, lost>>
  BY <1>1 DEF Context!RegenerateSummary
<1> HIDE DEF t, k
<1>6. t \in Seq(Entries) /\ Len(t) \in Nat
  <2>1. \A i \in 1..Len(t) : t[i] \in Entries
    BY <1>4, ContextTypes DEF Entries
  <2>2. t = [i \in 1..Len(t) |-> t[i]] /\ Len(t) \in Nat
    BY <1>4
  <2> QED
    BY <2>1, <2>2
<1>7. InChatOrder(Len(log), t) /\ IsTail(Len(log), k, t)
  <2>1. \A i \in 1..Len(t) : t[i] <= Len(log)
    BY <1>4, <1>6, ContextTypes
  <2>2. \A i, j \in 1..Len(t) : i < j => t[i] < t[j]
    BY <1>4, <1>6, ContextTypes
  <2>3. Len(log) - Len(t) >= k
    BY <1>2, <1>4, <1>6, ContextTypes
  <2> QED
    BY <2>1, <2>2, <2>3, <1>4 DEF InChatOrder, IsTail
<1>8. window' \in Seq(Entries) /\ WindowIsOfChat' /\ lost' \in BOOLEAN
  <2>1. CASE surface = "device"
    BY <2>1, <1>1, <1>5, <1>6, <1>7 DEF WindowIsOfChat
  <2>2. CASE surface = "web"
    <3>1. lost \in BOOLEAN
      BY DEF ContextInv, Context!TypeOK
    <3> QED
      BY <2>2, <3>1, <1>1, <1>5, ContextTypes DEF WindowIsOfChat
  <2> QED
    BY <2>1, <2>2 DEF ContextInv, Context!TypeOK
<1> QED
  BY <1>1, <1>2, <1>3, <1>8, ContextTypes, IdleIsKept DEF Context!Idle

\* A chat cleared begins with neither messages nor summary.
LEMMA ClearChatKept ==
  ASSUME ContextInv, Context!ClearChat
  PROVE  ContextInv'
<1>1. /\ log' = <<>> /\ counted' = 0 /\ covered' = {} /\ asking' = Context!Nothing
      /\ surface' = surface /\ automatic' = automatic
  BY DEF Context!ClearChat, Context!Idle
<1>2. Len(log') = 0 /\ log' \in Seq(Messages) /\ 0 \in 0..MaxMessages
  BY <1>1, ContextTypes
<1>3. InChatOrder(0, <<>>) /\ IsTail(0, 0, <<>>) /\ <<>> \in Seq(Entries)
  BY DEF InChatOrder, IsTail
<1>4. window' \in Seq(Entries) /\ WindowIsOfChat' /\ lost' \in BOOLEAN
  <2>1. CASE surface = "device"
    BY <2>1, <1>1, <1>2, <1>3 DEF WindowIsOfChat, Context!ClearChat
  <2>2. CASE surface = "web"
    <3>1. lost \in BOOLEAN
      BY DEF ContextInv, Context!TypeOK
    <3> QED
      BY <2>2, <3>1, <1>1, ContextTypes DEF WindowIsOfChat, Context!ClearChat
  <2> QED
    BY <2>1, <2>2 DEF ContextInv, Context!TypeOK
<1>5. Len(log') \in 0..MaxMessages /\ counted' \in 0..Len(log')
      /\ covered' \subseteq 1..Len(log')
  BY <1>1, <1>2
<1> QED
  BY <1>1, <1>2, <1>4, <1>5, IdleIsKept

\* An answer is appended; what the summary then covers leaves the window.
LEMMA AnswerKept ==
  ASSUME ContextInv, NEW bytes \in Sizes, NEW stored \in BOOLEAN,
         NEW n \in 0..MaxMessages, Context!Answer(bytes, stored, n)
  PROVE  ContextInv'
<1> DEFINE l == Append(log, [role |-> "assistant", bytes |-> bytes])
           whole == Append(asking.request, Len(l))
           d == Context!Dropped(l, whole)
           r == Context!Fit(l, whole)
           kept == [i \in 1..Len(r) |-> IF r[i] = Len(l) /\ ~stored THEN 0 ELSE r[i]]
<1>1. /\ ~Context!Idle /\ Len(log) < MaxMessages /\ asking' = Context!Nothing
      /\ log' = IF stored THEN l ELSE log
      /\ n \in 0..Len(d) /\ (n > 0 => stored)
      /\ covered' = covered \cup ({d[i] : i \in 1..n} \ {0})
      /\ counted' = Context!Min({Len(log'), counted + n})
      /\ surface' = surface /\ automatic' = automatic
      /\ \/ /\ surface = "device"
            /\ window' = kept /\ lost' = (lost \/ ~stored)
         \/ /\ UNCHANGED <<window, lost>>
            /\ surface = "device" => ~stored
  BY DEF Context!Answer, Context!Summarize
<1>2. /\ l \in Seq(Messages) /\ Len(l) = Len(log) + 1 /\ Len(log) + 1 \in Nat
      /\ Len(log) \in Nat /\ counted \in Nat /\ counted <= Len(log)
  <2>1. [role |-> "assistant", bytes |-> bytes] \in Messages
    BY DEF Messages
  <2> QED
    BY <2>1, ContextTypes
<1>3. /\ asking.request \in Seq(Entries) /\ InChatOrder(Len(log), asking.request)
      /\ surface = "device" => asking.request = window
  BY <1>1, ContextTypes DEF ContextInv, RequestIsOfChat
<1> HIDE DEF l
<1>4. /\ whole \in Seq(Entries) /\ whole # <<>>
      /\ InChatOrder(Len(log) + 1, whole) /\ Context!Last(whole) = Len(log) + 1
      /\ IsTail(Len(log), counted, asking.request) => IsTail(Len(log) + 1, counted, whole)
  <2>1. /\ Append(asking.request, Len(log) + 1) \in Seq(Entries)
        /\ Append(asking.request, Len(log) + 1) # <<>>
        /\ InChatOrder(Len(log) + 1, Append(asking.request, Len(log) + 1))
        /\ Context!Last(Append(asking.request, Len(log) + 1)) = Len(log) + 1
        /\ IsTail(Len(log), counted, asking.request) =>
             IsTail(Len(log) + 1, counted, Append(asking.request, Len(log) + 1))
    BY <1>1, <1>2, <1>3, AppendedIsOfChat
  <2>2. whole = Append(asking.request, Len(log) + 1)
    BY <1>2
  <2> HIDE DEF whole
  <2> QED
    BY <2>1, <2>2
<1> HIDE DEF whole
<1>5. /\ r \in Seq(Entries) /\ InChatOrder(Len(log) + 1, r)
      /\ \A m \in 0..Len(d) :
           IsTail(Len(log) + 1, counted, whole) => IsTail(Len(log) + 1, counted + m, r)
      /\ d \in Seq(Entries) /\ \A i \in 1..Len(d) : d[i] <= Len(log) + 1
  BY <1>2, <1>4, FitIsOfChat
<1> HIDE DEF r, d
<1>6. Len(r) \in Nat /\ Len(d) \in Nat /\ \A i \in 1..Len(r) : r[i] \in Nat
  BY <1>5, ContextBounds DEF Entries
<1>7. /\ log' \in Seq(Messages) /\ Len(log') \in 0..MaxMessages
      /\ Len(log') = IF stored THEN Len(log) + 1 ELSE Len(log)
  BY <1>1, <1>2, ContextTypes
<1>8. counted' \in 0..Len(log') /\ counted' <= counted + n /\ (n = 0 => counted' = counted)
  <2>1. counted + n \in Nat /\ Len(log') \in Nat /\ counted <= Len(log')
    BY <1>1, <1>2, <1>7
  <2>2. counted' \in {Len(log'), counted + n} /\ counted' <= Len(log')
        /\ counted' <= counted + n
    BY <2>1, <1>1, LeastOfTwo
  <2> QED
    BY <2>1, <2>2, <1>2
<1>9. covered' \subseteq 1..Len(log')
  <2>1. CASE n = 0
    BY <2>1, <1>1, <1>2, <1>7, ContextTypes
  <2>2. CASE n > 0
    <3>1. \A i \in 1..n : i \in 1..Len(d)
      BY <1>1, <1>6
    <3>2. \A i \in 1..n : d[i] \in Nat /\ d[i] <= Len(log) + 1
      BY <3>1, <1>5, ContextBounds DEF Entries
    <3>3. Len(log') = Len(log) + 1
      BY <2>2, <1>1, <1>7
    <3> QED
      BY <3>2, <3>3, <1>1, <1>2, ContextTypes
  <2> QED
    BY <2>1, <2>2
<1>10. lost \in BOOLEAN /\ lost' \in BOOLEAN
  BY <1>1 DEF ContextInv, Context!TypeOK
<1>11. window' \in Seq(Entries) /\ WindowIsOfChat'
  <2>1. CASE surface = "device" /\ window' = kept /\ lost' = (lost \/ ~stored)
    <3>1. /\ Len(kept) = Len(r) /\ kept \in Seq(Entries)
          /\ \A i \in 1..Len(r) : kept[i] = IF r[i] = Len(log) + 1 /\ ~stored THEN 0 ELSE r[i]
      <4>1. \A i \in 1..Len(r) : r[i] \in Entries /\ 0 \in Entries
        BY <1>5, ContextTypes DEF Entries
      <4> QED
        BY <4>1, <1>2, <1>6
    <3> HIDE DEF kept
    <3>2. InChatOrder(Len(log'), kept)
      <4>1. \A i \in 1..Len(r) : r[i] <= Len(log) + 1
        BY <1>5 DEF InChatOrder
      <4>2. \A i \in 1..Len(kept) : kept[i] <= Len(log')
        BY <4>1, <3>1, <1>2, <1>6, <1>7
      <4>3. \A i, j \in 1..Len(kept) : i < j /\ 0 \notin {kept[i], kept[j]} => kept[i] < kept[j]
        BY <3>1, <1>5 DEF InChatOrder
      <4> QED
        BY <4>2, <4>3 DEF InChatOrder
    <3>3. ASSUME ~lost' PROVE IsTail(Len(log'), counted', kept)
      <4>1. ~lost /\ stored
        BY <3>3, <2>1, <1>10
      <4>2. IsTail(Len(log) + 1, counted, whole)
        BY <4>1, <2>1, <1>3, <1>4 DEF ContextInv, WindowIsOfChat
      <4>3. IsTail(Len(log) + 1, counted + n, r)
        BY <4>2, <1>1, <1>5
      <4>4. \A i \in 1..Len(r) : kept[i] = r[i]
        BY <4>1, <3>1
      <4>5. Len(log') = Len(log) + 1
        BY <4>1, <1>7
      <4>6. Len(log') - Len(kept) >= counted'
        BY <4>3, <4>5, <3>1, <1>2, <1>6, <1>8 DEF IsTail
      <4> QED
        BY <4>3, <4>4, <4>5, <4>6, <3>1 DEF IsTail
    <3> QED
      BY <3>1, <3>2, <3>3, <2>1, <1>1 DEF WindowIsOfChat
  <2>2. CASE UNCHANGED <<window, lost>> /\ (surface = "device" => ~stored)
    <3>1. CASE surface = "device"
      <4>1. log' = log /\ n = 0
        BY <2>2, <3>1, <1>1, <1>6
      <4> QED
        BY <4>1, <2>2, <1>1, <1>8, ContextTypes DEF ContextInv, WindowIsOfChat
    <3>2. CASE surface # "device"
      BY <3>2, <2>2, <1>1, ContextTypes DEF WindowIsOfChat
    <3> QED
      BY <3>1, <3>2
  <2> QED
    BY <2>1, <2>2, <1>1
<1> QED
  BY <1>1, <1>7, <1>8, <1>9, <1>10, <1>11, IdleIsKept

\* One case per action of the chat.
LEMMA ContextInvKept ==
  ASSUME ContextInv, [Context!Next]_contextVars
  PROVE  ContextInv'
<1>1. CASE Context!ActivateChat \/ Context!OpenWebConsole \/ Context!CloseWebConsole
           \/ Context!Fail
  BY <1>1, QuietStepKept
<1>2. CASE \E bytes \in Sizes : Context!SubmitPrompt(bytes)
  BY <1>2, SubmitPromptKept
<1>3. CASE Context!Retry
  BY <1>3, RetryKept
<1>4. CASE Context!Resume
  BY <1>4, ResumeKept
<1>5. CASE \E bytes \in Sizes, stored \in BOOLEAN, n \in 0..MaxMessages : Context!Answer(bytes,
           stored, n)
  BY <1>5, AnswerKept
<1>6. CASE Context!RegenerateSummary
  BY <1>6, RegenerateSummaryKept
<1>7. CASE Context!ClearChat
  BY <1>7, ClearChatKept
<1>8. CASE UNCHANGED contextVars
  BY <1>8 DEF contextVars, ContextInv, Context!TypeOK, Context!SummaryIsOfThisChat,
     WindowIsOfChat, RequestIsOfChat, Context!Idle
<1> QED
  BY <1>1, <1>2, <1>3, <1>4, <1>5, <1>6, <1>7, <1>8 DEF Context!Next

\* A chat begins empty.
LEMMA InitContext ==
  ASSUME Context!Init
  PROVE  ContextInv
<1>1. /\ log = <<>> /\ counted = 0 /\ covered = {} /\ window = <<>> /\ surface = "device"
      /\ automatic \in BOOLEAN /\ asking = Context!Nothing /\ lost = FALSE
  BY DEF Context!Init
<1>2. Context!Nothing \in [phase : {"none", "sent", "resumed"}, request : Seq(0..MaxMessages)]
  BY DEF Context!Nothing
<1>3. MaxMessages \in Nat /\ Len(<<>>) = 0
  BY ContextBounds
<1>4. Context!TypeOK
  <2>1. log \in Seq([role : {"user", "assistant"},
        bytes : Sizes]) /\ window \in Seq(0..MaxMessages)
    BY <1>1
  <2>2. counted \in 0..MaxMessages /\ covered \subseteq 1..MaxMessages
    BY <1>1, <1>3
  <2>3. {automatic, lost} \subseteq BOOLEAN
    BY <1>1
  <2> QED
    BY <2>1, <2>2, <2>3, <1>1, <1>2 DEF Context!TypeOK
<1>5. Context!SummaryIsOfThisChat /\ Len(log) <= MaxMessages /\ RequestIsOfChat
  BY <1>1, <1>3 DEF Context!SummaryIsOfThisChat, RequestIsOfChat, Context!Idle
<1>6. WindowIsOfChat
  BY <1>1 DEF WindowIsOfChat, InChatOrder, IsTail
<1> QED
  BY <1>4, <1>5, <1>6 DEF ContextInv

\* The invariant says all of the property.
LEMMA ContextIsRight ==
  ASSUME ContextInv
  PROVE  Context!RequestsAreRight
<1>1. Context!RequestIsFit
  BY DEF ContextInv, RequestIsOfChat, Context!RequestIsFit, InChatOrder
<1>2. Context!NothingIsSentTwice
  <2>1. \A i \in Context!Range(asking.request) : \E j \in 1..Len(asking.request) :
        i = asking.request[j]
    BY ContextTypes DEF Context!Range
  <2> QED
    BY <2>1 DEF ContextInv, RequestIsOfChat, Context!NothingIsSentTwice
<1> QED
  BY <1>1, <1>2 DEF ContextInv, Context!RequestsAreRight

\* A request is the system prompt's summary and messages of this chat behind it, in
\* their order, without one that the summary covers, and ends with the prompt it is
\* for; it fits the budget unless that prompt alone does not (fitContextWindow,
\* unsummarizedTail, and the two paths that send a prompt).
THEOREM RequestsRight == ServicesSpec => []RequestsAreRight
<1>1. ServicesInit => ContextInv
  BY InitContext DEF ServicesInit
<1>2. ContextInv /\ [ServicesNext]_allVars => ContextInv'
  BY Frames, ContextInvKept
<1>3. ContextInv => RequestsAreRight
  BY ContextIsRight DEF RequestsAreRight
<1> QED
  BY <1>1, <1>2, <1>3, PTL DEF ServicesSpec

-----------------------------------------------------------------------------
(* Voice.                                                                  *)

\* The bounds of what is spoken: a document has chunks, a chunk may be blank.
LEMMA SpeechBounds ==
  /\ {MinSamples, MaxSamples, MaxTakes} \subseteq Nat
  /\ {Pieces, MaxAttempts} \subseteq Nat \ {0}
  /\ [1..Chunks -> 0..Segments] \subseteq Seq(Nat) \ {<<>>}
<1>1. Chunks \in Nat \ {0} /\ Segments \in Nat
  BY ServicesAssumption
<1>2. ASSUME NEW d \in [1..Chunks -> 0..Segments] PROVE d \in Seq(Nat) \ {<<>>}
  <2>1. d \in [1..Chunks -> Nat]
    BY <1>1
  <2>2. d \in Seq(Nat)
    BY <1>1, <2>1
  <2>3. Len(d) = Chunks
    BY <1>1, <2>1
  <2> QED
    BY <2>2, <2>3, <1>1
<1> QED
  BY <1>2, ServicesAssumption

\* Where a take is under way, and where something is spoken.
Taking == {"power", "mic", "check", "send", "insert"}
Playing == {"play", "queue", "paused"}
InSegment == {"fetch", "post", "stream", "cleanup"} \cup Playing
Speaking == {"chunk"} \cup InSegment

Recordings == [take : Nat, samples : Nat, final : BOOLEAN]

\* The recording is that of the last take, and is closed before it is sent.
TakeIsWritten ==
  sayPc \in Taking =>
    /\ sayTakes # <<>> /\ sayWav.take = Len(sayTakes)
    /\ sayWav.samples = sayTakes[Len(sayTakes)]
    /\ sayPc \notin {"power", "mic"} => sayWav.final
    /\ sayPc = "insert" => sayReply = sayWav

\* The draft is of takes that are over.
DraftIsOfTakes ==
  \A i \in 1..Len(sayDraft) :
    sayDraft[i].take \in 1..(IF sayPc \in Taking THEN Len(sayTakes) - 1 ELSE Len(sayTakes))

TextInv ==
  /\ sayPc \in {"boot", "idle", "discard"} \cup Taking \cup Speaking
  /\ sayTakes \in Seq(Nat) /\ sayWav \in Recordings /\ sayReply \in Recordings
  /\ sayDraft \in Seq(Recordings)
  /\ sayKept \in BOOLEAN
  /\ TakeIsWritten /\ DraftIsOfTakes /\ Speech!TextIsOfItsTake
  /\ sayPc \in {"idle"} \cup Speaking /\ sayWav # Speech!NoFile => sayKept

-----------------------------------------------------------------------------
\* What the speaker is to play after what it has.
ToBeHeard == IF sayHeard = <<>> THEN <<1, 1, 1>> ELSE Speech!After(sayDoc,
  sayHeard[Len(sayHeard)])

\* The speaker holds the buffers before the next one, the last of them last.
Prev(b) == (b + 2) % 3
HeldBefore(n) == {<<>>, <<Prev(n)>>, <<Prev(Prev(n)), Prev(n)>>}

\* How many pieces of the segment have been played, and what comes after k of them.
PiecesPlayed == sayPos - 1 - Len(sayQueue) - (IF sayPc = "queue" THEN 1 ELSE 0)
Following(k) == IF k = 0 THEN <<sayChunk, saySegment, 1>> ELSE Speech!After(sayDoc, <<sayChunk,
  saySegment, k>>)

HeardInOrder ==
  \A i \in 1..Len(sayHeard) :
    /\ Speech!IsPieceOf(sayDoc, sayHeard[i])
    /\ sayHeard[i] = IF i = 1 THEN <<1, 1, 1>> ELSE Speech!After(sayDoc, sayHeard[i - 1])

PlaceOfSpeech ==
  /\ sayPc \in Speaking => sayChunk \in 1..Len(sayDoc)
  /\ sayPc \in InSegment => saySegment \in 1..sayDoc[sayChunk]
  /\ sayPc = "chunk" => ToBeHeard = <<sayChunk, 1, 1>>
  /\ sayPc \in {"fetch", "post", "stream"} => ToBeHeard = <<sayChunk, saySegment, 1>>
  /\ sayPc = "cleanup" /\ sayTold = "none" => ToBeHeard = Speech!After(sayDoc, <<sayChunk,
     saySegment, Pieces>>)

FileOfSegment ==
  /\ sayPc \notin Playing \cup {"stream", "cleanup"} => sayPos = 1
  /\ sayPc = "post" => sayPcm = <<>>
  /\ sayPc = "stream" => Len(sayPcm) = sayPos - 1
  /\ sayPc \in Playing => Len(sayPcm) = Pieces
  /\ sayPc \in Playing \cup {"stream"} =>
       sayPos \in 1..Pieces + 1 /\ \A i \in 1..Len(sayPcm) : sayPcm[i] = <<sayChunk,
         saySegment, i>>

BuffersInOrder ==
  /\ sayQueue \in HeldBefore(sayNext) /\ (sayPc \notin Playing => sayQueue = <<>>)
  /\ sayPc \in Playing =>
       /\ PiecesPlayed \in Nat /\ ToBeHeard = Following(PiecesPlayed)
       /\ \A j \in 1..Len(sayQueue) : sayRing[sayQueue[j]] = <<sayChunk, saySegment,
          PiecesPlayed + j>>
       /\ sayPc = "queue" => sayRing[sayNext] = <<sayChunk, saySegment, sayPos - 1>>

SpeechTypes ==
  /\ sayDoc \in Seq(Nat) /\ sayChunk \in Nat \ {0} /\ saySegment \in Nat \ {0}
  /\ sayPos \in Nat \ {0}
  /\ sayPcm \in Seq(Nat \X Nat \X Nat) /\ sayHeard \in Seq(Nat \X Nat \X Nat)
  /\ DOMAIN sayRing = 0..2 /\ sayNext \in 0..2

WhatIsTold ==
  /\ sayPc \in Speaking \ {"cleanup"} => sayTold = "none"
  /\ sayTold = "spoken" => sayPc = "idle" /\ ToBeHeard = <<Len(sayDoc) + 1, 1,
     1>> /\ sayHeard # <<>>

SpeechInv ==
  /\ sayPc \in {"boot", "idle", "discard"} \cup Taking \cup Speaking
  /\ SpeechTypes /\ HeardInOrder /\ PlaceOfSpeech /\ FileOfSegment /\ BuffersInOrder
  /\ WhatIsTold

\* No file is described like a recording.
LEMMA NoFileIsRecording == Speech!NoFile \in Recordings
BY DEF Speech!NoFile, Recordings

\* What is spoken leaves all that is written down alone.
LEMMA SpeechIsSilentOnText ==
  ASSUME \/ Speech!Speak \/ Speech!ReadChunk \/ Speech!SpeechRefused \/ Speech!Fetch
            \/ Speech!Post \/ Speech!PostFails
         \/ Speech!Stream \/ Speech!StreamBroken \/ Speech!Streamed \/ Speech!Cancel
         \/ Speech!Fill \/ Speech!Queue \/ Speech!SpeakerPlays \/ Speech!Pause
            \/ Speech!Resume \/ Speech!StopPlaying \/ Speech!Played \/ Speech!PlayRefused
         \/ Speech!Cleanup \/ Speech!CleanupRefused
  PROVE  /\ UNCHANGED <<sayWav, sayTakes, sayReply, sayDraft, sayKept>>
         /\ sayPc' = sayPc \/ {sayPc, sayPc'} \subseteq {"idle"} \cup Speaking
<1>1. CASE Speech!Speak \/ Speech!ReadChunk \/ Speech!SpeechRefused \/ Speech!Fetch
           \/ Speech!Post \/ Speech!PostFails
  BY <1>1 DEF Speech!Speak, Speech!ReadChunk, Speech!SpeechRefused, Speech!Fetch, Speech!Post,
     Speech!PostFails, Speech!Again, Speech!Goto, Speech!End, Speech!voice,
              Speaking, InSegment
<1>2. CASE Speech!Stream \/ Speech!StreamBroken \/ Speech!Streamed \/ Speech!Cancel
  <2>1. UNCHANGED Speech!voice /\ (sayPc' = sayPc \/ (sayPc \in {"stream",
        "fetch"} /\ sayPc' \in {"fetch", "play", "idle"}))
    BY <1>2 DEF Speech!Stream, Speech!StreamBroken, Speech!Streamed, Speech!Cancel,
       Speech!Again, Speech!Goto, Speech!End
  <2> QED
    BY <2>1 DEF Speech!voice, Speaking, InSegment, Playing
<1>3. CASE Speech!Fill \/ Speech!Queue \/ Speech!SpeakerPlays \/ Speech!Pause
           \/ Speech!Resume \/ Speech!StopPlaying \/ Speech!Played \/ Speech!PlayRefused
  BY <1>3 DEF Speech!Fill, Speech!Queue, Speech!SpeakerPlays, Speech!Pause, Speech!Resume,
     Speech!StopPlaying, Speech!Played, Speech!PlayRefused,
              Speech!Goto, Speech!voice, Speaking, InSegment, Playing
<1>4. CASE Speech!CleanupRefused
  BY <1>4 DEF Speech!CleanupRefused, Speech!End, Speech!voice, Speaking, InSegment
<1>5. CASE Speech!Cleanup
  <2>1. sayPc' \in {"idle", "fetch", "chunk"}
    BY <1>5 DEF Speech!Cleanup, Speech!Continue, Speech!End
  <2> QED
    BY <2>1, <1>5 DEF Speech!Cleanup, Speech!voice, Speaking, InSegment
<1> QED
  BY <1>1, <1>2, <1>3, <1>4, <1>5

\* A step that leaves the takes and the draft alone keeps what is said of them.
LEMMA TextIsLeftAlone ==
  ASSUME TextInv, UNCHANGED <<sayWav, sayTakes, sayReply, sayDraft, sayKept>>,
         sayPc' = sayPc \/ {sayPc, sayPc'} \subseteq {"idle"} \cup Speaking
  PROVE  TextInv'
<1>1. CASE sayPc' = sayPc
  BY <1>1 DEF TextInv, TakeIsWritten, DraftIsOfTakes, Speech!TextIsOfItsTake
<1>2. CASE {sayPc, sayPc'} \subseteq {"idle"} \cup Speaking
  <2>1. sayPc \notin Taking /\ sayPc' \notin Taking
    BY <1>2 DEF Taking, Speaking, InSegment, Playing
  <2> QED
    BY <2>1, <1>2 DEF TextInv, TakeIsWritten, DraftIsOfTakes, Speech!TextIsOfItsTake
<1> QED
  BY <1>1, <1>2

\* The draft stays what it is while takes are made.
LEMMA DraftStays ==
  ASSUME TextInv, sayDraft' = sayDraft, sayTakes' \in Seq(Nat), sayWav' \in Recordings,
         sayReply' \in Recordings,
         sayKept' \in BOOLEAN, sayPc' \in {"boot", "idle", "discard"} \cup Taking,
         \A i \in 1..Len(sayDraft) : sayTakes'[sayDraft[i].take] = sayTakes[sayDraft[i].take],
         \A i \in 1..Len(sayDraft) :
           sayDraft[i].take \in 1..(IF sayPc' \in Taking THEN Len(sayTakes') - 1 ELSE Len(sayTakes')),
         TakeIsWritten', sayPc' = "idle" /\ sayWav' # Speech!NoFile => sayKept'
  PROVE  TextInv'
<1>1. sayPc' \notin Speaking
  BY DEF Taking, Speaking, InSegment, Playing
<1>2. Speech!TextIsOfItsTake' /\ DraftIsOfTakes'
  BY DEF TextInv, Speech!TextIsOfItsTake, DraftIsOfTakes
<1> QED
  BY <1>1, <1>2 DEF TextInv

\* A start and a reset: the draft is in RAM only, and what a start cannot remove is kept.
LEMMA BootKeepsText ==
  ASSUME TextInv, Speech!Boot \/ Speech!Reset
  PROVE  TextInv'
<1>1. CASE Speech!Boot
  <2>1. /\ sayPc = "boot" /\ sayPc' = "idle" /\ UNCHANGED <<sayTakes, sayReply, sayDraft>>
        /\ sayWav' \in {sayWav, Speech!NoFile} /\ sayKept' \in BOOLEAN
           /\ (sayWav' # Speech!NoFile => sayKept')
    BY <1>1 DEF Speech!Boot, Speech!Goto, Speech!Fault, TextInv
  <2>2. TakeIsWritten' /\ sayPc' \notin Taking /\ sayPc \notin Taking
    BY <2>1 DEF TakeIsWritten, Taking
  <2>3. sayWav' \in Recordings /\ sayTakes' \in Seq(Nat) /\ sayReply' \in Recordings
    BY <2>1, NoFileIsRecording DEF TextInv
  <2>4. \A i \in 1..Len(sayDraft) : sayDraft[i].take \in 1..Len(sayTakes')
    BY <2>1, <2>2 DEF TextInv, DraftIsOfTakes
  <2>5. sayPc' \in {"boot", "idle", "discard"} \cup Taking
    BY <2>1
  <2>6. \A i \in 1..Len(sayDraft) : sayTakes'[sayDraft[i].take] = sayTakes[sayDraft[i].take]
    BY <2>1
  <2> QED
    BY <2>1, <2>2, <2>3, <2>4, <2>5, <2>6, DraftStays
<1>2. CASE Speech!Reset
  <2>1. /\ sayPc' = "boot" /\ sayDraft' = <<>> /\ sayReply' = Speech!NoFile
        /\ UNCHANGED <<sayWav, sayTakes, sayKept>>
    BY <1>2 DEF Speech!Reset
  <2>2. sayPc' \notin Taking \cup Speaking \cup {"idle"}
    BY <2>1 DEF Taking, Speaking, InSegment, Playing
  <2> QED
    BY <2>1, <2>2, NoFileIsRecording
       DEF TextInv, TakeIsWritten, DraftIsOfTakes, Speech!TextIsOfItsTake
<1> QED
  BY <1>1, <1>2

\* A take begins, or cannot.
LEMMA HoldKeepsText ==
  ASSUME TextInv, Speech!Hold \/ Speech!HoldRefused
  PROVE  TextInv'
<1>1. CASE Speech!Hold
  <2>1. /\ sayPc = "idle" /\ sayPc' = "power" /\ sayTakes' = Append(sayTakes, 0)
        /\ sayWav' = [take |-> Len(sayTakes'), samples |-> 0, final |-> FALSE]
        /\ UNCHANGED <<sayReply, sayDraft, sayKept>>
    BY <1>1 DEF Speech!Hold, Speech!Goto
  <2>2. /\ sayTakes' \in Seq(Nat) /\ Len(sayTakes') = Len(sayTakes) + 1
        /\ sayTakes'[Len(sayTakes')] = 0
        /\ \A i \in 1..Len(sayTakes) : sayTakes'[i] = sayTakes[i]
        /\ Len(sayTakes) \in Nat /\ sayTakes' # <<>>
    BY <2>1 DEF TextInv
  <2>3. sayWav' \in Recordings
    BY <2>1, <2>2 DEF Recordings
  <2>4. sayPc' \in Taking /\ sayPc \notin Taking
    BY <2>1 DEF Taking
  <2>5. TakeIsWritten'
    BY <2>1, <2>2 DEF TakeIsWritten
  <2>6. \A i \in 1..Len(sayDraft) : sayDraft[i].take \in 1..Len(sayTakes)
    BY <2>4 DEF TextInv, DraftIsOfTakes
  <2>7. \A i \in 1..Len(sayDraft) : sayDraft[i].take \in 1..Len(sayTakes') - 1
    BY <2>2, <2>6
  <2>8. \A i \in 1..Len(sayDraft) : sayTakes'[sayDraft[i].take] = sayTakes[sayDraft[i].take]
    BY <2>2, <2>6
  <2>9. sayReply' \in Recordings /\ sayKept' \in BOOLEAN
    BY <2>1 DEF TextInv
  <2> QED
    BY <2>1, <2>2, <2>3, <2>4, <2>5, <2>7, <2>8, <2>9, DraftStays
<1>2. CASE Speech!HoldRefused
  <2>1. /\ sayPc = "idle" /\ sayPc' = "idle" /\ UNCHANGED <<sayTakes, sayReply, sayDraft>>
        /\ sayWav' \in {sayWav, Speech!NoFile} /\ sayKept' \in BOOLEAN
           /\ (sayWav' # Speech!NoFile => sayKept')
    BY <1>2 DEF Speech!HoldRefused, Speech!End, TextInv
  <2>2. TakeIsWritten' /\ sayPc' \notin Taking /\ sayPc \notin Taking
    BY <2>1 DEF TakeIsWritten, Taking
  <2>3. sayWav' \in Recordings /\ sayTakes' \in Seq(Nat) /\ sayReply' \in Recordings
    BY <2>1, NoFileIsRecording DEF TextInv
  <2>4. \A i \in 1..Len(sayDraft) : sayDraft[i].take \in 1..Len(sayTakes')
    BY <2>1, <2>2 DEF TextInv, DraftIsOfTakes
  <2>5. sayPc' \in {"boot", "idle", "discard"} \cup Taking
    BY <2>1
  <2>6. \A i \in 1..Len(sayDraft) : sayTakes'[sayDraft[i].take] = sayTakes[sayDraft[i].take]
    BY <2>1
  <2> QED
    BY <2>1, <2>2, <2>3, <2>4, <2>5, <2>6, DraftStays
<1> QED
  BY <1>1, <1>2

\* A step of a take that does not touch what is recorded.
LEMMA TakeGoesOn ==
  ASSUME TextInv, UNCHANGED <<sayTakes, sayWav, sayDraft, sayKept>>, sayReply' \in Recordings,
         sayPc \in Taking, sayPc' \in Taking \cup {"discard"}, TakeIsWritten'
  PROVE  TextInv'
<1>1. \A i \in 1..Len(sayDraft) : sayDraft[i].take \in 1..Len(sayTakes) - 1
  BY DEF TextInv, DraftIsOfTakes
<1>2. \A i \in 1..Len(sayDraft) : sayDraft[i].take \in 1..Len(sayTakes)
  BY <1>1 DEF TextInv
<1>3. sayPc' # "idle"
  BY DEF Taking
<1>4. sayTakes' \in Seq(Nat) /\ sayWav' \in Recordings /\ sayKept' \in BOOLEAN
  BY DEF TextInv
<1> QED
  BY <1>1, <1>2, <1>3, <1>4, DraftStays

\* The steps of a take that write nothing down.
LEMMA TakeKeepsText ==
  ASSUME TextInv,
         Speech!StartMic \/ Speech!MicRefused \/ Speech!Passed \/ Speech!NotPassed
           \/ Speech!Transcribe \/ Speech!TryAgain \/ Speech!NoText
  PROVE  TextInv'
<1>1. /\ UNCHANGED <<sayTakes, sayWav, sayDraft, sayKept>> /\ sayPc \in Taking
      /\ \/ sayPc' = "discard" /\ sayReply' = sayReply
         \/ sayPc = "power" /\ sayPc' = "mic" /\ sayReply' = sayReply
         \/ sayPc = "check" /\ sayPc' \in {"check", "send"} /\ sayReply' = sayReply
         \/ sayPc = "send" /\ sayPc' = "send" /\ sayReply' = sayReply
         \/ sayPc = "send" /\ sayPc' = "insert" /\ sayReply' = sayWav
  BY DEF Speech!StartMic, Speech!MicRefused, Speech!Passed, Speech!NotPassed,
     Speech!Transcribe, Speech!TryAgain, Speech!NoText, Speech!Goto, Speech!voice, Taking
<1>2. sayReply' \in Recordings
  BY <1>1 DEF TextInv
<1>3. sayPc' \in Taking \cup {"discard"} /\ "discard" \notin Taking
  BY <1>1 DEF Taking
<1>4. TakeIsWritten'
  BY <1>1, <1>3 DEF TakeIsWritten, TextInv
<1> QED
  BY <1>1, <1>2, <1>3, <1>4, TakeGoesOn

\* A take grows while the key is held and is closed when it is released.
LEMMA RecordKeepsText ==
  ASSUME TextInv, Speech!Record \/ Speech!Release
  PROVE  TextInv'
<1>1. /\ sayPc = "mic" /\ sayPc \in Taking /\ sayTakes \in Seq(Nat) /\ sayTakes # <<>>
      /\ sayWav \in Recordings
      /\ sayWav.take = Len(sayTakes) /\ sayWav.samples = sayTakes[Len(sayTakes)]
      /\ Len(sayTakes) \in Nat \ {0}
      /\ \A i \in 1..Len(sayDraft) : sayDraft[i].take \in 1..Len(sayTakes) - 1
  <2>1. sayPc = "mic" /\ sayPc \in Taking
    BY DEF Speech!Record, Speech!Release, Taking
  <2> QED
    BY <2>1 DEF TextInv, TakeIsWritten, DraftIsOfTakes
<1>2. sayWav.samples \in Nat /\ sayWav.final \in BOOLEAN /\ sayWav.take \in Nat
  BY <1>1 DEF Recordings
<1>3. CASE Speech!Record
  <2>1. /\ sayWav' = [sayWav EXCEPT !.samples = @ + 1]
        /\ sayTakes' = [sayTakes EXCEPT ![Len(sayTakes)] = @ + 1]
        /\ UNCHANGED <<sayPc, sayReply, sayDraft, sayKept>>
    BY <1>3 DEF Speech!Record
  <2>2. /\ sayTakes' \in Seq(Nat) /\ Len(sayTakes') = Len(sayTakes) /\ sayTakes' # <<>>
        /\ sayTakes'[Len(sayTakes)] = sayTakes[Len(sayTakes)] + 1
        /\ \A i \in 1..Len(sayTakes) - 1 : sayTakes'[i] = sayTakes[i]
    BY <2>1, <1>1
  <2>3. /\ sayWav' \in Recordings /\ sayWav'.take = sayWav.take
        /\ sayWav'.samples = sayWav.samples + 1
    BY <2>1, <1>1, <1>2 DEF Recordings
  <2>4. TakeIsWritten'
    BY <2>1, <2>2, <2>3, <1>1 DEF TakeIsWritten
  <2>5. \A i \in 1..Len(sayDraft) : sayTakes'[sayDraft[i].take] = sayTakes[sayDraft[i].take]
    BY <2>2, <1>1
  <2>6. sayReply' \in Recordings /\ sayKept' \in BOOLEAN
    BY <2>1 DEF TextInv
  <2> QED
    BY <2>1, <2>2, <2>3, <2>4, <2>5, <2>6, <1>1, DraftStays
<1>4. CASE Speech!Release
  <2>1. /\ UNCHANGED <<sayTakes, sayReply, sayDraft, sayKept>>
        /\ \/ sayPc' = "discard" /\ sayWav' = sayWav
           \/ sayPc' = "check" /\ sayWav' = [sayWav EXCEPT !.final = TRUE]
    BY <1>4 DEF Speech!Release, Speech!Goto
  <2>2. /\ sayWav' \in Recordings /\ sayWav'.take = sayWav.take
        /\ sayWav'.samples = sayWav.samples
        /\ sayPc' = "check" => sayWav'.final
    BY <2>1, <1>1, <1>2 DEF Recordings
  <2>3. "discard" \notin Taking /\ "check" \in Taking /\ sayPc' # "idle"
    BY <2>1 DEF Taking
  <2>4. TakeIsWritten'
    BY <2>1, <2>2, <2>3, <1>1 DEF TakeIsWritten
  <2>5. \A i \in 1..Len(sayDraft) : sayDraft[i].take \in 1..Len(sayTakes)
    BY <1>1
  <2>6. sayReply' \in Recordings /\ sayKept' \in BOOLEAN
    BY <2>1 DEF TextInv
  <2> QED
    BY <2>1, <2>2, <2>3, <2>4, <2>5, <2>6, <1>1, DraftStays
<1> QED
  BY <1>3, <1>4

\* The text of the take is added to the draft.
LEMMA InsertKeepsText ==
  ASSUME TextInv, Speech!Insert
  PROVE  TextInv'
<1>1. /\ sayPc = "insert" /\ sayPc' = "discard"
      /\ UNCHANGED <<sayWav, sayTakes, sayReply, sayKept>>
      /\ sayDraft' = Append(sayDraft, sayReply) \/ sayDraft' = sayDraft
  BY DEF Speech!Insert, Speech!Goto
<1>2. sayPc \in Taking /\ sayPc' \notin {"idle"} \cup Taking \cup Speaking
  BY <1>1 DEF Taking, Speaking, InSegment, Playing
<1>3. /\ sayTakes # <<>> /\ sayWav.take = Len(sayTakes)
      /\ sayWav.samples = sayTakes[Len(sayTakes)] /\ sayWav.final
      /\ sayReply = sayWav /\ sayWav \in Recordings /\ sayTakes \in Seq(Nat)
      /\ Len(sayTakes) \in Nat
      /\ \A i \in 1..Len(sayDraft) : sayDraft[i].take \in 1..Len(sayTakes) - 1
      /\ sayDraft \in Seq(Recordings)
  BY <1>1, <1>2 DEF TextInv, TakeIsWritten, DraftIsOfTakes
<1>4. CASE sayDraft' = sayDraft
  BY <1>1, <1>2, <1>4, TakeGoesOn DEF TextInv, TakeIsWritten
<1>5. CASE sayDraft' = Append(sayDraft, sayReply)
  <2>1. /\ sayDraft' \in Seq(Recordings) /\ Len(sayDraft') = Len(sayDraft) + 1
        /\ sayDraft'[Len(sayDraft) + 1] = sayWav
        /\ \A i \in 1..Len(sayDraft) : sayDraft'[i] = sayDraft[i]
        /\ Len(sayDraft) \in Nat
    BY <1>3, <1>5
  <2>2. \A i \in 1..Len(sayDraft') : i \in 1..Len(sayDraft) \/ i = Len(sayDraft) + 1
    BY <2>1
  <2>3. Len(sayTakes) \in 1..Len(sayTakes)
    BY <1>3
  <2>4. DraftIsOfTakes'
    BY <2>1, <2>2, <2>3, <1>1, <1>2, <1>3 DEF DraftIsOfTakes
  <2>5. Speech!TextIsOfItsTake'
    <3>1. \A i \in 1..Len(sayDraft') : sayDraft'[i].final
          /\ sayDraft'[i].samples = sayTakes[sayDraft'[i].take]
      BY <2>1, <2>2, <1>3 DEF TextInv, Speech!TextIsOfItsTake
    <3>2. ASSUME NEW i \in 1..Len(sayDraft'), NEW j \in 1..Len(sayDraft'), i < j
          PROVE  sayDraft'[i].take < sayDraft'[j].take
      <4>1. i \in 1..Len(sayDraft)
        BY <3>2, <2>1, <2>2
      <4>2. CASE j \in 1..Len(sayDraft)
        BY <4>1, <4>2, <3>2, <2>1 DEF TextInv, Speech!TextIsOfItsTake
      <4>3. CASE j = Len(sayDraft) + 1
        BY <4>1, <4>3, <2>1, <1>3
      <4> QED
        BY <4>2, <4>3, <2>2
    <3> QED
      BY <3>1, <3>2, <1>1 DEF Speech!TextIsOfItsTake
  <2> QED
    BY <2>1, <2>4, <2>5, <1>1, <1>2 DEF TextInv, TakeIsWritten
<1> QED
  BY <1>1, <1>4, <1>5

\* The recording is removed, or stays and is known to.
LEMMA DiscardKeepsText ==
  ASSUME TextInv, Speech!Discard \/ Speech!DiscardRefused
  PROVE  TextInv'
<1>1. /\ sayPc = "discard" /\ sayPc' = "idle" /\ sayReply' = Speech!NoFile
      /\ UNCHANGED <<sayTakes, sayDraft>>
      /\ \/ sayWav' = Speech!NoFile /\ sayKept' = sayKept
         \/ sayWav' = sayWav /\ sayKept' = TRUE
  BY DEF Speech!Discard, Speech!DiscardRefused, Speech!Goto, Speech!End
<1>2. TakeIsWritten' /\ sayPc' \notin Taking /\ sayPc \notin Taking
  BY <1>1 DEF TakeIsWritten, Taking
<1>3. sayWav' \in Recordings /\ sayTakes' \in Seq(Nat) /\ sayReply' \in Recordings
      /\ sayKept' \in BOOLEAN
  BY <1>1, NoFileIsRecording DEF TextInv
<1>4. \A i \in 1..Len(sayDraft) : sayDraft[i].take \in 1..Len(sayTakes')
  BY <1>1, <1>2 DEF TextInv, DraftIsOfTakes
<1>5. sayPc' \in {"boot", "idle", "discard"} \cup Taking
  BY <1>1
<1>6. \A i \in 1..Len(sayDraft) : sayTakes'[sayDraft[i].take] = sayTakes[sayDraft[i].take]
  BY <1>1
<1> QED
  BY <1>1, <1>2, <1>3, <1>4, <1>5, <1>6, DraftStays

\* Every step keeps what is written down.
LEMMA TextInvKept ==
  ASSUME TextInv, [Speech!Next]_sayVars
  PROVE  TextInv'
<1>1. CASE Speech!Boot \/ Speech!Reset
  BY <1>1, BootKeepsText
<1>2. CASE Speech!Hold \/ Speech!HoldRefused
  BY <1>2, HoldKeepsText
<1>3. CASE Speech!StartMic \/ Speech!MicRefused \/ Speech!Passed \/ Speech!NotPassed
           \/ Speech!Transcribe \/ Speech!TryAgain \/ Speech!NoText
  BY <1>3, TakeKeepsText
<1>4. CASE Speech!Record \/ Speech!Release
  BY <1>4, RecordKeepsText
<1>5. CASE Speech!Insert
  BY <1>5, InsertKeepsText
<1>6. CASE Speech!Discard \/ Speech!DiscardRefused
  BY <1>6, DiscardKeepsText
<1>7. CASE \/ Speech!Speak \/ Speech!ReadChunk \/ Speech!SpeechRefused \/ Speech!Fetch
              \/ Speech!Post \/ Speech!PostFails
           \/ Speech!Stream \/ Speech!StreamBroken \/ Speech!Streamed \/ Speech!Cancel
           \/ Speech!Fill \/ Speech!Queue \/ Speech!SpeakerPlays \/ Speech!Pause
              \/ Speech!Resume \/ Speech!StopPlaying \/ Speech!Played
           \/ Speech!PlayRefused \/ Speech!Cleanup \/ Speech!CleanupRefused
  BY <1>7, SpeechIsSilentOnText, TextIsLeftAlone
<1>8. CASE UNCHANGED sayVars
  BY <1>8, TextIsLeftAlone DEF sayVars, Speech!voice
<1> QED
  BY <1>1, <1>2, <1>3, <1>4, <1>5, <1>6, <1>7, <1>8 DEF Speech!Next

\* Before the first take nothing is written down.
LEMMA InitText == Speech!Init => TextInv
<1> SUFFICES ASSUME Speech!Init PROVE TextInv
  OBVIOUS
<1>1. /\ sayPc = "boot" /\ sayWav = Speech!NoFile /\ sayTakes = <<>> /\ sayReply = Speech!NoFile
      /\ sayDraft = <<>>
      /\ sayKept = FALSE
  BY DEF Speech!Init
<1>2. sayPc \notin {"idle"} \cup Taking \cup Speaking
  BY <1>1 DEF Taking, Speaking, InSegment, Playing
<1>3. sayTakes \in Seq(Nat) /\ sayDraft \in Seq(Recordings) /\ 1..Len(sayDraft) = {}
  BY <1>1
<1>4. TakeIsWritten /\ DraftIsOfTakes
  BY <1>2, <1>3 DEF TakeIsWritten, DraftIsOfTakes
<1>5. Speech!TextIsOfItsTake
  BY <1>3 DEF Speech!TextIsOfItsTake
<1>6. sayWav \in Recordings /\ sayReply \in Recordings /\ sayKept \in BOOLEAN
  BY <1>1, NoFileIsRecording
<1> QED
  BY <1>1, <1>2, <1>3, <1>4, <1>5, <1>6 DEF TextInv

\* The buffers take turns.
LEMMA BuffersTakeTurns ==
  ASSUME NEW n \in 0..2
  PROVE  /\ Prev(n) \in 0..2 /\ Prev(Prev(n)) \in 0..2
         /\ n # Prev(n) /\ n # Prev(Prev(n))
         /\ Speech!NextBuffer(n) \in 0..2 /\ Prev(Speech!NextBuffer(n)) = n
BY DEF Prev, Speech!NextBuffer

\* What the speaker holds, when it is given the next buffer and when it has played one.
LEMMA HeldInTurn ==
  ASSUME NEW n \in 0..2, NEW q \in HeldBefore(n)
  PROVE  /\ q \in Seq(0..2) /\ Len(q) \in 0..2 /\ \A j \in 1..Len(q) : q[j] # n /\ q[j] \in 0..2
         /\ Len(q) < 2 => Append(q, n) \in HeldBefore(Speech!NextBuffer(n))
         /\ q # <<>> => Tail(q) \in HeldBefore(n)
<1> DEFINE p == Prev(n)  o == Prev(Prev(n))  m == Speech!NextBuffer(n)
<1>1. p \in 0..2 /\ o \in 0..2 /\ n # p /\ n # o /\ m \in 0..2 /\ Prev(m) = n
  BY BuffersTakeTurns
<1>2. HeldBefore(n) = {<<>>, <<p>>, <<o, p>>} /\ HeldBefore(m) = {<<>>, <<n>>, <<p, n>>}
  BY <1>1 DEF HeldBefore
<1> HIDE DEF p, o, m
<1>3. CASE q = <<>>
  BY <1>1, <1>2, <1>3 DEF m
<1>4. CASE q = <<p>>
  <2>1. q \in Seq(0..2) /\ Len(q) = 1 /\ q[1] = p
    BY <1>1, <1>4
  <2>2. Append(q, n) = <<p, n>>
    <3>1. \A s \in Seq(0..2) : Len(s) = 2 => s = <<s[1], s[2]>>
      OBVIOUS
    <3>2. /\ Append(q, n) \in Seq(0..2) /\ Len(Append(q, n)) = 2
          /\ Append(q, n)[1] = p /\ Append(q, n)[2] = n
      <4>1. q \in Seq(0..2)
        BY <2>1
      <4>2. /\ Append(q, n) \in Seq(0..2) /\ Len(Append(q, n)) = Len(q) + 1
            /\ Append(q, n)[Len(q) + 1] = n
            /\ \A j \in 1..Len(q) : Append(q, n)[j] = q[j]
        BY <4>1
      <4>3. 1 \in 1..Len(q) /\ Len(q) + 1 = 2 /\ q[1] = p
        BY <2>1
      <4>4. Append(q, n)[1] = p
        BY <4>2, <4>3
      <4> QED
        BY <4>2, <4>3, <4>4
    <3> QED
      BY <3>1, <3>2
  <2>3. Tail(<<p>>) = <<>>
    OBVIOUS
  <2> QED
    BY <2>1, <2>2, <2>3, <1>1, <1>2, <1>4 DEF m
<1>5. CASE q = <<o, p>>
  BY <1>1, <1>2, <1>5 DEF m
<1> QED
  BY <1>2, <1>3, <1>4, <1>5

\* Without speech there is little to keep.
LEMMA SilentIsKept ==
  ASSUME sayPc' \in {"boot", "idle", "discard"} \cup Taking, SpeechTypes', HeardInOrder',
         sayPos' = 1, sayQueue' = <<>>, sayTold' # "spoken"
  PROVE  SpeechInv'
<1>1. sayPc' \notin Speaking /\ sayPc' \notin Playing /\ sayPc' \notin InSegment
  BY DEF Taking, Speaking, InSegment, Playing
<1>2. sayPc' \notin {"chunk", "fetch", "post", "stream", "cleanup", "queue"}
  BY <1>1 DEF Speaking, InSegment, Playing
<1>3. PlaceOfSpeech'
  BY <1>1, <1>2 DEF PlaceOfSpeech
<1>4. FileOfSegment'
  BY <1>1, <1>2 DEF FileOfSegment
<1>5. BuffersInOrder'
  BY <1>1 DEF BuffersInOrder, HeldBefore
<1>6. WhatIsTold'
  BY <1>1 DEF WhatIsTold
<1> QED
  BY <1>3, <1>4, <1>5, <1>6 DEF SpeechInv

\* What has been heard stays heard.
LEMMA HeardStays ==
  ASSUME SpeechInv, UNCHANGED <<sayDoc, sayHeard>>
  PROVE  HeardInOrder' /\ ToBeHeard' = ToBeHeard
BY DEF SpeechInv, HeardInOrder, ToBeHeard

\* A start and a reset: nothing is spoken behind them.
LEMMA ResetKeepsSpeech ==
  ASSUME SpeechInv, Speech!Boot \/ Speech!Reset
  PROVE  SpeechInv'
<1>1. CASE Speech!Boot
  <2>1. sayPc = "boot" /\ sayPc' = "idle" /\ UNCHANGED <<Speech!place, sayPcm, sayPos,
        Speech!sound, sayTold>>
    BY <1>1 DEF Speech!Boot, Speech!Goto, Speech!Fault
  <2>2. sayPos = 1 /\ sayQueue = <<>> /\ sayTold # "spoken"
    BY <2>1 DEF SpeechInv, FileOfSegment, BuffersInOrder, WhatIsTold, Playing
  <2>3. HeardInOrder' /\ SpeechTypes'
    BY <2>1, HeardStays DEF SpeechInv, SpeechTypes, Speech!place, Speech!sound
  <2> QED
    BY <2>1, <2>2, <2>3, SilentIsKept DEF Speech!sound
<1>2. CASE Speech!Reset
  <2>1. /\ sayPc' = "boot" /\ sayTold' = "none" /\ sayDoc' = <<>> /\ sayChunk' = 1
        /\ saySegment' = 1
        /\ sayPos' = 1 /\ sayRing' = [b \in 0..2 |-> <<>>] /\ sayNext' = 0 /\ sayQueue' = <<>>
        /\ sayHeard' = <<>> /\ sayPcm' = sayPcm
    BY <1>2 DEF Speech!Reset
  <2>2. SpeechTypes' /\ HeardInOrder'
    BY <2>1 DEF SpeechInv, SpeechTypes, HeardInOrder
  <2> QED
    BY <2>1, <2>2, SilentIsKept
<1> QED
  BY <1>1, <1>2

\* Nothing is spoken during a take.
LEMMA TakeKeepsSpeech ==
  ASSUME SpeechInv,
         \/ Speech!Hold \/ Speech!HoldRefused \/ Speech!StartMic \/ Speech!MicRefused
            \/ Speech!Record \/ Speech!Release \/ Speech!Passed
         \/ Speech!NotPassed \/ Speech!Transcribe \/ Speech!TryAgain \/ Speech!NoText
            \/ Speech!Insert \/ Speech!Discard \/ Speech!DiscardRefused
  PROVE  SpeechInv'
<1>1. CASE Speech!Hold \/ Speech!HoldRefused
  <2>1. /\ sayPc = "idle" /\ sayPc' \in {"power", "idle"} /\ sayTold' \in {"none", "failed"}
        /\ sayDoc' = <<>> /\ sayChunk' = 1 /\ saySegment' = 1 /\ sayHeard' = <<>>
        /\ UNCHANGED <<sayPcm, sayPos, sayRing, sayNext, sayQueue>>
    BY <1>1 DEF Speech!Hold, Speech!HoldRefused, Speech!Goto, Speech!End, Speech!Forget
  <2>2. sayPos = 1 /\ sayQueue = <<>>
    BY <2>1 DEF SpeechInv, FileOfSegment, BuffersInOrder, Playing
  <2>3. SpeechTypes' /\ HeardInOrder'
    BY <2>1 DEF SpeechInv, SpeechTypes, HeardInOrder
  <2>4. sayPc' \in {"boot", "idle", "discard"} \cup Taking
    BY <2>1 DEF Taking
  <2> QED
    BY <2>1, <2>2, <2>3, <2>4, SilentIsKept
<1>2. CASE \/ Speech!StartMic \/ Speech!MicRefused \/ Speech!Record \/ Speech!Release
              \/ Speech!Passed \/ Speech!NotPassed
           \/ Speech!Transcribe \/ Speech!TryAgain \/ Speech!NoText \/ Speech!Insert
              \/ Speech!Discard \/ Speech!DiscardRefused
  <2>1. /\ sayPc \in {"discard"} \cup Taking
        /\ UNCHANGED <<sayDoc, sayChunk, saySegment, sayPcm, sayPos, Speech!sound>>
        /\ sayTold' \in {sayTold, "failed", "canceled", "text"}
    BY <1>2 DEF Speech!StartMic, Speech!MicRefused, Speech!Record, Speech!Release,
       Speech!Passed, Speech!NotPassed, Speech!Transcribe, Speech!TryAgain,
                Speech!NoText, Speech!Insert, Speech!Discard, Speech!DiscardRefused,
                  Speech!Goto, Speech!End, Speech!place, Taking
  <2>2. sayPc' \in {"idle", "discard"} \cup Taking
    BY <1>2 DEF Speech!StartMic, Speech!MicRefused, Speech!Record, Speech!Release,
       Speech!Passed, Speech!NotPassed, Speech!Transcribe, Speech!TryAgain,
                Speech!NoText, Speech!Insert, Speech!Discard, Speech!DiscardRefused,
                  Speech!Goto, Speech!End, Taking
  <2>3. sayPc \notin Playing \cup {"stream", "cleanup", "idle"}
    BY <2>1 DEF Taking, Playing
  <2>4. sayPos = 1 /\ sayQueue = <<>> /\ sayTold' # "spoken"
    BY <2>1, <2>3 DEF SpeechInv, FileOfSegment, BuffersInOrder, WhatIsTold
  <2>5. SpeechTypes' /\ HeardInOrder'
    BY <2>1, HeardStays DEF SpeechInv, SpeechTypes, Speech!sound
  <2> QED
    BY <2>1, <2>2, <2>4, <2>5, SilentIsKept DEF Speech!sound
<1> QED
  BY <1>1, <1>2

\* The operation has ended before anything of this segment was played, or after it.
LEMMA EndKeepsSpeech ==
  ASSUME SpeechInv, sayPc \in Speaking \ Playing, sayPc' = "idle",
         UNCHANGED <<sayDoc, sayChunk, Speech!sound>>, sayPos' = 1, sayPcm' \in {<<>>, sayPcm},
         saySegment' \in Nat \ {0}, sayTold' # "spoken"
  PROVE  SpeechInv'
<1>1. sayQueue' = <<>>
  BY DEF SpeechInv, BuffersInOrder, Speech!sound
<1>2. SpeechTypes'
  <2>1. sayPcm' \in Seq(Nat \X Nat \X Nat)
    <3>1. sayPcm \in Seq(Nat \X Nat \X Nat) /\ <<>> \in Seq(Nat \X Nat \X Nat)
      BY DEF SpeechInv, SpeechTypes
    <3>2. sayPcm' = <<>> \/ sayPcm' = sayPcm
      OBVIOUS
    <3> QED
      BY <3>1, <3>2, Zenon
  <2> QED
    BY <2>1 DEF SpeechInv, SpeechTypes, Speech!sound
<1> QED
  BY <1>1, <1>2, HeardStays, SilentIsKept DEF Speech!sound

\* A document is spoken from its first segment.
LEMMA SpeakKeepsSpeech ==
  ASSUME SpeechInv, Speech!Speak
  PROVE  SpeechInv'
<1>1. /\ sayPc = "idle" /\ sayPc' = "chunk" /\ sayDoc' \in Seq(Nat) /\ sayDoc' # <<>>
      /\ sayChunk' = 1
      /\ saySegment' = 1 /\ sayHeard' = <<>> /\ sayTold' = "none"
      /\ UNCHANGED <<sayPcm, sayPos, sayRing, sayNext, sayQueue>>
  BY SpeechBounds DEF Speech!Speak, Speech!Goto
<1>2. sayPos = 1 /\ sayQueue = <<>>
  BY <1>1 DEF SpeechInv, FileOfSegment, BuffersInOrder, Playing
<1>3. SpeechTypes' /\ HeardInOrder'
  BY <1>1 DEF SpeechInv, SpeechTypes, HeardInOrder
<1>4. sayPc' \in Speaking /\ sayPc' \notin InSegment \cup Playing
  BY <1>1 DEF Speaking, InSegment, Playing
<1>5. 1 \in 1..Len(sayDoc')
  BY <1>1
<1>6. PlaceOfSpeech'
  BY <1>1, <1>4, <1>5 DEF PlaceOfSpeech, ToBeHeard
<1>7. FileOfSegment' /\ BuffersInOrder' /\ WhatIsTold'
  BY <1>1, <1>2, <1>4 DEF FileOfSegment, BuffersInOrder, WhatIsTold, HeldBefore
<1> QED
  BY <1>3, <1>4, <1>6, <1>7 DEF SpeechInv

\* The next chunk that has a segment is the next to be heard.
LEMMA ReadChunkKeepsSpeech ==
  ASSUME SpeechInv, Speech!ReadChunk
  PROVE  SpeechInv'
<1>1. /\ sayPc = "chunk" /\ saySegment' = 1
      /\ UNCHANGED <<sayDoc, sayChunk, sayPcm, sayPos, Speech!sound>>
      /\ IF sayDoc[sayChunk] = 0 THEN sayPc' = "idle"
         /\ sayTold' = "failed" ELSE sayPc' = "fetch" /\ sayTold' = sayTold
  BY DEF Speech!ReadChunk, Speech!End
<1>2. /\ sayPc \in Speaking \ Playing /\ sayPc \notin Playing \cup {"stream", "cleanup"}
  BY <1>1 DEF Speaking, InSegment, Playing
<1>3. /\ sayPos = 1 /\ sayQueue = <<>> /\ sayTold = "none" /\ sayChunk \in 1..Len(sayDoc)
      /\ sayDoc \in Seq(Nat)
      /\ ToBeHeard = <<sayChunk, 1, 1>> /\ sayDoc[sayChunk] \in Nat
  BY <1>1, <1>2 DEF SpeechInv, FileOfSegment, BuffersInOrder, WhatIsTold, PlaceOfSpeech,
     SpeechTypes
<1>4. CASE sayPc' = "idle"
  BY <1>1, <1>2, <1>3, <1>4, EndKeepsSpeech
<1>5. CASE sayPc' = "fetch"
  <2>1. sayDoc[sayChunk] # 0 /\ sayTold' = sayTold
    BY <1>1, <1>5
  <2>2. HeardInOrder' /\ ToBeHeard' = <<sayChunk, 1, 1>> /\ SpeechTypes'
    BY <1>1, <1>3, HeardStays DEF SpeechInv, SpeechTypes, Speech!sound
  <2>3. sayPc' \in Speaking /\ sayPc' \in InSegment /\ sayPc' \notin Playing
    BY <1>5 DEF Speaking, InSegment, Playing
  <2>4. PlaceOfSpeech'
    BY <1>1, <1>3, <1>5, <2>1, <2>2, <2>3 DEF PlaceOfSpeech
  <2>5. FileOfSegment' /\ BuffersInOrder' /\ WhatIsTold'
    BY <1>1, <1>3, <1>5, <2>1, <2>3
       DEF FileOfSegment, BuffersInOrder, WhatIsTold, HeldBefore, Speech!sound
  <2> QED
    BY <2>2, <2>3, <2>4, <2>5 DEF SpeechInv
<1> QED
  BY <1>1, <1>4, <1>5

\* A step before the segment is played.
LEMMA FetchGoesOn ==
  ASSUME SpeechInv, sayPc \in {"fetch", "post", "stream"},
         sayPc' \in {"fetch", "post", "stream"}, UNCHANGED <<Speech!place, Speech!sound,
           sayTold>>,
         sayPcm' \in Seq(Nat \X Nat \X Nat), sayPos' \in Nat \ {0}, FileOfSegment'
  PROVE  SpeechInv'
<1>1. /\ sayPc \in Speaking \ {"cleanup"} /\ sayPc \in InSegment /\ sayPc \notin Playing
      /\ sayPc' \in Speaking \ {"cleanup"} /\ sayPc' \in InSegment /\ sayPc' \notin Playing
      /\ sayPc' \notin {"chunk", "idle", "cleanup"}
  BY DEF Speaking, InSegment, Playing
<1>2. /\ sayQueue = <<>> /\ sayTold = "none" /\ ToBeHeard = <<sayChunk, saySegment, 1>>
      /\ sayChunk \in 1..Len(sayDoc) /\ saySegment \in 1..sayDoc[sayChunk]
  BY <1>1 DEF SpeechInv, BuffersInOrder, WhatIsTold, PlaceOfSpeech
<1>3. HeardInOrder' /\ ToBeHeard' = <<sayChunk, saySegment, 1>>
  BY <1>2, HeardStays DEF Speech!place, Speech!sound
<1>4. SpeechTypes'
  BY DEF SpeechInv, SpeechTypes, Speech!place, Speech!sound
<1>5. PlaceOfSpeech'
  BY <1>1, <1>2, <1>3 DEF PlaceOfSpeech, Speech!place
<1>6. BuffersInOrder' /\ WhatIsTold'
  BY <1>1, <1>2 DEF BuffersInOrder, WhatIsTold, HeldBefore, Speech!sound
<1> QED
  BY <1>1, <1>3, <1>4, <1>5, <1>6 DEF SpeechInv

\* A segment is fetched piece by piece, into a file that was emptied.
LEMMA FetchKeepsSpeech ==
  ASSUME SpeechInv, Speech!Fetch \/ Speech!Post \/ Speech!Stream
  PROVE  SpeechInv'
<1> DEFINE Triples == Nat \X Nat \X Nat
<1>1. sayPcm \in Seq(Triples) /\ sayPos \in Nat \ {0} /\ sayChunk \in Nat
      /\ saySegment \in Nat /\ Pieces \in Nat \ {0}
  BY SpeechBounds DEF SpeechInv, SpeechTypes
<1>2. CASE Speech!Fetch
  <2>1. /\ sayPc = "fetch" /\ sayPc' = "post" /\ sayPcm' = <<>>
        /\ UNCHANGED <<sayPos, Speech!place, Speech!sound, sayTold>>
    BY <1>2 DEF Speech!Fetch, Speech!Goto
  <2>2. sayPos = 1 /\ sayPc' \notin Playing \cup {"stream", "cleanup"}
    BY <2>1 DEF SpeechInv, FileOfSegment, Playing
  <2>3. FileOfSegment'
    BY <2>1, <2>2 DEF FileOfSegment
  <2>4. sayPcm' \in Seq(Triples)
    BY <2>1
  <2> QED
    BY <2>1, <2>3, <2>4, <1>1, FetchGoesOn
<1>3. CASE Speech!Post
  <2>1. /\ sayPc = "post" /\ sayPc' = "stream"
        /\ UNCHANGED <<sayPcm, sayPos, Speech!place, Speech!sound, sayTold>>
    BY <1>3 DEF Speech!Post, Speech!Goto
  <2>2. sayPos = 1 /\ sayPcm = <<>> /\ sayPc' \notin Playing
    BY <2>1 DEF SpeechInv, FileOfSegment, Playing
  <2>3. FileOfSegment'
    BY <2>1, <2>2, <1>1 DEF FileOfSegment
  <2> QED
    BY <2>1, <2>3, <1>1, FetchGoesOn
<1>4. CASE Speech!Stream
  <2>1. /\ sayPc = "stream" /\ sayPc' = "stream" /\ sayPos <= Pieces /\ sayPos' = sayPos + 1
        /\ sayPcm' = Append(sayPcm, <<sayChunk, saySegment, sayPos>>)
        /\ UNCHANGED <<Speech!place, Speech!sound, sayTold>>
    BY <1>4 DEF Speech!Stream
  <2>2. /\ Len(sayPcm) = sayPos - 1
        /\ \A i \in 1..Len(sayPcm) : sayPcm[i] = <<sayChunk, saySegment, i>>
    BY <2>1 DEF SpeechInv, FileOfSegment
  <2>3. <<sayChunk, saySegment, sayPos>> \in Triples
    BY <1>1
  <2> HIDE DEF Triples
  <2>4. /\ sayPcm' \in Seq(Triples) /\ Len(sayPcm') = sayPos
        /\ sayPcm'[sayPos] = <<sayChunk, saySegment, sayPos>>
        /\ \A i \in 1..sayPos - 1 : sayPcm'[i] = sayPcm[i]
    BY <2>1, <2>2, <2>3, <1>1
  <2>5. \A i \in 1..Len(sayPcm') : sayPcm'[i] = <<sayChunk, saySegment, i>>
    <3>1. \A i \in 1..Len(sayPcm') : i \in 1..sayPos - 1 \/ i = sayPos
      BY <2>4, <1>1
    <3> QED
      BY <3>1, <2>2, <2>4
  <2>6. sayPos' \in 1..Pieces + 1 /\ sayPos' \in Nat \ {0} /\ Len(sayPcm') = sayPos' - 1
    BY <2>1, <2>4, <1>1
  <2>7. sayPc' \notin Playing
    BY <2>1 DEF Playing
  <2>8. sayChunk' = sayChunk /\ saySegment' = saySegment
    BY <2>1 DEF Speech!place
  <2>9. FileOfSegment'
    BY <2>1, <2>5, <2>6, <2>7, <2>8 DEF FileOfSegment
  <2> QED
    BY <2>1, <2>4, <2>6, <2>9, FetchGoesOn DEF Triples
<1> QED
  BY <1>2, <1>3, <1>4

\* What ends a segment before it is played leaves nothing of it to be heard.
LEMMA BrokenKeepsSpeech ==
  ASSUME SpeechInv,
         Speech!SpeechRefused \/ Speech!PostFails \/ Speech!StreamBroken \/ Speech!Cancel
  PROVE  SpeechInv'
<1>1. /\ sayPc \in {"chunk", "fetch", "post", "stream"}
      /\ UNCHANGED <<Speech!place, Speech!sound>>
      /\ sayPcm' \in {<<>>, sayPcm} /\ sayPos' \in {1,
         sayPos} /\ (sayPc = "stream" => sayPos' = 1)
      /\ \/ sayPc' = "idle" /\ sayTold' \in {"failed", "stopped"}
         \/ sayPc' = "fetch" /\ sayTold' = sayTold /\ sayPc # "chunk"
  BY DEF Speech!SpeechRefused, Speech!PostFails, Speech!StreamBroken, Speech!Cancel,
     Speech!Again, Speech!End
<1>2. sayPc \in Speaking \ Playing
  BY <1>1 DEF Speaking, InSegment, Playing
<1>3. sayPos' = 1
  BY <1>1, <1>2 DEF SpeechInv, FileOfSegment
<1>4. saySegment' \in Nat \ {0} /\ UNCHANGED <<sayDoc, sayChunk, saySegment>>
  BY <1>1 DEF SpeechInv, SpeechTypes, Speech!place
<1>5. CASE sayPc' = "idle"
  BY <1>1, <1>2, <1>3, <1>4, <1>5, EndKeepsSpeech
<1>6. CASE sayPc' = "fetch" /\ sayTold' = sayTold /\ sayPc # "chunk"
  <2>1. sayPcm' \in Seq(Nat \X Nat \X Nat)
    <3>1. sayPcm \in Seq(Nat \X Nat \X Nat) /\ <<>> \in Seq(Nat \X Nat \X Nat)
      BY DEF SpeechInv, SpeechTypes
    <3>2. sayPcm' = <<>> \/ sayPcm' = sayPcm
      BY <1>1
    <3> QED
      BY <3>1, <3>2, Zenon
  <2>2. FileOfSegment'
    BY <1>3, <1>6 DEF FileOfSegment, Playing
  <2> QED
    BY <2>1, <2>2, <1>1, <1>3, <1>6, FetchGoesOn
<1> QED
  BY <1>1, <1>5, <1>6

\* While the segment is played: what is common to all the steps.
LEMMA PlayingIs ==
  ASSUME SpeechInv, sayPc \in Playing
  PROVE  /\ sayPc \in Speaking /\ sayPc \in InSegment /\ sayTold = "none"
         /\ sayChunk \in 1..Len(sayDoc) /\ saySegment \in 1..sayDoc[sayChunk]
         /\ Pieces \in Nat \ {0} /\ sayPos \in 1..Pieces + 1 /\ Len(sayPcm) = Pieces
         /\ \A i \in 1..Pieces : sayPcm[i] = <<sayChunk, saySegment, i>>
         /\ sayQueue \in HeldBefore(sayNext) /\ sayNext \in 0..2 /\ Len(sayQueue) \in 0..2
         /\ PiecesPlayed \in Nat /\ ToBeHeard = Following(PiecesPlayed)
         /\ \A j \in 1..Len(sayQueue) : sayRing[sayQueue[j]] = <<sayChunk, saySegment,
            PiecesPlayed + j>>
         /\ sayPc = "queue" => sayRing[sayNext] = <<sayChunk, saySegment, sayPos - 1>>
<1>1. sayPc \in Speaking \ {"cleanup"} /\ sayPc \in InSegment
  BY DEF Speaking, InSegment, Playing
<1>2. Pieces \in Nat \ {0} /\ sayPos \in 1..Pieces + 1 /\ Len(sayPcm) = Pieces
      /\ \A i \in 1..Pieces : sayPcm[i] = <<sayChunk, saySegment, i>>
  BY SpeechBounds DEF SpeechInv, FileOfSegment
<1>3. sayQueue \in HeldBefore(sayNext) /\ sayNext \in 0..2
  BY DEF SpeechInv, BuffersInOrder, SpeechTypes
<1>4. Len(sayQueue) \in 0..2
  BY <1>3, HeldInTurn
<1> QED
  BY <1>1, <1>2, <1>3, <1>4 DEF SpeechInv, WhatIsTold, PlaceOfSpeech, BuffersInOrder

\* A step of playing is one if the buffers stay in order.
LEMMA PlayingGoesOn ==
  ASSUME SpeechInv, sayPc \in {"stream"} \cup Playing, sayPc' \in Playing,
         UNCHANGED <<Speech!place, sayPcm, sayTold>>, Len(sayPcm) = Pieces,
         sayPos' \in 1..Pieces + 1, sayNext' \in 0..2, DOMAIN sayRing' = 0..2,
         sayHeard' \in Seq(Nat \X Nat \X Nat), HeardInOrder', BuffersInOrder'
  PROVE  SpeechInv'
<1>1. /\ sayPc' \in Speaking /\ sayPc' \in InSegment
      /\ sayPc' \notin {"chunk", "idle", "cleanup", "fetch", "post", "stream"}
      /\ sayPc \in Speaking \ {"cleanup"} /\ sayPc \in InSegment
  BY DEF Speaking, InSegment, Playing
<1>2. sayTold = "none" /\ sayChunk \in 1..Len(sayDoc) /\ saySegment \in 1..sayDoc[sayChunk]
  BY <1>1 DEF SpeechInv, WhatIsTold, PlaceOfSpeech
<1>3. Pieces \in Nat /\ sayPos' \in Nat \ {0}
  BY SpeechBounds
<1>4. \A i \in 1..Len(sayPcm) : sayPcm[i] = <<sayChunk, saySegment, i>>
  BY DEF SpeechInv, FileOfSegment
<1>5. SpeechTypes'
  BY <1>3 DEF SpeechInv, SpeechTypes, Speech!place
<1>6. PlaceOfSpeech'
  BY <1>1, <1>2 DEF PlaceOfSpeech, Speech!place
<1>7. FileOfSegment'
  BY <1>1, <1>3, <1>4 DEF FileOfSegment, Speech!place
<1>8. WhatIsTold'
  BY <1>1, <1>2 DEF WhatIsTold
<1> QED
  BY <1>1, <1>5, <1>6, <1>7, <1>8 DEF SpeechInv

\* A segment is played from its first piece once all of it is in the file.
LEMMA StreamedKeepsSpeech ==
  ASSUME SpeechInv, Speech!Streamed
  PROVE  SpeechInv'
<1>1. /\ sayPc = "stream" /\ sayPc' = "play" /\ sayPos > Pieces /\ sayPos' = 1
      /\ UNCHANGED <<Speech!place, sayPcm, Speech!sound, sayTold>>
  BY DEF Speech!Streamed, Speech!Goto
<1>2. sayPc \notin Playing /\ sayPc' \in Playing
  BY <1>1 DEF Playing
<1>3. /\ Len(sayPcm) = sayPos - 1 /\ sayPos \in 1..Pieces + 1 /\ sayQueue = <<>>
      /\ Pieces \in Nat \ {0}
      /\ ToBeHeard = <<sayChunk, saySegment, 1>> /\ sayNext \in 0..2 /\ DOMAIN sayRing = 0..2
      /\ sayHeard \in Seq(Nat \X Nat \X Nat)
  BY <1>1, <1>2, SpeechBounds DEF SpeechInv, SpeechTypes, FileOfSegment, BuffersInOrder,
     PlaceOfSpeech
<1>4. Len(sayPcm) = Pieces /\ sayPos' \in 1..Pieces + 1
  BY <1>1, <1>3
<1>5. HeardInOrder' /\ ToBeHeard' = ToBeHeard
  BY <1>1, HeardStays DEF Speech!place, Speech!sound
<1>6. PiecesPlayed' = 0
  <2>1. PiecesPlayed' = sayPos' - 1 - Len(sayQueue') - 0
    BY <1>1 DEF PiecesPlayed
  <2>2. sayQueue' = <<>> /\ Len(<<>>) = 0 /\ 1 - 1 - 0 - 0 = 0
    BY <1>1, <1>3 DEF Speech!sound
  <2> QED
    BY <2>1, <2>2, <1>1
<1>7. BuffersInOrder'
  <2>1. ToBeHeard' = Following(0)'
    BY <1>1, <1>3, <1>5 DEF Following, Speech!place
  <2>2. sayQueue' = <<>> /\ sayQueue' \in HeldBefore(sayNext')
    BY <1>1, <1>3 DEF Speech!sound, HeldBefore
  <2>3. 1..Len(sayQueue') = {}
    BY <2>2
  <2>4. ToBeHeard' = Following(PiecesPlayed)'
    BY <2>1, <1>6 DEF Following
  <2> QED
    BY <2>2, <2>3, <2>4, <1>1, <1>6 DEF BuffersInOrder
<1> QED
  BY <1>1, <1>2, <1>3, <1>4, <1>5, <1>7, PlayingGoesOn DEF Speech!sound

\* A buffer is filled with the piece that follows those the speaker holds.
LEMMA FillKeepsSpeech ==
  ASSUME SpeechInv, Speech!Fill
  PROVE  SpeechInv'
<1>1. /\ sayPc = "play" /\ sayPc' = "queue" /\ sayPos <= Len(sayPcm) /\ sayPos' = sayPos + 1
      /\ sayRing' = [sayRing EXCEPT ![sayNext] = sayPcm[sayPos]]
      /\ UNCHANGED <<Speech!place, sayPcm, sayNext, sayQueue, sayHeard, sayTold>>
  BY DEF Speech!Fill, Speech!Goto
<1>2. sayPc \in Playing /\ sayPc' \in Playing
  BY <1>1 DEF Playing
<1>3. /\ Pieces \in Nat \ {0} /\ sayPos \in 1..Pieces + 1 /\ Len(sayPcm) = Pieces
      /\ \A i \in 1..Pieces : sayPcm[i] = <<sayChunk, saySegment, i>>
      /\ sayQueue \in HeldBefore(sayNext) /\ sayNext \in 0..2 /\ Len(sayQueue) \in 0..2
      /\ PiecesPlayed \in Nat /\ ToBeHeard = Following(PiecesPlayed)
      /\ \A j \in 1..Len(sayQueue) : sayRing[sayQueue[j]] = <<sayChunk, saySegment,
         PiecesPlayed + j>>
  BY <1>2, PlayingIs
<1>4. sayPos' \in 1..Pieces + 1 /\ sayPos \in 1..Pieces /\ sayPos' - 1 = sayPos
  <2>1. sayPos <= Pieces /\ sayPos \in 1..Pieces + 1 /\ Pieces \in Nat /\ sayPos' = sayPos + 1
    BY <1>1, <1>3
  <2> QED
    BY <2>1
<1>5. PiecesPlayed' = PiecesPlayed
  <2>1. PiecesPlayed' = sayPos' - 1 - Len(sayQueue') - 1
    BY <1>1 DEF PiecesPlayed
  <2>2. PiecesPlayed = sayPos - 1 - Len(sayQueue) - 0
    BY <1>1 DEF PiecesPlayed
  <2>3. sayPos' = sayPos + 1 /\ sayQueue' = sayQueue /\ sayPos \in Nat /\ Len(sayQueue) \in Nat
    BY <1>1, <1>3
  <2> QED
    BY <2>1, <2>2, <2>3
<1>6. DOMAIN sayRing = 0..2 /\ sayHeard \in Seq(Nat \X Nat \X Nat)
  BY DEF SpeechInv, SpeechTypes
<1>7. sayRing'[sayNext] = sayPcm[sayPos] /\ DOMAIN sayRing' = 0..2
  BY <1>1, <1>3, <1>6
<1>8. \A j \in 1..Len(sayQueue) : sayRing'[sayQueue[j]] = sayRing[sayQueue[j]]
  <2>1. \A j \in 1..Len(sayQueue) : sayQueue[j] # sayNext /\ sayQueue[j] \in 0..2
    BY <1>3, HeldInTurn
  <2> QED
    BY <2>1, <1>1, <1>6
<1>9. HeardInOrder' /\ ToBeHeard' = ToBeHeard
  BY <1>1, HeardStays DEF Speech!place
<1>10. BuffersInOrder'
  <2>1. PiecesPlayed' \in Nat
    BY <1>3, <1>5
  <2>2. ToBeHeard' = Following(PiecesPlayed)'
    BY <1>1, <1>3, <1>5, <1>9 DEF Following, Speech!place
  <2>3. \A j \in 1..Len(sayQueue') : sayRing'[sayQueue'[j]] = <<sayChunk', saySegment',
        PiecesPlayed' + j>>
    BY <1>1, <1>3, <1>5, <1>8 DEF Speech!place
  <2>4. sayRing'[sayNext'] = <<sayChunk', saySegment', sayPos' - 1>>
    BY <1>1, <1>3, <1>4, <1>7 DEF Speech!place
  <2> QED
    BY <2>1, <2>2, <2>3, <2>4, <1>1, <1>2, <1>3 DEF BuffersInOrder
<1> QED
  BY <1>1, <1>2, <1>3, <1>4, <1>6, <1>7, <1>9, <1>10, PlayingGoesOn

\* It is the last of those the speaker holds.
LEMMA QueueKeepsSpeech ==
  ASSUME SpeechInv, Speech!Queue
  PROVE  SpeechInv'
<1>1. /\ sayPc = "queue" /\ sayPc' = "play" /\ Len(sayQueue) < 2
      /\ sayQueue' = Append(sayQueue, sayNext) /\ sayNext' = Speech!NextBuffer(sayNext)
      /\ UNCHANGED <<Speech!place, sayPcm, sayPos, sayRing, sayHeard, sayTold>>
  BY DEF Speech!Queue, Speech!Goto
<1>2. sayPc \in Playing /\ sayPc' \in Playing
  BY <1>1 DEF Playing
<1>3. /\ Pieces \in Nat \ {0} /\ sayPos \in 1..Pieces + 1 /\ Len(sayPcm) = Pieces
      /\ sayQueue \in HeldBefore(sayNext) /\ sayNext \in 0..2 /\ Len(sayQueue) \in 0..2
      /\ PiecesPlayed \in Nat /\ ToBeHeard = Following(PiecesPlayed)
      /\ \A j \in 1..Len(sayQueue) : sayRing[sayQueue[j]] = <<sayChunk, saySegment,
         PiecesPlayed + j>>
      /\ sayRing[sayNext] = <<sayChunk, saySegment, sayPos - 1>>
  BY <1>1, <1>2, PlayingIs
<1>4. /\ sayQueue' \in HeldBefore(sayNext') /\ sayQueue \in Seq(0..2)
  BY <1>1, <1>3, HeldInTurn
<1>5. sayNext' \in 0..2
  BY <1>1, <1>3, BuffersTakeTurns
<1>6. /\ Len(sayQueue') = Len(sayQueue) + 1 /\ sayQueue'[Len(sayQueue) + 1] = sayNext
      /\ \A j \in 1..Len(sayQueue) : sayQueue'[j] = sayQueue[j]
  BY <1>1, <1>3, <1>4
<1>7. PiecesPlayed' = PiecesPlayed /\ PiecesPlayed + Len(sayQueue) + 1 = sayPos - 1
  <2>1. PiecesPlayed = sayPos - 1 - Len(sayQueue) - 1
    BY <1>1 DEF PiecesPlayed
  <2>2. PiecesPlayed' = sayPos - 1 - Len(sayQueue') - 0
    BY <1>1 DEF PiecesPlayed
  <2> QED
    BY <2>1, <2>2, <1>3, <1>6
<1>8. DOMAIN sayRing = 0..2 /\ sayHeard \in Seq(Nat \X Nat \X Nat)
  BY DEF SpeechInv, SpeechTypes
<1>9. HeardInOrder' /\ ToBeHeard' = ToBeHeard
  BY <1>1, HeardStays DEF Speech!place
<1>10. BuffersInOrder'
  <2>1. PiecesPlayed' \in Nat
    BY <1>3, <1>7
  <2>2. ToBeHeard' = Following(PiecesPlayed)'
    BY <1>1, <1>3, <1>7, <1>9 DEF Following, Speech!place
  <2>3. ASSUME NEW j \in 1..Len(sayQueue')
        PROVE  sayRing'[sayQueue'[j]] = <<sayChunk', saySegment', PiecesPlayed' + j>>
    <3>1. CASE j \in 1..Len(sayQueue)
      BY <3>1, <1>1, <1>3, <1>6, <1>7 DEF Speech!place
    <3>2. CASE j = Len(sayQueue) + 1
      BY <3>2, <1>1, <1>3, <1>6, <1>7 DEF Speech!place
    <3> QED
      BY <3>1, <3>2, <1>3, <1>6
  <2> QED
    BY <2>1, <2>2, <2>3, <1>1, <1>2, <1>4 DEF BuffersInOrder
<1> QED
  BY <1>1, <1>2, <1>3, <1>5, <1>8, <1>9, <1>10, PlayingGoesOn

\* What the speaker has played is the piece that was to be heard.
LEMMA SpeakerKeepsSpeech ==
  ASSUME SpeechInv, Speech!SpeakerPlays
  PROVE  SpeechInv'
<1> DEFINE p == sayRing[Head(sayQueue)]
<1>1. /\ sayQueue # <<>> /\ sayHeard' = Append(sayHeard, p) /\ sayQueue' = Tail(sayQueue)
      /\ UNCHANGED <<sayPc, Speech!place, sayPcm, sayPos, sayRing, sayNext, sayTold>>
  BY DEF Speech!SpeakerPlays
<1>2. sayPc \in Playing
  BY <1>1 DEF SpeechInv, BuffersInOrder
<1>3. /\ Pieces \in Nat \ {0} /\ sayPos \in 1..Pieces + 1 /\ Len(sayPcm) = Pieces
      /\ sayChunk \in 1..Len(sayDoc) /\ saySegment \in 1..sayDoc[sayChunk]
      /\ sayQueue \in HeldBefore(sayNext) /\ sayNext \in 0..2 /\ Len(sayQueue) \in 0..2
      /\ PiecesPlayed \in Nat /\ ToBeHeard = Following(PiecesPlayed)
      /\ \A j \in 1..Len(sayQueue) : sayRing[sayQueue[j]] = <<sayChunk, saySegment,
         PiecesPlayed + j>>
      /\ sayPc = "queue" => sayRing[sayNext] = <<sayChunk, saySegment, sayPos - 1>>
  BY <1>2, PlayingIs
<1>4. sayQueue \in Seq(0..2) /\ sayQueue' \in HeldBefore(sayNext)
  BY <1>1, <1>3, HeldInTurn
<1>5. /\ Len(sayQueue) \in 1..2 /\ Len(sayQueue') = Len(sayQueue) - 1
      /\ Head(sayQueue) = sayQueue[1]
      /\ \A j \in 1..Len(sayQueue') : sayQueue'[j] = sayQueue[j + 1]
  BY <1>1, <1>3, <1>4
<1>6. p = <<sayChunk, saySegment, PiecesPlayed + 1>>
  <2>1. 1 \in 1..Len(sayQueue)
    BY <1>5
  <2>2. sayRing[sayQueue[1]] = <<sayChunk, saySegment, PiecesPlayed + 1>>
    BY <2>1, <1>3
  <2> QED
    BY <2>2, <1>5
<1>7. PiecesPlayed + 1 <= Pieces
  <2>1. PiecesPlayed \in {sayPos - 1 - Len(sayQueue) - 0, sayPos - 1 - Len(sayQueue) - 1}
    BY DEF PiecesPlayed
  <2> QED
    BY <2>1, <1>3, <1>5
<1>8. p = ToBeHeard
  <2>1. CASE PiecesPlayed = 0
    BY <2>1, <1>3, <1>6 DEF Following
  <2>2. CASE PiecesPlayed # 0
    <3>1. ToBeHeard = Speech!After(sayDoc, <<sayChunk, saySegment, PiecesPlayed>>)
      BY <2>2, <1>3 DEF Following
    <3>2. PiecesPlayed < Pieces
      BY <1>3, <1>7
    <3> QED
      BY <3>1, <3>2, <1>6 DEF Speech!After
  <2> QED
    BY <2>1, <2>2
<1>9. PiecesPlayed' = PiecesPlayed + 1
  <2>1. CASE sayPc = "queue"
    <3>1. PiecesPlayed = sayPos - 1 - Len(sayQueue) - 1
          /\ PiecesPlayed' = sayPos - 1 - Len(sayQueue') - 1
      BY <2>1, <1>1 DEF PiecesPlayed
    <3> QED
      BY <3>1, <1>3, <1>5
  <2>2. CASE sayPc # "queue"
    <3>1. PiecesPlayed = sayPos - 1 - Len(sayQueue) - 0
          /\ PiecesPlayed' = sayPos - 1 - Len(sayQueue') - 0
      BY <2>2, <1>1 DEF PiecesPlayed
    <3> QED
      BY <3>1, <1>3, <1>5
  <2> QED
    BY <2>1, <2>2
<1>10. p \in Nat \X Nat \X Nat
  <2>1. sayChunk \in Nat /\ saySegment \in Nat /\ PiecesPlayed + 1 \in Nat
    BY <1>3 DEF SpeechInv, SpeechTypes
  <2> QED
    BY <2>1, <1>6
<1>11. Speech!IsPieceOf(sayDoc, p)
  <2>1. PiecesPlayed + 1 \in 1..Pieces
    BY <1>3, <1>7
  <2> QED
    BY <2>1, <1>3, <1>6 DEF Speech!IsPieceOf
<1>12. DOMAIN sayRing = 0..2 /\ sayHeard \in Seq(Nat \X Nat \X Nat) /\ Len(sayHeard) \in Nat
  BY DEF SpeechInv, SpeechTypes
<1> HIDE DEF p
<1>13. /\ sayHeard' \in Seq(Nat \X Nat \X Nat) /\ Len(sayHeard') = Len(sayHeard) + 1
       /\ sayHeard'[Len(sayHeard) + 1] = p
       /\ \A i \in 1..Len(sayHeard) : sayHeard'[i] = sayHeard[i]
       /\ sayHeard' # <<>>
  <2> DEFINE T == Nat \X Nat \X Nat
  <2>1. sayHeard \in Seq(T) /\ p \in T
    BY <1>10, <1>12
  <2> HIDE DEF T
  <2>2. /\ Append(sayHeard, p) \in Seq(T) /\ Len(Append(sayHeard, p)) = Len(sayHeard) + 1
        /\ Append(sayHeard, p)[Len(sayHeard) + 1] = p
        /\ \A i \in 1..Len(sayHeard) : Append(sayHeard, p)[i] = sayHeard[i]
    BY <2>1
  <2>3. Append(sayHeard, p) # <<>>
    <3> DEFINE s == Append(sayHeard, p)
    <3>1. Len(s) # 0
      BY <2>2, <1>12
    <3> HIDE DEF s
    <3>2. s # <<>>
      BY <3>1
    <3> QED
      BY <3>2 DEF s
  <2> QED
    BY <2>2, <2>3, <1>1 DEF T
<1>14. HeardInOrder'
  <2>1. sayDoc' = sayDoc
    BY <1>1 DEF Speech!place
  <2>2. ASSUME NEW i \in 1..Len(sayHeard')
        PROVE  /\ Speech!IsPieceOf(sayDoc, sayHeard'[i])
               /\ sayHeard'[i] = IF i = 1 THEN <<1, 1, 1>> ELSE Speech!After(sayDoc,
                  sayHeard'[i - 1])
    <3>1. CASE i \in 1..Len(sayHeard)
      <4>1. i # 1 => i - 1 \in 1..Len(sayHeard)
        BY <3>1, <1>12
      <4> QED
        BY <3>1, <4>1, <1>13 DEF SpeechInv, HeardInOrder
    <3>2. CASE i = Len(sayHeard) + 1
      <4>1. p = IF sayHeard = <<>> THEN <<1, 1, 1>> ELSE Speech!After(sayDoc,
            sayHeard[Len(sayHeard)])
        BY <1>8 DEF ToBeHeard
      <4>2. sayHeard = <<>> <=> i = 1
        BY <3>2, <1>12
      <4>3. i # 1 => sayHeard'[i - 1] = sayHeard[Len(sayHeard)]
        <5>1. i # 1 => i - 1 = Len(sayHeard) /\ Len(sayHeard) \in 1..Len(sayHeard)
          BY <3>2, <1>12
        <5> QED
          BY <5>1, <1>13
      <4> QED
        BY <3>2, <4>1, <4>2, <4>3, <1>11, <1>13
    <3> QED
      BY <3>1, <3>2, <1>12, <1>13
  <2> QED
    BY <2>1, <2>2 DEF HeardInOrder
<1>15. ToBeHeard' = Following(PiecesPlayed)'
  <2>1. ToBeHeard' = Speech!After(sayDoc, p)
    BY <1>1, <1>12, <1>13 DEF ToBeHeard, Speech!place
  <2>2. PiecesPlayed + 1 # 0
    BY <1>3
  <2> QED
    BY <2>1, <2>2, <1>1, <1>6, <1>9 DEF Following, Speech!place
<1>16. BuffersInOrder'
  <2>1. PiecesPlayed' \in Nat
    BY <1>3, <1>9
  <2>2. \A j \in 1..Len(sayQueue') : sayRing'[sayQueue'[j]] = <<sayChunk', saySegment',
        PiecesPlayed' + j>>
    <3>1. \A j \in 1..Len(sayQueue') : j + 1 \in 1..Len(sayQueue)
          /\ PiecesPlayed + 1 + j = PiecesPlayed + (j + 1)
      BY <1>3, <1>5
    <3> QED
      BY <3>1, <1>1, <1>3, <1>5, <1>9 DEF Speech!place
  <2> QED
    BY <2>1, <2>2, <1>1, <1>2, <1>3, <1>4, <1>15 DEF BuffersInOrder, Speech!place
<1> QED
  BY <1>1, <1>2, <1>3, <1>12, <1>13, <1>14, <1>16, PlayingGoesOn

\* The file is cleaned up after the segment, whatever its end.
LEMMA CleanupComes ==
  ASSUME SpeechInv, sayPc \in Playing, sayPc' = "cleanup",
         UNCHANGED <<Speech!place, sayPcm, sayPos, sayHeard>>, sayQueue' = <<>>, sayNext' = 0,
         sayRing' = [b \in 0..2 |-> <<>>], sayTold' \in {"none", "stopped", "failed"},
         sayTold' = "none" => ToBeHeard = Speech!After(sayDoc, <<sayChunk, saySegment, Pieces>>)
  PROVE  SpeechInv'
<1>1. /\ sayPc' \in Speaking /\ sayPc' \in InSegment /\ sayPc' \notin Playing
      /\ sayPc' \notin {"chunk", "idle", "fetch", "post", "stream"}
  BY DEF Speaking, InSegment, Playing
<1>2. sayChunk \in 1..Len(sayDoc) /\ saySegment \in 1..sayDoc[sayChunk]
  BY PlayingIs
<1>3. HeardInOrder' /\ ToBeHeard' = ToBeHeard
  BY HeardStays DEF Speech!place
<1>4. SpeechTypes'
  BY DEF SpeechInv, SpeechTypes, Speech!place
<1>5. PlaceOfSpeech'
  BY <1>1, <1>2, <1>3 DEF PlaceOfSpeech, Speech!place
<1>6. FileOfSegment' /\ BuffersInOrder' /\ WhatIsTold'
  BY <1>1 DEF FileOfSegment, BuffersInOrder, WhatIsTold, HeldBefore
<1> QED
  BY <1>1, <1>3, <1>4, <1>5, <1>6 DEF SpeechInv

\* Playing ends with the buffers empty.
LEMMA EndOfPlayingKeepsSpeech ==
  ASSUME SpeechInv, Speech!StopPlaying \/ Speech!Played \/ Speech!PlayRefused
  PROVE  SpeechInv'
<1>1. /\ sayPc \in Playing /\ sayPc' = "cleanup"
      /\ UNCHANGED <<Speech!place, sayPcm, sayPos, sayHeard>>
      /\ sayQueue' = <<>> /\ sayNext' = 0 /\ sayRing' = [b \in 0..2 |-> <<>>]
  BY DEF Speech!StopPlaying, Speech!Played, Speech!PlayRefused, Speech!Silence, Speech!Goto,
     Playing
<1>2. CASE Speech!StopPlaying \/ Speech!PlayRefused
  <2>1. sayTold' \in {"stopped", "failed"}
    BY <1>2 DEF Speech!StopPlaying, Speech!PlayRefused
  <2> QED
    BY <2>1, <1>1, CleanupComes
<1>3. CASE Speech!Played
  <2>1. sayPc = "play" /\ sayPos > Len(sayPcm) /\ sayQueue = <<>> /\ sayTold' = sayTold
    BY <1>3 DEF Speech!Played
  <2>2. /\ Pieces \in Nat \ {0} /\ sayPos \in 1..Pieces + 1 /\ Len(sayPcm) = Pieces
        /\ sayTold = "none"
        /\ ToBeHeard = Following(PiecesPlayed)
    BY <1>1, PlayingIs
  <2>3. PiecesPlayed = Pieces
    <3>1. PiecesPlayed = sayPos - 1 - Len(sayQueue) - 0
      BY <2>1 DEF PiecesPlayed
    <3>2. Len(sayQueue) = 0 /\ sayPos = Pieces + 1
      BY <2>1, <2>2
    <3> QED
      BY <3>1, <3>2, <2>2
  <2>4. ToBeHeard = Speech!After(sayDoc, <<sayChunk, saySegment, Pieces>>)
    BY <2>2, <2>3 DEF Following
  <2> QED
    BY <2>1, <2>2, <2>4, <1>1, CleanupComes
<1> QED
  BY <1>2, <1>3

\* A pause leaves the file and the buffers where they are.
LEMMA PauseKeepsSpeech ==
  ASSUME SpeechInv, Speech!Pause \/ Speech!Resume
  PROVE  SpeechInv'
<1>1. /\ sayPc \in {"play", "paused"} /\ sayPc' \in {"play", "paused"}
      /\ UNCHANGED <<Speech!place, sayPcm, sayPos, Speech!sound, sayTold>>
  BY DEF Speech!Pause, Speech!Resume, Speech!Goto
<1>2. sayPc \in Playing /\ sayPc' \in Playing /\ sayPc' # "queue" /\ sayPc # "queue"
  BY <1>1 DEF Playing
<1>3. /\ sayPos \in 1..Pieces + 1 /\ Len(sayPcm) = Pieces /\ sayNext \in 0..2
      /\ sayQueue \in HeldBefore(sayNext) /\ PiecesPlayed \in Nat
      /\ ToBeHeard = Following(PiecesPlayed)
      /\ \A j \in 1..Len(sayQueue) : sayRing[sayQueue[j]] = <<sayChunk, saySegment,
         PiecesPlayed + j>>
  BY <1>2, PlayingIs
<1>4. DOMAIN sayRing = 0..2 /\ sayHeard \in Seq(Nat \X Nat \X Nat)
  BY DEF SpeechInv, SpeechTypes
<1>5. HeardInOrder' /\ ToBeHeard' = ToBeHeard
  BY <1>1, HeardStays DEF Speech!place, Speech!sound
<1>6. PiecesPlayed' = PiecesPlayed
  BY <1>1, <1>2 DEF PiecesPlayed, Speech!sound
<1>7. Following(PiecesPlayed)' = Following(PiecesPlayed)
  BY <1>1, <1>6 DEF Following, Speech!place
<1>8. BuffersInOrder'
  BY <1>1, <1>2, <1>3, <1>5, <1>6, <1>7 DEF BuffersInOrder, Speech!place, Speech!sound
<1> QED
  BY <1>1, <1>2, <1>3, <1>4, <1>5, <1>8, PlayingGoesOn DEF Speech!sound

\* The next segment, or the next chunk, follows the last piece of this one.
LEMMA CleanupKeepsSpeech ==
  ASSUME SpeechInv, Speech!Cleanup \/ Speech!CleanupRefused
  PROVE  SpeechInv'
<1>1. /\ sayPc = "cleanup" /\ sayPos' = 1 /\ sayPcm' \in {<<>>, sayPcm}
      /\ UNCHANGED <<sayDoc, Speech!sound>>
  BY DEF Speech!Cleanup, Speech!CleanupRefused, Speech!place
<1>2. sayPc \in Speaking \ Playing /\ sayPc \in InSegment /\ sayPc \notin Playing
  BY <1>1 DEF Speaking, InSegment, Playing
<1>3. /\ sayChunk \in 1..Len(sayDoc) /\ saySegment \in 1..sayDoc[sayChunk] /\ sayQueue = <<>>
      /\ sayTold # "spoken"
      /\ sayTold = "none" => ToBeHeard = Speech!After(sayDoc, <<sayChunk, saySegment, Pieces>>)
      /\ sayDoc \in Seq(Nat) /\ sayDoc[sayChunk] \in Nat /\ Pieces \in Nat
  <2>1. sayChunk \in 1..Len(sayDoc) /\ saySegment \in 1..sayDoc[sayChunk] /\ sayDoc \in Seq(Nat)
    BY <1>2 DEF SpeechInv, SpeechTypes, PlaceOfSpeech
  <2>2. sayQueue = <<>> /\ sayTold # "spoken" /\ Pieces \in Nat
    BY <1>1, <1>2, SpeechBounds DEF SpeechInv, BuffersInOrder, WhatIsTold
  <2>3. sayTold = "none" => ToBeHeard = Speech!After(sayDoc, <<sayChunk, saySegment, Pieces>>)
    BY <1>1 DEF SpeechInv, PlaceOfSpeech
  <2>4. sayDoc[sayChunk] \in Nat
    BY <2>1
  <2> QED
    BY <2>1, <2>2, <2>3, <2>4
<1>4. sayChunk \in Nat \ {0} /\ saySegment \in Nat \ {0} /\ Len(sayDoc) \in Nat
  BY <1>3
<1>5. HeardInOrder' /\ ToBeHeard' = ToBeHeard /\ sayQueue' = <<>>
  BY <1>1, <1>3, HeardStays DEF Speech!sound
<1>6. sayPcm' \in Seq(Nat \X Nat \X Nat)
  <2>1. sayPcm \in Seq(Nat \X Nat \X Nat) /\ <<>> \in Seq(Nat \X Nat \X Nat)
    BY DEF SpeechInv, SpeechTypes
  <2>2. sayPcm' = <<>> \/ sayPcm' = sayPcm
    BY <1>1
  <2> QED
    BY <2>1, <2>2, Zenon
<1>7. Speech!After(sayDoc, <<sayChunk, saySegment, Pieces>>) =
        IF saySegment < sayDoc[sayChunk] THEN <<sayChunk, saySegment + 1,
          1>> ELSE <<sayChunk + 1, 1, 1>>
  BY <1>3 DEF Speech!After
<1>8. CASE sayTold # "none" \/ Speech!CleanupRefused
  <2>1. sayPc' = "idle" /\ sayTold' # "spoken" /\ UNCHANGED <<sayChunk, saySegment>>
    BY <1>3, <1>8 DEF Speech!Cleanup, Speech!CleanupRefused, Speech!Continue, Speech!End,
       Speech!place
  <2> QED
    BY <2>1, <1>1, <1>2, <1>4, EndKeepsSpeech
<1>9. CASE sayTold = "none" /\ Speech!Cleanup /\ saySegment < sayDoc[sayChunk]
  <2>1. sayPc' = "fetch" /\ saySegment' = saySegment + 1 /\ sayTold' = sayTold
        /\ sayChunk' = sayChunk
    <3>1. sayTold = "none" /\ saySegment < sayDoc[sayChunk] /\ saySegment # sayDoc[sayChunk]
      BY <1>3, <1>4, <1>9
    <3> QED
      BY <3>1, <1>9 DEF Speech!Cleanup, Speech!Continue
  <2>2. SpeechTypes'
    BY <2>1, <1>1, <1>4, <1>6 DEF SpeechInv, SpeechTypes, Speech!sound
  <2>3. /\ sayPc' \in Speaking \ {"cleanup"} /\ sayPc' \in InSegment /\ sayPc' \notin Playing
    BY <2>1 DEF Speaking, InSegment, Playing
  <2>4. saySegment' \in 1..sayDoc[sayChunk]
    BY <2>1, <1>3, <1>4, <1>9
  <2>5. ToBeHeard' = <<sayChunk, saySegment', 1>>
    BY <2>1, <1>3, <1>5, <1>7, <1>9
  <2>6. PlaceOfSpeech'
    BY <2>1, <2>3, <2>4, <2>5, <1>1, <1>3 DEF PlaceOfSpeech
  <2>7. FileOfSegment' /\ BuffersInOrder' /\ WhatIsTold'
    BY <2>1, <2>3, <1>1, <1>5, <1>9 DEF FileOfSegment, BuffersInOrder, WhatIsTold, HeldBefore
  <2> QED
    BY <2>2, <2>3, <2>6, <2>7, <1>5 DEF SpeechInv
<1>10. CASE sayTold = "none" /\ Speech!Cleanup /\ saySegment = sayDoc[sayChunk]
            /\ sayChunk < Len(sayDoc)
  <2>1. sayPc' = "chunk" /\ sayChunk' = sayChunk + 1 /\ sayTold' = sayTold
        /\ saySegment' = saySegment
    BY <1>3, <1>4, <1>10 DEF Speech!Cleanup, Speech!Continue
  <2>2. SpeechTypes'
    BY <2>1, <1>1, <1>4, <1>6 DEF SpeechInv, SpeechTypes, Speech!sound
  <2>3. /\ sayPc' \in Speaking \ {"cleanup"} /\ sayPc' \notin InSegment /\ sayPc' \notin Playing
    BY <2>1 DEF Speaking, InSegment, Playing
  <2>4. sayChunk' \in 1..Len(sayDoc)
    BY <2>1, <1>3, <1>4, <1>10
  <2>5. ToBeHeard' = <<sayChunk', 1, 1>>
    <3>1. ~(saySegment < sayDoc[sayChunk]) /\ sayTold = "none"
      BY <1>4, <1>10
    <3> QED
      BY <3>1, <2>1, <1>3, <1>5, <1>7
  <2>6. PlaceOfSpeech'
    BY <2>1, <2>3, <2>4, <2>5, <1>1 DEF PlaceOfSpeech
  <2>7. FileOfSegment' /\ BuffersInOrder' /\ WhatIsTold'
    BY <2>1, <2>3, <1>1, <1>5, <1>10 DEF FileOfSegment, BuffersInOrder, WhatIsTold, HeldBefore
  <2> QED
    BY <2>2, <2>3, <2>6, <2>7, <1>5 DEF SpeechInv
<1>11. CASE sayTold = "none" /\ Speech!Cleanup /\ saySegment = sayDoc[sayChunk]
            /\ sayChunk = Len(sayDoc)
  <2>1. sayPc' = "idle" /\ sayTold' = "spoken" /\ UNCHANGED <<sayChunk, saySegment>>
    BY <1>3, <1>4, <1>11 DEF Speech!Cleanup, Speech!Continue, Speech!End
  <2>2. SpeechTypes'
    BY <2>1, <1>1, <1>4, <1>6 DEF SpeechInv, SpeechTypes, Speech!sound
  <2>3. sayPc' \notin Speaking /\ sayPc' \notin Playing /\ sayPc' \notin InSegment
    BY <2>1 DEF Speaking, InSegment, Playing
  <2>4. ToBeHeard' = <<Len(sayDoc) + 1, 1, 1>>
    BY <1>3, <1>5, <1>7, <1>11
  <2>5. sayHeard # <<>>
    <3>1. sayHeard = <<>> => <<Len(sayDoc) + 1, 1, 1>> = <<1, 1, 1>>
      BY <2>4, <1>5 DEF ToBeHeard
    <3>2. Len(sayDoc) + 1 # 1
      BY <1>3, <1>4
    <3> QED
      BY <3>1, <3>2
  <2>6. WhatIsTold'
    BY <2>1, <2>3, <2>4, <2>5, <1>1 DEF WhatIsTold, Speech!sound
  <2>7. PlaceOfSpeech' /\ FileOfSegment' /\ BuffersInOrder'
    BY <2>1, <2>3, <1>1, <1>5 DEF PlaceOfSpeech, FileOfSegment, BuffersInOrder, HeldBefore
  <2> QED
    BY <2>1, <2>2, <2>6, <2>7, <1>5 DEF SpeechInv
<1> QED
  BY <1>3, <1>4, <1>8, <1>9, <1>10, <1>11

\* Every step keeps what is heard in order.
LEMMA SpeechInvKept ==
  ASSUME SpeechInv, [Speech!Next]_sayVars
  PROVE  SpeechInv'
<1>1. CASE Speech!Boot \/ Speech!Reset
  BY <1>1, ResetKeepsSpeech
<1>2. CASE \/ Speech!Hold \/ Speech!HoldRefused \/ Speech!StartMic \/ Speech!MicRefused
              \/ Speech!Record \/ Speech!Release \/ Speech!Passed
           \/ Speech!NotPassed \/ Speech!Transcribe \/ Speech!TryAgain \/ Speech!NoText
              \/ Speech!Insert \/ Speech!Discard \/ Speech!DiscardRefused
  BY <1>2, TakeKeepsSpeech
<1>3. CASE Speech!Speak
  BY <1>3, SpeakKeepsSpeech
<1>4. CASE Speech!ReadChunk
  BY <1>4, ReadChunkKeepsSpeech
<1>5. CASE Speech!Fetch \/ Speech!Post \/ Speech!Stream
  BY <1>5, FetchKeepsSpeech
<1>6. CASE Speech!SpeechRefused \/ Speech!PostFails \/ Speech!StreamBroken \/ Speech!Cancel
  BY <1>6, BrokenKeepsSpeech
<1>7. CASE Speech!Streamed
  BY <1>7, StreamedKeepsSpeech
<1>8. CASE Speech!Fill
  BY <1>8, FillKeepsSpeech
<1>9. CASE Speech!Queue
  BY <1>9, QueueKeepsSpeech
<1>10. CASE Speech!SpeakerPlays
  BY <1>10, SpeakerKeepsSpeech
<1>11. CASE Speech!Pause \/ Speech!Resume
  BY <1>11, PauseKeepsSpeech
<1>12. CASE Speech!StopPlaying \/ Speech!Played \/ Speech!PlayRefused
  BY <1>12, EndOfPlayingKeepsSpeech
<1>13. CASE Speech!Cleanup \/ Speech!CleanupRefused
  BY <1>13, CleanupKeepsSpeech
<1>14. CASE UNCHANGED sayVars
  <2>1. /\ UNCHANGED <<sayPc, sayDoc, sayChunk, saySegment, sayPcm, sayPos, sayRing, sayNext,
           sayQueue, sayHeard, sayTold>>
    BY <1>14 DEF sayVars, Speech!place, Speech!sound
  <2>2. ToBeHeard' = ToBeHeard /\ PiecesPlayed' = PiecesPlayed /\ HeardInOrder'
    BY <2>1, HeardStays DEF PiecesPlayed
  <2>3. Following(PiecesPlayed)' = Following(PiecesPlayed)
    BY <2>1, <2>2 DEF Following
  <2>4. SpeechTypes' /\ FileOfSegment' /\ WhatIsTold'
    BY <2>1, <2>2 DEF SpeechInv, SpeechTypes, FileOfSegment, WhatIsTold
  <2>5. PlaceOfSpeech'
    BY <2>1, <2>2 DEF SpeechInv, PlaceOfSpeech
  <2>6. BuffersInOrder'
    BY <2>1, <2>2, <2>3 DEF SpeechInv, BuffersInOrder
  <2> QED
    BY <2>1, <2>2, <2>4, <2>5, <2>6 DEF SpeechInv
<1> QED
  BY <1>1, <1>2, <1>3, <1>4, <1>5, <1>6, <1>7, <1>8, <1>9, <1>10, <1>11, <1>12, <1>13, <1>14
     DEF Speech!Next

\* Before anything is spoken nothing was heard.
LEMMA InitSpeech == Speech!Init => SpeechInv
<1> SUFFICES ASSUME Speech!Init PROVE SpeechInv
  OBVIOUS
<1>1. /\ sayPc = "boot" /\ sayDoc = <<>> /\ sayChunk = 1 /\ saySegment = 1 /\ sayPcm = <<>>
      /\ sayPos = 1
      /\ sayRing = [b \in 0..2 |-> <<>>] /\ sayNext = 0 /\ sayQueue = <<>> /\ sayHeard = <<>>
      /\ sayTold = "none"
  BY DEF Speech!Init
<1>2. sayPc \notin Speaking /\ sayPc \notin Playing /\ sayPc \notin InSegment
  BY <1>1 DEF Speaking, InSegment, Playing
<1>3. SpeechTypes
  BY <1>1 DEF SpeechTypes
<1>4. HeardInOrder /\ PlaceOfSpeech
  BY <1>1, <1>2 DEF HeardInOrder, PlaceOfSpeech
<1>5. FileOfSegment /\ BuffersInOrder /\ WhatIsTold
  BY <1>1, <1>2 DEF FileOfSegment, BuffersInOrder, WhatIsTold, HeldBefore
<1> QED
  BY <1>1, <1>3, <1>4, <1>5 DEF SpeechInv

\* The invariant says that speech is in order.
LEMMA SpeechIsRight == SpeechInv => Speech!SpeechIsInOrder
<1> SUFFICES ASSUME SpeechInv PROVE Speech!SpeechIsInOrder
  OBVIOUS
<1>1. sayTold = "spoken" =>
        sayHeard # <<>> /\ Speech!After(sayDoc, sayHeard[Len(sayHeard)]) = <<Len(sayDoc) + 1,
          1, 1>>
  BY DEF SpeechInv, WhatIsTold, ToBeHeard
<1>2. sayPc = "idle" => sayQueue = <<>>
  BY DEF SpeechInv, BuffersInOrder, Playing
<1> QED
  BY <1>1, <1>2 DEF SpeechInv, HeardInOrder, Speech!SpeechIsInOrder

\* The invariants say all of the property.
LEMMA SpeechIsFaithful == TextInv /\ SpeechInv => VoiceIsFaithful
<1> SUFFICES ASSUME TextInv, SpeechInv PROVE VoiceIsFaithful
  OBVIOUS
<1>1. Speech!TextIsOfItsTake
  BY DEF TextInv
<1>2. Speech!SpeechIsInOrder
  BY SpeechIsRight
<1>3. Speech!NoRecordingIsKept
  BY DEF TextInv, Speech!NoRecordingIsKept
<1> QED
  BY <1>1, <1>2, <1>3 DEF VoiceIsFaithful, Speech!VoiceIsFaithful

\* The draft is of the takes it was made of, each with all its samples; a document is
\* heard from its first piece on, in order and without a gap, to the end when that is
\* reported; a recording stays on the card only when that was reported.
THEOREM VoiceStaysFaithful == ServicesSpec => []VoiceIsFaithful
<1>1. ServicesInit => TextInv /\ SpeechInv
  BY InitText, InitSpeech DEF ServicesInit
<1>2. TextInv /\ [ServicesNext]_allVars => TextInv'
  BY Frames, TextInvKept
<1>3. SpeechInv /\ [ServicesNext]_allVars => SpeechInv'
  BY Frames, SpeechInvKept
<1> QED
  BY <1>1, <1>2, <1>3, SpeechIsFaithful, PTL DEF ServicesSpec

-----------------------------------------------------------------------------
(* Completion.                                                             *)

AnswerFiles == [question : 0..MaxQuestions, turn : Nat, whole : BOOLEAN]
AnswerPieces == Seq(Nat \X Nat)
AnswerCall == [turn : Nat, parts : 0..2, tool : Model!Tool, ok : BOOLEAN]
AnswerCalls == Seq(AnswerCall)
AnswerSinks == [text : Nat, parts : [1..2 -> 0..2], done : BOOLEAN, failed : BOOLEAN]
AnswerBounds == [questions : 0..MaxQuestions, faults : Nat, resets : Nat]

AnswerProgress ==
  /\ ansAsk \in Model!Question /\ ansRound \in Nat /\ ansRetried \in BOOLEAN
  /\ ansRequired \in SUBSET {"files", "web"} /\ ansWritten \in BOOLEAN
AnswerRequests ==
  /\ ansFile \in AnswerFiles /\ ansBody \in AnswerFiles /\ ansTurn \in Nat
  /\ ansSink \in AnswerSinks
  /\ ansGood \in BOOLEAN
AnswerHistory ==
  /\ ansBuffer \in AnswerPieces /\ ansShown \in AnswerPieces /\ ansSaid \in AnswerPieces
  /\ ansMade \in AnswerCalls
AnswerControl ==
  /\ ansPc \in {"idle", "stage", "post", "stream", "judge", "cleanup", "turn", "tool",
     "waiting"}
  /\ ansTold \in {"none", "ok", "failed", "unclean", "waiting"}
  /\ ansLeft \in AnswerBounds
  /\ ansPc # "idle" => ansTold \in {"none", "waiting"}
AnswerTypes == AnswerProgress /\ AnswerRequests /\ AnswerHistory /\ AnswerControl

\* What was shown and what is kept back is what was said, unless text was lost, and
\* then the turn is no good; text is kept back only before anything was shown.
TextIsShown ==
  /\ \/ ansPc \in {"stage", "post", "stream", "tool", "waiting"}
     \/ ansPc = "judge" /\ ansSink.done
     \/ ansPc \in {"cleanup", "turn"} /\ ansGood
     => ansSaid = IF ansBuffer = <<>> THEN ansShown ELSE ansBuffer
  /\ ansPc \in {"tool", "waiting"} \/ ~Model!Buffering => ansBuffer = <<>>
  /\ ansPc \notin {"idle", "tool", "waiting"} /\ Model!Buffering => ansShown = <<>>

\* A piece is later than all before it.
InOrder(s) == \A i, j \in 1..Len(s) : i < j => Model!Before(s[i], s[j])
PiecesOf(s, limit, last) ==
  \A i \in 1..Len(s) : s[i][1] < limit \/ (s[i][1] = limit /\ s[i][2] <= last)
TextInOrder ==
  /\ InOrder(ansShown) /\ InOrder(ansBuffer)
  /\ ansPc # "idle" => \A i \in 1..Len(ansShown) : ansShown[i][1] <= ansTurn
  /\ ansPc # "idle" => \A i \in 1..Len(ansBuffer) : ansBuffer[i][1] <= ansTurn
  /\ ansPc = "post" => \A i \in 1..Len(ansShown) : ansShown[i][1] < ansTurn
  /\ ansPc = "post" => \A i \in 1..Len(ansBuffer) : ansBuffer[i][1] < ansTurn
  /\ ansPc = "stream" => PiecesOf(ansShown, ansTurn, ansSink.text)
  /\ ansPc = "stream" => PiecesOf(ansBuffer, ansTurn, ansSink.text)

\* Calls are counted by the rounds, and the one that is taken up is whole.
CallsInOrder ==
  /\ \A i \in 1..Len(ansMade) : ansMade[i].parts = 2
  /\ \A i, j \in 1..Len(ansMade) : i < j => ansMade[i].turn < ansMade[j].turn
  /\ Len(ansMade) <= MaxRounds
  /\ ansPc # "idle" => Len(ansMade) = IF ansPc = "waiting" THEN ansRound + 1 ELSE ansRound
  /\ ansPc = "tool" => ansSink.parts[1] = 2 /\ ansRound < MaxRounds
  /\ ansPc = "waiting" => ansRound < MaxRounds /\ ~ansMade[Len(ansMade)].ok
  /\ ansPc \in {"cleanup", "turn"} /\ ansGood =>
       \A i \in Model!Called : ansSink.parts[i] = 2
  /\ ansPc # "idle" => \A i \in 1..Len(ansMade) : ansMade[i].turn <= ansTurn
  /\ ansPc \notin {"idle", "stage", "waiting"} => \A i \in 1..Len(ansMade) :
     ansMade[i].turn < ansTurn

\* What is required of the answer and not of the calls to come was met by those made.
RequiredWasMade ==
  ansPc # "idle" =>
    /\ \A g \in ansAsk.groups \ ansRequired :
         \E i \in 1..Len(ansMade) : Model!Group(ansMade[i].tool) = g
    /\ ansWritten => \E i \in 1..Len(ansMade) : ansMade[i].tool = "write" /\ ansMade[i].ok

\* The request on the card is that of the turn, and gone behind it.
RequestOnCard ==
  /\ ansPc = "post" /\ Model!Tools =>
       ansFile.question = Model!Number /\ ansFile.turn = ansTurn
  /\ Model!RequestIsOfThisTurn
  /\ ansPc \in {"stage", "tool", "waiting"} => Model!Tools
  /\ /\ ansPc \in {"stage", "turn", "tool", "waiting"} \/ ansTold \in {"ok", "failed"}
     /\ \/ ansAsk.kind = "tools" /\ ansTurn > 0
        \/ ansAsk.kind = "search" /\ ansTurn > 1
     => ansFile = Model!NoFile

AnswerInv ==
  /\ AnswerTypes /\ TextIsShown /\ TextInOrder /\ CallsInOrder /\ RequiredWasMade
  /\ RequestOnCard
  /\ Model!SuccessIsWhole /\ Model!RequirementsAreMet

\* The questions of the run are questions.
LEMMA AskedIsQuestion == \A q \in Asked : q \in Model!Question
<1> SUFFICES ASSUME NEW q \in Asked PROVE q \in Model!Question
  OBVIOUS
<1>1. CASE q = [kind |-> "plain", access |-> FALSE, write |-> FALSE, groups |-> {}]
  BY <1>1 DEF Model!Question
<1>2. CASE q = [kind |-> "search", access |-> FALSE, write |-> FALSE, groups |-> {"web"}]
  BY <1>2 DEF Model!Question
<1>3. CASE q = [kind |-> "tools", access |-> TRUE, write |-> FALSE, groups |-> {}]
  BY <1>3 DEF Model!Question
<1>4. CASE q = [kind |-> "tools", access |-> TRUE, write |-> TRUE, groups |-> {"web"}]
  BY <1>4 DEF Model!Question
<1> QED BY <1>1, <1>2, <1>3, <1>4, Zenon DEF Asked

\* A sink that a turn begins with, and how one grows.
LEMMA SinkGrows ==
  ASSUME NEW s \in AnswerSinks
  PROVE  /\ Model!Fresh \in AnswerSinks
         /\ [Model!Fresh EXCEPT !.parts = <<2, 0>>] \in AnswerSinks
         /\ [s EXCEPT !.text = @ + 1] \in AnswerSinks
         /\ [s EXCEPT !.done = TRUE] \in AnswerSinks
         /\ [s EXCEPT !.failed = TRUE] \in AnswerSinks
         /\ \A i \in 1..2 : s.parts[i] < 2 =>
              /\ [s EXCEPT !.parts[i] = @ + 1] = [s EXCEPT !.parts = [s.parts EXCEPT ![i] = @ + 1]]
              /\ [s EXCEPT !.parts[i] = @ + 1] \in AnswerSinks
<1>1. <<0, 0>> \in [1..2 -> 0..2] /\ <<2, 0>> \in [1..2 -> 0..2]
  OBVIOUS
<1>2. Model!Fresh \in AnswerSinks /\ [Model!Fresh EXCEPT !.parts = <<2, 0>>] \in AnswerSinks
  BY <1>1 DEF Model!Fresh, AnswerSinks
<1>3. [s EXCEPT !.text = @ + 1] \in AnswerSinks
  BY DEF AnswerSinks
<1>5. [s EXCEPT !.done = TRUE] \in AnswerSinks
  BY DEF AnswerSinks
<1>6. [s EXCEPT !.failed = TRUE] \in AnswerSinks
  BY DEF AnswerSinks
<1>4. ASSUME NEW i \in 1..2, s.parts[i] < 2
      PROVE  /\ [s EXCEPT !.parts[i] = @ + 1] = [s EXCEPT !.parts = [s.parts EXCEPT ![i] = @ + 1]]
             /\ [s EXCEPT !.parts[i] = @ + 1] \in AnswerSinks
  <2>1. [s.parts EXCEPT ![i] = @ + 1] \in [1..2 -> 0..2]
    BY <1>4 DEF AnswerSinks
  <2>2. [s EXCEPT !.parts[i] = @ + 1] = [s EXCEPT !.parts = [s.parts EXCEPT ![i] = @ + 1]]
    BY DEF AnswerSinks
  <2> QED BY <2>1, <2>2 DEF AnswerSinks
<1> QED BY <1>2, <1>3, <1>4, <1>5, <1>6

\* A call that is added, and the one that was decided on.
LEMMA CallsGrow ==
  ASSUME NEW s \in AnswerCalls, NEW c \in AnswerCall
  PROVE  /\ Append(s, c) \in AnswerCalls /\ Len(Append(s, c)) = Len(s) + 1
         /\ \A i \in 1..Len(s) : Append(s, c)[i] = s[i]
         /\ Append(s, c)[Len(s) + 1] = c
  BY DEF AnswerCalls

\* A decision is written into the last call and changes no other.
LEMMA CallIsDecided ==
  ASSUME NEW s \in AnswerCalls, s # <<>>, NEW b \in BOOLEAN,
         NEW r, r = [s EXCEPT ![Len(s)].ok = b]
  PROVE  /\ r \in AnswerCalls /\ Len(r) = Len(s)
         /\ \A i \in 1..Len(s) : i # Len(s) => r[i] = s[i]
         /\ \A i \in 1..Len(s) : r[i].tool = s[i].tool /\ r[i].turn = s[i].turn
            /\ r[i].parts = s[i].parts
         /\ b => r[Len(s)].ok
<1> DEFINE c == [s[Len(s)] EXCEPT !.ok = b]
<1>1. r = [s EXCEPT ![Len(s)] = c]
  BY DEF AnswerCalls
<1>2. Len(s) \in 1..Len(s) /\ s[Len(s)] \in AnswerCall
  BY DEF AnswerCalls
<1>3. /\ c \in AnswerCall /\ (b => c.ok)
      /\ c.tool = s[Len(s)].tool /\ c.turn = s[Len(s)].turn /\ c.parts = s[Len(s)].parts
  BY <1>2 DEF AnswerCall
<1> HIDE DEF c
<1>4. r \in AnswerCalls /\ Len(r) = Len(s)
  BY <1>1, <1>2, <1>3 DEF AnswerCalls
<1>5. r[Len(s)] = c /\ \A i \in 1..Len(s) : i # Len(s) => r[i] = s[i]
  BY <1>1, <1>2 DEF AnswerCalls
<1> QED BY <1>3, <1>4, <1>5

\* Text that is added.
LEMMA PiecesGrow ==
  ASSUME NEW s \in AnswerPieces, NEW t \in AnswerPieces, NEW p \in Nat \X Nat
  PROVE  /\ Append(s, p) \in AnswerPieces /\ s \o t \in AnswerPieces /\ <<>> \in AnswerPieces
         /\ Len(Append(s, p)) = Len(s) + 1 /\ Append(s, p) # <<>>
         /\ \A i \in 1..Len(s) : Append(s, p)[i] = s[i]
         /\ Append(s, p)[Len(s) + 1] = p
         /\ t = <<>> => s \o t = s
         /\ s = <<>> => s \o t = t
<1>1. /\ Append(s, p) \in AnswerPieces /\ s \o t \in AnswerPieces /\ <<>> \in AnswerPieces
      /\ Len(Append(s, p)) = Len(s) + 1
      /\ \A i \in 1..Len(s) : Append(s, p)[i] = s[i]
      /\ Append(s, p)[Len(s) + 1] = p
  BY DEF AnswerPieces
<1>2. Append(s, p) # <<>>
  BY <1>1 DEF AnswerPieces
<1>3. t = <<>> => s \o t = s
  BY DEF AnswerPieces
<1>4. s = <<>> => s \o t = t
  BY DEF AnswerPieces
<1> QED BY <1>1, <1>2, <1>3, <1>4

\* Where a question begins.
LEMMA BeginLeads ==
  ASSUME NEW q \in Asked, Model!Begin(q)
  PROVE  /\ ansMade' = <<>> /\ ansRound' = 0 /\ ansPc' \in {"post", "stage", "turn"}
         /\ ansGood' => ansSink' = [Model!Fresh EXCEPT !.parts = <<2, 0>>]
<1>1. q.kind \in {"plain", "tools", "search"}
  BY AskedIsQuestion DEF Model!Question
<1>2. "plain" # "tools" /\ "plain" # "search" /\ "tools" # "search"
  OBVIOUS
<1>3. ansPc' \in {"post", "stage", "turn"}
  BY <1>1, <1>2, Zenon DEF Model!Begin
<1>4. ansMade' = <<>> /\ ansRound' = 0
  BY DEF Model!Begin
<1>5. ansGood' => ansSink' = [Model!Fresh EXCEPT !.parts = <<2, 0>>]
  BY Zenon DEF Model!Begin
<1> QED BY <1>3, <1>4, <1>5

\* The call of a search command is whole.
LEMMA SearchIsCalled ==
  ASSUME NEW s, s = [Model!Fresh EXCEPT !.parts = <<2, 0>>],
         NEW i \in 1..2, \E j \in i..2 : s.parts[j] > 0
  PROVE  s.parts[i] = 2
<1>1. s.parts = <<2, 0>>
  BY DEF Model!Fresh
<1>2. PICK j \in i..2 : s.parts[j] > 0
  OBVIOUS
<1>3. s.parts[1] = 2 /\ s.parts[2] = 0
  BY <1>1
<1>4. i = 1 \/ (i = 2 /\ j = 2)
  OBVIOUS
<1> QED BY <1>2, <1>3, <1>4

\* A call that is added leaves those before it as they are.
LEMMA CallAdded ==
  ASSUME NEW s \in AnswerCalls, NEW c
  PROVE  /\ Len(Append(s, c)) = Len(s) + 1 /\ Len(s) \in Nat
         /\ \A i \in 1..Len(s) : Append(s, c)[i] = s[i]
         /\ Append(s, c)[Len(s) + 1] = c
  BY DEF AnswerCalls

\* Text that is added is later than what is there.
LEMMA PieceIsLater ==
  ASSUME NEW s \in AnswerPieces, NEW n \in Nat, NEW k \in Nat, InOrder(s), PiecesOf(s, n, k)
  PROVE  /\ InOrder(Append(s, <<n, k + 1>>)) /\ PiecesOf(Append(s, <<n, k + 1>>), n, k + 1)
         /\ PiecesOf(s, n, k + 1)
<1> DEFINE r == Append(s, <<n, k + 1>>)
<1>1. /\ Len(r) = Len(s) + 1 /\ Len(s) \in Nat /\ r[Len(s) + 1] = <<n, k + 1>>
      /\ \A i \in 1..Len(s) : r[i] = s[i]
  BY DEF AnswerPieces
<1>2. \A i \in 1..Len(s) : s[i][1] \in Nat /\ s[i][2] \in Nat
  <2>1. \A i \in 1..Len(s) : s[i] \in Nat \X Nat
    BY DEF AnswerPieces
  <2> QED BY <2>1
<1> HIDE DEF r
<1>3. PiecesOf(s, n, k + 1)
  BY <1>2 DEF PiecesOf
<1>4. PiecesOf(r, n, k + 1)
  BY <1>1, <1>2, <1>3 DEF PiecesOf
<1>5. ASSUME NEW i \in 1..Len(r), NEW j \in 1..Len(r), i < j PROVE Model!Before(r[i], r[j])
  <2>1. i \in 1..Len(s)
    BY <1>1, <1>5
  <2>2. CASE j \in 1..Len(s)
    BY <2>1, <2>2, <1>1, <1>5 DEF InOrder
  <2>3. CASE j = Len(s) + 1
    BY <2>1, <2>3, <1>1, <1>2 DEF PiecesOf, Model!Before
  <2> QED BY <2>2, <2>3, <1>1
<1> QED BY <1>3, <1>4, <1>5 DEF InOrder, r

\* Every step keeps the values.
LEMMA AnswerTypesKept == AnswerInv /\ [Model!Next]_answerVars => AnswerTypes'
<1> SUFFICES ASSUME AnswerInv, [Model!Next]_answerVars PROVE AnswerTypes'
  OBVIOUS
<1> USE DEF Model!Goto, Model!End, Model!Fault, Model!answer, Model!progress, AnswerTypes,
    AnswerProgress, AnswerRequests, AnswerHistory, AnswerControl
<1>q. \A q \in Asked : q \in Model!Question
  BY AskedIsQuestion
<1>0. AnswerTypes /\ (ansPc = "waiting" => ansMade # <<>>)
  BY DEF AnswerInv, CallsInOrder, AnswerTypes, AnswerHistory, AnswerCalls, AnswerProgress
<1>s. /\ Model!Fresh \in AnswerSinks /\ [Model!Fresh EXCEPT !.parts = <<2, 0>>] \in AnswerSinks
      /\ [ansSink EXCEPT !.text = @ + 1] \in AnswerSinks
      /\ [ansSink EXCEPT !.done = TRUE] \in AnswerSinks
      /\ [ansSink EXCEPT !.failed = TRUE] \in AnswerSinks
      /\ \A i \in 1..2 : ansSink.parts[i] < 2 => [ansSink EXCEPT !.parts[i] = @ + 1] \in AnswerSinks
  BY <1>0, SinkGrows DEF AnswerTypes, AnswerRequests
<1>p. /\ Model!Piece \in Nat \X Nat
      /\ Append(ansSaid, Model!Piece) \in AnswerPieces
      /\ Append(ansShown, Model!Piece) \in AnswerPieces
      /\ Append(ansBuffer, Model!Piece) \in AnswerPieces
      /\ ansShown \o ansBuffer \in AnswerPieces
      /\ <<>> \in AnswerPieces
  <2>1. Model!Piece \in Nat \X Nat
    BY <1>0 DEF AnswerTypes, AnswerRequests, AnswerSinks, Model!Piece
  <2> QED BY <2>1, <1>0, PiecesGrow DEF AnswerTypes, AnswerHistory
<1>m. /\ \A t \in Model!Tool, b \in BOOLEAN :
           Append(ansMade, [turn |-> ansTurn, parts |-> ansSink.parts[1], tool |-> t,
             ok |-> b]) \in AnswerCalls
      /\ \A b \in BOOLEAN : ansPc = "waiting" => [ansMade EXCEPT ![Len(ansMade)].ok = b] \in AnswerCalls
      /\ <<>> \in AnswerCalls
  <2>1. \A t \in Model!Tool, b \in BOOLEAN :
          [turn |-> ansTurn, parts |-> ansSink.parts[1], tool |-> t, ok |-> b] \in AnswerCall
    BY <1>0 DEF AnswerTypes, AnswerRequests, AnswerSinks, AnswerCall
  <2>2. ansMade \in AnswerCalls
    BY <1>0 DEF AnswerTypes, AnswerHistory
  <2>3. <<>> \in AnswerCalls
    BY DEF AnswerCalls
  <2> QED BY <2>1, <2>2, <2>3, <1>0, CallsGrow, CallIsDecided
<1>b. /\ ansLeft \in AnswerBounds
      /\ ansLeft.questions > 0 => [ansLeft EXCEPT !.questions = @ - 1] \in AnswerBounds
      /\ ansLeft.faults > 0 => [ansLeft EXCEPT !.faults = @ - 1] \in AnswerBounds
      /\ ansLeft.resets > 0 => [ansLeft EXCEPT !.resets = @ - 1] \in AnswerBounds
  <2>1. ansLeft \in AnswerBounds
    BY <1>0 DEF AnswerTypes, AnswerControl
  <2>2. /\ ansLeft.questions > 0 => ansLeft.questions - 1 \in 0..MaxQuestions
        /\ ansLeft.faults > 0 => ansLeft.faults - 1 \in Nat
        /\ ansLeft.resets > 0 => ansLeft.resets - 1 \in Nat
    BY <2>1, ServicesAssumption DEF AnswerBounds
  <2> QED BY <2>1, <2>2 DEF AnswerBounds
<1>w. /\ Model!WholeTurn \in BOOLEAN
      /\ \A b \in BOOLEAN, t \in Model!Tool : (ansWritten \/ (b /\ t = "write")) \in BOOLEAN
      /\ \A b \in BOOLEAN : (ansWritten \/ (b /\ ansMade[Len(ansMade)].tool = "write")) \in BOOLEAN
      /\ \A b \in BOOLEAN, t \in Model!Tool : ansRequired \ {Model!Group(t)} \in SUBSET {"files", "web"}
  BY <1>0 DEF Model!WholeTurn, AnswerTypes, AnswerProgress
<1>f. /\ Model!NoFile \in AnswerFiles
      /\ [question |-> Model!Number, turn |-> ansTurn + 1, whole |-> TRUE] \in AnswerFiles
      /\ [question |-> Model!Number, turn |-> ansTurn + 1, whole |-> FALSE] \in AnswerFiles
      /\ [question |-> Model!Number, turn |-> ansTurn, whole |-> TRUE] \in AnswerFiles
  <2>1. Model!Number \in 0..MaxQuestions
    BY <1>b, ServicesAssumption DEF AnswerBounds, Model!Number
  <2> QED
    BY <2>1, <1>0, ServicesAssumption
       DEF AnswerFiles, Model!NoFile, Model!Request, AnswerTypes, AnswerRequests
<1>1. CASE \E q \in Asked : Model!Begin(q)
  <2>0. PICK q \in Asked : Model!Begin(q)
    BY <1>1
  <2>1. AnswerProgress'
    BY <2>0, <1>q, <1>0, <1>s, <1>p, <1>m, <1>b, <1>f, <1>w DEF Model!Begin, Model!Question
  <2>2. AnswerRequests'
    BY <2>0, <1>q, <1>0, <1>s, <1>p, <1>m, <1>b, <1>f, <1>w DEF Model!Begin, Model!Question
  <2>3. AnswerHistory'
    BY <2>0, <1>q, <1>0, <1>s, <1>p, <1>m, <1>b, <1>f, <1>w DEF Model!Begin, Model!Question
  <2>4. AnswerControl'
    BY <2>0, <1>q, <1>0, <1>s, <1>p, <1>m, <1>b, <1>f, <1>w DEF Model!Begin, Model!Question
  <2> QED BY <2>1, <2>2, <2>3, <2>4
<1>2. CASE Model!Stage
  <2>1. AnswerProgress'
    BY <1>2, <1>q, <1>0, <1>s, <1>p, <1>m, <1>b, <1>f, <1>w DEF Model!Stage, Model!Request
  <2>2. AnswerRequests'
    <3>1. ansFile' \in AnswerFiles
      BY <1>2, <1>f, <1>0, Zenon DEF Model!Stage, Model!Request
    <3>2. ansTurn' \in Nat /\ ansBody' \in AnswerFiles /\ ansSink' \in AnswerSinks
      BY <1>2, <1>0 DEF Model!Stage, Model!Request
    <3>3. ansGood' \in BOOLEAN
      BY <1>2, <1>0, Zenon DEF Model!Stage, Model!Request
    <3> QED BY <3>1, <3>2, <3>3
  <2>3. AnswerHistory'
    BY <1>2, <1>q, <1>0, <1>s, <1>p, <1>m, <1>b, <1>f, <1>w DEF Model!Stage, Model!Request
  <2>4. AnswerControl'
    BY <1>2, <1>q, <1>0, <1>s, <1>p, <1>m, <1>b, <1>f, <1>w DEF Model!Stage, Model!Request
  <2> QED BY <2>1, <2>2, <2>3, <2>4
<1>3. CASE Model!StageRefused
  <2>1. AnswerProgress'
    BY <1>3, <1>q, <1>0, <1>s, <1>p, <1>m, <1>b, <1>f, <1>w DEF Model!StageRefused,
       Model!Request
  <2>2. AnswerRequests'
    <3>1. ansFile' \in AnswerFiles
      BY <1>3, <1>f, <1>0, Zenon DEF Model!StageRefused, Model!Request
    <3>2. ansTurn' \in Nat /\ ansBody' \in AnswerFiles /\ ansSink' \in AnswerSinks
      BY <1>3, <1>0 DEF Model!StageRefused, Model!Request
    <3>3. ansGood' \in BOOLEAN
      BY <1>3, <1>0, Zenon DEF Model!StageRefused, Model!Request
    <3> QED BY <3>1, <3>2, <3>3
  <2>3. AnswerHistory'
    BY <1>3, <1>q, <1>0, <1>s, <1>p, <1>m, <1>b, <1>f, <1>w DEF Model!StageRefused,
       Model!Request
  <2>4. AnswerControl'
    BY <1>3, <1>q, <1>0, <1>s, <1>p, <1>m, <1>b, <1>f, <1>w DEF Model!StageRefused,
       Model!Request
  <2> QED BY <2>1, <2>2, <2>3, <2>4
<1>4. CASE Model!NoMemory
  BY <1>4, <1>q, <1>0, <1>s, <1>p, <1>m, <1>b, <1>f, <1>w DEF Model!NoMemory
<1>5. CASE Model!NoAnswer
  BY <1>5, <1>q, <1>0, <1>s, <1>p, <1>m, <1>b, <1>f, <1>w DEF Model!NoAnswer
<1>6. CASE Model!Retry
  BY <1>6, <1>q, <1>0, <1>s, <1>p, <1>m, <1>b, <1>f, <1>w DEF Model!Retry
<1>7. CASE Model!Post
  BY <1>7, <1>q, <1>0, <1>s, <1>p, <1>m, <1>b, <1>f, <1>w DEF Model!Post
<1>8. CASE Model!Text
  BY <1>8, <1>q, <1>0, <1>s, <1>p, <1>m, <1>b, <1>f, <1>w DEF Model!Text
<1>9. CASE \E i \in 1..2 : Model!CallPart(i)
  BY <1>9, <1>q, <1>0, <1>s, <1>p, <1>m, <1>b, <1>f, <1>w DEF Model!CallPart
<1>10. CASE Model!DoneLine
  BY <1>10, <1>q, <1>0, <1>s, <1>p, <1>m, <1>b, <1>f, <1>w DEF Model!DoneLine
<1>11. CASE Model!Lose
  BY <1>11, <1>q, <1>0, <1>s, <1>p, <1>m, <1>b, <1>f, <1>w DEF Model!Lose
<1>12. CASE Model!Close
  BY <1>12, <1>q, <1>0, <1>s, <1>p, <1>m, <1>b, <1>f, <1>w DEF Model!Close
<1>13. CASE Model!Judge
  BY <1>13, <1>q, <1>0, <1>s, <1>p, <1>m, <1>b, <1>f, <1>w DEF Model!Judge
<1>14. CASE Model!Cleanup
  BY <1>14, <1>q, <1>0, <1>s, <1>p, <1>m, <1>b, <1>f, <1>w DEF Model!Cleanup
<1>15. CASE Model!TurnFailed
  BY <1>15, <1>q, <1>0, <1>s, <1>p, <1>m, <1>b, <1>f, <1>w DEF Model!TurnFailed
<1>16. CASE Model!AskAgain
  BY <1>16, <1>q, <1>0, <1>s, <1>p, <1>m, <1>b, <1>f, <1>w DEF Model!AskAgain
<1>17. CASE Model!Answered
  BY <1>17, <1>q, <1>0, <1>s, <1>p, <1>m, <1>b, <1>f, <1>w DEF Model!Answered
<1>18. CASE Model!NotEnough
  BY <1>18, <1>q, <1>0, <1>s, <1>p, <1>m, <1>b, <1>f, <1>w DEF Model!NotEnough
<1>19. CASE Model!TakeUp
  BY <1>19, <1>q, <1>0, <1>s, <1>p, <1>m, <1>b, <1>f, <1>w DEF Model!TakeUp
<1>20. CASE \E t \in Model!Tool : Model!Run(t)
  <2>0. PICK t \in Model!Tool : Model!Run(t)
    BY <1>20
  <2>1. AnswerProgress'
    BY <2>0, <1>q, <1>0, <1>s, <1>p, <1>m, <1>b, <1>f, <1>w DEF Model!Run, Model!NextRound
  <2>2. AnswerRequests'
    BY <2>0, <1>q, <1>0, <1>s, <1>p, <1>m, <1>b, <1>f, <1>w DEF Model!Run, Model!NextRound
  <2>3. AnswerHistory'
    BY <2>0, <1>q, <1>0, <1>s, <1>p, <1>m, <1>b, <1>f, <1>w DEF Model!Run, Model!NextRound
  <2>4. AnswerControl'
    BY <2>0, <1>q, <1>0, <1>s, <1>p, <1>m, <1>b, <1>f, <1>w DEF Model!Run, Model!NextRound
  <2> QED BY <2>1, <2>2, <2>3, <2>4
<1>21. CASE \E t \in Model!Tool : Model!Await(t)
  BY <1>21, <1>q, <1>0, <1>s, <1>p, <1>m, <1>b, <1>f, <1>w DEF Model!Await, Model!Take
<1>22. CASE Model!RunFailed
  BY <1>22, <1>q, <1>0, <1>s, <1>p, <1>m, <1>b, <1>f, <1>w DEF Model!RunFailed
<1>23. CASE Model!Resume
  <2>1. AnswerProgress'
    <3>1. ansWritten' \in BOOLEAN
      BY <1>23, <1>w, Zenon DEF Model!Resume, Model!NextRound
    <3>2. ansAsk' = ansAsk /\ ansRound' = ansRound + 1 /\ ansRetried' \in BOOLEAN
          /\ ansRequired' = ansRequired
      BY <1>23, Zenon DEF Model!Resume, Model!NextRound
    <3> QED BY <3>1, <3>2, <1>0
  <2>2. AnswerRequests'
    BY <1>23, <1>q, <1>0, <1>s, <1>p, <1>m, <1>b, <1>f, <1>w DEF Model!Resume, Model!NextRound
  <2>3. AnswerHistory'
    BY <1>23, <1>q, <1>0, <1>s, <1>p, <1>m, <1>b, <1>f, <1>w DEF Model!Resume, Model!NextRound
  <2>4. AnswerControl'
    BY <1>23, <1>q, <1>0, <1>s, <1>p, <1>m, <1>b, <1>f, <1>w DEF Model!Resume, Model!NextRound
  <2> QED BY <2>1, <2>2, <2>3, <2>4
<1>24. CASE Model!Dismiss
  BY <1>24, <1>q, <1>0, <1>s, <1>p, <1>m, <1>b, <1>f, <1>w DEF Model!Dismiss
<1>25. CASE Model!Reset
  BY <1>25, <1>q, <1>0, <1>s, <1>p, <1>m, <1>b, <1>f, <1>w DEF Model!Reset
<1>26. CASE UNCHANGED answerVars
  BY <1>26, <1>q, <1>0, <1>s, <1>p, <1>m, <1>b, <1>f, <1>w DEF answerVars
<1> QED
  BY <1>1, <1>2, <1>3, <1>4, <1>5, <1>6, <1>7, <1>8, <1>9, <1>10, <1>11, <1>12, <1>13, <1>14,
     <1>15, <1>16, <1>17, <1>18, <1>19, <1>20, <1>21, <1>22, <1>23, <1>24, <1>25, <1>26
     DEF Model!Next

\* The request on the card stays that of the turn.
LEMMA RequestOnCardKept == AnswerInv /\ [Model!Next]_answerVars => RequestOnCard'
<1> SUFFICES ASSUME AnswerInv, [Model!Next]_answerVars PROVE RequestOnCard'
  OBVIOUS
<1> USE DEF Model!Goto, Model!End, Model!Fault, Model!answer, Model!progress, RequestOnCard,
    Model!RequestIsOfThisTurn, Model!Tools, Model!NoFile
<1>n. /\ Model!Number \in Nat /\ ansTurn \in Nat
      /\ [ansLeft EXCEPT !.faults = @ - 1].questions = ansLeft.questions
      /\ [ansLeft EXCEPT !.resets = @ - 1].questions = ansLeft.questions
  BY ServicesAssumption DEF AnswerInv, AnswerTypes, AnswerRequests, AnswerControl,
     AnswerBounds, Model!Number
<1>0. RequestOnCard /\ (ansPc # "idle" => ansTold \in {"none", "waiting"})
  BY DEF AnswerInv, AnswerTypes, AnswerControl
<1>q. ansAsk.kind \in {"plain", "tools", "search"} /\ (ansAsk.access
      => ansAsk.kind = "tools") /\ \A q \in Asked : q.kind \in {"plain", "tools", "search"}
  BY AskedIsQuestion DEF AnswerInv, AnswerTypes, AnswerProgress, Model!Question
<1>f. ansFile = [question |-> ansFile.question, turn |-> ansFile.turn, whole |-> ansFile.whole]
  BY DEF AnswerInv, AnswerTypes, AnswerRequests, AnswerFiles
<1> USE DEF Model!Number
<1>1. CASE \E q \in Asked : Model!Begin(q)
  BY <1>1, <1>0, <1>n, <1>q DEF Model!Begin
<1>2. CASE Model!Stage
  <2>1. PICK w \in BOOLEAN :
          /\ ansFile' = [question |-> Model!Number, turn |-> ansTurn + 1, whole |-> w]
          /\ ansLeft'.questions = ansLeft.questions
    BY <1>2, <1>n, Zenon DEF Model!Stage, Model!Request
  <2>2. ansFile'.question = Model!Number /\ ansFile'.turn = ansTurn + 1
    BY <2>1
  <2>3. ansPc' = "post" /\ ansTurn' = ansTurn + 1 /\ ansTold' = ansTold /\ ansPc = "stage"
    BY <1>2 DEF Model!Stage
  <2> QED BY <2>1, <2>2, <2>3, <1>0
<1>3. CASE Model!StageRefused
  BY <1>3, <1>0, <1>n, <1>q DEF Model!StageRefused, Model!Request
<1>4. CASE Model!NoMemory
  BY <1>4, <1>0, <1>n, <1>q DEF Model!NoMemory
<1>5. CASE Model!NoAnswer
  BY <1>5, <1>0, <1>n, <1>q DEF Model!NoAnswer
<1>6. CASE Model!Retry
  BY <1>6, <1>0, <1>n, <1>q DEF Model!Retry
<1>7. CASE Model!Post
  BY <1>7, <1>0, <1>n, <1>q, <1>f DEF Model!Post
<1>8. CASE Model!Text
  BY <1>8, <1>0, <1>n, <1>q DEF Model!Text
<1>9. CASE \E i \in 1..2 : Model!CallPart(i)
  BY <1>9, <1>0, <1>n, <1>q DEF Model!CallPart
<1>10. CASE Model!DoneLine
  BY <1>10, <1>0, <1>n, <1>q DEF Model!DoneLine
<1>11. CASE Model!Lose
  BY <1>11, <1>0, <1>n, <1>q DEF Model!Lose
<1>12. CASE Model!Close
  BY <1>12, <1>0, <1>n, <1>q DEF Model!Close
<1>13. CASE Model!Judge
  BY <1>13, <1>0, <1>n, <1>q DEF Model!Judge
<1>14. CASE Model!Cleanup
  BY <1>14, <1>0, <1>n, <1>q DEF Model!Cleanup
<1>15. CASE Model!TurnFailed
  BY <1>15, <1>0, <1>n, <1>q DEF Model!TurnFailed
<1>16. CASE Model!AskAgain
  BY <1>16, <1>0, <1>n, <1>q DEF Model!AskAgain, Model!Buffering
<1>17. CASE Model!Answered
  BY <1>17, <1>0, <1>n, <1>q DEF Model!Answered
<1>18. CASE Model!NotEnough
  BY <1>18, <1>0, <1>n, <1>q DEF Model!NotEnough
<1>19. CASE Model!TakeUp
  BY <1>19, <1>0, <1>n, <1>q DEF Model!TakeUp
<1>20. CASE \E t \in Model!Tool : Model!Run(t)
  BY <1>20, <1>0, <1>n, <1>q DEF Model!Run, Model!NextRound
<1>21. CASE \E t \in Model!Tool : Model!Await(t)
  BY <1>21, <1>0, <1>n, <1>q DEF Model!Await, Model!Take
<1>22. CASE Model!RunFailed
  BY <1>22, <1>0, <1>n, <1>q DEF Model!RunFailed
<1>23. CASE Model!Resume
  BY <1>23, <1>0, <1>n, <1>q DEF Model!Resume, Model!NextRound
<1>24. CASE Model!Dismiss
  BY <1>24, <1>0, <1>n, <1>q DEF Model!Dismiss
<1>25. CASE Model!Reset
  BY <1>25, <1>0, <1>n, <1>q DEF Model!Reset
<1>26. CASE UNCHANGED answerVars
  BY <1>26, <1>0, <1>n, <1>q DEF answerVars
<1> QED
  BY <1>1, <1>2, <1>3, <1>4, <1>5, <1>6, <1>7, <1>8, <1>9, <1>10, <1>11, <1>12, <1>13, <1>14,
     <1>15, <1>16, <1>17, <1>18, <1>19, <1>20, <1>21, <1>22, <1>23, <1>24, <1>25, <1>26
     DEF Model!Next

\* Calls are taken up whole, once, one in every round.
LEMMA CallsInOrderKept == AnswerInv /\ [Model!Next]_answerVars => CallsInOrder'
<1> SUFFICES ASSUME AnswerInv, [Model!Next]_answerVars PROVE CallsInOrder'
  OBVIOUS
<1> USE DEF Model!Goto, Model!End, Model!Fault, Model!answer, Model!progress
<1>t. ansSink.parts \in [1..2 -> 0..2] /\ ansMade \in AnswerCalls /\ ansTurn \in Nat
      /\ ansRound \in Nat
  BY DEF AnswerInv, AnswerTypes, AnswerRequests, AnswerSinks, AnswerHistory, AnswerProgress
<1>0. CallsInOrder /\ MaxRounds \in Nat /\ Len(ansMade) \in Nat
  BY <1>t, ServicesAssumption DEF AnswerInv, AnswerCalls
<1>b. \A i \in 1..Len(ansMade) : ansMade[i] \in AnswerCall
  BY <1>t DEF AnswerCalls
<1>a. \A i \in 1..Len(ansMade) : ansMade[i].turn \in Nat
  BY <1>b DEF AnswerCall
<1>s. ansSink.parts[1] \in Nat /\ ansSink.parts[2] \in Nat
  BY <1>t
<1>c. ansSink' = ansSink => Model!Called' = Model!Called
  BY DEF Model!Called
<1> USE DEF CallsInOrder
<1>1. CASE \E q \in Asked : Model!Begin(q)
  <2>1. PICK q \in Asked : Model!Begin(q)
    BY <1>1
  <2>2. /\ ansMade' = <<>> /\ ansRound' = 0 /\ ansPc' \in {"post", "stage", "turn"}
        /\ ansGood' => ansSink' = [Model!Fresh EXCEPT !.parts = <<2, 0>>]
    BY <2>1, BeginLeads
  <2>3. ansGood' => \A i \in Model!Called' : ansSink'.parts[i] = 2
    <3> SUFFICES ASSUME ansGood', NEW i \in Model!Called' PROVE ansSink'.parts[i] = 2
      OBVIOUS
    <3>1. i \in 1..2 /\ \E j \in i..2 : ansSink'.parts[j] > 0
      BY DEF Model!Called
    <3> QED BY <3>1, <2>2, SearchIsCalled
  <2>4. Len(ansMade') = 0
    BY <2>2
  <2> QED BY <2>2, <2>3, <2>4, <1>0
<1>2. CASE Model!Stage
  BY <1>2, <1>0, <1>t, <1>a, <1>c DEF Model!Stage
<1>3. CASE Model!StageRefused
  BY <1>3, <1>0, <1>t, <1>a, <1>c DEF Model!StageRefused
<1>4. CASE Model!NoMemory
  BY <1>4, <1>0, <1>t, <1>a, <1>c DEF Model!NoMemory
<1>5. CASE Model!NoAnswer
  BY <1>5, <1>0, <1>t, <1>a, <1>c DEF Model!NoAnswer
<1>6. CASE Model!Retry
  BY <1>6, <1>0, <1>t, <1>a, <1>c DEF Model!Retry
<1>7. CASE Model!Post
  BY <1>7, <1>0, <1>t, <1>a, <1>c DEF Model!Post
<1>8. CASE Model!Text
  BY <1>8, <1>0, <1>t, <1>a, <1>c DEF Model!Text
<1>9. CASE \E i \in 1..2 : Model!CallPart(i)
  BY <1>9, <1>0, <1>t, <1>a, <1>c DEF Model!CallPart
<1>10. CASE Model!DoneLine
  BY <1>10, <1>0, <1>t, <1>a, <1>c DEF Model!DoneLine
<1>11. CASE Model!Lose
  BY <1>11, <1>0, <1>t, <1>a, <1>c DEF Model!Lose
<1>12. CASE Model!Close
  BY <1>12, <1>0, <1>t, <1>a, <1>c DEF Model!Close
<1>13. CASE Model!Judge
  <2>1. ansPc' \in {"cleanup", "turn"} /\ ansTurn' = ansTurn /\ ansMade' = ansMade
        /\ ansRound' = ansRound
        /\ ansSink' = ansSink
    BY <1>13 DEF Model!Judge
  <2>2. ansGood' => \A i \in Model!Called : ansSink.parts[i] = 2
    BY <1>13 DEF Model!Judge, Model!WholeTurn
  <2>3. ansPc = "judge"
    BY <1>13 DEF Model!Judge
  <2> QED BY <2>1, <2>2, <2>3, <1>0, <1>c
<1>14. CASE Model!Cleanup
  BY <1>14, <1>0, <1>t, <1>a, <1>c DEF Model!Cleanup
<1>15. CASE Model!TurnFailed
  BY <1>15, <1>0, <1>t, <1>a, <1>c DEF Model!TurnFailed
<1>16. CASE Model!AskAgain
  BY <1>16, <1>0, <1>t, <1>a, <1>c DEF Model!AskAgain
<1>17. CASE Model!Answered
  BY <1>17, <1>0, <1>t, <1>a, <1>c DEF Model!Answered
<1>18. CASE Model!NotEnough
  BY <1>18, <1>0, <1>t, <1>a, <1>c DEF Model!NotEnough
<1>19. CASE Model!TakeUp
  BY <1>19, <1>0, <1>t, <1>a, <1>c, <1>s DEF Model!TakeUp, Model!Called, Model!Tools
<1>20. CASE \E t \in Model!Tool : Model!Run(t)
  <2>1. PICK t \in Model!Tool : Model!Run(t)
    BY <1>20
  <2>2. PICK b \in BOOLEAN :
          ansMade' = Append(ansMade, [turn |-> ansTurn, parts |-> ansSink.parts[1], tool |-> t,
            ok |-> b])
    BY <2>1 DEF Model!Run
  <2>3. ansPc = "tool" /\ ansPc' = "stage" /\ ansTurn' = ansTurn /\ ansRound' = ansRound + 1
    BY <2>1 DEF Model!Run, Model!NextRound
  <2> QED BY <2>2, <2>3, <1>0, <1>t, <1>a, <1>s, CallAdded
<1>21. CASE \E t \in Model!Tool : Model!Await(t)
  <2>1. PICK t \in Model!Tool : Model!Await(t)
    BY <1>21
  <2>2. ansMade' = Append(ansMade, [turn |-> ansTurn, parts |-> ansSink.parts[1], tool |-> t,
        ok |-> FALSE])
    BY <2>1 DEF Model!Await, Model!Take
  <2>3. ansPc = "tool" /\ ansPc' = "waiting" /\ ansTurn' = ansTurn /\ ansRound' = ansRound
    BY <2>1 DEF Model!Await
  <2> QED BY <2>2, <2>3, <1>0, <1>t, <1>a, <1>s, CallAdded
<1>22. CASE Model!RunFailed
  BY <1>22, <1>0, <1>t, <1>a, <1>c DEF Model!RunFailed
<1>23. CASE Model!Resume
  <2>1. PICK b \in BOOLEAN : ansMade' = [ansMade EXCEPT ![Len(ansMade)].ok = b]
    BY <1>23 DEF Model!Resume
  <2>2. ansMade # <<>> /\ ansPc = "waiting" /\ ansPc' = "stage" /\ ansTurn' = ansTurn
        /\ ansRound' = ansRound + 1
    BY <1>23, <1>0, <1>t DEF Model!Resume, Model!NextRound, AnswerCalls
  <2>3. /\ Len(ansMade') = Len(ansMade)
        /\ \A i \in 1..Len(ansMade) : ansMade'[i].turn = ansMade[i].turn
           /\ ansMade'[i].parts = ansMade[i].parts
    BY <2>1, <2>2, <1>t, CallIsDecided
  <2> QED BY <2>2, <2>3, <1>0, <1>t, <1>a
<1>24. CASE Model!Dismiss
  BY <1>24, <1>0, <1>t, <1>a, <1>c DEF Model!Dismiss
<1>25. CASE Model!Reset
  BY <1>25, <1>0, <1>t, <1>a, <1>c DEF Model!Reset
<1>26. CASE UNCHANGED answerVars
  BY <1>26, <1>0, <1>t, <1>a, <1>c DEF answerVars
<1> QED
  BY <1>1, <1>2, <1>3, <1>4, <1>5, <1>6, <1>7, <1>8, <1>9, <1>10, <1>11, <1>12, <1>13, <1>14,
     <1>15, <1>16, <1>17, <1>18, <1>19, <1>20, <1>21, <1>22, <1>23, <1>24, <1>25, <1>26
     DEF Model!Next

\* What is no longer required of the calls to come was met by one that was made.
LEMMA RequiredWasMadeKept == AnswerInv /\ [Model!Next]_answerVars => RequiredWasMade'
<1> SUFFICES ASSUME AnswerInv, [Model!Next]_answerVars PROVE RequiredWasMade'
  OBVIOUS
<1> USE DEF Model!Goto, Model!End, Model!Fault, Model!answer, Model!progress
<1>0. /\ RequiredWasMade /\ ansMade \in AnswerCalls /\ Len(ansMade) \in Nat
      /\ ansPc = "waiting" => ansMade # <<>>
  BY DEF AnswerInv, AnswerTypes, AnswerHistory, AnswerCalls, CallsInOrder, AnswerProgress
<1> USE DEF RequiredWasMade
<1>1. CASE \E q \in Asked : Model!Begin(q)
  BY <1>1, <1>0 DEF Model!Begin
<1>2. CASE Model!Stage
  BY <1>2, <1>0 DEF Model!Stage
<1>3. CASE Model!StageRefused
  BY <1>3, <1>0 DEF Model!StageRefused
<1>4. CASE Model!NoMemory
  BY <1>4, <1>0 DEF Model!NoMemory
<1>5. CASE Model!NoAnswer
  BY <1>5, <1>0 DEF Model!NoAnswer
<1>6. CASE Model!Retry
  BY <1>6, <1>0 DEF Model!Retry
<1>7. CASE Model!Post
  BY <1>7, <1>0 DEF Model!Post
<1>8. CASE Model!Text
  BY <1>8, <1>0 DEF Model!Text
<1>9. CASE \E i \in 1..2 : Model!CallPart(i)
  BY <1>9, <1>0 DEF Model!CallPart
<1>10. CASE Model!DoneLine
  BY <1>10, <1>0 DEF Model!DoneLine
<1>11. CASE Model!Lose
  BY <1>11, <1>0 DEF Model!Lose
<1>12. CASE Model!Close
  BY <1>12, <1>0 DEF Model!Close
<1>13. CASE Model!Judge
  BY <1>13, <1>0 DEF Model!Judge
<1>14. CASE Model!Cleanup
  BY <1>14, <1>0 DEF Model!Cleanup
<1>15. CASE Model!TurnFailed
  BY <1>15, <1>0 DEF Model!TurnFailed
<1>16. CASE Model!AskAgain
  BY <1>16, <1>0 DEF Model!AskAgain
<1>17. CASE Model!Answered
  BY <1>17, <1>0 DEF Model!Answered
<1>18. CASE Model!NotEnough
  BY <1>18, <1>0 DEF Model!NotEnough
<1>19. CASE Model!TakeUp
  BY <1>19, <1>0 DEF Model!TakeUp
<1>20. CASE \E t \in Model!Tool : Model!Run(t)
  <2>1. PICK t \in Model!Tool : Model!Run(t)
    BY <1>20
  <2>2. PICK b \in BOOLEAN :
          /\ ansMade' = Append(ansMade, [turn |-> ansTurn, parts |-> ansSink.parts[1],
             tool |-> t, ok |-> b])
          /\ ansWritten' = (ansWritten \/ (b /\ t = "write"))
    BY <2>1, Zenon DEF Model!Run
  <2>3. ansPc = "tool" /\ ansAsk' = ansAsk /\ ansRequired' = ansRequired \ {Model!Group(t)}
    BY <2>1 DEF Model!Run
  <2>4. /\ Len(ansMade') = Len(ansMade) + 1
        /\ \A i \in 1..Len(ansMade) : ansMade'[i] = ansMade[i]
        /\ ansMade'[Len(ansMade) + 1] = [turn |-> ansTurn, parts |-> ansSink.parts[1],
           tool |-> t, ok |-> b]
    BY <2>2, <1>0, CallAdded DEF AnswerInv, AnswerTypes, AnswerRequests, AnswerSinks
  <2>a. ansMade'[Len(ansMade) + 1].tool = t /\ (b => ansMade'[Len(ansMade) + 1].ok)
    BY <2>4
  <2>5. \A g \in ansAsk.groups \ ansRequired' : \E i \in 1..Len(ansMade') :
        Model!Group(ansMade'[i].tool) = g
    BY <2>3, <2>4, <2>a, <1>0
  <2>6. ansWritten' => \E i \in 1..Len(ansMade') : ansMade'[i].tool = "write" /\ ansMade'[i].ok
    <3>1. CASE ansWritten
      BY <3>1, <2>3, <2>4, <1>0
    <3>2. CASE b /\ t = "write"
      BY <3>2, <2>4, <2>a, <1>0
    <3> QED BY <3>1, <3>2, <2>2
  <2> QED BY <2>3, <2>5, <2>6
<1>21. CASE \E t \in Model!Tool : Model!Await(t)
  <2>1. PICK t \in Model!Tool : Model!Await(t)
    BY <1>21
  <2>2. /\ ansMade' = Append(ansMade, [turn |-> ansTurn, parts |-> ansSink.parts[1],
           tool |-> t, ok |-> FALSE])
        /\ ansRequired' = ansRequired \ {Model!Group(t)}
    BY <2>1 DEF Model!Await, Model!Take
  <2>3. ansPc = "tool" /\ ansAsk' = ansAsk /\ ansWritten' = ansWritten
    BY <2>1 DEF Model!Await
  <2>4. /\ Len(ansMade') = Len(ansMade) + 1
        /\ \A i \in 1..Len(ansMade) : ansMade'[i] = ansMade[i]
        /\ ansMade'[Len(ansMade) + 1].tool = t
    BY <2>2, <1>0, CallAdded DEF AnswerInv, AnswerTypes, AnswerRequests, AnswerSinks
  <2>5. \A g \in ansAsk.groups \ ansRequired' : \E i \in 1..Len(ansMade') :
        Model!Group(ansMade'[i].tool) = g
    BY <2>2, <2>3, <2>4, <1>0
  <2>6. ansWritten' => \E i \in 1..Len(ansMade') : ansMade'[i].tool = "write" /\ ansMade'[i].ok
    BY <2>3, <2>4, <1>0
  <2> QED BY <2>3, <2>5, <2>6
<1>22. CASE Model!RunFailed
  BY <1>22, <1>0 DEF Model!RunFailed
<1>23. CASE Model!Resume
  <2>1. PICK b \in BOOLEAN :
          /\ ansMade' = [ansMade EXCEPT ![Len(ansMade)].ok = b]
          /\ ansWritten' = (ansWritten \/ (b /\ ansMade[Len(ansMade)].tool = "write"))
    BY <1>23, Zenon DEF Model!Resume
  <2>2. /\ ansMade # <<>> /\ ansPc = "waiting" /\ ansAsk' = ansAsk /\ ansRequired' = ansRequired
        /\ Len(ansMade) \in 1..Len(ansMade)
    BY <1>23, <1>0 DEF Model!Resume, AnswerCalls
  <2>3. /\ Len(ansMade') = Len(ansMade)
        /\ \A i \in 1..Len(ansMade) : ansMade'[i].tool = ansMade[i].tool
        /\ \A i \in 1..Len(ansMade) : i # Len(ansMade) => ansMade'[i] = ansMade[i]
        /\ b => ansMade'[Len(ansMade)].ok
    BY <2>1, <2>2, <1>0, CallIsDecided
  <2>4. ~ansMade[Len(ansMade)].ok
    BY <2>2 DEF AnswerInv, CallsInOrder
  <2>5. \A g \in ansAsk.groups \ ansRequired' : \E i \in 1..Len(ansMade') :
        Model!Group(ansMade'[i].tool) = g
    BY <2>2, <2>3, <1>0
  <2>6. ansWritten' => \E i \in 1..Len(ansMade') : ansMade'[i].tool = "write" /\ ansMade'[i].ok
    <3>1. CASE ansWritten
      BY <3>1, <2>2, <2>3, <2>4, <1>0
    <3>2. CASE b /\ ansMade[Len(ansMade)].tool = "write"
      BY <3>2, <2>2, <2>3, <1>0
    <3> QED BY <3>1, <3>2, <2>1
  <2> QED BY <2>2, <2>5, <2>6
<1>24. CASE Model!Dismiss
  BY <1>24, <1>0 DEF Model!Dismiss
<1>25. CASE Model!Reset
  BY <1>25, <1>0 DEF Model!Reset
<1>26. CASE UNCHANGED answerVars
  BY <1>26, <1>0 DEF answerVars
<1> QED
  BY <1>1, <1>2, <1>3, <1>4, <1>5, <1>6, <1>7, <1>8, <1>9, <1>10, <1>11, <1>12, <1>13, <1>14,
     <1>15, <1>16, <1>17, <1>18, <1>19, <1>20, <1>21, <1>22, <1>23, <1>24, <1>25, <1>26
     DEF Model!Next

\* What is shown or kept back stays what was said.
LEMMA TextIsShownKept == AnswerInv /\ [Model!Next]_answerVars => TextIsShown'
<1> SUFFICES ASSUME AnswerInv, [Model!Next]_answerVars PROVE TextIsShown'
  OBVIOUS
<1> USE DEF Model!Goto, Model!End, Model!Fault, Model!answer, Model!progress, Model!Buffering
<1>0. /\ TextIsShown /\ ansRound \in Nat
      /\ ansSaid \in AnswerPieces /\ ansShown \in AnswerPieces /\ ansBuffer \in AnswerPieces
  BY DEF AnswerInv, AnswerTypes, AnswerHistory, AnswerProgress
<1>p. Model!Piece \in Nat \X Nat
  BY DEF AnswerInv, AnswerTypes, AnswerRequests, AnswerSinks, Model!Piece
<1>a. /\ Append(ansBuffer, Model!Piece) # <<>>
      /\ ansBuffer = <<>> => ansShown \o ansBuffer = ansShown
      /\ ansShown = <<>> => ansShown \o ansBuffer = ansBuffer
  BY <1>0, <1>p, PiecesGrow
<1> USE DEF TextIsShown
<1>1. CASE \E q \in Asked : Model!Begin(q)
  BY <1>1, <1>0, <1>a DEF Model!Begin, Model!Called, Model!Fresh
<1>2. CASE Model!Stage
  BY <1>2, <1>0, <1>a DEF Model!Stage
<1>3. CASE Model!StageRefused
  BY <1>3, <1>0, <1>a DEF Model!StageRefused
<1>4. CASE Model!NoMemory
  BY <1>4, <1>0, <1>a DEF Model!NoMemory
<1>5. CASE Model!NoAnswer
  BY <1>5, <1>0, <1>a DEF Model!NoAnswer
<1>6. CASE Model!Retry
  BY <1>6, <1>0, <1>a DEF Model!Retry
<1>7. CASE Model!Post
  BY <1>7, <1>0, <1>a DEF Model!Post
<1>8. CASE Model!Text
  BY <1>8, <1>0, <1>a DEF Model!Text
<1>9. CASE \E i \in 1..2 : Model!CallPart(i)
  BY <1>9, <1>0, <1>a DEF Model!CallPart
<1>10. CASE Model!DoneLine
  BY <1>10, <1>0, <1>a DEF Model!DoneLine
<1>11. CASE Model!Lose
  BY <1>11, <1>0, <1>a DEF Model!Lose
<1>12. CASE Model!Close
  BY <1>12, <1>0, <1>a DEF Model!Close
<1>13. CASE Model!Judge
  BY <1>13, <1>0, <1>a DEF Model!Judge, Model!WholeTurn
<1>14. CASE Model!Cleanup
  BY <1>14, <1>0, <1>a DEF Model!Cleanup
<1>15. CASE Model!TurnFailed
  BY <1>15, <1>0, <1>a DEF Model!TurnFailed
<1>16. CASE Model!AskAgain
  BY <1>16, <1>0, <1>a DEF Model!AskAgain
<1>17. CASE Model!Answered
  BY <1>17, <1>0, <1>a DEF Model!Answered
<1>18. CASE Model!NotEnough
  BY <1>18, <1>0, <1>a DEF Model!NotEnough
<1>19. CASE Model!TakeUp
  BY <1>19, <1>0, <1>a DEF Model!TakeUp
<1>20. CASE \E t \in Model!Tool : Model!Run(t)
  BY <1>20, <1>0, <1>a DEF Model!Run, Model!NextRound
<1>21. CASE \E t \in Model!Tool : Model!Await(t)
  BY <1>21, <1>0, <1>a DEF Model!Await, Model!Take
<1>22. CASE Model!RunFailed
  BY <1>22, <1>0, <1>a DEF Model!RunFailed
<1>23. CASE Model!Resume
  BY <1>23, <1>0, <1>a DEF Model!Resume, Model!NextRound
<1>24. CASE Model!Dismiss
  BY <1>24, <1>0, <1>a DEF Model!Dismiss
<1>25. CASE Model!Reset
  BY <1>25, <1>0, <1>a DEF Model!Reset
<1>26. CASE UNCHANGED answerVars
  BY <1>26, <1>0, <1>a DEF answerVars
<1> QED
  BY <1>1, <1>2, <1>3, <1>4, <1>5, <1>6, <1>7, <1>8, <1>9, <1>10, <1>11, <1>12, <1>13, <1>14,
     <1>15, <1>16, <1>17, <1>18, <1>19, <1>20, <1>21, <1>22, <1>23, <1>24, <1>25, <1>26
     DEF Model!Next

\* Pieces are shown and kept back in the order they were said in.
LEMMA TextInOrderKept == AnswerInv /\ [Model!Next]_answerVars => TextInOrder'
<1> SUFFICES ASSUME AnswerInv, [Model!Next]_answerVars PROVE TextInOrder'
  OBVIOUS
<1> USE DEF Model!Goto, Model!End, Model!Fault, Model!answer, Model!progress
<1>0. /\ TextInOrder /\ ansTurn \in Nat /\ ansSink.text \in Nat
      /\ ansShown \in AnswerPieces /\ ansBuffer \in AnswerPieces
      /\ ansPc = "turn" => ansBuffer = <<>> \/ ansShown = <<>>
  BY DEF AnswerInv, AnswerTypes, AnswerHistory, AnswerRequests, AnswerSinks, TextIsShown
<1>l. /\ Len(ansShown) \in Nat /\ Len(ansBuffer) \in Nat
      /\ \A i \in 1..Len(ansShown) : ansShown[i] \in Nat \X Nat
      /\ \A i \in 1..Len(ansBuffer) : ansBuffer[i] \in Nat \X Nat
  BY <1>0 DEF AnswerPieces
<1>m. /\ \A i \in 1..Len(ansShown) : ansShown[i][1] \in Nat /\ ansShown[i][2] \in Nat
      /\ \A i \in 1..Len(ansBuffer) : ansBuffer[i][1] \in Nat /\ ansBuffer[i][2] \in Nat
  BY <1>l
<1>p. Model!Piece = <<ansTurn, ansSink.text + 1>> /\ Model!Piece \in Nat \X Nat
  BY <1>0 DEF Model!Piece
<1>a. /\ ansBuffer = <<>> => ansShown \o ansBuffer = ansShown
      /\ ansShown = <<>> => ansShown \o ansBuffer = ansBuffer
  BY <1>0, <1>p, PiecesGrow
<1>e. InOrder(<<>>) /\ Len(<<>>) = 0
  BY DEF InOrder
<1> USE DEF TextInOrder
<1>1. CASE \E q \in Asked : Model!Begin(q)
  <2>1. PICK q \in Asked : Model!Begin(q)
    BY <1>1
  <2>2. ansShown' = <<>> /\ ansBuffer' = <<>> /\ ansPc' \in {"post", "stage", "turn"}
    BY <2>1, BeginLeads DEF Model!Begin
  <2> QED BY <2>2, <1>e
<1>2. CASE Model!Stage
  BY <1>2, <1>0, <1>a, <1>e, <1>m DEF Model!Stage
<1>3. CASE Model!StageRefused
  BY <1>3, <1>0, <1>a, <1>e, <1>m DEF Model!StageRefused
<1>4. CASE Model!NoMemory
  BY <1>4, <1>0, <1>a, <1>e DEF Model!NoMemory
<1>5. CASE Model!NoAnswer
  BY <1>5, <1>0, <1>a, <1>e DEF Model!NoAnswer
<1>6. CASE Model!Retry
  BY <1>6, <1>0, <1>a, <1>e DEF Model!Retry
<1>7. CASE Model!Post
  BY <1>7, <1>0, <1>a, <1>e DEF Model!Post, Model!Fresh, PiecesOf
<1>8. CASE Model!Text
  <2>1. /\ ansPc = "stream" /\ ansPc' = "stream" /\ ansTurn' = ansTurn
        /\ ansSink'.text = ansSink.text + 1
        /\ \/ ansBuffer' = Append(ansBuffer, Model!Piece) /\ ansShown' = ansShown
           \/ ansShown' = Append(ansShown, Model!Piece) /\ ansBuffer' = ansBuffer
    BY <1>8 DEF Model!Text, AnswerInv, AnswerTypes, AnswerRequests, AnswerSinks
  <2>2. PiecesOf(ansShown, ansTurn, ansSink.text) /\ PiecesOf(ansBuffer, ansTurn, ansSink.text)
        /\ InOrder(ansShown) /\ InOrder(ansBuffer)
    BY <2>1, <1>0
  <2>3. /\ InOrder(ansShown') /\ InOrder(ansBuffer')
        /\ PiecesOf(ansShown', ansTurn, ansSink.text + 1)
        /\ PiecesOf(ansBuffer', ansTurn, ansSink.text + 1)
    BY <2>1, <2>2, <1>0, PieceIsLater DEF Model!Piece
  <2>4. \A s : PiecesOf(s, ansTurn, ansSink.text + 1)
        => \A i \in 1..Len(s) : s[i][1] < ansTurn \/ s[i][1] = ansTurn
    BY DEF PiecesOf
  <2>5. /\ \A i \in 1..Len(ansShown') : ansShown'[i][1] < ansTurn \/ ansShown'[i][1] = ansTurn
        /\ \A i \in 1..Len(ansBuffer') : ansBuffer'[i][1] < ansTurn
           \/ ansBuffer'[i][1] = ansTurn
    BY <2>3, <2>4
  <2>7. /\ \A i \in 1..Len(ansShown') : ansShown'[i] \in Nat \X Nat
        /\ \A i \in 1..Len(ansBuffer') : ansBuffer'[i] \in Nat \X Nat
    <3>0. Append(ansShown, Model!Piece) \in AnswerPieces /\ Append(ansBuffer,
          Model!Piece) \in AnswerPieces
      BY <1>0, <1>p, PiecesGrow
    <3>1. ansShown' \in AnswerPieces /\ ansBuffer' \in AnswerPieces
      BY <2>1, <1>0, <3>0
    <3> QED BY <3>1 DEF AnswerPieces
  <2>6. /\ \A i \in 1..Len(ansShown') : ansShown'[i][1] <= ansTurn
        /\ \A i \in 1..Len(ansBuffer') : ansBuffer'[i][1] <= ansTurn
    <3>1. /\ \A i \in 1..Len(ansShown') : ansShown'[i][1] \in Nat
          /\ \A i \in 1..Len(ansBuffer') : ansBuffer'[i][1] \in Nat
      BY <2>7
    <3> QED BY <3>1, <2>5, <1>0
  <2> QED BY <2>1, <2>3, <2>6
<1>9. CASE \E i \in 1..2 : Model!CallPart(i)
  BY <1>9, <1>0, <1>a, <1>e DEF Model!CallPart
<1>10. CASE Model!DoneLine
  BY <1>10, <1>0, <1>a, <1>e DEF Model!DoneLine
<1>11. CASE Model!Lose
  BY <1>11, <1>0, <1>a, <1>e DEF Model!Lose
<1>12. CASE Model!Close
  BY <1>12, <1>0, <1>a, <1>e DEF Model!Close
<1>13. CASE Model!Judge
  BY <1>13, <1>0, <1>a, <1>e DEF Model!Judge
<1>14. CASE Model!Cleanup
  BY <1>14, <1>0, <1>a, <1>e DEF Model!Cleanup
<1>15. CASE Model!TurnFailed
  BY <1>15, <1>0, <1>a, <1>e DEF Model!TurnFailed
<1>16. CASE Model!AskAgain
  BY <1>16, <1>0, <1>a, <1>e DEF Model!AskAgain
<1>17. CASE Model!Answered
  BY <1>17, <1>0, <1>a, <1>e DEF Model!Answered
<1>18. CASE Model!NotEnough
  BY <1>18, <1>0, <1>a, <1>e DEF Model!NotEnough
<1>19. CASE Model!TakeUp
  BY <1>19, <1>0, <1>a, <1>e DEF Model!TakeUp
<1>20. CASE \E t \in Model!Tool : Model!Run(t)
  BY <1>20, <1>0, <1>a, <1>e DEF Model!Run, Model!NextRound
<1>21. CASE \E t \in Model!Tool : Model!Await(t)
  BY <1>21, <1>0, <1>a, <1>e DEF Model!Await, Model!Take
<1>22. CASE Model!RunFailed
  BY <1>22, <1>0, <1>a, <1>e DEF Model!RunFailed
<1>23. CASE Model!Resume
  BY <1>23, <1>0, <1>a, <1>e DEF Model!Resume, Model!NextRound
<1>24. CASE Model!Dismiss
  BY <1>24, <1>0, <1>a, <1>e DEF Model!Dismiss
<1>25. CASE Model!Reset
  BY <1>25, <1>0, <1>a, <1>e DEF Model!Reset
<1>26. CASE UNCHANGED answerVars
  BY <1>26, <1>0, <1>a, <1>e DEF answerVars
<1> QED
  BY <1>1, <1>2, <1>3, <1>4, <1>5, <1>6, <1>7, <1>8, <1>9, <1>10, <1>11, <1>12, <1>13, <1>14,
     <1>15, <1>16, <1>17, <1>18, <1>19, <1>20, <1>21, <1>22, <1>23, <1>24, <1>25, <1>26
     DEF Model!Next

\* Success is told by Answered alone, and stays told of the same answer.
LEMMA OkIsAnswered ==
  ASSUME AnswerInv, [Model!Next]_answerVars, ansTold' = "ok"
  PROVE  Model!Answered \/ UNCHANGED <<ansAsk, ansShown, ansSaid, ansMade, ansTold>>
<1>0. /\ ansPc # "idle" => ansTold # "ok"
      /\ ansTold' = ansTold => ansTold = "ok"
  BY DEF AnswerInv, AnswerTypes, AnswerControl
<1> USE DEF Model!Goto, Model!End, Model!Fault, Model!answer, Model!progress
<1>1. CASE \E q \in Asked : Model!Begin(q)
  BY <1>1, <1>0 DEF Model!Begin
<1>2. CASE Model!Stage
  BY <1>2, <1>0 DEF Model!Stage
<1>3. CASE Model!StageRefused
  BY <1>3, <1>0 DEF Model!StageRefused
<1>4. CASE Model!NoMemory
  BY <1>4, <1>0 DEF Model!NoMemory
<1>5. CASE Model!NoAnswer
  BY <1>5, <1>0 DEF Model!NoAnswer
<1>6. CASE Model!Retry
  BY <1>6, <1>0 DEF Model!Retry
<1>7. CASE Model!Post
  BY <1>7, <1>0 DEF Model!Post
<1>8. CASE Model!Text
  BY <1>8, <1>0 DEF Model!Text
<1>9. CASE \E i \in 1..2 : Model!CallPart(i)
  BY <1>9, <1>0 DEF Model!CallPart
<1>10. CASE Model!DoneLine
  BY <1>10, <1>0 DEF Model!DoneLine
<1>11. CASE Model!Lose
  BY <1>11, <1>0 DEF Model!Lose
<1>12. CASE Model!Close
  BY <1>12, <1>0 DEF Model!Close
<1>13. CASE Model!Judge
  BY <1>13, <1>0 DEF Model!Judge
<1>14. CASE Model!Cleanup
  BY <1>14, <1>0 DEF Model!Cleanup
<1>15. CASE Model!TurnFailed
  BY <1>15, <1>0 DEF Model!TurnFailed
<1>16. CASE Model!AskAgain
  BY <1>16, <1>0 DEF Model!AskAgain
<1>17. CASE Model!Answered
  BY <1>17
<1>18. CASE Model!NotEnough
  BY <1>18, <1>0 DEF Model!NotEnough
<1>19. CASE Model!TakeUp
  BY <1>19, <1>0 DEF Model!TakeUp
<1>20. CASE \E t \in Model!Tool : Model!Run(t)
  BY <1>20, <1>0 DEF Model!Run, Model!NextRound
<1>21. CASE \E t \in Model!Tool : Model!Await(t)
  BY <1>21, <1>0 DEF Model!Await
<1>22. CASE Model!RunFailed
  BY <1>22, <1>0 DEF Model!RunFailed
<1>23. CASE Model!Resume
  BY <1>23, <1>0 DEF Model!Resume, Model!NextRound
<1>24. CASE Model!Dismiss
  BY <1>24, <1>0 DEF Model!Dismiss
<1>25. CASE Model!Reset
  BY <1>25, <1>0 DEF Model!Reset
<1>26. CASE UNCHANGED answerVars
  BY <1>26, <1>0 DEF answerVars
<1> QED
  BY <1>1, <1>2, <1>3, <1>4, <1>5, <1>6, <1>7, <1>8, <1>9, <1>10, <1>11, <1>12, <1>13, <1>14,
     <1>15, <1>16, <1>17, <1>18, <1>19, <1>20, <1>21, <1>22, <1>23, <1>24, <1>25, <1>26
     DEF Model!Next

\* What is answered is whole and was met.
LEMMA AnsweredIsWhole ==
  ASSUME AnswerInv, Model!Answered
  PROVE  (Model!SuccessIsWhole /\ Model!RequirementsAreMet)'
<1>1. /\ ansPc = "turn" /\ ansGood /\ Model!Enough
      /\ UNCHANGED <<ansAsk, ansShown, ansSaid, ansMade>>
  BY DEF Model!Answered, Model!answer
<1>2. ansBuffer = <<>> /\ ansSaid = ansShown
  BY <1>1 DEF AnswerInv, TextIsShown, Model!Enough
<1>3. Model!SuccessIsWhole'
  BY <1>1, <1>2 DEF Model!SuccessIsWhole
<1>4. Len(ansMade) = ansRound /\ ansRound \in Nat /\ ansRequired = {}
  BY <1>1 DEF AnswerInv, CallsInOrder, AnswerTypes, AnswerProgress, Model!Enough
<1>5. /\ \A g \in ansAsk.groups : \E i \in 1..Len(ansMade) : Model!Group(ansMade[i].tool) = g
      /\ ansWritten => \E i \in 1..Len(ansMade) : ansMade[i].tool = "write" /\ ansMade[i].ok
  BY <1>1, <1>4 DEF AnswerInv, RequiredWasMade
<1>6. ansAsk.access => 1 \in 1..Len(ansMade)
  BY <1>1, <1>4 DEF Model!Enough, Model!Buffering
<1> DEFINE calls == {ansMade[i] : i \in 1..Len(ansMade)}
<1>7. ansAsk.groups \subseteq {Model!Group(c.tool) : c \in calls}
  BY <1>5
<1>8. ansAsk.access => calls # {}
  BY <1>6
<1>9. ansAsk.write => \E c \in calls : c.tool = "write" /\ c.ok
  BY <1>1, <1>5 DEF Model!Enough
<1>10. Model!RequirementsAreMet'
  BY <1>1, <1>7, <1>8, <1>9 DEF Model!RequirementsAreMet
<1> QED BY <1>3, <1>10

\* Every step keeps the invariant.
LEMMA AnswerInvKept == AnswerInv /\ [Model!Next]_answerVars => AnswerInv'
<1> SUFFICES ASSUME AnswerInv, [Model!Next]_answerVars PROVE AnswerInv'
  OBVIOUS
<1>1. (Model!SuccessIsWhole /\ Model!RequirementsAreMet)'
  <2>1. CASE ansTold' # "ok"
    BY <2>1 DEF Model!SuccessIsWhole, Model!RequirementsAreMet
  <2>2. CASE UNCHANGED <<ansAsk, ansShown, ansSaid, ansMade, ansTold>>
    BY <2>2 DEF AnswerInv, Model!SuccessIsWhole, Model!RequirementsAreMet
  <2> QED BY <2>1, <2>2, OkIsAnswered, AnsweredIsWhole
<1> QED
  BY <1>1, AnswerTypesKept, TextIsShownKept, TextInOrderKept, CallsInOrderKept,
     RequiredWasMadeKept,
     RequestOnCardKept DEF AnswerInv

\* Before the first question there is no answer.
LEMMA InitAnswer == ServicesInit => AnswerInv
<1> SUFFICES ASSUME ServicesInit PROVE AnswerInv
  OBVIOUS
<1>1. Model!Init
  BY DEF ServicesInit
<1>2. /\ ansPc = "idle" /\ ansTold = "none" /\ ansBuffer = <<>> /\ ansShown = <<>>
      /\ ansSaid = <<>>
      /\ ansMade = <<>> /\ ansRound = 0 /\ ansTurn = 0 /\ ansSink = Model!Fresh
      /\ ansAsk = [kind |-> "plain", access |-> FALSE, write |-> FALSE, groups |-> {}]
      /\ ansFile \in {Model!NoFile, Model!Stale} /\ ansBody = Model!NoFile
      /\ ansLeft = [questions |-> MaxQuestions, faults |-> Few, resets |-> Few]
  BY <1>1 DEF Model!Init
<1>3. AnswerProgress
  <2>1. ansAsk \in Asked
    BY <1>2 DEF Asked
  <2> QED BY <2>1, <1>1, AskedIsQuestion DEF AnswerProgress, Model!Init
<1>4. AnswerRequests
  <2>1. Model!NoFile \in AnswerFiles /\ Model!Stale \in AnswerFiles
    BY ServicesAssumption DEF AnswerFiles, Model!NoFile, Model!Stale
  <2>2. Model!Fresh \in AnswerSinks
    <3>1. <<0, 0>> \in [1..2 -> 0..2]
      OBVIOUS
    <3> QED BY <3>1 DEF Model!Fresh, AnswerSinks
  <2>3. ansGood \in BOOLEAN
    BY <1>1 DEF Model!Init
  <2> QED BY <1>2, <2>1, <2>2, <2>3 DEF AnswerRequests
<1>5. AnswerHistory
  BY <1>2 DEF AnswerHistory, AnswerPieces, AnswerCalls
<1>6. AnswerControl
  <2>1. ansLeft \in AnswerBounds
    BY <1>2, ServicesAssumption DEF AnswerBounds
  <2> QED BY <1>2, <2>1 DEF AnswerControl
<1>7. TextIsShown
  BY <1>2 DEF TextIsShown, Model!Buffering
<1>8. TextInOrder
  BY <1>2 DEF TextInOrder, InOrder
<1>9. CallsInOrder
  <2>1. Len(ansMade) = 0 /\ MaxRounds \in Nat
    BY <1>2, ServicesAssumption
  <2> QED BY <1>2, <2>1 DEF CallsInOrder
<1>10. RequiredWasMade /\ RequestOnCard /\ Model!SuccessIsWhole /\ Model!RequirementsAreMet
  BY <1>2 DEF RequiredWasMade, RequestOnCard, Model!RequestIsOfThisTurn, Model!SuccessIsWhole,
     Model!RequirementsAreMet
<1> QED BY <1>3, <1>4, <1>5, <1>6, <1>7, <1>8, <1>9, <1>10 DEF AnswerInv, AnswerTypes

\* The invariant says all of the property.
LEMMA AnswerIsWhole == AnswerInv => AnswersAreWhole
<1> SUFFICES ASSUME AnswerInv PROVE AnswersAreWhole
  OBVIOUS
<1>1. Model!SuccessIsWhole /\ Model!RequirementsAreMet /\ Model!RequestIsOfThisTurn
  BY DEF AnswerInv, RequestOnCard
<1>2. Model!ShownInOrder
  BY DEF AnswerInv, TextInOrder, InOrder, Model!ShownInOrder
<1>3. Model!CallsAreWhole
  BY DEF AnswerInv, CallsInOrder, Model!CallsAreWhole
<1>4. Model!NoRequestStays
  <2> SUFFICES ASSUME ansPc \in {"turn", "tool", "waiting"} \/ ansTold \in {"ok", "failed"},
                      ansTurn > (CASE ansAsk.kind = "tools" -> 0 [] ansAsk.kind = "search" -> 1
                                   [] OTHER -> ansTurn)
               PROVE  ansFile = Model!NoFile
    BY DEF Model!NoRequestStays
  <2>1. ansTurn \in Nat /\ ansAsk.kind \in {"plain", "tools", "search"}
    BY DEF AnswerInv, AnswerTypes, AnswerRequests, AnswerProgress, Model!Question
  <2>2. \/ ansAsk.kind = "tools" /\ ansTurn > 0
        \/ ansAsk.kind = "search" /\ ansTurn > 1
    BY <2>1
  <2> QED BY <2>2 DEF AnswerInv, RequestOnCard
<1> QED BY <1>1, <1>2, <1>3, <1>4 DEF AnswersAreWhole, Model!AnswersAreWhole

\* An answer that is given is all the text the model sent for it, in order and once,
\* after the calls it required; every call was taken up once and whole; what the model
\* answers is the whole request of its turn, which does not stay on the card.
THEOREM AnswersWhole == ServicesSpec => []AnswersAreWhole
<1>1. ServicesInit => AnswerInv
  BY InitAnswer
<1>2. AnswerInv /\ [ServicesNext]_allVars => AnswerInv'
  BY Frames, AnswerInvKept
<1>3. QED BY <1>1, <1>2, AnswerIsWhole, PTL DEF ServicesSpec

-----------------------------------------------------------------------------
(* SftpTransfer.                                                           *)

Staging == {"upload", "write"}

SftpData ==
  /\ job \in [kind : {"none", "upload", "write", "move", "download"}, overwrite : BOOLEAN]
  /\ dst \in {None, Old, New} /\ src \in {None, New} /\ staged \in {None, Part, New, Theirs}
  /\ req \in {Sftp!Idle} \cup [call : Sftp!Call, answer : {"awaited", "ok", "exists", "error"}]
  /\ reply \in [outcome : {"none", "ok", "failed", "unknown"},
                staged : {"none", "removed", "failed", "not_attempted"}]
SftpControl ==
  /\ ssh \in {"open", "closed"} /\ wire \subseteq Sftp!Call
  /\ call \in Sftp!Call \cup {"idle", "commit", "ended"}
  /\ owned \in BOOLEAN /\ resolving \in BOOLEAN /\ fault \in BOOLEAN
  /\ canceled \in BOOLEAN /\ late \in BOOLEAN
SftpTypes == SftpData /\ SftpControl

\* Which calls an operation makes, and which of them it waits for.
SftpPlaces ==
  /\ call = "idle" => dst = None /\ src = None /\ staged = None /\ ~fault
  /\ call # "idle" => job.kind # "none"
  /\ call \in {"create", "write", "unlink"} => job.kind \in Staging
  /\ call = "rename" => job.kind \in Staging \cup {"move"}
  /\ call = "close" => job.kind \in Staging \cup {"download"}
  /\ call \in {"open", "stat", "read", "commit"} => job.kind = "download"
  /\ job.kind = "download" => ~fault
  /\ call # "ended" => reply = [outcome |-> "none", staged |-> "none"] /\ wire = {} /\ ssh = "open"
  /\ req = Sftp!Idle \/ (call \in Sftp!Call /\ req.call = call /\ req.answer # "none")
  /\ job.kind # "move" => src = None

\* What the staged file, or the one that is moved, holds at each call.
StagedAsCalled ==
  /\ call = "create" => staged \in IF req.answer = "ok" THEN {Part} ELSE {None, Theirs}
  /\ call = "write" => staged = IF req.answer = "ok" THEN New ELSE Part
  /\ call = "close" => staged \in IF fault THEN {Part, New} ELSE {New}
  /\ call = "unlink" => staged \in IF req.answer = "ok" THEN {None} ELSE {Part, New}
  /\ call = "rename" /\ job.kind # "move" => staged \in IF req.answer = "ok" THEN {None} ELSE {New}
  /\ call = "rename" /\ job.kind = "move" => staged = None
  /\ call = "rename" /\ job.kind = "move" => src = IF req.answer = "ok" THEN None ELSE New
  /\ call \in {"open", "stat"} => staged = None
  /\ call = "read" => staged = Part
  /\ call = "commit" => staged = New

\* The destination changes by the rename only, or by the commit of a download.
DestinationWaits ==
  call # "ended" => dst \in IF call = "rename" /\ req.answer = "ok" THEN {New} ELSE {None, Old}

\* What was given up on can do, and what it cannot.
GivenUp ==
  /\ \E c \in Sftp!Call : wire \subseteq {c}
  /\ "rename" \in wire =>
         reply.outcome = "unknown" /\ (IF job.kind = "move" THEN src ELSE staged) = New
  /\ wire \cap {"write", "unlink"} # {} => staged # Theirs
  /\ ssh = "open" => wire = {}

\* What was reported, once the operation has ended.
Reported ==
  /\ reply.outcome = "failed" => dst # New
  /\ reply.outcome = "ok" => dst = New /\ src = None /\ wire = {}
  /\ reply.staged = "removed" =>
       staged \notin {Part, New} /\ wire \cap {"create", "write", "rename", "unlink"} = {}

SftpInv ==
  SftpTypes /\ SftpPlaces /\ StagedAsCalled /\ DestinationWaits /\ GivenUp /\ Reported


\* The states the answer to a request can be in.
LEMMA RequestFacts ==
  ASSUME SftpInv
  PROVE  /\ req.answer \in {"none", "awaited", "ok", "exists", "error"}
         /\ req.answer = "none" => req = Sftp!Idle
         /\ req = Sftp!Idle => req.answer = "none"
         /\ req # Sftp!Idle => call \in Sftp!Call /\ req.call = call
  BY DEF SftpInv, SftpTypes, SftpData, SftpPlaces, Sftp!Idle

\* Nothing has begun.
LEMMA InitSftp == ServicesInit => SftpInv
<1> SUFFICES ASSUME ServicesInit PROVE SftpInv
  OBVIOUS
<1>1. Sftp!Init
  BY DEF ServicesInit
<1> USE <1>1 DEF Sftp!Init, Sftp!Idle, Sftp!Call
<1>2. SftpTypes
  BY DEF SftpTypes, SftpData, SftpControl
<1>3. SftpPlaces /\ StagedAsCalled
  BY DEF SftpPlaces, StagedAsCalled, Staging
<1>4. DestinationWaits /\ GivenUp /\ Reported
  BY DEF DestinationWaits, GivenUp, Reported
<1> QED BY <1>2, <1>3, <1>4 DEF SftpInv

\* An operation returns, and the request it waits for is given up on.
LEMMA ReturnKeeps ==
  ASSUME SftpInv, NEW o \in {"ok", "failed", "unknown"},
         NEW s \in {"none", "removed", "failed", "not_attempted"}, NEW closes \in BOOLEAN,
         Sftp!Return(o, s, closes), call \notin {"idle", "ended"},
         dst' \in {None, Old, New}, src' = src, staged' \in {staged, None},
         o = "failed" => dst' # New,
         o = "ok" => dst' = New /\ src' = None,
         s = "removed" => staged' = None,
         req.answer = "awaited" =>
           /\ closes /\ (call = "rename" => o = "unknown" /\ staged' = staged)
           /\ o # "ok" /\ (s = "removed" => call \in {"open", "stat", "read", "close"})
  PROVE  SftpInv'
<1>1. /\ reply' = [outcome |-> o, staged |-> s] /\ call' = "ended" /\ req' = Sftp!Idle
      /\ ssh' = (IF closes \/ Sftp!ForModel THEN "closed" ELSE ssh)
      /\ wire' = (IF req.answer = "awaited" THEN wire \cup {req.call} ELSE wire)
      /\ UNCHANGED <<job, owned, resolving, fault, canceled, late>>
  BY DEF Sftp!Return
<1>2. SftpTypes /\ SftpPlaces /\ StagedAsCalled /\ wire = {} /\ ssh = "open"
  BY DEF SftpInv, SftpPlaces
<1>3. wire' = {} \/ (req.answer = "awaited" /\ wire' = {call} /\ call \in Sftp!Call)
  BY <1>1, <1>2, RequestFacts DEF Sftp!Idle
<1>4. SftpData'
  BY <1>1, <1>2 DEF SftpTypes, SftpData, Sftp!Idle
<1>5. SftpControl'
  BY <1>1, <1>2, <1>3 DEF SftpTypes, SftpControl
<1>6. SftpPlaces'
  BY <1>1, <1>2 DEF SftpPlaces
<1>7. StagedAsCalled' /\ DestinationWaits'
  BY <1>1 DEF StagedAsCalled, DestinationWaits
<1>8. GivenUp'
  <2>1. CASE wire' = {}
    <3>1. "close" \in Sftp!Call
      BY DEF Sftp!Call
    <3> QED BY <2>1, <3>1 DEF GivenUp
  <2>2. CASE req.answer = "awaited" /\ wire' = {call} /\ call \in Sftp!Call
    <3>1. ssh' = "closed"
      BY <1>1, <2>2
    <3>2. call = "rename" =>
              reply'.outcome = "unknown" /\ (IF job'.kind = "move" THEN src' ELSE staged') = New
      BY <1>1, <1>2, <2>2 DEF StagedAsCalled
    <3>3. call \in {"write", "unlink"} => staged' # Theirs
      BY <1>2, <2>2, ContentsAssumption DEF StagedAsCalled
    <3> QED BY <2>2, <3>1, <3>2, <3>3 DEF GivenUp
  <2> QED BY <1>3, <2>1, <2>2
<1>9. Reported'
  BY <1>1, <1>3, ContentsAssumption DEF Reported
<1> QED BY <1>4, <1>5, <1>6, <1>7, <1>8, <1>9 DEF SftpInv, SftpTypes

\* An operation goes on to its next call.
LEMMA GotoKeeps ==
  ASSUME SftpInv, NEW c \in Sftp!Call \cup {"commit"}, Sftp!Goto(c), call \notin {"idle", "ended"},
         UNCHANGED <<dst, src>>, dst \in {None, Old}, owned' \in BOOLEAN, fault' \in BOOLEAN,
         job.kind = "download" => ~fault',
         job.kind # "move",
         \/ job.kind \in Staging /\ c = "write" /\ staged' = Part
         \/ job.kind \in Staging /\ c \in {"close", "unlink"} /\ fault' /\ staged' \in {Part, New}
         \/ job.kind \in Staging /\ c \in {"close", "rename"} /\ staged' = New
         \/ job.kind = "download" /\ c = "stat" /\ staged' = None
         \/ job.kind = "download" /\ c = "read" /\ staged' = Part
         \/ job.kind = "download" /\ c \in {"close", "commit"} /\ staged' = New
  PROVE  SftpInv'
<1>1. /\ call' = c /\ req' = Sftp!Idle
      /\ UNCHANGED <<job, ssh, wire, resolving, canceled, late, reply>>
  BY DEF Sftp!Goto
<1>2. SftpTypes /\ SftpPlaces /\ GivenUp /\ Reported /\ wire = {}
  BY DEF SftpInv, SftpPlaces
<1>3. SftpData'
  BY <1>1, <1>2 DEF SftpTypes, SftpData
<1>4. SftpControl'
  BY <1>1, <1>2 DEF SftpTypes, SftpControl
<1>5. SftpPlaces'
  BY <1>1, <1>2 DEF SftpPlaces, Staging, Sftp!Call
<1>6. req'.answer = "none"
  BY <1>1 DEF Sftp!Idle
<1>7. StagedAsCalled' /\ DestinationWaits'
  BY <1>1, <1>6 DEF StagedAsCalled, DestinationWaits, Staging, Sftp!Call
<1>8. GivenUp' /\ Reported'
  BY <1>1, <1>2, <1>5 DEF GivenUp, Reported, SftpPlaces, Staging, Sftp!Call
<1> QED BY <1>3, <1>4, <1>5, <1>7, <1>8 DEF SftpInv, SftpTypes

\* A staged file is cleaned up, if there is time.
LEMMA CleanUpKeeps ==
  ASSUME SftpInv, NEW h \in BOOLEAN, Sftp!CleanUp(h), call \notin {"idle", "ended"},
         dst \in {None, Old},
         \/ job.kind = "download" /\ (req.answer = "awaited" => h /\ late /\ call = "close")
         \/ /\ job.kind \in Staging /\ staged \in {Part, New}
            /\ h \/ staged = New
            /\ req.answer = "awaited" => Sftp!Grace \/ (h /\ call # "rename")
  PROVE  SftpInv'
<1>1. CASE job.kind = "download"
  <2>1. /\ UNCHANGED <<dst, src>>
        /\ \/ ~late /\ staged' = None /\ Sftp!Return("failed", "removed", h /\ late)
           \/ ~late /\ staged' = staged /\ Sftp!Return("failed", "failed", h /\ late)
           \/ late /\ staged' = staged /\ Sftp!Return("failed", "not_attempted", h)
    BY <1>1 DEF Sftp!CleanUp
  <2>2. (h /\ late) \in BOOLEAN /\ dst' # New
    BY <2>1, ContentsAssumption
  <2>3. req.answer = "awaited" => late /\ h /\ call = "close"
    BY <1>1 DEF Staging
  <2> QED BY <2>1, <2>2, <2>3, ReturnKeeps
<1>2. CASE job.kind \in Staging /\ late /\ ~Sftp!Grace
  <2>1. Sftp!Return("failed", "not_attempted", h) /\ UNCHANGED <<dst, src, staged>>
    BY <1>2 DEF Sftp!CleanUp, Staging
  <2>2. dst' # New /\ (req.answer = "awaited" => h /\ call # "rename")
    BY <1>2, <2>1, ContentsAssumption DEF Staging
  <2> QED BY <2>1, <2>2, ReturnKeeps
<1>3. CASE job.kind \in Staging /\ ~(late /\ ~Sftp!Grace)
  <2>1. /\ fault' = TRUE /\ Sftp!Goto(IF h THEN "close" ELSE "unlink")
        /\ UNCHANGED <<dst, src, staged, owned>>
    BY <1>3 DEF Sftp!CleanUp, Staging
  <2>2. owned' \in BOOLEAN /\ staged' \in {Part, New}
    BY <1>3, <2>1 DEF SftpInv, SftpTypes, SftpControl, Staging
  <2>3. (IF h THEN "close" ELSE "unlink") \in {"close", "unlink"}
    OBVIOUS
  <2>4. {"close", "unlink"} \subseteq Sftp!Call
    BY DEF Sftp!Call
  <2> QED BY <1>3, <2>1, <2>2, <2>3, <2>4, GotoKeeps DEF Staging
<1> QED BY <1>1, <1>2, <1>3

\* An operation begins.
LEMMA BeginKeeps ==
  ASSUME SftpInv, NEW j \in Sftp!Jobs, Sftp!Begin(j) PROVE SftpInv'
<1>1. /\ call = "idle" /\ job' = j /\ dst' \in {None, Old}
      /\ src' = (IF j.kind = "move" THEN New ELSE None)
      /\ staged' \in IF j.kind \in Staging THEN {None, Theirs} ELSE {None}
      /\ call' = (IF j.kind = "move" THEN "rename" ELSE IF j.kind = "download" THEN "open" ELSE "create")
      /\ UNCHANGED <<ssh, req, wire, owned, resolving, fault, canceled, late, reply>>
  BY DEF Sftp!Begin, Staging, Sftp!Jobs
<1>2. /\ j \in [kind : {"upload", "write", "move", "download"}, overwrite : BOOLEAN]
      /\ req = Sftp!Idle /\ req.answer = "none"
  BY <1>1, RequestFacts DEF Sftp!Jobs, Sftp!Call
<1>3. SftpTypes /\ SftpPlaces /\ GivenUp /\ Reported /\ ~fault
  BY <1>1 DEF SftpInv, SftpPlaces
<1>4. SftpData'
  BY <1>1, <1>2, <1>3 DEF SftpTypes, SftpData
<1>5. SftpControl'
  BY <1>1, <1>2, <1>3 DEF SftpTypes, SftpControl, Sftp!Call
<1>6. SftpPlaces'
  BY <1>1, <1>2, <1>3 DEF SftpPlaces, Staging
<1>7. StagedAsCalled' /\ DestinationWaits'
  BY <1>1, <1>2 DEF StagedAsCalled, DestinationWaits, Staging
<1>8. GivenUp' /\ Reported'
  BY <1>1, <1>3, <1>6 DEF GivenUp, Reported, SftpPlaces
<1> QED BY <1>4, <1>5, <1>6, <1>7, <1>8 DEF SftpInv, SftpTypes

\* The server answers the request that is waited for.
LEMMA ServeKeeps ==
  ASSUME SftpInv, NEW a \in {"ok", "exists", "error"}, Sftp!Serve(a) PROVE SftpInv'
<1>1. /\ req.answer = "awaited" /\ (a = "exists" => req.call = "create")
      /\ Sftp!Carry(req.call, a) /\ req' = [req EXCEPT !.answer = a]
      /\ UNCHANGED <<job, ssh, wire, call, owned, resolving, fault, canceled, late, reply>>
  BY DEF Sftp!Serve
<1>2. call \in Sftp!Call /\ req.call = call
  BY <1>1, RequestFacts DEF Sftp!Idle
<1>3. SftpTypes /\ SftpPlaces /\ StagedAsCalled /\ DestinationWaits /\ GivenUp /\ Reported
  BY DEF SftpInv
<1>4. /\ req' \in [call : Sftp!Call, answer : {"awaited", "ok", "exists", "error"}]
      /\ req'.answer = a /\ req'.call = call
  BY <1>1, <1>2, <1>3 DEF SftpTypes, SftpData, Sftp!Idle
<1>5. /\ (dst' = dst /\ src' = src) \/ (call = "rename" /\ a = "ok" /\ dst' = New /\ src' = None)
      /\ CASE call = "create" /\ a = "ok" -> staged' = Part
           [] call = "write" /\ a = "ok" -> staged' = New
           [] call = "unlink" /\ a = "ok" -> staged' = None
           [] call = "rename" /\ a = "ok" -> staged' = None
           [] OTHER -> staged' = staged
      /\ call = "create" /\ a # "ok" => staged' \in {None, Theirs}
      /\ call = "rename" /\ a = "ok" => dst' = New /\ src' = None
  BY <1>1, <1>2, <1>3 DEF Sftp!Carry, StagedAsCalled, SftpPlaces, Staging
<1>6. SftpData'
  <2>1. dst' \in {None, Old, New} /\ src' \in {None, New} /\ staged' \in {None, Part, New, Theirs}
    BY <1>3, <1>5 DEF SftpTypes, SftpData
  <2> QED BY <1>1, <1>3, <1>4, <2>1 DEF SftpTypes, SftpData
<1>7. SftpControl'
  BY <1>1, <1>3 DEF SftpTypes, SftpControl
<1>8. SftpPlaces'
  BY <1>1, <1>2, <1>3, <1>4, <1>5 DEF SftpPlaces, Sftp!Call
<1>9. StagedAsCalled'
  BY <1>1, <1>2, <1>3, <1>4, <1>5 DEF StagedAsCalled, Sftp!Call
<1>10. DestinationWaits'
  BY <1>1, <1>2, <1>3, <1>4, <1>5 DEF DestinationWaits, Sftp!Call
<1>11. GivenUp' /\ Reported'
  BY <1>1, <1>2, <1>3, <1>8 DEF GivenUp, Reported, SftpPlaces, Sftp!Call
<1> QED BY <1>6, <1>7, <1>8, <1>9, <1>10, <1>11 DEF SftpInv, SftpTypes

\* The server carries out a request that was given up on.
LEMMA ServeLateKeeps ==
  ASSUME SftpInv, NEW c \in Sftp!Call, Sftp!ServeLate(c) PROVE SftpInv'
<1>1. /\ c \in wire /\ Sftp!Carry(c, "ok") /\ wire' = wire \ {c}
      /\ UNCHANGED <<job, ssh, req, call, owned, resolving, fault, canceled, late, reply>>
  BY DEF Sftp!ServeLate
<1>2. SftpTypes /\ SftpPlaces /\ GivenUp /\ Reported
  BY DEF SftpInv
<1>3. call = "ended" /\ wire = {c} /\ wire' = {}
  BY <1>1, <1>2 DEF SftpPlaces, GivenUp
<1>4. /\ c = "rename" => reply.outcome = "unknown" /\ dst' = New
      /\ c # "rename" => UNCHANGED <<dst, src>>
      /\ c = "rename" => src' = None
      /\ staged' \in {staged, Part, New, None}
      /\ c \notin {"create", "write", "rename", "unlink"} => staged' = staged
  BY <1>1, <1>2 DEF Sftp!Carry, GivenUp
<1>5. SftpData'
  BY <1>1, <1>2, <1>4 DEF SftpTypes, SftpData
<1>6. SftpControl'
  BY <1>1, <1>2, <1>3 DEF SftpTypes, SftpControl
<1>7. SftpPlaces'
  BY <1>1, <1>2, <1>3, <1>4 DEF SftpPlaces
<1>8. StagedAsCalled' /\ DestinationWaits'
  BY <1>1, <1>3 DEF StagedAsCalled, DestinationWaits
<1>9. GivenUp'
  BY <1>3 DEF GivenUp
<1>10. Reported'
  BY <1>1, <1>2, <1>3, <1>4 DEF Reported
<1> QED BY <1>5, <1>6, <1>7, <1>8, <1>9, <1>10 DEF SftpInv, SftpTypes

\* The user cancels, the deadline passes, a request is sent, or a creation that was
\* canceled is followed up.
LEMMA WaitingKeeps ==
  ASSUME SftpInv,
         \/ Sftp!Cancel \/ Sftp!Expire \/ Sftp!Ask \/ UNCHANGED sftpVars
         \/ resolving' = TRUE /\ UNCHANGED <<job, dst, src, staged, ssh, req, wire, call, owned,
                                            fault, canceled, late, reply>>
  PROVE  SftpInv'
<1>1. /\ UNCHANGED <<job, dst, src, staged, ssh, wire, call, owned, fault, reply>>
      /\ resolving' \in {resolving, TRUE} /\ canceled' \in {canceled, TRUE}
          /\ late' \in {late, TRUE}
      /\ req' = req \/ (call \in Sftp!Call /\ req = Sftp!Idle
                        /\ req' = [call |-> call, answer |-> "awaited"])
  BY DEF Sftp!Cancel, Sftp!Expire, Sftp!Ask, sftpVars
<1>2. SftpTypes /\ SftpPlaces /\ StagedAsCalled /\ DestinationWaits /\ GivenUp /\ Reported
  BY DEF SftpInv
<1>3. /\ req.answer = "ok" <=> req'.answer = "ok"
      /\ req' # req => call \in Sftp!Call /\ req'.call = call /\ req'.answer # "none"
  BY <1>1, RequestFacts DEF Sftp!Idle
<1>4. SftpData'
  BY <1>1, <1>2 DEF SftpTypes, SftpData
<1>5. SftpControl'
  BY <1>1, <1>2 DEF SftpTypes, SftpControl
<1>6. SftpPlaces'
  <2>1. req' = Sftp!Idle \/ (call \in Sftp!Call /\ req'.call = call /\ req'.answer # "none")
    BY <1>1, <1>2, <1>3 DEF SftpPlaces
  <2> QED BY <1>1, <1>2, <2>1 DEF SftpPlaces
<1>7. StagedAsCalled' /\ DestinationWaits' /\ GivenUp' /\ Reported'
  BY <1>1, <1>2, <1>3 DEF StagedAsCalled, DestinationWaits, GivenUp, Reported
<1> QED BY <1>4, <1>5, <1>6, <1>7 DEF SftpInv, SftpTypes

\* What holds at a call whatever the answer.
LEMMA CallFacts ==
  ASSUME SftpInv
  PROVE  /\ call \notin {"idle", "ended"} =>
              /\ dst \in IF call = "rename" /\ req.answer = "ok" THEN {New} ELSE {None, Old}
         /\ call \in {"create", "write", "unlink"} => job.kind \in Staging
         /\ call = "rename" => job.kind \in Staging \cup {"move"}
         /\ call = "close" => job.kind \in Staging \cup {"download"}
         /\ call \in {"open", "stat", "read", "commit"} => job.kind = "download"
         /\ job.kind = "download" => ~fault
         /\ owned \in BOOLEAN /\ fault \in BOOLEAN /\ New \notin {None, Old}
         /\ StagedAsCalled /\ (job.kind # "move" => src = None)
         /\ \A c : Sftp!Answered(c, "ok") => req.answer = "ok" /\ call = c /\ req # Sftp!Idle
         /\ \A c : Sftp!Answered(c, "error") => req.answer = "error" /\ call = c
         /\ \A c : Sftp!Answered(c, "exists") => req.answer = "exists" /\ call = c
         /\ \A c : Sftp!NotAsked(c) => req.answer = "none" /\ call = c
         /\ \A c : Sftp!Pending(c) => call = c
<1>1. /\ \A c : Sftp!Answered(c, "ok") => req.answer = "ok" /\ call = c
      /\ \A c : Sftp!Answered(c, "error") => req.answer = "error" /\ call = c
      /\ \A c : Sftp!Answered(c, "exists") => req.answer = "exists" /\ call = c
      /\ \A c : Sftp!NotAsked(c) => req.answer = "none" /\ call = c
      /\ \A c : Sftp!Pending(c) => call = c
  BY DEF Sftp!Answered, Sftp!NotAsked, Sftp!Pending, Sftp!Idle
<1> QED BY <1>1, ContentsAssumption, RequestFacts
        DEF SftpInv, SftpTypes, SftpControl, SftpPlaces, DestinationWaits

\* The creation of the staged file.
LEMMA CreatingKeeps ==
  ASSUME SftpInv,
         Sftp!Created \/ Sftp!Collided \/ Sftp!CreateFailed \/ Sftp!CreateNotAsked
           \/ Sftp!CreatePending
  PROVE  SftpInv'
<1>1. CASE Sftp!Created
  <2>1. /\ call = "create" /\ req.answer = "ok" /\ owned' = TRUE /\ UNCHANGED <<dst, src, staged>>
        /\ \/ fault' = TRUE /\ Sftp!Goto("close")
           \/ UNCHANGED fault /\ Sftp!Goto("write")
    BY <1>1, CallFacts DEF Sftp!Created
  <2>2. staged' = Part /\ job.kind \in Staging /\ dst \in {None, Old} /\ fault \in BOOLEAN
    BY <2>1, CallFacts DEF StagedAsCalled
  <2>3. {"close", "write"} \subseteq Sftp!Call
    BY DEF Sftp!Call
  <2> QED BY <2>1, <2>2, <2>3, GotoKeeps DEF Staging
<1>2. CASE Sftp!Collided \/ Sftp!CreateFailed \/ Sftp!CreateNotAsked
  <2>1. call = "create" /\ req.answer # "awaited" /\ UNCHANGED <<dst, src, staged>>
    BY <1>2, CallFacts
       DEF Sftp!Collided, Sftp!CreateFailed, Sftp!CreateNotAsked
  <2>2. dst' \in {None, Old} /\ dst' # New
    BY <2>1, CallFacts
  <2>3. \/ Sftp!Return("failed", "not_attempted", FALSE) \/ Sftp!Return("failed", "none", FALSE)
        \/ Sftp!Return("unknown", "not_attempted", TRUE)
    BY <1>2 DEF Sftp!Collided, Sftp!CreateFailed, Sftp!CreateNotAsked
  <2> QED BY <2>1, <2>2, <2>3, ReturnKeeps
<1>3. CASE Sftp!CreatePending
  <2>1. call = "create" /\ dst \in {None, Old} /\ New \notin {None, Old}
    BY <1>3, CallFacts DEF Sftp!CreatePending
  <2>2. \/ resolving' = TRUE /\ UNCHANGED <<job, dst, src, staged, ssh, req, wire, call, owned,
                                            fault, canceled, late, reply>>
        \/ Sftp!Return("unknown", "not_attempted", TRUE) /\ UNCHANGED <<dst, src, staged>>
    BY <1>3 DEF Sftp!CreatePending
  <2> QED BY <2>1, <2>2, WaitingKeeps, ReturnKeeps
<1> QED BY <1>1, <1>2, <1>3

\* Its content is written and the handle closed.
LEMMA WritingKeeps ==
  ASSUME SftpInv,
         Sftp!Written \/ Sftp!WriteFailed \/ Sftp!WritePending \/ Sftp!Closed \/ Sftp!CloseFailed
  PROVE  SftpInv'
<1>0. {"close", "unlink", "rename"} \subseteq Sftp!Call
  BY DEF Sftp!Call
<1>1. CASE Sftp!Written
  <2>1. call = "write" /\ req.answer = "ok" /\ Sftp!Goto("close") /\ UNCHANGED <<dst, src, staged,
                                                                                 owned, fault>>
    BY <1>1, CallFacts DEF Sftp!Written
  <2>2. /\ staged' = New /\ job.kind \in Staging /\ dst \in {None, Old}
        /\ fault' \in BOOLEAN /\ owned' \in BOOLEAN
    BY <2>1, CallFacts DEF StagedAsCalled
  <2> QED BY <1>0, <2>1, <2>2, GotoKeeps DEF Staging
<1>2. CASE Sftp!WriteFailed \/ (Sftp!WritePending /\ job.kind # "upload")
  <2>1. call = "write" /\ Sftp!CleanUp(TRUE) /\ (req.answer = "awaited" => job.kind # "upload")
    BY <1>2, CallFacts DEF Sftp!WriteFailed, Sftp!WritePending
  <2>2. job.kind \in Staging /\ staged \in {Part, New} /\ dst \in {None, Old}
    BY <2>1, CallFacts DEF StagedAsCalled
  <2> QED BY <2>1, <2>2, CleanUpKeeps DEF Staging, Sftp!Grace
<1>3. CASE Sftp!WritePending /\ job.kind = "upload"
  <2>1. /\ call = "write" /\ Sftp!Return("failed", "not_attempted", TRUE)
        /\ UNCHANGED <<dst, src, staged>>
    BY <1>3, CallFacts DEF Sftp!WritePending
  <2>2. dst' \in {None, Old} /\ dst' # New
    BY <2>1, CallFacts
  <2> QED BY <2>1, <2>2, ReturnKeeps
<1>4. ASSUME call = "close"
      PROVE  /\ job.kind \in Staging \cup {"download"} /\ staged \in {Part, New}
             /\ ~fault => staged = New
             /\ job.kind = "download" => ~fault
             /\ dst \in {None, Old} /\ New \notin {None, Old} /\ fault \in BOOLEAN
                 /\ owned \in BOOLEAN
  BY <1>4, CallFacts DEF StagedAsCalled
<1>5. CASE Sftp!Closed
  <2>1. call = "close" /\ req.answer = "ok"
    BY <1>5, CallFacts DEF Sftp!Closed
  <2>2. CASE job.kind = "download"
    <3>1. Sftp!Goto("commit") /\ UNCHANGED <<dst, src, staged, owned, fault>>
      BY <1>4, <1>5, <2>1, <2>2 DEF Sftp!Closed
    <3> QED BY <1>4, <2>1, <2>2, <3>1, GotoKeeps
  <2>3. CASE job.kind # "download" /\ fault
    <3>1. Sftp!Goto("unlink") /\ UNCHANGED <<dst, src, staged, owned, fault>>
      BY <1>5, <2>3 DEF Sftp!Closed
    <3> QED BY <1>0, <1>4, <2>1, <2>3, <3>1, GotoKeeps DEF Staging
  <2>4. CASE job.kind # "download" /\ ~fault /\ (canceled \/ late)
    <3>1. Sftp!CleanUp(FALSE)
      BY <1>5, <2>4 DEF Sftp!Closed
    <3> QED BY <1>4, <2>1, <2>4, <3>1, CleanUpKeeps
  <2>5. CASE job.kind # "download" /\ ~fault /\ ~(canceled \/ late)
    <3>1. Sftp!Goto("rename") /\ UNCHANGED <<dst, src, staged, owned, fault>>
      BY <1>5, <2>5 DEF Sftp!Closed
    <3> QED BY <1>0, <1>4, <2>1, <2>5, <3>1, GotoKeeps DEF Staging
  <2> QED BY <2>2, <2>3, <2>4, <2>5
<1>6. CASE Sftp!CloseFailed
  <2>1. call = "close"
         /\ (Sftp!Answered("close", "error") \/ Sftp!NotAsked("close") \/ Sftp!Pending("close"))
    BY <1>6, CallFacts DEF Sftp!CloseFailed
  <2>2. CASE job.kind = "download"
    <3>1. Sftp!CleanUp(TRUE)
      BY <1>6, <2>2 DEF Sftp!CloseFailed, Sftp!Grace
    <3>2. req.answer = "awaited" => late
      BY <2>1, <2>2, CallFacts
         DEF Sftp!Pending, Sftp!GaveUp, Sftp!Stopped, Sftp!Heeds, Sftp!Grace
    <3> QED BY <1>4, <2>1, <2>2, <3>1, <3>2, CleanUpKeeps
  <2>3. CASE job.kind # "download" /\ Sftp!Grace /\ ~fault
    <3>1. Sftp!CleanUp(FALSE)
      BY <1>6, <2>3 DEF Sftp!CloseFailed
    <3> QED BY <1>4, <2>1, <2>3, <3>1, CleanUpKeeps
  <2>4. CASE job.kind # "download" /\ Sftp!Grace /\ fault
    <3>1. Sftp!Goto("unlink") /\ UNCHANGED <<dst, src, staged, owned, fault>>
      BY <1>6, <2>4 DEF Sftp!CloseFailed
    <3> QED BY <1>0, <1>4, <2>1, <2>4, <3>1, GotoKeeps DEF Staging
  <2>5. CASE job.kind # "download" /\ ~Sftp!Grace
    <3>1. Sftp!Return("failed", "not_attempted", TRUE) /\ UNCHANGED <<dst, src, staged>>
      BY <1>6, <2>5 DEF Sftp!CloseFailed
    <3> QED BY <1>4, <2>1, <3>1, ReturnKeeps
  <2> QED BY <2>2, <2>3, <2>4, <2>5
<1> QED BY <1>1, <1>2, <1>3, <1>5, <1>6

\* The rename, and the removal of the staged file.
LEMMA RenamingKeeps ==
  ASSUME SftpInv,
         Sftp!Renamed \/ Sftp!RenameFailed \/ Sftp!RenamePending \/ Sftp!Unlinked
           \/ Sftp!UnlinkFailed
  PROVE  SftpInv'
<1>1. CASE Sftp!Renamed
  <2>1. /\ call = "rename" /\ req.answer = "ok" /\ Sftp!Return("ok", "none", FALSE)
        /\ UNCHANGED <<dst, src, staged>>
    BY <1>1, CallFacts DEF Sftp!Renamed
  <2>2. dst' = New /\ src' = None
    BY <2>1, CallFacts DEF StagedAsCalled, Staging
  <2> QED BY <2>1, <2>2, ReturnKeeps
<1>2. CASE Sftp!RenameFailed
  <2>1. call = "rename" /\ req.answer \in {"error", "none"}
    BY <1>2, CallFacts DEF Sftp!RenameFailed
  <2>2. /\ dst \in {None, Old} /\ New \notin {None, Old} /\ job.kind \in Staging \cup {"move"}
        /\ job.kind # "move" => staged = New
    BY <2>1, CallFacts DEF StagedAsCalled
  <2>3. CASE job.kind = "move"
    <3>1. Sftp!Return("failed", "none", FALSE) /\ UNCHANGED <<dst, src, staged>>
      BY <1>2, <2>3 DEF Sftp!RenameFailed
    <3> QED BY <2>1, <2>2, <3>1, ReturnKeeps
  <2>4. CASE job.kind # "move"
    <3>1. Sftp!CleanUp(FALSE)
      BY <1>2, <2>4 DEF Sftp!RenameFailed
    <3> QED BY <2>1, <2>2, <2>4, <3>1, CleanUpKeeps
  <2> QED BY <2>3, <2>4
<1>3. CASE Sftp!RenamePending
  <2>1. call = "rename" /\ Sftp!Return("unknown", "not_attempted", TRUE) /\ UNCHANGED <<dst, src,
                                                                                        staged>>
    BY <1>3, CallFacts DEF Sftp!RenamePending
  <2>2. dst' \in {None, Old, New}
    BY <2>1, CallFacts
  <2> QED BY <2>1, <2>2, ReturnKeeps
<1>4. CASE Sftp!Unlinked
  <2>1. /\ call = "unlink" /\ req.answer = "ok" /\ Sftp!Return("failed", "removed", FALSE)
        /\ UNCHANGED <<dst, src, staged>>
    BY <1>4, CallFacts DEF Sftp!Unlinked
  <2>2. dst' \in {None, Old} /\ dst' # New /\ staged' = None
    BY <2>1, CallFacts DEF StagedAsCalled
  <2> QED BY <2>1, <2>2, ReturnKeeps
<1>5. CASE Sftp!UnlinkFailed
  <2>1. /\ call = "unlink" /\ Sftp!Return("failed", "failed", req # Sftp!Idle)
        /\ UNCHANGED <<dst, src, staged>>
    BY <1>5, CallFacts DEF Sftp!UnlinkFailed
  <2>2. dst' \in {None, Old} /\ dst' # New /\ (req.answer = "awaited" => req # Sftp!Idle)
    BY <2>1, CallFacts, RequestFacts
  <2>3. (req # Sftp!Idle) \in BOOLEAN
    OBVIOUS
  <2> QED BY <2>1, <2>2, <2>3, ReturnKeeps
<1> QED BY <1>1, <1>2, <1>3, <1>4, <1>5

\* A download: the remote file is fetched and put in place.
LEMMA FetchingKeeps ==
  ASSUME SftpInv, Sftp!Opened \/ Sftp!FetchStopped \/ Sftp!Fetched \/ Sftp!Commit PROVE SftpInv'
<1>0. {"stat", "read", "close"} \subseteq Sftp!Call
  BY DEF Sftp!Call
<1>1. CASE Sftp!Opened
  <2>1. /\ call \in {"open", "stat"} /\ UNCHANGED <<dst, src, owned, fault>>
        /\ \/ Sftp!Goto("stat") /\ staged' = staged
           \/ Sftp!Goto("read") /\ staged' = Part
    BY <1>1, CallFacts DEF Sftp!Opened
  <2>2. /\ job.kind = "download" /\ staged = None /\ dst \in {None, Old}
        /\ ~fault' /\ owned' \in BOOLEAN /\ fault' \in BOOLEAN
    BY <2>1, CallFacts DEF StagedAsCalled
  <2> QED BY <1>0, <2>1, <2>2, GotoKeeps
<1>2. CASE Sftp!Fetched
  <2>1. call = "read" /\ Sftp!Goto("close") /\ staged' = New /\ UNCHANGED <<dst, src, owned, fault>>
    BY <1>2, CallFacts DEF Sftp!Fetched
  <2>2. /\ job.kind = "download" /\ dst \in {None, Old}
        /\ ~fault' /\ owned' \in BOOLEAN /\ fault' \in BOOLEAN
    BY <2>1, CallFacts
  <2> QED BY <1>0, <2>1, <2>2, GotoKeeps
<1>3. CASE Sftp!FetchStopped
  <2>1. PICK c \in {"open", "stat", "read"} :
          \/ Sftp!Pending(c)
               /\ \/ staged' = None /\ staged = Part /\ ~late
                      /\ Sftp!Return("failed", "removed", TRUE)
                  \/ staged' = staged /\ Sftp!Return("failed", "not_attempted", TRUE)
          \/ (Sftp!Answered(c, "error") \/ Sftp!NotAsked(c) \/ (c # "open" /\ Sftp!Answered(c, "ok")))
               /\ \/ staged' = None /\ staged = Part /\ ~late
                      /\ Sftp!Return("failed", "removed", FALSE)
                  \/ staged' = staged /\ Sftp!Return("failed", "not_attempted", c # "open" /\ late)
    BY <1>3 DEF Sftp!FetchStopped
  <2>2. call = c /\ UNCHANGED <<dst, src>>
    BY <1>3, <2>1, CallFacts DEF Sftp!FetchStopped
  <2>3. dst' \in {None, Old} /\ dst' # New
    BY <2>2, CallFacts
  <2>4. \E closes \in BOOLEAN, s \in {"removed", "not_attempted"} :
          /\ Sftp!Return("failed", s, closes)
          /\ req.answer = "awaited" => closes
          /\ s = "removed" => staged' = None
          /\ staged' \in {staged, None}
    <3>1. (c # "open" /\ late) \in BOOLEAN
      OBVIOUS
    <3>2. req.answer = "awaited" => Sftp!Pending(c)
      BY <2>1, CallFacts
    <3>3. CASE req.answer = "awaited"
      <4>1. \/ staged' = None /\ Sftp!Return("failed", "removed", TRUE)
            \/ staged' = staged /\ Sftp!Return("failed", "not_attempted", TRUE)
        BY <2>1, <3>3, CallFacts
      <4> QED BY <4>1
    <3>4. CASE req.answer # "awaited"
      BY <2>1, <3>1, <3>4
    <3> QED BY <3>3, <3>4
  <2> QED BY <2>2, <2>3, <2>4, ReturnKeeps
<1>4. CASE Sftp!Commit
  <2>1. /\ call = "commit" /\ job.kind = "download" /\ staged = New /\ dst \in {None, Old}
        /\ New \notin {None, Old} /\ src = None /\ req.answer # "awaited"
    BY <1>4, CallFacts, RequestFacts DEF Sftp!Commit, StagedAsCalled, Sftp!Call
  <2>2. CASE canceled \/ late \/ (dst # None /\ ~job.overwrite)
    <3>1. Sftp!CleanUp(FALSE)
      BY <1>4, <2>2 DEF Sftp!Commit
    <3> QED BY <2>1, <3>1, CleanUpKeeps
  <2>3. CASE ~(canceled \/ late \/ (dst # None /\ ~job.overwrite))
    <3>1. /\ src' = src
          /\ \/ dst' = staged /\ staged' = None /\ Sftp!Return("ok", "none", FALSE)
             \/ dst' \in {dst, staged} /\ staged' = None
                 /\ Sftp!Return("unknown", "not_attempted", FALSE)
      BY <1>4, <2>3 DEF Sftp!Commit
    <3> QED BY <2>1, <3>1, ReturnKeeps
  <2> QED BY <2>2, <2>3
<1> QED BY <1>1, <1>2, <1>3, <1>4

\* Every step keeps the invariant.
LEMMA SftpInvKept == SftpInv /\ [Sftp!Next]_sftpVars => SftpInv'
  BY BeginKeeps, ServeKeeps, ServeLateKeeps, WaitingKeeps, CreatingKeeps, WritingKeeps,
     RenamingKeeps, FetchingKeeps DEF Sftp!Next

\* What the invariant says of the files and of what is reported of them.
LEMMA SftpIsAsTold == SftpInv => Sftp!ReportsAreTrue
<1> SUFFICES ASSUME SftpInv PROVE Sftp!ReportsAreTrue
  OBVIOUS
<1>1. Sftp!TypeOK
  BY DEF SftpInv, SftpTypes, SftpData, SftpControl, Sftp!TypeOK
<1>2. Sftp!DestinationIsWhole
  BY DEF Sftp!DestinationIsWhole, SftpInv, SftpTypes, SftpData
<1>3. /\ reply.outcome \in {"failed", "ok"} \/ reply.staged = "removed" => call = "ended"
      /\ "rename" \in wire => reply.outcome = "unknown"
  BY DEF SftpInv, SftpPlaces, GivenUp
<1>4. Sftp!FailedIsFinal /\ Sftp!DoneIsDone
  BY <1>3 DEF Sftp!FailedIsFinal, Sftp!DoneIsDone, SftpInv, Reported
<1>5. Sftp!StagedIsReported /\ Sftp!NothingIsLeftOnTheSession
  BY DEF Sftp!StagedIsReported, Sftp!NothingIsLeftOnTheSession, SftpInv, Reported, GivenUp
<1> QED BY <1>1, <1>2, <1>4, <1>5 DEF Sftp!ReportsAreTrue

\* What is there is replaced only by the rename and by the commit, which ask for the
\* leave to overwrite, whether the request was waited for or given up on.
LEMMA OverwritesAreAsked ==
  SftpInv /\ [Sftp!Next]_sftpVars => (dst = Old /\ dst' # Old => job.overwrite)
<1> SUFFICES ASSUME SftpInv, [Sftp!Next]_sftpVars, dst = Old, dst' # Old PROVE job.overwrite
  OBVIOUS
<1>1. call # "idle" /\ dst # None
  BY ContentsAssumption DEF SftpInv, SftpPlaces
<1>2. ASSUME NEW c, Sftp!Carry(c, "ok") PROVE job.overwrite
  BY <1>1, <1>2 DEF Sftp!Carry
<1>3. ASSUME NEW c, NEW a \in {"exists", "error"}, Sftp!Carry(c, a) PROVE FALSE
  BY <1>3 DEF Sftp!Carry
<1>4. CASE \E a \in {"ok", "exists", "error"} : Sftp!Serve(a)
  BY <1>2, <1>3, <1>4 DEF Sftp!Serve
<1>5. CASE \E c \in Sftp!Call : Sftp!ServeLate(c)
  BY <1>2, <1>5 DEF Sftp!ServeLate
<1>6. CASE Sftp!Commit
  BY <1>1, <1>6 DEF Sftp!Commit, Sftp!CleanUp
<1>7. CASE \E j \in Sftp!Jobs : Sftp!Begin(j)
  BY <1>1, <1>7 DEF Sftp!Begin
<1>8. CASE UNCHANGED sftpVars
  BY <1>8 DEF sftpVars
<1>9. CASE \/ Sftp!Cancel \/ Sftp!Expire \/ Sftp!Ask \/ Sftp!Created \/ Sftp!Collided
           \/ Sftp!CreateFailed \/ Sftp!CreateNotAsked \/ Sftp!CreatePending \/ Sftp!Written
           \/ Sftp!WriteFailed \/ Sftp!WritePending \/ Sftp!Closed \/ Sftp!CloseFailed
           \/ Sftp!Renamed \/ Sftp!RenameFailed \/ Sftp!RenamePending \/ Sftp!Unlinked
           \/ Sftp!UnlinkFailed \/ Sftp!Opened \/ Sftp!FetchStopped \/ Sftp!Fetched
  <2>1. \A h \in BOOLEAN : Sftp!CleanUp(h) => dst' = dst
    BY DEF Sftp!CleanUp
  <2> QED BY <1>9, <2>1
      DEF Sftp!Cancel, Sftp!Expire, Sftp!Ask, Sftp!Created, Sftp!Collided, Sftp!CreateFailed,
          Sftp!CreateNotAsked, Sftp!CreatePending, Sftp!Written, Sftp!WriteFailed,
          Sftp!WritePending,
          Sftp!Closed, Sftp!CloseFailed, Sftp!Renamed, Sftp!RenameFailed, Sftp!RenamePending,
          Sftp!Unlinked, Sftp!UnlinkFailed, Sftp!Opened, Sftp!FetchStopped, Sftp!Fetched
<1> QED BY <1>4, <1>5, <1>6, <1>7, <1>8, <1>9 DEF Sftp!Next

\* The private name of somebody else is found taken: it is left alone, at once and by
\* every request that was given up on.
LEMMA TheirsStays ==
  SftpInv /\ [Sftp!Next]_sftpVars => (staged = Theirs => call = "idle" \/ staged' = Theirs)
<1> SUFFICES ASSUME SftpInv, [Sftp!Next]_sftpVars, staged = Theirs, call # "idle"
             PROVE  staged' = staged
  OBVIOUS
<1>1. /\ staged \notin {None, Part, New} /\ call \in {"create", "ended"}
      /\ wire \cap {"write", "unlink"} = {} /\ ("rename" \in wire => job.kind = "move")
  BY ContentsAssumption
     DEF SftpInv, SftpTypes, SftpControl, SftpPlaces, StagedAsCalled, GivenUp, Staging, Sftp!Call
<1>2. CASE \E a \in {"ok", "exists", "error"} : Sftp!Serve(a)
  <2>1. req.answer = "awaited" /\ req.call = "create" /\ staged # None
    BY <1>1, <1>2, RequestFacts, ContentsAssumption DEF Sftp!Serve, Sftp!Idle, Sftp!Call
  <2> QED BY <1>2, <2>1 DEF Sftp!Serve, Sftp!Carry
<1>3. CASE \E c \in Sftp!Call : Sftp!ServeLate(c)
  BY <1>1, <1>3, ContentsAssumption DEF Sftp!ServeLate, Sftp!Carry
<1>4. CASE ~(\E a \in {"ok", "exists", "error"} : Sftp!Serve(a))
            /\ ~(\E c \in Sftp!Call : Sftp!ServeLate(c))
  BY <1>1, <1>4, ContentsAssumption
     DEF Sftp!Next, sftpVars, Sftp!Begin, Sftp!Cancel, Sftp!Expire, Sftp!Ask, Sftp!Created,
         Sftp!Collided, Sftp!CreateFailed, Sftp!CreateNotAsked, Sftp!CreatePending, Sftp!Written,
         Sftp!WriteFailed, Sftp!WritePending, Sftp!Closed, Sftp!CloseFailed, Sftp!Renamed,
         Sftp!RenameFailed, Sftp!RenamePending, Sftp!Unlinked, Sftp!UnlinkFailed, Sftp!Opened,
         Sftp!FetchStopped, Sftp!Fetched, Sftp!Commit, Sftp!Answered, Sftp!Pending, Sftp!NotAsked
<1> QED BY <1>2, <1>3, <1>4

\* A transfer touches neither a file that it may not overwrite nor a private name that
\* somebody else had taken.
THEOREM TransfersLeaveOthers == ServicesSpec => Sftp!NothingElseIsTouched
<1>1. ServicesInit => SftpInv
  BY InitSftp
<1>2. SftpInv /\ [ServicesNext]_allVars => SftpInv'
  BY Frames, SftpInvKept
<1>3. SftpInv /\ [ServicesNext]_allVars => [dst = Old /\ dst' # Old => job.overwrite]_sftpVars
  BY Frames, OverwritesAreAsked
<1>4. SftpInv /\ [ServicesNext]_allVars =>
        [staged = Theirs => call = "idle" \/ staged' = Theirs]_sftpVars
  BY Frames, TheirsStays
<1> QED
  BY <1>1, <1>2, <1>3, <1>4, PTL
     DEF ServicesSpec, Sftp!NothingElseIsTouched, Sftp!OverwriteIsAsked, Sftp!TheirsIsUntouched,
         Sftp!vars, sftpVars

\* ssh_client.cpp, tool_router.cpp and the uploads: a file that a restart would find
\* is whole, the old one or the new, and every report of an operation or a transfer,
\* and of what it leaves behind, is true.  A card that lost the end of a file without
\* an error would break it: see QuietFlush.
THEOREM FilesTrue == ASSUME QuietFlush = FALSE PROVE ServicesSpec => []FilesAreAsTold
<1>1. ServicesInit => FilesInv /\ SftpInv
  BY InitFiles, InitSftp
<1>2. FilesInv /\ [ServicesNext]_allVars => FilesInv'
  BY QuietFlush = FALSE, Frames, FilesInvKept
<1>3. SftpInv /\ [ServicesNext]_allVars => SftpInv'
  BY Frames, SftpInvKept
<1>4. FilesInv /\ SftpInv => FilesAreAsTold
  BY FilesAreWholeNow, SftpIsAsTold DEF FilesAreAsTold
<1> QED
  BY <1>1, <1>2, <1>3, <1>4, PTL DEF ServicesSpec

\* No command, transfer, tool or restart changes what it was not asked to: not what
\* the user has put into a fixture, not the file of somebody else, not a file outside
\* the project.
THEOREM NothingElse == ASSUME QuietFlush = FALSE PROVE ServicesSpec => OthersStay
  BY QuietFlush = FALSE, LargeIsCleaned, SharedIsCleaned, UnicodeIsCleaned, TransfersLeaveOthers,
     ToolsLeaveOthers
     DEF OthersStay
=============================================================================
