--------------------------- MODULE EventLogProofs ---------------------------
(***************************************************************************)
(* Proofs about the event log, for every number of writers, traces and     *)
(* tasks, every size of the ring and of the channel:                       *)
(*   - the ring buffer alone implements TraceLog;                          *)
(*   - both logs, below the queue and the cleaner, implement TraceLog;     *)
(*   - Close loses nothing the queue has accepted;                         *)
(*   - a writer panics only after Stop has given up waiting for it;        *)
(*   - the index and the scan find the same entries;                       *)
(*   - a query that no deletion has torn finds what lasts.                 *)
(*                                                                         *)
(* The refinement needs that an entry is recorded at most once.  Entries   *)
(* are numbered as they are made and go through the channel in order, so   *)
(* what is in the channel is increasing and above all that is recorded     *)
(* (InOrder).  The index rests on the same order: an entry that is taken   *)
(* from the channel is in no index and known to no query or cleaner (IInv).*)
(***************************************************************************)
EXTENDS EventLog, SequenceTheorems, FiniteSetTheorems, WellFoundedInduction, TLAPS

-----------------------------------------------------------------------------
(* The ring buffer implements the bounded log of TraceLog, for every size  *)
(* and every set of entries.  The argument is about positions: the i-th    *)
(* entry, the oldest first, is at head - count + i - 1, taken round the    *)
(* ring once at most.  An append moves head and, as long as the ring is    *)
(* not full, count; no position of an entry that stays changes, and the    *)
(* position that is written is none of theirs.                             *)

\* One turn of the ring at most.
LEMMA ModOnce ==
    ASSUME NEW n \in Nat \ {0}, NEW x \in 0..(2 * n - 1)
    PROVE  x % n = IF x < n THEN x ELSE x - n
<1>1. CASE x < n
  BY <1>1
<1>2. CASE ~(x < n)
  BY <1>2
<1> QED
  BY <1>1, <1>2

\* Append moves the position of the next write to the next slot, or to the first.
LEMMA AdvanceOnce ==
    ASSUME NEW h \in 0..(RingSize - 1)
    PROVE  Advance(h) = IF h = RingSize - 1 THEN 0 ELSE h + 1
<1>1. h + 1 \in 0..(2 * RingSize - 1)
  BY RingAssumption
<1>2. (h + 1) % RingSize = IF h + 1 < RingSize THEN h + 1 ELSE h + 1 - RingSize
  BY <1>1, ModOnce, RingAssumption
<1> QED
  BY <1>2, RingAssumption DEF Advance

\* Where the i-th of c entries is when the next one goes to position h.
Position(h, c, i) == IF h - c + i - 1 >= 0 THEN h - c + i - 1 ELSE h - c + i - 1 + RingSize

LEMMA SlotPosition ==
    ASSUME NEW h \in 0..(RingSize - 1), NEW c \in 0..RingSize, NEW i \in 1..c
    PROVE  /\ (h - c + (i - 1) + RingSize) % RingSize = Position(h, c, i)
           /\ Position(h, c, i) \in 0..(RingSize - 1)
<1> DEFINE x == h - c + (i - 1) + RingSize
<1>1. x \in 0..(2 * RingSize - 1)
  BY RingAssumption
<1>2. x % RingSize = IF x < RingSize THEN x ELSE x - RingSize
  BY <1>1, ModOnce, RingAssumption
<1> QED
  BY <1>1, <1>2, RingAssumption DEF Position

\* What the ring holds, by position, is a sequence.
LEMMA Contents ==
    ASSUME NEW r \in [0..(RingSize - 1) -> Entries \cup {NoEntry}],
           NEW h \in 0..(RingSize - 1), NEW c \in 0..RingSize
    PROVE  /\ [i \in 1..c |-> r[(h - c + (i - 1) + RingSize) % RingSize]]
                 = [i \in 1..c |-> r[Position(h, c, i)]]
           /\ [i \in 1..c |-> r[Position(h, c, i)]] \in Seq(Entries \cup {NoEntry})
<1>1. \A i \in 1..c : /\ (h - c + (i - 1) + RingSize) % RingSize = Position(h, c, i)
                      /\ r[Position(h, c, i)] \in Entries \cup {NoEntry}
  BY SlotPosition
<1>2. c \in Nat
  BY RingAssumption
<1> QED
  BY <1>1, <1>2

LEMMA ContentsByPosition ==
    ASSUME RingTypeOK
    PROVE  /\ RingContents = [i \in 1..count |-> ring[Position(head, count, i)]]
           /\ RingContents \in Seq(Entries \cup {NoEntry})
BY Contents DEF RingTypeOK, RingContents, Slot

\* What Append does, and what is left when the oldest entry then goes.
LEMMA AppendFacts ==
    ASSUME NEW S, NEW s \in Seq(S), NEW e \in S
    PROVE  /\ Append(s, e) \in Seq(S) /\ Len(Append(s, e)) = Len(s) + 1
           /\ \A i \in 1..(Len(s) + 1) :
                Append(s, e)[i] = IF i = Len(s) + 1 THEN e ELSE s[i]
OBVIOUS

LEMMA TailOfAppend ==
    ASSUME NEW S, NEW s \in Seq(S), NEW e \in S, Len(s) > 0
    PROVE  /\ Tail(Append(s, e)) \in Seq(S) /\ Len(Tail(Append(s, e))) = Len(s)
           /\ \A i \in 1..Len(s) :
                Tail(Append(s, e))[i] = IF i = Len(s) THEN e ELSE s[i + 1]
<1> DEFINE t == Append(s, e)
<1>1. t \in Seq(S) /\ Len(t) = Len(s) + 1
  BY AppendFacts
<1>2. \A i \in 1..(Len(s) + 1) : t[i] = IF i = Len(s) + 1 THEN e ELSE s[i]
  BY AppendFacts
<1>3. Len(s) \in Nat
  OBVIOUS
<1> HIDE DEF t
<1>4. t # <<>>
  BY <1>1, <1>3
<1>5. Tail(t) \in Seq(S) /\ Len(Tail(t)) = Len(s) /\ \A i \in 1..Len(s) : Tail(t)[i] = t[i + 1]
  BY <1>1, <1>3, <1>4
<1> QED
  BY <1>2, <1>3, <1>5 DEF t

\* The types survive every operation on the ring.
LEMMA RingTypeStep ==
    ASSUME RingTypeOK
    PROVE  /\ \A e \in Entries : RingAppend(e) => RingTypeOK'
           /\ RingReset => RingTypeOK'
           /\ RingClose => RingTypeOK'
<1>1. ASSUME NEW e \in Entries, RingAppend(e) PROVE RingTypeOK'
  <2>1. head' \in 0..(RingSize - 1)
    BY <1>1, AdvanceOnce, RingAssumption DEF RingTypeOK, RingAppend
  <2>2. count' \in 0..RingSize
    BY <1>1, RingAssumption DEF RingTypeOK, RingAppend
  <2>3. ring' \in [0..(RingSize - 1) -> Entries \cup {NoEntry}]
    BY <1>1 DEF RingTypeOK, RingAppend
  <2> QED
    BY <2>1, <2>2, <2>3 DEF RingTypeOK
<1>2. RingReset => RingTypeOK'
  BY RingAssumption DEF RingTypeOK, RingReset
<1>3. RingClose => RingTypeOK'
  BY RingAssumption DEF RingTypeOK, RingClose
<1> QED
  BY <1>1, <1>2, <1>3

\* An append adds the new entry at the end, and a full ring loses its oldest one.
LEMMA AppendIsRecorded ==
    ASSUME RingTypeOK, NEW e \in Entries, RingAppend(e)
    PROVE  RingContents' = IF count = RingSize THEN Tail(Append(RingContents, e))
                           ELSE Append(RingContents, e)
<1>1. RingTypeOK'
  BY RingTypeStep
<1>2. head' = IF head = RingSize - 1 THEN 0 ELSE head + 1
  BY AdvanceOnce DEF RingTypeOK, RingAppend
<1>3. /\ RingContents = [i \in 1..count |-> ring[Position(head, count, i)]]
      /\ RingContents \in Seq(Entries \cup {NoEntry})
  BY ContentsByPosition
<1>4. /\ RingContents' = [i \in 1..count' |-> ring'[Position(head', count', i)]]
      /\ RingContents' \in Seq(Entries \cup {NoEntry})
  <2>1. RingContents' = [i \in 1..count' |->
                           ring'[(head' - count' + (i - 1) + RingSize) % RingSize]]
    BY DEF RingContents, Slot
  <2> QED
    BY <1>1, <2>1, Contents DEF RingTypeOK
<1> DEFINE new == IF count = RingSize THEN Tail(Append(RingContents, e))
                  ELSE Append(RingContents, e)
           shift == IF count = RingSize THEN 1 ELSE 0
<1>5. /\ new \in Seq(Entries \cup {NoEntry}) /\ Len(new) = count'
      /\ \A i \in 1..count' :
           new[i] = IF i = count' THEN e ELSE RingContents[i + shift]
  <2>1. RingContents \in Seq(Entries \cup {NoEntry}) /\ Len(RingContents) = count
    BY <1>3, RingAssumption DEF RingTypeOK
  <2>2. CASE count = RingSize
    BY <2>1, <2>2, TailOfAppend, RingAssumption, SMTT(30) DEF RingAppend
  <2>3. CASE count < RingSize
    BY <2>1, <2>3, AppendFacts, RingAssumption DEF RingAppend
  <2> QED
    BY <2>2, <2>3, RingAssumption DEF RingTypeOK
<1>6. \A i \in 1..count' :
        ring'[Position(head', count', i)] =
          IF i = count' THEN e ELSE ring[Position(head, count, i + shift)]
  <2> TAKE i \in 1..count'
  <2>1. Position(head', count', count') = head
    BY <1>2, RingAssumption DEF RingTypeOK, RingAppend, Position
  <2>2. ASSUME i # count'
        PROVE  /\ Position(head', count', i) = Position(head, count, i + shift)
               /\ Position(head, count, i + shift) # head
               /\ i + shift \in 1..count
    BY <1>2, <2>2, RingAssumption DEF RingTypeOK, RingAppend, Position
  <2>3. ASSUME i # count'
        PROVE  ring'[Position(head', count', i)] = ring[Position(head, count, i + shift)]
    <3>1. Position(head, count, i + shift) \in 0..(RingSize - 1)
      BY <2>2, <2>3, SlotPosition DEF RingTypeOK
    <3> QED
      BY <2>2, <2>3, <3>1 DEF RingTypeOK, RingAppend
  <2> QED
    BY <2>1, <2>3 DEF RingTypeOK, RingAppend
<1>7. \A i \in 1..count' : i # count' => i + shift \in 1..count
  BY RingAssumption DEF RingTypeOK, RingAppend
<1>8. \A i \in 1..count' : RingContents'[i] = new[i]
  BY <1>3, <1>4, <1>5, <1>6, <1>7, ZenonT(30)
<1>9. /\ new = [i \in 1..count' |-> new[i]]
      /\ RingContents' = [i \in 1..count' |-> RingContents'[i]]
  BY <1>4, <1>5
<1> QED
  BY <1>8, <1>9

\* Nothing is kept once the number of entries is zero.
LEMMA EmptyContents ==
    /\ RingInit => RingContents = <<>>
    /\ RingReset \/ RingClose => RingContents' = <<>>
BY DEF RingInit, RingReset, RingClose, RingContents

-----------------------------------------------------------------------------
\* The ring keeps its types: head stays inside the array and count never passes
\* the size, through any number of turns.
THEOREM RingTypeCorrect == RingSpec => []RingTypeOK
<1>1. RingInit => RingTypeOK
  BY RingAssumption DEF RingInit, RingTypeOK
<1>2. RingTypeOK /\ [RingNext]_ringVars => RingTypeOK'
  <2> SUFFICES ASSUME RingTypeOK, [RingNext]_ringVars PROVE RingTypeOK'
    OBVIOUS
  <2>1. CASE UNCHANGED ringVars
    BY <2>1 DEF ringVars, RingTypeOK
  <2>2. CASE RingNext
    BY <2>2, RingTypeStep DEF RingNext
  <2> QED
    BY <2>1, <2>2
<1> QED
  BY <1>1, <1>2, PTL DEF RingSpec

\* The ring buffer of ringbuffer.go implements the log that keeps the newest
\* RingSize entries in order (Append), and is emptied as a whole (Close).
THEOREM RingImplementsLog == RingSpec => Kept!Spec
<1>1. RingInit => Kept!Init
  BY EmptyContents DEF Kept!Init
<1>2. RingTypeOK /\ [RingNext]_ringVars => [Kept!Next]_<<FALSE, RingContents, {}, {}>>
  <2> SUFFICES ASSUME RingTypeOK, [RingNext]_ringVars
               PROVE  [Kept!Next]_<<FALSE, RingContents, {}, {}>>
    OBVIOUS
  <2>1. CASE UNCHANGED ringVars
    BY <2>1 DEF ringVars, RingContents, Slot
  <2>2. CASE \E e \in Entries : (\A i \in 1..count : RingContents[i] # e) /\ RingAppend(e)
    <3> PICK e \in Entries : (\A i \in 1..count : RingContents[i] # e) /\ RingAppend(e)
      BY <2>2
    <3>1. RingContents \in Seq(Entries \cup {NoEntry}) /\ Len(RingContents) = count
      BY ContentsByPosition, RingAssumption DEF RingTypeOK
    <3>2. e \in Entries \ Kept!Recorded
      BY <3>1 DEF Kept!Recorded
    <3>3. Len(Append(RingContents, e)) = count + 1
      BY <3>1, AppendFacts
    <3>4. RingContents' = Kept!Kept(Append(RingContents, e))
      BY <3>3, AppendIsRecorded, RingAssumption DEF Kept!Kept, RingTypeOK
    <3> QED
      BY <3>2, <3>4 DEF Kept!Next, Kept!Record
  <2>3. CASE RingReset \/ RingClose
    BY <2>3, EmptyContents DEF Kept!Next, Kept!Reset
  <2> QED
    BY <2>1, <2>2, <2>3 DEF RingNext
<1> QED
  BY <1>1, <1>2, RingTypeCorrect, PTL DEF RingSpec, Kept!Spec

-----------------------------------------------------------------------------
(* The log with its queue, its cleaner and Close.                          *)

\* The types the proofs need.
LogTypes ==
    /\ RingTypeOK
    /\ label \in Seq(Labels) /\ ch \in Seq(Entries) /\ rows \subseteq Entries
    /\ late \in BOOLEAN /\ wpc \in [Writers -> {"idle", "busy", "gone"}]

\* Entries leave the channel in the order in which they were made, and what is
\* recorded, in whichever log, was made before what is in the channel.
InOrder ==
    /\ \A i \in 1..Len(ch) : ch[i] <= Len(label)
    /\ \A i, j \in 1..Len(ch) : i < j => ch[i] < ch[j]
    /\ \A p \in 0..(RingSize - 1) :
         ring[p] <= Len(label) /\ \A j \in 1..Len(ch) : ring[p] < ch[j]
    /\ \A e \in rows : e <= Len(label) /\ \A j \in 1..Len(ch) : e < ch[j]

\* The order in which Stop shuts the log down.
Shutdown ==
    /\ ~open => stop \in {"closing", "closed"}
    /\ (stop = "closed" /\ HasLog) => cpc = "gone"
    /\ cpc = "gone" => ch = <<>> /\ ~open /\ cur = NoEntry
    /\ cpc = "recv" => cur = NoEntry
    /\ (stop \in {"waited", "closing", "closed"} /\ ~late) =>
          \A w \in Writers : wpc[w] = "gone"
    /\ panicked => late /\ stop \notin {"running", "cancelled"}

LInv == LogTypes /\ InOrder /\ Shutdown /\ (down => kind = "unknown")

-----------------------------------------------------------------------------
\* Taking the first entry from the channel.
LEMMA HeadAndTail ==
    ASSUME NEW S, NEW s \in Seq(S), s # <<>>
    PROVE  /\ Head(s) \in S /\ Head(s) = s[1] /\ Len(s) >= 1
           /\ Tail(s) \in Seq(S) /\ Len(Tail(s)) = Len(s) - 1
           /\ \A i \in 1..Len(Tail(s)) : Tail(s)[i] = s[i + 1]
OBVIOUS

\* The sequence without its i-th element, which holds nothing new.
Dropped(s, i) == SubSeq(s, 1, i - 1) \o SubSeq(s, i + 1, Len(s))

LEMMA WithoutOne ==
    ASSUME NEW S, NEW s \in Seq(S), NEW i \in 1..Len(s)
    PROVE  /\ Dropped(s, i) \in Seq(S) /\ Len(Dropped(s, i)) = Len(s) - 1
           /\ \A j \in 1..(Len(s) - 1) :
                Dropped(s, i)[j] = IF j < i THEN s[j] ELSE s[j + 1]
           /\ \A j \in 1..Len(Dropped(s, i)) :
                \E k \in 1..Len(s) : Dropped(s, i)[j] = s[k]
<1> DEFINE a == SubSeq(s, 1, i - 1)
           b == SubSeq(s, i + 1, Len(s))
           t == Dropped(s, i)
<1>1. a \in Seq(S) /\ Len(a) = i - 1 /\ \A j \in 1..(i - 1) : a[j] = s[j]
  OBVIOUS
<1>2. b \in Seq(S) /\ Len(b) = Len(s) - i /\ \A j \in 1..(Len(s) - i) : b[j] = s[j + i]
  OBVIOUS
<1>0. t = a \o b
  BY DEF Dropped
<1> HIDE DEF a, b, t
<1>3. /\ a \o b \in Seq(S) /\ Len(a \o b) = Len(a) + Len(b)
      /\ \A j \in 1..(Len(a) + Len(b)) :
           (a \o b)[j] = IF j <= Len(a) THEN a[j] ELSE b[j - Len(a)]
  BY <1>1, <1>2, ConcatProperties
<1>4. Len(s) \in Nat /\ Len(t) = Len(s) - 1
  BY <1>0, <1>1, <1>2, <1>3
<1>5. \A j \in 1..(Len(s) - 1) : t[j] = IF j < i THEN s[j] ELSE s[j + 1]
  <2> TAKE j \in 1..(Len(s) - 1)
  <2>1. CASE j < i
    BY <1>0, <1>1, <1>2, <1>3, <1>4, <2>1
  <2>2. CASE ~(j < i)
    <3>1. t[j] = b[j - (i - 1)] /\ j - (i - 1) \in 1..(Len(s) - i)
      BY <1>0, <1>1, <1>2, <1>3, <1>4, <2>2
    <3> QED
      BY <1>2, <1>4, <2>2, <3>1
  <2> QED
    BY <2>1, <2>2
<1>6. \A j \in 1..Len(t) : \E k \in 1..Len(s) : t[j] = s[k]
  BY <1>4, <1>5
<1> QED
  BY <1>0, <1>3, <1>4, <1>5, <1>6 DEF t

-----------------------------------------------------------------------------
\* What an action does to the entries: most do nothing.
LEMMA EntrySteps ==
    ASSUME Next
    PROVE  /\ kind' = kind
           /\ \/ UNCHANGED <<ringVars, label, ch, rows>>
              \/ \E w \in Writers, l \in Labels : AppendAsync(w, l)
              \/ TakeMemory \/ TakeDB \/ TakeFails \/ CleanDelete \/ CloseInner \/ Crash
<1>1. CASE Write
  <2>1. CASE \E w \in Writers : Receive(w) \/ Finish(w) \/ Exit(w) \/ AppendPanics(w)
    BY <2>1 DEF Receive, Finish, Exit, AppendPanics, logVars
  <2>2. CASE \E w \in Writers, l \in Labels : AppendAsync(w, l)
    BY <2>2 DEF AppendAsync
  <2> QED
    BY <1>1, <2>1, <2>2 DEF Write
<1>2. CASE Process
  BY <1>2 DEF Process, TakeMemory, TakeDB, TakeFails, IndexTrace, IndexTask, LoopEnds, logVars, writeVars
<1>3. CASE Cleaning
  BY <1>3 DEF Cleaning, Clean, CleanDelete, CleanTrace, CleanTask, CleanDone, Age, logVars, writeVars
<1>4. CASE Querying
  BY <1>4 DEF Querying, GetRow, EndQuery, BeginQuery, logVars, writeVars
<1>5. CASE Stopping
  BY <1>5 DEF Stopping, Cancel, Wait, CloseChannel, CloseInner, logVars, writeVars
<1>6. CASE Crash
  BY <1>6 DEF Crash
<1> QED
  BY <1>1, <1>2, <1>3, <1>4, <1>5, <1>6 DEF Next

\* A set of numbers that is not empty has a least element.
LEMMA LeastOf ==
    ASSUME NEW T, T \subseteq Nat, T # {}
    PROVE  \E x \in T : \A y \in T : x <= y
<1> DEFINE R == OpToRel(<, Nat)
<1>1. IsWellFoundedOn(R, Nat)
  BY NatLessThanWellFounded
<1> HIDE DEF R
<1>2. PICK x \in T : \A y \in T : ~(<<y, x>> \in R)
  BY <1>1, WFMin
<1>3. \A y \in Nat : y < x => <<y, x>> \in R
  BY DEF R, OpToRel
<1>4. \A y \in T : y \in Nat /\ ~(y < x)
  BY <1>2, <1>3
<1> QED
  BY <1>4

\* Taking an element out is dropping a position, if it is there.
LEMMA RemovedIsDropped ==
    ASSUME NEW S, NEW s \in Seq(S), NEW e, e \in Elems(s)
    PROVE  \E i \in 1..Len(s) : s[i] = e /\ Removed(s, e) = Dropped(s, i)
<1> DEFINE T == {i \in DOMAIN s : s[i] = e}
<1>1. DOMAIN s = 1..Len(s) /\ Len(s) \in Nat
  OBVIOUS
<1>2. T \subseteq Nat /\ T # {}
  BY <1>1 DEF Elems
<1> HIDE DEF T
<1>3. PICK i \in T : \A j \in T : i <= j
  BY <1>2, LeastOf
<1>4. i \in DOMAIN s /\ s[i] = e /\ \A j \in 1..(i - 1) : s[j] # e
  BY <1>1, <1>3 DEF T
<1>5. PositionOf(s, e) \in DOMAIN s /\ s[PositionOf(s, e)] = e
  BY <1>4 DEF PositionOf
<1> QED
  BY <1>1, <1>5 DEF Removed, Dropped

LEMMA TypesStep ==
    ASSUME LInv, Next
    PROVE  LogTypes'
<1> USE DEF LInv
<1>1. RingTypeOK' /\ label' \in Seq(Labels) /\ ch' \in Seq(Entries) /\ rows' \subseteq Entries
  <2>1. CASE UNCHANGED <<ringVars, label, ch, rows>>
    BY <2>1 DEF LogTypes, RingTypeOK, ringVars
  <2>2. ASSUME NEW w \in Writers, NEW l \in Labels, AppendAsync(w, l)
        PROVE  RingTypeOK' /\ label' \in Seq(Labels) /\ ch' \in Seq(Entries) /\ rows' \subseteq Entries
    <3>1. RingTypeOK' /\ rows' \subseteq Entries
      BY <2>2 DEF AppendAsync, LogTypes, RingTypeOK, ringVars, logVars
    <3>2. CASE Len(ch) < ChanSize
      <4>1. label' = Append(label, l) /\ ch' = Append(ch, Len(label) + 1) /\ Len(label) + 1 \in Entries
        BY <2>2, <3>2 DEF AppendAsync
      <4> QED
        BY <3>1, <4>1, AppendFacts DEF LogTypes
    <3>3. CASE ~(Len(ch) < ChanSize)
      BY <2>2, <3>1, <3>3 DEF AppendAsync, LogTypes
    <3> QED
      BY <3>2, <3>3
  <2>3. CASE TakeMemory
    <3>1. Head(ch) \in Entries /\ ch' \in Seq(Entries)
      BY <2>3, HeadAndTail DEF TakeMemory, LogTypes
    <3> QED
      BY <2>3, <3>1, RingTypeStep DEF TakeMemory, LogTypes, writeVars
  <2>4. CASE TakeDB
    <3>1. Head(ch) \in Entries /\ ch' \in Seq(Entries)
      BY <2>4, HeadAndTail DEF TakeDB, LogTypes
    <3> QED
      BY <2>4, <3>1 DEF TakeDB, Set, LogTypes, RingTypeOK, ringVars, writeVars
  <2>5. CASE TakeFails
    BY <2>5, HeadAndTail DEF TakeFails, LogTypes, RingTypeOK, ringVars, writeVars, logVars
  <2>6. CASE CleanDelete
    <3>1. rows' \subseteq Entries
      BY <2>6 DEF CleanDelete, Delete, LogTypes
    <3> QED
      BY <2>6, <3>1 DEF CleanDelete, LogTypes, RingTypeOK, ringVars, writeVars
  <2>7. CASE CloseInner
    BY <2>7, RingTypeStep DEF CloseInner, LogTypes, writeVars
  <2>8. CASE Crash
    BY <2>8, RingTypeStep DEF Crash, LogTypes
  <2> QED
    BY <2>1, <2>2, <2>3, <2>4, <2>5, <2>6, <2>7, <2>8, EntrySteps
<1>2. late' \in BOOLEAN /\ wpc' \in [Writers -> {"idle", "busy", "gone"}]
  <2>1. CASE Write
    BY <2>1 DEF Write, Receive, Finish, Exit, AppendPanics, AppendAsync, LogTypes, stopVars
  <2>2. CASE Process
    BY <2>2 DEF Process, TakeMemory, TakeDB, TakeFails, IndexTrace, IndexTask, LoopEnds,
                LogTypes, stopVars, writeVars
  <2>3. CASE Cleaning
    BY <2>3 DEF Cleaning, Clean, CleanDelete, CleanTrace, CleanTask, CleanDone, Age,
                LogTypes, stopVars, writeVars
  <2>4. CASE Querying
    BY <2>4 DEF Querying, GetRow, EndQuery, BeginQuery, LogTypes, stopVars, writeVars
  <2>5. CASE Stopping
    BY <2>5 DEF Stopping, Cancel, Wait, CloseChannel, CloseInner, LogTypes, stopVars, writeVars
  <2>6. CASE Crash
    BY <2>6 DEF Crash
  <2> QED
    BY <2>1, <2>2, <2>3, <2>4, <2>5, <2>6 DEF Next
<1> QED
  BY <1>1, <1>2 DEF LogTypes

LEMMA EntriesAreNumbers ==
    /\ \A e \in Entries : e \in Int
    /\ NoEntry \in Int
BY RingAssumption DEF NoEntry

\* Taking the first entry of the channel keeps the rest in order and above
\* what was recorded, that entry included.
LEMMA TakeKeepsOrder ==
    ASSUME LInv, ch # <<>>, ch' = Tail(ch), label' = label
    PROVE  /\ Head(ch) \in Entries /\ Head(ch) <= Len(label)
           /\ \A i \in 1..Len(ch') : ch'[i] <= Len(label')
           /\ \A i, j \in 1..Len(ch') : i < j => ch'[i] < ch'[j]
           /\ \A j \in 1..Len(ch') : Head(ch) < ch'[j]
           /\ \A p \in 0..(RingSize - 1), j \in 1..Len(ch') : ring[p] < ch'[j]
           /\ \A e \in rows, j \in 1..Len(ch') : e < ch'[j]
<1>1. /\ Head(ch) \in Entries /\ Head(ch) = ch[1] /\ Len(ch) >= 1
      /\ Len(ch') = Len(ch) - 1 /\ Len(ch) \in Nat
      /\ \A i \in 1..Len(ch') : ch'[i] = ch[i + 1]
  BY HeadAndTail DEF LInv, LogTypes
<1>2. \A i \in 1..Len(ch') : i + 1 \in 1..Len(ch)
  BY <1>1
<1>3. \A i \in 1..Len(ch) : ch[i] <= Len(label)
  BY DEF LInv, InOrder
<1>4. \A i, j \in 1..Len(ch) : i < j => ch[i] < ch[j]
  BY DEF LInv, InOrder
<1>5. Head(ch) <= Len(label) /\ \A i \in 1..Len(ch') : ch'[i] <= Len(label')
  BY <1>1, <1>2, <1>3
<1>6. /\ \A i, j \in 1..Len(ch') : i < j => ch'[i] < ch'[j]
      /\ \A j \in 1..Len(ch') : Head(ch) < ch'[j]
  BY <1>1, <1>2, <1>4
<1>7. \A p \in 0..(RingSize - 1), j \in 1..Len(ch') : ring[p] < ch'[j]
  BY <1>1, <1>2 DEF LInv, InOrder
<1>8. \A e \in rows, j \in 1..Len(ch') : e < ch'[j]
  BY <1>1, <1>2 DEF LInv, InOrder
<1> QED
  BY <1>1, <1>5, <1>6, <1>7, <1>8

\* No action puts an entry out of order.
LEMMA OrderStep ==
    ASSUME LInv, Next
    PROVE  InOrder'
<1>1. CASE UNCHANGED <<ringVars, label, ch, rows>>
  BY <1>1 DEF LInv, InOrder, ringVars
<1>2. ASSUME NEW w \in Writers, NEW l \in Labels, AppendAsync(w, l) PROVE InOrder'
  <2>1. CASE Len(ch) < ChanSize
    <3>1. /\ label' = Append(label, l) /\ ch' = Append(ch, Len(label) + 1)
          /\ UNCHANGED <<ring, rows>> /\ Len(label) + 1 \in Entries
      BY <1>2, <2>1 DEF AppendAsync, ringVars, logVars
    <3>2. /\ Len(label') = Len(label) + 1 /\ Len(label) \in Nat /\ Len(ch) \in Nat
          /\ Len(ch') = Len(ch) + 1
          /\ \A i \in 1..(Len(ch) + 1) :
               ch'[i] = IF i = Len(ch) + 1 THEN Len(label) + 1 ELSE ch[i]
      BY <3>1, AppendFacts DEF LInv, LogTypes
    <3>3. \A i \in 1..Len(ch) : ch[i] \in Int
      <4>1. \A i \in 1..Len(ch) : ch[i] \in Entries
        BY ElementOfSeq DEF LInv, LogTypes
      <4> QED
        BY <4>1, EntriesAreNumbers
    <3>4. \A p \in 0..(RingSize - 1) : ring[p] \in Int
      <4>1. \A p \in 0..(RingSize - 1) : ring[p] \in Entries \cup {NoEntry}
        BY DEF LInv, LogTypes, RingTypeOK
      <4> QED
        BY <4>1, EntriesAreNumbers
    <3>5. \A e \in rows : e \in Int
      BY EntriesAreNumbers DEF LInv, LogTypes
    <3>6. /\ \A i \in 1..Len(ch') : ch'[i] <= Len(label')
          /\ \A i, j \in 1..Len(ch') : i < j => ch'[i] < ch'[j]
      <4>1. \A i \in 1..Len(ch) : ch[i] <= Len(label)
        BY DEF LInv, InOrder
      <4>2. \A i, j \in 1..Len(ch) : i < j => ch[i] < ch[j]
        BY DEF LInv, InOrder
      <4>3. \A i \in 1..Len(ch') : i \in 1..Len(ch) \/ i = Len(ch) + 1
        BY <3>2
      <4> QED
        BY <3>2, <3>3, <4>1, <4>2, <4>3
    <3>7. \A p \in 0..(RingSize - 1) :
            ring'[p] <= Len(label') /\ \A j \in 1..Len(ch') : ring'[p] < ch'[j]
      BY <3>1, <3>2, <3>4 DEF LInv, InOrder
    <3>8. \A e \in rows' : e <= Len(label') /\ \A j \in 1..Len(ch') : e < ch'[j]
      BY <3>1, <3>2, <3>5 DEF LInv, InOrder
    <3> QED
      BY <3>6, <3>7, <3>8 DEF InOrder
  <2>2. CASE ~(Len(ch) < ChanSize)
    BY <1>2, <2>2 DEF AppendAsync, ringVars, logVars, LInv, InOrder
  <2> QED
    BY <2>1, <2>2
<1>3. CASE TakeMemory
  <2>1. /\ ch # <<>> /\ ch' = Tail(ch) /\ UNCHANGED <<label, rows>>
        /\ ring' = [ring EXCEPT ![head] = Head(ch)]
    BY <1>3 DEF TakeMemory, RingAppend, writeVars
  <2>2. \A p \in 0..(RingSize - 1) : ring'[p] = IF p = head THEN Head(ch) ELSE ring[p]
    BY <2>1 DEF LInv, LogTypes, RingTypeOK
  <2> QED
    BY <2>1, <2>2, TakeKeepsOrder DEF LInv, InOrder
<1>4. CASE TakeDB
  <2>1. /\ ch # <<>> /\ ch' = Tail(ch) /\ UNCHANGED <<label, ring>>
        /\ rows' = rows \cup {Head(ch)}
    BY <1>4 DEF TakeDB, Set, ringVars, writeVars
  <2> QED
    BY <2>1, TakeKeepsOrder DEF LInv, InOrder
<1>5. CASE TakeFails
  <2>1. ch # <<>> /\ ch' = Tail(ch) /\ UNCHANGED <<label, ring, rows>>
    BY <1>5 DEF TakeFails, ringVars, writeVars, logVars
  <2> QED
    BY <2>1, TakeKeepsOrder DEF LInv, InOrder
<1>6. CASE CleanDelete
  <2>1. UNCHANGED <<label, ring, ch>> /\ rows' \subseteq rows
    BY <1>6 DEF CleanDelete, Delete, ringVars, writeVars
  <2> QED
    BY <2>1 DEF LInv, InOrder
<1>7. CASE CloseInner
  BY <1>7 DEF CloseInner, RingClose, writeVars, LInv, InOrder
<1>8. CASE Crash
  BY <1>8, RingAssumption DEF Crash, RingReset, NoEntry, LInv, LogTypes, InOrder
<1> QED
  BY <1>1, <1>2, <1>3, <1>4, <1>5, <1>6, <1>7, <1>8, EntrySteps

\* No action disturbs the order of shutting down.
LEMMA ShutdownStep ==
    ASSUME LInv, Next
    PROVE  Shutdown' /\ (down' => kind' = "unknown")
<1> USE DEF LInv, Shutdown, HasLog
<1>1. CASE Write
  <2> PICK w \in Writers : \/ Receive(w) \/ Finish(w) \/ Exit(w) \/ AppendPanics(w)
                          \/ \E l \in Labels : AppendAsync(w, l)
    BY <1>1 DEF Write
  <2>1. CASE Receive(w)
    BY <2>1 DEF Receive, LogTypes, stopVars
  <2>2. CASE Finish(w)
    BY <2>2 DEF Finish, LogTypes, stopVars
  <2>3. CASE Exit(w)
    BY <2>3 DEF Exit, LogTypes, stopVars
  <2>4. CASE AppendPanics(w)
    BY <2>4 DEF AppendPanics, LogTypes, stopVars
  <2>5. CASE \E l \in Labels : AppendAsync(w, l)
    BY <2>5 DEF AppendAsync, LogTypes, stopVars
  <2> QED
    BY <2>1, <2>2, <2>3, <2>4, <2>5
<1>2. CASE Process
  <2>1. CASE TakeMemory
    BY <2>1 DEF TakeMemory, stopVars, writeVars
  <2>2. CASE TakeDB
    BY <2>2 DEF TakeDB, stopVars, writeVars
  <2>3. CASE TakeFails
    BY <2>3 DEF TakeFails, stopVars, writeVars
  <2>4. CASE IndexTrace
    BY <2>4 DEF IndexTrace, stopVars, writeVars
  <2>5. CASE IndexTask
    BY <2>5 DEF IndexTask, stopVars, writeVars
  <2>6. CASE LoopEnds
    BY <2>6 DEF LoopEnds, stopVars, writeVars
  <2> QED
    BY <1>2, <2>1, <2>2, <2>3, <2>4, <2>5, <2>6 DEF Process
<1>3. CASE Cleaning
  BY <1>3 DEF Cleaning, Clean, CleanDelete, CleanTrace, CleanTask, CleanDone, Age,
              stopVars, writeVars
<1>4. CASE Querying
  <2>1. UNCHANGED <<kind, wpc, ch, open, cpc, cur, stop, late, panicked, down>>
    BY <1>4 DEF Querying, GetRow, EndQuery, BeginQuery, stopVars, writeVars
  <2> QED
    BY <2>1
<1>5. CASE Stopping
  <2>1. CASE Cancel
    BY <2>1 DEF Cancel, LogTypes, writeVars
  <2>2. CASE Wait
    BY <2>2 DEF Wait, LogTypes, writeVars
  <2>3. CASE CloseChannel
    BY <2>3 DEF CloseChannel, LogTypes, writeVars
  <2>4. CASE CloseInner
    BY <2>4 DEF CloseInner, LogTypes, writeVars
  <2> QED
    BY <1>5, <2>1, <2>2, <2>3, <2>4 DEF Stopping
<1>6. CASE Crash
  BY <1>6 DEF Crash
<1> QED
  BY <1>1, <1>2, <1>3, <1>4, <1>5, <1>6 DEF Next

-----------------------------------------------------------------------------
\* The inductive invariant of the event log.
THEOREM LInvHolds == Spec => []LInv
<1>1. Init => LInv
  <2> SUFFICES ASSUME Init PROVE LInv
    OBVIOUS
  <2>1. LogTypes
    <3>1. RingTypeOK
      BY RingAssumption DEF Init, RingInit, RingTypeOK
    <3>2. label = <<>> /\ ch = <<>> /\ rows = {}
      BY DEF Init
    <3>3. late \in BOOLEAN /\ wpc \in [Writers -> {"idle", "busy", "gone"}]
      BY DEF Init
    <3> QED
      BY <3>1, <3>2, <3>3 DEF LogTypes
  <2>2. InOrder
    BY RingAssumption DEF Init, RingInit, InOrder, NoEntry
  <2>3. Shutdown /\ (down => kind = "unknown")
    BY DEF Init, Shutdown, HasLog
  <2> QED
    BY <2>1, <2>2, <2>3 DEF LInv
<1>2. LInv /\ [Next]_vars => LInv'
  <2> SUFFICES ASSUME LInv, [Next]_vars PROVE LInv'
    OBVIOUS
  <2>1. CASE Next
    BY <2>1, TypesStep, OrderStep, ShutdownStep DEF LInv
  <2>2. CASE UNCHANGED vars
    BY <2>2 DEF vars, ringVars, writeVars, logVars, stopVars, LInv, LogTypes, RingTypeOK,
                InOrder, Shutdown, HasLog
  <2> QED
    BY <2>1, <2>2
<1> QED
  BY <1>1, <1>2, PTL DEF Spec

\* When Stop has closed the log, the queue is empty and no entry is half
\* recorded: asyncEventLog.Close closes the channel and waits for processLoop.
THEOREM CloseFlushesHolds == Spec => []CloseFlushes
<1>1. LInv => CloseFlushes
  BY DEF LInv, Shutdown, CloseFlushes
<1> QED
  BY <1>1, LInvHolds, PTL

\* Append sends on the closed channel only after Stop's grace period has run
\* out on a writer, and the cleaner of a nil log is the only thing that ends
\* the process.
THEOREM PanicsExplainedHolds == Spec => []PanicsExplained
<1>1. LInv => PanicsExplained
  BY DEF LInv, Shutdown, PanicsExplained
<1> QED
  BY <1>1, LInvHolds, PTL

-----------------------------------------------------------------------------
(* The indexes and the queries.                                            *)

\* No ID occurs twice.
Distinct(s) == \A i, j \in 1..Len(s) : s[i] = s[j] => i = j

IndexTyped ==
    /\ index \in [Keys -> Seq(Entries)] /\ \A k \in Keys : Distinct(index[k])
    /\ aged \subseteq Entries /\ old \subseteq aged

\* Whatever an index, a query or the cleaner knows of was made before what is
\* in the channel.
Older(e) == e <= Len(label) /\ \A j \in 1..Len(ch) : e < ch[j]

KnownIsOlder ==
    /\ \A k \in Keys : \A e \in Elems(index[k]) : Older(e) /\ k \in KeysOf(e)
    /\ \A e \in aged : Older(e)
    /\ \A e \in query.whole : Older(e)

\* The loop writes its row before it indexes it, and the cleaner deletes rows
\* that are indexed already.
HalfDone ==
    /\ cpc \in {"trace", "task"} => kind = "db" /\ cur \in rows /\ cur \notin aged
    /\ clpc # "idle" => kind = "db"
    /\ clpc \in {"trace", "task"} => old # {} /\ Doomed \notin rows

\* On a database the index has the rows, but for the row whose index is under
\* construction or being undone.
RowsIndexed(k) ==
    /\ \A e \in Entries \ Pending : e \in Elems(index[k]) <=> e \in rows /\ k \in KeysOf(e)
    /\ cpc = "trace" => cur \notin Elems(index[k])
    /\ cpc = "task" => (cur \in Elems(index[k]) <=> k = label[cur].trace)
    /\ clpc = "task" /\ k = label[Doomed].trace => Doomed \notin Elems(index[k])

\* In memory it has what the ring holds.
RingIndexed(k) ==
    \A e \in Entries : e \in Elems(index[k]) <=> e \in Elems(RingContents) /\ k \in KeysOf(e)

Indexed ==
    /\ kind = "db" /\ stop # "closed" => \A k \in Keys : RowsIndexed(k)
    /\ kind # "db" => /\ rows = {} /\ Distinct(RingContents) /\ Elems(RingContents) \subseteq Entries
                      /\ \A k \in Keys : RingIndexed(k)

\* A query that the cleaner has not torn has found, or has still to read, what
\* was indexed when it began and is still stored.
Queries ==
    /\ query \in [key : Keys \cup {NoKey}, ids : Seq(Entries), found : SUBSET Entries,
                  whole : SUBSET Entries, torn : BOOLEAN]
    /\ Distinct(query.ids)
    /\ ~query.torn => query.whole \cap rows \subseteq query.found \cup Elems(query.ids)

IInv == IndexTyped /\ KnownIsOlder /\ HalfDone /\ Indexed /\ Queries

-----------------------------------------------------------------------------
\* A list without repetition has as many places as elements.
LEMMA CountDistinct ==
    ASSUME NEW S, NEW s \in Seq(S)
    PROVE  /\ IsFiniteSet(Elems(s))
           /\ Distinct(s) => Cardinality(Elems(s)) = Len(s)
<1>1. Len(s) \in Nat /\ s \in [1..Len(s) -> Elems(s)] /\ DOMAIN s = 1..Len(s)
  BY DEF Elems
<1>2. s \in Surjection(1..Len(s), Elems(s))
  BY <1>1 DEF Surjection, Elems
<1>3. IsFiniteSet(1..Len(s)) /\ Cardinality(1..Len(s)) = Len(s)
  BY <1>1, FS_Interval
<1>4. Distinct(s) => s \in Injection(1..Len(s), Elems(s))
  BY <1>1 DEF Injection, IsInjective, Distinct
<1> QED
  BY <1>2, <1>3, <1>4, FS_Surjection

\* What an append, the loss of the first and the removal of one do to the elements.
LEMMA AppendElems ==
    ASSUME NEW S, NEW s \in Seq(S), NEW e \in S
    PROVE  /\ Elems(Append(s, e)) = Elems(s) \cup {e}
           /\ Distinct(s) /\ e \notin Elems(s) => Distinct(Append(s, e))
<1> DEFINE t == Append(s, e)
<1>1. /\ t \in Seq(S) /\ Len(t) = Len(s) + 1 /\ Len(s) \in Nat
      /\ \A i \in 1..(Len(s) + 1) : t[i] = IF i = Len(s) + 1 THEN e ELSE s[i]
  BY AppendFacts
<1> HIDE DEF t
<1>2. DOMAIN t = 1..(Len(s) + 1) /\ DOMAIN s = 1..Len(s)
  BY <1>1
<1>3. Elems(t) = Elems(s) \cup {e}
  BY <1>1, <1>2 DEF Elems
<1>4. ASSUME Distinct(s), e \notin Elems(s) PROVE Distinct(t)
  <2>1. \A i \in 1..Len(s) : s[i] # e
    BY <1>2, <1>4 DEF Elems
  <2> QED
    BY <1>1, <1>4, <2>1 DEF Distinct
<1> QED
  BY <1>3, <1>4 DEF t

LEMMA TailElems ==
    ASSUME NEW S, NEW s \in Seq(S), s # <<>>
    PROVE  /\ Elems(s) = {Head(s)} \cup Elems(Tail(s))
           /\ Distinct(s) => Distinct(Tail(s)) /\ Elems(Tail(s)) = Elems(s) \ {Head(s)}
<1> DEFINE t == Tail(s)
<1>1. /\ t \in Seq(S) /\ Len(t) = Len(s) - 1 /\ Len(s) \in Nat /\ Len(s) >= 1
      /\ Head(s) = s[1] /\ \A i \in 1..Len(t) : t[i] = s[i + 1]
  BY HeadAndTail
<1> HIDE DEF t
<1>2. DOMAIN t = 1..(Len(s) - 1) /\ DOMAIN s = 1..Len(s)
  BY <1>1
<1>3. \A i \in 1..Len(s) : i = 1 \/ (i - 1 \in 1..(Len(s) - 1) /\ s[i] = t[i - 1])
  BY <1>1
<1>4. \A i \in 1..(Len(s) - 1) : i + 1 \in 1..Len(s) /\ t[i] = s[i + 1]
  BY <1>1
<1>5. Elems(s) = {Head(s)} \cup Elems(t)
  <2>1. ASSUME NEW x \in Elems(s) PROVE x \in {Head(s)} \cup Elems(t)
    <3>1. PICK i \in 1..Len(s) : x = s[i]
      BY <1>2 DEF Elems
    <3>2. CASE i = 1
      BY <1>1, <3>1, <3>2
    <3>3. CASE i # 1
      <4>1. i - 1 \in DOMAIN t /\ x = t[i - 1]
        BY <1>2, <1>3, <3>1, <3>3
      <4> QED
        BY <4>1 DEF Elems
    <3> QED
      BY <3>2, <3>3
  <2>2. Elems(t) \subseteq Elems(s)
    BY <1>2, <1>4 DEF Elems
  <2>3. Head(s) \in Elems(s)
    BY <1>1, <1>2 DEF Elems
  <2> QED
    BY <2>1, <2>2, <2>3
<1>6. ASSUME Distinct(s) PROVE Distinct(t) /\ Head(s) \notin Elems(t)
  <2>1. Distinct(t)
    BY <1>1, <1>4, <1>6 DEF Distinct
  <2>2. \A i \in 1..(Len(s) - 1) : t[i] # s[1]
    BY <1>1, <1>4, <1>6 DEF Distinct
  <2> QED
    BY <1>1, <1>2, <2>1, <2>2 DEF Elems
<1> QED
  BY <1>5, <1>6 DEF t

LEMMA RemovedElems ==
    ASSUME NEW S, NEW s \in Seq(S), NEW e, Distinct(s)
    PROVE  /\ Removed(s, e) \in Seq(S) /\ Distinct(Removed(s, e))
           /\ Elems(Removed(s, e)) = Elems(s) \ {e}
<1>1. CASE e \notin Elems(s)
  BY <1>1 DEF Removed
<1>2. CASE e \in Elems(s)
  <2>1. PICK i \in 1..Len(s) : s[i] = e /\ Removed(s, e) = Dropped(s, i)
    BY <1>2, RemovedIsDropped
  <2> DEFINE t == Removed(s, e)
  <2>2. /\ t \in Seq(S) /\ Len(t) = Len(s) - 1 /\ Len(s) \in Nat
        /\ \A j \in 1..(Len(s) - 1) : t[j] = IF j < i THEN s[j] ELSE s[j + 1]
    <3>1. Len(s) \in Nat
      OBVIOUS
    <3> QED
      BY <2>1, <3>1, WithoutOne, SMTT(30)
  <2> HIDE DEF t
  <2>3. DOMAIN t = 1..(Len(s) - 1) /\ DOMAIN s = 1..Len(s)
    BY <2>2
  <2>4. Distinct(t)
    <3> SUFFICES ASSUME NEW a \in 1..(Len(s) - 1), NEW b \in 1..(Len(s) - 1), t[a] = t[b]
                 PROVE  a = b
      BY <2>2 DEF Distinct
    <3>1. PICK x \in 1..Len(s) : x = IF a < i THEN a ELSE a + 1
      BY <2>2
    <3>2. PICK y \in 1..Len(s) : y = IF b < i THEN b ELSE b + 1
      BY <2>2
    <3>3. s[x] = s[y]
      BY <2>2, <3>1, <3>2
    <3>4. x = y
      BY <3>3 DEF Distinct
    <3> QED
      BY <2>2, <3>1, <3>2, <3>4
  <2>5. \A j \in 1..(Len(s) - 1) : t[j] \in Elems(s) /\ t[j] # e
    BY <2>1, <2>2, <2>3 DEF Distinct, Elems
  <2>6. \A m \in 1..Len(s) : m # i => \E j \in 1..(Len(s) - 1) : t[j] = s[m]
    <3> TAKE m \in 1..Len(s)
    <3>1. CASE m < i
      BY <2>2, <3>1
    <3>2. CASE m > i
      <4>1. m - 1 \in 1..(Len(s) - 1) /\ t[m - 1] = s[m]
        BY <2>2, <3>2
      <4> QED
        BY <4>1
    <3> QED
      BY <3>1, <3>2
  <2>7. Elems(t) = Elems(s) \ {e}
    <3>1. Elems(t) \subseteq Elems(s) \ {e}
      BY <2>3, <2>5 DEF Elems
    <3>2. ASSUME NEW x \in Elems(s), x # e PROVE x \in Elems(t)
      <4>1. PICK m \in 1..Len(s) : x = s[m]
        BY <2>3 DEF Elems
      <4>2. PICK j \in 1..(Len(s) - 1) : t[j] = s[m]
        BY <2>1, <2>6, <3>2, <4>1
      <4> QED
        BY <2>3, <4>1, <4>2 DEF Elems
    <3> QED
      BY <3>1, <3>2
  <2> QED
    BY <2>2, <2>4, <2>7 DEF t
<1> QED
  BY <1>1, <1>2

-----------------------------------------------------------------------------
(* The operations on an index.                                             *)

LEMMA AddedIsIndex ==
    ASSUME NEW ix \in [Keys -> Seq(Entries)], NEW ks, NEW e \in Entries
    PROVE  Added(ix, ks, e) \in [Keys -> Seq(Entries)]
<1>1. \A k \in Keys : ix[k] \in Seq(Entries) /\ Append(ix[k], e) \in Seq(Entries)
  OBVIOUS
<1> QED
  BY <1>1 DEF Added

LEMMA AddedFacts ==
    ASSUME NEW ix \in [Keys -> Seq(Entries)], NEW ks, NEW e \in Entries, NEW k \in Keys
    PROVE  /\ k \in ks => Elems(Added(ix, ks, e)[k]) = Elems(ix[k]) \cup {e}
           /\ Distinct(ix[k]) /\ e \notin Elems(ix[k]) => Distinct(Added(ix, ks, e)[k])
           /\ k \notin ks => Added(ix, ks, e)[k] = ix[k]
<1>1. Added(ix, ks, e)[k] = IF k \in ks THEN Append(ix[k], e) ELSE ix[k]
  BY DEF Added
<1>2. ix[k] \in Seq(Entries)
  OBVIOUS
<1>3. /\ Elems(Append(ix[k], e)) = Elems(ix[k]) \cup {e}
      /\ Distinct(ix[k]) /\ e \notin Elems(ix[k]) => Distinct(Append(ix[k], e))
  BY <1>2, AppendElems
<1> QED
  BY <1>1, <1>3

LEMMA WithoutFacts ==
    ASSUME NEW ix \in [Keys -> Seq(Entries)], NEW e \in Entries,
           \A k \in Keys : Distinct(ix[k])
    PROVE  LET new == Without(ix, e)
           IN  /\ new \in [Keys -> Seq(Entries)]
               /\ \A k \in Keys : /\ Distinct(new[k])
                                  /\ Elems(new[k]) = IF k \in KeysOf(e) THEN Elems(ix[k]) \ {e}
                                                     ELSE Elems(ix[k])
<1> DEFINE new == Without(ix, e)
<1>0. e # NoEntry
  BY RingAssumption DEF NoEntry
<1>1. new = [k \in Keys |-> IF k \in KeysOf(e) THEN Removed(ix[k], e) ELSE ix[k]]
  BY <1>0 DEF Without
<1>2. \A k \in Keys : /\ Removed(ix[k], e) \in Seq(Entries) /\ Distinct(Removed(ix[k], e))
                      /\ Elems(Removed(ix[k], e)) = Elems(ix[k]) \ {e}
  <2> TAKE k \in Keys
  <2>1. ix[k] \in Seq(Entries)
    OBVIOUS
  <2> QED
    BY <2>1, RemovedElems
<1> HIDE DEF new
<1>3. \A k \in Keys : new[k] = IF k \in KeysOf(e) THEN Removed(ix[k], e) ELSE ix[k]
  BY <1>1
<1>4. new \in [Keys -> Seq(Entries)]
  BY <1>1, <1>2
<1>5. \A k \in Keys : /\ Distinct(new[k])
                      /\ Elems(new[k]) = IF k \in KeysOf(e) THEN Elems(ix[k]) \ {e} ELSE Elems(ix[k])
  BY <1>2, <1>3
<1> QED
  BY <1>4, <1>5 DEF new

LEMMA RebuiltFacts ==
    ASSUME LInv, NEW ix \in Rebuilt
    PROVE  /\ ix \in [Keys -> Seq(Entries)]
           /\ \A k \in Keys : Distinct(ix[k]) /\ Elems(ix[k]) = ScanDB(k)
<1>1. rows \subseteq Entries /\ \A e \in rows : e <= Len(label) /\ Len(label) \in Nat
  BY DEF LInv, LogTypes, InOrder
<1>2. ASSUME NEW k \in Keys
      PROVE  /\ ix[k] \in Seq(Entries) /\ Distinct(ix[k]) /\ Elems(ix[k]) = ScanDB(k)
  <2>1. ScanDB(k) \subseteq rows
    BY DEF ScanDB, AllEntries
  <2>2. Cardinality(ScanDB(k)) \in Nat
    <3>1. ScanDB(k) \subseteq 1..Len(label)
      <4> SUFFICES ASSUME NEW e \in ScanDB(k) PROVE e \in 1..Len(label)
        OBVIOUS
      <4>1. e \in Nat \ {0}
        BY <1>1, <2>1, RingAssumption
      <4>2. e <= Len(label) /\ Len(label) \in Nat
        BY <1>1, <2>1
      <4> QED
        BY <4>1, <4>2
    <3>2. IsFiniteSet(1..Len(label))
      BY FS_Interval DEF LInv, LogTypes
    <3>3. IsFiniteSet(ScanDB(k))
      BY <3>1, <3>2, FS_Subset
    <3> QED
      BY <3>3, FS_CardinalityType
  <2> DEFINE t == ix[k]
             n == Cardinality(ScanDB(k))
  <2>3. /\ t \in [1..n -> ScanDB(k)] /\ Elems(t) = ScanDB(k)
        /\ \A i, j \in DOMAIN t : i < j => ListRank[t[i]] < ListRank[t[j]]
    BY DEF Rebuilt, InSequence
  <2> HIDE DEF t, n
  <2>4. n \in Nat /\ ScanDB(k) \subseteq Entries
    BY <1>1, <2>1, <2>2 DEF n
  <2>5. t \in Seq(Entries) /\ Len(t) = n /\ DOMAIN t = 1..n
    BY <2>3, <2>4
  <2>6. \A i \in 1..n : ListRank[t[i]] \in Int
    BY <2>3, <2>4, LogAssumption
  <2>7. \A i, j \in 1..n : i < j => t[i] # t[j]
    BY <2>3, <2>5, <2>6
  <2>8. Distinct(t)
    BY <2>4, <2>5, <2>7 DEF Distinct
  <2> QED
    BY <2>3, <2>5, <2>8 DEF t
<1> QED
  BY <1>2 DEF Rebuilt

-----------------------------------------------------------------------------
(* What the invariant says of single entries.                              *)

LEMMA DoomedIsOld ==
    ASSUME IndexTyped, old # {}
    PROVE  Doomed \in old /\ Doomed \in aged /\ Doomed \in Entries
<1>1. old \subseteq Nat
  BY RingAssumption DEF IndexTyped
<1>2. \E e \in old : \A f \in old : e <= f
  BY <1>1, LeastOf
<1> QED
  BY <1>2 DEF Doomed, IndexTyped

LEMMA Labelled ==
    ASSUME label \in Seq(Labels), NEW e \in Entries, e <= Len(label)
    PROVE  /\ e \in 1..Len(label) /\ label[e].trace \in Traces
           /\ label[e].trace \in Keys /\ KeysOf(e) \subseteq Keys
           /\ label[e].task # NoKey => label[e].task \in Keys /\ label[e].task # label[e].trace
           /\ \A k \in Keys : k \in KeysOf(e) <=> k = label[e].trace \/ k = label[e].task
<1>1. e \in 1..Len(label)
  BY RingAssumption
<1>2. label[e] \in Labels
  BY <1>1, ElementOfSeq
<1>3. label[e].trace \in Traces /\ label[e].task \in Tasks \cup {NoKey}
  BY <1>2 DEF Labels
<1> QED
  BY <1>1, <1>3, LogAssumption DEF KeysOf, Keys

LEMMA RecordedIsOlder ==
    ASSUME LInv
    PROVE  \A e \in rows : e \in Entries /\ Older(e)
  BY DEF LInv, LogTypes, InOrder, Older

LEMMA RingIsOlder ==
    ASSUME LInv
    PROVE  \A e \in Elems(RingContents) : Older(e)
<1> TAKE e \in Elems(RingContents)
<1>1. /\ RingContents = [i \in 1..count |-> ring[Position(head, count, i)]]
      /\ count \in Nat /\ head \in 0..(RingSize - 1) /\ count \in 0..RingSize
  BY ContentsByPosition, RingAssumption DEF LInv, LogTypes, RingTypeOK
<1>2. PICK i \in 1..count : e = ring[Position(head, count, i)]
  BY <1>1 DEF Elems
<1>3. Position(head, count, i) \in 0..(RingSize - 1)
  BY <1>1, SlotPosition
<1> QED
  BY <1>2, <1>3 DEF LInv, InOrder, Older

LEMMA IndexedIsEntry ==
    ASSUME IndexTyped, NEW k \in Keys
    PROVE  index[k] \in Seq(Entries) /\ \A e \in Elems(index[k]) : e \in Entries
<1>1. index[k] \in Seq(Entries)
  BY DEF IndexTyped
<1> QED
  BY <1>1, ElementOfSeq DEF Elems

\* An entry that is known is not the next to be taken from the channel.
LEMMA TakeKeepsOlder ==
    ASSUME LInv, ch # <<>>, ch' = Tail(ch), label' = label
    PROVE  \E h \in Entries : /\ h = Head(ch) /\ Older(h)'
                             /\ \A e \in Entries : Older(e) => Older(e)' /\ e # h
<1>1. /\ Head(ch) \in Entries /\ Head(ch) <= Len(label)
      /\ \A j \in 1..Len(ch') : Head(ch) < ch'[j]
  BY TakeKeepsOrder
<1>2. /\ Head(ch) = ch[1] /\ Len(ch) >= 1 /\ Len(ch) \in Nat /\ Len(ch') = Len(ch) - 1
      /\ \A i \in 1..Len(ch') : ch'[i] = ch[i + 1]
  BY HeadAndTail DEF LInv, LogTypes
<1>3. ASSUME NEW e \in Entries, Older(e) PROVE Older(e)' /\ e # Head(ch)
  <2>1. e < ch[1] /\ \A i \in 1..Len(ch') : e < ch[i + 1]
    BY <1>2, <1>3 DEF Older
  <2>2. e \in Int
    BY EntriesAreNumbers
  <2> QED
    BY <1>1, <1>2, <1>3, <2>1, <2>2, EntriesAreNumbers DEF Older
<1>4. PICK h \in Entries : h = Head(ch)
  BY <1>1
<1>5. Older(h)'
  BY <1>1, <1>4 DEF Older
<1> QED
  BY <1>3, <1>4, <1>5

-----------------------------------------------------------------------------
(* The steps.                                                              *)

\* A step that changes neither log nor index, channel or query.
LEMMA StaysIndexed ==
    ASSUME LInv, IInv,
           UNCHANGED <<index, rows, ringVars, label, ch, cur, query, kind>>,
           cpc' = cpc \/ (cpc = "recv" /\ cpc' = "gone"),
           \/ clpc' = clpc /\ old' = old
           \/ /\ {clpc, clpc'} \cap {"trace", "task"} = {}
              /\ clpc' # "idle" => kind = "db",
           aged' \subseteq Entries, old' \subseteq aged', \A e \in aged' : Older(e),
           cpc \in {"trace", "task"} => cur \notin aged',
           kind = "db" /\ stop' # "closed" => stop # "closed"
    PROVE  IInv'
<1>1. IndexTyped'
  BY DEF IInv, IndexTyped
<1>2. \A e : Older(e)' = Older(e) /\ KeysOf(e)' = KeysOf(e)
  BY DEF Older, KeysOf
<1>3. KnownIsOlder'
  BY <1>2 DEF IInv, KnownIsOlder
<1>4. clpc' \in {"trace", "task"} => clpc' = clpc /\ Doomed' = Doomed /\ old' = old
  BY DEF Doomed
<1>5. HalfDone'
  BY <1>4 DEF IInv, HalfDone
<1>6. Pending' = Pending
  BY <1>4 DEF Pending
<1>7. RingContents' = RingContents
  BY DEF RingContents, Slot, ringVars
<1>8. \A k \in Keys : (RowsIndexed(k) => RowsIndexed(k)') /\ RingIndexed(k)' = RingIndexed(k)
  BY <1>2, <1>4, <1>6, <1>7 DEF RowsIndexed, RingIndexed
<1>9. Indexed'
  BY <1>7, <1>8 DEF IInv, Indexed
<1>10. Queries'
  BY DEF IInv, Queries
<1> QED
  BY <1>1, <1>3, <1>5, <1>9, <1>10 DEF IInv

LEMMA QuietSteps ==
    ASSUME LInv, IInv,
           \/ \E w \in Writers : Receive(w) \/ Finish(w) \/ Exit(w) \/ AppendPanics(w)
           \/ LoopEnds \/ CleanDone \/ Cancel \/ Wait \/ CloseChannel
    PROVE  IInv'
<1>1. /\ aged \subseteq Entries /\ old \subseteq aged /\ \A e \in aged : Older(e)
      /\ cpc \in {"trace", "task"} => cur \notin aged
  BY DEF IInv, IndexTyped, KnownIsOlder, HalfDone
<1>2. /\ UNCHANGED <<index, rows, ringVars, label, ch, cur, query, kind, aged, old>>
      /\ cpc' = cpc \/ (cpc = "recv" /\ cpc' = "gone")
      /\ clpc' = clpc \/ (clpc = "delete" /\ clpc' = "idle")
      /\ kind = "db" /\ stop' # "closed" => stop # "closed"
  BY DEF Receive, Finish, Exit, AppendPanics, LoopEnds, CleanDone, Cancel, Wait, CloseChannel,
         logVars, writeVars, stopVars, HasLog
<1> QED
  BY <1>1, <1>2, StaysIndexed

LEMMA CleanerListStep ==
    ASSUME LInv, IInv, Clean \/ \E e \in Made : Age(e)
    PROVE  IInv'
<1>0. /\ aged \subseteq Entries /\ old \subseteq aged /\ \A e \in aged : Older(e)
      /\ cpc \in {"trace", "task"} => cur \notin aged
  BY DEF IInv, IndexTyped, KnownIsOlder, HalfDone
<1>1. CASE Clean
  <2>1. /\ UNCHANGED <<index, rows, ringVars, label, ch, cur, query, kind, aged, cpc, stop>>
        /\ clpc = "idle"
        /\ \/ clpc' = clpc /\ old' = old
           \/ clpc' = "delete" /\ kind = "db" /\ old' \subseteq aged
    BY <1>1 DEF Clean, logVars, writeVars, stopVars
  <2> QED
    BY <1>0, <2>1, StaysIndexed
<1>2. ASSUME NEW e \in Made, Age(e) PROVE IInv'
  <2>1. /\ UNCHANGED <<index, rows, ringVars, label, ch, cur, query, kind, old, cpc, clpc, stop>>
        /\ aged' = aged \cup {e} /\ e \in rows /\ e # cur
    BY <1>2 DEF Age, logVars, writeVars, stopVars
  <2>2. e \in Entries /\ Older(e)
    BY <2>1, RecordedIsOlder
  <2> QED
    BY <1>0, <2>1, <2>2, StaysIndexed
<1> QED
  BY <1>1, <1>2

\* A new entry is newer than all that is known, and changes no label.
LEMMA AppendAsyncStep ==
    ASSUME LInv, IInv, NEW w \in Writers, NEW l \in Labels, AppendAsync(w, l)
    PROVE  IInv'
<1>0. UNCHANGED <<index, rows, ringVars, cur, query, kind, old, aged, cpc, clpc, stop>>
  BY DEF AppendAsync, logVars, stopVars
<1>1. CASE Len(ch) < ChanSize
  <2>1. label' = Append(label, l) /\ ch' = Append(ch, Len(label) + 1) /\ Len(label) + 1 \in Entries
    BY <1>1 DEF AppendAsync
  <2>2. /\ Len(label') = Len(label) + 1 /\ Len(label) \in Nat /\ Len(ch) \in Nat
        /\ Len(ch') = Len(ch) + 1
        /\ \A i \in 1..(Len(ch) + 1) : ch'[i] = IF i = Len(ch) + 1 THEN Len(label) + 1 ELSE ch[i]
        /\ \A i \in 1..Len(label) : label'[i] = label[i]
    BY <2>1, AppendFacts DEF LInv, LogTypes
  <2>3. \A e \in Entries : Older(e) => Older(e)' /\ KeysOf(e)' = KeysOf(e) /\ label'[e] = label[e]
    <3> SUFFICES ASSUME NEW e \in Entries, Older(e)
                 PROVE  Older(e)' /\ KeysOf(e)' = KeysOf(e) /\ label'[e] = label[e]
      OBVIOUS
    <3>1. e \in Nat \ {0} /\ e <= Len(label)
      BY RingAssumption DEF Older
    <3>2. label'[e] = label[e]
      BY <2>2, <3>1
    <3>3. Older(e)'
      BY <2>2, <3>1 DEF Older
    <3> QED
      BY <3>2, <3>3 DEF KeysOf
  <2>4. \A e \in rows : e \in Entries /\ Older(e)
    BY RecordedIsOlder
  <2>5. \A k \in Keys : \A e \in Elems(index[k]) : e \in Entries /\ Older(e) /\ k \in KeysOf(e)
    BY IndexedIsEntry DEF IInv, KnownIsOlder
  <2>6. \A e \in aged \cup query.whole : e \in Entries /\ Older(e)
    BY DEF IInv, IndexTyped, KnownIsOlder, Queries
  <2>7. IndexTyped'
    BY <1>0 DEF IInv, IndexTyped
  <2>8. KnownIsOlder'
    BY <1>0, <2>3, <2>5, <2>6 DEF KnownIsOlder
  <2>9. Doomed' = Doomed /\ Pending' = Pending
    BY <1>0 DEF Doomed, Pending
  <2>10. HalfDone'
    BY <1>0, <2>9 DEF IInv, HalfDone
  <2>11. RingContents' = RingContents
    BY <1>0 DEF RingContents, Slot, ringVars
  <2>12. /\ cpc \in {"trace", "task"} => label'[cur] = label[cur]
         /\ clpc \in {"trace", "task"} => label'[Doomed] = label[Doomed]
    BY <2>3, <2>4, <2>6, DoomedIsOld DEF IInv, HalfDone
  <2>13. ASSUME NEW k \in Keys, RowsIndexed(k) PROVE RowsIndexed(k)'
    <3>1. ASSUME NEW e \in Entries \ Pending
          PROVE  e \in Elems(index'[k]) <=> e \in rows' /\ k \in KeysOf(e)'
      BY <1>0, <2>3, <2>4, <2>5, <2>13, <3>1 DEF RowsIndexed
    <3> QED
      BY <1>0, <2>9, <2>12, <2>13, <3>1 DEF RowsIndexed
  <2>14. ASSUME kind # "db", NEW k \in Keys PROVE RingIndexed(k)'
    <3>1. ASSUME NEW e \in Entries
          PROVE  e \in Elems(index'[k]) <=> e \in Elems(RingContents') /\ k \in KeysOf(e)'
      <4>1. e \in Elems(index[k]) <=> e \in Elems(RingContents) /\ k \in KeysOf(e)
        BY <2>14 DEF IInv, Indexed, RingIndexed
      <4>2. e \in Elems(RingContents) => Older(e)
        BY RingIsOlder DEF IInv, Indexed
      <4> QED
        BY <1>0, <2>3, <2>5, <2>11, <4>1, <4>2
    <3> QED
      BY <3>1 DEF RingIndexed
  <2>15. Indexed'
    BY <1>0, <2>11, <2>13, <2>14 DEF IInv, Indexed
  <2>16. Queries'
    BY <1>0 DEF IInv, Queries
  <2> QED
    BY <2>7, <2>8, <2>10, <2>15, <2>16 DEF IInv
<1>2. CASE ~(Len(ch) < ChanSize)
  <2>1. UNCHANGED <<label, ch>>
    BY <1>2 DEF AppendAsync
  <2>2. /\ aged \subseteq Entries /\ old \subseteq aged /\ \A e \in aged : Older(e)
        /\ cpc \in {"trace", "task"} => cur \notin aged
    BY DEF IInv, IndexTyped, KnownIsOlder, HalfDone
  <2> QED
    BY <1>0, <2>1, <2>2, StaysIndexed
<1> QED
  BY <1>1, <1>2

\* What is known stays older than what is left in the channel.
LEMMA KnownStaysOlder ==
    ASSUME IInv, label' = label, query'.whole = query.whole, aged' = aged,
           \A e \in Entries : Older(e) => Older(e)'
    PROVE  /\ \A k \in Keys : \A e \in Elems(index[k]) : Older(e)' /\ k \in KeysOf(e)
           /\ \A e \in aged' : Older(e)'
           /\ \A e \in query'.whole : Older(e)'
<1>1. \A k \in Keys : \A e \in Elems(index[k]) : e \in Entries /\ Older(e) /\ k \in KeysOf(e)
  BY IndexedIsEntry DEF IInv, KnownIsOlder
<1>2. \A e \in aged \cup query.whole : e \in Entries /\ Older(e)
  BY DEF IInv, IndexTyped, KnownIsOlder, Queries
<1> QED
  BY <1>1, <1>2

\* The ring takes the new entry, and loses its oldest one when it is full.
LEMMA RingElems ==
    ASSUME RingTypeOK, NEW h \in Entries, RingAppend(h), Distinct(RingContents),
           h \notin Elems(RingContents)
    PROVE  LET gone == IF count = RingSize THEN {ring[head]} ELSE {}
           IN  /\ Elems(RingContents') = (Elems(RingContents) \ gone) \cup {h}
               /\ Distinct(RingContents') /\ gone \subseteq Elems(RingContents)
<1> DEFINE s == RingContents
           t == Append(s, h)
<1>1. /\ s \in Seq(Entries \cup {NoEntry}) /\ Len(s) = count /\ count \in Nat /\ RingSize >= 1
      /\ count = RingSize => s[1] = ring[head] /\ 1 \in DOMAIN s
  <2>1. /\ RingContents = [i \in 1..count |-> ring[Position(head, count, i)]]
        /\ RingContents \in Seq(Entries \cup {NoEntry})
    BY ContentsByPosition
  <2>2. count = RingSize => Position(head, count, 1) = head
    BY RingAssumption DEF RingTypeOK, Position
  <2>3. count \in Nat /\ RingSize \in Nat /\ RingSize >= 1
    BY RingAssumption DEF RingTypeOK
  <2> QED
    BY <2>1, <2>2, <2>3
<1>2. s' = IF count = RingSize THEN Tail(t) ELSE t
  BY AppendIsRecorded
<1>3. h \in Entries \cup {NoEntry} /\ h \notin Elems(s) /\ Distinct(s)
  OBVIOUS
<1>4. /\ t \in Seq(Entries \cup {NoEntry}) /\ Len(t) = count + 1
      /\ count = RingSize => t[1] = ring[head]
      /\ Elems(t) = Elems(s) \cup {h} /\ Distinct(t)
  <2> HIDE DEF s
  <2>1. /\ t \in Seq(Entries \cup {NoEntry}) /\ Len(t) = Len(s) + 1
        /\ \A i \in 1..(Len(s) + 1) : t[i] = IF i = Len(s) + 1 THEN h ELSE s[i]
    BY <1>1, <1>3, AppendFacts
  <2>2. Elems(t) = Elems(s) \cup {h} /\ Distinct(t)
    BY <1>1, <1>3, AppendElems
  <2> QED
    BY <1>1, <2>1, <2>2
<1>5. CASE count = RingSize
  <2>1. ring[head] \in Elems(s)
    BY <1>1, <1>5 DEF Elems
  <2> HIDE DEF s, t
  <2>2. t # <<>> /\ Head(t) = ring[head]
    BY <1>1, <1>4, <1>5, HeadAndTail
  <2>3. Distinct(Tail(t)) /\ Elems(Tail(t)) = Elems(t) \ {ring[head]}
    BY <1>4, <2>2, TailElems
  <2>4. ring[head] # h
    BY <1>3, <2>1
  <2>5. /\ Elems(s') = (Elems(s) \ {ring[head]}) \cup {h} /\ Distinct(s')
    BY <1>2, <1>4, <1>5, <2>3, <2>4
  <2> QED
    BY <1>5, <2>1, <2>5 DEF s
<1>6. CASE count # RingSize
  <2> HIDE DEF t
  <2> QED
    BY <1>2, <1>4, <1>6
<1> QED
  BY <1>5, <1>6

LEMMA TakeMemoryStep ==
    ASSUME LInv, IInv, TakeMemory
    PROVE  IInv'
<1>1. /\ kind = "memory" /\ cpc = "recv" /\ ch # <<>> /\ ch' = Tail(ch) /\ RingAppend(Head(ch))
      /\ UNCHANGED <<kind, label, cpc, cur, rows, clpc, old, aged, query, stop>>
  BY DEF TakeMemory, writeVars, stopVars
<1>2. PICK h \in Entries : /\ h = Head(ch) /\ Older(h)'
                           /\ \A e \in Entries : Older(e) => Older(e)' /\ e # h
  BY <1>1, TakeKeepsOlder
<1> DEFINE gone == IF count = RingSize THEN {ring[head]} ELSE {}
           kept == IF count = RingSize THEN Without(index, ring[head]) ELSE index
<1>3. \A k \in Keys : \A e \in Elems(index[k]) : e \in Entries /\ Older(e) /\ k \in KeysOf(e)
  BY IndexedIsEntry DEF IInv, KnownIsOlder
<1>4. /\ Distinct(RingContents) /\ Elems(RingContents) \subseteq Entries /\ rows = {}
      /\ \A k \in Keys : RingIndexed(k)
  BY <1>1 DEF IInv, Indexed
<1>5. h \notin Elems(RingContents)
  BY <1>2, <1>4, RingIsOlder
<1>6. /\ Elems(RingContents') = (Elems(RingContents) \ gone) \cup {h}
      /\ Distinct(RingContents') /\ gone \subseteq Elems(RingContents)
  BY <1>1, <1>2, <1>4, <1>5, RingElems DEF LInv, LogTypes
<1>7. /\ kept \in [Keys -> Seq(Entries)]
      /\ \A k \in Keys : Distinct(kept[k]) /\ Elems(kept[k]) = Elems(index[k]) \ gone
  <2>1. CASE count = RingSize
    <3>1. ring[head] \in Entries
      BY <1>4, <1>6, <2>1
    <3>2. /\ kept \in [Keys -> Seq(Entries)]
          /\ \A k \in Keys : /\ Distinct(kept[k])
                             /\ Elems(kept[k]) = IF k \in KeysOf(ring[head]) THEN Elems(index[k]) \ {ring[head]}
                                                 ELSE Elems(index[k])
      BY <2>1, <3>1, WithoutFacts DEF IInv, IndexTyped
    <3> HIDE DEF kept
    <3> QED
      BY <1>3, <2>1, <3>2
  <2>2. CASE count # RingSize
    BY <2>2 DEF IInv, IndexTyped
  <2> QED
    BY <2>1, <2>2
<1>8. index' = Added(kept, KeysOf(h), h)
  BY <1>2 DEF TakeMemory
<1> HIDE DEF kept, gone
<1>9. /\ \A k \in Keys : Distinct(kept[k])
      /\ \A k \in Keys : h \notin Elems(kept[k])
  BY <1>2, <1>3, <1>7
<1>10. /\ index' \in [Keys -> Seq(Entries)]
       /\ \A k \in Keys : /\ Distinct(index'[k])
                          /\ Elems(index'[k]) = Elems(kept[k]) \cup (IF k \in KeysOf(h) THEN {h} ELSE {})
  <2>1. PICK ks, ix : ks = KeysOf(h) /\ ix = kept /\ ix \in [Keys -> Seq(Entries)]
    BY <1>7
  <2>2. ASSUME NEW k \in Keys
        PROVE  /\ k \in ks => Elems(Added(ix, ks, h)[k]) = Elems(ix[k]) \cup {h}
               /\ Distinct(ix[k]) /\ h \notin Elems(ix[k]) => Distinct(Added(ix, ks, h)[k])
               /\ k \notin ks => Added(ix, ks, h)[k] = ix[k]
    <3>1. ix \in [Keys -> Seq(Entries)]
      BY <2>1
    <3> QED
      BY <3>1, AddedFacts, SMTT(30)
  <2>3. index' \in [Keys -> Seq(Entries)]
    BY <1>7, <1>8, AddedIsIndex
  <2> QED
    BY <1>8, <1>9, <2>1, <2>2, <2>3
<1>11. IndexTyped'
  BY <1>1, <1>10 DEF IInv, IndexTyped
<1>12. \A e : KeysOf(e)' = KeysOf(e)
  BY <1>1 DEF KeysOf
<1>13. KnownIsOlder'
  <2>1. /\ \A e \in aged' : Older(e)'
        /\ \A e \in query'.whole : Older(e)'
        /\ \A k \in Keys : \A e \in Elems(index[k]) : Older(e)' /\ k \in KeysOf(e)
    BY <1>1, <1>2, KnownStaysOlder
  <2>2. \A k \in Keys : \A e \in Elems(index'[k]) : Older(e)' /\ k \in KeysOf(e)
    BY <1>2, <1>7, <1>10, <2>1
  <2> QED
    BY <1>12, <2>1, <2>2 DEF KnownIsOlder
<1>14. HalfDone'
  BY <1>1 DEF IInv, HalfDone
<1>15. \A k \in Keys : RingIndexed(k)'
  <2> SUFFICES ASSUME NEW k \in Keys, NEW e \in Entries
               PROVE  e \in Elems(index'[k]) <=> e \in Elems(RingContents') /\ k \in KeysOf(e)
    BY <1>12 DEF RingIndexed
  <2>1. e \in Elems(index[k]) <=> e \in Elems(RingContents) /\ k \in KeysOf(e)
    BY <1>4 DEF RingIndexed
  <2> QED
    BY <1>5, <1>6, <1>7, <1>10, <2>1
<1>16. Elems(RingContents') \subseteq Entries
  BY <1>4, <1>6
<1>17. Indexed'
  BY <1>1, <1>4, <1>6, <1>15, <1>16 DEF IInv, Indexed
<1>18. Queries'
  BY <1>1 DEF IInv, Queries
<1> QED
  BY <1>11, <1>13, <1>14, <1>17, <1>18 DEF IInv

\* The cleaner is not at the entry that the loop is at, nor at one it takes up.
LEMMA DoomedIsNotNew ==
    ASSUME IInv, clpc \in {"trace", "task"}
    PROVE  /\ Doomed \in Entries /\ Doomed \in aged /\ Older(Doomed) /\ Doomed \notin rows
           /\ cpc \in {"trace", "task"} => Doomed # cur
<1>1. old # {} /\ Doomed \notin rows
  BY DEF IInv, HalfDone
<1>2. Doomed \in Entries /\ Doomed \in aged
  BY <1>1, DoomedIsOld DEF IInv
<1>3. Older(Doomed)
  BY <1>2 DEF IInv, KnownIsOlder
<1> QED
  BY <1>1, <1>2, <1>3 DEF IInv, HalfDone

LEMMA TakeDBStep ==
    ASSUME LInv, IInv, TakeDB
    PROVE  IInv'
<1>1. /\ kind = "db" /\ cpc = "recv" /\ ch # <<>> /\ ch' = Tail(ch)
      /\ rows' = rows \cup {Head(ch)} /\ cur' = Head(ch) /\ cpc' = "trace"
      /\ UNCHANGED <<kind, label, index, clpc, old, aged, query, stop>>
  BY DEF TakeDB, Set, writeVars, stopVars
<1>2. PICK h \in Entries : /\ h = Head(ch) /\ Older(h)'
                           /\ \A e \in Entries : Older(e) => Older(e)' /\ e # h
  BY <1>1, TakeKeepsOlder
<1>3. cur = NoEntry /\ stop # "closed" /\ NoEntry \notin Entries
  BY <1>1, RingAssumption DEF LInv, Shutdown, HasLog, NoEntry
<1>4. \A k \in Keys : \A e \in Elems(index[k]) : e \in Entries /\ Older(e) /\ k \in KeysOf(e)
  BY IndexedIsEntry DEF IInv, KnownIsOlder
<1>5. \A e \in aged \cup query.whole : e \in Entries /\ Older(e)
  BY DEF IInv, IndexTyped, KnownIsOlder, Queries
<1>6. h \notin rows
  BY <1>2, RecordedIsOlder
<1>7. rows' = rows \cup {h}
  BY <1>1, <1>2
<1>8. IndexTyped'
  BY <1>1 DEF IInv, IndexTyped
<1>9. \A e : KeysOf(e)' = KeysOf(e)
  BY <1>1 DEF KeysOf
<1>10. KnownIsOlder'
  BY <1>1, <1>2, <1>4, <1>5, <1>9 DEF KnownIsOlder
<1>11. Doomed' = Doomed /\ (clpc \in {"trace", "task"} => Doomed \in aged)
  BY <1>1, DoomedIsNotNew DEF Doomed
<1>12. h \notin aged /\ h \notin query.whole /\ \A k \in Keys : h \notin Elems(index[k])
  BY <1>2, <1>4, <1>5
<1>13. HalfDone'
  BY <1>1, <1>2, <1>7, <1>11, <1>12 DEF IInv, HalfDone
<1>14. ASSUME NEW k \in Keys PROVE RowsIndexed(k)'
  <2>1. RowsIndexed(k)
    BY <1>1, <1>3 DEF IInv, Indexed
  <2>2. \A e \in Entries : e \notin Pending' => e \notin Pending /\ e # h
    BY <1>1, <1>2, <1>3, <1>11 DEF Pending
  <2>3. \A e \in Entries \ Pending' :
           e \in Elems(index'[k]) <=> e \in rows' /\ k \in KeysOf(e)'
    BY <1>1, <1>7, <1>9, <2>1, <2>2 DEF RowsIndexed
  <2>4. clpc' = "task" /\ k = label'[Doomed'].trace => Doomed' \notin Elems(index'[k])
    BY <1>1, <1>11, <2>1 DEF RowsIndexed
  <2>5. cpc' = "trace" /\ cur' \notin Elems(index'[k])
    BY <1>1, <1>2, <1>12
  <2> QED
    BY <2>3, <2>4, <2>5 DEF RowsIndexed
<1>15. Indexed'
  BY <1>1, <1>7, <1>14 DEF Indexed
<1>16. Queries'
  BY <1>1, <1>7, <1>12 DEF IInv, Queries
<1> QED
  BY <1>8, <1>10, <1>13, <1>15, <1>16 DEF IInv

LEMMA TakeFailsStep ==
    ASSUME LInv, IInv, TakeFails
    PROVE  IInv'
<1>1. /\ kind = "db" /\ cpc = "recv" /\ ch # <<>> /\ ch' = Tail(ch)
      /\ UNCHANGED <<kind, label, index, rows, cpc, cur, clpc, old, aged, query, stop>>
  BY DEF TakeFails, writeVars, logVars, stopVars
<1>2. \A e \in Entries : Older(e) => Older(e)'
  BY <1>1, TakeKeepsOlder
<1>3. \A e : KeysOf(e)' = KeysOf(e)
  BY <1>1 DEF KeysOf
<1>4. KnownIsOlder'
  <2>1. /\ \A e \in aged' : Older(e)'
        /\ \A e \in query'.whole : Older(e)'
        /\ \A k \in Keys : \A e \in Elems(index[k]) : Older(e)' /\ k \in KeysOf(e)
    BY <1>1, <1>2, KnownStaysOlder
  <2> QED
    BY <1>1, <1>3, <2>1 DEF KnownIsOlder
<1>5. Doomed' = Doomed /\ Pending' = Pending
  BY <1>1 DEF Doomed, Pending
<1>6. HalfDone'
  BY <1>1, <1>5 DEF IInv, HalfDone
<1>7. \A k \in Keys : RowsIndexed(k) => RowsIndexed(k)'
  BY <1>1, <1>3, <1>5 DEF RowsIndexed
<1>8. Indexed'
  BY <1>1, <1>7 DEF IInv, Indexed
<1>9. IndexTyped' /\ Queries'
  BY <1>1 DEF IInv, IndexTyped, Queries
<1> QED
  BY <1>4, <1>6, <1>8, <1>9 DEF IInv

\* A step of the loop that adds its entry to the index under one of its keys.
LEMMA IndexUnder ==
    ASSUME LInv, IInv, NEW ks, cpc \in {"trace", "task"}, ks \subseteq KeysOf(cur),
           \A k \in ks : k \in Keys => cur \notin Elems(index[k]),
           index' = Added(index, ks, cur),
           UNCHANGED <<kind, label, ch, rows, aged, old, query>>
    PROVE  /\ IndexTyped' /\ KnownIsOlder' /\ Queries'
           /\ \A k \in Keys : Elems(index'[k]) = Elems(index[k]) \cup (IF k \in ks THEN {cur} ELSE {})
<1>1. cur \in Entries /\ Older(cur)
  BY RecordedIsOlder DEF IInv, HalfDone
<1>2. index \in [Keys -> Seq(Entries)] /\ \A k \in Keys : Distinct(index[k])
  BY DEF IInv, IndexTyped
<1>3. index' \in [Keys -> Seq(Entries)]
  BY <1>1, <1>2, AddedIsIndex
<1>4. ASSUME NEW k \in Keys
      PROVE  /\ Elems(index'[k]) = Elems(index[k]) \cup (IF k \in ks THEN {cur} ELSE {})
             /\ Distinct(index'[k])
  <2>1. /\ k \in ks => Elems(Added(index, ks, cur)[k]) = Elems(index[k]) \cup {cur}
        /\ Distinct(index[k]) /\ cur \notin Elems(index[k]) => Distinct(Added(index, ks, cur)[k])
        /\ k \notin ks => Added(index, ks, cur)[k] = index[k]
    BY <1>1, <1>2, AddedFacts, SMTT(30)
  <2> QED
    BY <1>2, <2>1
<1>5. \A e : Older(e)' = Older(e) /\ KeysOf(e)' = KeysOf(e)
  BY DEF Older, KeysOf
<1>6. \A k \in Keys : \A e \in Elems(index'[k]) : Older(e) /\ k \in KeysOf(e)
  BY <1>1, <1>4 DEF IInv, KnownIsOlder
<1>7. KnownIsOlder'
  BY <1>5, <1>6 DEF IInv, KnownIsOlder
<1>8. IndexTyped'
  BY <1>3, <1>4 DEF IInv, IndexTyped
<1>9. Queries'
  BY DEF IInv, Queries
<1> QED
  BY <1>4, <1>7, <1>8, <1>9

LEMMA IndexTraceStep ==
    ASSUME LInv, IInv, IndexTrace
    PROVE  IInv'
<1>1. /\ cpc = "trace" /\ cpc' = "task" /\ index' = Added(index, {label[cur].trace}, cur)
      /\ UNCHANGED <<kind, label, ch, rows, cur, clpc, aged, old, query, stop>>
  BY DEF IndexTrace, writeVars, stopVars
<1>2. kind = "db" /\ stop # "closed" /\ cur \in rows
  BY <1>1 DEF LInv, Shutdown, HasLog, IInv, HalfDone
<1>3. cur \in Entries /\ Older(cur)
  BY <1>2, RecordedIsOlder
<1>4. /\ {label[cur].trace} \subseteq KeysOf(cur)
      /\ \A k \in {label[cur].trace} : k \in Keys => cur \notin Elems(index[k])
  <2>1. label[cur].trace \in KeysOf(cur)
    BY <1>3, Labelled DEF LInv, LogTypes, Older
  <2>2. \A k \in Keys : cur \notin Elems(index[k])
    BY <1>1, <1>2 DEF IInv, Indexed, RowsIndexed
  <2> QED
    BY <2>1, <2>2
<1>5. /\ IndexTyped' /\ KnownIsOlder' /\ Queries'
      /\ \A k \in Keys : Elems(index'[k])
            = Elems(index[k]) \cup (IF k \in {label[cur].trace} THEN {cur} ELSE {})
  BY <1>1, <1>4, IndexUnder
<1>6. Doomed' = Doomed /\ Pending' = Pending /\ \A e : KeysOf(e)' = KeysOf(e)
  BY <1>1 DEF Doomed, Pending, KeysOf
<1>7. HalfDone'
  BY <1>1, <1>6 DEF IInv, HalfDone
<1>8. ASSUME NEW k \in Keys PROVE RowsIndexed(k)'
  <2>1. RowsIndexed(k)
    BY <1>2 DEF IInv, Indexed
  <2>2. \A e \in Entries \ Pending' :
           e \in Elems(index'[k]) <=> e \in rows' /\ k \in KeysOf(e)'
    BY <1>1, <1>5, <1>6, <2>1 DEF RowsIndexed, Pending
  <2>3. cur' \in Elems(index'[k]) <=> k = label'[cur'].trace
    BY <1>1, <1>5, <2>1 DEF RowsIndexed
  <2>4. clpc' = "task" /\ k = label'[Doomed'].trace => Doomed' \notin Elems(index'[k])
    BY <1>1, <1>5, <1>6, <2>1, DoomedIsNotNew DEF RowsIndexed
  <2> QED
    BY <1>1, <2>2, <2>3, <2>4 DEF RowsIndexed
<1>9. Indexed'
  BY <1>1, <1>2, <1>8 DEF IInv, Indexed
<1> QED
  BY <1>5, <1>7, <1>9 DEF IInv

LEMMA IndexTaskStep ==
    ASSUME LInv, IInv, IndexTask
    PROVE  IInv'
<1> DEFINE ks == {label[cur].task} \ {NoKey}
<1>1. /\ cpc = "task" /\ cpc' = "recv" /\ cur' = NoEntry /\ index' = Added(index, ks, cur)
      /\ UNCHANGED <<kind, label, ch, rows, clpc, aged, old, query, stop>>
  BY DEF IndexTask, writeVars, stopVars
<1>2. kind = "db" /\ stop # "closed" /\ cur \in rows
  BY <1>1 DEF LInv, Shutdown, HasLog, IInv, HalfDone
<1>3. cur \in Entries /\ Older(cur)
  BY <1>2, RecordedIsOlder
<1>4. /\ label[cur].task # NoKey => label[cur].task # label[cur].trace
      /\ \A k \in Keys : k \in KeysOf(cur) <=> k = label[cur].trace \/ k = label[cur].task
  BY <1>3, Labelled DEF LInv, LogTypes, Older
<1>5. ks \subseteq KeysOf(cur) /\ \A k \in Keys : k \in ks <=> k = label[cur].task
  BY LogAssumption DEF KeysOf, Keys
<1>6. \A k \in Keys : cur \in Elems(index[k]) <=> k = label[cur].trace
  BY <1>1, <1>2 DEF IInv, Indexed, RowsIndexed
<1>7. \A k \in ks : k \in Keys => cur \notin Elems(index[k])
  BY <1>4, <1>6
<1> HIDE DEF ks
<1>8. /\ IndexTyped' /\ KnownIsOlder' /\ Queries'
      /\ \A k \in Keys : Elems(index'[k]) = Elems(index[k]) \cup (IF k \in ks THEN {cur} ELSE {})
  BY <1>1, <1>5, <1>7, IndexUnder
<1>9. Doomed' = Doomed /\ \A e : KeysOf(e)' = KeysOf(e)
  BY <1>1 DEF Doomed, KeysOf
<1>10. HalfDone'
  BY <1>1, <1>9 DEF IInv, HalfDone
<1>11. ASSUME NEW k \in Keys PROVE RowsIndexed(k)'
  <2>1. RowsIndexed(k)
    BY <1>2 DEF IInv, Indexed
  <2>2. \A e \in Entries \ Pending' : e \in Pending => e = cur
    BY <1>1, <1>9 DEF Pending
  <2>3. \A e \in Entries \ Pending' :
           e \in Elems(index'[k]) <=> e \in rows' /\ k \in KeysOf(e)'
    BY <1>1, <1>2, <1>4, <1>5, <1>6, <1>8, <1>9, <2>1, <2>2 DEF RowsIndexed
  <2>4. clpc' = "task" /\ k = label'[Doomed'].trace => Doomed' \notin Elems(index'[k])
    BY <1>1, <1>8, <1>9, <2>1, DoomedIsNotNew DEF RowsIndexed
  <2> QED
    BY <1>1, <2>3, <2>4 DEF RowsIndexed
<1>12. Indexed'
  BY <1>1, <1>2, <1>11 DEF IInv, Indexed
<1> QED
  BY <1>8, <1>10, <1>12 DEF IInv

\* A row that is deleted stays in the index for the moment, and is pending.
LEMMA CleanDeleteStep ==
    ASSUME LInv, IInv, CleanDelete
    PROVE  IInv'
<1>1. /\ clpc = "delete" /\ old # {}
      /\ UNCHANGED <<ringVars, kind, label, ch, cpc, cur, index, aged, query, stop>>
  BY DEF CleanDelete, writeVars, stopVars
<1>2. kind = "db" /\ Doomed \in old /\ Doomed \in aged /\ Doomed \in Entries
  BY <1>1, DoomedIsOld DEF IInv, HalfDone
<1>3. CASE rows' = rows \ {Doomed} /\ clpc' = "trace" /\ old' = old
  <2>1. Doomed' = Doomed /\ \A e : KeysOf(e)' = KeysOf(e) /\ Older(e)' = Older(e)
    BY <1>1, <1>3 DEF Doomed, KeysOf, Older
  <2>2. rows' = rows \ {Doomed}
    BY <1>3
  <2>3. IndexTyped' /\ KnownIsOlder'
    BY <1>1, <1>3, <2>1 DEF IInv, IndexTyped, KnownIsOlder
  <2>4. HalfDone'
    BY <1>1, <1>2, <1>3, <2>1, <2>2 DEF IInv, HalfDone
  <2>5. Pending' = Pending \cup {Doomed}
    BY <1>1, <1>3, <2>1 DEF Pending
  <2>6. \A k \in Keys : RowsIndexed(k) => RowsIndexed(k)'
    BY <1>1, <1>3, <2>1, <2>2, <2>5 DEF RowsIndexed
  <2>7. Indexed'
    BY <1>1, <1>2, <2>2, <2>6 DEF IInv, Indexed
  <2>8. Queries'
    BY <1>1, <2>2 DEF IInv, Queries
  <2> QED
    BY <2>3, <2>4, <2>7, <2>8 DEF IInv
<1>4. CASE old' = old \ {Doomed} /\ UNCHANGED <<rows, clpc>>
  <2>1. /\ aged \subseteq Entries /\ old \subseteq aged /\ \A e \in aged : Older(e)
        /\ cpc \in {"trace", "task"} => cur \notin aged
    BY DEF IInv, IndexTyped, KnownIsOlder, HalfDone
  <2> QED
    BY <1>1, <1>2, <1>4, <2>1, StaysIndexed
<1> QED
  BY <1>3, <1>4 DEF CleanDelete, Delete

\* removeFromIndex, for one key: what the query has still to read goes with the
\* row that is gone already, or the query is torn.
LEMMA UnindexFacts ==
    ASSUME IInv, NEW k \in Keys, NEW d \in Entries, Unindex(k, d), d \notin rows, rows' = rows
    PROVE  /\ index' \in [Keys -> Seq(Entries)] /\ \A j \in Keys : Distinct(index'[j])
           /\ \A j \in Keys : \A e : e \in Elems(index'[j]) <=> e \in Elems(index[j]) /\ (j = k => e # d)
           /\ Queries' /\ query'.whole = query.whole
<1>1. index' = [index EXCEPT ![k] = Removed(index[k], d)]
  BY DEF Unindex
<1>2. index \in [Keys -> Seq(Entries)] /\ \A j \in Keys : Distinct(index[j])
  BY DEF IInv, IndexTyped
<1>3. /\ Removed(index[k], d) \in Seq(Entries) /\ Distinct(Removed(index[k], d))
      /\ Elems(Removed(index[k], d)) = Elems(index[k]) \ {d}
  <2>1. index[k] \in Seq(Entries) /\ Distinct(index[k])
    BY <1>2
  <2> QED
    BY <2>1, RemovedElems
<1>4. /\ index' \in [Keys -> Seq(Entries)] /\ \A j \in Keys : Distinct(index'[j])
      /\ \A j \in Keys : \A e : e \in Elems(index'[j]) <=> e \in Elems(index[j]) /\ (j = k => e # d)
  <2>1. \A j \in Keys : index'[j] = IF j = k THEN Removed(index[k], d) ELSE index[j]
    BY <1>1, <1>2
  <2>2. index' \in [Keys -> Seq(Entries)]
    BY <1>1, <1>2, <1>3
  <2> QED
    BY <1>2, <1>3, <2>1, <2>2
<1>5. query \in [key : Keys \cup {NoKey}, ids : Seq(Entries), found : SUBSET Entries,
                 whole : SUBSET Entries, torn : BOOLEAN]
  BY DEF IInv, Queries
<1>6. query.ids \in Seq(Entries) /\ Distinct(query.ids)
  BY <1>5 DEF IInv, Queries
<1>7. \/ d \in Elems(query.ids) /\ query' = [query EXCEPT !.ids = Removed(query.ids, d)]
      \/ query.ids # <<>> /\ query' = [query EXCEPT !.ids = Tail(query.ids), !.torn = TRUE]
      \/ query' = query
  BY DEF Unindex, Shifted
<1>8. CASE query' = [query EXCEPT !.ids = Removed(query.ids, d)]
  <2>1. PICK ids \in Seq(Entries) : /\ ids = Removed(query.ids, d) /\ Distinct(ids)
                                   /\ Elems(ids) = Elems(query.ids) \ {d}
    BY <1>6, RemovedElems
  <2>2. /\ query'.ids = ids /\ query'.found = query.found /\ query'.whole = query.whole
        /\ query'.torn = query.torn
        /\ query' \in [key : Keys \cup {NoKey}, ids : Seq(Entries), found : SUBSET Entries,
                       whole : SUBSET Entries, torn : BOOLEAN]
    BY <1>5, <1>8, <2>1
  <2>3. Queries'
    BY <2>1, <2>2 DEF IInv, Queries
  <2> QED
    BY <1>4, <2>2, <2>3
<1>9. CASE query.ids # <<>> /\ query' = [query EXCEPT !.ids = Tail(query.ids), !.torn = TRUE]
  <2>1. PICK ids \in Seq(Entries) : ids = Tail(query.ids) /\ Distinct(ids)
    BY <1>6, <1>9, HeadAndTail, TailElems
  <2>2. Queries' /\ query'.whole = query.whole
    BY <1>5, <1>9, <2>1 DEF Queries
  <2> QED
    BY <1>4, <2>2
<1>10. CASE query' = query
  BY <1>4, <1>10 DEF IInv, Queries
<1> QED
  BY <1>7, <1>8, <1>9, <1>10

\* A step that takes IDs out of the index keeps what is known.
LEMMA FewerKnown ==
    ASSUME IInv, UNCHANGED <<label, ch>>, query'.whole \subseteq query.whole, aged' \subseteq aged,
           \A j \in Keys : \A e : e \in Elems(index'[j]) => e \in Elems(index[j])
    PROVE  KnownIsOlder'
<1>1. \A e : Older(e)' = Older(e) /\ KeysOf(e)' = KeysOf(e)
  BY DEF Older, KeysOf
<1> QED
  BY <1>1 DEF IInv, KnownIsOlder

LEMMA CleanTraceStep ==
    ASSUME LInv, IInv, CleanTrace
    PROVE  IInv'
<1>1. /\ clpc = "trace" /\ clpc' = "task" /\ Unindex(label[Doomed].trace, Doomed)
      /\ UNCHANGED <<kind, label, ch, cpc, cur, rows, old, aged, stop>>
  BY DEF CleanTrace, writeVars, stopVars
<1>2. kind = "db" /\ old # {}
  BY <1>1 DEF IInv, HalfDone
<1>3. PICK d \in Entries : d = Doomed
  BY <1>1, DoomedIsNotNew
<1>4. d \in aged /\ Older(d) /\ d \notin rows /\ (cpc \in {"trace", "task"} => d # cur)
  BY <1>1, <1>3, DoomedIsNotNew
<1>5. PICK k \in Keys : k = label[d].trace
  BY <1>4, Labelled DEF LInv, LogTypes, Older
<1>6. /\ index' \in [Keys -> Seq(Entries)] /\ \A j \in Keys : Distinct(index'[j])
      /\ \A j \in Keys : \A e : e \in Elems(index'[j]) <=> e \in Elems(index[j]) /\ (j = k => e # d)
      /\ Queries' /\ query'.whole = query.whole
  <2>1. Unindex(k, d) /\ d \notin rows /\ rows' = rows
    BY <1>1, <1>3, <1>4, <1>5
  <2> QED
    BY <2>1, UnindexFacts
<1>7. IndexTyped'
  BY <1>1, <1>6 DEF IInv, IndexTyped
<1>8. KnownIsOlder'
  BY <1>1, <1>6, FewerKnown
<1>9. Doomed' = d /\ Pending' = Pending /\ \A e : KeysOf(e)' = KeysOf(e)
  BY <1>1, <1>3 DEF Doomed, Pending, KeysOf
<1>10. HalfDone'
  BY <1>1, <1>2, <1>4, <1>9 DEF IInv, HalfDone
<1>11. ASSUME NEW j \in Keys, RowsIndexed(j) PROVE RowsIndexed(j)'
  <2>1. d \in Pending
    BY <1>1, <1>3 DEF Pending
  <2>2. \A e \in Entries \ Pending' :
           e \in Elems(index'[j]) <=> e \in rows' /\ j \in KeysOf(e)'
    BY <1>1, <1>6, <1>9, <1>11, <2>1 DEF RowsIndexed
  <2>3. /\ cpc' = "trace" => cur' \notin Elems(index'[j])
        /\ cpc' = "task" => (cur' \in Elems(index'[j]) <=> j = label'[cur'].trace)
    BY <1>1, <1>4, <1>6, <1>11 DEF RowsIndexed
  <2>4. j = label'[Doomed'].trace => Doomed' \notin Elems(index'[j])
    BY <1>1, <1>5, <1>6, <1>9
  <2> QED
    BY <2>2, <2>3, <2>4 DEF RowsIndexed
<1>12. Indexed'
  BY <1>1, <1>2, <1>11 DEF IInv, Indexed
<1> QED
  BY <1>6, <1>7, <1>8, <1>10, <1>12 DEF IInv

LEMMA CleanTaskStep ==
    ASSUME LInv, IInv, CleanTask
    PROVE  IInv'
<1>1. /\ clpc = "task" /\ clpc' = "delete" /\ old' = old \ {Doomed} /\ aged' = aged \ {Doomed}
      /\ IF label[Doomed].task = NoKey THEN UNCHANGED <<index, query>>
         ELSE Unindex(label[Doomed].task, Doomed)
      /\ UNCHANGED <<kind, label, ch, cpc, cur, rows, stop>>
  BY DEF CleanTask, writeVars, stopVars
<1>2. kind = "db" /\ old # {}
  BY <1>1 DEF IInv, HalfDone
<1>3. PICK d \in Entries : d = Doomed
  BY <1>1, DoomedIsNotNew
<1>4. d \in aged /\ Older(d) /\ d \notin rows /\ (cpc \in {"trace", "task"} => d # cur)
  BY <1>1, <1>3, DoomedIsNotNew
<1>5. /\ label[d].task # NoKey => label[d].task \in Keys
      /\ \A k \in Keys : k \in KeysOf(d) <=> k = label[d].trace \/ k = label[d].task
  BY <1>4, Labelled DEF LInv, LogTypes, Older
<1>6. /\ index' \in [Keys -> Seq(Entries)] /\ \A j \in Keys : Distinct(index'[j])
      /\ \A j \in Keys : \A e :
           e \in Elems(index'[j]) <=> e \in Elems(index[j]) /\ (j = label[d].task => e # d)
      /\ Queries' /\ query'.whole = query.whole
  <2>1. CASE label[d].task = NoKey
    <3>1. UNCHANGED <<index, query>>
      BY <1>1, <1>3, <2>1
    <3>2. \A j \in Keys : j # label[d].task
      BY <2>1, LogAssumption DEF Keys
    <3> QED
      BY <1>1, <3>1, <3>2 DEF IInv, IndexTyped, Queries
  <2>2. CASE label[d].task # NoKey
    <3>1. PICK k \in Keys : k = label[d].task
      BY <1>5, <2>2
    <3>2. Unindex(k, d)
      BY <1>1, <1>3, <2>2, <3>1
    <3> QED
      BY <1>1, <1>4, <3>1, <3>2, UnindexFacts
  <2> QED
    BY <2>1, <2>2
<1>7. IndexTyped'
  BY <1>1, <1>6 DEF IInv, IndexTyped
<1>8. KnownIsOlder'
  BY <1>1, <1>6, FewerKnown
<1>9. HalfDone'
  BY <1>1, <1>2 DEF IInv, HalfDone
<1>10. ASSUME NEW j \in Keys, RowsIndexed(j) PROVE RowsIndexed(j)'
  <2>1. Pending' = {cur} /\ Pending = {cur, d} /\ \A e : KeysOf(e)' = KeysOf(e)
    BY <1>1, <1>3 DEF Pending, KeysOf
  <2>2. d \notin Elems(index'[j])
    <3>1. d \in Elems(index[j]) => j \in KeysOf(d)
      BY DEF IInv, KnownIsOlder
    <3>2. j = label[d].trace => d \notin Elems(index[j])
      BY <1>1, <1>3, <1>10 DEF RowsIndexed
    <3> QED
      BY <1>5, <1>6, <3>1, <3>2
  <2>3. ASSUME NEW e \in Entries \ Pending'
        PROVE  e \in Elems(index'[j]) <=> e \in rows' /\ j \in KeysOf(e)'
    <3>1. CASE e = d
      BY <1>1, <1>4, <2>2, <3>1
    <3>2. CASE e # d
      BY <1>1, <1>6, <1>10, <2>1, <2>3, <3>2 DEF RowsIndexed
    <3> QED
      BY <3>1, <3>2
  <2>4. /\ cpc' = "trace" => cur' \notin Elems(index'[j])
        /\ cpc' = "task" => (cur' \in Elems(index'[j]) <=> j = label'[cur'].trace)
    BY <1>1, <1>4, <1>6, <1>10 DEF RowsIndexed
  <2> QED
    BY <1>1, <2>3, <2>4 DEF RowsIndexed
<1>11. Indexed'
  BY <1>1, <1>2, <1>10 DEF IInv, Indexed
<1> QED
  BY <1>6, <1>7, <1>8, <1>9, <1>11 DEF IInv

\* A step of a query changes nothing but the query.
LEMMA QueryOnly ==
    ASSUME IInv, Queries', \A e \in query'.whole : Older(e),
           UNCHANGED <<ringVars, kind, label, ch, cpc, cur, index, rows, clpc, old, aged, stop>>
    PROVE  IInv'
<1>1. \A e : Older(e)' = Older(e) /\ KeysOf(e)' = KeysOf(e)
  BY DEF Older, KeysOf
<1>2. Doomed' = Doomed /\ Pending' = Pending /\ RingContents' = RingContents
  BY DEF Doomed, Pending, RingContents, Slot, ringVars
<1>3. IndexTyped' /\ KnownIsOlder' /\ HalfDone'
  BY <1>1, <1>2 DEF IInv, IndexTyped, KnownIsOlder, HalfDone
<1>4. \A k \in Keys : RowsIndexed(k)' = RowsIndexed(k) /\ RingIndexed(k)' = RingIndexed(k)
  BY <1>1, <1>2 DEF RowsIndexed, RingIndexed
<1>5. Indexed'
  BY <1>2, <1>4 DEF IInv, Indexed
<1> QED
  BY <1>3, <1>5 DEF IInv

LEMMA QueryingStep ==
    ASSUME LInv, IInv, Querying
    PROVE  IInv'
<1>0. query \in [key : Keys \cup {NoKey}, ids : Seq(Entries), found : SUBSET Entries,
                 whole : SUBSET Entries, torn : BOOLEAN]
  BY DEF IInv, Queries
<1>1. ASSUME NEW k \in Keys, BeginQuery(k) PROVE IInv'
  <2>1. /\ query' = [NoQuery EXCEPT !.key = k, !.ids = index[k], !.whole = Elems(index[k])]
        /\ UNCHANGED <<ringVars, kind, label, ch, cpc, cur, index, rows, clpc, old, aged, stop>>
    BY <1>1 DEF BeginQuery, writeVars, logVars, stopVars
  <2>2. query' = [key |-> k, ids |-> index[k], found |-> {}, whole |-> Elems(index[k]), torn |-> FALSE]
    BY <2>1 DEF NoQuery
  <2>3. index[k] \in Seq(Entries) /\ Elems(index[k]) \subseteq Entries /\ Distinct(index[k])
    BY IndexedIsEntry DEF IInv, IndexTyped
  <2>4. Queries'
    BY <2>2, <2>3 DEF Queries
  <2>5. \A e \in query'.whole : Older(e)
    BY <2>2 DEF IInv, KnownIsOlder
  <2> QED
    BY <2>1, <2>4, <2>5, QueryOnly
<1>2. CASE GetRow
  <2>1. /\ query.ids # <<>>
        /\ query' = [query EXCEPT !.ids = Tail(query.ids), !.found = @ \cup Get(Head(query.ids))]
        /\ UNCHANGED <<ringVars, kind, label, ch, cpc, cur, index, rows, clpc, old, aged, stop>>
    BY <1>2 DEF GetRow, writeVars, logVars, stopVars
  <2>2. PICK s \in Seq(Entries) : s = query.ids
    BY <1>0
  <2>3. /\ Elems(s) = {Head(s)} \cup Elems(Tail(s)) /\ Head(s) \in Entries /\ Tail(s) \in Seq(Entries)
        /\ Distinct(Tail(s))
    BY <2>1, <2>2, TailElems DEF IInv, Queries
  <2>4. PICK f \in SUBSET Entries : f = query.found \cup ({Head(s)} \cap rows)
    BY <1>0, <2>3
  <2>5. /\ query'.ids = Tail(s) /\ query'.found = f
        /\ query'.whole = query.whole /\ query'.torn = query.torn
        /\ query' \in [key : Keys \cup {NoKey}, ids : Seq(Entries), found : SUBSET Entries,
                       whole : SUBSET Entries, torn : BOOLEAN]
    BY <1>0, <2>1, <2>2, <2>3, <2>4 DEF Get
  <2>6. Queries'
    <3>1. ~query'.torn => query'.whole \cap rows' \subseteq query'.found \cup Elems(query'.ids)
      BY <2>1, <2>2, <2>3, <2>4, <2>5 DEF IInv, Queries
    <3> QED
      BY <2>3, <2>5, <3>1 DEF Queries
  <2>7. \A e \in query'.whole : Older(e)
    BY <2>5 DEF IInv, KnownIsOlder
  <2> QED
    BY <2>1, <2>6, <2>7, QueryOnly
<1>3. CASE EndQuery
  <2>1. /\ query' = NoQuery
        /\ UNCHANGED <<ringVars, kind, label, ch, cpc, cur, index, rows, clpc, old, aged, stop>>
    BY <1>3 DEF EndQuery, writeVars, logVars, stopVars
  <2>2. Queries' /\ \A e \in query'.whole : Older(e)
    BY <2>1 DEF Queries, NoQuery, Distinct
  <2> QED
    BY <2>1, <2>2, QueryOnly
<1> QED
  BY <1>1, <1>2, <1>3 DEF Querying

\* Close leaves nothing in memory.
LEMMA CloseInnerStep ==
    ASSUME LInv, IInv, CloseInner
    PROVE  IInv'
<1>1. /\ cpc = "gone" /\ stop' = "closed" /\ RingClose /\ index' = NoIndex
      /\ UNCHANGED <<kind, label, ch, cpc, cur, rows, clpc, old, aged, query>>
  BY DEF CloseInner, writeVars
<1>2. RingContents' = <<>> /\ Elems(<<>>) = {} /\ Distinct(<<>>)
  BY <1>1, EmptyContents DEF Elems, Distinct
<1>3. \A k \in Keys : index'[k] = <<>>
  BY <1>1 DEF NoIndex
<1>4. index' \in [Keys -> Seq(Entries)]
  BY <1>1 DEF NoIndex
<1>5. IndexTyped'
  BY <1>1, <1>2, <1>3, <1>4 DEF IInv, IndexTyped
<1>6. \A k \in Keys : Elems(index'[k]) = {}
  BY <1>2, <1>3
<1>7. KnownIsOlder'
  BY <1>1, <1>6, FewerKnown
<1>8. Doomed' = Doomed
  BY <1>1 DEF Doomed
<1>9. HalfDone'
  BY <1>1, <1>8 DEF IInv, HalfDone
<1>10. \A k \in Keys : RingIndexed(k)'
  BY <1>2, <1>6 DEF RingIndexed
<1>11. Indexed'
  BY <1>1, <1>2, <1>10 DEF IInv, Indexed
<1>12. Queries'
  BY <1>1 DEF IInv, Queries
<1> QED
  BY <1>5, <1>7, <1>9, <1>11, <1>12 DEF IInv

\* A process that starts again finds its index in the rows.
LEMMA CrashStep ==
    ASSUME LInv, IInv, Crash
    PROVE  IInv'
<1>1. /\ ch' = <<>> /\ cpc' = "recv" /\ cur' = NoEntry /\ clpc' = "idle" /\ old' = {}
      /\ query' = NoQuery /\ RingReset /\ index' \in Rebuilt
      /\ UNCHANGED <<kind, label, rows, aged>>
  BY DEF Crash
<1>2. RingContents' = <<>> /\ Elems(<<>>) = {} /\ Distinct(<<>>)
  BY <1>1, EmptyContents DEF Elems, Distinct
<1>3. /\ index' \in [Keys -> Seq(Entries)]
      /\ \A k \in Keys : Distinct(index'[k]) /\ Elems(index'[k]) = ScanDB(k)
  <2>1. PICK ix \in Rebuilt : ix = index'
    BY <1>1
  <2>2. /\ ix \in [Keys -> Seq(Entries)]
        /\ \A k \in Keys : Distinct(ix[k]) /\ Elems(ix[k]) = ScanDB(k)
    BY RebuiltFacts
  <2> QED
    BY <2>1, <2>2
<1>4. \A k \in Keys : \A e : e \in Elems(index'[k]) <=> e \in rows /\ k \in KeysOf(e)
  BY <1>3 DEF ScanDB, AllEntries
<1>5. \A e : KeysOf(e)' = KeysOf(e) /\ (Older(e) => Older(e)')
  BY <1>1 DEF KeysOf, Older
<1>6. IndexTyped'
  BY <1>1, <1>3 DEF IInv, IndexTyped
<1>7. KnownIsOlder'
  <2>1. query'.whole = {}
    BY <1>1 DEF NoQuery
  <2>2. \A e \in rows : Older(e)
    BY RecordedIsOlder
  <2> QED
    BY <1>1, <1>4, <1>5, <2>1, <2>2 DEF IInv, KnownIsOlder
<1>8. HalfDone'
  BY <1>1 DEF HalfDone
<1>9. \A k \in Keys : RowsIndexed(k)'
  BY <1>1, <1>4, <1>5 DEF RowsIndexed
<1>10. kind # "db" => \A k \in Keys : RingIndexed(k)'
  <2>1. kind # "db" => rows = {}
    BY <1>2 DEF IInv, Indexed
  <2> QED
    BY <1>2, <1>4, <2>1 DEF RingIndexed
<1>11. Indexed'
  BY <1>1, <1>2, <1>9, <1>10 DEF IInv, Indexed
<1>12. Queries'
  BY <1>1 DEF Queries, NoQuery, Distinct
<1> QED
  BY <1>6, <1>7, <1>8, <1>11, <1>12 DEF IInv

LEMMA IInvStep ==
    ASSUME LInv, IInv, [Next]_vars
    PROVE  IInv'
<1>1. CASE UNCHANGED vars
  <2>1. /\ UNCHANGED <<ringVars, kind, label, ch, cpc, cur, index, rows, clpc, old, aged, stop>>
        /\ query' = query
    BY <1>1 DEF vars, writeVars, logVars, stopVars
  <2>2. Queries' /\ \A e \in query'.whole : Older(e)
    BY <2>1 DEF IInv, Queries, KnownIsOlder
  <2> QED
    BY <2>1, <2>2, QueryOnly
<1>2. CASE Write
  BY <1>2, QuietSteps, AppendAsyncStep DEF Write
<1>3. CASE Process
  BY <1>3, QuietSteps, TakeMemoryStep, TakeDBStep, TakeFailsStep, IndexTraceStep, IndexTaskStep
     DEF Process
<1>4. CASE Cleaning
  BY <1>4, QuietSteps, CleanerListStep, CleanDeleteStep, CleanTraceStep, CleanTaskStep DEF Cleaning
<1>5. CASE Querying
  BY <1>5, QueryingStep
<1>6. CASE Stopping
  BY <1>6, QuietSteps, CloseInnerStep DEF Stopping
<1> QED
  BY <1>1, <1>2, <1>3, <1>4, <1>5, <1>6, CrashStep DEF Next

\* Once processLoop and the cleaner are between two entries, the index has
\* exactly what the log has, every ID once, through crashes and Close.
THEOREM IInvHolds == Spec => []IInv
<1>1. Init => IInv
  <2> SUFFICES ASSUME Init PROVE IInv
    OBVIOUS
  <2>1. /\ ch = <<>> /\ cpc = "recv" /\ cur = NoEntry /\ rows = {} /\ index = NoIndex
        /\ clpc = "idle" /\ old = {} /\ aged = {} /\ query = NoQuery /\ RingInit
    BY DEF Init
  <2>2. RingContents = <<>> /\ Elems(<<>>) = {} /\ Distinct(<<>>)
    BY <2>1, EmptyContents DEF Elems, Distinct
  <2>3. index \in [Keys -> Seq(Entries)] /\ \A k \in Keys : index[k] = <<>>
    BY <2>1 DEF NoIndex
  <2>4. \A k \in Keys : Elems(index[k]) = {}
    BY <2>2, <2>3
  <2>5. IndexTyped
    BY <2>1, <2>2, <2>3 DEF IndexTyped
  <2>6. KnownIsOlder /\ HalfDone
    BY <2>1, <2>4 DEF KnownIsOlder, HalfDone, NoQuery
  <2>7. \A k \in Keys : RowsIndexed(k) /\ RingIndexed(k)
    BY <2>1, <2>2, <2>4 DEF RowsIndexed, RingIndexed
  <2>8. Indexed
    BY <2>1, <2>2, <2>7 DEF Indexed
  <2>9. Queries
    BY <2>1 DEF Queries, NoQuery, Distinct
  <2> QED
    BY <2>5, <2>6, <2>8, <2>9 DEF IInv
<1>2. LInv /\ IInv /\ [Next]_vars => IInv'
  BY IInvStep
<1> QED
  BY <1>1, <1>2, LInvHolds, PTL DEF Spec

\* A query that no deletion has torn finds every entry that was indexed when it
\* began and is still stored (getByIDs after the lock is released).
THEOREM LastingIsFoundHolds == Spec => []LastingIsFound
<1>1. IInv => LastingIsFound
  <2> SUFFICES ASSUME IInv, query.ids = <<>>, ~query.torn
               PROVE  query.whole \cap rows \subseteq query.found
    BY DEF LastingIsFound
  <2>1. Elems(query.ids) = {}
    BY DEF Elems
  <2> QED
    BY <2>1 DEF IInv, Queries
<1> QED
  BY <1>1, IInvHolds, PTL

\* The way through traceIndex and taskIndex and the scan of all entries find
\* the same entries, and the index has each ID once, for a ring of any size and
\* a database behind any cleaner.
THEOREM IndexFindsAllHolds == Spec => []IndexFindsAll
<1>1. LInv /\ IInv => IndexFindsAll
  <2> SUFFICES ASSUME LInv, IInv, stop # "closed", NEW k \in Keys
               PROVE  IF kind = "db"
                      THEN /\ Elems(index[k]) \ Pending = ScanDB(k) \ Pending
                           /\ Cardinality(Elems(index[k])) = Len(index[k])
                      ELSE FindByIDs(index[k]) = Scan(k) /\ Cardinality(Scan(k)) = Len(index[k])
    BY DEF IndexFindsAll
  <2>1. index[k] \in Seq(Entries) /\ \A e \in Elems(index[k]) : e \in Entries
    BY IndexedIsEntry DEF IInv
  <2>2. Cardinality(Elems(index[k])) = Len(index[k])
    BY <2>1, CountDistinct DEF IInv, IndexTyped
  <2>3. CASE kind = "db"
    <3>1. RowsIndexed(k)
      BY <2>3 DEF IInv, Indexed
    <3>2. \A e \in ScanDB(k) : e \in Entries
      BY RecordedIsOlder DEF ScanDB, AllEntries
    <3>3. Elems(index[k]) \ Pending = ScanDB(k) \ Pending
      BY <2>1, <3>1, <3>2 DEF RowsIndexed, ScanDB, AllEntries
    <3> QED
      BY <2>2, <2>3, <3>3
  <2>4. CASE kind # "db"
    <3>1. /\ Distinct(RingContents) /\ Elems(RingContents) \subseteq Entries
          /\ \A e \in Entries : e \in Elems(index[k]) <=> e \in Elems(RingContents) /\ k \in KeysOf(e)
      BY <2>4 DEF IInv, Indexed, RingIndexed
    <3>2. /\ DOMAIN RingContents = 1..count /\ Len(RingContents) = count /\ count \in Nat
      <4>1. RingContents \in Seq(Entries \cup {NoEntry}) /\ DOMAIN RingContents = 1..count
        BY ContentsByPosition DEF LInv, LogTypes
      <4>2. count \in Nat
        BY RingAssumption DEF LInv, LogTypes, RingTypeOK
      <4> QED
        BY <4>1, <4>2
    <3>3. \A i \in 1..count : RingContents[i] \in Elems(RingContents) /\ RingContents[i] \in Entries
      BY <3>1, <3>2 DEF Elems
    <3>4. FindByIDs(index[k]) = Scan(k)
      BY <3>1, <3>3 DEF FindByIDs, Scan
    <3> DEFINE f == [i \in Scan(k) |-> RingContents[i]]
    <3>5. Scan(k) \subseteq 1..count
      BY DEF Scan
    <3>6. \A i \in Scan(k) : f[i] \in Elems(index[k])
      BY <3>1, <3>3 DEF Scan
    <3>7. \A e \in Elems(index[k]) : \E i \in Scan(k) : f[i] = e
      <4> TAKE e \in Elems(index[k])
      <4>1. e \in Elems(RingContents) /\ k \in KeysOf(e)
        BY <2>1, <3>1
      <4>2. PICK i \in 1..count : RingContents[i] = e
        BY <3>2, <4>1 DEF Elems
      <4>3. i \in Scan(k)
        BY <4>1, <4>2 DEF Scan
      <4> QED
        BY <4>2, <4>3
    <3>8. \A i, j \in Scan(k) : f[i] = f[j] => i = j
      BY <3>1, <3>2, <3>5 DEF Distinct
    <3>9. f \in Surjection(Scan(k), Elems(index[k])) /\ f \in Injection(Scan(k), Elems(index[k]))
      BY <3>6, <3>7, <3>8 DEF Surjection, Injection, IsInjective
    <3>10. IsFiniteSet(Scan(k))
      BY <3>2, <3>5, FS_Interval, FS_Subset
    <3>11. Cardinality(Scan(k)) = Cardinality(Elems(index[k]))
      <4> HIDE DEF f
      <4> QED
        BY <3>9, <3>10, FS_Surjection
    <3> QED
      BY <2>2, <2>4, <3>4, <3>11
  <2> QED
    BY <2>3, <2>4
<1> QED
  BY <1>1, LInvHolds, IInvHolds, PTL

-----------------------------------------------------------------------------
(* The refinement.  The contents of the log are its order in memory, its    *)
(* table on a database, and the rows of the table that have expired; the    *)
(* index and the cleaner's list say which rows those are.                   *)

order == IF kind = "db" THEN <<>> ELSE RingContents
table == IF kind = "db" THEN rows ELSE {}
expired == IF kind = "db" THEN aged \cap rows ELSE {}
logged == <<kind = "db", order, table, expired>>

\* A step of the log in memory is a step of TraceLog, or none of its business.
LEMMA MemoryStep ==
    ASSUME LInv, Next, kind # "db"
    PROVE  [Log!Next]_logged
<1>1. /\ kind' = kind /\ (kind' = "db") = (kind = "db") /\ order = RingContents
      /\ order' = RingContents' /\ UNCHANGED <<table, expired>> /\ table = {}
  BY EntrySteps DEF order, table, expired
<1>2. CASE ring' = ring /\ head' = head /\ count' = count
  BY <1>1, <1>2 DEF RingContents, Slot, logged
<1>3. CASE TakeMemory
  <2>1. ch # <<>> /\ ch' = Tail(ch) /\ RingAppend(Head(ch)) /\ UNCHANGED label
    BY <1>3 DEF TakeMemory, writeVars
  <2>2. Head(ch) \in Entries
    BY <2>1, TakeKeepsOrder
  <2>3. RingContents \in Seq(Entries \cup {NoEntry}) /\ Len(RingContents) = count
    BY ContentsByPosition, RingAssumption DEF LInv, LogTypes, RingTypeOK
  <2>4. \A i \in 1..count : RingContents[i] # Head(ch)
    <3> TAKE i \in 1..count
    <3>1. PICK p \in 0..(RingSize - 1) : RingContents[i] = ring[p]
      BY ContentsByPosition, SlotPosition DEF LInv, LogTypes, RingTypeOK
    <3>2. ring[p] < Head(ch)
      BY <2>1, HeadAndTail DEF LInv, LogTypes, InOrder
    <3>3. ring[p] \in Int
      BY EntriesAreNumbers DEF LInv, LogTypes, RingTypeOK
    <3> QED
      BY <2>2, <3>1, <3>2, <3>3, EntriesAreNumbers
  <2>5. Head(ch) \in Entries \ (table \cup {RingContents[i] : i \in DOMAIN RingContents})
    BY <1>1, <2>2, <2>3, <2>4
  <2>6. Len(Append(RingContents, Head(ch))) = count + 1
    BY <2>2, <2>3, AppendFacts
  <2>7. RingContents' = Log!Kept(Append(RingContents, Head(ch)))
    <3>1. RingContents' = IF count = RingSize THEN Tail(Append(RingContents, Head(ch)))
                          ELSE Append(RingContents, Head(ch))
      BY <2>1, <2>2, AppendIsRecorded DEF LInv, LogTypes
    <3>2. Len(Append(RingContents, Head(ch))) > RingSize <=> count = RingSize
      BY <2>6, RingAssumption DEF LInv, LogTypes, RingTypeOK
    <3> QED
      BY <3>1, <3>2 DEF Log!Kept
  <2> QED
    BY <1>1, <2>5, <2>7 DEF Log!Next, Log!Record, Log!Recorded, order, table, expired
<1>4. CASE RingReset \/ RingClose
  <2>1. order' = <<>>
    BY <1>1, <1>4, EmptyContents
  <2> QED
    BY <1>1, <2>1 DEF Log!Next, Log!Reset, order, table, expired
<1> QED
  BY <1>2, <1>3, <1>4, EntrySteps
     DEF TakeDB, TakeFails, CleanDelete, CloseInner, Crash, AppendAsync, ringVars

\* What a step does to the rows that have expired: an entry gets old, or is
\* deleted; a new row is not old, and one that the cleaner is done with is gone.
LEMMA AgedSteps ==
    ASSUME IInv, Next
    PROVE  \/ \E e \in Made : Age(e)
           \/ CleanDelete \/ TakeDB
           \/ UNCHANGED <<kind, rows>> /\ aged' \cap rows = aged \cap rows
<1>1. CASE Write
  <2>1. CASE \E w \in Writers : Receive(w) \/ Finish(w) \/ Exit(w) \/ AppendPanics(w)
    BY <2>1 DEF Receive, Finish, Exit, AppendPanics, logVars
  <2>2. CASE \E w \in Writers, l \in Labels : AppendAsync(w, l)
    BY <2>2 DEF AppendAsync, logVars
  <2> QED
    BY <1>1, <2>1, <2>2 DEF Write
<1>2. CASE Process
  BY <1>2 DEF Process, TakeMemory, TakeFails, IndexTrace, IndexTask, LoopEnds, logVars
<1>3. CASE Cleaning
  <2>1. CASE CleanTask
    BY <2>1 DEF CleanTask, IInv, HalfDone
  <2>2. CASE Clean \/ CleanTrace \/ CleanDone
    BY <2>2 DEF Clean, CleanTrace, CleanDone, logVars
  <2> QED
    BY <1>3, <2>1, <2>2 DEF Cleaning
<1>4. CASE Querying
  BY <1>4 DEF Querying, GetRow, EndQuery, BeginQuery, logVars
<1>5. CASE Stopping
  BY <1>5 DEF Stopping, Cancel, Wait, CloseChannel, CloseInner, logVars
<1>6. CASE Crash
  BY <1>6 DEF Crash
<1> QED
  BY <1>1, <1>2, <1>3, <1>4, <1>5, <1>6 DEF Next

\* So is a step of the log on a database.
LEMMA DatabaseStep ==
    ASSUME LInv, IInv, Next, kind = "db"
    PROVE  [Log!Next]_logged
<1>1. /\ kind' = kind /\ (kind' = "db") = (kind = "db") /\ UNCHANGED order
      /\ table = rows /\ table' = rows' /\ order = <<>>
      /\ expired = aged \cap rows /\ expired' = aged' \cap rows'
  BY EntrySteps DEF order, table, expired
<1>2. CASE UNCHANGED <<kind, rows>> /\ aged' \cap rows = aged \cap rows
  BY <1>1, <1>2 DEF logged
<1>3. CASE TakeDB
  <2>1. /\ ch # <<>> /\ ch' = Tail(ch) /\ rows' = rows \cup {Head(ch)}
        /\ UNCHANGED <<label, aged>>
    BY <1>3 DEF TakeDB, Set, writeVars
  <2>2. PICK h \in Entries : /\ h = Head(ch)
                             /\ \A e \in Entries : Older(e) => e # h
    BY <2>1, TakeKeepsOlder
  <2>3. h \notin rows /\ h \notin aged
    BY <2>2, RecordedIsOlder DEF IInv, IndexTyped, KnownIsOlder
  <2>4. h \in Entries \ Log!Recorded
    BY <1>1, <2>2, <2>3 DEF Log!Recorded, order, table
  <2>5. table' = table \cup {h} /\ expired' = expired
    BY <1>1, <2>1, <2>2, <2>3
  <2> QED
    BY <1>1, <2>4, <2>5 DEF Log!Next, Log!Record, order, table, expired
<1>4. CASE CleanDelete
  <2>1. old # {} /\ aged' = aged /\ (rows' = rows \/ rows' = rows \ {Doomed})
    BY <1>4 DEF CleanDelete, Delete
  <2>2. CASE rows' = rows \/ Doomed \notin rows
    BY <1>1, <2>1, <2>2 DEF logged
  <2>3. CASE rows' = rows \ {Doomed} /\ Doomed \in rows
    <3>1. Doomed \in expired /\ table' = table \ {Doomed} /\ expired' = expired \ {Doomed}
      BY <1>1, <2>1, <2>3, DoomedIsOld DEF IInv
    <3> QED
      BY <1>1, <3>1 DEF Log!Next, Log!Expire, order, table, expired
  <2> QED
    BY <2>1, <2>2, <2>3
<1>5. ASSUME NEW e \in Made, Age(e) PROVE [Log!Next]_logged
  <2>1. e \in table \ expired /\ table' = table /\ expired' = expired \cup {e}
    BY <1>1, <1>5 DEF Age, logVars
  <2> QED
    BY <1>1, <2>1 DEF Log!Next, Log!Age, order, table, expired
<1> QED
  BY <1>2, <1>3, <1>4, <1>5, AgedSteps

\* The event log behind its queue, with its cleaner, crashes and Close,
\* implements TraceLog: no entry is recorded twice, the ring keeps the newest
\* ones in order, and a row leaves the database only after it has expired.
THEOREM LogIsKeptHolds == Spec => LogIsKept
<1>1. Init => Log!Init
  BY EmptyContents DEF Init, Log!Init
<1>2. LInv /\ IInv /\ [Next]_vars => [Log!Next]_logged
  <2> SUFFICES ASSUME LInv, IInv, [Next]_vars PROVE [Log!Next]_logged
    OBVIOUS
  <2>1. CASE UNCHANGED vars
    BY <2>1 DEF vars, ringVars, logVars, RingContents, Slot, logged, order, table, expired
  <2>2. CASE Next
    BY <2>2, MemoryStep, DatabaseStep
  <2> QED
    BY <2>1, <2>2
<1> QED
  BY <1>1, <1>2, LInvHolds, IInvHolds, PTL
     DEF Spec, LogIsKept, Log!Spec, logged, order, table, expired

=============================================================================
