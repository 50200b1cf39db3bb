--------------------------- MODULE EventBusProofs ---------------------------
(***************************************************************************)
(* Proofs about EventBus, for any number of clients and publishers and     *)
(* without the bounds on the subscribers: none of the steps below uses     *)
(* Room.                                                                   *)
(*                                                                         *)
(* First what the three operations on the slice do to the set of listed    *)
(* subscribers: append adds one, removal by identity takes one out and     *)
(* keeps the order of the others, a new array replaces all.  Then the      *)
(* invariant: who is listed has an open channel and a handler that has not *)
(* yet taken it off the list (GoneIsUnlisted), and a publication of the    *)
(* scheduler walks through a copy of its own, without repetition           *)
(* (Walks).                                                                *)
(***************************************************************************)
EXTENDS EventBus, SequenceTheorems, TLAPS

Labels == {"local", "stream", "remove", "close", "gone"}

\* The list, with whatever an array holds behind its end.
ListTyped ==
    /\ stateTopic \in BOOLEAN /\ count \in Nat
    /\ array \in Seq(Nat) /\ len \in Nat /\ len <= Len(array)
    /\ \A k \in 1..len : array[k] \in Subs

SubsTyped ==
    /\ spc \in Seq(Labels) /\ Len(spc) = count
    /\ closed \subseteq Subs

\* A handler whose clean-up has removed its subscriber is not listed.
GoneIsUnlisted == \A s \in Subs : spc[s] \in {"close", "gone"} => s \notin Listed

PubsTyped ==
    /\ DOMAIN view = Publishers /\ DOMAIN ppc = Publishers
    /\ pos \in [Publishers -> Nat]
    /\ DOMAIN there = LocalPublishers /\ DOMAIN served = LocalPublishers

\* A publisher of the scheduler is at a position of its own copy of the list,
\* which nobody is in twice; behind it is who it has served, and nobody that
\* was there all along is missing from it.
Walks(p) ==
    /\ view[p].shared = FALSE
    /\ view[p].len \in Nat /\ pos[p] \in 1..(view[p].len + 1)
    /\ \A j, k \in 1..view[p].len : view[p].own[j] = view[p].own[k] => j = k
    /\ served[p] = {view[p].own[k] : k \in 1..(pos[p] - 1)}
    /\ there[p] \subseteq {view[p].own[k] : k \in 1..view[p].len}
    /\ ppc[p] # "send" => pos[p] = 1

\* The inductive invariant.
BInv ==
    /\ ListTyped /\ SubsTyped /\ PubsTyped
    /\ ListedIsOpen /\ StreamIsListed /\ SingleSubscriber /\ GoneIsUnlisted
    /\ \A p \in LocalPublishers : p \notin twice /\ Walks(p)

-----------------------------------------------------------------------------
(* The slice.                                                              *)

\* No position of the first n of an array is like another.
Distinct(n, a) == \A j, k \in 1..n : a[j] = a[k] => j = k

LEMMA FunIsSeq ==
    ASSUME NEW S, NEW n \in Nat, NEW f \in [1..n -> S]
    PROVE  f \in Seq(S) /\ Len(f) = n
<1>1. f \in Seq(S)
  BY SeqDef
<1>2. DOMAIN f = 1..n /\ DOMAIN f = 1..Len(f) /\ Len(f) \in Nat
  BY <1>1, LenProperties
<1> QED
  BY <1>1, <1>2

\* What an operation on the list leaves: a list of these subscribers.
Lists(L) ==
    /\ array' \in Seq(Nat) /\ len' \in Nat /\ len' <= Len(array')
    /\ Elements(len', array') = L /\ Distinct(len', array')

LEMMA ListsIs ==
    ASSUME NEW a \in Seq(Nat), NEW n \in Nat, n <= Len(a), Distinct(n, a), len' = n, array' = a
    PROVE  Lists(Elements(n, a))
BY DEF Lists

LEMMA AppendAdds ==
    ASSUME ListTyped, Distinct(len, array), NEW x \in Nat, x \notin Listed, AppendSub(x)
    PROVE  Lists(Listed \cup {x}) /\ len' = len + 1
<1>0. array \in [1..Len(array) -> Nat] /\ Len(array) \in Nat /\ len \in Nat /\ len <= Len(array)
  BY LenProperties DEF ListTyped
<1>1. CASE len < Len(array)
  <2>1. len' = len + 1 /\ array' = [array EXCEPT ![len + 1] = x]
    BY <1>1 DEF AppendSub
  <2>2. array' \in [1..Len(array) -> Nat] /\ array'[len + 1] = x /\ \A k \in 1..len : array'[k] = array[k]
    BY <1>0, <1>1, <2>1
  <2>3. array' \in Seq(Nat) /\ Len(array') = Len(array)
    BY <1>0, <2>2, FunIsSeq
  <2>4. \A k \in 1..(len + 1) : k \in 1..len \/ k = len + 1
    BY <1>0
  <2>5. Elements(len', array') = Listed \cup {x}
    BY <1>0, <2>1, <2>2, <2>4 DEF Elements, Listed
  <2>6. \A k \in 1..len : array[k] # x
    BY DEF Elements, Listed
  <2>7. Distinct(len', array')
    BY <1>0, <2>1, <2>2, <2>4, <2>6 DEF Distinct
  <2>8. len' \in Nat /\ len' <= Len(array')
    BY <1>0, <1>1, <2>1, <2>3
  <2> QED
    BY <2>1, <2>3, <2>5, <2>7, <2>8 DEF Lists
<1>2. CASE ~(len < Len(array))
  <2> DEFINE cap == IF len = 0 THEN 1 ELSE 2 * len
  <2> DEFINE a == [k \in 1..cap |-> IF k <= len THEN array[k] ELSE IF k = len + 1 THEN x ELSE NoSub]
  <2>1. len' = len + 1 /\ array' = a
    BY <1>2 DEF AppendSub, NewArray
  <2>2. cap \in Nat /\ len + 1 <= cap
    BY <1>0
  <2> HIDE DEF cap
  <2>3. a \in [1..cap -> Nat]
    BY <1>0, <1>2, <2>2 DEF NoSub
  <2>4. a[len + 1] = x /\ \A k \in 1..len : a[k] = array[k]
    BY <1>0, <2>2
  <2> HIDE DEF a
  <2>5. a \in Seq(Nat) /\ Len(a) = cap
    BY <2>2, <2>3, FunIsSeq
  <2>6. \A k \in 1..(len + 1) : k \in 1..len \/ k = len + 1
    BY <1>0
  <2>7. Elements(len', array') = Listed \cup {x}
    BY <1>0, <2>1, <2>4, <2>6 DEF Elements, Listed
  <2>8. Distinct(len', array')
    BY <1>0, <2>1, <2>4, <2>6 DEF Distinct, Elements, Listed
  <2> QED
    BY <1>0, <2>1, <2>2, <2>5, <2>7, <2>8 DEF Lists
<1> QED
  BY <1>1, <1>2

LEMMA UnlistDrops ==
    ASSUME ListTyped, Distinct(len, array), NEW s, Unlist(s)
    PROVE  Lists(Listed \ {s}) /\ len' \in {len, len - 1}
<1>0. array \in [1..Len(array) -> Nat] /\ Len(array) \in Nat /\ len \in Nat /\ len <= Len(array)
  BY LenProperties DEF ListTyped
<1>1. CASE s \notin Listed
  BY <1>0, <1>1 DEF Unlist, Lists, ListTyped, Listed
<1>2. CASE s \in Listed
  <2> DEFINE i == CHOOSE k \in 1..len : array[k] = s
  <2>1. i \in 1..len /\ array[i] = s
    BY <1>2 DEF Listed, Elements
  <2>2. len' = len - 1 /\ array' = Dropped(s)
    BY <1>2 DEF Unlist
  <2>3. array' = [k \in DOMAIN array |-> IF k \in i..(len - 1) THEN array[k + 1] ELSE array[k]]
    BY <2>2 DEF Dropped
  <2> HIDE DEF i
  <2>4. array' \in [1..Len(array) -> Nat]
    BY <1>0, <2>1, <2>3
  <2>5. array' \in Seq(Nat) /\ Len(array') = Len(array)
    BY <1>0, <2>4, FunIsSeq
  <2>6. \A k \in 1..(len - 1) : array'[k] = IF k < i THEN array[k] ELSE array[k + 1]
    BY <1>0, <2>1, <2>3
  <2>7. \A k \in 1..len : array[k] = s => k = i
    BY <2>1 DEF Distinct
  <2>8. Elements(len - 1, array') \subseteq Listed \ {s}
    BY <1>0, <2>1, <2>6, <2>7 DEF Elements, Listed
  <2>9. ASSUME NEW y \in Listed \ {s} PROVE y \in Elements(len - 1, array')
    <3>1. PICK k \in 1..len : array[k] = y
      BY DEF Listed, Elements
    <3>2. k # i
      BY <2>1, <2>9, <3>1
    <3>3. CASE k < i
      BY <1>0, <2>1, <2>6, <3>1, <3>3 DEF Elements
    <3>4. CASE k > i
      <4>1. k - 1 \in 1..(len - 1) /\ array'[k - 1] = array[k]
        BY <1>0, <2>1, <2>6, <3>1, <3>4
      <4> QED
        BY <3>1, <4>1 DEF Elements
    <3> QED
      BY <2>1, <3>1, <3>2, <3>3, <3>4
  <2>10. Distinct(len - 1, array')
    <3>1. SUFFICES ASSUME NEW j \in 1..(len - 1), NEW k \in 1..(len - 1), array'[j] = array'[k] PROVE j = k
      BY DEF Distinct
    <3> DEFINE jj == IF j < i THEN j ELSE j + 1
    <3> DEFINE kk == IF k < i THEN k ELSE k + 1
    <3>2. jj \in 1..len /\ kk \in 1..len /\ array'[j] = array[jj] /\ array'[k] = array[kk]
      BY <1>0, <2>1, <2>6
    <3>3. jj = kk
      BY <3>1, <3>2 DEF Distinct
    <3> QED
      BY <2>1, <3>3
  <2>11. len - 1 \in Nat
    BY <1>0, <2>1
  <2> QED
    BY <1>0, <2>2, <2>5, <2>8, <2>9, <2>10, <2>11 DEF Lists
<1> QED
  BY <1>1, <1>2

LEMMA NewArrayIs ==
    ASSUME NEW s \in Nat
    PROVE  /\ NewArray(0, <<>>) => Lists({}) /\ len' = 0
           /\ NewArray(1, <<s>>) => Lists({s}) /\ len' = 1
<1>1. <<>> \in Seq(Nat) /\ Len(<<>>) = 0 /\ Elements(0, <<>>) = {} /\ Distinct(0, <<>>)
  BY DEF Elements, Distinct
<1>2. <<s>> \in Seq(Nat) /\ Len(<<s>>) = 1 /\ <<s>>[1] = s /\ 1..1 = {1}
  OBVIOUS
<1>3. Elements(1, <<s>>) = {s} /\ Distinct(1, <<s>>)
  BY <1>2 DEF Elements, Distinct
<1>4. ASSUME NewArray(0, <<>>) PROVE Lists({}) /\ len' = 0
  <2> DEFINE a == <<>>
  <2>1. a \in Seq(Nat) /\ 0 <= Len(a) /\ Elements(0, a) = {} /\ Distinct(0, a)
    BY <1>1
  <2>2. len' = 0 /\ array' = a
    BY <1>4 DEF NewArray
  <2> HIDE DEF a
  <2> QED
    BY <2>1, <2>2, ListsIs
<1>5. ASSUME NewArray(1, <<s>>) PROVE Lists({s}) /\ len' = 1
  <2> DEFINE a == <<s>>
  <2>1. a \in Seq(Nat) /\ 1 <= Len(a) /\ Elements(1, a) = {s} /\ Distinct(1, a)
    BY <1>2, <1>3
  <2>2. len' = 1 /\ array' = a
    BY <1>5 DEF NewArray
  <2> HIDE DEF a
  <2> QED
    BY <2>1, <2>2, ListsIs
<1> QED
  BY <1>4, <1>5

-----------------------------------------------------------------------------
(* Subscriptions.                                                          *)

SubsInv == ListTyped /\ SubsTyped /\ ListedIsOpen /\ StreamIsListed /\ SingleSubscriber /\ GoneIsUnlisted
PubsInv == PubsTyped /\ \A p \in LocalPublishers : p \notin twice /\ Walks(p)

LEMMA BInvIs == BInv <=> SubsInv /\ PubsInv
BY DEF BInv, SubsInv, PubsInv

\* The list is a list of subscribers again: what is left to show of it.
LEMMA ListedAgain ==
    ASSUME NEW L, Lists(L), L \subseteq Subs', count' \in Nat, stateTopic' \in BOOLEAN
    PROVE  ListTyped' /\ Listed' = L /\ (L \cap closed' = {} => ListedIsOpen')
<1>1. Listed' = L
  BY DEF Lists, Listed
<1>2. \A k \in 1..len' : array'[k] \in Subs'
  BY DEF Lists, Elements
<1> QED
  BY <1>1, <1>2 DEF Lists, ListTyped, ListedIsOpen, Distinct

\* A new subscriber gets the next number, and no other changes.
LEMMA NewSubIs ==
    ASSUME ListTyped, SubsTyped, NEW label \in Labels, NewSub(label)
    PROVE  /\ count' = count + 1 /\ count' \in Nat /\ Subs' = Subs \cup {count + 1} /\ count + 1 \notin Subs
           /\ spc' \in Seq(Labels) /\ Len(spc') = count' /\ spc'[count + 1] = label
           /\ \A s \in Subs : spc'[s] = spc[s]
BY DEF NewSub, ListTyped, SubsTyped, Subs

LEMMA SubscribeLocalSubs ==
    ASSUME SubsInv, SubscribeLocal
    PROVE  SubsInv'
<1> USE DEF SubsInv
<1>0. Listed \subseteq Subs /\ Distinct(len, array) /\ count + 1 \in Nat
  BY DEF ListTyped, Listed, Elements, ListedIsOpen, Distinct
<1>1. NewSub("local") /\ AppendSub(count + 1) /\ ~stateTopic /\ UNCHANGED <<stateTopic, closed>>
  BY DEF SubscribeLocal
<1>2. /\ count' = count + 1 /\ count' \in Nat /\ Subs' = Subs \cup {count + 1} /\ count + 1 \notin Subs
      /\ spc' \in Seq(Labels) /\ Len(spc') = count' /\ spc'[count + 1] = "local"
      /\ \A s \in Subs : spc'[s] = spc[s]
  BY <1>1, NewSubIs DEF Labels
<1>3. Lists(Listed \cup {count + 1})
  BY <1>0, <1>1, <1>2, AppendAdds
<1>4. (Listed \cup {count + 1}) \cap closed' = {} /\ Listed \cup {count + 1} \subseteq Subs'
  BY <1>0, <1>1, <1>2 DEF SubsTyped, ListedIsOpen
<1>5. stateTopic' \in BOOLEAN
  BY <1>1 DEF ListTyped
<1>6. ListTyped' /\ Listed' = Listed \cup {count + 1} /\ ListedIsOpen'
  BY <1>2, <1>3, <1>4, <1>5, ListedAgain
<1>7. SubsTyped' /\ SingleSubscriber'
  BY <1>1, <1>2 DEF SubsTyped, SingleSubscriber
<1>8. StreamIsListed' /\ GoneIsUnlisted'
  BY <1>1, <1>2, <1>6 DEF StreamIsListed, GoneIsUnlisted
<1> QED
  BY <1>6, <1>7, <1>8

LEMMA SubscribeSubs ==
    ASSUME SubsInv, NEW c \in Clients, Subscribe(c)
    PROVE  SubsInv'
<1> USE DEF SubsInv
<1>0. Listed \subseteq Subs /\ Distinct(len, array) /\ count + 1 \in Nat /\ closed \subseteq Subs
  BY DEF ListTyped, SubsTyped, Listed, Elements, ListedIsOpen, Distinct
<1>1. NewSub("stream") /\ Register(count + 1) /\ UNCHANGED stateTopic
  BY DEF Subscribe
<1>2. /\ count' = count + 1 /\ count' \in Nat /\ Subs' = Subs \cup {count + 1} /\ count + 1 \notin Subs
      /\ spc' \in Seq(Labels) /\ Len(spc') = count' /\ spc'[count + 1] = "stream"
      /\ \A s \in Subs : spc'[s] = spc[s]
  BY <1>1, NewSubIs DEF Labels
<1>3. CASE stateTopic /\ len > 0
  <2>1. closed' = closed \cup Listed /\ NewArray(1, <<count + 1>>)
    BY <1>1, <1>3 DEF Register
  <2>2. Lists({count + 1}) /\ len' = 1
    BY <1>0, <2>1, NewArrayIs
  <2>3. ListTyped' /\ Listed' = {count + 1} /\ ListedIsOpen'
    BY <1>0, <1>1, <1>2, <2>1, <2>2, ListedAgain DEF ListTyped
  <2>4. SubsTyped' /\ SingleSubscriber'
    BY <1>0, <1>2, <2>1, <2>2 DEF SubsTyped, SingleSubscriber
  <2>5. StreamIsListed' /\ GoneIsUnlisted'
    BY <1>2, <2>1, <2>3 DEF StreamIsListed, GoneIsUnlisted
  <2> QED
    BY <2>3, <2>4, <2>5
<1>4. CASE ~(stateTopic /\ len > 0)
  <2>1. UNCHANGED closed /\ AppendSub(count + 1)
    BY <1>1, <1>4 DEF Register
  <2>2. Lists(Listed \cup {count + 1}) /\ len' = len + 1
    BY <1>0, <1>2, <2>1, AppendAdds
  <2>3. (Listed \cup {count + 1}) \cap closed' = {} /\ Listed \cup {count + 1} \subseteq Subs'
    BY <1>0, <1>2, <2>1 DEF ListedIsOpen
  <2>4. stateTopic' \in BOOLEAN
    BY <1>1 DEF ListTyped
  <2>5. ListTyped' /\ Listed' = Listed \cup {count + 1} /\ ListedIsOpen'
    BY <1>2, <2>2, <2>3, <2>4, ListedAgain
  <2>6. SubsTyped' /\ SingleSubscriber'
    BY <1>0, <1>1, <1>2, <1>4, <2>1, <2>2 DEF SubsTyped, SingleSubscriber, ListTyped
  <2>7. StreamIsListed' /\ GoneIsUnlisted'
    BY <1>2, <2>1, <2>5 DEF StreamIsListed, GoneIsUnlisted
  <2> QED
    BY <2>5, <2>6, <2>7
<1> QED
  BY <1>3, <1>4

\* A handler goes on to its next label.
LEMMA GotoIs ==
    ASSUME ListTyped, SubsTyped, NEW s \in Subs, NEW label \in Labels, Goto(s, label)
    PROVE  /\ spc' \in Seq(Labels) /\ Len(spc') = Len(spc) /\ spc'[s] = label
           /\ \A t \in Subs \ {s} : spc'[t] = spc[t]
<1>1. spc \in [1..Len(spc) -> Labels] /\ Len(spc) \in Nat /\ s \in 1..Len(spc) /\ Subs = 1..Len(spc)
  BY LenProperties DEF SubsTyped, Subs
<1>2. spc' = [spc EXCEPT ![s] = label]
  BY DEF Goto
<1>3. spc' \in [1..Len(spc) -> Labels] /\ spc'[s] = label /\ \A t \in Subs \ {s} : spc'[t] = spc[t]
  BY <1>1, <1>2
<1> QED
  BY <1>1, <1>3, FunIsSeq

\* The list stays as it is, and no handler goes back to its stream.
LEMMA SameList ==
    ASSUME SubsInv, UNCHANGED <<stateTopic, count, len, array>>,
           closed \subseteq closed', closed' \subseteq Subs, Listed \cap closed' = {},
           spc' \in Seq(Labels), Len(spc') = count,
           \A t \in Subs : /\ spc'[t] \in {"stream", "local"} => spc[t] = spc'[t]
                           /\ spc'[t] \in {"close", "gone"} => t \notin Listed
    PROVE  SubsInv'
<1> USE DEF SubsInv
<1>1. Listed' = Listed /\ Subs' = Subs
  BY DEF Listed, Elements, Subs
<1>2. ListTyped' /\ SubsTyped' /\ SingleSubscriber'
  BY <1>1 DEF ListTyped, SubsTyped, SingleSubscriber
<1>3. ListedIsOpen'
  BY <1>1 DEF ListedIsOpen
<1>4. StreamIsListed' /\ GoneIsUnlisted'
  BY <1>1 DEF StreamIsListed, GoneIsUnlisted
<1> QED
  BY <1>2, <1>3, <1>4

LEMMA StreamStepSubs ==
    ASSUME SubsInv, NEW s \in Subs, StreamStep(s)
    PROVE  SubsInv'
<1> USE DEF SubsInv
<1>0. Listed \subseteq Subs /\ Distinct(len, array) /\ closed \subseteq Subs /\ Listed \cap closed = {}
  BY DEF ListTyped, SubsTyped, Listed, Elements, ListedIsOpen, Distinct
<1>1. CASE StreamSend(s) \/ StreamEnds(s)
  <2>1. UNCHANGED <<stateTopic, count, len, array, closed>> /\ (Goto(s, "remove") \/ UNCHANGED spc)
    BY <1>1 DEF StreamSend, StreamEnds, listVars
  <2>2. CASE Goto(s, "remove")
    <3>1. /\ spc' \in Seq(Labels) /\ Len(spc') = Len(spc) /\ spc'[s] = "remove"
          /\ \A t \in Subs \ {s} : spc'[t] = spc[t]
      BY <2>2, GotoIs DEF Labels
    <3>2. \A t \in Subs : /\ spc'[t] \in {"stream", "local"} => spc[t] = spc'[t]
                          /\ spc'[t] \in {"close", "gone"} => t \notin Listed
      BY <3>1 DEF GoneIsUnlisted
    <3> QED
      BY <1>0, <2>1, <3>1, <3>2, SameList DEF SubsTyped
  <2>3. CASE UNCHANGED spc
    BY <1>0, <2>1, <2>3, SameList DEF SubsTyped, GoneIsUnlisted
  <2> QED
    BY <2>1, <2>2, <2>3
<1>2. CASE RemoveSub(s)
  <2>1. Unlist(s) /\ Goto(s, "close") /\ UNCHANGED <<stateTopic, count, closed>> /\ spc[s] = "remove"
    BY <1>2 DEF RemoveSub
  <2>2. /\ spc' \in Seq(Labels) /\ Len(spc') = Len(spc) /\ spc'[s] = "close"
        /\ \A t \in Subs \ {s} : spc'[t] = spc[t]
    BY <2>1, GotoIs DEF Labels
  <2>3. Lists(Listed \ {s}) /\ len' \in {len, len - 1} /\ Subs' = Subs
    BY <1>0, <2>1, UnlistDrops DEF Subs
  <2>4. ListTyped' /\ Listed' = Listed \ {s} /\ ListedIsOpen'
    BY <1>0, <2>1, <2>3, ListedAgain DEF ListTyped
  <2>5. SubsTyped' /\ SingleSubscriber'
    BY <2>1, <2>2, <2>3 DEF SubsTyped, SingleSubscriber, ListTyped
  <2>6. StreamIsListed' /\ GoneIsUnlisted'
    BY <2>1, <2>2, <2>3, <2>4 DEF StreamIsListed, GoneIsUnlisted
  <2> QED
    BY <2>4, <2>5, <2>6
<1>3. CASE CloseSub(s)
  <2>1. /\ spc[s] = "close" /\ Goto(s, "gone") /\ closed' = closed \cup {s}
        /\ UNCHANGED <<stateTopic, count, len, array>>
    BY <1>3 DEF CloseSub, listVars
  <2>2. s \notin Listed
    BY <2>1 DEF GoneIsUnlisted
  <2>3. /\ spc' \in Seq(Labels) /\ Len(spc') = Len(spc) /\ spc'[s] = "gone"
        /\ \A t \in Subs \ {s} : spc'[t] = spc[t]
    BY <2>1, GotoIs DEF Labels
  <2>4. \A t \in Subs : /\ spc'[t] \in {"stream", "local"} => spc[t] = spc'[t]
                        /\ spc'[t] \in {"close", "gone"} => t \notin Listed
    BY <2>2, <2>3 DEF GoneIsUnlisted
  <2> QED
    BY <1>0, <2>1, <2>2, <2>3, <2>4, SameList DEF SubsTyped
<1> QED
  BY <1>1, <1>2, <1>3 DEF StreamStep

LEMMA CloseListedSubs ==
    ASSUME SubsInv, CloseListed
    PROVE  SubsInv'
<1> USE DEF SubsInv
<1>0. Listed \subseteq Subs /\ closed \subseteq Subs
  BY DEF ListTyped, SubsTyped, Listed, Elements
<1>1. closed' = closed \cup Listed /\ NewArray(0, <<>>) /\ UNCHANGED <<stateTopic, count, spc>>
  BY DEF CloseListed
<1>2. Lists({}) /\ len' = 0 /\ Subs' = Subs
  BY <1>1, NewArrayIs DEF Subs
<1>3. ListTyped' /\ Listed' = {} /\ ListedIsOpen'
  BY <1>1, <1>2, ListedAgain DEF ListTyped
<1>4. SubsTyped' /\ SingleSubscriber'
  BY <1>0, <1>1, <1>2 DEF SubsTyped, SingleSubscriber
<1>5. StreamIsListed' /\ GoneIsUnlisted'
  BY <1>1, <1>2, <1>3 DEF StreamIsListed, GoneIsUnlisted
<1> QED
  BY <1>3, <1>4, <1>5

\* The steps that leave the list and the handlers alone.
LEMMA OthersSubs ==
    ASSUME SubsInv, UNCHANGED <<stateTopic, listVars, closed, spc>>
    PROVE  SubsInv'
<1> USE DEF SubsInv
<1>1. Listed \cap closed = {} /\ UNCHANGED <<stateTopic, count, len, array, closed, spc>>
  BY DEF ListedIsOpen, listVars
<1> QED
  BY <1>1, SameList DEF SubsTyped, GoneIsUnlisted

-----------------------------------------------------------------------------
(* Publications.                                                           *)

\* The list may change under a publication of the scheduler, which has its own.
LEMMA PubsKept ==
    ASSUME PubsInv, UNCHANGED <<ppc, pos, served, twice>>,
           DOMAIN view' = Publishers, \A p \in LocalPublishers : view'[p] = view[p],
           DOMAIN there' = LocalPublishers, \A p \in LocalPublishers : there'[p] \subseteq there[p]
    PROVE  PubsInv'
<1> USE DEF PubsInv
<1>1. PubsTyped'
  BY DEF PubsTyped
<1>2. ASSUME NEW p \in LocalPublishers PROVE p \notin twice' /\ Walks(p)'
  BY DEF Walks
<1> QED
  BY <1>1, <1>2

LEMMA NewArrayPubs ==
    ASSUME PubsInv, NEW n, NEW a, NewArray(n, a)
    PROVE  DOMAIN view' = Publishers /\ \A p \in LocalPublishers : view'[p] = view[p]
BY DEF NewArray, PubsInv, Walks, Publishers

LEMMA AppendPubs ==
    ASSUME PubsInv, NEW x, AppendSub(x)
    PROVE  DOMAIN view' = Publishers /\ \A p \in LocalPublishers : view'[p] = view[p]
<1>1. CASE len < Len(array)
  BY <1>1 DEF AppendSub, PubsInv, PubsTyped
<1>2. CASE ~(len < Len(array))
  <2> DEFINE a == [k \in 1..(IF len = 0 THEN 1 ELSE 2 * len) |->
                     IF k <= len THEN array[k] ELSE IF k = len + 1 THEN x ELSE NoSub]
  <2>1. NewArray(len + 1, a)
    BY <1>2 DEF AppendSub
  <2> HIDE DEF a
  <2> QED
    BY <2>1, NewArrayPubs
<1> QED
  BY <1>1, <1>2

LEMMA KeepThereIs ==
    ASSUME PubsInv, KeepThere
    PROVE  DOMAIN there' = LocalPublishers /\ \A p \in LocalPublishers : there'[p] \subseteq there[p]
BY DEF KeepThere, PubsInv, PubsTyped

LEMMA SubscribersPubs ==
    ASSUME PubsInv,
           \/ SubscribeLocal \/ CloseListed
           \/ \E c \in Clients : Subscribe(c)
           \/ \E s \in Subs : RemoveSub(s)
    PROVE  PubsInv'
<1>0. DOMAIN view = Publishers /\ DOMAIN there = LocalPublishers
  BY DEF PubsInv, PubsTyped
<1>1. CASE SubscribeLocal
  <2>1. UNCHANGED <<ppc, pos, there, served, twice>> /\ AppendSub(count + 1)
    BY <1>1 DEF SubscribeLocal, historyVars
  <2> QED
    BY <1>0, <2>1, AppendPubs, PubsKept
<1>2. CASE CloseListed
  <2>1. UNCHANGED <<ppc, pos, served, twice>> /\ NewArray(0, <<>>) /\ KeepThere
    BY <1>2 DEF CloseListed
  <2> QED
    BY <2>1, NewArrayPubs, KeepThereIs, PubsKept
<1>3. ASSUME NEW c \in Clients, Subscribe(c) PROVE PubsInv'
  <2>1. /\ UNCHANGED <<ppc, pos, served, twice>> /\ KeepThere
        /\ NewArray(1, <<count + 1>>) \/ AppendSub(count + 1)
    BY <1>3 DEF Subscribe, Register
  <2> QED
    BY <2>1, NewArrayPubs, AppendPubs, KeepThereIs, PubsKept
<1>4. ASSUME NEW s \in Subs, RemoveSub(s) PROVE PubsInv'
  <2>1. UNCHANGED <<ppc, view, pos, served, twice>> /\ KeepThere
    BY <1>4 DEF RemoveSub
  <2> QED
    BY <1>0, <2>1, KeepThereIs, PubsKept
<1> QED
  BY <1>1, <1>2, <1>3, <1>4

\* The copy that publishLocal makes of the list.
LEMMA CopyIs ==
    ASSUME SubsInv
    PROVE  /\ Copied.shared = FALSE /\ Copied.len = len /\ len \in Nat
           /\ \A k \in 1..len : Copied.own[k] = array[k]
<1>1. array \in Seq(Nat) /\ len \in Nat /\ len <= Len(array) /\ Len(array) \in Nat
  BY DEF SubsInv, ListTyped
<1>2. \A k \in 1..len : SubSeq(array, 1, len)[k] = array[k]
  BY <1>1
<1> QED
  BY <1>1, <1>2 DEF Copied

LEMMA BeginPubs ==
    ASSUME SubsInv, PubsInv,
           \/ \E p \in LocalPublishers : PublishLocal(p)
           \/ \E p \in RemotePublishers : Publish(p)
    PROVE  PubsInv'
<1> USE DEF PubsInv
<1>0. /\ DOMAIN view = Publishers /\ DOMAIN ppc = Publishers /\ DOMAIN there = LocalPublishers
      /\ LocalPublishers \cap RemotePublishers = {}
  BY BusAssumption DEF PubsTyped
<1>1. ASSUME NEW p \in RemotePublishers, Publish(p) PROVE PubsInv'
  <2>1. /\ ppc' = [ppc EXCEPT ![p] = "send"] /\ view' = [view EXCEPT ![p] = Shared]
        /\ UNCHANGED <<there, pos, served, twice>>
    BY <1>1 DEF Publish, Begin
  <2>2. PubsTyped'
    BY <2>1 DEF PubsTyped
  <2>3. \A q \in LocalPublishers : view'[q] = view[q] /\ ppc'[q] = ppc[q]
    BY <1>0, <2>1 DEF Publishers
  <2>4. \A q \in LocalPublishers : q \notin twice' /\ Walks(q)'
    BY <2>1, <2>3 DEF Walks
  <2> QED
    BY <2>2, <2>4
<1>2. ASSUME NEW p \in LocalPublishers, PublishLocal(p) PROVE PubsInv'
  <2>1. /\ ppc[p] = "idle" /\ ppc' = [ppc EXCEPT ![p] = "send"] /\ view' = [view EXCEPT ![p] = Copied]
        /\ there' = [there EXCEPT ![p] = Listed] /\ UNCHANGED <<pos, served, twice>>
    BY <1>2 DEF PublishLocal, Begin
  <2>2. PubsTyped'
    BY <2>1 DEF PubsTyped
  <2>3. \A q \in LocalPublishers \ {p} : view'[q] = view[q] /\ ppc'[q] = ppc[q] /\ there'[q] = there[q]
    BY <1>0, <2>1 DEF Publishers
  <2>4. view'[p] = Copied /\ there'[p] = Listed
    BY <1>0, <2>1 DEF Publishers
  <2>5. pos[p] = 1 /\ served[p] = {}
    BY <2>1 DEF Walks
  <2>6. pos'[p] \in 1..(len + 1) /\ served'[p] = {Copied.own[k] : k \in 1..(pos'[p] - 1)} /\ p \notin twice'
    BY <2>1, <2>5, CopyIs
  <2>7. \A j, k \in 1..len : Copied.own[j] = Copied.own[k] => j = k
    BY CopyIs DEF SubsInv, ListedIsOpen
  <2>8. Listed \subseteq {Copied.own[k] : k \in 1..len}
    BY CopyIs DEF Listed, Elements
  <2> DEFINE v == Copied
  <2>9. v.shared = FALSE /\ v.len = len /\ len \in Nat
    BY CopyIs
  <2> HIDE DEF v
  <2>10. view'[p] = v /\ there'[p] \subseteq {v.own[k] : k \in 1..v.len} /\ pos'[p] = 1
    BY <2>1, <2>4, <2>5, <2>8, <2>9 DEF v
  <2>11. \A j, k \in 1..v.len : v.own[j] = v.own[k] => j = k
    BY <2>7, <2>9 DEF v
  <2>12. pos'[p] \in 1..(v.len + 1) /\ served'[p] = {v.own[k] : k \in 1..(pos'[p] - 1)}
    BY <2>6, <2>9 DEF v
  <2>13. Walks(p)'
    BY <2>9, <2>10, <2>11, <2>12 DEF Walks
  <2>14. \A q \in LocalPublishers \ {p} : q \notin twice' /\ Walks(q)'
    BY <2>1, <2>3 DEF Walks
  <2> QED
    BY <2>2, <2>6, <2>13, <2>14
<1> QED
  BY <1>1, <1>2

\* Whom a publisher of the scheduler comes to next it has not served yet.
LEMMA NextIsNew ==
    ASSUME NEW p \in LocalPublishers, Walks(p), Sending(p)
    PROVE  Current(p) = view[p].own[pos[p]] /\ Current(p) \notin served[p]
BY DEF Walks, Sending, Current

LEMMA PassPubs ==
    ASSUME PubsInv, NEW p \in Publishers, Sending(p), Pass(p),
           twice' # twice => p \in LocalPublishers /\ Current(p) \in served[p]
    PROVE  PubsInv'
<1> USE DEF PubsInv
<1>0. DOMAIN view = Publishers /\ pos \in [Publishers -> Nat] /\ LocalPublishers \subseteq Publishers
  BY DEF PubsTyped, Publishers
<1>1. /\ pos' = [pos EXCEPT ![p] = @ + 1]
      /\ served' = [q \in LocalPublishers |-> IF q = p THEN served[q] \cup {Current(p)} ELSE served[q]]
      /\ UNCHANGED <<ppc, view, there>>
  BY DEF Pass
<1>2. twice' = twice
  BY NextIsNew
<1>3. PubsTyped'
  BY <1>0, <1>1 DEF PubsTyped
<1>4. \A q \in LocalPublishers \ {p} : pos'[q] = pos[q] /\ served'[q] = served[q]
  BY <1>0, <1>1
<1>5. \A q \in LocalPublishers \ {p} : q \notin twice' /\ Walks(q)'
  BY <1>1, <1>2, <1>4 DEF Walks
<1>6. ASSUME p \in LocalPublishers PROVE p \notin twice' /\ Walks(p)'
  <2>1. /\ pos'[p] = pos[p] + 1 /\ served'[p] = served[p] \cup {view[p].own[pos[p]]}
    BY <1>0, <1>1, <1>6, NextIsNew
  <2>2. /\ view[p].len \in Nat /\ pos[p] \in Nat /\ 1 <= pos[p] /\ pos[p] <= view[p].len /\ ppc[p] = "send"
        /\ served[p] = {view[p].own[k] : k \in 1..(pos[p] - 1)}
    BY <1>0, <1>6 DEF Walks, Sending
  <2>3. pos'[p] \in 1..(view[p].len + 1)
    BY <2>1, <2>2
  <2>4. \A k : k \in 1..(pos'[p] - 1) <=> k \in 1..(pos[p] - 1) \/ k = pos[p]
    BY <2>1, <2>2
  <2>5. served'[p] = {view[p].own[k] : k \in 1..(pos'[p] - 1)}
    BY <2>1, <2>2, <2>4
  <2> QED
    BY <1>1, <1>2, <1>6, <2>2, <2>3, <2>5 DEF Walks
<1> QED
  BY <1>3, <1>5, <1>6

LEMMA LeavePubs ==
    ASSUME PubsInv, NEW p \in Publishers, NEW label \in {"idle", "panicked"}, Leave(p, label)
    PROVE  PubsInv'
<1> USE DEF PubsInv
<1>0. /\ DOMAIN view = Publishers /\ DOMAIN ppc = Publishers /\ pos \in [Publishers -> Nat]
      /\ LocalPublishers \subseteq Publishers
  BY DEF PubsTyped, Publishers
<1>1. /\ ppc' = [ppc EXCEPT ![p] = label] /\ view' = [view EXCEPT ![p] = NoView]
      /\ pos' = [pos EXCEPT ![p] = 1] /\ UNCHANGED twice
      /\ there' = [q \in LocalPublishers |-> IF q = p THEN {} ELSE there[q]]
      /\ served' = [q \in LocalPublishers |-> IF q = p THEN {} ELSE served[q]]
  BY DEF Leave
<1>2. PubsTyped'
  BY <1>0, <1>1 DEF PubsTyped
<1>3. \A q \in LocalPublishers \ {p} : /\ view'[q] = view[q] /\ ppc'[q] = ppc[q] /\ pos'[q] = pos[q]
                                       /\ there'[q] = there[q] /\ served'[q] = served[q]
  BY <1>0, <1>1
<1>4. \A q \in LocalPublishers \ {p} : q \notin twice' /\ Walks(q)'
  BY <1>1, <1>3 DEF Walks
<1>5. ASSUME p \in LocalPublishers PROVE p \notin twice' /\ Walks(p)'
  <2>1. /\ view'[p] = NoView /\ ppc'[p] = label /\ pos'[p] = 1 /\ there'[p] = {} /\ served'[p] = {}
    BY <1>0, <1>1, <1>5
  <2>2. NoView.shared = FALSE /\ NoView.len = 0
    BY DEF NoView
  <2> QED
    BY <1>1, <1>5, <2>1, <2>2 DEF Walks
<1> QED
  BY <1>2, <1>4, <1>5

LEMMA PublishStepPubs ==
    ASSUME PubsInv, NEW p \in Publishers, PublishStep(p)
    PROVE  PubsInv'
<1>1. CASE Send(p)
  BY <1>1, PassPubs DEF Send
<1>2. CASE Drop(p) \/ SkipDone(p)
  BY <1>2, PassPubs DEF Drop, SkipDone
<1>3. CASE SendPanics(p)
  BY <1>3, LeavePubs DEF SendPanics
<1>4. CASE Finish(p)
  BY <1>4, LeavePubs DEF Finish
<1> QED
  BY <1>1, <1>2, <1>3, <1>4 DEF PublishStep

-----------------------------------------------------------------------------
(* The theorems.                                                           *)

LEMMA InitBInv == Init => BInv
<1> SUFFICES ASSUME Init PROVE SubsInv /\ PubsInv
  BY BInvIs
<1> USE DEF Init
<1>1. Subs = {} /\ Listed = {} /\ <<>> \in Seq(Nat) /\ <<>> \in Seq(Labels) /\ Len(<<>>) = 0
  BY DEF Subs, Listed, Elements
<1>2. ListTyped /\ SubsTyped
  BY <1>1 DEF ListTyped, SubsTyped
<1>3. ListedIsOpen /\ StreamIsListed /\ SingleSubscriber /\ GoneIsUnlisted
  BY <1>1 DEF ListedIsOpen, StreamIsListed, SingleSubscriber, GoneIsUnlisted
<1>4. PubsTyped
  BY DEF PubsTyped
<1>5. ASSUME NEW p \in LocalPublishers PROVE p \notin twice /\ Walks(p)
  <2>1. view[p] = NoView /\ pos[p] = 1 /\ there[p] = {} /\ served[p] = {} /\ twice = {}
    BY DEF Publishers
  <2>2. NoView.shared = FALSE /\ NoView.len = 0
    BY DEF NoView
  <2> QED
    BY <2>1, <2>2 DEF Walks
<1> QED
  BY <1>2, <1>3, <1>4, <1>5 DEF SubsInv, PubsInv

LEMMA BInvStep == BInv /\ [Next]_vars => BInv'
<1> SUFFICES ASSUME SubsInv, PubsInv, [Next]_vars PROVE SubsInv' /\ PubsInv'
  BY BInvIs DEF BInv, SubsInv, PubsInv
<1>0. ASSUME UNCHANGED pubVars PROVE PubsInv'
  <2>1. UNCHANGED <<ppc, view, pos, there, served, twice>>
    BY <1>0 DEF pubVars, historyVars
  <2> QED
    BY <2>1, PubsKept DEF PubsInv, PubsTyped
<1>1. CASE UNCHANGED vars
  BY <1>0, <1>1, OthersSubs DEF vars
<1>2. CASE SubscribeLocal
  BY <1>2, SubscribeLocalSubs, SubscribersPubs
<1>3. CASE Unsubscribe \/ CloseAll
  BY <1>3, CloseListedSubs, SubscribersPubs DEF Unsubscribe, CloseAll
<1>4. CASE CancelBus \/ StopServer
  BY <1>0, <1>4, OthersSubs DEF CancelBus, StopServer
<1>5. ASSUME NEW c \in Clients, Subscribe(c) PROVE SubsInv' /\ PubsInv'
  BY <1>5, SubscribeSubs, SubscribersPubs
<1>6. ASSUME NEW c \in Clients, BreakStream(c) \/ Reconnect(c) \/ CancelClient(c) PROVE SubsInv' /\ PubsInv'
  BY <1>0, <1>6, OthersSubs DEF BreakStream, Reconnect, CancelClient
<1>7. ASSUME NEW s \in Subs, StreamStep(s) PROVE SubsInv' /\ PubsInv'
  <2>1. RemoveSub(s) \/ UNCHANGED pubVars
    BY <1>7 DEF StreamStep, StreamSend, StreamEnds, CloseSub
  <2> QED
    BY <1>0, <1>7, <2>1, StreamStepSubs, SubscribersPubs
<1>8. ASSUME NEW s \in Subs, LocalReceive(s) PROVE SubsInv' /\ PubsInv'
  BY <1>0, <1>8, OthersSubs DEF LocalReceive
<1>9. ASSUME \/ \E p \in LocalPublishers : PublishLocal(p)
             \/ \E p \in RemotePublishers : Publish(p)
      PROVE  SubsInv' /\ PubsInv'
  <2>1. UNCHANGED <<stateTopic, listVars, closed, spc>>
    BY <1>9 DEF PublishLocal, Publish, Begin
  <2> QED
    BY <1>9, <2>1, OthersSubs, BeginPubs
<1>10. ASSUME NEW p \in Publishers, PublishStep(p) PROVE SubsInv' /\ PubsInv'
  <2>1. UNCHANGED <<stateTopic, listVars, closed, spc>>
    BY <1>10 DEF PublishStep, Send, Drop, SkipDone, Pass, SendPanics, Finish, Leave
  <2> QED
    BY <1>10, <2>1, OthersSubs, PublishStepPubs
<1> QED
  BY <1>1, <1>2, <1>3, <1>4, <1>5, <1>6, <1>7, <1>8, <1>9, <1>10 DEF Next

\* The inductive invariant holds while streams, clients, publishers, local
\* subscriptions, Unsubscribe and Close interleave in any way.
THEOREM BInvHolds == Spec => []BInv
<1> QED
  BY InitBInv, BInvStep, PTL DEF Spec

\* No closed channel is ever in the list and nobody is in it twice, though the
\* handlers of Subscribe remove in place from an array that others share.
THEOREM ListedIsOpenHolds == Spec => []ListedIsOpen
<1>1. BInv => ListedIsOpen
  BY DEF BInv
<1> QED
  BY <1>1, BInvHolds, PTL

\* The deferred clean-up of a stream, however late, takes nobody else off the
\* list: a running stream whose channel is open keeps getting events.
THEOREM StreamIsListedHolds == Spec => []StreamIsListed
<1>1. BInv => StreamIsListed
  BY DEF BInv
<1> QED
  BY <1>1, BInvHolds, PTL

\* On a topic of task states a new stream replaces the one there was.
THEOREM SingleSubscriberHolds == Spec => []SingleSubscriber
<1>1. BInv => SingleSubscriber
  BY DEF BInv
<1> QED
  BY <1>1, BInvHolds, PTL

\* publishLocal walks through its copy of the list: it serves nobody twice, and
\* everybody who was listed all along.
THEOREM EachServedOnceHolds == Spec => []EachServedOnce
<1>1. BInv => EachServedOnce
  <2> SUFFICES ASSUME BInv, NEW p \in LocalPublishers
               PROVE  /\ p \notin twice
                      /\ ppc[p] = "send" /\ ~Sending(p) => there[p] \subseteq served[p]
    BY DEF EachServedOnce
  <2>1. p \notin twice /\ Walks(p)
    BY DEF BInv
  <2>2. ASSUME ppc[p] = "send", ~Sending(p) PROVE there[p] \subseteq served[p]
    <3>1. view[p].len \in Nat /\ pos[p] = view[p].len + 1
      BY <2>1, <2>2 DEF Walks, Sending
    <3>2. pos[p] - 1 = view[p].len
      BY <3>1
    <3> QED
      BY <2>1, <3>2 DEF Walks
  <2> QED
    BY <2>1, <2>2
<1> QED
  BY <1>1, BInvHolds, PTL

=============================================================================
