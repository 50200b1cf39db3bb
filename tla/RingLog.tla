------------------------------- MODULE RingLog -------------------------------
(***************************************************************************)
(* The ring buffer of the event log in memory (pkg/eventlog/ringbuffer.go):*)
(* an array, the position that is written next and the number of entries.  *)
(* An entry is its ID.                                                     *)
(***************************************************************************)
EXTENDS Integers, Sequences

CONSTANTS
    Entries,   \* IDs of entries: positive numbers
    RingSize   \* eventlog.buffer_size

ASSUME RingAssumption == Entries \subseteq Nat \ {0} /\ RingSize \in Nat \ {0}

VARIABLES ring, head, count

ringVars == <<ring, head, count>>

NoEntry == 0

RingInit ==
    /\ ring = [i \in 0..(RingSize - 1) |-> NoEntry]
    /\ head = 0 /\ count = 0

\* The position of the i-th entry, the oldest first.
Slot(i) == (head - count + (i - 1) + RingSize) % RingSize

RingContents == [i \in 1..count |-> ring[Slot(i)]]

\* Mutant of Advance: the position stays at the end.
AdvanceStuck(h) == IF h = RingSize - 1 THEN h ELSE h + 1

Advance(h) == (h + 1) % RingSize

\* Append: the new entry overwrites the oldest one once the ring is full.
RingAppend(e) ==
    /\ ring' = [ring EXCEPT ![head] = e]
    /\ head' = Advance(head)
    /\ count' = IF count < RingSize THEN count + 1 ELSE count

\* The ring that is made anew, and the one that is left behind by Close.
RingReset ==
    /\ ring' = [i \in 0..(RingSize - 1) |-> NoEntry]
    /\ head' = 0 /\ count' = 0

RingClose == count' = 0 /\ UNCHANGED <<ring, head>>

RingNext ==
    \/ \E e \in Entries : (\A i \in 1..count : RingContents[i] # e) /\ RingAppend(e)
    \/ RingReset
    \/ RingClose

RingSpec == RingInit /\ [][RingNext]_ringVars

RingTypeOK ==
    /\ ring \in [0..(RingSize - 1) -> Entries \cup {NoEntry}]
    /\ head \in 0..(RingSize - 1)
    /\ count \in 0..RingSize

\* The ring implements the log that keeps the newest RingSize entries.
Kept == INSTANCE TraceLog WITH Capacity <- RingSize, durable <- FALSE, order <- RingContents,
                               table <- {}, expired <- {}

=============================================================================
