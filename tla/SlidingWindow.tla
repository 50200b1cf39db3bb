--------------------------- MODULE SlidingWindow ---------------------------
(***************************************************************************)
(* The sliding window from which AlertMetrics reads the rate of timeouts   *)
(* and errors of tasks (pkg/metrics): buckets of counts, the expired ones  *)
(* dropped at every access, and callers that add an event and then compare *)
(* the rate with a threshold.  The window has a mutex; every method of it  *)
(* is one step.  The rate is the total divided by a constant, and is       *)
(* modelled by the total.                                                  *)
(***************************************************************************)
EXTENDS Naturals, Sequences, SequencesExt

CONSTANTS
    Size,       \* length of the window, in ticks
    Interval,   \* what one bucket stands for
    Threshold,  \* the total above which the callers raise an alert
    Callers,    \* goroutines that record timeouts
    MaxTime,    \* bound on the clock
    None        \* no total read yet

VARIABLES
    now,      \* the clock
    buckets,  \* bucket: start and count
    total,    \* slidingWindow.total
    pc,       \* what a caller of TaskTimeout does next
    read,     \* the total that the last Rate or Total returned
    alerts    \* alerts raised

vars == <<now, buckets, total, pc, read, alerts>>

\* newSlidingWindow
Init ==
    /\ now = Size
    /\ buckets = <<>> /\ total = 0
    /\ pc = [c \in Callers |-> "idle"]
    /\ read = None /\ alerts = 0

Valid(b) == b.start + Size > now

\* evict goes to the first bucket that is still valid and stops there: that one
\* alone makes up the total.  With no valid bucket none is dropped.
FirstValid == {i \in DOMAIN buckets : Valid(buckets[i]) /\ \A j \in 1..(i - 1) : ~Valid(buckets[j])}
Evicted == IF FirstValid = {} THEN buckets
           ELSE SubSeq(buckets, CHOOSE i \in FirstValid : TRUE, Len(buckets))
EvictedTotal == IF FirstValid = {} THEN 0 ELSE buckets[CHOOSE i \in FirstValid : TRUE].count

\* The last bucket if it is recent enough, or a new one, with n more events.
CurrentBucket(bs, n) ==
    IF bs # <<>> /\ now - Last(bs).start < Interval
    THEN [bs EXCEPT ![Len(bs)].count = @ + n]
    ELSE Append(bs, [start |-> now, count |-> n])

Add(n) ==
    /\ buckets' = CurrentBucket(Evicted, n)
    /\ total' = EvictedTotal + n

\* Rate and Total.
Rate ==
    /\ buckets' = Evicted
    /\ total' = EvictedTotal
    /\ read' = EvictedTotal

\* TaskTimeout and TaskError: an event is added ...
TaskTimeout(c) ==
    /\ pc[c] = "idle"
    /\ Add(1)
    /\ pc' = [pc EXCEPT ![c] = "rate"]
    /\ read' = None
    /\ UNCHANGED <<now, alerts>>

\* ... and then the rate is read, and compared with the threshold.
CheckRate(c) ==
    /\ pc[c] = "rate"
    /\ Rate
    /\ alerts' = alerts + IF EvictedTotal > Threshold THEN 1 ELSE 0
    /\ pc' = [pc EXCEPT ![c] = "idle"]
    /\ UNCHANGED now

\* TimeoutRate, ErrorRate and RetryRate.
TimeoutRate ==
    /\ Rate
    /\ UNCHANGED <<now, pc, alerts>>

Tick ==
    /\ now < MaxTime
    /\ now' = now + 1
    /\ read' = None
    /\ UNCHANGED <<buckets, total, pc, alerts>>

Next ==
    \/ \E c \in Callers : TaskTimeout(c) \/ CheckRate(c)
    \/ TimeoutRate \/ Tick

Spec == Init /\ [][Next]_vars

-----------------------------------------------------------------------------
\* What Rate and Total return is the number of events in the window: the sum
\* over the buckets that have not expired, whoever added to them and when.
WindowCountsAll ==
    read # None =>
      read = FoldSeq(LAMBDA b, sum : sum + IF Valid(b) THEN b.count ELSE 0, 0, buckets)

=============================================================================
