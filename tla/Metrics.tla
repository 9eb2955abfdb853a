------------------------------- MODULE Metrics ------------------------------
(***************************************************************************)
(* The metrics of a book (core/include/lob/Metrics.h): counters and        *)
(* latency histograms of relaxed atomics that any thread adds to, resets   *)
(* and reads without a lock.  Each atomic operation is a step; a record_*  *)
(* call or a reset is a program of such steps that other threads' steps    *)
(* fall between, and so is the computation of a percentile.                *)
(*                                                                         *)
(* SystemMetrics hands the same object to every symbol, so there is one.   *)
(* orders_filled and orders_partial_fill are only ever reset, and          *)
(* last_update_time_ns is written by every record and read by nobody: the  *)
(* three are left out.                                                     *)
(***************************************************************************)
EXTENDS Integers, FiniteSetsExt, SequencesExt

CONSTANTS
  Threads,
  Latencies,       \* the durations recorded, in ns
  NUM_BUCKETS,     \* Metrics.h:41
  MAX_LATENCY_NS,  \* Metrics.h:42
  Percentiles,     \* the arguments of percentile()
  Watched,         \* bound: the histograms percentile() is called on
  MaxRecords,      \* bound on the number of record_* calls
  MaxResets        \* bound on the number of resets

MetricsAssumption ==
  /\ IsFiniteSet(Threads)
  /\ NUM_BUCKETS \in Nat \ {0} /\ MAX_LATENCY_NS \in Nat \ {0}
  /\ Latencies \subseteq Nat
  /\ Percentiles \subseteq 0 .. 100
  /\ Watched \subseteq {"add", "cancel", "match"}
  /\ MaxRecords \in Nat /\ MaxResets \in Nat

VARIABLES
  value,   \* every counter and every bucket
  todo,    \* for each thread, the steps left of the call it is in
  scan,    \* where the running percentile() is, on a thread of its own
  answer,  \* what the last percentile() returned, NoAnswer after a reset step
  records, resets,  \* how many calls of each kind were begun
  torn     \* record_add_order calls that ran side by side with a reset
           \* and that no later reset has wiped out

vars == <<value, todo, scan, answer, records, resets, torn>>

Buckets    == 0 .. NUM_BUCKETS - 1
Counters   == {"received", "accepted", "rejected", "cancelled",
               "executed", "volume"}
Histograms == {"add", "cancel", "match"}
Fields     == {<<c>> : c \in Counters} \cup Histograms \X Buckets

\* The bucket of a latency.
BucketOf(latency) ==
  IF latency >= MAX_LATENCY_NS THEN NUM_BUCKETS - 1
  ELSE (latency * NUM_BUCKETS) \div MAX_LATENCY_NS

\* fetch_add(by) and store(0) of one atomic.
Increment(field, by) == [field |-> field, add |-> by, store |-> FALSE]
Store0(field)        == [field |-> field, add |-> 0, store |-> TRUE]

(***************************************************************************)
(* The programs of the calls, in the order of their statements.            *)
(***************************************************************************)
RecordAdd(latency, accepted) ==
  <<Increment(<<"received">>, 1),
    Increment(<<IF accepted THEN "accepted" ELSE "rejected">>, 1),
    Increment(<<"add", BucketOf(latency)>>, 1)>>

RecordCancel(latency) ==
  <<Increment(<<"cancelled">>, 1),
    Increment(<<"cancel", BucketOf(latency)>>, 1)>>

RecordTrade(latency, quantity) ==
  <<Increment(<<"executed">>, 1), Increment(<<"volume">>, quantity),
    Increment(<<"match", BucketOf(latency)>>, 1)>>

\* The destructor of a ScopedLatencyTimer on match_latency.
TimerEnds(latency) == <<Increment(<<"match", BucketOf(latency)>>, 1)>>

ResetHistogram(h) == [i \in 1 .. NUM_BUCKETS |-> Store0(<<h, i - 1>>)]

\* Mutant: the histogram of added orders is not reset.
ResetWithoutAdd ==
  <<Store0(<<"received">>), Store0(<<"accepted">>), Store0(<<"rejected">>),
    Store0(<<"cancelled">>), Store0(<<"executed">>), Store0(<<"volume">>)>>
  \o ResetHistogram("cancel") \o ResetHistogram("match")

Reset ==
  <<Store0(<<"received">>), Store0(<<"accepted">>), Store0(<<"rejected">>),
    Store0(<<"cancelled">>), Store0(<<"executed">>), Store0(<<"volume">>)>>
  \o ResetHistogram("add") \o ResetHistogram("cancel")
  \o ResetHistogram("match")

-----------------------------------------------------------------------------
NoAnswer == [bucket |-> -1, target |-> 0, h |-> "add"]
NoScan   == [at |-> "idle", h |-> "add", p |-> 0, next |-> 0, sum |-> 0,
             target |-> 0, disturbed |-> FALSE]

Init ==
  /\ value = [f \in Fields |-> 0]
  /\ todo = [t \in Threads |-> << >>]
  /\ scan = NoScan
  /\ answer = NoAnswer
  /\ records = 0 /\ resets = 0 /\ torn = 0

Idle(t) == todo[t] = << >>

\* The threads inside a reset, and those inside record_add_order.
Resetting == {t \in Threads : ~Idle(t) /\ Last(todo[t]).store}
Adding    == {t \in Threads : ~Idle(t) /\ Last(todo[t]).field[1] = "add"}

Begin(t, program) ==
  /\ Idle(t)
  /\ records < MaxRecords
  /\ todo' = [todo EXCEPT ![t] = program]
  /\ records' = records + 1
  /\ UNCHANGED <<value, scan, answer, resets>>

BeginAdd(t) ==
  /\ \E latency \in Latencies, accepted \in BOOLEAN :
       Begin(t, RecordAdd(latency, accepted))
  /\ torn' = IF Resetting = {} THEN torn ELSE torn + 1

BeginOther(t) ==
  /\ \E latency \in Latencies :
       \/ Begin(t, RecordCancel(latency))
       \/ Begin(t, RecordTrade(latency, 2))
       \/ Begin(t, TimerEnds(latency))
  /\ UNCHANGED torn

BeginReset(t) ==
  /\ Idle(t)
  /\ resets < MaxResets
  /\ todo' = [todo EXCEPT ![t] = Reset]
  /\ resets' = resets + 1
  /\ torn' = Cardinality(Adding)
  /\ UNCHANGED <<value, scan, answer, records>>

\* Mutant: a counter is read and written back in two steps, and loses what
\* was added between them.
ApplyLossily(op, old) ==
  IF op.store THEN 0
  ELSE IF Cardinality({t \in Threads : ~Idle(t)}) > 1 THEN old ELSE old + op.add

Apply(op, old) == IF op.store THEN 0 ELSE old + op.add

\* One atomic operation of thread t.  What a reset disturbs is noted.
Step(t) ==
  /\ ~Idle(t)
  /\ LET op == Head(todo[t])
     IN  /\ value' = [value EXCEPT ![op.field] = Apply(op, @)]
         /\ scan' = [scan EXCEPT !.disturbed = @ \/ op.store]
         /\ answer' = IF op.store THEN NoAnswer ELSE answer
  /\ todo' = [todo EXCEPT ![t] = Tail(@)]
  /\ UNCHANGED <<records, resets, torn>>

-----------------------------------------------------------------------------
(***************************************************************************)
(* percentile(p): the buckets are added up one load at a time, and loaded  *)
(* again until the target is reached.                                      *)
(***************************************************************************)
BeginPercentile(h, p) ==
  /\ scan.at = "idle"
  /\ scan' = [NoScan EXCEPT !.at = "total", !.h = h, !.p = p]
  /\ UNCHANGED <<value, todo, answer, records, resets, torn>>

LoadForTotal ==
  /\ scan.at = "total"
  /\ LET total == scan.sum + value[<<scan.h, scan.next>>]
     IN  scan' = IF scan.next + 1 < NUM_BUCKETS
                   THEN [scan EXCEPT !.next = @ + 1, !.sum = total]
                 ELSE IF total = 0 THEN NoScan
                 ELSE [scan EXCEPT !.at = "scan", !.next = 0, !.sum = 0,
                                   !.target = (total * scan.p) \div 100]
  /\ UNCHANGED <<value, todo, answer, records, resets, torn>>

\* Mutant: the loop goes on when the target is met exactly.
ReachedStrictly(cumulative) == cumulative > scan.target

Reached(cumulative) == cumulative >= scan.target

Return(bucket) ==
  /\ scan' = NoScan
  /\ answer' = IF scan.disturbed THEN NoAnswer
               ELSE [bucket |-> bucket, target |-> scan.target, h |-> scan.h]

\* A bucket of NUM_BUCKETS stands for MAX_LATENCY_NS: the loop went through.
LoadForTarget ==
  /\ scan.at = "scan"
  /\ LET cumulative == scan.sum + value[<<scan.h, scan.next>>]
     IN  IF Reached(cumulative) THEN Return(scan.next)
         ELSE IF scan.next + 1 = NUM_BUCKETS THEN Return(NUM_BUCKETS)
         ELSE /\ scan' = [scan EXCEPT !.next = @ + 1, !.sum = cumulative]
              /\ UNCHANGED answer
  /\ UNCHANGED <<value, todo, records, resets, torn>>

Next ==
  \/ \E t \in Threads :
       BeginAdd(t) \/ BeginOther(t) \/ BeginReset(t) \/ Step(t)
  \/ \E h \in Watched, p \in Percentiles : BeginPercentile(h, p)
  \/ LoadForTotal \/ LoadForTarget

Spec == Init /\ [][Next]_vars

-----------------------------------------------------------------------------
\* The samples in the buckets of a histogram up to one of them.
Samples(h)     == [b \in Buckets |-> value[<<h, b>>]]
Count(h, last) == SumFunctionOnSet(Samples(h), 0 .. last)

Apart(x, y) == IF x < y THEN y - x ELSE x - y

\* Between calls the counters of added orders agree with each other and with
\* the histogram, up to one for each call that a reset ran side by side with:
\* increments are never lost, and the difference a torn reset leaves is not
\* undone until a reset runs alone (119-128, 143-155).
CountersAgree ==
  (\A t \in Threads : Idle(t)) =>
    /\ Apart(value[<<"received">>],
             value[<<"accepted">>] + value[<<"rejected">>]) <= torn
    /\ Apart(value[<<"received">>], Count("add", NUM_BUCKETS - 1)) <= torn

\* A percentile that no reset disturbed is one of the buckets, never past
\* them although other threads record meanwhile: the samples up to it reach
\* the target, and unless the target was rounded to 0 some lie in it (78-93).
PercentileIsReached ==
  answer # NoAnswer =>
    /\ answer.bucket \in Buckets
    /\ Count(answer.h, answer.bucket) >= answer.target
    /\ answer.target > 0 => value[<<answer.h, answer.bucket>>] > 0

=============================================================================
