------------------------------ MODULE Timeline ------------------------------
(***************************************************************************)
(* The timelines of internal/history: a history reduced to a fixed number  *)
(* of buckets over a window, for a service and for connectivity.           *)
(*                                                                         *)
(* A sample is [timestamp, ok, state, error] with error a Boolean, or, for *)
(* connectivity, [timestamp, ok, error].  Names, labels and the details of *)
(* a bucket are left out, and the window is taken not to be empty.         *)
(***************************************************************************)
EXTENDS Integers, Sequences, FiniteSetsExt

CONSTANTS Points,                  \* DefaultTimelinePoints
          DefaultGap,              \* deriveConnectivityGap without two samples
          MinGap, MaxGap           \* its bounds

ASSUME TimelineAssumption == /\ Points \in Nat \ {0}
                             /\ MinGap \in Nat /\ MaxGap \in Nat
                             /\ MinGap <= MaxGap
                             /\ DefaultGap \in Nat

\* sort.Slice of the elements of s at the indices kept: the n-th is the one that
\* n - 1 of them come before.  Equals keep their order, which Go leaves open; nothing
\* here has equals that differ.
Sorted(s, kept, Before(_, _)) ==
  LET Precedes(j, i) == \/ Before(s[j], s[i])
                        \/ ~Before(s[i], s[j]) /\ j < i
  IN  [n \in 1..Cardinality(kept) |->
         s[CHOOSE i \in kept : Cardinality({j \in kept : Precedes(j, i)}) = n - 1]]

Earlier(a, b) == a.timestamp < b.timestamp

ByTime(samples) == Sorted(samples, 1..Len(samples), Earlier)

\* The last bucket takes what the division leaves over.
BucketsOf(start, end) ==
  LET duration == (end - start) \div Points
  IN  [i \in 1..Points |-> [start |-> start + (i - 1) * duration,
                            end   |-> IF i = Points THEN end ELSE start + i * duration]]

-----------------------------------------------------------------------------
(* Services.                                                               *)

\* Index of the first sample from the k-th on that is not before time t.
FirstFrom(samples, k, t) ==
  Min({n \in k..Len(samples) : samples[n].timestamp >= t} \cup {Len(samples) + 1})

CollectBucketSamples_StepsOver(samples, bucket, cursor) ==
  LET i == FirstFrom(samples, cursor, bucket.start)
      j == FirstFrom(samples, i, bucket.end)
  IN  [chunk |-> SubSeq(samples, i, j - 1), cursor |-> j + 1]

\* The samples of a bucket from the cursor on, and the cursor behind them.
CollectBucketSamples(samples, bucket, cursor) ==
  LET i == FirstFrom(samples, cursor, bucket.start)
      j == FirstFrom(samples, i, bucket.end)
  IN  [chunk |-> SubSeq(samples, i, j - 1), cursor |-> j]

Chunks(samples, start, end) ==
  LET sorted  == ByTime(samples)
      buckets == BucketsOf(start, end)
      after[i \in 0..Points] ==
        IF i = 0 THEN [chunk |-> <<>>, cursor |-> 1]
        ELSE CollectBucketSamples(sorted, buckets[i], after[i - 1].cursor)
  IN  [i \in 1..Points |-> after[i].chunk]

WarningStates == {"activating", "deactivating", "reloading", "maintenance"}

IsErrorState(s) ==
  ~s.ok /\ \/ s.state \in {"inactive", "failed", "degraded"}
           \/ s.state = "" /\ s.error

\* What a sample counts as; a state the code does not know is an error.
KindOf(s) ==
  CASE IsErrorState(s)                                             -> "error"
    [] ~IsErrorState(s) /\ (s.ok \/ s.state \in {"active", "running"}) -> "success"
    [] ~s.ok /\ s.state \in {"missing", "unknown"}                 -> "missing"
    [] ~s.ok /\ s.state = "" /\ ~s.error                           -> "missing"
    [] ~s.ok /\ s.state \in WarningStates                          -> "warning"
    [] OTHER                                                       -> "error"

EvaluateBucket_SuccessFirst(chunk) ==
  LET kinds == {KindOf(chunk[n]) : n \in 1..Len(chunk)}
  IN  IF "error" \in kinds THEN "error"
      ELSE IF "success" \in kinds THEN "success"
      ELSE IF "warning" \in kinds THEN "warning"
      ELSE "missing"

EvaluateBucket_LastWins(chunk) ==
  IF chunk = <<>> THEN "missing" ELSE KindOf(chunk[Len(chunk)])

\* The worst of a bucket, with no data worse than a warning.
EvaluateBucket(chunk) ==
  LET kinds == {KindOf(chunk[n]) : n \in 1..Len(chunk)}
  IN  IF "error" \in kinds THEN "error"
      ELSE IF "missing" \in kinds \/ kinds = {} THEN "missing"
      ELSE IF "warning" \in kinds THEN "warning"
      ELSE "success"

BuildTimeline(samples, start, end) ==
  LET buckets == BucketsOf(start, end)
      chunks  == Chunks(samples, start, end)
  IN  [i \in 1..Points |-> [start |-> buckets[i].start, end |-> buckets[i].end,
                            class |-> EvaluateBucket(chunks[i])]]

-----------------------------------------------------------------------------
(* Connectivity.                                                           *)

\* The distances between samples of different times, in order.
Distances(sorted) ==
  LET steps == [n \in 1..(Len(sorted) - 1) |->
                  sorted[n + 1].timestamp - sorted[n].timestamp]
  IN  Sorted(steps, {n \in DOMAIN steps : steps[n] > 0}, <)

DeriveConnectivityGap_Once(sorted) ==
  LET diffs == Distances(sorted)
  IN  IF diffs = <<>> THEN DefaultGap
      ELSE Max({MinGap, Min({MaxGap, diffs[Len(diffs) \div 2 + 1]})})

DeriveConnectivityGap_Unbounded(sorted) ==
  LET diffs == Distances(sorted)
  IN  IF diffs = <<>> THEN DefaultGap
      ELSE Max({MinGap, 2 * diffs[Len(diffs) \div 2 + 1]})

\* Twice their median, within bounds.
DeriveConnectivityGap(sorted) ==
  LET diffs == Distances(sorted)
  IN  IF diffs = <<>> THEN DefaultGap
      ELSE Max({MinGap, Min({MaxGap, 2 * diffs[Len(diffs) \div 2 + 1]})})

ConnectivityClass(s) == IF s.ok THEN "success"
                        ELSE IF s.error THEN "error" ELSE "warning"

NotAfter_Strict(sample, end) == sample.timestamp < end

NotAfter(sample, end) == sample.timestamp <= end

\* How many samples have been passed: those before the window, then those up to
\* the end of each bucket in turn, the end included.
Passed(sorted, buckets, i) ==
  LET from(n, Skip(_)) == Min({m \in (n + 1)..Len(sorted) : ~Skip(sorted[m])}
                              \cup {Len(sorted) + 1}) - 1
      idx[k \in 0..Points] ==
        IF k = 0 THEN from(0, LAMBDA s : s.timestamp < buckets[1].start)
        ELSE from(idx[k - 1], LAMBDA s : NotAfter(s, buckets[k].end))
  IN  idx[i]

\* A bucket is as its last sample; one without is as the last sample passed, if
\* that is no further back than the gap.
BuildConnectivityTimeline(samples, start, end) ==
  LET sorted  == ByTime(samples)
      buckets == BucketsOf(start, end)
      gap     == DeriveConnectivityGap(sorted)
      passed  == [i \in 0..Points |-> Passed(sorted, buckets, i)]
      shown(i) == \/ passed[i] > passed[i - 1]
                  \/ /\ passed[i] > 0
                     /\ buckets[i].start - sorted[passed[i]].timestamp <= gap
  IN  [i \in 1..Points |->
         [start |-> buckets[i].start, end |-> buckets[i].end,
          class |-> IF shown(i) THEN ConnectivityClass(sorted[passed[i]])
                    ELSE "missing"]]
=============================================================================
