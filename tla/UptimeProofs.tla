---------------------------- MODULE UptimeProofs ----------------------------
(***************************************************************************)
(* Proofs about UptimeWindow and ClusterUptime, for any intervals, limits  *)
(* and windows, and histories of any length.                               *)
(***************************************************************************)
EXTENDS ClusterUptime, SequenceTheorems, FiniteSetTheorems, WellFoundedInduction, TLAPS

Rounds == {RoundEntry(t) : t \in Nat}

\* In the order of their times, none of which is after t.
Ordered(s, t) == /\ \A i, j \in 1..Len(s) : i < j => s[i].timestamp <= s[j].timestamp
                 /\ \A i \in 1..Len(s) : s[i].timestamp <= t

\* c is what comes in s after the a-th entry, up to the b-th.
Part(c, s, a, b) == /\ a \in Nat /\ b \in Nat /\ a <= b /\ b <= Len(s)
                    /\ c \in Seq(Rounds)
                    /\ Len(c) = b - a
                    /\ \A i \in 1..(b - a) : c[i] = s[a + i]

\* The time of the last entry that may have been made.
Latest == IF round = None THEN now ELSE round

\* The node's history is in order, and the round in progress is later than all of it.
HistoryInv == /\ now \in Nat
              /\ round = None \/ round \in 0..now
              /\ entries \in Seq(Rounds)
              /\ Ordered(entries, Latest)
              /\ saved \in 0..Len(entries)

\* A copy is what the limits left of the entries of a month that the node had when it was
\* fetched: it begins with the first of them, or has as many as the limits allow.
CopyInv ==
  /\ aggregator \in Load(Files)
  /\ copied # None =>
       /\ copied \in 0..now
       /\ known \in Seq(Rounds) /\ Ordered(known, copied)
       /\ copy.interval = Interval /\ copy.targets = {Service}
       /\ \E a \in 0..Len(known) :
            /\ Part(copy.history, known, a, Len(known))
            /\ Len(known) - a <= Limit
            /\ \/ a = 0 \/ Len(known) - a = Limit
               \/ known[a].timestamp < copied - Month

Life == [from : Nat, to : Nat \cup {None}]

\* When the k-th tick after time f is due.
Tick(f, k) == f + k * Interval

\* A process that ran from one time to another made the entries of s after the b-th, up
\* to the c-th: the first one at once, the others at the ticks after the time f at which
\* its first round was over, and none but the round in progress is left out.
Made(s, from, to, b, c, f) ==
  /\ from <= to
  /\ b = c => to <= from + MaxRound
  /\ b < c =>
       /\ s[b + 1].timestamp = from
       /\ from <= f /\ f <= from + MaxRound
       /\ \A k \in 1..(c - b - 1) : s[b + 1 + k].timestamp = Tick(f, k)
       /\ Tick(f, c - b - 1) <= to /\ to <= Tick(f, c - b) + MaxRound

\* The process that runs, with m entries made: in its first round, between two ticks, at
\* a tick, or in the round that begins with one.
Running(m, from, f) ==
  \/ m = 0 /\ round = from /\ now <= from + MaxRound /\ ticker = None /\ ~tick
  \/ m > 0 /\ round = None /\ ~tick /\ ticker = Tick(f, m) /\ now < ticker
  \/ m > 0 /\ round = None /\ tick /\ now = Tick(f, m) /\ ticker = Tick(f, m + 1)
  \/ /\ m > 0 /\ round = Tick(f, m) /\ ~tick /\ ticker = Tick(f, m + 1)
     /\ round <= now /\ now <= round + MaxRound

\* s is made of the entries of one process after the other: the i-th of n lives ends
\* with the made[i]-th entry.
Past(s, n, made, first) ==
  /\ n = Len(lives)
  /\ made \in [0..n -> Nat] /\ first \in [1..n -> Nat]
  /\ made[0] = 0 /\ made[n] = Len(s)
  /\ \A i \in 1..n :
       /\ made[i - 1] <= made[i] /\ made[i] <= Len(s)
       /\ Made(s, lives[i].from, EndOf(lives[i]), made[i - 1], made[i], first[i])
       /\ EndOf(lives[i]) <= now
       /\ i < n => lives[i].to # None /\ EndOf(lives[i]) <= lives[i + 1].from

Present(n, made, first) ==
  \/ Up /\ Running(made[n] - made[n - 1], lives[n].from, first[n])
  \/ ~Up /\ round = None /\ ticker = None /\ ~tick

\* s has every entry of the lives so far, whatever became of it.
Lived(s) ==
  /\ lives \in Seq(Life)
  /\ \E n \in Nat : \E made \in [0..n -> Nat], first \in [1..n -> Nat] :
       Past(s, n, made, first) /\ Present(n, made, first)

\* The entries of s from a time on.
Since(s, t) == {i \in 1..Len(s) : s[i].timestamp >= t}

\* Of the entries of s, from any time on, those that are not in the history are lost.
Accounted(s) ==
  \A t \in Nat :
    Cardinality(Since(s, t)) = Cardinality(Since(entries, t)) + Cardinality(Since(lost, t))

\* The inductive invariant about the lives of the process.
LivesInv == /\ lost \in Seq(Rounds)
            /\ \E s \in Seq(Rounds) : Ordered(s, Latest) /\ Lived(s) /\ Accounted(s)

-----------------------------------------------------------------------------
(* Numbers.                                                                *)

\* Any set of natural numbers has a least element.
LEMMA Least ==
  ASSUME NEW T \in SUBSET Nat, T # {}
  PROVE  \E m \in T : \A n \in T : m <= n
<1> DEFINE R == StrictSubsetOrdering(Nat)
           U == {0..n : n \in T}
<1>1. IsWellFoundedOn(R, FiniteSubsetsOf(Nat))
  BY FS_StrictSubsetOrderingWellFounded
<1>2. U \subseteq FiniteSubsetsOf(Nat) /\ U # {}
  <2>1. ASSUME NEW n \in T PROVE 0..n \in SUBSET Nat /\ IsFiniteSet(0..n)
    <3>1. n \in Int /\ 0 \in Int /\ 0..n \subseteq Nat
      OBVIOUS
    <3> QED BY <3>1, FS_Interval
  <2> QED BY <2>1 DEF FiniteSubsetsOf
<1>3. PICK u \in U : \A v \in U : <<v, u>> \notin R
  <2> HIDE DEF R, U
  <2> QED BY <1>1, <1>2, WFMin
<1>4. PICK m \in T : u = 0..m
  OBVIOUS
<1>5. ASSUME NEW n \in T, n < m PROVE FALSE
  <2>1. (0..n) \subseteq 0..m /\ m \in 0..m /\ m \notin 0..n
    BY <1>5
  <2>2. 0..n \in U /\ 0..n # u /\ 0..n \subseteq u /\ u \subseteq Nat
    BY <1>4, <2>1
  <2> QED BY <1>3, <2>2 DEF StrictSubsetOrdering
<1> QED BY <1>5

\* The greater of two numbers.
LEMMA MaxOfTwo ==
  ASSUME NEW a \in Int, NEW b \in Int
  PROVE  Max({a, b}) = IF a >= b THEN a ELSE b
<1> DEFINE m == IF a >= b THEN a ELSE b
<1>1. m \in {a, b} /\ \A y \in {a, b} : m >= y
  OBVIOUS
<1>2. \A x \in {a, b} : (\A y \in {a, b} : x >= y) => x = m
  OBVIOUS
<1> QED
  BY <1>1, <1>2 DEF Max

\* The smaller of two numbers.
LEMMA MinOfTwo ==
  ASSUME NEW a \in Int, NEW b \in Int
  PROVE  Min({a, b}) = IF a <= b THEN a ELSE b
<1> DEFINE m == IF a <= b THEN a ELSE b
<1>1. m \in {a, b} /\ \A y \in {a, b} : m <= y
  OBVIOUS
<1>2. \A x \in {a, b} : (\A y \in {a, b} : x <= y) => x = m
  OBVIOUS
<1> QED
  BY <1>1, <1>2 DEF Min

-----------------------------------------------------------------------------
(* Parts of a history.                                                     *)

\* Entries have times.
LEMMA TimesOf ==
  ASSUME NEW s \in Seq(Rounds)
  PROVE  /\ Len(s) \in Nat
         /\ \A i \in 1..Len(s) : s[i] \in Rounds /\ s[i].timestamp \in Nat
<1>1. Len(s) \in Nat /\ \A i \in 1..Len(s) : s[i] \in Rounds
  BY LenProperties, ElementOfSeq
<1>2. \A e \in Rounds : e.timestamp \in Nat
  BY DEF Rounds, RoundEntry
<1> QED BY <1>1, <1>2

\* There is only one part between two places.
LEMMA PartIsUnique ==
  ASSUME NEW s, NEW a, NEW b, NEW c, NEW d, Part(c, s, a, b), Part(d, s, a, b)
  PROVE  c = d
<1>1. /\ c \in Seq(Rounds) /\ d \in Seq(Rounds) /\ Len(c) = b - a /\ Len(d) = b - a
      /\ \A i \in 1..(b - a) : c[i] = d[i]
  BY DEF Part
<1> QED
  BY <1>1, SeqEqual

\* Part of a part.
LEMMA PartOfPart ==
  ASSUME NEW s, NEW a, NEW b, NEW c, Part(c, s, a, b),
         NEW d, NEW i, NEW j, Part(d, c, i, j)
  PROVE  Part(d, s, a + i, a + j)
<1>1. /\ a \in Nat /\ b \in Nat /\ i \in Nat /\ j \in Nat /\ a <= b /\ i <= j /\ j <= b - a
      /\ Len(c) = b - a
  BY DEF Part
<1>2. ASSUME NEW n \in 1..(j - i) PROVE d[n] = s[a + i + n]
  <2>1. i + n \in 1..(b - a) /\ a + (i + n) = a + i + n
    BY <1>1
  <2> QED BY <2>1 DEF Part
<1>3. (a + j) - (a + i) = j - i /\ a + i \in Nat /\ a + j \in Nat /\ a + i <= a + j /\ a + j <= b
  BY <1>1
<1>4. b <= Len(s) /\ d \in Seq(Rounds) /\ Len(d) = j - i
  BY DEF Part
<1>5. a + j <= Len(s)
  <2>1. CASE Len(s) \in Int
    BY <1>1, <1>3, <1>4, <2>1
  <2> QED BY <1>1, <1>3, <1>4
<1> QED
  BY <1>2, <1>3, <1>4, <1>5 DEF Part

\* What SubSeq takes.
LEMMA SubSeqIsPart ==
  ASSUME NEW s \in Seq(Rounds), NEW a \in Nat, NEW b \in Nat, a <= b, b <= Len(s)
  PROVE  Part(SubSeq(s, a + 1, b), s, a, b)
<1> DEFINE m == a + 1
           c == SubSeq(s, m, b)
<1>1. Len(s) \in Nat /\ \A i \in m..b : s[i] \in Rounds
  BY TimesOf
<1>2. /\ c \in Seq(Rounds)
      /\ Len(c) = IF m <= b THEN b - m + 1 ELSE 0
      /\ \A i \in 1..(b - m + 1) : c[i] = s[m + i - 1]
  <2>1. m \in 1..(Len(s) + 1) /\ b \in (m - 1)..Len(s) /\ m \in Int
    BY <1>1
  <2> HIDE DEF m
  <2> QED BY <1>1, <2>1, SubSeqProperties
<1> HIDE DEF c
<1>3. b - m + 1 = b - a /\ \A i \in 1..(b - a) : m + i - 1 = a + i
  OBVIOUS
<1>4. Len(c) = b - a
  BY <1>2
<1>5. \A i \in 1..(b - a) : c[i] = s[a + i]
  <2> SUFFICES ASSUME NEW i \in 1..(b - a) PROVE c[i] = s[a + i]
    OBVIOUS
  <2>1. c[i] = s[m + i - 1] /\ m + i - 1 = a + i
    BY <1>2, <1>3
  <2> QED BY <2>1
<1>6. Part(c, s, a, b)
  BY <1>2, <1>4, <1>5 DEF Part
<1> QED BY <1>6 DEF c

\* A part grows by the entry that follows it.
LEMMA PartGrows ==
  ASSUME NEW s \in Seq(Rounds), NEW a, NEW b \in Nat, b < Len(s), NEW c, Part(c, s, a, b)
  PROVE  Part(Append(c, s[b + 1]), s, a, b + 1)
<1> DEFINE e == s[b + 1]
           d == Append(c, e)
<1>1. a \in Nat /\ a <= b /\ c \in Seq(Rounds) /\ Len(c) = b - a
  BY DEF Part
<1>2. Len(s) \in Nat /\ e \in Rounds
  BY TimesOf
<1>3. /\ d \in Seq(Rounds)
      /\ Len(d) = Len(c) + 1
      /\ \A i \in 1..Len(c) : d[i] = c[i]
      /\ d[Len(c) + 1] = e
  <2> HIDE DEF e
  <2> QED BY <1>1, <1>2, AppendProperties
<1> HIDE DEF d
<1>4. ASSUME NEW i \in 1..(b + 1 - a) PROVE d[i] = s[a + i]
  <2>1. CASE i <= b - a
    <3>1. d[i] = c[i] /\ c[i] = s[a + i]
      BY <1>1, <1>3, <2>1 DEF Part
    <3> QED BY <3>1
  <2>2. CASE i > b - a
    <3>1. i = Len(c) + 1 /\ a + i = b + 1
      BY <1>1, <2>2
    <3> QED BY <1>3, <3>1
  <2> QED BY <1>1, <2>1, <2>2
<1>5. Len(d) = b + 1 - a /\ b + 1 \in Nat /\ a <= b + 1 /\ b + 1 <= Len(s)
  BY <1>1, <1>2, <1>3
<1>6. Part(d, s, a, b + 1)
  BY <1>1, <1>3, <1>4, <1>5 DEF Part
<1> QED BY <1>6 DEF d

\* filterHistory, of a history in order that ends before the window does: what is
\* left is its end, from the first entry in the window on.
LEMMA FilterIsEnd ==
  ASSUME NEW s \in Seq(Rounds), NEW start \in Int, NEW end \in Int, Ordered(s, end)
  PROVE  \E k \in 0..Len(s) :
           /\ Part(FilterHistory(s, start, end), s, k, Len(s))
           /\ \A i \in 1..Len(s) : s[i].timestamp >= start <=> i > k
<1> DEFINE n == Len(s)
           T == {i \in 1..(n + 1) : i = n + 1 \/ s[i].timestamp >= start}
<1>1. n \in Nat /\ \A i \in 1..n : s[i].timestamp \in Nat
  BY TimesOf
<1>2. T \in SUBSET Nat /\ T # {}
  BY <1>1
<1>3. PICK m \in T : \A i \in T : m <= i
  <2> HIDE DEF T
  <2> QED BY <1>2, Least
<1> DEFINE k == m - 1
           low(i) == IF i < k THEN i ELSE k
           window == start..end
           Step(f) == [i \in 0..n |->
                         IF i = 0 THEN <<>>
                         ELSE IF s[i].timestamp \in window THEN Append(f[i - 1], s[i])
                         ELSE f[i - 1]]
           Right(f) == \A i \in 0..n : Part(f[i], s, low(i), i)
<1>4. k \in 0..n
  BY <1>1, <1>3
<1>5. ASSUME NEW i \in 1..n
      PROVE  s[i].timestamp >= start <=> i > k
  <2>1. m \in 1..(n + 1) /\ (m <= n => s[m].timestamp >= start) /\ i \in 1..(n + 1)
    BY <1>1, <1>3
  <2>2. CASE i < m
    BY <1>1, <1>3, <2>1, <2>2
  <2>3. CASE i >= m
    <3>1. m \in 1..n /\ s[m].timestamp >= start /\ s[m].timestamp <= s[i].timestamp
      BY <1>1, <2>1, <2>3 DEF Ordered
    <3> QED BY <1>1, <2>3, <3>1
  <2> QED BY <2>1, <2>2, <2>3
<1>6. \A i \in 1..n : s[i].timestamp \in window <=> i > k
  BY <1>1, <1>5 DEF Ordered
<1> HIDE DEF T, window, k
<1>7. ASSUME NEW i \in 1..n, NEW c, Part(c, s, low(i - 1), i - 1)
      PROVE  Part(IF i > k THEN Append(c, s[i]) ELSE c, s, low(i), i)
  <2>1. i \in Int /\ k \in Int /\ k >= 0 /\ i - 1 \in Nat /\ i - 1 < n /\ (i - 1) + 1 = i
    BY <1>1, <1>4
  <2>2. CASE i > k
    <3>1. low(i - 1) = k /\ low(i) = k
      BY <2>1, <2>2
    <3> HIDE DEF low
    <3>2. Part(c, s, k, i - 1)
      BY <1>7, <3>1
    <3>3. Part(Append(c, s[i]), s, k, i)
      BY <2>1, <3>2, PartGrows
    <3> QED BY <2>2, <3>1, <3>3
  <2>3. CASE i <= k
    <3>1. low(i - 1) = i - 1 /\ low(i) = i
      BY <2>1, <2>3
    <3> HIDE DEF low
    <3>2. c \in Seq(Rounds) /\ Len(c) = 0
      BY <1>7, <2>1, <3>1 DEF Part
    <3>3. i \in Nat /\ i <= n /\ i - i = 0 /\ 1..(i - i) = {}
      BY <2>1, <1>1
    <3>4. Part(c, s, i, i)
      BY <1>1, <3>2, <3>3 DEF Part
    <3>5. ~(i > k)
      BY <2>1, <2>3
    <3> QED BY <3>1, <3>4, <3>5
  <2> QED BY <2>1, <2>2, <2>3
\* The loop is such a function, and any such function is right.
<1>8. ASSUME NEW f, f = Step(f)
      PROVE  Right(f)
  <2> DEFINE Bad == {i \in 0..n : ~Part(f[i], s, low(i), i)}
  <2>1. f[0] = <<>>
    BY <1>1, <1>8
  <2>2. ASSUME NEW i \in 1..n
        PROVE  f[i] = IF i > k THEN Append(f[i - 1], s[i]) ELSE f[i - 1]
    <3>1. i \in 0..n /\ i # 0 /\ (s[i].timestamp \in window <=> i > k)
      BY <1>1, <1>6
    <3>2. f[i] = Step(f)[i]
      <4> HIDE DEF Step
      <4> QED BY <1>8
    <3> QED BY <3>1, <3>2
  <2>3. Part(f[0], s, low(0), 0)
    <3>1. low(0) = 0
      BY <1>4
    <3>2. <<>> \in Seq(Rounds) /\ Len(<<>>) = 0
      BY EmptySeq
    <3> HIDE DEF low
    <3>3. Part(<<>>, s, 0, 0)
      BY <1>1, <3>2 DEF Part
    <3> QED BY <2>1, <3>1, <3>3
  <2>4. ASSUME Bad # {} PROVE FALSE
    <3>1. Bad \in SUBSET Nat
      OBVIOUS
    <3>2. PICK i \in Bad : \A j \in Bad : i <= j
      <4> HIDE DEF Bad
      <4> QED BY <2>4, <3>1, Least
    <3>3. i \in 0..n /\ i # 0 /\ ~Part(f[i], s, low(i), i)
      <4> HIDE DEF low
      <4> QED BY <2>3
    <3>4. i \in 1..n /\ i - 1 \in 0..n /\ i - 1 < i
      BY <1>1, <3>3
    <3>5. i - 1 \notin Bad
      <4> HIDE DEF Bad
      <4> QED BY <3>2, <3>4
    <3> HIDE DEF low
    <3>6. Part(f[i - 1], s, low(i - 1), i - 1)
      BY <3>4, <3>5
    <3>7. Part(f[i], s, low(i), i)
      <4>1. f[i] = IF i > k THEN Append(f[i - 1], s[i]) ELSE f[i - 1]
        BY <2>2, <3>4
      <4>2. Part(IF i > k THEN Append(f[i - 1], s[i]) ELSE f[i - 1], s, low(i), i)
        BY <1>7, <3>4, <3>6
      <4> QED BY <4>1, <4>2
    <3> QED BY <3>3, <3>7
  <2> QED
    <3> HIDE DEF low
    <3> QED BY <2>4
<1>9. \E f : f = Step(f)
  <2> DEFINE g == [i \in 0..n |-> SubSeq(s, low(i) + 1, i)]
  <2>1. ASSUME NEW i \in 0..n PROVE Part(g[i], s, low(i), i)
    <3>1. low(i) \in Nat /\ low(i) <= i /\ i \in Nat /\ i <= Len(s)
      BY <1>1, <1>4
    <3> HIDE DEF low
    <3>2. g[i] = SubSeq(s, low(i) + 1, i)
      OBVIOUS
    <3> QED BY <3>1, <3>2, SubSeqIsPart
  <2>2. g[0] = <<>>
    <3>1. low(0) = 0 /\ 0 \in 0..n
      BY <1>1, <1>4
    <3>2. Part(g[0], s, 0, 0)
      BY <2>1, <3>1
    <3> HIDE DEF g
    <3>3. g[0] \in Seq(Rounds) /\ Len(g[0]) = 0
      BY <3>2 DEF Part
    <3> QED BY <3>3, EmptySeq
  <2>3. ASSUME NEW i \in 1..n
        PROVE  g[i] = IF i > k THEN Append(g[i - 1], s[i]) ELSE g[i - 1]
    <3>1. i - 1 \in 0..n /\ i \in 0..n
      BY <1>1
    <3> HIDE DEF low, g
    <3>2. Part(g[i - 1], s, low(i - 1), i - 1) /\ Part(g[i], s, low(i), i)
      BY <2>1, <3>1
    <3>3. Part(IF i > k THEN Append(g[i - 1], s[i]) ELSE g[i - 1], s, low(i), i)
      BY <1>7, <3>2
    <3> QED BY <3>2, <3>3, PartIsUnique
  <2>4. g = Step(g)
    <3>1. g = [i \in 0..n |-> g[i]]
      OBVIOUS
    <3> HIDE DEF g
    <3>2. \A i \in 0..n :
            g[i] = IF i = 0 THEN <<>>
                   ELSE IF s[i].timestamp \in window THEN Append(g[i - 1], s[i])
                   ELSE g[i - 1]
      BY <1>1, <1>6, <2>2, <2>3
    <3> QED BY <3>1, <3>2
  <2> HIDE DEF g
  <2> QED BY <2>4
<1>10. FilterHistory(s, start, end) = (CHOOSE f : f = Step(f))[n]
  BY DEF FilterHistory, Within, window
<1>11. PICK f : f = Step(f) /\ FilterHistory(s, start, end) = f[n]
  <2> HIDE DEF Step
  <2> QED BY <1>9, <1>10
<1>12. Part(FilterHistory(s, start, end), s, k, n)
  <2>1. Right(f)
    <3> HIDE DEF Step, Right
    <3> QED BY <1>8, <1>11
  <2>2. low(n) = k /\ n \in 0..n
    BY <1>1, <1>4
  <2> HIDE DEF low
  <2> QED BY <1>11, <2>1, <2>2
<1> QED
  BY <1>4, <1>5, <1>12

\* What the limits let through is the end of it.
LEMMA LastNIsPart ==
  ASSUME NEW s \in Seq(Rounds), NEW n \in Nat
  PROVE  \E k \in 0..Len(s) :
           /\ Part(LastN(s, n), s, k, Len(s))
           /\ Len(s) - k = IF Len(s) > n THEN n ELSE Len(s)
<1>1. Len(s) \in Nat
  BY TimesOf
<1>2. CASE Len(s) > n
  <2>1. PICK k \in Nat : k <= Len(s) /\ k + 1 = Len(s) - n + 1 /\ Len(s) - k = n
    BY <1>1, <1>2
  <2>2. Part(SubSeq(s, k + 1, Len(s)), s, k, Len(s))
    BY <1>1, <2>1, SubSeqIsPart
  <2>3. LastN(s, n) = SubSeq(s, k + 1, Len(s))
    BY <1>2, <2>1 DEF LastN
  <2>4. Part(LastN(s, n), s, k, Len(s))
    BY <2>2, <2>3
  <2>5. k \in 0..Len(s)
    BY <1>1, <2>1
  <2>6. Len(s) - k = IF Len(s) > n THEN n ELSE Len(s)
    BY <1>2, <2>1
  <2> QED BY <2>4, <2>5, <2>6
<1>3. CASE Len(s) <= n
  <2>1. LastN(s, n) = s
    BY <1>1, <1>3 DEF LastN
  <2>2. Len(s) - 0 = Len(s) /\ \A i \in 1..Len(s) : 0 + i = i
    BY <1>1
  <2>3. Part(s, s, 0, Len(s))
    BY <1>1, <2>2 DEF Part
  <2>4. 0 \in 0..Len(s) /\ Len(s) - 0 = IF Len(s) > n THEN n ELSE Len(s)
    BY <1>1, <1>3
  <2> QED BY <2>1, <2>3, <2>4
<1> QED BY <1>1, <1>2, <1>3

-----------------------------------------------------------------------------
(* Sizes.                                                                  *)

\* Whole divisions of lengths of time: as many intervals as fit, and as many as
\* are needed.
LEMMA Division ==
  ASSUME NEW a \in Nat, NEW b \in Nat \ {0}
  PROVE  /\ a \div b \in Nat
         /\ Ceil(a, b) \in Nat
<1>1. \A c \in Nat : c \div b \in Nat
  OBVIOUS
<1>2. a + b - 1 \in Nat
  OBVIOUS
<1> QED BY <1>1, <1>2 DEF Ceil

\* A month has no fewer of shorter intervals, and no part of it needs more intervals
\* than it has.
LEMMA MonthHolds ==
  ASSUME NEW i \in 1..Interval, NEW d \in 0..Month
  PROVE  Ceil(d, Interval) <= Month \div i
<1>1. Interval \in Nat \ {0} /\ Slots \in Nat \ {0} /\ Month = Slots * Interval
  BY WindowAssumption, ClusterUptimeAssumption
<1>2. Ceil(d, Interval) <= Slots
  <2> DEFINE x == d + Interval - 1
             q == x \div Interval
  <2>1. x \in Nat /\ x < Slots * Interval + Interval
    BY <1>1
  <2> HIDE DEF x
  <2>2. q \in Nat /\ Interval * q <= x
    BY <1>1, <2>1
  <2> HIDE DEF q
  <2>3. ASSUME q > Slots PROVE FALSE
    <3>1. q >= Slots + 1
      BY <1>1, <2>2, <2>3
    <3>2. Interval * q >= Interval * (Slots + 1)
      BY <1>1, <2>2, <3>1
    <3>3. Interval * (Slots + 1) = Slots * Interval + Interval
      BY <1>1
    <3> QED BY <1>1, <2>1, <2>2, <3>2, <3>3
  <2> QED BY <1>1, <2>2, <2>3 DEF Ceil, q, x
<1>3. Month \div i >= Slots
  <2> DEFINE q == Month \div i
  <2>1. i \in Nat \ {0} /\ Month \in Nat /\ i * Slots <= Month
    BY <1>1
  <2>2. q \in Nat /\ Month < i * (q + 1)
    <3>1. \A m \in Nat : m \div i \in Nat /\ m < i * (m \div i + 1)
      BY <2>1
    <3> QED BY <2>1, <3>1
  <2> HIDE DEF q
  <2>3. ASSUME q < Slots PROVE FALSE
    <3>1. q + 1 <= Slots
      BY <1>1, <2>2, <2>3
    <3>2. i * (q + 1) <= i * Slots
      BY <1>1, <2>1, <2>2, <3>1
    <3>3. i * (q + 1) \in Nat /\ i * Slots \in Nat
      BY <1>1, <2>1, <2>2
    <3> QED BY <2>1, <2>2, <3>2, <3>3
  <2> QED BY <1>1, <2>2, <2>3 DEF q
<1>4. Ceil(d, Interval) \in Nat /\ Month \div i \in Nat
  BY <1>1, Division
<1> QED BY <1>1, <1>2, <1>3, <1>4

\* A normalised file gives a positive interval.
LEMMA IntervalOf ==
  ASSUME NEW cfg \in Load(Files)
  PROVE  cfg.interval \in Nat \ {0}
<1>1. PICK file \in Files : cfg = Decoded(file)
  BY DEF Load
<1> DEFINE d == OverDefaults(file)
<1>2. DOMAIN DefaultConfig = {"interval", "probeEnabled", "probeInterval", "targets", "peers"}
  BY DEF DefaultConfig
<1>3. d.interval \in Int
  BY <1>2, ClusterUptimeAssumption, ConfigurationAssumption DEF OverDefaults, DefaultConfig
<1>4. DOMAIN d = DOMAIN DefaultConfig
  BY DEF OverDefaults
<1>5. Decoded(file).interval = OrDefault(d.interval, DefaultInterval)
  <2> HIDE DEF d
  <2> QED BY <1>2, <1>4 DEF Decoded, d
<1> QED
  BY <1>1, <1>3, <1>5, ConfigurationAssumption DEF OrDefault

\* NewService and New: the caps on a history hold a month of it.
LEMMA CapHolds ==
  ASSUME NEW cfg, cfg.interval \in Nat \ {0}
  PROVE  /\ HistoryCap(cfg) \in Nat
         /\ HistoryCap(cfg) >= Month \div cfg.interval
<1> DEFINE due == Month \div cfg.interval
<1>1. due \in Nat
  BY Division, ConfigurationAssumption
<1> HIDE DEF due
<1>2. HistoryCap(cfg) = Max({HistoryFloor, due + HistorySlack})
  BY DEF HistoryCap, due
<1>3. due + HistorySlack \in Int /\ HistoryFloor \in Int /\ HistoryFloor > 0
      /\ due + HistorySlack >= due
  BY <1>1, ConfigurationAssumption
<1>4. HistoryCap(cfg) = IF HistoryFloor >= due + HistorySlack THEN HistoryFloor
                        ELSE due + HistorySlack
  BY <1>2, <1>3, MaxOfTwo
<1> QED
  BY <1>1, <1>3, <1>4 DEF due

\* So do those of this node, and of an aggregator whose interval is no longer.
LEMMA Limits ==
  ASSUME aggregator \in Load(Files)
  PROVE  /\ aggregator.interval \in Nat \ {0}
         /\ HistoryCap(aggregator) \in Nat
         /\ Limit \in Nat /\ Limit <= HistoryCap(aggregator)
         /\ ParseLimit(HistoryCap(aggregator)) = Limit
         /\ aggregator.interval <= Interval =>
              \A d \in 0..Month : Ceil(d, Interval) <= Limit
<1> DEFINE cap == HistoryCap(aggregator)
           own == HistoryLimit(NodeConfig)
<1>1. aggregator.interval \in Nat \ {0}
  BY IntervalOf
<1>2. Interval \in Nat \ {0} /\ Month \in Nat
  BY WindowAssumption, ConfigurationAssumption
<1>3. NodeConfig.interval = Interval
  BY ClusterUptimeAssumption DEF NodeConfig
<1>4. cap \in Nat /\ cap >= Month \div aggregator.interval
  BY <1>1, CapHolds
<1>5. own \in Nat /\ own >= Month \div Interval
  <2>1. HistoryCap(NodeConfig) \in Nat /\ HistoryCap(NodeConfig) >= Month \div NodeConfig.interval
    BY <1>2, <1>3, CapHolds
  <2> QED BY <1>3, <2>1 DEF HistoryLimit
<1>6. Limit = IF cap <= own THEN cap ELSE own
  <2>1. Limit = Min({cap, own})
    BY DEF Limit
  <2> HIDE DEF cap, own
  <2> QED BY <1>4, <1>5, <2>1, MinOfTwo
<1>7. ParseLimit(cap) = Limit
  BY DEF ParseLimit, Limit
<1>8. ASSUME aggregator.interval <= Interval, NEW d \in 0..Month
      PROVE  Ceil(d, Interval) <= Limit
  <2>1. Interval \in 1..Interval /\ aggregator.interval \in 1..Interval
    BY <1>1, <1>2, <1>8
  <2>2. Ceil(d, Interval) <= Month \div Interval
    BY <2>1, MonthHolds
  <2>3. Ceil(d, Interval) <= Month \div aggregator.interval
    BY <2>1, MonthHolds
  <2>4. /\ Ceil(d, Interval) \in Nat /\ Month \div Interval \in Nat
        /\ Month \div aggregator.interval \in Nat
    <3>1. d \in Nat
      BY <1>2
    <3> QED BY <1>1, <1>2, <3>1, Division
  <2> HIDE DEF cap, own
  <2> QED BY <1>4, <1>5, <1>6, <2>2, <2>3, <2>4
<1> QED
  <2>1. Limit \in Nat /\ Limit <= cap
    <3> HIDE DEF cap, own
    <3> QED BY <1>4, <1>5, <1>6
  <2> QED BY <1>1, <1>4, <1>7, <1>8, <2>1

-----------------------------------------------------------------------------
(* What every step keeps.                                                  *)

\* Time passes over a history.
LEMMA OrderedLater ==
  ASSUME NEW s \in Seq(Rounds), NEW t \in Nat, NEW u \in Nat, t <= u, Ordered(s, t)
  PROVE  Ordered(s, u)
BY TimesOf DEF Ordered

\* A history in order grows in order, and keeps what it has.
LEMMA OrderedGrows ==
  ASSUME NEW s \in Seq(Rounds), NEW t \in Nat, Ordered(s, t)
  PROVE  LET r == Append(s, RoundEntry(t))
         IN  /\ r \in Seq(Rounds) /\ Len(r) = Len(s) + 1
             /\ \A i \in 1..Len(s) : r[i] = s[i]
             /\ r[Len(s) + 1] = RoundEntry(t)
             /\ Ordered(r, t)
<1> DEFINE e == RoundEntry(t)
           r == Append(s, e)
<1>1. Len(s) \in Nat /\ (\A i \in 1..Len(s) : s[i].timestamp \in Nat)
      /\ e \in Rounds /\ e.timestamp = t
  BY TimesOf DEF Rounds, RoundEntry
<1> HIDE DEF e
<1>2. /\ r \in Seq(Rounds) /\ Len(r) = Len(s) + 1
      /\ \A i \in 1..Len(s) : r[i] = s[i]
      /\ r[Len(s) + 1] = e
  BY <1>1, AppendProperties
<1> HIDE DEF r
<1>3. \A i \in 1..Len(r) : r[i].timestamp <= t
  <2> SUFFICES ASSUME NEW i \in 1..Len(r) PROVE r[i].timestamp <= t
    OBVIOUS
  <2>1. CASE i \in 1..Len(s)
    BY <1>1, <1>2, <2>1 DEF Ordered
  <2>2. CASE i = Len(s) + 1
    BY <1>1, <1>2, <2>2
  <2> QED BY <1>1, <1>2, <2>1, <2>2
<1>4. \A i, j \in 1..Len(r) : i < j => r[i].timestamp <= r[j].timestamp
  <2> SUFFICES ASSUME NEW i \in 1..Len(r), NEW j \in 1..Len(r), i < j
      PROVE  r[i].timestamp <= r[j].timestamp
    OBVIOUS
  <2>1. CASE j \in 1..Len(s)
    <3>1. i \in 1..Len(s) /\ r[i] = s[i] /\ r[j] = s[j]
      BY <1>1, <1>2, <2>1
    <3> QED BY <2>1, <3>1 DEF Ordered
  <2>2. CASE j = Len(s) + 1
    BY <1>1, <1>2, <1>3, <2>2
  <2> QED BY <1>1, <1>2, <2>1, <2>2
<1>5. Ordered(r, t)
  BY <1>3, <1>4 DEF Ordered
<1> QED BY <1>2, <1>5 DEF r, e

\* The beginning of a history, which is what the file holds of it.
LEMMA Beginning ==
  ASSUME NEW s \in Seq(Rounds), NEW b \in 0..Len(s)
  PROVE  LET r == SubSeq(s, 1, b)
         IN  /\ r \in Seq(Rounds) /\ Len(r) = b
             /\ \A i \in 1..b : r[i] = s[i]
             /\ \A t \in Nat : Ordered(s, t) => Ordered(r, t)
<1> DEFINE r == SubSeq(s, 1, b)
<1>1. Len(s) \in Nat /\ b \in Nat /\ b <= Len(s)
  BY TimesOf
<1>2. Part(r, s, 0, b)
  <2>1. Part(SubSeq(s, 0 + 1, b), s, 0, b)
    BY <1>1, SubSeqIsPart
  <2> QED BY <2>1
<1> HIDE DEF r
<1>3. r \in Seq(Rounds) /\ Len(r) = b /\ \A i \in 1..b : r[i] = s[i]
  BY <1>1, <1>2 DEF Part
<1>4. ASSUME NEW t \in Nat, Ordered(s, t) PROVE Ordered(r, t)
  BY <1>1, <1>3, <1>4 DEF Ordered
<1> QED BY <1>3, <1>4 DEF r

\* Ticks, rounds, kills and starts keep the history in order, whether a save fails or not.
LEMMA HistoryStep == HistoryInv /\ [Next]_vars => HistoryInv'
<1> SUFFICES ASSUME HistoryInv, [Next]_vars PROVE HistoryInv'
  OBVIOUS
<1>1. /\ now \in Nat /\ entries \in Seq(Rounds) /\ Ordered(entries, Latest)
      /\ round = None \/ round \in 0..now
      /\ Latest \in Nat /\ Latest <= now
      /\ saved \in 0..Len(entries) /\ Len(entries) \in Nat
  BY TimesOf DEF HistoryInv, Latest
<1>2. Ordered(entries, now)
  BY <1>1, OrderedLater
<1>3. CASE Start \/ BeginRound
  BY <1>1, <1>2, <1>3 DEF Start, BeginRound, HistoryInv, Latest, None
<1>4. CASE FinishRound
  <2>1. /\ round \in Nat /\ round <= now /\ Latest = round
        /\ entries' = Append(entries, RoundEntry(round)) /\ round' = None /\ now' = now
        /\ saved' \in {Len(entries'), saved}
    BY <1>1, <1>4 DEF FinishRound, Latest
  <2>2. entries' \in Seq(Rounds) /\ Ordered(entries', round) /\ Len(entries') = Len(entries) + 1
    BY <1>1, <2>1, OrderedGrows
  <2>3. Ordered(entries', now)
    BY <1>1, <2>1, <2>2, OrderedLater
  <2>4. saved' \in 0..Len(entries')
    BY <1>1, <2>1, <2>2
  <2> QED BY <1>1, <2>1, <2>2, <2>3, <2>4 DEF HistoryInv, Latest
<1>5. CASE Kill
  <2>1. /\ now' = now /\ round' = None /\ saved' = saved
        /\ entries' = SubSeq(entries, 1, saved)
    BY <1>5 DEF Kill
  <2>2. entries' \in Seq(Rounds) /\ Len(entries') = saved /\ Ordered(entries', now)
    BY <1>1, <1>2, <2>1, Beginning
  <2>3. saved' \in 0..Len(entries') /\ Latest' = now
    BY <1>1, <2>1, <2>2 DEF Latest
  <2> QED BY <1>1, <2>1, <2>2, <2>3 DEF HistoryInv
<1>6. CASE Pass
  <2>1. now' = now + 1 /\ round' = round /\ entries' = entries /\ saved' = saved
    BY <1>6 DEF Pass
  <2>2. Ordered(entries, now + 1)
    BY <1>1, <1>2, OrderedLater
  <2> QED BY <1>1, <2>1, <2>2 DEF HistoryInv, Latest
<1>7. CASE UNCHANGED vars
  BY <1>1, <1>7 DEF vars, HistoryInv, Latest
<1> QED BY <1>3, <1>4, <1>5, <1>6, <1>7 DEF Next

\* fetchPeer: what the filter and the limits of both nodes leave of a history.
LEMMA FetchedIsPart ==
  ASSUME HistoryInv, aggregator \in Load(Files)
  PROVE  LET c == CapHistory(NodeHistory(HistoryCap(aggregator)))
         IN  \E a \in 0..Len(entries) :
               /\ Part(c, entries, a, Len(entries))
               /\ Len(entries) - a <= Limit
               /\ \/ a = 0 \/ Len(entries) - a = Limit
                  \/ entries[a].timestamp < now - Month
<1> DEFINE n == Len(entries)
           cap == HistoryCap(aggregator)
           f == FilterHistory(entries, now - Month, now)
           h == LastN(f, Limit)
           c == LastN(h, cap)
<1>1. /\ n \in Nat /\ now \in Nat /\ now - Month \in Int /\ entries \in Seq(Rounds)
      /\ Ordered(entries, now)
      /\ \A i \in 1..n : entries[i].timestamp \in Nat
  <2>1. Latest \in Nat /\ Latest <= now /\ now \in Nat
    BY DEF HistoryInv, Latest
  <2> QED BY <2>1, TimesOf, OrderedLater, ConfigurationAssumption DEF HistoryInv
<1>2. PICK k \in 0..n : /\ Part(f, entries, k, n)
                        /\ \A i \in 1..n : entries[i].timestamp >= now - Month <=> i > k
  <2> HIDE DEF f
  <2> QED BY <1>1, FilterIsEnd DEF f
<1>3. Limit \in Nat /\ cap \in Nat /\ Limit <= cap /\ ParseLimit(cap) = Limit
  BY Limits
<1> HIDE DEF f
<1>4. f \in Seq(Rounds) /\ Len(f) = n - k
  BY <1>2 DEF Part
<1>5. PICK j \in 0..Len(f) : /\ Part(h, f, j, Len(f))
                             /\ Len(f) - j = IF Len(f) > Limit THEN Limit ELSE Len(f)
  BY <1>3, <1>4, LastNIsPart
<1> HIDE DEF h, cap
<1>6. h \in Seq(Rounds) /\ Len(h) = Len(f) - j /\ Len(h) <= cap
  <2>1. h \in Seq(Rounds) /\ Len(h) = Len(f) - j
    BY <1>5 DEF Part
  <2> QED BY <1>1, <1>3, <1>4, <1>5, <2>1
<1>7. PICK i \in 0..Len(h) : /\ Part(c, h, i, Len(h))
                             /\ Len(h) - i = IF Len(h) > cap THEN cap ELSE Len(h)
  BY <1>3, <1>6, LastNIsPart
<1> HIDE DEF c
<1>8. i = 0
  BY <1>1, <1>3, <1>4, <1>6, <1>7
<1> DEFINE a == k + j
<1>9. /\ a \in 0..n /\ k + (j + 0) = a /\ j + Len(h) = Len(f) /\ k + Len(f) = n
      /\ Len(f) \in Nat /\ j \in Nat
  BY <1>1, <1>2, <1>4, <1>5, <1>6
<1>10. Part(c, f, j + 0, Len(f))
  BY <1>5, <1>7, <1>8, <1>9, PartOfPart
<1>11. Part(c, entries, a, n)
  BY <1>2, <1>9, <1>10, PartOfPart
<1>12. n - a = IF Len(f) > Limit THEN Limit ELSE Len(f)
  BY <1>1, <1>4, <1>5, <1>9
<1>13. n - a <= Limit
  BY <1>3, <1>9, <1>12
<1>14. a = 0 \/ n - a = Limit \/ entries[a].timestamp < now - Month
  <2>1. CASE Len(f) >= Limit
    BY <1>3, <1>9, <1>12, <2>1
  <2>2. CASE Len(f) < Limit
    <3>1. a = k
      <4>1. ~(Len(f) > Limit)
        BY <1>3, <1>9, <2>2
      <4>2. j = 0 /\ k \in Int
        BY <1>1, <1>5, <1>9, <4>1
      <4> QED BY <4>2
    <3>2. CASE k > 0
      <4>1. k \in 1..n /\ ~(entries[k].timestamp >= now - Month)
        BY <1>1, <1>2, <3>2
      <4> QED BY <1>1, <3>1, <4>1
    <3> QED BY <1>1, <1>2, <3>1, <3>2
  <2> QED BY <1>3, <1>9, <2>1, <2>2
<1>15. c = CapHistory(NodeHistory(HistoryCap(aggregator)))
  BY <1>3 DEF CapHistory, NodeHistory, f, h, c, cap
<1> QED
  <2> HIDE DEF a, n
  <2> QED BY <1>9, <1>11, <1>13, <1>14, <1>15 DEF n

\* A step of the node leaves a copy what it was.
LEMMA NodeStepKeepsCopy ==
  ASSUME HistoryInv, CopyInv, [Next]_vars, UNCHANGED cvars
  PROVE  CopyInv'
<1>1. /\ aggregator' = aggregator /\ copy' = copy /\ copied' = copied /\ known' = known
      /\ Limit' = Limit
  BY DEF cvars, Limit, HistoryLimit, HistoryCap, NodeConfig, Load, Decoded, Accepted
<1>2. now \in Nat /\ now' \in Nat /\ now <= now'
  BY DEF HistoryInv, Next, Start, FinishRound, BeginRound, Kill, Pass, vars
<1>3. copied # None => copied \in 0..now'
  BY <1>2 DEF CopyInv
<1> QED BY <1>1, <1>3 DEF CopyInv

\* A fetch makes it one of this moment, an error leaves none.
LEMMA CopyStep ==
  ASSUME HistoryInv, CopyInv, [CNext]_<<vars, cvars>>
  PROVE  CopyInv'
<1>1. CASE FetchPeer
  <2>1. /\ copied' = now /\ known' = entries /\ aggregator' = aggregator
        /\ now' = now
        /\ copy' = [interval |-> Interval, targets |-> {Service},
                    history  |-> CapHistory(NodeHistory(HistoryCap(aggregator)))]
    BY <1>1 DEF FetchPeer, vars
  <2>2. Limit' = Limit
    BY <2>1 DEF Limit, HistoryLimit, HistoryCap, NodeConfig, Load, Decoded, Accepted
  <2>3. /\ now \in Nat /\ aggregator \in Load(Files)
        /\ entries \in Seq(Rounds) /\ Ordered(entries, now)
    <3>1. Latest \in Nat /\ Latest <= now /\ now \in Nat
      BY DEF HistoryInv, Latest
    <3> QED BY <3>1, OrderedLater DEF HistoryInv, CopyInv
  <2>4. PICK a \in 0..Len(entries) :
          /\ Part(copy'.history, entries, a, Len(entries))
          /\ Len(entries) - a <= Limit
          /\ \/ a = 0 \/ Len(entries) - a = Limit
             \/ entries[a].timestamp < now - Month
    <3>1. copy'.history = CapHistory(NodeHistory(HistoryCap(aggregator)))
      BY <2>1
    <3> QED BY <2>3, <3>1, FetchedIsPart
  <2>5. copied' \in 0..now'
    BY <2>1, <2>3
  <2>6. copy'.interval = Interval /\ copy'.targets = {Service}
    BY <2>1
  <2>7. known' \in Seq(Rounds) /\ Ordered(known', copied')
    BY <2>1, <2>3
  <2>8. \E b \in 0..Len(known') :
          /\ Part(copy'.history, known', b, Len(known'))
          /\ Len(known') - b <= Limit'
          /\ \/ b = 0 \/ Len(known') - b = Limit'
             \/ known'[b].timestamp < copied' - Month
    BY <2>1, <2>2, <2>4
  <2> QED
    BY <2>1, <2>3, <2>5, <2>6, <2>7, <2>8 DEF CopyInv
<1>2. CASE FetchFails
  BY <1>2 DEF FetchFails, CopyInv
<1>3. CASE [Next]_vars /\ UNCHANGED cvars
  BY <1>3, NodeStepKeepsCopy
<1> QED
  BY <1>1, <1>2, <1>3 DEF CNext

\* The copy that an aggregator holds of a node, in all that the limits, the clock, the
\* kills of the node and failed requests can make of it.
THEOREM CopyInvariant == CSpec => [](HistoryInv /\ CopyInv)
<1>1. CInit => HistoryInv /\ CopyInv
  <2> SUFFICES ASSUME CInit PROVE HistoryInv /\ CopyInv
    OBVIOUS
  <2>1. /\ now = 0 /\ round = None /\ entries = <<>> /\ saved = 0
        /\ aggregator \in Load(Files) /\ copied = None
    BY DEF CInit, Init
  <2>2. <<>> \in Seq(Rounds) /\ Len(<<>>) = 0
    BY EmptySeq
  <2> QED BY <2>1, <2>2 DEF HistoryInv, CopyInv, Ordered, Latest
<1>2. HistoryInv /\ CopyInv /\ [CNext]_<<vars, cvars>> => (HistoryInv /\ CopyInv)'
  <2>1. [CNext]_<<vars, cvars>> => [Next]_vars
    BY DEF CNext, FetchPeer, FetchFails
  <2> QED BY <2>1, HistoryStep, CopyStep
<1> QED
  BY <1>1, <1>2, PTL DEF CSpec

-----------------------------------------------------------------------------
(* What is shown.                                                          *)

Above(x, y) == IF x > y THEN x - y ELSE 0

\* ComputeServiceUptime: missing is what the entries are short of the intervals.
LEMMA MissingOf ==
  ASSUME NEW es \in Seq(Rounds), NEW start \in Int, NEW end \in Int, start <= end
  PROVE  ComputeServiceUptime(es, start, end, Interval, {Service})[Service].missing
           = Above(Ceil(end - start, Interval), Len(es))
<1>1. Service \in ServiceIDs(es, {Service})
  BY DEF ServiceIDs
<1>2. Interval > 0 /\ end >= start
  BY WindowAssumption
<1> QED
  BY <1>1, <1>2 DEF ComputeServiceUptime, MissingSlots, Above

\* What the node has kept of what it had is the same in both histories.
LEMMA WhatIsKept ==
  ASSUME known \in Seq(Rounds), entries \in Seq(Rounds)
  PROVE  /\ Kept \in Nat /\ Kept <= Len(known) /\ Kept <= Len(entries)
         /\ \A i \in 1..Kept : known[i] = entries[i]
         /\ known = entries => Kept = Len(entries)
<1> DEFINE top == Min({Len(known), Len(entries)})
           S == {n \in 0..top : \A i \in 1..n : known[i] = entries[i]}
           T == {top - n : n \in S}
<1>1. Len(known) \in Nat /\ Len(entries) \in Nat
  BY TimesOf
<1>2. top \in Nat /\ top <= Len(known) /\ top <= Len(entries)
      /\ (known = entries => top = Len(entries))
  BY <1>1, MinOfTwo
<1> HIDE DEF top
<1>3. 0 \in S /\ (known = entries => top \in S) /\ \A n \in S : n \in Nat /\ n <= top
  BY <1>2
<1>4. T \in SUBSET Nat /\ T # {}
  BY <1>2, <1>3
<1>5. PICK m \in T : \A n \in T : m <= n
  <2> HIDE DEF T
  <2> QED BY <1>4, Least
<1>6. PICK k \in S : m = top - k
  OBVIOUS
<1>7. \A n \in S : k >= n
  <2> SUFFICES ASSUME NEW n \in S PROVE k >= n
    OBVIOUS
  <2>1. m <= top - n /\ n \in Nat /\ k \in Nat
    <3> HIDE DEF S
    <3> QED BY <1>3, <1>5
  <2> QED BY <1>2, <1>6, <2>1
<1>8. Kept \in S /\ \A n \in S : Kept >= n
  <2>1. Kept = Max(S)
    BY DEF Kept, top
  <2> HIDE DEF S
  <2> QED BY <1>7, <2>1 DEF Max
<1>9. Kept \in Nat /\ Kept <= top /\ \A i \in 1..Kept : known[i] = entries[i]
  BY <1>8
<1>10. known = entries => Kept >= top
  <2> HIDE DEF S
  <2> QED BY <1>3, <1>8
<1> HIDE DEF S
<1> QED BY <1>1, <1>2, <1>9, <1>10

\* The entries that the two nodes count for a window: the aggregator counts those that
\* the node had and that the limits have left, the node those that it has.
LEMMA Counted ==
  ASSUME HistoryInv, CopyInv, copied # None, NEW d \in Windows
  PROVE  \E own \in Nat, had \in Nat, both \in Nat :
           /\ OwnMissing(d) = Above(Ceil(d, Interval), own)
           /\ \/ had <= Limit /\ CopyMissing(d) = Above(Ceil(d, Interval), had)
              \/ had > Limit /\ CopyMissing(d) = Above(Ceil(d, Interval), Limit)
           /\ both <= own /\ own <= both + (Len(entries) - Kept)
           /\ both <= had /\ had <= both + (Len(known) - Kept)
<1> DEFINE n == Len(entries)
           z == Len(known)
           start == now - d
           h == copy.history
           e == FilterHistory(entries, start, now)
           f == FilterHistory(h, start, now)
<1>1. /\ n \in Nat /\ now \in Nat /\ d \in Nat /\ d <= Month /\ start \in Int
      /\ entries \in Seq(Rounds) /\ Ordered(entries, now)
      /\ Month \in Nat
  <2>1. Latest \in Nat /\ Latest <= now /\ now \in Nat
    BY DEF HistoryInv, Latest
  <2>2. d \in 1..Month /\ Month \in Nat
    BY ClusterUptimeAssumption, ConfigurationAssumption
  <2> QED BY <2>1, <2>2, TimesOf, OrderedLater DEF HistoryInv
<1>2. /\ copied \in 0..now /\ known \in Seq(Rounds) /\ Ordered(known, now) /\ z \in Nat
      /\ copy.interval = Interval /\ copy.targets = {Service}
      /\ \A i \in 1..z : known[i].timestamp \in Nat
  <2>1. copied \in Nat /\ copied <= now
    BY <1>1 DEF CopyInv
  <2> QED BY <1>1, <2>1, TimesOf, OrderedLater DEF CopyInv
<1>3. PICK a \in 0..z :
        /\ Part(h, known, a, z)
        /\ z - a <= Limit
        /\ a = 0 \/ z - a = Limit \/ known[a].timestamp < copied - Month
  BY DEF CopyInv
<1>4. Limit \in Nat
  BY Limits DEF CopyInv
<1> DEFINE size == z - a
<1>5. /\ h \in Seq(Rounds) /\ Len(h) = size /\ size \in Nat /\ a \in Nat
      /\ \A i \in 1..size : h[i] = known[a + i] /\ a + i \in 1..z
  BY <1>2, <1>3 DEF Part
<1>6. Ordered(h, now)
  <2>1. \A i \in 1..size : h[i].timestamp <= now
    BY <1>2, <1>5 DEF Ordered
  <2>2. ASSUME NEW i \in 1..size, NEW j \in 1..size, i < j
        PROVE  h[i].timestamp <= h[j].timestamp
    <3>1. a + i < a + j /\ a + i \in 1..z /\ a + j \in 1..z
      BY <1>2, <1>5, <2>2
    <3> QED BY <1>2, <1>5, <3>1 DEF Ordered
  <2> QED BY <1>5, <2>1, <2>2 DEF Ordered
<1>7. PICK l \in 0..n : /\ Part(e, entries, l, n)
                        /\ \A i \in 1..n : entries[i].timestamp >= start <=> i > l
  <2> HIDE DEF start
  <2> QED BY <1>1, FilterIsEnd
<1>15. PICK k \in 0..z : \A i \in 1..z : known[i].timestamp >= start <=> i > k
  <2>1. known \in Seq(Rounds) /\ start \in Int /\ now \in Int /\ Ordered(known, now)
    BY <1>1, <1>2
  <2> HIDE DEF start
  <2>2. \E k \in 0..Len(known) :
          /\ Part(FilterHistory(known, start, now), known, k, Len(known))
          /\ \A i \in 1..Len(known) : known[i].timestamp >= start <=> i > k
    BY <2>1, FilterIsEnd
  <2> QED BY <2>2
<1>8. PICK j \in 0..size : /\ Part(f, h, j, size)
                           /\ \A i \in 1..size : h[i].timestamp >= start <=> i > j
  <2>1. /\ h \in Seq(Rounds) /\ start \in Int /\ now \in Int /\ Ordered(h, now)
        /\ Len(h) = size
    BY <1>1, <1>5, <1>6
  <2> HIDE DEF start, h, size
  <2>2. \E j \in 0..Len(h) :
          /\ Part(f, h, j, Len(h))
          /\ \A i \in 1..Len(h) : h[i].timestamp >= start <=> i > j
    BY <2>1, FilterIsEnd
  <2> HIDE DEF f
  <2> QED BY <2>1, <2>2
<1>9. OwnMissing(d) = Above(Ceil(d, Interval), n - l)
  <2>1. e \in Seq(Rounds) /\ Len(e) = n - l
    BY <1>7 DEF Part
  <2>2. now - start = d /\ start <= now
    BY <1>1
  <2>3. ComputeServiceUptime(e, start, now, Interval, {Service})[Service].missing
          = Above(Ceil(now - start, Interval), Len(e))
    <3>1. e \in Seq(Rounds) /\ start \in Int /\ now \in Int /\ start <= now
      BY <1>1, <2>1, <2>2
    <3> HIDE DEF start, e
    <3> QED BY <3>1, MissingOf, Zenon
  <2> QED BY <2>1, <2>2, <2>3 DEF OwnMissing
<1>10. CopyMissing(d) = Above(Ceil(d, Interval), size - j)
  <2>1. f \in Seq(Rounds) /\ Len(f) = size - j
    BY <1>8 DEF Part
  <2>2. now - start = d /\ start <= now
    BY <1>1
  <2>3. ComputeServiceUptime(f, start, now, Interval, {Service})[Service].missing
          = Above(Ceil(now - start, Interval), Len(f))
    <3>1. f \in Seq(Rounds) /\ start \in Int /\ now \in Int /\ start <= now
      BY <1>1, <2>1, <2>2
    <3> HIDE DEF start, f
    <3> QED BY <3>1, MissingOf, Zenon
  <2>4. CopyMissing(d)
          = ComputeServiceUptime(f, start, now, Interval, {Service})[Service].missing
    BY <1>2, WindowAssumption DEF CopyMissing, MaterialisePeerSnapshot
  <2> QED BY <2>1, <2>2, <2>3, <2>4
<1>16. /\ Kept \in Nat /\ Kept <= z /\ Kept <= n
       /\ \A i \in 1..Kept : known[i] = entries[i]
  BY <1>1, <1>2, WhatIsKept
<1> HIDE DEF e, f, h, n, z, start
<1>11. \A i \in 1..size : a + i > k <=> i > j
  BY <1>5, <1>8, <1>15
<1> DEFINE had == z - k
           own == n - l
           both == IF Kept > k THEN Kept - k ELSE 0
<1>17. both = IF Kept > l THEN Kept - l ELSE 0
  <2>1. \A i \in 1..Kept : i > k <=> i > l
    <3> SUFFICES ASSUME NEW i \in 1..Kept PROVE i > k <=> i > l
      OBVIOUS
    <3>1. i \in 1..z /\ i \in 1..n /\ known[i] = entries[i]
      BY <1>1, <1>2, <1>16
    <3> QED BY <1>7, <1>15, <3>1
  <2>2. k \in Nat /\ l \in Nat
    BY <1>7, <1>15
  <2>3. CASE k < Kept /\ k < l
    <3>1. k + 1 \in 1..Kept /\ k + 1 > k
      BY <1>16, <2>2, <2>3
    <3>2. k + 1 > l
      BY <2>1, <3>1
    <3> QED BY <2>2, <2>3, <3>2
  <2>4. CASE l < Kept /\ l < k
    <3>1. l + 1 \in 1..Kept /\ l + 1 > l
      BY <1>16, <2>2, <2>4
    <3>2. l + 1 > k
      BY <2>1, <3>1
    <3> QED BY <2>2, <2>4, <3>2
  <2> QED BY <1>16, <2>2, <2>3, <2>4
<1>12. /\ had \in Nat /\ own \in Nat /\ both \in Nat
       /\ both <= own /\ own <= both + (n - Kept)
       /\ both <= had /\ had <= both + (z - Kept)
  <2>1. had \in Nat /\ both \in Nat /\ both <= had /\ had <= both + (z - Kept)
    BY <1>2, <1>15, <1>16
  <2>2. own \in Nat /\ both <= own /\ own <= both + (n - Kept)
    <3>1. \/ Kept > l /\ both = Kept - l
          \/ ~(Kept > l) /\ both = 0
      BY <1>17
    <3> HIDE DEF both
    <3> QED BY <1>1, <1>7, <1>16, <3>1
  <2> QED BY <2>1, <2>2
<1>13. CASE k >= a
  <2>1. size - j = had
    <3>1. j = k - a
      <4>1. k - a \in 0..size
        BY <1>2, <1>3, <1>13, <1>15
      <4>2. CASE k < z
        <5>1. k - a + 1 \in 1..size /\ a + (k - a + 1) > k
          BY <1>2, <1>3, <1>15, <4>1, <4>2
        <5>2. k - a + 1 > j
          BY <1>11, <5>1
        <5>3. CASE k - a > 0
          <6>1. k - a \in 1..size /\ ~(a + (k - a) > k)
            BY <1>2, <1>3, <1>15, <4>1, <5>3
          <6>2. ~(k - a > j)
            BY <1>11, <6>1
          <6> QED BY <1>5, <1>8, <1>15, <5>2, <6>2
        <5> QED BY <1>5, <1>8, <1>15, <4>1, <5>2, <5>3
      <4>3. CASE k = z
        <5>1. CASE size > 0
          <6>1. size \in 1..size /\ ~(a + size > k)
            BY <1>2, <1>3, <1>5, <4>3, <5>1
          <6>2. ~(size > j)
            BY <1>11, <6>1
          <6>3. j = size
            BY <1>5, <1>8, <6>2
          <6> QED BY <4>3, <6>3
        <5> QED BY <1>2, <1>5, <1>8, <4>3, <5>1
      <4> QED BY <1>2, <1>15, <4>2, <4>3
    <3> QED BY <1>2, <1>3, <1>15, <3>1
  <2>2. had <= Limit /\ CopyMissing(d) = Above(Ceil(d, Interval), had)
    <3>1. size <= Limit /\ j \in Nat
      BY <1>3, <1>5
    <3> HIDE DEF had, size
    <3> QED BY <1>4, <1>5, <1>10, <1>12, <2>1, <3>1
  <2>3. n = Len(entries) /\ z = Len(known)
    BY DEF n, z
  <2>4. OwnMissing(d) = Above(Ceil(d, Interval), own)
    BY <1>9
  <2> HIDE DEF had, own, both
  <2> QED BY <1>12, <2>2, <2>3, <2>4
<1>14. CASE k < a
  <2>1. j = 0
    <3>1. CASE size > 0
      <4>1. 1 \in 1..size /\ a + 1 > k
        BY <1>5, <1>15, <1>14, <3>1
      <4> QED BY <1>8, <1>11, <4>1
    <3> QED BY <1>5, <1>8, <3>1
  <2>2. size = Limit
    <3>1. a \in 1..z /\ a > k
      BY <1>2, <1>3, <1>15, <1>14
    <3>2. known[a].timestamp >= start
      BY <1>15, <3>1
    <3>3. ~(known[a].timestamp < copied - Month)
      BY <1>1, <1>2, <3>1, <3>2 DEF start
    <3> QED BY <1>3, <1>15, <3>1, <3>3
  <2>3. had > Limit /\ CopyMissing(d) = Above(Ceil(d, Interval), Limit)
    <3>1. size - j = Limit
      BY <1>4, <2>1, <2>2
    <3>2. had > size
      BY <1>2, <1>3, <1>15, <1>14
    <3> HIDE DEF had, size
    <3> QED BY <1>10, <2>2, <3>1, <3>2
  <2>4. n = Len(entries) /\ z = Len(known)
    BY DEF n, z
  <2>5. OwnMissing(d) = Above(Ceil(d, Interval), own)
    BY <1>9
  <2> HIDE DEF had, own, both
  <2> QED BY <1>12, <2>3, <2>4, <2>5, Zenon
<1> QED BY <1>5, <1>13, <1>14, <1>15

\* handleNodeUptime and materialisePeerSnapshot agree on a copy of this moment, but for
\* what the limits cut off, which is nothing if the aggregator's interval is no longer.
THEOREM CutCounts == CSpec => []CutCountsAsMissing
<1>1. ASSUME HistoryInv, CopyInv PROVE CutCountsAsMissing
  <2> SUFFICES ASSUME copied = now, known = entries, NEW d \in Windows
      PROVE  /\ CopyMissing(d) = Max({OwnMissing(d), CutMissing(d)})
             /\ aggregator.interval <= Interval => CopyMissing(d) = OwnMissing(d)
    BY DEF CutCountsAsMissing
  <2> DEFINE due == Ceil(d, Interval)
  <2>1. copied # None /\ Len(entries) \in Nat /\ d \in 0..Month
    BY <1>1, TimesOf, ClusterUptimeAssumption DEF HistoryInv, None
  <2>2. due \in Nat /\ Limit \in Nat
    <3>1. d \in Nat /\ Interval \in Nat \ {0}
      BY <2>1, WindowAssumption, ConfigurationAssumption
    <3> QED BY <1>1, <3>1, Division, Limits DEF CopyInv
  <2>3. aggregator.interval <= Interval => due <= Limit
    BY <1>1, <2>1, Limits DEF CopyInv
  <2>4. CutMissing(d) = IF 0 >= due - Limit THEN 0 ELSE due - Limit
    BY <2>2, MaxOfTwo DEF CutMissing
  <2>5. PICK own \in Nat, had \in Nat, both \in Nat :
          /\ OwnMissing(d) = Above(due, own)
          /\ \/ had <= Limit /\ CopyMissing(d) = Above(due, had)
             \/ had > Limit /\ CopyMissing(d) = Above(due, Limit)
          /\ both <= own /\ own <= both + (Len(entries) - Kept)
          /\ both <= had /\ had <= both + (Len(known) - Kept)
    BY <1>1, <2>1, Counted
  <2> HIDE DEF due
  <2>6. had = own
    <3>1. Kept = Len(entries) /\ Len(known) = Len(entries)
      BY <1>1, WhatIsKept DEF HistoryInv
    <3> QED BY <2>1, <2>5, <3>1
  <2>7. Max({OwnMissing(d), CutMissing(d)})
          = IF OwnMissing(d) >= CutMissing(d) THEN OwnMissing(d) ELSE CutMissing(d)
    BY <2>2, <2>4, <2>5, MaxOfTwo DEF Above
  <2>8. OwnMissing(d) = (IF due > own THEN due - own ELSE 0)
    BY <2>5 DEF Above
  <2>9. \/ own <= Limit /\ CopyMissing(d) = (IF due > own THEN due - own ELSE 0)
        \/ own > Limit /\ CopyMissing(d) = (IF due > Limit THEN due - Limit ELSE 0)
    BY <2>5, <2>6 DEF Above
  <2>10. own \in Nat
    OBVIOUS
  <2> QED BY <2>2, <2>3, <2>4, <2>7, <2>8, <2>9, <2>10
<1> QED
  BY <1>1, CopyInvariant, PTL

\* What an older copy shows differs from what the node shows by no more than what the
\* node has lost since, what it has added since, and what was cut off.
THEOREM OldCopyMisses == CSpec => []OldCopyMissesNewEntries
<1>1. ASSUME HistoryInv, CopyInv PROVE OldCopyMissesNewEntries
  <2> SUFFICES ASSUME copied # None, NEW d \in Windows
      PROVE  /\ CopyMissing(d) >= OwnMissing(d) - (Len(known) - Kept)
             /\ CopyMissing(d) <= Max({OwnMissing(d), CutMissing(d)}) + (Len(entries) - Kept)
    BY DEF OldCopyMissesNewEntries
  <2> DEFINE due == Ceil(d, Interval)
  <2>1. d \in Nat /\ Interval \in Nat \ {0}
    BY ClusterUptimeAssumption, WindowAssumption, ConfigurationAssumption
  <2>2. due \in Nat /\ Limit \in Nat
    BY <1>1, <2>1, Division, Limits DEF CopyInv
  <2>3. CutMissing(d) = IF 0 >= due - Limit THEN 0 ELSE due - Limit
    BY <2>2, MaxOfTwo DEF CutMissing
  <2>4. PICK own \in Nat, had \in Nat, both \in Nat :
          /\ OwnMissing(d) = Above(due, own)
          /\ \/ had <= Limit /\ CopyMissing(d) = Above(due, had)
             \/ had > Limit /\ CopyMissing(d) = Above(due, Limit)
          /\ both <= own /\ own <= both + (Len(entries) - Kept)
          /\ both <= had /\ had <= both + (Len(known) - Kept)
    BY <1>1, Counted
  <2>5. /\ Len(known) - Kept \in Nat /\ Len(entries) - Kept \in Nat
    <3>1. known \in Seq(Rounds) /\ entries \in Seq(Rounds)
      BY <1>1 DEF HistoryInv, CopyInv
    <3>2. Len(known) \in Nat /\ Len(entries) \in Nat
      BY <3>1, TimesOf
    <3> QED BY <3>1, <3>2, WhatIsKept
  <2>6. PICK gone \in Nat, new \in Nat : gone = Len(known) - Kept /\ new = Len(entries) - Kept
    BY <2>5
  <2> HIDE DEF due
  <2>7. Max({OwnMissing(d), CutMissing(d)})
          = IF OwnMissing(d) >= CutMissing(d) THEN OwnMissing(d) ELSE CutMissing(d)
    BY <2>2, <2>3, <2>4, MaxOfTwo DEF Above
  <2>8. OwnMissing(d) = (IF due > own THEN due - own ELSE 0)
    BY <2>4 DEF Above
  <2>9. \/ had <= Limit /\ CopyMissing(d) = (IF due > had THEN due - had ELSE 0)
        \/ had > Limit /\ CopyMissing(d) = (IF due > Limit THEN due - Limit ELSE 0)
    BY <2>4 DEF Above
  <2>10. own \in Nat /\ had \in Nat /\ own <= had + new /\ had <= own + gone
    BY <2>4, <2>6
  <2> QED BY <2>2, <2>3, <2>6, <2>7, <2>8, <2>9, <2>10
<1> QED
  BY <1>1, CopyInvariant, PTL

-----------------------------------------------------------------------------
(* The lives of the process.                                               *)

\* Ticks are an interval apart.
LEMMA TickNext ==
  ASSUME NEW f \in Nat, NEW k \in Nat
  PROVE  /\ Tick(f, k) \in Nat
         /\ Tick(f, k + 1) = Tick(f, k) + Interval
         /\ Tick(f, 0) = f
         /\ f <= Tick(f, k)
<1>1. Interval \in Nat \ {0}
  BY WindowAssumption
<1>2. k * Interval \in Nat /\ (k + 1) * Interval = k * Interval + Interval
  BY <1>1
<1> QED BY <1>1, <1>2 DEF Tick

\* What a process has made it has made of a longer history too.
LEMMA MadeStays ==
  ASSUME NEW s, NEW r, NEW from, NEW to, NEW b \in Nat, NEW c \in Nat, NEW f,
         Made(s, from, to, b, c, f), NEW n \in Nat, c <= n,
         \A i \in 1..n : r[i] = s[i]
  PROVE  Made(r, from, to, b, c, f)
<1>1. b < c => b + 1 \in 1..n
  OBVIOUS
<1>2. \A k \in 1..(c - b - 1) : b + 1 + k \in 1..n
  OBVIOUS
<1> QED BY <1>1, <1>2 DEF Made

\* A process that has begun its first round.
LEMMA StartKeeps ==
  ASSUME HistoryInv, NEW s \in Seq(Rounds), Lived(s), Start
  PROVE  Lived(s)'
<1>l. PICK n \in Nat : \E made \in [0..n -> Nat], first \in [1..n -> Nat] :
        Past(s, n, made, first) /\ Present(n, made, first)
  BY DEF Lived
<1>n. PICK made \in [0..n -> Nat], first \in [1..n -> Nat] :
        Past(s, n, made, first) /\ Present(n, made, first)
  BY <1>l
<1>t. PICK t, life : t = now /\ life = [from |-> t, to |-> None]
  OBVIOUS
<1>1. /\ ~Up /\ lives' = Append(lives, life) /\ round' = now
      /\ now' = now /\ ticker' = ticker /\ tick' = tick
  BY <1>t DEF Start
<1>3. /\ n = Len(lives) /\ lives \in Seq(Life) /\ life \in Life /\ now \in Nat
      /\ Len(s) \in Nat
      /\ \A i \in 1..n : lives[i] \in Life
  BY <1>n, <1>t, LenProperties, ElementOfSeq DEF Lived, HistoryInv, Life, Past
<1>4. /\ lives' \in Seq(Life) /\ Len(lives') = n + 1
      /\ \A i \in 1..n : lives'[i] = lives[i]
      /\ lives'[n + 1] = life
  BY <1>n, <1>1, <1>3, AppendProperties
<1>5. /\ made \in [0..n -> Nat] /\ first \in [1..n -> Nat]
      /\ made[0] = 0 /\ made[n] = Len(s)
      /\ round = None /\ ticker = None /\ ~tick
  BY <1>n, <1>1 DEF Past, Present
<1> DEFINE mm == [i \in 0..(n + 1) |-> IF i = n + 1 THEN made[n] ELSE made[i]]
           ff == [i \in 1..(n + 1) |-> IF i = n + 1 THEN t ELSE first[i]]
<1>6. PICK m \in [0..(n + 1) -> Nat], f \in [1..(n + 1) -> Nat] :
        /\ m[0] = 0 /\ m[n + 1] = Len(s) /\ m[n] = Len(s)
        /\ \A i \in 0..n : m[i] = made[i]
        /\ f[n + 1] = t
        /\ \A i \in 1..n : f[i] = first[i]
  <2>1. mm \in [0..(n + 1) -> Nat] /\ ff \in [1..(n + 1) -> Nat]
    <3>1. \A i \in 0..(n + 1) : i = n + 1 \/ i \in 0..n
      BY <1>3
    <3>2. \A i \in 1..(n + 1) : i = n + 1 \/ i \in 1..n
      BY <1>3
    <3>3. made[n] \in Nat /\ t \in Nat
      BY <1>t, <1>3, <1>5
    <3>4. mm \in [0..(n + 1) -> Nat]
      BY <1>5, <3>1, <3>3
    <3>5. ff \in [1..(n + 1) -> Nat]
      BY <1>5, <3>2, <3>3
    <3> QED BY <3>4, <3>5
  <2>2. /\ mm[0] = 0 /\ mm[n + 1] = Len(s) /\ mm[n] = Len(s)
        /\ \A i \in 0..n : mm[i] = made[i]
    BY <1>3, <1>5
  <2>3. ff[n + 1] = t /\ \A i \in 1..n : ff[i] = first[i]
    BY <1>3
  <2> HIDE DEF mm, ff
  <2> QED BY <2>1, <2>2, <2>3
<1> HIDE DEF mm, ff
<1>7. EndOf(life)' = now /\ life.from = now /\ life.to = None
  BY <1>t, <1>1 DEF EndOf
<1>8. ASSUME NEW i \in 1..n
      PROVE  /\ m[i - 1] <= m[i] /\ m[i] <= Len(s)
             /\ Made(s, lives[i].from, EndOf(lives[i]), m[i - 1], m[i], f[i])
             /\ lives'[i] = lives[i]
             /\ EndOf(lives[i])' = EndOf(lives[i]) /\ EndOf(lives[i]) <= now
             /\ lives[i].to # None
             /\ i < n => /\ EndOf(lives[i]) <= lives[i + 1].from
                         /\ lives'[i + 1] = lives[i + 1]
  <2>3. i = n => lives[i].to # None
    BY <1>1, <1>3, <1>4, EmptySeq, <1>n DEF Up, Past
  <2>1. i - 1 \in 0..n /\ i \in 0..n /\ (i < n => i + 1 \in 1..n)
    BY <1>3
  <2>2. lives'[i] = lives[i] /\ EndOf(lives[i])' = EndOf(lives[i])
    BY <1>1, <1>4 DEF EndOf
  <2>4. i <= n /\ (i # n => i < n)
    BY <1>3
  <2> QED BY <1>n, <1>4, <1>6, <2>1, <2>2, <2>3, <2>4 DEF Past
<1>9. /\ m[n] <= m[n + 1]
      /\ Made(s, life.from, t, m[n], m[n + 1], f[n + 1])
      /\ Running(m[n + 1] - m[n], life.from, f[n + 1])'
  <2>1. m[n + 1] - m[n] = 0 /\ life.from = t /\ t + 0 <= t + MaxRound
    BY <1>t, <1>3, <1>6, WindowAssumption
  <2>2. Running(0, t, f[n + 1])'
    BY <1>t, <1>1, <1>3, <1>5, <2>1 DEF Running
  <2>3. Made(s, t, t, m[n], m[n + 1], f[n + 1])
    BY <1>t, <1>3, <1>6, WindowAssumption DEF Made
  <2> QED BY <1>3, <1>6, <2>1, <2>2, <2>3
<1>10. Up'
  BY <1>3, <1>4, <1>7, EmptySeq DEF Up
<1>11. Past(s, n + 1, m, f)'
  <2>1. /\ Len(lives') = n + 1 /\ n + 1 - 1 = n /\ n + 1 \in Nat
        /\ \A i \in 1..(n + 1) : i = n + 1 \/ i \in 1..n
    BY <1>3, <1>4
  <2>2. ASSUME NEW i \in 1..(n + 1)
        PROVE  /\ m[i - 1] <= m[i] /\ m[i] <= Len(s)
               /\ Made(s, lives'[i].from, EndOf(lives[i])', m[i - 1], m[i], f[i])
               /\ EndOf(lives[i])' <= now'
               /\ i < n + 1 => /\ lives'[i].to # None
                               /\ EndOf(lives[i])' <= lives'[i + 1].from
    <3>1. CASE i = n + 1
      <4>1. m[n] <= m[n + 1] /\ m[n + 1] <= Len(s)
        BY <1>3, <1>6
      <4>2. EndOf(lives[n + 1])' = EndOf(life)'
        BY <1>4 DEF EndOf
      <4>3. Made(s, life.from, EndOf(lives[i])', m[i - 1], m[i], f[i])
        BY <1>t, <1>7, <1>9, <2>1, <3>1, <4>2
      <4> QED BY <1>t, <1>1, <1>3, <1>4, <1>7, <2>1, <3>1, <4>1, <4>2, <4>3
    <3>2. CASE i \in 1..n
      <4>1. /\ m[i - 1] <= m[i] /\ m[i] <= Len(s)
            /\ Made(s, lives[i].from, EndOf(lives[i]), m[i - 1], m[i], f[i])
            /\ lives'[i] = lives[i] /\ EndOf(lives[i])' = EndOf(lives[i])
            /\ EndOf(lives[i]) <= now /\ lives[i].to # None
        BY <1>8, <3>2
      <4>2. ASSUME i < n + 1 PROVE EndOf(lives[i]) <= lives'[i + 1].from
        <5>1. CASE i = n
          BY <1>t, <1>4, <1>7, <4>1, <5>1
        <5>2. CASE i < n
          BY <1>8, <3>2, <5>2
        <5> QED BY <3>2, <5>1, <5>2
      <4> QED BY <1>1, <4>1, <4>2
    <3> QED BY <2>1, <3>1, <3>2
  <2> QED
    BY <1>1, <1>4, <1>6, <2>1, <2>2 DEF Past
<1>12. Present(n + 1, m, f)'
  BY <1>3, <1>4, <1>9, <1>10 DEF Present, Running
<1> QED
  <2>1. n + 1 \in Nat
    OBVIOUS
  <2> QED BY <1>4, <1>6, <1>11, <1>12, <2>1 DEF Lived

\* What the invariant says of the process that runs.
LEMMA TheProcess ==
  ASSUME HistoryInv, NEW s, lives \in Seq(Life), Up,
         NEW n \in Nat, NEW made \in [0..n -> Nat], NEW first \in [1..n -> Nat],
         Past(s, n, made, first), Present(n, made, first)
  PROVE  /\ n \in 1..n /\ n - 1 \in 0..n /\ n \in 0..n /\ n = Len(lives) /\ now \in Nat
         /\ lives[n].from \in Nat /\ lives[n].to = None /\ EndOf(lives[n]) = now
         /\ made[n - 1] \in Nat /\ made[n] \in Nat /\ made[n - 1] <= made[n]
         /\ made[n] = Len(s)
         /\ first[n] \in Nat
         /\ Made(s, lives[n].from, now, made[n - 1], made[n], first[n])
         /\ Running(made[n] - made[n - 1], lives[n].from, first[n])
<1>1. n = Len(lives) /\ lives # <<>> /\ lives[n].to = None /\ now \in Nat
  BY DEF Up, Past, HistoryInv
<1>2. n # 0
  BY <1>1, EmptySeq
<1>3. n \in 1..n /\ n - 1 \in 0..n /\ n \in 0..n
  BY <1>2
<1>4. lives[n] \in Life
  BY <1>1, <1>3, ElementOfSeq
<1>5. EndOf(lives[n]) = now
  BY <1>1 DEF EndOf
<1> QED BY <1>1, <1>3, <1>4, <1>5 DEF Past, Present, Life

\* A tick begins a round.
LEMMA BeginRoundKeeps ==
  ASSUME HistoryInv, NEW s \in Seq(Rounds), Lived(s), BeginRound
  PROVE  Lived(s)'
<1>1. PICK n \in Nat : \E made \in [0..n -> Nat], first \in [1..n -> Nat] :
        Past(s, n, made, first) /\ Present(n, made, first)
  BY DEF Lived
<1>2. PICK made \in [0..n -> Nat], first \in [1..n -> Nat] :
        Past(s, n, made, first) /\ Present(n, made, first)
  BY <1>1
<1>3. /\ lives \in Seq(Life) /\ Up /\ round = None /\ tick
      /\ tick' = FALSE /\ round' = now
      /\ now' = now /\ ticker' = ticker /\ lives' = lives
  BY DEF Lived, BeginRound
<1>4. Past(s, n, made, first)'
  BY <1>2, <1>3 DEF Past, EndOf
<1>5. Present(n, made, first)'
  <2>1. Running(made[n] - made[n - 1], lives[n].from, first[n])'
    <3>1. /\ Running(made[n] - made[n - 1], lives[n].from, first[n])
          /\ made[n - 1] \in Nat /\ made[n] \in Nat /\ made[n - 1] <= made[n] /\ now \in Nat
      BY <1>2, <1>3, TheProcess
    <3>2. now <= now + MaxRound
      BY <3>1, WindowAssumption
    <3> QED BY <1>3, <3>1, <3>2 DEF Running
  <2>2. Up'
    BY <1>3 DEF Up
  <2> QED BY <2>1, <2>2 DEF Present, Running
<1> QED BY <1>3, <1>4, <1>5 DEF Lived

\* A kill ends the life at this moment.
LEMMA KillKeeps ==
  ASSUME HistoryInv, NEW s \in Seq(Rounds), Lived(s), Kill
  PROVE  Lived(s)'
<1>1. PICK n \in Nat : \E made \in [0..n -> Nat], first \in [1..n -> Nat] :
        Past(s, n, made, first) /\ Present(n, made, first)
  BY DEF Lived
<1>2. PICK made \in [0..n -> Nat], first \in [1..n -> Nat] :
        Past(s, n, made, first) /\ Present(n, made, first)
  BY <1>1
<1>3. /\ lives \in Seq(Life) /\ Up
      /\ lives' = [lives EXCEPT ![Len(lives)].to = now]
      /\ round' = None /\ ticker' = None /\ tick' = FALSE
      /\ now' = now
  BY DEF Lived, Kill
<1>4. /\ n \in 1..n /\ n = Len(lives) /\ now \in Nat
      /\ lives[n] \in Life /\ lives[n].to = None /\ EndOf(lives[n]) = now
      /\ \A i \in 1..n : lives[i] \in Life
  BY <1>2, <1>3, TheProcess, ElementOfSeq
<1>5. PICK last : last = [lives[n] EXCEPT !.to = now]
  OBVIOUS
<1>6. last \in Life /\ last.from = lives[n].from /\ last.to = now
  BY <1>4, <1>5 DEF Life
<1>7. lives' = [lives EXCEPT ![n] = last]
  BY <1>3, <1>4, <1>5
<1>8. /\ lives' \in Seq(Life) /\ Len(lives') = n
      /\ \A i \in 1..n : lives'[i] = IF i = n THEN last ELSE lives[i]
  <2>1. lives \in Seq(Life) /\ n \in 1..Len(lives) /\ last \in Life /\ n = Len(lives)
    BY <1>3, <1>4, <1>6
  <2>2. /\ [lives EXCEPT ![n] = last] \in Seq(Life)
        /\ Len([lives EXCEPT ![n] = last]) = Len(lives)
        /\ \A i \in 1..Len(lives) :
             [lives EXCEPT ![n] = last][i] = IF i = n THEN last ELSE lives[i]
    BY <2>1, ExceptSeq
  <2> QED BY <1>7, <2>1, <2>2
<1>9. \A i \in 1..n : /\ EndOf(lives[i])' = EndOf(lives[i])
                      /\ lives'[i].from = lives[i].from
                      /\ lives'[i].to # None \/ lives'[i].to = lives[i].to
  <2> SUFFICES ASSUME NEW i \in 1..n
      PROVE  /\ EndOf(lives[i])' = EndOf(lives[i])
             /\ lives'[i].from = lives[i].from
             /\ lives'[i].to # None \/ lives'[i].to = lives[i].to
    OBVIOUS
  <2>1. CASE i = n
    BY <1>3, <1>4, <1>6, <1>8, <2>1 DEF EndOf, None
  <2>2. CASE i # n
    BY <1>3, <1>8, <2>2 DEF EndOf
  <2> QED BY <2>1, <2>2
<1>10. Past(s, n, made, first)'
  <2>1. \A i \in 1..n : i < n => i + 1 \in 1..n
    OBVIOUS
  <2> QED BY <1>2, <1>3, <1>8, <1>9, <2>1 DEF Past
<1>11. Present(n, made, first)'
  <2>1. ~Up'
    BY <1>4, <1>6, <1>8 DEF Up, None
  <2> QED BY <1>3, <2>1 DEF Present
<1> QED BY <1>8, <1>10, <1>11 DEF Lived

\* Time passes: the ticker ticks when it is due, and nothing waits.
LEMMA PassKeeps ==
  ASSUME HistoryInv, NEW s \in Seq(Rounds), Lived(s), Pass
  PROVE  Lived(s)'
<1>1. PICK n \in Nat : \E made \in [0..n -> Nat], first \in [1..n -> Nat] :
        Past(s, n, made, first) /\ Present(n, made, first)
  BY DEF Lived
<1>2. PICK made \in [0..n -> Nat], first \in [1..n -> Nat] :
        Past(s, n, made, first) /\ Present(n, made, first)
  BY <1>1
<1>3. /\ lives \in Seq(Life) /\ lives' = lives /\ round' = round
      /\ now \in Nat /\ now' = now + 1
      /\ ~(tick /\ round = None)
      /\ round # None => now - round < MaxRound
      /\ IF ticker = now + 1 THEN tick' = TRUE /\ ticker' = ticker + Interval
                             ELSE tick' = tick /\ ticker' = ticker
  BY DEF Lived, HistoryInv, Pass
<1>6. /\ n = Len(lives) /\ \A i \in 1..n : lives[i] \in Life
      /\ \A i \in 1..n : EndOf(lives[i]) <= now
  BY <1>2, <1>3, ElementOfSeq DEF Past
<1>4. CASE ~Up
  <2>1. round = None /\ ticker = None /\ ~tick
    BY <1>2, <1>4 DEF Present
  <2>2. ~Up' /\ round' = None /\ ticker' = None /\ ~tick'
    BY <1>3, <1>4, <2>1 DEF Up, None
  <2>3. Present(n, made, first)'
    BY <2>2 DEF Present
  <2>4. n = Len(lives) /\ (n # 0 => lives[n].to # None)
    BY <1>2, <1>3, <1>4, EmptySeq DEF Up, Past
  <2>5. ASSUME NEW i \in 1..n
        PROVE  /\ EndOf(lives[i])' = EndOf(lives[i]) /\ EndOf(lives[i]) <= now'
    <3>1. lives[i].to # None
      <4>1. i = n \/ i < n
        OBVIOUS
      <4> QED BY <1>2, <2>4, <4>1 DEF Past
    <3>2. lives[i].to \in Nat /\ EndOf(lives[i]) <= now
      BY <1>6, <3>1 DEF Life
    <3> QED BY <1>3, <3>1, <3>2 DEF EndOf
  <2>6. Past(s, n, made, first)'
    BY <1>2, <1>3, <2>5 DEF Past
  <2> QED BY <1>3, <2>3, <2>6 DEF Lived
<1>5. CASE Up
  <2>1. PICK m, from, f : m = made[n] - made[n - 1] /\ from = lives[n].from /\ f = first[n]
    OBVIOUS
  <2>2. /\ n \in 1..n /\ n = Len(lives)
        /\ from \in Nat /\ lives[n].to = None /\ EndOf(lives[n]) = now
        /\ made[n - 1] \in Nat /\ made[n] \in Nat /\ made[n - 1] <= made[n]
        /\ m \in Nat /\ f \in Nat
        /\ Made(s, from, now, made[n - 1], made[n], f)
        /\ Running(m, from, f)
    <3>1. /\ n \in 1..n /\ n = Len(lives) /\ lives[n].to = None /\ EndOf(lives[n]) = now
          /\ lives[n].from \in Nat /\ first[n] \in Nat
          /\ made[n - 1] \in Nat /\ made[n] \in Nat /\ made[n - 1] <= made[n]
          /\ Made(s, lives[n].from, now, made[n - 1], made[n], first[n])
          /\ Running(made[n] - made[n - 1], lives[n].from, first[n])
      BY <1>2, <1>3, <1>5, TheProcess
    <3> QED BY <2>1, <3>1
  <2>3. Interval \in Nat \ {0} /\ MaxRound \in Nat /\ MaxRound < Interval
    BY WindowAssumption
  <2>4. /\ Tick(f, m) \in Nat /\ Tick(f, m + 1) = Tick(f, m) + Interval
    BY <2>2, TickNext
  <2>5. now + 1 <= (IF m = 0 THEN from ELSE Tick(f, m)) + MaxRound
    <3>1. CASE m = 0
      <4>1. round = from /\ from # None /\ from \in Nat
        BY <2>2, <3>1 DEF Running, None
      <4> QED BY <1>3, <2>3, <3>1, <4>1
    <3>2. CASE m > 0 /\ round = None
      <4>1. ticker = Tick(f, m) /\ now < ticker
        BY <1>3, <2>2, <2>4, <3>2 DEF Running, None
      <4> QED BY <1>3, <2>3, <2>4, <3>2, <4>1
    <3>3. CASE m > 0 /\ round # None
      <4>1. round = Tick(f, m)
        BY <2>2, <3>3 DEF Running
      <4> QED BY <1>3, <2>3, <2>4, <3>3, <4>1
    <3> QED BY <2>2, <3>1, <3>2, <3>3
  <2>6. Running(m, from, f)'
    <3>1. CASE m = 0
      <4>1. ticker = None /\ ~tick /\ round = from
        BY <2>2, <3>1 DEF Running
      <4> QED BY <1>3, <2>2, <2>5, <3>1, <4>1 DEF Running, None
    <3>2. CASE m > 0 /\ round = None
      <4>1. ~tick /\ ticker = Tick(f, m) /\ now < ticker
        BY <1>3, <2>2, <2>4, <3>2 DEF Running, None
      <4> QED BY <1>3, <2>2, <2>4, <3>2, <4>1 DEF Running
    <3>3. CASE m > 0 /\ round # None
      <4>1. /\ round = Tick(f, m) /\ ~tick /\ ticker = Tick(f, m + 1) /\ round <= now
        BY <2>2, <3>3 DEF Running
      <4> QED BY <1>3, <2>3, <2>4, <2>5, <3>3, <4>1 DEF Running
    <3> QED BY <2>2, <3>1, <3>2, <3>3
  <2>7. Made(s, from, now + 1, made[n - 1], made[n], f)
    <3>1. made[n - 1] = made[n] => m = 0
      BY <2>1, <2>2
    <3>2. made[n - 1] < made[n] => m > 0 /\ m = made[n] - made[n - 1]
      BY <2>1, <2>2
    <3>3. made[n - 1] < made[n] => Tick(f, made[n] - made[n - 1] - 1) <= now + 1
      <4>1. ASSUME made[n - 1] < made[n]
            PROVE  /\ Tick(f, made[n] - made[n - 1] - 1) \in Nat
                   /\ Tick(f, made[n] - made[n - 1] - 1) <= now
        <5>1. made[n] - made[n - 1] - 1 \in Nat
          BY <2>2, <4>1
        <5> QED BY <2>2, <4>1, <5>1, TickNext DEF Made
      <4> QED BY <1>3, <4>1
    <3>4. from <= now + 1
      BY <1>3, <2>2 DEF Made
    <3> QED BY <2>2, <2>5, <3>1, <3>2, <3>3, <3>4 DEF Made
  <2>8. EndOf(lives[n])' = now + 1
    BY <1>3, <2>2 DEF EndOf
  <2>9. ASSUME NEW i \in 1..n, i # n
        PROVE  EndOf(lives[i])' = EndOf(lives[i]) /\ EndOf(lives[i]) <= now'
    <3>1. i < n
      BY <2>9
    <3>2. lives[i].to # None /\ lives[i].to \in Nat /\ EndOf(lives[i]) <= now
      <4>1. lives[i].to # None
        BY <1>2, <3>1 DEF Past
      <4> QED BY <1>6, <4>1 DEF Life
    <3> QED BY <1>3, <3>2 DEF EndOf
  <2>10. Past(s, n, made, first)'
    <3>1. ASSUME NEW i \in 1..n
          PROVE  /\ made[i - 1] <= made[i] /\ made[i] <= Len(s)
                 /\ Made(s, lives[i].from, EndOf(lives[i])', made[i - 1], made[i], first[i])
                 /\ EndOf(lives[i])' <= now'
                 /\ i < n => /\ lives[i].to # None
                             /\ EndOf(lives[i])' <= lives[i + 1].from
      <4>1. CASE i = n
        BY <1>2, <1>3, <2>1, <2>2, <2>7, <2>8, <4>1 DEF Past
      <4>2. CASE i # n
        BY <1>2, <2>9, <4>2 DEF Past
      <4> QED BY <4>1, <4>2
    <3> QED BY <1>2, <1>3, <3>1 DEF Past
  <2>11. Present(n, made, first)'
    <3>1. Up'
      BY <1>3, <1>5 DEF Up
    <3> QED BY <1>3, <2>1, <2>6, <3>1 DEF Present, Running
  <2> QED BY <1>3, <2>10, <2>11 DEF Lived
<1> QED BY <1>4, <1>5

\* The end of a round is the next entry, the end of the first one starts the ticker.
LEMMA FinishRoundKeeps ==
  ASSUME HistoryInv, NEW s \in Seq(Rounds), Ordered(s, Latest), Lived(s), FinishRound,
         NEW z, z = Append(s, RoundEntry(round))
  PROVE  Lived(z)'
<1>1. PICK n \in Nat : \E made \in [0..n -> Nat], first \in [1..n -> Nat] :
        Past(s, n, made, first) /\ Present(n, made, first)
  BY DEF Lived
<1>2. PICK made \in [0..n -> Nat], first \in [1..n -> Nat] :
        Past(s, n, made, first) /\ Present(n, made, first)
  BY <1>1
<1>3. /\ round # None /\ round \in 0..now /\ now \in Nat
      /\ s \in Seq(Rounds) /\ Ordered(s, round)
      /\ z = Append(s, RoundEntry(round)) /\ round' = None
      /\ ticker' = IF ticker = None THEN now + Interval ELSE ticker
      /\ now' = now /\ tick' = tick /\ lives' = lives /\ lives \in Seq(Life)
  BY DEF Lived, HistoryInv, FinishRound, Latest
<1>4. Up
  BY <1>2, <1>3 DEF Present
<1>5. PICK m, from, b, c : /\ b = made[n - 1] /\ c = made[n]
                           /\ m = c - b /\ from = lives[n].from
  OBVIOUS
<1>6. /\ n \in 1..n /\ n - 1 \in 0..n /\ n = Len(lives) /\ EndOf(lives[n]) = now
      /\ from \in Nat /\ first[n] \in Nat
      /\ b \in Nat /\ c \in Nat /\ b <= c /\ c = Len(s)
      /\ Made(s, from, now, b, c, first[n])
      /\ Running(m, from, first[n])
  <2>1. /\ n \in 1..n /\ n - 1 \in 0..n /\ n = Len(lives) /\ EndOf(lives[n]) = now
        /\ lives[n].from \in Nat /\ first[n] \in Nat
        /\ made[n - 1] \in Nat /\ made[n] \in Nat /\ made[n - 1] <= made[n]
        /\ made[n] = Len(s)
        /\ Made(s, lives[n].from, now, made[n - 1], made[n], first[n])
        /\ Running(made[n] - made[n - 1], lives[n].from, first[n])
    BY <1>2, <1>3, <1>4, TheProcess
  <2> QED BY <1>5, <2>1
<1>7. /\ z \in Seq(Rounds) /\ Len(z) = c + 1
      /\ \A i \in 1..c : z[i] = s[i]
      /\ z[c + 1].timestamp = round
  <2>1. z[Len(s) + 1] = RoundEntry(round) /\ round \in Nat
    BY <1>3, OrderedGrows
  <2>2. RoundEntry(round).timestamp = round
    BY DEF RoundEntry
  <2> QED BY <1>3, <1>6, <2>1, <2>2, OrderedGrows
<1>16. m = c - b /\ m \in Nat /\ (m > 0 <=> b < c) /\ (m = 0 <=> b = c)
  <2>1. m = c - b /\ b \in Nat /\ c \in Nat /\ b <= c
    BY <1>5, <1>6
  <2> QED BY <2>1
<1>8. Interval \in Nat \ {0} /\ MaxRound \in Nat /\ MaxRound < Interval /\ m \in Nat
  BY <1>5, <1>6, WindowAssumption
<1> DEFINE f == IF m = 0 THEN now ELSE first[n]
<1>9. f \in Nat
  BY <1>3, <1>6
\* The time of the entry, and of the next tick.
<1>10. /\ m > 0 => round = Tick(f, m)
       /\ m = 0 => round = from
       /\ Tick(f, m) <= now /\ now <= Tick(f, m) + MaxRound
       /\ from <= f /\ f <= from + MaxRound
       /\ ticker' = Tick(f, m + 1) /\ now < ticker' /\ ~tick'
       /\ Tick(f, m + 1) \in Nat
  <2>1. Tick(f, m) \in Nat /\ Tick(f, m + 1) = Tick(f, m) + Interval /\ Tick(f, 0) = f
    BY <1>8, <1>9, TickNext
  <2>2. CASE m = 0
    <3>1. round = from /\ now <= from + MaxRound /\ ticker = None /\ ~tick /\ f = now
      BY <1>3, <1>6, <2>2 DEF Running
    <3> HIDE DEF f
    <3> QED BY <1>3, <1>6, <1>8, <2>1, <2>2, <3>1
  <2>3. CASE m > 0
    <3>1. f = first[n]
      BY <2>3
    <3> HIDE DEF f
    <3>2. /\ round = Tick(f, m) /\ ~tick /\ ticker = Tick(f, m + 1)
          /\ round <= now /\ now <= round + MaxRound
      BY <1>3, <1>6, <2>3, <3>1 DEF Running
    <3>3. from <= f /\ f <= from + MaxRound
      BY <1>5, <1>6, <2>3, <3>1 DEF Made
    <3> QED BY <1>3, <1>8, <2>1, <2>3, <3>2, <3>3 DEF None
  <2> QED BY <1>8, <2>2, <2>3
<1>11. Made(z, from, now, b, c + 1, f)
  <2>1. z[b + 1].timestamp = from
    <3>1. CASE m = 0
      BY <1>7, <1>10, <1>16, <3>1
    <3>2. CASE m > 0
      <4>1. b < c /\ b + 1 \in 1..c
        BY <1>6, <1>16, <3>2
      <4> QED BY <1>6, <1>7, <4>1 DEF Made
    <3>3. m = 0 \/ m > 0
      BY <1>16
    <3> QED BY <3>1, <3>2, <3>3
  <2>2. ASSUME NEW k \in 1..((c + 1) - b - 1)
        PROVE  z[b + 1 + k].timestamp = Tick(f, k)
    <3>1. m > 0 /\ k \in Nat /\ k <= m
      BY <1>6, <1>16
    <3>2. CASE k = m
      <4>1. b + 1 + k = c + 1
        BY <1>6, <1>16, <3>2
      <4> HIDE DEF f
      <4> QED BY <1>7, <1>10, <3>1, <3>2, <4>1
    <3>3. CASE k # m
      <4>1. k \in 1..(c - b - 1) /\ b + 1 + k \in 1..c /\ b < c /\ f = first[n]
        BY <1>6, <1>16, <3>1, <3>3
      <4> HIDE DEF f
      <4>2. s[b + 1 + k].timestamp = Tick(f, k)
        BY <1>6, <4>1 DEF Made
      <4> QED BY <1>7, <4>1, <4>2
    <3> QED BY <3>2, <3>3
  <2>3. (c + 1) - b - 1 = m /\ (c + 1) - b = m + 1 /\ b < c + 1 /\ ~(b = c + 1)
    BY <1>6, <1>16
  <2>4. from <= now /\ now <= Tick(f, m + 1) + MaxRound
    <3> HIDE DEF f
    <3> QED BY <1>3, <1>6, <1>8, <1>10 DEF Made
  <2> HIDE DEF f
  <2> QED BY <1>10, <2>1, <2>2, <2>3, <2>4 DEF Made
<1> DEFINE mm == [made EXCEPT ![n] = c + 1]
           ff == [first EXCEPT ![n] = f]
<1>12. /\ mm \in [0..n -> Nat] /\ ff \in [1..n -> Nat]
       /\ mm[n] = c + 1 /\ mm[n - 1] = b /\ ff[n] = f
       /\ \A i \in 1..n : i # n => mm[i] = made[i] /\ mm[i - 1] = made[i - 1] /\ ff[i] = first[i]
       /\ mm[0] = 0
  <2>1. 0 # n /\ n - 1 # n /\ n \in 0..n /\ \A i \in 1..n : i \in 0..n /\ i - 1 \in 0..n /\ i - 1 # n
    BY <1>6
  <2>2. made[0] = 0
    BY <1>2 DEF Past
  <2> HIDE DEF f
  <2> QED BY <1>5, <1>6, <1>9, <2>1, <2>2
<1> HIDE DEF mm, ff, f
<1>13. PICK r \in [0..n -> Nat], g \in [1..n -> Nat], t \in Nat :
         /\ r[n] = c + 1 /\ r[n - 1] = b /\ g[n] = t /\ t = f
         /\ \A i \in 1..n : i # n => r[i] = made[i] /\ r[i - 1] = made[i - 1] /\ g[i] = first[i]
         /\ r[0] = 0
  BY <1>9, <1>12
<1>14. Past(z, n, r, g)'
  <2>1. ASSUME NEW i \in 1..n
        PROVE  /\ r[i - 1] <= r[i] /\ r[i] <= c + 1
               /\ Made(z, lives[i].from, EndOf(lives[i])', r[i - 1], r[i], g[i])
               /\ EndOf(lives[i])' <= now
               /\ i < n => lives[i].to # None /\ EndOf(lives[i])' <= lives[i + 1].from
    <3>1. EndOf(lives[i])' = EndOf(lives[i])
      BY <1>3 DEF EndOf
    <3>2. CASE i = n
      <4>1. b <= c + 1 /\ c + 1 <= c + 1 /\ now <= now
        BY <1>3, <1>6
      <4>2. Made(z, lives[n].from, EndOf(lives[n]), r[n - 1], r[n], g[n])
        BY <1>5, <1>6, <1>11, <1>13
      <4> QED BY <1>6, <1>13, <3>1, <3>2, <4>1, <4>2
    <3>3. CASE i # n
      <4>1. /\ made[i - 1] <= made[i]
            /\ Made(s, lives[i].from, EndOf(lives[i]), made[i - 1], made[i], first[i])
            /\ EndOf(lives[i]) <= now
            /\ i < n => lives[i].to # None /\ EndOf(lives[i]) <= lives[i + 1].from
        BY <1>2 DEF Past
      <4>2. made[i - 1] \in Nat /\ made[i] \in Nat /\ made[i] <= c /\ made[i] <= c + 1
        <5>1. i - 1 \in 0..n /\ i \in 0..n
          BY <1>6
        <5>2. made[i] <= Len(s)
          BY <1>2 DEF Past
        <5>3. made[i - 1] \in Nat /\ made[i] \in Nat
          BY <5>1
        <5>4. c = Len(s) /\ c \in Nat
          BY <1>6
        <5> QED BY <5>2, <5>3, <5>4
      <4>3. Made(z, lives[i].from, EndOf(lives[i]), made[i - 1], made[i], first[i])
        BY <1>6, <1>7, <4>1, <4>2, MadeStays
      <4> QED BY <1>13, <3>1, <3>3, <4>1, <4>2, <4>3
    <3> QED BY <3>2, <3>3
  <2> QED BY <1>3, <1>6, <1>7, <1>13, <2>1 DEF Past
<1>15. Present(n, r, g)'
  <2>1. Up'
    BY <1>3, <1>4 DEF Up
  <2>2. r[n] - r[n - 1] = m + 1 /\ m + 1 > 0 /\ g[n] = f
    BY <1>5, <1>6, <1>8, <1>13
  <2> QED BY <1>3, <1>10, <2>1, <2>2 DEF Present, Running
<1> QED BY <1>3, <1>14, <1>15 DEF Lived

-----------------------------------------------------------------------------
(* What becomes of the entries.                                            *)

\* Entries can be counted.
LEMMA SinceFinite ==
  ASSUME NEW s \in Seq(Rounds), NEW t
  PROVE  IsFiniteSet(Since(s, t)) /\ Cardinality(Since(s, t)) \in Nat
<1>1. Len(s) \in Int /\ 1 \in Int
  BY TimesOf
<1>2. IsFiniteSet(1..Len(s)) /\ Since(s, t) \in SUBSET (1..Len(s))
  BY <1>1, FS_Interval DEF Since
<1>3. IsFiniteSet(Since(s, t))
  BY <1>2, FS_Subset
<1> QED BY <1>3, FS_CardinalityType

\* An entry more is one more to count, for the times it is not before.
LEMMA SinceGrows ==
  ASSUME NEW s \in Seq(Rounds), NEW e \in Rounds, NEW t
  PROVE  Cardinality(Since(Append(s, e), t)) =
           Cardinality(Since(s, t)) + (IF e.timestamp >= t THEN 1 ELSE 0)
<1> DEFINE r == Append(s, e)
           n == Len(s)
<1>1. /\ n \in Nat /\ Len(r) = n + 1
      /\ \A i \in 1..n : r[i] = s[i]
      /\ r[n + 1] = e
  BY TimesOf, AppendProperties
<1> HIDE DEF r, n
<1>2. /\ IsFiniteSet(Since(s, t)) /\ Cardinality(Since(s, t)) \in Nat
      /\ Since(s, t) = {i \in 1..n : s[i].timestamp >= t}
      /\ Since(r, t) = {i \in 1..(n + 1) : r[i].timestamp >= t}
  BY <1>1, SinceFinite DEF Since, n
<1>3. CASE e.timestamp >= t
  <2>1. n + 1 \notin Since(s, t)
    BY <1>1, <1>2
  <2>2. Since(r, t) = Since(s, t) \cup {n + 1}
    BY <1>1, <1>2, <1>3
  <2>3. Cardinality(Since(s, t) \cup {n + 1}) = Cardinality(Since(s, t)) + 1
    BY <1>2, <2>1, FS_AddElement
  <2> QED BY <1>3, <2>2, <2>3 DEF r
<1>4. CASE ~(e.timestamp >= t)
  <2>1. Since(r, t) = Since(s, t)
    BY <1>1, <1>2, <1>4
  <2>2. PICK c \in Nat : c = Cardinality(Since(s, t))
    BY <1>2
  <2>3. Cardinality(Since(r, t)) = c
    BY <2>1, <2>2
  <2>4. c = c + 0
    OBVIOUS
  <2> QED BY <1>4, <2>2, <2>3, <2>4 DEF r
<1> QED BY <1>3, <1>4

\* Of two histories, one after the other, each has its entries to count.
LEMMA SinceJoins ==
  ASSUME NEW a \in Seq(Rounds), NEW b \in Seq(Rounds), NEW t
  PROVE  Cardinality(Since(a \o b, t)) = Cardinality(Since(a, t)) + Cardinality(Since(b, t))
<1> DEFINE r == a \o b
           m == Len(a)
           n == Len(b)
           A == Since(a, t)
           B == Since(b, t)
           C == {i \in (m + 1)..(m + n) : b[i - m].timestamp >= t}
<1>1. /\ m \in Nat /\ n \in Nat /\ Len(r) = m + n
      /\ \A i \in 1..(m + n) : r[i] = IF i <= m THEN a[i] ELSE b[i - m]
  BY TimesOf, ConcatProperties
<1> HIDE DEF r
<1>2. /\ A = {i \in 1..m : a[i].timestamp >= t}
      /\ B = {i \in 1..n : b[i].timestamp >= t}
      /\ Since(r, t) = {i \in 1..(m + n) : r[i].timestamp >= t}
  BY <1>1 DEF Since
<1>3. IsFiniteSet(A) /\ Cardinality(A) \in Nat /\ IsFiniteSet(B) /\ Cardinality(B) \in Nat
  BY SinceFinite
<1> HIDE DEF m, n, A, B
<1>4. Since(r, t) = A \cup C
  <2>1. ASSUME NEW i PROVE i \in Since(r, t) <=> i \in A \cup C
    <3>1. CASE i \in 1..m
      BY <1>1, <1>2, <3>1
    <3>2. CASE i \in (m + 1)..(m + n)
      BY <1>1, <1>2, <3>2
    <3>3. CASE i \notin 1..m /\ i \notin (m + 1)..(m + n)
      BY <1>1, <1>2, <3>3
    <3> QED BY <3>1, <3>2, <3>3
  <2> HIDE DEF C
  <2> QED BY <2>1
<1>5. A \cap C = {}
  BY <1>1, <1>2
<1>6. IsFiniteSet(C) /\ Cardinality(C) = Cardinality(B)
  <2> DEFINE f == [i \in B |-> i + m]
  <2>1. f \in [B -> C]
    BY <1>1, <1>2
  <2>2. \A i, j \in B : f[i] = f[j] => i = j
    BY <1>1, <1>2
  <2>3. \A j \in C : \E i \in B : f[i] = j
    <3> SUFFICES ASSUME NEW j \in C PROVE \E i \in B : f[i] = j
      OBVIOUS
    <3>1. j - m \in B /\ (j - m) + m = j
      BY <1>1, <1>2
    <3> QED BY <3>1
  <2> HIDE DEF f, C
  <2>4. f \in Bijection(B, C)
    BY <2>1, <2>2, <2>3 DEF Bijection, Injection, Surjection, IsInjective
  <2>5. ExistsBijection(B, C)
    BY <2>4 DEF ExistsBijection
  <2> QED BY <1>3, <2>5, FS_Bijection
<1> HIDE DEF C
<1>7. Cardinality(A \cup C) = Cardinality(A) + Cardinality(C) - Cardinality(A \cap C)
  BY <1>3, <1>6, FS_Union
<1>8. Cardinality(A \cap C) = 0
  BY <1>5, FS_EmptySet
<1> QED BY <1>3, <1>4, <1>6, <1>7, <1>8 DEF r, A, B

\* A history cut in two.
LEMMA SinceSplits ==
  ASSUME NEW s \in Seq(Rounds), NEW b \in 0..Len(s)
  PROVE  LET head == SubSeq(s, 1, b)
             tail == SubSeq(s, b + 1, Len(s))
         IN  /\ head \in Seq(Rounds) /\ tail \in Seq(Rounds)
             /\ \A t : Cardinality(Since(s, t)) =
                         Cardinality(Since(head, t)) + Cardinality(Since(tail, t))
<1> DEFINE head == SubSeq(s, 1, b)
           tail == SubSeq(s, b + 1, Len(s))
           n == Len(s)
<1>1. n \in Nat /\ b \in Nat /\ b <= n /\ n <= n
  BY TimesOf
<1>2. head \in Seq(Rounds) /\ Len(head) = b /\ \A i \in 1..b : head[i] = s[i]
  BY Beginning
<1>3. Part(tail, s, b, n)
  BY <1>1, SubSeqIsPart
<1> HIDE DEF head, tail, n
<1>4. tail \in Seq(Rounds) /\ Len(tail) = n - b /\ \A i \in 1..(n - b) : tail[i] = s[b + i]
  BY <1>3 DEF Part
<1>5. /\ head \o tail \in Seq(Rounds) /\ Len(head \o tail) = Len(head) + Len(tail)
      /\ \A i \in 1..(Len(head) + Len(tail)) :
           (head \o tail)[i] = IF i <= Len(head) THEN head[i] ELSE tail[i - Len(head)]
  BY <1>2, <1>4, ConcatProperties
<1>6. Len(head \o tail) = n
  BY <1>1, <1>2, <1>4, <1>5
<1>7. ASSUME NEW i \in 1..n PROVE (head \o tail)[i] = s[i]
  <2>1. (head \o tail)[i] = IF i <= b THEN head[i] ELSE tail[i - b]
    BY <1>1, <1>2, <1>4, <1>5
  <2>2. CASE i <= b
    <3>1. i \in 1..b
      BY <1>1, <2>2
    <3> QED BY <1>2, <2>1, <2>2, <3>1
  <2>3. CASE ~(i <= b)
    <3>1. i - b \in 1..(n - b) /\ b + (i - b) = i
      BY <1>1, <2>3
    <3> QED BY <1>4, <2>1, <2>3, <3>1
  <2> QED BY <2>2, <2>3
<1>8. head \o tail = s
  <2>1. Len(head \o tail) = Len(s) /\ \A i \in 1..Len(head \o tail) : (head \o tail)[i] = s[i]
    BY <1>6, <1>7 DEF n
  <2> QED BY <1>5, <2>1, SeqEqual
<1>9. \A t : Cardinality(Since(s, t)) = Cardinality(Since(head, t)) + Cardinality(Since(tail, t))
  BY <1>2, <1>4, <1>8, SinceJoins
<1> QED BY <1>2, <1>4, <1>9 DEF head, tail, n

\* The entries from a time on, when they are those after the k-th.
LEMMA SinceIsEnd ==
  ASSUME NEW s \in Seq(Rounds), NEW t, NEW k \in 0..Len(s),
         \A i \in 1..Len(s) : s[i].timestamp >= t <=> i > k
  PROVE  Cardinality(Since(s, t)) = Len(s) - k
<1> DEFINE n == Len(s)
<1>1. n \in Nat /\ k \in Nat /\ k <= n
  BY TimesOf
<1>2. Since(s, t) = (k + 1)..n
  <2>1. Since(s, t) = {i \in 1..n : i > k}
    BY DEF Since
  <2> HIDE DEF n
  <2> QED BY <1>1, <2>1
<1> HIDE DEF n
<1>3. k + 1 \in Int /\ n \in Int
  BY <1>1
<1>4. Cardinality((k + 1)..n) = IF k + 1 > n THEN 0 ELSE n - (k + 1) + 1
  BY <1>3, FS_Interval
<1> QED BY <1>1, <1>2, <1>4 DEF n

\* Whatever happens, the entries are those of the lives.
LEMMA LivesStep == HistoryInv /\ LivesInv /\ [Next]_vars => LivesInv'
<1> SUFFICES ASSUME HistoryInv, LivesInv, [Next]_vars PROVE LivesInv'
  OBVIOUS
<1>1. PICK s \in Seq(Rounds) : Ordered(s, Latest) /\ Lived(s) /\ Accounted(s)
  BY DEF LivesInv
<1>2. /\ now \in Nat /\ entries \in Seq(Rounds) /\ lost \in Seq(Rounds)
      /\ saved \in 0..Len(entries)
      /\ round = None \/ round \in 0..now
      /\ Latest \in Nat /\ Latest <= now
  BY DEF HistoryInv, LivesInv, Latest
\* Steps that make no entry.
<1>3. ASSUME lost' \in Seq(Rounds), Latest' \in Nat, Latest <= Latest', Lived(s)', Accounted(s)'
      PROVE  LivesInv'
  <2>1. Ordered(s, Latest')
    BY <1>1, <1>2, <1>3, OrderedLater
  <2>2. Ordered(s, Latest)'
    BY <2>1 DEF Ordered
  <2> QED BY <1>3, <2>2 DEF LivesInv
<1>4. ASSUME entries' = entries, lost' = lost PROVE Accounted(s)' /\ lost' \in Seq(Rounds)
  BY <1>1, <1>2, <1>4 DEF Accounted
<1>5. CASE Start
  <2>1. /\ entries' = entries /\ lost' = lost /\ now' = now /\ round' = now
    BY <1>5 DEF Start
  <2>2. Latest' = now
    BY <1>2, <2>1 DEF Latest, None
  <2>3. Lived(s)'
    BY <1>1, <1>5, StartKeeps
  <2> QED BY <1>2, <1>3, <1>4, <2>1, <2>2, <2>3
<1>6. CASE BeginRound
  <2>1. /\ entries' = entries /\ lost' = lost /\ now' = now /\ round' = now
    BY <1>6 DEF BeginRound
  <2>2. Latest' = now
    BY <1>2, <2>1 DEF Latest, None
  <2>3. Lived(s)'
    BY <1>1, <1>6, BeginRoundKeeps
  <2> QED BY <1>2, <1>3, <1>4, <2>1, <2>2, <2>3
<1>7. CASE Pass
  <2>1. /\ entries' = entries /\ lost' = lost /\ now' = now + 1 /\ round' = round
    BY <1>7 DEF Pass
  <2>2. Latest' \in Nat /\ Latest <= Latest'
    BY <1>2, <2>1 DEF Latest, None
  <2>3. Lived(s)'
    BY <1>1, <1>7, PassKeeps
  <2> QED BY <1>3, <1>4, <2>1, <2>2, <2>3
<1>8. CASE Kill
  <2>1. /\ now' = now /\ round' = None
        /\ entries' = SubSeq(entries, 1, saved)
        /\ lost' = lost \o SubSeq(entries, saved + 1, Len(entries))
    BY <1>8 DEF Kill
  <2>2. Latest' = now
    BY <2>1 DEF Latest
  <2>3. Lived(s)'
    BY <1>1, <1>8, KillKeeps
  <2>4. PICK tail : tail = SubSeq(entries, saved + 1, Len(entries))
    OBVIOUS
  <2>5. /\ entries' \in Seq(Rounds) /\ tail \in Seq(Rounds)
        /\ \A t : Cardinality(Since(entries, t)) =
                    Cardinality(Since(entries', t)) + Cardinality(Since(tail, t))
    BY <1>2, <2>1, <2>4, SinceSplits
  <2>6. lost' \in Seq(Rounds)
    BY <1>2, <2>1, <2>4, <2>5, ConcatProperties
  <2>7. ASSUME NEW t \in Nat
        PROVE  Cardinality(Since(s, t)) =
                 Cardinality(Since(entries', t)) + Cardinality(Since(lost', t))
    <3>1. Cardinality(Since(lost', t)) = Cardinality(Since(lost, t)) + Cardinality(Since(tail, t))
      BY <1>2, <2>1, <2>4, <2>5, SinceJoins
    <3>2. Cardinality(Since(s, t)) = Cardinality(Since(entries, t)) + Cardinality(Since(lost, t))
      BY <1>1 DEF Accounted
    <3>3. Cardinality(Since(entries, t)) =
            Cardinality(Since(entries', t)) + Cardinality(Since(tail, t))
      BY <2>5
    <3>4. /\ Cardinality(Since(lost, t)) \in Nat /\ Cardinality(Since(tail, t)) \in Nat
          /\ Cardinality(Since(entries', t)) \in Nat
      BY <1>2, <2>5, SinceFinite
    <3> QED BY <3>1, <3>2, <3>3, <3>4
  <2>8. Accounted(s)'
    BY <2>7 DEF Accounted
  <2> QED BY <1>2, <1>3, <2>2, <2>3, <2>6, <2>8
<1>9. CASE FinishRound
  <2>1. /\ now' = now /\ round' = None /\ lost' = lost
        /\ entries' = Append(entries, RoundEntry(round))
        /\ round \in 0..now /\ Latest = round
    BY <1>2, <1>9 DEF FinishRound, Latest
  <2>2. PICK e \in Rounds : e = RoundEntry(round)
    BY <1>2, <2>1 DEF Rounds
  <2>3. PICK z : z = Append(s, RoundEntry(round))
    OBVIOUS
  <2>4. z \in Seq(Rounds) /\ Ordered(z, round)
    BY <1>1, <1>2, <2>1, <2>3, OrderedGrows
  <2>5. Ordered(z, now) /\ Latest' = now
    <3>1. round \in Nat /\ round <= now
      BY <1>2, <2>1
    <3> QED BY <1>2, <2>1, <2>4, <3>1, OrderedLater DEF Latest
  <2>6. Lived(z)'
    BY <1>1, <1>9, <2>3, FinishRoundKeeps
  <2>7. ASSUME NEW t \in Nat
        PROVE  Cardinality(Since(z, t)) =
                 Cardinality(Since(entries', t)) + Cardinality(Since(lost', t))
    <3>1. PICK one \in Nat : one = IF e.timestamp >= t THEN 1 ELSE 0
      OBVIOUS
    <3>2. Cardinality(Since(z, t)) = Cardinality(Since(s, t)) + one
      BY <2>2, <2>3, <3>1, SinceGrows
    <3>3. Cardinality(Since(entries', t)) = Cardinality(Since(entries, t)) + one
      BY <1>2, <2>1, <2>2, <3>1, SinceGrows
    <3>4. Cardinality(Since(s, t)) = Cardinality(Since(entries, t)) + Cardinality(Since(lost, t))
      BY <1>1 DEF Accounted
    <3>5. Cardinality(Since(entries, t)) \in Nat /\ Cardinality(Since(lost, t)) \in Nat
      BY <1>2, SinceFinite
    <3> QED BY <2>1, <3>2, <3>3, <3>4, <3>5
  <2>8. Accounted(z)'
    BY <2>7 DEF Accounted
  <2>9. Ordered(z, Latest)'
    BY <2>5 DEF Ordered
  <2> QED BY <1>2, <2>1, <2>4, <2>6, <2>8, <2>9 DEF LivesInv
<1>10. CASE UNCHANGED vars
  <2>1. /\ now' = now /\ round' = round /\ ticker' = ticker /\ tick' = tick
        /\ entries' = entries /\ lost' = lost /\ lives' = lives
    BY <1>10 DEF vars
  <2>2. Latest' = Latest
    BY <2>1 DEF Latest
  <2>3. Lived(s)'
    <3>1. PICK n \in Nat : \E made \in [0..n -> Nat], first \in [1..n -> Nat] :
            Past(s, n, made, first) /\ Present(n, made, first)
      BY <1>1 DEF Lived
    <3>2. PICK made \in [0..n -> Nat], first \in [1..n -> Nat] :
            Past(s, n, made, first) /\ Present(n, made, first)
      BY <3>1
    <3>3. Past(s, n, made, first)'
      BY <2>1, <3>2 DEF Past, EndOf
    <3>4. Present(n, made, first)'
      BY <2>1, <3>2 DEF Present, Running, Up
    <3>5. lives' \in Seq(Life)
      BY <1>1, <2>1 DEF Lived
    <3> QED BY <3>3, <3>4, <3>5 DEF Lived
  <2> QED BY <1>2, <1>3, <1>4, <2>1, <2>2, <2>3
<1> QED
  BY <1>5, <1>6, <1>7, <1>8, <1>9, <1>10 DEF Next

\* Every entry of the history, and every one that was lost, is the first one of a process
\* or was made at one of its ticks, and no tick but the last one is without its entry.
THEOREM LivesInvariant == Spec => [](HistoryInv /\ LivesInv)
<1>1. Init => HistoryInv /\ LivesInv
  <2> SUFFICES ASSUME Init PROVE HistoryInv /\ LivesInv
    OBVIOUS
  <2>1. /\ now = 0 /\ round = None /\ ticker = None /\ ~tick
        /\ entries = <<>> /\ saved = 0 /\ lost = <<>> /\ lives = <<>>
    BY DEF Init
  <2>2. <<>> \in Seq(Rounds) /\ <<>> \in Seq(Life) /\ Len(<<>>) = 0
    BY EmptySeq
  <2>3. HistoryInv
    BY <2>1, <2>2 DEF HistoryInv, Ordered, Latest
  <2> DEFINE made == [i \in 0..0 |-> 0]
             first == [i \in 1..0 |-> 0]
  <2>4. /\ made \in [0..0 -> Nat] /\ first \in [1..0 -> Nat] /\ made[0] = 0
        /\ 1..0 = {}
    OBVIOUS
  <2> HIDE DEF made, first
  <2>5. Past(<<>>, 0, made, first)
    BY <2>1, <2>2, <2>4 DEF Past
  <2>6. Present(0, made, first)
    BY <2>1 DEF Present, Up
  <2>7. Lived(<<>>)
    BY <2>1, <2>2, <2>4, <2>5, <2>6 DEF Lived
  <2>8. Accounted(<<>>)
    <3>1. \A t \in Nat : Since(<<>>, t) = {}
      BY <2>2 DEF Since
    <3> QED BY <2>1, <3>1, FS_EmptySet DEF Accounted
  <2>9. Ordered(<<>>, Latest)
    BY <2>2 DEF Ordered
  <2> QED BY <2>1, <2>2, <2>3, <2>7, <2>8, <2>9 DEF LivesInv
<1>2. HistoryInv /\ LivesInv /\ [Next]_vars => (HistoryInv /\ LivesInv)'
  BY HistoryStep, LivesStep
<1> QED
  BY <1>1, <1>2, PTL DEF Spec

-----------------------------------------------------------------------------
(* Samples and time.                                                       *)

\* The time of a life that lies in a window that begins at start.
Inside(from, to, start) ==
  LET since == IF from < start THEN start ELSE from
  IN  IF to > since THEN to - since ELSE 0

\* The k-th entry is the last one before start, of those from the b-th to the c-th.
Cut(s, b, c, start, k) == \A j \in (b + 1)..c : s[j].timestamp >= start <=> j > k

\* What one process adds to the samples of a window, and to the time: a sample may stand
\* for no time at all, its first round and the one that a kill interrupts may last, and
\* the window may begin just after a sample.
LEMMA LifeCounts ==
  ASSUME NEW s, NEW from \in Nat, NEW to \in Nat, NEW b \in Nat, NEW c \in Nat, b <= c,
         NEW f \in Nat, Made(s, from, to, b, c, f), NEW start \in Nat, NEW k \in Nat,
         Cut(s, b, c, start, k)
  PROVE  \E w \in Nat, o \in Nat :
           /\ Above(c, k) = Above(b, k) + w
           /\ o = Inside(from, to, start)
           /\ to < start => w = 0 /\ o = 0
           /\ to >= start => /\ w * Interval <= o + Interval
                             /\ o < w * Interval + 2 * MaxRound + Interval
                             /\ from >= start => o = to - from
                             /\ from >= start => o <= w * Interval + 2 * MaxRound
                             /\ o <= to - start
<1> DEFINE w == Above(c, k) - Above(b, k)
           o == Inside(from, to, start)
           m == c - b
           Right(u, v) ==
             /\ Above(c, k) = Above(b, k) + u
             /\ v = Inside(from, to, start)
             /\ to < start => u = 0 /\ v = 0
             /\ to >= start => /\ u * Interval <= v + Interval
                               /\ v < u * Interval + 2 * MaxRound + Interval
                               /\ from >= start => v = to - from
                               /\ from >= start => v <= u * Interval + 2 * MaxRound
                               /\ v <= to - start
<1>1. Interval \in Nat \ {0} /\ MaxRound \in Nat /\ MaxRound < Interval
  BY WindowAssumption
<1> USE DEF Cut
<1>2. /\ from <= to
      /\ m = 0 => to <= from + MaxRound
      /\ m > 0 => /\ s[b + 1].timestamp = from
                  /\ from <= f /\ f <= from + MaxRound
                  /\ \A j \in 1..(m - 1) : s[b + 1 + j].timestamp = Tick(f, j)
                  /\ Tick(f, m - 1) <= to /\ to <= Tick(f, m) + MaxRound
  BY DEF Made
<1>3. w \in Nat /\ Above(c, k) = Above(b, k) + w /\ m \in Nat
  BY DEF Above
<1>4. o \in Nat /\ o = Inside(from, to, start)
  BY <1>2 DEF Inside
<1>5. ASSUME NEW i \in Nat, NEW j \in Nat, i <= j
      PROVE  /\ Tick(f, i) \in Nat /\ Tick(f, j) \in Nat /\ (j - i) * Interval \in Nat
             /\ Tick(f, j) = Tick(f, i) + (j - i) * Interval
  <2>1. j - i \in Nat /\ i + (j - i) = j
    BY <1>5
  <2>2. \A d \in Nat : (i + d) * Interval = i * Interval + d * Interval /\ i * Interval \in Nat
                       /\ d * Interval \in Nat
    BY <1>1
  <2> QED BY <1>1, <2>1, <2>2 DEF Tick
<1>6. ASSUME to < start PROVE Right(w, o)
  <2>1. o = 0
    BY <1>2, <1>6 DEF Inside
  <2>2. CASE m = 0
    BY <1>3, <1>6, <2>1, <2>2 DEF Above
  <2>3. CASE m > 0
    <3>1. c \in (b + 1)..c /\ c = b + m
      BY <2>3
    <3>2. s[c].timestamp <= to
      <4>1. CASE m = 1
        BY <1>2, <2>3, <3>1, <4>1
      <4>2. CASE m > 1
        <5>1. m - 1 \in 1..(m - 1) /\ b + 1 + (m - 1) = c
          BY <1>3, <3>1, <4>2
        <5> QED BY <1>2, <2>3, <5>1
      <4> QED BY <1>3, <2>3, <4>1, <4>2
    <3>3. s[c].timestamp \in Nat
      <4>1. CASE m = 1
        BY <1>2, <2>3, <3>1, <4>1
      <4>2. CASE m > 1
        <5>1. m - 1 \in 1..(m - 1) /\ m - 1 \in Nat /\ b + 1 + (m - 1) = c
          BY <1>3, <3>1, <4>2
        <5>2. s[b + 1 + (m - 1)].timestamp = Tick(f, m - 1)
          BY <1>2, <2>3, <5>1
        <5>3. Tick(f, m - 1) \in Nat
          BY <5>1, TickNext
        <5> QED BY <5>1, <5>2, <5>3
      <4> QED BY <1>3, <2>3, <4>1, <4>2
    <3>4. ~(c > k)
      BY <1>6, <3>1, <3>2, <3>3
    <3> QED BY <1>3, <1>6, <2>1, <3>4 DEF Above
  <2> QED BY <1>3, <2>2, <2>3
<1>7. ASSUME to >= start, from >= start PROVE Right(w, o)
  <2>1. o = to - from /\ o <= to - start
    BY <1>2, <1>7 DEF Inside
  <2>2. CASE m = 0
    <3>1. w = 0 /\ w * Interval = 0
      BY <1>1, <2>2 DEF Above
    <3>2. o <= MaxRound
      BY <1>1, <1>2, <2>1, <2>2
    <3> HIDE DEF w, o
    <3> QED BY <1>1, <1>3, <1>4, <1>7, <2>1, <3>1, <3>2
  <2>3. CASE m > 0
    <3>1. ~(k > b)
      <4>1. b + 1 \in (b + 1)..c
        BY <2>3
      <4> QED BY <1>2, <1>7, <2>3, <4>1
    <3>2. w = m
      BY <3>1 DEF Above
    <3>3. /\ Tick(f, m) = f + m * Interval /\ m * Interval \in Nat
          /\ Tick(f, m) = Tick(f, m - 1) + Interval /\ Tick(f, m - 1) \in Nat
      <4>1. m - 1 \in Nat /\ (m - 1) + 1 = m
        BY <1>3, <2>3
      <4>2. m * Interval \in Nat
        BY <1>1, <1>3
      <4> HIDE DEF m
      <4>3. Tick(f, m - 1) \in Nat /\ Tick(f, (m - 1) + 1) = Tick(f, m - 1) + Interval
        BY <4>1, TickNext
      <4> QED BY <4>1, <4>2, <4>3 DEF Tick
    <3> HIDE DEF w, o, m
    <3>4. w * Interval <= o + Interval /\ o <= w * Interval + 2 * MaxRound
      BY <1>1, <1>2, <2>1, <2>3, <3>2, <3>3
    <3> QED BY <1>1, <1>3, <1>4, <1>7, <2>1, <3>2, <3>3, <3>4
  <2> QED BY <1>3, <2>2, <2>3
<1>8. ASSUME to >= start, from < start PROVE Right(w, o)
  <2>1. o = to - start
    BY <1>8 DEF Inside
  <2>2. w * Interval <= o + Interval /\ o < w * Interval + 2 * MaxRound + Interval
    <3>1. CASE m = 0
      <4>1. w = 0 /\ w * Interval = 0
        BY <1>1, <3>1 DEF Above
      <4> HIDE DEF w, o
      <4> QED BY <1>1, <1>2, <1>4, <1>8, <2>1, <3>1, <4>1
    <3>2. CASE m > 0
      <4>1. k > b
        <5>1. b + 1 \in (b + 1)..c
          BY <3>2
        <5> QED BY <1>2, <1>8, <3>2, <5>1
      <4>2. CASE k >= c
        <5>1. w = 0 /\ w * Interval = 0
          BY <1>1, <4>1, <4>2 DEF Above
        <5>2. Tick(f, m - 1) < start + MaxRound /\ Tick(f, m - 1) \in Nat
          <6>1. CASE m = 1
            <7>1. Tick(f, m - 1) = f
              BY <6>1, TickNext
            <7> QED BY <1>1, <1>2, <1>8, <3>2, <7>1
          <6>2. CASE m > 1
            <7>1. m - 1 \in 1..(m - 1) /\ m - 1 \in Nat /\ b + 1 + (m - 1) = c /\ c \in (b + 1)..c
              BY <1>3, <6>2
            <7>2. s[b + 1 + (m - 1)].timestamp = Tick(f, m - 1)
              BY <1>2, <3>2, <7>1
            <7>4. Tick(f, m - 1) \in Nat
              BY <7>1, TickNext
            <7>3. ~(s[c].timestamp >= start)
              BY <4>2, <7>1
            <7> QED BY <1>1, <7>1, <7>2, <7>3, <7>4
          <6> QED BY <1>3, <3>2, <6>1, <6>2
        <5>3. Tick(f, m) = Tick(f, m - 1) + Interval
          <6>1. m - 1 \in Nat /\ (m - 1) + 1 = m
            BY <1>3, <3>2
          <6> HIDE DEF m
          <6>2. Tick(f, (m - 1) + 1) = Tick(f, m - 1) + Interval
            BY <6>1, TickNext
          <6> QED BY <6>1, <6>2
        <5> HIDE DEF w, o, m
        <5> QED BY <1>1, <1>2, <1>4, <1>8, <2>1, <3>2, <5>1, <5>2, <5>3
      <4>3. CASE k < c
        <5> DEFINE p == k - b
        <5>1. p \in 1..(m - 1) /\ w = m - p /\ w \in Nat \ {0} /\ p - 1 \in Nat /\ p - 1 <= m
              /\ p \in Nat /\ p <= m /\ p <= m - 1
              /\ b + 1 + p = k + 1 /\ k + 1 \in (b + 1)..c /\ k \in (b + 1)..c /\ m - 1 \in Nat
          BY <4>1, <4>3 DEF Above
        <5>2. start <= Tick(f, p) /\ Tick(f, p) \in Nat
          <6>1. s[k + 1].timestamp = Tick(f, p) /\ Tick(f, p) \in Nat
            BY <1>2, <1>5, <3>2, <5>1
          <6>2. k + 1 > k
            OBVIOUS
          <6> QED BY <5>1, <6>1, <6>2
        <5>3. Tick(f, p - 1) < start + MaxRound /\ Tick(f, p - 1) \in Nat
          <6>1. CASE p = 1
            <7>1. Tick(f, p - 1) = f
              BY <6>1, TickNext
            <7> QED BY <1>1, <1>2, <1>8, <3>2, <7>1
          <6>2. CASE p > 1
            <7>1. p - 1 \in 1..(m - 1) /\ p - 1 \in Nat /\ b + 1 + (p - 1) = k
              BY <5>1, <6>2
            <7>2. s[b + 1 + (p - 1)].timestamp = Tick(f, p - 1)
              BY <1>2, <3>2, <7>1
            <7>4. Tick(f, p - 1) \in Nat
              BY <7>1, TickNext
            <7>3. ~(s[k].timestamp >= start)
              BY <5>1
            <7> QED BY <1>1, <7>1, <7>2, <7>3, <7>4
          <6> QED BY <5>1, <6>1, <6>2
        <5>4. /\ Tick(f, m) = Tick(f, p - 1) + w * Interval + Interval /\ w * Interval \in Nat
              /\ Tick(f, m) = Tick(f, p) + w * Interval
              /\ Tick(f, m) = Tick(f, m - 1) + Interval /\ Tick(f, m - 1) \in Nat
          <6>1. Tick(f, m) = Tick(f, p) + w * Interval /\ w * Interval \in Nat
            BY <1>3, <1>5, <5>1
          <6>2. Tick(f, p) = Tick(f, p - 1) + Interval
            <7>1. p - 1 \in Nat /\ (p - 1) + 1 = p
              BY <5>1
            <7> HIDE DEF p
            <7>2. Tick(f, (p - 1) + 1) = Tick(f, p - 1) + Interval
              BY <7>1, TickNext
            <7> QED BY <7>1, <7>2
          <6>3. Tick(f, m) = Tick(f, m - 1) + Interval /\ Tick(f, m - 1) \in Nat
            <7>1. m - 1 \in Nat /\ (m - 1) + 1 = m
              BY <5>1
            <7> HIDE DEF m
            <7>2. Tick(f, (m - 1) + 1) = Tick(f, m - 1) + Interval /\ Tick(f, m - 1) \in Nat
              BY <7>1, TickNext
            <7> QED BY <7>1, <7>2
          <6> HIDE DEF w, m, p
          <6> QED BY <1>1, <5>3, <6>1, <6>2, <6>3
        <5> HIDE DEF w, o, m, p
        <5> QED BY <1>1, <1>2, <1>4, <1>8, <2>1, <3>2, <5>2, <5>3, <5>4
      <4> QED BY <4>2, <4>3
    <3> QED BY <1>3, <3>1, <3>2
  <2> HIDE DEF w, o
  <2> QED BY <1>3, <1>4, <1>8, <2>1, <2>2
<1>9. Right(w, o) /\ w \in Nat /\ o \in Nat
  BY <1>3, <1>4, <1>6, <1>7, <1>8
<1> HIDE DEF w, o
<1> QED BY <1>9

\* The time up, as a sum over the lives.
LEMMA TimeUp ==
  ASSUME NEW n \in Nat, n = Len(lives)
  PROVE  \E up : /\ Downtime = Slots * Interval - up[n]
                 /\ up[0] = 0
                 /\ \A i \in 1..n : up[i] = up[i - 1] + Overlap(lives[i])
<1> DEFINE Sum(f) == [i \in 0..n |-> IF i = 0 THEN 0 ELSE f[i - 1] + Overlap(lives[i])]
           Upto(f, m) == /\ f = [i \in 0..n |-> f[i]]
                         /\ f[0] = 0
                         /\ \A i \in 1..m : f[i] = f[i - 1] + Overlap(lives[i])
           T == {m \in 0..n : \A f : ~Upto(f, m)}
<1>1. 0 \notin T
  <2> DEFINE f == [i \in 0..n |-> 0]
  <2>1. Upto(f, 0)
    OBVIOUS
  <2> HIDE DEF f
  <2> QED BY <2>1
<1>2. ASSUME NEW m \in 1..n, NEW f, Upto(f, m - 1)
      PROVE  \E g : Upto(g, m)
  <2> DEFINE g == [i \in 0..n |-> IF i = m THEN f[m - 1] + Overlap(lives[m]) ELSE f[i]]
  <2>1. /\ g[m] = f[m - 1] + Overlap(lives[m])
        /\ \A i \in 0..n : i # m => g[i] = f[i]
        /\ g = [i \in 0..n |-> g[i]]
    OBVIOUS
  <2>2. g[0] = 0 /\ f[0] = 0
    BY <1>2, <2>1
  <2> HIDE DEF g
  <2>3. ASSUME NEW i \in 1..m PROVE g[i] = g[i - 1] + Overlap(lives[i])
    <3>1. i - 1 \in 0..n /\ i - 1 # m /\ i \in 0..n
      OBVIOUS
    <3>2. CASE i = m
      BY <2>1, <3>1, <3>2
    <3>3. CASE i # m
      <4>1. i \in 1..(m - 1)
        BY <3>3
      <4> QED BY <1>2, <2>1, <3>1, <3>3, <4>1
    <3> QED BY <3>2, <3>3
  <2> QED BY <2>1, <2>2, <2>3
<1>3. T = {}
  <2> SUFFICES ASSUME T # {} PROVE FALSE
    OBVIOUS
  <2>1. PICK m \in T : \A j \in T : m <= j
    <3>1. T \in SUBSET Nat
      OBVIOUS
    <3> HIDE DEF T
    <3> QED BY <3>1, Least
  <2>2. m \in 1..n /\ m - 1 \in 0..n /\ ~(m <= m - 1)
    <3>1. m \in 0..n /\ m # 0
      BY <1>1
    <3> QED BY <3>1
  <2> HIDE DEF Upto
  <2>3. \E f : Upto(f, m - 1)
    BY <2>1, <2>2
  <2> QED BY <1>2, <2>2, <2>3
<1>4. PICK f : Upto(f, n)
  <2>1. n \in 0..n
    OBVIOUS
  <2> HIDE DEF Upto
  <2> QED BY <1>3, <2>1
<1>5. f = Sum(f)
  <2>1. ASSUME NEW i \in 0..n
        PROVE  f[i] = IF i = 0 THEN 0 ELSE f[i - 1] + Overlap(lives[i])
    <3>1. i = 0 \/ i \in 1..n
      OBVIOUS
    <3> QED BY <1>4, <3>1
  <2>2. f = [i \in 0..n |-> f[i]]
    BY <1>4
  <2> QED BY <2>1, <2>2
<1>6. Downtime = Slots * Interval - (CHOOSE up : up = Sum(up))[n]
  BY DEF Downtime
<1>7. PICK up : up = Sum(up) /\ Downtime = Slots * Interval - up[n]
  <2> HIDE DEF Sum
  <2> QED BY <1>5, <1>6
<1>8. up[0] = 0 /\ \A i \in 1..n : up[i] = up[i - 1] + Overlap(lives[i])
  <2>1. \A i \in 0..n : Sum(up)[i] = IF i = 0 THEN 0 ELSE up[i - 1] + Overlap(lives[i])
    OBVIOUS
  <2>2. \A i \in 0..n : up[i] = IF i = 0 THEN 0 ELSE up[i - 1] + Overlap(lives[i])
    <3> HIDE DEF Sum
    <3> QED BY <1>7, <2>1
  <2> QED BY <2>2
<1> QED BY <1>7, <1>8

\* A whole number of slots needs as many samples.
LEMMA WholeSlots ==
  ASSUME now \in Nat
  PROVE  Ceil(now - WindowStart, Interval) = Slots /\ WindowStart \in Int /\ WindowStart <= now
<1> DEFINE x == Slots * Interval + Interval - 1
           q == x \div Interval
<1>1. Interval \in Nat \ {0} /\ Slots \in Nat \ {0} /\ Slots * Interval \in Nat
  BY WindowAssumption
<1>2. now - WindowStart = Slots * Interval /\ WindowStart \in Int /\ WindowStart <= now
  BY <1>1 DEF WindowStart
<1>3. x \in Nat /\ x < Slots * Interval + Interval /\ Slots * Interval <= x
  BY <1>1
<1> HIDE DEF x
<1>4. q \in Nat /\ Interval * q <= x /\ x < Interval * q + Interval
  BY <1>1, <1>3
<1> HIDE DEF q
<1>5. ASSUME q > Slots PROVE FALSE
  <2>1. Interval * q >= Interval * (Slots + 1) /\ Interval * (Slots + 1) = Slots * Interval + Interval
    BY <1>1, <1>4, <1>5
  <2> QED BY <1>1, <1>3, <1>4, <2>1
<1>6. ASSUME q < Slots PROVE FALSE
  <2>1. Interval * Slots >= Interval * (q + 1) /\ Interval * (q + 1) = Interval * q + Interval
    BY <1>1, <1>4, <1>6
  <2>2. Interval * Slots = Slots * Interval /\ Interval * q \in Nat
    BY <1>1, <1>4
  <2> QED BY <1>1, <1>3, <1>4, <2>1, <2>2
<1>7. q = Slots
  BY <1>1, <1>4, <1>5, <1>6
<1> QED BY <1>2, <1>7 DEF Ceil, q, x

\* Sums of what the lives add.
LEMMA Distribute ==
  ASSUME NEW a \in Nat, NEW b \in Nat
  PROVE  /\ a * Interval \in Nat
         /\ (a + b) * Interval = a * Interval + b * Interval
         /\ (a + 1) * Interval = a * Interval + Interval
         /\ a * 2 * MaxRound \in Nat
         /\ (a + 1) * 2 * MaxRound = a * 2 * MaxRound + 2 * MaxRound
<1>1. Interval \in Nat /\ MaxRound \in Nat
  BY WindowAssumption
<1> QED BY <1>1

\* As many samples as slots in the time up, but for what each of some lives explains.
Balance(had, up, ran) == /\ had * Interval <= up + ran * Interval
                         /\ up < had * Interval + ran * 2 * MaxRound + Interval

\* One life more.  No life before it reaches into the window if it began before it.
LEMMA OneMore ==
  ASSUME NEW h \in Nat, NEW u \in Nat, NEW r \in Nat, NEW w \in Nat, NEW o \in Nat,
         NEW from \in Nat, NEW to \in Nat, NEW start \in Nat, from <= to,
         Balance(h, u, r),
         from < start => u = 0,
         from >= start => u <= from - start,
         to < start => w = 0 /\ o = 0,
         to >= start => /\ w * Interval <= o + Interval
                        /\ o < w * Interval + 2 * MaxRound + Interval
                        /\ from >= start => o = to - from
                        /\ from >= start => o <= w * Interval + 2 * MaxRound
                        /\ o <= to - start
  PROVE  /\ Balance(h + w, u + o, IF to >= start THEN r + 1 ELSE r)
         /\ IF to < start THEN u + o = 0 ELSE u + o <= to - start
<1>1. Interval \in Nat \ {0} /\ MaxRound \in Nat
  BY WindowAssumption
<1>2. /\ (h + w) * Interval = h * Interval + w * Interval
      /\ w * Interval \in Nat /\ h * Interval \in Nat
      /\ r * Interval \in Nat /\ r * 2 * MaxRound \in Nat
      /\ (r + 1) * Interval = r * Interval + Interval
      /\ (r + 1) * 2 * MaxRound = r * 2 * MaxRound + 2 * MaxRound
  BY Distribute
<1>3. h * Interval <= u + r * Interval /\ u < h * Interval + r * 2 * MaxRound + Interval
  BY DEF Balance
<1>4. CASE to < start
  <2>1. h + w = h /\ u + o = u /\ u = 0
    BY <1>4
  <2> QED BY <1>4, <2>1
<1>5. CASE to >= start /\ from < start
  <2>1. /\ (h + w) * Interval <= (u + o) + (r + 1) * Interval
        /\ u + o < (h + w) * Interval + (r + 1) * 2 * MaxRound + Interval
    BY <1>1, <1>2, <1>3, <1>5
  <2> QED BY <1>5, <2>1 DEF Balance
<1>6. CASE to >= start /\ from >= start
  <2>1. /\ (h + w) * Interval <= (u + o) + (r + 1) * Interval
        /\ u + o < (h + w) * Interval + (r + 1) * 2 * MaxRound + Interval
    BY <1>1, <1>2, <1>3, <1>6
  <2> QED BY <1>6, <2>1 DEF Balance
<1> QED BY <1>4, <1>5, <1>6

\* The samples in the window, and those lost, against the time up in it.
LEMMA SamplesTrackTime ==
  ASSUME HistoryInv, LivesInv, InRange
  PROVE  \E had \in Nat, gone \in Nat, up \in Nat, ran \in Nat :
           /\ Missing = Above(Slots, had)
           /\ gone = Cardinality(LostInWindow)
           /\ Downtime = Slots * Interval - up
           /\ ran = Cardinality(LivesInWindow)
           /\ Balance(had + gone, up, ran)
           /\ up <= Slots * Interval
<1>s. PICK start : start = WindowStart
  OBVIOUS
<1>p. PICK s \in Seq(Rounds) : Ordered(s, Latest) /\ Lived(s) /\ Accounted(s)
  BY DEF LivesInv
<1>l. PICK n \in Nat : \E made \in [0..n -> Nat], first \in [1..n -> Nat] :
        Past(s, n, made, first) /\ Present(n, made, first)
  BY <1>p DEF Lived
<1>n. PICK made \in [0..n -> Nat], first \in [1..n -> Nat] :
        Past(s, n, made, first) /\ Present(n, made, first)
  BY <1>l
<1> DEFINE size == Len(s)
<1>1. /\ now \in Nat /\ entries \in Seq(Rounds) /\ Ordered(entries, now)
      /\ size \in Nat /\ Ordered(s, now) /\ lost \in Seq(Rounds)
      /\ start \in Nat /\ start <= now /\ start = now - Slots * Interval
      /\ Slots * Interval \in Nat
      /\ n = Len(lives) /\ \A i \in 1..n : lives[i] \in Life
      /\ Interval \in Nat \ {0} /\ MaxRound \in Nat
  <2>1. Latest \in Nat /\ Latest <= now /\ now \in Nat
    BY DEF HistoryInv, Latest
  <2>2. n = Len(lives)
    BY <1>n DEF Past
  <2>3. Interval \in Nat \ {0} /\ MaxRound \in Nat /\ Slots * Interval \in Nat
    BY WindowAssumption
  <2>4. WindowStart \in Nat /\ WindowStart <= now
    BY <2>1, WholeSlots DEF InRange
  <2>5. /\ lives \in Seq(Life) /\ entries \in Seq(Rounds) /\ Ordered(entries, Latest)
        /\ lost \in Seq(Rounds)
    BY <1>p DEF LivesInv, HistoryInv, Lived
  <2>6. Ordered(entries, now) /\ Ordered(s, now)
    BY <1>p, <2>1, <2>5, OrderedLater
  <2> QED
    BY <1>s, <2>1, <2>2, <2>3, <2>4, <2>5, <2>6, LenProperties, ElementOfSeq DEF WindowStart
<1>2. \A i \in 1..n : EndOf(lives[i]) \in Nat /\ lives[i].from \in Nat
  BY <1>1 DEF EndOf, Life, None
<1>3. PICK k \in 0..size : \A i \in 1..size : s[i].timestamp >= start <=> i > k
  <2>1. start \in Int /\ now \in Int /\ Ordered(s, now)
    BY <1>1
  <2> QED BY <2>1, FilterIsEnd
<1>4. PICK up : /\ Downtime = Slots * Interval - up[n]
                /\ up[0] = 0
                /\ \A i \in 1..n : up[i] = up[i - 1] + Overlap(lives[i])
  BY <1>1, TimeUp
<1>5. PICK had \in Nat, gone \in Nat :
        /\ Missing = Above(Slots, had)
        /\ gone = Cardinality(LostInWindow)
        /\ size - k = had + gone
  <2> DEFINE e == FilterHistory(entries, start, now)
  <2>1. start \in Int /\ now \in Int /\ start <= now
    BY <1>1
  <2>2. PICK l \in 0..Len(entries) :
          /\ Part(e, entries, l, Len(entries))
          /\ \A i \in 1..Len(entries) : entries[i].timestamp >= start <=> i > l
    BY <1>1, <2>1, FilterIsEnd
  <2>3. e \in Seq(Rounds) /\ Len(e) = Len(entries) - l /\ Len(e) \in Nat
    BY <1>1, <2>2, TimesOf DEF Part
  <2>4. Missing = ComputeServiceUptime(e, start, now, Interval, {Service})[Service].missing
    BY <1>s DEF Missing, Uptimes
  <2>5. Ceil(now - start, Interval) = Slots
    BY <1>1, <1>s, WholeSlots
  <2> HIDE DEF e
  <2>6. Missing = Above(Slots, Len(e))
    BY <2>1, <2>3, <2>4, <2>5, MissingOf
  <2>7. Cardinality(Since(entries, start)) = Len(e)
    BY <1>1, <2>2, <2>3, SinceIsEnd
  <2>8. Cardinality(Since(s, start)) = size - k
    BY <1>3, SinceIsEnd
  <2>9. Cardinality(Since(lost, start)) \in Nat /\ Since(lost, start) = LostInWindow
    BY <1>1, <1>s, SinceFinite DEF Since, LostInWindow
  <2>10. Cardinality(Since(s, start)) =
           Cardinality(Since(entries, start)) + Cardinality(Since(lost, start))
    BY <1>p, <1>1 DEF Accounted
  <2> QED BY <2>3, <2>6, <2>7, <2>8, <2>9, <2>10
<1> DEFINE In(i) == {j \in 1..i : EndOf(lives[j]) >= start}
           ran(i) == Cardinality(In(i))
           came(i) == Above(made[i], k)
           Fine(i) ==
             /\ up[i] \in Nat /\ came(i) \in Nat /\ ran(i) \in Nat /\ IsFiniteSet(In(i))
             /\ Balance(came(i), up[i], ran(i))
             /\ i = 0 => up[i] = 0
             /\ i > 0 => IF EndOf(lives[i]) < start THEN up[i] = 0
                                                    ELSE up[i] <= EndOf(lives[i]) - start
<1>6. Fine(0)
  <2>1. made[0] = 0 /\ came(0) = 0
    BY <1>n, <1>3 DEF Past, Above
  <2>2. In(0) = {}
    OBVIOUS
  <2>3. ran(0) = 0 /\ IsFiniteSet(In(0))
    BY <2>2, FS_EmptySet
  <2>4. 0 * Interval = 0 /\ 0 * 2 * MaxRound = 0
    BY <1>1
  <2> HIDE DEF came, ran, In
  <2> QED BY <1>1, <1>4, <2>1, <2>3, <2>4 DEF Balance
<1>7. ASSUME NEW i \in 1..n, Fine(i - 1)
      PROVE  Fine(i)
  <2>1. PICK b, c, f, from, to :
          b = made[i - 1] /\ c = made[i] /\ f = first[i]
          /\ from = lives[i].from /\ to = EndOf(lives[i])
    OBVIOUS
  <2>2. PICK h, u, r : h = came(i - 1) /\ u = up[i - 1] /\ r = ran(i - 1)
    OBVIOUS
  <2>3. /\ i - 1 \in 0..n /\ i \in 0..n /\ i \in Nat /\ i > 0 /\ i # 0
        /\ i > 1 => i - 1 \in 1..n /\ i - 1 < n /\ (i - 1) + 1 = i /\ i - 1 > 0
        /\ i = 1 \/ i > 1
        /\ i = 1 => i - 1 = 0
    OBVIOUS
  <2>4. /\ b \in Nat /\ c \in Nat /\ f \in Nat /\ b <= c /\ c <= size
        /\ from \in Nat /\ to \in Nat /\ from <= to
        /\ Made(s, from, to, b, c, f)
    <3>1. made[i - 1] \in Nat /\ made[i] \in Nat /\ first[i] \in Nat
      BY <2>3
    <3>2. /\ made[i - 1] <= made[i] /\ made[i] <= size
          /\ Made(s, lives[i].from, EndOf(lives[i]), made[i - 1], made[i], first[i])
      BY <1>n DEF Past
    <3>3. lives[i].from <= EndOf(lives[i])
      BY <3>2 DEF Made
    <3> QED BY <1>2, <2>1, <3>1, <3>2, <3>3
  <2>5. i > 1 => EndOf(lives[i - 1]) <= from /\ EndOf(lives[i - 1]) \in Nat
    BY <1>n, <1>2, <2>1, <2>3 DEF Past
  <2>6. u \in Nat /\ h \in Nat /\ r \in Nat /\ Balance(h, u, r) /\ IsFiniteSet(In(i - 1))
    BY <1>7, <2>2
  <2>7. /\ i = 1 => u = 0
        /\ i > 1 => IF EndOf(lives[i - 1]) < start THEN u = 0
                                                  ELSE u <= EndOf(lives[i - 1]) - start
    BY <1>7, <2>2, <2>3
  <2>8. start \in Nat /\ k \in Nat
    BY <1>1, <1>3
  <2>9. (from < start => u = 0) /\ (from >= start => u <= from - start)
    <3>1. CASE i = 1
      BY <2>4, <2>6, <2>7, <2>8, <3>1
    <3>2. CASE i > 1
      <4>1. PICK e : e = EndOf(lives[i - 1])
        OBVIOUS
      <4>2. e <= from /\ e \in Nat
        BY <2>5, <3>2, <4>1
      <4>3. IF e < start THEN u = 0 ELSE u <= e - start
        BY <2>7, <3>2, <4>1
      <4>4. from \in Nat /\ u \in Nat /\ start \in Nat
        BY <2>4, <2>6, <2>8
      <4> QED BY <4>2, <4>3, <4>4
    <3> QED BY <2>3, <3>1, <3>2
  <2>10. Cut(s, b, c, start, k)
    <3>1. \A j \in (b + 1)..c : j \in 1..size
      BY <1>1, <2>4
    <3> HIDE DEF size
    <3> QED BY <1>3, <3>1 DEF Cut
  <2>11. PICK w \in Nat, o \in Nat :
          /\ Above(c, k) = Above(b, k) + w
          /\ o = Inside(from, to, start)
          /\ to < start => w = 0 /\ o = 0
          /\ to >= start => /\ w * Interval <= o + Interval
                            /\ o < w * Interval + 2 * MaxRound + Interval
                            /\ from >= start => o = to - from
                            /\ from >= start => o <= w * Interval + 2 * MaxRound
                            /\ o <= to - start
    <3>1. /\ from \in Nat /\ to \in Nat /\ b \in Nat /\ c \in Nat /\ b <= c /\ f \in Nat
          /\ Made(s, from, to, b, c, f) /\ start \in Nat /\ k \in Nat
      BY <2>4, <2>8
    <3> QED BY <3>1, <2>10, LifeCounts
  <2>12. /\ Balance(h + w, u + o, IF to >= start THEN r + 1 ELSE r)
         /\ IF to < start THEN u + o = 0 ELSE u + o <= to - start
    <3>1. /\ h \in Nat /\ u \in Nat /\ r \in Nat /\ w \in Nat /\ o \in Nat
          /\ from \in Nat /\ to \in Nat /\ start \in Nat /\ from <= to
          /\ Balance(h, u, r)
      BY <2>4, <2>6, <2>8
    <3>2. /\ to < start => w = 0 /\ o = 0
          /\ to >= start => /\ w * Interval <= o + Interval
                            /\ o < w * Interval + 2 * MaxRound + Interval
                            /\ from >= start => o = to - from
                            /\ from >= start => o <= w * Interval + 2 * MaxRound
                            /\ o <= to - start
      BY <2>11
    <3> QED BY <2>9, <3>1, <3>2, OneMore
  <2>13. came(i) = h + w
    BY <2>1, <2>2, <2>11
  <2>14. up[i] = u + o
    BY <1>s, <1>4, <2>1, <2>2, <2>11 DEF Overlap, Inside
  <2>15. ran(i) = (IF to >= start THEN r + 1 ELSE r) /\ IsFiniteSet(In(i))
    <3>1. CASE to >= start
      <4>1. In(i) = In(i - 1) \cup {i} /\ i \notin In(i - 1)
        BY <2>1, <2>3, <3>1
      <4> HIDE DEF In
      <4>2. IsFiniteSet(In(i)) /\ Cardinality(In(i)) = Cardinality(In(i - 1)) + 1
        <5>1. /\ IsFiniteSet(In(i - 1) \cup {i})
              /\ Cardinality(In(i - 1) \cup {i}) = Cardinality(In(i - 1)) + 1
          BY <2>6, <4>1, FS_AddElement
        <5> QED BY <4>1, <5>1
      <4> QED BY <2>2, <3>1, <4>2
    <3>2. CASE to < start
      <4>1. In(i) = In(i - 1) /\ ~(to >= start)
        <5>1. ~(to >= start)
          BY <2>4, <2>8, <3>2
        <5>2. \A j \in 1..i : j \in 1..(i - 1) \/ j = i
          BY <2>3
        <5> QED BY <2>1, <2>3, <5>1, <5>2
      <4> HIDE DEF In
      <4> QED BY <2>2, <2>6, <4>1
    <3> QED BY <2>4, <2>8, <3>1, <3>2
  <2> HIDE DEF came, ran, In
  <2>16. came(i) \in Nat /\ up[i] \in Nat /\ ran(i) \in Nat
    <3>1. h + w \in Nat /\ u + o \in Nat /\ r + 1 \in Nat
      BY <2>6
    <3> QED BY <2>6, <2>13, <2>14, <2>15, <3>1
  <2>17. Balance(came(i), up[i], ran(i))
    BY <2>12, <2>13, <2>14, <2>15
  <2>18. IF EndOf(lives[i]) < start THEN up[i] = 0 ELSE up[i] <= EndOf(lives[i]) - start
    BY <2>1, <2>12, <2>14
  <2> QED BY <2>3, <2>15, <2>16, <2>17, <2>18
<1> HIDE DEF Fine
<1>8. \A i \in 0..n : Fine(i)
  <2> DEFINE T == {i \in 0..n : ~Fine(i)}
  <2> SUFFICES ASSUME T # {} PROVE FALSE
    OBVIOUS
  <2>1. PICK i \in T : \A j \in T : i <= j
    <3>1. T \in SUBSET Nat
      OBVIOUS
    <3> HIDE DEF T
    <3> QED BY <3>1, Least
  <2>2. i \in 1..n /\ i - 1 \in 0..n /\ ~(i <= i - 1)
    <3>1. i \in 0..n /\ i # 0
      BY <1>6
    <3> QED BY <3>1
  <2> QED BY <1>7, <2>1, <2>2
<1>9. came(n) = had + gone
  BY <1>n, <1>1, <1>3, <1>5 DEF Past, Above
<1>10. In(n) = LivesInWindow
  BY <1>1, <1>s DEF LivesInWindow
<1>11. up[n] <= Slots * Interval
  <2>1. Fine(n)
    BY <1>8
  <2>2. CASE n = 0
    BY <1>1, <2>1, <2>2 DEF Fine
  <2>3. CASE n > 0
    <3>1. n \in 1..n /\ EndOf(lives[n]) <= now /\ EndOf(lives[n]) \in Nat
      BY <1>n, <1>2, <2>3 DEF Past
    <3> QED BY <1>1, <2>1, <2>3, <3>1 DEF Fine
  <2> QED BY <2>2, <2>3
<1>12. Fine(n)
  BY <1>8
<1>13. up[n] \in Nat /\ ran(n) \in Nat /\ Balance(came(n), up[n], ran(n))
  <2> HIDE DEF came, In, ran
  <2> QED BY <1>12 DEF Fine
<1>14. ran(n) = Cardinality(LivesInWindow)
  BY <1>10
<1> HIDE DEF came, In, ran
<1> QED BY <1>4, <1>5, <1>9, <1>11, <1>13, <1>14

\* The uptime that a query shows is off by no more than what starts, rounds and lost
\* samples explain, however often saves fail and the process is killed.
THEOREM UptimeTracks == Spec => []MissingTracksDowntime
<1>1. ASSUME HistoryInv, LivesInv PROVE MissingTracksDowntime
  <2> DEFINE count == Cardinality(LivesInWindow)
             due == Downtime + Cardinality(LostInWindow) * Interval
  <2> SUFFICES ASSUME InRange
      PROVE  /\ Missing * Interval >= due - count * Interval
             /\ Missing * Interval < due + Interval + count * 2 * MaxRound
    BY DEF MissingTracksDowntime
  <2>1. PICK had \in Nat, gone \in Nat, up \in Nat, ran \in Nat :
          /\ Missing = Above(Slots, had)
          /\ gone = Cardinality(LostInWindow)
          /\ Downtime = Slots * Interval - up
          /\ ran = count
          /\ Balance(had + gone, up, ran)
          /\ up <= Slots * Interval
    BY <1>1, SamplesTrackTime
  <2>2. due = Slots * Interval - up + gone * Interval
    BY <2>1
  <2> HIDE DEF count, due
  <2>3. Slots \in Nat /\ Interval \in Nat \ {0} /\ Slots * Interval \in Nat
    BY WindowAssumption
  <2>4. /\ had * Interval \in Nat /\ gone * Interval \in Nat
        /\ ran * Interval \in Nat /\ ran * 2 * MaxRound \in Nat
        /\ (had + gone) * Interval = had * Interval + gone * Interval
    BY Distribute
  <2>5. /\ had * Interval + gone * Interval <= up + ran * Interval
        /\ up < had * Interval + gone * Interval + ran * 2 * MaxRound + Interval
    BY <2>1, <2>4 DEF Balance
  <2>6. CASE Slots > had
    <3>1. Missing = Slots - had /\ (Slots - had) \in Nat /\ (Slots - had) + had = Slots
      BY <2>1, <2>3, <2>6 DEF Above
    <3>2. Slots * Interval = Missing * Interval + had * Interval /\ Missing * Interval \in Nat
      BY <3>1, Distribute
    <3> QED BY <2>1, <2>2, <2>3, <2>4, <2>5, <3>2
  <2>7. CASE Slots <= had
    <3>1. Missing = 0 /\ Missing * Interval = 0
      BY <2>1, <2>3, <2>7 DEF Above
    <3>2. Slots * Interval <= had * Interval
      <4>1. had - Slots \in Nat /\ Slots + (had - Slots) = had
        BY <2>3, <2>7
      <4>2. had * Interval = Slots * Interval + (had - Slots) * Interval
            /\ (had - Slots) * Interval \in Nat
        BY <2>3, <4>1, Distribute
      <4> QED BY <2>3, <4>2
    <3> QED BY <2>1, <2>2, <2>3, <2>4, <2>5, <3>1, <3>2
  <2> QED BY <2>3, <2>6, <2>7
<1> QED
  BY <1>1, LivesInvariant, PTL
=============================================================================
