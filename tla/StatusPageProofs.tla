-------------------------- MODULE StatusPageProofs --------------------------
(***************************************************************************)
(* Proofs about StatusPage, for any windows, numbers of dots and lights,   *)
(* bounds on gaps and on histories, and any nodes.                         *)
(***************************************************************************)
EXTENDS StatusPage, SequenceTheorems, FiniteSetTheorems, WellFoundedInduction, TLAPS

States == {"active", "inactive", "activating", "unknown", "refused"}

Check == {c \in [timestamp : Nat, ok : BOOLEAN, state : States, error : BOOLEAN] :
            c.ok <=> c.state = "active"}

Probe == {p \in [timestamp : Nat, ok : BOOLEAN, error : BOOLEAN] : p.error = ~p.ok}

\* In the order of their times, which differ and are not after t.
Increasing(s, t) == /\ \A i, j \in 1..Len(s) : i < j => s[i].timestamp < s[j].timestamp
                    /\ \A i \in 1..Len(s) : s[i].timestamp <= t

\* The inductive invariant: both histories are in order and hold what was found.
PageInv == /\ now \in Nat
           /\ checks \in Seq(Check) /\ Increasing(checks, now)
           /\ probes \in Seq(Probe) /\ Increasing(probes, now)
           /\ fetched \subseteq PeerNodes /\ IsFiniteSet(fetched)

Timed(S) == \A x \in S : x.timestamp \in Nat

\* c is what comes in s after the a-th element, up to the b-th.
Part(S, c, s, a, b) == /\ a \in Nat /\ b \in Nat /\ a <= b /\ b <= Len(s)
                       /\ c \in Seq(S)
                       /\ Len(c) = b - a
                       /\ \A i \in 1..(b - a) : c[i] = s[a + i]

-----------------------------------------------------------------------------
(* Numbers.                                                                *)

\* Any set of natural numbers has a least element.
LEMMA Least ==
  ASSUME NEW T \in SUBSET Nat, T # {}
  PROVE  \E m \in T : \A n \in T : m <= n
<1> DEFINE R == StrictSubsetOrdering(Nat)
           U == {0..n : n \in T}
<1>1. IsWellFoundedOn(R, FiniteSubsetsOf(Nat))
  BY FS_StrictSubsetOrderingWellFounded
<1>2. U \subseteq FiniteSubsetsOf(Nat) /\ U # {}
  <2>1. ASSUME NEW n \in T PROVE 0..n \in SUBSET Nat /\ IsFiniteSet(0..n)
    <3>1. n \in Int /\ 0 \in Int /\ 0..n \subseteq Nat
      OBVIOUS
    <3> QED BY <3>1, FS_Interval
  <2> QED BY <2>1 DEF FiniteSubsetsOf
<1>3. PICK u \in U : \A v \in U : <<v, u>> \notin R
  <2> HIDE DEF R, U
  <2> QED BY <1>1, <1>2, WFMin
<1>4. PICK m \in T : u = 0..m
  OBVIOUS
<1>5. ASSUME NEW n \in T, n < m PROVE FALSE
  <2>1. (0..n) \subseteq 0..m /\ m \in 0..m /\ m \notin 0..n
    BY <1>5
  <2>2. 0..n \in U /\ 0..n # u /\ 0..n \subseteq u /\ u \subseteq Nat
    BY <1>4, <2>1
  <2> QED BY <1>3, <2>2 DEF StrictSubsetOrdering
<1> QED BY <1>5

\* The greater of two numbers.
LEMMA MaxOfTwo ==
  ASSUME NEW a \in Int, NEW b \in Int
  PROVE  Max({a, b}) = IF a >= b THEN a ELSE b
<1> DEFINE m == IF a >= b THEN a ELSE b
<1>1. m \in {a, b} /\ \A y \in {a, b} : m >= y
  OBVIOUS
<1>2. \A x \in {a, b} : (\A y \in {a, b} : x >= y) => x = m
  OBVIOUS
<1> QED
  BY <1>1, <1>2 DEF Max

\* The smaller of two numbers.
LEMMA MinOfTwo ==
  ASSUME NEW a \in Int, NEW b \in Int
  PROVE  Min({a, b}) = IF a <= b THEN a ELSE b
<1> DEFINE m == IF a <= b THEN a ELSE b
<1>1. m \in {a, b} /\ \A y \in {a, b} : m <= y
  OBVIOUS
<1>2. \A x \in {a, b} : (\A y \in {a, b} : x <= y) => x = m
  OBVIOUS
<1> QED
  BY <1>1, <1>2 DEF Min

\* Min of a set of natural numbers.
LEMMA MinIs ==
  ASSUME NEW T \in SUBSET Nat, T # {}
  PROVE  Min(T) \in T /\ \A n \in T : Min(T) <= n
BY Least DEF Min

\* Max of one with an upper bound.
LEMMA MaxIs ==
  ASSUME NEW T \in SUBSET Nat, T # {}, NEW b \in Nat, \A n \in T : n <= b
  PROVE  Max(T) \in T /\ \A n \in T : n <= Max(T)
<1> DEFINE U == {b - n : n \in T}
<1>1. U \in SUBSET Nat /\ U # {}
  <2>1. \A n \in T : n \in Nat /\ b - n \in Nat
    OBVIOUS
  <2> QED BY <2>1
<1>2. PICK u \in U : \A v \in U : u <= v
  <2> HIDE DEF U
  <2> QED BY <1>1, Least
<1>3. PICK m \in T : u = b - m
  OBVIOUS
<1>4. \A n \in T : m >= n
  <2> SUFFICES ASSUME NEW n \in T PROVE m >= n
    OBVIOUS
  <2>1. b - m <= b - n /\ m \in Nat /\ n \in Nat
    BY <1>2, <1>3
  <2> QED BY <2>1
<1> QED BY <1>4 DEF Max

-----------------------------------------------------------------------------
(* Parts of a history.                                                     *)

\* Samples have times.
LEMMA TimesOf ==
  ASSUME NEW S, Timed(S), NEW s \in Seq(S)
  PROVE  /\ Len(s) \in Nat /\ DOMAIN s = 1..Len(s)
         /\ \A i \in 1..Len(s) : s[i] \in S /\ s[i].timestamp \in Nat
<1>1. Len(s) \in Nat /\ DOMAIN s = 1..Len(s) /\ \A i \in 1..Len(s) : s[i] \in S
  BY LenProperties, ElementOfSeq
<1> QED BY <1>1 DEF Timed

LEMMA Times == Timed(Check) /\ Timed(Probe)
BY DEF Timed, Check, Probe

\* There is only one part between two places.
LEMMA PartIsUnique ==
  ASSUME NEW S, Timed(S), NEW s, NEW a, NEW b, NEW c, NEW d, Part(S, c, s, a, b), Part(S, d, s, a, b)
  PROVE  c = d
<1>1. /\ c \in Seq(S) /\ d \in Seq(S) /\ Len(c) = b - a /\ Len(d) = b - a
      /\ \A i \in 1..(b - a) : c[i] = d[i]
  BY DEF Part
<1> QED
  BY <1>1, SeqEqual

\* What SubSeq takes.
LEMMA SubSeqIsPart ==
  ASSUME NEW S, Timed(S), NEW s \in Seq(S), NEW a \in Nat, NEW b \in Nat, a <= b, b <= Len(s)
  PROVE  Part(S, SubSeq(s, a + 1, b), s, a, b)
<1> DEFINE m == a + 1
           c == SubSeq(s, m, b)
<1>1. Len(s) \in Nat /\ \A i \in m..b : s[i] \in S
  BY TimesOf
<1>2. /\ c \in Seq(S)
      /\ Len(c) = IF m <= b THEN b - m + 1 ELSE 0
      /\ \A i \in 1..(b - m + 1) : c[i] = s[m + i - 1]
  <2>1. m \in 1..(Len(s) + 1) /\ b \in (m - 1)..Len(s) /\ m \in Int
    BY <1>1
  <2> HIDE DEF m
  <2> QED BY <1>1, <2>1, SubSeqProperties
<1> HIDE DEF c
<1>3. b - m + 1 = b - a /\ \A i \in 1..(b - a) : m + i - 1 = a + i
  OBVIOUS
<1>4. Len(c) = b - a
  BY <1>2
<1>5. \A i \in 1..(b - a) : c[i] = s[a + i]
  <2> SUFFICES ASSUME NEW i \in 1..(b - a) PROVE c[i] = s[a + i]
    OBVIOUS
  <2>1. c[i] = s[m + i - 1] /\ m + i - 1 = a + i
    BY <1>2, <1>3
  <2> QED BY <2>1
<1>6. Part(S, c, s, a, b)
  BY <1>2, <1>4, <1>5 DEF Part
<1> QED BY <1>6 DEF c

\* A part grows by the sample that follows it.
LEMMA PartGrows ==
  ASSUME NEW S, Timed(S), NEW s \in Seq(S), NEW a, NEW b \in Nat, b < Len(s), NEW c, Part(S, c, s, a, b)
  PROVE  Part(S, Append(c, s[b + 1]), s, a, b + 1)
<1> DEFINE e == s[b + 1]
           d == Append(c, e)
<1>1. a \in Nat /\ a <= b /\ c \in Seq(S) /\ Len(c) = b - a
  BY DEF Part
<1>2. Len(s) \in Nat /\ e \in S
  BY TimesOf
<1>3. /\ d \in Seq(S)
      /\ Len(d) = Len(c) + 1
      /\ \A i \in 1..Len(c) : d[i] = c[i]
      /\ d[Len(c) + 1] = e
  <2> HIDE DEF e
  <2> QED BY <1>1, <1>2, AppendProperties
<1> HIDE DEF d
<1>4. ASSUME NEW i \in 1..(b + 1 - a) PROVE d[i] = s[a + i]
  <2>1. CASE i <= b - a
    <3>1. d[i] = c[i] /\ c[i] = s[a + i]
      BY <1>1, <1>3, <2>1 DEF Part
    <3> QED BY <3>1
  <2>2. CASE i > b - a
    <3>1. i = Len(c) + 1 /\ a + i = b + 1
      BY <1>1, <2>2
    <3> QED BY <1>3, <3>1
  <2> QED BY <1>1, <2>1, <2>2
<1>5. Len(d) = b + 1 - a /\ b + 1 \in Nat /\ a <= b + 1 /\ b + 1 <= Len(s)
  BY <1>1, <1>2, <1>3
<1>6. Part(S, d, s, a, b + 1)
  BY <1>1, <1>3, <1>4, <1>5 DEF Part
<1> QED BY <1>6 DEF d

\* filterHistory, of a history in order that ends before the window does: what is
\* left is its end, from the first sample in the window on.
LEMMA FilterIsEnd ==
  ASSUME NEW S, Timed(S), NEW s \in Seq(S), NEW start \in Int, NEW end \in Int, Increasing(s, end)
  PROVE  \E k \in 0..Len(s) :
           /\ Part(S, FilterHistory(s, start, end), s, k, Len(s))
           /\ \A i \in 1..Len(s) : s[i].timestamp >= start <=> i > k
<1> DEFINE n == Len(s)
           T == {i \in 1..(n + 1) : i = n + 1 \/ s[i].timestamp >= start}
<1>1. n \in Nat /\ \A i \in 1..n : s[i].timestamp \in Nat
  BY TimesOf
<1>2. T \in SUBSET Nat /\ T # {}
  BY <1>1
<1>3. PICK m \in T : \A i \in T : m <= i
  <2> HIDE DEF T
  <2> QED BY <1>2, Least
<1> DEFINE k == m - 1
           low(i) == IF i < k THEN i ELSE k
           window == start..end
           Step(f) == [i \in 0..n |->
                         IF i = 0 THEN <<>>
                         ELSE IF s[i].timestamp \in window THEN Append(f[i - 1], s[i])
                         ELSE f[i - 1]]
           Right(f) == \A i \in 0..n : Part(S, f[i], s, low(i), i)
<1>4. k \in 0..n
  BY <1>1, <1>3
<1>5. ASSUME NEW i \in 1..n
      PROVE  s[i].timestamp >= start <=> i > k
  <2>1. m \in 1..(n + 1) /\ (m <= n => s[m].timestamp >= start) /\ i \in 1..(n + 1)
    BY <1>1, <1>3
  <2>2. CASE i < m
    BY <1>1, <1>3, <2>1, <2>2
  <2>3. CASE i >= m
    <3>1. m \in 1..n /\ s[m].timestamp >= start /\ s[m].timestamp <= s[i].timestamp
      BY <1>1, <2>1, <2>3 DEF Increasing
    <3> QED BY <1>1, <2>3, <3>1
  <2> QED BY <2>1, <2>2, <2>3
<1>6. \A i \in 1..n : s[i].timestamp \in window <=> i > k
  BY <1>1, <1>5 DEF Increasing
<1> HIDE DEF T, window, k
<1>7. ASSUME NEW i \in 1..n, NEW c, Part(S, c, s, low(i - 1), i - 1)
      PROVE  Part(S, IF i > k THEN Append(c, s[i]) ELSE c, s, low(i), i)
  <2>1. i \in Int /\ k \in Int /\ k >= 0 /\ i - 1 \in Nat /\ i - 1 < n /\ (i - 1) + 1 = i
    BY <1>1, <1>4
  <2>2. CASE i > k
    <3>1. low(i - 1) = k /\ low(i) = k
      BY <2>1, <2>2
    <3> HIDE DEF low
    <3>2. Part(S, c, s, k, i - 1)
      BY <1>7, <3>1
    <3>3. Part(S, Append(c, s[i]), s, k, i)
      BY <2>1, <3>2, PartGrows
    <3> QED BY <2>2, <3>1, <3>3
  <2>3. CASE i <= k
    <3>1. low(i - 1) = i - 1 /\ low(i) = i
      BY <2>1, <2>3
    <3> HIDE DEF low
    <3>2. c \in Seq(S) /\ Len(c) = 0
      BY <1>7, <2>1, <3>1 DEF Part
    <3>3. i \in Nat /\ i <= n /\ i - i = 0 /\ 1..(i - i) = {}
      BY <2>1, <1>1
    <3>4. Part(S, c, s, i, i)
      BY <1>1, <3>2, <3>3 DEF Part
    <3>5. ~(i > k)
      BY <2>1, <2>3
    <3> QED BY <3>1, <3>4, <3>5
  <2> QED BY <2>1, <2>2, <2>3
\* The loop is such a function, and any such function is right.
<1>8. ASSUME NEW f, f = Step(f)
      PROVE  Right(f)
  <2> DEFINE Bad == {i \in 0..n : ~Part(S, f[i], s, low(i), i)}
  <2>1. f[0] = <<>>
    BY <1>1, <1>8
  <2>2. ASSUME NEW i \in 1..n
        PROVE  f[i] = IF i > k THEN Append(f[i - 1], s[i]) ELSE f[i - 1]
    <3>1. i \in 0..n /\ i # 0 /\ (s[i].timestamp \in window <=> i > k)
      BY <1>1, <1>6
    <3>2. f[i] = Step(f)[i]
      <4> HIDE DEF Step
      <4> QED BY <1>8
    <3> QED BY <3>1, <3>2
  <2>3. Part(S, f[0], s, low(0), 0)
    <3>1. low(0) = 0
      BY <1>4
    <3>2. <<>> \in Seq(S) /\ Len(<<>>) = 0
      BY EmptySeq
    <3> HIDE DEF low
    <3>3. Part(S, <<>>, s, 0, 0)
      BY <1>1, <3>2 DEF Part
    <3> QED BY <2>1, <3>1, <3>3
  <2>4. ASSUME Bad # {} PROVE FALSE
    <3>1. Bad \in SUBSET Nat
      OBVIOUS
    <3>2. PICK i \in Bad : \A j \in Bad : i <= j
      <4> HIDE DEF Bad
      <4> QED BY <2>4, <3>1, Least
    <3>3. i \in 0..n /\ i # 0 /\ ~Part(S, f[i], s, low(i), i)
      <4> HIDE DEF low
      <4> QED BY <2>3
    <3>4. i \in 1..n /\ i - 1 \in 0..n /\ i - 1 < i
      BY <1>1, <3>3
    <3>5. i - 1 \notin Bad
      <4> HIDE DEF Bad
      <4> QED BY <3>2, <3>4
    <3> HIDE DEF low
    <3>6. Part(S, f[i - 1], s, low(i - 1), i - 1)
      BY <3>4, <3>5
    <3>7. Part(S, f[i], s, low(i), i)
      <4>1. f[i] = IF i > k THEN Append(f[i - 1], s[i]) ELSE f[i - 1]
        BY <2>2, <3>4
      <4>2. Part(S, IF i > k THEN Append(f[i - 1], s[i]) ELSE f[i - 1], s, low(i), i)
        BY <1>7, <3>4, <3>6
      <4> QED BY <4>1, <4>2
    <3> QED BY <3>3, <3>7
  <2> QED
    <3> HIDE DEF low
    <3> QED BY <2>4
<1>9. \E f : f = Step(f)
  <2> DEFINE g == [i \in 0..n |-> SubSeq(s, low(i) + 1, i)]
  <2>1. ASSUME NEW i \in 0..n PROVE Part(S, g[i], s, low(i), i)
    <3>1. low(i) \in Nat /\ low(i) <= i /\ i \in Nat /\ i <= Len(s)
      BY <1>1, <1>4
    <3> HIDE DEF low
    <3>2. g[i] = SubSeq(s, low(i) + 1, i)
      OBVIOUS
    <3> QED BY <3>1, <3>2, SubSeqIsPart
  <2>2. g[0] = <<>>
    <3>1. low(0) = 0 /\ 0 \in 0..n
      BY <1>1, <1>4
    <3>2. Part(S, g[0], s, 0, 0)
      BY <2>1, <3>1
    <3> HIDE DEF g
    <3>3. g[0] \in Seq(S) /\ Len(g[0]) = 0
      BY <3>2 DEF Part
    <3> QED BY <3>3, EmptySeq
  <2>3. ASSUME NEW i \in 1..n
        PROVE  g[i] = IF i > k THEN Append(g[i - 1], s[i]) ELSE g[i - 1]
    <3>1. i - 1 \in 0..n /\ i \in 0..n
      BY <1>1
    <3> HIDE DEF low, g
    <3>2. Part(S, g[i - 1], s, low(i - 1), i - 1) /\ Part(S, g[i], s, low(i), i)
      BY <2>1, <3>1
    <3>3. Part(S, IF i > k THEN Append(g[i - 1], s[i]) ELSE g[i - 1], s, low(i), i)
      BY <1>7, <3>2
    <3> QED BY <3>2, <3>3, PartIsUnique
  <2>4. g = Step(g)
    <3>1. g = [i \in 0..n |-> g[i]]
      OBVIOUS
    <3> HIDE DEF g
    <3>2. \A i \in 0..n :
            g[i] = IF i = 0 THEN <<>>
                   ELSE IF s[i].timestamp \in window THEN Append(g[i - 1], s[i])
                   ELSE g[i - 1]
      BY <1>1, <1>6, <2>2, <2>3
    <3> QED BY <3>1, <3>2
  <2> HIDE DEF g
  <2> QED BY <2>4
<1>10. FilterHistory(s, start, end) = (CHOOSE f : f = Step(f))[n]
  BY DEF FilterHistory, Within, window
<1>11. PICK f : f = Step(f) /\ FilterHistory(s, start, end) = f[n]
  <2> HIDE DEF Step
  <2> QED BY <1>9, <1>10
<1>12. Part(S, FilterHistory(s, start, end), s, k, n)
  <2>1. Right(f)
    <3> HIDE DEF Step, Right
    <3> QED BY <1>8, <1>11
  <2>2. low(n) = k /\ n \in 0..n
    BY <1>1, <1>4
  <2> HIDE DEF low
  <2> QED BY <1>11, <2>1, <2>2
<1> QED
  BY <1>4, <1>5, <1>12

-----------------------------------------------------------------------------
(* What every step keeps.                                                  *)

\* A history in order grows in order.
LEMMA IncreasingGrows ==
  ASSUME NEW S, Timed(S), NEW s \in Seq(S), NEW t \in Nat, Increasing(s, t),
         NEW e \in S, e.timestamp = t, s # <<>> => Last(s).timestamp < t
  PROVE  Append(s, e) \in Seq(S) /\ Increasing(Append(s, e), t)
<1> DEFINE r == Append(s, e)
           n == Len(s)
<1>1. n \in Nat /\ \A i \in 1..n : s[i].timestamp \in Nat
  BY TimesOf
<1>2. /\ r \in Seq(S) /\ Len(r) = n + 1
      /\ \A i \in 1..n : r[i] = s[i]
      /\ r[n + 1] = e
  BY AppendProperties
<1> HIDE DEF r
<1>3. \A i \in 1..n : s[i].timestamp < t
  <2> SUFFICES ASSUME NEW i \in 1..n PROVE s[i].timestamp < t
    OBVIOUS
  <2>1. s # <<>>
    BY <1>1, EmptySeq
  <2>2. s[n].timestamp < t /\ n \in 1..n
    BY <1>1, <2>1 DEF Last
  <2>3. i = n \/ s[i].timestamp < s[n].timestamp
    BY <1>1, <2>2 DEF Increasing
  <2> QED BY <1>1, <2>2, <2>3
<1>4. ASSUME NEW i \in 1..Len(r), NEW j \in 1..Len(r), i < j
      PROVE  r[i].timestamp < r[j].timestamp
  <2>1. i \in 1..n /\ r[i] = s[i]
    BY <1>1, <1>2, <1>4
  <2>2. CASE j = n + 1
    BY <1>2, <1>3, <2>1, <2>2
  <2>3. CASE j # n + 1
    <3>1. j \in 1..n /\ r[j] = s[j]
      BY <1>1, <1>2, <2>3
    <3> QED BY <1>4, <2>1, <3>1 DEF Increasing
  <2> QED BY <2>2, <2>3
<1>5. ASSUME NEW i \in 1..Len(r) PROVE r[i].timestamp <= t
  <2>1. CASE i = n + 1
    BY <1>2, <2>1
  <2>2. CASE i # n + 1
    <3>1. i \in 1..n /\ r[i] = s[i]
      BY <1>1, <1>2, <2>2
    <3> QED BY <1>1, <1>3, <3>1
  <2> QED BY <2>1, <2>2
<1> QED BY <1>2, <1>4, <1>5 DEF r, Increasing

LEMMA PageInit == Init => PageInv
<1> SUFFICES ASSUME Init PROVE PageInv
  OBVIOUS
<1>1. /\ checks = <<>> /\ probes = <<>> /\ now = 0 /\ fetched = {}
      /\ <<>> \in Seq(Check) /\ <<>> \in Seq(Probe) /\ Len(<<>>) = 0
  BY EmptySeq DEF Init
<1>2. Increasing(<<>>, 0)
  BY <1>1 DEF Increasing
<1> QED BY <1>1, <1>2, FS_EmptySet DEF PageInv

LEMMA PageStep == PageInv /\ [Next]_vars => PageInv'
<1> SUFFICES ASSUME PageInv, [Next]_vars PROVE PageInv'
  OBVIOUS
<1>1. /\ now \in Nat /\ fetched \subseteq PeerNodes /\ IsFiniteSet(fetched)
      /\ checks \in Seq(Check) /\ Increasing(checks, now)
      /\ probes \in Seq(Probe) /\ Increasing(probes, now)
  BY DEF PageInv
<1>2. CASE Wait
  <2> DEFINE T == {t \in Moments : t > now}
  <2>1. T \in SUBSET Nat /\ T # {} /\ now' = Min(T)
    BY <1>2, PageAssumption DEF Wait
  <2>2. now' \in T
    <3> HIDE DEF T
    <3> QED BY <2>1, MinIs
  <2>3. now' \in Nat /\ now <= now'
    BY <2>1, <2>2, <1>1
  <2>4. ASSUME NEW S, Timed(S), NEW s \in Seq(S), Increasing(s, now)
        PROVE  Increasing(s, now')
    <3>1. \A i \in 1..Len(s) : s[i].timestamp \in Nat /\ s[i].timestamp <= now
      BY <2>4, TimesOf DEF Increasing
    <3>2. \A i \in 1..Len(s) : s[i].timestamp <= now'
      BY <1>1, <2>3, <3>1
    <3> QED BY <2>4, <3>2 DEF Increasing
  <2>5. checks' = checks /\ probes' = probes /\ fetched' = fetched
    BY <1>2 DEF Wait
  <2>6. Increasing(checks, now') /\ Increasing(probes, now')
    BY <1>1, <2>4, Times
  <2> QED BY <1>1, <2>3, <2>5, <2>6 DEF PageInv
<1>3. CASE RunOnce
  <2>1. PICK o \in Output :
          checks' = Append(checks, [timestamp |-> now, ok |-> CheckTarget(o[1], o[2]).ok,
                                    state |-> CheckTarget(o[1], o[2]).state,
                                    error |-> CheckTarget(o[1], o[2]).error])
    BY <1>3 DEF RunOnce
  <2> DEFINE e == [timestamp |-> now, ok |-> CheckTarget(o[1], o[2]).ok,
                   state |-> CheckTarget(o[1], o[2]).state,
                   error |-> CheckTarget(o[1], o[2]).error]
  <2>2. e \in Check /\ e.timestamp = now
    <3>1. /\ o[1] \in {"active", "inactive", "activating", "", "refused"}
          /\ o[2] \in BOOLEAN
      <4>1. \/ o = <<"active", FALSE>> \/ o = <<"inactive", TRUE>>
            \/ o = <<"activating", TRUE>> \/ o = <<"", TRUE>> \/ o = <<"refused", TRUE>>
        BY Zenon DEF Output
      <4>2. /\ <<"active", FALSE>>[1] = "active" /\ <<"active", FALSE>>[2] = FALSE
            /\ <<"inactive", TRUE>>[1] = "inactive" /\ <<"inactive", TRUE>>[2] = TRUE
            /\ <<"activating", TRUE>>[1] = "activating" /\ <<"activating", TRUE>>[2] = TRUE
            /\ <<"", TRUE>>[1] = "" /\ <<"", TRUE>>[2] = TRUE
            /\ <<"refused", TRUE>>[1] = "refused" /\ <<"refused", TRUE>>[2] = TRUE
        OBVIOUS
      <4> QED BY <4>1, <4>2, Zenon
    <3>2. /\ CheckTarget(o[1], o[2]).ok = (o[1] = "active")
          /\ CheckTarget(o[1], o[2]).state \in States
          /\ CheckTarget(o[1], o[2]).state = "active" <=> o[1] = "active"
          /\ CheckTarget(o[1], o[2]).error \in BOOLEAN
      BY <3>1 DEF CheckTarget, States
    <3>3. e.ok = (o[1] = "active") /\ (e.state = "active" <=> o[1] = "active")
      BY <3>2
    <3>4. e \in [timestamp : Nat, ok : BOOLEAN, state : States, error : BOOLEAN]
      BY <1>1, <3>2
    <3> HIDE DEF e
    <3>5. e \in Check
      BY <3>3, <3>4 DEF Check
    <3>6. e.timestamp = now
      BY DEF e
    <3> QED BY <3>5, <3>6
  <2>3. checks' = Append(checks, e)
    BY <2>1
  <2>4. checks # <<>> => Last(checks).timestamp < now
    BY <1>3 DEF RunOnce, Due
  <2> HIDE DEF e
  <2>5. Append(checks, e) \in Seq(Check) /\ Increasing(Append(checks, e), now)
    BY <1>1, <2>2, <2>4, Times, IncreasingGrows
  <2>6. now' = now /\ probes' = probes /\ fetched' = fetched
    BY <1>3 DEF RunOnce
  <2> QED BY <1>1, <2>3, <2>5, <2>6 DEF PageInv
<1>4. CASE RunProbe
  <2>1. PICK ok \in BOOLEAN :
          probes' = Append(probes, [timestamp |-> now, ok |-> ok, error |-> ~ok])
    BY <1>4 DEF RunProbe
  <2> DEFINE e == [timestamp |-> now, ok |-> ok, error |-> ~ok]
  <2>2. e \in Probe /\ e.timestamp = now
    BY <1>1 DEF Probe
  <2>3. probes' = Append(probes, e)
    BY <2>1
  <2>4. probes # <<>> => Last(probes).timestamp < now
    BY <1>4 DEF RunProbe, Due
  <2> HIDE DEF e
  <2>5. Append(probes, e) \in Seq(Probe) /\ Increasing(Append(probes, e), now)
    BY <1>1, <2>2, <2>4, Times, IncreasingGrows
  <2>6. now' = now /\ checks' = checks /\ fetched' = fetched
    BY <1>4 DEF RunProbe
  <2> QED BY <1>1, <2>3, <2>5, <2>6 DEF PageInv
<1>5. CASE FetchPeer \/ FetchFails
  <2>1. PICK n \in PeerNodes : fetched' = fetched \cup {n} \/ fetched' = fetched \ {n}
    BY <1>1, <1>5 DEF FetchPeer, FetchFails
  <2>2. fetched' \subseteq PeerNodes /\ IsFiniteSet(fetched')
    BY <1>1, <2>1, FS_AddElement, FS_RemoveElement
  <2>3. now' = now /\ checks' = checks /\ probes' = probes
    BY <1>5 DEF FetchPeer, FetchFails
  <2> QED BY <1>1, <2>2, <2>3 DEF PageInv
<1>6. CASE UNCHANGED vars
  BY <1>1, <1>6 DEF vars, PageInv
<1> QED BY <1>2, <1>3, <1>4, <1>5, <1>6 DEF Next

\* Both histories are in order, and say of each round and each probe what it found.
THEOREM PageInvariant == Spec => []PageInv
<1>1. Init => PageInv
  BY PageInit
<1>2. PageInv /\ [Next]_vars => PageInv'
  BY PageStep
<1> QED BY <1>1, <1>2, PTL DEF Spec

-----------------------------------------------------------------------------
(* Loops.                                                                  *)

\* Induction up to n.
LEMMA UpTo ==
  ASSUME NEW n \in Nat, NEW Good, 0 \in Good,
         \A i \in 1..n : i - 1 \in Good => i \in Good
  PROVE  \A i \in 0..n : i \in Good
<1> DEFINE Bad == {i \in 0..n : i \notin Good}
<1>1. ASSUME Bad # {} PROVE FALSE
  <2>1. Bad \in SUBSET Nat
    OBVIOUS
  <2>2. PICK m \in Bad : \A i \in Bad : m <= i
    <3> HIDE DEF Bad
    <3> QED BY <1>1, <2>1, Least
  <2>3. m \in 1..n /\ m - 1 \in 0..n /\ m - 1 < m
    BY <2>2
  <2>4. m - 1 \in Good
    BY <2>2, <2>3
  <2> QED BY <2>2, <2>3, <2>4
<1> QED BY <1>1

\* What the rounds of a loop do to its variables.
Rounds(n, X) == [1..n -> [X -> X]]

\* f is what they are after each round.
Runs(f, n, X, base, G) == /\ f \in [0..n -> X]
                          /\ f[0] = base
                          /\ \A i \in 1..n : f[i] = G[i][f[i - 1]]

\* A loop of n rounds defines a function.
LEMMA Recursion ==
  ASSUME NEW n \in Nat, NEW X, NEW base \in X, NEW G \in Rounds(n, X)
  PROVE  \E f : Runs(f, n, X, base, G)
<1>0. G \in [1..n -> [X -> X]]
  BY DEF Rounds
<1> DEFINE Steps(k, f) == f[0] = base /\ \A i \in 1..k : f[i] = G[i][f[i - 1]]
           Good == {k \in 0..n : \E f \in [0..k -> X] : Steps(k, f)}
<1>1. 0 \in Good
  <2>1. [i \in 0..0 |-> base] \in [0..0 -> X] /\ Steps(0, [i \in 0..0 |-> base])
    OBVIOUS
  <2>2. 0 \in 0..n
    OBVIOUS
  <2> HIDE DEF Steps
  <2> QED BY <2>1, <2>2
<1>2. ASSUME NEW k \in 1..n, k - 1 \in Good PROVE k \in Good
  <2>1. PICK f \in [0..(k - 1) -> X] : Steps(k - 1, f)
    BY <1>2
  <2> DEFINE g == [i \in 0..k |-> IF i = k THEN G[k][f[k - 1]] ELSE f[i]]
  <2>2. f[k - 1] \in X /\ G[k][f[k - 1]] \in X
    BY <1>0
  <2>3. g \in [0..k -> X]
    <3> SUFFICES ASSUME NEW i \in 0..k PROVE g[i] \in X
      OBVIOUS
    <3>1. i # k => i \in 0..(k - 1)
      OBVIOUS
    <3> QED BY <2>2, <3>1
  <2>4. g[0] = base
    BY <2>1
  <2>5. ASSUME NEW i \in 1..k PROVE g[i] = G[i][g[i - 1]]
    <3>1. i - 1 \in 0..(k - 1) /\ g[i - 1] = f[i - 1]
      OBVIOUS
    <3>2. CASE i = k
      BY <3>1, <3>2
    <3>3. CASE i # k
      <4>1. i \in 1..(k - 1) /\ g[i] = f[i]
        BY <3>3
      <4> QED BY <2>1, <3>1, <4>1
    <3> QED BY <3>2, <3>3
  <2> HIDE DEF g
  <2>6. Steps(k, g)
    BY <2>4, <2>5
  <2> HIDE DEF Steps
  <2>7. k \in 0..n
    OBVIOUS
  <2> QED BY <2>3, <2>6, <2>7
<1>3. \A k \in 0..n : k \in Good
  <2> HIDE DEF Good
  <2> QED BY <1>1, <1>2, UpTo
<1>4. PICK f \in [0..n -> X] : Steps(n, f)
  BY <1>3
<1>5. Runs(f, n, X, base, G)
  BY <1>4 DEF Runs
<1> QED BY <1>5

-----------------------------------------------------------------------------
(* Sorting.                                                                *)

\* What is in order is left as it is.
LEMMA SortedSame ==
  ASSUME NEW S, Timed(S), NEW s \in Seq(S), NEW t, Increasing(s, t)
  PROVE  ByTime(s) = s
<1> DEFINE n == Len(s)
           Precedes(j, i) == \/ Earlier(s[j], s[i])
                             \/ ~Earlier(s[i], s[j]) /\ j < i
<1>1. n \in Nat /\ s \in [1..n -> S] /\ \A i \in 1..n : s[i].timestamp \in Nat
  BY TimesOf, LenProperties
<1>2. ASSUME NEW i \in 1..n, NEW j \in 1..n PROVE Precedes(j, i) <=> j < i
  <2>1. /\ i < j => s[i].timestamp < s[j].timestamp
        /\ j < i => s[j].timestamp < s[i].timestamp
    BY DEF Increasing
  <2> QED BY <1>1, <2>1 DEF Earlier
<1>3. ASSUME NEW i \in 1..n
      PROVE  Cardinality({j \in 1..n : Precedes(j, i)}) = i - 1
  <2>1. {j \in 1..n : Precedes(j, i)} = 1..(i - 1)
    <3> HIDE DEF Precedes
    <3> QED BY <1>1, <1>2
  <2>2. 1 \in Int /\ i - 1 \in Int
    OBVIOUS
  <2>3. Cardinality(1..(i - 1)) = IF 1 > i - 1 THEN 0 ELSE (i - 1) - 1 + 1
    BY <2>2, FS_Interval
  <2>4. Cardinality(1..(i - 1)) = i - 1
    BY <2>3
  <2> QED BY <2>1, <2>4
<1>4. Cardinality(1..n) = n
  <2>1. Cardinality(1..n) = IF 1 > n THEN 0 ELSE n - 1 + 1
    BY <1>1, FS_Interval
  <2> QED BY <1>1, <2>1
<1>5. ByTime(s) = [m \in 1..n |->
                     s[CHOOSE i \in 1..n : Cardinality({j \in 1..n : Precedes(j, i)}) = m - 1]]
  BY <1>4 DEF ByTime, Sorted
<1> HIDE DEF Precedes
<1>6. ASSUME NEW m \in 1..n
      PROVE  (CHOOSE i \in 1..n : Cardinality({j \in 1..n : Precedes(j, i)}) = m - 1) = m
  BY <1>1, <1>3
<1>7. ByTime(s) = [m \in 1..n |-> s[m]]
  BY <1>5, <1>6
<1> QED BY <1>1, <1>7

-----------------------------------------------------------------------------
(* Time divided into slots.                                                *)

\* k slots b, one after the other, from start to end.
Tiles(b, k, start, end) ==
  /\ k \in Nat \ {0} /\ DOMAIN b = 1..k
  /\ \A i \in 1..k : /\ b[i].start \in Int /\ b[i].end \in Int
                     /\ start <= b[i].start /\ b[i].start <= b[i].end /\ b[i].end <= end
  /\ b[1].start = start /\ b[k].end = end
  /\ \A i \in 1..(k - 1) : b[i].end = b[i + 1].start
  /\ \A i, j \in 1..k : i < j => b[i].end <= b[j].start

LEMMA Multiples ==
  ASSUME NEW a \in Nat, NEW d \in Nat
  PROVE  /\ a * d \in Nat
         /\ (a + 1) * d = a * d + d
         /\ \A b \in Nat : a <= b => a * d <= b * d
OBVIOUS

\* Any time but the end is in one of them.
LEMMA TilesCover ==
  ASSUME NEW b, NEW k, NEW start \in Int, NEW end \in Int, Tiles(b, k, start, end),
         NEW t \in Int, start <= t, t < end
  PROVE  \E i \in 1..k : In(t, b[i])
<1> DEFINE T == {i \in 1..k : t < b[i].end}
<1>1. T \in SUBSET Nat /\ k \in T
  BY DEF Tiles
<1>2. PICK i \in T : \A j \in T : i <= j
  <2> HIDE DEF T
  <2> QED BY <1>1, Least
<1>3. i \in 1..k /\ t < b[i].end /\ k \in Nat
  BY <1>2 DEF Tiles
<1>4. b[i].start <= t
  <2>1. CASE i = 1
    BY <2>1 DEF Tiles
  <2>2. CASE i # 1
    <3>1. i - 1 \in 1..(k - 1) /\ i - 1 \in 1..k /\ (i - 1) + 1 = i
      BY <1>3, <2>2
    <3>2. b[i - 1].end = b[i].start /\ b[i - 1].end \in Int
      BY <3>1 DEF Tiles
    <3>3. ~(t < b[i - 1].end)
      BY <1>2, <3>1
    <3> QED BY <3>2, <3>3
  <2> QED BY <2>1, <2>2
<1> QED BY <1>3, <1>4 DEF In

\* The dots of a timeline.
LEMMA BucketsTile ==
  ASSUME NEW start \in Int, NEW end \in Int, start <= end
  PROVE  Tiles(BucketsOf(start, end), Points, start, end)
<1> DEFINE d == (end - start) \div Points
           b == BucketsOf(start, end)
<1>1. Points \in Nat \ {0} /\ end - start \in Nat
  BY TimelineAssumption
<1>2. d \in Nat /\ Points * d <= end - start
  <2> DEFINE x == end - start
  <2>1. x \in Nat /\ d = x \div Points
    BY <1>1
  <2> HIDE DEF x, d
  <2> QED BY <1>1, <2>1 DEF x
<1>3. DOMAIN b = 1..Points
  BY DEF BucketsOf
<1>4. ASSUME NEW i \in 1..Points
      PROVE  /\ b[i].start = start + (i - 1) * d
             /\ b[i].end = IF i = Points THEN end ELSE start + i * d
  BY DEF BucketsOf
<1> HIDE DEF d, b
<1>5. ASSUME NEW i \in 1..Points
      PROVE  /\ (i - 1) * d \in Nat /\ i * d \in Nat
             /\ i * d = (i - 1) * d + d
             /\ i * d <= end - start
  <2>1. i - 1 \in Nat /\ i \in Nat /\ (i - 1) + 1 = i /\ i <= Points
    BY <1>1
  <2>2. (i - 1) * d \in Nat /\ i * d = (i - 1) * d + d /\ i * d \in Nat
    BY <1>2, <2>1, Multiples
  <2>3. i * d <= Points * d /\ Points * d \in Nat
    BY <1>1, <1>2, <2>1, Multiples
  <2> QED BY <1>1, <1>2, <2>2, <2>3
<1>6. ASSUME NEW i \in 1..Points
      PROVE  /\ b[i].start \in Int /\ b[i].end \in Int
             /\ start <= b[i].start /\ b[i].start <= b[i].end /\ b[i].end <= end
  <2> DEFINE x == (i - 1) * d
             y == i * d
  <2>1. x \in Nat /\ y \in Nat /\ y = x + d /\ y <= end - start
    BY <1>5
  <2>2. b[i].start = start + x /\ b[i].end = IF i = Points THEN end ELSE start + y
    BY <1>4
  <2> HIDE DEF x, y
  <2> QED BY <1>1, <1>2, <2>1, <2>2
<1>7. b[1].start = start /\ b[Points].end = end
  <2>1. 1 \in 1..Points /\ Points \in 1..Points /\ (1 - 1) * d = 0
    BY <1>1, <1>2
  <2>2. b[1].start = start + (1 - 1) * d /\ b[Points].end = end
    BY <1>4, <2>1
  <2> QED BY <2>1, <2>2
<1>8. ASSUME NEW i \in 1..(Points - 1) PROVE b[i].end = b[i + 1].start
  <2>1. i \in 1..Points /\ i + 1 \in 1..Points /\ i # Points /\ (i + 1) - 1 = i
    BY <1>1
  <2>2. b[i].end = start + i * d
    BY <1>4, <2>1
  <2>3. b[i + 1].start = start + ((i + 1) - 1) * d
    BY <1>4, <2>1
  <2> QED BY <2>1, <2>2, <2>3
<1>9. ASSUME NEW i \in 1..Points, NEW j \in 1..Points, i < j
      PROVE  b[i].end <= b[j].start
  <2>1. i \in Nat /\ j - 1 \in Nat /\ i <= j - 1 /\ i # Points
    BY <1>1, <1>9
  <2>2. i * d <= (j - 1) * d
    BY <1>2, <2>1, Multiples
  <2> DEFINE x == i * d
             y == (j - 1) * d
  <2>3. x \in Nat /\ y \in Nat /\ x <= y
    BY <1>2, <2>1, <2>2, Multiples
  <2>4. b[i].end = start + x /\ b[j].start = start + y
    BY <1>4, <2>1
  <2> HIDE DEF x, y
  <2> QED BY <2>3, <2>4
<1> QED BY <1>1, <1>3, <1>6, <1>7, <1>8, <1>9 DEF Tiles, b

\* The lights of the overview.
LEMMA LightsTile ==
  ASSUME now \in Nat
  PROVE  /\ WindowStart \in Int /\ WindowStart < now
         /\ Tiles(Buckets, Count, WindowStart, now)
<1> DEFINE b == Buckets
           d == Width
           start == WindowStart
           all == d * Count
<1>1. Count \in Nat \ {0} /\ d \in Nat \ {0}
  BY OverviewAssumption
<1>2. all \in Nat /\ all > 0 /\ all = Count * d
  BY <1>1
<1>3. start = now - all
  BY DEF WindowStart
<1>4. DOMAIN b = 1..Count
  BY DEF Buckets, TimeBuckets
<1>5. ASSUME NEW i \in 1..Count
      PROVE  b[i].start = start + (i - 1) * d /\ b[i].end = start + i * d
  BY DEF Buckets, TimeBuckets
<1> HIDE DEF d, b, start, all
<1>6. start \in Int /\ start < now
  BY <1>2, <1>3
<1>7. ASSUME NEW i \in 1..Count
      PROVE  /\ b[i].start \in Int /\ b[i].end \in Int
             /\ start <= b[i].start /\ b[i].start <= b[i].end /\ b[i].end <= now
  <2> DEFINE x == (i - 1) * d
             y == i * d
  <2>1. i - 1 \in Nat /\ i \in Nat /\ (i - 1) + 1 = i /\ i <= Count
    BY <1>1
  <2>2. x \in Nat /\ y = x + d /\ y \in Nat
    BY <1>1, <2>1, Multiples
  <2>3. y <= all
    BY <1>1, <1>2, <2>1, Multiples
  <2>4. b[i].start = start + x /\ b[i].end = start + y
    BY <1>5
  <2> HIDE DEF x, y
  <2> QED BY <1>1, <1>2, <1>3, <1>6, <2>2, <2>3, <2>4
<1>8. b[1].start = start /\ b[Count].end = now
  <2>1. 1 \in 1..Count /\ Count \in 1..Count /\ (1 - 1) * d = 0
    BY <1>1
  <2>2. b[1].start = start + (1 - 1) * d /\ b[Count].end = start + all
    BY <1>2, <1>5, <2>1
  <2> QED BY <1>2, <1>3, <1>6, <2>1, <2>2
<1>9. ASSUME NEW i \in 1..(Count - 1) PROVE b[i].end = b[i + 1].start
  <2>1. i \in 1..Count /\ i + 1 \in 1..Count /\ (i + 1) - 1 = i
    BY <1>1
  <2>2. b[i].end = start + i * d
    BY <1>5, <2>1
  <2>3. b[i + 1].start = start + ((i + 1) - 1) * d
    BY <1>5, <2>1
  <2> QED BY <2>1, <2>2, <2>3
<1>10. ASSUME NEW i \in 1..Count, NEW j \in 1..Count, i < j
       PROVE  b[i].end <= b[j].start
  <2>1. i \in Nat /\ j - 1 \in Nat /\ i <= j - 1
    BY <1>1, <1>10
  <2>2. i * d <= (j - 1) * d
    BY <1>1, <2>1, Multiples
  <2> DEFINE x == i * d
             y == (j - 1) * d
  <2>3. x \in Nat /\ y \in Nat /\ x <= y
    BY <1>1, <2>1, <2>2, Multiples
  <2>4. b[i].end = start + x /\ b[j].start = start + y
    BY <1>5
  <2> HIDE DEF x, y
  <2> QED BY <1>6, <2>3, <2>4
<1> QED BY <1>1, <1>4, <1>6, <1>7, <1>8, <1>9, <1>10 DEF Tiles, b, start

-----------------------------------------------------------------------------
(* The dots of a service.                                                  *)

\* c is the place in s of the first sample that is not before time t.
Cursor(s, c, t) == /\ c \in 1..(Len(s) + 1)
                   /\ \A m \in 1..Len(s) : m < c <=> s[m].timestamp < t

\* The samples of s in a slot.
Chunked(S, c, s, slot) ==
  \E x \in 0..Len(s), y \in 0..Len(s) :
    /\ Part(S, c, s, x, y)
    /\ \A m \in 1..Len(s) : x < m /\ m <= y <=> In(s[m].timestamp, slot)

LEMMA FirstFromIs ==
  ASSUME NEW S, Timed(S), NEW s \in Seq(S), NEW u, Increasing(s, u),
         NEW k \in 1..(Len(s) + 1), NEW t \in Int
  PROVE  /\ FirstFrom(s, k, t) \in k..(Len(s) + 1)
         /\ \A m \in k..Len(s) : m < FirstFrom(s, k, t) <=> s[m].timestamp < t
<1> DEFINE n == Len(s)
           T == {m \in k..n : s[m].timestamp >= t} \cup {n + 1}
           j == FirstFrom(s, k, t)
<1>1. n \in Nat /\ k \in Nat /\ \A m \in 1..n : s[m].timestamp \in Nat
  BY TimesOf
<1>2. T \in SUBSET Nat /\ T # {} /\ j = Min(T)
  BY <1>1 DEF FirstFrom
<1>3. j \in T /\ \A m \in T : j <= m
  <2> HIDE DEF T, j
  <2> QED BY <1>2, MinIs
<1>4. j \in k..(n + 1)
  BY <1>1, <1>3
<1>5. ASSUME NEW m \in k..n PROVE m < j <=> s[m].timestamp < t
  <2>1. m \in 1..n /\ s[m].timestamp \in Nat
    BY <1>1
  <2>2. ASSUME m < j PROVE s[m].timestamp < t
    <3>1. m \notin T
      <4> HIDE DEF T, j
      <4> QED BY <1>1, <1>3, <1>4, <2>1, <2>2
    <3> QED BY <2>1, <3>1
  <2>3. ASSUME ~(m < j) PROVE ~(s[m].timestamp < t)
    <3>1. j \in k..n /\ j <= m
      BY <1>1, <1>4, <2>1, <2>3
    <3>2. j \in 1..n /\ s[j].timestamp >= t /\ s[j].timestamp \in Nat
      <4> HIDE DEF j
      <4> QED BY <1>1, <1>3, <3>1
    <3>3. j = m \/ s[j].timestamp < s[m].timestamp
      <4> HIDE DEF j
      <4> QED BY <1>1, <2>1, <3>1, <3>2 DEF Increasing
    <3> HIDE DEF j
    <3> QED BY <2>1, <3>2, <3>3
  <2> QED BY <2>2, <2>3
<1> QED BY <1>4, <1>5

\* collectBucketSamples stays within the samples, wherever the cursor is.
LEMMA CollectType ==
  ASSUME NEW S, Timed(S), NEW s \in Seq(S), NEW u, Increasing(s, u),
         NEW slot, slot.start \in Int, slot.end \in Int, NEW c \in 1..(Len(s) + 1)
  PROVE  \E i \in 1..(Len(s) + 1), j \in 1..(Len(s) + 1) :
           /\ i = FirstFrom(s, c, slot.start) /\ j = FirstFrom(s, i, slot.end)
           /\ c <= i /\ i <= j
           /\ CollectBucketSamples(s, slot, c) = [chunk |-> SubSeq(s, i, j - 1), cursor |-> j]
           /\ Part(S, SubSeq(s, i, j - 1), s, i - 1, j - 1)
<1>1. Len(s) \in Nat
  BY TimesOf
<1>2. PICK i \in c..(Len(s) + 1) : i = FirstFrom(s, c, slot.start)
  BY FirstFromIs
<1>3. i \in 1..(Len(s) + 1) /\ c <= i
  BY <1>1, <1>2
<1>4. PICK j \in i..(Len(s) + 1) : j = FirstFrom(s, i, slot.end)
  BY <1>3, FirstFromIs
<1>5. j \in 1..(Len(s) + 1) /\ i <= j
  BY <1>1, <1>3, <1>4
<1>6. i - 1 \in Nat /\ j - 1 \in Nat /\ i - 1 <= j - 1 /\ j - 1 <= Len(s) /\ (i - 1) + 1 = i
  BY <1>1, <1>3, <1>5
<1>7. Part(S, SubSeq(s, (i - 1) + 1, j - 1), s, i - 1, j - 1)
  BY <1>6, SubSeqIsPart
<1>8. Part(S, SubSeq(s, i, j - 1), s, i - 1, j - 1)
  BY <1>6, <1>7
<1>9. CollectBucketSamples(s, slot, c) = [chunk |-> SubSeq(s, i, j - 1), cursor |-> j]
  BY <1>2, <1>4 DEF CollectBucketSamples
<1> QED BY <1>2, <1>3, <1>4, <1>5, <1>8, <1>9

\* From a cursor behind what was before a slot, it takes what is in the slot.
LEMMA CollectIs ==
  ASSUME NEW S, Timed(S), NEW s \in Seq(S), NEW u, Increasing(s, u),
         NEW slot, slot.start \in Int, slot.end \in Int, slot.start <= slot.end,
         NEW c \in 1..(Len(s) + 1),
         \A m \in 1..Len(s) : m < c => s[m].timestamp < slot.start
  PROVE  LET r == CollectBucketSamples(s, slot, c)
         IN  Cursor(s, r.cursor, slot.end) /\ Chunked(S, r.chunk, s, slot)
<1> DEFINE n == Len(s)
<1>1. n \in Nat /\ \A m \in 1..n : s[m].timestamp \in Nat
  BY TimesOf
<1>2. PICK i \in 1..(n + 1), j \in 1..(n + 1) :
           /\ i = FirstFrom(s, c, slot.start) /\ j = FirstFrom(s, i, slot.end)
           /\ c <= i /\ i <= j
           /\ CollectBucketSamples(s, slot, c) = [chunk |-> SubSeq(s, i, j - 1), cursor |-> j]
           /\ Part(S, SubSeq(s, i, j - 1), s, i - 1, j - 1)
  BY CollectType
<1>3. ASSUME NEW m \in 1..n PROVE m < i <=> s[m].timestamp < slot.start
  <2>1. CASE m < c
    BY <1>1, <1>2, <2>1
  <2>2. CASE ~(m < c)
    <3>1. m \in c..n
      BY <1>1, <2>2
    <3>2. \A k \in c..Len(s) :
            k < FirstFrom(s, c, slot.start) <=> s[k].timestamp < slot.start
      BY FirstFromIs
    <3> QED BY <1>2, <3>1, <3>2
  <2> QED BY <2>1, <2>2
<1>4. ASSUME NEW m \in 1..n PROVE m < j <=> s[m].timestamp < slot.end
  <2>1. CASE m < i
    <3> DEFINE t == s[m].timestamp
    <3>1. t < slot.start /\ t \in Nat
      BY <1>1, <1>3, <2>1
    <3> HIDE DEF t
    <3>2. t < slot.end
      BY <3>1
    <3>3. m < j
      BY <1>1, <1>2, <2>1
    <3> QED BY <3>2, <3>3 DEF t
  <2>2. CASE ~(m < i)
    <3>1. m \in i..n
      BY <1>1, <2>2
    <3> QED BY <1>2, <3>1, FirstFromIs
  <2> QED BY <2>1, <2>2
<1>5. Cursor(s, j, slot.end)
  BY <1>4 DEF Cursor
<1>6. ASSUME NEW m \in 1..n
      PROVE  i - 1 < m /\ m <= j - 1 <=> In(s[m].timestamp, slot)
  <2>1. /\ m < i <=> s[m].timestamp < slot.start
        /\ m < j <=> s[m].timestamp < slot.end
        /\ s[m].timestamp \in Nat
    BY <1>1, <1>3, <1>4
  <2> QED BY <1>1, <2>1 DEF In
<1>7. i - 1 \in 0..n /\ j - 1 \in 0..n
  BY <1>1
<1>8. Chunked(S, SubSeq(s, i, j - 1), s, slot)
  BY <1>2, <1>6, <1>7 DEF Chunked
<1> QED BY <1>2, <1>5, <1>8

\* buildTimeline: each bucket gets the samples of its time.
LEMMA ChunksAre ==
  ASSUME NEW S, Timed(S), NEW s \in Seq(S), NEW u, Increasing(s, u),
         NEW start \in Int, NEW end \in Int, start <= end, NEW i \in 1..Points
  PROVE  Chunked(S, Chunks(s, start, end)[i], s, BucketsOf(start, end)[i])
<1> DEFINE n == Len(s)
           b == BucketsOf(start, end)
           base == [chunk |-> <<>>, cursor |-> 1]
           Step(f) == [k \in 0..Points |->
                         IF k = 0 THEN base
                         ELSE CollectBucketSamples(s, b[k], f[k - 1].cursor)]
           X == [chunk : Seq(S), cursor : 1..(n + 1)]
<1>1. n \in Nat /\ \A m \in 1..n : s[m].timestamp \in Nat
  BY TimesOf
<1>2. Tiles(b, Points, start, end)
  BY BucketsTile
<1>3. /\ Points \in Nat \ {0}
      /\ \A k \in 1..Points : /\ b[k].start \in Int /\ b[k].end \in Int
                              /\ b[k].start <= b[k].end
      /\ \A k \in 1..(Points - 1) : b[k].end = b[k + 1].start
  BY <1>2 DEF Tiles
<1>4. base \in X /\ base.cursor = 1
  <2>1. <<>> \in Seq(S) /\ 1 \in 1..(n + 1)
    BY <1>1, EmptySeq
  <2> QED BY <2>1
<1> HIDE DEF b, base
<1>5. ASSUME NEW k \in 1..Points, NEW x \in X
      PROVE  CollectBucketSamples(s, b[k], x.cursor) \in X
  <2> DEFINE c == x.cursor
             slot == b[k]
  <2>0. c \in 1..(Len(s) + 1) /\ slot.start \in Int /\ slot.end \in Int
    BY <1>3
  <2> HIDE DEF c, slot, X, n
  <2>1. PICK y \in 1..(n + 1), z \in 1..(n + 1) :
          /\ CollectBucketSamples(s, slot, c)
               = [chunk |-> SubSeq(s, y, z - 1), cursor |-> z]
          /\ Part(S, SubSeq(s, y, z - 1), s, y - 1, z - 1)
    <3>1. \E y, z \in 1..(Len(s) + 1) :
            /\ y = FirstFrom(s, c, slot.start) /\ z = FirstFrom(s, y, slot.end)
            /\ c <= y /\ y <= z
            /\ CollectBucketSamples(s, slot, c)
                 = [chunk |-> SubSeq(s, y, z - 1), cursor |-> z]
            /\ Part(S, SubSeq(s, y, z - 1), s, y - 1, z - 1)
      BY <2>0, CollectType
    <3> QED BY <3>1 DEF n
  <2>2. SubSeq(s, y, z - 1) \in Seq(S)
    BY <2>1 DEF Part
  <2> QED BY <2>1, <2>2 DEF c, slot, X
<1>6. \E f : f = Step(f)
  <2> DEFINE G == [k \in 1..Points |-> [x \in X |->
                     CollectBucketSamples(s, b[k], x.cursor)]]
  <2>1. G \in Rounds(Points, X)
    <3> HIDE DEF X
    <3> QED BY <1>5 DEF Rounds
  <2>0. PICK f : Runs(f, Points, X, base, G)
    <3>1. Points \in Nat /\ base \in X
      BY <1>3, <1>4
    <3> HIDE DEF G, X
    <3> QED BY <2>1, <3>1, Recursion
  <2>2. /\ f \in [0..Points -> X]
        /\ f[0] = base /\ \A k \in 1..Points : f[k] = G[k][f[k - 1]]
    <3> HIDE DEF G, X
    <3> QED BY <2>0 DEF Runs
  <2>3. ASSUME NEW k \in 1..Points
        PROVE  f[k] = CollectBucketSamples(s, b[k], f[k - 1].cursor)
    <3>1. k - 1 \in 0..Points
      BY <1>3
    <3>2. f[k - 1] \in X
      <4> HIDE DEF X
      <4> QED BY <2>2, <3>1
    <3>3. G[k][f[k - 1]] = CollectBucketSamples(s, b[k], f[k - 1].cursor)
      <4> HIDE DEF X
      <4> QED BY <3>2
    <3> HIDE DEF G, X
    <3> QED BY <2>2, <3>3
  <2>4. ASSUME NEW k \in 0..Points
        PROVE  f[k] = Step(f)[k]
    <3>1. CASE k = 0
      BY <2>2, <3>1
    <3>2. CASE k # 0
      <4>1. k \in 1..Points
        BY <1>3, <3>2
      <4> QED BY <2>3, <3>2, <4>1
    <3> QED BY <3>1, <3>2
  <2>5. f = Step(f)
    <3>1. f \in [0..Points -> X] /\ DOMAIN f = 0..Points
      BY <2>2
    <3>2. f = [k \in 0..Points |-> f[k]]
      BY <3>1
    <3>3. Step(f) = [k \in 0..Points |-> Step(f)[k]]
      OBVIOUS
    <3> HIDE DEF Step
    <3> QED BY <2>4, <3>2, <3>3
  <2> QED BY <2>5
<1> DEFINE after == CHOOSE f : f = Step(f)
<1>7. after = Step(after)
  <2> HIDE DEF Step
  <2> QED BY <1>6
<1>8. ByTime(s) = s
  BY SortedSame
<1>9. Chunks(s, start, end)[i] = after[i].chunk
  BY <1>8 DEF Chunks, b, base
<1> HIDE DEF after
<1>10. /\ after[0] = base
       /\ \A k \in 1..Points : after[k] = CollectBucketSamples(s, b[k], after[k - 1].cursor)
  <2>1. after[0] = Step(after)[0] /\ \A k \in 1..Points : after[k] = Step(after)[k]
    <3> HIDE DEF Step
    <3> QED BY <1>7
  <2>2. Step(after)[0] = base
    BY <1>3
  <2>3. ASSUME NEW k \in 1..Points
        PROVE  Step(after)[k] = CollectBucketSamples(s, b[k], after[k - 1].cursor)
    <3>1. k \in 0..Points /\ k # 0
      BY <1>3
    <3> QED BY <3>1
  <2> HIDE DEF Step
  <2> QED BY <2>1, <2>2, <2>3
<1> HIDE DEF Step
<1> DEFINE Ready(k) == /\ after[k].cursor \in 1..(n + 1)
                       /\ k = 0 => after[k].cursor = 1
                       /\ k > 0 => Cursor(s, after[k].cursor, b[k].end)
           Good == {k \in 0..Points : Ready(k)}
<1>11. ASSUME NEW k \in 1..Points, Ready(k - 1)
       PROVE  /\ Cursor(s, after[k].cursor, b[k].end)
              /\ Chunked(S, after[k].chunk, s, b[k])
  <2> DEFINE c == after[k - 1].cursor
  <2>1. c \in 1..(n + 1)
    BY <1>11
  <2>2. ASSUME NEW m \in 1..n, m < c PROVE s[m].timestamp < b[k].start
    <3>1. CASE k = 1
      <4>1. c = 1
        BY <1>11, <3>1
      <4> HIDE DEF c
      <4> QED BY <1>1, <2>2, <4>1
    <3>2. CASE k # 1
      <4>1. k - 1 > 0 /\ k - 1 \in 1..(Points - 1) /\ (k - 1) + 1 = k
        BY <1>3, <3>2
      <4>2. Cursor(s, c, b[k - 1].end) /\ b[k - 1].end = b[k].start
        BY <1>3, <1>11, <4>1
      <4> HIDE DEF c
      <4> QED BY <2>2, <4>2 DEF Cursor
    <3> QED BY <3>1, <3>2
  <2>3. after[k] = CollectBucketSamples(s, b[k], c)
    BY <1>10
  <2> HIDE DEF c
  <2> QED BY <1>3, <2>1, <2>2, <2>3, CollectIs
<1>12. \A k \in 0..Points : k \in Good
  <2>1. 0 \in Good
    <3>1. after[0].cursor = 1 /\ 1 \in 1..(n + 1) /\ 0 \in 0..Points
      BY <1>1, <1>3, <1>4, <1>10
    <3> QED BY <3>1
  <2>2. ASSUME NEW k \in 1..Points, k - 1 \in Good PROVE k \in Good
    <3>1. Cursor(s, after[k].cursor, b[k].end)
      BY <1>11, <2>2
    <3>2. after[k].cursor \in 1..(n + 1) /\ k \in 0..Points /\ k # 0
      BY <1>3, <3>1 DEF Cursor
    <3> QED BY <3>1, <3>2
  <2> HIDE DEF Good
  <2> QED BY <1>3, <2>1, <2>2, UpTo
<1>13. Ready(i - 1)
  <2>1. i - 1 \in 0..Points
    BY <1>3
  <2> QED BY <1>12, <2>1
<1>14. Chunked(S, after[i].chunk, s, b[i])
  <2> HIDE DEF Ready
  <2> QED BY <1>11, <1>13
<1> QED BY <1>9, <1>14 DEF b

\* What is found in a slot, and what a dot makes of it.
Found(s, slot) == {KindOf(s[m]) : m \in {k \in 1..Len(s) : In(s[k].timestamp, slot)}}

Verdict(kinds) == IF "error" \in kinds THEN "error"
                  ELSE IF "missing" \in kinds \/ kinds = {} THEN "missing"
                  ELSE IF "warning" \in kinds THEN "warning"
                  ELSE "success"

\* What the text of systemctl counts as.
LEMMA KindIs ==
  ASSUME NEW c \in Check
  PROVE  KindOf(c) = CASE c.state = "active" -> "success"
                       [] c.state \in {"inactive", "refused"} -> "error"
                       [] c.state = "activating" -> "warning"
                       [] c.state = "unknown" -> "missing"
<1>1. c.state \in States /\ c.ok \in BOOLEAN /\ (c.ok <=> c.state = "active")
  BY DEF Check
<1>2. CASE c.state = "active"
  <2>1. c.ok /\ ~IsErrorState(c)
    BY <1>1, <1>2 DEF IsErrorState
  <2> QED BY <1>2, <2>1 DEF KindOf
<1>3. CASE c.state = "inactive"
  <2>1. ~c.ok /\ IsErrorState(c)
    BY <1>1, <1>3 DEF IsErrorState
  <2>2. KindOf(c) = "error"
    BY <1>3, <2>1 DEF KindOf, WarningStates
  <2>3. c.state \in {"inactive", "refused"} /\ c.state # "active"
    BY <1>3
  <2> QED BY <2>2, <2>3
<1>4. CASE c.state = "refused"
  <2>1. ~c.ok /\ ~IsErrorState(c)
    BY <1>1, <1>4 DEF IsErrorState
  <2> QED BY <1>4, <2>1 DEF KindOf, WarningStates
<1>5. CASE c.state = "activating"
  <2>1. ~c.ok /\ ~IsErrorState(c)
    BY <1>1, <1>5 DEF IsErrorState
  <2>2. /\ c.state \in WarningStates
        /\ c.state # "active" /\ c.state # "running" /\ c.state # "missing"
        /\ c.state # "unknown" /\ c.state # ""
    BY <1>5 DEF WarningStates
  <2>3. KindOf(c) = "warning"
    BY <1>1, <1>5, <2>1, <2>2 DEF KindOf
  <2> QED BY <1>5, <2>3
<1>6. CASE c.state = "unknown"
  <2>1. ~c.ok /\ ~IsErrorState(c)
    BY <1>1, <1>6 DEF IsErrorState
  <2> QED BY <1>6, <2>1 DEF KindOf, WarningStates
<1> QED BY <1>1, <1>2, <1>3, <1>4, <1>5, <1>6 DEF States

LEMMA PartIncreasing ==
  ASSUME NEW S, Timed(S), NEW s \in Seq(S), NEW t, Increasing(s, t),
         NEW c, NEW a, NEW b, Part(S, c, s, a, b)
  PROVE  Increasing(c, t)
<1>1. /\ a \in Nat /\ b \in Nat /\ a <= b /\ b <= Len(s) /\ Len(c) = b - a /\ Len(s) \in Nat
      /\ \A i \in 1..(b - a) : c[i] = s[a + i]
  BY TimesOf DEF Part
<1>2. \A i \in 1..(b - a) : a + i \in 1..Len(s)
  BY <1>1
<1>3. ASSUME NEW i \in 1..Len(c), NEW j \in 1..Len(c), i < j
      PROVE  c[i].timestamp < c[j].timestamp
  <2>1. c[i] = s[a + i] /\ c[j] = s[a + j] /\ a + i \in 1..Len(s) /\ a + j \in 1..Len(s)
    BY <1>1, <1>2
  <2>2. a + i < a + j
    BY <1>1, <1>3
  <2> QED BY <2>1, <2>2 DEF Increasing
<1>4. ASSUME NEW i \in 1..Len(c) PROVE c[i].timestamp <= t
  <2>1. c[i] = s[a + i] /\ a + i \in 1..Len(s)
    BY <1>1, <1>2
  <2> QED BY <2>1 DEF Increasing
<1> QED BY <1>3, <1>4 DEF Increasing

\* What the window has of a history is its end.
LEMMA InWindow ==
  ASSUME NEW S, Timed(S), NEW s \in Seq(S), now \in Nat, Increasing(s, now)
  PROVE  \E k \in 0..Len(s) :
           /\ Part(S, FilterHistory(s, WindowStart, now), s, k, Len(s))
           /\ Increasing(FilterHistory(s, WindowStart, now), now)
           /\ \A i \in 1..Len(s) : s[i].timestamp >= WindowStart <=> i > k
<1>1. WindowStart \in Int /\ now \in Int
  BY LightsTile
<1>2. PICK k \in 0..Len(s) :
           /\ Part(S, FilterHistory(s, WindowStart, now), s, k, Len(s))
           /\ \A i \in 1..Len(s) : s[i].timestamp >= WindowStart <=> i > k
  BY <1>1, FilterIsEnd
<1> QED BY <1>2, PartIncreasing

\* A bucket shows the worst of what is found in it.
LEMMA ChunkFound ==
  ASSUME NEW S, Timed(S), NEW s \in Seq(S), NEW k \in 0..Len(s),
         NEW f, Part(S, f, s, k, Len(s)), NEW slot,
         \A m \in 1..Len(s) : In(s[m].timestamp, slot) => m > k,
         NEW c, Chunked(S, c, f, slot)
  PROVE  EvaluateBucket(c) = Verdict(Found(s, slot))
<1>1. /\ Len(s) \in Nat /\ k \in Nat /\ f \in Seq(S) /\ Len(f) = Len(s) - k
      /\ \A i \in 1..(Len(s) - k) : f[i] = s[k + i]
  BY TimesOf DEF Part
<1>2. PICK x \in 0..Len(f), y \in 0..Len(f) :
        /\ Part(S, c, f, x, y)
        /\ \A m \in 1..Len(f) : x < m /\ m <= y <=> In(f[m].timestamp, slot)
  BY DEF Chunked
<1>3. /\ x \in Nat /\ y \in Nat /\ x <= y /\ y <= Len(f) /\ Len(c) = y - x
      /\ \A i \in 1..(y - x) : c[i] = f[x + i]
  BY <1>2 DEF Part
<1> DEFINE kinds == {KindOf(c[n]) : n \in 1..Len(c)}
<1>4. ASSUME NEW n \in 1..Len(c)
      PROVE  KindOf(c[n]) \in Found(s, slot)
  <2>1. n \in 1..(y - x) /\ x + n \in 1..Len(f) /\ x < x + n /\ x + n <= y
    BY <1>1, <1>3
  <2>2. c[n] = f[x + n] /\ In(f[x + n].timestamp, slot)
    BY <1>2, <1>3, <2>1
  <2>3. k + (x + n) \in 1..Len(s) /\ f[x + n] = s[k + (x + n)]
    BY <1>1, <2>1
  <2> QED BY <2>2, <2>3 DEF Found
<1>5. ASSUME NEW m \in 1..Len(s), In(s[m].timestamp, slot)
      PROVE  \E n \in 1..Len(c) : c[n] = s[m]
  <2>1. m > k
    BY <1>5
  <2>2. m - k \in 1..Len(f) /\ k + (m - k) = m
    BY <1>1, <2>1
  <2>3. f[m - k] = s[m]
    BY <1>1, <2>2
  <2>4. x < m - k /\ m - k <= y
    BY <1>2, <1>5, <2>2, <2>3
  <2>5. m - k - x \in 1..(y - x) /\ x + (m - k - x) = m - k
    BY <1>1, <1>3, <2>2, <2>4
  <2>6. c[m - k - x] = s[m]
    BY <1>3, <2>3, <2>5
  <2> QED BY <1>3, <2>5, <2>6
<1>6. kinds = Found(s, slot)
  BY <1>4, <1>5 DEF Found
<1> QED BY <1>6 DEF EvaluateBucket, Verdict

\* The dots of the page.
LEMMA DotsAre ==
  ASSUME PageInv
  PROVE  /\ Tiles(ServiceDots, Points, WindowStart, now)
         /\ \A i \in 1..Points : ServiceDots[i].class = Verdict(Found(checks, ServiceDots[i]))
<1> DEFINE b == BucketsOf(WindowStart, now)
           f == ChecksInWindow
<1>1. /\ now \in Nat /\ checks \in Seq(Check) /\ Increasing(checks, now) /\ Timed(Check)
      /\ WindowStart \in Int /\ WindowStart <= now
  BY LightsTile, Times DEF PageInv
<1>2. PICK k \in 0..Len(checks) :
           /\ Part(Check, f, checks, k, Len(checks)) /\ Increasing(f, now)
           /\ \A i \in 1..Len(checks) : checks[i].timestamp >= WindowStart <=> i > k
  BY <1>1, InWindow DEF ChecksInWindow
<1>3. f \in Seq(Check)
  BY <1>2 DEF Part
<1>4. Tiles(b, Points, WindowStart, now)
  BY <1>1, BucketsTile
<1> HIDE DEF b, f
<1>5. ServiceDots = [i \in 1..Points |->
                       [start |-> b[i].start, end |-> b[i].end,
                        class |-> EvaluateBucket(Chunks(f, WindowStart, now)[i])]]
  BY DEF ServiceDots, BuildTimeline, b, f
<1>6. Tiles(ServiceDots, Points, WindowStart, now)
  <2>1. DOMAIN ServiceDots = 1..Points
    BY <1>5
  <2>2. \A i \in 1..Points : /\ ServiceDots[i].start = b[i].start
                             /\ ServiceDots[i].end = b[i].end
    BY <1>5
  <2>3. /\ 1 \in 1..Points /\ Points \in 1..Points
        /\ \A i \in 1..(Points - 1) : i \in 1..Points /\ i + 1 \in 1..Points
    BY TimelineAssumption
  <2> QED BY <1>4, <2>1, <2>2, <2>3 DEF Tiles
<1>7. ASSUME NEW i \in 1..Points
      PROVE  ServiceDots[i].class = Verdict(Found(checks, ServiceDots[i]))
  <2> DEFINE slot == ServiceDots[i]
             c == Chunks(f, WindowStart, now)[i]
  <2>1. /\ slot.start = b[i].start /\ slot.end = b[i].end
        /\ slot.class = EvaluateBucket(c)
        /\ slot.start \in Int /\ WindowStart <= slot.start
    BY <1>4, <1>5 DEF Tiles
  <2>2. Chunked(Check, c, f, b[i])
    BY <1>1, <1>2, <1>3, ChunksAre DEF b
  <2> HIDE DEF slot, c
  <2>3. Chunked(Check, c, f, slot)
    BY <2>1, <2>2 DEF Chunked, In
  <2>4. ASSUME NEW m \in 1..Len(checks), In(checks[m].timestamp, slot) PROVE m > k
    <3>1. checks[m].timestamp \in Nat /\ slot.start <= checks[m].timestamp
      BY <1>1, <2>4, TimesOf DEF In
    <3>2. checks[m].timestamp >= WindowStart
      BY <1>1, <2>1, <3>1
    <3> QED BY <1>2, <3>2
  <2>5. EvaluateBucket(c) = Verdict(Found(checks, slot))
    BY <1>1, <1>2, <2>3, <2>4, ChunkFound
  <2> QED BY <2>1, <2>5 DEF slot
<1> QED BY <1>6, <1>7

\* What a verdict says of the checks in a slot.
LEMMA VerdictIs ==
  ASSUME PageInv, NEW slot
  PROVE  LET inside == {n \in 1..Len(checks) : In(checks[n].timestamp, slot)}
             v      == Verdict(Found(checks, slot))
         IN  /\ v \in {"error", "missing", "warning", "success"}
             /\ v = "success" <=> inside # {} /\ \A n \in inside : checks[n].ok
             /\ \A n \in inside : checks[n].state \in {"inactive", "refused"} => v = "error"
             /\ \A n \in inside : checks[n].state = "activating" =>
                  \/ v \in {"error", "warning"}
                  \/ \E m \in inside : checks[m].state = "unknown"
<1> DEFINE inside == {n \in 1..Len(checks) : In(checks[n].timestamp, slot)}
           v == Verdict(Found(checks, slot))
<1>1. ASSUME NEW n \in inside
      PROVE  /\ KindOf(checks[n]) \in Found(checks, slot)
             /\ checks[n].state \in States /\ (checks[n].ok <=> checks[n].state = "active")
             /\ KindOf(checks[n]) = "success" <=> checks[n].ok
             /\ KindOf(checks[n]) = "error" <=> checks[n].state \in {"inactive", "refused"}
             /\ KindOf(checks[n]) = "warning" <=> checks[n].state = "activating"
             /\ KindOf(checks[n]) = "missing" <=> checks[n].state = "unknown"
             /\ KindOf(checks[n]) \in {"success", "error", "warning", "missing"}
  <2>1. KindOf(checks[n]) \in Found(checks, slot)
    BY DEF Found
  <2>2. checks \in Seq(Check) /\ n \in 1..Len(checks)
    BY DEF PageInv
  <2> DEFINE c == checks[n]
  <2>3. c \in Check
    BY <2>2, ElementOfSeq
  <2>4. c.state \in States /\ (c.ok <=> c.state = "active")
    BY <2>3 DEF Check
  <2> HIDE DEF c
  <2>5. /\ KindOf(c) = "success" <=> c.ok
        /\ KindOf(c) = "error" <=> c.state \in {"inactive", "refused"}
        /\ KindOf(c) = "warning" <=> c.state = "activating"
        /\ KindOf(c) = "missing" <=> c.state = "unknown"
        /\ KindOf(c) \in {"success", "error", "warning", "missing"}
    <3>1. CASE c.state = "active"
      BY <2>3, <2>4, <3>1, KindIs
    <3>2. CASE c.state \in {"inactive", "refused"}
      BY <2>3, <2>4, <3>2, KindIs
    <3>3. CASE c.state = "activating"
      BY <2>3, <2>4, <3>3, KindIs
    <3>4. CASE c.state = "unknown"
      BY <2>3, <2>4, <3>4, KindIs
    <3> QED BY <2>4, <3>1, <3>2, <3>3, <3>4 DEF States
  <2> QED BY <2>1, <2>4, <2>5 DEF c
<1>2. \A k \in Found(checks, slot) : \E n \in inside : k = KindOf(checks[n])
  BY DEF Found
<1>3. Found(checks, slot) = {} <=> inside = {}
  BY DEF Found
<1> HIDE DEF inside
<1>4. v \in {"error", "missing", "warning", "success"}
  BY DEF Verdict
<1>5. \A n \in inside : checks[n].state \in {"inactive", "refused"} => v = "error"
  BY <1>1 DEF Verdict
<1>6. ASSUME v = "success", NEW n \in inside PROVE checks[n].ok
  <2>1. /\ "error" \notin Found(checks, slot) /\ "missing" \notin Found(checks, slot)
        /\ "warning" \notin Found(checks, slot)
    BY <1>6 DEF Verdict
  <2> QED BY <1>1, <2>1
<1>7. v = "success" => inside # {}
  BY <1>3 DEF Verdict
<1>8. ASSUME inside # {}, \A n \in inside : checks[n].ok PROVE v = "success"
  <2>1. \A k \in Found(checks, slot) : k = "success"
    BY <1>1, <1>2, <1>8
  <2> QED BY <1>3, <1>8, <2>1 DEF Verdict
<1>9. ASSUME NEW n \in inside, checks[n].state = "activating", v \notin {"error", "warning"}
      PROVE  \E m \in inside : checks[m].state = "unknown"
  <2>1. "warning" \in Found(checks, slot)
    BY <1>1, <1>9
  <2>2. "missing" \in Found(checks, slot)
    BY <1>9, <2>1 DEF Verdict
  <2> QED BY <1>1, <1>2, <2>2
<1> QED BY <1>4, <1>5, <1>6, <1>7, <1>8, <1>9 DEF inside

\* A dot is green exactly if there were checks in its time and all of them passed
\* (GreenMeansAllPassed): buildTimeline's cursor loses no check and draws none twice.
THEOREM GreenIsEarned == Spec => []GreenMeansAllPassed
<1>1. PageInv => GreenMeansAllPassed
  <2> SUFFICES ASSUME PageInv, NEW i \in 1..Points
               PROVE  LET dots      == ServiceDots
                          inside(j) == {n \in DOMAIN checks : In(checks[n].timestamp, dots[j])}
                      IN  dots[i].class = "success" <=>
                            inside(i) # {} /\ \A n \in inside(i) : checks[n].ok
    BY DEF GreenMeansAllPassed
  <2>1. ServiceDots[i].class = Verdict(Found(checks, ServiceDots[i]))
    BY DotsAre
  <2>2. DOMAIN checks = 1..Len(checks)
    BY LenProperties DEF PageInv
  <2> QED BY <2>1, <2>2, VerdictIs
<1> QED BY <1>1, PageInvariant, PTL

-----------------------------------------------------------------------------
(* The lights of a service.                                                *)

\* mapTimelineToBuckets: what a light says of the dots that overlap its time.
LEMMA LightIs ==
  ASSUME NEW i \in 1..Count, DOMAIN ServiceDots = 1..Points
  PROVE  LET over == {d \in 1..Points : BucketOverlaps(Buckets[i], ServiceDots[d].start,
                                                       ServiceDots[d].end)}
         IN  ServiceLights[i]
               = Worst({TimelineState(ServiceDots[d].class) : d \in over})
BY DEF ServiceLights, MapTimelineToBuckets, Buckets, TimeBuckets

\* A time in a light is in a dot that counts for it.
LEMMA TimeInBoth ==
  ASSUME PageInv, NEW t \in Nat, WindowStart <= t, t < now
  PROVE  /\ \E d \in 1..Points : In(t, ServiceDots[d])
         /\ \A d \in 1..Points, i \in 1..Count :
              In(t, ServiceDots[d]) /\ In(t, Buckets[i]) =>
                BucketOverlaps(Buckets[i], ServiceDots[d].start, ServiceDots[d].end)
<1>1. /\ now \in Int /\ WindowStart \in Int
      /\ Tiles(ServiceDots, Points, WindowStart, now) /\ Tiles(Buckets, Count, WindowStart, now)
  BY DotsAre, LightsTile DEF PageInv
<1>2. \E d \in 1..Points : In(t, ServiceDots[d])
  BY <1>1, TilesCover
<1>3. ASSUME NEW d \in 1..Points, NEW i \in 1..Count, In(t, ServiceDots[d]), In(t, Buckets[i])
      PROVE  BucketOverlaps(Buckets[i], ServiceDots[d].start, ServiceDots[d].end)
  <2>1. /\ ServiceDots[d].start \in Int /\ ServiceDots[d].end \in Int
        /\ Buckets[i].start \in Int /\ Buckets[i].end \in Int
    BY <1>1 DEF Tiles
  <2> QED BY <1>3, <2>1 DEF In, BucketOverlaps
<1> QED BY <1>2, <1>3

LEMMA FailedCheck == PageInv => FailedCheckShows
<1> SUFFICES ASSUME PageInv, NEW n \in DOMAIN checks,
                    checks[n].state \in {"inactive", "refused"},
                    WindowStart <= checks[n].timestamp, checks[n].timestamp < now
             PROVE  /\ \A i \in 1..Points : In(checks[n].timestamp, ServiceDots[i]) =>
                          ServiceDots[i].class = "error"
                    /\ \A i \in 1..Count : In(checks[n].timestamp, Buckets[i]) =>
                          ServiceLights[i] = "issue"
  BY DEF FailedCheckShows
<1> DEFINE t == checks[n].timestamp
<1>1. n \in 1..Len(checks) /\ t \in Nat
  BY TimesOf, Times DEF PageInv
<1>2. Tiles(ServiceDots, Points, WindowStart, now)
  BY DotsAre
<1>3. ASSUME NEW d \in 1..Points, In(t, ServiceDots[d]) PROVE ServiceDots[d].class = "error"
  BY <1>1, <1>3, DotsAre, VerdictIs
<1>4. ASSUME NEW i \in 1..Count, In(t, Buckets[i]) PROVE ServiceLights[i] = "issue"
  <2>1. PICK d \in 1..Points : In(t, ServiceDots[d])
    BY <1>1, TimeInBoth
  <2>2. /\ BucketOverlaps(Buckets[i], ServiceDots[d].start, ServiceDots[d].end)
        /\ ServiceDots[d].class = "error"
    BY <1>1, <1>3, <1>4, <2>1, TimeInBoth
  <2>3. TimelineState(ServiceDots[d].class) = "issue"
    BY <2>2 DEF TimelineState
  <2>4. DOMAIN ServiceDots = 1..Points
    BY <1>2 DEF Tiles
  <2> DEFINE over == {e \in 1..Points : BucketOverlaps(Buckets[i], ServiceDots[e].start,
                                                       ServiceDots[e].end)}
             states == {TimelineState(ServiceDots[e].class) : e \in over}
  <2>5. ServiceLights[i] = Worst(states)
    BY <2>4, LightIs
  <2>6. "issue" \in states
    BY <2>2, <2>3
  <2> HIDE DEF states
  <2> QED BY <2>5, <2>6 DEF Worst
<1> QED BY <1>3, <1>4

\* No light is green that a failed check or one without an answer in its time contradicts,
\* or that no passed check supports (GreenLightIsReal).
THEOREM GreenLightIsEarned == Spec => []GreenLightIsReal
<1>1. ASSUME PageInv, NEW i \in 1..Count, ServiceLights[i] = "ok"
      PROVE  /\ \E n \in DOMAIN checks :
                  /\ checks[n].ok
                  /\ checks[n].timestamp > Buckets[i].start - DotLength
                  /\ checks[n].timestamp < Buckets[i].end + DotLength
             /\ \A n \in DOMAIN checks :
                  In(checks[n].timestamp, Buckets[i]) =>
                    \/ checks[n].state \in {"active", "unknown"}
                    \/ /\ checks[n].state = "activating"
                       /\ \E m \in DOMAIN checks, d \in 1..Points :
                            /\ checks[m].state = "unknown"
                            /\ In(checks[n].timestamp, ServiceDots[d])
                            /\ In(checks[m].timestamp, ServiceDots[d])
  <2> DEFINE over == {e \in 1..Points : BucketOverlaps(Buckets[i], ServiceDots[e].start,
                                                       ServiceDots[e].end)}
             states == {TimelineState(ServiceDots[e].class) : e \in over}
             inside(d) == {n \in 1..Len(checks) : In(checks[n].timestamp, ServiceDots[d])}
  <2>1. /\ now \in Nat /\ WindowStart \in Int /\ WindowStart < now
        /\ Tiles(ServiceDots, Points, WindowStart, now) /\ Tiles(Buckets, Count, WindowStart, now)
    BY <1>1, DotsAre, LightsTile DEF PageInv
  <2>2. /\ DOMAIN ServiceDots = 1..Points
        /\ Buckets[i].start \in Int /\ Buckets[i].end \in Int
        /\ WindowStart <= Buckets[i].start /\ Buckets[i].end <= now
        /\ \A d \in 1..Points : /\ ServiceDots[d].start \in Int /\ ServiceDots[d].end \in Int
                                /\ WindowStart <= ServiceDots[d].start
                                /\ ServiceDots[d].start <= ServiceDots[d].end
                                /\ ServiceDots[d].end <= now
    BY <2>1 DEF Tiles
  <2>3. DOMAIN checks = 1..Len(checks) /\ \A n \in 1..Len(checks) :
           checks[n].timestamp \in Nat /\ checks[n] \in Check
    BY <1>1, TimesOf, Times DEF PageInv
  <2>4. "ok" \in states /\ "issue" \notin states
    <3>1. ServiceLights[i] = Worst(states)
      BY <2>2, LightIs
    <3> HIDE DEF states
    <3> QED BY <1>1, <3>1 DEF Worst
  <2>5. ASSUME NEW d \in 1..Points
        PROVE  /\ ServiceDots[d].class \in {"error", "missing", "warning", "success"}
               /\ ServiceDots[d].class = "success" => \E n \in inside(d) : checks[n].ok
               /\ \A n \in inside(d) : checks[n].state \in {"inactive", "refused"} =>
                                         ServiceDots[d].class = "error"
               /\ \A n \in inside(d) : checks[n].state = "activating" =>
                    \/ ServiceDots[d].class \in {"error", "warning"}
                    \/ \E m \in inside(d) : checks[m].state = "unknown"
    BY <1>1, DotsAre, VerdictIs
  <2>6. ASSUME NEW d \in over
        PROVE  ServiceDots[d].class \in {"success", "missing"}
    <3>1. TimelineState(ServiceDots[d].class) # "issue"
      BY <2>4
    <3> QED BY <2>5, <3>1 DEF TimelineState
  <2>7. PICK d \in over : TimelineState(ServiceDots[d].class) = "ok"
    BY <2>4
  <2>8. ServiceDots[d].class = "success"
    BY <2>6, <2>7 DEF TimelineState
  <2>9. PICK n \in inside(d) : checks[n].ok
    BY <2>5, <2>8
  <2> DEFINE t == checks[n].timestamp
             slot == ServiceDots[d]
             lengths == {ServiceDots[e].end - ServiceDots[e].start : e \in 1..Points}
  <2>10. /\ n \in DOMAIN checks /\ t \in Nat /\ slot.start <= t /\ t < slot.end
         /\ slot.end > Buckets[i].start /\ slot.start < Buckets[i].end
         /\ slot.start \in Int /\ slot.end \in Int
    BY <2>2, <2>3, <2>9 DEF In, BucketOverlaps
  <2>11. slot.end - slot.start <= DotLength /\ DotLength \in Nat
    <3>1. /\ DotLength = Max(lengths) /\ slot.end - slot.start \in lengths
      BY DEF DotLength
    <3>2. ASSUME NEW l \in lengths PROVE l \in Nat /\ l <= now - WindowStart
      <4>1. PICK e \in 1..Points : l = ServiceDots[e].end - ServiceDots[e].start
        OBVIOUS
      <4> DEFINE a == ServiceDots[e].start
                 z == ServiceDots[e].end
      <4>2. a \in Int /\ z \in Int /\ WindowStart <= a /\ a <= z /\ z <= now /\ l = z - a
        BY <2>2, <4>1
      <4> HIDE DEF a, z
      <4> QED BY <2>1, <4>2
    <3>3. now - WindowStart \in Nat
      BY <2>1
    <3> HIDE DEF lengths, slot
    <3>4. lengths \in SUBSET Nat /\ lengths # {}
      BY <3>1, <3>2
    <3> QED BY <3>1, <3>2, <3>3, <3>4, MaxIs
  <2>12. t > Buckets[i].start - DotLength /\ t < Buckets[i].end + DotLength
    <3> HIDE DEF t, slot
    <3> QED BY <2>2, <2>10, <2>11
  <2>13. ASSUME NEW k \in DOMAIN checks, In(checks[k].timestamp, Buckets[i]),
                checks[k].state \notin {"active", "unknown"}
         PROVE  /\ checks[k].state = "activating"
                /\ \E m \in DOMAIN checks, e \in 1..Points :
                     /\ checks[m].state = "unknown"
                     /\ In(checks[k].timestamp, ServiceDots[e])
                     /\ In(checks[m].timestamp, ServiceDots[e])
    <3>1. checks[k].timestamp \in Nat /\ k \in 1..Len(checks) /\ checks[k].state \in States
      BY <2>3 DEF Check
    <3>2. WindowStart <= checks[k].timestamp /\ checks[k].timestamp < now
      BY <2>1, <2>2, <2>13, <3>1 DEF In
    <3>3. PICK e \in 1..Points : In(checks[k].timestamp, ServiceDots[e])
      BY <1>1, <3>1, <3>2, TimeInBoth
    <3>4. e \in over
      BY <1>1, <2>13, <3>1, <3>2, <3>3, TimeInBoth
    <3>5. ServiceDots[e].class \notin {"error", "warning"} /\ k \in inside(e)
      BY <2>6, <3>1, <3>3, <3>4
    <3>6. checks[k].state \notin {"inactive", "refused"}
      BY <2>5, <3>5
    <3>7. checks[k].state = "activating"
      BY <2>13, <3>1, <3>6 DEF States
    <3>8. PICK m \in inside(e) : checks[m].state = "unknown"
      BY <2>5, <3>5, <3>7
    <3> QED BY <2>3, <3>3, <3>7, <3>8
  <2> HIDE DEF inside, over, states
  <2> QED BY <2>9, <2>10, <2>12, <2>13
<1>2. PageInv => GreenLightIsReal
  <2> SUFFICES ASSUME PageInv, NEW i \in 1..Count, ServiceLights[i] = "ok"
               PROVE  LET dots   == ServiceDots
                          length == DotLength
                      IN  /\ \E n \in DOMAIN checks :
                               /\ checks[n].ok
                               /\ checks[n].timestamp > Buckets[i].start - length
                               /\ checks[n].timestamp < Buckets[i].end + length
                          /\ \A n \in DOMAIN checks :
                               In(checks[n].timestamp, Buckets[i]) =>
                                 \/ checks[n].state \in {"active", "unknown"}
                                 \/ /\ checks[n].state = "activating"
                                    /\ \E m \in DOMAIN checks, d \in 1..Points :
                                         /\ checks[m].state = "unknown"
                                         /\ In(checks[n].timestamp, dots[d])
                                         /\ In(checks[m].timestamp, dots[d])
    BY DEF GreenLightIsReal
  <2> QED BY <1>1
<1> QED BY <1>2, PageInvariant, PTL

-----------------------------------------------------------------------------
(* The lights of the connectivity.                                         *)

LEMMA BucketsLen == Len(Buckets) = Count /\ DOMAIN Buckets = 1..Count
<1> DEFINE X == {Buckets[i] : i \in 1..Count}
<1>1. DOMAIN Buckets = 1..Count /\ Count \in Nat
  BY OverviewAssumption DEF Buckets, TimeBuckets
<1>2. Buckets \in [1..Count -> X]
  BY DEF Buckets, TimeBuckets
<1>3. Buckets \in Seq(X)
  <2> HIDE DEF X
  <2> QED BY <1>1, <1>2, SeqDef
<1>4. Len(Buckets) \in Nat /\ 1..Len(Buckets) = 1..Count
  <2> HIDE DEF X
  <2> QED BY <1>1, <1>3, LenProperties
<1>5. Len(Buckets) = Count
  BY <1>1, <1>4
<1> QED BY <1>1, <1>5

\* bucketIndex: any time of the window, its end included, has a light.
LEMMA BucketIndexIs ==
  ASSUME now \in Nat, NEW t \in Nat, WindowStart <= t, t <= now
  PROVE  LET i == BucketIndex(t, Buckets)
         IN  i \in 1..Count /\ Buckets[i].start <= t /\ t <= Buckets[i].end
<1> DEFINE at == {i \in 1..Count : /\ Buckets[i].start <= t
                                   /\ \/ t < Buckets[i].end
                                      \/ i = Count /\ t = Buckets[i].end}
<1>1. /\ now \in Int /\ WindowStart \in Int /\ Tiles(Buckets, Count, WindowStart, now)
      /\ Count \in Nat \ {0}
  BY LightsTile, OverviewAssumption
<1>2. at # {}
  <2>1. CASE t < now
    <3>1. PICK i \in 1..Count : In(t, Buckets[i])
      BY <1>1, <2>1, TilesCover
    <3> QED BY <3>1 DEF In
  <2>2. CASE t = now
    <3>1. Count \in 1..Count /\ Buckets[Count].end = now /\ Buckets[Count].start <= now
      BY <1>1 DEF Tiles
    <3> QED BY <2>2, <3>1
  <2> QED BY <2>1, <2>2
<1>3. at \in SUBSET Nat
  BY <1>1
<1>4. BucketIndex(t, Buckets) = Min(at)
  <2>1. BucketIndex(t, Buckets) = IF at = {} THEN 0 ELSE Min(at)
    BY BucketsLen DEF BucketIndex
  <2> HIDE DEF at
  <2> QED BY <1>2, <2>1
<1>5. Min(at) \in at
  <2> HIDE DEF at
  <2> QED BY <1>2, <1>3, MinIs
<1> DEFINE i == Min(at)
<1>6. /\ i \in 1..Count /\ Buckets[i].start <= t
      /\ t < Buckets[i].end \/ t = Buckets[i].end
  BY <1>5
<1> HIDE DEF i
<1>7. t <= Buckets[i].end
  <2>1. Buckets[i].end \in Int
    BY <1>1, <1>6 DEF Tiles
  <2> QED BY <1>6, <2>1
<1> QED BY <1>4, <1>6, <1>7 DEF i

LEMMA FailedProbe == PageInv => FailedProbeShows
<1> SUFFICES ASSUME PageInv, NEW n \in DOMAIN probes,
                    ~probes[n].ok, WindowStart <= probes[n].timestamp
             PROVE  \E i \in 1..Count : /\ Buckets[i].start <= probes[n].timestamp
                                        /\ probes[n].timestamp <= Buckets[i].end
                                        /\ ConnectivityLights[i] = "issue"
  BY DEF FailedProbeShows
<1> DEFINE t == probes[n].timestamp
           P == ProbesInWindow
<1>1. /\ now \in Nat /\ probes \in Seq(Probe) /\ Increasing(probes, now) /\ Timed(Probe)
      /\ WindowStart \in Int
  BY Times, LightsTile DEF PageInv
<1>2. n \in 1..Len(probes) /\ t \in Nat /\ t <= now /\ Len(probes) \in Nat
  BY <1>1, TimesOf DEF Increasing
<1>3. PICK k \in 0..Len(probes) :
           /\ Part(Probe, P, probes, k, Len(probes))
           /\ \A i \in 1..Len(probes) : probes[i].timestamp >= WindowStart <=> i > k
  BY <1>1, InWindow DEF ProbesInWindow
<1>4. n > k
  BY <1>1, <1>2, <1>3
<1>5. /\ P \in Seq(Probe) /\ Len(P) = Len(probes) - k
      /\ \A i \in 1..(Len(probes) - k) : P[i] = probes[k + i]
  BY <1>3 DEF Part
<1> DEFINE m == n - k
<1>6. m \in 1..Len(P) /\ k + m = n
  BY <1>2, <1>4, <1>5
<1>7. P[m] = probes[n] /\ m \in DOMAIN P
  BY <1>2, <1>5, <1>6, LenProperties
<1> DEFINE i == BucketIndex(t, Buckets)
           states == {IF P[x].ok THEN "ok" ELSE "issue" :
                        x \in {y \in DOMAIN P : BucketIndex(P[y].timestamp, Buckets) = i}}
<1>8. i \in 1..Count /\ Buckets[i].start <= t /\ t <= Buckets[i].end
  BY <1>1, <1>2, BucketIndexIs
<1>9. ConnectivityLights[i] = Worst(states)
  BY <1>8, BucketsLen DEF ConnectivityLights, BuildConnectivityBuckets
<1>10. "issue" \in states
  BY <1>7
<1>11. Worst(states) = "issue"
  <2> HIDE DEF states
  <2> QED BY <1>10 DEF Worst
<1> QED BY <1>8, <1>9, <1>11

\* No failure inside the window is hidden from the page: the dot and the light of a check
\* that found the service down, and the light of a failed probe, show it
\* (FailureReachesPage).
THEOREM FailuresShow == Spec => []FailureReachesPage
<1>1. PageInv => FailureReachesPage
  BY FailedCheck, FailedProbe DEF FailureReachesPage
<1> QED BY <1>1, PageInvariant, PTL

-----------------------------------------------------------------------------
(* Orders and ranks.                                                       *)

\* What comes before what in a finite set, as pairs, in one order of all.
Order(R, K) == /\ R \subseteq K \X K
               /\ \A i \in K : <<i, i>> \notin R
               /\ \A i, j \in K : i # j => <<i, j>> \in R \/ <<j, i>> \in R
               /\ \A i, j, k \in K : <<i, j>> \in R /\ <<j, k>> \in R => <<i, k>> \in R

Rank(R, K, i) == Cardinality({j \in K : <<j, i>> \in R})

\* Every place of the order is taken, by one element.
LEMMA Ranked ==
  ASSUME NEW K, IsFiniteSet(K), NEW R, Order(R, K)
  PROVE  /\ Cardinality(K) \in Nat
         /\ \A i \in K : Rank(R, K, i) \in 0..(Cardinality(K) - 1)
         /\ \A i, j \in K : Rank(R, K, i) = Rank(R, K, j) => i = j
         /\ \A n \in 1..Cardinality(K) : \E i \in K : Rank(R, K, i) = n - 1
<1> DEFINE c == Cardinality(K)
           before(i) == {j \in K : <<j, i>> \in R}
           T == 0..(c - 1)
           f == [i \in K |-> Cardinality(before(i))]
<1>1. c \in Nat
  BY FS_CardinalityType
<1>2. ASSUME NEW i \in K
      PROVE  IsFiniteSet(before(i)) /\ Cardinality(before(i)) \in Nat /\ Cardinality(before(i)) < c
  <2>1. before(i) \in SUBSET K /\ before(i) # K
    BY DEF Order
  <2> HIDE DEF before
  <2>2. IsFiniteSet(before(i)) /\ Cardinality(before(i)) <= c /\ Cardinality(before(i)) # c
    BY <2>1, FS_Subset
  <2>3. Cardinality(before(i)) \in Nat
    BY <2>2, FS_CardinalityType
  <2> QED BY <1>1, <2>2, <2>3
<1>3. ASSUME NEW i \in K, NEW j \in K, <<i, j>> \in R
      PROVE  Cardinality(before(i)) < Cardinality(before(j))
  <2>1. before(i) \in SUBSET before(j) /\ before(i) # before(j)
    BY <1>3 DEF Order
  <2> HIDE DEF before
  <2>2. /\ Cardinality(before(i)) <= Cardinality(before(j))
        /\ Cardinality(before(i)) # Cardinality(before(j))
    BY <1>2, <2>1, FS_Subset
  <2> QED BY <1>2, <2>2
<1> HIDE DEF before
<1>4. ASSUME NEW i \in K, NEW j \in K, Cardinality(before(i)) = Cardinality(before(j)) PROVE i = j
  <2>1. Cardinality(before(i)) \in Nat /\ Cardinality(before(j)) \in Nat
    BY <1>2
  <2>2. CASE i # j
    <3>1. <<i, j>> \in R \/ <<j, i>> \in R
      BY <2>2 DEF Order
    <3> QED BY <1>3, <1>4, <2>1, <3>1
  <2> QED BY <2>2
<1>5. f \in Injection(K, T)
  <2>1. \A i \in K : f[i] \in T
    BY <1>1, <1>2
  <2> QED BY <1>4, <2>1 DEF Injection, IsInjective
<1>6. IsFiniteSet(T) /\ Cardinality(T) = c
  <2>1. 0 \in Int /\ c - 1 \in Int
    BY <1>1
  <2>2. IsFiniteSet(T) /\ Cardinality(T) = IF 0 > c - 1 THEN 0 ELSE (c - 1) - 0 + 1
    BY <2>1, FS_Interval
  <2> QED BY <1>1, <2>2
<1>7. f \in Surjection(K, T)
  <2> HIDE DEF f, T
  <2> QED BY <1>5, <1>6, FS_Injection
<1>8. ASSUME NEW n \in 1..c PROVE \E i \in K : Cardinality(before(i)) = n - 1
  <2>1. n - 1 \in T
    BY <1>1
  <2> QED BY <1>7, <2>1 DEF Surjection
<1>9. \A i \in K : Cardinality(before(i)) \in 0..(c - 1)
  BY <1>1, <1>2
<1> QED BY <1>1, <1>4, <1>8, <1>9 DEF before, Rank

\* Within its bounds the gap is twice one of the distances between the samples.
LEMMA GapIs ==
  ASSUME NEW S, Timed(S), NEW s \in Seq(S), NEW t, Increasing(s, t)
  PROVE  /\ DeriveConnectivityGap(s) \in Nat
         /\ Len(s) > 1 =>
              \E n \in 1..(Len(s) - 1) :
                DeriveConnectivityGap(s) =
                  Max({MinGap, Min({MaxGap, 2 * (s[n + 1].timestamp - s[n].timestamp)})})
<1> DEFINE l == Len(s) - 1
           steps == [n \in 1..l |-> s[n + 1].timestamp - s[n].timestamp]
           kept == {n \in DOMAIN steps : steps[n] > 0}
           Precedes(j, i) == steps[j] < steps[i] \/ (~(steps[i] < steps[j]) /\ j < i)
           R == {p \in kept \X kept : Precedes(p[1], p[2])}
           c == Cardinality(kept)
           diffs == Distances(s)
           Gap(d) == Max({MinGap, Min({MaxGap, 2 * d})})
<1>1. Len(s) \in Nat /\ \A n \in 1..Len(s) : s[n].timestamp \in Nat
  BY TimesOf
<1>2. ASSUME NEW n \in 1..l PROVE steps[n] \in Nat /\ steps[n] > 0
  <2>1. n \in 1..Len(s) /\ n + 1 \in 1..Len(s) /\ n < n + 1
    BY <1>1
  <2>2. s[n].timestamp < s[n + 1].timestamp /\ s[n].timestamp \in Nat /\ s[n + 1].timestamp \in Nat
    BY <1>1, <2>1 DEF Increasing
  <2> QED BY <2>2
<1>3. kept = 1..l /\ IsFiniteSet(kept) /\ c = IF l > 0 THEN l ELSE 0
  <2>1. kept = 1..l
    BY <1>2
  <2>2. 1 \in Int /\ l \in Int
    BY <1>1
  <2>3. IsFiniteSet(1..l) /\ Cardinality(1..l) = IF 1 > l THEN 0 ELSE l - 1 + 1
    BY <2>2, FS_Interval
  <2> HIDE DEF l, kept
  <2> QED BY <2>1, <2>2, <2>3
<1>4. diffs = [n \in 1..c |-> steps[CHOOSE i \in kept :
                                      Cardinality({j \in kept : Precedes(j, i)}) = n - 1]]
  BY DEF Distances, Sorted
<1> HIDE DEF diffs, c
<1>5. Order(R, kept)
  <2>1. \A n \in kept : n \in Int /\ steps[n] \in Nat
    BY <1>2, <1>3, <1>1
  <2> HIDE DEF steps, kept
  <2> QED BY <2>1 DEF Order
<1>6. ASSUME NEW i \in kept
      PROVE  {j \in kept : Precedes(j, i)} = {j \in kept : <<j, i>> \in R}
  <2> HIDE DEF Precedes, kept
  <2> QED OBVIOUS
<1>7. ASSUME NEW n \in 1..c PROVE \E i \in kept : diffs[n] = steps[i]
  <2>1. \E i \in kept : Rank(R, kept, i) = n - 1
    <3> HIDE DEF kept, R
    <3> QED BY <1>3, <1>5, Ranked DEF c
  <2>2. \E i \in kept : Cardinality({j \in kept : Precedes(j, i)}) = n - 1
    <3> HIDE DEF kept, Precedes
    <3> QED BY <1>6, <2>1 DEF Rank
  <2> HIDE DEF kept, Precedes, steps, R
  <2>3. diffs[n] = steps[CHOOSE i \in kept : Cardinality({j \in kept : Precedes(j, i)}) = n - 1]
    BY <1>4
  <2> QED BY <2>2, <2>3
<1>8. ASSUME NEW d \in Nat PROVE Gap(d) \in Nat
  <2>1. MaxGap \in Nat /\ MinGap \in Nat /\ 2 * d \in Nat
    BY TimelineAssumption
  <2> DEFINE e == 2 * d
             m == Min({MaxGap, e})
  <2>2. m = IF MaxGap <= e THEN MaxGap ELSE e
    <3>1. MaxGap \in Int /\ e \in Int
      BY <2>1
    <3> HIDE DEF e
    <3> QED BY <3>1, MinOfTwo
  <2>3. m \in Nat
    BY <2>1, <2>2
  <2> HIDE DEF m
  <2>4. Max({MinGap, m}) = IF MinGap >= m THEN MinGap ELSE m
    BY <2>1, <2>3, MaxOfTwo
  <2>5. Max({MinGap, m}) \in Nat
    BY <2>1, <2>3, <2>4
  <2> QED BY <2>5 DEF m
<1>9. CASE l > 0
  <2>1. c = l /\ c \in Nat /\ c >= 1
    BY <1>1, <1>3, <1>9
  <2>2. DOMAIN diffs = 1..c
    BY <1>4
  <2>3. diffs # <<>> /\ Len(diffs) = c
    <3>1. diffs \in [1..c -> Nat]
      <4>1. \A n \in 1..c : diffs[n] \in Nat
        BY <1>2, <1>3, <1>7
      <4> HIDE DEF steps, kept, Precedes
      <4> QED BY <1>4, <4>1
    <3> QED BY <2>1, <3>1
  <2> DEFINE k == Len(diffs) \div 2 + 1
  <2>4. k \in 1..c
    BY <2>1, <2>3
  <2>5. PICK n \in kept : diffs[k] = steps[n]
    <3> HIDE DEF kept, steps, k
    <3> QED BY <1>7, <2>4
  <2>6. DeriveConnectivityGap(s) = Gap(diffs[k])
    BY <2>3 DEF DeriveConnectivityGap, diffs
  <2>7. n \in 1..l /\ steps[n] \in Nat /\ steps[n] = s[n + 1].timestamp - s[n].timestamp
    BY <1>2, <1>3, <2>5
  <2>8. DeriveConnectivityGap(s) = Gap(steps[n])
    <3> HIDE DEF Gap, k, steps
    <3> QED BY <2>5, <2>6
  <2>9. DeriveConnectivityGap(s) \in Nat
    <3> HIDE DEF Gap, steps
    <3> QED BY <1>8, <2>7, <2>8
  <2>10. DeriveConnectivityGap(s) = Gap(s[n + 1].timestamp - s[n].timestamp)
    <3> HIDE DEF Gap
    <3> QED BY <2>7, <2>8
  <2> QED BY <2>7, <2>9, <2>10
<1>10. CASE ~(l > 0)
  <2>1. 1..c = {}
    BY <1>1, <1>3, <1>10
  <2>2. diffs = <<>>
    <3> HIDE DEF kept, Precedes, steps
    <3> QED BY <1>4, <2>1
  <2>3. DeriveConnectivityGap(s) = DefaultGap /\ ~(Len(s) > 1)
    BY <1>1, <1>10, <2>2 DEF DeriveConnectivityGap, diffs
  <2> QED BY <2>3, TimelineAssumption
<1> QED BY <1>9, <1>10

\* BuildConnectivityTimeline's cursor: the samples passed before the first slot are
\* those before its start, and after each slot those up to its end.
LEMMA PassedIs ==
  ASSUME NEW S, Timed(S), NEW s \in Seq(S), NEW u, Increasing(s, u),
         NEW start \in Int, NEW end \in Int, NEW b, Tiles(b, Points, start, end)
  PROVE  /\ \A k \in 0..Points : Passed(s, b, k) \in 0..Len(s)
         /\ \A m \in 1..Len(s) : s[m].timestamp < start <=> m <= Passed(s, b, 0)
         /\ \A k \in 1..Points, m \in 1..Len(s) :
              s[m].timestamp <= b[k].end <=> m <= Passed(s, b, k)
<1> DEFINE n == Len(s)
           X == 0..n
           base == FirstFrom(s, 1, start) - 1
           next(k, x) == FirstFrom(s, x + 1, b[k].end + 1) - 1
           Next2(k, x) == Min({m \in (x + 1)..Len(s) : ~NotAfter(s[m], b[k].end)}
                              \cup {Len(s) + 1}) - 1
           Step(f) == [k \in 0..Points |->
             IF k = 0 THEN Min({m \in (0 + 1)..Len(s) : ~(s[m].timestamp < b[1].start)}
                               \cup {Len(s) + 1}) - 1
             ELSE Next2(k, f[k - 1])]
<1>1. n \in Nat /\ \A m \in 1..n : s[m].timestamp \in Nat
  BY TimesOf
<1>2. /\ Points \in Nat \ {0} /\ b[1].start = start
      /\ \A k \in 1..Points : b[k].start \in Int /\ b[k].end \in Int /\ b[k].start <= b[k].end
      /\ \A k \in 1..(Points - 1) : b[k].end = b[k + 1].start
  BY DEF Tiles
<1>3. base \in X /\ \A m \in 1..n : m <= base <=> s[m].timestamp < start
  <2>1. 1 \in 1..(n + 1)
    BY <1>1
  <2>2. PICK j : j = FirstFrom(s, 1, start)
    OBVIOUS
  <2>3. j \in 1..(n + 1) /\ \A m \in 1..n : m < j <=> s[m].timestamp < start
    BY <2>1, <2>2, FirstFromIs
  <2>4. base = j - 1
    BY <2>2
  <2> QED BY <1>1, <2>3, <2>4
<1>4. ASSUME NEW k \in 1..Points, NEW x \in X
      PROVE  /\ next(k, x) \in X
             /\ \A m \in (x + 1)..n : m <= next(k, x) <=> s[m].timestamp <= b[k].end
             /\ x <= next(k, x)
  <2>1. x + 1 \in 1..(n + 1) /\ b[k].end + 1 \in Int /\ b[k].end \in Int
    BY <1>1, <1>2
  <2> DEFINE e == b[k].end + 1
             y == x + 1
  <2>2. PICK j : j = FirstFrom(s, y, e)
    OBVIOUS
  <2>3. e \in Int /\ y \in 1..(n + 1)
    BY <2>1
  <2> HIDE DEF y, e
  <2>4. j \in y..(n + 1) /\ \A m \in y..n : m < j <=> s[m].timestamp < e
    BY <2>2, <2>3, FirstFromIs
  <2>5. next(k, x) = j - 1
    BY <2>2 DEF y, e
  <2> HIDE DEF next
  <2>6. ASSUME NEW m \in (x + 1)..n PROVE m <= next(k, x) <=> s[m].timestamp <= b[k].end
    <3>1. m \in 1..n /\ m \in y..n
      BY <1>1, <2>1 DEF y
    <3>2. s[m].timestamp \in Nat /\ (m < j <=> s[m].timestamp < e)
      BY <1>1, <2>4, <3>1
    <3> DEFINE t == s[m].timestamp
    <3>3. t < e <=> t <= b[k].end
      BY <2>1, <3>2 DEF e
    <3>4. m <= j - 1 <=> m < j
      BY <1>1, <2>3, <2>4, <3>1
    <3> QED BY <2>5, <3>2, <3>3, <3>4
  <2> QED BY <1>1, <2>1, <2>4, <2>5, <2>6 DEF y

\* The code's words for both.
<1>5. Min({m \in (0 + 1)..Len(s) : ~(s[m].timestamp < b[1].start)} \cup {Len(s) + 1}) - 1 = base
  <2>1. {m \in (0 + 1)..Len(s) : ~(s[m].timestamp < b[1].start)}
          = {m \in 1..Len(s) : s[m].timestamp >= start}
    BY <1>1, <1>2
  <2> QED BY <2>1 DEF FirstFrom
<1>6. ASSUME NEW k \in 1..Points, NEW x \in X PROVE Next2(k, x) = next(k, x)
  <2>1. {m \in (x + 1)..Len(s) : ~NotAfter(s[m], b[k].end)}
          = {m \in (x + 1)..Len(s) : s[m].timestamp >= b[k].end + 1}
    BY <1>1, <1>2 DEF NotAfter
  <2> QED BY <2>1 DEF FirstFrom
<1> HIDE DEF base, next
<1>7. \E f : f = Step(f)
  <2> DEFINE G == [k \in 1..Points |-> [x \in X |-> next(k, x)]]
  <2>1. G \in Rounds(Points, X)
    <3> HIDE DEF X
    <3> QED BY <1>4 DEF Rounds
  <2>0. PICK f : Runs(f, Points, X, base, G)
    <3>1. Points \in Nat /\ base \in X
      BY <1>2, <1>3
    <3> HIDE DEF G, X
    <3> QED BY <2>1, <3>1, Recursion
  <2>2. /\ f \in [0..Points -> X]
        /\ f[0] = base /\ \A k \in 1..Points : f[k] = G[k][f[k - 1]]
    <3> HIDE DEF G, X
    <3> QED BY <2>0 DEF Runs
  <2>3. ASSUME NEW k \in 1..Points
        PROVE  f[k] = Next2(k, f[k - 1])
    <3>1. k - 1 \in 0..Points
      BY <1>2
    <3>2. f[k - 1] \in X
      <4> HIDE DEF X
      <4> QED BY <2>2, <3>1
    <3>3. G[k][f[k - 1]] = next(k, f[k - 1])
      <4> HIDE DEF X
      <4> QED BY <3>2
    <3> HIDE DEF G, X, Next2
    <3> QED BY <2>2, <3>2, <3>3, <1>6
  <2>4. ASSUME NEW k \in 0..Points
        PROVE  f[k] = Step(f)[k]
    <3>1. CASE k = 0
      BY <1>5, <2>2, <3>1
    <3>2. CASE k # 0
      <4>1. k \in 1..Points
        BY <1>2, <3>2
      <4> HIDE DEF Next2
      <4> QED BY <2>3, <3>2, <4>1
    <3> QED BY <3>1, <3>2
  <2>5. f = Step(f)
    <3>1. f \in [0..Points -> X] /\ DOMAIN f = 0..Points
      BY <2>2
    <3>2. f = [k \in 0..Points |-> f[k]]
      BY <3>1
    <3>3. Step(f) = [k \in 0..Points |-> Step(f)[k]]
      OBVIOUS
    <3> HIDE DEF Step
    <3> QED BY <2>4, <3>2, <3>3
  <2> QED BY <2>5
<1> DEFINE idx == CHOOSE f : f = Step(f)
<1>8. idx = Step(idx)
  <2> HIDE DEF Step
  <2> QED BY <1>7
<1>9. ASSUME NEW k \in 0..Points PROVE Passed(s, b, k) = idx[k]
  BY DEF Passed
<1> HIDE DEF idx
<1>10. /\ idx[0] = base
       /\ \A k \in 1..Points : idx[k] = Next2(k, idx[k - 1])
  <2>1. idx[0] = Step(idx)[0] /\ \A k \in 1..Points : idx[k] = Step(idx)[k]
    <3> HIDE DEF Step
    <3> QED BY <1>8
  <2>2. Step(idx)[0] = base
    BY <1>2, <1>5
  <2>3. ASSUME NEW k \in 1..Points
        PROVE  Step(idx)[k] = Next2(k, idx[k - 1])
    <3>1. k \in 0..Points /\ k # 0
      BY <1>2
    <3> HIDE DEF Next2
    <3> QED BY <3>1
  <2> HIDE DEF Step
  <2> QED BY <2>1, <2>2, <2>3
<1> HIDE DEF Step, Next2
<1> DEFINE Right(k) == /\ idx[k] \in X
                       /\ k > 0 => \A m \in 1..n : s[m].timestamp <= b[k].end <=> m <= idx[k]
           Good == {k \in 0..Points : Right(k)}
<1>11. ASSUME NEW k \in 1..Points, Right(k - 1) PROVE Right(k)
  <2> DEFINE x == idx[k - 1]
             y == idx[k]
  <2>1. x \in X /\ y = next(k, x)
    <3> HIDE DEF X
    <3> QED BY <1>6, <1>10, <1>11
  <2> HIDE DEF x, y
  <2>2. y \in X /\ x <= y /\ \A m \in (x + 1)..n : m <= y <=> s[m].timestamp <= b[k].end
    BY <1>4, <2>1
  <2>3. ASSUME NEW m \in 1..n, m <= x PROVE s[m].timestamp <= b[k].end
    <3>1. CASE k = 1
      <4>1. x = base
        BY <1>10, <3>1 DEF x
      <4>2. s[m].timestamp < b[k].start /\ b[k].start \in Int /\ b[k].end \in Int
            /\ b[k].start <= b[k].end /\ s[m].timestamp \in Nat
        BY <1>1, <1>2, <1>3, <2>3, <3>1, <4>1
      <4> QED BY <4>2
    <3>2. CASE k # 1
      <4>1. k - 1 > 0 /\ k - 1 \in 1..(Points - 1) /\ k - 1 \in 1..Points /\ (k - 1) + 1 = k
        BY <1>2, <3>2
      <4>2. s[m].timestamp <= b[k - 1].end /\ b[k - 1].end = b[k].start
        BY <1>2, <1>11, <2>3, <4>1 DEF x
      <4>3. b[k].start <= b[k].end /\ b[k].start \in Int /\ b[k].end \in Int
        BY <1>2
      <4> QED BY <1>1, <4>2, <4>3
    <3> QED BY <3>1, <3>2
  <2>4. ASSUME NEW m \in 1..n PROVE s[m].timestamp <= b[k].end <=> m <= y
    <3>1. CASE m <= x
      BY <1>1, <2>1, <2>2, <2>3, <3>1
    <3>2. CASE ~(m <= x)
      <4>1. m \in (x + 1)..n
        BY <1>1, <2>1, <3>2
      <4> QED BY <2>2, <4>1
    <3> QED BY <3>1, <3>2
  <2> QED BY <2>2, <2>4 DEF y
<1>12. \A k \in 0..Points : k \in Good
  <2>1. 0 \in Good
    BY <1>2, <1>3, <1>10
  <2>2. ASSUME NEW k \in 1..Points, k - 1 \in Good PROVE k \in Good
    <3>1. Right(k)
      <4> HIDE DEF Right
      <4> QED BY <1>11, <2>2
    <3> HIDE DEF Right
    <3> QED BY <1>2, <3>1
  <2> HIDE DEF Good
  <2> QED BY <1>2, <2>1, <2>2, UpTo
<1>13. \A k \in 0..Points : Right(k)
  BY <1>12
<1>14. 0 \in 0..Points /\ \A k \in 1..Points : k \in 0..Points /\ k > 0
  BY <1>2
<1>15. \A k \in 0..Points : Passed(s, b, k) \in 0..n
  BY <1>9, <1>13
<1>16. \A m \in 1..n : s[m].timestamp < start <=> m <= Passed(s, b, 0)
  BY <1>3, <1>9, <1>10, <1>14
<1>17. ASSUME NEW k \in 1..Points, NEW m \in 1..n
       PROVE  s[m].timestamp <= b[k].end <=> m <= Passed(s, b, k)
  <2>1. Passed(s, b, k) = idx[k] /\ Right(k) /\ k > 0
    <3> HIDE DEF Right
    <3> QED BY <1>9, <1>13, <1>14
  <2> QED BY <2>1
<1> QED BY <1>15, <1>16, <1>17

-----------------------------------------------------------------------------
(* The dots of the connectivity.                                           *)

\* What is drawn is the end of the window's probes, no more than the cap of them.
LEMMA DrawnAre ==
  ASSUME PageInv
  PROVE  /\ ProbesInWindow \in Seq(Probe) /\ Increasing(ProbesInWindow, now)
         /\ DrawnProbes \in Seq(Probe) /\ Increasing(DrawnProbes, now)
         /\ \E d \in 0..Len(ProbesInWindow) :
              /\ Part(Probe, DrawnProbes, ProbesInWindow, d, Len(ProbesInWindow))
              /\ d = IF Len(ProbesInWindow) > ProbeCap
                     THEN Len(ProbesInWindow) - ProbeCap ELSE 0
<1> DEFINE P == ProbesInWindow
           n == Len(P)
           D == DrawnProbes
           d == IF n > ProbeCap THEN n - ProbeCap ELSE 0
<1>1. /\ now \in Nat /\ probes \in Seq(Probe) /\ Increasing(probes, now) /\ Timed(Probe)
  BY Times DEF PageInv
<1>2. P \in Seq(Probe) /\ Increasing(P, now)
  <2>1. PICK k \in 0..Len(probes) : /\ Part(Probe, P, probes, k, Len(probes))
                                    /\ Increasing(P, now)
    BY <1>1, InWindow DEF ProbesInWindow
  <2> QED BY <2>1 DEF Part
<1>3. n \in Nat /\ ProbeCap \in Nat \ {0}
  BY <1>2, LenProperties, PageAssumption
<1>4. D = SubSeq(P, d + 1, n)
  <2> DEFINE m == n - ProbeCap + 1
  <2>1. m \in Int /\ 1 \in Int
    BY <1>3
  <2>2. D = SubSeq(P, Max({1, m}), n)
    BY DEF DrawnProbes
  <2>3. Max({1, m}) = IF 1 >= m THEN 1 ELSE m
    <3> HIDE DEF m
    <3> QED BY <2>1, MaxOfTwo
  <2>4. Max({1, m}) = d + 1
    <3>1. (IF 1 >= m THEN 1 ELSE m) = d + 1
      BY <1>3
    <3> QED BY <2>3, <3>1
  <2> QED BY <2>2, <2>4
<1>5. d \in 0..n /\ d \in Nat /\ d <= n
  BY <1>3
<1> HIDE DEF P, D
<1>6. Part(Probe, D, P, d, n)
  <2> HIDE DEF d
  <2>1. Part(Probe, SubSeq(P, d + 1, n), P, d, n)
    BY <1>1, <1>2, <1>3, <1>5, SubSeqIsPart
  <2> QED BY <1>4, <2>1
<1>7. D \in Seq(Probe) /\ Increasing(D, now)
  <2>1. Increasing(D, now)
    BY <1>1, <1>2, <1>6, PartIncreasing
  <2> QED BY <1>6, <2>1 DEF Part
<1> QED BY <1>2, <1>5, <1>6, <1>7 DEF P, D

\* BuildConnectivityTimeline, of samples in order: how many of them a dot has passed,
\* and when it shows the last of those.
LEMMA ConnectivityDot ==
  ASSUME NEW s \in Seq(Probe), NEW u, Increasing(s, u),
         NEW start \in Int, NEW end \in Int, start <= end, NEW i \in 1..Points
  PROVE  \E p \in 0..Len(s) :
           /\ \A m \in 1..Len(s) : s[m].timestamp <= BucketsOf(start, end)[i].end <=> m <= p
           /\ BuildConnectivityTimeline(s, start, end)[i] =
                [start |-> BucketsOf(start, end)[i].start,
                 end   |-> BucketsOf(start, end)[i].end,
                 class |->
                   IF p > 0 /\ BucketsOf(start, end)[i].start - s[p].timestamp
                                 <= DeriveConnectivityGap(s)
                   THEN ConnectivityClass(s[p]) ELSE "missing"]
<1> DEFINE b == BucketsOf(start, end)
           gap == DeriveConnectivityGap(s)
           p == Passed(s, b, i)
           q == Passed(s, b, i - 1)
<1>1. Timed(Probe) /\ Len(s) \in Nat /\ \A m \in 1..Len(s) : s[m].timestamp \in Nat
  BY Times, TimesOf
<1>2. Tiles(b, Points, start, end)
  BY BucketsTile
<1>3. /\ Points \in Nat \ {0} /\ b[1].start = start
      /\ \A k \in 1..Points : b[k].start \in Int /\ b[k].end \in Int
      /\ \A k \in 1..(Points - 1) : b[k].end = b[k + 1].start
  BY <1>2 DEF Tiles
<1>4. gap \in Nat
  BY <1>1, GapIs
<1>5. ByTime(s) = s
  BY <1>1, SortedSame
<1> HIDE DEF b
<1>6. /\ \A k \in 0..Points : Passed(s, b, k) \in 0..Len(s)
      /\ \A m \in 1..Len(s) : s[m].timestamp < start <=> m <= Passed(s, b, 0)
      /\ \A k \in 1..Points, m \in 1..Len(s) :
           s[m].timestamp <= b[k].end <=> m <= Passed(s, b, k)
  BY <1>1, <1>2, PassedIs
<1>7. i \in 0..Points /\ i - 1 \in 0..Points
  BY <1>3
<1>8. BuildConnectivityTimeline(s, start, end)[i] =
        [start |-> b[i].start, end |-> b[i].end,
         class |-> IF p > q \/ (p > 0 /\ b[i].start - s[p].timestamp <= gap)
                   THEN ConnectivityClass(s[p]) ELSE "missing"]
  <2> DEFINE passed == [k \in 0..Points |-> Passed(s, b, k)]
             shown(k) == \/ passed[k] > passed[k - 1]
                         \/ /\ passed[k] > 0
                            /\ b[k].start - s[passed[k]].timestamp <= gap
  <2>1. BuildConnectivityTimeline(s, start, end) =
          [k \in 1..Points |->
             [start |-> b[k].start, end |-> b[k].end,
              class |-> IF shown(k) THEN ConnectivityClass(s[passed[k]]) ELSE "missing"]]
    <3> HIDE DEF gap
    <3> QED BY <1>5 DEF BuildConnectivityTimeline, b, gap
  <2>2. passed[i] = p /\ passed[i - 1] = q
    BY <1>7
  <2> HIDE DEF passed, gap, p, q
  <2> QED BY <2>1, <2>2
<1>9. p \in 0..Len(s) /\ q \in 0..Len(s) /\ p \in Int /\ q \in Int
  <2>1. p \in 0..Len(s) /\ q \in 0..Len(s)
    BY <1>6, <1>7
  <2> QED BY <1>1, <2>1
<1>10. \A m \in 1..Len(s) : s[m].timestamp <= b[i].end <=> m <= p
  BY <1>6
<1>11. \A m \in 1..Len(s) : m > q => s[m].timestamp >= b[i].start
  <2> SUFFICES ASSUME NEW m \in 1..Len(s), m > q PROVE s[m].timestamp >= b[i].start
    OBVIOUS
  <2>1. m \in Int /\ s[m].timestamp \in Nat /\ ~(m <= q)
    <3>1. m \in Int /\ s[m].timestamp \in Nat
      BY <1>1
    <3> HIDE DEF q
    <3> QED BY <1>9, <3>1
  <2>2. CASE i = 1
    <3>1. q = Passed(s, b, 0)
      BY <2>2
    <3>2. ~(s[m].timestamp < start)
      <4> HIDE DEF q
      <4> QED BY <1>6, <2>1, <3>1
    <3> QED BY <1>3, <2>1, <2>2, <3>2
  <2>3. CASE i # 1
    <3> DEFINE j == i - 1
    <3>1. j \in 1..Points /\ j \in 1..(Points - 1) /\ j + 1 = i
      BY <1>3, <2>3
    <3>2. b[j].end = b[i].start /\ b[j].end \in Int
      <4> HIDE DEF j
      <4> QED BY <1>3, <3>1
    <3>3. ~(s[m].timestamp <= b[j].end)
      <4>1. q = Passed(s, b, j)
        OBVIOUS
      <4> HIDE DEF q, j
      <4> QED BY <1>6, <2>1, <3>1, <4>1
    <3> HIDE DEF j
    <3> QED BY <2>1, <3>2, <3>3
  <2> QED BY <2>2, <2>3
<1> HIDE DEF p, q, gap
<1>12. p > q => p > 0 /\ b[i].start - s[p].timestamp <= gap
  <2> SUFFICES ASSUME p > q PROVE p > 0 /\ b[i].start - s[p].timestamp <= gap
    OBVIOUS
  <2>1. p \in 1..Len(s) /\ p > 0
    BY <1>1, <1>9
  <2>2. s[p].timestamp \in Nat /\ s[p].timestamp >= b[i].start /\ b[i].start \in Int
    BY <1>1, <1>3, <1>11, <2>1
  <2> QED BY <1>4, <2>1, <2>2
<1>13. BuildConnectivityTimeline(s, start, end)[i] =
         [start |-> b[i].start, end |-> b[i].end,
          class |-> IF p > 0 /\ b[i].start - s[p].timestamp <= gap
                    THEN ConnectivityClass(s[p]) ELSE "missing"]
  BY <1>8, <1>12
<1> QED BY <1>9, <1>10, <1>13 DEF b, gap

\* A dot is as the latest probe not after its end, if that is not too far back
\* (DotIsLatestProbe): the cursor misses none, and no probe inside a dot is too far back.
THEOREM DotIsLatest == Spec => []DotIsLatestProbe
<1>1. PageInv => DotIsLatestProbe
  <2> DEFINE D == DrawnProbes
             dots == ConnectivityDots
             known(i) == {n \in DOMAIN D : D[n].timestamp <= dots[i].end}
             gap == DeriveConnectivityGap(ByTime(D))
  <2> SUFFICES ASSUME PageInv, NEW i \in 1..Points
               PROVE  dots[i].class =
                        IF known(i) # {} /\ dots[i].start - D[Max(known(i))].timestamp <= gap
                        THEN ConnectivityClass(D[Max(known(i))])
                        ELSE "missing"
    BY DEF DotIsLatestProbe
  <2>1. /\ D \in Seq(Probe) /\ Increasing(D, now) /\ Timed(Probe)
        /\ WindowStart \in Int /\ WindowStart <= now /\ now \in Int
    <3>1. now \in Nat /\ WindowStart \in Int /\ WindowStart < now
      BY LightsTile DEF PageInv
    <3> QED BY <3>1, DrawnAre, Times
  <2>2. ByTime(D) = D
    <3> HIDE DEF D
    <3> QED BY <2>1, SortedSame
  <2> DEFINE b == BucketsOf(WindowStart, now)
  <2> HIDE DEF D
  <2>3. PICK p \in 0..Len(D) :
          /\ \A m \in 1..Len(D) : D[m].timestamp <= b[i].end <=> m <= p
          /\ dots[i] = [start |-> b[i].start, end |-> b[i].end,
                        class |-> IF p > 0 /\ b[i].start - D[p].timestamp
                                                <= DeriveConnectivityGap(D)
                                  THEN ConnectivityClass(D[p]) ELSE "missing"]
    BY <2>1, ConnectivityDot DEF ConnectivityDots, D
  <2> HIDE DEF dots, b
  <2>4. DOMAIN D = 1..Len(D) /\ Len(D) \in Nat
    BY <2>1, LenProperties
  <2>5. known(i) = 1..p
    BY <2>3, <2>4
  <2>6. CASE p = 0
    <3>1. known(i) = {}
      BY <2>5, <2>6
    <3> HIDE DEF known
    <3> QED BY <2>3, <2>6, <3>1
  <2>7. CASE p # 0
    <3>1. known(i) \in SUBSET Nat /\ known(i) # {} /\ p \in known(i) /\ p \in Nat
          /\ \A n \in known(i) : n <= p
      BY <2>3, <2>4, <2>5, <2>7
    <3>2. Max(known(i)) \in known(i) /\ p <= Max(known(i))
      <4> HIDE DEF known
      <4> QED BY <3>1, MaxIs
    <3>3. Max(known(i)) = p
      BY <2>5, <3>1, <3>2
    <3> HIDE DEF known
    <3> QED BY <2>2, <2>3, <2>7, <3>1, <3>3
  <2> QED BY <2>6, <2>7
<1> QED BY <1>1, PageInvariant, PTL

\* Bounds keep the order of what they bound.
LEMMA BoundsKeepOrder ==
  ASSUME NEW c \in Nat, NEW d \in Nat, c <= d
  PROVE  /\ Max({MinGap, Min({MaxGap, 2 * c})}) \in Nat
         /\ Max({MinGap, Min({MaxGap, 2 * c})}) <= Max({MinGap, Min({MaxGap, 2 * d})})
<1> DEFINE least(x) == IF MaxGap <= x THEN MaxGap ELSE x
           most(x) == IF MinGap >= x THEN MinGap ELSE x
<1>1. MinGap \in Nat /\ MaxGap \in Nat
  BY TimelineAssumption
<1>2. ASSUME NEW x \in Nat
      PROVE  least(2 * x) \in Nat /\ Max({MinGap, Min({MaxGap, 2 * x})}) = most(least(2 * x))
  <2> DEFINE y == 2 * x
  <2>1. y \in Nat
    OBVIOUS
  <2> HIDE DEF y
  <2>2. Min({MaxGap, y}) = least(y) /\ least(y) \in Nat
    BY <1>1, <2>1, MinOfTwo
  <2> DEFINE z == least(y)
  <2>3. z \in Nat
    BY <2>2
  <2> HIDE DEF z
  <2>4. Max({MinGap, z}) = most(z)
    BY <1>1, <2>3, MaxOfTwo
  <2> QED BY <2>2, <2>4 DEF y, z
<1>3. most(least(2 * c)) \in Nat /\ most(least(2 * c)) <= most(least(2 * d))
  BY <1>1
<1> HIDE DEF most, least
<1> QED BY <1>2, <1>3

\* A hole after the first probe means silence, or comes before the newest probes that
\* are drawn (HoleMeansSilence).
THEOREM HolesAreReal == Spec => []HoleMeansSilence
<1>1. PageInv => HoleMeansSilence
  <2> DEFINE P == ProbesInWindow
             D == DrawnProbes
             dots == ConnectivityDots
             dist == {D[m + 1].timestamp - D[m].timestamp : m \in 1..(Len(D) - 1)}
             Gap(x) == Max({MinGap, Min({MaxGap, 2 * x})})
  <2> SUFFICES ASSUME PageInv, Len(D) > 1, NEW i \in 1..Points, NEW n \in DOMAIN P,
                      dots[i].class = "missing", P[n].timestamp <= dots[i].end
               PROVE  \/ dots[i].start - P[n].timestamp > Gap(Min(dist))
                      \/ /\ Len(P) > ProbeCap
                         /\ dots[i].end < P[Len(P) - ProbeCap + 1].timestamp
    BY DEF HoleMeansSilence
  <2>1. /\ P \in Seq(Probe) /\ Increasing(P, now)
        /\ D \in Seq(Probe) /\ Increasing(D, now) /\ Timed(Probe)
        /\ now \in Nat /\ WindowStart \in Int /\ WindowStart < now
    BY DrawnAre, LightsTile, Times DEF PageInv
  <2>2. PICK d \in 0..Len(P) : /\ Part(Probe, D, P, d, Len(P))
                               /\ d = IF Len(P) > ProbeCap THEN Len(P) - ProbeCap ELSE 0
    BY DrawnAre
  <2> DEFINE b == BucketsOf(WindowStart, now)
  <2>3. Tiles(b, Points, WindowStart, now)
    BY <2>1, BucketsTile
  <2>4. b[i].start \in Int /\ b[i].end \in Int
    BY <2>3 DEF Tiles
  <2> HIDE DEF P, D
  <2>5. PICK p \in 0..Len(D) :
          /\ \A m \in 1..Len(D) : D[m].timestamp <= b[i].end <=> m <= p
          /\ dots[i] = [start |-> b[i].start, end |-> b[i].end,
                        class |-> IF p > 0 /\ b[i].start - D[p].timestamp
                                                <= DeriveConnectivityGap(D)
                                  THEN ConnectivityClass(D[p]) ELSE "missing"]
    <3>1. now \in Int /\ WindowStart <= now
      BY <2>1
    <3> QED BY <2>1, <3>1, ConnectivityDot DEF ConnectivityDots, D
  <2> DEFINE gap == DeriveConnectivityGap(D)
  <2>6. gap \in Nat /\ \E m \in 1..(Len(D) - 1) : gap = Gap(D[m + 1].timestamp - D[m].timestamp)
    BY <2>1, GapIs
  <2> HIDE DEF dots, b, gap
  <2>7. /\ Len(P) \in Nat /\ Len(D) \in Nat /\ DOMAIN P = 1..Len(P)
        /\ \A m \in 1..Len(P) : P[m].timestamp \in Nat
        /\ \A m \in 1..Len(D) : D[m].timestamp \in Nat
    BY <2>1, TimesOf
  <2>8. /\ Len(D) = Len(P) - d /\ d \in Nat /\ n \in 1..Len(P)
        /\ \A m \in 1..Len(D) : D[m] = P[d + m]
    BY <2>2, <2>7 DEF Part
  <2>9. /\ dots[i].start = b[i].start /\ dots[i].end = b[i].end
        /\ ~(p > 0 /\ b[i].start - D[p].timestamp <= gap)
    BY <2>5 DEF ConnectivityClass, gap
  <2>10. CASE p = 0
    <3>1. 1 \in 1..Len(D) /\ ~(1 <= p)
      BY <2>7, <2>10
    <3>2. ~(D[1].timestamp <= b[i].end) /\ D[1] = P[d + 1]
      BY <2>5, <2>8, <3>1
    <3>3. n <= d
      <4> SUFFICES ASSUME ~(n <= d) PROVE FALSE
        OBVIOUS
      <4> DEFINE m == n - d
      <4>1. m \in 1..Len(D) /\ d + m = n /\ ~(m <= p)
        BY <2>7, <2>8, <2>10
      <4>2. D[m] = P[n]
        <5> HIDE DEF m
        <5> QED BY <2>8, <4>1
      <4>3. ~(D[m].timestamp <= b[i].end)
        <5> HIDE DEF m
        <5> QED BY <2>5, <4>1
      <4> HIDE DEF m
      <4> QED BY <2>9, <4>2, <4>3
    <3>4. Len(P) > ProbeCap /\ d = Len(P) - ProbeCap
      BY <2>2, <2>8, <3>3
    <3>5. P[Len(P) - ProbeCap + 1] = D[1]
      BY <3>2, <3>4
    <3>6. b[i].end < D[1].timestamp
      BY <2>4, <2>7, <3>1, <3>2
    <3> QED BY <2>9, <3>4, <3>5, <3>6
  <2>11. CASE p # 0
    <3>1. p \in 1..Len(D) /\ p > 0
      BY <2>7, <2>11
    <3>2. D[p] = P[d + p] /\ D[p].timestamp \in Nat /\ b[i].start - D[p].timestamp > gap
      BY <2>4, <2>6, <2>7, <2>8, <2>9, <3>1
    <3>3. n <= d + p
      <4> SUFFICES ASSUME ~(n <= d + p) PROVE FALSE
        OBVIOUS
      <4> DEFINE m == n - d
      <4>1. m \in 1..Len(D) /\ d + m = n /\ ~(m <= p)
        BY <2>7, <2>8, <3>1
      <4>2. D[m] = P[n]
        <5> HIDE DEF m
        <5> QED BY <2>8, <4>1
      <4>3. ~(D[m].timestamp <= b[i].end)
        <5> HIDE DEF m
        <5> QED BY <2>5, <4>1
      <4> HIDE DEF m
      <4> QED BY <2>9, <4>2, <4>3
    <3>4. P[n].timestamp <= D[p].timestamp /\ P[n].timestamp \in Nat
      <4>1. d + p \in 1..Len(P) /\ P[n].timestamp \in Nat /\ n \in Int
        BY <2>7, <2>8, <3>1
      <4>2. n = d + p \/ P[n].timestamp < P[d + p].timestamp
        BY <2>1, <2>8, <3>3, <4>1 DEF Increasing
      <4> QED BY <3>2, <4>1, <4>2
    <3>5. Gap(Min(dist)) \in Nat /\ Gap(Min(dist)) <= gap
      <4>1. PICK m \in 1..(Len(D) - 1) : gap = Gap(D[m + 1].timestamp - D[m].timestamp)
        BY <2>6
      <4>2. ASSUME NEW k \in 1..(Len(D) - 1)
            PROVE  D[k + 1].timestamp - D[k].timestamp \in Nat
        <5>1. k \in 1..Len(D) /\ k + 1 \in 1..Len(D) /\ k < k + 1
          BY <2>7
        <5>2. /\ D[k].timestamp < D[k + 1].timestamp
              /\ D[k].timestamp \in Nat /\ D[k + 1].timestamp \in Nat
          BY <2>1, <2>7, <5>1 DEF Increasing
        <5> QED BY <5>2
      <4> DEFINE e == D[m + 1].timestamp - D[m].timestamp
                 c == Min(dist)
      <4>3. dist \in SUBSET Nat /\ e \in dist /\ e \in Nat
        BY <4>2
      <4> HIDE DEF dist, e
      <4>4. c \in dist /\ c <= e
        BY <4>3, MinIs
      <4>5. c \in Nat
        BY <4>3, <4>4
      <4> HIDE DEF c
      <4>6. Gap(c) \in Nat /\ Gap(c) <= Gap(e)
        BY <4>3, <4>4, <4>5, BoundsKeepOrder
      <4>7. gap = Gap(e)
        BY <4>1 DEF e
      <4> HIDE DEF Gap
      <4> QED BY <4>6, <4>7 DEF c
    <3> HIDE DEF Gap, dist
    <3>6. b[i].start - P[n].timestamp > gap
      <4> DEFINE t == P[n].timestamp
                 u == D[p].timestamp
                 v == b[i].start
      <4>1. t \in Nat /\ u \in Nat /\ v \in Int /\ gap \in Nat /\ t <= u /\ v - u > gap
        BY <2>4, <2>6, <3>2, <3>4
      <4> HIDE DEF t, u, v
      <4>2. v - t > gap
        BY <4>1
      <4> QED BY <4>2 DEF t, v
    <3>7. dots[i].start - P[n].timestamp > Gap(Min(dist))
      <4> DEFINE e == b[i].start - P[n].timestamp
                 h == Gap(Min(dist))
      <4>1. e \in Int /\ gap \in Nat /\ h \in Nat /\ h <= gap /\ e > gap
        BY <2>4, <2>6, <3>4, <3>5, <3>6
      <4> HIDE DEF e, h
      <4>2. e > h
        BY <4>1
      <4> QED BY <2>9, <4>2 DEF e, h
    <3> QED BY <3>7
  <2> QED BY <2>10, <2>11
<1> QED BY <1>1, PageInvariant, PTL

-----------------------------------------------------------------------------
(* The choice of services.                                                 *)

\* The order PR of the places W of a is the order R of the things M that are there.
OrderOfPlaces(PR, W, R, M, a) ==
  /\ M = {a[i] : i \in W}
  /\ \A i, j \in W : a[i] = a[j] => i = j
  /\ PR \subseteq W \X W
  /\ \A i, j \in W : <<i, j>> \in PR <=> <<a[i], a[j]>> \in R

\* A thing then has the rank of its place.
LEMMA RankOfPlace ==
  ASSUME NEW a, NEW W, IsFiniteSet(W), NEW M, NEW R, NEW PR,
         OrderOfPlaces(PR, W, R, M, a), Order(R, M)
  PROVE  /\ Cardinality(M) = Cardinality(W) /\ IsFiniteSet(M)
         /\ Order(PR, W)
         /\ \A i \in W : Rank(PR, W, i) = Rank(R, M, a[i])
\* A set of places is as large as the set of what is there.
<1>0. /\ M = {a[i] : i \in W} /\ \A i, j \in W : a[i] = a[j] => i = j
      /\ PR \subseteq W \X W /\ \A i, j \in W : <<i, j>> \in PR <=> <<a[i], a[j]>> \in R
  BY DEF OrderOfPlaces
<1>1. ASSUME NEW V \in SUBSET W
      PROVE  Cardinality({a[i] : i \in V}) = Cardinality(V) /\ IsFiniteSet({a[i] : i \in V})
  <2> DEFINE T == {a[i] : i \in V}
             f == [i \in V |-> a[i]]
  <2>1. f \in Bijection(V, T)
    <3>1. f \in [V -> T] /\ \A i, j \in V : f[i] = f[j] => i = j
      BY <1>0
    <3>2. \A t \in T : \E i \in V : f[i] = t
      OBVIOUS
    <3> QED BY <3>1, <3>2 DEF Bijection, Injection, Surjection, IsInjective
  <2>2. IsFiniteSet(V)
    BY FS_Subset
  <2> HIDE DEF f, T
  <2>3. ExistsBijection(V, T)
    BY <2>1 DEF ExistsBijection
  <2> QED BY <2>2, <2>3, FS_Bijection DEF T
<1>2. Cardinality(M) = Cardinality(W) /\ IsFiniteSet(M)
  BY <1>0, <1>1
<1>3. Order(PR, W)
  <2>1. \A i \in W : a[i] \in M
    BY <1>0
  <2> QED BY <1>0, <2>1 DEF Order
<1>4. ASSUME NEW i \in W PROVE Rank(PR, W, i) = Rank(R, M, a[i])
  <2> DEFINE V == {j \in W : <<j, i>> \in PR}
  <2>1. {a[j] : j \in V} = {x \in M : <<x, a[i]>> \in R}
    BY <1>0
  <2>2. Cardinality({a[j] : j \in V}) = Cardinality(V)
    <3>1. V \in SUBSET W
      OBVIOUS
    <3> HIDE DEF V
    <3> QED BY <1>1, <3>1
  <2> QED BY <2>1, <2>2 DEF Rank
<1> QED BY <1>2, <1>3, <1>4

Nodes   == {Local} \cup fetched
WithAny == {x \in Nodes : x.services # <<>>}

GroupOrder == {p \in WithAny \X WithAny : GroupBefore(p[1], p[2])}

\* The node of the n-th group.
Nth(n) == CHOOSE x \in WithAny : Rank(GroupOrder, WithAny, x) = n - 1

LEMMA NodesAre ==
  ASSUME PageInv
  PROVE  /\ \A x \in Nodes : x \in OverviewNode
         /\ \A x, y \in Nodes : x.id = y.id => x = y
         /\ \A x \in Nodes : x.isLocal <=> x = Local
BY PageAssumption DEF PageInv, Nodes

\* A snapshot has every node once, this one first.
LEMMA SnapshotIs ==
  ASSUME PageInv, NEW a \in SnapshotNodes
  PROVE  /\ DOMAIN a = 1..Len(a) /\ Len(a) \in Nat /\ a \in Seq(Nodes)
         /\ \A i \in DOMAIN a : a[i] \in Nodes
         /\ \A i, j \in DOMAIN a : a[i] = a[j] => i = j
         /\ \A x \in Nodes : \E i \in DOMAIN a : a[i] = x
         /\ 1 \in DOMAIN a /\ a[1] = Local
         /\ Len(a) = 1 + Cardinality(fetched)
<1> DEFINE c == Cardinality(fetched)
           D == 1..c
<1>1. fetched \subseteq PeerNodes /\ IsFiniteSet(fetched) /\ Local \notin fetched /\ c \in Nat
  <2>1. fetched \subseteq PeerNodes /\ IsFiniteSet(fetched) /\ Local \notin fetched
    BY PageAssumption DEF PageInv
  <2> QED BY <2>1, FS_CardinalityType
<1>2. PICK f \in [D -> fetched] : /\ \A i, j \in D : i # j => f[i] # f[j]
                                  /\ a = <<Local>> \o f
  BY DEF SnapshotNodes, SetToSeqs
<1>3. f \in Surjection(D, fetched)
  <2>1. f \in Injection(D, fetched)
    BY <1>2 DEF Injection, IsInjective
  <2>2. Cardinality(D) = c
    <3>1. Cardinality(D) = IF 1 > c THEN 0 ELSE c - 1 + 1
      <4>1. 1 \in Int /\ c \in Int
        BY <1>1
      <4> QED BY <4>1, FS_Interval
    <3> QED BY <1>1, <3>1
  <2> HIDE DEF D
  <2> QED BY <1>1, <2>1, <2>2, FS_Injection
<1>4. f \in Seq(fetched) /\ Len(f) = c
  BY <1>1, <1>2
<1> HIDE DEF c
<1>5. /\ <<Local>> \in Seq(Nodes) /\ Len(<<Local>>) = 1 /\ <<Local>>[1] = Local
      /\ f \in Seq(Nodes)
  BY <1>2, <1>4 DEF Nodes
<1>6. /\ a \in Seq(Nodes) /\ Len(a) = 1 + c
      /\ \A i \in 1..(1 + c) : a[i] = IF i <= 1 THEN Local ELSE f[i - 1]
  <2> DEFINE l == <<Local>>
  <2>1. l \in Seq(Nodes) /\ Len(l) = 1 /\ l[1] = Local /\ a = l \o f
    BY <1>2, <1>5
  <2> HIDE DEF l
  <2>2. /\ a \in Seq(Nodes) /\ Len(a) = Len(l) + Len(f)
        /\ \A i \in 1..(Len(l) + Len(f)) : a[i] = IF i <= Len(l) THEN l[i] ELSE f[i - Len(l)]
    BY <1>5, <2>1, ConcatProperties
  <2>3. ASSUME NEW i \in 1..(1 + c) PROVE a[i] = IF i <= 1 THEN Local ELSE f[i - 1]
    <3>1. a[i] = IF i <= 1 THEN l[i] ELSE f[i - 1]
      BY <1>4, <2>1, <2>2
    <3>2. i <= 1 => i = 1
      OBVIOUS
    <3> QED BY <2>1, <3>1, <3>2
  <2> QED BY <1>4, <2>1, <2>2, <2>3
<1>7. DOMAIN a = 1..(1 + c) /\ Len(a) \in Nat
  BY <1>6, LenProperties
<1>8. a[1] = Local /\ \A i \in 2..(1 + c) : i - 1 \in D /\ a[i] = f[i - 1] /\ a[i] \in fetched
  BY <1>1, <1>2, <1>6
<1>9. ASSUME NEW i \in DOMAIN a, NEW j \in DOMAIN a, a[i] = a[j] PROVE i = j
  <2>1. CASE i = 1 \/ j = 1
    BY <1>1, <1>7, <1>8, <1>9, <2>1
  <2>2. CASE i # 1 /\ j # 1
    <3>1. i \in 2..(1 + c) /\ j \in 2..(1 + c)
      BY <1>1, <1>7, <2>2
    <3>2. i - 1 \in D /\ j - 1 \in D /\ f[i - 1] = f[j - 1]
      BY <1>8, <1>9, <3>1
    <3> HIDE DEF D
    <3>3. i - 1 = j - 1
      BY <1>2, <3>2
    <3> QED BY <3>1, <3>3
  <2> QED BY <2>1, <2>2
<1>10. ASSUME NEW x \in Nodes PROVE \E i \in DOMAIN a : a[i] = x
  <2>1. CASE x = Local
    BY <1>1, <1>7, <1>8, <2>1
  <2>2. CASE x \in fetched
    <3>1. PICK k \in D : f[k] = x
      BY <1>3, <2>2 DEF Surjection
    <3>2. k + 1 \in 2..(1 + c) /\ k + 1 \in DOMAIN a /\ (k + 1) - 1 = k
      BY <1>1, <1>7
    <3> QED BY <1>8, <3>1, <3>2
  <2> QED BY <2>1, <2>2 DEF Nodes
<1>11. \A i \in DOMAIN a : a[i] \in Nodes
  BY <1>6, <1>7
<1>12. Len(a) = 1 + Cardinality(fetched)
  BY <1>6 DEF c
<1> QED BY <1>1, <1>6, <1>7, <1>8, <1>9, <1>10, <1>11, <1>12

\* The order of the groups is one: this node first, then by names and identifiers.
LEMMA GroupsOrdered ==
  ASSUME PageInv
  PROVE  Order(GroupOrder, WithAny)
<1>1. \A x \in WithAny : x.id \in Nat /\ x.name \in Nat /\ x.isLocal \in BOOLEAN
  BY NodesAre DEF WithAny, OverviewNode
<1>2. \A x, y \in WithAny : x.id = y.id => x = y
  BY NodesAre DEF WithAny
<1>3. \A x \in WithAny : ~GroupBefore(x, x)
  BY <1>1 DEF GroupBefore, ByName
<1>4. \A x, y \in WithAny : x # y => GroupBefore(x, y) \/ GroupBefore(y, x)
  BY <1>1, <1>2 DEF GroupBefore, ByName
<1>5. \A x, y, z \in WithAny : GroupBefore(x, y) /\ GroupBefore(y, z) => GroupBefore(x, z)
  BY <1>1 DEF GroupBefore, ByName
<1> QED BY <1>3, <1>4, <1>5 DEF Order, GroupOrder

\* buildServiceGroups: the groups are in that order, whatever the order of the nodes.
LEMMA GroupsAre ==
  ASSUME PageInv, NEW a \in SnapshotNodes
  PROVE  /\ BuildServiceGroups(a) = [n \in 1..Cardinality(WithAny) |-> GroupOf(Nth(n))]
         /\ IsFiniteSet(WithAny)
<1> DEFINE W == WithServices(a)
           G == [i \in DOMAIN a |-> GroupOf(a[i])]
           Precedes(j, i) == \/ GroupBefore(G[j], G[i])
                             \/ ~GroupBefore(G[i], G[j]) /\ j < i
           PR == {p \in W \X W : Precedes(p[1], p[2])}
           R == GroupOrder
           M == WithAny
<1>1. /\ DOMAIN a = 1..Len(a) /\ Len(a) \in Nat /\ \A i \in DOMAIN a : a[i] \in Nodes
      /\ \A i, j \in DOMAIN a : a[i] = a[j] => i = j
      /\ \A x \in Nodes : \E i \in DOMAIN a : a[i] = x
  BY SnapshotIs
<1>2. W \in SUBSET (1..Len(a)) /\ IsFiniteSet(W) /\ {a[i] : i \in W} = M
  <2>1. W \in SUBSET (1..Len(a)) /\ {a[i] : i \in W} = M
    BY <1>1 DEF WithServices, WithAny
  <2>2. IsFiniteSet(1..Len(a))
    <3>1. 1 \in Int /\ Len(a) \in Int
      BY <1>1
    <3> QED BY <3>1, FS_Interval
  <2> HIDE DEF W
  <2> QED BY <2>1, <2>2, FS_Subset
<1>3. ASSUME NEW i \in W
      PROVE  /\ G[i] = GroupOf(a[i]) /\ a[i] \in M
             /\ G[i].id = a[i].id /\ G[i].name = a[i].name /\ G[i].isLocal = a[i].isLocal
  <2>1. i \in DOMAIN a /\ a[i] \in M /\ a[i] \in Nodes
    BY <1>1, <1>2
  <2>2. a[i] \in OverviewNode /\ G[i] = GroupOf(a[i])
    BY <2>1, NodesAre
  <2> QED BY <2>1, <2>2 DEF OverviewNode, GroupOf
<1>4. ASSUME NEW i \in W, NEW j \in W
      PROVE  /\ GroupBefore(G[i], G[j]) <=> GroupBefore(a[i], a[j])
             /\ GroupBefore(a[i], a[j]) <=> <<a[i], a[j]>> \in R
  <2> HIDE DEF W, G
  <2>1. a[i] \in M /\ a[j] \in M
    BY <1>3
  <2> QED BY <1>3, <2>1 DEF GroupBefore, ByName, GroupOrder
<1>5. Order(R, M)
  BY GroupsOrdered
<1>6. ASSUME NEW i \in W, NEW j \in W
      PROVE  <<i, j>> \in PR <=> <<a[i], a[j]>> \in R
  <2>1. a[i] = a[j] => i = j
    BY <1>1, <1>2
  <2>2. a[i] \in M /\ a[j] \in M
    BY <1>3
  <2>3. <<i, j>> \in PR <=> Precedes(i, j)
    OBVIOUS
  <2>4. Precedes(i, j) <=> <<a[i], a[j]>> \in R \/ (~(<<a[j], a[i]>> \in R) /\ i < j)
    <3> HIDE DEF W, G
    <3> QED BY <1>4
  <2>5. CASE i = j
    <3>1. ~(i < j)
      BY <1>1, <1>2, <2>5
    <3> HIDE DEF Precedes, PR
    <3> QED BY <2>3, <2>4, <2>5, <3>1
  <2>6. CASE i # j
    <3>1. a[i] # a[j] /\ (<<a[i], a[j]>> \in R \/ <<a[j], a[i]>> \in R)
      <4> HIDE DEF M, R
      <4> QED BY <1>5, <2>1, <2>2, <2>6 DEF Order
    <3>2. ~(<<a[i], a[j]>> \in R /\ <<a[j], a[i]>> \in R)
      <4> HIDE DEF M, R
      <4> QED BY <1>5, <2>2 DEF Order
    <3> HIDE DEF Precedes, PR
    <3> QED BY <2>3, <2>4, <3>1, <3>2
  <2> QED BY <2>5, <2>6
<1> DEFINE c == Cardinality(W)
           place(n) == CHOOSE i \in W : Cardinality({j \in W : Precedes(j, i)}) = n - 1
<1>7. BuildServiceGroups(a) = [n \in 1..c |-> G[place(n)]]
  BY DEF BuildServiceGroups, Sorted
<1>8. ASSUME NEW i \in W
      PROVE  Cardinality({j \in W : Precedes(j, i)}) = Rank(PR, W, i)
  <2>1. {j \in W : Precedes(j, i)} = {j \in W : <<j, i>> \in PR}
    <3> HIDE DEF Precedes, W
    <3> QED OBVIOUS
  <2> QED BY <2>1 DEF Rank
<1>9. /\ PR \subseteq W \X W /\ \A i, j \in W : a[i] = a[j] => i = j
  <2>1. PR \subseteq W \X W
    OBVIOUS
  <2>2. \A i, j \in W : a[i] = a[j] => i = j
    BY <1>1, <1>2
  <2> QED BY <2>1, <2>2
<1> HIDE DEF W, PR, G, Precedes, R, M
<1>10. /\ Cardinality(M) = c /\ IsFiniteSet(M)
       /\ Order(PR, W)
       /\ \A i \in W : Rank(PR, W, i) = Rank(R, M, a[i])
  <2>1. M = {a[i] : i \in W} /\ IsFiniteSet(W)
    BY <1>2
  <2>3. OrderOfPlaces(PR, W, R, M, a) /\ Order(R, M)
    BY <1>5, <1>6, <1>9, <2>1 DEF OrderOfPlaces
  <2> HIDE DEF c, place
  <2>2. Cardinality(M) = Cardinality(W) /\ IsFiniteSet(M) /\ Order(PR, W)
        /\ \A i \in W : Rank(PR, W, i) = Rank(R, M, a[i])
    <3>1. IsFiniteSet(W)
      BY <2>1
    <3> QED BY <3>1, <2>3, RankOfPlace
  <2> QED BY <2>2 DEF c
<1>11. ASSUME NEW n \in 1..c
       PROVE  G[place(n)] = GroupOf(Nth(n))
  <2>1. \E i \in W : Rank(PR, W, i) = n - 1
    <3>1. n \in 1..Cardinality(W)
      OBVIOUS
    <3>2. IsFiniteSet(W) /\ Order(PR, W)
      BY <1>2, <1>10
    <3> HIDE DEF place, c
    <3> QED BY <3>1, <3>2, Ranked
  <2>2. place(n) \in W /\ Rank(PR, W, place(n)) = n - 1
    <3>1. \E i \in W : Cardinality({j \in W : Precedes(j, i)}) = n - 1
      BY <1>8, <2>1
    <3>2. place(n) \in W /\ Cardinality({j \in W : Precedes(j, place(n))}) = n - 1
      BY <3>1
    <3> HIDE DEF place
    <3> QED BY <1>8, <3>2
  <2> HIDE DEF place
  <2>3. a[place(n)] \in M /\ Rank(R, M, a[place(n)]) = n - 1
    BY <1>3, <1>10, <2>2
  <2>4. \A x, y \in M : Rank(R, M, x) = Rank(R, M, y) => x = y
    BY <1>5, <1>10, Ranked
  <2>5. Nth(n) \in M /\ Rank(R, M, Nth(n)) = n - 1
    BY <2>3 DEF Nth, R, M
  <2>6. Nth(n) = a[place(n)]
    BY <2>3, <2>4, <2>5
  <2> QED BY <1>3, <2>2, <2>6
<1> HIDE DEF place
<1>12. BuildServiceGroups(a) = [n \in 1..c |-> GroupOf(Nth(n))]
  BY <1>7, <1>11
<1> QED BY <1>10, <1>12 DEF M

\* e is the n sequences of ss one after the other; off[k] is where the k-th ends.
Flat(e, off, ss, n) ==
  /\ off \in [0..n -> Nat] /\ off[0] = 0
  /\ \A k \in 1..n : off[k] = off[k - 1] + Len(ss[k])
  /\ Len(e) = off[n]
  /\ \A k \in 1..n : \A j \in 1..Len(ss[k]) : e[off[k - 1] + j] = ss[k][j]

LEMMA FlattenIs ==
  ASSUME NEW S, NEW n \in Nat \ {0}, NEW ss, Len(ss) = n, \A k \in 1..n : ss[k] \in Seq(S)
  PROVE  /\ FlattenSeq(ss) \in Seq(S)
         /\ \E off : Flat(FlattenSeq(ss), off, ss, n)
<1> DEFINE X == Seq(S)
           Step(f) == [i \in 1..n |-> IF i = 1 THEN ss[i] ELSE f[i - 1] \o ss[i]]
<1>1. n \in Nat /\ <<>> \in X /\ 1 \in 1..n
  BY EmptySeq
<1>2. \E f : f = Step(f)
  <2> DEFINE G == [k \in 1..n |-> [x \in X |-> x \o ss[k]]]
             none == <<>>
  <2>1. G \in Rounds(n, X)
    <3>1. \A k \in 1..n, x \in X : x \o ss[k] \in X
      BY ConcatProperties
    <3> HIDE DEF X
    <3> QED BY <3>1 DEF Rounds
  <2>2. none \in X
    BY <1>1
  <2>3. PICK f : Runs(f, n, X, none, G)
    <3> HIDE DEF G, X, none
    <3> QED BY <1>1, <2>1, <2>2, Recursion
  <2>4. f[0] = <<>> /\ \A k \in 1..n : f[k] = G[k][f[k - 1]]
    <3> HIDE DEF G, X
    <3> QED BY <2>3 DEF Runs
  <2>5. ASSUME NEW k \in 1..n
        PROVE  f[k] = f[k - 1] \o ss[k]
    <3>1. k - 1 \in 0..n
      OBVIOUS
    <3>2. f[k - 1] \in X
      <4> HIDE DEF G, X
      <4> QED BY <2>3, <3>1 DEF Runs
    <3>3. G[k][f[k - 1]] = f[k - 1] \o ss[k]
      <4> HIDE DEF X
      <4> QED BY <3>2
    <3> HIDE DEF G
    <3> QED BY <2>4, <3>3
  <2>6. f[1] = ss[1]
    <3>1. f[1] = <<>> \o ss[1] /\ ss[1] \in Seq(S)
      <4>1. 1 - 1 = 0 /\ f[1] = f[1 - 1] \o ss[1] /\ f[0] = <<>>
        <5> HIDE DEF G, X
        <5> QED BY <1>1, <2>4, <2>5
      <4>2. f[1 - 1] = f[0]
        BY <4>1
      <4> QED BY <1>1, <4>1, <4>2
    <3> QED BY <3>1, ConcatEmptySeq
  <2> DEFINE g == [i \in 1..n |-> f[i]]
  <2>7. ASSUME NEW i \in 1..n PROVE g[i] = Step(g)[i]
    <3>1. CASE i = 1
      BY <2>6, <3>1
    <3>2. CASE i # 1
      <4>1. i - 1 \in 1..n /\ g[i - 1] = f[i - 1]
        BY <3>2
      <4> QED BY <2>5, <3>2, <4>1
    <3> QED BY <3>1, <3>2
  <2>8. g = Step(g)
    <3>1. Step(g) = [i \in 1..n |-> Step(g)[i]] /\ g = [i \in 1..n |-> g[i]]
      OBVIOUS
    <3> HIDE DEF Step, g
    <3> QED BY <2>7, <3>1
  <2> QED BY <2>8
<1> DEFINE fl == CHOOSE f : f = Step(f)
<1>3. fl = Step(fl)
  <2> HIDE DEF Step
  <2> QED BY <1>2
<1>4. FlattenSeq(ss) = fl[n]
  BY DEF FlattenSeq
<1> HIDE DEF fl
<1>5. fl[1] = ss[1] /\ \A i \in 2..n : fl[i] = fl[i - 1] \o ss[i]
  <2>1. \A i \in 1..n : fl[i] = Step(fl)[i]
    <3> HIDE DEF Step
    <3> QED BY <1>3
  <2>2. Step(fl)[1] = ss[1]
    BY <1>1
  <2>3. ASSUME NEW i \in 2..n PROVE fl[i] = fl[i - 1] \o ss[i]
    <3>1. i \in 1..n /\ i # 1
      OBVIOUS
    <3>2. Step(fl)[i] = fl[i - 1] \o ss[i]
      BY <3>1
    <3> HIDE DEF Step
    <3> QED BY <2>1, <3>1, <3>2
  <2>4. fl[1] = ss[1]
    <3> HIDE DEF Step
    <3> QED BY <1>1, <2>1, <2>2
  <2> QED BY <2>3, <2>4
<1> HIDE DEF Step
<1> DEFINE off == [k \in 0..n |-> IF k = 0 THEN 0 ELSE Len(fl[k])]
           Right(k) == k > 0 =>
             /\ fl[k] \in X /\ off[k] = off[k - 1] + Len(ss[k])
             /\ \A l \in 1..k : \A j \in 1..Len(ss[l]) :
                  off[l - 1] + j \in 1..off[k] /\ fl[k][off[l - 1] + j] = ss[l][j]
           Good == {k \in 0..n : off[k] \in Nat /\ Right(k)}
<1>6. ASSUME NEW k \in 1..n, off[k - 1] \in Nat, Right(k - 1) PROVE off[k] \in Nat /\ Right(k)
  <2>1. ss[k] \in X /\ Len(ss[k]) \in Nat /\ off[k] = Len(fl[k]) /\ k \in Nat
    BY LenProperties
  <2>2. CASE k = 1
    <3>1. k - 1 = 0 /\ off[0] = 0 /\ fl[k] = ss[k] /\ \A l \in 1..k : l = k
      <4> HIDE DEF X
      <4> QED BY <1>1, <1>5, <2>2
    <3>2. off[k - 1] = 0
      BY <3>1
    <3> HIDE DEF off
    <3>3. off[k] = Len(ss[k]) /\ off[k] \in Nat /\ fl[k] \in X
      BY <2>1, <3>1
    <3>4. ASSUME NEW l \in 1..k, NEW j \in 1..Len(ss[l])
          PROVE  off[l - 1] + j \in 1..off[k] /\ fl[k][off[l - 1] + j] = ss[l][j]
      <4>1. l = k /\ off[l - 1] = 0
        BY <3>1, <3>2
      <4>2. j \in 1..off[k] /\ 0 + j = j
        BY <3>3, <4>1
      <4> HIDE DEF X
      <4> QED BY <3>1, <4>1, <4>2
    <3> HIDE DEF X
    <3> QED BY <2>1, <3>2, <3>3, <3>4
  <2>3. CASE k # 1
    <3> DEFINE x == fl[k - 1]
               y == ss[k]
               z == fl[k]
    <3>1. k \in 2..n /\ k - 1 \in 1..n /\ k - 1 > 0
      BY <2>3
    <3>2. x \in X /\ off[k - 1] = Len(x)
      BY <1>6, <3>1
    <3>3. z = x \o y /\ y \in X
      BY <1>5, <2>1, <3>1
    <3> HIDE DEF x, y, z
    <3>4. /\ z \in X /\ Len(z) = Len(x) + Len(y)
          /\ \A i \in 1..(Len(x) + Len(y)) : z[i] = IF i <= Len(x) THEN x[i] ELSE y[i - Len(x)]
      BY <3>2, <3>3, ConcatProperties
    <3>5. off[k] = off[k - 1] + Len(y) /\ off[k] \in Nat /\ Len(y) \in Nat
      <4> HIDE DEF off
      <4> QED BY <1>6, <2>1, <3>2, <3>4 DEF y, z
    <3>6. ASSUME NEW l \in 1..k, NEW j \in 1..Len(ss[l])
          PROVE  off[l - 1] + j \in 1..off[k] /\ z[off[l - 1] + j] = ss[l][j]
      <4>1. CASE l = k
        <5>1. Len(x) + j \in 1..(Len(x) + Len(y)) /\ ~(Len(x) + j <= Len(x))
              /\ Len(x) + j - Len(x) = j /\ Len(x) \in Nat
          <6> HIDE DEF off
          <6> QED BY <1>6, <3>2, <3>5, <4>1 DEF y
        <5>2. z[Len(x) + j] = y[j]
          BY <3>4, <5>1
        <5> HIDE DEF off
        <5> QED BY <3>2, <3>5, <4>1, <5>1, <5>2 DEF y
      <4>2. CASE l # k
        <5>1. l \in 1..(k - 1)
          BY <4>2
        <5>2. off[l - 1] + j \in 1..off[k - 1] /\ x[off[l - 1] + j] = ss[l][j]
          <6> HIDE DEF off
          <6> QED BY <1>6, <3>1, <5>1 DEF x
        <5> DEFINE i == off[l - 1] + j
        <5>3. i \in 1..Len(x) /\ x[i] = ss[l][j] /\ Len(x) \in Nat
          <6> HIDE DEF off
          <6> QED BY <1>6, <3>2, <5>2
        <5> HIDE DEF i
        <5>4. i \in 1..(Len(x) + Len(y)) /\ i <= Len(x)
          BY <3>5, <5>3
        <5>5. z[i] = x[i]
          BY <3>4, <5>4
        <5> HIDE DEF off
        <5> QED BY <3>2, <3>5, <5>3, <5>4, <5>5 DEF i
      <4> QED BY <4>1, <4>2
    <3> HIDE DEF off
    <3> QED BY <3>4, <3>5, <3>6 DEF y, z
  <2> QED BY <2>2, <2>3
<1>7. \A k \in 0..n : k \in Good
  <2>1. 0 \in Good
    BY <1>1
  <2>2. ASSUME NEW k \in 1..n, k - 1 \in Good PROVE k \in Good
    <3>1. off[k] \in Nat /\ Right(k)
      <4> HIDE DEF Right, off
      <4> QED BY <1>6, <2>2
    <3> HIDE DEF Right, off
    <3> QED BY <3>1
  <2> HIDE DEF Good
  <2> QED BY <1>1, <2>1, <2>2, UpTo
<1>8. \A k \in 0..n : off[k] \in Nat /\ Right(k)
  BY <1>7
<1>9. /\ off \in [0..n -> Nat] /\ off[0] = 0
      /\ \A k \in 1..n : off[k] = off[k - 1] + Len(ss[k])
      /\ fl[n] \in X /\ Len(fl[n]) = off[n]
      /\ \A l \in 1..n : \A j \in 1..Len(ss[l]) : fl[n][off[l - 1] + j] = ss[l][j]
  <2>1. off \in [0..n -> Nat]
    BY <1>8
  <2>2. off[0] = 0 /\ Len(fl[n]) = off[n] /\ n \in 0..n /\ n > 0
    BY <1>1
  <2>3. \A k \in 1..n : k \in 0..n /\ k > 0
    OBVIOUS
  <2> HIDE DEF off
  <2> QED BY <1>8, <2>1, <2>2, <2>3
<1>10. Flat(FlattenSeq(ss), off, ss, n)
  <2> HIDE DEF off
  <2> QED BY <1>4, <1>9 DEF Flat
<1> QED BY <1>4, <1>9, <1>10

\* Each of the places of e is in one of the sequences.
LEMMA FlatPlaces ==
  ASSUME NEW n \in Nat, NEW e, NEW off, NEW ss, Flat(e, off, ss, n),
         \A k \in 1..n : Len(ss[k]) \in Nat
  PROVE  /\ \A k \in 0..n : off[k] \in Nat
         /\ \A l \in 0..n : \A k \in 0..l : off[k] <= off[l]
         /\ \A p \in 1..off[n] : \E k \in 1..n : off[k - 1] < p /\ p <= off[k]
<1>1. /\ \A k \in 0..n : off[k] \in Nat
      /\ off[0] = 0
      /\ \A k \in 1..n : off[k] = off[k - 1] + Len(ss[k])
  BY DEF Flat
<1> DEFINE Good == {l \in 0..n : \A k \in 0..l : off[k] <= off[l]}
<1>2. \A l \in 0..n : l \in Good
  <2>1. 0 \in Good
    BY <1>1
  <2>2. ASSUME NEW l \in 1..n, l - 1 \in Good PROVE l \in Good
    <3>1. l \in 0..n /\ l - 1 \in 0..n /\ off[l - 1] <= off[l]
          /\ off[l] \in Nat /\ off[l - 1] \in Nat
      <4>1. l \in 0..n /\ l - 1 \in 0..n
        OBVIOUS
      <4>2. off[l] \in Nat /\ off[l - 1] \in Nat
        BY <1>1, <4>1
      <4>3. off[l] = off[l - 1] + Len(ss[l]) /\ Len(ss[l]) \in Nat
        BY <1>1
      <4> QED BY <4>1, <4>2, <4>3
    <3>2. ASSUME NEW k \in 0..l PROVE off[k] <= off[l]
      <4>1. k \in 0..n /\ off[k] \in Nat /\ (k = l \/ k \in 0..(l - 1))
        BY <1>1
      <4>2. CASE k \in 0..(l - 1)
        <5>1. off[k] <= off[l - 1]
          BY <2>2, <4>2
        <5> QED BY <3>1, <4>1, <5>1
      <4> QED BY <3>1, <4>1, <4>2
    <3> QED BY <3>1, <3>2
  <2> HIDE DEF Good
  <2> QED BY <2>1, <2>2, UpTo
<1>3. ASSUME NEW p \in 1..off[n] PROVE \E k \in 1..n : off[k - 1] < p /\ p <= off[k]
  <2> DEFINE T == {k \in 0..n : p <= off[k]}
  <2>1. T \in SUBSET Nat /\ n \in T
    BY <1>1
  <2>2. PICK k \in T : \A l \in T : k <= l
    <3> HIDE DEF T
    <3> QED BY <2>1, Least
  <2>3. k \in 1..n /\ p <= off[k]
    <3>1. k \in 0..n /\ p <= off[k] /\ off[0] = 0 /\ p \in Int /\ p >= 1
      BY <1>1, <2>2
    <3>2. k # 0
      BY <3>1
    <3> QED BY <3>1, <3>2
  <2>4. k - 1 \in 0..n /\ ~(k <= k - 1) /\ off[k - 1] \in Nat
    BY <1>1, <2>3
  <2>5. k - 1 \notin T
    <3> HIDE DEF T
    <3> QED BY <2>2, <2>4
  <2>6. ~(p <= off[k - 1])
    BY <2>4, <2>5
  <2> QED BY <2>3, <2>4, <2>6
<1>4. \A l \in 0..n : \A k \in 0..l : off[k] <= off[l]
  BY <1>2
<1> QED BY <1>1, <1>3, <1>4

\* The places of an order, first to last.
PlacesIn(PR, W) == [n \in 1..Cardinality(W) |-> CHOOSE i \in W : Rank(PR, W, i) = n - 1]

InOrder(pl, PR, W) ==
  /\ Cardinality(W) \in Nat
  /\ \A n \in 1..Cardinality(W) : pl[n] \in W /\ Rank(PR, W, pl[n]) = n - 1
  /\ \A m, n \in 1..Cardinality(W) : pl[m] = pl[n] => m = n
  /\ \A i \in W : \E n \in 1..Cardinality(W) : pl[n] = i

LEMMA PlacesOf ==
  ASSUME NEW W, IsFiniteSet(W), NEW PR, Order(PR, W)
  PROVE  InOrder(PlacesIn(PR, W), PR, W)
<1> DEFINE c == Cardinality(W)
           place == PlacesIn(PR, W)
<1>1. /\ c \in Nat
      /\ \A i \in W : Rank(PR, W, i) \in 0..(c - 1)
      /\ \A i, j \in W : Rank(PR, W, i) = Rank(PR, W, j) => i = j
      /\ \A n \in 1..c : \E i \in W : Rank(PR, W, i) = n - 1
  BY Ranked
<1>2. \A n \in 1..c : place[n] \in W /\ Rank(PR, W, place[n]) = n - 1
  BY <1>1 DEF PlacesIn, c
<1> HIDE DEF c, place
<1>3. ASSUME NEW m \in 1..c, NEW n \in 1..c, place[m] = place[n] PROVE m = n
  <2>1. m - 1 = n - 1 /\ m \in Int /\ n \in Int
    BY <1>1, <1>2, <1>3
  <2> QED BY <2>1
<1>4. ASSUME NEW i \in W PROVE \E n \in 1..c : place[n] = i
  <2> DEFINE n == Rank(PR, W, i) + 1
  <2>1. n \in 1..c /\ n - 1 = Rank(PR, W, i)
    BY <1>1
  <2>2. place[n] \in W /\ Rank(PR, W, place[n]) = Rank(PR, W, i)
    <3> HIDE DEF n
    <3> QED BY <1>2, <2>1
  <2>3. place[n] = i
    <3> HIDE DEF n
    <3> QED BY <1>1, <2>2
  <2> HIDE DEF n
  <2> QED BY <2>1, <2>3
<1> QED BY <1>1, <1>2, <1>3, <1>4 DEF c, place, InOrder

\* The k-th turn is about the groups at W, in the order of pl.
TurnOf(g, k, W, pl) ==
  /\ Cardinality(W) \in Nat
  /\ \A n \in 1..Cardinality(W) : pl[n] \in W
  /\ \A m, n \in 1..Cardinality(W) : pl[m] = pl[n] => m = n
  /\ \A i \in W : \E n \in 1..Cardinality(W) : pl[n] = i
  /\ 1 \in W => 1 \in 1..Cardinality(W) /\ pl[1] = 1
  /\ Turn(g, k) = [n \in 1..Cardinality(W) |->
                     [node |-> g[pl[n]].id, id |-> g[pl[n]].services[k].id]]

\* A turn takes the k-th service of each group that has one, of the first group first.
LEMMA TurnIs ==
  ASSUME NEW c \in Nat, NEW g, DOMAIN g = 1..c, NEW k \in Nat \ {0},
         NEW W, W = {i \in 1..c : Len(g[i].services) >= k}
  PROVE  \E pl : TurnOf(g, k, W, pl)
<1> DEFINE d == Cardinality(W)
           PR == {p \in W \X W : p[1] < p[2]}
           pl == PlacesIn(PR, W)
<1>1. W \in SUBSET (1..c) /\ IsFiniteSet(W)
  <2>1. IsFiniteSet(1..c)
    <3>1. 1 \in Int /\ c \in Int
      OBVIOUS
    <3> QED BY <3>1, FS_Interval
  <2>2. W \in SUBSET (1..c)
    OBVIOUS
  <2> QED BY <2>1, <2>2, FS_Subset
<1>2. Order(PR, W)
  <2>1. \A i \in W : i \in Int
    BY <1>1
  <2> QED BY <2>1 DEF Order
<1>3. ASSUME NEW i \in W
      PROVE  {j \in W : FALSE \/ (~FALSE /\ j < i)} = {j \in W : <<j, i>> \in PR}
  OBVIOUS
<1>4. Sorted(g, W, AsFound) = [n \in 1..d |-> g[pl[n]]]
  <2> DEFINE Precedes(j, i) == \/ AsFound(g[j], g[i])
                               \/ ~AsFound(g[i], g[j]) /\ j < i
             place(n) == CHOOSE i \in W : Cardinality({j \in W : Precedes(j, i)}) = n - 1
  <2>1. Sorted(g, W, AsFound) = [n \in 1..d |-> g[place(n)]]
    BY DEF Sorted
  <2>2. ASSUME NEW n \in 1..d PROVE place(n) = pl[n]
    <3>1. \A i \in W : {j \in W : Precedes(j, i)} = {j \in W : <<j, i>> \in PR}
      BY <1>3 DEF AsFound
    <3>2. \A i \in W : Cardinality({j \in W : Precedes(j, i)}) = Rank(PR, W, i)
      <4> HIDE DEF PR, Precedes
      <4> QED BY <3>1 DEF Rank
    <3>3. pl[n] = CHOOSE i \in W : Rank(PR, W, i) = n - 1
      BY DEF PlacesIn
    <3> HIDE DEF PR, pl, Precedes
    <3> QED BY <3>2, <3>3
  <2> HIDE DEF place, pl
  <2> QED BY <2>1, <2>2
<1>5. /\ d \in Nat
      /\ \A n \in 1..d : pl[n] \in W /\ Rank(PR, W, pl[n]) = n - 1
      /\ \A m, n \in 1..d : pl[m] = pl[n] => m = n
      /\ \A i \in W : \E n \in 1..d : pl[n] = i
  <2>1. IsFiniteSet(W)
    BY <1>1
  <2> HIDE DEF PR
  <2>2. InOrder(pl, PR, W)
    BY <2>1, <1>2, PlacesOf
  <2> HIDE DEF pl
  <2> QED BY <2>2 DEF InOrder
<1> HIDE DEF pl
<1>6. ASSUME 1 \in W PROVE 1 \in 1..d /\ pl[1] = 1
  <2>1. {j \in W : <<j, 1>> \in PR} = {}
    BY <1>1
  <2>2. Rank(PR, W, 1) = 0
    <3> HIDE DEF PR
    <3> QED BY <2>1, FS_EmptySet DEF Rank
  <2>3. PICK n \in 1..d : pl[n] = 1
    <3> HIDE DEF d, PR
    <3> QED BY <1>5, <1>6
  <2>4. n - 1 = 0 /\ n \in Int
    <3>1. Rank(PR, W, pl[n]) = n - 1
      <4> HIDE DEF d, PR
      <4> QED BY <1>5
    <3> HIDE DEF PR, d
    <3> QED BY <1>5, <2>2, <2>3, <3>1
  <2>5. n = 1
    BY <2>4
  <2> QED BY <2>3, <2>5
<1>7. Turn(g, k) = [n \in 1..d |-> [node |-> g[pl[n]].id, id |-> g[pl[n]].services[k].id]]
  <2> DEFINE having == Sorted(g, {i \in DOMAIN g : Len(g[i].services) >= k}, AsFound)
  <2>1. having = [n \in 1..d |-> g[pl[n]]]
    <3>1. {i \in DOMAIN g : Len(g[i].services) >= k} = W
      OBVIOUS
    <3>2. having = Sorted(g, W, AsFound)
      BY <3>1
    <3> HIDE DEF having
    <3> QED BY <1>4, <3>2
  <2>2. Turn(g, k) = [i \in DOMAIN having |->
                        [node |-> having[i].id, id |-> having[i].services[k].id]]
    BY DEF Turn
  <2> HIDE DEF having
  <2> QED BY <2>1, <2>2
<1>8. TurnOf(g, k, W, pl)
  BY <1>5, <1>6, <1>7 DEF TurnOf
<1> QED BY <1>8

\* The services of a group are those of its node, in some order.
LEMMA ServicesSorted ==
  ASSUME NEW x \in OverviewNode,
         \A i, j \in DOMAIN x.services : x.services[i].id = x.services[j].id => i = j
  PROVE  /\ GroupOf(x).id = x.id
         /\ Len(x.services) \in Nat
         /\ DOMAIN GroupOf(x).services = 1..Len(x.services)
         /\ Len(GroupOf(x).services) = Len(x.services)
         /\ \A i \in 1..Len(x.services) : GroupOf(x).services[i].id \in Nat
         /\ \A i, j \in 1..Len(x.services) :
              GroupOf(x).services[i].id = GroupOf(x).services[j].id => i = j
<1> DEFINE s == x.services
           n == Len(s)
           W == DOMAIN s
           Type == [id : Nat, name : Nat, order : Nat]
           Precedes(j, i) == \/ ServiceBefore(s[j], s[i])
                             \/ ~ServiceBefore(s[i], s[j]) /\ j < i
           PR == {p \in W \X W : Precedes(p[1], p[2])}
           pl == PlacesIn(PR, W)
           t == GroupOf(x).services
<1>1. /\ s \in Seq(Type) /\ W = 1..n /\ n \in Nat
      /\ \A i \in W : s[i] \in Type
  <2>1. s \in Seq(Type)
    BY DEF OverviewNode
  <2> HIDE DEF s
  <2> QED BY <2>1, LenProperties, ElementOfSeq
<1>2. IsFiniteSet(W) /\ Cardinality(W) = n
  <2>1. 1 \in Int /\ n \in Int
    BY <1>1
  <2>2. IsFiniteSet(1..n) /\ Cardinality(1..n) = IF 1 > n THEN 0 ELSE n - 1 + 1
    <3> HIDE DEF n
    <3> QED BY <2>1, FS_Interval
  <2>3. Cardinality(1..n) = n
    BY <1>1, <2>2
  <2> QED BY <1>1, <2>2, <2>3
<1>3. t = Sorted(s, W, ServiceBefore) /\ GroupOf(x).id = x.id
  BY DEF GroupOf, OverviewNode
<1>4. Sorted(s, W, ServiceBefore) =
        [m \in 1..Cardinality(W) |->
           s[CHOOSE i \in W : Cardinality({j \in W : Precedes(j, i)}) = m - 1]]
  BY DEF Sorted
<1> HIDE DEF s, t
<1>5. \A a, b \in Type : a.id # b.id => /\ ServiceBefore(a, b) \/ ServiceBefore(b, a)
                                        /\ ~(ServiceBefore(a, b) /\ ServiceBefore(b, a))
  BY DEF ServiceBefore, ByName
<1>6. \A a \in Type : ~ServiceBefore(a, a)
  BY DEF ServiceBefore, ByName
<1>7. \A a, b, c \in Type : ServiceBefore(a, b) /\ ServiceBefore(b, c) => ServiceBefore(a, c)
  BY DEF ServiceBefore, ByName
<1>8. ASSUME NEW i \in W, NEW j \in W
      PROVE  Precedes(j, i) <=> ServiceBefore(s[j], s[i])
  <2>1. s[i] \in Type /\ s[j] \in Type /\ i \in Int /\ j \in Int
    BY <1>1
  <2>2. CASE i = j
    BY <1>6, <2>1, <2>2
  <2>3. CASE i # j
    <3>1. s[i].id # s[j].id
      BY <2>3 DEF s
    <3> HIDE DEF Type
    <3> QED BY <1>5, <2>1, <3>1
  <2> QED BY <2>2, <2>3
<1>9. Order(PR, W)
  <2>1. \A i, j \in W : <<i, j>> \in PR <=> ServiceBefore(s[i], s[j])
    <3> HIDE DEF W, Precedes
    <3> QED BY <1>8
  <2>2. PR \subseteq W \X W
    OBVIOUS
  <2>3. \A i \in W : ~ServiceBefore(s[i], s[i])
    BY <1>1, <1>6
  <2>4. \A i, j \in W : i # j => ServiceBefore(s[i], s[j]) \/ ServiceBefore(s[j], s[i])
    <3>1. \A i, j \in W : i # j => s[i].id # s[j].id
      BY DEF s
    <3> HIDE DEF W, Type
    <3> QED BY <1>1, <1>5, <3>1
  <2>5. \A i, j, k \in W :
          ServiceBefore(s[i], s[j]) /\ ServiceBefore(s[j], s[k]) => ServiceBefore(s[i], s[k])
    <3> HIDE DEF W, Type
    <3> QED BY <1>1, <1>7
  <2> HIDE DEF W, PR
  <2> QED BY <2>1, <2>2, <2>3, <2>4, <2>5 DEF Order
<1>10. \A i \in W : Cardinality({j \in W : Precedes(j, i)}) = Rank(PR, W, i)
  <2>1. \A i \in W : {j \in W : Precedes(j, i)} = {j \in W : <<j, i>> \in PR}
    <3> HIDE DEF W, Precedes
    <3> QED OBVIOUS
  <2> HIDE DEF W, Precedes, PR
  <2> QED BY <2>1 DEF Rank
<1>11. t = [m \in 1..n |-> s[pl[m]]]
  <2> DEFINE place(m) == CHOOSE i \in W : Cardinality({j \in W : Precedes(j, i)}) = m - 1
  <2>1. ASSUME NEW m \in 1..n PROVE place(m) = pl[m]
    <3>1. pl[m] = CHOOSE i \in W : Rank(PR, W, i) = m - 1
      <4> HIDE DEF PR, W, n
      <4> QED BY <1>2 DEF PlacesIn
    <3> HIDE DEF W, Precedes, PR, n, pl
    <3> QED BY <1>10, <3>1
  <2>2. t = [m \in 1..n |-> s[place(m)]]
    <3> HIDE DEF W, Precedes, PR, n, pl
    <3> QED BY <1>2, <1>3, <1>4
  <2> HIDE DEF place, pl, n
  <2> QED BY <2>1, <2>2
<1>12. /\ \A m \in 1..n : pl[m] \in W
       /\ \A i, j \in 1..n : pl[i] = pl[j] => i = j
  <2>1. /\ \A m \in 1..Cardinality(W) : pl[m] \in W
        /\ \A i, j \in 1..Cardinality(W) : pl[i] = pl[j] => i = j
    <3> HIDE DEF W, Precedes, PR
    <3>1. InOrder(pl, PR, W)
      BY <1>2, <1>9, PlacesOf
    <3> HIDE DEF pl
    <3> QED BY <3>1 DEF InOrder
  <2> HIDE DEF pl, W, n
  <2> QED BY <1>2, <2>1
<1> HIDE DEF pl
<1>13. \A m \in 1..n : t[m] = s[pl[m]] /\ t[m] \in Type
  BY <1>1, <1>11, <1>12
<1>14. ASSUME NEW i \in 1..n, NEW j \in 1..n, t[i].id = t[j].id PROVE i = j
  <2>1. s[pl[i]].id = s[pl[j]].id /\ pl[i] \in W /\ pl[j] \in W
    BY <1>12, <1>13, <1>14
  <2>2. pl[i] = pl[j]
    BY <2>1 DEF s
  <2> QED BY <1>12, <2>2
<1>15. DOMAIN t = 1..n /\ Len(t) = n
  <2>1. t \in Seq(Type)
    BY <1>1, <1>11, <1>13
  <2>2. DOMAIN t = 1..n
    BY <1>11
  <2>3. Len(t) = n
    BY <1>1, <2>1, <2>2
  <2> QED BY <2>2, <2>3
<1> QED BY <1>1, <1>3, <1>13, <1>14, <1>15 DEF s, t

\* The n-th group is of one node with services, and each of those has one; this node's
\* is the first.
LEMMA NthAre ==
  ASSUME PageInv, IsFiniteSet(WithAny)
  PROVE  /\ Cardinality(WithAny) \in Nat
         /\ \A n \in 1..Cardinality(WithAny) : Nth(n) \in WithAny
         /\ \A m, n \in 1..Cardinality(WithAny) : Nth(m) = Nth(n) => m = n
         /\ \A x \in WithAny : \E n \in 1..Cardinality(WithAny) : Nth(n) = x
         /\ Local \in WithAny => 1 \in 1..Cardinality(WithAny) /\ Nth(1) = Local
<1> DEFINE W == WithAny
           R == GroupOrder
           c == Cardinality(W)
           pl == PlacesIn(R, W)
<1>1. Order(R, W)
  BY GroupsOrdered
<1>2. \A n \in 1..c : pl[n] = Nth(n)
  BY DEF PlacesIn, Nth
<1>3. InOrder(pl, R, W)
  <2> HIDE DEF W, R
  <2>1. Order(R, W) /\ IsFiniteSet(W)
    BY <1>1 DEF W
  <2> QED BY <2>1, PlacesOf
<1> HIDE DEF pl, W, R
<1>4. /\ c \in Nat
      /\ \A n \in 1..c : Nth(n) \in W /\ Rank(R, W, Nth(n)) = n - 1
      /\ \A m, n \in 1..c : Nth(m) = Nth(n) => m = n
      /\ \A x \in W : \E n \in 1..c : Nth(n) = x
  <2> HIDE DEF c
  <2>1. /\ c \in Nat
        /\ \A n \in 1..c : pl[n] \in W /\ Rank(R, W, pl[n]) = n - 1
        /\ \A m, n \in 1..c : pl[m] = pl[n] => m = n
        /\ \A x \in W : \E n \in 1..c : pl[n] = x
    BY <1>3 DEF InOrder, c
  <2> QED BY <1>2, <2>1
<1> HIDE DEF c
<1>5. ASSUME Local \in W PROVE 1 \in 1..c /\ Nth(1) = Local
  <2>1. {x \in W : <<x, Local>> \in R} = {}
    <3>1. \A x \in W : x \in Nodes /\ ~GroupBefore(Local, Local)
      BY <1>1, <1>5 DEF W, WithAny, Order, R, GroupOrder
    <3>2. \A x \in W : ~GroupBefore(x, Local)
      BY <3>1, NodesAre DEF GroupBefore, Nodes, OverviewNode
    <3> QED BY <3>2 DEF R, GroupOrder
  <2>2. Rank(R, W, Local) = 0
    BY <2>1, FS_EmptySet DEF Rank
  <2>3. PICK n \in 1..c : Nth(n) = Local
    BY <1>4, <1>5
  <2>4. n - 1 = 0 /\ n \in Int
    BY <1>4, <2>2, <2>3
  <2>5. n = 1
    BY <2>4
  <2> QED BY <2>3, <2>5
<1> QED BY <1>4, <1>5 DEF c, W

\* There is a longest of a number of lists.
LEMMA Longest ==
  ASSUME NEW c \in Nat, NEW len, \A i \in 1..c : len[i] \in Nat
  PROVE  LET K == Max({len[i] : i \in 1..c} \cup {0})
         IN  K \in Nat /\ \A i \in 1..c : len[i] <= K
<1> DEFINE T == {len[i] : i \in 1..c} \cup {0}
           Good == {i \in 0..c : \E b \in Nat : \A j \in 1..i : len[j] <= b}
<1>1. c \in Good
  <2>1. 0 \in Good
    OBVIOUS
  <2>2. ASSUME NEW i \in 1..c, i - 1 \in Good PROVE i \in Good
    <3>1. PICK b \in Nat : \A j \in 1..(i - 1) : len[j] <= b
      BY <2>2
    <3> DEFINE d == b + len[i]
    <3>2. len[i] \in Nat /\ d \in Nat /\ len[i] <= d /\ b <= d
      OBVIOUS
    <3>3. ASSUME NEW j \in 1..i PROVE len[j] <= d
      <4>1. len[j] \in Nat /\ (j = i \/ j \in 1..(i - 1))
        OBVIOUS
      <4> HIDE DEF d
      <4> QED BY <3>1, <3>2, <4>1
    <3> HIDE DEF d
    <3>4. i \in 0..c
      OBVIOUS
    <3> QED BY <3>2, <3>3, <3>4
  <2> HIDE DEF Good
  <2>3. \A i \in 0..c : i \in Good
    BY <2>1, <2>2, UpTo
  <2> QED BY <2>3
<1>2. PICK b \in Nat : \A j \in 1..c : len[j] <= b
  BY <1>1
<1>3. T \in SUBSET Nat /\ T # {} /\ \A n \in T : n <= b
  BY <1>2
<1>4. Max(T) \in T /\ \A n \in T : n <= Max(T)
  <2> HIDE DEF T
  <2> QED BY <1>3, MaxIs
<1> QED BY <1>3, <1>4

\* The entry of the k-th service of a node.
Entry(x, k) == [node |-> x.id, id |-> GroupOf(x).services[k].id]

EntryType == [node : Nat, id : Nat]

\* The p-th entry of e is of the node who[p], in its turn turn[p]; every service of every
\* node has one, turn by turn, this node's is first.
EntriesOf(e, who, turn) ==
  /\ Len(e) \in Nat /\ e \in Seq(EntryType)
  /\ \A p \in 1..Len(e) : /\ who[p] \in WithAny /\ turn[p] \in 1..Len(who[p].services)
                          /\ e[p] = Entry(who[p], turn[p])
  /\ \A p, q \in 1..Len(e) : p <= q => turn[p] <= turn[q]
  /\ \A p, q \in 1..Len(e) : who[p] = who[q] /\ turn[p] = turn[q] => p = q
  /\ \A x \in WithAny : \A k \in 1..Len(x.services) :
       \E p \in 1..Len(e) : who[p] = x /\ turn[p] = k
  /\ Local \in WithAny => 1 \in 1..Len(e) /\ who[1] = Local

\* A group has the services of its node.
LEMMA GroupIs ==
  ASSUME PageInv, NEW x \in WithAny
  PROVE  /\ GroupOf(x).id = x.id /\ x.id \in Nat
         /\ Len(x.services) \in Nat \ {0}
         /\ Len(GroupOf(x).services) = Len(x.services)
         /\ \A k \in 1..Len(x.services) : Entry(x, k) \in EntryType
         /\ \A y \in WithAny : \A k \in 1..Len(x.services), l \in 1..Len(y.services) :
              Entry(x, k) = Entry(y, l) => x = y /\ k = l
<1>1. x \in Nodes /\ x \in OverviewNode /\ x.services # <<>>
  BY NodesAre DEF WithAny
<1>2. \A i, j \in DOMAIN x.services : x.services[i].id = x.services[j].id => i = j
  BY <1>1, PageAssumption DEF PageInv, Nodes
<1>3. /\ GroupOf(x).id = x.id
      /\ Len(x.services) \in Nat
      /\ Len(GroupOf(x).services) = Len(x.services)
      /\ \A i \in 1..Len(x.services) : GroupOf(x).services[i].id \in Nat
      /\ \A i, j \in 1..Len(x.services) :
           GroupOf(x).services[i].id = GroupOf(x).services[j].id => i = j
  BY <1>1, <1>2, ServicesSorted
<1>4. x.id \in Nat
  BY <1>1 DEF OverviewNode
<1>5. Len(x.services) # 0
  <2>1. PICK S : x.services \in Seq(S)
    BY <1>1 DEF OverviewNode
  <2> QED BY <1>1, <2>1, EmptySeq
<1>6. \A k \in 1..Len(x.services) : Entry(x, k) \in EntryType
  BY <1>3, <1>4 DEF Entry, EntryType
<1>7. ASSUME NEW y \in WithAny, NEW k \in 1..Len(x.services), NEW l \in 1..Len(y.services),
             Entry(x, k) = Entry(y, l)
      PROVE  x = y /\ k = l
  <2>1. x.id = y.id /\ GroupOf(x).services[k].id = GroupOf(y).services[l].id
    BY <1>7 DEF Entry
  <2>2. x = y
    BY <1>1, <2>1, NodesAre DEF WithAny
  <2> QED BY <1>3, <2>1, <2>2
<1> QED BY <1>3, <1>4, <1>5, <1>6, <1>7

LEMMA EntriesAre ==
  ASSUME PageInv, NEW a \in SnapshotNodes
  PROVE  \E who, turn : EntriesOf(AllTurns(BuildServiceGroups(a)), who, turn)
<1> DEFINE g == BuildServiceGroups(a)
           c == Cardinality(WithAny)
           len == [i \in 1..c |-> Len(Nth(i).services)]
           K == Max({len[i] : i \in 1..c} \cup {0})
           W(k) == {i \in 1..c : Len(g[i].services) >= k}
           ss == [k \in 1..K |-> Turn(g, k)]
           e == AllTurns(g)
<1>1. g = [n \in 1..c |-> GroupOf(Nth(n))] /\ IsFiniteSet(WithAny)
  BY GroupsAre
<1>2. /\ c \in Nat
      /\ \A n \in 1..c : Nth(n) \in WithAny
      /\ \A m, n \in 1..c : Nth(m) = Nth(n) => m = n
      /\ \A x \in WithAny : \E n \in 1..c : Nth(n) = x
      /\ Local \in WithAny => 1 \in 1..c /\ Nth(1) = Local
  BY <1>1, NthAre
<1> HIDE DEF c, g
<1>3. ASSUME NEW i \in 1..c
      PROVE  /\ g[i] = GroupOf(Nth(i)) /\ Nth(i) \in WithAny
             /\ len[i] \in Nat \ {0} /\ len[i] = Len(Nth(i).services)
             /\ Len(g[i].services) = len[i]
             /\ g[i].id = Nth(i).id
             /\ \A k \in 1..len[i] :
                  /\ [node |-> g[i].id, id |-> g[i].services[k].id] = Entry(Nth(i), k)
                  /\ Entry(Nth(i), k) \in EntryType
  <2>1. g[i] = GroupOf(Nth(i)) /\ Nth(i) \in WithAny /\ len[i] = Len(Nth(i).services)
    BY <1>1, <1>2
  <2> HIDE DEF len
  <2> QED BY <2>1, GroupIs DEF Entry
<1>4. K \in Nat /\ \A i \in 1..c : len[i] <= K
  <2> HIDE DEF len
  <2>1. c \in Nat
    BY <1>2
  <2>2. \A i \in 1..c : len[i] \in Nat
    BY <1>3
  <2> QED BY <2>1, <2>2, Longest
<1>5. e = FlattenSeq(ss)
  <2>1. {Len(g[i].services) : i \in DOMAIN g} = {len[i] : i \in 1..c}
    <3>1. DOMAIN g = 1..c
      BY <1>1
    <3> HIDE DEF len
    <3> QED BY <1>3, <3>1
  <2> QED BY <2>1 DEF AllTurns
<1> HIDE DEF len, K, e
<1>6. CASE K = 0
  <2>1. 1..c = {}
    <3>1. ASSUME NEW i \in 1..c PROVE FALSE
      BY <1>3, <1>4, <1>6
    <3> QED BY <3>1
  <2>2. WithAny = {}
    BY <1>2, <2>1
  <2>3. ss = <<>>
    BY <1>6
  <2>4. e = <<>>
    BY <1>5, <2>3, EmptySeq DEF FlattenSeq
  <2>5. e \in Seq(EntryType) /\ Len(e) = 0
    BY <2>4, EmptySeq
  <2> DEFINE none == <<>>
  <2>6. EntriesOf(e, none, none)
    BY <2>2, <2>5 DEF EntriesOf
  <2> QED BY <2>6 DEF e, g
<1>7. CASE K # 0
  <2> DEFINE pls == [k \in 1..K |-> CHOOSE pl : TurnOf(g, k, W(k), pl)]
             size(k) == Cardinality(W(k))
  <2>1. ASSUME NEW k \in 1..K PROVE TurnOf(g, k, W(k), pls[k])
    <3> DEFINE V == W(k)
    <3>1. V = {i \in 1..c : Len(g[i].services) >= k} /\ k \in Nat \ {0} /\ DOMAIN g = 1..c
      BY <1>1, <1>4
    <3> HIDE DEF V
    <3>2. \E pl : TurnOf(g, k, V, pl)
      BY <1>2, <3>1, TurnIs
    <3> QED BY <3>2 DEF V
  <2> HIDE DEF pls
  <2>2. ASSUME NEW k \in 1..K
        PROVE  /\ size(k) \in Nat
               /\ \A j \in 1..size(k) : /\ pls[k][j] \in 1..c /\ k \in 1..len[pls[k][j]]
                                        /\ ss[k][j] = Entry(Nth(pls[k][j]), k)
               /\ \A i, j \in 1..size(k) : pls[k][i] = pls[k][j] => i = j
               /\ \A i \in 1..c : k <= len[i] => \E j \in 1..size(k) : pls[k][j] = i
               /\ 1 \in 1..c /\ k = 1 => 1 \in 1..size(k) /\ pls[k][1] = 1
               /\ ss[k] \in Seq(EntryType) /\ Len(ss[k]) = size(k)
    <3> DEFINE V == W(k)
               d == size(k)
    <3>1. \A i \in 1..c : i \in V <=> len[i] >= k
      BY <1>3
    <3>2. /\ d \in Nat
          /\ \A n \in 1..d : pls[k][n] \in V
          /\ \A m, n \in 1..d : pls[k][m] = pls[k][n] => m = n
          /\ \A i \in V : \E n \in 1..d : pls[k][n] = i
          /\ 1 \in V => 1 \in 1..d /\ pls[k][1] = 1
          /\ Turn(g, k) = [n \in 1..d |->
                             [node |-> g[pls[k][n]].id, id |-> g[pls[k][n]].services[k].id]]
      <4>1. TurnOf(g, k, V, pls[k])
        BY <2>1
      <4> HIDE DEF V
      <4>2. d = Cardinality(V)
        BY DEF V
      <4> HIDE DEF d
      <4> QED BY <4>1, <4>2 DEF TurnOf
    <3>3. V \subseteq 1..c /\ ss[k] = Turn(g, k)
      OBVIOUS
    <3> HIDE DEF V, d
    <3>4. ASSUME NEW j \in 1..d
          PROVE  /\ pls[k][j] \in 1..c /\ k \in 1..len[pls[k][j]]
                 /\ ss[k][j] = Entry(Nth(pls[k][j]), k) /\ ss[k][j] \in EntryType
      <4> DEFINE i == pls[k][j]
      <4>1. i \in V /\ i \in 1..c
        BY <3>2, <3>3
      <4>2. ss[k][j] = [node |-> g[i].id, id |-> g[i].services[k].id]
        BY <3>2, <3>3
      <4> HIDE DEF i
      <4>3. k \in 1..len[i]
        BY <1>3, <1>4, <3>1, <4>1
      <4> QED BY <1>3, <4>1, <4>2, <4>3 DEF i
    <3>5. ss[k] \in Seq(EntryType) /\ Len(ss[k]) = d
      <4>1. ss[k] \in [1..d -> EntryType]
        BY <3>2, <3>3, <3>4
      <4> QED BY <3>2, <4>1
    <3>6. \A i \in 1..c : k <= len[i] => \E j \in 1..d : pls[k][j] = i
      BY <1>3, <3>1, <3>2
    <3>7. 1 \in 1..c /\ k = 1 => 1 \in 1..d /\ pls[k][1] = 1
      BY <1>3, <3>1, <3>2
    <3> QED BY <3>2, <3>4, <3>5, <3>6, <3>7 DEF d
  <2>3. Len(ss) = K /\ \A k \in 1..K : ss[k] \in Seq(EntryType)
    <3>1. ss \in [1..K -> Seq(EntryType)]
      BY <2>2
    <3> QED BY <1>4, <2>2, <3>1

  <2>4. K \in Nat \ {0} /\ 1 \in 1..K
    BY <1>4, <1>7
  <2> HIDE DEF ss, size
  <2>5. e \in Seq(EntryType) /\ \E off : Flat(e, off, ss, K)
    <3>1. K \in Nat \ {0}
      BY <2>4
    <3> QED BY <1>5, <2>3, <3>1, FlattenIs
  <2>6. PICK off : Flat(e, off, ss, K)
    BY <2>5
  <2>7. /\ \A k \in 0..K : off[k] \in Nat
        /\ off[0] = 0 /\ Len(e) = off[K] /\ Len(e) \in Nat
        /\ \A k \in 1..K : off[k] = off[k - 1] + size(k)
        /\ \A k \in 1..K : \A j \in 1..size(k) : e[off[k - 1] + j] = ss[k][j]
        /\ \A l \in 0..K : \A k \in 0..l : off[k] <= off[l]
        /\ \A p \in 1..Len(e) : \E k \in 1..K : off[k - 1] < p /\ p <= off[k]
    <3>1. \A k \in 1..K : Len(ss[k]) \in Nat /\ Len(ss[k]) = size(k)
      BY <2>2
    <3>2. /\ \A k \in 0..K : off[k] \in Nat
          /\ \A l \in 0..K : \A k \in 0..l : off[k] <= off[l]
          /\ \A p \in 1..off[K] : \E k \in 1..K : off[k - 1] < p /\ p <= off[k]
      BY <1>4, <2>6, <3>1, FlatPlaces
    <3>3. K \in 0..K
      BY <1>4
    <3> QED BY <2>6, <3>1, <3>2, <3>3 DEF Flat
  <2> DEFINE turn == [p \in 1..Len(e) |-> CHOOSE k \in 1..K : off[k - 1] < p /\ p <= off[k]]
             place(p) == p - off[turn[p] - 1]
             who == [p \in 1..Len(e) |-> Nth(pls[turn[p]][place(p)])]
  <2>8. ASSUME NEW p \in 1..Len(e)
        PROVE  /\ turn[p] \in 1..K /\ off[turn[p] - 1] < p /\ p <= off[turn[p]]
               /\ place(p) \in 1..size(turn[p]) /\ off[turn[p] - 1] + place(p) = p
               /\ off[turn[p] - 1] \in Nat /\ off[turn[p]] \in Nat
    <3> DEFINE k == turn[p]
    <3>1. k \in 1..K /\ off[k - 1] < p /\ p <= off[k]
      BY <2>7
    <3> HIDE DEF turn, k
    <3>2. k - 1 \in 0..K /\ k \in 0..K
      BY <2>4, <3>1
    <3>3. off[k - 1] \in Nat /\ off[k] \in Nat /\ off[k] = off[k - 1] + size(k) /\ size(k) \in Nat
      BY <2>2, <2>7, <3>1, <3>2
    <3>4. p - off[k - 1] \in 1..size(k) /\ off[k - 1] + (p - off[k - 1]) = p
      BY <3>1, <3>3
    <3> QED BY <3>1, <3>3, <3>4 DEF k
\* A place is in one turn.
  <2>9. ASSUME NEW p \in 1..Len(e), NEW q \in 1..Len(e), p <= q
        PROVE  turn[p] <= turn[q]
    <3> DEFINE k == turn[p]
               l == turn[q]
    <3>1. /\ k \in 1..K /\ off[k - 1] < p /\ off[k - 1] \in Nat
          /\ l \in 1..K /\ q <= off[l] /\ off[l] \in Nat
      BY <2>8
    <3> HIDE DEF k, l
    <3>2. ASSUME l < k PROVE FALSE
      <4>1. k - 1 \in 0..K /\ l \in 0..(k - 1)
        BY <2>4, <3>1, <3>2
      <4>2. off[l] <= off[k - 1]
        BY <2>7, <4>1
      <4> QED BY <2>9, <3>1, <4>2
    <3>3. k <= l
      BY <2>4, <3>1, <3>2
    <3> QED BY <3>3 DEF k, l
  <2>10. ASSUME NEW k \in 1..K, NEW j \in 1..size(k)
         PROVE  /\ off[k - 1] + j \in 1..Len(e) /\ turn[off[k - 1] + j] = k
                /\ place(off[k - 1] + j) = j
    <3> DEFINE p == off[k - 1] + j
    <3>1. /\ k - 1 \in 0..K /\ k \in 0..K /\ K \in 0..K /\ k \in 0..K
          /\ off[k - 1] \in Nat /\ off[k] \in Nat /\ size(k) \in Nat
          /\ off[k] = off[k - 1] + size(k) /\ off[k] <= off[K]
      <4>1. k - 1 \in 0..K /\ k \in 0..K /\ K \in 0..K
        BY <2>4
      <4> QED BY <2>2, <2>7, <4>1
    <3>2. p \in 1..Len(e) /\ off[k - 1] < p /\ p <= off[k]
      BY <2>7, <3>1
    <3> DEFINE l == turn[p]
    <3>3. l \in 1..K /\ off[l - 1] < p /\ p <= off[l] /\ off[l - 1] \in Nat /\ off[l] \in Nat
      <4> HIDE DEF p, turn
      <4> QED BY <2>8, <3>2
    <3> HIDE DEF l, turn, p
    <3>4. ASSUME l < k PROVE FALSE
      <4>1. l \in 0..(k - 1)
        BY <2>4, <3>3, <3>4
      <4>2. off[l] <= off[k - 1]
        BY <2>7, <3>1, <4>1
      <4> QED BY <3>1, <3>2, <3>3, <4>2
    <3>5. ASSUME k < l PROVE FALSE
      <4>1. k \in 0..(l - 1) /\ l - 1 \in 0..K
        BY <2>4, <3>3, <3>5
      <4>2. off[k] <= off[l - 1]
        BY <2>7, <4>1
      <4> QED BY <3>1, <3>2, <3>3, <4>2
    <3>6. l = k
      BY <2>4, <3>3, <3>4, <3>5
    <3>7. place(p) = j
      <4>1. p - off[k - 1] = j
        BY <3>1 DEF p
      <4> QED BY <3>6, <4>1 DEF l
    <3> QED BY <3>2, <3>6, <3>7 DEF p, l
  <2>11. ASSUME NEW p \in 1..Len(e)
         PROVE  LET i == pls[turn[p]][place(p)]
                IN  /\ i \in 1..c /\ who[p] = Nth(i)
                    /\ who[p] \in WithAny /\ turn[p] \in 1..Len(who[p].services)
                    /\ e[p] = Entry(who[p], turn[p])
    <3> DEFINE k == turn[p]
               j == place(p)
               i == pls[k][j]
    <3>1. k \in 1..K /\ j \in 1..size(k) /\ off[k - 1] + j = p
      BY <2>8
    <3>2. who[p] = Nth(i)
      OBVIOUS
    <3> HIDE DEF turn, place, who, k, j
    <3>3. i \in 1..c /\ k \in 1..len[i] /\ ss[k][j] = Entry(Nth(i), k)
      BY <2>2, <3>1
    <3>4. e[p] = Entry(Nth(i), k)
      <4>1. e[off[k - 1] + j] = ss[k][j]
        BY <2>7, <3>1
      <4> QED BY <3>1, <3>3, <4>1
    <3>5. Nth(i) \in WithAny /\ len[i] = Len(Nth(i).services)
      BY <1>3, <3>3
    <3> QED BY <3>2, <3>3, <3>4, <3>5 DEF k, j
  <2>12. ASSUME NEW p \in 1..Len(e), NEW q \in 1..Len(e), who[p] = who[q], turn[p] = turn[q]
         PROVE  p = q
    <3> DEFINE k == turn[p]
               i == place(p)
               j == place(q)
    <3>1. /\ k \in 1..K /\ i \in 1..size(k) /\ off[k - 1] + i = p
          /\ j \in 1..size(k) /\ off[k - 1] + j = q
      BY <2>8, <2>12
    <3>2. pls[k][i] = pls[k][j]
      <4>1. /\ pls[k][i] \in 1..c /\ who[p] = Nth(pls[k][i])
            /\ pls[k][j] \in 1..c /\ who[q] = Nth(pls[k][j])
        BY <2>11, <2>12
      <4> HIDE DEF who, k, i, j
      <4> QED BY <1>2, <2>12, <4>1
    <3> HIDE DEF k, i, j
    <3>3. i = j
      BY <2>2, <3>1, <3>2
    <3> QED BY <3>1, <3>3
  <2>13. ASSUME NEW x \in WithAny, NEW k \in 1..Len(x.services)
         PROVE  \E p \in 1..Len(e) : who[p] = x /\ turn[p] = k
    <3>1. PICK i \in 1..c : Nth(i) = x
      BY <1>2
    <3>2. k <= len[i] /\ len[i] <= K /\ len[i] \in Nat /\ K \in Nat
      BY <1>3, <1>4, <3>1
    <3>3. k \in 1..K
      BY <3>2
    <3>4. PICK j \in 1..size(k) : pls[k][j] = i
      BY <2>2, <3>2, <3>3
    <3> DEFINE p == off[k - 1] + j
    <3>5. p \in 1..Len(e) /\ turn[p] = k /\ place(p) = j
      <4> HIDE DEF turn, place
      <4> QED BY <2>10, <3>3
    <3>6. who[p] = Nth(pls[turn[p]][place(p)])
      <4> HIDE DEF p, turn, place
      <4> QED BY <3>5
    <3>7. who[p] = x
      <4> HIDE DEF p, turn, place, who
      <4> QED BY <3>1, <3>4, <3>5, <3>6
    <3> HIDE DEF p, turn, place, who
    <3> QED BY <3>5, <3>7
  <2>14. ASSUME Local \in WithAny PROVE 1 \in 1..Len(e) /\ who[1] = Local
    <3> DEFINE o == 1
    <3>1. o \in 1..c /\ Nth(o) = Local /\ o \in 1..K
      BY <1>2, <2>4, <2>14
    <3>2. 1 \in 1..size(o) /\ pls[o][1] = 1
      BY <2>2, <3>1
    <3>3. off[o - 1] = 0
      BY <2>7
    <3>4. off[o - 1] + 1 \in 1..Len(e) /\ turn[off[o - 1] + 1] = o /\ place(off[o - 1] + 1) = 1
      <4> HIDE DEF turn, place, o
      <4> QED BY <2>10, <3>1, <3>2
    <3>5. 1 \in 1..Len(e) /\ turn[1] = 1 /\ place(1) = 1
      <4>1. off[o - 1] + 1 = 1
        BY <3>3
      <4> HIDE DEF turn, place
      <4> QED BY <3>4, <4>1
    <3>6. who[1] = Nth(pls[turn[1]][place(1)])
      <4> HIDE DEF turn, place
      <4> QED BY <3>5
    <3> HIDE DEF turn, place, who
    <3> QED BY <3>1, <3>2, <3>5, <3>6
  <2> HIDE DEF turn, who, place
  <2>15. EntriesOf(e, who, turn)
    <3>1. /\ \A p \in 1..Len(e) : /\ who[p] \in WithAny /\ turn[p] \in 1..Len(who[p].services)
                                  /\ e[p] = Entry(who[p], turn[p])
          /\ \A p, q \in 1..Len(e) : p <= q => turn[p] <= turn[q]
          /\ \A p, q \in 1..Len(e) : who[p] = who[q] /\ turn[p] = turn[q] => p = q
          /\ \A x \in WithAny : \A k \in 1..Len(x.services) :
               \E p \in 1..Len(e) : who[p] = x /\ turn[p] = k
          /\ Local \in WithAny => 1 \in 1..Len(e) /\ who[1] = Local
      BY <2>9, <2>11, <2>12, <2>13, <2>14
    <3> QED BY <2>5, <2>7, <3>1 DEF EntriesOf
  <2> QED BY <2>15 DEF e, g
<1> QED BY <1>4, <1>6, <1>7

\* A finite set of turns without holes is an interval.
LEMMA TurnsWithoutHoles ==
  ASSUME NEW b \in Nat, NEW T \in SUBSET (1..b),
         \A k \in T : 1..k \subseteq T
  PROVE  IsFiniteSet(T) /\ Cardinality(T) \in 0..b /\ T = 1..Cardinality(T)
<1>1. CASE T = {}
  <2>1. IsFiniteSet(T) /\ Cardinality(T) = 0
    BY <1>1, FS_EmptySet
  <2> QED BY <1>1, <2>1
<1>2. CASE T # {}
  <2> DEFINE m == Max(T)
  <2>1. T \in SUBSET Nat /\ \A n \in T : n <= b
    OBVIOUS
  <2>2. m \in T /\ \A n \in T : n <= m
    BY <1>2, <2>1, MaxIs
  <2> HIDE DEF m
  <2>3. T = 1..m /\ m \in 1..b
    <3>1. 1..m \subseteq T /\ m \in 1..b
      BY <2>2
    <3>2. T \subseteq 1..m
      BY <2>2
    <3> QED BY <3>1, <3>2
  <2>4. m \in Int /\ 1 \in Int /\ m >= 1
    BY <2>3
  <2>5. IsFiniteSet(1..m) /\ Cardinality(1..m) = m
    BY <2>4, FS_Interval
  <2>6. IsFiniteSet(T) /\ Cardinality(T) = m
    BY <2>3, <2>5
  <2> QED BY <2>3, <2>6
<1> QED BY <1>1, <1>2

\* The first L entries have the first services of a node, as many as it has there.
LEMMA Shares ==
  ASSUME NEW e, NEW who, NEW turn, EntriesOf(e, who, turn),
         NEW L \in 0..Len(e), NEW x \in WithAny, Len(x.services) \in Nat
  PROVE  LET h == Cardinality({p \in 1..L : who[p] = x})
         IN  /\ h \in 0..Len(x.services)
             /\ \A k \in 1..Len(x.services) :
                  k <= h <=> \E p \in 1..L : who[p] = x /\ turn[p] = k
<1> DEFINE b == Len(x.services)
           P == {p \in 1..L : who[p] = x}
           T == {turn[p] : p \in P}
           h == Cardinality(P)
           f == [p \in P |-> turn[p]]
<1>1. /\ Len(e) \in Nat /\ L \in Nat /\ L <= Len(e)
      /\ \A p \in 1..Len(e) : who[p] = x => turn[p] \in 1..b
      /\ \A p, q \in 1..Len(e) : p <= q => turn[p] <= turn[q]
      /\ \A p, q \in 1..Len(e) : who[p] = who[q] /\ turn[p] = turn[q] => p = q
      /\ \A k \in 1..b : \E p \in 1..Len(e) : who[p] = x /\ turn[p] = k
  BY DEF EntriesOf
<1> HIDE DEF b
<1>2. T \in SUBSET (1..b)
  BY <1>1
<1>3. \A k \in T : 1..k \subseteq T
  <2> SUFFICES ASSUME NEW k \in T, NEW j \in 1..k PROVE j \in T
    OBVIOUS
  <2>1. PICK p \in 1..L : who[p] = x /\ turn[p] = k
    OBVIOUS
  <2>2. k \in 1..b /\ j \in 1..b /\ b \in Nat
    BY <1>2 DEF b
  <2>3. PICK q \in 1..Len(e) : who[q] = x /\ turn[q] = j
    BY <1>1, <2>2
  <2>4. ASSUME q > L PROVE q = p
    <3>1. p \in 1..Len(e) /\ p <= q
      BY <1>1, <2>4
    <3>2. k <= j
      BY <1>1, <2>1, <2>3, <3>1
    <3>3. turn[p] = turn[q] /\ who[p] = who[q]
      BY <2>1, <2>2, <2>3, <3>2
    <3> QED BY <1>1, <3>1, <3>3
  <2>5. q \in 1..L
    BY <1>1, <2>4
  <2> QED BY <2>3, <2>5
<1>4. IsFiniteSet(T) /\ Cardinality(T) \in 0..b /\ T = 1..Cardinality(T)
  <2>1. b \in Nat
    BY DEF b
  <2> HIDE DEF T
  <2> QED BY <1>2, <1>3, <2>1, TurnsWithoutHoles
<1>5. Cardinality(T) = h
  <2>1. IsFiniteSet(P)
    <3>1. IsFiniteSet(1..L)
      BY <1>1, FS_Interval
    <3>2. P \in SUBSET (1..L)
      OBVIOUS
    <3> HIDE DEF P
    <3> QED BY <3>1, <3>2, FS_Subset
  <2>2. \A p, q \in P : turn[p] = turn[q] => p = q
    <3>1. \A p \in P : p \in 1..Len(e) /\ who[p] = x
      BY <1>1
    <3> HIDE DEF P
    <3> QED BY <1>1, <3>1
  <2>3. ExistsBijection(P, T)
    <3> HIDE DEF P
    <3>1. f \in [P -> T] /\ \A t \in T : \E p \in P : f[p] = t
      OBVIOUS
    <3>2. \A p, q \in P : f[p] = f[q] => p = q
      BY <2>2
    <3>3. f \in Bijection(P, T)
      <4> HIDE DEF f, T
      <4> QED BY <3>1, <3>2 DEF Bijection, Injection, Surjection, IsInjective
    <3> QED BY <3>3 DEF ExistsBijection
  <2> HIDE DEF P, T
  <2> QED BY <2>1, <2>3, FS_Bijection DEF h
<1>6. \A k \in 1..b : k <= h <=> \E p \in 1..L : who[p] = x /\ turn[p] = k
  <2>1. \A k \in 1..b : k <= h <=> k \in T
    <3> HIDE DEF T, h
    <3> QED BY <1>4, <1>5 DEF b
  <2> QED BY <2>1
<1> QED BY <1>4, <1>5, <1>6 DEF b
\* What Cut leaves of the entries.
LEMMA CutIs ==
  ASSUME NEW S, NEW e \in Seq(S), NEW limit \in Nat
  PROVE  LET L == IF limit = 0 \/ limit > Len(e) THEN Len(e) ELSE limit
         IN  /\ L \in 0..Len(e) /\ Cut(e, limit) \in Seq(S) /\ Len(Cut(e, limit)) = L
             /\ \A p \in 1..L : Cut(e, limit)[p] = e[p]
<1> DEFINE L == IF limit = 0 \/ limit > Len(e) THEN Len(e) ELSE limit
<1>1. CASE limit = 0 \/ limit > Len(e)
  <2>1. Cut(e, limit) = e /\ L = Len(e) /\ Len(e) \in Nat
    BY <1>1 DEF Cut
  <2> QED BY <2>1
<1>2. CASE ~(limit = 0 \/ limit > Len(e))
  <2>1. L = limit /\ limit \in 1..Len(e) /\ Len(e) \in Nat
    BY <1>2
  <2>2. Cut(e, limit) = SubSeq(e, 1, limit)
    BY <1>2, <2>1 DEF Cut
  <2>3. 1 \in Int /\ limit \in Int /\ \A i \in 1..limit : e[i] \in S
    BY <2>1
  <2>4. /\ SubSeq(e, 1, limit) \in Seq(S)
        /\ Len(SubSeq(e, 1, limit)) = IF 1 <= limit THEN limit - 1 + 1 ELSE 0
        /\ \A i \in 1..(limit - 1 + 1) : SubSeq(e, 1, limit)[i] = e[1 + i - 1]
    BY <2>3, SubSeqProperties
  <2>5. /\ limit - 1 + 1 = limit /\ 1 <= limit /\ L \in 0..Len(e)
        /\ \A i \in 1..limit : 1 + i - 1 = i
    BY <2>1
  <2> QED BY <2>1, <2>2, <2>4, <2>5
<1> QED BY <1>1, <1>2

\* The first L entries are c: none is there twice, and a node of which some are missing
\* has at most one less than any other.
LEMMA FirstEntries ==
  ASSUME PageInv, NEW e, NEW who, NEW turn, EntriesOf(e, who, turn),
         NEW L \in 0..Len(e), NEW c \in Seq(EntryType), Len(c) = L,
         \A p \in 1..L : c[p] = e[p]
  PROVE  /\ Cardinality(ToSet(c)) = L
         /\ \A x, y \in Nodes :
              LET Shown(n) == Cardinality({k \in DOMAIN c : c[k].node = n.id})
              IN  Shown(x) + 1 >= Shown(y) \/ Shown(x) = Len(x.services)
         /\ c # <<>> /\ Local.services # <<>> => c[1].node = Local.id
<1> DEFINE Shown(n) == Cardinality({k \in DOMAIN c : c[k].node = n.id})
<1>1. /\ Len(e) \in Nat /\ L \in Nat /\ L <= Len(e) /\ DOMAIN c = 1..L
      /\ \A p \in 1..L : p \in 1..Len(e)
  BY DEF EntriesOf
<1>2. /\ \A p \in 1..Len(e) : /\ who[p] \in WithAny /\ turn[p] \in 1..Len(who[p].services)
                              /\ e[p] = Entry(who[p], turn[p])
      /\ \A p, q \in 1..Len(e) : p <= q => turn[p] <= turn[q]
      /\ \A p, q \in 1..Len(e) : who[p] = who[q] /\ turn[p] = turn[q] => p = q
      /\ \A x \in WithAny : \A k \in 1..Len(x.services) :
           \E p \in 1..Len(e) : who[p] = x /\ turn[p] = k
      /\ Local \in WithAny => 1 \in 1..Len(e) /\ who[1] = Local
  BY DEF EntriesOf
<1>3. \A p \in 1..L : /\ who[p] \in Nodes /\ who[p].services # <<>>
                      /\ c[p].node = who[p].id
  <2>1. ASSUME NEW p \in 1..L PROVE c[p].node = who[p].id
    <3>1. c[p] = Entry(who[p], turn[p])
      BY <1>1, <1>2
    <3>2. Entry(who[p], turn[p]).node = who[p].id
      BY DEF Entry
    <3> QED BY <3>1, <3>2
  <2> QED BY <1>1, <1>2, <2>1 DEF WithAny
<1>4. Cardinality(ToSet(c)) = L
  <2>1. \A p, q \in 1..L : c[p] = c[q] => p = q
    <3> SUFFICES ASSUME NEW p \in 1..L, NEW q \in 1..L, c[p] = c[q] PROVE p = q
      OBVIOUS
    <3>1. /\ who[p] \in WithAny /\ turn[p] \in 1..Len(who[p].services)
          /\ who[q] \in WithAny /\ turn[q] \in 1..Len(who[q].services)
          /\ Entry(who[p], turn[p]) = Entry(who[q], turn[q])
      BY <1>1, <1>2
    <3>2. who[p] = who[q] /\ turn[p] = turn[q]
      BY <3>1, GroupIs
    <3> QED BY <1>1, <1>2, <3>2
  <2>2. ToSet(c) = {c[p] : p \in 1..L}
    BY <1>1 DEF ToSet
  <2> DEFINE D == 1..L
             T == ToSet(c)
  <2>3. IsFiniteSet(D) /\ Cardinality(D) = L
    <3>1. 1 \in Int /\ L \in Int
      BY <1>1
    <3> QED BY <1>1, <3>1, FS_Interval
  <2>4. c \in [D -> T] /\ (\A t \in T : \E p \in D : c[p] = t)
        /\ \A p, q \in D : c[p] = c[q] => p = q
    <3>1. \A p \in D : c[p] \in T
      BY <2>2
    <3>2. c \in [D -> T]
      <4> HIDE DEF T
      <4> QED BY <1>1, <3>1
    <3>3. \A t \in T : \E p \in D : c[p] = t
      BY <2>2
    <3> QED BY <2>1, <3>2, <3>3
  <2>5. ExistsBijection(D, T)
    <3> HIDE DEF D, T
    <3>1. c \in Bijection(D, T)
      BY <2>4 DEF Bijection, Injection, Surjection, IsInjective
    <3> QED BY <3>1 DEF ExistsBijection
  <2> HIDE DEF D, T
  <2>6. Cardinality(T) = L
    BY <2>3, <2>5, FS_Bijection
  <2> QED BY <2>6 DEF T
<1>5. ASSUME NEW x \in Nodes
      PROVE  {k \in DOMAIN c : c[k].node = x.id} = {p \in 1..L : who[p] = x}
  <2>1. \A p \in 1..L : c[p].node = x.id <=> who[p] = x
    BY <1>3, NodesAre
  <2> QED BY <1>1, <2>1
<1>6. ASSUME NEW x \in WithAny
      PROVE  /\ Len(x.services) \in Nat /\ Shown(x) \in 0..Len(x.services)
             /\ \A k \in 1..Len(x.services) :
                  k <= Shown(x) <=> \E p \in 1..L : who[p] = x /\ turn[p] = k
  <2>1. Len(x.services) \in Nat
    BY GroupIs
  <2>2. Shown(x) = Cardinality({p \in 1..L : who[p] = x})
    BY <1>5 DEF WithAny
  <2> HIDE DEF Shown
  <2>3. LET h == Cardinality({p \in 1..L : who[p] = x})
        IN  /\ h \in 0..Len(x.services)
            /\ \A k \in 1..Len(x.services) :
                 k <= h <=> \E p \in 1..L : who[p] = x /\ turn[p] = k
    BY <2>1, Shares
  <2> QED BY <2>1, <2>2, <2>3
<1>7. ASSUME NEW x \in Nodes, x \notin WithAny
      PROVE  x.services = <<>> /\ Shown(x) = 0
  <2>1. x.services = <<>>
    BY <1>7 DEF WithAny
  <2>2. {p \in 1..L : who[p] = x} = {}
    BY <1>3, <2>1
  <2>3. {k \in DOMAIN c : c[k].node = x.id} = {}
    BY <1>5, <2>2
  <2> QED BY <2>1, <2>3, FS_EmptySet
<1>8. ASSUME NEW x \in Nodes, NEW y \in Nodes
      PROVE  Shown(x) + 1 >= Shown(y) \/ Shown(x) = Len(x.services)
  <2> DEFINE h == Shown(x)
             i == Shown(y)
  <2>1. CASE x \notin WithAny
    <3>1. x.services = <<>> /\ Shown(x) = 0
      BY <1>7, <2>1
    <3>2. Len(x.services) = 0
      BY <3>1, EmptySeq
    <3> QED BY <3>1, <3>2
  <2>2. CASE x \in WithAny /\ y \notin WithAny
    <3>1. h \in Nat
      <4> HIDE DEF Shown
      <4> QED BY <1>6, <2>2
    <3>2. i = 0
      BY <1>7, <2>2
    <3> HIDE DEF h, i
    <3>3. h + 1 >= i
      BY <3>1, <3>2
    <3> QED BY <3>3 DEF h, i
  <2>3. CASE x \in WithAny /\ y \in WithAny
    <3> SUFFICES ASSUME ~(h + 1 >= i), h # Len(x.services) PROVE FALSE
      OBVIOUS
    <3> HIDE DEF Shown
    <3>1. /\ Len(x.services) \in Nat /\ h \in 0..Len(x.services)
          /\ \A k \in 1..Len(x.services) :
               k <= h <=> \E p \in 1..L : who[p] = x /\ turn[p] = k
      BY <1>6, <2>3
    <3>2. /\ Len(y.services) \in Nat /\ i \in 0..Len(y.services)
          /\ \A k \in 1..Len(y.services) :
               k <= i <=> \E p \in 1..L : who[p] = y /\ turn[p] = k
      BY <1>6, <2>3
    <3> HIDE DEF h, i
    <3>3. h + 1 \in 1..Len(x.services) /\ ~(h + 1 <= h) /\ i \in 1..Len(y.services) /\ i <= i
          /\ i > h + 1
      BY <3>1, <3>2
    <3>4. PICK q \in 1..L : who[q] = y /\ turn[q] = i
      BY <3>2, <3>3
    <3>5. PICK p \in 1..Len(e) : who[p] = x /\ turn[p] = h + 1
      BY <1>2, <2>3, <3>3
    <3>6. p \notin 1..L
      BY <3>1, <3>3, <3>5
    <3>7. q \in 1..Len(e) /\ q <= p
      BY <1>1, <3>6
    <3>8. i <= h + 1
      BY <1>2, <3>4, <3>5, <3>7
    <3> QED BY <3>1, <3>2, <3>3, <3>8
  <2> QED BY <2>1, <2>2, <2>3
<1>9. ASSUME c # <<>>, Local.services # <<>> PROVE c[1].node = Local.id
  <2>1. 1 \in 1..L
    <3>1. L # 0
      BY <1>9, EmptySeq
    <3> QED BY <1>1, <3>1
  <2>2. Local \in WithAny
    BY <1>9 DEF WithAny, Nodes
  <2> QED BY <1>2, <1>3, <2>1, <2>2
<1> QED BY <1>4, <1>8, <1>9

\* As many services as the limit allows and none twice; a node is behind another by more
\* than one only when all of its services are there, and this node is first
\* (ChoiceIsFair), whatever the limit.
THEOREM ChoiceFair == Spec => [](ChoiceIsFair /\ \A limit \in Nat : FairFor(limit))
<1>1. ASSUME PageInv, NEW limit \in Nat PROVE FairFor(limit)
  <2> SUFFICES ASSUME NEW nodes \in SnapshotNodes
               PROVE  LET chosen == Chosen(nodes, limit)
                          all    == Chosen(nodes, 0)
                          Shown(n) ==
                            Cardinality({k \in DOMAIN chosen : chosen[k].node = nodes[n].id})
                      IN  /\ Len(chosen) = IF limit = 0 \/ limit > Len(all)
                                           THEN Len(all) ELSE limit
                          /\ Cardinality(ToSet(chosen)) = Len(chosen)
                          /\ \A n, m \in DOMAIN nodes :
                               \/ Shown(n) + 1 >= Shown(m)
                               \/ Shown(n) = Len(nodes[n].services)
                          /\ chosen # <<>> /\ Local.services # <<>>
                             => chosen[1].node = Local.id
    BY DEF FairFor
  <2> DEFINE e == AllTurns(BuildServiceGroups(nodes))
             c == Cut(e, limit)
             L == IF limit = 0 \/ limit > Len(e) THEN Len(e) ELSE limit
  <2>1. PICK who, turn : EntriesOf(e, who, turn)
    BY <1>1, EntriesAre
  <2>2. Chosen(nodes, limit) = c /\ Chosen(nodes, 0) = e
    BY DEF Chosen, PickServicesRoundRobin, Cut
  <2> HIDE DEF e
  <2>3. e \in Seq(EntryType) /\ Len(e) \in Nat
    BY <2>1 DEF EntriesOf
  <2>4. L \in 0..Len(e) /\ c \in Seq(EntryType) /\ Len(c) = L /\ \A p \in 1..L : c[p] = e[p]
    BY <1>1, <2>3, CutIs
  <2> HIDE DEF L, c
  <2> DEFINE Of(n) == Cardinality({k \in DOMAIN c : c[k].node = n.id})
  <2>5. /\ Cardinality(ToSet(c)) = L
        /\ \A x, y \in Nodes : Of(x) + 1 >= Of(y) \/ Of(x) = Len(x.services)
        /\ c # <<>> /\ Local.services # <<>> => c[1].node = Local.id
    BY <1>1, <2>1, <2>4, FirstEntries
  <2>6. \A n \in DOMAIN nodes : nodes[n] \in Nodes
    BY <1>1, SnapshotIs
  <2>7. \A n, m \in DOMAIN nodes :
          Of(nodes[n]) + 1 >= Of(nodes[m]) \/ Of(nodes[n]) = Len(nodes[n].services)
    <3> HIDE DEF Of
    <3> QED BY <2>5, <2>6
  <2>8. Len(c) = IF limit = 0 \/ limit > Len(e) THEN Len(e) ELSE limit
    BY <2>4 DEF L
  <2> QED BY <2>2, <2>4, <2>5, <2>7, <2>8
<1>2. PageInv => ChoiceIsFair /\ \A limit \in Nat : FairFor(limit)
  <2>1. 0..8 \subseteq Nat
    OBVIOUS
  <2> QED BY <1>1, <2>1 DEF ChoiceIsFair
<1> QED BY <1>2, PageInvariant, PTL

\* The services chosen, as a sequence that is the same for every order of the copies.
LEMMA ChosenIs ==
  ASSUME PageInv, NEW limit \in Nat, NEW a \in SnapshotNodes, NEW b \in SnapshotNodes
  PROVE  Chosen(a, limit) \in Seq(EntryType) /\ Chosen(a, limit) = Chosen(b, limit)
<1> DEFINE e == AllTurns(BuildServiceGroups(a))
<1>1. BuildServiceGroups(a) = BuildServiceGroups(b)
  BY GroupsAre
<1>2. PICK who, turn : EntriesOf(e, who, turn)
  BY EntriesAre
<1>3. Chosen(a, limit) = Cut(e, limit)
  BY DEF Chosen, PickServicesRoundRobin
<1> HIDE DEF e
<1>4. e \in Seq(EntryType)
  BY <1>2 DEF EntriesOf
<1>5. Cut(e, limit) \in Seq(EntryType)
  BY <1>4, CutIs
<1> QED BY <1>1, <1>3, <1>5 DEF Chosen

\* The connectivity of the nodes: this node's first, each once.
LEMMA ConnectivityItemsAre ==
  ASSUME PageInv, NEW a \in SnapshotNodes
  PROVE  LET k == ConnectivityItems(a)
             every == {ConnectivityItem(x) : x \in Nodes}
         IN  /\ k \in Seq(every) /\ Len(k) = Len(a) /\ Len(a) = 1 + Cardinality(fetched)
             /\ Len(a) \in Nat \ {0}
             /\ k[1] = ConnectivityItem(Local)
             /\ {k[i] : i \in 1..Len(a)} = every
<1> DEFINE k == ConnectivityItems(a)
           every == {ConnectivityItem(x) : x \in Nodes}
           n == Len(a)
<1>1. /\ DOMAIN a = 1..n /\ n \in Nat /\ 1 \in 1..n /\ a[1] = Local
      /\ \A i \in 1..n : a[i] \in Nodes
      /\ \A x \in Nodes : \E i \in 1..n : a[i] = x
      /\ n = 1 + Cardinality(fetched)
  BY SnapshotIs
<1>2. k = [i \in 1..n |-> ConnectivityItem(a[i])]
  BY <1>1 DEF ConnectivityItems
<1> HIDE DEF k, n
<1>3. \A i \in 1..n : k[i] = ConnectivityItem(a[i]) /\ k[i] \in every
  BY <1>1, <1>2
<1>4. k \in [1..n -> every]
  BY <1>2, <1>3
<1>5. k \in Seq(every) /\ Len(k) = n
  <2> HIDE DEF every
  <2> QED BY <1>1, <1>4
<1>6. {k[i] : i \in 1..n} = every
  <2>1. ASSUME NEW x \in Nodes PROVE \E i \in 1..n : k[i] = ConnectivityItem(x)
    <3>1. PICK i \in 1..n : a[i] = x
      BY <1>1
    <3> QED BY <1>3, <3>1
  <2> HIDE DEF every
  <2>2. \A e \in every : \E i \in 1..n : k[i] = e
    BY <2>1 DEF every
  <2> QED BY <1>3, <2>2
<1>7. k[1] = ConnectivityItem(Local) /\ n \in Nat \ {0}
  BY <1>1, <1>3
<1> QED BY <1>1, <1>5, <1>6, <1>7 DEF k, n

\* Of the items of the overview only the connectivity of peers changes places with the
\* order in which a map yields the copies (OnlyPeersChangePlaces), whatever the limit.
THEOREM ItemsStay == Spec => [](OnlyPeersChangePlaces /\ \A limit \in Nat : StableFor(limit))
<1>1. ASSUME PageInv, NEW limit \in Nat PROVE StableFor(limit)
  <2> DEFINE every == {ConnectivityItem(x) : x \in Nodes}
             Item == every \cup EntryType
  <2> SUFFICES ASSUME NEW a \in SnapshotNodes, NEW b \in SnapshotNodes
      PROVE  LET x == Items(a, limit)
                 y == Items(b, limit)
                 n == Len(a)
             IN  /\ Len(b) = n /\ Len(x) = Len(y)
                 /\ x[1] = y[1]
                 /\ {x[i] : i \in 1..n} = {y[i] : i \in 1..n}
                 /\ \A i \in (n + 1)..Len(x) : x[i] = y[i]
    BY DEF StableFor
  <2>1. PICK c : c = Chosen(a, limit) /\ c = Chosen(b, limit) /\ c \in Seq(EntryType)
    BY <1>1, ChosenIs
  <2> DEFINE Lists(k, n) == /\ k \in Seq(every) /\ Len(k) = n
                            /\ k[1] = ConnectivityItem(Local)
                            /\ {k[i] : i \in 1..n} = every
  <2>2. /\ Lists(ConnectivityItems(a), Len(a)) /\ Len(a) \in Nat \ {0}
         /\ Len(a) = 1 + Cardinality(fetched)
    BY <1>1, ConnectivityItemsAre
  <2>3. Lists(ConnectivityItems(b), Len(b)) /\ Len(b) = 1 + Cardinality(fetched)
    BY <1>1, ConnectivityItemsAre
  <2> HIDE DEF Lists
  <2>4. PICK k, l, n : /\ k = ConnectivityItems(a) /\ l = ConnectivityItems(b)
                        /\ n = Len(a) /\ Len(b) = n /\ n \in Nat \ {0}
                        /\ Lists(k, n) /\ Lists(l, n)
    BY <2>2, <2>3
  <2>5. /\ k = ConnectivityItems(a) /\ l = ConnectivityItems(b)
        /\ n = Len(a) /\ Len(b) = n /\ n \in Nat \ {0}
        /\ k \in Seq(every) /\ Len(k) = n /\ l \in Seq(every) /\ Len(l) = n
        /\ k[1] = l[1]
        /\ {k[i] : i \in 1..n} = every /\ {l[i] : i \in 1..n} = every
    <3> HIDE DEF every
    <3> QED BY <2>4 DEF Lists
  <2>6. PICK x, y : x = Items(a, limit) /\ y = Items(b, limit) /\ x = k \o c /\ y = l \o c
    BY <2>1, <2>5 DEF Items
  <2>7. k \in Seq(Item) /\ l \in Seq(Item) /\ c \in Seq(Item) /\ Len(c) \in Nat
    <3>1. every \subseteq Item /\ EntryType \subseteq Item
      OBVIOUS
    <3> HIDE DEF every, Item
    <3> QED BY <2>1, <2>5, <3>1, LenProperties
  <2> HIDE DEF every, Item
  <2>8. /\ Len(x) = n + Len(c)
        /\ \A i \in 1..(n + Len(c)) : x[i] = IF i <= n THEN k[i] ELSE c[i - n]
    <3>1. /\ Len(k \o c) = Len(k) + Len(c)
          /\ \A i \in 1..(Len(k) + Len(c)) :
               (k \o c)[i] = IF i <= Len(k) THEN k[i] ELSE c[i - Len(k)]
      BY <2>7, ConcatProperties
    <3>2. Len(k) = n /\ x = k \o c
      BY <2>5, <2>6
    <3> QED BY <3>1, <3>2
  <2>9. /\ Len(y) = n + Len(c)
        /\ \A i \in 1..(n + Len(c)) : y[i] = IF i <= n THEN l[i] ELSE c[i - n]
    <3>1. /\ Len(l \o c) = Len(l) + Len(c)
          /\ \A i \in 1..(Len(l) + Len(c)) :
               (l \o c)[i] = IF i <= Len(l) THEN l[i] ELSE c[i - Len(l)]
      BY <2>7, ConcatProperties
    <3>2. Len(l) = n /\ y = l \o c
      BY <2>5, <2>6
    <3> QED BY <3>1, <3>2
  <2>10. \A i \in 1..n : x[i] = k[i] /\ y[i] = l[i]
    BY <2>5, <2>7, <2>8, <2>9
  <2>11. \A i \in (n + 1)..Len(x) : x[i] = y[i]
    <3> SUFFICES ASSUME NEW i \in (n + 1)..Len(x) PROVE x[i] = y[i]
      OBVIOUS
    <3>1. i \in 1..(n + Len(c)) /\ ~(i <= n)
      BY <2>5, <2>7, <2>8
    <3> QED BY <2>8, <2>9, <3>1
  <2>12. {x[i] : i \in 1..n} = {k[i] : i \in 1..n} /\ {y[i] : i \in 1..n} = {l[i] : i \in 1..n}
    BY <2>10
  <2>13. {x[i] : i \in 1..n} = {y[i] : i \in 1..n}
    BY <2>5, <2>12
  <2>14. x[1] = y[1]
    <3>1. 1 \in 1..n
      BY <2>5
    <3> QED BY <2>5, <2>10, <3>1
  <2>15. Len(b) = n /\ Len(x) = Len(y) /\ n = Len(a)
    BY <2>5, <2>8, <2>9
  <2> QED BY <2>6, <2>11, <2>13, <2>14, <2>15
<1>2. PageInv => OnlyPeersChangePlaces /\ \A limit \in Nat : StableFor(limit)
  <2>1. 0 \in Nat /\ 3 \in Nat
    OBVIOUS
  <2> QED BY <1>1, <2>1 DEF OnlyPeersChangePlaces
<1> QED BY <1>2, PageInvariant, PTL
=============================================================================
