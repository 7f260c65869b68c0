------------------------- MODULE StatusStoreProofs -------------------------
(***************************************************************************)
(* Proofs about StatusStore, for every bound on the clock and the history. *)
(***************************************************************************)
EXTENDS StatusStore, SequenceTheorems, FiniteSetTheorems, WellFoundedInduction, TLAPS

\* What memory, file and lock stage say about each other, at every step.
Consistent == /\ pc # "down" => version = Len(history)
              /\ pc \in {"idle", "checking"} /\ ~failed => disk = history

\* The inductive invariant behind the durability results.
StoreInv == TypeOK /\ DiskIsPrefix /\ Consistent

Chronological(s) == \A i, j \in 1..Len(s) : i < j => s[i] <= s[j]

AllUpTo(s, t) == \A i \in 1..Len(s) : s[i] <= t

\* The inductive invariant behind HistorySorted: until the clock is set back,
\* nothing recorded, in memory or on disk, is later than the round in progress,
\* and that round than the clock.
SortInv ==
  ~setBack => /\ Chronological(history) /\ Chronological(disk)
              /\ AllUpTo(history, now) /\ AllUpTo(disk, now)
              /\ started <= now
              /\ pc = "checking" => AllUpTo(history, started)

-----------------------------------------------------------------------------
(* Sequences and their prefixes.                                           *)

\* A sequence is a prefix of itself.
LEMMA PrefixReflexive ==
  ASSUME NEW S, NEW s \in Seq(S)
  PROVE  IsPrefix(s, s)
BY SubSeqFull DEF IsPrefix

\* Appending an element keeps every prefix.
LEMMA PrefixOfAppend ==
  ASSUME NEW S, NEW s \in Seq(S), NEW t \in Seq(S), NEW e \in S, IsPrefix(s, t)
  PROVE  IsPrefix(s, Append(t, e))
<1> DEFINE u == Append(t, e)
<1>1. /\ u \in Seq(S) /\ Len(u) = Len(t) + 1
      /\ \A i \in 1..Len(t) : u[i] = t[i]
  BY AppendProperties
<1>2. Len(s) \in Nat /\ Len(t) \in Nat /\ Len(s) <= Len(t)
  BY LenProperties DEF IsPrefix
<1>3. SubSeq(u, 1, Len(s)) = SubSeq(t, 1, Len(s))
  BY <1>1, <1>2
<1>4. QED
  BY <1>1, <1>2, <1>3 DEF IsPrefix

\* The prefix of t of the length of s is s itself.
LEMMA PrefixIsSubSeq ==
  ASSUME NEW S, NEW s \in Seq(S), NEW t \in Seq(S), IsPrefix(s, t)
  PROVE  SubSeq(t, 1, Len(s)) = s /\ Len(s) \in 0..Len(t)
BY SubSeqFull, LenProperties DEF IsPrefix

-----------------------------------------------------------------------------
(* Durability.                                                             *)

\* StoreInv is inductive; one step per action of the process and of the clock.
LEMMA StoreInvStep == StoreInv /\ [Next]_vars => StoreInv'
<1> SUFFICES ASSUME StoreInv, [Next]_vars PROVE StoreInv'
  OBVIOUS
<1> USE StoreAssumption DEF StoreInv, TypeOK, DiskIsPrefix, Consistent, Stage, Time
<1>1. CASE Boot
  <2>1. IsPrefix(disk, disk) /\ Len(disk) \in Nat
    BY PrefixReflexive, LenProperties
  <2> QED BY <1>1, <2>1 DEF Boot
<1>2. CASE BeginRound
  BY <1>2 DEF BeginRound
<1>3. CASE AppendEntry
  <2>1. IsPrefix(disk, history') /\ disk' = disk
    BY <1>3, PrefixOfAppend DEF AppendEntry
  <2>2. history' \in Seq(Time) /\ Len(history') = Len(history) + 1
    BY <1>3, AppendProperties DEF AppendEntry
  <2>3. TypeOK'
    BY <1>3, <2>2 DEF AppendEntry
  <2>4. Consistent'
    BY <1>3, <2>2 DEF AppendEntry
  <2> QED BY <2>1, <2>3, <2>4
<1>4. CASE WriteTemp
  BY <1>4 DEF WriteTemp
<1>5. CASE WriteTempFails
  BY <1>5 DEF WriteTempFails
<1>6. CASE ReplaceFile
  <2>1. IsPrefix(history, history)
    BY PrefixReflexive
  <2> QED BY <1>6, <2>1 DEF ReplaceFile
<1>7. CASE ReplaceFileFails
  BY <1>7 DEF ReplaceFileFails
<1>8. CASE Crash
  <2>1. TypeOK'
    <3>1. history' \in Seq(Time) /\ disk' \in Seq(Time)
      BY <1>8, EmptySeq, Zenon DEF Crash
    <3>2. failed' \in BOOLEAN
      BY <1>8 DEF Crash
    <3> QED BY <1>8, <3>1, <3>2 DEF Crash
  <2>2. DiskIsPrefix' /\ Consistent'
    BY <1>8 DEF Crash
  <2> QED BY <2>1, <2>2
<1>9. CASE ClockForward
  BY <1>9 DEF ClockForward
<1>10. CASE ClockBack
  BY <1>10 DEF ClockBack
<1>11. CASE UNCHANGED vars
  BY <1>11 DEF vars
<1> QED
  BY <1>1, <1>2, <1>3, <1>4, <1>5, <1>6, <1>7, <1>8, <1>9, <1>10, <1>11
  DEF Next, Round

\* The invariant holds throughout every behaviour.
THEOREM StoreInvariant == Spec => []StoreInv
<1>1. Init => StoreInv
  <2> SUFFICES ASSUME Init PROVE StoreInv
    OBVIOUS
  <2>1. TypeOK
    <3>1. history \in Seq(Time) /\ disk \in Seq(Time)
      BY EmptySeq, Zenon DEF Init
    <3>2. failed \in BOOLEAN /\ setBack \in BOOLEAN
      BY DEF Init
    <3> QED BY <3>1, <3>2, StoreAssumption DEF Init, TypeOK, Stage, Time
  <2>2. DiskIsPrefix /\ Consistent
    BY DEF Init, DiskIsPrefix, Consistent
  <2> QED BY <2>1, <2>2 DEF StoreInv
<1> QED
  BY <1>1, StoreInvStep, PTL DEF Spec

\* Types, for every bound.
THEOREM TypeCorrect == Spec => []TypeOK
<1>1. StoreInv => TypeOK
  BY DEF StoreInv
<1> QED
  BY <1>1, StoreInvariant, PTL

\* The file never gets ahead of memory or off its beginning.
THEOREM FileIsPrefix == Spec => []DiskIsPrefix
<1>1. StoreInv => DiskIsPrefix
  BY DEF StoreInv
<1> QED
  BY <1>1, StoreInvariant, PTL

\* An append that reported no error made all visible entries durable.
THEOREM NilErrorDurable == Spec => []NilErrorMeansDurable
<1>1. StoreInv => NilErrorMeansDurable
  BY DEF StoreInv, Consistent, NilErrorMeansDurable
<1> QED
  BY <1>1, StoreInvariant, PTL

\* No step takes from the file an entry it holds.
THEOREM FileOnlyGrows == Spec => DurableNeverLost
<1>1. StoreInv /\ [Next]_vars => [IsPrefix(disk, disk')]_vars
  <2> SUFFICES ASSUME StoreInv, Next PROVE IsPrefix(disk, disk')
    OBVIOUS
  <2> USE DEF StoreInv, TypeOK
  <2>1. CASE ReplaceFile
    BY <2>1 DEF ReplaceFile, DiskIsPrefix
  <2>2. CASE ~ReplaceFile
    <3>1. disk' = disk
      BY <2>2 DEF Next, Round, Boot, BeginRound, AppendEntry, WriteTemp,
         WriteTempFails, ReplaceFileFails, Crash, ClockForward, ClockBack
    <3> QED BY <3>1, PrefixReflexive
  <2> QED BY <2>1, <2>2
<1> QED
  BY <1>1, StoreInvariant, PTL DEF Spec, DurableNeverLost

-----------------------------------------------------------------------------
(* Refinement of the durable log.                                          *)

\* Every step of the store is a step of the log or leaves it unchanged.
LEMMA LogStep == StoreInv /\ [Next]_vars => [Log!Next]_(Log!vars)
<1> SUFFICES ASSUME StoreInv, [Next]_vars PROVE [Log!Next]_(Log!vars)
  OBVIOUS
<1> USE StoreAssumption DEF StoreInv, TypeOK, Consistent, Time, Log!Next, Log!vars
<1>1. CASE Boot
  BY <1>1 DEF Boot
<1>2. CASE AppendEntry
  <2>1. Log!Extend
    BY <1>2 DEF AppendEntry, Log!Extend
  <2> QED BY <2>1
<1>3. CASE ReplaceFile
  <2>1. Log!Save
    BY <1>3 DEF ReplaceFile, Log!Save
  <2> QED BY <2>1
<1>4. CASE Crash
  <2>1. SubSeq(history, 1, Len(disk)) = disk
    BY <1>4, PrefixIsSubSeq DEF Crash, DiskIsPrefix
  <2>2. Log!Restart
    BY <1>4, <2>1 DEF Crash, Log!Restart
  <2> QED BY <2>2
<1>5. CASE \/ BeginRound \/ WriteTemp \/ WriteTempFails \/ ReplaceFileFails
           \/ ClockForward \/ ClockBack \/ UNCHANGED vars
  BY <1>5 DEF BeginRound, WriteTemp, WriteTempFails, ReplaceFileFails,
     ClockForward, ClockBack, vars
<1> QED
  BY <1>1, <1>2, <1>3, <1>4, <1>5 DEF Next, Round

\* The store implements the log of DurableLog.
THEOREM StoreImplementsLog == Spec => ImplementsDurableLog
<1>1. Init => Log!Init
  BY DEF Init, Log!Init
<1> QED
  BY <1>1, LogStep, StoreInvariant, PTL DEF Spec, ImplementsDurableLog, Log!Spec

-----------------------------------------------------------------------------
(* Chronological order.                                                    *)

\* SortInv is inductive: setting the clock back is what it excepts.
LEMMA SortInvStep == StoreInv /\ SortInv /\ [Next]_vars => SortInv'
<1> SUFFICES ASSUME StoreInv, SortInv, [Next]_vars, ~setBack' PROVE SortInv'
  BY DEF SortInv
<1> USE StoreAssumption DEF StoreInv, TypeOK, SortInv, Chronological, AllUpTo, Time
<1>1. CASE Boot
  BY <1>1 DEF Boot
<1>2. CASE BeginRound
  BY <1>2 DEF BeginRound
<1>3. CASE AppendEntry
  <2>1. /\ Len(history') = Len(history) + 1
        /\ Len(history) \in Nat
        /\ history'[Len(history) + 1] = started
        /\ \A i \in 1..Len(history) : history'[i] = history[i]
    BY <1>3, AppendProperties, LenProperties DEF AppendEntry
  <2>2. \A i \in 1..Len(history) : history[i] \in Int
    BY ElementOfSeq
  <2> QED BY <1>3, <2>1, <2>2 DEF AppendEntry
<1>4. CASE ReplaceFile
  BY <1>4 DEF ReplaceFile
<1>5. CASE Crash
  BY <1>5 DEF Crash
<1>6. CASE ClockForward
  <2>1. \A i \in 1..Len(history) : history[i] \in Int
    BY ElementOfSeq
  <2>2. \A i \in 1..Len(disk) : disk[i] \in Int
    BY ElementOfSeq
  <2> QED BY <1>6, <2>1, <2>2 DEF ClockForward
<1>7. CASE WriteTemp \/ WriteTempFails \/ ReplaceFileFails \/ UNCHANGED vars
  BY <1>7 DEF WriteTemp, WriteTempFails, ReplaceFileFails, vars
<1>8. ~ClockBack
  BY DEF ClockBack
<1> QED
  BY <1>1, <1>2, <1>3, <1>4, <1>5, <1>6, <1>7, <1>8 DEF Next, Round

\* With a clock that is never set back the history stays in order.
THEOREM HistoryStaysSorted == Spec => []HistorySorted
<1>1. Init => SortInv
  BY StoreAssumption DEF Init, SortInv, Chronological, AllUpTo
<1>2. SortInv => HistorySorted
  BY DEF SortInv, Chronological, HistorySorted
<1> QED
  BY <1>1, <1>2, SortInvStep, StoreInvariant, PTL DEF Spec

-----------------------------------------------------------------------------
(* The binary search.  sort.Search is a recursion over intervals of any    *)
(* length; what it computes is proved by counterexample of least length.   *)

\* Any set of natural numbers has a least element.
LEMMA Least ==
  ASSUME NEW T \in SUBSET Nat, T # {}
  PROVE  \E m \in T : \A n \in T : m <= n
<1> DEFINE R == StrictSubsetOrdering(Nat)
           U == {0..n : n \in T}
<1>1. IsWellFoundedOn(R, FiniteSubsetsOf(Nat))
  BY FS_StrictSubsetOrderingWellFounded
<1>2. U \subseteq FiniteSubsetsOf(Nat) /\ U # {}
  <2>1. ASSUME NEW n \in T PROVE 0..n \in SUBSET Nat /\ IsFiniteSet(0..n)
    <3>1. n \in Int /\ 0 \in Int /\ 0..n \subseteq Nat
      OBVIOUS
    <3> QED BY <3>1, FS_Interval
  <2> QED BY <2>1 DEF FiniteSubsetsOf
<1>3. PICK u \in U : \A v \in U : <<v, u>> \notin R
  <2> HIDE DEF R, U
  <2> QED BY <1>1, <1>2, WFMin
<1>4. PICK m \in T : u = 0..m
  OBVIOUS
<1>5. ASSUME NEW n \in T, n < m PROVE FALSE
  <2>1. (0..n) \subseteq 0..m /\ m \in 0..m /\ m \notin 0..n
    BY <1>5
  <2>2. 0..n \in U /\ 0..n # u /\ 0..n \subseteq u /\ u \subseteq Nat
    BY <1>4, <2>1
  <2> QED BY <1>3, <2>2 DEF StrictSubsetOrdering
<1> QED BY <1>5


Pairs(n) == (0..n) \X (0..n)

\* One step of the search in the interval ij, by f in the half that is left.
Halve(f, Holds, ij) ==
  LET i == ij[1]
      j == ij[2]
      h == (i + j) \div 2
  IN  IF i >= j THEN i
      ELSE IF Holds[h] THEN f[<<i, h>>] ELSE f[<<h + 1, j>>]

\* The middle of an interval lies in it.
LEMMA Middle ==
  ASSUME NEW i \in Nat, NEW j \in Nat, i < j
  PROVE  /\ (i + j) \div 2 \in Nat
         /\ i <= (i + j) \div 2 /\ (i + j) \div 2 < j
OBVIOUS

\* f follows the recursion on all intervals of length k or less.
Follows(f, n, Holds, k) ==
  \A ij \in Pairs(n) : ij[2] - ij[1] <= k => f[ij] = Halve(f, Holds, ij)

\* One round of the recursion: it reaches intervals longer by one.
LEMMA FollowsOneMore ==
  ASSUME NEW n \in Nat, NEW Holds, NEW k \in Nat, NEW f, Follows(f, n, Holds, k)
  PROVE  Follows([ij \in Pairs(n) |-> Halve(f, Holds, ij)], n, Holds, k + 1)
<1> DEFINE g == [ij \in Pairs(n) |-> Halve(f, Holds, ij)]
<1>1. \A ij \in Pairs(n) : g[ij] = Halve(f, Holds, ij)
  OBVIOUS
<1> HIDE DEF g
<1>2. ASSUME NEW ij \in Pairs(n), ij[2] - ij[1] <= k + 1
      PROVE  Halve(f, Holds, ij) = Halve(g, Holds, ij)
  <2> DEFINE i == ij[1]
             j == ij[2]
             h == (i + j) \div 2
  <2>1. i \in 0..n /\ j \in 0..n
    BY DEF Pairs
  <2>2. CASE i >= j
    BY <2>2 DEF Halve
  <2>3. CASE i < j
    <3>1. h \in Nat /\ i <= h /\ h < j
      BY <2>1, <2>3, Middle
    <3> HIDE DEF h
    <3>2. /\ <<i, h>> \in Pairs(n) /\ <<h + 1, j>> \in Pairs(n)
          /\ h - i <= k /\ j - (h + 1) <= k
      BY <1>2, <2>1, <3>1 DEF Pairs
    <3>3. g[<<i, h>>] = f[<<i, h>>] /\ g[<<h + 1, j>>] = f[<<h + 1, j>>]
      BY <1>1, <3>2 DEF Follows
    <3>4. ~(i >= j)
      BY <2>1, <2>3
    <3> QED BY <3>3, <3>4 DEF Halve, h
  <2> QED BY <2>1, <2>2, <2>3
<1>3. Follows(g, n, Holds, k + 1)
  BY <1>1, <1>2 DEF Follows
<1> QED
  BY <1>3 DEF g

\* The recursion of sort.Search defines a function.
LEMMA SearchExists ==
  ASSUME NEW n \in Nat, NEW Holds
  PROVE  \E f : f = [ij \in Pairs(n) |-> Halve(f, Holds, ij)]
<1> DEFINE T == {k \in Nat : \A f : ~Follows(f, n, Holds, k)}
<1>1. T = {}
  <2> SUFFICES ASSUME T # {} PROVE FALSE
    OBVIOUS
  <2>1. PICK m \in T : \A k \in T : m <= k
    BY Least
  <2>2. CASE m = 0
    <3> DEFINE f == [ij \in Pairs(n) |-> ij[1]]
    <3>1. ASSUME NEW ij \in Pairs(n), ij[2] - ij[1] <= 0 PROVE f[ij] = Halve(f, Holds, ij)
      <4>1. ij[1] \in Nat /\ ij[2] \in Nat
        BY DEF Pairs
      <4>2. ij[1] >= ij[2]
        BY <3>1, <4>1
      <4> QED BY <4>2 DEF Halve
    <3> HIDE DEF f
    <3>2. Follows(f, n, Holds, m)
      BY <2>2, <3>1 DEF Follows
    <3> QED BY <3>2
  <2>3. CASE m # 0
    <3>1. m - 1 \in Nat /\ ~(m <= m - 1)
      BY <2>3
    <3>2. m - 1 \notin T
      BY <2>1, <3>1
    <3>3. PICK f : Follows(f, n, Holds, m - 1)
      BY <3>1, <3>2
    <3>4. \E g : Follows(g, n, Holds, (m - 1) + 1)
      BY <3>1, <3>3, FollowsOneMore
    <3>5. (m - 1) + 1 = m
      OBVIOUS
    <3> QED BY <3>4, <3>5
  <2> QED BY <2>2, <2>3
<1>2. PICK f : Follows(f, n, Holds, n)
  BY <1>1
<1> DEFINE g == [ij \in Pairs(n) |-> Halve(f, Holds, ij)]
<1>3. Follows(g, n, Holds, n + 1)
  BY <1>2, FollowsOneMore
<1>4. g = [ij \in Pairs(n) |-> g[ij]]
  OBVIOUS
<1> HIDE DEF g
<1>5. ASSUME NEW ij \in Pairs(n) PROVE g[ij] = Halve(g, Holds, ij)
  <2>1. ij[2] - ij[1] <= n + 1
    BY DEF Pairs
  <2> QED BY <1>3, <2>1 DEF Follows
<1> QED
  BY <1>4, <1>5

\* Where the search in the interval from i to j ends.
FirstIn(r, Holds, i, j) == /\ r \in i..j
                           /\ \A k \in i..(j - 1) : Holds[k] <=> k >= r

\* What is found in the lower half is what is to be found, if all of the upper one
\* holds ...
LEMMA FoundInLower ==
  ASSUME NEW i \in Nat, NEW j \in Nat, NEW h \in Nat, i <= h, h < j, NEW Holds, NEW r,
         FirstIn(r, Holds, i, h), \A k \in i..(j - 1) : k >= h => Holds[k]
  PROVE  FirstIn(r, Holds, i, j)
<1>1. r \in i..j /\ r <= h
  BY DEF FirstIn
<1>2. ASSUME NEW k \in i..(j - 1) PROVE Holds[k] <=> k >= r
  <2>1. CASE k < h
    <3>1. k \in i..(h - 1)
      BY <2>1
    <3> QED BY <3>1 DEF FirstIn
  <2>2. CASE k >= h
    <3>1. Holds[k]
      BY <2>2
    <3>2. k >= r
      BY <1>1, <2>2
    <3> QED BY <3>1, <3>2
  <2> QED BY <2>1, <2>2
<1> QED BY <1>1, <1>2 DEF FirstIn

\* ... and what is found in the upper half, if nothing of the lower one does.
LEMMA FoundInUpper ==
  ASSUME NEW i \in Nat, NEW j \in Nat, NEW h \in Nat, i <= h, h < j, NEW Holds, NEW r,
         FirstIn(r, Holds, h + 1, j), \A k \in i..(j - 1) : k <= h => ~Holds[k]
  PROVE  FirstIn(r, Holds, i, j)
<1>1. r \in i..j /\ r > h
  BY DEF FirstIn
<1>2. ASSUME NEW k \in i..(j - 1) PROVE Holds[k] <=> k >= r
  <2>1. CASE k > h
    <3>1. k \in (h + 1)..(j - 1)
      BY <2>1
    <3> QED BY <3>1 DEF FirstIn
  <2>2. CASE k <= h
    <3>1. ~Holds[k]
      BY <2>2
    <3>2. ~(k >= r)
      BY <1>1, <2>2
    <3> QED BY <3>1, <3>2
  <2> QED BY <2>1, <2>2
<1> QED BY <1>1, <1>2 DEF FirstIn

\* For every length, and every condition that stays true once it is, sort.Search
\* returns the first index at which it holds.
LEMMA SearchFindsFirst ==
  ASSUME NEW n \in Nat, NEW Holds \in [0..(n - 1) -> BOOLEAN],
         \A a, b \in 0..(n - 1) : a <= b /\ Holds[a] => Holds[b]
  PROVE  FirstIn(SortSearch(n, Holds), Holds, 0, n)
<1> DEFINE F == CHOOSE f : f = [ij \in Pairs(n) |-> Halve(f, Holds, ij)]
<1>1. SortSearch(n, Holds) = F[<<0, n>>]
  BY DEF SortSearch, Halve, Pairs
<1>2. F = [ij \in Pairs(n) |-> Halve(F, Holds, ij)]
  BY SearchExists
<1> HIDE DEF F
<1>3. \A ij \in Pairs(n) : F[ij] = Halve(F, Holds, ij)
  BY <1>2
<1> DEFINE T == {d \in Nat : \E i, j \in 0..n : /\ i <= j /\ j - i <= d
                                               /\ ~FirstIn(F[<<i, j>>], Holds, i, j)}
<1>4. T = {}
  <2> SUFFICES ASSUME T # {} PROVE FALSE
    OBVIOUS
  <2>1. PICK m \in T : \A d \in T : m <= d
    BY Least
  <2>2. PICK i \in 0..n, j \in 0..n : /\ i <= j /\ j - i <= m
                                      /\ ~FirstIn(F[<<i, j>>], Holds, i, j)
    BY <2>1
  <2>3. <<i, j>> \in Pairs(n) /\ F[<<i, j>>] = Halve(F, Holds, <<i, j>>)
    BY <1>3 DEF Pairs
  <2>4. CASE i = j
    <3>1. F[<<i, j>>] = i
      BY <2>3, <2>4 DEF Halve
    <3> QED BY <2>2, <2>4, <3>1 DEF FirstIn
  <2>5. CASE i < j
    <3> DEFINE h == (i + j) \div 2
    <3>1. F[<<i, j>>] = IF Holds[h] THEN F[<<i, h>>] ELSE F[<<h + 1, j>>]
      BY <2>3, <2>5 DEF Halve
    <3>2. h \in Nat /\ i <= h /\ h < j
      BY <2>5, Middle
    <3> HIDE DEF h
    <3>3. /\ h \in 0..(n - 1) /\ h \in 0..n /\ h + 1 \in 0..n /\ h + 1 <= j
          /\ m - 1 \in Nat /\ h - i <= m - 1 /\ j - (h + 1) <= m - 1 /\ ~(m <= m - 1)
      BY <2>2, <2>5, <3>2
    <3>4. m - 1 \notin T
      BY <2>1, <3>3
    <3>5. FirstIn(F[<<i, h>>], Holds, i, h) /\ FirstIn(F[<<h + 1, j>>], Holds, h + 1, j)
      BY <3>2, <3>3, <3>4
    <3>6. i \in Nat /\ j \in Nat
      OBVIOUS
    <3> HIDE DEF T
    <3>7. CASE Holds[h]
      <4>1. F[<<i, j>>] = F[<<i, h>>]
        BY <3>1, <3>7
      <4>2. \A k \in i..(j - 1) : k >= h => Holds[k]
        BY <3>3, <3>7
      <4>3. FirstIn(F[<<i, h>>], Holds, i, j)
        BY <3>2, <3>5, <3>6, <4>2, FoundInLower
      <4> QED BY <2>2, <4>1, <4>3
    <3>8. CASE ~Holds[h]
      <4>1. F[<<i, j>>] = F[<<h + 1, j>>]
        BY <3>1, <3>8
      <4>2. \A k \in i..(j - 1) : k <= h => ~Holds[k]
        BY <3>3, <3>8
      <4>3. FirstIn(F[<<h + 1, j>>], Holds, i, j)
        BY <3>2, <3>5, <3>6, <4>2, FoundInUpper
      <4> QED BY <2>2, <4>1, <4>3
    <3> QED BY <3>7, <3>8
  <2> QED BY <2>2, <2>4, <2>5
<1>5. n \notin T
  BY <1>4
<1> QED
  BY <1>1, <1>5

\* HistorySince for any cutoff: sort.Search is right because the history is sorted,
\* which it is until the clock is set back.
THEOREM SinceIsExact == Spec => []HistorySinceExact
<1>1. ASSUME TypeOK, HistorySorted PROVE HistorySinceExact
  <2> SUFFICES ASSUME ~setBack, NEW cutoff \in 0..(MaxNow + 1)
      PROVE  \E k \in 0..Len(history) :
               /\ HistorySince(cutoff) = SubSeq(history, k + 1, Len(history))
               /\ \A i \in 1..Len(history) : history[i] >= cutoff <=> i > k
    BY DEF HistorySinceExact
  <2> DEFINE n == Len(history)
             Holds == [i \in 0..(n - 1) |-> history[i + 1] >= cutoff]
             r == SortSearch(n, Holds)
  <2>1. n \in Nat /\ \A i \in 1..n : history[i] \in Nat
    <3>1. history \in Seq(Time) /\ Time \subseteq Nat
      BY <1>1, StoreAssumption DEF TypeOK, Time
    <3> QED BY <3>1, LenProperties, ElementOfSeq
  <2>2. Holds \in [0..(n - 1) -> BOOLEAN]
    OBVIOUS
  <2>3. \A i \in 0..(n - 1) : Holds[i] <=> history[i + 1] >= cutoff
    OBVIOUS
  <2>4. \A i, j \in 1..n : i < j => history[i] <= history[j]
    BY <1>1 DEF HistorySorted
  <2>5. HistorySince(cutoff) = SubSeq(history, r + 1, n)
    BY DEF HistorySince
  <2> HIDE DEF n, Holds, r
  <2>6. ASSUME NEW a \in 0..(n - 1), NEW b \in 0..(n - 1), a <= b, Holds[a] PROVE Holds[b]
    <3>1. a + 1 \in 1..n /\ b + 1 \in 1..n /\ (a = b \/ a + 1 < b + 1)
      BY <2>1, <2>6
    <3>2. history[a + 1] <= history[b + 1]
      BY <2>1, <2>4, <3>1
    <3>3. cutoff \in Nat
      BY StoreAssumption
    <3> QED BY <2>1, <2>3, <2>6, <3>1, <3>2, <3>3
  <2>7. FirstIn(r, Holds, 0, n)
    BY <2>1, <2>2, <2>6, SearchFindsFirst DEF r
  <2>8. ASSUME NEW i \in 1..n PROVE history[i] >= cutoff <=> i > r
    <3>1. i - 1 \in 0..(n - 1) /\ (i - 1) + 1 = i
      BY <2>1
    <3>2. history[i] >= cutoff <=> Holds[i - 1]
      BY <2>3, <3>1
    <3>3. Holds[i - 1] <=> i - 1 >= r
      BY <2>7, <3>1 DEF FirstIn
    <3>4. r \in 0..n
      BY <2>7 DEF FirstIn
    <3> QED BY <2>1, <3>2, <3>3, <3>4
  <2>9. r \in 0..n
    BY <2>7 DEF FirstIn
  <2> QED BY <2>5, <2>8, <2>9 DEF n
<1>2. StoreInv => TypeOK
  BY DEF StoreInv
<1> QED
  BY <1>1, <1>2, StoreInvariant, HistoryStaysSorted, PTL
=============================================================================
