------------------------- MODULE ConnectivityProofs -------------------------
(***************************************************************************)
(* Proofs about Connectivity, for any configuration files, any sizes they  *)
(* lead to, and any number of samples.                                     *)
(***************************************************************************)
EXTENDS Connectivity, SequenceTheorems, TLAPS

\* In the order in which they were taken, the n-th being the last one taken.
Ordered(s, n) == /\ \A i, j \in 1..Len(s) : i < j => s[i] < s[j]
                 /\ \A i \in 1..Len(s) : s[i] <= n

\* What a probe is about to save is the history in memory, and it takes a probe
\* only if one more sample is left to take.
Saving == /\ pc = "probing" => taken < MaxSamples
          /\ pc = "probed" => snapshot = history
          /\ pc \in {"writing", "renaming"} => stored = history

\* What the file holds and memory does not is older than all that memory holds, and
\* memory is then full: failed saves leave the file behind, never ahead.
FileBehind ==
  pc # "down" =>
    \A old \in Range(disk) \ Range(history) :
      Len(history) = maxHistory /\ \A kept \in Range(history) : old < kept

\* The inductive invariant behind the results about the samples.
SampleInv == /\ TypeOK
             /\ pc # "down" => maxHistory > 0
             /\ Ordered(history, taken) /\ Ordered(disk, taken)
             /\ CappedAndCurrent
             /\ Saving
             /\ SavedSurvivesRestart
             /\ FileBehind

-----------------------------------------------------------------------------
(* Sizes.                                                                  *)

\* The greater of two numbers.
LEMMA MaxOfTwo ==
  ASSUME NEW a \in Int, NEW b \in Int
  PROVE  Max({a, b}) = IF a >= b THEN a ELSE b
<1> DEFINE m == IF a >= b THEN a ELSE b
<1>1. m \in {a, b} /\ \A y \in {a, b} : m >= y
  OBVIOUS
<1>2. \A x \in {a, b} : (\A y \in {a, b} : x >= y) => x = m
  OBVIOUS
<1> QED
  BY <1>1, <1>2 DEF Max

\* The smaller of two numbers.
LEMMA MinOfTwo ==
  ASSUME NEW a \in Int, NEW b \in Int
  PROVE  Min({a, b}) = IF a <= b THEN a ELSE b
<1> DEFINE m == IF a <= b THEN a ELSE b
<1>1. m \in {a, b} /\ \A y \in {a, b} : m <= y
  OBVIOUS
<1>2. \A x \in {a, b} : (\A y \in {a, b} : x <= y) => x = m
  OBVIOUS
<1> QED
  BY <1>1, <1>2 DEF Min

\* A normalised file gives the probe an interval, a positive one.
LEMMA DecodedProbe ==
  ASSUME NEW file \in Files
  PROVE  /\ Decoded(file).probeEnabled \in BOOLEAN
         /\ Decoded(file).probeInterval \in Nat \ {0}
<1> DEFINE d == OverDefaults(file)
<1>1. DOMAIN DefaultConfig = {"interval", "probeEnabled", "probeInterval", "targets", "peers"}
  BY DEF DefaultConfig
<1>2. d.probeEnabled \in BOOLEAN
  BY <1>1, ConnectivityAssumption DEF OverDefaults, DefaultConfig
<1>3. d.probeInterval \in Int
  BY <1>1, ConnectivityAssumption, ConfigurationAssumption DEF OverDefaults, DefaultConfig
<1>4. DOMAIN d = DOMAIN DefaultConfig
  BY DEF OverDefaults
<1>5. /\ Decoded(file).probeEnabled = d.probeEnabled
      /\ Decoded(file).probeInterval = OrDefault(d.probeInterval, DefaultProbeInterval)
  <2> HIDE DEF d
  <2> QED BY <1>1, <1>4 DEF Decoded, d
<1> QED
  BY <1>2, <1>3, <1>5, ConfigurationAssumption DEF OrDefault

\* Whole divisions of lengths of time.
LEMMA Quotient ==
  ASSUME NEW a \in Nat, NEW b \in Nat \ {0}
  PROVE  a \div b \in Nat
OBVIOUS

\* NewConnectivityMonitor: whatever the configuration, at least one sample is kept,
\* and no more than the ceiling or the floor.
LEMMA CapIsPositive ==
  ASSUME NEW cfg \in Load(Files)
  PROVE  /\ MaxHistory(cfg) \in Nat \ {0}
         /\ MaxHistory(cfg) <= ProbeCeiling \/ MaxHistory(cfg) <= ProbeFloor
         /\ cfg.probeEnabled \in BOOLEAN
<1>1. PICK file \in Files : cfg = Decoded(file)
  BY DEF Load
<1>2. cfg.probeEnabled \in BOOLEAN /\ cfg.probeInterval \in Nat \ {0}
  BY <1>1, DecodedProbe
<1> DEFINE due == Month \div cfg.probeInterval + ProbeSlack
           wanted == Max({ProbeFloor, due})
<1>3. due \in Nat
  BY <1>2, Quotient, ConfigurationAssumption
<1>4. wanted \in Nat \ {0}
  <2> HIDE DEF due
  <2> QED BY <1>3, MaxOfTwo, ConfigurationAssumption
<1>5. /\ Min({ProbeCeiling, wanted}) \in Nat \ {0}
      /\ Min({ProbeCeiling, wanted}) <= ProbeCeiling
  <2> HIDE DEF wanted
  <2> QED BY <1>4, MinOfTwo, ConfigurationAssumption
<1> QED
  BY <1>2, <1>5, ConfigurationAssumption DEF MaxHistory

-----------------------------------------------------------------------------
(* Histories.                                                              *)

\* c is the end of s.
EndOf(c, s) == /\ Len(c) <= Len(s)
               /\ \A i \in 1..Len(c) : c[i] = s[i + (Len(s) - Len(c))]

\* Cutting a history keeps its end: as much of it as the cap allows, in its order.
LEMMA CappedIsEnd ==
  ASSUME NEW s \in Seq(Sample), NEW cap \in Nat
  PROVE  /\ Capped(s, cap) \in Seq(Sample)
         /\ Len(Capped(s, cap)) = IF Len(s) > cap THEN cap ELSE Len(s)
         /\ EndOf(Capped(s, cap), s)
<1>1. Len(s) \in Nat /\ \A i \in 1..Len(s) : s[i] \in Sample
  BY LenProperties, ElementOfSeq
<1>2. CASE Len(s) <= cap
  <2>1. Capped(s, cap) = s
    BY <1>1, <1>2 DEF Capped
  <2>2. \A i \in 1..Len(s) : i + (Len(s) - Len(s)) = i
    BY <1>1
  <2>3. EndOf(s, s)
    BY <1>1, <2>2 DEF EndOf
  <2> QED BY <1>1, <1>2, <2>1, <2>3
<1>3. CASE Len(s) > cap
  <2> DEFINE m == Len(s) - cap + 1
             c == SubSeq(s, m, Len(s))
  <2>1. m \in Int /\ m >= 1 /\ \A i \in m..Len(s) : s[i] \in Sample
    BY <1>1, <1>3
  <2>2. /\ c \in Seq(Sample)
        /\ Len(c) = IF m <= Len(s) THEN Len(s) - m + 1 ELSE 0
        /\ \A i \in 1..(Len(s) - m + 1) : c[i] = s[m + i - 1]
    <3> HIDE DEF m
    <3> QED BY <1>1, <2>1, SubSeqProperties
  <2>3. Capped(s, cap) = c
    BY <1>3 DEF Capped, LastN
  <2> HIDE DEF c
  <2>4. Len(c) = cap
    BY <1>1, <1>3, <2>2
  <2>5. \A i \in 1..cap : c[i] = s[i + (Len(s) - cap)]
    <3> SUFFICES ASSUME NEW i \in 1..cap PROVE c[i] = s[i + (Len(s) - cap)]
      OBVIOUS
    <3>1. m + i - 1 = i + (Len(s) - cap) /\ Len(s) - m + 1 = cap
      BY <1>1
    <3> QED BY <2>2, <3>1
  <2> QED BY <1>3, <2>2, <2>3, <2>4, <2>5 DEF EndOf
<1> QED
  BY <1>1, <1>2, <1>3

\* A history that is not too long is left as it is.
LEMMA CappedShort ==
  ASSUME NEW s \in Seq(Sample), NEW cap \in Nat, Len(s) <= cap
  PROVE  Capped(s, cap) = s
BY LenProperties DEF Capped

\* The samples of a history.
LEMMA SamplesOf ==
  ASSUME NEW s \in Seq(Sample)
  PROVE  \A e : e \in Range(s) <=> \E i \in 1..Len(s) : s[i] = e
BY LenProperties DEF Range

\* What is cut off a history in order is older than what is kept.
LEMMA CutOffIsOlder ==
  ASSUME NEW s \in Seq(Sample), NEW cap \in Nat, NEW n \in Nat, Ordered(s, n)
  PROVE  LET c == Capped(s, cap)
         IN  /\ Ordered(c, n)
             /\ \A old \in Range(s) \ Range(c) :
                  Len(c) = cap /\ \A kept \in Range(c) : old < kept
             /\ Range(c) \subseteq Range(s)
             /\ Len(c) > 0 => c[Len(c)] = s[Len(s)]
<1> DEFINE c == Capped(s, cap)
           d == Len(s) - Len(c)
<1>1. /\ c \in Seq(Sample)
      /\ Len(c) = IF Len(s) > cap THEN cap ELSE Len(s)
      /\ EndOf(c, s)
  BY CappedIsEnd
<1>2. Len(s) \in Nat /\ Len(c) \in Nat
  BY <1>1, LenProperties
<1>3. \A i \in 1..Len(s) : s[i] \in Int
  BY ElementOfSeq, ConnectivityAssumption DEF Sample
<1> HIDE DEF c
<1>4. ASSUME NEW i \in 1..Len(c) PROVE i + d \in 1..Len(s) /\ c[i] = s[i + d]
  <2>1. i + d \in 1..Len(s)
    BY <1>1, <1>2 DEF EndOf
  <2>2. c[i] = s[i + d]
    BY <1>1 DEF EndOf
  <2> QED BY <2>1, <2>2
<1>5. Ordered(c, n)
  <2>1. ASSUME NEW i \in 1..Len(c), NEW j \in 1..Len(c), i < j PROVE c[i] < c[j]
    <3>1. i + d < j + d
      BY <1>2, <2>1
    <3> QED BY <1>4, <3>1 DEF Ordered
  <2>2. ASSUME NEW i \in 1..Len(c) PROVE c[i] <= n
    BY <1>4 DEF Ordered
  <2> QED BY <2>1, <2>2 DEF Ordered
<1>6. ASSUME NEW i \in 1..Len(s), s[i] \notin Range(c)
      PROVE  Len(c) = cap /\ i <= d
  <2>1. i <= d
    <3> SUFFICES ASSUME i > d PROVE FALSE
      BY <1>2
    <3>1. i - d \in 1..Len(c) /\ (i - d) + d = i
      BY <1>1, <1>2
    <3>2. c[i - d] = s[i]
      BY <1>4, <3>1
    <3> QED BY <1>1, <1>6, <3>1, <3>2, SamplesOf
  <2> QED BY <1>1, <1>2, <2>1
<1>7. ASSUME NEW i \in 1..Len(s), s[i] \notin Range(c), NEW j \in 1..Len(c)
      PROVE  s[i] < c[j]
  <2>1. i < j + d
    BY <1>2, <1>6, <1>7
  <2> QED BY <1>4, <2>1 DEF Ordered
<1>8. \A old \in Range(s) \ Range(c) :
        Len(c) = cap /\ \A kept \in Range(c) : old < kept
  BY <1>1, <1>6, <1>7, SamplesOf
<1>9. ASSUME NEW e \in Range(c) PROVE e \in Range(s)
  <2>1. PICK i \in 1..Len(c) : c[i] = e
    BY <1>1, SamplesOf
  <2> QED BY <1>4, <2>1, SamplesOf
<1>10. Len(c) > 0 => c[Len(c)] = s[Len(s)]
  <2> SUFFICES ASSUME Len(c) > 0 PROVE c[Len(c)] = s[Len(s)]
    OBVIOUS
  <2>1. Len(c) \in 1..Len(c) /\ Len(c) + d = Len(s)
    BY <1>2
  <2> QED BY <1>4, <2>1
<1> QED
  BY <1>5, <1>8, <1>9, <1>10 DEF c

\* The next sample goes to the end of a history in order.
LEMMA AppendSample ==
  ASSUME NEW s \in Seq(Sample), NEW n \in Nat, n + 1 \in Sample, Ordered(s, n)
  PROVE  LET a == Append(s, n + 1)
         IN  /\ a \in Seq(Sample)
             /\ Len(a) = Len(s) + 1
             /\ a[Len(a)] = n + 1
             /\ Ordered(a, n + 1)
             /\ Range(a) = Range(s) \cup {n + 1}
<1> DEFINE a == Append(s, n + 1)
<1>1. /\ a \in Seq(Sample)
      /\ Len(a) = Len(s) + 1
      /\ \A i \in 1..Len(s) : a[i] = s[i]
      /\ a[Len(s) + 1] = n + 1
  BY AppendProperties
<1>2. Len(s) \in Nat /\ \A i \in 1..Len(s) : s[i] \in Nat
  BY LenProperties, ElementOfSeq, ConnectivityAssumption DEF Sample
<1> HIDE DEF a
<1>3. \A i \in 1..Len(a) : i \in 1..Len(s) \/ i = Len(s) + 1
  BY <1>1, <1>2
<1>4. Ordered(a, n + 1)
  BY <1>1, <1>2, <1>3 DEF Ordered
<1>5. ASSUME NEW e PROVE e \in Range(a) <=> e \in Range(s) \cup {n + 1}
  <2>1. ASSUME e \in Range(a) PROVE e \in Range(s) \cup {n + 1}
    <3>1. PICK i \in 1..Len(a) : a[i] = e
      BY <1>1, <2>1, SamplesOf
    <3> QED BY <1>1, <1>3, <3>1, SamplesOf
  <2>2. ASSUME e \in Range(s) PROVE e \in Range(a)
    <3>1. PICK i \in 1..Len(s) : s[i] = e
      BY <2>2, SamplesOf
    <3>2. i \in 1..Len(a) /\ a[i] = e
      BY <1>1, <1>2, <3>1
    <3> QED BY <1>1, <3>2, SamplesOf
  <2>3. n + 1 \in Range(a)
    <3>1. Len(s) + 1 \in 1..Len(a)
      BY <1>1, <1>2
    <3> QED BY <1>1, <3>1, SamplesOf
  <2> QED BY <2>1, <2>2, <2>3
<1> QED
  BY <1>1, <1>4, <1>5 DEF a

\* The latest sample of a history is one, unless the history is empty.
LEMMA LatestIsSample ==
  ASSUME NEW s \in Seq(Sample)
  PROVE  /\ LatestOf(s) \in Sample \cup {None}
         /\ Len(s) > 0 => LatestOf(s) = s[Len(s)]
BY EmptySeq, LenProperties, ElementOfSeq DEF LatestOf, Last

-----------------------------------------------------------------------------
(* The inductive invariant.                                                *)

\* The critical section of probe: the sample gets into a history that may be full.
LEMMA RecordSampleStep == SampleInv /\ RecordSample => SampleInv'
<1> SUFFICES ASSUME SampleInv, RecordSample PROVE SampleInv'
  OBVIOUS
<1> DEFINE a == Append(history, taken + 1)
<1>1. /\ pc = "probing" /\ taken \in Nat /\ taken + 1 \in Sample
      /\ history \in Seq(Sample) /\ disk \in Seq(Sample)
      /\ maxHistory \in Nat /\ maxHistory > 0
      /\ Ordered(history, taken) /\ Ordered(disk, taken)
  BY ConnectivityAssumption DEF SampleInv, RecordSample, TypeOK, Saving, Sample
<1>2. /\ a \in Seq(Sample)
      /\ Len(a) = Len(history) + 1
      /\ a[Len(a)] = taken + 1
      /\ Ordered(a, taken + 1)
      /\ Range(a) = Range(history) \cup {taken + 1}
  BY <1>1, AppendSample
<1>3. /\ history' = Capped(a, maxHistory)
      /\ taken' = taken + 1 /\ latest' = taken + 1
      /\ snapshot' = history' /\ pc' = "probed"
      /\ UNCHANGED <<maxHistory, enabled, stored, failed, disk>>
  BY DEF RecordSample
<1> HIDE DEF a
<1>4. /\ history' \in Seq(Sample)
      /\ Len(history') = IF Len(a) > maxHistory THEN maxHistory ELSE Len(a)
  BY <1>1, <1>2, <1>3, CappedIsEnd
<1>5. /\ Ordered(history', taken + 1)
      /\ \A old \in Range(a) \ Range(history') :
           Len(history') = maxHistory /\ \A kept \in Range(history') : old < kept
      /\ Range(history') \subseteq Range(a)
      /\ Len(history') > 0 => history'[Len(history')] = a[Len(a)]
  BY <1>1, <1>2, <1>3, CutOffIsOlder
<1>6. Len(history) \in Nat /\ \A d \in Range(disk) : d <= taken /\ d \in Nat
  BY <1>1, LenProperties, ElementOfSeq, SamplesOf, ConnectivityAssumption DEF Ordered, Sample
<1>7. TypeOK'
  BY <1>1, <1>3, <1>4 DEF SampleInv, TypeOK, Sample, Stage
<1>8. Ordered(history', taken') /\ Ordered(disk', taken')
  <2>1. \A i \in 1..Len(disk) : disk[i] \in Nat
    BY <1>1, ElementOfSeq, ConnectivityAssumption DEF Sample
  <2> QED BY <1>1, <1>3, <1>5, <2>1 DEF Ordered
<1>9. CappedAndCurrent'
  <2>1. Len(history') <= maxHistory /\ Len(history') > 0
    BY <1>1, <1>2, <1>4, <1>6
  <2>2. LatestOf(history') = taken + 1
    BY <1>2, <1>4, <1>5, <2>1, LatestIsSample
  <2> QED BY <1>3, <2>1, <2>2 DEF CappedAndCurrent
<1>10. Saving' /\ SavedSurvivesRestart'
  BY <1>3 DEF Saving, SavedSurvivesRestart
<1>11. FileBehind'
  <2> SUFFICES ASSUME NEW old \in Range(disk), old \notin Range(history')
               PROVE  /\ Len(history') = maxHistory
                      /\ \A kept \in Range(history') : old < kept
    BY <1>3 DEF FileBehind
  <2>1. CASE old \in Range(history)
    BY <1>2, <1>5, <2>1
  <2>2. CASE old \notin Range(history)
    <3>1. Len(history) = maxHistory /\ \A kept \in Range(history) : old < kept
      BY <1>1, <2>2 DEF SampleInv, FileBehind
    <3>2. Len(history') = maxHistory
      BY <1>1, <1>2, <1>4, <3>1
    <3>3. old < taken + 1
      BY <1>1, <1>6
    <3> QED BY <1>2, <1>5, <3>1, <3>2, <3>3
  <2> QED BY <2>1, <2>2
<1> QED
  BY <1>1, <1>3, <1>7, <1>8, <1>9, <1>10, <1>11 DEF SampleInv

\* A start: the file's samples are taken over as far as the cap in force allows.
LEMMA BootStep == SampleInv /\ Boot => SampleInv'
<1> SUFFICES ASSUME SampleInv, Boot PROVE SampleInv'
  OBVIOUS
<1>1. PICK cfg \in Load(Files) :
        /\ maxHistory' = MaxHistory(cfg)
        /\ enabled' = cfg.probeEnabled
        /\ stored' = disk
        /\ history' = Capped(disk, MaxHistory(cfg))
        /\ latest' = LatestOf(history')
  BY DEF Boot, LoadStored
<1>2. pc' = "idle" /\ UNCHANGED <<taken, snapshot, failed, disk>>
  BY DEF Boot
<1>3. maxHistory' \in Nat /\ maxHistory' > 0 /\ enabled' \in BOOLEAN
  BY <1>1, CapIsPositive
<1>4. disk \in Seq(Sample) /\ taken \in Nat /\ Ordered(disk, taken)
  BY ConnectivityAssumption DEF SampleInv, TypeOK
<1>5. /\ history' \in Seq(Sample)
      /\ Len(history') <= maxHistory'
  BY <1>1, <1>3, <1>4, CappedIsEnd
<1>6. /\ Ordered(history', taken)
      /\ \A old \in Range(disk) \ Range(history') :
           Len(history') = maxHistory' /\ \A kept \in Range(history') : old < kept
  BY <1>1, <1>3, <1>4, CutOffIsOlder
<1>7. TypeOK'
  BY <1>1, <1>2, <1>3, <1>5, LatestIsSample DEF SampleInv, TypeOK, Stage
<1>8. CappedAndCurrent' /\ Saving' /\ SavedSurvivesRestart' /\ FileBehind'
  BY <1>1, <1>2, <1>5, <1>6 DEF CappedAndCurrent, Saving, SavedSurvivesRestart, FileBehind
<1> QED
  BY <1>2, <1>3, <1>4, <1>6, <1>7, <1>8 DEF SampleInv

\* The rename of a save: the file gets what memory holds.
LEMMA ReplaceFileStep == SampleInv /\ ReplaceFile => SampleInv'
<1> SUFFICES ASSUME SampleInv, ReplaceFile PROVE SampleInv'
  OBVIOUS
<1>1. /\ disk' = history /\ stored = history
      /\ failed' = FALSE /\ snapshot' = <<>> /\ pc' = "idle"
      /\ UNCHANGED <<maxHistory, enabled, taken, history, latest, stored>>
      /\ pc = "renaming"
  BY DEF SampleInv, ReplaceFile, Saving
<1>2. TypeOK'
  BY <1>1, EmptySeq DEF SampleInv, TypeOK, Stage
<1>3. Ordered(disk', taken') /\ Ordered(history', taken')
  BY <1>1 DEF SampleInv, Ordered
<1>4. CappedAndCurrent'
  BY <1>1 DEF SampleInv, CappedAndCurrent
<1>5. Saving' /\ FileBehind'
  BY <1>1 DEF Saving, FileBehind
<1>6. SavedSurvivesRestart'
  <2>1. Capped(history, maxHistory) = history
    BY CappedShort DEF SampleInv, TypeOK, CappedAndCurrent
  <2> QED BY <1>1, <2>1 DEF SavedSurvivesRestart
<1> QED
  BY <1>1, <1>2, <1>3, <1>4, <1>5, <1>6 DEF SampleInv

\* The process dies: memory is gone, the file is not.
LEMMA CrashStep == SampleInv /\ Crash => SampleInv'
<1> SUFFICES ASSUME SampleInv, Crash PROVE SampleInv'
  OBVIOUS
<1>1. /\ pc' = "down" /\ enabled' = FALSE
      /\ history' = <<>> /\ latest' = None
      /\ snapshot' = <<>> /\ stored' = <<>> /\ failed' = FALSE
      /\ UNCHANGED <<maxHistory, taken, disk>>
  BY DEF Crash
<1>2. TypeOK'
  <2>1. history' \in Seq(Sample) /\ snapshot' \in Seq(Sample) /\ stored' \in Seq(Sample)
    BY <1>1, EmptySeq
  <2>2. enabled' \in BOOLEAN /\ failed' \in BOOLEAN
    BY <1>1
  <2> QED BY <1>1, <2>1, <2>2 DEF SampleInv, TypeOK, Stage
<1>3. Ordered(history', taken') /\ Ordered(disk', taken')
  BY <1>1, EmptySeq DEF SampleInv, Ordered
<1>4. CappedAndCurrent'
  BY <1>1, EmptySeq DEF SampleInv, TypeOK, CappedAndCurrent
<1>5. Saving' /\ SavedSurvivesRestart' /\ FileBehind'
  BY <1>1 DEF Saving, SavedSurvivesRestart, FileBehind
<1> QED
  BY <1>1, <1>2, <1>3, <1>4, <1>5 DEF SampleInv

\* SampleInv is inductive; the steps that change no history are the easy ones.
LEMMA SampleInvStep == SampleInv /\ [Next]_vars => SampleInv'
<1> SUFFICES ASSUME SampleInv, [Next]_vars PROVE SampleInv'
  OBVIOUS
<1> USE DEF SampleInv, TypeOK, Stage, Ordered, CappedAndCurrent, Saving,
            SavedSurvivesRestart, FileBehind
<1>1. CASE BeginProbe
  BY <1>1 DEF BeginProbe
<1>2. CASE ReplaceStored
  BY <1>2 DEF ReplaceStored
<1>3. CASE WriteTemp
  BY <1>3 DEF WriteTemp
<1>4. CASE SaveFails
  <2>1. failed' = TRUE /\ snapshot' = <<>> /\ snapshot' \in Seq(Sample) /\ failed' \in BOOLEAN
    BY <1>4, EmptySeq DEF SaveFails
  <2> QED BY <1>4, <2>1 DEF SaveFails
<1>5. CASE UNCHANGED vars
  BY <1>5 DEF vars
<1> QED
  BY <1>1, <1>2, <1>3, <1>4, <1>5, BootStep, RecordSampleStep, ReplaceFileStep,
     CrashStep, Zenon DEF Next

\* The invariant holds throughout every behaviour.
THEOREM SampleInvariant == Spec => []SampleInv
<1>1. Init => SampleInv
  <2> SUFFICES ASSUME Init PROVE SampleInv
    OBVIOUS
  <2>1. TypeOK
    <3>1. history \in Seq(Sample) /\ snapshot \in Seq(Sample) /\ stored \in Seq(Sample)
          /\ disk \in Seq(Sample)
      BY EmptySeq DEF Init
    <3>2. enabled \in BOOLEAN /\ failed \in BOOLEAN
      BY DEF Init
    <3> QED BY <3>1, <3>2, ConnectivityAssumption DEF Init, TypeOK, Stage
  <2> QED
    BY <2>1, EmptySeq DEF Init, SampleInv, Ordered, CappedAndCurrent, Saving,
                          SavedSurvivesRestart, FileBehind
<1> QED
  BY <1>1, SampleInvStep, PTL DEF Spec

\* Type correctness.
THEOREM TypeCorrect == Spec => []TypeOK
BY SampleInvariant, PTL DEF SampleInv

\* A reader finds no more samples than the cap of the configuration in force, and as
\* the latest one the last of them, whatever configurations the node had before.
THEOREM HistoryCapped == Spec => []CappedAndCurrent
BY SampleInvariant, PTL DEF SampleInv

\* After a save that reported no error, a restart with the same configuration shows
\* what was shown before it.
THEOREM SavedSurvives == Spec => []SavedSurvivesRestart
BY SampleInvariant, PTL DEF SampleInv

\* No save, after any number of failed ones and restarts, takes anything from the
\* file but its oldest samples, and those only if the cap asks for it.
THEOREM SaveDropsOldest == Spec => DropsOnlyOldest
<1>1. SampleInv /\ [Next]_vars =>
        [LET lost == Range(disk) \ Range(disk')
         IN  /\ lost # {} => Len(disk') = maxHistory
             /\ \A old \in lost, kept \in Range(disk') : old < kept]_vars
  <2> SUFFICES ASSUME SampleInv, Next
               PROVE  LET lost == Range(disk) \ Range(disk')
                      IN  /\ lost # {} => Len(disk') = maxHistory
                          /\ \A old \in lost, kept \in Range(disk') : old < kept
    OBVIOUS
  <2>1. CASE ReplaceFile
    <3>1. disk' = history /\ pc # "down"
      BY <2>1 DEF ReplaceFile, SampleInv, Saving
    <3> QED BY <3>1 DEF SampleInv, FileBehind
  <2>2. CASE ~ReplaceFile
    <3>1. disk' = disk
      BY <2>2 DEF Next, Boot, BeginProbe, RecordSample, ReplaceStored, WriteTemp,
                  SaveFails, Crash
    <3> QED BY <3>1
  <2> QED BY <2>1, <2>2
<1> QED
  BY <1>1, SampleInvariant, PTL DEF Spec, DropsOnlyOldest
=============================================================================
