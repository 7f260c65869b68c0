------------------------- MODULE ClusterSyncProofs -------------------------
(***************************************************************************)
(* Proofs about ClusterSync, for any peers, any limits and any number of   *)
(* entries.                                                                *)
(***************************************************************************)
EXTENDS ClusterSync, SequenceTheorems, TLAPS

\* Entries of host h, in the order in which it recorded them, up to its n-th.
Own(s, h, n) ==
  /\ \A i \in 1..Len(s) : s[i][1] = h /\ s[i][2] \in 1..n
  /\ \A i, j \in 1..Len(s) : i < j => s[i][2] < s[j][2]

\* The first k entries shown are in the log after its first i, the others are not.
Placed(shown, l, k, i) ==
  /\ i + k <= Len(l)
  /\ \A m \in 1..k : shown[m] = l[i + m]
  /\ \A m \in (k + 1)..Len(shown) : shown[m] \notin Range(l)

Stretch(shown, l) ==
  \E k \in 0..Len(shown), i \in 0..Len(l) : Placed(shown, l, k, i)

\* No status, or an entry that host h has recorded.
StatusOf(status, h, n) ==
  status = None \/ (status \in Entry /\ status[1] = h /\ status[2] \in 1..n)

\* A status ahead of the history beside it is not in the log any more.
BeyondIsLost(c, l) ==
  c.status # None /\ (\A i \in 1..Len(c.history) : c.history[i][2] < c.status[2])
    => c.status \notin Range(l)

\* What can be said of a copy of a host whose log is l and whose n-th entry is its
\* latest.
CopyOf(c, h, l, n) == /\ c.history \in Seq(Entry)
                      /\ Own(c.history, h, n)
                      /\ Stretch(c.history, l)
                      /\ StatusOf(c.status, h, n)
                      /\ BeyondIsLost(c, l)

Hosts == /\ config \in PeerLists
         /\ log \in [Asked -> Seq(Entry)]
         /\ recorded \in [Asked -> Nat]
         /\ saved \in [Asked -> Nat]
         /\ \A h \in Asked : saved[h] <= Len(log[h]) /\ Own(log[h], h, recorded[h])

\* During a request the loop is at an enabled peer, whose host gave the status.
AtPeer == /\ turn \in Nat \ {0}
          /\ Fetching => turn \in EnabledPeers
          /\ stage = "history" => StatusOf(got, PeerHost, recorded[PeerHost])

Copies == /\ DOMAIN data = PeerID
          /\ \A p \in Enabled :
               \/ data[p] \in {Absent, Failed}
               \/ /\ IsCopy(data[p])
                  /\ \E h \in HostsOf(p) : CopyOf(data[p], h, log[h], recorded[h])

\* The inductive invariant.
SyncInv == Hosts /\ AtPeer /\ Copies

-----------------------------------------------------------------------------
(* Logs and what is shown of them.                                         *)

\* The entries of a log.
LEMMA EntriesOf ==
  ASSUME NEW s \in Seq(Entry)
  PROVE  /\ Len(s) \in Nat
         /\ \A i \in 1..Len(s) : s[i] \in Entry
         /\ \A e : e \in Range(s) <=> \E i \in 1..Len(s) : s[i] = e
BY LenProperties, ElementOfSeq DEF Range

\* A new entry is not among those shown.
LEMMA StretchAfterRecord ==
  ASSUME NEW shown \in Seq(Entry), NEW l \in Seq(Entry), NEW h \in Host, NEW n \in Nat,
         Own(shown, h, n), Stretch(shown, l)
  PROVE  Stretch(shown, Append(l, <<h, n + 1>>))
<1> DEFINE e == <<h, n + 1>>
           a == Append(l, e)
<1>1. e \in Entry /\ e[2] = n + 1
  BY DEF Entry
<1>2. /\ a \in Seq(Entry)
      /\ Len(a) = Len(l) + 1
      /\ \A i \in 1..Len(l) : a[i] = l[i]
      /\ a[Len(l) + 1] = e
  <2> HIDE DEF e
  <2> QED BY <1>1, AppendProperties
<1> HIDE DEF a, e
<1>3. Len(shown) \in Nat /\ Len(l) \in Nat
  BY EntriesOf
<1>4. PICK k \in 0..Len(shown), i \in 0..Len(l) : Placed(shown, l, k, i)
  BY DEF Stretch
<1>5. ASSUME NEW m \in 1..k PROVE shown[m] = a[i + m]
  <2>1. i + m \in 1..Len(l)
    BY <1>3, <1>4 DEF Placed
  <2> QED BY <1>2, <1>4, <2>1 DEF Placed
<1>6. ASSUME NEW m \in (k + 1)..Len(shown) PROVE shown[m] \notin Range(a)
  <2> SUFFICES ASSUME NEW j \in 1..Len(a), a[j] = shown[m] PROVE FALSE
    BY <1>2, EntriesOf
  <2>1. m \in 1..Len(shown) /\ shown[m][2] \in 1..n
    BY <1>3 DEF Own
  <2>2. j # Len(l) + 1
    BY <1>1, <1>2, <2>1
  <2>3. j \in 1..Len(l)
    BY <1>2, <1>3, <2>2
  <2> QED BY <1>2, <1>4, <2>3, EntriesOf DEF Placed
<1>7. i \in 0..Len(a) /\ i + k <= Len(a)
  BY <1>2, <1>3, <1>4 DEF Placed
<1> QED
  BY <1>4, <1>5, <1>6, <1>7 DEF Stretch, Placed, a, e

\* A host that restarts loses the end of its log: of the entries shown, too, it
\* keeps the first ones.
LEMMA StretchAfterRestart ==
  ASSUME NEW shown \in Seq(Entry), NEW l \in Seq(Entry), NEW h \in Host, NEW n \in Nat,
         Own(l, h, n), Stretch(shown, l), NEW s \in 0..Len(l)
  PROVE  Stretch(shown, SubSeq(l, 1, s))
<1> DEFINE r == SubSeq(l, 1, s)
<1>1. Len(shown) \in Nat /\ Len(l) \in Nat /\ \A i \in 1..Len(l) : l[i] \in Entry
  BY EntriesOf
<1>2. /\ r \in Seq(Entry)
      /\ Len(r) = s
      /\ \A i \in 1..s : r[i] = l[i]
  <2>1. \A i \in 1..s : l[i] \in Entry
    BY <1>1
  <2> QED BY <1>1, <2>1, SubSeqProperties
<1> HIDE DEF r
<1>3. PICK k \in 0..Len(shown), i \in 0..Len(l) : Placed(shown, l, k, i)
  BY DEF Stretch
<1>4. ASSUME NEW m \in 1..Len(shown), shown[m] \in Range(r)
      PROVE  m <= k /\ i + m <= s
  <2>1. PICK j \in 1..s : l[j] = shown[m]
    BY <1>2, <1>4, EntriesOf
  <2>2. j \in 1..Len(l) /\ shown[m] \in Range(l)
    BY <1>1, <2>1, EntriesOf
  <2>3. m <= k
    BY <1>1, <1>3, <2>2 DEF Placed
  <2>4. i + m \in 1..Len(l) /\ shown[m] = l[i + m]
    BY <1>1, <1>3, <2>3 DEF Placed
  <2>5. i + m = j
    <3>1. l[j][2] = l[i + m][2] /\ l[j][2] \in Nat
      BY <1>1, <2>1, <2>2, <2>4 DEF Entry
    <3>2. ~(j < i + m) /\ ~(i + m < j)
      BY <2>2, <2>4, <3>1 DEF Own
    <3> QED BY <2>4, <3>2
  <2> QED BY <2>3, <2>5
<1>5. CASE i >= s
  <2>1. \A m \in 1..Len(shown) : shown[m] \notin Range(r)
    BY <1>1, <1>4, <1>5
  <2>2. Placed(shown, r, 0, 0)
    BY <1>2, <2>1 DEF Placed
  <2> QED BY <1>1, <1>2, <2>2 DEF Stretch, r
<1>6. CASE i < s
  <2> DEFINE t == IF k <= s - i THEN k ELSE s - i
  <2>1. t \in 0..Len(shown) /\ i \in 0..Len(r) /\ i + t <= Len(r) /\ t <= k
    BY <1>1, <1>2, <1>6
  <2>2. ASSUME NEW m \in 1..t PROVE shown[m] = r[i + m]
    <3>1. i + m \in 1..s /\ m \in 1..k
      BY <1>1, <1>6
    <3> QED BY <1>2, <1>3, <3>1 DEF Placed
  <2>3. ASSUME NEW m \in (t + 1)..Len(shown) PROVE shown[m] \notin Range(r)
    <3>1. m \in 1..Len(shown) /\ ~(m <= k /\ i + m <= s)
      BY <1>1, <1>6
    <3> QED BY <1>4, <3>1
  <2>4. Placed(shown, r, t, i)
    BY <2>1, <2>2, <2>3 DEF Placed
  <2> HIDE DEF t
  <2> QED BY <2>1, <2>4 DEF Stretch, r
<1> QED
  BY <1>1, <1>5, <1>6

\* A status that was lost stays lost: a number is given out once.
LEMMA LostStaysLost ==
  ASSUME NEW l \in Seq(Entry), NEW h \in Host, NEW n \in Nat,
         NEW e \in Entry, e[2] \in 1..n, e \notin Range(l)
  PROVE  e \notin Range(Append(l, <<h, n + 1>>))
<1> DEFINE new == <<h, n + 1>>
<1>1. new \in Entry /\ new[2] = n + 1 /\ e # new
  BY DEF Entry
<1> HIDE DEF new
<1>2. /\ Append(l, new) \in Seq(Entry)
      /\ Len(Append(l, new)) = Len(l) + 1
      /\ \A i \in 1..Len(l) : Append(l, new)[i] = l[i]
      /\ Append(l, new)[Len(l) + 1] = new
  BY <1>1, AppendProperties
<1>3. ASSUME NEW i \in 1..Len(Append(l, new)) PROVE Append(l, new)[i] # e
  <2>1. i \in 1..Len(l) \/ i = Len(l) + 1
    BY <1>2, EntriesOf
  <2> QED BY <1>1, <1>2, <2>1, EntriesOf
<1>4. e \notin Range(Append(l, new))
  BY <1>2, <1>3, EntriesOf
<1> QED BY <1>4 DEF new

\* A restart brings nothing back.
LEMMA RestartBringsNothing ==
  ASSUME NEW l \in Seq(Entry), NEW s \in 0..Len(l)
  PROVE  /\ SubSeq(l, 1, s) \in Seq(Entry)
         /\ Len(SubSeq(l, 1, s)) = s
         /\ \A i \in 1..s : SubSeq(l, 1, s)[i] = l[i]
         /\ Range(SubSeq(l, 1, s)) \subseteq Range(l)
<1> DEFINE r == SubSeq(l, 1, s)
<1>1. Len(l) \in Nat /\ \A i \in 1..Len(l) : l[i] \in Entry
  BY EntriesOf
<1>2. /\ r \in Seq(Entry)
      /\ Len(r) = s
      /\ \A i \in 1..s : r[i] = l[i]
  <2>1. \A i \in 1..s : l[i] \in Entry
    BY <1>1
  <2> QED BY <1>1, <2>1, SubSeqProperties
<1> HIDE DEF r
<1>3. ASSUME NEW e \in Range(r) PROVE e \in Range(l)
  <2>1. PICK i \in 1..s : r[i] = e
    BY <1>2, EntriesOf
  <2> QED BY <1>1, <1>2, <2>1, EntriesOf
<1> QED BY <1>2, <1>3 DEF r

\* What a host does to its log.
LogStep(l, k, new, m, h) ==
  \/ new = l /\ m = k
  \/ new = Append(l, <<h, k + 1>>) /\ m = k + 1
  \/ \E s \in 0..Len(l) : new = SubSeq(l, 1, s) /\ m = k

\* Whatever a host does, its log is in order.
LEMMA OwnLogStep ==
  ASSUME NEW l \in Seq(Entry), NEW h \in Host, NEW n \in Nat, Own(l, h, n),
         NEW new, NEW m, LogStep(l, n, new, m, h)
  PROVE  new \in Seq(Entry) /\ m \in Nat /\ m >= n /\ Own(new, h, m)
<1>1. Len(l) \in Nat /\ \A i \in 1..Len(l) : l[i] \in Entry
  BY EntriesOf
<1>2. CASE new = l /\ m = n
  BY <1>2
<1>3. CASE new = Append(l, <<h, n + 1>>) /\ m = n + 1
  <2> DEFINE e == <<h, n + 1>>
  <2>1. e \in Entry /\ e[1] = h /\ e[2] = n + 1
    BY DEF Entry
  <2> HIDE DEF e
  <2>2. /\ new \in Seq(Entry) /\ Len(new) = Len(l) + 1
        /\ \A i \in 1..Len(l) : new[i] = l[i]
        /\ new[Len(l) + 1] = e
    BY <1>3, <2>1, AppendProperties DEF e
  <2>3. \A i \in 1..Len(new) : i \in 1..Len(l) \/ i = Len(l) + 1
    BY <1>1, <2>2
  <2>4. ASSUME NEW i \in 1..Len(new) PROVE new[i][1] = h /\ new[i][2] \in 1..m
    BY <1>3, <2>1, <2>2, <2>3 DEF Own
  <2>5. ASSUME NEW i \in 1..Len(new), NEW j \in 1..Len(new), i < j
        PROVE  new[i][2] < new[j][2]
    <3>1. i \in 1..Len(l)
      BY <1>1, <2>2, <2>5
    <3>2. new[i] = l[i] /\ l[i][2] \in 1..n
      BY <2>2, <3>1 DEF Own
    <3> QED BY <2>1, <2>2, <2>3, <2>5, <3>1, <3>2 DEF Own
  <2> QED BY <1>3, <2>2, <2>4, <2>5 DEF Own
<1>4. ASSUME NEW s \in 0..Len(l), new = SubSeq(l, 1, s), m = n
      PROVE  new \in Seq(Entry) /\ m \in Nat /\ m >= n /\ Own(new, h, m)
  <2>1. /\ new \in Seq(Entry) /\ Len(new) = s
        /\ \A i \in 1..s : new[i] = l[i]
    BY <1>4, RestartBringsNothing
  <2>2. \A i \in 1..s : i \in 1..Len(l)
    BY <1>1
  <2> QED BY <1>4, <2>1, <2>2 DEF Own
<1> QED
  BY <1>2, <1>3, <1>4 DEF LogStep

\* And a copy of it stays what it is, a stretch of what the log was.
LEMMA CopyLogStep ==
  ASSUME NEW l \in Seq(Entry), NEW h \in Host, NEW n \in Nat, Own(l, h, n),
         NEW new, NEW m, LogStep(l, n, new, m, h),
         NEW c, CopyOf(c, h, l, n)
  PROVE  CopyOf(c, h, new, m)
<1>1. m \in Nat /\ m >= n
  BY OwnLogStep
<1>2. Own(c.history, h, m)
  BY <1>1, EntriesOf DEF CopyOf, Own
<1>3. StatusOf(c.status, h, m)
  BY <1>1 DEF CopyOf, StatusOf
<1>4. Stretch(c.history, new)
  BY StretchAfterRecord, StretchAfterRestart DEF CopyOf, LogStep
<1>5. BeyondIsLost(c, new)
  <2> SUFFICES ASSUME c.status # None, c.status \notin Range(l)
               PROVE  c.status \notin Range(new)
    BY DEF CopyOf, BeyondIsLost
  <2>1. c.status \in Entry /\ c.status[2] \in 1..n
    BY DEF CopyOf, StatusOf
  <2> QED BY <2>1, LostStaysLost, RestartBringsNothing DEF LogStep
<1> QED
  BY <1>2, <1>3, <1>4, <1>5 DEF CopyOf

-----------------------------------------------------------------------------
(* What a fetch brings.                                                    *)

\* c is the end of s, and not empty unless s is.
EndOf(c, s) == /\ c \in Seq(Entry)
               /\ Len(c) <= Len(s)
               /\ Len(s) > 0 => Len(c) > 0
               /\ \A i \in 1..Len(c) : c[i] = s[i + (Len(s) - Len(c))]

\* The last n entries of a log.
LEMMA LastNIsEnd ==
  ASSUME NEW s \in Seq(Entry), NEW n \in Nat \ {0}, n <= Len(s)
  PROVE  EndOf(LastN(s, n), s)
<1> DEFINE m == Len(s) - n + 1
           c == SubSeq(s, m, Len(s))
<1>1. Len(s) \in Nat /\ \A i \in 1..Len(s) : s[i] \in Entry
  BY EntriesOf
<1>2. m \in Int /\ m >= 1 /\ m <= Len(s) /\ \A i \in m..Len(s) : s[i] \in Entry
  BY <1>1
<1>3. /\ c \in Seq(Entry)
      /\ Len(c) = Len(s) - m + 1
      /\ \A i \in 1..(Len(s) - m + 1) : c[i] = s[m + i - 1]
  <2> HIDE DEF m
  <2> QED BY <1>1, <1>2, SubSeqProperties
<1> HIDE DEF c
<1>4. Len(c) = n
  BY <1>1, <1>3
<1>5. \A i \in 1..n : c[i] = s[i + (Len(s) - n)]
  <2> SUFFICES ASSUME NEW i \in 1..n PROVE c[i] = s[i + (Len(s) - n)]
    OBVIOUS
  <2>1. m + i - 1 = i + (Len(s) - n) /\ Len(s) - m + 1 = n
    BY <1>1
  <2> QED BY <1>3, <2>1
<1>6. EndOf(c, s)
  BY <1>3, <1>4, <1>5 DEF EndOf
<1> QED
  BY <1>6 DEF LastN, c

\* A log is its own end.
LEMMA WholeIsEnd ==
  ASSUME NEW s \in Seq(Entry)
  PROVE  EndOf(s, s)
<1>1. Len(s) \in Nat
  BY EntriesOf
<1>2. \A i \in 1..Len(s) : i + (Len(s) - Len(s)) = i
  BY <1>1
<1> QED
  BY <1>1, <1>2 DEF EndOf

\* The end of an end.
LEMMA EndOfEnd ==
  ASSUME NEW s \in Seq(Entry), NEW c, NEW b, EndOf(c, s), EndOf(b, c)
  PROVE  EndOf(b, s)
<1>1. Len(s) \in Nat /\ Len(c) \in Nat /\ Len(b) \in Nat /\ b \in Seq(Entry)
  BY EntriesOf DEF EndOf
<1>2. ASSUME NEW i \in 1..Len(b) PROVE b[i] = s[i + (Len(s) - Len(b))]
  <2> DEFINE j == i + (Len(c) - Len(b))
  <2>1. b[i] = c[j]
    BY DEF EndOf
  <2>2. j \in 1..Len(c)
    BY <1>1 DEF EndOf
  <2>3. j + (Len(s) - Len(c)) = i + (Len(s) - Len(b))
    BY <1>1
  <2> HIDE DEF j
  <2>4. c[j] = s[j + (Len(s) - Len(c))]
    BY <2>2 DEF EndOf
  <2> QED BY <2>1, <2>3, <2>4
<1> QED
  BY <1>1, <1>2 DEF EndOf

\* What is kept of a peer's answer is the end of its log: the two limits cut off
\* the oldest entries, and never all.
LEMMA FetchedIsEnd ==
  ASSUME NEW h, log[h] \in Seq(Entry)
  PROVE  EndOf(CapHistory(NodeHistory(h, HistoryCap)), log[h])
<1> DEFINE n == ParseLimit(HistoryCap)
           a == NodeHistory(h, HistoryCap)
<1>1. n \in Nat \ {0} /\ HistoryCap \in Nat \ {0} /\ Len(log[h]) \in Nat
  BY SyncAssumption, EntriesOf DEF ParseLimit
<1>2. EndOf(a, log[h])
  <2>1. CASE Len(log[h]) > n
    <3>1. a = LastN(log[h], n)
      BY <2>1 DEF NodeHistory
    <3> HIDE DEF n, a
    <3>2. n <= Len(log[h])
      BY <1>1, <2>1
    <3> QED BY <1>1, <3>1, <3>2, LastNIsEnd
  <2>2. CASE ~(Len(log[h]) > n)
    <3>1. a = log[h]
      BY <2>2 DEF NodeHistory
    <3> QED BY <3>1, WholeIsEnd
  <2> QED BY <2>1, <2>2
<1> HIDE DEF a
<1>3. a \in Seq(Entry) /\ Len(a) \in Nat
  BY <1>2, EntriesOf DEF EndOf
<1>4. EndOf(CapHistory(a), a)
  BY <1>1, <1>3, WholeIsEnd, LastNIsEnd DEF CapHistory
<1>5. EndOf(CapHistory(a), log[h])
  BY <1>2, <1>4, EndOfEnd
<1> QED
  BY <1>5 DEF a

\* With a status that the host gave before, the end of its log is a copy of it.
LEMMA EndIsCopy ==
  ASSUME NEW l \in Seq(Entry), NEW h \in Host, NEW n \in Nat, Own(l, h, n),
         NEW c, EndOf(c, l), NEW status, StatusOf(status, h, n)
  PROVE  CopyOf(Copy(status, c), h, l, n)
<1> DEFINE d == Len(l) - Len(c)
<1>1. Len(l) \in Nat /\ Len(c) \in Nat /\ c \in Seq(Entry) /\ d \in 0..Len(l)
  BY EntriesOf DEF EndOf
<1>2. \A i \in 1..Len(c) : i + d \in 1..Len(l)
  BY <1>1
<1>3. \A i \in 1..Len(c) : c[i] = l[i + d]
  BY DEF EndOf
<1>4. Own(c, h, n)
  <2>1. ASSUME NEW i \in 1..Len(c), NEW j \in 1..Len(c), i < j PROVE c[i][2] < c[j][2]
    <3>1. i + d < j + d
      BY <1>1, <2>1
    <3> QED BY <1>2, <1>3, <3>1 DEF Own
  <2>2. \A i \in 1..Len(c) : c[i][1] = h /\ c[i][2] \in 1..n
    BY <1>2, <1>3 DEF Own
  <2> QED BY <2>1, <2>2 DEF Own
<1>5. Stretch(c, l)
  <2>1. ASSUME NEW i \in 1..Len(c) PROVE c[i] = l[d + i]
    <3>1. d + i = i + d
      BY <1>1
    <3> QED BY <1>3, <3>1
  <2>2. d + Len(c) <= Len(l) /\ Len(c) \in 0..Len(c) /\ (Len(c) + 1)..Len(c) = {}
    BY <1>1
  <2> HIDE DEF d
  <2>3. Placed(c, l, Len(c), d)
    BY <2>1, <2>2 DEF Placed
  <2> QED BY <1>1, <2>2, <2>3 DEF Stretch
<1>6. BeyondIsLost(Copy(status, c), l)
  <2> SUFFICES ASSUME status \in Range(l), \A i \in 1..Len(c) : c[i][2] < status[2]
               PROVE  FALSE
    BY DEF BeyondIsLost, Copy
  <2>1. PICK j \in 1..Len(l) : l[j] = status
    BY EntriesOf
  <2>2. Len(c) > 0 /\ Len(c) \in 1..Len(c) /\ Len(c) + d = Len(l)
    BY <1>1, <2>1 DEF EndOf
  <2>3. c[Len(c)] = l[Len(l)]
    BY <1>3, <2>2
  <2>4. j = Len(l) \/ j < Len(l)
    BY <1>1
  <2>5. l[j][2] <= l[Len(l)][2] /\ l[j][2] \in Nat /\ l[Len(l)][2] \in Nat
    BY <1>1, <2>1, <2>4 DEF Own
  <2> QED BY <2>1, <2>2, <2>3, <2>5
<1> QED
  BY <1>1, <1>4, <1>5, <1>6 DEF CopyOf, Copy

-----------------------------------------------------------------------------
(* The inductive invariant.                                                *)

\* Where the peers of a list are.
LEMMA PeersOf ==
  ASSUME config \in PeerLists
  PROVE  /\ Len(config) \in Nat
         /\ \A i \in EnabledPeers : /\ i \in 1..Len(config)
                                    /\ config[i].id \in Enabled
                                    /\ config[i].host \in HostsOf(config[i].id)
                                    /\ config[i].host \in Asked
         /\ \A p \in Enabled : p \in PeerID /\ HostsOf(p) \subseteq Asked
         /\ Asked \subseteq Host
<1>1. config \in Seq([id : PeerID, host : Host, enabled : BOOLEAN])
  BY SyncAssumption
<1>2. /\ Len(config) \in Nat
      /\ \A i \in 1..Len(config) : config[i].id \in PeerID /\ config[i].host \in Host
  <2>1. \A i \in 1..Len(config) : config[i] \in [id : PeerID, host : Host, enabled : BOOLEAN]
    BY <1>1, ElementOfSeq
  <2> QED BY <1>1, <2>1, LenProperties
<1>3. ASSUME NEW i \in EnabledPeers
      PROVE  /\ i \in 1..Len(config)
             /\ config[i].id \in Enabled
             /\ config[i].host \in HostsOf(config[i].id)
             /\ config[i].host \in Asked
  <2>1. i \in 1..Len(config) /\ config[i].id \in Enabled
    BY DEF EnabledPeers, Enabled
  <2>2. config[i].host \in HostsOf(config[i].id)
    BY DEF HostsOf
  <2> QED BY <2>1, <2>2 DEF Asked
<1>4. \A p \in Enabled : p \in PeerID /\ HostsOf(p) \subseteq Asked
  BY <1>2 DEF Enabled, EnabledPeers, Asked
<1>5. Asked \subseteq Host
  BY <1>2 DEF Asked, HostsOf, EnabledPeers
<1> QED
  BY <1>2, <1>3, <1>4, <1>5

\* What is enabled, and where, depends on the configuration alone.
LEMMA SameConfig ==
  ASSUME config' = config
  PROVE  /\ Asked' = Asked /\ Enabled' = Enabled /\ EnabledPeers' = EnabledPeers
         /\ \A p : HostsOf(p)' = HostsOf(p)
BY DEF Asked, Enabled, EnabledPeers, HostsOf

\* A step of a host is one of its log.
LEMMA HostLogStep ==
  ASSUME Hosts, NEW h \in Asked, PeerStep(h)
  PROVE  /\ UNCHANGED <<config, stage, turn, got, data, cancelled>>
         /\ log' \in [Asked -> Seq(Entry)] /\ recorded' \in [Asked -> Nat]
         /\ saved' \in [Asked -> Nat]
         /\ \A g \in Asked : /\ LogStep(log[g], recorded[g], log'[g], recorded'[g], g)
                             /\ saved'[g] <= Len(log'[g])
<1>1. /\ log \in [Asked -> Seq(Entry)] /\ recorded \in [Asked -> Nat]
      /\ saved \in [Asked -> Nat] /\ h \in Host
      /\ \A g \in Asked : Len(log[g]) \in Nat /\ saved[g] \in 0..Len(log[g])
  <2>1. log \in [Asked -> Seq(Entry)] /\ recorded \in [Asked -> Nat] /\ saved \in [Asked -> Nat]
    BY DEF Hosts
  <2>2. \A g \in Asked : Len(log[g]) \in Nat
    BY <2>1, LenProperties
  <2> QED BY <2>1, <2>2, PeersOf DEF Hosts
<1>2. CASE PeerRecords(h)
  <2> DEFINE e == <<h, recorded[h] + 1>>
  <2>1. e \in Entry
    BY <1>1 DEF Entry
  <2>2. Append(log[h], e) \in Seq(Entry) /\ Len(Append(log[h], e)) = Len(log[h]) + 1
    <3> HIDE DEF e
    <3> QED BY <1>1, <2>1, AppendProperties
  <2>3. /\ log' = [log EXCEPT ![h] = Append(log[h], e)]
        /\ recorded' = [recorded EXCEPT ![h] = recorded[h] + 1]
        /\ UNCHANGED <<config, saved, stage, turn, got, data, cancelled>>
    BY <1>2 DEF PeerRecords
  <2>4. /\ log'[h] = Append(log[h], e) /\ recorded'[h] = recorded[h] + 1
        /\ \A g \in Asked \ {h} : log'[g] = log[g] /\ recorded'[g] = recorded[g]
    BY <1>1, <2>3
  <2>5. log' \in [Asked -> Seq(Entry)] /\ recorded' \in [Asked -> Nat]
    <3> HIDE DEF e
    <3> QED BY <1>1, <2>2, <2>3
  <2>6. ASSUME NEW g \in Asked
        PROVE  /\ LogStep(log[g], recorded[g], log'[g], recorded'[g], g)
               /\ saved'[g] <= Len(log'[g])
    <3>1. CASE g = h
      BY <1>1, <2>2, <2>3, <2>4, <3>1 DEF LogStep
    <3>2. CASE g # h
      BY <1>1, <2>3, <2>4, <3>2 DEF LogStep
    <3> QED BY <3>1, <3>2
  <2> QED BY <1>1, <2>3, <2>5, <2>6
<1>3. CASE PeerSaves(h)
  BY <1>1, <1>3 DEF PeerSaves, LogStep
<1>4. CASE PeerRestarts(h)
  <2>1. /\ SubSeq(log[h], 1, saved[h]) \in Seq(Entry)
        /\ Len(SubSeq(log[h], 1, saved[h])) = saved[h]
    BY <1>1, RestartBringsNothing
  <2>2. /\ log' = [log EXCEPT ![h] = SubSeq(log[h], 1, saved[h])]
        /\ UNCHANGED <<config, saved, recorded, stage, turn, got, data, cancelled>>
    BY <1>4 DEF PeerRestarts
  <2>3. /\ log'[h] = SubSeq(log[h], 1, saved[h])
        /\ \A g \in Asked \ {h} : log'[g] = log[g]
    BY <1>1, <2>2
  <2>4. log' \in [Asked -> Seq(Entry)]
    BY <1>1, <2>1, <2>2
  <2>5. ASSUME NEW g \in Asked
        PROVE  /\ LogStep(log[g], recorded[g], log'[g], recorded'[g], g)
               /\ saved'[g] <= Len(log'[g])
    <3>1. CASE g = h
      BY <1>1, <2>1, <2>2, <2>3, <3>1 DEF LogStep
    <3>2. CASE g # h
      BY <1>1, <2>2, <2>3, <3>2 DEF LogStep
    <3> QED BY <3>1, <3>2
  <2> QED BY <1>1, <2>2, <2>4, <2>5
<1>5. CASE LinkChanges(h)
  BY <1>1, <1>5 DEF LinkChanges, LogStep
<1> QED
  BY <1>2, <1>3, <1>4, <1>5 DEF PeerStep

\* Whatever a host does, what was fetched of it stays a copy.
LEMMA PeerStepKeeps ==
  ASSUME SyncInv, NEW h \in Asked, PeerStep(h)
  PROVE  SyncInv'
<1>1. /\ UNCHANGED <<config, stage, turn, got, data, cancelled>>
      /\ log' \in [Asked -> Seq(Entry)] /\ recorded' \in [Asked -> Nat]
      /\ saved' \in [Asked -> Nat]
      /\ \A g \in Asked : /\ LogStep(log[g], recorded[g], log'[g], recorded'[g], g)
                          /\ saved'[g] <= Len(log'[g])
  BY HostLogStep DEF SyncInv
<1>2. /\ Asked' = Asked /\ Enabled' = Enabled /\ EnabledPeers' = EnabledPeers
      /\ \A p : HostsOf(p)' = HostsOf(p)
  BY <1>1, SameConfig
<1>3. ASSUME NEW g \in Asked
      PROVE  /\ g \in Host /\ log[g] \in Seq(Entry) /\ recorded[g] \in Nat
             /\ Own(log[g], g, recorded[g])
             /\ recorded'[g] \in Nat /\ recorded'[g] >= recorded[g]
             /\ Own(log'[g], g, recorded'[g])
  <2>1. /\ g \in Host /\ log[g] \in Seq(Entry) /\ recorded[g] \in Nat
        /\ Own(log[g], g, recorded[g])
    BY PeersOf DEF SyncInv, Hosts
  <2> QED BY <1>1, <2>1, OwnLogStep
<1>4. Hosts'
  BY <1>1, <1>2, <1>3 DEF SyncInv, Hosts
<1>5. AtPeer'
  <2>1. turn' \in Nat \ {0} /\ (Fetching' => turn' \in EnabledPeers')
    BY <1>1, <1>2 DEF SyncInv, AtPeer, Fetching
  <2>2. ASSUME stage' = "history" PROVE StatusOf(got', PeerHost', recorded'[PeerHost'])
    <3>1. PeerHost' = PeerHost /\ StatusOf(got, PeerHost, recorded[PeerHost])
      BY <1>1, <2>2 DEF SyncInv, AtPeer, PeerHost
    <3>2. PeerHost \in Asked
      BY <1>1, <2>2, PeersOf DEF SyncInv, Hosts, AtPeer, Fetching, PeerHost
    <3>3. /\ recorded[PeerHost] \in Nat /\ recorded'[PeerHost] \in Nat
          /\ recorded'[PeerHost] >= recorded[PeerHost]
      BY <1>3, <3>2
    <3> QED BY <1>1, <3>1, <3>3 DEF StatusOf
  <2> QED BY <2>1, <2>2 DEF AtPeer
<1>6. Copies'
  <2> SUFFICES ASSUME NEW p \in Enabled, data[p] \notin {Absent, Failed}
               PROVE  /\ IsCopy(data[p])
                      /\ \E g \in HostsOf(p) : CopyOf(data[p], g, log'[g], recorded'[g])
    BY <1>1, <1>2 DEF SyncInv, Copies
  <2>1. PICK g \in HostsOf(p) : IsCopy(data[p]) /\ CopyOf(data[p], g, log[g], recorded[g])
    BY DEF SyncInv, Copies
  <2>2. g \in Asked
    BY PeersOf DEF SyncInv, Hosts
  <2>3. CopyOf(data[p], g, log'[g], recorded'[g])
    BY <1>1, <1>3, <2>1, <2>2, CopyLogStep
  <2> QED BY <2>1, <2>3
<1> QED
  BY <1>4, <1>5, <1>6 DEF SyncInv

\* The latest entry is one that the host recorded.
LEMMA StatusIsOwn ==
  ASSUME NEW h, log[h] \in Seq(Entry), NEW n \in Nat, Own(log[h], h, n)
  PROVE  StatusOf(NodeStatus(h), h, n)
<1>1. CASE log[h] = <<>>
  BY <1>1 DEF NodeStatus, StatusOf
<1>2. CASE log[h] # <<>>
  <2>1. Len(log[h]) \in Nat /\ Len(log[h]) # 0
    BY <1>2, LenProperties, EmptySeq
  <2>2. Len(log[h]) \in 1..Len(log[h]) /\ NodeStatus(h) = log[h][Len(log[h])]
    BY <1>2, <2>1 DEF NodeStatus, Last
  <2> QED BY <2>2, EntriesOf DEF StatusOf, Own
<1> QED
  BY <1>1, <1>2

\* The loop does nothing to the peers: its state is that of the request and the data.
LEMMA LoopKeeps ==
  ASSUME SyncInv, UNCHANGED peers, AtPeer',
         \/ UNCHANGED data
         \/ \E d \in {Absent, Failed} : data' = [data EXCEPT ![Peer] = d]
         \/ \E c : /\ data' = [data EXCEPT ![Peer] = c]
                   /\ IsCopy(c)
                   /\ PeerHost \in HostsOf(Peer)
                   /\ CopyOf(c, PeerHost, log[PeerHost], recorded[PeerHost])
  PROVE  SyncInv'
<1>1. /\ Asked' = Asked /\ Enabled' = Enabled
      /\ \A p : HostsOf(p)' = HostsOf(p)
  BY SameConfig DEF peers
<1>2. Hosts'
  BY <1>1 DEF SyncInv, Hosts, peers
<1>3. DOMAIN data' = PeerID
  BY DEF SyncInv, Copies
<1>4. ASSUME NEW p \in Enabled
      PROVE  \/ data'[p] \in {Absent, Failed}
             \/ /\ IsCopy(data'[p])
                /\ \E h \in HostsOf(p) : CopyOf(data'[p], h, log[h], recorded[h])
  <2>1. p \in DOMAIN data
    BY PeersOf DEF SyncInv, Hosts, Copies
  <2>2. CASE data'[p] = data[p]
    BY <2>2 DEF SyncInv, Copies
  <2>3. CASE data'[p] # data[p]
    <3>1. p = Peer
      BY <2>1, <2>3
    <3> QED BY <2>1, <2>3, <3>1
  <2> QED BY <2>2, <2>3
<1>5. Copies'
  BY <1>1, <1>3, <1>4 DEF Copies, peers
<1> QED
  BY <1>2, <1>5 DEF SyncInv

\* The loop keeps the invariant.
LEMMA LoopStepKeeps ==
  ASSUME SyncInv, Loop \/ Stop
  PROVE  SyncInv'
<1>1. /\ turn \in Nat \ {0} /\ turn + 1 \in Nat \ {0} /\ Len(config) \in Nat
      /\ config \in PeerLists
  BY PeersOf DEF SyncInv, Hosts, AtPeer
<1>2. ASSUME Fetching
      PROVE  /\ Peer \in PeerID /\ PeerHost \in HostsOf(Peer)
             /\ log[PeerHost] \in Seq(Entry) /\ recorded[PeerHost] \in Nat
             /\ PeerHost \in Host
             /\ Own(log[PeerHost], PeerHost, recorded[PeerHost])
  <2>1. turn \in EnabledPeers
    BY <1>2 DEF SyncInv, AtPeer
  <2>2. Peer \in PeerID /\ PeerHost \in HostsOf(Peer) /\ PeerHost \in Asked /\ PeerHost \in Host
    BY <1>1, <2>1, PeersOf DEF Peer, PeerHost
  <2> QED BY <2>2 DEF SyncInv, Hosts
<1>3. CASE NextPeer
  <2>1. UNCHANGED peers /\ UNCHANGED data
    BY <1>3 DEF NextPeer
  <2>2. turn' \in Nat \ {0} /\ stage' # "history"
    BY <1>1, <1>3 DEF NextPeer
  <2>3. Fetching' => turn' \in EnabledPeers'
    <3>1. ASSUME Fetching' PROVE turn \in 1..Len(config) /\ config[turn].enabled /\ turn' = turn
      BY <1>1, <1>3, <3>1 DEF NextPeer, Fetching
    <3> QED BY <2>1, <3>1, SameConfig DEF EnabledPeers, peers
  <2>4. AtPeer'
    BY <2>2, <2>3 DEF AtPeer
  <2> QED BY <2>1, <2>4, LoopKeeps
<1>4. CASE StatusArrives
  <2>1. /\ UNCHANGED peers /\ UNCHANGED <<turn, data>> /\ Fetching
        /\ got' = NodeStatus(PeerHost)
    BY <1>4 DEF StatusArrives, Fetching
  <2>2. StatusOf(got', PeerHost', recorded'[PeerHost'])
    BY <1>2, <2>1, StatusIsOwn DEF PeerHost, peers
  <2>3. AtPeer'
    BY <2>1, <2>2, SameConfig DEF SyncInv, AtPeer, peers
  <2> QED BY <2>1, <2>3, LoopKeeps
<1>5. CASE HistoryArrives
  <2> DEFINE end == CapHistory(NodeHistory(PeerHost, HistoryCap))
  <2>1. UNCHANGED peers /\ Fetching /\ stage = "history" /\ stage' = "next" /\ turn' = turn + 1
    BY <1>5 DEF HistoryArrives, Fetching
  <2>2. data' = [data EXCEPT ![Peer] = Copy(got, end)]
    BY <1>5 DEF HistoryArrives
  <2>3. EndOf(end, log[PeerHost]) /\ StatusOf(got, PeerHost, recorded[PeerHost])
    BY <1>2, <2>1, FetchedIsEnd DEF SyncInv, AtPeer
  <2> HIDE DEF end
  <2>4. CopyOf(Copy(got, end), PeerHost, log[PeerHost], recorded[PeerHost])
    BY <1>2, <2>1, <2>3, EndIsCopy
  <2>5. IsCopy(Copy(got, end))
    BY DEF IsCopy, Copy
  <2>6. AtPeer'
    BY <1>1, <2>1 DEF AtPeer, Fetching
  <2> QED BY <1>2, <2>1, <2>2, <2>4, <2>5, <2>6, LoopKeeps
<1>6. CASE RequestFails
  <2>1. /\ UNCHANGED peers /\ stage' = "next" /\ turn' = turn + 1
        /\ data' = [data EXCEPT ![Peer] = Failed]
    BY <1>6 DEF RequestFails
  <2>2. AtPeer'
    BY <1>1, <2>1 DEF AtPeer, Fetching
  <2> QED BY <2>1, <2>2, LoopKeeps
<1>7. CASE SelectTick
  <2>1. UNCHANGED peers /\ UNCHANGED data /\ AtPeer'
    BY <1>7 DEF SelectTick, AtPeer, Fetching
  <2> QED BY <2>1, LoopKeeps
<1>8. CASE SelectDone
  <2>1. UNCHANGED peers /\ UNCHANGED data /\ AtPeer'
    BY <1>1, <1>8 DEF SelectDone, AtPeer, Fetching
  <2> QED BY <2>1, LoopKeeps
<1>9. CASE Stop
  <2>1. UNCHANGED peers /\ UNCHANGED <<stage, turn, got, data>>
    BY <1>9 DEF Stop
  <2>2. AtPeer'
    BY <2>1, SameConfig DEF SyncInv, AtPeer, Fetching, PeerHost, peers
  <2> QED BY <2>1, <2>2, LoopKeeps
<1> QED
  BY <1>3, <1>4, <1>5, <1>6, <1>7, <1>8, <1>9 DEF Loop, RequestEnds

\* At first nothing has been recorded or fetched.
LEMMA SyncInvInit ==
  ASSUME Init
  PROVE  SyncInv
<1>1. /\ \A h \in Asked : log[h] = <<>> /\ saved[h] = 0 /\ recorded[h] = 0
      /\ <<>> \in Seq(Entry) /\ Len(<<>>) = 0
  BY DEF Init
<1>2. Hosts
  BY <1>1 DEF Init, Hosts, Own
<1>3. AtPeer
  BY DEF Init, AtPeer, Fetching
<1>4. Copies
  BY <1>2, PeersOf DEF Init, Copies, Hosts
<1> QED
  BY <1>2, <1>3, <1>4 DEF SyncInv

\* And nothing happens to what does not change.
LEMMA SyncInvStep ==
  ASSUME SyncInv, [Next]_vars
  PROVE  SyncInv'
<1>1. CASE Next
  BY <1>1, LoopStepKeeps, PeerStepKeeps DEF Next
<1>2. CASE UNCHANGED vars
  <2>1. UNCHANGED peers /\ UNCHANGED <<stage, turn, got, data>>
    BY <1>2 DEF vars
  <2>2. AtPeer'
    BY <2>1, SameConfig DEF SyncInv, AtPeer, Fetching, PeerHost, peers
  <2> QED BY <2>1, <2>2, LoopKeeps
<1> QED
  BY <1>1, <1>2

\* Whatever the hosts, the network and the loop do, a copy is one of a single host:
\* entries that it recorded, in their order, a stretch of its log followed by what
\* it has lost since, and a status of its own.
THEOREM SyncInvariant == Spec => []SyncInv
BY SyncInvInit, SyncInvStep, PTL DEF Spec

-----------------------------------------------------------------------------
(* What a reader of peersData can rely on.                                 *)

\* fetchPeer asks for the status and for the history in two requests: a status
\* that is newer than all of the history beside it is an entry the host has lost,
\* and the copy is of one host, even where two peers have one identifier.
THEOREM StatusBeyondLost == Spec => []StatusBeyondHistoryWasLost
<1>1. ASSUME SyncInv PROVE StatusBeyondHistoryWasLost
  <2> SUFFICES ASSUME NEW p \in Enabled, IsCopy(data[p])
      PROVE  \E h \in HostsOf(p) :
               /\ \A e \in Range(data[p].history) \cup ({data[p].status} \ {None}) : e[1] = h
               /\ BeyondIsLost(data[p], log[h])
    BY DEF StatusBeyondHistoryWasLost, BeyondIsLost
  <2>1. data[p] \notin {Absent, Failed}
    BY DEF IsCopy, Absent, Failed
  <2>2. PICK h \in HostsOf(p) : CopyOf(data[p], h, log[h], recorded[h])
    BY <1>1, <2>1 DEF SyncInv, Copies
  <2>3. \A e \in Range(data[p].history) : e[1] = h
    BY <2>2, EntriesOf DEF CopyOf, Own
  <2>4. data[p].status # None => data[p].status[1] = h
    BY <2>2 DEF CopyOf, StatusOf
  <2> QED BY <2>2, <2>3, <2>4 DEF CopyOf
<1> QED
  BY <1>1, SyncInvariant, PTL

\* The copy of a host's history has no gap, no repetition and nothing out of order,
\* and what is left of it in the host's log comes before what the host has lost.
THEOREM CopyIsOneStretch == Spec => []CopyIsStretch
<1>1. ASSUME SyncInv PROVE CopyIsStretch
  <2> SUFFICES ASSUME NEW p \in Enabled, IsCopy(data[p])
      PROVE  \E h \in HostsOf(p) : /\ \A e \in Range(data[p].history) : e[1] = h
                                   /\ Stretch(data[p].history, log[h])
    BY DEF CopyIsStretch, Stretch, Placed
  <2>1. data[p] \notin {Absent, Failed}
    BY DEF IsCopy, Absent, Failed
  <2>2. PICK h \in HostsOf(p) : CopyOf(data[p], h, log[h], recorded[h])
    BY <1>1, <2>1 DEF SyncInv, Copies
  <2>3. \A e \in Range(data[p].history) : e[1] = h
    BY <2>2, EntriesOf DEF CopyOf, Own
  <2> QED BY <2>2, <2>3 DEF CopyOf
<1> QED
  BY <1>1, SyncInvariant, PTL

-----------------------------------------------------------------------------
(* Types and bounds.                                                       *)

\* capHistory: never more entries than historyCap.
LEMMA FetchedIsCapped ==
  ASSUME NEW h, log[h] \in Seq(Entry)
  PROVE  /\ CapHistory(NodeHistory(h, HistoryCap)) \in Seq(Entry)
         /\ Len(CapHistory(NodeHistory(h, HistoryCap))) <= HistoryCap
<1> DEFINE a == NodeHistory(h, HistoryCap)
<1>1. CapHistory(a) \in Seq(Entry)
  BY FetchedIsEnd DEF EndOf
<1>2. CASE Len(a) <= HistoryCap
  BY <1>1, <1>2 DEF CapHistory
<1>3. CASE ~(Len(a) <= HistoryCap)
  <2>1. a \in Seq(Entry)
    <3>1. CASE Len(log[h]) > ParseLimit(HistoryCap)
      <4>1. /\ ParseLimit(HistoryCap) \in Nat \ {0} /\ Len(log[h]) \in Nat
            /\ a = LastN(log[h], ParseLimit(HistoryCap))
        BY <3>1, SyncAssumption, EntriesOf DEF NodeHistory, ParseLimit
      <4> HIDE DEF a
      <4>2. ParseLimit(HistoryCap) <= Len(log[h])
        BY <3>1, <4>1
      <4> QED BY <4>1, <4>2, LastNIsEnd DEF EndOf
    <3>2. CASE ~(Len(log[h]) > ParseLimit(HistoryCap))
      BY <3>2 DEF NodeHistory
    <3> QED BY <3>1, <3>2
  <2> HIDE DEF a
  <2>2. /\ HistoryCap \in Nat \ {0} /\ Len(a) \in Nat /\ HistoryCap <= Len(a)
        /\ \A i \in 1..Len(a) : a[i] \in Entry
    BY <1>3, <2>1, SyncAssumption, EntriesOf
  <2> DEFINE m == Len(a) - HistoryCap + 1
  <2>3. m \in 1..(Len(a) + 1) /\ Len(a) - m + 1 = HistoryCap /\ \A i \in m..Len(a) : a[i] \in Entry
    BY <2>2
  <2>4. CapHistory(a) = SubSeq(a, m, Len(a))
    BY <1>3 DEF CapHistory, LastN
  <2> HIDE DEF m
  <2>5. Len(SubSeq(a, m, Len(a))) = Len(a) - m + 1
    BY <2>2, <2>3, SubSeqProperties
  <2>6. Len(CapHistory(a)) <= HistoryCap
    BY <2>2, <2>3, <2>4, <2>5
  <2> QED BY <1>1, <2>6 DEF a
<1> QED
  BY <1>2, <1>3

\* What the loop leaves of the types when it leaves the peers alone.
LEMMA LoopTypes ==
  ASSUME SyncInv, TypeOK, UNCHANGED peers,
         stage' \in Stage, turn' \in 1..(Len(config) + 1),
         got' \in Entry \cup {None}, cancelled' \in BOOLEAN,
         \/ UNCHANGED data
         \/ \E d : /\ data' = [data EXCEPT ![Peer] = d]
                   /\ \/ d = Failed
                      \/ /\ d.status \in Entry \cup {None}
                         /\ d.history \in Seq(Entry)
                         /\ Len(d.history) <= HistoryCap
  PROVE  TypeOK'
<1>1. Asked' = Asked /\ Enabled' = Enabled
  BY SameConfig DEF peers
<1>2. ASSUME NEW p \in Enabled
      PROVE  \/ data'[p] \in {Absent, Failed}
             \/ /\ data'[p].status \in Entry \cup {None}
                /\ data'[p].history \in Seq(Entry)
                /\ Len(data'[p].history) <= HistoryCap
  <2>1. p \in DOMAIN data
    BY PeersOf DEF SyncInv, Hosts, Copies
  <2>2. CASE data'[p] = data[p]
    BY <2>2 DEF TypeOK
  <2>3. CASE data'[p] # data[p]
    <3>1. p = Peer
      BY <2>1, <2>3
    <3> QED BY <2>1, <2>3, <3>1
  <2> QED BY <2>2, <2>3
<1> QED
  BY <1>1, <1>2 DEF TypeOK, peers

\* The peers' part of the types.
LEMMA PeerTypes ==
  ASSUME SyncInv, TypeOK, NEW h \in Asked, PeerStep(h)
  PROVE  TypeOK'
<1>1. /\ UNCHANGED <<config, stage, turn, got, data, cancelled>>
      /\ log' \in [Asked -> Seq(Entry)] /\ recorded' \in [Asked -> Nat]
      /\ saved' \in [Asked -> Nat]
      /\ \A g \in Asked : saved'[g] <= Len(log'[g])
  BY HostLogStep DEF SyncInv
<1>2. Asked' = Asked /\ Enabled' = Enabled
  BY <1>1, SameConfig
<1>3. \A g \in Asked : saved'[g] \in 0..Len(log'[g])
  BY <1>1, LenProperties
<1>4. ASSUME NEW g \in Asked PROVE recorded'[g] \in 0..MaxEntries[g]
  <2>1. recorded[g] \in 0..MaxEntries[g] /\ MaxEntries[g] \in Nat /\ recorded \in [Asked -> Nat]
    BY PeersOf, SyncAssumption DEF SyncInv, Hosts, TypeOK
  <2>2. CASE PeerRecords(h)
    <3>1. recorded' = [recorded EXCEPT ![h] = recorded[h] + 1] /\ recorded[h] < MaxEntries[h]
      BY <2>2 DEF PeerRecords
    <3> QED BY <2>1, <3>1
  <2>3. CASE ~PeerRecords(h)
    <3>1. recorded' = recorded
      BY <2>3 DEF PeerStep, PeerSaves, PeerRestarts, LinkChanges
    <3> QED BY <2>1, <3>1
  <2> QED BY <2>2, <2>3
<1>5. link' \in [Asked -> BOOLEAN]
  BY DEF TypeOK, PeerStep, PeerRecords, PeerSaves, PeerRestarts, LinkChanges
<1> QED
  BY <1>1, <1>2, <1>3, <1>4, <1>5 DEF TypeOK

\* Types, and no copy longer than historyCap: SyncInv says that a request is made to
\* a peer of the list, and of what its host gives.
THEOREM TypeCorrect == Spec => []TypeOK
<1>1. ASSUME Init PROVE TypeOK
  <2>1. SyncInv
    BY <1>1, SyncInvInit
  <2>2. config \in PeerLists /\ Len(config) \in Nat
    BY <2>1, PeersOf DEF SyncInv, Hosts
  <2>3. log \in [Asked -> Seq(Entry)]
    BY <2>1 DEF SyncInv, Hosts
  <2>4. \A h \in Asked : /\ recorded[h] = 0 /\ saved[h] = 0 /\ Len(log[h]) = 0
                         /\ MaxEntries[h] \in Nat
    BY <1>1, <2>2, PeersOf, SyncAssumption DEF Init
  <2>5. \A p \in Enabled : data[p] = Absent
    BY <1>1, <2>2, PeersOf DEF Init
  <2>6. turn \in 1..(Len(config) + 1)
    BY <1>1, <2>2 DEF Init
  <2>7. \A h \in Asked : recorded[h] \in 0..MaxEntries[h] /\ saved[h] \in 0..Len(log[h])
    BY <2>4
  <2> QED BY <1>1, <2>3, <2>5, <2>6, <2>7 DEF Init, TypeOK, Stage
<1>2. ASSUME SyncInv, TypeOK, [Next]_vars PROVE TypeOK'
  <2>1. /\ turn \in 1..(Len(config) + 1) /\ Len(config) \in Nat /\ stage \in Stage
        /\ got \in Entry \cup {None} /\ None \in Entry \cup {None}
        /\ cancelled \in BOOLEAN
    BY <1>2, PeersOf DEF SyncInv, Hosts, TypeOK
  <2>2. ASSUME Fetching
        PROVE  /\ turn + 1 \in 1..(Len(config) + 1)
               /\ log[PeerHost] \in Seq(Entry)
    <3>1. turn \in EnabledPeers /\ config \in PeerLists
      BY <1>2, <2>2 DEF SyncInv, Hosts, AtPeer
    <3>2. turn \in 1..Len(config) /\ PeerHost \in Asked
      BY <3>1, PeersOf DEF PeerHost
    <3> QED BY <1>2, <2>1, <3>2 DEF SyncInv, Hosts
  <2>3. CASE NextPeer
    BY <1>2, <2>1, <2>3, LoopTypes DEF NextPeer, Stage
  <2>4. CASE StatusArrives
    <3>1. NodeStatus(PeerHost) \in Entry \cup {None}
      <4>1. CASE log[PeerHost] = <<>>
        BY <4>1 DEF NodeStatus
      <4>2. CASE log[PeerHost] # <<>>
        <5>1. log[PeerHost] \in Seq(Entry)
          BY <2>2, <2>4 DEF StatusArrives, Fetching
        <5>2. Len(log[PeerHost]) \in 1..Len(log[PeerHost])
          BY <4>2, <5>1, LenProperties, EmptySeq
        <5> QED BY <4>2, <5>1, <5>2, EntriesOf DEF NodeStatus, Last
      <4> QED BY <4>1, <4>2
    <3> QED BY <1>2, <2>1, <2>4, <3>1, LoopTypes DEF StatusArrives, Stage
  <2>5. CASE HistoryArrives
    <3> DEFINE c == Copy(got, CapHistory(NodeHistory(PeerHost, HistoryCap)))
    <3>1. /\ c.status = got
          /\ c.history \in Seq(Entry) /\ Len(c.history) <= HistoryCap
      BY <2>2, <2>5, FetchedIsCapped DEF HistoryArrives, Fetching, Copy
    <3>2. UNCHANGED peers /\ data' = [data EXCEPT ![Peer] = c]
      BY <2>5 DEF HistoryArrives
    <3>3. stage' \in Stage /\ turn' \in 1..(Len(config) + 1)
          /\ got' \in Entry \cup {None} /\ cancelled' \in BOOLEAN
      BY <2>1, <2>2, <2>5 DEF HistoryArrives, Fetching, Stage
    <3> HIDE DEF c
    <3> QED BY <1>2, <2>1, <3>1, <3>2, <3>3, LoopTypes
  <2>6. CASE RequestFails
    <3>1. UNCHANGED peers /\ data' = [data EXCEPT ![Peer] = Failed]
      BY <2>6 DEF RequestFails
    <3>2. stage' \in Stage /\ turn' \in 1..(Len(config) + 1)
          /\ got' \in Entry \cup {None} /\ cancelled' \in BOOLEAN
      BY <2>1, <2>2, <2>6 DEF RequestFails, Stage
    <3> QED BY <1>2, <3>1, <3>2, LoopTypes
  <2>7. CASE SelectTick
    BY <1>2, <2>1, <2>7, LoopTypes DEF SelectTick, Stage
  <2>8. CASE SelectDone
    BY <1>2, <2>1, <2>8, LoopTypes DEF SelectDone, Stage
  <2>9. CASE Stop
    BY <1>2, <2>1, <2>9, LoopTypes DEF Stop
  <2>10. CASE UNCHANGED vars
    BY <1>2, <2>1, <2>10, LoopTypes DEF vars
  <2> QED
    BY <1>2, <2>3, <2>4, <2>5, <2>6, <2>7, <2>8, <2>9, <2>10, PeerTypes
       DEF Next, Loop, RequestEnds
<1> QED
  BY <1>1, <1>2, SyncInvariant, PTL DEF Spec

-----------------------------------------------------------------------------
(* Every host is a durable log.                                            *)

HostLog(h) == INSTANCE DurableLog WITH log <- log[h], saved <- saved[h]

\* A step of the system, whoever takes it, is one of each host's durable log, or none.
LEMMA HostFollowsLog ==
  ASSUME SyncInv, [Next]_vars, NEW h \in Asked
  PROVE  [HostLog(h)!Next]_<<log[h], saved[h]>>
<1>1. /\ log \in [Asked -> Seq(Entry)] /\ saved \in [Asked -> Nat]
      /\ recorded \in [Asked -> Nat] /\ h \in Host
  BY PeersOf DEF SyncInv, Hosts
<1>2. ASSUME NEW g \in Asked, PeerStep(g)
      PROVE  HostLog(h)!Next \/ (log'[h] = log[h] /\ saved'[h] = saved[h])
  <2>1. CASE g = h
    <3>1. CASE PeerRecords(h)
      <4>1. <<h, recorded[h] + 1>> \in Entry
        BY <1>1 DEF Entry
      <4> QED BY <1>1, <3>1, <4>1 DEF PeerRecords, HostLog!Next, HostLog!Extend
    <3>2. CASE PeerSaves(h)
      BY <1>1, <3>2 DEF PeerSaves, HostLog!Next, HostLog!Save
    <3>3. CASE PeerRestarts(h)
      BY <1>1, <3>3 DEF PeerRestarts, HostLog!Next, HostLog!Restart
    <3>4. CASE LinkChanges(h)
      BY <3>4 DEF LinkChanges
    <3> QED BY <1>2, <2>1, <3>1, <3>2, <3>3, <3>4 DEF PeerStep
  <2>2. CASE g # h
    BY <1>1, <1>2, <2>2 DEF PeerStep, PeerRecords, PeerSaves, PeerRestarts, LinkChanges
  <2> QED BY <2>1, <2>2
<1>3. CASE Loop \/ Stop \/ UNCHANGED vars
  BY <1>3 DEF Loop, RequestEnds, NextPeer, StatusArrives, HistoryArrives, RequestFails,
              SelectTick, SelectDone, Stop, vars, peers
<1> QED
  BY <1>2, <1>3 DEF Next

\* What the copies are taken of is what StatusStore implements: each host of a list
\* behaves as a DurableLog, and its log and the durable part change in no other way.
THEOREM HostsAreDurableLogs ==
  ASSUME NEW h
  PROVE  Spec => (h \in Asked => HostLog(h)!Spec)
<1>1. ASSUME Init, h \in Asked PROVE HostLog(h)!Init
  BY <1>1 DEF Init, HostLog!Init
<1>2. ASSUME h \in Asked, [Next]_vars PROVE (h \in Asked)'
  <2>1. config' = config
    BY <1>2 DEF Next, Loop, RequestEnds, NextPeer, StatusArrives, HistoryArrives,
       RequestFails, SelectTick, SelectDone, Stop, PeerStep, PeerRecords, PeerSaves,
       PeerRestarts, LinkChanges, vars, peers
  <2> QED BY <1>2, <2>1, SameConfig
<1>3. ASSUME SyncInv, h \in Asked, [Next]_vars PROVE [HostLog(h)!Next]_<<log[h], saved[h]>>
  BY <1>3, HostFollowsLog
<1> QED
  BY <1>1, <1>2, <1>3, SyncInvariant, PTL DEF Spec, HostLog!Spec, HostLog!vars
=============================================================================
