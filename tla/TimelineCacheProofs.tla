------------------------- MODULE TimelineCacheProofs -------------------------
(***************************************************************************)
(* Proofs about TimelineCache, for any number of requests and windows: the *)
(* second look at the version makes the unlocked reads before it safe.     *)
(***************************************************************************)
EXTENDS TimelineCache, SequenceTheorems, TLAPS

\* What a request has read is in order, and no newer than the history.
ReadsInOrder(r) ==
  /\ stage[r] \in {"versioned", "read", "ready", "built", "saving", "done"}
       => req[r].version <= Len(history)
  /\ stage[r] \in {"read", "ready", "built", "saving", "done"}
       => req[r].version <= req[r].seen /\ req[r].seen <= Len(history)
  /\ stage[r] \in {"built", "saving"} => req[r].data = Built(r)
  /\ stage[r] = "saving" => req[r].seen = req[r].version

\* ResponseHasItsVersion, for one request.
HasItsVersion(r) ==
  stage[r] = "done" =>
    Drawn(req[r].version, req[r].data.start, req[r].data.end).entries
      \subseteq req[r].data.entries

\* CacheMatchesVersion, for one key.
MatchesVersion(k) ==
  cache[k].present =>
    /\ cache[k].version <= Len(history)
    /\ cache[k].data = Drawn(cache[k].version, cache[k].data.start, cache[k].data.end)

\* The inductive invariant.
CacheInv == /\ TypeOK
            /\ \A r \in Request : ReadsInOrder(r) /\ HasItsVersion(r)
            /\ \A k \in Key : MatchesVersion(k)

\* A drawing is a timeline.
LEMMA DrawnType ==
  ASSUME NEW n \in Nat, NEW s \in Int, NEW e \in Time
  PROVE  Drawn(n, s, e) \in Timeline
BY DEF Drawn, Timeline

\* Types are kept by every step.
LEMMA TypeStep == TypeOK /\ [Next]_vars => TypeOK'
<1> SUFFICES ASSUME TypeOK, [Next]_vars PROVE TypeOK'
  OBVIOUS
<1> USE CacheAssumption DEF TypeOK, Time
<1>1. CASE ClockTick
  BY <1>1 DEF ClockTick
<1>2. CASE BeginRound
  BY <1>2 DEF BeginRound
<1>3. CASE AppendEntry
  <2>1. history' \in Seq(Time) /\ Len(history') = Len(history) + 1
    BY <1>3, AppendProperties DEF AppendEntry, None
  <2> QED BY <1>3, <2>1 DEF AppendEntry
<1>4. ASSUME NEW r \in Request, RequestStep(r) PROVE TypeOK'
  <2> USE DEF Moves, Stage
  <2>1. CASE ParseWindow(r)
    <3> PICK k \in Key : req' = [req EXCEPT ![r].key = k,
                                            ![r].start = now - Duration[k],
                                            ![r].end = now]
      BY <2>1 DEF ParseWindow
    <3>1. now - Duration[k] \in Int
      OBVIOUS
    <3>2. req' \in [Request -> ReqState]
      BY <3>1 DEF ReqState
    <3> QED BY <2>1, <3>2 DEF ParseWindow
  <2>2. CASE ReadVersion(r)
    BY <2>2, LenProperties DEF ReadVersion, ReqState
  <2>3. CASE ReadHistory(r)
    BY <2>3, LenProperties DEF ReadHistory, ReqState
  <2>4. CASE ReadLatest(r)
    BY <2>4, LenProperties DEF ReadLatest, ReqState
  <2>5. CASE UseCache(r)
    BY <2>5 DEF UseCache, ReqState, CacheEntry
  <2>6. CASE Build(r)
    <3>1. Built(r) \in Timeline
      BY DrawnType DEF Built, ReqState
    <3> QED BY <2>6, <3>1 DEF Build, ReqState
  <2>7. CASE CheckVersion(r)
    BY <2>7 DEF CheckVersion
  <2>8. CASE SaveCache(r)
    BY <2>8 DEF SaveCache, CacheEntry, ReqState
  <2>9. CASE Respond(r)
    <3>1. Fresh \in ReqState
      BY DEF Fresh, ReqState, NoTimeline, Timeline
    <3> QED BY <2>9, <3>1 DEF Respond
  <2> QED
    BY <1>4, <2>1, <2>2, <2>3, <2>4, <2>5, <2>6, <2>7, <2>8, <2>9 DEF RequestStep
<1>5. CASE UNCHANGED vars
  BY <1>5 DEF vars
<1> QED
  BY <1>1, <1>2, <1>3, <1>4, <1>5 DEF Next

\* A drawing of entries the history has is not changed by an append.
LEMMA DrawnStable ==
  ASSUME TypeOK, AppendEntry,
         NEW n \in Nat, n <= Len(history), NEW s, NEW e
  PROVE  Drawn(n, s, e)' = Drawn(n, s, e)
<1>1. \A i \in 1..Len(history) : history'[i] = history[i]
  BY AppendProperties DEF AppendEntry, TypeOK, Time, None
<1>2. Len(history) \in Nat
  BY LenProperties DEF TypeOK
<1>3. \A i \in 1..n : history'[i] = history[i]
  BY <1>1, <1>2
<1>4. {i \in 1..n : s <= history'[i] /\ history'[i] <= e}
        = {i \in 1..n : s <= history[i] /\ history[i] <= e}
  BY <1>3
<1> QED
  BY <1>4 DEF Drawn

\* An append disturbs no invariant of a request or of the cache.
LEMMA AppendStep == CacheInv /\ AppendEntry => CacheInv'
<1> SUFFICES ASSUME CacheInv, AppendEntry PROVE CacheInv'
  OBVIOUS
<1>1. TypeOK'
  BY TypeStep DEF CacheInv, Next
<1>2. Len(history') = Len(history) + 1 /\ Len(history) \in Nat
  BY AppendProperties, LenProperties DEF CacheInv, AppendEntry, TypeOK, Time, None
<1>3. ASSUME NEW r \in Request PROVE ReadsInOrder(r)' /\ HasItsVersion(r)'
  <2> USE DEF CacheInv
  <2>1. req[r] \in ReqState /\ req' = req /\ stage' = stage
    BY DEF TypeOK, AppendEntry
  <2>2. req[r].version \in Nat /\ req[r].seen \in Nat
    BY <2>1 DEF ReqState
  <2>3. stage[r] \in {"built", "saving"} => Built(r)' = Built(r)
    BY <2>1, <2>2, DrawnStable DEF ReadsInOrder, Built
  <2>4. ReadsInOrder(r)'
    BY <1>2, <2>1, <2>2, <2>3 DEF ReadsInOrder
  <2>5. HasItsVersion(r)'
    BY <2>1, <2>2, DrawnStable DEF HasItsVersion, ReadsInOrder
  <2> QED BY <2>4, <2>5
<1>4. ASSUME NEW k \in Key PROVE MatchesVersion(k)'
  <2>1. cache[k] \in CacheEntry /\ cache' = cache
    BY DEF CacheInv, TypeOK, AppendEntry
  <2>2. cache[k].version \in Nat
    BY <2>1 DEF CacheEntry
  <2> QED
    BY <1>2, <2>1, <2>2, DrawnStable DEF CacheInv, MatchesVersion
<1> QED
  BY <1>1, <1>3, <1>4 DEF CacheInv

\* A step of a request keeps what it has read in order.
LEMMA RequestKeepsReads ==
  ASSUME CacheInv, NEW r \in Request, RequestStep(r), NEW p \in Request
  PROVE  ReadsInOrder(p)' /\ HasItsVersion(p)'
<1> USE DEF CacheInv, TypeOK
<1>1. history' = history /\ version' = version /\ Len(history) \in Nat
  BY LenProperties DEF RequestStep, ParseWindow, ReadVersion, ReadHistory,
     ReadLatest, UseCache, Build, CheckVersion, SaveCache, Respond, Moves
<1>2. CASE p # r
  <2>1. stage'[p] = stage[p] /\ req'[p] = req[p]
    BY <1>2 DEF RequestStep, ParseWindow, ReadVersion, ReadHistory,
       ReadLatest, UseCache, Build, CheckVersion, SaveCache, Respond, Moves
  <2> QED
    BY <1>1, <2>1 DEF ReadsInOrder, HasItsVersion, Built, Drawn
<1>3. CASE p = r
  <2> USE <1>1, <1>3 DEF Moves, ReadsInOrder, HasItsVersion
  <2>0. req[r] \in ReqState /\ req[r].version \in Nat /\ req[r].seen \in Nat
    BY DEF ReqState
  <2>1. CASE ParseWindow(r)
    BY <2>1 DEF ParseWindow
  <2>2. CASE ReadVersion(r)
    BY <2>2 DEF ReadVersion, ReqState
  <2>3. CASE ReadHistory(r)
    BY <2>3, <2>0 DEF ReadHistory, ReqState
  <2>4. CASE ReadLatest(r)
    BY <2>4, <2>0 DEF ReadLatest, ReqState
  <2>5. CASE UseCache(r)
    <3>1. /\ stage'[r] = "done" /\ req'[r].data = cache[req[r].key].data
          /\ req'[r].version = req[r].version /\ req'[r].seen = req[r].seen
      BY <2>5, <2>0 DEF UseCache, ReqState
    <3>2. MatchesVersion(req[r].key)
      BY <2>0 DEF ReqState
    <3>3. Drawn(req[r].version, req'[r].data.start, req'[r].data.end)
            = req'[r].data
      BY <2>5, <3>1, <3>2 DEF UseCache, Hit, MatchesVersion
    <3> QED BY <2>5, <3>1, <3>3 DEF UseCache, Drawn
  <2>6. CASE Build(r)
    <3>1. /\ stage'[r] = "built" /\ req'[r].data = Built(r)
          /\ req'[r].version = req[r].version /\ req'[r].seen = req[r].seen
          /\ req'[r].start = req[r].start /\ req'[r].end = req[r].end
      BY <2>6, <2>0 DEF Build, ReqState
    <3>2. Built(r)' = Built(r)
      BY <3>1 DEF Built, Drawn
    <3> QED BY <2>6, <3>1, <3>2 DEF Build
  <2>7. CASE CheckVersion(r)
    <3>1. req' = req /\ stage[r] = "built" /\ req[r].data = Built(r)
      BY <2>7 DEF CheckVersion
    <3>2. Built(r)' = Built(r)
      BY <3>1 DEF Built, Drawn
    <3>3. \A i \in 1..req[r].version : i \in 1..req[r].seen
      BY <2>0, <3>1
    <3>4. Drawn(req[r].version, req[r].data.start, req[r].data.end).entries
            \subseteq req[r].data.entries
      BY <3>1, <3>3 DEF Built, Drawn
    <3>5. ReadsInOrder(r)'
      BY <2>7, <2>0, <3>1, <3>2 DEF CheckVersion
    <3>6. HasItsVersion(r)'
      BY <3>1, <3>4 DEF Drawn
    <3> QED BY <3>5, <3>6
  <2>8. CASE SaveCache(r)
    <3>1. req' = req /\ stage[r] = "saving" /\ stage'[r] = "done"
          /\ req[r].data = Built(r) /\ req[r].seen = req[r].version
      BY <2>8 DEF SaveCache
    <3>2. Drawn(req[r].version, req[r].data.start, req[r].data.end).entries
            \subseteq req[r].data.entries
      BY <3>1 DEF Built, Drawn
    <3>3. ReadsInOrder(r)'
      BY <3>1
    <3>4. HasItsVersion(r)'
      BY <3>1, <3>2 DEF Drawn
    <3> QED BY <3>3, <3>4
  <2>9. CASE Respond(r)
    BY <2>9 DEF Respond
  <2> QED
    BY <2>1, <2>2, <2>3, <2>4, <2>5, <2>6, <2>7, <2>8, <2>9 DEF RequestStep
<1> QED
  BY <1>2, <1>3

\* A step of a request keeps the cache right; only SaveCache changes it.
LEMMA RequestKeepsCache ==
  ASSUME CacheInv, NEW r \in Request, RequestStep(r), NEW k \in Key
  PROVE  MatchesVersion(k)'
<1> USE DEF CacheInv, TypeOK
<1>1. history' = history
  BY DEF RequestStep, ParseWindow, ReadVersion, ReadHistory, ReadLatest, UseCache,
     Build, CheckVersion, SaveCache, Respond, Moves
<1>2. CASE SaveCache(r)
  <2>1. /\ req[r].data = Built(r) /\ req[r].seen = req[r].version
        /\ req[r].version <= Len(history)
    BY <1>2 DEF SaveCache, Moves, ReadsInOrder
  <2>2. req[r].data = Drawn(req[r].version, req[r].data.start, req[r].data.end)
    BY <2>1 DEF Built, Drawn
  <2>3. CASE k = req[r].key
    <3>1. /\ cache'[k].version = req[r].version /\ cache'[k].data = req[r].data
      BY <1>2, <2>3 DEF SaveCache
    <3> QED BY <1>1, <2>1, <2>2, <3>1 DEF MatchesVersion, Drawn
  <2>4. CASE k # req[r].key
    <3>1. cache'[k] = cache[k]
      BY <1>2, <2>4 DEF SaveCache
    <3> QED BY <1>1, <3>1 DEF MatchesVersion, Drawn
  <2> QED BY <2>3, <2>4
<1>3. CASE ~SaveCache(r)
  <2>1. cache' = cache
    BY <1>3 DEF RequestStep, ParseWindow, ReadVersion, ReadHistory, ReadLatest,
       UseCache, Build, CheckVersion, Respond
  <2> QED BY <1>1, <2>1 DEF MatchesVersion, Drawn
<1> QED
  BY <1>2, <1>3

\* The invariant is inductive.
LEMMA CacheInvStep == CacheInv /\ [Next]_vars => CacheInv'
<1> SUFFICES ASSUME CacheInv, [Next]_vars PROVE CacheInv'
  OBVIOUS
<1>1. TypeOK'
  BY TypeStep DEF CacheInv
<1>2. CASE AppendEntry
  BY <1>2, AppendStep
<1>3. ASSUME NEW r \in Request, RequestStep(r) PROVE CacheInv'
  BY <1>1, <1>3, RequestKeepsReads, RequestKeepsCache DEF CacheInv
<1>4. CASE ClockTick \/ BeginRound \/ UNCHANGED vars
  <2>1. UNCHANGED <<history, cache, stage, req>>
    BY <1>4 DEF ClockTick, BeginRound, vars
  <2> QED
    BY <1>1, <2>1 DEF CacheInv, ReadsInOrder, HasItsVersion, MatchesVersion, Built,
       Drawn
<1> QED
  BY <1>2, <1>3, <1>4 DEF Next

\* The invariant holds throughout every behaviour.
THEOREM CacheInvariant == Spec => []CacheInv
<1>1. Init => CacheInv
  <2> SUFFICES ASSUME Init PROVE CacheInv
    OBVIOUS
  <2>1. Fresh \in ReqState
    BY CacheAssumption DEF Fresh, ReqState, NoTimeline, Timeline, Time
  <2>2. Absent \in CacheEntry /\ ~Absent.present
    BY CacheAssumption DEF Absent, CacheEntry, NoTimeline, Timeline, Time
  <2>3. history \in Seq(Time) /\ Len(history) = 0
    BY EmptySeq DEF Init
  <2>4. TypeOK
    BY <2>1, <2>2, <2>3, CacheAssumption DEF Init, TypeOK, Time, Stage
  <2>5. \A r \in Request : ReadsInOrder(r) /\ HasItsVersion(r)
    BY DEF Init, ReadsInOrder, HasItsVersion
  <2>6. \A k \in Key : MatchesVersion(k)
    BY <2>2 DEF Init, MatchesVersion
  <2> QED BY <2>4, <2>5, <2>6 DEF CacheInv
<1> QED
  BY <1>1, CacheInvStep, PTL DEF Spec

\* A cached timeline is that of its version of the history.
THEOREM CachedTimelineExact == Spec => []CacheMatchesVersion
<1>1. CacheInv => CacheMatchesVersion
  BY DEF CacheInv, MatchesVersion, CacheMatchesVersion
<1> QED
  BY <1>1, CacheInvariant, PTL

\* A response misses no entry of the version it began with.
THEOREM ResponseComplete == Spec => []ResponseHasItsVersion
<1>1. CacheInv => ResponseHasItsVersion
  BY DEF CacheInv, HasItsVersion, ResponseHasItsVersion
<1> QED
  BY <1>1, CacheInvariant, PTL
=============================================================================
