---------------------------- MODULE ClusterUptime ----------------------------
(***************************************************************************)
(* The uptime that one node shows of another: an aggregator fetches the    *)
(* history of the node of UptimeWindow and computes the uptime from its    *)
(* copy, which is cut by the limits of both and grows old.                 *)
(*                                                                         *)
(* The node may since have lost entries that are in the copy.  Fetching    *)
(* takes no time here; ClusterSync has what may come between.              *)
(***************************************************************************)
EXTENDS UptimeWindow, Configuration

CONSTANTS Files,         \* the aggregator's configuration files
          NodeFile,      \* this node's
          Windows        \* the ranges of a query: 24 hours and Month

ASSUME ClusterUptimeAssumption ==
  /\ \A f \in Files : "interval" \in DOMAIN f => f.interval \in Int
  /\ \A cfg \in Load({NodeFile}) : cfg.interval = Interval
  /\ Load({NodeFile}) # {}
  /\ Month = Slots * Interval
  /\ Windows \subseteq 1..Month

VARIABLES
  aggregator,   \* the configuration of the aggregator
  copy,         \* peersData of this node: an error, or entries and interval
  copied,       \* when it was fetched (None: there is none)
  known         \* the node's entries then (no action reads it)

cvars == <<aggregator, copy, copied, known>>

NodeConfig == CHOOSE cfg \in Load({NodeFile}) : TRUE

Failed == [interval |-> 0, targets |-> {}, history |-> <<>>]

CInit == /\ Init
         /\ aggregator \in Load(Files)
         /\ copy = Failed
         /\ copied = None
         /\ known = <<>>

LastN(s, n) == IF Len(s) > n THEN SubSeq(s, Len(s) - n + 1, Len(s)) ELSE s

\* parseLimit.
ParseLimit(limit) == Min({limit, HistoryLimit(NodeConfig)})

NodeHistory_First(limit) ==
  LET history == FilterHistory(entries, now - Month, now)
  IN  SubSeq(history, 1, Min({Len(history), ParseLimit(limit)}))

\* handleNodeHistory, for a range of a month.
NodeHistory(limit) ==
  LastN(FilterHistory(entries, now - Month, now), ParseLimit(limit))

CapHistory(history) == LastN(history, HistoryCap(aggregator))

FetchPeer == /\ Up
             /\ copy' = [interval |-> Interval, targets |-> {Service},
                         history  |-> CapHistory(NodeHistory(HistoryCap(aggregator)))]
             /\ copied' = now
             /\ known' = entries
             /\ UNCHANGED <<vars, aggregator>>

\* The error takes the place of the copy.
FetchFails == /\ copy' = Failed
              /\ copied' = None
              /\ known' = <<>>
              /\ UNCHANGED <<vars, aggregator>>

CNext == (Next /\ UNCHANGED cvars) \/ FetchPeer \/ FetchFails

CSpec == CInit /\ [][CNext]_<<vars, cvars>>

-----------------------------------------------------------------------------
(* What the aggregator shows at the present moment for a window.           *)

MaterialisePeerSnapshot_OwnInterval(length) ==
  LET start == now - length
  IN  ComputeServiceUptime(FilterHistory(copy.history, start, now), start, now,
                           aggregator.interval, copy.targets)

\* materialisePeerSnapshot: the interval is the node's, when it has sent one.
MaterialisePeerSnapshot(length) ==
  LET interval == IF copy.interval > 0 THEN copy.interval ELSE aggregator.interval
      start    == now - length
  IN  ComputeServiceUptime(FilterHistory(copy.history, start, now), start, now,
                           interval, copy.targets)

CopyMissing(length) == MaterialisePeerSnapshot(length)[Service].missing

\* handleNodeUptime: what the node itself shows for the same window.
OwnMissing(length) ==
  ComputeServiceUptime(FilterHistory(entries, now - length, now), now - length, now,
                       Interval, {Service})[Service].missing

Limit == Min({HistoryCap(aggregator), HistoryLimit(NodeConfig)})

\* Missing because the limits let no more than so many entries through.
CutMissing(length) == Max({0, Ceil(length, Interval) - Limit})

\* How many entries the node has had since the copy was fetched and has still.
Kept == Max({n \in 0..Min({Len(known), Len(entries)}) :
               \A i \in 1..n : known[i] = entries[i]})

-----------------------------------------------------------------------------
(* Properties.                                                             *)

\* With a copy of this moment that has every entry the aggregator shows exactly what
\* the node does, or, if that is more, what the limits cut off: an aggregator whose
\* interval is the longer one takes entries it did not want for downtime.  With an
\* interval no longer than the node's nothing is cut that matters, whatever restarts
\* add.
CutCountsAsMissing ==
  copied = now /\ known = entries => \A d \in Windows :
    /\ CopyMissing(d) = Max({OwnMissing(d), CutMissing(d)})
    /\ aggregator.interval <= Interval => CopyMissing(d) = OwnMissing(d)

\* An older copy shows less downtime than the node itself by no more than the entries
\* that it has and the node has lost since, and more by no more than the entries
\* recorded since, apart from those cut off.
OldCopyMissesNewEntries ==
  copied # None => \A d \in Windows :
    /\ CopyMissing(d) >= OwnMissing(d) - (Len(known) - Kept)
    /\ CopyMissing(d) <= Max({OwnMissing(d), CutMissing(d)}) + (Len(entries) - Kept)
=============================================================================
