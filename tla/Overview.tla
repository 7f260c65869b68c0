------------------------------ MODULE Overview ------------------------------
(***************************************************************************)
(* The overview of internal/server: the last three ten-minute buckets of   *)
(* the connectivity of each node and of a choice of services.              *)
(*                                                                         *)
(* A node is [id, name, isLocal, services], a service [id, name, order],   *)
(* where order is the place in the node's list of targets, 0 for a service *)
(* that is not in it.  Names are numbers in the order of their lower-case  *)
(* forms.  Details, texts and the fields copied from the server are left   *)
(* out, and so is a point without times, which no timeline has.            *)
(***************************************************************************)
EXTENDS Timeline, SequencesExt

CONSTANTS Width,                   \* overviewBucketMinutes
          Count                    \* overviewBucketCount

ASSUME OverviewAssumption == Width \in Nat \ {0} /\ Count \in Nat \ {0}

TimeBuckets(start, duration, count) ==
  [i \in 1..count |-> [start |-> start + (i - 1) * duration,
                       end   |-> start + i * duration]]

BucketOverlaps_ByStart(bucket, start, end) ==
  bucket.start <= start /\ start < bucket.end

BucketOverlaps(bucket, start, end) == end > bucket.start /\ start < bucket.end

TimelineState(class) == CASE class = "success"              -> "ok"
                          [] class \in {"error", "warning"} -> "issue"
                          [] class = "missing"              -> "unknown"

\* An issue outweighs everything, and nothing is known of a bucket without a point.
Worst(states) == IF "issue" \in states THEN "issue"
                 ELSE IF "ok" \in states THEN "ok" ELSE "unknown"

MapTimelineToBuckets(points, buckets) ==
  [i \in DOMAIN buckets |->
     Worst({TimelineState(points[n].class) :
              n \in {m \in DOMAIN points :
                       BucketOverlaps(buckets[i], points[m].start, points[m].end)}})]

BucketIndex_EndLost(ts, buckets) ==
  LET at == {i \in DOMAIN buckets : buckets[i].start <= ts /\ ts < buckets[i].end}
  IN  IF at = {} THEN 0 ELSE Min(at)

\* The end of the last bucket belongs to it; 0 outside all of them.
BucketIndex(ts, buckets) ==
  LET last == Len(buckets)
      at   == {i \in 1..last : /\ buckets[i].start <= ts
                               /\ \/ ts < buckets[i].end
                                  \/ i = last /\ ts = buckets[i].end}
  IN  IF at = {} THEN 0 ELSE Min(at)

BuildConnectivityBuckets(buckets, history) ==
  [i \in DOMAIN buckets |->
     Worst({IF history[n].ok THEN "ok" ELSE "issue" :
              n \in {m \in DOMAIN history :
                       BucketIndex(history[m].timestamp, buckets) = i}})]

-----------------------------------------------------------------------------
(* The choice of services.                                                 *)

ByName(a, b) == IF a.name = b.name THEN a.id < b.id ELSE a.name < b.name

\* Services with a place among the targets come first, in that order.
ServiceBefore(a, b) ==
  CASE a.order > 0 /\ b.order > 0 /\ a.order # b.order -> a.order < b.order
    [] a.order > 0 /\ b.order = 0                      -> TRUE
    [] a.order = 0 /\ b.order > 0                      -> FALSE
    [] OTHER                                           -> ByName(a, b)

GroupBefore(a, b) == IF a.isLocal = b.isLocal THEN ByName(a, b) ELSE a.isLocal

AsFound(a, b) == FALSE

\* A node with its services in order.
GroupOf(node) ==
  [node EXCEPT !.services = Sorted(@, DOMAIN @, ServiceBefore)]

WithServices(nodes) == {i \in DOMAIN nodes : nodes[i].services # <<>>}

BuildServiceGroups_AsFound(nodes) ==
  Sorted([i \in DOMAIN nodes |-> GroupOf(nodes[i])], WithServices(nodes), AsFound)

\* The nodes come in the order of the copies in a map, which is any order.
BuildServiceGroups(nodes) ==
  Sorted([i \in DOMAIN nodes |-> GroupOf(nodes[i])], WithServices(nodes), GroupBefore)

\* The k-th service of every group that has one.
Turn(groups, k) ==
  LET having == Sorted(groups, {i \in DOMAIN groups : Len(groups[i].services) >= k},
                       AsFound)
  IN  [i \in DOMAIN having |-> [node |-> having[i].id, id |-> having[i].services[k].id]]

AllTurns(groups) ==
  FlattenSeq([k \in 1..Max({Len(groups[i].services) : i \in DOMAIN groups} \cup {0}) |->
                Turn(groups, k)])

Cut(entries, limit) ==
  IF limit <= 0 \/ limit > Len(entries) THEN entries ELSE SubSeq(entries, 1, limit)

PickServicesRoundRobin_NodeByNode(groups, limit) ==
  Cut(FlattenSeq([i \in DOMAIN groups |->
                    [k \in DOMAIN groups[i].services |->
                       [node |-> groups[i].id, id |-> groups[i].services[k].id]]]),
      limit)

PickServicesRoundRobin(groups, limit) == Cut(AllTurns(groups), limit)
=============================================================================
