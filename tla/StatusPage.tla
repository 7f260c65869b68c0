----------------------------- MODULE StatusPage -----------------------------
(***************************************************************************)
(* What the status page shows of a node at any moment: the timeline of a   *)
(* service and of the connectivity, and the overview with its choice of    *)
(* services, as the node checks and probes and as peers come and go.       *)
(*                                                                         *)
(* Services, probes and peers share nothing but the clock, so that each    *)
(* behaviour is about one of them (subject).  The window of the dashboard  *)
(* and of the overview are different, but the same to this model: the      *)
(* buckets of both divide [WindowStart, now].  Histories are in order.     *)
(* The half hour of the overview has fewer probes than the cap on them,    *)
(* the ranges of the dashboard may have more.                              *)
(***************************************************************************)
EXTENDS Overview, Uptime

CONSTANTS Moments,       \* times at which something may happen
          MaxChecks,     \* bounds on the histories
          MaxProbes,
          ProbeCap,      \* connectivityHistoryCap
          Local,         \* this node
          PeerNodes      \* the nodes that may be fetched

OverviewNode == [id : Nat, name : Nat, isLocal : BOOLEAN,
                 services : Seq([id : Nat, name : Nat, order : Nat])]

\* A node has one timeline a service, and there is one copy a peer: both are kept in
\* maps from their identifiers.
ASSUME PageAssumption ==
  /\ Moments \subseteq Nat /\ IsFiniteSet(Moments) /\ 0 \in Moments
  /\ MaxChecks \in Nat /\ MaxProbes \in Nat
  /\ ProbeCap \in Nat \ {0}
  /\ Local \in OverviewNode /\ Local.isLocal
  /\ PeerNodes \subseteq OverviewNode
  /\ \A n \in PeerNodes : ~n.isLocal /\ n.id # Local.id
  /\ \A m, n \in PeerNodes : m.id = n.id => m = n
  /\ \A n \in PeerNodes \cup {Local} : \A i, j \in DOMAIN n.services :
       n.services[i].id = n.services[j].id => i = j

VARIABLES
  subject,    \* what the behaviour is about
  now,
  checks,     \* what the history says of one service
  probes,     \* the connectivity history
  fetched     \* the peers of which there is a copy

vars == <<subject, now, checks, probes, fetched>>

Subject == {"checks", "probes", "peers"}

\* What systemctl may print, with whether it fails; "" is nothing at all, and
\* "refused" stands for text that is not a state.
Output == {<<"active", FALSE>>, <<"inactive", TRUE>>, <<"activating", TRUE>>,
           <<"", TRUE>>, <<"refused", TRUE>>}

CheckTarget(output, failed) ==
  [ok    |-> output = "active",
   state |-> IF output = "" THEN "unknown" ELSE output,
   error |-> failed]

Init == /\ subject \in Subject
        /\ now = 0
        /\ checks = <<>>
        /\ probes = <<>>
        /\ fetched = {}

Wait == /\ \E t \in Moments : t > now
        /\ now' = Min({t \in Moments : t > now})
        /\ UNCHANGED <<subject, checks, probes, fetched>>

\* One sample a moment: rounds are a minute apart or more.
Due(samples, bound) == /\ Len(samples) < bound
                       /\ samples # <<>> => Last(samples).timestamp < now

RunOnce == /\ subject = "checks" /\ Due(checks, MaxChecks)
           /\ \E o \in Output :
                LET res == CheckTarget(o[1], o[2])
                IN  checks' = Append(checks, [timestamp |-> now, ok |-> res.ok,
                                              state |-> res.state, error |-> res.error])
           /\ UNCHANGED <<subject, now, probes, fetched>>

RunProbe == /\ subject = "probes" /\ Due(probes, MaxProbes)
            /\ \E ok \in BOOLEAN :
                 probes' = Append(probes, [timestamp |-> now, ok |-> ok, error |-> ~ok])
            /\ UNCHANGED <<subject, now, checks, fetched>>

FetchPeer == /\ subject = "peers"
             /\ \E n \in PeerNodes \ fetched : fetched' = fetched \cup {n}
             /\ UNCHANGED <<subject, now, checks, probes>>

\* A failed request leaves a copy without targets and history, hence no services.
FetchFails == /\ subject = "peers"
              /\ \E n \in fetched : fetched' = fetched \ {n}
              /\ UNCHANGED <<subject, now, checks, probes>>

Next == Wait \/ RunOnce \/ RunProbe \/ FetchPeer \/ FetchFails

Spec == Init /\ [][Next]_vars

-----------------------------------------------------------------------------
(* The page at the present moment.                                         *)

WindowStart == now - Width * Count

ChecksInWindow == FilterHistory(checks, WindowStart, now)
ProbesInWindow == FilterHistory(probes, WindowStart, now)

DrawnProbes_First ==
  SubSeq(ProbesInWindow, 1, Min({ProbeCap, Len(ProbesInWindow)}))

\* The newest of a window's probes are drawn.
DrawnProbes ==
  LET n == Len(ProbesInWindow)
  IN  SubSeq(ProbesInWindow, Max({1, n - ProbeCap + 1}), n)

ServiceDots      == BuildTimeline(ChecksInWindow, WindowStart, now)
ConnectivityDots == BuildConnectivityTimeline(DrawnProbes, WindowStart, now)

Buckets            == TimeBuckets(WindowStart, Width, Count)
ServiceLights      == MapTimelineToBuckets(ServiceDots, Buckets)
ConnectivityLights == BuildConnectivityBuckets(Buckets, ProbesInWindow)

Chosen(nodes, limit) == PickServicesRoundRobin(BuildServiceGroups(nodes), limit)

\* This node first, then the copies in the order the map yields them.
SnapshotNodes == {<<Local>> \o s : s \in SetToSeqs(fetched)}

ConnectivityItem(node) == [kind |-> "connectivity", node |-> node.id]

\* overviewConnectivityItems: one for every node, as they come in the snapshot.
ConnectivityItems(nodes) == [i \in DOMAIN nodes |-> ConnectivityItem(nodes[i])]

Items(nodes, limit) == ConnectivityItems(nodes) \o Chosen(nodes, limit)

\* The length of a dot, longer for the last one.
DotLength == LET dots == ServiceDots
             IN  Max({dots[i].end - dots[i].start : i \in 1..Points})

In(t, slot) == slot.start <= t /\ t < slot.end

-----------------------------------------------------------------------------
(* Properties.                                                             *)

\* buildTimeline: a dot is green exactly if there were checks in its time and all
\* of them passed; no check is lost between two dots or drawn in both.
GreenMeansAllPassed ==
  LET dots      == ServiceDots
      inside(i) == {n \in DOMAIN checks : In(checks[n].timestamp, dots[i])}
  IN  \A i \in 1..Points :
        dots[i].class = "success" <=>
          inside(i) # {} /\ \A n \in inside(i) : checks[n].ok

\* A check that finds the service down, at any time of the window but its very
\* end, makes its dot red and its light in the overview an issue, whatever other
\* checks say...
FailedCheckShows ==
  LET dots   == ServiceDots
      lights == ServiceLights
  IN  \A n \in DOMAIN checks :
        LET t == checks[n].timestamp
        IN  checks[n].state \in {"inactive", "refused"} /\ WindowStart <= t /\ t < now =>
              /\ \A i \in 1..Points : In(t, dots[i]) => dots[i].class = "error"
              /\ \A i \in 1..Count : In(t, Buckets[i]) => lights[i] = "issue"

\* ... and a failed probe makes its light an issue, up to the end of the window.
FailedProbeShows ==
  LET lights == ConnectivityLights
  IN  \A n \in DOMAIN probes :
        LET t == probes[n].timestamp
        IN  ~probes[n].ok /\ WindowStart <= t =>
              \E i \in 1..Count : /\ Buckets[i].start <= t /\ t <= Buckets[i].end
                                  /\ lights[i] = "issue"

\* No failure inside the window is hidden from the page.
FailureReachesPage == FailedCheckShows /\ FailedProbeShows

\* mapTimelineToBuckets: a green light rests on a passed check less than a dot
\* outside its ten minutes, and no check inside them, up to the end of the window,
\* found the service down; one that found it changing state can only be hidden by
\* one in the same dot that found out nothing.
GreenLightIsReal ==
  LET dots   == ServiceDots
      lights == ServiceLights
      length == DotLength
  IN  \A i \in 1..Count :
        lights[i] = "ok" =>
          /\ \E n \in DOMAIN checks :
               /\ checks[n].ok
               /\ checks[n].timestamp > Buckets[i].start - length
               /\ checks[n].timestamp < Buckets[i].end + length
          /\ \A n \in DOMAIN checks :
               In(checks[n].timestamp, Buckets[i]) =>
                 \/ checks[n].state \in {"active", "unknown"}
                 \/ /\ checks[n].state = "activating"
                    /\ \E m \in DOMAIN checks, d \in 1..Points :
                         /\ checks[m].state = "unknown"
                         /\ In(checks[n].timestamp, dots[d])
                         /\ In(checks[m].timestamp, dots[d])

\* BuildConnectivityTimeline, without its cursor: a dot is as the latest probe not
\* after its end, if that is at most the gap before its start.
DotIsLatestProbe ==
  LET D    == DrawnProbes
      dots == ConnectivityDots
      gap  == DeriveConnectivityGap(ByTime(D))
  IN  \A i \in 1..Points :
        LET dot   == dots[i]
            known == {n \in DOMAIN D : D[n].timestamp <= dot.end}
        IN  dot.class =
              IF known # {} /\ dot.start - D[Max(known)].timestamp <= gap
              THEN ConnectivityClass(D[Max(known)])
              ELSE "missing"

\* A hole after the first probe means silence: the last probe before it is further
\* back than twice the shortest time between two of those drawn, or than the
\* greatest gap.  Or else the dot ends before the newest ProbeCap probes begin:
\* what the cap takes from a long range comes off its far end.
HoleMeansSilence ==
  LET P    == ProbesInWindow
      D    == DrawnProbes
      dots == ConnectivityDots
      dist == {D[n + 1].timestamp - D[n].timestamp : n \in 1..(Len(D) - 1)}
  IN  Len(D) > 1 =>
        \A i \in 1..Points, n \in DOMAIN P :
          dots[i].class = "missing" /\ P[n].timestamp <= dots[i].end
          => \/ dots[i].start - P[n].timestamp
                  > Max({MinGap, Min({MaxGap, 2 * Min(dist)})})
             \/ /\ Len(P) > ProbeCap
                /\ dots[i].end < P[Len(P) - ProbeCap + 1].timestamp

\* And silence shows: a dot has a colour only by a probe drawn before its end, which
\* is back from its start by no more than the least gap, or than twice the distance
\* of half of all probes drawn, and in no case by more than the greatest.
SilenceShows ==
  LET D       == DrawnProbes
      dots    == ConnectivityDots
      Dist(n) == D[n + 1].timestamp - D[n].timestamp
      Usual(back) == 2 * Cardinality({n \in 1..(Len(D) - 1) : 2 * Dist(n) >= back})
                       >= Len(D) - 1
  IN  \A i \in 1..Points :
        dots[i].class # "missing" =>
          \E n \in DOMAIN D :
            LET back == dots[i].start - D[n].timestamp
            IN  /\ D[n].timestamp <= dots[i].end
                /\ \/ back <= MinGap
                   \/ Len(D) = 1 /\ back <= DefaultGap
                   \/ Len(D) > 1 /\ back <= MaxGap /\ Usual(back)

\* pickServicesRoundRobin: as many services as the limit allows, none twice; a node is
\* behind another by more than one service only when all of its services are there, and
\* this node's turn is first.
FairFor(limit) ==
  \A nodes \in SnapshotNodes :
    LET chosen == Chosen(nodes, limit)
        all    == Chosen(nodes, 0)
        Shown(n) == Cardinality({k \in DOMAIN chosen : chosen[k].node = nodes[n].id})
    IN  /\ Len(chosen) = IF limit = 0 \/ limit > Len(all) THEN Len(all) ELSE limit
        /\ Cardinality(ToSet(chosen)) = Len(chosen)
        /\ \A n, m \in DOMAIN nodes :
             \/ Shown(n) + 1 >= Shown(m)
             \/ Shown(n) = Len(nodes[n].services)
        /\ chosen # <<>> /\ Local.services # <<>> => chosen[1].node = Local.id

\* The choice is fair for every limit up to more than there are services.
ChoiceIsFair == \A limit \in 0..8 : FairFor(limit)

\* Two snapshots of the same copies, in any two orders of the map.
StableFor(limit) ==
  \A a, b \in SnapshotNodes :
    LET x == Items(a, limit)
        y == Items(b, limit)
        n == Len(a)
    IN  /\ Len(b) = n /\ Len(x) = Len(y)
        /\ x[1] = y[1]
        /\ {x[i] : i \in 1..n} = {y[i] : i \in 1..n}
        /\ \A i \in (n + 1)..Len(x) : x[i] = y[i]

\* Go's map yields the copies in any order, and the connectivity of the peers is listed
\* in that order: with two peers or more it changes places from one poll to the next.
\* Nothing else does: this node's connectivity stays first, no peer's is left out, and
\* the services after them are the same ones at the same places.
OnlyPeersChangePlaces == \A limit \in {0, 3} : StableFor(limit)
=============================================================================
