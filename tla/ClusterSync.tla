----------------------------- MODULE ClusterSync -----------------------------
(***************************************************************************)
(* The loop that keeps a copy of every peer's history: cluster.Service's   *)
(* run, fetchAllPeers and fetchPeer, and the two handlers of a peer it     *)
(* calls, while the peers go on recording, lose what they had not saved    *)
(* when they restart, and come and go on the network.                      *)
(*                                                                         *)
(* A peer is a host that is asked and an identifier under which its copy   *)
(* is kept; two peers may have one identifier.  A host's log and the       *)
(* durable part of it change as DurableLog says, which StatusStore is      *)
(* shown to implement.  An entry is the host that recorded it and a number *)
(* it gives out once, so that a lost entry can be told from the one        *)
(* recorded in its place.  The 30-day range of the history request is      *)
(* taken to be long enough for the whole log.                              *)
(***************************************************************************)
EXTENDS Naturals, Sequences, SequencesExt

CONSTANTS Host,          \* the peers' base_url
          PeerID,        \* the peers' identifiers
          PeerLists,     \* what cfg.Peers may be: sequences of [id, host, enabled]
          HistoryCap,    \* historyCap of the fetching node
          PeerLimit,     \* historyLimit of the peers' servers
          MaxEntries     \* bounds on the entries each host ever records

ASSUME SyncAssumption ==
  /\ \A list \in PeerLists : list \in Seq([id : PeerID, host : Host, enabled : BOOLEAN])
  /\ HistoryCap \in Nat \ {0}
  /\ PeerLimit \in Nat \ {0}
  /\ MaxEntries \in [Host -> Nat]

VARIABLES
  config,     \* cfg.Peers
  log,        \* log[h]: the entries host h shows
  saved,      \* saved[h]: how many of them h would still have after a restart
  recorded,   \* recorded[h]: how many entries h has ever recorded
  link,       \* link[h]: h answers, with no error and within the timeouts
  stage,      \* what the loop is doing: see Stage
  turn,       \* index in config of the peer it is at
  got,        \* the status the peer gave, while its history is being fetched
  data,       \* peersData
  cancelled   \* is s.ctx done?

peers == <<config, log, saved, recorded, link>>
vars  == <<peers, stage, turn, got, data, cancelled>>

Entry == Host \X (Nat \ {0})
None  == <<>>                       \* no entry: a nil status

Stage == {"next", "status", "history", "selecting", "ended"}

EnabledPeers == {i \in 1..Len(config) : config[i].enabled}

Enabled == {config[i].id : i \in EnabledPeers}

HostsOf(p) == {config[i].host : i \in {j \in EnabledPeers : config[j].id = p}}

Asked == UNION {HostsOf(p) : p \in Enabled}

\* What peersData holds for a peer: nothing yet, an error, or a copy.
Absent == [kind |-> "absent"]
Failed == [kind |-> "error"]
Copy(status, history) == [kind |-> "copy", status |-> status, history |-> history]

IsCopy(d) == d.kind = "copy"

TypeOK == /\ config \in PeerLists
          /\ log \in [Asked -> Seq(Entry)]
          /\ \A h \in Asked : recorded[h] \in 0..MaxEntries[h]
          /\ \A h \in Asked : saved[h] \in 0..Len(log[h])
          /\ link \in [Asked -> BOOLEAN]
          /\ stage \in Stage
          /\ turn \in 1..(Len(config) + 1)
          /\ got \in Entry \cup {None}
          /\ \A p \in Enabled :
               \/ data[p] \in {Absent, Failed}
               \/ /\ data[p].status \in Entry \cup {None}
                  /\ data[p].history \in Seq(Entry)
                  /\ Len(data[p].history) <= HistoryCap
          /\ cancelled \in BOOLEAN

Init == /\ config \in PeerLists
        /\ log = [h \in Asked |-> <<>>]
        /\ saved = [h \in Asked |-> 0]
        /\ recorded = [h \in Asked |-> 0]
        /\ link \in [Asked -> BOOLEAN]
        /\ stage = "next" /\ turn = 1
        /\ got = None
        /\ data = [p \in PeerID |-> Absent]
        /\ cancelled = FALSE

-----------------------------------------------------------------------------
(* The peers and the network.                                              *)

PeerRecords(h) ==
  /\ recorded[h] < MaxEntries[h]
  /\ recorded' = [recorded EXCEPT ![h] = @ + 1]
  /\ log' = [log EXCEPT ![h] = Append(@, <<h, recorded[h] + 1>>)]
  /\ UNCHANGED <<config, saved, link, stage, turn, got, data, cancelled>>

PeerSaves(h) ==
  /\ saved' = [saved EXCEPT ![h] = Len(log[h])]
  /\ UNCHANGED <<config, log, recorded, link, stage, turn, got, data, cancelled>>

PeerRestarts(h) ==
  /\ log' = [log EXCEPT ![h] = SubSeq(@, 1, saved[h])]
  /\ UNCHANGED <<config, saved, recorded, link, stage, turn, got, data, cancelled>>

LinkChanges(h) ==
  /\ link' = [link EXCEPT ![h] = ~@]
  /\ UNCHANGED <<config, log, saved, recorded, stage, turn, got, data, cancelled>>

\* handleNodeStatus: the latest entry, if there is one.
NodeStatus(h) == IF log[h] = <<>> THEN None ELSE Last(log[h])

LastN(s, n) == SubSeq(s, Len(s) - n + 1, Len(s))

\* parseLimit: what the request asks for, and no more than the server's limit.
ParseLimit(limit) == IF limit > PeerLimit THEN PeerLimit ELSE limit

NodeHistory_KeepsFirst(h, limit) ==
  LET n == ParseLimit(limit)
  IN  IF Len(log[h]) > n THEN SubSeq(log[h], 1, n) ELSE log[h]

\* handleNodeHistory: the last entries, up to the limit.
NodeHistory(h, limit) ==
  LET n == ParseLimit(limit)
  IN  IF Len(log[h]) > n THEN LastN(log[h], n) ELSE log[h]

-----------------------------------------------------------------------------
(* The loop.                                                               *)

CapHistory_KeepsFirst(history) ==
  IF Len(history) <= 1 THEN history ELSE SubSeq(history, 1, 1)

CapHistory(history) ==
  IF Len(history) <= HistoryCap THEN history ELSE LastN(history, HistoryCap)

Peer == config[turn].id
PeerHost == config[turn].host

Fetching == stage \in {"status", "history"}

\* fetchAllPeers' loop: past the last peer, past a disabled one, or a request.
NextPeer == /\ stage = "next"
            /\ \/ turn > Len(config) /\ stage' = "selecting" /\ turn' = turn
               \/ /\ turn <= Len(config)
                  /\ IF config[turn].enabled
                     THEN stage' = "status" /\ turn' = turn
                     ELSE stage' = "next" /\ turn' = turn + 1
            /\ UNCHANGED <<peers, got, data, cancelled>>

StatusArrives == /\ stage = "status"
                 /\ link[PeerHost] /\ ~cancelled
                 /\ got' = NodeStatus(PeerHost)
                 /\ stage' = "history"
                 /\ UNCHANGED <<peers, turn, data, cancelled>>

\* A reply is kept for the peer in place of whatever was there.
HistoryArrives_Merged ==
  /\ stage = "history"
  /\ link[PeerHost] /\ ~cancelled
  /\ LET old == IF IsCopy(data[Peer]) THEN data[Peer].history ELSE <<>>
     IN  data' = [data EXCEPT ![Peer] =
                    Copy(got, CapHistory(old \o NodeHistory(PeerHost, HistoryCap)))]
  /\ got' = None
  /\ stage' = "next" /\ turn' = turn + 1
  /\ UNCHANGED <<peers, cancelled>>

HistoryArrives ==
  /\ stage = "history"
  /\ link[PeerHost] /\ ~cancelled
  /\ data' = [data EXCEPT ![Peer] =
                Copy(got, CapHistory(NodeHistory(PeerHost, HistoryCap)))]
  /\ got' = None
  /\ stage' = "next" /\ turn' = turn + 1
  /\ UNCHANGED <<peers, cancelled>>

RequestFails_EndsRound ==
  /\ Fetching
  /\ ~link[PeerHost] \/ cancelled
  /\ data' = [data EXCEPT ![Peer] = Failed]
  /\ got' = None
  /\ stage' = "next" /\ turn' = Len(config) + 1
  /\ UNCHANGED <<peers, cancelled>>

RequestFails_Ignored ==
  /\ Fetching
  /\ ~link[PeerHost] \/ cancelled
  /\ got' = None
  /\ stage' = "next" /\ turn' = turn + 1
  /\ UNCHANGED <<peers, data, cancelled>>

RequestFails_NotCancelled ==
  /\ Fetching
  /\ ~link[PeerHost]
  /\ data' = [data EXCEPT ![Peer] = Failed]
  /\ got' = None
  /\ stage' = "next" /\ turn' = turn + 1
  /\ UNCHANGED <<peers, cancelled>>

\* No connection, a timeout, a status of 300 or more, a body that does not
\* decode, or the context cancelled: the error takes the place of the copy, and
\* the loop goes on with the next peer.
RequestFails ==
  /\ Fetching
  /\ ~link[PeerHost] \/ cancelled
  /\ data' = [data EXCEPT ![Peer] = Failed]
  /\ got' = None
  /\ stage' = "next" /\ turn' = turn + 1
  /\ UNCHANGED <<peers, cancelled>>

RequestEnds == StatusArrives \/ HistoryArrives \/ RequestFails

\* select: the ticker and the context may both be ready.
SelectTick == /\ stage = "selecting"
              /\ stage' = "next" /\ turn' = 1
              /\ UNCHANGED <<peers, got, data, cancelled>>

SelectDone == /\ stage = "selecting"
              /\ cancelled
              /\ stage' = "ended"
              /\ UNCHANGED <<peers, turn, got, data, cancelled>>

\* Stop, which does not wait for the loop.
Stop == /\ cancelled' = TRUE
        /\ UNCHANGED <<peers, stage, turn, got, data>>

Loop == NextPeer \/ RequestEnds \/ SelectTick \/ SelectDone

PeerStep(h) == PeerRecords(h) \/ PeerSaves(h) \/ PeerRestarts(h) \/ LinkChanges(h)

Next == Loop \/ Stop \/ \E h \in Asked : PeerStep(h)

\* Requests end, by an answer or by their timeout; ticks come; a select that
\* finds the context done again and again does not pass it over for ever.
\* Nothing is assumed of the peers.
Fairness == /\ WF_vars(NextPeer)
            /\ WF_vars(RequestEnds)
            /\ WF_vars(SelectTick)
            /\ SF_vars(SelectDone)

Spec == Init /\ [][Next]_vars /\ Fairness

-----------------------------------------------------------------------------
(* Properties.                                                             *)

\* A copy is all of one host, even if two peers share its identifier.  Its status
\* and its history come from two requests, with appends and restarts of the host
\* in between: a status newer than all of the history shown beside it is still an
\* entry that the host recorded and then lost.  A status is never shown ahead of a
\* history that should have had it.
StatusBeyondHistoryWasLost ==
  \A p \in Enabled : IsCopy(data[p]) =>
    LET c == data[p]
    IN  \E h \in HostsOf(p) :
          /\ \A e \in Range(c.history) \cup ({c.status} \ {None}) : e[1] = h
          /\ c.status # None /\ (\A i \in 1..Len(c.history) : c.history[i][2] < c.status[2])
               => c.status \notin Range(log[h])

\* What the host still has of the history shown for it comes first, as one unbroken
\* stretch of its log: no gap, no repetition, no change of order.  All that comes
\* after it the host has lost, whatever it has recorded since.
CopyIsStretch ==
  \A p \in Enabled : IsCopy(data[p]) =>
    \E h \in HostsOf(p) :
      LET shown == data[p].history
      IN  /\ \A e \in Range(shown) : e[1] = h
          /\ \E k \in 0..Len(shown), i \in 0..Len(log[h]) :
               /\ i + k <= Len(log[h])
               /\ \A n \in 1..k : shown[n] = log[h][i + n]
               /\ \A n \in (k + 1)..Len(shown) : shown[n] \notin Range(log[h])

\* Every enabled peer is asked again and again, whatever the others do.
EveryPeerAsked ==
  \A h \in Host :
    []<>((stage = "status" /\ PeerHost = h) \/ h \notin Asked \/ cancelled)

\* A peer that stays away is shown with an error, not with old data as if new.
AbsenceIsShown ==
  \A p \in PeerID :
    <>[](p \in Enabled /\ \A h \in HostsOf(p) : ~link[h])
      => <>[](data[p] = Failed) \/ <>cancelled

\* As much of the end of a host's log as the two limits let through.
Shown(h) == LastN(log[h], Min({Len(log[h]), HistoryCap, PeerLimit}))

\* A peer that is back for good is shown as it is: once it stops changing, the
\* copy is the end of its log, with its latest status.  If two hosts share the
\* identifier, it is that of either, in turn.
CopyCatchesUp ==
  \A p \in PeerID :
    <>[](p \in Enabled /\ \A h \in HostsOf(p) : link[h]) =>
      \/ <>cancelled
      \/ <>[](\E h \in HostsOf(p) : data[p] = Copy(NodeStatus(h), Shown(h)))

\* Stop ends the loop, even in the middle of a request to a peer that hangs.
StopEnds == cancelled ~> stage = "ended"
=============================================================================
