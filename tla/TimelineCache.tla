---------------------------- MODULE TimelineCache ----------------------------
(***************************************************************************)
(* The cache of service timelines of server.Server, under several requests *)
(* at once and the monitor's appends: handleCluster and localPeerSnapshot  *)
(* of a server that was given no cluster service.                          *)
(*                                                                         *)
(* An entry is known by its index in the history, which only grows while   *)
(* the process lives; a timeline stands for the window it covers and the   *)
(* entries it is drawn from.  Each step of a request is one call that      *)
(* takes a lock, and requests and appends interleave between them.         *)
(***************************************************************************)
EXTENDS Integers, Sequences

CONSTANTS Request,       \* the handlers that may run at a time
          Key,           \* the windows a request may ask for: "24h", "30d"
          Duration,      \* their lengths
          MaxNow,        \* bound on the clock
          MaxEntries     \* bound on the history

ASSUME CacheAssumption == /\ Key # {}
                          /\ Duration \in [Key -> Nat]
                          /\ MaxNow \in Nat
                          /\ MaxEntries \in Nat

VARIABLES
  now,        \* the clock
  started,    \* timestamp of the round of checks in progress (None: none)
  history,    \* the timestamps of StatusStorage's entries
  version,    \* StatusStorage.version
  cache,      \* timelineCache: an entry or Absent for each key
  stage,      \* stage[r]: how far request r is
  req         \* req[r]: what it has read so far

vars == <<now, started, history, version, cache, stage, req>>

None == -1
Time == 0..MaxNow

Stage == {"idle", "parsed", "versioned", "read", "ready", "built", "saving", "done"}

Timeline == [start : Int, end : Time, entries : SUBSET Nat]
NoTimeline == [start |-> 0, end |-> 0, entries |-> {}]

\* A cache entry; version 0 with no timeline is an absent one's filling.
CacheEntry == [present : BOOLEAN, version : Nat, data : Timeline]
Absent == [present |-> FALSE, version |-> 0, data |-> NoTimeline]

\* What a request holds: its window, the version and the length of the history
\* when it read them, the index of the latest entry, and its timelines.
ReqState == [key : Key, start : Int, end : Time, version : Nat, seen : Nat,
             latest : Nat, data : Timeline]

Fresh == [key |-> CHOOSE k \in Key : TRUE, start |-> 0, end |-> 0, version |-> 0,
          seen |-> 0, latest |-> 0, data |-> NoTimeline]

TypeOK == /\ now \in Time
          /\ started \in Time \cup {None}
          /\ history \in Seq(Time)
          /\ version = Len(history)
          /\ cache \in [Key -> CacheEntry]
          /\ stage \in [Request -> Stage]
          /\ req \in [Request -> ReqState]

Init == /\ now = 0
        /\ started = None
        /\ history = <<>>
        /\ version = 0
        /\ cache = [k \in Key |-> Absent]
        /\ stage = [r \in Request |-> "idle"]
        /\ req = [r \in Request |-> Fresh]

-----------------------------------------------------------------------------
(* The clock and the monitor.                                              *)

ClockTick == /\ now < MaxNow
             /\ now' = now + 1
             /\ UNCHANGED <<started, history, version, cache, stage, req>>

BeginRound == /\ started = None
              /\ Len(history) < MaxEntries
              /\ started' = now
              /\ UNCHANGED <<now, history, version, cache, stage, req>>

AppendEntry_SameVersion ==
  /\ started # None
  /\ history' = Append(history, started)
  /\ started' = None
  /\ UNCHANGED <<now, version, cache, stage, req>>

AppendEntry == /\ started # None
               /\ history' = Append(history, started)
               /\ version' = version + 1
               /\ started' = None
               /\ UNCHANGED <<now, cache, stage, req>>

-----------------------------------------------------------------------------
(* A request.                                                              *)

\* Request r goes from one stage to another and changes nothing else but req.
Moves(r, from, to) == /\ stage[r] = from
                      /\ stage' = [stage EXCEPT ![r] = to]
                      /\ UNCHANGED <<now, started, history, version>>

\* parseWindow: the window ends now.
ParseWindow(r) == /\ Moves(r, "idle", "parsed")
                  /\ \E k \in Key :
                       req' = [req EXCEPT ![r].key = k,
                                          ![r].start = now - Duration[k],
                                          ![r].end = now]
                  /\ UNCHANGED cache

ReadVersion(r) == /\ Moves(r, "parsed", "versioned")
                  /\ req' = [req EXCEPT ![r].version = version]
                  /\ UNCHANGED cache

\* HistorySince and filterHistory; the filtering is done in Built.
ReadHistory(r) == /\ Moves(r, "versioned", "read")
                  /\ req' = [req EXCEPT ![r].seen = Len(history)]
                  /\ UNCHANGED cache

ReadLatest(r) == /\ Moves(r, "read", "ready")
                 /\ req' = [req EXCEPT ![r].latest = Len(history)]
                 /\ UNCHANGED cache

\* The timeline of the first n entries over a window.
Drawn(n, start, end) ==
  [start |-> start, end |-> end,
   entries |-> {i \in 1..n : start <= history[i] /\ history[i] <= end}]

Built(r) == Drawn(req[r].seen, req[r].start, req[r].end)

Hit_AnyVersion(r) == cache[req[r].key].present

\* timelineFromCache.
Hit(r) == /\ cache[req[r].key].present
          /\ cache[req[r].key].version = req[r].version

UseCache(r) == /\ Hit(r)
               /\ Moves(r, "ready", "done")
               /\ req' = [req EXCEPT ![r].data = cache[req[r].key].data]
               /\ UNCHANGED cache

Build(r) == /\ ~Hit(r)
            /\ Moves(r, "ready", "built")
            /\ req' = [req EXCEPT ![r].data = Built(r)]
            /\ UNCHANGED cache

CheckVersion_Skipped(r) == Moves(r, "built", "saving") /\ UNCHANGED <<cache, req>>

\* The timelines are kept only if the history is still that of the version read.
CheckVersion(r) == /\ \/ version = req[r].version /\ Moves(r, "built", "saving")
                      \/ version # req[r].version /\ Moves(r, "built", "done")
                   /\ UNCHANGED <<cache, req>>

\* saveTimelineCache.
SaveCache(r) == /\ Moves(r, "saving", "done")
                /\ cache' = [cache EXCEPT ![req[r].key] =
                               [present |-> TRUE, version |-> req[r].version,
                                data |-> req[r].data]]
                /\ UNCHANGED req

\* The response is written and the handler is free for another request.
Respond(r) == /\ Moves(r, "done", "idle")
              /\ req' = [req EXCEPT ![r] = Fresh]
              /\ UNCHANGED cache

RequestStep(r) == \/ ParseWindow(r) \/ ReadVersion(r) \/ ReadHistory(r)
                  \/ ReadLatest(r) \/ UseCache(r) \/ Build(r) \/ CheckVersion(r)
                  \/ SaveCache(r) \/ Respond(r)

Next == ClockTick \/ BeginRound \/ AppendEntry \/ \E r \in Request : RequestStep(r)

Spec == Init /\ [][Next]_vars

-----------------------------------------------------------------------------
(* Properties.                                                             *)

\* A cached timeline shows exactly the entries that its version of the history
\* has in its window: nothing appended while it was being built is half in it,
\* and nothing of a newer version is filed under an older one.
CacheMatchesVersion ==
  \A k \in Key : cache[k].present =>
    LET e == cache[k]
    IN  /\ e.version <= Len(history)
        /\ e.data = Drawn(e.version, e.data.start, e.data.end)

\* A response shows no entry fewer than the version it began with had in the
\* window of its timelines, whether they were built for it or for another.
ResponseHasItsVersion ==
  \A r \in Request : stage[r] = "done" =>
    LET q == req[r]
    IN  Drawn(q.version, q.data.start, q.data.end).entries \subseteq q.data.entries
=============================================================================
