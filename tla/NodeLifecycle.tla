---------------------------- MODULE NodeLifecycle ----------------------------
(***************************************************************************)
(* The life of one jobmonitor process: main starts two polling loops (the  *)
(* status monitor and the connectivity monitor), the cluster loop and the  *)
(* web server, and undoes all of it in reverse order when a signal comes.  *)
(*                                                                         *)
(* main, each loop, the goroutine that calls Shutdown and the requests     *)
(* being served all run concurrently; when main returns they all die,      *)
(* whatever they are doing.                                                *)
(***************************************************************************)
EXTENDS Naturals

CONSTANT MaxConnections        \* bound on the connections of the server at a time

ASSUME LifecycleAssumption == MaxConnections \in Nat

VARIABLES
  config,     \* is the connectivity monitor enabled?  are there peers?
  main,       \* what main does next: see MainStage
  exit,       \* how the process ended, if it has
  loop,       \* the two loops with a Stop that waits (doneCh closed: "ended")
  stopping,   \* is the loop's stopCh closed?
  cluster,    \* the cluster loop, whose Stop only cancels a context
  cancelled,  \* is that context done?
  ctxDone,    \* is the context of signal.NotifyContext done?
  shutdown,   \* the goroutine that waits for it and calls srv.Shutdown
  open,       \* number of connections on which no request is being served
  active      \* number of those on which one is

vars == <<config, main, exit, loop, stopping, cluster, cancelled, ctxDone,
          shutdown, open, active>>

connections == <<open, active>>

Loops == {"status", "connectivity"}

MainStage == {"load", "startStatus", "startConnectivity", "startCluster",
              "notify", "listen", "serving",
              "stopSignals", "stopCluster", "stopConnectivity",
              "waitConnectivity", "stopStatus", "waitStatus", "return"}

\* A loop makes its checks, saves what they gave, and selects the next tick.
LoopStage == {"new", "checking", "saving", "selecting", "ended"}

TypeOK == /\ config \in [connectivity : BOOLEAN, peers : BOOLEAN]
          /\ main \in MainStage
          /\ exit \in {"running", "returned", "fatal", "killed"}
          /\ loop \in [Loops -> LoopStage]
          /\ stopping \in [Loops -> BOOLEAN]
          /\ cluster \in {"new", "fetching", "selecting", "ended"}
          /\ cancelled \in BOOLEAN
          /\ ctxDone \in BOOLEAN
          /\ shutdown \in {"waiting", "draining", "drained", "timedOut"}
          /\ open \in Nat
          /\ active \in Nat
          /\ open + active <= MaxConnections

Init == /\ config \in [connectivity : BOOLEAN, peers : BOOLEAN]
        /\ main = "load"
        /\ exit = "running"
        /\ loop = [m \in Loops |-> "new"]
        /\ stopping = [m \in Loops |-> FALSE]
        /\ cluster = "new"
        /\ cancelled = FALSE
        /\ ctxDone = FALSE
        /\ shutdown = "waiting"
        /\ open = 0
        /\ active = 0

Running == exit = "running"

\* One statement of main, with nothing in its way.
MainMoves(from, to) == Running /\ main = from /\ main' = to

-----------------------------------------------------------------------------
(* main, up to the point where it serves.                                  *)

\* The configuration and both histories are loaded.
Load == /\ MainMoves("load", "startStatus")
        /\ UNCHANGED <<config, exit, loop, stopping, cluster, cancelled, ctxDone,
                       shutdown, connections>>

StartStatus == /\ MainMoves("startStatus", "startConnectivity")
               /\ loop' = [loop EXCEPT !["status"] = "checking"]
               /\ UNCHANGED <<config, exit, stopping, cluster, cancelled,
                              ctxDone, shutdown, connections>>

\* A disabled connectivity monitor is done when it is started.
StartConnectivity ==
  /\ MainMoves("startConnectivity", "startCluster")
  /\ loop' = [loop EXCEPT !["connectivity"] =
                IF config.connectivity THEN "checking" ELSE "ended"]
  /\ UNCHANGED <<config, exit, stopping, cluster, cancelled, ctxDone, shutdown,
                 connections>>

StartCluster ==
  /\ MainMoves("startCluster", "notify")
  /\ cluster' = IF config.peers THEN "fetching" ELSE "ended"
  /\ UNCHANGED <<config, exit, loop, stopping, cancelled, ctxDone, shutdown,
                 connections>>

\* From here on a signal completes the context instead of killing the process.
Notify == /\ MainMoves("notify", "listen")
          /\ UNCHANGED <<config, exit, loop, stopping, cluster, cancelled,
                         ctxDone, shutdown, connections>>

\* ListenAndServe returns at once when Shutdown was called before it.
Listen == \/ /\ shutdown = "waiting"
             /\ MainMoves("listen", "serving")
             /\ UNCHANGED <<config, exit, loop, stopping, cluster, cancelled,
                            ctxDone, shutdown, connections>>
          \/ /\ shutdown # "waiting"
             /\ MainMoves("listen", "stopSignals")
             /\ UNCHANGED <<config, exit, loop, stopping, cluster, cancelled,
                            ctxDone, shutdown, connections>>

-----------------------------------------------------------------------------
(* The end of serving, and the deferred calls, last one first.             *)

\* Shutdown closes the listener and ListenAndServe returns ErrServerClosed
\* without waiting for the requests being served.
StopServing == /\ shutdown # "waiting"
               /\ MainMoves("serving", "stopSignals")
               /\ UNCHANGED <<config, exit, loop, stopping, cluster, cancelled,
                              ctxDone, shutdown, connections>>

\* log.Fatalf, when loading or serving fails: the process ends at once, and no
\* deferred call is made.
Fail == /\ Running
        /\ \/ main = "load"
           \/ main \in {"listen", "serving"} /\ shutdown = "waiting"
        /\ exit' = "fatal"
        /\ UNCHANGED <<config, main, loop, stopping, cluster, cancelled, ctxDone,
                       shutdown, connections>>

\* stop(): signals kill again, and the context is done if it was not.
StopSignals == /\ MainMoves("stopSignals", "stopCluster")
               /\ ctxDone' = TRUE
               /\ UNCHANGED <<config, exit, loop, stopping, cluster, cancelled,
                              shutdown, connections>>

StopCluster == /\ MainMoves("stopCluster", "stopConnectivity")
               /\ cancelled' = TRUE
               /\ UNCHANGED <<config, exit, loop, stopping, cluster, ctxDone,
                              shutdown, connections>>

\* The first half of Stop: nothing if the loop is done, else close stopCh.
StopLoop_WithoutClose(m, from, to) ==
  /\ MainMoves(from, to)
  /\ UNCHANGED <<config, exit, loop, stopping, cluster, cancelled, ctxDone,
                 shutdown, connections>>

StopLoop(m, from, to) ==
  /\ MainMoves(from, to)
  /\ stopping' = [stopping EXCEPT ![m] = loop[m] # "ended"]
  /\ UNCHANGED <<config, exit, loop, cluster, cancelled, ctxDone, shutdown,
                 connections>>

\* The second half: wait for doneCh.
AwaitLoop_NotAwaited(m, from, to) ==
  /\ MainMoves(from, to)
  /\ UNCHANGED <<config, exit, loop, stopping, cluster, cancelled, ctxDone,
                 shutdown, connections>>

AwaitLoop(m, from, to) ==
  /\ loop[m] = "ended"
  /\ MainMoves(from, to)
  /\ UNCHANGED <<config, exit, loop, stopping, cluster, cancelled, ctxDone,
                 shutdown, connections>>

Return == /\ Running
          /\ main = "return"
          /\ exit' = "returned"
          /\ UNCHANGED <<config, main, loop, stopping, cluster, cancelled,
                         ctxDone, shutdown, connections>>

StopLoops == \/ StopLoop("connectivity", "stopConnectivity", "waitConnectivity")
             \/ AwaitLoop("connectivity", "waitConnectivity", "stopStatus")
             \/ StopLoop("status", "stopStatus", "waitStatus")
             \/ AwaitLoop("status", "waitStatus", "return")

Main == \/ Load \/ StartStatus \/ StartConnectivity \/ StartCluster \/ Notify
        \/ Listen \/ StopServing \/ StopSignals \/ StopCluster \/ StopLoops
        \/ Return

-----------------------------------------------------------------------------
(* The loops.                                                              *)

LoopMoves(m, from, to) == /\ Running
                          /\ loop[m] = from
                          /\ loop' = [loop EXCEPT ![m] = to]
                          /\ UNCHANGED <<config, main, exit, stopping, cluster,
                                         cancelled, ctxDone, shutdown, connections>>

\* Checks and probes run under a timeout and a fresh context: Stop does not
\* interrupt them.
FinishChecks(m) == LoopMoves(m, "checking", "saving")

FinishSave_EndsOnError(m) == LoopMoves(m, "saving", "selecting")
                             \/ LoopMoves(m, "saving", "ended")

\* An error of the save is logged, and the loop goes on either way.
FinishSave(m) == LoopMoves(m, "saving", "selecting")

\* select: when a tick and stopCh are both ready, either may be taken.
SelectTick(m) == LoopMoves(m, "selecting", "checking")

SelectStop(m) == stopping[m] /\ LoopMoves(m, "selecting", "ended")

ClusterMoves(from, to) == /\ Running
                          /\ cluster = from
                          /\ cluster' = to
                          /\ UNCHANGED <<config, main, exit, loop, stopping,
                                         cancelled, ctxDone, shutdown, connections>>

ClusterFetched == ClusterMoves("fetching", "selecting")

ClusterTick == ClusterMoves("selecting", "fetching")

ClusterDone == cancelled /\ ClusterMoves("selecting", "ended")

LoopStep(m) == FinishChecks(m) \/ FinishSave(m) \/ SelectTick(m) \/ SelectStop(m)

ClusterStep == ClusterFetched \/ ClusterTick \/ ClusterDone

-----------------------------------------------------------------------------
(* Signals, requests and the orderly shutdown of the server.               *)

Signal == /\ Running
          /\ main \in {"listen", "serving", "stopSignals"}
          /\ ctxDone' = TRUE
          /\ UNCHANGED <<config, main, exit, loop, stopping, cluster, cancelled,
                         shutdown, connections>>

\* SIGKILL at any time, a second signal after stop(), or a signal before Notify.
Kill == /\ Running
        /\ exit' = "killed"
        /\ UNCHANGED <<config, main, loop, stopping, cluster, cancelled, ctxDone,
                       shutdown, connections>>

ShutdownMoves(from, to) == /\ Running
                           /\ shutdown = from
                           /\ shutdown' = to
                           /\ UNCHANGED <<config, main, exit, loop, stopping,
                                          cluster, cancelled, ctxDone, connections>>

BeginShutdown == ctxDone /\ ShutdownMoves("waiting", "draining")

Drained == open + active = 0 /\ ShutdownMoves("draining", "drained")

\* The five seconds main gives Shutdown are over.
DrainTimesOut == ShutdownMoves("draining", "timedOut")

ServerMoves(newOpen, newActive) ==
  /\ Running
  /\ open' = newOpen
  /\ active' = newActive
  /\ UNCHANGED <<config, main, exit, loop, stopping, cluster, cancelled, ctxDone,
                 shutdown>>

\* Serve accepts until it finds its listener closed, and returns then.
Connect == /\ main = "serving"
           /\ open + active < MaxConnections
           /\ ServerMoves(open + 1, active)

\* A request that comes on a connection is served whenever it comes: Shutdown only
\* closes those it finds idle.
AcceptRequest == open > 0 /\ ServerMoves(open - 1, active + 1)

\* The handler of a request returns, and the connection with it or not; during
\* Shutdown none is kept alive.
RequestEnds == active > 0 /\ ServerMoves(open, active - 1)

KeepAlive == /\ active > 0
             /\ shutdown = "waiting"
             /\ ServerMoves(open + 1, active - 1)

\* By the client, or by Shutdown.
CloseConnection == open > 0 /\ ServerMoves(open - 1, active)

Server == \/ BeginShutdown \/ Drained \/ DrainTimesOut
          \/ Connect \/ AcceptRequest \/ RequestEnds \/ KeepAlive \/ CloseConnection

-----------------------------------------------------------------------------

Next == \/ Main \/ Fail \/ ClusterStep \/ Server \/ Signal \/ Kill
        \/ \E m \in Loops : LoopStep(m)

\* main and the goroutine it starts keep running; checks end by their timeout,
\* saves end, ticks come; and a select that finds stopCh ready again and again
\* cannot pass it over for ever, because Go picks a ready case at random.
Fairness == /\ WF_vars(Main)
            /\ WF_vars(BeginShutdown)
            /\ \A m \in Loops : /\ WF_vars(FinishChecks(m))
                                /\ WF_vars(FinishSave(m))
                                /\ WF_vars(SelectTick(m))
                                /\ SF_vars(SelectStop(m))

Spec == Init /\ [][Next]_vars /\ Fairness

-----------------------------------------------------------------------------
(* Properties.                                                             *)

\* When main returns, neither monitor is in the middle of a round or of writing
\* its history file: Stop waits for the loop that the deferred call belongs to.
NoRoundCut == exit = "returned" => \A m \in Loops : loop[m] = "ended"

\* A signal that is caught ends the process, whatever the loops are doing.
SignalEndsProcess == ctxDone ~> ~Running

\* As long as the process is not stopped, the status monitor keeps checking:
\* no failed check or save ends its loop.
RoundsKeepComing == []<>(loop["status"] = "checking" \/ stopping["status"] \/ ~Running)

\* "Shutdown gracefully shuts the server down": when main returns, every request
\* has been answered or the time allowed for that has run out.  main does not
\* wait for the goroutine that calls Shutdown, so this is not so.
RequestsAnswered == exit = "returned" => active = 0 \/ shutdown = "timedOut"
=============================================================================
