--------------------------- MODULE NodeFeedsProofs ---------------------------
(***************************************************************************)
(* Proofs about NodeLifecycle and NodeFeeds, for any number of connections *)
(* and buffers of any size: what main's deferred calls guarantee when it   *)
(* returns; a process with WebSocket clients implements NodeLifecycle, so  *)
(* that all of it holds of that too, and gives up no connection without a  *)
(* cause.                                                                  *)
(***************************************************************************)
EXTENDS NodeFeeds, TLAPS

-----------------------------------------------------------------------------
(* The process without its connections.                                    *)

\* Where main can be once it has begun to stop the loops.
Unwinding == {"waitConnectivity", "stopStatus", "waitStatus", "return"}

\* Each deferred Stop has returned before main gets past it.
StopsInOrder ==
  /\ main \in {"stopStatus", "waitStatus", "return"} => loop["connectivity"] = "ended"
  /\ main = "return" => loop["status"] = "ended"
  /\ exit = "returned" => main = "return"
  /\ \A m \in Loops : stopping[m] => main \in Unwinding

\* The inductive invariant.
LifeInv == TypeOK /\ StopsInOrder

\* Types are kept by every step.
LEMMA TypeStep == TypeOK /\ [Next]_vars => TypeOK'
<1> SUFFICES ASSUME TypeOK, [Next]_vars PROVE TypeOK'
  OBVIOUS
<1> USE LifecycleAssumption DEF TypeOK, Loops, LoopStage, MainStage, Running, connections
<1>1. CASE Main
  <2>1. CASE Load \/ Notify \/ Listen \/ StopServing
    BY <2>1 DEF Load, Notify, Listen, StopServing, MainMoves
  <2>2. CASE StartStatus \/ StartConnectivity \/ StartCluster
    BY <2>2 DEF StartStatus, StartConnectivity, StartCluster, MainMoves
  <2>3. CASE StopSignals \/ StopCluster \/ Return
    BY <2>3 DEF StopSignals, StopCluster, Return, MainMoves
  <2>4. CASE StopLoops
    BY <2>4 DEF StopLoops, StopLoop, AwaitLoop, MainMoves
  <2> QED BY <1>1, <2>1, <2>2, <2>3, <2>4 DEF Main
<1>2. CASE Fail \/ Signal \/ Kill
  BY <1>2 DEF Fail, Signal, Kill
<1>3. CASE ClusterStep
  BY <1>3 DEF ClusterStep, ClusterFetched, ClusterTick, ClusterDone, ClusterMoves
<1>4. CASE Server
  <2>1. CASE BeginShutdown \/ Drained \/ DrainTimesOut
    BY <2>1 DEF BeginShutdown, Drained, DrainTimesOut, ShutdownMoves
  <2>2. CASE Connect \/ AcceptRequest \/ CloseConnection
    BY <2>2 DEF Connect, AcceptRequest, CloseConnection, ServerMoves
  <2>3. CASE RequestEnds \/ KeepAlive
    BY <2>3 DEF RequestEnds, KeepAlive, ServerMoves
  <2> QED BY <1>4, <2>1, <2>2, <2>3 DEF Server
<1>5. ASSUME NEW m \in Loops, LoopStep(m) PROVE TypeOK'
  BY <1>5 DEF LoopStep, FinishChecks, FinishSave, SelectTick, SelectStop, LoopMoves
<1>6. CASE UNCHANGED vars
  BY <1>6 DEF vars
<1> QED
  BY <1>1, <1>2, <1>3, <1>4, <1>5, <1>6 DEF Next

\* So is the order of the stops: a loop that has ended never starts again.
LEMMA OrderStep == LifeInv /\ [Next]_vars => StopsInOrder'
<1> SUFFICES ASSUME TypeOK, StopsInOrder, [Next]_vars PROVE StopsInOrder'
  BY DEF LifeInv
<1> USE DEF TypeOK, StopsInOrder, Unwinding, Loops, Running, connections
<1>1. CASE Main
  <2>1. CASE Load \/ Notify \/ Listen \/ StopServing
    BY <2>1 DEF Load, Notify, Listen, StopServing, MainMoves
  <2>2. CASE StartStatus \/ StartConnectivity \/ StartCluster
    BY <2>2 DEF StartStatus, StartConnectivity, StartCluster, MainMoves
  <2>3. CASE StopSignals \/ StopCluster \/ Return
    BY <2>3 DEF StopSignals, StopCluster, Return, MainMoves
  <2>4. CASE StopLoops
    BY <2>4 DEF StopLoops, StopLoop, AwaitLoop, MainMoves
  <2> QED BY <1>1, <2>1, <2>2, <2>3, <2>4 DEF Main
<1>2. CASE Fail \/ Signal \/ Kill
  BY <1>2 DEF Fail, Signal, Kill
<1>3. CASE ClusterStep
  BY <1>3 DEF ClusterStep, ClusterFetched, ClusterTick, ClusterDone, ClusterMoves
<1>4. CASE Server
  BY <1>4 DEF Server, BeginShutdown, Drained, DrainTimesOut, ShutdownMoves,
     Connect, AcceptRequest, RequestEnds, KeepAlive, CloseConnection, ServerMoves
<1>5. ASSUME NEW m \in Loops, LoopStep(m) PROVE StopsInOrder'
  BY <1>5 DEF LoopStep, FinishChecks, FinishSave, SelectTick, SelectStop, LoopMoves
<1>6. CASE UNCHANGED vars
  BY <1>6 DEF vars
<1> QED
  BY <1>1, <1>2, <1>3, <1>4, <1>5, <1>6 DEF Next

\* The invariant holds throughout every behaviour.
THEOREM LifeInvariant == Spec => []LifeInv
<1>1. Init => LifeInv
  <2> SUFFICES ASSUME Init PROVE LifeInv
    OBVIOUS
  <2>1. cancelled \in BOOLEAN /\ ctxDone \in BOOLEAN /\ stopping \in [Loops -> BOOLEAN]
    BY Zenon DEF Init
  <2>2. TypeOK
    BY <2>1, LifecycleAssumption DEF Init, TypeOK, Loops, LoopStage, MainStage
  <2>3. \A m \in Loops : ~stopping[m]
    BY Zenon DEF Init
  <2>4. StopsInOrder
    BY <2>3 DEF Init, StopsInOrder
  <2> QED BY <2>2, <2>4 DEF LifeInv
<1>2. LifeInv /\ [Next]_vars => LifeInv'
  BY TypeStep, OrderStep DEF LifeInv
<1> QED
  BY <1>1, <1>2, PTL DEF Spec

\* When main returns no monitor is in the middle of a round or of a save.
THEOREM ReturnCutsNoRound == Spec => []NoRoundCut
<1>1. LifeInv => NoRoundCut
  BY DEF LifeInv, StopsInOrder, NoRoundCut, Loops
<1> QED
  BY <1>1, LifeInvariant, PTL

-----------------------------------------------------------------------------
(* With them.                                                              *)

\* A step of the composition is one of the process or leaves it alone.
LEMMA StepMaps == [NodeNext]_<<vars, feed>> => [Next]_vars
<1> SUFFICES ASSUME [NodeNext]_<<vars, feed>> PROVE [Next]_vars
  OBVIOUS
<1>1. CASE Next
  BY <1>1
<1>2. ASSUME NEW c \in Conn, UpgradeRequest(c) PROVE Next
  BY <1>2 DEF UpgradeRequest, Next, Server
<1>3. ASSUME NEW c \in Conn, FeedStep(c) PROVE UNCHANGED vars
  BY <1>3 DEF FeedStep
<1>4. CASE UNCHANGED <<vars, feed>>
  BY <1>4
<1> QED
  BY <1>1, <1>2, <1>3, <1>4 DEF NodeNext

\* handleOverviewWS adds nothing to the life of a process but the end of a request:
\* a process with connections is one of NodeLifecycle, fairness included.
THEOREM NodeImplementsLifecycle == NodeSpec => Spec
<1>1. NodeInit => Init
  BY DEF NodeInit
<1> QED
  BY <1>1, StepMaps, PTL DEF NodeSpec, Spec

\* So neither monitor is inside a round when main returns, WebSocket clients or not.
THEOREM NodeReturnCutsNoRound == NodeSpec => []NoRoundCut
  BY NodeImplementsLifecycle, ReturnCutsNoRound, PTL

-----------------------------------------------------------------------------
(* The connections.                                                        *)

\* What a connection may be.
Shape == [stage  : {"first", "selecting", "writing", "closed"},
          reader : {"none", "reading", "ended"},
          client : {"reading", "stalled", "left"},
          unread : 0..Buffer,
          tick   : BOOLEAN]

\* A step of a connection replaces it by one of the same shape and leaves the
\* others alone.
LEMMA FeedChange ==
  ASSUME Push!TypeOK, NEW c \in Conn, NEW f \in Shape, Push!Becomes(c, f)
  PROVE  /\ Push!TypeOK'
         /\ feed'[c] = f
         /\ \A d \in Conn \ {c} : feed'[d] = feed[d]
  BY DEF Push!TypeOK, Push!Becomes, Shape

\* The upgrade of a request gives a connection that is about to be served.
LEMMA UpgradeShape ==
  ASSUME Push!TypeOK, NEW c \in Conn, Push!Upgrade(c)
  PROVE  /\ Push!TypeOK'
         /\ feed'[c].stage = "first" /\ feed'[c].reader = "none"
         /\ \A d \in Conn \ {c} : feed'[d] = feed[d]
<1> DEFINE f == [stage |-> "first", reader |-> "none", client |-> "reading",
                 unread |-> 0, tick |-> FALSE]
<1>1. f \in Shape
  BY FeedsAssumption DEF Shape
<1>2. Push!Becomes(c, f)
  BY DEF Push!Upgrade
<1>3. /\ Push!TypeOK'
      /\ feed'[c] = f
      /\ \A d \in Conn \ {c} : feed'[d] = feed[d]
  <2> HIDE DEF f
  <2> QED BY <1>1, <1>2, FeedChange
<1> QED
  BY <1>3

\* A reader that has ended did so because the client had left: without it, the end
\* of the reader would not excuse that of the handler.
FeedInv == Push!TypeOK /\ \A c \in Conn : feed[c].reader = "ended" => feed[c].client = "left"

\* What a step may do to one connection, from g to f.
Excused(g, f) ==
  /\ f.reader = "ended" => f.client = "left"
  /\ g.stage # "closed" /\ f.stage = "closed" => g.client = "left" \/ g.unread = Buffer

\* Every step of the handler, the reader, the ticker and the client is excused.
LEMMA StepExcused ==
  ASSUME FeedInv, NEW c \in Conn, Push!Step(c)
  PROVE  \E f \in Shape : Push!Becomes(c, f) /\ Excused(feed[c], f)
<1>1. feed[c] \in Shape
  BY DEF FeedInv, Push!TypeOK, Shape
<1>2. feed[c].reader = "ended" => feed[c].client = "left"
  BY DEF FeedInv
<1>3. Push!Closed(feed[c].reader) \in Shape
  BY <1>1, FeedsAssumption DEF Push!Closed, Shape
<1>4. CASE Push!Write(c)
  <2> DEFINE f == [feed[c] EXCEPT
                     !.stage  = "selecting",
                     !.unread = @ + 1,
                     !.reader = IF feed[c].stage = "first" THEN "reading" ELSE @]
  <2>1. f \in Shape
    <3>1. feed[c].unread + 1 \in 0..Buffer
      BY <1>1, <1>4, FeedsAssumption DEF Push!Write, Shape
    <3>2. (IF feed[c].stage = "first" THEN "reading" ELSE feed[c].reader)
            \in {"none", "reading", "ended"}
      BY <1>1 DEF Shape
    <3> QED
      BY <1>1, <3>1, <3>2 DEF Shape
  <2>2. Push!Becomes(c, f)
    BY <1>4 DEF Push!Write
  <2>3. Excused(feed[c], f)
    BY <1>1, <1>2 DEF Excused, Shape
  <2> QED
    BY <2>1, <2>2, <2>3
<1>5. CASE Push!WriteFails(c)
  <2>1. Push!Becomes(c, Push!Closed(feed[c].reader))
    BY <1>5 DEF Push!WriteFails
  <2>2. Excused(feed[c], Push!Closed(feed[c].reader))
    BY <1>5 DEF Push!WriteFails, Push!Closed, Excused
  <2> QED
    BY <1>3, <2>1, <2>2
<1>6. CASE Push!SelectTick(c)
  <2> DEFINE f == [feed[c] EXCEPT !.stage = "writing", !.tick = FALSE]
  <2>1. f \in Shape
    BY <1>1 DEF Shape
  <2>2. Push!Becomes(c, f)
    BY <1>6 DEF Push!SelectTick
  <2>3. Excused(feed[c], f)
    BY <1>1, <1>2 DEF Excused, Shape
  <2> QED
    BY <2>1, <2>2, <2>3
<1>7. CASE Push!SelectDone(c)
  <2>1. feed[c].reader = "ended" /\ Push!Becomes(c, Push!Closed(feed[c].reader))
    BY <1>7 DEF Push!SelectDone
  <2>2. Excused(feed[c], Push!Closed(feed[c].reader))
    BY <1>2, <2>1 DEF Push!Closed, Excused
  <2> QED
    BY <1>3, <2>1, <2>2
<1>8. CASE Push!Tick(c)
  <2> DEFINE f == [feed[c] EXCEPT !.tick = TRUE]
  <2>1. f \in Shape
    BY <1>1 DEF Shape
  <2>2. Push!Becomes(c, f)
    BY <1>8 DEF Push!Tick
  <2>3. Excused(feed[c], f)
    BY <1>1, <1>2 DEF Excused, Shape
  <2> QED
    BY <2>1, <2>2, <2>3
<1>9. CASE Push!ReaderEnds(c)
  <2> DEFINE f == [feed[c] EXCEPT !.reader = "ended"]
  <2>1. f \in Shape
    BY <1>1 DEF Shape
  <2>2. Push!Becomes(c, f)
    BY <1>9 DEF Push!ReaderEnds
  <2>3. Excused(feed[c], f)
    BY <1>1, <1>9 DEF Push!ReaderEnds, Excused, Shape
  <2> QED
    BY <2>1, <2>2, <2>3
<1>10. CASE Push!ClientReads(c)
  <2> DEFINE f == [feed[c] EXCEPT !.unread = @ - 1]
  <2>1. f \in Shape
    BY <1>1, <1>10, FeedsAssumption DEF Push!ClientReads, Shape
  <2>2. Push!Becomes(c, f)
    BY <1>10 DEF Push!ClientReads
  <2>3. Excused(feed[c], f)
    BY <1>1, <1>2 DEF Excused, Shape
  <2> QED
    BY <2>1, <2>2, <2>3
<1>11. ASSUME NEW from, "left" \notin from, NEW to \in {"reading", "stalled", "left"},
              Push!ClientMoves(c, from, to)
       PROVE  \E f \in Shape : Push!Becomes(c, f) /\ Excused(feed[c], f)
  <2> DEFINE f == [feed[c] EXCEPT !.client = to]
  <2>1. f \in Shape
    BY <1>1 DEF Shape
  <2>2. Push!Becomes(c, f) /\ feed[c].client \in from
    BY <1>11 DEF Push!ClientMoves
  <2>3. Excused(feed[c], f)
    BY <1>1, <1>2, <1>11, <2>2 DEF Excused, Shape
  <2> QED
    BY <2>1, <2>2, <2>3
<1>12. CASE Push!Client(c)
  BY <1>10, <1>11, <1>12 DEF Push!Client
<1> QED
  BY <1>4, <1>5, <1>6, <1>7, <1>8, <1>9, <1>12 DEF Push!Step, Push!Handler

\* The whole of a step of the composition: the invariant is kept, and a connection
\* that closes was excused.
LEMMA NodeStep ==
  ASSUME FeedInv, [NodeNext]_<<vars, feed>>
  PROVE  /\ FeedInv'
         /\ \A c \in Conn :
              feed[c].stage # "closed" /\ feed'[c].stage = "closed"
                => feed[c].client = "left" \/ feed[c].unread = Buffer
<1>1. CASE UNCHANGED feed
  BY <1>1 DEF FeedInv, Push!TypeOK
<1>2. ASSUME NEW c \in Conn, UpgradeRequest(c)
      PROVE  /\ Push!TypeOK'
             /\ feed'[c].stage = "first" /\ feed'[c].reader = "none"
             /\ \A d \in Conn \ {c} : feed'[d] = feed[d]
  BY <1>2, UpgradeShape DEF UpgradeRequest, FeedInv
<1>3. ASSUME NEW c \in Conn, FeedStep(c)
      PROVE  /\ Push!TypeOK'
             /\ Excused(feed[c], feed'[c])
             /\ \A d \in Conn \ {c} : feed'[d] = feed[d]
  <2>1. PICK f \in Shape : Push!Becomes(c, f) /\ Excused(feed[c], f)
    BY <1>3, StepExcused DEF FeedStep
  <2> QED
    BY <2>1, FeedChange DEF FeedInv
<1>4. CASE \E c \in Conn : UpgradeRequest(c)
  BY <1>2, <1>4 DEF FeedInv
<1>5. CASE \E c \in Conn : FeedStep(c)
  BY <1>3, <1>5 DEF FeedInv, Excused
<1> QED
  BY <1>1, <1>4, <1>5 DEF NodeNext

\* A client that reads in time is never dropped by handleOverviewWS, whatever the
\* process and the other connections do meanwhile.
THEOREM FeedDropsForCause == NodeSpec => DropsOnlyForCause
<1>1. NodeInit => FeedInv
  <2> SUFFICES ASSUME NodeInit PROVE FeedInv
    OBVIOUS
  <2>1. Push!Closed("none") \in Shape
    BY FeedsAssumption DEF Push!Closed, Shape
  <2>2. feed = [c \in Conn |-> Push!Closed("none")]
    BY DEF NodeInit, Push!Init
  <2>3. Push!TypeOK
    BY <2>1, <2>2 DEF Push!TypeOK, Shape
  <2> QED
    BY <2>2, <2>3 DEF FeedInv, Push!Closed
<1>2. FeedInv /\ [NodeNext]_<<vars, feed>> => FeedInv'
  BY NodeStep
<1>3. FeedInv /\ [NodeNext]_<<vars, feed>> =>
        [\A c \in Conn :
           feed[c].stage # "closed" /\ feed'[c].stage = "closed"
             => feed[c].client = "left" \/ feed[c].unread = Buffer]_feed
  BY NodeStep
<1> QED
  BY <1>1, <1>2, <1>3, PTL DEF NodeSpec, DropsOnlyForCause
=============================================================================
