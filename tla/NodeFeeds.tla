------------------------------ MODULE NodeFeeds ------------------------------
(***************************************************************************)
(* The life of a process together with the connections it pushes overviews *)
(* over.  Such a connection begins as a request; when it is taken over     *)
(* from the HTTP server, Shutdown no longer knows of it, and only the end  *)
(* of the process ends it.                                                 *)
(***************************************************************************)
EXTENDS NodeLifecycle

CONSTANTS Conn, Buffer

ASSUME FeedsAssumption == Buffer \in Nat \ {0}

VARIABLE feed

Push == INSTANCE OverviewPush

NodeInit == Init /\ Push!Init

\* handleOverviewWS hijacks the connection of a request that is being served: the
\* server has one connection less.
UpgradeRequest(c) == RequestEnds /\ Push!Upgrade(c)

FeedStep(c) == Running /\ Push!Step(c) /\ UNCHANGED vars

NodeNext == \/ Next /\ UNCHANGED feed
            \/ \E c \in Conn : UpgradeRequest(c) \/ FeedStep(c)

\* A write ends by its deadline, ticks come, and a closed connection makes
\* ReadMessage return.  Clients owe nothing.
FeedFairness == \A c \in Conn : /\ WF_feed(Running /\ Push!Handler(c))
                                /\ WF_feed(Running /\ Push!Tick(c))
                                /\ WF_feed(Running /\ Push!ReaderEnds(c))

NodeSpec == NodeInit /\ [][NodeNext]_<<vars, feed>> /\ Fairness /\ FeedFairness

-----------------------------------------------------------------------------
(* Properties.                                                             *)

\* Both goroutines of a connection end when its client has left, and also when it
\* stalls for good without closing: no connection is served for ever for nobody.
AbandonedFeedEnds ==
  \A c \in Conn :
    feed[c].client # "reading" ~> \/ feed[c].client = "reading"
                                  \/ feed[c] \in {Push!Closed("none"), Push!Closed("ended")}
                                  \/ ~Running

\* The handler gives up a connection only if its client has left, or has left
\* unread all that the buffers take, whether the process is stopping or not: one
\* that reads in time is never dropped.
DropsOnlyForCause ==
  [][\A c \in Conn :
       feed[c].stage # "closed" /\ feed'[c].stage = "closed"
         => feed[c].client = "left" \/ feed[c].unread = Buffer]_feed
=============================================================================
