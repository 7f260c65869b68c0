---------------------------- MODULE OverviewPush ----------------------------
(***************************************************************************)
(* The connections of /ws/overview, each served by two goroutines: the     *)
(* handler writes a snapshot, and then one per tick, under a deadline; the *)
(* reader only waits for the connection to end.                            *)
(*                                                                         *)
(* What was written and not yet read waits in buffers on the way, which    *)
(* take in a number of snapshots.                                          *)
(***************************************************************************)
EXTENDS Naturals

CONSTANTS Conn,     \* the connections there may be at a time
          Buffer    \* how many snapshots the buffers of one take

VARIABLE feed

\* stage is what the handler does next, reader what the reader does, tick whether
\* a tick waits in the ticker's channel.  A stalled client has not closed the
\* connection but does not read: a sleeping laptop, or a cable pulled out.
TypeOK ==
  feed \in [Conn -> [stage  : {"first", "selecting", "writing", "closed"},
                     reader : {"none", "reading", "ended"},
                     client : {"reading", "stalled", "left"},
                     unread : 0..Buffer,
                     tick   : BOOLEAN]]

Closed(reader) == [stage |-> "closed", reader |-> reader, client |-> "left",
                   unread |-> 0, tick |-> FALSE]

Init == feed = [c \in Conn |-> Closed("none")]

Becomes(c, f) == feed' = [feed EXCEPT ![c] = f]

\* The connection is taken over from the HTTP server, for good.
Upgrade(c) ==
  /\ feed[c] \in {Closed("none"), Closed("ended")}
  /\ Becomes(c, [stage |-> "first", reader |-> "none", client |-> "reading",
                 unread |-> 0, tick |-> FALSE])

-----------------------------------------------------------------------------
(* The handler and the reader.                                             *)

InWrite(c) == feed[c].stage \in {"first", "writing"}

\* The reader and the ticker are started after the first write.
Write(c) ==
  /\ InWrite(c)
  /\ feed[c].unread < Buffer
  /\ Becomes(c, [feed[c] EXCEPT
                   !.stage  = "selecting",
                   !.unread = @ + 1,
                   !.reader = IF feed[c].stage = "first" THEN "reading" ELSE @])

WriteFails_OneDeadline(c) ==
  InWrite(c) /\ Becomes(c, Closed(feed[c].reader))

\* There was no room within the deadline, which each write sets anew, or the
\* client has closed: the handler returns, which closes the connection.
WriteFails(c) ==
  /\ InWrite(c)
  /\ feed[c].unread = Buffer \/ feed[c].client = "left"
  /\ Becomes(c, Closed(feed[c].reader))

\* A tick that finds another one waiting is lost.
Tick(c) == /\ feed[c].stage \in {"selecting", "writing"}
           /\ ~feed[c].tick
           /\ Becomes(c, [feed[c] EXCEPT !.tick = TRUE])

SelectTick(c) ==
  /\ feed[c].stage = "selecting"
  /\ feed[c].tick
  /\ Becomes(c, [feed[c] EXCEPT !.stage = "writing", !.tick = FALSE])

SelectDone(c) == /\ feed[c].stage = "selecting"
                 /\ feed[c].reader = "ended"
                 /\ Becomes(c, Closed("ended"))

Handler(c) == Write(c) \/ WriteFails(c) \/ SelectTick(c) \/ SelectDone(c)

ReaderEnds_ConnLeftOpen(c) ==
  /\ feed[c].reader = "reading"
  /\ feed[c].client = "left" /\ feed[c].stage # "closed"
  /\ Becomes(c, [feed[c] EXCEPT !.reader = "ended"])

\* ReadMessage fails when either end has closed the connection.
ReaderEnds(c) == /\ feed[c].reader = "reading"
                 /\ feed[c].client = "left"
                 /\ Becomes(c, [feed[c] EXCEPT !.reader = "ended"])

-----------------------------------------------------------------------------
(* The client.                                                             *)

ClientMoves(c, from, to) == /\ feed[c].client \in from
                            /\ Becomes(c, [feed[c] EXCEPT !.client = to])

ClientReads(c) == /\ feed[c].client = "reading"
                  /\ feed[c].unread > 0
                  /\ Becomes(c, [feed[c] EXCEPT !.unread = @ - 1])

Client(c) == \/ ClientReads(c)
             \/ ClientMoves(c, {"reading"}, "stalled")
             \/ ClientMoves(c, {"stalled"}, "reading")
             \/ ClientMoves(c, {"reading", "stalled"}, "left")

Step(c) == Handler(c) \/ Tick(c) \/ ReaderEnds(c) \/ Client(c)
=============================================================================
