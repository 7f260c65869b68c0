---------------------------- MODULE MCStatusPage ----------------------------
(***************************************************************************)
(* StatusPage for TLC: this node with two services, a peer with three, one *)
(* of them no longer among its targets, a peer of the same name with one,  *)
(* and a peer without services.                                            *)
(***************************************************************************)
EXTENDS StatusPage

Node(id, name, isLocal, services) ==
  [id |-> id, name |-> name, isLocal |-> isLocal, services |-> services]

Service(id, name, order) == [id |-> id, name |-> name, order |-> order]

MCLocal == Node(3, 9, TRUE, <<Service(1, 1, 2), Service(2, 2, 1)>>)

MCPeerNodes ==
  {Node(1, 5, FALSE, <<Service(1, 1, 0), Service(2, 2, 2), Service(3, 3, 1)>>),
   Node(2, 5, FALSE, <<Service(1, 1, 1)>>),
   Node(4, 2, FALSE, <<>>)}

MCMoments == {0, 1, 3, 8, 9, 12, 16, 24, 25, 27}
=============================================================================
