--------------------------- MODULE MCClusterSync ---------------------------
(***************************************************************************)
(* ClusterSync for TLC: a host that records a few entries and one that     *)
(* records at most one, as two peers with a disabled one between them, and *)
(* as two peers that share an identifier.                                  *)
(***************************************************************************)
EXTENDS ClusterSync

CONSTANTS p1, p2, h1, h2

MCPeerID == {p1, p2}
MCHost   == {h1, h2}

Peers(ids, hosts, enabled) ==
  [i \in DOMAIN ids |-> [id |-> ids[i], host |-> hosts[i], enabled |-> enabled[i]]]

MCPeerLists == {Peers(<<p1, p2, p2>>, <<h1, h1, h2>>, <<TRUE, FALSE, TRUE>>),
                Peers(<<p1, p1>>, <<h1, h2>>, <<TRUE, TRUE>>)}

MCMaxEntries == [h \in MCHost |-> IF h = h1 THEN 3 ELSE 1]
=============================================================================
