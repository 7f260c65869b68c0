--------------------------- MODULE MCClusterUptime ---------------------------
EXTENDS ClusterUptime

MCNodeFile == [interval |-> 2]

\* An aggregator with the node's interval, one whose file sets none and that has
\* the longer default, and files that are not accepted.
MCFiles == {[interval |-> 2], [interval |-> 0],
            [targets |-> <<>>],
            [peers |-> <<[id |-> "", url |-> "", enabled |-> TRUE]>>]}
=============================================================================
