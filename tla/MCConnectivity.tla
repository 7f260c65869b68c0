--------------------------- MODULE MCConnectivity ---------------------------
EXTENDS Connectivity

\* The probe enabled with the default interval and with shorter ones, disabled
\* after it was enabled with one of them, and a file that is not accepted.
MCFiles == {[probeEnabled |-> TRUE, probeInterval |-> 0],
            [probeEnabled |-> TRUE, probeInterval |-> 2],
            [probeEnabled |-> TRUE, probeInterval |-> 1],
            [probeEnabled |-> FALSE, probeInterval |-> 2],
            [targets |-> <<"">>]}
=============================================================================
