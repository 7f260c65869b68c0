------------------------------- MODULE Uptime -------------------------------
(***************************************************************************)
(* The uptime of each service over a window, as ComputeServiceUptime of    *)
(* internal/metrics derives it from the status entries in the window.      *)
(*                                                                         *)
(* An entry is [timestamp, checks], a check is [id, ok].  Left out are the *)
(* percentage, which is passing / total, and the name and last state that  *)
(* go with a service.                                                      *)
(***************************************************************************)
EXTENDS Integers, Sequences, FiniteSets

\* The entries, in order, whose times lie in a window.
Within(entries, window) ==
  LET kept[i \in 0..Len(entries)] ==
        IF i = 0 THEN <<>>
        ELSE IF entries[i].timestamp \in window THEN Append(kept[i - 1], entries[i])
        ELSE kept[i - 1]
  IN  kept[Len(entries)]

FilterHistory_EndOnly(entries, start, end) == Within(entries, 0..end)

\* filterHistory of the server and of the cluster service: both ends included.
FilterHistory(entries, start, end) == Within(entries, start..end)

\* The checks of a service, as pairs of an entry's index and a check's index.
ChecksOf(entries, id) ==
  {ij \in UNION {{i} \X (1..Len(entries[i].checks)) : i \in 1..Len(entries)} :
     entries[ij[1]].checks[ij[2]].id = id}

ServiceIDs(entries, targets) ==
  targets \cup UNION {{entries[i].checks[j].id : j \in 1..Len(entries[i].checks)} :
                        i \in 1..Len(entries)}

Ceil(a, b) == (a + b - 1) \div b

\* How many entries fewer there are than intervals in the window: a number of
\* samples, not of stretches of time without one.
MissingSlots(entries, start, end, interval) ==
  LET expected == IF interval > 0 /\ end >= start
                  THEN Ceil(end - start, interval) ELSE 0
  IN  IF expected > Len(entries) THEN expected - Len(entries) ELSE 0

\* Every missing slot counts as a failed check of every service.
ComputeServiceUptime(entries, start, end, interval, targets) ==
  [id \in ServiceIDs(entries, targets) |->
     LET checks  == ChecksOf(entries, id)
         Ok(ij)  == entries[ij[1]].checks[ij[2]].ok
         missing == MissingSlots(entries, start, end, interval)
         passing == Cardinality({ij \in checks : Ok(ij)})
         failing == Cardinality({ij \in checks : ~Ok(ij)}) + missing
     IN  [passing |-> passing, failing |-> failing, missing |-> missing,
          total |-> passing + failing]]
=============================================================================
