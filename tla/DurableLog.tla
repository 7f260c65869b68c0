----------------------------- MODULE DurableLog -----------------------------
(***************************************************************************)
(* What the status history promises, with no process, lock or file in it:  *)
(* a log that readers see, of which a prefix has been made durable.  The   *)
(* log only grows, saving makes all of it durable, and a restart falls     *)
(* back to exactly the durable prefix: entries are never reordered,        *)
(* duplicated or altered, and what was saved is never lost.                *)
(***************************************************************************)
EXTENDS Naturals, Sequences

CONSTANT Entry      \* the possible log entries

VARIABLES log,      \* the entries a reader sees
          saved     \* how many of them, from the first, are durable

vars == <<log, saved>>

TypeOK == log \in Seq(Entry) /\ saved \in 0..Len(log)

Init == log = <<>> /\ saved = 0

Extend == /\ \E e \in Entry : log' = Append(log, e)
          /\ UNCHANGED saved

Save == /\ saved' = Len(log)
        /\ UNCHANGED log

Restart == /\ log' = SubSeq(log, 1, saved)
           /\ UNCHANGED saved

Next == Extend \/ Save \/ Restart

Spec == Init /\ [][Next]_vars
=============================================================================
