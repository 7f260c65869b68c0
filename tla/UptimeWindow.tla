---------------------------- MODULE UptimeWindow ----------------------------
(***************************************************************************)
(* What the computed uptime says of a node whose process is killed and     *)
(* started again, against the time it was really up.                       *)
(*                                                                         *)
(* The monitor makes a round of checks when it starts and one per tick of  *)
(* a ticker it creates after the first round; an entry carries the time at *)
(* which its round began and can be read when the round is over.  Time is  *)
(* counted in units; a round lasts less than an interval, and the process  *)
(* reacts to a tick at once.  A save that fails leaves the entry in memory *)
(* alone, where readers find it, until a later save takes it along or the  *)
(* process is killed.  Every check passes: what the uptime falls short of  *)
(* 100% is what ComputeServiceUptime takes to be downtime.                 *)
(***************************************************************************)
EXTENDS Uptime

CONSTANTS Interval,    \* between two ticks
          Slots,       \* length of the window of a query, in intervals
          MaxRound,    \* longest round
          MaxNow,      \* bound on time
          MaxLives     \* bound on the number of times the process is started

ASSUME WindowAssumption == /\ Interval \in Nat \ {0}
                           /\ Slots \in Nat \ {0}
                           /\ MaxRound \in 0..(Interval - 1)
                           /\ MaxNow \in Nat
                           /\ MaxLives \in Nat

VARIABLES
  now,
  round,      \* when the round in progress began (None: no round)
  ticker,     \* when the next tick comes (None: no ticker yet)
  tick,       \* is a tick waiting in the ticker's channel?
  entries,    \* the status history, as a reader sees it
  saved,      \* how many of them the history file holds
  lost,       \* the entries that died with a process (no action reads it)
  lives       \* the processes so far, as [from, to]; to is None in a live one

vars == <<now, round, ticker, tick, entries, saved, lost, lives>>

None == -1
Service == "svc"

Up == lives # <<>> /\ lives[Len(lives)].to = None

Init == /\ now = 0
        /\ round = None
        /\ ticker = None
        /\ tick = FALSE
        /\ entries = <<>> /\ saved = 0
        /\ lost = <<>>
        /\ lives = <<>>

\* run begins with a round, before there is a ticker.
Start == /\ ~Up
         /\ Len(lives) < MaxLives
         /\ lives' = Append(lives, [from |-> now, to |-> None])
         /\ round' = now
         /\ UNCHANGED <<now, ticker, tick, entries, saved, lost>>

RoundEntry(t) ==
  [timestamp |-> t, checks |-> <<[id |-> Service, ok |-> TRUE]>>]

\* Append: the file takes every entry, or stays as it is when the save fails.  The
\* loop logs the error and goes on.
FinishRound == /\ round # None
               /\ entries' = Append(entries, RoundEntry(round))
               /\ saved' \in {Len(entries'), saved}
               /\ round' = None
               /\ ticker' = IF ticker = None THEN now + Interval ELSE ticker
               /\ UNCHANGED <<now, tick, lost, lives>>

BeginRound == /\ Up /\ round = None
              /\ tick
              /\ tick' = FALSE
              /\ round' = now
              /\ UNCHANGED <<now, ticker, entries, saved, lost, lives>>

\* What is left is the file, which the next process loads.
Kill == /\ Up
        /\ lives' = [lives EXCEPT ![Len(lives)].to = now]
        /\ round' = None /\ ticker' = None /\ tick' = FALSE
        /\ entries' = SubSeq(entries, 1, saved)
        /\ lost' = lost \o SubSeq(entries, saved + 1, Len(entries))
        /\ UNCHANGED <<now, saved>>

\* Time passes, unless the process has something to do before that.
Pass == /\ now < MaxNow
        /\ ~(tick /\ round = None)
        /\ round # None => now - round < MaxRound
        /\ now' = now + 1
        /\ IF ticker = now + 1 THEN tick' = TRUE /\ ticker' = ticker + Interval
                               ELSE UNCHANGED <<tick, ticker>>
        /\ UNCHANGED <<round, entries, saved, lost, lives>>

Next == Start \/ FinishRound \/ BeginRound \/ Kill \/ Pass

Spec == Init /\ [][Next]_vars

-----------------------------------------------------------------------------
(* A query at the present moment.                                          *)

WindowStart == now - Slots * Interval

Uptimes ==
  ComputeServiceUptime(FilterHistory(entries, WindowStart, now),
                       WindowStart, now, Interval, {Service})

Missing == Uptimes[Service].missing

\* The truth, for the same window.
EndOf(life) == IF life.to = None THEN now ELSE life.to

Overlap(life) ==
  LET from == IF life.from < WindowStart THEN WindowStart ELSE life.from
  IN  IF EndOf(life) > from THEN EndOf(life) - from ELSE 0

LivesInWindow == {i \in 1..Len(lives) : EndOf(lives[i]) >= WindowStart}

Downtime ==
  LET up[i \in 0..Len(lives)] == IF i = 0 THEN 0 ELSE up[i - 1] + Overlap(lives[i])
  IN  Slots * Interval - up[Len(lives)]

LostInWindow == {i \in 1..Len(lost) : lost[i].timestamp >= WindowStart}

\* The window lies in the time this model knows about.
InRange == WindowStart >= 0

-----------------------------------------------------------------------------
(* Properties.                                                             *)

\* The number of missing samples is the real downtime in intervals and the samples that
\* were lost because their save had failed, but for the extra sample that each start
\* adds, for the rounds that delay others (the first of a process puts off its ticker,
\* one in progress is not counted yet), and for the time in the window before its first
\* tick.
MissingTracksDowntime ==
  LET ran == Cardinality(LivesInWindow)
      due == Downtime + Cardinality(LostInWindow) * Interval
  IN  InRange => /\ Missing * Interval >= due - ran * Interval
                 /\ Missing * Interval < due + Interval + ran * 2 * MaxRound

\* "missed samples count towards downtime": a window in which the process was
\* down for an interval or more does not show 100%.  Samples that restarts add
\* make up for the missed ones, so this is not so.
OutageCounts == InRange /\ Downtime > Interval => Missing > 0
=============================================================================
