----------------------------- MODULE StatusStore -----------------------------
(***************************************************************************)
(* The status history of one node: storage.StatusStorage and its only      *)
(* writer, the round of checks of monitor.Monitor, in a process that may   *)
(* die at any point and be started again on the same data directory.       *)
(*                                                                         *)
(* An entry is represented by its timestamp, the only part of it the store *)
(* looks at.  All timestamps and query cutoffs are taken with              *)
(* time.Now().UTC(), which drops Go's monotonic reading, so they follow    *)
(* the wall clock and may go back when the clock is set back.              *)
(***************************************************************************)
EXTENDS Integers, Sequences, SequencesExt

CONSTANTS MaxNow,          \* bound on the wall clock
          MaxEntries       \* bound on the length of the history

ASSUME StoreAssumption == /\ MaxNow \in Nat
                          /\ MaxEntries \in Nat

VARIABLES
  now,        \* the wall clock
  setBack,    \* was the clock ever set back? (history variable)
  pc,         \* where the process is: see Stage
  started,    \* the timestamp taken at the start of the round in progress
  history,    \* StatusStorage.history
  version,    \* StatusStorage.version
  failed,     \* did the last Append return an error?
  disk        \* contents of status_history.json (<<>>: absent or empty)

vars == <<now, setBack, pc, started, history, version, failed, disk>>

Time == 0..MaxNow

\* "writing" and "renaming" are the two halves of persist, under the write lock.
Stage == {"down", "idle", "checking", "writing", "renaming"}

Locked == pc \in {"writing", "renaming"}

TypeOK == /\ now \in Time
          /\ setBack \in BOOLEAN
          /\ pc \in Stage
          /\ started \in Time
          /\ history \in Seq(Time)
          /\ version \in Nat
          /\ failed \in BOOLEAN
          /\ disk \in Seq(Time)

Init == /\ now = 0
        /\ setBack = FALSE
        /\ pc = "down"
        /\ started = 0
        /\ history = <<>>
        /\ version = 0
        /\ failed = FALSE
        /\ disk = <<>>

-----------------------------------------------------------------------------
(* Slips the code could contain: each takes the place of the definition it *)
(* is named after in a run that must then report a violated property.      *)

Boot_WithoutLoad ==
  /\ pc = "down"
  /\ pc' = "idle"
  /\ history' = <<>>
  /\ version' = 0
  /\ UNCHANGED <<now, setBack, started, failed, disk>>

AppendEntry_NewestFirst ==
  /\ pc = "checking"
  /\ pc' = "writing"
  /\ history' = <<started>> \o history
  /\ version' = version + 1
  /\ UNCHANGED <<now, setBack, started, failed, disk>>

WriteTemp_InPlace ==
  /\ pc = "writing"
  /\ pc' = "renaming"
  /\ disk' = <<>>
  /\ UNCHANGED <<now, setBack, started, history, version, failed>>

ReplaceFileFails_Unreported ==
  /\ pc = "renaming"
  /\ pc' = "idle"
  /\ failed' = FALSE
  /\ UNCHANGED <<now, setBack, started, history, version, disk>>

-----------------------------------------------------------------------------
(* The process: start, rounds of checks, death.                            *)

\* NewStatusStorage: load the file; its entries are the first versions.
Boot == /\ pc = "down"
        /\ pc' = "idle"
        /\ history' = disk
        /\ version' = Len(disk)
        /\ UNCHANGED <<now, setBack, started, failed, disk>>

\* RunOnce takes the entry's timestamp before the first check ...
BeginRound == /\ pc = "idle"
              /\ Len(history) < MaxEntries
              /\ pc' = "checking"
              /\ started' = now
              /\ UNCHANGED <<now, setBack, history, version, failed, disk>>

\* ... and appends the entry after the last one, then persists under the lock.
AppendEntry == /\ pc = "checking"
               /\ pc' = "writing"
               /\ history' = Append(history, started)
               /\ version' = version + 1
               /\ UNCHANGED <<now, setBack, started, failed, disk>>

\* persist writes a temporary file of a fresh name, which nothing ever reads, so
\* that what a failure or a kill leaves of it does not matter and is left out.
WriteTemp == /\ pc = "writing"
             /\ pc' = "renaming"
             /\ UNCHANGED <<now, setBack, started, history, version, failed, disk>>

WriteTempFails == /\ pc = "writing"
                  /\ pc' = "idle"
                  /\ failed' = TRUE
                  /\ UNCHANGED <<now, setBack, started, history, version, disk>>

ReplaceFile == /\ pc = "renaming"
               /\ pc' = "idle"
               /\ disk' = history
               /\ failed' = FALSE
               /\ UNCHANGED <<now, setBack, started, history, version>>

ReplaceFileFails == /\ pc = "renaming"
                    /\ pc' = "idle"
                    /\ failed' = TRUE
                    /\ UNCHANGED <<now, setBack, started, history, version, disk>>

\* The process is killed: the memory is gone, the files stay as they are.
Crash == /\ pc # "down"
         /\ pc' = "down"
         /\ started' = 0
         /\ history' = <<>>
         /\ version' = 0
         /\ failed' = FALSE
         /\ UNCHANGED <<now, setBack, disk>>

ClockForward == /\ now < MaxNow
                /\ now' = now + 1
                /\ UNCHANGED <<setBack, pc, started, history, version, failed, disk>>

ClockBack == /\ now' \in 0..(now - 1)
             /\ setBack' = TRUE
             /\ UNCHANGED <<pc, started, history, version, failed, disk>>

Round == \/ BeginRound \/ AppendEntry
         \/ WriteTemp \/ WriteTempFails \/ ReplaceFile \/ ReplaceFileFails

Next == Boot \/ Round \/ Crash \/ ClockForward \/ ClockBack

Spec == Init /\ [][Next]_vars

-----------------------------------------------------------------------------
(* Queries.  Readers wait for the lock, so they run when ~Locked.          *)

\* sort.Search over 0..n-1: the first i at which Holds, if Holds is monotone.
SortSearch(n, Holds) ==
  LET f[ij \in (0..n) \X (0..n)] ==
        LET i == ij[1]
            j == ij[2]
            h == (i + j) \div 2
        IN  IF i >= j THEN i
            ELSE IF Holds[h] THEN f[<<i, h>>] ELSE f[<<h + 1, j>>]
  IN  f[<<0, n>>]

HistorySince_Strict(cutoff) ==
  LET n   == Len(history)
      idx == SortSearch(n, [i \in 0..(n - 1) |-> history[i + 1] > cutoff])
  IN  SubSeq(history, idx + 1, n)

HistorySince(cutoff) ==
  LET n   == Len(history)
      idx == SortSearch(n, [i \in 0..(n - 1) |-> history[i + 1] >= cutoff])
  IN  SubSeq(history, idx + 1, n)

-----------------------------------------------------------------------------
(* Properties.                                                             *)

\* The file is always an initial part of the history in memory: a persist that
\* failed is made good by the next one, and a restart never brings back an
\* entry out of place (storage.go, Append, persist and load).
DiskIsPrefix == pc # "down" => IsPrefix(disk, history)

\* When Append has returned nil, and until the next round's Append, the file
\* holds every entry a reader can see, those of earlier failed appends included.
NilErrorMeansDurable == pc \in {"idle", "checking"} /\ ~failed => disk = history

\* The history is in chronological order, as HistoryN's comment says and
\* ComputeServiceUptime assumes, as long as nobody sets the clock back: rounds
\* take their timestamp early and append late, but one after the other.
HistorySorted ==
  ~setBack => \A i, j \in 1..Len(history) : i < j => history[i] <= history[j]

\* As long as the clock is not set back, the binary search of HistorySince cuts the
\* history into the entries before the cutoff and, returned, exactly those at or after
\* it, for every cutoff, after failed saves and restarts too.  Once it was set back,
\* the search may end anywhere.
HistorySinceExact ==
  ~setBack /\ pc # "down" /\ ~Locked =>
    \A cutoff \in 0..(MaxNow + 1) :
      \E k \in 0..Len(history) :
        /\ HistorySince(cutoff) = SubSeq(history, k + 1, Len(history))
        /\ \A i \in 1..Len(history) : history[i] >= cutoff <=> i > k

\* The file never loses or alters an entry it holds, across failed persists,
\* kills between the two steps of a persist, and restarts.
DurableNeverLost == [][IsPrefix(disk, disk')]_vars

\* The store implements a log whose durable part survives restarts.
Log == INSTANCE DurableLog WITH
         Entry <- Time,
         log   <- IF pc = "down" THEN disk ELSE history,
         saved <- Len(disk)

ImplementsDurableLog == Log!Spec
=============================================================================
