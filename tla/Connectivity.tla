---------------------------- MODULE Connectivity ----------------------------
(***************************************************************************)
(* The connectivity samples of one node: monitor.ConnectivityMonitor, which *)
(* keeps at most maxHistory of them in memory, and                         *)
(* storage.ConnectivityStorage, to whose file it writes its whole history  *)
(* after every probe, outside the lock.  The process may die at any point  *)
(* and be started again, with a configuration that gives the probe another *)
(* interval, hence another maxHistory, or disables it.                     *)
(*                                                                         *)
(* Samples are numbered in the order in which they are taken.              *)
(***************************************************************************)
EXTENDS Configuration, SequencesExt

CONSTANTS Files,           \* the configuration files it may be started with
          MaxSamples       \* bound on the samples ever taken

ASSUME ConnectivityAssumption ==
  /\ MaxSamples \in Nat
  /\ \A f \in Files :
       /\ "probeEnabled"  \in DOMAIN f => f.probeEnabled \in BOOLEAN
       /\ "probeInterval" \in DOMAIN f => f.probeInterval \in Int

VARIABLES
  pc,          \* where the process is: see Stage
  maxHistory,  \* of the running process
  enabled,     \* is the probe enabled in the running process?
  taken,       \* number of samples ever taken
  history,     \* ConnectivityMonitor.history
  latest,      \* ConnectivityMonitor.latest (None: nil)
  snapshot,    \* the copy of history that a probe is about to save
  stored,      \* ConnectivityStorage.history
  failed,      \* did the last Replace return an error?
  disk         \* contents of connectivity_history.json

vars == <<pc, maxHistory, enabled, taken, history, latest, snapshot, stored,
          failed, disk>>

None == 0
Sample == 1..MaxSamples

\* "probed": the sample is in memory and its persistHistory has not begun;
\* "writing" and "renaming" are the two halves of persistLocked.
Stage == {"down", "idle", "probing", "probed", "writing", "renaming"}

TypeOK == /\ pc \in Stage
          /\ maxHistory \in Nat
          /\ enabled \in BOOLEAN
          /\ taken \in 0..MaxSamples
          /\ history \in Seq(Sample)
          /\ latest \in Sample \cup {None}
          /\ snapshot \in Seq(Sample)
          /\ stored \in Seq(Sample)
          /\ failed \in BOOLEAN
          /\ disk \in Seq(Sample)

Init == /\ pc = "down"
        /\ maxHistory = 0
        /\ enabled = FALSE
        /\ taken = 0
        /\ history = <<>> /\ latest = None
        /\ snapshot = <<>> /\ stored = <<>>
        /\ failed = FALSE
        /\ disk = <<>>

-----------------------------------------------------------------------------

LastN(s, n) == SubSeq(s, Len(s) - n + 1, Len(s))

Capped_OneMore(s, cap) == IF Len(s) > cap + 1 THEN LastN(s, cap) ELSE s

\* Both places that cut a history keep its most recent samples.
Capped(s, cap) == IF Len(s) > cap THEN LastN(s, cap) ELSE s

\* NewConnectivityStorage: a file that is missing or empty is a history without
\* samples; one that does not parse, which no rename leaves behind, ends main.
LoadStored == disk

LatestOf(s) == IF s = <<>> THEN None ELSE Last(s)

Boot_Unseeded ==
  /\ pc = "down"
  /\ \E cfg \in Load(Files) :
       /\ maxHistory' = MaxHistory(cfg)
       /\ enabled' = cfg.probeEnabled
       /\ stored' = disk
       /\ history' = <<>>
       /\ latest' = None
  /\ pc' = "idle"
  /\ UNCHANGED <<taken, snapshot, failed, disk>>

\* NewConnectivityStorage loads the file; NewConnectivityMonitor sets the cap for
\* the configured interval and takes the last samples over, enabled or not.
Boot == /\ pc = "down"
        /\ \E cfg \in Load(Files) :
             /\ maxHistory' = MaxHistory(cfg)
             /\ enabled' = cfg.probeEnabled
             /\ stored' = LoadStored
             /\ history' = Capped(LoadStored, MaxHistory(cfg))
             /\ latest' = LatestOf(history')
        /\ pc' = "idle"
        /\ UNCHANGED <<taken, snapshot, failed, disk>>

BeginProbe == /\ pc = "idle"
              /\ enabled
              /\ taken < MaxSamples
              /\ pc' = "probing"
              /\ UNCHANGED <<maxHistory, enabled, taken, history, latest, snapshot,
                             stored, failed, disk>>

RecordSample_LatestAfterUnlock ==
  /\ pc = "probing"
  /\ taken' = taken + 1
  /\ history' = Capped(Append(history, taken + 1), maxHistory)
  /\ snapshot' = history'
  /\ pc' = "probed"
  /\ UNCHANGED <<maxHistory, enabled, latest, stored, failed, disk>>

\* The critical section of probe.
RecordSample ==
  /\ pc = "probing"
  /\ taken' = taken + 1
  /\ latest' = taken + 1
  /\ history' = Capped(Append(history, taken + 1), maxHistory)
  /\ snapshot' = history'
  /\ pc' = "probed"
  /\ UNCHANGED <<maxHistory, enabled, stored, failed, disk>>

\* Replace: the store's copy changes before the file, and stays if that fails.
ReplaceStored == /\ pc = "probed"
                 /\ stored' = snapshot
                 /\ pc' = "writing"
                 /\ UNCHANGED <<maxHistory, enabled, taken, history, latest,
                                snapshot, failed, disk>>

WriteTemp == /\ pc = "writing"
             /\ pc' = "renaming"
             /\ UNCHANGED <<maxHistory, enabled, taken, history, latest, snapshot,
                            stored, failed, disk>>

ReplaceFile == /\ pc = "renaming"
               /\ disk' = stored
               /\ failed' = FALSE
               /\ snapshot' = <<>>
               /\ pc' = "idle"
               /\ UNCHANGED <<maxHistory, enabled, taken, history, latest, stored>>

SaveFails_Unreported ==
  /\ pc \in {"writing", "renaming"}
  /\ failed' = FALSE
  /\ snapshot' = <<>>
  /\ pc' = "idle"
  /\ UNCHANGED <<maxHistory, enabled, taken, history, latest, stored, disk>>

\* The write or the rename fails; the error is logged.
SaveFails == /\ pc \in {"writing", "renaming"}
             /\ failed' = TRUE
             /\ snapshot' = <<>>
             /\ pc' = "idle"
             /\ UNCHANGED <<maxHistory, enabled, taken, history, latest, stored,
                            disk>>

Crash == /\ pc # "down"
         /\ pc' = "down"
         /\ enabled' = FALSE
         /\ history' = <<>> /\ latest' = None
         /\ snapshot' = <<>> /\ stored' = <<>>
         /\ failed' = FALSE
         /\ UNCHANGED <<maxHistory, taken, disk>>

Next == \/ Boot \/ BeginProbe \/ RecordSample \/ ReplaceStored \/ WriteTemp
        \/ ReplaceFile \/ SaveFails \/ Crash

Spec == Init /\ [][Next]_vars

-----------------------------------------------------------------------------
(* Properties.                                                             *)

\* A reader that takes the lock finds no more samples than the cap in force,
\* whatever cap the file was written under, and as the latest sample the last one
\* of the history, after a restart too.
CappedAndCurrent == /\ Len(history) <= maxHistory
                    /\ pc # "down" => latest = LatestOf(history)

\* When the last Replace returned nil, a restart with the same configuration
\* shows exactly what is shown now.
SavedSurvivesRestart ==
  pc \in {"idle", "probing"} /\ ~failed => Capped(disk, maxHistory) = history

\* A save takes from the file its oldest samples only, and only when the cap asks
\* for it, failed saves and restarts in between notwithstanding.
DropsOnlyOldest ==
  [][LET lost == Range(disk) \ Range(disk')
     IN  /\ lost # {} => Len(disk') = maxHistory
         /\ \A old \in lost, kept \in Range(disk') : old < kept]_vars
=============================================================================
