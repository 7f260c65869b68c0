---------------------------- MODULE Configuration ----------------------------
(***************************************************************************)
(* What config.Load makes of a configuration file, and the sizes that the  *)
(* components of a node derive from it.                                    *)
(*                                                                         *)
(* A file is a record of the fields it sets, which decoding lays over the  *)
(* defaults; a length of time is a number of units.  Left out are texts    *)
(* that are only shown or passed on: names, directories, keys, the target  *)
(* of the probe.                                                           *)
(***************************************************************************)
EXTENDS Integers, Sequences, FiniteSetsExt

CONSTANTS DefaultInterval,       \* interval_minutes: 5
          DefaultProbeInterval,  \* monitor_dns.interval_seconds: 60
          Month,                 \* maxWindow: 30 days
          HistoryFloor,          \* smallest history limit: 200
          HistorySlack,          \* entries over those due in a month: 5
          ProbeFloor,            \* smallest connectivity history: 2048
          ProbeSlack,            \* samples over those due in a month: 128
          ProbeCeiling           \* largest connectivity history: 100000

ASSUME ConfigurationAssumption ==
  /\ DefaultInterval \in Nat \ {0} /\ DefaultProbeInterval \in Nat \ {0}
  /\ Month \in Nat \ {0}
  /\ HistoryFloor \in Nat \ {0} /\ HistorySlack \in Nat
  /\ ProbeFloor \in Nat \ {0} /\ ProbeSlack \in Nat /\ ProbeCeiling \in Nat \ {0}

NoText == ""

DefaultConfig == [interval      |-> DefaultInterval,
                  probeEnabled  |-> FALSE,
                  probeInterval |-> DefaultProbeInterval,
                  targets       |-> <<"ssh">>,
                  peers         |-> <<>>]

OrDefault(value, default) == IF value <= 0 THEN default ELSE value

\* Decoding sets the fields that the file has.
OverDefaults(file) ==
  [field \in DOMAIN DefaultConfig |->
     IF field \in DOMAIN file THEN file[field] ELSE DefaultConfig[field]]

\* What a file decodes to, normalised.
Decoded(file) ==
  [OverDefaults(file) EXCEPT
     !.interval      = OrDefault(@, DefaultInterval),
     !.probeInterval = OrDefault(@, DefaultProbeInterval)]

\* Load returns an error for anything else, and main ends with it.  Identifiers
\* are not compared with one another.
Accepted(cfg) ==
  /\ cfg.targets # <<>>
  /\ \A i \in 1..Len(cfg.targets) : cfg.targets[i] # NoText
  /\ \A i \in 1..Len(cfg.peers) :
       cfg.peers[i].enabled => cfg.peers[i].id # NoText /\ cfg.peers[i].url # NoText

\* The configurations that a node may run with, given one of these files.
Load(files) == {cfg \in {Decoded(f) : f \in files} : Accepted(cfg)}

-----------------------------------------------------------------------------

\* The most entries that are asked of a peer and kept of it (NewService), and the
\* most that a request is given (New): as many as are due in a month, and a few.
HistoryCap_NoSlack(cfg) == Max({HistoryFloor, Month \div cfg.interval})

HistoryCap(cfg) == Max({HistoryFloor, Month \div cfg.interval + HistorySlack})

HistoryLimit(cfg) == HistoryCap(cfg)

\* NewConnectivityMonitor: the ceiling is below a month of probes every 26 seconds
\* or more often.
MaxHistory(cfg) ==
  IF cfg.probeEnabled
  THEN Min({ProbeCeiling, Max({ProbeFloor, Month \div cfg.probeInterval + ProbeSlack})})
  ELSE ProbeFloor
=============================================================================
