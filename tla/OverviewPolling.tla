--------------------------- MODULE OverviewPolling ---------------------------
(***************************************************************************)
(* The overview of the page: ui.js polls /api/overview on a timer, shows   *)
(* the snapshot that comes, and puts up a banner when it cannot.           *)
(*                                                                         *)
(* Polls overlap and their answers come in any order; the page sets no     *)
(* timeout.  While the server answers, it makes a snapshot within Latency  *)
(* of a poll, which arrives within Latency of that; else a poll fails, or  *)
(* stalls for as long as the network and the browser like.  The page's     *)
(* handlers take no time, and the page is not in the background, where     *)
(* browsers slow its timers down.                                          *)
(***************************************************************************)
EXTENDS Naturals

CONSTANTS Interval,      \* OVERVIEW_REFRESH_INTERVAL
          Latency,       \* of each way of a poll that does not stall
          MaxAge,        \* ages from here on are not told apart
          Slot           \* bounds the polls under way at a time

ASSUME PollingAssumption == /\ Interval \in Nat \ {0}
                            /\ Latency \in Nat \ {0}
                            /\ 4 * Latency < Interval
                            /\ MaxAge \in Nat
                            /\ MaxAge > 2 * (Interval + Latency)

VARIABLES
  view,       \* currentViewMode
  banner,     \* is the connection banner up?
  due,        \* time to the next event of overviewPollTimer
  success,    \* time since lastOverviewSuccess (Never: 0)
  shown,      \* the snapshot in overviewGrid: its age, and if it came late
  polls,      \* the polls under way
  calm        \* for how long the server has answered and no poll been stalled
              \* (Down: it does not answer)

vars == <<view, banner, due, success, shown, polls, calm>>

Age   == 0..MaxAge
Never == MaxAge + 1
Down  == MaxAge + 1
NoSnapshot == [age |-> Never, late |-> FALSE]

\* "asked": no snapshot has been made yet; "made": it is on its way; age is the
\* time since the poll was started, or since the snapshot was made.  A poll that
\* once stalled is late.
Free  == [state |-> "free", age |-> 0, late |-> FALSE]
Asked == [state |-> "asked", age |-> 0, late |-> FALSE]

TypeOK == /\ view \in {"dashboard", "overview"}
          /\ banner \in BOOLEAN
          /\ due \in 0..Interval
          /\ success \in Age \cup {Never}
          /\ shown \in [age : Age \cup {Never}, late : BOOLEAN]
          /\ polls \in [Slot -> [state : {"free", "asked", "made"}, age : Age,
                                 late : BOOLEAN]]
          /\ calm \in Age \cup {Down}

Up == calm # Down

Under == {s \in Slot : polls[s].state # "free"}

\* The dashboard is the first view; initOverviewPolling polls once and starts the
\* timer.
Init == /\ view = "dashboard"
        /\ banner = FALSE
        /\ due = Interval
        /\ success = Never
        /\ shown = NoSnapshot
        /\ \E s \in Slot : polls = [t \in Slot |-> IF t = s THEN Asked ELSE Free]
        /\ calm \in {0, Down}

-----------------------------------------------------------------------------
(* The page.                                                               *)

HasRecentOverviewSample_AnySample == success # Never

HasRecentOverviewSample_OneInterval == success # Never /\ success <= Interval

HasRecentOverviewSample == success # Never /\ 2 * success <= 3 * Interval

\* A click on the button of the other view.
SetActiveView(v) == /\ v # view
                    /\ view' = v
                    /\ banner' = (v = "overview" /\ ~HasRecentOverviewSample)
                    /\ UNCHANGED <<due, success, shown, polls, calm>>

\* The timer's event: fetchOverviewSnapshot, up to the fetch.
Poll == /\ due = 0
        /\ due' = Interval
        /\ \E s \in Slot : /\ polls[s] = Free
                           /\ polls' = [polls EXCEPT ![s] = Asked]
        /\ UNCHANGED <<view, banner, success, shown, calm>>

Render_BannerKept(s) == /\ polls[s].state = "made"
                        /\ Up
                        /\ shown' = [age |-> polls[s].age, late |-> polls[s].late]
                        /\ success' = 0
                        /\ polls' = [polls EXCEPT ![s] = Free]
                        /\ UNCHANGED <<view, banner, due, calm>>

\* An answer has come: it is shown, even over a later one.
Render(s) == /\ polls[s].state = "made"
             /\ Up
             /\ shown' = [age |-> polls[s].age, late |-> polls[s].late]
             /\ success' = 0
             /\ banner' = (banner /\ view # "overview")
             /\ polls' = [polls EXCEPT ![s] = Free]
             /\ UNCHANGED <<view, due, calm>>

\* The fetch is rejected; one that stalled may be so when all is well again.
ShowBanner(s) == /\ s \in Under
                 /\ ~Up \/ polls[s].late
                 /\ banner' = (view = "overview")
                 /\ polls' = [polls EXCEPT ![s] = Free]
                 /\ UNCHANGED <<view, due, success, shown, calm>>

-----------------------------------------------------------------------------
(* The server, the network and time.                                       *)

\* handleOverview: a snapshot of this moment.
HandleOverview(s) == /\ polls[s].state = "asked"
                     /\ Up
                     /\ polls' = [polls EXCEPT ![s].state = "made", ![s].age = 0]
                     /\ UNCHANGED <<view, banner, due, success, shown, calm>>

Stall(s) == /\ s \in Under
            /\ ~Up
            /\ polls' = [polls EXCEPT ![s].late = TRUE]
            /\ UNCHANGED <<view, banner, due, success, shown, calm>>

ServerChanges == /\ calm' = IF Up THEN Down ELSE 0
                 /\ UNCHANGED <<view, banner, due, success, shown, polls>>

\* A poll that is not late has to end before time passes on.
Waits(s) == polls[s].late \/ polls[s].age < Latency

Older(a) == IF a < MaxAge THEN a + 1 ELSE a

Pass == /\ due > 0
        /\ \A s \in Under : Waits(s)
        /\ due' = due - 1
        /\ success' = Older(success)
        /\ shown' = [shown EXCEPT !.age = Older(@)]
        /\ polls' = [s \in Slot |-> IF s \in Under THEN [polls[s] EXCEPT !.age = Older(@)]
                                    ELSE polls[s]]
        /\ calm' = IF \E s \in Under : polls[s].late THEN calm ELSE Older(calm)
        /\ UNCHANGED <<view, banner>>

Next == \/ \E v \in {"dashboard", "overview"} : SetActiveView(v)
        \/ Poll \/ ServerChanges \/ Pass
        \/ \E s \in Slot : Render(s) \/ ShowBanner(s) \/ HandleOverview(s) \/ Stall(s)

\* Time passes, events come when they are due, and every fetch settles in the
\* end: the browser gives up one that stalls.
Fairness == /\ WF_vars(Pass) /\ WF_vars(Poll)
            /\ \A s \in Slot : /\ WF_vars(HandleOverview(s))
                               /\ WF_vars(Render(s) \/ ShowBanner(s))

Spec == Init /\ [][Next]_vars /\ Fairness

-----------------------------------------------------------------------------
(* Properties.                                                             *)

\* An overview without a banner is at most two intervals and two latencies old,
\* unless a poll is stalled at the moment or the snapshot itself came by one that
\* was: the page goes by when the last answer came, not by when it was made, and
\* knows nothing of a poll that is still under way.
NoBannerMeansFresh ==
  view = "overview" /\ ~banner =>
    \/ shown.age <= 2 * (Interval + Latency)
    \/ shown.late
    \/ \E s \in Under : polls[s].late

\* A server that has been answering for an interval and the time of an answer, with
\* no stalled poll left from before, is not reported as unreachable, whenever the
\* user changes views: one and a half intervals are enough for a recent sample.
HealthyShowsNoBanner ==
  Up /\ calm > Interval + 2 * Latency => ~(view = "overview" /\ banner)

\* When the server answers for good the banner goes, and every time one comes that
\* an old poll or a change of views put up, it goes again.
BannerGoes == <>[]Up => []<>~banner
=============================================================================
