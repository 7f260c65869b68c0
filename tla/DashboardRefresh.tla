--------------------------- MODULE DashboardRefresh ---------------------------
(***************************************************************************)
(* The dashboard page's refreshes: refresh and renderDashboard of ui.js.   *)
(* Every click on a range or on Refresh and every timer event starts a     *)
(* fetch of /api/cluster; fetches overlap, and their answers come in any   *)
(* order.  A handler runs to its next await without interruption.          *)
(***************************************************************************)
EXTENDS Naturals

CONSTANT FetchSlot         \* bounds the fetches under way at a time

VARIABLES
  currentRange,    \* the range whose button is active, fetched next
  chosen,          \* the range the user last clicked (history variable)
  cards,           \* what the status cards show
  fetches,         \* the fetches under way
  disabled,        \* is the Refresh button disabled?
  up               \* does the server answer?

refreshVars == <<currentRange, chosen, cards, fetches, disabled, up>>

Range == {"24h", "30d"}

Loading   == [kind |-> "loading"]
Error     == [kind |-> "error"]
Data(r)   == [kind |-> "data", range |-> r]

\* A fetch under way: its range, whether the Refresh button waits for it, and how
\* it will end ("pending": not known yet).
NoFetch == [state |-> "free"]
Fetch(r, manual) == [state |-> "pending", range |-> r, manual |-> manual]

RefreshTypeOK ==
  /\ currentRange \in Range
  /\ chosen \in Range
  /\ cards \in {Loading, Error} \cup {Data(r) : r \in Range}
  /\ fetches \in [FetchSlot -> {NoFetch} \cup [state : {"pending", "ok", "failed"},
                                               range : Range, manual : BOOLEAN]]
  /\ disabled \in BOOLEAN
  /\ up \in BOOLEAN

\* The page loads with the 24-hour range and a first refresh.
RefreshInit ==
  /\ currentRange = "24h" /\ chosen = "24h"
  /\ cards = Loading
  /\ \E s \in FetchSlot :
       fetches = [t \in FetchSlot |-> IF t = s THEN Fetch("24h", FALSE) ELSE NoFetch]
  /\ disabled = FALSE
  /\ up \in BOOLEAN

-----------------------------------------------------------------------------

\* refresh, up to its await: the range is made the current one and fetched.
Refresh(r, manual) ==
  /\ currentRange' = r
  /\ \E s \in FetchSlot : /\ fetches[s] = NoFetch
                          /\ fetches' = [fetches EXCEPT ![s] = Fetch(r, manual)]
  /\ UNCHANGED <<cards, up>>

\* A click on the range that is current already does nothing.
ClickRange(r) == /\ chosen' = r
                 /\ IF r = currentRange
                    THEN UNCHANGED <<currentRange, cards, fetches, up>>
                    ELSE Refresh(r, FALSE)
                 /\ UNCHANGED disabled

ClickRefresh == /\ ~disabled
                /\ Refresh(currentRange, TRUE)
                /\ disabled' = TRUE
                /\ UNCHANGED chosen

Timer_UnlessError == /\ cards # Error
                     /\ Refresh(currentRange, FALSE)
                     /\ UNCHANGED <<chosen, disabled>>

Timer == /\ Refresh(currentRange, FALSE)
         /\ UNCHANGED <<chosen, disabled>>

\* handleCluster answers for the range that was asked for (windowKey).
Answer(s) == /\ up
             /\ fetches[s].state = "pending"
             /\ fetches' = [fetches EXCEPT ![s].state = "ok"]
             /\ UNCHANGED <<currentRange, chosen, cards, disabled, up>>

\* The connection breaks, or the browser gives up.
Lose(s) == /\ ~up
           /\ fetches[s].state = "pending"
           /\ fetches' = [fetches EXCEPT ![s].state = "failed"]
           /\ UNCHANGED <<currentRange, chosen, cards, disabled, up>>

\* What follows the await settles the fetch and, for a click on Refresh, finally
\* enables the button again.
Settles(s) == /\ fetches' = [fetches EXCEPT ![s] = NoFetch]
              /\ disabled' = (disabled /\ ~fetches[s].manual)
              /\ UNCHANGED <<chosen, up>>

RenderDashboard_RangeKept(s) == /\ fetches[s].state = "ok"
                                /\ cards' = Data(fetches[s].range)
                                /\ UNCHANGED currentRange
                                /\ Settles(s)

\* The range of the snapshot becomes the current one before it is shown.
RenderDashboard(s) == /\ fetches[s].state = "ok"
                      /\ currentRange' = fetches[s].range
                      /\ cards' = Data(fetches[s].range)
                      /\ Settles(s)

ShowErrorState_ButtonLeft(s) == /\ fetches[s].state = "failed"
                                /\ cards' = Error
                                /\ fetches' = [fetches EXCEPT ![s] = NoFetch]
                                /\ UNCHANGED <<currentRange, chosen, disabled, up>>

ShowErrorState(s) == /\ fetches[s].state = "failed"
                     /\ cards' = Error
                     /\ UNCHANGED currentRange
                     /\ Settles(s)

ServerTurns ==
  /\ up' = ~up
  /\ UNCHANGED <<currentRange, chosen, cards, fetches, disabled>>

Settle(s) == RenderDashboard(s) \/ ShowErrorState(s)

RefreshNext == \/ \E r \in Range : ClickRange(r)
               \/ ClickRefresh \/ Timer \/ ServerTurns
               \/ \E s \in FetchSlot : Answer(s) \/ Lose(s) \/ Settle(s)

\* Every request is answered or fails in the end, its handler then runs, and the
\* timer keeps firing.  The user and the server owe nothing.
RefreshFairness ==
  /\ WF_refreshVars(Timer)
  /\ \A s \in FetchSlot : /\ WF_refreshVars(Answer(s) \/ Lose(s))
                          /\ WF_refreshVars(Settle(s))

RefreshSpec == RefreshInit /\ [][RefreshNext]_refreshVars /\ RefreshFairness

-----------------------------------------------------------------------------
(* Properties.                                                             *)

\* The cards are those of the active range button, or a fetch for that range is
\* under way which will put them right: no order of clicks, answers and failures
\* leaves one range's cards under the other range's button.
CardsMatchButton ==
  cards.kind = "data" =>
    \/ cards.range = currentRange
    \/ \E s \in FetchSlot : fetches[s] # NoFetch /\ fetches[s].range = currentRange

\* Once the server answers for good, the page shows data for good: errors of
\* earlier fetches that come late are made good by later refreshes.
RecoversForGood == <>[]up => <>[](cards.kind = "data")

\* The Refresh button does not stay disabled, whatever becomes of the fetch.
ButtonComesBack == disabled ~> ~disabled

\* "a one-click toggle": when every fetch is over, the current range is the one
\* the user clicked last.  The answer to an earlier fetch that comes after the one
\* to the click sets the range back to its own, so this is not so.
ToggleHolds == (\A s \in FetchSlot : fetches[s] = NoFetch) => currentRange = chosen
=============================================================================
