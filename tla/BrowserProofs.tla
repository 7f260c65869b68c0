---------------------------- MODULE BrowserProofs ----------------------------
(***************************************************************************)
(* Proofs about the page in the browser: DashboardRefresh, for any number  *)
(* of fetches under way, and OverviewPolling, for any interval, any        *)
(* latency below a quarter of it and any number of polls under way.        *)
(***************************************************************************)
EXTENDS DashboardRefresh, OverviewPolling, TLAPS

-----------------------------------------------------------------------------
(* DashboardRefresh.                                                       *)

UnderWay == [state : {"pending", "ok", "failed"}, range : Range, manual : BOOLEAN]

\* The button is disabled exactly while the one fetch that it started is under way.
ButtonWaits ==
  /\ disabled <=> \E s \in FetchSlot : fetches[s] # NoFetch /\ fetches[s].manual
  /\ \A s, t \in FetchSlot : /\ fetches[s] # NoFetch /\ fetches[s].manual
                             /\ fetches[t] # NoFetch /\ fetches[t].manual
                             => s = t

\* The inductive invariant.
RefreshInv == RefreshTypeOK /\ CardsMatchButton /\ ButtonWaits

-----------------------------------------------------------------------------

\* A slot is free or holds a fetch, which one tells by its state.
LEMMA SlotType ==
  ASSUME RefreshTypeOK, NEW s \in FetchSlot
  PROVE  /\ fetches \in [FetchSlot -> {NoFetch} \cup UnderWay]
         /\ fetches[s] = NoFetch \/ fetches[s] \in UnderWay
         /\ fetches[s].state # "free" <=> fetches[s] # NoFetch
         /\ fetches[s].state # "free" => fetches[s] \in UnderWay
         /\ NoFetch \notin UnderWay
<1>1. fetches \in [FetchSlot -> {NoFetch} \cup UnderWay]
  BY DEF RefreshTypeOK, UnderWay
<1>2. fetches[s] = NoFetch \/ fetches[s] \in UnderWay
  BY <1>1
<1>3. NoFetch.state = "free" /\ \A f \in UnderWay : f.state # "free"
  BY DEF NoFetch, UnderWay
<1> QED
  BY <1>1, <1>2, <1>3

\* A refresh fetches for the range that it makes the current one, and a click on
\* Refresh starts one only while no other such fetch is under way.
LEMMA RefreshKeeps ==
  ASSUME RefreshInv, NEW r \in Range, NEW manual \in BOOLEAN, Refresh(r, manual),
         chosen' \in Range, disabled' = (disabled \/ manual), manual => ~disabled
  PROVE  RefreshInv'
<1>1. PICK s \in FetchSlot : /\ fetches[s] = NoFetch
                             /\ fetches' = [fetches EXCEPT ![s] = Fetch(r, manual)]
  BY DEF Refresh
<1>2. currentRange' = r /\ UNCHANGED <<cards, up>>
  BY DEF Refresh
<1>3. /\ fetches'[s] = Fetch(r, manual)
      /\ \A t \in FetchSlot \ {s} : fetches'[t] = fetches[t]
      /\ Fetch(r, manual) \in UnderWay /\ Fetch(r, manual) # NoFetch
      /\ Fetch(r, manual).range = r /\ Fetch(r, manual).manual = manual
  BY <1>1, SlotType DEF RefreshInv, Fetch, UnderWay
<1>4. RefreshTypeOK'
  <2>1. fetches' \in [FetchSlot -> {NoFetch} \cup UnderWay]
    BY <1>1, <1>3, SlotType DEF RefreshInv
  <2> QED BY <1>2, <2>1 DEF RefreshInv, RefreshTypeOK, UnderWay
<1>5. CardsMatchButton'
  BY <1>2, <1>3 DEF CardsMatchButton
<1>6. ButtonWaits'
  <2>1. CASE manual
    <3>1. \A t \in FetchSlot : ~(fetches[t] # NoFetch /\ fetches[t].manual)
      BY <2>1 DEF RefreshInv, ButtonWaits
    <3> QED BY <1>3, <2>1, <3>1 DEF ButtonWaits
  <2>2. CASE ~manual
    <3>1. \A t \in FetchSlot : (fetches'[t] # NoFetch /\ fetches'[t].manual)
                            <=> (fetches[t] # NoFetch /\ fetches[t].manual)
      BY <1>1, <1>3, <2>2
    <3>2. disabled' <=> disabled
      BY <2>2 DEF RefreshInv, RefreshTypeOK
    <3> QED BY <3>1, <3>2 DEF RefreshInv, ButtonWaits
  <2> QED BY <2>1, <2>2
<1> QED
  BY <1>4, <1>5, <1>6 DEF RefreshInv

\* That it becomes known how a fetch ends changes neither its range nor its origin.
LEMMA OutcomeKeeps ==
  ASSUME RefreshInv, NEW s \in FetchSlot, NEW how \in {"ok", "failed"},
         fetches[s].state = "pending",
         fetches' = [fetches EXCEPT ![s].state = how],
         UNCHANGED <<currentRange, chosen, cards, disabled, up>>
  PROVE  RefreshInv'
<1>1. fetches[s] \in UnderWay /\ fetches[s] # NoFetch
  BY SlotType DEF RefreshInv
<1>2. /\ fetches' = [fetches EXCEPT ![s] = [fetches[s] EXCEPT !.state = how]]
      /\ [fetches[s] EXCEPT !.state = how] \in UnderWay
      /\ [fetches[s] EXCEPT !.state = how].range = fetches[s].range
      /\ [fetches[s] EXCEPT !.state = how].manual = fetches[s].manual
  BY <1>1 DEF UnderWay
<1>3. /\ fetches' \in [FetchSlot -> {NoFetch} \cup UnderWay]
      /\ fetches'[s] \in UnderWay /\ fetches'[s] # NoFetch
      /\ fetches'[s].range = fetches[s].range /\ fetches'[s].manual = fetches[s].manual
      /\ \A t \in FetchSlot \ {s} : fetches'[t] = fetches[t]
  BY <1>2, SlotType DEF RefreshInv
<1>4. RefreshTypeOK'
  BY <1>3 DEF RefreshInv, RefreshTypeOK, UnderWay
<1>5. CardsMatchButton' /\ ButtonWaits'
  BY <1>1, <1>3 DEF RefreshInv, CardsMatchButton, ButtonWaits
<1> QED
  BY <1>4, <1>5 DEF RefreshInv

\* What follows the await makes the cards and the button agree, or shows the error.
LEMMA SettleKeeps ==
  ASSUME RefreshInv, NEW s \in FetchSlot, Settle(s)
  PROVE  RefreshInv'
<1>1. fetches[s].state \in {"ok", "failed"} /\ Settles(s)
  BY DEF Settle, RenderDashboard, ShowErrorState
<1>2. fetches[s] \in UnderWay /\ fetches[s] # NoFetch
  BY <1>1, SlotType DEF RefreshInv
<1>3. /\ fetches' = [fetches EXCEPT ![s] = NoFetch]
      /\ disabled' = (disabled /\ ~fetches[s].manual)
      /\ UNCHANGED <<chosen, up>>
  BY <1>1 DEF Settles
<1>4. /\ fetches' \in [FetchSlot -> {NoFetch} \cup UnderWay]
      /\ fetches'[s] = NoFetch
      /\ \A t \in FetchSlot \ {s} : fetches'[t] = fetches[t]
  BY <1>3, SlotType DEF RefreshInv
<1>5. \/ cards' = Error /\ currentRange' = currentRange
      \/ cards' = Data(fetches[s].range) /\ currentRange' = fetches[s].range
  BY DEF Settle, RenderDashboard, ShowErrorState
<1>6. RefreshTypeOK'
  <2>1. fetches[s].range \in Range /\ fetches[s].manual \in BOOLEAN
    BY <1>2 DEF UnderWay
  <2>2. currentRange' \in Range /\ cards' \in {Loading, Error} \cup {Data(r) : r \in Range}
    BY <1>5, <2>1 DEF RefreshInv, RefreshTypeOK
  <2>3. disabled' \in BOOLEAN
    BY <1>3
  <2> QED BY <1>3, <1>4, <2>2, <2>3 DEF RefreshInv, RefreshTypeOK, UnderWay
<1>7. CardsMatchButton'
  BY <1>5 DEF CardsMatchButton, Error, Data
<1>8. ButtonWaits'
  <2>1. CASE fetches[s].manual
    <3>1. \A t \in FetchSlot : ~(fetches'[t] # NoFetch /\ fetches'[t].manual)
      BY <1>2, <1>4, <2>1 DEF RefreshInv, ButtonWaits
    <3> QED BY <1>3, <2>1, <3>1 DEF ButtonWaits
  <2>2. CASE ~fetches[s].manual
    <3>1. \A t \in FetchSlot : (fetches'[t] # NoFetch /\ fetches'[t].manual)
                            <=> (fetches[t] # NoFetch /\ fetches[t].manual)
      BY <1>4, <2>2
    <3>2. disabled' <=> disabled
      BY <1>3, <2>2
    <3> QED BY <3>1, <3>2 DEF RefreshInv, ButtonWaits
  <2> QED BY <2>1, <2>2
<1> QED
  BY <1>6, <1>7, <1>8 DEF RefreshInv

\* The page loads with one fetch, which nobody asked for.
LEMMA RefreshBegins ==
  ASSUME RefreshInit
  PROVE  RefreshInv
<1>1. PICK s \in FetchSlot :
        fetches = [t \in FetchSlot |-> IF t = s THEN Fetch("24h", FALSE) ELSE NoFetch]
  BY DEF RefreshInit
<1>2. /\ Fetch("24h", FALSE) \in UnderWay /\ ~Fetch("24h", FALSE).manual
      /\ "24h" \in Range
  BY DEF Fetch, UnderWay, Range
<1>3. fetches \in [FetchSlot -> {NoFetch} \cup UnderWay]
  BY <1>1, <1>2
<1>4. RefreshTypeOK
  BY <1>2, <1>3 DEF RefreshInit, RefreshTypeOK, UnderWay
<1>5. CardsMatchButton
  BY DEF RefreshInit, CardsMatchButton, Loading
<1>6. ButtonWaits
  BY <1>1, <1>2 DEF RefreshInit, ButtonWaits
<1> QED
  BY <1>4, <1>5, <1>6 DEF RefreshInv

\* Whatever overlaps, the cards and the active button agree or are about to, and the
\* Refresh button waits for the one fetch it started.
THEOREM RefreshInvariant == RefreshSpec => []RefreshInv
<1>1. ASSUME RefreshInv, [RefreshNext]_refreshVars PROVE RefreshInv'
  <2>1. currentRange \in Range /\ disabled \in BOOLEAN
    BY <1>1 DEF RefreshInv, RefreshTypeOK
  <2>2. ASSUME NEW r \in Range, ClickRange(r) PROVE RefreshInv'
    <3>1. CASE r = currentRange
      BY <1>1, <2>2, <3>1
      DEF ClickRange, RefreshInv, RefreshTypeOK, CardsMatchButton, ButtonWaits
    <3>2. CASE r # currentRange
      <4>1. Refresh(r, FALSE) /\ chosen' = r /\ disabled' = disabled
        BY <2>2, <3>2 DEF ClickRange
      <4>2. disabled' = (disabled \/ FALSE)
        BY <2>1, <4>1
      <4> QED BY <1>1, <4>1, <4>2, RefreshKeeps
    <3> QED BY <3>1, <3>2
  <2>3. CASE ClickRefresh
    <3>1. ~disabled /\ Refresh(currentRange, TRUE) /\ disabled' = (disabled \/ TRUE)
      BY <2>3 DEF ClickRefresh
    <3>2. chosen' \in Range
      BY <1>1, <2>3 DEF ClickRefresh, RefreshInv, RefreshTypeOK
    <3> QED BY <1>1, <2>1, <3>1, <3>2, RefreshKeeps
  <2>4. CASE Timer
    <3>1. Refresh(currentRange, FALSE) /\ disabled' = (disabled \/ FALSE)
      BY <2>1, <2>4 DEF Timer
    <3>2. chosen' \in Range
      BY <1>1, <2>4 DEF Timer, RefreshInv, RefreshTypeOK
    <3> QED BY <1>1, <2>1, <3>1, <3>2, RefreshKeeps
  <2>5. CASE ServerTurns
    BY <1>1, <2>5 DEF ServerTurns, RefreshInv, RefreshTypeOK, CardsMatchButton, ButtonWaits
  <2>6. ASSUME NEW s \in FetchSlot, Answer(s) \/ Lose(s) PROVE RefreshInv'
    BY <1>1, <2>6, OutcomeKeeps DEF Answer, Lose
  <2>7. CASE UNCHANGED refreshVars
    BY <1>1, <2>7 DEF refreshVars, RefreshInv, RefreshTypeOK, CardsMatchButton, ButtonWaits
  <2> QED
    BY <1>1, <2>2, <2>3, <2>4, <2>5, <2>6, <2>7, SettleKeeps DEF RefreshNext
<1> QED
  BY <1>1, RefreshBegins, PTL DEF RefreshSpec

\* Types.
THEOREM RefreshTypeCorrect == RefreshSpec => []RefreshTypeOK
<1>1. RefreshInv => RefreshTypeOK
  BY DEF RefreshInv
<1> QED
  BY <1>1, RefreshInvariant, PTL

\* refresh sets the range before its await and renderDashboard sets it again from the
\* answer: for any number of overlapping fetches, no order of clicks, answers and
\* failures leaves the cards of one range under the button of the other.
THEOREM CardsFitButton == RefreshSpec => []CardsMatchButton
<1>1. RefreshInv => CardsMatchButton
  BY DEF RefreshInv
<1> QED
  BY <1>1, RefreshInvariant, PTL

\* The Refresh button is disabled only while the fetch that it started is under way,
\* and no two such fetches ever are: no timer's fetch, no click on a range and no
\* failure enables it too early or keeps it disabled.
THEOREM ButtonFollowsFetch == RefreshSpec => []ButtonWaits
<1>1. RefreshInv => ButtonWaits
  BY DEF RefreshInv
<1> QED
  BY <1>1, RefreshInvariant, PTL

-----------------------------------------------------------------------------
(* OverviewPolling.                                                        *)

\* The time since the timer's last event.
Since == Interval - due

\* A poll that is in time, and that one stalled.
InTime(s) == s \in Under /\ ~polls[s].late
Late(s) == s \in Under /\ polls[s].late

\* A poll in time is one of the timer's last event: it was started then, and its
\* snapshot made at most Latency later.
PollsAreCurrent ==
  \A s \in Slot : InTime(s) =>
    /\ polls[s].age <= Latency
    /\ polls[s].age <= Since
    /\ polls[s].state = "asked" => Since = polls[s].age
    /\ polls[s].state = "made" => Since <= polls[s].age + Latency

\* A snapshot that came in time came with the timer's last event or the one before,
\* or is no recent sample any more.
SampleIsPlaced ==
  \/ shown.late
  \/ 2 * success > 3 * Interval
  \/ Since <= success + 2 * Latency /\ shown.age <= Since
  \/ Interval + Since <= success + 2 * Latency /\ shown.age <= Interval + Since

\* Without a banner, the snapshot is no older than the timer's last event but one,
\* or but two while the answer to the last one is still to come.
OverviewIsFresh ==
  view = "overview" /\ ~banner =>
    \/ shown.late
    \/ \E s \in Slot : Late(s)
    \/ shown.age <= Interval + Since
    \/ (\E s \in Slot : InTime(s)) /\ shown.age <= 2 * Interval + Since

\* While a poll is stalled the calm does not begin.
CalmIsCalm == Up /\ calm > 0 => \A s \in Slot : ~Late(s)

Reported == view = "overview" /\ banner

\* Once the timer's last event was in the calm its poll is under way or has been
\* answered, and once the one before was in the calm, that one has been answered.
CalmIsAnswered ==
  /\ Up /\ calm > Since =>
       (\E s \in Slot : InTime(s)) \/ (success <= Since /\ ~Reported)
  /\ Up /\ calm > Interval + Since => success <= Interval + Since /\ ~Reported

\* The inductive invariant.
PollingInv == /\ TypeOK
              /\ PollsAreCurrent
              /\ SampleIsPlaced
              /\ OverviewIsFresh
              /\ CalmIsCalm
              /\ CalmIsAnswered

-----------------------------------------------------------------------------

\* The numbers the steps reason about.
LEMMA Numbers ==
  ASSUME TypeOK
  PROVE  /\ Interval \in Nat /\ Latency \in Nat /\ MaxAge \in Nat
         /\ Interval > 0 /\ Latency > 0
         /\ 4 * Latency < Interval /\ MaxAge > 2 * Interval + 2 * Latency
         /\ due \in Nat /\ due <= Interval /\ Since \in Nat /\ Since <= Interval
         /\ success \in Nat /\ success <= MaxAge + 1
         /\ shown.age \in Nat /\ shown.age <= MaxAge + 1 /\ shown.late \in BOOLEAN
         /\ shown = [age |-> shown.age, late |-> shown.late]
         /\ calm \in Nat /\ calm <= MaxAge + 1 /\ (Up <=> calm # MaxAge + 1)
<1>1. /\ Interval \in Nat /\ Latency \in Nat /\ MaxAge \in Nat
      /\ Interval > 0 /\ Latency > 0
      /\ 4 * Latency < Interval /\ MaxAge > 2 * Interval + 2 * Latency
  BY PollingAssumption
<1>2. /\ due \in Nat /\ due <= Interval /\ Since \in Nat /\ Since <= Interval
  BY <1>1 DEF TypeOK, Since
<1>3. /\ success \in Nat /\ success <= MaxAge + 1
      /\ calm \in Nat /\ calm <= MaxAge + 1 /\ (Up <=> calm # MaxAge + 1)
  BY <1>1 DEF TypeOK, Age, Never, Down, Up
<1>4. /\ shown.age \in Nat /\ shown.age <= MaxAge + 1 /\ shown.late \in BOOLEAN
      /\ shown = [age |-> shown.age, late |-> shown.late]
  BY <1>1 DEF TypeOK, Age, Never
<1> QED
  BY <1>1, <1>2, <1>3, <1>4

\* A poll.
LEMMA PollType ==
  ASSUME TypeOK, NEW s \in Slot
  PROVE  /\ polls[s].age \in Nat /\ polls[s].age <= MaxAge
         /\ polls[s].late \in BOOLEAN /\ polls[s].state \in {"free", "asked", "made"}
         /\ polls[s] = [state |-> polls[s].state, age |-> polls[s].age,
                        late |-> polls[s].late]
<1>1. polls[s] \in [state : {"free", "asked", "made"}, age : Age, late : BOOLEAN]
  BY DEF TypeOK
<1>2. polls[s].age \in 0..MaxAge /\ MaxAge \in Nat
  BY <1>1, PollingAssumption DEF Age
<1> QED
  BY <1>1, <1>2

\* No poll that is in time is left when the timer's next event comes.
LEMMA AnsweredByNext ==
  ASSUME TypeOK, PollsAreCurrent, NEW s \in Slot, InTime(s)
  PROVE  Since <= 2 * Latency
<1>1. /\ polls[s].age \in Nat /\ polls[s].age <= Latency
      /\ polls[s].state \in {"asked", "made"}
      /\ polls[s].state = "asked" => Since = polls[s].age
      /\ polls[s].state = "made" => Since <= polls[s].age + Latency
  BY PollType DEF PollsAreCurrent, InTime, Under
<1> QED
  BY <1>1, Numbers

\* A step that leaves the polls of every slot but one as they are.
OnlySlot(s) == \A t \in Slot \ {s} : polls'[t] = polls[t]

\* A click on the other view's button (setActiveView): only a recent sample keeps the
\* banner down, and a recent sample is one of the last two events.
LEMMA ViewStep ==
  ASSUME PollingInv, NEW v \in {"dashboard", "overview"}, SetActiveView(v)
  PROVE  PollingInv'
<1>1. /\ UNCHANGED <<due, success, shown, polls, calm>>
      /\ view' = v /\ banner' = (v = "overview" /\ ~HasRecentOverviewSample)
  BY DEF SetActiveView
<1>2. TypeOK'
  BY <1>1 DEF PollingInv, TypeOK
<1>3. PollsAreCurrent' /\ SampleIsPlaced' /\ CalmIsCalm'
  BY <1>1 DEF PollingInv, PollsAreCurrent, SampleIsPlaced, CalmIsCalm, InTime, Late, Under,
              Since, Up
<1>4. Since' = Since /\ Up' = Up /\ \A s : InTime(s)' = InTime(s) /\ Late(s)' = Late(s)
  BY <1>1 DEF Since, Up, InTime, Late, Under
<1>5. OverviewIsFresh'
  <2> SUFFICES ASSUME success # Never, 2 * success <= 3 * Interval
               PROVE  shown.late \/ shown.age <= Interval + Since
    BY <1>1, <1>4 DEF OverviewIsFresh, HasRecentOverviewSample
  <2> QED BY Numbers DEF PollingInv, SampleIsPlaced
<1>6. ASSUME Up, calm > Interval + Since
      PROVE  success <= Interval + Since /\ HasRecentOverviewSample
  <2>1. success <= Interval + Since
    BY <1>6 DEF PollingInv, CalmIsAnswered
  <2>2. 2 * success <= 3 * Interval
    <3>1. CASE \E s \in Slot : InTime(s)
      BY <2>1, <3>1, Numbers, AnsweredByNext DEF PollingInv
    <3>2. CASE ~ \E s \in Slot : InTime(s)
      <4>1. success <= Since
        BY <1>6, <3>2, Numbers DEF PollingInv, CalmIsAnswered
      <4> QED BY <4>1, Numbers DEF PollingInv
    <3> QED BY <3>1, <3>2
  <2>3. success # Never
    BY <2>2, Numbers DEF PollingInv, Never
  <2> QED BY <2>1, <2>2, <2>3 DEF HasRecentOverviewSample
<1>7. ASSUME Up, calm > Since, ~ \E s \in Slot : InTime(s)
      PROVE  success <= Since /\ HasRecentOverviewSample
  <2>1. success <= Since
    BY <1>7 DEF PollingInv, CalmIsAnswered
  <2>2. 2 * success <= 3 * Interval /\ success # Never
    BY <2>1, Numbers DEF PollingInv, Never
  <2> QED BY <2>1, <2>2 DEF HasRecentOverviewSample
<1>8. CalmIsAnswered'
  BY <1>1, <1>4, <1>6, <1>7 DEF CalmIsAnswered, Reported
<1> QED
  BY <1>2, <1>3, <1>5, <1>8 DEF PollingInv

\* The timer's event: every poll in time has been answered by now, so what belonged
\* to the last event now belongs to the one before.
LEMMA PollStep ==
  ASSUME PollingInv, Poll
  PROVE  PollingInv'
<1>1. /\ due = 0 /\ due' = Interval
      /\ UNCHANGED <<view, banner, success, shown, calm>>
  BY DEF Poll
<1>2. PICK s \in Slot : polls[s] = Free /\ polls' = [polls EXCEPT ![s] = Asked]
  BY DEF Poll
<1>3. polls \in [Slot -> [state : {"free", "asked", "made"}, age : Age, late : BOOLEAN]]
  BY DEF PollingInv, TypeOK
<1>4. polls'[s] = Asked /\ OnlySlot(s)
  BY <1>2, <1>3 DEF OnlySlot
<1>5. Since = Interval /\ Since' = 0
  BY <1>1, Numbers DEF PollingInv, Since
<1>6. TypeOK'
  <2>1. Asked \in [state : {"free", "asked", "made"}, age : Age, late : BOOLEAN]
    BY PollingAssumption DEF Asked, Age
  <2>2. due' \in 0..Interval
    BY <1>1, PollingAssumption
  <2> QED BY <1>1, <1>2, <1>3, <2>1, <2>2 DEF PollingInv, TypeOK
<1>7. \A t \in Slot : ~InTime(t)
  BY <1>5, Numbers, AnsweredByNext DEF PollingInv
<1>8. /\ InTime(s)' /\ ~Late(s)'
      /\ \A t \in Slot \ {s} : ~InTime(t)' /\ (Late(t)' = Late(t))
  BY <1>4, <1>7 DEF InTime, Late, Under, OnlySlot, Asked
<1>9. PollsAreCurrent'
  BY <1>4, <1>5, <1>8, Numbers DEF PollingInv, PollsAreCurrent, Asked
<1>10. SampleIsPlaced'
  BY <1>1, <1>5, Numbers DEF PollingInv, SampleIsPlaced
<1>11. OverviewIsFresh'
  <2>1. \A t \in Slot : Late(t) => Late(t)'
    BY <1>2, <1>8 DEF Late, Under, Free
  <2>2. ASSUME shown.age <= Interval + Since PROVE shown'.age <= 2 * Interval + Since'
    BY <1>1, <1>5, <2>2, Numbers DEF PollingInv
  <2> QED BY <1>1, <1>7, <1>8, <2>1, <2>2 DEF PollingInv, OverviewIsFresh
<1>12. CalmIsCalm'
  BY <1>1, <1>8 DEF PollingInv, CalmIsCalm, Up
<1>13. CalmIsAnswered'
  <2>1. Up' = Up /\ Reported' = Reported
    BY <1>1 DEF Up, Reported
  <2>2. ASSUME Up, calm > Interval PROVE success <= Interval /\ ~Reported
    BY <1>5, <1>7, <2>2 DEF PollingInv, CalmIsAnswered
  <2> QED BY <1>1, <1>5, <1>8, <2>1, <2>2, Numbers DEF PollingInv, CalmIsAnswered
<1> QED
  BY <1>6, <1>9, <1>10, <1>11, <1>12, <1>13 DEF PollingInv

\* An answer is shown: one in time belongs to the last event, one that stalled is late.
LEMMA RenderStep ==
  ASSUME PollingInv, NEW s \in Slot, Render(s)
  PROVE  PollingInv'
<1>1. /\ polls[s].state = "made" /\ Up
      /\ shown' = [age |-> polls[s].age, late |-> polls[s].late]
      /\ success' = 0
      /\ banner' = (banner /\ view # "overview")
      /\ polls' = [polls EXCEPT ![s] = Free]
      /\ UNCHANGED <<view, due, calm>>
  BY DEF Render
<1>2. polls \in [Slot -> [state : {"free", "asked", "made"}, age : Age, late : BOOLEAN]]
  BY DEF PollingInv, TypeOK
<1>3. /\ polls'[s] = Free /\ OnlySlot(s)
      /\ shown'.age = polls[s].age /\ shown'.late = polls[s].late
      /\ Since' = Since /\ Up' = Up
  BY <1>1, <1>2 DEF OnlySlot, Since, Up
<1>4. TypeOK'
  <2>1. Free \in [state : {"free", "asked", "made"}, age : Age, late : BOOLEAN]
    BY PollingAssumption DEF Free, Age
  <2>2. polls[s].age \in Age /\ polls[s].late \in BOOLEAN /\ 0 \in Age
    BY <1>2, PollingAssumption DEF Age
  <2> QED BY <1>1, <1>2, <2>1, <2>2 DEF PollingInv, TypeOK
<1>5. /\ ~InTime(s)' /\ ~Late(s)'
      /\ \A t \in Slot \ {s} : (InTime(t)' = InTime(t)) /\ (Late(t)' = Late(t))
  BY <1>3 DEF InTime, Late, Under, OnlySlot, Free
<1>6. PollsAreCurrent'
  BY <1>3, <1>5 DEF PollingInv, PollsAreCurrent, OnlySlot
<1>7. \/ shown'.late
      \/ shown'.age <= Since /\ Since <= 2 * Latency
  <2>1. CASE polls[s].late
    BY <1>3, <2>1
  <2>2. CASE ~polls[s].late
    <3>1. InTime(s)
      BY <1>1, <2>2 DEF InTime, Under
    <3> QED BY <1>3, <3>1, AnsweredByNext DEF PollingInv, PollsAreCurrent
  <2> QED BY <2>1, <2>2
<1>8. SampleIsPlaced'
  BY <1>1, <1>3, <1>7, Numbers DEF PollingInv, SampleIsPlaced
<1>9. OverviewIsFresh'
  <2>1. Since \in Nat /\ Interval \in Nat /\ polls[s].age \in Nat
    BY Numbers, PollType DEF PollingInv
  <2>2. shown'.late \/ shown'.age <= Interval + Since
    BY <1>3, <1>7, <2>1
  <2> QED BY <1>3, <2>2, Numbers DEF PollingInv, OverviewIsFresh
<1>10. CalmIsCalm'
  BY <1>1, <1>3, <1>5 DEF PollingInv, CalmIsCalm
<1>11. CalmIsAnswered'
  <2>1. Since \in Nat /\ Interval \in Nat
    BY Numbers DEF PollingInv
  <2>2. success' <= Since' /\ success' <= Interval + Since'
    BY <1>1, <1>3, <2>1
  <2>3. ~Reported'
    BY <1>1 DEF Reported
  <2> QED BY <2>2, <2>3 DEF CalmIsAnswered
<1> QED
  BY <1>4, <1>6, <1>8, <1>9, <1>10, <1>11 DEF PollingInv

\* A poll fails: the overview gets its banner, and in the calm no poll does.
LEMMA BannerStep ==
  ASSUME PollingInv, NEW s \in Slot, ShowBanner(s)
  PROVE  PollingInv'
<1>1. /\ ~Up \/ Late(s)
      /\ banner' = (view = "overview")
      /\ polls' = [polls EXCEPT ![s] = Free]
      /\ UNCHANGED <<view, due, success, shown, calm>>
  BY DEF ShowBanner, Late
<1>2. polls \in [Slot -> [state : {"free", "asked", "made"}, age : Age, late : BOOLEAN]]
  BY DEF PollingInv, TypeOK
<1>3. polls'[s] = Free /\ OnlySlot(s) /\ Since' = Since /\ Up' = Up
  BY <1>1, <1>2 DEF OnlySlot, Since, Up
<1>4. TypeOK'
  <2>1. Free \in [state : {"free", "asked", "made"}, age : Age, late : BOOLEAN]
    BY PollingAssumption DEF Free, Age
  <2> QED BY <1>1, <1>2, <2>1 DEF PollingInv, TypeOK
<1>5. /\ ~InTime(s)' /\ ~Late(s)'
      /\ \A t \in Slot \ {s} : (InTime(t)' = InTime(t)) /\ (Late(t)' = Late(t))
  BY <1>3 DEF InTime, Late, Under, OnlySlot, Free
<1>6. PollsAreCurrent'
  BY <1>3, <1>5 DEF PollingInv, PollsAreCurrent, OnlySlot
<1>7. SampleIsPlaced'
  BY <1>1, <1>3 DEF PollingInv, SampleIsPlaced
<1>8. OverviewIsFresh'
  BY <1>1 DEF OverviewIsFresh
<1>9. CalmIsCalm'
  BY <1>1, <1>3, <1>5 DEF PollingInv, CalmIsCalm
<1>10. CalmIsAnswered'
  <2> SUFFICES ASSUME Up, calm > Since PROVE FALSE
    BY <1>1, <1>3, Numbers DEF PollingInv, CalmIsAnswered
  <2>1. calm > 0
    BY Numbers DEF PollingInv
  <2> QED BY <1>1, <2>1 DEF PollingInv, CalmIsCalm
<1> QED
  BY <1>4, <1>6, <1>7, <1>8, <1>9, <1>10 DEF PollingInv

\* handleOverview makes the snapshot: at most Latency after the poll was started.
LEMMA AnswerStep ==
  ASSUME PollingInv, NEW s \in Slot, HandleOverview(s)
  PROVE  PollingInv'
<1>1. /\ polls[s].state = "asked" /\ Up
      /\ polls' = [polls EXCEPT ![s].state = "made", ![s].age = 0]
      /\ UNCHANGED <<view, banner, due, success, shown, calm>>
  BY DEF HandleOverview
<1>2. polls \in [Slot -> [state : {"free", "asked", "made"}, age : Age, late : BOOLEAN]]
  BY DEF PollingInv, TypeOK
<1>3. /\ polls'[s] = [state |-> "made", age |-> 0, late |-> polls[s].late] /\ OnlySlot(s)
      /\ Since' = Since /\ Up' = Up /\ Reported' = Reported
  BY <1>1, <1>2 DEF OnlySlot, Since, Up, Reported
<1>4. TypeOK'
  <2>1. polls'[s] \in [state : {"free", "asked", "made"}, age : Age, late : BOOLEAN]
    BY <1>2, <1>3, PollingAssumption DEF Age
  <2>2. polls' \in [Slot -> [state : {"free", "asked", "made"}, age : Age, late : BOOLEAN]]
    BY <1>1, <1>2, <1>3, <2>1 DEF OnlySlot
  <2> QED BY <1>1, <2>2 DEF PollingInv, TypeOK
<1>5. ASSUME NEW t \in Slot PROVE (InTime(t)' = InTime(t)) /\ (Late(t)' = Late(t))
  <2>1. /\ polls'[t].late = polls[t].late
        /\ polls'[t].state # "free" <=> polls[t].state # "free"
    <3>1. CASE t = s
      BY <1>1, <1>3, <3>1
    <3>2. CASE t # s
      BY <1>3, <3>2 DEF OnlySlot
    <3> QED BY <3>1, <3>2
  <2> QED BY <2>1 DEF InTime, Late, Under
<1>6. PollsAreCurrent'
  <2>1. ASSUME InTime(s) PROVE Since <= Latency /\ 0 <= Since /\ 0 <= Latency
    BY <1>1, <2>1, Numbers, PollType DEF PollingInv, PollsAreCurrent
  <2> QED BY <1>3, <1>5, <2>1, Numbers DEF PollingInv, PollsAreCurrent, OnlySlot
<1>7. SampleIsPlaced' /\ OverviewIsFresh' /\ CalmIsCalm' /\ CalmIsAnswered'
  BY <1>1, <1>3, <1>5 DEF PollingInv, SampleIsPlaced, OverviewIsFresh, CalmIsCalm,
                          CalmIsAnswered
<1> QED
  BY <1>4, <1>6, <1>7 DEF PollingInv

\* A poll stalls, which it does not in the calm.
LEMMA StallStep ==
  ASSUME PollingInv, NEW s \in Slot, Stall(s)
  PROVE  PollingInv'
<1>1. /\ s \in Under /\ ~Up
      /\ polls' = [polls EXCEPT ![s].late = TRUE]
      /\ UNCHANGED <<view, banner, due, success, shown, calm>>
  BY DEF Stall
<1>2. polls \in [Slot -> [state : {"free", "asked", "made"}, age : Age, late : BOOLEAN]]
  BY DEF PollingInv, TypeOK
<1>3. /\ polls'[s] = [state |-> polls[s].state, age |-> polls[s].age, late |-> TRUE]
      /\ OnlySlot(s)
      /\ Since' = Since /\ Up' = Up
  BY <1>1, <1>2 DEF OnlySlot, Since, Up
<1>4. TypeOK'
  <2>1. polls'[s] \in [state : {"free", "asked", "made"}, age : Age, late : BOOLEAN]
    BY <1>2, <1>3
  <2>2. polls' \in [Slot -> [state : {"free", "asked", "made"}, age : Age, late : BOOLEAN]]
    BY <1>1, <1>2, <1>3, <2>1 DEF OnlySlot
  <2> QED BY <1>1, <2>2 DEF PollingInv, TypeOK
<1>5. /\ ~InTime(s)' /\ Late(s)'
      /\ \A t \in Slot \ {s} : (InTime(t)' = InTime(t)) /\ (Late(t)' = Late(t))
  BY <1>1, <1>3 DEF InTime, Late, Under, OnlySlot
<1>6. PollsAreCurrent'
  BY <1>3, <1>5 DEF PollingInv, PollsAreCurrent, OnlySlot
<1>7. SampleIsPlaced' /\ OverviewIsFresh' /\ CalmIsCalm' /\ CalmIsAnswered'
  BY <1>1, <1>3, <1>5 DEF PollingInv, SampleIsPlaced, OverviewIsFresh, CalmIsCalm,
                          CalmIsAnswered
<1> QED
  BY <1>4, <1>6, <1>7 DEF PollingInv

\* The server goes away or comes back: the calm is over, or begins.
LEMMA ServerStep ==
  ASSUME PollingInv, ServerChanges
  PROVE  PollingInv'
<1>1. /\ calm' = (IF Up THEN Down ELSE 0)
      /\ UNCHANGED <<view, banner, due, success, shown, polls>>
  BY DEF ServerChanges
<1>2. /\ Since' = Since
      /\ \A t \in Slot : (InTime(t)' = InTime(t)) /\ (Late(t)' = Late(t))
  BY <1>1 DEF Since, InTime, Late, Under
<1>3. TypeOK'
  BY <1>1, PollingAssumption DEF PollingInv, TypeOK, Age
<1>4. PollsAreCurrent' /\ SampleIsPlaced' /\ OverviewIsFresh'
  BY <1>1, <1>2 DEF PollingInv, PollsAreCurrent, SampleIsPlaced, OverviewIsFresh
<1>5. Up' => calm' = 0
  BY <1>1 DEF Up
<1>6. CalmIsCalm' /\ CalmIsAnswered'
  BY <1>2, <1>5, Numbers DEF PollingInv, CalmIsCalm, CalmIsAnswered
<1> QED
  BY <1>3, <1>4, <1>6 DEF PollingInv

\* Time passes, but not while a poll in time is due to end: all ages grow together
\* with the time since the last event, until they are no longer told apart.
LEMMA PassStep ==
  ASSUME PollingInv, Pass
  PROVE  PollingInv'
<1>1. /\ due > 0 /\ due' = due - 1
      /\ \A s \in Under : Waits(s)
      /\ success' = Older(success)
      /\ shown' = [shown EXCEPT !.age = Older(shown.age)]
      /\ polls' = [s \in Slot |-> IF s \in Under
                                  THEN [polls[s] EXCEPT !.age = Older(polls[s].age)]
                                  ELSE polls[s]]
      /\ calm' = IF \E s \in Under : polls[s].late THEN calm ELSE Older(calm)
      /\ UNCHANGED <<view, banner>>
  BY DEF Pass
<1>2. ASSUME NEW a \in Nat
      PROVE  /\ Older(a) \in Nat /\ Older(a) <= a + 1 /\ a <= Older(a)
             /\ (a < MaxAge => Older(a) = a + 1) /\ (a >= MaxAge => Older(a) = a)
  BY Numbers DEF PollingInv, Older
<1>3. /\ Since' = Since + 1 /\ Since + 1 <= Interval
      /\ Reported' = Reported
  BY <1>1, Numbers DEF PollingInv, Since, Reported
<1>4. /\ shown'.late = shown.late
      /\ shown'.age = Older(shown.age) /\ shown'.age <= shown.age + 1
  <2>1. shown' = [age |-> Older(shown.age), late |-> shown.late]
    BY <1>1, Numbers DEF PollingInv
  <2> QED BY <1>2, <2>1, Numbers DEF PollingInv
<1>5. ASSUME NEW s \in Slot
      PROVE  /\ polls'[s].late = polls[s].late
             /\ polls'[s].state = polls[s].state
             /\ InTime(s)' = InTime(s) /\ Late(s)' = Late(s)
             /\ s \in Under => polls'[s].age = Older(polls[s].age)
             /\ polls'[s] \in [state : {"free", "asked", "made"}, age : Age, late : BOOLEAN]
  <2>1. polls'[s] = IF s \in Under THEN [polls[s] EXCEPT !.age = Older(polls[s].age)]
                    ELSE polls[s]
    BY <1>1
  <2>2. Older(polls[s].age) \in Age
    <3>1. polls[s].age \in Nat /\ polls[s].age <= MaxAge /\ MaxAge \in Nat
      BY Numbers, PollType DEF PollingInv
    <3> QED BY <1>2, <3>1 DEF Age
  <2>3. polls[s] \in [state : {"free", "asked", "made"}, age : Age, late : BOOLEAN]
    BY DEF PollingInv, TypeOK
  <2>4. /\ polls'[s].late = polls[s].late
        /\ polls'[s].state = polls[s].state
        /\ s \in Under => polls'[s].age = Older(polls[s].age)
        /\ polls'[s] \in [state : {"free", "asked", "made"}, age : Age, late : BOOLEAN]
    BY <2>1, <2>2, <2>3
  <2> QED BY <2>4 DEF InTime, Late, Under
<1>6. TypeOK'
  <2>1. due' \in 0..Interval
    BY <1>1, Numbers DEF PollingInv
  <2>2. success' \in Age \cup {Never} /\ shown'.age \in Age \cup {Never}
    BY <1>1, <1>2, <1>4, Numbers DEF PollingInv, Age, Never
  <2>3. shown' \in [age : Age \cup {Never}, late : BOOLEAN]
    <3>1. shown' = [age |-> Older(shown.age), late |-> shown.late]
      BY <1>1, Numbers DEF PollingInv
    <3> QED BY <1>4, <2>2, <3>1, Numbers DEF PollingInv
  <2>4. calm' \in Age \cup {Down}
    BY <1>1, <1>2, Numbers DEF PollingInv, Age, Down
  <2>5. polls' \in [Slot -> [state : {"free", "asked", "made"}, age : Age, late : BOOLEAN]]
    BY <1>1, <1>5
  <2> QED BY <1>1, <2>1, <2>2, <2>3, <2>4, <2>5 DEF PollingInv, TypeOK
<1>7. PollsAreCurrent'
  <2> SUFFICES ASSUME NEW s \in Slot, InTime(s)
               PROVE  /\ polls'[s].age <= Latency
                      /\ polls'[s].age <= Since'
                      /\ polls'[s].state = "asked" => Since' = polls'[s].age
                      /\ polls'[s].state = "made" => Since' <= polls'[s].age + Latency
    BY <1>5 DEF PollsAreCurrent
  <2>1. /\ polls[s].age < Latency /\ polls[s].age \in Nat
        /\ polls[s].age <= Since
        /\ polls[s].state = "asked" => Since = polls[s].age
        /\ polls[s].state = "made" => Since <= polls[s].age + Latency
    BY <1>1, PollType DEF PollingInv, PollsAreCurrent, InTime, Waits
  <2>2. polls'[s].age = polls[s].age + 1 /\ polls'[s].state = polls[s].state
    BY <1>2, <1>5, <2>1, Numbers DEF PollingInv, InTime
  <2> QED BY <1>3, <2>1, <2>2, Numbers DEF PollingInv
<1>8. /\ success' <= success + 1 /\ success' >= success
      /\ success' = success + 1 \/ 2 * success > 3 * Interval
  BY <1>1, <1>2, Numbers DEF PollingInv
<1>9. SampleIsPlaced'
  BY <1>3, <1>4, <1>6, <1>8, Numbers DEF PollingInv, SampleIsPlaced, TypeOK, Age, Never
<1>10. OverviewIsFresh'
  <2>1. ASSUME NEW n \in Nat, shown.age <= n + Since PROVE shown'.age <= n + Since'
    BY <1>2, <1>3, <1>4, <2>1, Numbers DEF PollingInv
  <2>2. Interval \in Nat /\ 2 * Interval \in Nat
    BY Numbers DEF PollingInv
  <2> QED BY <1>1, <1>4, <1>5, <2>1, <2>2 DEF PollingInv, OverviewIsFresh
<1>11. ASSUME Up'
       PROVE  /\ Up /\ calm' \in Nat /\ calm' <= calm + 1
              /\ (calm' > 0 => \A s \in Slot : ~Late(s))
  <2>1. calm \in Nat /\ calm' \in Nat /\ calm' <= calm + 1 /\ Up
    BY <1>1, <1>2, <1>11, Numbers DEF PollingInv, Up, Down
  <2>2. ASSUME calm' > 0, NEW s \in Slot, Late(s) PROVE FALSE
    <3>1. calm' = calm
      BY <1>1, <2>2 DEF Late
    <3> QED BY <2>1, <2>2, <3>1 DEF PollingInv, CalmIsCalm
  <2> QED BY <2>1, <2>2
<1>12. CalmIsCalm'
  BY <1>5, <1>11 DEF CalmIsCalm
<1>13. CalmIsAnswered'
  <2>1. ASSUME Up', calm' > Since'
        PROVE  (\E s \in Slot : InTime(s)) \/ (success' <= Since' /\ ~Reported)
    <3>1. Up /\ calm > Since
      BY <1>3, <1>11, <2>1, Numbers DEF PollingInv
    <3> QED BY <1>3, <1>8, <3>1, Numbers DEF PollingInv, CalmIsAnswered
  <2>2. ASSUME Up', calm' > Interval + Since'
        PROVE  success' <= Interval + Since' /\ ~Reported
    <3>1. Up /\ calm > Interval + Since
      BY <1>3, <1>11, <2>2, Numbers DEF PollingInv
    <3>2. success <= Interval + Since /\ ~Reported
      BY <3>1 DEF PollingInv, CalmIsAnswered
    <3>3. Since \in Nat /\ Interval \in Nat /\ success \in Nat /\ success' \in Nat
      BY <1>1, <1>2, Numbers DEF PollingInv
    <3>4. success' <= Interval + Since'
      BY <1>3, <1>8, <3>2, <3>3
    <3> QED BY <3>2, <3>4
  <2> QED BY <1>3, <1>5, <2>1, <2>2 DEF CalmIsAnswered
<1> QED
  BY <1>6, <1>7, <1>9, <1>10, <1>12, <1>13 DEF PollingInv

\* initOverviewPolling: the first poll goes out as the timer is started.
LEMMA PollingInit ==
  ASSUME Init
  PROVE  PollingInv
<1>1. /\ view = "dashboard" /\ banner = FALSE /\ due = Interval
      /\ success = Never /\ shown = [age |-> Never, late |-> FALSE]
      /\ calm \in {0, Down}
  BY DEF Init, NoSnapshot
<1>2. PICK s \in Slot : polls = [t \in Slot |-> IF t = s THEN Asked ELSE Free]
  BY DEF Init
<1>3. {Asked, Free} \subseteq [state : {"free", "asked", "made"}, age : Age, late : BOOLEAN]
  BY PollingAssumption DEF Asked, Free, Age
<1>4. polls \in [Slot -> [state : {"free", "asked", "made"}, age : Age, late : BOOLEAN]]
  BY <1>2, <1>3
<1>5. TypeOK
  <2>1. due \in 0..Interval /\ 0 \in Age
    BY <1>1, PollingAssumption DEF Age
  <2> QED BY <1>1, <1>4, <2>1 DEF TypeOK
<1>6. Since = 0
  BY <1>1, PollingAssumption DEF Since
<1>7. \A t \in Slot : ~Late(t) /\ (InTime(t) => polls[t] = Asked)
  BY <1>2 DEF Late, InTime, Under, Asked, Free
<1>8. PollsAreCurrent
  BY <1>6, <1>7, PollingAssumption DEF PollsAreCurrent, Asked
<1>9. SampleIsPlaced /\ OverviewIsFresh /\ CalmIsCalm
  BY <1>1, <1>5, <1>7, Numbers DEF SampleIsPlaced, OverviewIsFresh, CalmIsCalm, Never
<1>10. CalmIsAnswered
  <2>1. Up => calm = 0
    BY <1>1 DEF Up
  <2> QED BY <1>5, <1>6, <2>1, Numbers DEF CalmIsAnswered
<1> QED
  BY <1>5, <1>8, <1>9, <1>10 DEF PollingInv

\* Where every poll, the snapshot and the banner stand in relation to the timer's
\* events, whatever the order of clicks, answers, failures and stalls.
THEOREM PollingInvariant == Spec => []PollingInv
<1>1. ASSUME PollingInv, [Next]_vars PROVE PollingInv'
  <2>1. CASE UNCHANGED vars
    BY <1>1, <2>1 DEF vars, PollingInv, TypeOK, PollsAreCurrent, SampleIsPlaced,
       OverviewIsFresh, CalmIsCalm, CalmIsAnswered, Reported, Since, InTime, Late, Under, Up
  <2> QED
    BY <1>1, <2>1, ViewStep, PollStep, RenderStep, BannerStep, AnswerStep, StallStep,
       ServerStep, PassStep DEF Next
<1> QED
  BY <1>1, PollingInit, PTL DEF Spec

\* Types, and the bounds on the ages and on the time to the timer's next event.
THEOREM TypeCorrect == Spec => []TypeOK
<1>1. PollingInv => TypeOK
  BY DEF PollingInv
<1> QED
  BY <1>1, PollingInvariant, PTL

\* ui.js puts the banner up by the time of the last success, not by the age of the
\* snapshot: for every interval more than four times the latency, an overview without
\* a banner is two intervals and two latencies old at most, unless a poll stalls or
\* has stalled.
THEOREM UnbanneredIsFresh == Spec => []NoBannerMeansFresh
<1>1. ASSUME PollingInv PROVE NoBannerMeansFresh
  <2> SUFFICES ASSUME view = "overview", ~banner, ~shown.late,
                      ~ \E s \in Under : polls[s].late
               PROVE  shown.age <= 2 * (Interval + Latency)
    BY DEF NoBannerMeansFresh
  <2>1. ~ \E s \in Slot : Late(s)
    BY DEF Late, Under
  <2>2. CASE shown.age <= Interval + Since
    BY <1>1, <2>2, Numbers DEF PollingInv
  <2>3. CASE (\E s \in Slot : InTime(s)) /\ shown.age <= 2 * Interval + Since
    <3>1. Since <= 2 * Latency
      BY <1>1, <2>3, AnsweredByNext DEF PollingInv
    <3> QED BY <1>1, <2>3, <3>1, Numbers DEF PollingInv
  <2> QED BY <1>1, <2>1, <2>2, <2>3 DEF PollingInv, OverviewIsFresh
<1> QED
  BY <1>1, PollingInvariant, PTL

\* One and a half intervals are enough for a recent sample: once the server has been
\* answering for an interval and the time of an answer, no change of views and no
\* late failure reports it as unreachable.
THEOREM HealthyIsNotReported == Spec => []HealthyShowsNoBanner
<1>1. ASSUME PollingInv PROVE HealthyShowsNoBanner
  <2> SUFFICES ASSUME Up, calm > Interval + 2 * Latency PROVE ~Reported
    BY DEF HealthyShowsNoBanner, Reported
  <2>1. CASE \E s \in Slot : InTime(s)
    <3>1. Since <= 2 * Latency
      BY <1>1, <2>1, AnsweredByNext DEF PollingInv
    <3>2. calm > Interval + Since
      BY <1>1, <3>1, Numbers DEF PollingInv
    <3> QED BY <1>1, <3>2 DEF PollingInv, CalmIsAnswered
  <2>2. CASE ~ \E s \in Slot : InTime(s)
    <3>1. calm > Since
      BY <1>1, Numbers DEF PollingInv
    <3> QED BY <1>1, <2>2, <3>1 DEF PollingInv, CalmIsAnswered
  <2> QED BY <2>1, <2>2
<1> QED
  BY <1>1, PollingInvariant, PTL
=============================================================================
