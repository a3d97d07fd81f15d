------------------------------ MODULE AdWindow ------------------------------
(***************************************************************************)
(* The dwell windows of one device: window_open, window_beat,              *)
(* close_window, click_resolve and sweep_stale_windows, on the server's    *)
(* clock.  Beats, closes and sweeps hold the row lock of their window and  *)
(* are one step.  window_open counts and selects before it inserts, and    *)
(* click_resolve reads the window before it inserts the click, both        *)
(* without a lock: these calls take two steps.                             *)
(***************************************************************************)
EXTENDS Integers, FiniteSets, FiniteSetsExt

CONSTANTS
  Windows,        \* ad_windows rows that may be inserted
  Opens,          \* window_open calls in flight at once
  Clickers,       \* click_resolve calls in flight at once
  Fills,          \* what may be served: subset of the four kinds below
  TicksPerSecond, \* the clock's resolution
  Dwell,          \* dwell_ms, 5 s in the code
  Tolerance,      \* v_tolerance, 1 s
  MinGap,         \* least spacing of two beats, 500 ms
  MinBeats,       \* beats a credited window needs, 3
  Minute,         \* the window of the open rate
  Young,          \* the age the concurrency cap looks back, 2 min
  Stale,          \* age of the sweep and time to live of a click, 10 min
  AgeMax,         \* bound: ages are not told apart beyond it
  OpenCap,        \* MAX_OPEN_CONCURRENT, 6
  RateCap,        \* MAX_OPENS_MIN_DEVICE, 30
  Bid,            \* cpva_bid_micros
  Budget,         \* budget_total_micros of the line item
  MaxCrashes      \* bound: number of crash restarts of the database

FillKinds == {"prepay", "postpay", "house", "none"}

ASSUME AdWindowAssumption ==
  /\ Fills \subseteq FillKinds
  /\ TicksPerSecond \in Nat \ {0}
  /\ Dwell \in Nat \ {0}
  /\ Tolerance \in Nat /\ Tolerance < Dwell
  /\ MinGap \in Nat /\ MinBeats \in Nat
  /\ Minute \in Nat /\ Young \in Nat /\ Stale \in Nat
  /\ AgeMax \in Nat
  /\ \A limit \in {Dwell, Minute, Young, Stale, MinGap} : limit < AgeMax
  /\ MinGap * (MinBeats + 1) <= AgeMax
  /\ OpenCap \in Nat \ {0} /\ RateCap \in Nat \ {0}
  /\ Bid \in Nat \ {0} /\ Budget \in Nat
  /\ MaxCrashes \in Nat
  /\ IsFiniteSet(Windows) /\ IsFiniteSet(Opens)

VARIABLES
  state,       \* ad_windows.state, "none" before the insert, "lost" by a crash
  fill,        \* what is served: a booked creative's billing, or no fill
  age,         \* now() - started_at
  gap,         \* now() - coalesce(last_recv_at, started_at)
  beats,       \* beats_count, not told apart beyond MinBeats
  progress,    \* activity_progress
  hold,        \* reserve_micros
  impression,  \* impressions.state of the window
  gross,       \* impressions.gross_micros
  click,       \* clicks.state of the window's token
  opening,     \* per call: what it will insert, "idle" without a call
  clicking,    \* per call: the window it has read and whether it bills
  revoked,     \* devices.revoked_at is set
  crashes

clockVars  == <<age, gap>>
beatVars   == <<beats, progress>>
bookVars   == <<impression, gross>>
windowVars == <<state, fill, hold>>
callVars   == <<opening, clicking>>
vars == <<windowVars, clockVars, beatVars, bookVars, click, callVars,
          revoked, crashes>>

NoClick == [window |-> "none", billable |-> FALSE]

Init ==
  /\ state = [w \in Windows |-> "none"]
  /\ fill = [w \in Windows |-> "none"]
  /\ age = [w \in Windows |-> 0]
  /\ gap = [w \in Windows |-> 0]
  /\ beats = [w \in Windows |-> 0]
  /\ progress = [w \in Windows |-> FALSE]
  /\ hold = [w \in Windows |-> 0]
  /\ impression = [w \in Windows |-> "none"]
  /\ gross = [w \in Windows |-> 0]
  /\ click = [w \in Windows |-> "none"]
  /\ opening = [o \in Opens |-> "idle"]
  /\ clicking = [k \in Clickers |-> NoClick]
  /\ revoked = FALSE
  /\ crashes = 0

\* The SQL least().
Least(a, b) == IF a < b THEN a ELSE b

\* ceil(dwell_ms / 1000.0) * bid, what a prepay window holds.
DwellSeconds == (Dwell + TicksPerSecond - 1) \div TicksPerSecond
Estimate == DwellSeconds * Bid

\* round(least(elapsed, dwell_ms) / 1000.0), half up; bug: the dwell is no
\* upper limit.
AttentionBug(elapsed) == (2 * elapsed + TicksPerSecond) \div (2 * TicksPerSecond)
Attention(elapsed) ==
  (2 * Least(elapsed, Dwell) + TicksPerSecond) \div (2 * TicksPerSecond)

-----------------------------------------------------------------------------
(* window_open.                                                            *)

Exists(w) == state[w] \notin {"none", "lost"}
YoungOpen == {w \in Windows : state[w] = "open" /\ age[w] < Young}
OpenedLately == {w \in Windows : Exists(w) /\ age[w] < Minute}

\* Lifetime spend of the line item: its provisional and cleared impressions.
Spent == MapThenSumSet(LAMBDA w : gross[w], Windows)

BudgetLeft == Spent < Budget

\* What the serving query may select; a booked creative needs budget left.
\* Bug: the budget is compared after one more impression.
Booked == {"prepay", "postpay"}
SelectableBug(f) == f \in Booked => Spent <= Budget
Selectable(f) == f \in Booked => BudgetLeft

\* The caps and the selection, each on what is committed when it runs.  Bug:
\* the caps are left to the limiter of the edge function.
OpenCheckBug(o) ==
  /\ opening[o] = "idle"
  /\ ~revoked
  /\ \E f \in Fills : Selectable(f) /\ opening' = [opening EXCEPT ![o] = f]
  /\ UNCHANGED <<windowVars, clockVars, beatVars, bookVars, click, clicking,
                 revoked, crashes>>
OpenCheck(o) ==
  /\ opening[o] = "idle"
  /\ ~revoked
  /\ Cardinality(YoungOpen) < OpenCap
  /\ Cardinality(OpenedLately) < RateCap
  /\ \E f \in Fills : Selectable(f) /\ opening' = [opening EXCEPT ![o] = f]
  /\ UNCHANGED <<windowVars, clockVars, beatVars, bookVars, click, clicking,
                 revoked, crashes>>

\* The insert and the commit; the price is locked on the row.
OpenInsert(o, w) ==
  /\ opening[o] # "idle"
  /\ state[w] = "none"
  /\ state' = [state EXCEPT ![w] = "open"]
  /\ fill' = [fill EXCEPT ![w] = opening[o]]
  /\ hold' = [hold EXCEPT ![w] = IF opening[o] = "prepay" THEN Estimate ELSE 0]
  /\ opening' = [opening EXCEPT ![o] = "idle"]
  /\ UNCHANGED <<clockVars, beatVars, bookVars, click, clicking, revoked, crashes>>

\* The call is cancelled, or the reserve of a prepay creative finds the credit
\* gone and the call serves nothing.
OpenFallBack(o) ==
  /\ opening[o] # "idle"
  /\ \/ opening' = [opening EXCEPT ![o] = "idle"]
     \/ /\ opening[o] = "prepay"
        /\ opening' = [opening EXCEPT ![o] = "none"]
  /\ UNCHANGED <<windowVars, clockVars, beatVars, bookVars, click, clicking,
                 revoked, crashes>>

-----------------------------------------------------------------------------
(* window_beat and close_window.                                           *)

\* An accepted beat; a beat out of sequence, with a broken chain or too close
\* to the one before raises and changes nothing.
Beat(w, active) ==
  /\ state[w] = "open"
  /\ ~revoked
  /\ gap[w] >= MinGap
  /\ gap' = [gap EXCEPT ![w] = 0]
  /\ beats' = [beats EXCEPT ![w] = Least(@ + 1, MinBeats)]
  /\ progress' = [progress EXCEPT ![w] = @ \/ active]
  /\ UNCHANGED <<windowVars, age, bookVars, click, callVars, revoked, crashes>>

\* The dwell quality gates.
Earned(w) ==
  /\ ~revoked
  /\ beats[w] >= MinBeats
  /\ progress[w]
  /\ age[w] >= Dwell - Tolerance

\* A click that a failed window had collected never bills.
Voided(S) == [w \in Windows |-> IF w \in S /\ click[w] = "provisional"
                                THEN "void" ELSE click[w]]

CloseUnearned(w) ==
  /\ state[w] = "open"
  /\ ~Earned(w)
  /\ state' = [state EXCEPT ![w] = "abandoned"]
  /\ hold' = [hold EXCEPT ![w] = 0]
  /\ click' = Voided({w})
  /\ UNCHANGED <<fill, clockVars, beatVars, bookVars, callVars, revoked, crashes>>

\* A valid dwell without a creative is recorded, never billed.
CloseNoFill(w) ==
  /\ state[w] = "open"
  /\ Earned(w)
  /\ fill[w] = "none"
  /\ state' = [state EXCEPT ![w] = "void"]
  /\ hold' = [hold EXCEPT ![w] = 0]
  /\ impression' = [impression EXCEPT ![w] = "void"]
  /\ UNCHANGED <<fill, clockVars, beatVars, gross, click, callVars, revoked, crashes>>

\* The impression and, for a prepay window, the true-up of its hold.
CloseCredit(w) ==
  /\ state[w] = "open"
  /\ Earned(w)
  /\ fill[w] # "none"
  /\ LET owed == IF fill[w] = "house" THEN 0 ELSE Attention(age[w]) * Bid
     IN /\ state' = [state EXCEPT ![w] = "credited"]
        /\ impression' = [impression EXCEPT ![w] = "provisional"]
        /\ gross' = [gross EXCEPT ![w] = owed]
        /\ hold' = [hold EXCEPT ![w] = IF @ > 0 THEN owed ELSE @]
  /\ UNCHANGED <<fill, clockVars, beatVars, click, callVars, revoked, crashes>>

-----------------------------------------------------------------------------
(* sweep_stale_windows, click_resolve and the world around.                *)

\* What a sweep may end; bug: only the windows that hold credit.
StaleOpenBug == {w \in Windows : state[w] = "open" /\ age[w] >= Stale /\ hold[w] > 0}
StaleOpen == {w \in Windows : state[w] = "open" /\ age[w] >= Stale}

\* Rows that a beat or a close has locked are skipped.  Bugs: only the clicks
\* of the windows of this sweep are voided; the hold is forgotten.
SweepBug(S) ==
  /\ S \subseteq StaleOpen
  /\ state' = [w \in Windows |-> IF w \in S THEN "abandoned" ELSE state[w]]
  /\ hold' = [w \in Windows |-> IF w \in S THEN 0 ELSE hold[w]]
  /\ click' = Voided(S)
  /\ UNCHANGED <<fill, clockVars, beatVars, bookVars, callVars, revoked, crashes>>
SweepHoldBug(S) ==
  /\ S \subseteq StaleOpen
  /\ state' = [w \in Windows |-> IF w \in S THEN "abandoned" ELSE state[w]]
  /\ click' = Voided({w \in Windows : state'[w] = "abandoned"})
  /\ UNCHANGED <<fill, hold, clockVars, beatVars, bookVars, callVars, revoked, crashes>>
Sweep(S) ==
  /\ S \subseteq StaleOpen
  /\ state' = [w \in Windows |-> IF w \in S THEN "abandoned" ELSE state[w]]
  /\ hold' = [w \in Windows |-> IF w \in S THEN 0 ELSE hold[w]]
  /\ click' = Voided({w \in Windows : state'[w] = "abandoned"})
  /\ UNCHANGED <<fill, clockVars, beatVars, bookVars, callVars, revoked, crashes>>

\* The window of the token is read; the click of the machine that was served
\* is not billed.
ClickRead(k, w) ==
  /\ clicking[k] = NoClick
  /\ Exists(w)
  /\ fill[w] # "none"
  /\ \E sameMachine \in BOOLEAN :
       clicking' = [clicking EXCEPT ![k] =
         [window |-> w,
          billable |-> /\ ~sameMachine
                       /\ state[w] \in {"open", "credited"}
                       /\ age[w] <= Stale]]
  /\ UNCHANGED <<windowVars, clockVars, beatVars, bookVars, click, opening,
                 revoked, crashes>>

\* ON CONFLICT (click_token_hash): a token has one click.
ClickInsert(k) ==
  /\ clicking[k] # NoClick
  /\ LET w == clicking[k].window
     IN click' = IF click[w] # "none" THEN click
                 ELSE [click EXCEPT ![w] = IF clicking[k].billable
                                           THEN "provisional" ELSE "void"]
  /\ clicking' = [clicking EXCEPT ![k] = NoClick]
  /\ UNCHANGED <<windowVars, clockVars, beatVars, bookVars, opening, revoked, crashes>>

\* device_revoke, or an approval that replaces the device.
Revoke ==
  /\ ~revoked
  /\ revoked' = TRUE
  /\ UNCHANGED <<windowVars, clockVars, beatVars, bookVars, click, callVars, crashes>>

\* ad_windows is UNLOGGED: a crash restart of the database empties it and
\* ends the calls in flight.  Impressions and clicks are kept.
Crash ==
  /\ crashes < MaxCrashes
  /\ crashes' = crashes + 1
  /\ state' = [w \in Windows |-> IF Exists(w) THEN "lost" ELSE state[w]]
  /\ hold' = [w \in Windows |-> 0]
  /\ opening' = [o \in Opens |-> "idle"]
  /\ clicking' = [k \in Clickers |-> NoClick]
  /\ UNCHANGED <<fill, clockVars, beatVars, bookVars, click, revoked>>

Tick ==
  /\ age' = [w \in Windows |-> IF Exists(w) THEN Least(age[w] + 1, AgeMax) ELSE age[w]]
  /\ gap' = [w \in Windows |-> IF state[w] = "open" THEN Least(gap[w] + 1, MinGap) ELSE gap[w]]
  /\ clockVars' # clockVars
  /\ UNCHANGED <<windowVars, beatVars, bookVars, click, callVars, revoked, crashes>>

-----------------------------------------------------------------------------
OpenStep == \E o \in Opens : \/ OpenCheck(o) \/ OpenFallBack(o)
                             \/ \E w \in Windows : OpenInsert(o, w)
WindowStep == \E w \in Windows : \/ \E active \in BOOLEAN : Beat(w, active)
                                 \/ CloseUnearned(w) \/ CloseNoFill(w)
                                 \/ CloseCredit(w)
ClickStep == \E k \in Clickers : \/ \E w \in Windows : ClickRead(k, w)
                                 \/ ClickInsert(k)
SweepStep == \E S \in SUBSET StaleOpen : Sweep(S)

Next == OpenStep \/ WindowStep \/ ClickStep \/ SweepStep \/ Revoke \/ Crash \/ Tick

Spec == Init /\ [][Next]_vars

\* Time passes, the calls in flight end, and the sweep runs every 10 minutes:
\* of the rows it meets, none is locked for good.
Fairness ==
  /\ WF_vars(Tick)
  /\ \A k \in Clickers : WF_vars(ClickInsert(k))
  /\ \A w \in Windows : WF_vars(\E S \in SUBSET StaleOpen : w \in S /\ Sweep(S))
  /\ WF_vars(Sweep({}))

LiveSpec == Spec /\ Fairness

-----------------------------------------------------------------------------
(* Properties.                                                             *)

TypeOK ==
  /\ state \in [Windows -> {"none", "open", "credited", "void", "abandoned", "lost"}]
  /\ fill \in [Windows -> FillKinds]
  /\ age \in [Windows -> 0 .. AgeMax]
  /\ gap \in [Windows -> 0 .. MinGap]
  /\ beats \in [Windows -> 0 .. MinBeats]
  /\ progress \in [Windows -> BOOLEAN]
  /\ hold \in [Windows -> Nat]
  /\ impression \in [Windows -> {"none", "provisional", "void"}]
  /\ gross \in [Windows -> Nat]
  /\ click \in [Windows -> {"none", "provisional", "void"}]
  /\ opening \in [Opens -> FillKinds \cup {"idle"}]
  /\ clicking \in [Clickers -> [window : Windows \cup {"none"}, billable : BOOLEAN]]
  /\ revoked \in BOOLEAN
  /\ crashes \in Nat

\* The estimate always covers the impression: the true-up of close_window is
\* never negative, whatever the rounding of the measured dwell, and a window
\* holds exactly its estimate, its gross or nothing.
HoldCoversGross ==
  \A w \in Windows :
    /\ gross[w] <= Estimate
    /\ state[w] = "open" => hold[w] = IF fill[w] = "prepay" THEN Estimate ELSE 0
    /\ state[w] = "credited" => hold[w] = IF fill[w] = "prepay" THEN gross[w] ELSE 0
    /\ state[w] \in {"abandoned", "void", "lost"} => hold[w] = 0

\* An impression was earned by beats the server spaced itself: the window
\* needs the time of its beats and its dwell less the tolerance, and a crash
\* or a replayed close leaves at most this one impression.
ImpressionEarned ==
  \A w \in Windows :
    impression[w] # "none" =>
      /\ state[w] \in {"credited", "void", "lost"}
      /\ beats[w] = MinBeats /\ progress[w]
      /\ age[w] >= MinGap * MinBeats
      /\ gross[w] > 0 => age[w] >= Dwell - Tolerance

\* Overlapping window_open calls count before they insert: they pass the caps
\* by at most one window for each further call in flight.
OvershootBounded ==
  /\ Cardinality(YoungOpen) <= OpenCap + Cardinality(Opens) - 1
  /\ Cardinality(OpenedLately) <= RateCap + Cardinality(Opens) - 1

\* A12: concurrent opens overshoot the total budget by the windows in flight
\* and no more: once the spend has reached it, nothing new is booked.
BookedOpen == {w \in Windows : state[w] = "open" /\ fill[w] \in Booked}
BookedCalls == {o \in Opens : opening[o] \in Booked}
InFlight == Cardinality(BookedOpen) + Cardinality(BookedCalls)
BudgetStops == [][~BudgetLeft => InFlight' <= InFlight]_vars

\* A closed window is final: no replayed close, late beat, sweep or click
\* changes what was booked for it.
BookedOnce ==
  [][\A w \in Windows : impression[w] # "none" =>
       impression'[w] = impression[w] /\ gross'[w] = gross[w]]_vars

\* Every window ends, so no hold outlives the sweep.
WindowsEnd == \A w \in Windows : (state[w] = "open") ~> (state[w] # "open")

\* click_resolve reads the window before close_window abandons it and inserts
\* after: the sweep voids the click all the same.
StrayClicksVoided ==
  \A w \in Windows :
    (state[w] = "abandoned" /\ click[w] = "provisional")
      ~> (click[w] = "void" \/ state[w] = "lost")

\* The promise to the prepaid balance, see WindowContract.
PhaseOf(w) == CASE state[w] = "none" -> "none"
                [] state[w] = "open" -> "held"
                [] state[w] = "credited" /\ hold[w] > 0 -> "owed"
                [] OTHER -> "ended"
Contract == INSTANCE WindowContract WITH
              phase <- [w \in Windows |-> PhaseOf(w)], amount <- hold
KeepsContract == Contract!Spec

=============================================================================
