------------------------------ MODULE Clearing ------------------------------
(***************************************************************************)
(* The clearing and the clawback of the events of one publisher, below the *)
(* level of a transaction.  clear_events and public.clawback run under     *)
(* READ COMMITTED: each statement sees what was committed when it began,   *)
(* a row lock is held to the end of the transaction, and an update that    *)
(* waited for a lock re-reads the row.  A step is therefore one statement, *)
(* and the variables state, legs and review hold what is committed.        *)
(***************************************************************************)
EXTENDS Integers, FiniteSets

CONSTANTS
  Windows,      \* closed windows, each with an impression and perhaps a click
  Clearers,     \* sessions that run clear_events, the cron job and an operator
  Clawers,      \* transactions that claw a window back, each runs once
  Clicks,       \* BOOLEAN: windows may carry a billable click
  Origins,      \* who opens clawbacks, out of {"approve", "admin", "scan"}
  MaxCrashes    \* bound: number of clear_events runs that fail half way

ASSUME ClearingAssumption ==
  /\ Clicks \in BOOLEAN
  /\ Origins \subseteq {"approve", "admin", "scan"}
  /\ MaxCrashes \in Nat
  /\ "none" \notin Clearers /\ "none" \notin Clawers
  /\ Clearers \cap Clawers = {}

VARIABLES
  state,     \* impressions.state and clicks.state
  legs,      \* the state of the source's accrual group in ledger_entries
  age,       \* "recent" for the scans, "held" for 72 h, or "aged"
  review,    \* status of the clawback review of the source's risk flag
  run,       \* per session: loop it is in, rows left to fetch, rows cleared,
             \* and whether it shares the publisher's row
  undo,      \* per clawback: its progress, legs reversed and rows locked
  crashes

vars == <<state, legs, age, review, run, undo, crashes>>

Kinds == {"impression", "click"}
Sources == Windows \X Kinds
Billable == {"provisional", "cleared"}

Impression(w) == <<w, "impression">>
Click(w) == <<w, "click">>
SourcesOf(w) == {w} \X Kinds

Idle == [phase |-> "idle", seen |-> {}, held |-> {}, share |-> FALSE]
Unstarted == [origin |-> "none", pc |-> "start", window |-> "none",
              reversed |-> {}, rows |-> {}]

Init ==
  /\ state \in [Sources -> {"none", "provisional"}]
  /\ \A w \in Windows : /\ state[Impression(w)] = "provisional"
                        /\ ~Clicks => state[Click(w)] = "none"
  /\ legs = [s \in Sources |-> "none"]
  /\ age = [s \in Sources |-> "recent"]
  /\ review = [s \in Sources |-> "none"]
  /\ run = [c \in Clearers |-> Idle]
  /\ undo = [t \in Clawers |-> Unstarted]
  /\ crashes = 0

-----------------------------------------------------------------------------
(* Flags and their human review.                                           *)

\* scan_ivt and scan_click_ivt flag a recent provisional source: a risk flag
\* keyed by the window, and a pending review.  scan_ivt looks for a flag of
\* the impression, scan_click_ivt for any flag of the window.
Scan(s) ==
  /\ age[s] = "recent"
  /\ state[s] = "provisional"
  /\ review[s] = "none"
  /\ s[2] = "click" => review[Impression(s[1])] = "none"
  /\ review' = [review EXCEPT ![s] = "pending"]
  /\ UNCHANGED <<state, legs, age, run, undo, crashes>>

\* The review row is locked by the approval in progress.
ReviewLocked(s) ==
  \E t \in Clawers : /\ undo[t].origin = "approve"
                     /\ undo[t].pc \notin {"start", "done"}
                     /\ Impression(undo[t].window) = s

\* reject_clawback.
Reject(s) ==
  /\ review[s] = "pending"
  /\ ~ReviewLocked(s)
  /\ review' = [review EXCEPT ![s] = "rejected"]
  /\ UNCHANGED <<state, legs, age, run, undo, crashes>>

\* approve_clawback of a click's review, whose impression_id is NULL: the
\* review closes and no source or leg is touched.
ApproveClickReview(w) ==
  /\ "approve" \in Origins
  /\ review[Click(w)] = "pending"
  /\ review' = [review EXCEPT ![Click(w)] = "approved"]
  /\ UNCHANGED <<state, legs, age, run, undo, crashes>>

\* Time passes.  The scans look back minutes and the hold is 72 h; a click is
\* inserted within ten minutes of its window's impression, so neither is aged
\* while the other is recent, but a clearing may come between the two.
Age(s) ==
  /\ \/ /\ age[s] = "recent"
        /\ age' = [age EXCEPT ![s] = "held"]
     \/ /\ age[s] = "held"
        /\ \A other \in SourcesOf(s[1]) : age[other] # "recent"
        /\ age' = [age EXCEPT ![s] = "aged"]
  /\ UNCHANGED <<state, legs, review, run, undo, crashes>>

-----------------------------------------------------------------------------
(* clear_events.                                                           *)

\* Before A8: any flag withholds, whatever its review said.
BlockedBug(w) == \E k \in Kinds : review[<<w, k>>] # "none"
\* A pending review may be forgotten: only a confirmed one withholds.
BlockedPendingBug(w) == \E k \in Kinds : review[<<w, k>>] = "approved"
\* A flag of the window withholds its events until its review is rejected.
Blocked(w) == \E k \in Kinds : review[<<w, k>>] \in {"pending", "approved"}

\* The publisher's row: admin_open_clawback and scan_selfdeal_risk lock it FOR
\* UPDATE.  Bug: they do not.
HoldsPublisherBug(t) == FALSE
HoldsPublisher(t) ==
  /\ undo[t].origin \in {"admin", "scan"}
  /\ undo[t].pc \notin {"publisher", "done"}

\* Rows locked by a transaction other than the given ones.
Locked(c, t, s) ==
  \/ \E d \in Clearers \ {c} : s \in run[d].held
  \/ \E u \in Clawers \ {t} : s \in undo[u].rows

\* What a loop's cursor selects; the click loop sees the impressions that
\* this run has just cleared.
EligibleClickBug(c, w) == TRUE
EligibleClick(c, w) ==
  state[Impression(w)] = "cleared" \/ Impression(w) \in run[c].held

Selected(c, kind) ==
  {s \in Sources : /\ s[2] = kind
                   /\ state[s] = "provisional"
                   /\ age[s] = "aged"
                   /\ ~Blocked(s[1])
                   /\ kind = "click" => EligibleClick(c, s[1])}

OpenImpressions(c) ==
  /\ run[c].phase = "idle"
  /\ run' = [run EXCEPT ![c].phase = "impression",
                        ![c].seen = Selected(c, "impression")]
  /\ UNCHANGED <<state, legs, age, review, undo, crashes>>

\* The row is taken as the cursor saw it.
FetchBug(c, s) ==
  /\ s \in run[c].seen
  /\ run' = [run EXCEPT ![c].seen = @ \ {s}, ![c].held = @ \cup {s}]
  /\ UNCHANGED <<state, legs, age, review, undo, crashes>>

\* FOR UPDATE SKIP LOCKED: a locked row is skipped, a row changed since the
\* cursor's snapshot is re-read and dropped; a row that is still provisional
\* is cleared.  The loop fetches rows ahead of the one it is booking.
Fetch(c, s) ==
  /\ s \in run[c].seen
  /\ run' = [run EXCEPT
       ![c].seen = @ \ {s},
       ![c].held = IF ~Locked(c, "none", s) /\ state[s] = "provisional"
                   THEN @ \cup {s} ELSE @]
  /\ UNCHANGED <<state, legs, age, review, undo, crashes>>

\* app.accrue books the group of a cleared row: the publisher's leg refers to
\* the publisher, so its insert takes that row FOR KEY SHARE until the commit.
\* Runs share it with each other, never with a transaction that updates it.
WantsShare(c) == run[c].held # {} /\ ~run[c].share

Accrue(c) ==
  /\ WantsShare(c)
  /\ \A t \in Clawers : ~HoldsPublisher(t)
  /\ run' = [run EXCEPT ![c].share = TRUE]
  /\ UNCHANGED <<state, legs, age, review, undo, crashes>>

OpenClicks(c) ==
  /\ run[c].phase = "impression"
  /\ run[c].seen = {}
  /\ ~WantsShare(c)
  /\ run' = [run EXCEPT ![c].phase = "click", ![c].seen = Selected(c, "click")]
  /\ UNCHANGED <<state, legs, age, review, undo, crashes>>

CommitClear(c) ==
  /\ run[c].phase = "click"
  /\ run[c].seen = {}
  /\ ~WantsShare(c)
  /\ state' = [s \in Sources |-> IF s \in run[c].held THEN "cleared" ELSE state[s]]
  /\ legs' = [s \in Sources |-> IF s \in run[c].held THEN "cleared" ELSE legs[s]]
  /\ run' = [run EXCEPT ![c] = Idle]
  /\ UNCHANGED <<age, review, undo, crashes>>

-----------------------------------------------------------------------------
(* The transactions around public.clawback.                                *)

Begin(t, w, origin, pc, rows) ==
  /\ origin \in Origins
  /\ undo[t].pc = "start"
  /\ undo' = [undo EXCEPT ![t] = [origin |-> origin, pc |-> pc, window |-> w,
                                  reversed |-> {}, rows |-> rows]]
  /\ UNCHANGED <<state, legs, age, review, run, crashes>>

\* The row that the next statement of public.clawback updates: first the
\* impression of the window, then its click.  Bugs: the click first, and the
\* sibling click forgotten.
NextRowSwapBug(t) ==
  IF undo[t].pc = "impression" THEN Click(undo[t].window) ELSE Impression(undo[t].window)
NextRowBug(t) == Impression(undo[t].window)
NextRow(t) ==
  IF undo[t].pc = "impression" THEN Impression(undo[t].window) ELSE Click(undo[t].window)

\* Who waits for whom.  For the publisher's row: a run that books, while a
\* clawback has it, and a clawback, while another has it or a run shares it.
\* For the legs another clawback has updated.  For the row of a source.  A
\* run never waits for a source, it skips the locked ones.
Transactions == Clearers \cup Clawers
WantsPublisher(a) ==
  \/ a \in Clearers /\ WantsShare(a)
  \/ a \in Clawers /\ undo[a].pc = "publisher"
KeepsPublisher(b, exclusive) ==
  \/ b \in Clawers /\ HoldsPublisher(b)
  \/ exclusive /\ b \in Clearers /\ run[b].share
RowsOf(b) == IF b \in Clearers THEN run[b].held ELSE undo[b].rows

WaitsFor(a, b) ==
  /\ a # b
  /\ \/ WantsPublisher(a) /\ KeepsPublisher(b, a \in Clawers)
     \/ /\ a \in Clawers /\ b \in Clawers
        /\ undo[a].pc = "reverse"
        /\ undo[b].reversed \cap SourcesOf(undo[a].window) # {}
     \/ /\ a \in Clawers
        /\ undo[a].pc \in {"impression", "click"}
        /\ NextRow(a) \in RowsOf(b)

\* approve_clawback locks the pending review.
BeginApprove(t, w) ==
  /\ review[Impression(w)] = "pending"
  /\ ~ReviewLocked(Impression(w))
  /\ Begin(t, w, "approve", "reverse", {})

\* admin_open_clawback locks the impression, then waits for the publisher.
BeginAdmin(t, w) ==
  /\ ~Locked("none", t, Impression(w))
  /\ state[Impression(w)] \in Billable
  /\ Begin(t, w, "admin", "publisher", {Impression(w)})

\* scan_selfdeal_risk works through the billable impressions its cursor saw.
BeginScan(t, w) ==
  /\ state[Impression(w)] \in Billable
  /\ Begin(t, w, "scan", "publisher", {})

\* Under both locks admin_open_clawback refuses an impression whose review
\* stands.  The lock waits for the runs that share the row, too.
TakePublisher(t) ==
  /\ undo[t].pc = "publisher"
  /\ \A b \in Transactions : ~WaitsFor(t, b)
  /\ undo' = IF /\ undo[t].origin = "admin"
                /\ review[Impression(undo[t].window)] \in {"pending", "approved"}
             THEN [undo EXCEPT ![t].pc = "done", ![t].rows = {}]
             ELSE [undo EXCEPT ![t].pc = "reverse"]
  /\ UNCHANGED <<state, legs, age, review, run, crashes>>

\* First statement of public.clawback: the legs of the window committed so
\* far.  It waits for a clawback that has already updated them.
Reverse(t) ==
  /\ undo[t].pc = "reverse"
  /\ \A u \in Clawers : ~WaitsFor(t, u)
  /\ undo' = [undo EXCEPT
       ![t].pc = "impression",
       ![t].reversed = {s \in SourcesOf(undo[t].window) : legs[s] = "cleared"}]
  /\ UNCHANGED <<state, legs, age, review, run, crashes>>

\* Second and third statement: the billable sources of the window, each
\* after the transaction that holds its row has ended.
Mark(t, pc, next) ==
  /\ undo[t].pc = pc
  /\ ~Locked("none", t, NextRow(t))
  /\ undo' = [undo EXCEPT
       ![t].pc = next,
       ![t].rows = IF state[NextRow(t)] \in Billable THEN @ \cup {NextRow(t)} ELSE @]
  /\ UNCHANGED <<state, legs, age, review, run, crashes>>

MarkImpression(t) == Mark(t, "impression", "click")
MarkClick(t) == Mark(t, "click", "commit")

CommitClawback(t) ==
  /\ undo[t].pc = "commit"
  /\ state' = [s \in Sources |-> IF s \in undo[t].rows THEN "clawed_back" ELSE state[s]]
  /\ legs' = [s \in Sources |-> IF s \in undo[t].reversed THEN "reversed" ELSE legs[s]]
  /\ review' = IF undo[t].origin = "scan" THEN review
               ELSE [review EXCEPT ![Impression(undo[t].window)] = "approved"]
  /\ undo' = [undo EXCEPT ![t].pc = "done", ![t].rows = {}, ![t].reversed = {}]
  /\ UNCHANGED <<age, run, crashes>>

\* A payout guard refuses, the payable would turn negative, or the call fails.
AbortClawback(t) ==
  /\ undo[t].pc \notin {"start", "done"}
  /\ undo' = [undo EXCEPT ![t].pc = "done", ![t].rows = {}, ![t].reversed = {}]
  /\ UNCHANGED <<state, legs, age, review, run, crashes>>

\* Transactions that wait for each other in a circle: an admin that holds the
\* impression and a scan that holds the publisher, or a clear_events that has
\* cleared the click and a clawback that holds the publisher.  PostgreSQL
\* finds the circle and aborts one of them.
Stuck(S) == S # {} /\ \A a \in S : \E b \in S : WaitsFor(a, b)
Deadlocked(a) ==
  \E S \in SUBSET Transactions :
    a \in S /\ Stuck(S) /\ \A b \in S : ~Stuck(S \ {b})

\* The connection is lost, a statement fails or the run is the victim of a
\* deadlock: nothing of it remains.
AbortClear(c) ==
  /\ run[c].phase # "idle"
  /\ \/ crashes < MaxCrashes /\ crashes' = crashes + 1
     \/ Deadlocked(c) /\ UNCHANGED crashes
  /\ run' = [run EXCEPT ![c] = Idle]
  /\ UNCHANGED <<state, legs, age, review, undo>>

BreakDeadlock ==
  \/ \E c \in Clearers : Deadlocked(c) /\ AbortClear(c)
  \/ \E t \in Clawers : Deadlocked(t) /\ AbortClawback(t)

-----------------------------------------------------------------------------
ClearStep(c) ==
  \/ OpenImpressions(c) \/ Accrue(c) \/ OpenClicks(c) \/ CommitClear(c)
  \/ \E s \in Sources : Fetch(c, s)

BeginStep(t) ==
  \E w \in Windows : BeginApprove(t, w) \/ BeginAdmin(t, w) \/ BeginScan(t, w)

ClawbackStep(t) ==
  \/ TakePublisher(t) \/ Reverse(t) \/ MarkImpression(t) \/ MarkClick(t)
  \/ CommitClawback(t)

ReviewStep ==
  \/ \E s \in Sources : Scan(s) \/ Reject(s) \/ Age(s)
  \/ \E w \in Windows : ApproveClickReview(w)

Next ==
  \/ ReviewStep
  \/ \E c \in Clearers : ClearStep(c) \/ AbortClear(c)
  \/ \E t \in Clawers : BeginStep(t) \/ ClawbackStep(t) \/ AbortClawback(t)

Spec == Init /\ [][Next]_vars

\* The cron job calls clear_events every hour and each call runs to its end;
\* an open transaction proceeds when it is not waiting for a lock, a deadlock
\* is broken, and a clawback that waits is handed the lock before later runs
\* take it again and again (locks are queued for).
Fairness ==
  /\ \A c \in Clearers : /\ WF_vars(ClearStep(c))
                         /\ \A s \in Sources : WF_vars(Fetch(c, s))
  /\ \A t \in Clawers : SF_vars(ClawbackStep(t))
  /\ WF_vars(BreakDeadlock)

LiveSpec == Spec /\ Fairness

-----------------------------------------------------------------------------
(* Properties.                                                             *)

\* The state is well typed, and a session or transaction that has ended holds
\* no row.
TypeOK ==
  /\ state \in [Sources -> {"none", "provisional", "cleared", "clawed_back"}]
  /\ legs \in [Sources -> {"none", "cleared", "reversed"}]
  /\ age \in [Sources -> {"recent", "held", "aged"}]
  /\ review \in [Sources -> {"none", "pending", "rejected", "approved"}]
  /\ run \in [Clearers -> [phase : {"idle", "impression", "click"},
                           seen : SUBSET Sources, held : SUBSET Sources,
                           share : BOOLEAN]]
  /\ undo \in [Clawers ->
       [origin : {"none", "approve", "admin", "scan"},
        pc : {"start", "publisher", "reverse", "impression", "click", "commit", "done"},
        window : Windows \cup {"none"},
        reversed : SUBSET Sources, rows : SUBSET Sources]]
  /\ crashes \in Nat
  /\ \A c \in Clearers : run[c].phase = "idle" => run[c] = Idle
  /\ \A t \in Clawers : undo[t].pc \in {"start", "done"} => undo[t].rows = {}

\* Two overlapping runs, or a run and a clawback, never book one event twice:
\* what a run has accrued and not yet committed is provisional, unbooked and
\* accrued by no other run, so the unique index never aborts a clearing.
NoDoubleAccrual ==
  \A c \in Clearers : \A s \in run[c].held :
    /\ state[s] = "provisional"
    /\ legs[s] = "none"
    /\ \A d \in Clearers \ {c} : s \notin run[d].held
    /\ \A t \in Clawers : s \notin undo[t].rows

\* The click of a window is paid only while its impression is: fraud is the
\* pair, so neither a clearing nor a clawback leaves a paid click alone.
PairStandsTogether ==
  \A w \in Windows : state[Click(w)] = "cleared" => state[Impression(w)] = "cleared"

\* A cleared event has its accrual, a reversed accrual its clawed back event.
BookedMatchesState ==
  \A s \in Sources :
    /\ state[s] = "cleared" => legs[s] = "cleared"
    /\ legs[s] = "reversed" => state[s] = "clawed_back"

FlagStands(w) ==
  \E s \in SourcesOf(w) : review[s] = "pending" \/ review[s] = "approved"

\* An event under review, or confirmed as fraud, is not paid out of clearing.
WithheldUnderReview ==
  \A w \in Windows : FlagStands(w) => \A s \in SourcesOf(w) : state[s] # "cleared"

\* public.clawback: "reverse EVERY ledger group booked for that window".  Its
\* statements see different snapshots, and still no accrual of a clawed back
\* event counts as cleared: the publisher's lock or the flag under review
\* keeps every clearing from booking the sibling in between.
ClawedBackReversed ==
  \A s \in Sources : state[s] = "clawed_back" => legs[s] # "cleared"

\* A8: a window whose flags are all rejected clears, or is clawed back by
\* somebody else; it is never withheld forever.
RejectedReleases ==
  \A w \in Windows :
    (age[Impression(w)] = "aged" /\ ~FlagStands(w))
      ~> (state[Impression(w)] \in {"cleared", "clawed_back"} \/ FlagStands(w))

\* The lock order: clear_events, the scan, an admin and an approval can
\* deadlock over the publisher's row only.  Apart from it they take the legs
\* and rows of a window in one order and clear_events skips what is locked, so
\* whoever waits in a circle has somebody in it who waits for the publisher.
DeadlocksMeetAtPublisher ==
  \A S \in SUBSET Transactions : Stuck(S) => \E a \in S : WantsPublisher(a)

=============================================================================
