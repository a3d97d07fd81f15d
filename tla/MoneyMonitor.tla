---------------------------- MODULE MoneyMonitor ----------------------------
(***************************************************************************)
(* The monitor edge function: its ten checks over the money tables and     *)
(* Stripe's lists, monitor_sync_alerts, and the summary mail.  Runs of the *)
(* cron job and of an admin overlap, and the books change under them.  A   *)
(* check that makes several queries reads them at two moments; everything  *)
(* else a check reads, it reads at one.                                    *)
(***************************************************************************)
EXTENDS Integers, FiniteSets, FiniteSetsExt

CONSTANTS
  Runs,        \* POST /monitor/run calls in flight at once
  Groups,      \* ledger entry groups
  Payouts, Advertisers, Reviews,
  Drifts,      \* differences of the books to Stripe that may arise
  Limit,       \* rows a query returns at most
  MaxChanges,  \* bound: changes of the books
  MaxErrors    \* bound: checks that fail to read, runs that die, lost mails

ASSUME MoneyMonitorAssumption ==
  /\ Drifts \subseteq Int /\ 0 \in Drifts
  /\ Limit \in Nat /\ MaxChanges \in Nat /\ MaxErrors \in Nat

VARIABLES
  db,       \* the rows the checks read
  open,     \* app.alert_events with status 'open'
  at,       \* per run: where it is
  early,    \* per run: the rows of its first queries
  alerts,   \* per run: the alerts its checks have raised
  seen,     \* per run: the checks that were evaluated
  lasting,  \* ghost: per run, causes that were there all through the run
  changes, errors

runVars == <<at, early, alerts, seen>>
vars == <<db, open, runVars, lasting, changes, errors>>

\* payout.age: 0 up to 6 h, 1 up to FAILURE_LOOKBACK_MS, 2 beyond.
Start ==
  [sum     |-> [g \in Groups |-> 0],
   payout  |-> [p \in Payouts |-> [status |-> "none", age |-> 0]],
   failure |-> [a \in Advertisers |-> "none"],   \* a failed charge
   paused  |-> [a \in Advertisers |-> FALSE],    \* paused line items
   debt    |-> [a \in Advertisers |-> FALSE],    \* uncharged cleared groups
   review  |-> [v \in Reviews |-> "none"],
   charge  |-> [v \in Reviews |-> FALSE],        \* its impression was charged
   billing |-> 0, payouts |-> 0,                 \* books less Stripe
   fleet   |-> FALSE,                            \* a counter over its baseline
   dispute |-> "none"]

NoRows == [failure |-> {}, paused |-> {}, review |-> {}]

Init ==
  /\ db = Start
  /\ open = {}
  /\ at = [r \in Runs |-> "idle"]
  /\ early = [r \in Runs |-> NoRows]
  /\ alerts = [r \in Runs |-> {}]
  /\ seen = [r \in Runs |-> {}]
  /\ lasting = [r \in Runs |-> {}]
  /\ changes = 0 /\ errors = 0

-----------------------------------------------------------------------------
(* The checks of monitor-logic.mjs: the alerts each raises for its rows.   *)

Alert(check, key, amount) == [check |-> check, key |-> key, amount |-> amount]
Raise(check, kind, rows) == {Alert(check, <<kind, x>>, 0) : x \in rows}

\* The rows of a query, any of them when there are more than the limit.
Fetch(rows) ==
  {S \in SUBSET rows :
     Cardinality(S) = IF Cardinality(rows) < Limit THEN Cardinality(rows) ELSE Limit}

Unbalanced(d) == {g \in Groups : d.sum[g] # 0}
EvalLedgerZeroSum(d, groups) ==
  Raise("ledger_zero_sum", "grp", groups) \cup
  (IF MapThenSumSet(LAMBDA g : d.sum[g], Groups) = 0 THEN {}
   ELSE {Alert("ledger_zero_sum", <<"global", 0>>, 0)})

NonTerminal == {"pending", "in_transit"}
Waiting(d) == {p \in Payouts : d.payout[p].status \in NonTerminal}
EvalPayoutStuck(d, rows) ==
  Raise("payout_stuck", "payout", {p \in rows : d.payout[p].age > 0})

LateFailed(d) == {p \in Payouts : d.payout[p].status = "failed" /\ d.payout[p].age < 2}
EvalPayoutFailed(rows) == Raise("payout_failed", "payout", rows)

Declined(d) == {a \in Advertisers : d.failure[a] = "recent"}
PausedNow(d) == {a \in Advertisers : d.paused[a]}
EvalChargeFailed(failed, paused) ==
  Raise("charge_failed", "charge", failed)
    \cup Raise("charge_failed", "paused_li", failed \cap paused)

InDebt(d) == {a \in Advertisers : d.debt[a]}
EvalBillingStalled(uncharged, paused) ==
  Raise("billing_stalled", "adv", uncharged \cap paused)

\* Approved and not queued for refund, older than the grace.
Unrefunded(d) == {v \in Reviews : d.review[v] \in {"approved", "overdue"}}
EvalReversedChargeUnrefunded(d, rows, charged) ==
  Raise("reversed_charge_unrefunded", "review",
        {v \in rows \cap charged : d.review[v] # "approved"})

DisputedLately(d) == d.dispute = "recent"
EvalPostpayChargebacks(d) ==
  IF DisputedLately(d) THEN Raise("postpay_chargeback", "dispute", {0}) ELSE {}

FleetOver(d) == d.fleet
EvalFleetVelocity(d) ==
  IF FleetOver(d) THEN Raise("fleet_velocity", "fleet", {0}) ELSE {}

\* The books of the trailing window less what Stripe lists for it: succeeded
\* PaymentIntents, transfers net of reversals.  What moves between the two
\* readings is a drift like any other.
BillingDrift(d) == d.billing
PayoutDrift(d) == d.payouts

\* The key of a drift is its sign and its order of magnitude.  Bug: one key.
Magnitude(n) ==
  LET m[k \in 1 .. n] == IF k < 10 THEN 0 ELSE 1 + m[k \div 10] IN m[n]
Size(n) == IF n < 0 THEN -n ELSE n
DriftKeyBug(n) == <<"drift", 0>>
DriftKey(n) == <<IF n > 0 THEN "drift+" ELSE "drift-", Magnitude(Size(n))>>
EvalReconDrift(check, n) == IF n = 0 THEN {} ELSE {Alert(check, DriftKey(n), n)}

CheckNames ==
  {"ledger_zero_sum", "payout_stuck", "payout_failed", "charge_failed",
   "billing_stalled", "billing_recon_drift", "payout_recon_drift",
   "reversed_charge_unrefunded", "postpay_chargeback", "fleet_velocity"}

\* What the checks raise for the books as they are, all rows read at once.
Causes(d) ==
  EvalLedgerZeroSum(d, Unbalanced(d)) \cup EvalPayoutStuck(d, Waiting(d))
    \cup EvalPayoutFailed(LateFailed(d))
    \cup EvalChargeFailed(Declined(d), PausedNow(d))
    \cup EvalBillingStalled(InDebt(d), PausedNow(d))
    \cup EvalReconDrift("billing_recon_drift", BillingDrift(d))
    \cup EvalReconDrift("payout_recon_drift", PayoutDrift(d))
    \cup EvalReversedChargeUnrefunded(d, Unrefunded(d), {v \in Reviews : d.charge[v]})
    \cup EvalPostpayChargebacks(d) \cup EvalFleetVelocity(d)

Same(a, b) == a.check = b.check /\ a.key = b.key
Among(a, S) == \E b \in S : Same(a, b)

-----------------------------------------------------------------------------
(* The books change.                                                       *)

Change(d) ==
  /\ changes < MaxChanges
  /\ changes' = changes + 1
  /\ db' = d
  /\ lasting' = [r \in Runs |-> {a \in lasting[r] : Among(a, Causes(d))}]
  /\ UNCHANGED <<open, runVars, errors>>

LedgerChanges ==
  \E g \in Groups, n \in {-1, 0, 1} : n # db.sum[g] /\ Change([db EXCEPT !.sum[g] = n])

PayoutNext(s) == CASE s = "none" -> {"pending"}
                   [] s = "pending" -> {"in_transit", "paid", "failed", "canceled"}
                   [] s = "in_transit" -> {"paid", "failed"}
                   [] OTHER -> {}
PayoutMoves ==
  \E p \in Payouts : \E s \in PayoutNext(db.payout[p].status) :
    Change([db EXCEPT !.payout[p].status = s])
PayoutAges ==
  \E p \in Payouts : /\ db.payout[p].status # "none" /\ db.payout[p].age < 2
                     /\ Change([db EXCEPT !.payout[p].age = @ + 1])

\* A decline pauses the advertiser's line items; the failure leaves the window.
ChargeFails ==
  \E a \in Advertisers : Change([db EXCEPT !.failure[a] = "recent", !.paused[a] = TRUE])
FailureAges ==
  \E a \in Declined(db) : Change([db EXCEPT !.failure[a] = "old"])
PauseChanges ==
  \E a \in Advertisers : Change([db EXCEPT !.paused[a] = ~@])
DebtChanges ==
  \E a \in Advertisers : Change([db EXCEPT !.debt[a] = ~@])

ReviewApproved ==
  \E v \in Reviews : /\ db.review[v] = "none"
                     /\ \E c \in BOOLEAN : Change([db EXCEPT !.review[v] = "approved",
                                                             !.charge[v] = c])
ReviewAges ==
  \E v \in Reviews : /\ db.review[v] = "approved"
                     /\ Change([db EXCEPT !.review[v] = "overdue"])
RefundQueued ==
  \E v \in Unrefunded(db) : Change([db EXCEPT !.review[v] = "queued", !.charge[v] = FALSE])

DriftChanges ==
  \E n \in Drifts : \/ n # db.billing /\ Change([db EXCEPT !.billing = n])
                    \/ n # db.payouts /\ Change([db EXCEPT !.payouts = n])
FleetChanges == Change([db EXCEPT !.fleet = ~@])
Disputed == db.dispute # "recent" /\ Change([db EXCEPT !.dispute = "recent"])
DisputeAges == db.dispute = "recent" /\ Change([db EXCEPT !.dispute = "old"])

-----------------------------------------------------------------------------
(* One POST /monitor/run.                                                  *)

\* The first queries of the checks that make more than one.
Begin(r) ==
  /\ at[r] = "idle"
  /\ \E f \in Fetch(Declined(db)), p \in Fetch(PausedNow(db)), v \in Fetch(Unrefunded(db)) :
       early' = [early EXCEPT ![r] = [failure |-> f, paused |-> p, review |-> v]]
  /\ at' = [at EXCEPT ![r] = "reading"]
  /\ lasting' = [lasting EXCEPT ![r] = Causes(db)]
  /\ UNCHANGED <<db, open, alerts, seen, changes, errors>>

\* What the checks raise, the rows of their first queries as they were then.
Raised(r) ==
  {EvalLedgerZeroSum(db, g) \cup EvalPayoutStuck(db, w) \cup EvalPayoutFailed(f)
     \cup EvalChargeFailed(early[r].failure, p)
     \cup EvalBillingStalled(InDebt(db), early[r].paused)
     \cup EvalReconDrift("billing_recon_drift", BillingDrift(db))
     \cup EvalReconDrift("payout_recon_drift", PayoutDrift(db))
     \cup EvalReversedChargeUnrefunded(db, early[r].review, {v \in Reviews : db.charge[v]})
     \cup EvalPostpayChargebacks(db) \cup EvalFleetVelocity(db) :
   g \in Fetch(Unbalanced(db)), w \in Fetch(Waiting(db)), f \in Fetch(LateFailed(db)),
   p \in Fetch(PausedNow(db))}

\* resolvableCheckNames.  Bug: a check that could not read counts as well.
ResolvableBug(failed, raised) == CheckNames
Resolvable(failed, raised) == CheckNames \ failed

\* A check whose query or Stripe call fails raises check_error instead.
Evaluate(r) ==
  /\ at[r] = "reading"
  /\ \E raised \in Raised(r), failed \in {{}} \cup {{c} : c \in CheckNames} :
       /\ errors + Cardinality(failed) <= MaxErrors
       /\ errors' = errors + Cardinality(failed)
       /\ alerts' = [alerts EXCEPT ![r] = {a \in raised : a.check \notin failed}
                       \cup {Alert(c, <<"check_error", 0>>, 0) : c \in failed}]
       /\ seen' = [seen EXCEPT ![r] = Resolvable(failed, raised)]
  /\ at' = [at EXCEPT ![r] = "evaluated"]
  /\ early' = [early EXCEPT ![r] = NoRows]
  /\ UNCHANGED <<db, open, lasting, changes>>

\* monitor_sync_alerts: what is not open yet is inserted, open alerts of the
\* evaluated checks that are no longer raised are resolved.
Sync(r) ==
  /\ at[r] = "evaluated"
  /\ LET fired == {a \in alerts[r] : ~Among(a, open)}
         resolved == {a \in open : a.check \in seen[r] /\ ~Among(a, alerts[r])}
     IN open' = (open \ resolved) \cup fired
  /\ at' = [at EXCEPT ![r] = "synced"]
  /\ alerts' = [alerts EXCEPT ![r] = {}]
  /\ seen' = [seen EXCEPT ![r] = {}]
  /\ lasting' = [lasting EXCEPT ![r] = {}]
  /\ UNCHANGED <<db, early, changes, errors>>

Done(r) ==
  /\ at' = [at EXCEPT ![r] = "idle"]
  /\ early' = [early EXCEPT ![r] = NoRows]
  /\ alerts' = [alerts EXCEPT ![r] = {}]
  /\ seen' = [seen EXCEPT ![r] = {}]
  /\ lasting' = [lasting EXCEPT ![r] = {}]

\* The summary mail is sent, refused or lost with the run: no row remembers
\* it, and no later run names these alerts.
Mail(r) ==
  /\ at[r] = "synced"
  /\ Done(r)
  /\ UNCHANGED <<db, open, changes, errors>>

\* The run dies before its sync, or the sync is refused.
Die(r) ==
  /\ at[r] \in {"reading", "evaluated"} /\ errors < MaxErrors
  /\ errors' = errors + 1
  /\ Done(r)
  /\ UNCHANGED <<db, open, changes>>

Next ==
  \/ LedgerChanges \/ PayoutMoves \/ PayoutAges \/ ChargeFails \/ FailureAges
  \/ PauseChanges \/ DebtChanges \/ ReviewApproved \/ ReviewAges \/ RefundQueued
  \/ DriftChanges \/ FleetChanges \/ Disputed \/ DisputeAges
  \/ \E r \in Runs : Begin(r) \/ Evaluate(r) \/ Sync(r) \/ Mail(r) \/ Die(r)

Spec == Init /\ [][Next]_vars

\* pg_cron starts a run every hour, and a run that does not die goes on.
LiveSpec ==
  Spec /\ \A r \in Runs : WF_vars(Begin(r)) /\ WF_vars(Evaluate(r))
                          /\ WF_vars(Sync(r)) /\ WF_vars(Mail(r))

-----------------------------------------------------------------------------
(* Properties.                                                             *)

\* Once the books stand still, what is open is what is wrong with them: no
\* cause stays without its alert and no alert outlives its cause, whatever
\* overlapping runs have read before and whatever could not be read; and the
\* open alert of a drift names it up to a factor of ten.  (evalReconDrift and
\* monitor_sync_alerts.)
Explains(a, cause) ==
  /\ Same(a, cause)
  /\ a.amount * cause.amount >= 0
  /\ 10 * Size(a.amount) >= Size(cause.amount)
OpenIsWrong ==
  /\ \A c \in Causes(db) : \E a \in open : Explains(a, c)
  /\ \A a \in open : Among(a, Causes(db))
Converges == <>[]OpenIsWrong

\* An alert is resolved only when its cause was gone at some moment of the run
\* that resolves it: a check that could not read resolves nothing.
ResolvedWasFine ==
  [][\A r \in Runs : at[r] = "evaluated" /\ at'[r] = "synced" =>
       \A a \in open \ open' : ~Among(a, lasting[r])]_vars

=============================================================================
