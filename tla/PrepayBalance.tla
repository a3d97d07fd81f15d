--------------------------- MODULE PrepayBalance ---------------------------
(***************************************************************************)
(* The prepaid credit of one advertiser: the advertiser_balances row, the  *)
(* serve-time holds its ad windows carry, the billing batches that draw    *)
(* the credit down, the Stripe deposits, disputes and refunds that move    *)
(* it, and the clawbacks that undo a billed impression.                    *)
(*                                                                         *)
(* Every action is one database transaction (one SECURITY DEFINER RPC) or  *)
(* one HTTP call of an edge function; what runs between two of them may    *)
(* interleave with anything.  The ledger is kept as the sum of the         *)
(* 'cleared' legs of each account, for the groups of this advertiser.      *)
(***************************************************************************)
EXTENDS Integers, FiniteSets, FiniteSetsExt

CONSTANTS
  Windows,        \* ad windows the advertiser may be served in
  Batches,        \* charge_batch_id values a billing run may mint
  Runs,           \* concurrent POST /billing/charge requests
  Deposits,       \* Stripe PaymentIntents that fund the balance
  NoBatch,        \* no advertiser_charges row yet
  DwellSeconds,   \* window dwell, 5 s in the code
  Bid,            \* cpva_bid_micros locked on the window at serve time
  DepositMicros,  \* amount of one deposit
  AdjustMicros,   \* size of a manual admin adjustment
  MaxAdjust,      \* bound: number of manual adjustments
  MaxCrashes,     \* bound: number of crash restarts of the database
  Reversals,      \* BOOLEAN: deposits may be disputed and refunded
  Clawbacks       \* BOOLEAN: impressions may be flagged and clawed back

Estimate == DwellSeconds * Bid
GrossValues == {(DwellSeconds - 1) * Bid, DwellSeconds * Bid}
RefundLevels == {DepositMicros \div 2, DepositMicros}

ASSUME ConstantsAssumption ==
  /\ IsFiniteSet(Windows)
  /\ DwellSeconds \in Nat /\ DwellSeconds > 1
  /\ Bid \in Nat \ {0}
  /\ DepositMicros \in Nat \ {0}
  /\ AdjustMicros \in Nat \ {0}
  /\ MaxAdjust \in Nat
  /\ MaxCrashes \in Nat
  /\ Reversals \in BOOLEAN
  /\ Clawbacks \in BOOLEAN
  /\ NoBatch \notin Batches

VARIABLES
  balance,      \* advertiser_balances.balance_micros
  reserved,     \* advertiser_balances.reserved_micros
  ledger,       \* SUM(amount_micros) of the cleared legs, per account
  serving,      \* the advertiser's line items are active
  window,       \* ad_windows.state, "none" before the open, "lost" after a crash
  hold,         \* ad_windows.reserve_micros
  impression,   \* impressions.state
  gross,        \* impressions.gross_micros
  review,       \* latest clawback_reviews.status of the impression
  charge,       \* advertiser_charges.status of the impression's group
  batch,        \* advertiser_charges.charge_batch_id of that row
  plan,         \* per run, the groups it read from the uncharged view
  drawn,        \* batches with a 'drawdown' sub-ledger row
  spent,        \* SUM of the 'drawdown' rows
  credited,     \* deposits with a 'deposit' sub-ledger row
  disputed,     \* deposits with a 'chargeback' sub-ledger row
  refunded,     \* SUM of the 'refund' rows, per deposit
  recredited,   \* impressions whose draw-down was given back
  refundReply,  \* the last answer of POST /billing/refund
  adjustments,  \* net of the manual adjustments
  faults        \* how often each bounded action ran

balanceVars == <<balance, reserved, ledger>>
windowVars  == <<window, hold, impression, gross>>
reviewVars  == <<review, recredited, refundReply>>
chargeVars  == <<charge, batch, plan, drawn, spent>>
depositVars == <<credited, disputed, refunded, adjustments>>
vars == <<balanceVars, serving, windowVars, reviewVars, chargeVars,
          depositVars, faults>>

Accounts == {"platform_cash", "advertiser_funds", "advertiser_billing",
             "publisher_earnings", "platform_revenue", "advertiser_bad_debt"}

\* round(gross * 0.6): the publisher's share, half up for positive amounts.
PublisherShare(g) == (6 * g + 5) \div 10

\* greatest(a, 0), the clamp of every release.
AtLeastZero(a) == IF a > 0 THEN a ELSE 0
Least(a, b) == IF a < b THEN a ELSE b

SumOf(f, S) == MapThenSumSet(LAMBDA w : f[w], S)

\* The credit a new window may hold, re-checked under the row lock.
AvailableBug == balance
Available == balance - reserved

\* app.advertiser_release(adv, delta).
Released(delta) == IF delta > 0 THEN AtLeastZero(reserved - delta) ELSE reserved

\* app.advertiser_expected_reserved: the holds of the windows that exist,
\* without those whose impression is clawed back.
ExpectedReserved ==
  SumOf(hold, {w \in Windows : window[w] # "lost" /\ impression[w] # "clawed_back"})

\* The rows of a batch still to be settled (reselectByBatch) and their sum.
Pending(b) == {w \in Windows : batch[w] = b /\ charge[w] = "pending"}
BatchSum(b) == SumOf(gross, Pending(b))

Init ==
  /\ balance = 0
  /\ reserved = 0
  /\ ledger = [a \in Accounts |-> 0]
  /\ serving = TRUE
  /\ window = [w \in Windows |-> "none"]
  /\ hold = [w \in Windows |-> 0]
  /\ impression = [w \in Windows |-> "none"]
  /\ gross = [w \in Windows |-> 0]
  /\ review = [w \in Windows |-> "none"]
  /\ charge = [w \in Windows |-> "none"]
  /\ batch = [w \in Windows |-> NoBatch]
  /\ plan = [r \in Runs |-> {}]
  /\ drawn = {}
  /\ spent = 0
  /\ credited = {}
  /\ disputed = {}
  /\ refunded = [d \in Deposits |-> 0]
  /\ recredited = {}
  /\ refundReply = "none"
  /\ adjustments = 0
  /\ faults = [adjust |-> 0, crash |-> 0]

-----------------------------------------------------------------------------
(* Serving: window_open, close_window, sweep_stale_windows.                *)

\* window_open picks the advertiser's line item and app.advertiser_reserve
\* covers the estimate: the hold and the window are written together.  A
\* window the balance does not cover is served without the advertiser and
\* leaves its state alone.
Open(w) ==
  /\ serving
  /\ window[w] = "none"
  /\ Available >= Estimate
  /\ reserved' = reserved + Estimate
  /\ window' = [window EXCEPT ![w] = "open"]
  /\ hold' = [hold EXCEPT ![w] = Estimate]
  /\ UNCHANGED <<balance, ledger, serving, impression, gross, reviewVars,
                 chargeVars, depositVars, faults>>

\* close_window of a window that passed every gate: the impression is
\* booked, the over-estimate released and the hold trued up to the gross.
CloseCredited(w) ==
  /\ window[w] = "open"
  /\ \E g \in GrossValues :
       /\ impression' = [impression EXCEPT ![w] = "provisional"]
       /\ gross' = [gross EXCEPT ![w] = g]
       /\ reserved' = Released(hold[w] - g)
       /\ hold' = [hold EXCEPT ![w] = g]
  /\ window' = [window EXCEPT ![w] = "credited"]
  /\ UNCHANGED <<balance, ledger, serving, reviewVars, chargeVars,
                 depositVars, faults>>

\* The hold is released but stays on the window.
AbandonBug(w) ==
  /\ window[w] = "open"
  /\ window' = [window EXCEPT ![w] = "abandoned"]
  /\ reserved' = Released(hold[w])
  /\ UNCHANGED <<balance, ledger, serving, hold, impression, gross, reviewVars,
                 chargeVars, depositVars, faults>>

\* close_window of a window that failed a gate, or the sweep of a stale one.
Abandon(w) ==
  /\ window[w] = "open"
  /\ window' = [window EXCEPT ![w] = "abandoned"]
  /\ reserved' = Released(hold[w])
  /\ hold' = [hold EXCEPT ![w] = 0]
  /\ UNCHANGED <<balance, ledger, serving, impression, gross, reviewVars,
                 chargeVars, depositVars, faults>>

\* ad_windows is UNLOGGED: crash recovery of the database truncates it,
\* while impressions, charges and the balance row survive.
Crash ==
  /\ faults.crash < MaxCrashes
  /\ window' = [w \in Windows |-> IF window[w] = "none" THEN "none" ELSE "lost"]
  /\ hold' = [w \in Windows |-> 0]
  /\ faults' = [faults EXCEPT !.crash = @ + 1]
  /\ UNCHANGED <<balanceVars, serving, impression, gross, reviewVars,
                 chargeVars, depositVars>>

-----------------------------------------------------------------------------
(* Clearing and clawback.                                                  *)

\* scan_ivt: a risk flag and a pending review for a provisional impression.
\* The scan joins ad_windows, so a lost window is never flagged.
Flag(w) ==
  /\ Clawbacks
  /\ impression[w] = "provisional"
  /\ window[w] # "lost"
  /\ review[w] = "none"
  /\ review' = [review EXCEPT ![w] = "pending"]
  /\ UNCHANGED <<balanceVars, serving, windowVars, recredited, refundReply,
                 chargeVars, depositVars, faults>>

RejectReview(w) ==
  /\ review[w] = "pending"
  /\ review' = [review EXCEPT ![w] = "rejected"]
  /\ UNCHANGED <<balanceVars, serving, windowVars, recredited, refundReply,
                 chargeVars, depositVars, faults>>

\* clear_events: the impression clears and app.accrue books its group.
Clear(w) ==
  /\ impression[w] = "provisional"
  /\ gross[w] > 0
  /\ review[w] \in {"none", "rejected"}
  /\ impression' = [impression EXCEPT ![w] = "cleared"]
  /\ ledger' = [ledger EXCEPT
       !["advertiser_billing"] = @ + gross[w],
       !["publisher_earnings"] = @ - PublisherShare(gross[w]),
       !["platform_revenue"]   = @ - (gross[w] - PublisherShare(gross[w]))]
  /\ UNCHANGED <<balance, reserved, serving, window, hold, gross, reviewVars,
                 chargeVars, depositVars, faults>>

\* public.clawback: the accrual group of a cleared impression leaves the
\* cleared totals; a provisional one booked nothing yet.
ReversedLedger(w) ==
  IF impression[w] = "cleared"
  THEN [ledger EXCEPT
         !["advertiser_billing"] = @ - gross[w],
         !["publisher_earnings"] = @ + PublisherShare(gross[w]),
         !["platform_revenue"]   = @ + (gross[w] - PublisherShare(gross[w]))]
  ELSE ledger

\* Only a billable impression is reversed: a second call is a no-op.
ClawableBug(w) == gross[w] > 0
Clawable(w) == impression[w] \in {"provisional", "cleared"}

\* approve_clawback: the reversal, and nothing about the window's hold.
ApproveClawback(w) ==
  /\ review[w] = "pending"
  /\ Clawable(w)
  /\ review' = [review EXCEPT ![w] = "approved"]
  /\ impression' = [impression EXCEPT ![w] = "clawed_back"]
  /\ ledger' = ReversedLedger(w)
  /\ UNCHANGED <<balance, reserved, serving, window, hold, gross, recredited,
                 refundReply, chargeVars, depositVars, faults>>

\* admin_open_clawback: refused while another review stands; reverses, adds
\* an approved review and releases the hold.  Its payout guards may refuse
\* at any time, which is the action not being taken.
AdminOpenClawback(w) ==
  /\ Clawbacks
  /\ Clawable(w)
  /\ review[w] \in {"none", "rejected"}
  /\ review' = [review EXCEPT ![w] = "approved"]
  /\ impression' = [impression EXCEPT ![w] = "clawed_back"]
  /\ ledger' = ReversedLedger(w)
  /\ reserved' = Released(hold[w])
  /\ hold' = [hold EXCEPT ![w] = 0]
  /\ UNCHANGED <<balance, serving, window, gross, recredited, refundReply,
                 chargeVars, depositVars, faults>>

\* A succeeded balance-settled charge is credited back, a pending one is not.
Recredit(w) == IF charge[w] = "succeeded" THEN gross[w] ELSE 0

\* What admin_prepay_clawback does to an impression it may reverse.
PrepayReversal(w) ==
  LET back == Recredit(w)
      rev  == ReversedLedger(w)
  IN /\ impression' = [impression EXCEPT ![w] = "clawed_back"]
     /\ reserved' = Released(hold[w])
     /\ hold' = [hold EXCEPT ![w] = 0]
     /\ balance' = balance + back
     /\ ledger' = [rev EXCEPT !["advertiser_billing"] = @ + back,
                              !["advertiser_funds"]   = @ - back]
     /\ recredited' = IF back > 0 THEN recredited \cup {w} ELSE recredited

AdminPrepayClawback(w) ==
  /\ Clawbacks
  /\ Clawable(w)
  /\ PrepayReversal(w)
  /\ UNCHANGED <<serving, window, gross, review, refundReply, chargeVars,
                 depositVars, faults>>

\* POST /billing/refund for an approved review with a succeeded charge: the
\* charge is balance-settled, so the call is forwarded to
\* admin_prepay_clawback, which answers already_clawed_back when the
\* approval has reversed the impression before.
RefundReview(w) ==
  /\ review[w] = "approved"
  /\ charge[w] = "succeeded"
  /\ IF Clawable(w)
     THEN PrepayReversal(w) /\ refundReply' = "re_credited"
     ELSE /\ refundReply' = "already_clawed_back"
          /\ UNCHANGED <<balanceVars, impression, hold, recredited>>
  /\ UNCHANGED <<serving, window, gross, review, chargeVars, depositVars, faults>>

-----------------------------------------------------------------------------
(* Billing of a prepay advertiser: POST /billing/charge.  The view is read *)
(* before the single-flight lock is taken, so the plans of two requests    *)
(* may overlap; pending batches are also settled by any later run.         *)

\* The view uncharged_advertiser_billings, read before the run locks.
Uncharged == {w \in Windows : impression[w] = "cleared" /\ charge[w] = "none"}

FetchPlan(r) ==
  /\ plan[r] = {}
  /\ Uncharged # {}
  /\ plan' = [plan EXCEPT ![r] = Uncharged]
  /\ UNCHANGED <<balanceVars, serving, windowVars, reviewVars, charge, batch,
                 drawn, spent, depositVars, faults>>

\* The run finds the lock held, or dies, before it reserves what it read.
DropPlan(r) ==
  /\ plan[r] # {}
  /\ plan' = [plan EXCEPT ![r] = {}]
  /\ UNCHANGED <<balanceVars, serving, windowVars, reviewVars, charge, batch,
                 drawn, spent, depositVars, faults>>

\* ON CONFLICT (entry_group_id) leaves a group with its first batch.
Reservable(r) == {w \in plan[r] : charge[w] = "none"}

\* reservePending: one pending row per planned group under a fresh batch id.
ReserveBatch(r, b) ==
  /\ plan[r] # {}
  /\ \A w \in Windows : batch[w] # b
  /\ b \notin drawn
  /\ charge' = [w \in Windows |-> IF w \in Reservable(r) THEN "pending" ELSE charge[w]]
  /\ batch' = [w \in Windows |-> IF w \in Reservable(r) THEN b ELSE batch[w]]
  /\ plan' = [plan EXCEPT ![r] = {}]
  /\ UNCHANGED <<balanceVars, serving, windowVars, reviewVars, drawn, spent,
                 depositVars, faults>>

\* app.advertiser_draw_down_batch that covers the sum.  The hold of every
\* window of the batch is zeroed with it.
DrawDown(b) ==
  /\ b \notin drawn
  /\ BatchSum(b) \in Nat \ {0}
  /\ balance >= BatchSum(b)
  /\ balance' = balance - BatchSum(b)
  /\ reserved' = AtLeastZero(reserved - BatchSum(b))
  /\ hold' = [w \in Windows |-> IF batch[w] = b THEN 0 ELSE hold[w]]
  /\ ledger' = [ledger EXCEPT !["advertiser_funds"]   = @ + BatchSum(b),
                              !["advertiser_billing"] = @ - BatchSum(b)]
  /\ drawn' = drawn \cup {b}
  /\ spent' = spent + BatchSum(b)
  /\ UNCHANGED <<serving, window, impression, gross, reviewVars, charge, batch,
                 plan, depositVars, faults>>

\* The draw-down answered insufficient_balance: serving pauses and the batch
\* stays pending for a later run.
DrawDownShort(b) ==
  /\ b \notin drawn
  /\ BatchSum(b) \in Nat \ {0}
  /\ balance < BatchSum(b)
  /\ serving' = FALSE
  /\ UNCHANGED <<balanceVars, windowVars, reviewVars, chargeVars, depositVars,
                 faults>>

\* The rows are marked whatever the draw-down answered.
SettleBatchBug(b) ==
  /\ Pending(b) # {}
  /\ charge' = [w \in Windows |-> IF w \in Pending(b) THEN "succeeded" ELSE charge[w]]
  /\ UNCHANGED <<balanceVars, serving, windowVars, reviewVars, batch, plan,
                 drawn, spent, depositVars, faults>>

\* markPendingChargedBalance, after the draw-down answered drawn or, when a
\* crashed run is recovered, duplicate.
SettleBatch(b) ==
  /\ b \in drawn
  /\ Pending(b) # {}
  /\ charge' = [w \in Windows |-> IF w \in Pending(b) THEN "succeeded" ELSE charge[w]]
  /\ UNCHANGED <<balanceVars, serving, windowVars, reviewVars, batch, plan,
                 drawn, spent, depositVars, faults>>

-----------------------------------------------------------------------------
(* Money that enters and leaves: the deposit webhook and the admin.        *)

\* app.advertiser_credit_deposit, once per PaymentIntent.
CreditDeposit(d) ==
  /\ d \notin credited
  /\ credited' = credited \cup {d}
  /\ balance' = balance + DepositMicros
  /\ ledger' = [ledger EXCEPT !["platform_cash"]    = @ + DepositMicros,
                              !["advertiser_funds"] = @ - DepositMicros]
  /\ UNCHANGED <<reserved, serving, windowVars, reviewVars, chargeVars,
                 disputed, refunded, adjustments, faults>>

\* The whole amount is reclaimed from the ledger, the balance is clamped.
TakeBackBug(amount) ==
  /\ balance' = AtLeastZero(balance - amount)
  /\ ledger' = [ledger EXCEPT !["platform_cash"]    = @ - amount,
                              !["advertiser_funds"] = @ + amount]
  /\ serving' = FALSE

\* The split of an amount taken back: what the balance still holds is
\* reclaimed, the rest is bad debt, and the line items are paused.
TakeBack(amount) ==
  LET reclaim == Least(amount, balance)
  IN /\ balance' = balance - reclaim
     /\ ledger' = [ledger EXCEPT
          !["platform_cash"]       = @ - amount,
          !["advertiser_funds"]    = @ + reclaim,
          !["advertiser_bad_debt"] = @ + (amount - reclaim)]
     /\ serving' = FALSE

\* app.advertiser_apply_deposit_reversal, once per dispute of a deposit.
DisputeDeposit(d) ==
  /\ Reversals
  /\ d \in credited \ disputed
  /\ disputed' = disputed \cup {d}
  /\ TakeBack(DepositMicros)
  /\ UNCHANGED <<reserved, windowVars, reviewVars, chargeVars, credited,
                 refunded, adjustments, faults>>

\* What a cumulative refund amount adds to the rows already booked.
RefundDelta(d, cumulative) == cumulative - refunded[d]

\* app.advertiser_apply_deposit_refund: the event carries the cumulative
\* amount, only the part not booked yet is taken back.
RefundDeposit(d, cumulative) ==
  /\ Reversals
  /\ d \in credited
  /\ cumulative > refunded[d]
  /\ refunded' = [refunded EXCEPT ![d] = cumulative]
  /\ TakeBack(RefundDelta(d, cumulative))
  /\ UNCHANGED <<reserved, windowVars, reviewVars, chargeVars, credited,
                 disputed, adjustments, faults>>

\* admin_advertiser_adjust_balance with a positive delta.
AdjustCredit ==
  /\ faults.adjust < MaxAdjust
  /\ balance' = balance + AdjustMicros
  /\ ledger' = [ledger EXCEPT !["platform_cash"]    = @ + AdjustMicros,
                              !["advertiser_funds"] = @ - AdjustMicros]
  /\ adjustments' = adjustments + AdjustMicros
  /\ faults' = [faults EXCEPT !.adjust = @ + 1]
  /\ UNCHANGED <<reserved, serving, windowVars, reviewVars, chargeVars,
                 credited, disputed, refunded>>

\* With a negative delta: only what is available may be taken.
AdjustDebit ==
  /\ faults.adjust < MaxAdjust
  /\ AdjustMicros <= Available
  /\ balance' = balance - AdjustMicros
  /\ ledger' = [ledger EXCEPT !["platform_cash"]    = @ - AdjustMicros,
                              !["advertiser_funds"] = @ + AdjustMicros]
  /\ adjustments' = adjustments - AdjustMicros
  /\ faults' = [faults EXCEPT !.adjust = @ + 1]
  /\ UNCHANGED <<reserved, serving, windowVars, reviewVars, chargeVars,
                 credited, disputed, refunded>>

\* app.advertiser_reconcile_reserved, under the row lock.  The table CHECK
\* refuses a negative value.
Reconcile ==
  /\ ExpectedReserved \in Nat
  /\ reserved' = ExpectedReserved
  /\ reserved' # reserved
  /\ UNCHANGED <<balance, ledger, serving, windowVars, reviewVars, chargeVars,
                 depositVars, faults>>

\* advertiser_set_line_item_status: the advertiser resumes its line items.
Resume ==
  /\ ~serving
  /\ serving' = TRUE
  /\ UNCHANGED <<balanceVars, windowVars, reviewVars, chargeVars, depositVars,
                 faults>>

-----------------------------------------------------------------------------
ServeStep    == \E w \in Windows : Open(w) \/ CloseCredited(w) \/ Abandon(w)
ReviewStep   == \E w \in Windows : Flag(w) \/ RejectReview(w) \/ Clear(w)
ClawbackStep == \E w \in Windows : \/ ApproveClawback(w)
                                   \/ AdminOpenClawback(w)
                                   \/ AdminPrepayClawback(w)
                                   \/ RefundReview(w)
BillingStep  == \/ \E r \in Runs : \/ FetchPlan(r)
                                   \/ DropPlan(r)
                                   \/ \E b \in Batches : ReserveBatch(r, b)
                \/ \E b \in Batches : \/ DrawDown(b)
                                      \/ DrawDownShort(b)
                                      \/ SettleBatch(b)
DepositStep  == \E d \in Deposits : \/ CreditDeposit(d)
                                    \/ DisputeDeposit(d)
                                    \/ \E c \in RefundLevels : RefundDeposit(d, c)
AdminStep    == AdjustCredit \/ AdjustDebit \/ Reconcile \/ Resume

Next == ServeStep \/ ReviewStep \/ ClawbackStep \/ BillingStep \/ DepositStep
        \/ AdminStep \/ Crash

Spec == Init /\ [][Next]_vars

-----------------------------------------------------------------------------
(* Properties.                                                             *)

WindowStates == {"none", "open", "credited", "abandoned", "lost"}

\* The state is well typed; the two CHECK (>= 0) of advertiser_balances are
\* the naturals of balance and reserved.
TypeOK ==
  /\ balance \in Nat
  /\ reserved \in Nat
  /\ ledger \in [Accounts -> Int]
  /\ serving \in BOOLEAN
  /\ window \in [Windows -> WindowStates]
  /\ hold \in [Windows -> Nat]
  /\ impression \in [Windows -> {"none", "provisional", "cleared", "clawed_back"}]
  /\ gross \in [Windows -> Nat]
  /\ review \in [Windows -> {"none", "pending", "approved", "rejected"}]
  /\ charge \in [Windows -> {"none", "pending", "succeeded"}]
  /\ batch \in [Windows -> Batches \cup {NoBatch}]
  /\ plan \in [Runs -> SUBSET Windows]
  /\ drawn \in SUBSET Batches
  /\ spent \in Nat
  /\ credited \in SUBSET Deposits
  /\ disputed \in SUBSET credited
  /\ refunded \in [Deposits -> Nat]
  /\ recredited \in SUBSET Windows
  /\ refundReply \in {"none", "re_credited", "already_clawed_back"}
  /\ adjustments \in Int
  /\ faults \in [adjust : Nat, crash : Nat]

\* The spendable credit is exactly the liability the ledger carries for the
\* advertiser, whatever deposits, draw-downs, disputes, refunds, adjustments
\* and clawbacks ran in whatever order (app.advertiser_expected_balance).
BalanceBacked == balance = - ledger["advertiser_funds"]

\* Every group the transactions book or reverse is balanced: the cleared
\* legs of all accounts sum to zero (app.ledger_group_balances).
LedgerZeroSum ==
  ledger["platform_cash"] + ledger["advertiser_funds"]
  + ledger["advertiser_billing"] + ledger["publisher_earnings"]
  + ledger["platform_revenue"] + ledger["advertiser_bad_debt"] = 0

\* A charge is marked succeeded only for a batch whose draw-down committed,
\* however the HTTP calls of a run and of its recovery interleave.
SettledOnlyIfDrawn ==
  \A w \in Windows : charge[w] = "succeeded" => batch[w] \in drawn

\* The receivable of the ledger is explained: what cleared and still stands,
\* less what was drawn, plus what a clawback gave back.
ReceivableExplained ==
  ledger["advertiser_billing"] =
    SumOf(gross, {w \in Windows : impression[w] = "cleared"})
    - spent + SumOf(gross, recredited)

\* Only a drawn impression that is clawed back is ever credited back.
RecreditOnlyDrawnClawbacks ==
  \A w \in recredited : impression[w] = "clawed_back" /\ batch[w] \in drawn

\* reserved_micros is the sum of the holds the windows carry, the "BACKED
\* reserve money invariant" of the table comment, through refunds, disputes and
\* reconciliations, until a crash loses windows or a clawback strands a hold.
HoldsIntact ==
  faults.crash = 0 /\ \A w \in Windows : impression[w] # "clawed_back"
ReservedIsSumOfHolds == HoldsIntact => reserved = SumOf(hold, Windows)

\* While moreover no cash is taken back, what is held is always covered, so no
\* draw-down can ever find the balance short.
HoldsCovered ==
  HoldsIntact /\ (\A d \in Deposits : d \notin disputed /\ refunded[d] = 0) =>
    /\ reserved <= balance
    /\ \A b \in Batches : b \notin drawn => BatchSum(b) <= balance

\* The promise of a window to the balance, see WindowContract: what it holds
\* only shrinks, and whatever ends it (a sweep, the draw-down of its batch, a
\* clawback, a crash) leaves nothing held.
PhaseOf(w) == CASE window[w] = "none" -> "none"
                [] window[w] = "open" -> "held"
                [] window[w] = "credited" /\ hold[w] > 0 -> "owed"
                [] OTHER -> "ended"
Contract == INSTANCE WindowContract WITH
              phase <- [w \in Windows |-> PhaseOf(w)], amount <- hold
KeepsContract == Contract!Spec

=============================================================================
