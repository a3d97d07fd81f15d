--------------------------- MODULE StripeBilling ---------------------------
(***************************************************************************)
(* POST /billing/charge and POST /billing/refund for one advertiser: the   *)
(* single-flight lock, the batches of advertiser_charges rows, the two     *)
(* routes a batch settles by (one Stripe PaymentIntent or one draw-down),  *)
(* and the refund of a reversed impression.                                *)
(*                                                                         *)
(* A run is one HTTP request.  Every action is one call it makes, to       *)
(* PostgREST or to Stripe, and anything may happen between two calls.      *)
(* The balance a draw-down takes from is that of PrepayBalance; here it    *)
(* only suffices or not.                                                   *)
(***************************************************************************)
EXTENDS Integers, FiniteSets

CONSTANTS
  Groups,       \* ledger entry groups of the advertiser's impressions
  Batches,      \* charge_batch_id values a run may mint
  Runs,         \* concurrent POST /billing/charge requests
  Intents,      \* PaymentIntents Stripe may create
  Cards,        \* payment methods the customer may have saved
  None,         \* no batch, no intent, no card, no run
  GroupMicros,  \* amount of one group
  CentMicros,   \* micros in a cent, 10000 in the code
  MinCents,     \* Stripe's minimum charge, 50 in the code
  MaxFaults,    \* bound: crashes, lost replies, failed writes, in total
  MaxChanges,   \* bound: changes of card, billing_mode and line items, in total
  Overlaps      \* BOOLEAN: the lock may time out under a run that is alive

ASSUME BillingAssumption ==
  /\ IsFiniteSet(Groups)
  /\ None \notin Batches \cup Intents \cup Cards \cup Runs
  /\ GroupMicros \in Nat \ {0}
  /\ CentMicros \in Nat \ {0}
  /\ MinCents \in Nat \ {0}
  /\ MaxFaults \in Nat
  /\ MaxChanges \in Nat
  /\ Overlaps \in BOOLEAN

VARIABLES
  group,     \* ledger_entries.state of the group, "none" before it clears
  row,       \* advertiser_charges.status, "none" without a row
  batch,     \* advertiser_charges.charge_batch_id
  intentOf,  \* advertiser_charges.stripe_charge_id
  settled,   \* advertiser_charges.settled_via
  route,     \* advertiser_charges.settle_mode of the rows of a batch
  mode,      \* advertisers.billing_mode
  serving,   \* the line items are active
  lock,      \* billing_run_lock.token
  run,       \* the requests in flight
  card,      \* the saved payment method
  intent,    \* Stripe's PaymentIntents
  key,       \* the intent Stripe keeps under a batch's idempotency key
  drawn,     \* groups a draw-down of the batch paid for
  queued,    \* clawback_reviews.refund_queued
  refunds,   \* Stripe refunds made for the group
  refunding, \* POST /billing/refund between Stripe's answer and the mark
  refundKey, \* groups whose refund Stripe keeps under the review's key
  missed,    \* history: batches whose charge no search found, its key forgotten
  unmarked,  \* history: groups whose refund's key was forgotten before the mark
  faults, changes

rowVars    == <<row, batch, intentOf, settled>>
stripeVars == <<card, intent, key, missed>>
refundVars == <<queued, refunds, refunding, refundKey, unmarked>>
vars == <<group, rowVars, route, mode, serving, lock, run, stripeVars, drawn,
          refundVars, faults, changes>>

Modes == {"postpay", "prepay"}
NoIntent == [status |-> "none", batch |-> None, groups |-> {}, card |-> None]
IdleRun == [pc |-> "idle", plan |-> {}, mode |-> "postpay", todo |-> {},
            batch |-> None, set |-> {}, card |-> None, intent |-> None]

\* microsToCents floors: what is charged never exceeds what was cleared.
Cents(S) == (GroupMicros * Cardinality(S)) \div CentMicros

\* The view uncharged_advertiser_billings.
Uncharged == {g \in Groups : group[g] = "cleared" /\ row[g] = "none"}
\* reselectByBatch.
Pending(b) == {g \in Groups : batch[g] = b /\ row[g] = "pending"}

\* A batch id no run has minted yet.
Fresh(b) == route[b] = "none"
\* A PaymentIntent Stripe has not created yet.
Unused(p) == intent[p].status = "none"

Init ==
  /\ group = [g \in Groups |-> "none"]
  /\ row = [g \in Groups |-> "none"]
  /\ batch = [g \in Groups |-> None]
  /\ intentOf = [g \in Groups |-> None]
  /\ settled = [g \in Groups |-> "stripe"]
  /\ route = [b \in Batches |-> "none"]
  /\ mode \in Modes
  /\ serving = TRUE
  /\ lock = None
  /\ run = [r \in Runs |-> IdleRun]
  /\ card \in Cards   \* saved at a setup link
  /\ intent = [p \in Intents |-> NoIntent]
  /\ key = [b \in Batches |-> None]
  /\ drawn = [b \in Batches |-> {}]
  /\ queued = [g \in Groups |-> FALSE]
  /\ refunds = [g \in Groups |-> 0]
  /\ refunding = {}
  /\ refundKey = {}
  /\ missed = {}
  /\ unmarked = {}
  /\ faults = 0
  /\ changes = 0

-----------------------------------------------------------------------------
(* The run up to its loop over the batches.                                *)

\* clear_events books the group.
Clear(g) ==
  /\ group[g] = "none"
  /\ group' = [group EXCEPT ![g] = "cleared"]
  /\ UNCHANGED <<rowVars, route, mode, serving, lock, run, stripeVars, drawn,
                 refundVars, faults, changes>>

\* The plan is read from the view, with the billing mode of that moment,
\* before the lock is asked for.
FetchView(r) ==
  /\ run[r].pc = "idle"
  /\ run' = [run EXCEPT ![r] = [IdleRun EXCEPT !.pc = "lock", !.plan = Uncharged,
                                               !.mode = mode]]
  /\ UNCHANGED <<group, rowVars, route, mode, serving, lock, stripeVars, drawn,
                 refundVars, faults, changes>>

\* billing_lock_acquire: a held lock ends the request.
Acquire(r) ==
  /\ run[r].pc = "lock"
  /\ IF lock = None
     THEN lock' = r /\ run' = [run EXCEPT ![r].pc = "fetch"]
     ELSE run' = [run EXCEPT ![r] = IdleRun] /\ UNCHANGED lock
  /\ UNCHANGED <<group, rowVars, route, mode, serving, stripeVars, drawn,
                 refundVars, faults, changes>>

\* The pending rows without a PaymentIntent, by batch.  A failed read leaves
\* nothing to recover.
FetchPending(r) ==
  /\ run[r].pc = "fetch"
  /\ \/ /\ run' = [run EXCEPT ![r].pc = "loop",
                              ![r].todo = {b \in Batches : Pending(b) # {}}]
        /\ UNCHANGED faults
     \/ /\ faults < MaxFaults /\ faults' = faults + 1
        /\ run' = [run EXCEPT ![r].pc = "loop"]
  /\ UNCHANGED <<group, rowVars, route, mode, serving, lock, stripeVars, drawn,
                 refundVars, changes>>

\* billing_lock_release, by token, in the finally block.
Release(r) ==
  /\ run[r].pc = "loop"
  /\ run[r].todo = {} /\ run[r].plan = {}
  /\ lock' = IF lock = r THEN None ELSE lock
  /\ run' = [run EXCEPT ![r] = IdleRun]
  /\ UNCHANGED <<group, rowVars, route, mode, serving, stripeVars, drawn,
                 refundVars, faults, changes>>

\* The function dies at any await and leaves the lock.
Crash(r) ==
  /\ run[r].pc # "idle"
  /\ faults < MaxFaults /\ faults' = faults + 1
  /\ run' = [run EXCEPT ![r] = IdleRun]
  /\ UNCHANGED <<group, rowVars, route, mode, serving, lock, stripeVars, drawn,
                 refundVars, changes>>

\* A lock older than ten minutes is free to take.  Unless Overlaps, the
\* request that took it has ended by then.
LockTimesOut ==
  /\ lock # None
  /\ Overlaps \/ run[lock].pc \in {"idle", "lock"}
  /\ lock' = None
  /\ UNCHANGED <<group, rowVars, route, mode, serving, run, stripeVars, drawn,
                 refundVars, faults, changes>>

-----------------------------------------------------------------------------
(* Choosing a batch: recovery first, then the plan.                        *)

\* Back to the loop, with the batch done or given up for this run.
Back(r) == [run EXCEPT ![r].pc = "loop", ![r].batch = None, ![r].set = {},
                       ![r].card = None, ![r].intent = None]

\* chooseSettleRoute, by the settle_mode frozen on the rows.
Route(b) == route[b]

\* Settling b starts: a Stripe batch needs a saved card first, and pauses the
\* advertiser without one.
StartOn(r, b, way, advance) ==
  IF way = "postpay" /\ card = None
  THEN /\ serving' = FALSE
       /\ run' = [run EXCEPT ![r] = advance]
  ELSE /\ UNCHANGED serving
       /\ run' = [run EXCEPT ![r] = [advance EXCEPT !.pc = "select", !.batch = b,
                    !.card = IF way = "postpay" THEN card ELSE None]]

\* The next batch of the recovery loop.
Recover(r, b) ==
  /\ run[r].pc = "loop"
  /\ b \in run[r].todo
  /\ StartOn(r, b, Route(b), [run[r] EXCEPT !.todo = @ \ {b}])
  /\ UNCHANGED <<group, rowVars, route, mode, lock, stripeVars, drawn,
                 refundVars, faults, changes>>

\* The settle_mode reservePending writes.
FrozenRoute(r) == run[r].mode

\* ON CONFLICT (entry_group_id) leaves a group with its first batch.
ReservableBug(r) == run[r].plan
Reservable(r) == {g \in run[r].plan : row[g] = "none"}

\* A plan below Stripe's minimum writes nothing.
SkipPlan(r) ==
  /\ run[r].pc = "loop"
  /\ run[r].todo = {} /\ run[r].plan # {}
  /\ run[r].mode = "postpay" /\ Cents(run[r].plan) < MinCents
  /\ run' = [run EXCEPT ![r].plan = {}]
  /\ UNCHANGED <<group, rowVars, route, mode, serving, lock, stripeVars, drawn,
                 refundVars, faults, changes>>

\* chargeFreshBatch, chargePrepayBatch: a postpay plan without a card pauses
\* the advertiser, any other is reserved under a new batch id.
ReservePlan(r, b) ==
  /\ run[r].pc = "loop"
  /\ run[r].todo = {} /\ run[r].plan # {}
  /\ run[r].mode = "prepay" \/ Cents(run[r].plan) >= MinCents
  /\ Fresh(b)
  /\ StartOn(r, b, run[r].mode, [run[r] EXCEPT !.plan = {}])
  /\ IF run[r].mode = "postpay" /\ card = None
     THEN UNCHANGED <<rowVars, route>>
     ELSE /\ row' = [g \in Groups |-> IF g \in Reservable(r) THEN "pending" ELSE row[g]]
          /\ batch' = [g \in Groups |-> IF g \in Reservable(r) THEN b ELSE batch[g]]
          /\ route' = [route EXCEPT ![b] = FrozenRoute(r)]
          /\ UNCHANGED <<intentOf, settled>>
  /\ UNCHANGED <<group, mode, lock, stripeVars, drawn, refundVars, faults, changes>>

\* Stripe does not answer when the customer's card is looked up: the batch
\* stays pending, the plan unreserved.
ResolveFails(r) ==
  /\ run[r].pc = "loop"
  /\ faults < MaxFaults /\ faults' = faults + 1
  /\ \/ \E b \in run[r].todo : /\ Route(b) = "postpay"
                               /\ run' = [run EXCEPT ![r].todo = @ \ {b}]
     \/ /\ run[r].todo = {} /\ run[r].plan # {}
        /\ run[r].mode = "postpay" /\ Cents(run[r].plan) >= MinCents
        /\ run' = [run EXCEPT ![r].plan = {}]
  /\ UNCHANGED <<group, rowVars, route, mode, serving, lock, stripeVars, drawn,
                 refundVars, changes>>

-----------------------------------------------------------------------------
(* Settling a batch.                                                       *)

\* reselectByBatch, then the route's own next call.
Select(r) ==
  LET S == Pending(run[r].batch) IN
  /\ run[r].pc = "select"
  /\ IF S = {}
     THEN run' = Back(r)
     ELSE run' = [run EXCEPT ![r].set = S,
                    ![r].pc = IF route[run[r].batch] = "prepay" THEN "draw"
                              ELSE IF Cents(S) < MinCents THEN "release"
                              ELSE "search"]
  /\ UNCHANGED <<group, rowVars, route, mode, serving, lock, stripeVars, drawn,
                 refundVars, faults, changes>>

\* releaseBatch: what another run left of the plan is below the minimum.
ReleaseBatch(r) ==
  LET S == {g \in run[r].set : row[g] = "pending"} IN
  /\ run[r].pc = "release"
  /\ row' = [g \in Groups |-> IF g \in S THEN "none" ELSE row[g]]
  /\ batch' = [g \in Groups |-> IF g \in S THEN None ELSE batch[g]]
  /\ run' = Back(r)
  /\ UNCHANGED <<group, intentOf, settled, route, mode, serving, lock, stripeVars,
                 drawn, refundVars, faults, changes>>

\* The PaymentIntents of a batch that moved money (shouldAdoptPi).
Charged(b) == {p \in Intents : intent[p].batch = b /\ intent[p].status = "succeeded"}

\* paymentIntents.search by charge_batch_id.  The index lags behind a
\* creation for less than the life of the key.  A search that errs is taken for
\* one that found nothing, also when the key is forgotten.
Search(r) ==
  LET b == run[r].batch
      found == Charged(b)
  IN /\ run[r].pc = "search"
     /\ \/ /\ found = {} \/ key[b] # None
           /\ run' = [run EXCEPT ![r].pc = "create"]
           /\ UNCHANGED missed
        \/ /\ \E p \in found : run' = [run EXCEPT ![r].pc = "mark", ![r].intent = p]
           /\ UNCHANGED missed
        \/ /\ run' = [run EXCEPT ![r].pc = "create"]   \* it errs
           /\ missed' = IF found # {} /\ key[b] = None THEN missed \cup {b} ELSE missed
     /\ UNCHANGED <<group, rowVars, route, mode, serving, lock, card, intent, key,
                    drawn, refundVars, faults, changes>>

\* Any error of the call counts as a decline.
AnsweredBug(r, p, status) ==
  \/ /\ run' = [run EXCEPT ![r].intent = p,
                           ![r].pc = IF status = "succeeded" THEN "mark" ELSE "fail"]
     /\ UNCHANGED faults
  \/ /\ faults < MaxFaults /\ faults' = faults + 1
     /\ run' = [run EXCEPT ![r].pc = "fail"]

\* What the run does with the answer it sees: a charge is marked, a decline
\* fails the rows.  A lost answer leaves the batch pending.
Answered(r, p, status) ==
  \/ /\ run' = [run EXCEPT ![r].intent = p,
                           ![r].pc = IF status = "succeeded" THEN "mark" ELSE "fail"]
     /\ UNCHANGED faults
  \/ /\ faults < MaxFaults /\ faults' = faults + 1
     /\ run' = Back(r)

\* paymentIntents.create for a batch whose key Stripe remembers: the same
\* intent, or an error when the payment method or the group_count is another
\* one.
CreateAgain(r) ==
  LET p == key[run[r].batch] IN
  /\ run[r].pc = "create"
  /\ p # None
  /\ IF intent[p].card = run[r].card
        /\ Cardinality(intent[p].groups) = Cardinality(run[r].set)
     THEN Answered(r, p, intent[p].status)
     ELSE run' = Back(r) /\ UNCHANGED faults
  /\ UNCHANGED <<group, rowVars, route, mode, serving, lock, stripeVars, drawn,
                 refundVars, changes>>

\* paymentIntents.create with confirm: charged or declined.  Bug: every call has
\* an idempotency key of its own.
CreateNewBug(r, p) ==
  LET b == run[r].batch IN
  /\ run[r].pc = "create"
  /\ Unused(p)
  /\ key' = [key EXCEPT ![b] = p]
  /\ \E status \in {"succeeded", "declined"} :
       /\ intent' = [intent EXCEPT ![p] = [status |-> status, batch |-> b,
                       groups |-> run[r].set, card |-> run[r].card]]
       /\ Answered(r, p, status)
  /\ UNCHANGED <<group, rowVars, route, mode, serving, lock, card, missed, drawn,
                 refundVars, changes>>
CreateNew(r, p) ==
  LET b == run[r].batch IN
  /\ run[r].pc = "create"
  /\ key[b] = None
  /\ Unused(p)
  /\ key' = [key EXCEPT ![b] = p]
  /\ \E status \in {"succeeded", "declined"} :
       /\ intent' = [intent EXCEPT ![p] = [status |-> status, batch |-> b,
                       groups |-> run[r].set, card |-> run[r].card]]
       /\ Answered(r, p, status)
  /\ UNCHANGED <<group, rowVars, route, mode, serving, lock, card, missed, drawn,
                 refundVars, changes>>

\* The rows of the run's set that are still pending get a status.
Promote(r, status) ==
  row' = [g \in Groups |-> IF g \in run[r].set /\ row[g] = "pending"
                           THEN status ELSE row[g]]

\* A write whose answer nobody reads fails: svc() does not throw.
WriteFails(r) ==
  /\ run[r].pc \in {"mark", "markBalance", "fail", "pause", "release"}
  /\ faults < MaxFaults /\ faults' = faults + 1
  /\ run' = IF run[r].pc = "fail" THEN [run EXCEPT ![r].pc = "pause"] ELSE Back(r)
  /\ UNCHANGED <<group, rowVars, route, mode, serving, lock, stripeVars, drawn,
                 refundVars, changes>>

\* markPendingCharged, and the stamp on the impressions.
MarkCharged(r) ==
  /\ run[r].pc = "mark"
  /\ Promote(r, "succeeded")
  /\ intentOf' = [g \in Groups |-> IF g \in run[r].set /\ row[g] = "pending"
                                   THEN run[r].intent ELSE intentOf[g]]
  /\ run' = Back(r)
  /\ UNCHANGED <<group, batch, settled, route, mode, serving, lock, stripeVars,
                 drawn, refundVars, faults, changes>>

\* markPendingFailed after a definitive decline.
MarkFailed(r) ==
  /\ run[r].pc = "fail"
  /\ Promote(r, "failed")
  /\ run' = [run EXCEPT ![r].pc = "pause"]
  /\ UNCHANGED <<group, batch, intentOf, settled, route, mode, serving, lock,
                 stripeVars, drawn, refundVars, faults, changes>>

\* pauseAdvertiserLineItems after a decline or a short balance.
Pause(r) ==
  /\ run[r].pc = "pause"
  /\ serving' = FALSE
  /\ run' = Back(r)
  /\ UNCHANGED <<group, rowVars, route, mode, lock, stripeVars, drawn,
                 refundVars, faults, changes>>

\* advertiser_draw_down_batch, once per batch; its answer may be lost, and a
\* short balance draws nothing.
Draw(r) ==
  LET b == run[r].batch IN
  /\ run[r].pc = "draw"
  /\ \/ /\ drawn' = [drawn EXCEPT ![b] = IF @ = {} THEN run[r].set ELSE @]
        /\ \/ run' = [run EXCEPT ![r].pc = "markBalance"] /\ UNCHANGED faults
           \/ faults < MaxFaults /\ faults' = faults + 1 /\ run' = Back(r)
     \/ /\ drawn[b] = {}
        /\ run' = [run EXCEPT ![r].pc = "pause"]
        /\ UNCHANGED <<drawn, faults>>
  /\ UNCHANGED <<group, rowVars, route, mode, serving, lock, stripeVars,
                 refundVars, changes>>

\* markPendingChargedBalance.
MarkBalance(r) ==
  /\ run[r].pc = "markBalance"
  /\ Promote(r, "succeeded")
  /\ settled' = [g \in Groups |-> IF g \in run[r].set /\ row[g] = "pending"
                                  THEN "balance" ELSE settled[g]]
  /\ run' = Back(r)
  /\ UNCHANGED <<group, batch, intentOf, route, mode, serving, lock, stripeVars,
                 drawn, refundVars, faults, changes>>

-----------------------------------------------------------------------------
(* Clawback and refund.                                                    *)

\* approve_clawback, admin_open_clawback: the group leaves the cleared
\* ledger with an approved review, whatever its row says.
Reverse(g) ==
  /\ group[g] = "cleared"
  /\ group' = [group EXCEPT ![g] = "reversed"]
  /\ UNCHANGED <<rowVars, route, mode, serving, lock, run, stripeVars, drawn,
                 refundVars, faults, changes>>

\* POST /billing/refund of an approved review up to Stripe's answer: a new
\* refund, or the one Stripe keeps under the key of the review.  Bug: a review
\* that is marked is refunded again.
Refunding(g) ==
  /\ refunds' = [refunds EXCEPT ![g] = IF g \in refundKey THEN @ ELSE @ + 1]
  /\ refundKey' = refundKey \cup {g}
  /\ refunding' = refunding \cup {g}
  /\ UNCHANGED <<group, rowVars, route, mode, serving, lock, run, stripeVars,
                 drawn, queued, unmarked, faults, changes>>
RefundBug(g) ==
  /\ group[g] = "reversed"
  /\ row[g] = "succeeded" /\ settled[g] = "stripe"
  /\ Refunding(g)
Refund(g) ==
  /\ group[g] = "reversed" /\ ~queued[g]
  /\ row[g] = "succeeded" /\ settled[g] = "stripe"
  /\ Refunding(g)

\* The mark refund_queued is written, or lost with its answer unread.
RefundMark(g) ==
  /\ g \in refunding
  /\ refunding' = refunding \ {g}
  /\ \/ queued' = [queued EXCEPT ![g] = TRUE] /\ UNCHANGED faults
     \/ faults < MaxFaults /\ faults' = faults + 1 /\ UNCHANGED queued
  /\ UNCHANGED <<group, rowVars, route, mode, serving, lock, run, stripeVars,
                 drawn, refunds, refundKey, unmarked, changes>>

-----------------------------------------------------------------------------
(* The world around.                                                       *)

\* A key lives for about a day, longer than any request.
KeyExpires(b) ==
  /\ key[b] # None
  /\ \A r \in Runs : run[r].batch # b
  /\ key' = [key EXCEPT ![b] = None]
  /\ UNCHANGED <<group, rowVars, route, mode, serving, lock, run, card, intent,
                 missed, drawn, refundVars, faults, changes>>
RefundKeyExpires(g) ==
  /\ g \in refundKey \ refunding
  /\ refundKey' = refundKey \ {g}
  /\ unmarked' = IF queued[g] THEN unmarked ELSE unmarked \cup {g}
  /\ UNCHANGED <<group, rowVars, route, mode, serving, lock, run, stripeVars,
                 drawn, queued, refunds, refunding, faults, changes>>

\* The customer saves another card or removes it.
ChangeCard ==
  /\ changes < MaxChanges /\ changes' = changes + 1
  /\ card' \in (Cards \cup {None}) \ {card}
  /\ UNCHANGED <<group, rowVars, route, mode, serving, lock, run, intent, key,
                 missed, drawn, refundVars, faults>>

\* The service role moves the advertiser between the billing modes.
FlipMode ==
  /\ changes < MaxChanges /\ changes' = changes + 1
  /\ mode' \in Modes \ {mode}
  /\ UNCHANGED <<group, rowVars, route, serving, lock, run, stripeVars, drawn,
                 refundVars, faults>>

\* The line items are activated again.
Resume ==
  /\ ~serving /\ serving' = TRUE
  /\ changes < MaxChanges /\ changes' = changes + 1
  /\ UNCHANGED <<group, rowVars, route, mode, lock, run, stripeVars, drawn,
                 refundVars, faults>>

-----------------------------------------------------------------------------
RunStep(r) ==
  \/ FetchView(r) \/ Acquire(r) \/ FetchPending(r) \/ Release(r)
  \/ \E b \in Batches : Recover(r, b) \/ ReservePlan(r, b)
  \/ SkipPlan(r) \/ Select(r) \/ ReleaseBatch(r) \/ Search(r)
  \/ CreateAgain(r) \/ (\E p \in Intents : CreateNew(r, p))
  \/ MarkCharged(r) \/ MarkFailed(r) \/ Pause(r) \/ Draw(r) \/ MarkBalance(r)

RefundStep(g) == Reverse(g) \/ Refund(g) \/ RefundMark(g)

WorldStep == \/ \E g \in Groups : Clear(g) \/ RefundKeyExpires(g)
             \/ \E b \in Batches : KeyExpires(b)
             \/ LockTimesOut \/ ChangeCard \/ FlipMode \/ Resume

Next == \/ \E r \in Runs : RunStep(r) \/ Crash(r) \/ WriteFails(r) \/ ResolveFails(r)
        \/ \E g \in Groups : RefundStep(g)
        \/ WorldStep

Spec == Init /\ [][Next]_vars

-----------------------------------------------------------------------------
(* Properties.                                                             *)

PCs == {"idle", "lock", "fetch", "loop", "select", "release", "search", "create",
        "mark", "fail", "pause", "draw", "markBalance"}

\* The state is well typed.
TypeOK ==
  /\ group \in [Groups -> {"none", "cleared", "reversed"}]
  /\ row \in [Groups -> {"none", "pending", "succeeded", "failed"}]
  /\ batch \in [Groups -> Batches \cup {None}]
  /\ intentOf \in [Groups -> Intents \cup {None}]
  /\ settled \in [Groups -> {"stripe", "balance"}]
  /\ route \in [Batches -> Modes \cup {"none"}]
  /\ mode \in Modes
  /\ serving \in BOOLEAN
  /\ lock \in Runs \cup {None}
  /\ run \in [Runs -> [pc : PCs, plan : SUBSET Groups, mode : Modes,
                       todo : SUBSET Batches, batch : Batches \cup {None},
                       set : SUBSET Groups, card : Cards \cup {None},
                       intent : Intents \cup {None}]]
  /\ card \in Cards \cup {None}
  /\ intent \in [Intents -> [status : {"none", "succeeded", "declined"},
                             batch : Batches \cup {None}, groups : SUBSET Groups,
                             card : Cards \cup {None}]]
  /\ key \in [Batches -> Intents \cup {None}]
  /\ drawn \in [Batches -> SUBSET Groups]
  /\ queued \in [Groups -> BOOLEAN]
  /\ refunds \in [Groups -> Nat]
  /\ refunding \in SUBSET Groups
  /\ refundKey \in SUBSET Groups
  /\ missed \in SUBSET Batches
  /\ unmarked \in SUBSET Groups
  /\ faults \in 0..MaxFaults
  /\ changes \in 0..MaxChanges

\* Who collected a group: the intents that charged it, the batches that drew it.
ChargedFor(g) == {p \in Intents : intent[p].status = "succeeded" /\ g \in intent[p].groups}
DrawnFor(g) == {b \in Batches : g \in drawn[b]}

\* An impression is collected once, by one PaymentIntent or by one draw-down,
\* over crashes, lost answers, expired keys, stale plans and mode flips
\* (TRUST INVARIANT 2 of billing/index.ts, and its notes A1 and A11): it is
\* charged again only when the key of its charge is forgotten and the search
\* that should have found the charge erred.
CollectedOnce ==
  \A g \in Groups :
    /\ \A p, q \in ChargedFor(g) : p = q \/ batch[g] \in missed
    /\ \A b, c \in DrawnFor(g) : b = c
    /\ ChargedFor(g) = {} \/ DrawnFor(g) = {}

\* What was collected is never failed or back in the view: its row says so
\* or waits for a recovery to say so.  A decline fails it only when it answers
\* such a second charge.
CollectedIsKept ==
  \A g \in Groups :
    ChargedFor(g) \cup DrawnFor(g) # {} =>
      \/ row[g] \in {"pending", "succeeded"}
      \/ row[g] = "failed" /\ batch[g] \in missed

\* A settled row names the intent that charged it, and the rows of an intent
\* are what Stripe was told to charge for, to the cent.
SettledIsCollected ==
  \A g \in Groups : row[g] = "succeeded" =>
    IF settled[g] = "balance" THEN g \in drawn[batch[g]]
    ELSE /\ intentOf[g] \in ChargedFor(g)
         /\ {h \in Groups : intentOf[h] = intentOf[g]} = intent[intentOf[g]].groups

\* An impression is refunded once, unless the mark of its refund is lost for
\* longer than Stripe keeps the key; and the refunds of a charge, each floored
\* by itself, do not exceed it (note F4 of billing-logic.mjs) but for those
\* repeated.
RefundedCents(p) ==
  Cents({1}) * Cardinality({g \in Groups : intentOf[g] = p /\ refunds[g] > 0})
RefundsCovered ==
  /\ \A g \in Groups : refunds[g] <= 1 \/ g \in unmarked
  /\ \A p \in Intents : RefundedCents(p) <= Cents(intent[p].groups)

=============================================================================
