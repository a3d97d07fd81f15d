# LumaLine: specifications, model checks and proofs

LumaLine shows one signed sponsored line in the status bar of a coding
assistant, measures on the server how long it was watched, bills the advertiser
for it and pays the publisher 60 %. Nearly all of its state and all of its money
is moved by SQL functions (`supabase/migrations/`, later files replace the
functions of earlier ones) which small edge functions (`supabase/functions/`)
and pg_cron jobs call. This directory holds TLA+ models of that code.

## 1. Inventory

Paths are relative to the repository. "RPC" is a `SECURITY DEFINER` SQL
function: one call is one READ COMMITTED transaction.

| Component | State | Operations | Correct when |
|---|---|---|---|
| Ad windows | `ad_windows` (UNLOGGED), `impressions`, `clicks`, daily counters | `window_open`, `window_beat`, `close_window`, `sweep_stale_windows`, `click_resolve` | a window earns once, for at most the dwell the server measured; every window ends; the reserve of a window goes back or into the impression |
| Clearing and IVT review | `impressions.state`, `clicks.state`, `ledger_entries`, `risk_flags`, `clawback_reviews` | `clear_events` (hourly), `scan_ivt`, `scan_click_ivt` (2 min), `approve_clawback`, `reject_clawback`, `admin_open_clawback`, `scan_selfdeal_risk` (daily), `clawback` | an event is booked once, only after 72 h and not under review; a clawed back pair keeps nothing |
| Prepay balance | `advertiser_balances`, `advertiser_balance_ledger` | reserve, release, credit, draw down, dispute, refund, clawback, adjust, reconcile | the balance equals the liability in the ledger; a draw-down happens once per impression |
| Billing | `advertiser_charges`, `billing_run_lock`, Stripe PaymentIntents and refunds | `POST /charge`, `/refund`, `/reconcile`, `/setup-link`, webhooks | one impression is charged once, whatever call dies or repeats |
| Payouts | `payouts`, `publishers.payout_hold*`, `ledger_entries`, Stripe transfers | `payout_batch_reserve`, transfer, `payout_confirm`, `payout_fail`, `payout_reverse`, webhooks | nobody is paid twice, held, or for an earning that is then clawed back |
| Advertiser portal | `advertiser_topup_intents`, `stripe_webhook_events` (per endpoint), deposit rows | checkout, deposit webhook | a deposit is credited once; what Stripe gave back is taken back once, in whatever order it says so |
| Advertiser disputes | `advertisers.dispute_hold_at`, post-pay charge-backs | book, hold, clear | a disputed charge is written off once, and a hold that an admin has cleared stays cleared |
| Device login | `device_auth_codes`, `devices` with the hashes of two refresh tokens; the token file and its lock file on the client | start, approve, redeem, refresh, revoke; lock, reclaim, post, save | one code gives one device; neither a lost reply nor a process that dies logs the client out; a superseded token is good for one short grace |
| Erasure and retention | `deletion_requested_at`, `deleted_at`, audit rows | self delete, cancel, complete, erase, `retention_sweep` | no account with money owed is erased; a cancelled deletion leaves the account usable |
| Monitoring | `app.alert_events` | `POST /monitor/run`: ten checks, `monitor_sync_alerts`, a mail | what is wrong has its open alert, what is right has none, and an unreadable check decides nothing |
| Self-serve and moderation | `campaigns`, `line_items`, `creatives` | create, edit, submit, approve, reject, suspend | only what was approved is served |
| Client status line | `impression-state-<session>.json`, `ad-cache.json`, the bundled keys | one process per second: load, open, beat or close, verify, save, print | what is credited was on the screen; slow and overlapping ticks, lost requests and a key rotation do not leave it dark |
| Feed | none of its own; signing key and key id | `/line`, `/window/open`, `/window/beat`, `/window/close` | what it signs, the installed clients accept |
| Install, uninstall | `settings.json` | install, uninstall | uninstall restores the previous status line |

How they meet: `window_open` takes a hold on the prepay balance that
`close_window` or the sweep returns or leaves for the draw-down; an impression
that `close_window` books is cleared into the ledger by `clear_events`; billing
reads the cleared groups, payouts the cleared earnings older than 7 days; a
clawback must undo whichever of these have happened. The hard behaviours are
therefore transactions of different components that touch the same rows in an
order nobody chose (cron jobs, webhooks, operators, edge functions), edge
functions that die between two of their calls, Stripe deliveries that repeat and
overtake each other, and an UNLOGGED table that a database crash empties.
`PROJECT.json` lists these hazards line by line.

## 2. Modules

Each module is written from the code named in `PROJECT.json` under `map`, which
gives the lines of every definition.

| Module | Models | One step is |
|---|---|---|
| `WindowContract` | what a window promises about the credit it holds: opened once, owes at most what it held, in the end holds nothing | an abstract transition |
| `AdWindow` | the dwell protocol of one device: `window_open`, `window_beat`, `close_window`, `sweep_stale_windows`, `click_resolve`, revocation, a crash that empties the UNLOGGED table | an RPC that holds its row lock; `window_open` and `click_resolve` take two steps because they read without a lock |
| `PrepayBalance` | the prepaid credit of one advertiser, its ledger, the billing batches that settle by balance, deposits, disputes, refunds, clawbacks, adjustments | one SQL transaction or one HTTP call of the edge function |
| `Clearing` | `clear_events`, the IVT reviews and `public.clawback` with its three callers | one SQL statement under READ COMMITTED |
| `StripeBilling` | `POST /charge` and `/refund` for one advertiser: the lock, the batches and their frozen settle mode, recovery, PaymentIntents and idempotency keys, declines, releases | one call to PostgREST or to Stripe |
| `Payouts` | `payout_batch_reserve`, the transfers, `payout_confirm`, `payout_fail`, `payout_reverse`, holds, eligibility, clawbacks | one SQL statement or transaction, or one call to Stripe |
| `DepositEvents` | the deposit webhook, the dispute branch of the Connect webhook, `book_postpay_chargeback` and the dispute hold, against a Stripe that delivers at least once and in any order | one call of a handler: look up, find the advertiser, apply, record |
| `DeviceLogin` | the device code, the rotation of refresh tokens with its grace, revocation, and the processes of `getValidAccessToken` that share a token file and a lock file | one RPC, or one system call on a file |
| `ClientTick` | the status line of one session: overlapping processes, the session file, the window protocol, the signed line and its cache, the feed's signing key | the start of a tick, an answer of the feed, the end of a tick |
| `MoneyMonitor` | the ten checks, what they read and when, the sync of the alerts and the mail | the first queries of a run, its evaluation, its sync, its mail |
| `…Proofs` | theorems of the module of that name | |
| `MC…` | symmetry sets and functions that a `.cfg` cannot write | |

`AdWindow` and `PrepayBalance` meet in `WindowContract`: both are shown to
implement it under a refinement mapping (`phase <- PhaseOf`, `amount <- hold`),
`AdWindow` through beats, closes, sweeps and crashes, `PrepayBalance` through the
draw-downs and clawbacks that release what a credited window still holds. Each
of them abstracts the other: `PrepayBalance` closes a window with any gross the
contract allows, `AdWindow` does not know the balance. `StripeBilling` and
`PrepayBalance` share the batches: the first follows one advertiser's requests
call by call over both settle routes and only says of the balance that it
suffices or not, the second has the amounts and takes a request as one step up
to its commit points. `DepositEvents` decides which
reversals are booked and how often, `PrepayBalance` what each of them does to the
balance and to bad debt; its `MarkCharge` is what `StripeBilling` does in several
steps. `ClientTick` is the other end of the windows of `AdWindow`: it keeps of
them what a client can tell apart (open, credited, abandoned, the accepted hash
chain and the age), and drives them with the calls that the real client makes.
The access token it takes for granted is the one `DeviceLogin` keeps alive.
`MoneyMonitor` reads what the money modules write, as rows that may change at any
moment. `Clearing` and `Payouts`
meet in the state of an event: `Payouts` clears and claws back in one step what
`Clearing` does in several, because the publisher's row lock, which the payout
guards take, orders those transactions.

How state corresponds to the code:

- A function over rows stands for a table, one function per column that matters
  (`state`, `hold`, `charge`…), `"none"` for a row not inserted. Records stand for
  rows where several columns change together (`payout`, `undo`, `run`).
- Money is integer micros. A price is a small constant, chosen so that the
  rounding of the code (up for the estimate, half up for the publisher's share,
  down to whole cents for a payout) still does something.
- The ledger is the sum of the cleared legs per account. Only `Clearing`, where
  it matters which group is booked when, keeps them per event.
- Time is a clock of ticks in `AdWindow` (ages saturate at `AgeMax`), and an age
  class wherever the code only compares with a limit (`recent`, `held`, `aged` in
  `Clearing`; the creation order of the events and `clock` in `Payouts`).
- Locks: a transaction that holds the row it works on is one step. Where the code
  reads before it locks, or two statements of one transaction can see different
  snapshots, the steps are separate and the locks are in the guards (`Locked`,
  `WaitsFor`, `ReviewLocked`). A foreign key is a lock, too: the publisher's leg that
  `app.accrue` inserts shares the row of the publisher (FOR KEY SHARE) until the
  clearing commits, which `admin_open_clawback` and the self-deal scan exclude with
  FOR UPDATE (`run[c].share`, `HoldsPublisher`). PostgreSQL's deadlock detection is
  `BreakDeadlock`, which aborts a member of a circle of waits.
- A hash chain is the sequence of what was hashed into it: a beat is accepted when
  its front is what the server has. A signature is the key that made it and the
  key id it names. A refresh token is a number in the order of minting.
- A file is one variable, written at once where the code writes aside and renames;
  a lock file is its age, and `open('wx')`, `stat`, `unlink` are steps of their own.
- An alert is its check and its deduplication key; a query with a limit returns
  any rows of that number (`Fetch`).
- A process that dies is an action (`EndRun`, `DropPlan`, `AbortClear`, `Crash`),
  enabled wherever the program can die.

Definitions whose names end in `Bug` are the changes of the code that the
properties are tested against: a lock not taken, a row not tested again, a
forgotten reset. No specification uses them.

Two variables only remember, so that a property can name the one way in which the
code lets it go: `missed` in `StripeBilling` (batches whose charge an erring search
did not find after the key was forgotten), `unmarked` (groups whose refund key was
forgotten before the review was marked). No guard reads them. `refundKey` is Stripe's
memory of the refunds, as `key` is of the charges.

## 3. Runs

| Run | Question | Checks |
|---|---|---|
| `prepay_full` | does the serving path promise no credit that is not there, and does the credit stay explained when deposits are disputed and refunded, impressions clawed back, batches recovered and the database restarted? | `BalanceBacked`, `ReceivableExplained`, `SettledOnlyIfDrawn`, `ReservedIsSumOfHolds`, `HoldsCovered`, `KeepsContract` |
| `clearing_full` | can two clearings and two clawbacks of any origin break a pair of events or leave a leg behind, where do they deadlock, and is a released event cleared in the end? | `NoDoubleAccrual`, `PairStandsTogether`, `BookedMatchesState`, `WithheldUnderReview`, `ClawedBackReversed`, `DeadlocksMeetAtPublisher`, `RejectedReleases` |
| `window_dwell` | what is left of a window when it ends, and does it end? | `HoldCoversGross`, `KeepsContract`, `WindowsEnd`, `StrayClicksVoided` |
| `window_caps` | how far do unlocked counters overshoot? | `OvershootBounded`, `BudgetStops` |
| `payout_money` | is what is paid covered, once, and does the ledger follow Stripe? | `PayoutsBacked`, `LedgerFollowsTransfers`, `TransferredOnce` |
| `payout_live` | who can be reserved for while holds and account updates overlap, and is a reserved payout ever settled when batches die anywhere? | `HeldNotReserved`, `PendingEnds` |
| `payout_viol_abandoned` | does a batch never give up a payout that was transferred, as it says? | `NoTransferAbandoned` (violated) |
| `billing_once` | is an impression collected once and refunded once, and do the books know, when two requests overlap, die, lose answers, meet expired keys, searches that err, another card or another billing mode? | `CollectedOnce`, `CollectedIsKept`, `SettledIsCollected`, `RefundsCovered` |
| `device_login` | does an install keep its login when an answer is lost or late, a mint fails or a process dies under the lock, and does a refresh always end? | `CredentialKept`, `GraceNotExtended`, `RefreshEnds` |
| `money_monitor` | do overlapping runs that read while the books change, and checks that cannot read, end with the right alerts open? | `Converges`, `ResolvedWasFine` |
| `client_tick` | is what the server credits what the screen has shown, and does a line come back after every fault? | `CreditedWasSeen`, `NeverTooShort`, `ShowsAgain` |
| `deposit_events` | do the books follow Stripe when events repeat, overtake each other, meet at two endpoints and lose their handlers? | `NeverBeyondStripe`, `HoldExplained`, `Settles` |

One run shows where the code does something other than what its comment says
(`findings` in `PROJECT.json`): a batch that cannot read the connected account of a
payout fails it with "No transfer was attempted -> safe to fail"
(`stripe-connect/index.ts`:440-447), without the search that every other path makes.
In `payout_viol_abandoned` an earlier batch has made the transfer and died before the
confirmation; the money has left, and its amount becomes payable again.

Some properties hold but for one error each, and say so: `CollectedOnce` and
`CollectedIsKept` but for a search that errs after the key has expired (`missed`),
`RefundsCovered` but for a mark that is lost until then (`unmarked`), and
`HeldNotReserved` but for an account update that read the holds too early. Section 5
says what the code does then. Each exception is reached in its run: without it TLC finds
the property violated.

Type invariants are proved instead of being run (section 4); `MoneyMonitor` has
none.

### Bounds, and why they are enough

- **Rows.** Every race found in the code is between two transactions over one or
  two rows. The runs have two sessions of each kind that races (billing runs,
  payout batches, clearings, clawbacks, `window_open` calls, clicks) and one or
  two rows for each of them. `window_caps` takes a third window, since two
  overlapping calls must pass a cap of one and a rate of two.
- **Prices.** A dwell of 5 ticks of half a second with a tolerance of two lets the
  measured time round both ways; a share of 3 with a cent of 3 or a minimum of 4
  makes a payable that is not reservable, one that needs two events, and one that
  is above the maximum. In `billing_once` a group is two and a half cents and the
  minimum four: one group is below it, two are above it, and rounding the sum
  differs from rounding the parts.
- **The newer runs.** `device_login` has two processes, which is what a lock
  must keep apart, one device, and times in the order of the code (a fetch of 1
  below a lock of 3, twice the lock within a grace of 6, as 3 s, 15 s and 30 s);
  one fault is what the grace is built for. `client_tick` has two processes, since
  a tick can overlap the next one for as long as its fetch takes, one window that
  is used again after its purge, a dwell of two ticks with two beats, and both
  steps of a rotation between two bundled keys, and one fault. `money_monitor` has two runs, one
  row of every kind, drifts of none, 3 and 40 (an alert, and one more than ten times
  as large, which the code reports anew), two changes
  of the books and one unreadable check or dead run: an overlap needs two runs and
  a resolution that comes too early one change within a run. `deposit_events` has a
  deposit and a charge, two handlers, which is what deduplication by check first
  and record after can let in at once, partial and full refunds, a dispute with
  its two events and one failed handler or lost record.
- **Faults.** `MaxCrashes` bounds database crashes, `MaxAdjust` the manual
  adjustments. `billing_once` has one
  fault in all (a death, a lost answer, an unread failed write) and one change of
  card, mode or line items, any number of expired keys: each hazard listed needs
  one fault, and its run is the largest that fits. Elsewhere deaths of edge
  functions are not bounded, nor are lost, repeated
  and reordered events of Stripe (`Delivered` may keep an event).
- **Toggles.** `Reversals`, `Clawbacks`, `Clicks`, `Origins`, `Fills`, `Actors`
  leave actors out so that a run reaches the rest exhaustively; each is on in at
  least one passing run, but for `Overtaking` of `deposit_events` and `Overlaps` of
  `billing_once`: section 5 says what happens with them. `payout_money` leaves out the
  account updates, which move no money, and `payout_live` the admin.
- **Supplies.** Windows, batches, deposits and payouts are supplies that run out;
  `CHECK_DEADLOCK FALSE` is there where this ends a behaviour.

### Fairness

Safety runs have none. The liveness runs assume what the schedules give:
`clear_events` runs hourly, the sweep every ten minutes, the payout batch weekly,
and a call that is under way makes its next step unless it waits for a lock.
Every step of a payout batch is strongly fair, because any batch may die at any
point: the assumption is that not every batch of the years to come dies at the
same one, and that Stripe answers a search or a transfer some time. In
`clearing_full` a crash of a run is bounded instead. In `device_login` and
`client_tick` the status line is started every second by the assistant and its
system calls return, and the feed answers what is not lost; that Claude works now
and then, which the change of a line needs, is the user's part. In
`money_monitor` pg_cron starts runs and a run that does not die goes on. In
`deposit_events` Stripe retries what got no 2xx (strongly fair, since the handlers
are busy in between), and a taken charge is marked by the recovery that
`billing_once` is about. Nothing assumes that
operators review, adjust or claw back.

## 4. Proofs

The theorems hold for every value of the constants that the named assumptions of
the modules allow; TLC evaluates those assumptions on every run.

- **`PrepayBalanceProofs`**: every safety property of `prepay_full`, types (so
  neither the balance nor the reserve goes below zero) and the refinement of
  `WindowContract`. `BalanceBacked` and `LedgerZeroSum` are inductive over the
  typed state because each transaction moves the balance and its legs by one
  amount. `SettledOnlyIfDrawn` needs that a charge with a status has a batch
  (`RowsInOrder`), and `ReceivableExplained`, step by step, that what a batch
  draws was cleared before. The reserve is the sum of the holds because no step
  moves one without the other (`Reserve`); what makes the sum cover every batch
  is that an impression keeps its gross reserved until its batch is drawn
  (`HoldsGross`), whatever the order in which batches are served, and that the
  cash never falls below the reserve before it is taken back (`CashCovers`). The
  refinement needs the types, `RowsInOrder` and that a window which serves nothing
  holds nothing (`ServedInOrder`): clawbacks, draw-downs and crashes then map to one
  `End` of the windows that still hold something.
- **`AdWindowProofs`**: `TypeOK`, `HoldCoversGross`, `ImpressionEarned` (proved and
  in no run), `BookedOnce` and the refinement of `WindowContract` from the dwell invariant,
  which adds that a window not opened holds nothing (`FreshHoldsNothing`) and that
  the age of a window is at least the spacing of its beats (`BeatsTakeTime`):
  without the latter the elapsed time of a credited window follows from nothing.
  `OvershootBounded` and `BudgetStops` count calls in flight: the invariant says
  that the windows counted and the calls that have passed their check together
  stay below cap plus calls.
- **`ClearingProofs`**: all safety properties of `clearing_full`. The invariant
  says what a session may still rely on after its snapshot: what a cursor has
  selected and nobody has changed is old, free of flags and no click without its
  impression (`SelectionStands`); a clawback that reaches its commit holds both
  sources of its window or found them not billable (`UndoOwnsWindow`); what it
  reverses nobody else reverses (`ReversedByOne`). The flag cannot come later,
  because the two events of a window age together (`AgeTogether`). That a clawback
  reverses everything (`ClawedBackReversed`), although it reads the legs in its first
  statement and marks the events in its second and third, is its lock's doing: the two
  forms of the publisher's lock exclude each other (`LocksExclude`), a clawback
  without it is the approval of a flag that withholds the window (`ApprovesFlag`), so
  from the first statement on every leg of the window is among those it reverses
  (`ReversesAll`). `DeadlocksMeetAtPublisher` is proved for any number of
  transactions from the order of the other locks (`RowsInOrder`, `NoCircle`).
- **`PayoutsProofs`**: every safety property of `payout_money` and the types.
  `TransferredOnce` comes from the fact that a batch which is about to create a
  transfer either found none or is answered from the idempotency key
  (`KeyKnowsTransfer`). `PayoutsBacked` and
  `LedgerFollowsTransfers` are one invariant with the shape of a payout row
  (`AccountShape`: one that is pending was neither transferred nor reversed, none
  is reversed beyond its amount) and of the notices under way (`ReturnShape`: none
  announces more than Stripe took back). A step moves one payout, and `Moves` says
  what that does to the two sums of its publisher; a clawback takes an earning out
  only where the watermark leaves enough, and a confirmation moves an amount from
  what is reserved to what is paid. `HeldNotReserved` is proved with
  all actors: only a reservation makes a row pending, for a publisher who is eligible
  when his row is locked (`OnlyReserves`), and who is held and eligible was so before or
  is made so by an account update that had read the holds earlier (`OnlyOvertaken`).
  `TermsKept` is the life of a row from its reservation
  on: publisher and amount stay, the status only goes forward, and what is booked
  of the transfer and of its return is not taken out again.

- **`StripeBillingProofs`**: every safety property of `billing_once`, while no lock
  times out under a live request (`~Overlaps`), which makes the owner of the lock
  the only one past it (`OneAtWork`), and the types without that condition. The
  invariant says of the books that a batch
  is settled by one route, that what was charged or drawn for it is all it has
  reserved and goes one way with it, still pending, settled, or failed when a search has
  missed its charge (`Covers`, `Stands`), and that a key in force
  knows the charge unless one was missed (`OneCharge`); and of a request what it may
  still rely on at each stage (`Fits`): before `paymentIntents.create` a charge of the
  batch, if there is one, is under the key; before `markPendingFailed` and
  `releaseBatch` there is none; a missed charge excepted, but for the release. Without the minimum the last would not hold: a release is below
  it, a charge is not. The plan, stale as it is, occurs nowhere in the invariant:
  `Reservable` takes no row that exists. `SettledIsCollected` adds that a row keeps
  the trace of what collected it (`RowTraced`) and that the rows of a batch name one
  intent (`RowsAgree`), also when two were made; `RefundsCovered` follows with
  `RefundsKeyed` (a refund is under its key, or marked, or its key was forgotten before
  the mark) and a fact of arithmetic, that the floors of the parts add up to at
  most the floor of the sum (`FloorsAddUp`).
  Without `~Overlaps` a row can be taken out of a batch that has been charged
  (section 5), and two things are proved that still hold: `BatchChargedOnce`, because a request that
  is about to create knows that a charge of its batch, if there is one, is under the
  key, unless a search has missed it (`CreatesKnow`), and the key outlives the request;
  and `RowsFinal`, because releases and marks touch pending rows only. A stale request
  can thus undo nothing that was settled, and charges a batch again only as a request
  that holds the lock could; that the impression it has released is
  charged with another batch, only the lock prevents.

- **`DepositEventsProofs`**: `NeverBeyondStripe` and `HoldExplained`, also when
  reversals overtake their payments. The invariant writes the books of a payment as
  what was taken less the refunds and the chargeback that are booked (`BookFits`);
  an event in flight carries no more than Stripe has done (`EventFits`), and a
  handler about to book a reversal has found its deposit (`HandlerFits`). That a
  chargeback of the portal is never one of a charge is what keeps the two endpoints
  apart, and with them the hold.
- **`ClientTickProofs`**: types, `NeverTooShort` and `CreditedWasSeen`. The clock
  of a window on the
  client is never ahead of the one on the server (`ClientIsBehind`), which needs
  that a window on its way to the client is nobody's yet (`OpeningIsNew`): no tick
  can close it before its own clock has started. What was seen is counted against
  what the server has: the lines written for a window, the ticks that wait to write
  one and the faults together are at least the beats it has accepted and the opening
  (`Shown`), because the window a tick refers to was written once before
  (`Referred`), and a beat that the server takes leaves a tick waiting.
- **`DeviceLoginProofs`**: types, which need that a refresh token has a device
  wherever it is (`TokensOwned`), `GraceNotExtended` and `CredentialKept`. The
  invariant of the last (`Known`) follows the token of the file from one holder of
  the lock to the next: there is one of them (`OneHolder`), a request under way asks
  with a token no newer than the file's (`EachProcess`), and a file whose token is
  superseded is one step behind. `InGrace` bounds how long it has been so by the
  clocks of the code: the wait of the process that lost the answer, the age of the
  lock it left, and the wait of the one that retries, which are together less than
  the grace (`2 * Stale <= Grace` and `Stale + Timeout + 1 < Grace`, 15 s, 3 s and
  30 s in the code). A device that a login has not saved yet is known to nobody
  (`NewDevices`).

The shape is the same everywhere: `Init => IInv`, `IInv /\ [Next]_vars => IInv'`
with one lemma per action or per group of actions that disturb the same parts,
`IInv => Inv`, and one temporal step. `LedgerZeroSum`, `RecreditOnlyDrawnClawbacks`,
`BookedOnce` and the type invariants are proved and in no run: they are what the
other properties of their modules rest on. `TermsKept`, `BatchChargedOnce` and
`RowsFinal` are stated in the proof modules and in no run either; the last two were
checked with `Overlaps = TRUE` on two groups before they were proved.

Many of these properties are sums over windows or payouts, and what a fold computes
would need an induction theorem that takes an operator, which cannot be
instantiated. `MapThenSumSet` unfolds to a function over the subsets of its set,
and an induction over sets can be had without an operator: a family `G` of subsets
that has the empty set, and every set whose parts less one element are in it, has
them all (`SubsetInduction`, from a smallest counterexample by cardinality). From it
follow that the fold exists and is unique, and the laws the steps use: the sum of a
union, of a part, of a function changed in one place. `PrepayBalanceProofs` and
`PayoutsProofs` each have a copy, since each module has its own `SumOf`.
Sums and counts are why the assumptions on the constants say that windows, groups,
payouts and ticks are finitely many, as the rows of a table and the processes of a
machine are.

Only model-checked: liveness (`RejectedReleases`, `WindowsEnd`,
`StrayClicksVoided`, `PendingEnds`, `RefreshEnds`, `Converges`, `ShowsAgain`,
`Settles`) and `ENABLED`, which the prover does not do, and `ResolvedWasFine` of
`MoneyMonitor`. Every other property of a passing run is a theorem, those of
`StripeBilling` with the condition of its run (`~Overlaps`).

## 5. Observations

What the models reach and no run reports as a violation, because no document says
otherwise or because an operator has to act:

- An impression clawed back while its charge is pending in a batch is still drawn
  down with the batch (`20260716200000`:442, 453-454), and is not re-credited.
- `approve_clawback` leaves the hold of the window and with it `reserved_micros`
  (`20260716120000`:72-160), while the other clawbacks release it.
  `app.advertiser_reconcile_reserved` takes it out of the sum, not out of the
  window. A crash of the database loses the holds, and a reconciliation after it
  leaves the charges that are still pending without cover. `ReservedIsSumOfHolds`
  and `HoldsCovered` therefore hold until the first crash or clawback (`HoldsIntact`).
- `POST /billing/refund` of a balance-settled charge re-credits nothing: it demands
  an approved review, the approval has already made the impression `clawed_back`,
  and `admin_prepay_clawback` answers `already_clawed_back`.
- A review that `scan_click_ivt` opens carries no impression: approving it moves no
  money and its flag withholds the window for good (`20260722160000`:13).
- A provisional click whose window a crash has taken is out of the reach of the
  sweep and stays provisional.
- `window_open` counts only the open windows of the last two minutes, and counts
  before it inserts (`20260726110000`:344-346): the cap can be passed by the number
  of overlapping calls less one (`OvershootBounded`).
- `clear_events`, which has cleared the click of a window and wants to share the row of
  its publisher, and a clawback, which holds that row and wants the click, wait for each
  other; so do an admin who holds the impression and a scan that holds the publisher.
  PostgreSQL aborts one of them. `DeadlocksMeetAtPublisher` says that there are no other
  circles.
- An `account.updated` event that waits for the publisher's row while a scan
  places a hold sets `payout_status` back to verified, because the subquery of its
  UPDATE keeps the snapshot (`20260722060000`:128-129). The hold row stays, and
  the reservation tests it, but a reservation whose own snapshot is older than the
  hold then passes too. `HeldNotReserved` says that this is the only way.
- A payout that was reserved before a hold was placed is still transferred.
- A `transfer.reversed` event that arrives before `payout_confirm` is acknowledged
  with "no matching payout" and never booked (`20260629100000`:25-27).
- `GET publishers` that fails reads as "no connected account", since `svc()` reports an
  error as empty data, so a passing failure is enough for the finding of section 3. The
  next reservation makes a new payout under a new key, and no search finds the transfer
  of the old one: the publisher is paid twice. What Stripe rejects it may forget
  (`Kept`), and two overlapping batches can then give up a payout that one of them has
  just transferred, because a failed re-check counts as nothing found (480-494).
- The limit of `payout_batch_reserve` counts publishers who are then skipped for
  their small payable (`20260729100000`:62): those who come first in the order use
  it up in every batch, and a later publisher is never reached.
- A lock that times out under a stalled request undoes the isolation of the
  batches. `releaseBatch` deletes pending rows by group and not by batch
  (`billing/index.ts`:331-338): a release that stalls for ten minutes deletes the
  rows that another request has put into its own batch since, although that batch
  has been charged, and the groups come back into the view. TLC finds it with
  `Overlaps = TRUE`, four groups and three batches. The comment at 714 calls the
  lock "defense-in-depth atop per-group claiming"; `CollectedIsKept` needs it.
- `POST /billing/refund` relies on the key of the refund alone (1018-1035; there
  is no search as for charges), and nobody reads whether the mark `refund_queued` was
  written: when it is lost and the review is tried again after Stripe has forgotten the
  key, the impression is refunded twice, while `20260629070000`:6-8 says that a refund
  is issued exactly once. `RefundsCovered` says that this is the only way; the cents
  it compares with the charge count each impression once.
- A group that is clawed back while its row is pending is still charged with the
  batch, and `admin_open_clawback` answers that no refund is required, since it
  looks for rows that have succeeded.
- The recovery asks for a saved card before it looks for the PaymentIntent
  (`resolveCustomerAndPm`), so a batch that was charged stays pending once the
  customer has removed the card.
- A request that dies between `markPendingFailed` and `pauseAdvertiserLineItems`
  leaves the advertiser serving: failed rows never come back, so nothing pauses it
  until another batch is declined.
- A search that errs falls through to the creation (`billing/index.ts`:450-453).
  While the key lives that is harmless, as the comment says; a recovery after it has
  expired charges the batch a second time, and if that charge is declined,
  `markPendingFailed` takes the rows of the first one out of the books for good. The
  model's search may err at any time; the properties name the batches this has befallen
  (`missed`), and the rest of the books stays right even then.
- Holds are released by hand in SQL; no function does it and the models do not.
- Device login: two processes that both find the lock stale can both end up past
  it, because the second `unlink` may remove the lock the first has just taken; the
  grace of the server is what makes this harmless. A refresh that is still on its
  way when the client has already retried supersedes the token of the retry.
  A logout that runs under a refresh is undone when the refresh saves its tokens.
  A revocation that fails leaves the device alive, and so does a poll whose answer,
  the one with the tokens, is lost: the login fails and its device stays.
- Client: a tick that gets no line, a refusal or a line it cannot verify keeps no
  state, so that the next one opens a window again, and each leaves a row that the
  sweep ends. A rejected beat breaks the chain, and the window earns nothing any
  more; neither does one whose `close` is lost. A window opened without a token
  gets the beats of the token that is there by then. Between the change of the
  private key and that of the key id nothing that the feed signs is accepted.
- Monitoring: an alert is inserted before the mail is sent and mailed only when it
  is new, so that a mail that is lost is never sent again. A query cut off by its
  LIMIT resolves the alerts of the rows it does not return; the run has no more rows
  than the limit. Counts read by different queries can disagree and fire an alert
  that the next run resolves. A run that was overtaken may resolve an alert just
  opened, which the next run opens again.
- Deposits: a refund or dispute that overtakes the event of its payment is
  answered as handled and never booked; with `Overtaking = TRUE` TLC finds `Settles`
  violated. Every `charge.dispute.*` event books a chargeback, also the one that
  says that the dispute was won, and nothing books it back. A record of a handled
  event that fails to be written is harmless: the handler runs again and finds its
  rows.

## 6. Not modelled, and the plan

Left out, with the reason:

- **Account erasure and retention**: conditions over many tables, each tested and
  acted upon in one transaction. What it means for others is in their models as a
  refusal (a login that fails, a publisher who is not eligible).
- **Self-serve campaigns and moderation**: changes of the status of a single row
  under its lock, with one guard each. What they stop is a condition of the selection
  that `AdWindow` leaves open.
- **Rate limits and sign-up throttles**: counters with one upsert each; a refusal is a
  lost or refused request in `DeviceLogin` and `ClientTick`.
- **Install and uninstall**: one process that edits a file once, run by hand.
- **Admin booking, reference server, operations scripts**: forms in front of RPCs, a
  prototype that is not deployed, read-only reports.
- Of the components that are modelled in part: the ranking of the served creative,
  signature primitives, the parsing of headers and bodies, the redirect of a click,
  the onboarding of publishers and its mails, the reports of the admin and the
  dashboard. They move no state that another component depends on, or are functions
  of their input.

The modules of the plan are written, and the safety properties it named for proof
are proved. What is left of it is `ResolvedWasFine`, which holds only while no query
is cut off by its limit and so needs that as an assumption. Of `StripeBilling` under a lock that
times out, the batch and the settled row are covered (section 4), the impression that
a stale release takes out of its batch is not.

What `StripeBilling` takes for granted: one ordinary advertiser (the rows of a
house advertiser are written as skipped and never settled), rows with a settle mode
and a batch (older ones lack them), fewer rows than the
limits of its reads (500 of the view, 1000 pending), and a request that ends
within the life of a key.
