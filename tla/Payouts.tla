------------------------------- MODULE Payouts -------------------------------
(***************************************************************************)
(* Publisher payouts: payout_batch_reserve, the transfers of the edge      *)
(* function, payout_confirm, payout_fail and payout_reverse, with the      *)
(* holds and the clawbacks that must not reach what has been paid.  The    *)
(* batch is run by cron and by operators, may die between any two of its   *)
(* calls, and the events of Stripe arrive late, twice or out of order.     *)
(***************************************************************************)
EXTENDS Integers, FiniteSets, FiniteSetsExt

CONSTANTS
  Publishers,   \* numbers, in the order of publishers.created_at
  Payouts,      \* bound: rows of payouts that may be inserted
  Runs,         \* bound: POST /payout/batch in flight at once
  Windows,      \* numbers, in the order the windows were opened
  Owner,        \* the publisher of each window
  ImpressionEarning, ClickEarning,  \* publisher's share; no clicks when 0
  Cent,         \* 10 000 micros
  MinPayout,    \* p_min_micros
  MaxPayout,    \* p_velocity_max_micros
  Limit,        \* p_limit
  Closing,      \* publishers with deletion_requested_at set
  Prepay,       \* windows of prepaid advertisers: their bids have no CPC part
  Actors        \* who takes part: subset of {"admin", "selfdeal", "sybil", "account"}

ASSUME PayoutsAssumption ==
  /\ Publishers \subseteq Nat /\ IsFiniteSet(Publishers)
  /\ Windows \subseteq Nat /\ IsFiniteSet(Windows)
  /\ "none" \notin Payouts /\ IsFiniteSet(Payouts)
  /\ Owner \in [Windows -> Publishers]
  /\ ImpressionEarning \in Nat \ {0} /\ ClickEarning \in Nat
  /\ Cent \in Nat \ {0}
  /\ MinPayout \in Nat \ {0} /\ MaxPayout \in Nat
  /\ Limit \in Nat \ {0}
  /\ Closing \subseteq Publishers
  /\ Prepay \subseteq Windows
  /\ Actors \subseteq {"admin", "selfdeal", "sybil", "account"}

\* The earnings of the windows; a click may precede the impression, which is
\* booked when its window closes.
Clicked == IF ClickEarning > 0 THEN Windows \ Prepay ELSE {}
Events == (Windows \X {"impression"}) \cup (Clicked \X {"click"})
Created(e) == IF e[2] = "click" THEN 2 * e[1] ELSE 2 * e[1] + 1
Earning == [e \in Events |-> IF e[2] = "click" THEN ClickEarning ELSE ImpressionEarning]

VARIABLES
  earning,    \* state of each event and of its ledger group
  clock,      \* events created up to it are older than the 7 days' hold
  paid,       \* sum of the cleared payout legs of a publisher
  eligible,   \* payout_status is verified, the account active
  held,       \* an unreleased publisher_payout_holds row exists
  callback,   \* an eligibility update under way: the hold it has seen
  payout,     \* the payouts rows
  run,        \* the batches under way
  transfer,   \* at Stripe: transfers made for the payout, what came back
  key,        \* at Stripe: the outcome remembered for the idempotency key
  notices     \* transfer.reversed events not yet acknowledged

ledgerVars == <<earning, paid>>
publisherVars == <<eligible, held, callback>>
stripeVars == <<transfer, key, notices>>
vars == <<ledgerVars, clock, publisherVars, payout, run, stripeVars>>

NoPayout == [publisher |-> 0, amount |-> 0, status |-> "none",
             transferred |-> FALSE, reversed |-> 0]
IdleRun == [at |-> "idle", candidates |-> {}, todo |-> {}, payout |-> "none"]

Init ==
  /\ earning = [e \in Events |-> "provisional"]
  /\ clock = 0
  /\ paid = [p \in Publishers |-> 0]
  /\ eligible = [p \in Publishers |-> "account" \notin Actors]
  /\ held = [p \in Publishers |-> FALSE]
  /\ callback = [p \in Publishers |-> "none"]
  /\ payout = [po \in Payouts |-> NoPayout]
  /\ run = [r \in Runs |-> IdleRun]
  /\ transfer = [po \in Payouts |-> [made |-> 0, returned |-> 0]]
  /\ key = [po \in Payouts |-> "none"]
  /\ notices = {}

Least(a, b) == IF a < b THEN a ELSE b

-----------------------------------------------------------------------------
(* What a publisher has earned.                                            *)

Cleared(p) == {e \in Events : earning[e] = "cleared" /\ Owner[e[1]] = p}
SumOf(f, S) == MapThenSumSet(LAMBDA x : f[x], S)
Total(S) == SumOf(Earning, S)

\* publisher_payable_micros
Matured(p) == {e \in Cleared(p) : Created(e) <= clock}
Payable(p) == Total(Matured(p)) - paid[p]

\* impression_earning_paid, the FIFO watermark
EarningPaid(w) ==
  LET imp == <<w, "impression">>
  IN Total({e \in Cleared(Owner[w]) : Created(e) < Created(imp)}) < paid[Owner[w]]

Active(p) == {po \in Payouts : payout[po].publisher = p /\ payout[po].status = "pending"}

\* clear_events; the flags it waits for are in Clearing.
Clear(e) ==
  /\ earning[e] = "provisional"
  /\ e[2] = "click" => earning[<<e[1], "impression">>] = "cleared"
  /\ earning' = [earning EXCEPT ![e] = "cleared"]
  /\ UNCHANGED <<paid, clock, publisherVars, payout, run, stripeVars>>

Mature ==
  /\ \E e \in Events : Created(e) > clock
  /\ clock' = Min({Created(e) : e \in {f \in Events : Created(f) > clock}})
  /\ UNCHANGED <<ledgerVars, publisherVars, payout, run, stripeVars>>

-----------------------------------------------------------------------------
(* Holds, eligibility and clawbacks.                                       *)

\* scan_publisher_sybil: the earnings are withheld, nothing is reversed.
PlaceHold(p) ==
  /\ "sybil" \in Actors
  /\ ~held[p]
  /\ held' = [held EXCEPT ![p] = TRUE]
  /\ eligible' = [eligible EXCEPT ![p] = FALSE]
  /\ UNCHANGED <<ledgerVars, clock, callback, payout, run, stripeVars>>

\* set_publisher_payout_eligibility is one UPDATE: its subquery on the holds
\* keeps the snapshot of the statement while the row waits for its lock.
EligibilityRead(p) ==
  /\ "account" \in Actors
  /\ callback[p] = "none"
  /\ callback' = [callback EXCEPT ![p] = IF held[p] THEN "held" ELSE "free"]
  /\ UNCHANGED <<ledgerVars, clock, eligible, held, payout, run, stripeVars>>
EligibilityWrite(p) ==
  /\ callback[p] # "none"
  /\ \E verified \in BOOLEAN :
       eligible' = [eligible EXCEPT ![p] = verified /\ callback[p] = "free"]
  /\ callback' = [callback EXCEPT ![p] = "none"]
  /\ UNCHANGED <<ledgerVars, clock, held, payout, run, stripeVars>>

\* public.clawback reverses the whole window.
Reversed(w) == [e \in Events |-> IF e[1] = w THEN "reversed" ELSE earning[e]]
PayableWithout(w) == Total({e \in Matured(Owner[w]) : e[1] # w}) - paid[Owner[w]]

\* The guards that the three routes share, under the lock of the publisher.
\* Bug: a payout in flight is not looked for.
ReversibleBug(w) ==
  /\ earning[<<w, "impression">>] # "reversed"
  /\ ~EarningPaid(w)
Reversible(w) ==
  /\ earning[<<w, "impression">>] # "reversed"
  /\ Active(Owner[w]) = {}
  /\ ~EarningPaid(w)

\* admin_open_clawback rolls back when it leaves the payable negative; it may
\* refuse for a review or a charged click, too.
OpenClawback(w) ==
  /\ "admin" \in Actors
  /\ w \notin Prepay
  /\ Reversible(w)
  /\ PayableWithout(w) >= 0
  /\ earning' = Reversed(w)
  /\ UNCHANGED <<paid, clock, publisherVars, payout, run, stripeVars>>

\* admin_prepay_clawback, balance settled, does not look at the payable.
PrepayClawback(w) ==
  /\ "admin" \in Actors
  /\ w \in Prepay
  /\ Reversible(w)
  /\ earning' = Reversed(w)
  /\ UNCHANGED <<paid, clock, publisherVars, payout, run, stripeVars>>

\* scan_selfdeal_risk holds the publisher whether or not it can reverse.
SelfDealClawback(w) ==
  /\ "selfdeal" \in Actors
  /\ earning[<<w, "impression">>] # "reversed"
  /\ held' = [held EXCEPT ![Owner[w]] = TRUE]
  /\ eligible' = [eligible EXCEPT ![Owner[w]] = FALSE]
  /\ earning' = IF Reversible(w) /\ PayableWithout(w) >= 0 THEN Reversed(w) ELSE earning
  /\ UNCHANGED <<paid, clock, callback, payout, run, stripeVars>>

-----------------------------------------------------------------------------
(* POST /payout/batch: reserve, transfer, confirm.                         *)

To(r, at) == run' = [run EXCEPT ![r].at = at]
NextPayout(r) == run' = [run EXCEPT ![r].at = "work", ![r].payout = "none"]

\* The query of payout_batch_reserve, on its snapshot.
ReserveSelect(r) ==
  /\ run[r].at = "idle"
  /\ run' = [run EXCEPT ![r] =
       [IdleRun EXCEPT !.at = "reserve",
                       !.candidates = {p \in Publishers : /\ eligible[p]
                                                          /\ ~held[p]
                                                          /\ Active(p) = {}}]]
  /\ UNCHANGED <<ledgerVars, clock, publisherVars, payout, stripeVars>>

\* The rows in their order, as long as the limit lasts.
FirstOf(S) == {p \in S : Cardinality({q \in S : q < p}) < Limit}

\* What is reserved for a publisher: whole cents between the two bounds.
Reservable(p) == (Payable(p) \div Cent) * Cent
IsReserved(p) ==
  /\ Payable(p) >= 0
  /\ Reservable(p) >= IF p \in Closing THEN Cent ELSE MinPayout
  /\ Reservable(p) <= MaxPayout
  /\ Active(p) = {}

\* The locked rows: a row updated since the snapshot is tested again, with
\* the holds of the snapshot; the unique index keeps one payout in flight.
\* Bug: the publisher is not locked and his row not tested again.
InsertPayouts(ps) ==
  \E fresh \in [ps -> {po \in Payouts : payout[po].status = "none"}] :
    /\ \A p, q \in ps : p # q => fresh[p] # fresh[q]
    /\ payout' = [po \in Payouts |->
         IF \E p \in ps : fresh[p] = po
         THEN LET p == CHOOSE q \in ps : fresh[q] = po
              IN [NoPayout EXCEPT !.publisher = p, !.amount = Reservable(p),
                                  !.status = "pending"]
         ELSE payout[po]]
ReserveCommitBug(r) ==
  /\ run[r].at = "reserve"
  /\ InsertPayouts({p \in FirstOf(run[r].candidates) : IsReserved(p)})
  /\ run' = [run EXCEPT ![r].at = "fetch"]
  /\ UNCHANGED <<ledgerVars, clock, publisherVars, stripeVars>>
ReserveCommit(r) ==
  /\ run[r].at = "reserve"
  /\ InsertPayouts({p \in FirstOf({q \in run[r].candidates : eligible[q]}) : IsReserved(p)})
  /\ run' = [run EXCEPT ![r].at = "fetch"]
  /\ UNCHANGED <<ledgerVars, clock, publisherVars, stripeVars>>

\* Every pending payout, not only those of this run.  Bug: only those.
Pending == {po \in Payouts : payout[po].status = "pending" /\ ~payout[po].transferred}
FetchPendingBug(r) ==
  /\ run[r].at = "fetch"
  /\ run' = [run EXCEPT ![r] =
       [IdleRun EXCEPT !.at = "work",
                       !.todo = {po \in Pending : payout[po].publisher \in run[r].candidates}]]
  /\ UNCHANGED <<ledgerVars, clock, publisherVars, payout, stripeVars>>
FetchPending(r) ==
  /\ run[r].at = "fetch"
  /\ run' = [run EXCEPT ![r] = [IdleRun EXCEPT !.at = "work", !.todo = Pending]]
  /\ UNCHANGED <<ledgerVars, clock, publisherVars, payout, stripeVars>>

\* The look-up of the connected account comes first.  An answer without it, an
\* error too, gives the payout up, and nothing is searched at Stripe.
TakePayout(r) ==
  /\ run[r].at = "work"
  /\ \E po \in run[r].todo, at \in {"check", "fail"} :
       run' = [run EXCEPT ![r].at = at, ![r].payout = po, ![r].todo = @ \ {po}]
  /\ UNCHANGED <<ledgerVars, clock, publisherVars, payout, stripeVars>>

\* findTransferIdByMetadata, before the transfer and after a rejection.  Bug:
\* the search misses a transfer that is there.
PreCheckBug(r) ==
  /\ run[r].at = "check"
  /\ \/ To(r, "create")
     \/ NextPayout(r)
  /\ UNCHANGED <<ledgerVars, clock, publisherVars, payout, stripeVars>>
PreCheck(r) ==
  /\ run[r].at = "check"
  /\ \/ transfer[run[r].payout].made > 0 /\ To(r, "confirm")
     \/ transfer[run[r].payout].made = 0 /\ To(r, "create")
     \/ NextPayout(r)
  /\ UNCHANGED <<ledgerVars, clock, publisherVars, payout, stripeVars>>

\* transfers.create: Stripe answers what it remembers for the key or decides
\* now; a rejection it may remember or not, and the answer may be lost.  An
\* ambiguous error leaves the payout pending.
Kept(outcome) == IF outcome = "rejected" THEN {"none", "rejected"} ELSE {outcome}
CreateTransfer(r) ==
  LET po == run[r].payout
  IN /\ run[r].at = "create"
     /\ \/ \E outcome \in IF key[po] = "none" THEN {"made", "rejected"} ELSE {key[po]} :
             /\ \E k \in Kept(outcome) : key' = [key EXCEPT ![po] = k]
             /\ transfer' = IF outcome = "made" /\ key[po] = "none"
                            THEN [transfer EXCEPT ![po].made = @ + 1] ELSE transfer
             /\ \/ To(r, IF outcome = "made" THEN "confirm" ELSE "recheck")
                \/ NextPayout(r)
        \/ /\ NextPayout(r)
           /\ UNCHANGED <<key, transfer>>
     /\ UNCHANGED <<ledgerVars, clock, publisherVars, payout, notices>>

\* A search that fails after a rejection counts as nothing found.
Recheck(r) ==
  /\ run[r].at = "recheck"
  /\ \/ transfer[run[r].payout].made > 0 /\ To(r, "confirm")
     \/ To(r, "fail")
  /\ UNCHANGED <<ledgerVars, clock, publisherVars, payout, stripeVars>>

\* payout_confirm books once, under the lock of the payout.  Bug: a payout
\* that is paid already is booked again.
ConfirmBug(r) ==
  LET po == run[r].payout
  IN /\ run[r].at = "confirm"
     /\ payout' = [payout EXCEPT ![po].status = "paid", ![po].transferred = TRUE]
     /\ paid' = [paid EXCEPT ![payout[po].publisher] = @ + payout[po].amount]
     /\ NextPayout(r)
     /\ UNCHANGED <<earning, clock, publisherVars, stripeVars>>
Confirm(r) ==
  LET po == run[r].payout
  IN /\ run[r].at = "confirm"
     /\ IF payout[po].status = "pending"
        THEN /\ payout' = [payout EXCEPT ![po].status = "paid", ![po].transferred = TRUE]
             /\ paid' = [paid EXCEPT ![payout[po].publisher] = @ + payout[po].amount]
        ELSE UNCHANGED <<payout, paid>>
     /\ NextPayout(r)
     /\ UNCHANGED <<earning, clock, publisherVars, stripeVars>>

Fail(r) ==
  LET po == run[r].payout
  IN /\ run[r].at = "fail"
     /\ payout' = [payout EXCEPT ![po].status = IF @ = "pending" THEN "failed" ELSE @]
     /\ NextPayout(r)
     /\ UNCHANGED <<ledgerVars, clock, publisherVars, stripeVars>>

\* The batch ends: finished, a dry run, timed out, or an RPC without answer.
EndRun(r) ==
  /\ run[r].at # "idle"
  /\ run' = [run EXCEPT ![r] = IdleRun]
  /\ UNCHANGED <<ledgerVars, clock, publisherVars, payout, stripeVars>>

-----------------------------------------------------------------------------
(* Stripe.                                                                 *)

\* A day later the key is forgotten; no batch runs that long.
KeyExpires(po) ==
  /\ key[po] # "none"
  /\ \A r \in Runs : po \notin run[r].todo \cup {run[r].payout}
  /\ key' = [key EXCEPT ![po] = "none"]
  /\ UNCHANGED <<ledgerVars, clock, publisherVars, payout, run, transfer, notices>>

\* A transfer is reversed, in part or as a whole, and Stripe says so.
ReverseTransfer(po) ==
  /\ transfer[po].made > 0
  /\ \E amount \in {transfer[po].returned + Cent, payout[po].amount} :
       /\ transfer[po].returned < amount /\ amount <= payout[po].amount
       /\ transfer' = [transfer EXCEPT ![po].returned = amount]
       /\ notices' = notices \cup {[payout |-> po, amount |-> amount]}
  /\ UNCHANGED <<ledgerVars, clock, publisherVars, payout, run, key>>

\* The webhook finds the payout by its transfer id and calls payout_reverse:
\* the difference to what is booked, never more than the payout.  An event
\* without a payout is acknowledged too.
Delivered(n) == notices' \in {notices, notices \ {n}}
TransferReversed(n) ==
  LET po == n.payout
      target == Least(n.amount, payout[po].amount)
  IN /\ Delivered(n)
     /\ IF payout[po].transferred /\ payout[po].status = "paid"
           /\ target > payout[po].reversed
        THEN /\ payout' = [payout EXCEPT
                   ![po].reversed = target,
                   ![po].status = IF target = payout[po].amount THEN "failed" ELSE @]
             /\ paid' = [paid EXCEPT ![payout[po].publisher] =
                                        @ - (target - payout[po].reversed)]
        ELSE UNCHANGED <<payout, paid>>
     /\ UNCHANGED <<earning, clock, publisherVars, run, transfer, key>>

-----------------------------------------------------------------------------
RunStep(r) ==
  \/ ReserveSelect(r) \/ ReserveCommit(r) \/ FetchPending(r) \/ TakePayout(r)
  \/ PreCheck(r) \/ CreateTransfer(r) \/ Recheck(r) \/ Confirm(r) \/ Fail(r)
  \/ EndRun(r)
PublisherStep(p) == PlaceHold(p) \/ EligibilityRead(p) \/ EligibilityWrite(p)
ClawbackStep(w) == OpenClawback(w) \/ PrepayClawback(w) \/ SelfDealClawback(w)
StripeStep ==
  \/ \E po \in Payouts : KeyExpires(po) \/ ReverseTransfer(po)
  \/ \E n \in notices : TransferReversed(n)

Next ==
  \/ \E e \in Events : Clear(e)
  \/ Mature
  \/ \E p \in Publishers : PublisherStep(p)
  \/ \E w \in Windows : ClawbackStep(w)
  \/ \E r \in Runs : RunStep(r)
  \/ StripeStep

Spec == Init /\ [][Next]_vars

\* The batch is called again every week, Stripe answers some time, and not
\* every batch dies at the same place.
Answered(r) == PreCheck(r) /\ run'[r].at # "work"
Decided(r) == CreateTransfer(r) /\ run'[r].at # "work"
LiveSpec ==
  /\ Spec
  /\ \A e \in Events : WF_vars(Clear(e))
  /\ WF_vars(Mature)
  /\ \A r \in Runs :
       /\ SF_vars(ReserveSelect(r)) /\ SF_vars(ReserveCommit(r)) /\ SF_vars(FetchPending(r))
       /\ \A po \in Payouts : SF_vars(TakePayout(r) /\ run'[r].payout = po)
       /\ SF_vars(Answered(r)) /\ SF_vars(Decided(r)) /\ SF_vars(Recheck(r))
       /\ SF_vars(Confirm(r)) /\ SF_vars(Fail(r)) /\ SF_vars(EndRun(r))

-----------------------------------------------------------------------------
(* Properties.                                                             *)

TypeOK ==
  /\ earning \in [Events -> {"provisional", "cleared", "reversed"}]
  /\ clock \in Nat
  /\ paid \in [Publishers -> Nat]
  /\ eligible \in [Publishers -> BOOLEAN]
  /\ held \in [Publishers -> BOOLEAN]
  /\ callback \in [Publishers -> {"none", "free", "held"}]
  /\ payout \in [Payouts -> [publisher : Publishers \cup {0}, amount : Nat,
                             status : {"none", "pending", "paid", "failed"},
                             transferred : BOOLEAN, reversed : Nat]]
  /\ run \in [Runs -> [at : {"idle", "reserve", "fetch", "work", "check", "create",
                             "recheck", "confirm", "fail"},
                       candidates : SUBSET Publishers, todo : SUBSET Payouts,
                       payout : Payouts \cup {"none"}]]
  /\ transfer \in [Payouts -> [made : Nat, returned : Nat]]
  /\ key \in [Payouts -> {"none", "made", "rejected"}]
  /\ notices \subseteq [payout : Payouts, amount : Nat]

\* What is paid and what is reserved is covered by matured, cleared earnings:
\* no clawback reaches behind a payout, and none is reserved twice.
Amounts == [po \in Payouts |-> payout[po].amount]
Reserved(p) == SumOf(Amounts, Active(p))
PayoutsBacked == \A p \in Publishers : Total(Matured(p)) >= paid[p] + Reserved(p)

\* A payout is transferred once: retries after a crash, a lost answer or a
\* forgotten key find the transfer that is there.
TransferredOnce == \A po \in Payouts : transfer[po].made <= 1

\* payout_fail never gives up a payout whose money has left, as the comments of
\* the batch say; giving it up frees the publisher to be paid a second time.
NoTransferAbandoned ==
  \A po \in Payouts :
    transfer[po].made > 0 =>
      \/ payout[po].status \in {"pending", "paid"}
      \/ payout[po].status = "failed" /\ payout[po].reversed = payout[po].amount

\* The ledger of a publisher is what was confirmed less what came back, and
\* no event, however often and in which order, takes back more than Stripe did.
Booked(p) == {po \in Payouts : payout[po].publisher = p /\ payout[po].transferred}
Retained == [po \in Payouts |-> payout[po].amount - payout[po].reversed]
LedgerFollowsTransfers ==
  /\ \A p \in Publishers : paid[p] = SumOf(Retained, Booked(p))
  /\ \A po \in Payouts : payout[po].reversed <= transfer[po].returned

\* A reservation that overlaps a hold leaves the publisher out.  A publisher who
\* is held and still eligible, for whom it would not, there is only after an
\* account update that had read the holds before this one was placed.
HeldNotReserved ==
  [][/\ \A po \in Payouts :
          payout[po].status = "none" /\ payout'[po].status = "pending"
            => LET p == payout'[po].publisher IN held[p] => eligible[p]
     /\ \A p \in Publishers :
          held'[p] /\ eligible'[p] => held[p] /\ (eligible[p] \/ callback[p] = "free")]_vars

\* A payout that is reserved is paid or given up, whatever the run that
\* reserved it came to.
PendingEnds == \A po \in Payouts : payout[po].status = "pending" ~> payout[po].status # "pending"

=============================================================================
