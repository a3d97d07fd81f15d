--------------------------- MODULE DepositEvents ---------------------------
(***************************************************************************)
(* Stripe's events on the money of one advertiser: prepaid deposits paid   *)
(* in a Checkout session, post-pay charges, refunds and disputes.  Stripe  *)
(* delivers an event to each endpoint at least once, in any order, until   *)
(* it is acknowledged.  A dispute goes to two endpoints: advertiser-portal *)
(* reverses deposits, stripe-connect writes off post-pay charges.  Each    *)
(* looks whether it has seen the event, handles it, and only then records  *)
(* it; between the calls anything may happen and the handler may die.      *)
(***************************************************************************)
EXTENDS Integers, FiniteSets

CONSTANTS
  Deposits,   \* PaymentIntents of Checkout sessions
  Charges,    \* PaymentIntents of post-pay charges
  Handlers,   \* deliveries handled at once
  Amount,     \* of each PaymentIntent
  Refunds,    \* cumulative amounts a charge.refunded may carry
  MaxDisputes, \* bound: payments disputed
  MaxFaults,  \* bound: handlers that fail, records that are lost
  Overtaking, \* BOOLEAN: a reversal may be announced before its payment is booked
  None        \* no event

Pis == Deposits \cup Charges
Endpoints == {"portal", "connect"}

ASSUME DepositAssumption ==
  /\ Deposits \cap Charges = {}
  /\ IsFiniteSet(Pis)
  /\ Amount \in Nat \ {0}
  /\ Refunds \subseteq 1 .. Amount
  /\ MaxDisputes \in Nat /\ MaxFaults \in Nat
  /\ Overtaking \in BOOLEAN

VARIABLES
  intent,      \* advertiser_topup_intents: the sessions that may be paid
  stripe,      \* per PaymentIntent: what Stripe took, gave back and lost
  events,      \* announced by Stripe
  acked,       \* deliveries Stripe got a 2xx for
  seen,        \* stripe_webhook_events, per event and endpoint
  handler,     \* per handler: its delivery and its next call
  cash,        \* ledger: platform_cash booked for a PaymentIntent
  credited,    \* deposit rows, unique by PaymentIntent
  succeeded,   \* advertiser_charges with status succeeded
  refunded,    \* sum of the refund rows of a deposit
  chargebacks, \* chargeback rows of deposits and of charges, by dispute
  held,        \* advertisers.dispute_hold_at is set
  cleared,     \* ghost: chargebacks booked when an admin last cleared the hold
  faults

booksVars == <<cash, credited, refunded, chargebacks, held>>
vars == <<intent, stripe, events, acked, seen, handler, succeeded, booksVars,
          cleared, faults>>

NoMoney == [taken |-> 0, refunded |-> 0, disputed |-> 0]
Idle == [at |-> "idle", event |-> None, endpoint |-> "portal"]

Init ==
  /\ intent = {}
  /\ stripe = [p \in Pis |-> NoMoney]
  /\ events = {} /\ acked = {} /\ seen = {}
  /\ handler = [h \in Handlers |-> Idle]
  /\ cash = [p \in Pis |-> 0]
  /\ credited = {} /\ succeeded = {}
  /\ refunded = [p \in Pis |-> 0]
  /\ chargebacks = {}
  /\ held = FALSE /\ cleared = {}
  /\ faults = 0

Least(a, b) == IF a < b THEN a ELSE b
AtLeastZero(n) == IF n < 0 THEN 0 ELSE n

-----------------------------------------------------------------------------
(* Stripe and the two ways it takes money.                                 *)

Event(kind, p, amount) == [kind |-> kind, pi |-> p, amount |-> amount]

\* Where an event goes: both endpoints subscribe to disputes.
Targets(e) == IF e.kind \in {"created", "withdrawn"} THEN Endpoints ELSE {"portal"}

\* POST /funding/checkout: only a session whose intent is stored hands out
\* its url.
Checkout(p) ==
  /\ p \in Deposits \ intent
  /\ intent' = intent \cup {p}
  /\ UNCHANGED <<stripe, events, acked, seen, handler, succeeded, booksVars, cleared, faults>>

Pay(p) ==
  /\ p \in intent /\ stripe[p].taken = 0
  /\ stripe' = [stripe EXCEPT ![p].taken = Amount]
  /\ events' = events \cup {Event("paid", p, Amount)}
  /\ UNCHANGED <<intent, acked, seen, handler, succeeded, booksVars, cleared, faults>>

\* POST /billing/charge: taken at Stripe, then marked and booked, both in
\* StripeBilling.
TakeCharge(p) ==
  /\ p \in Charges /\ stripe[p].taken = 0
  /\ stripe' = [stripe EXCEPT ![p].taken = Amount]
  /\ UNCHANGED <<intent, events, acked, seen, handler, succeeded, booksVars, cleared, faults>>
MarkCharge(p) ==
  /\ p \in Charges \ succeeded /\ stripe[p].taken > 0
  /\ succeeded' = succeeded \cup {p}
  /\ cash' = [cash EXCEPT ![p] = @ + Amount]
  /\ UNCHANGED <<intent, stripe, events, acked, seen, handler, credited, refunded,
                 chargebacks, held, cleared, faults>>

Booked(p) == p \in credited \cup succeeded
Reversible(p) == stripe[p].taken > 0 /\ (Overtaking \/ Booked(p))

\* A refund from the dashboard; a charge is refunded by /billing/refund.
Refund(p, cumulative) ==
  /\ p \in Deposits /\ Reversible(p)
  /\ stripe[p].disputed = 0 /\ cumulative > stripe[p].refunded
  /\ stripe' = [stripe EXCEPT ![p].refunded = cumulative]
  /\ events' = events \cup {Event("refund", p, cumulative)}
  /\ UNCHANGED <<intent, acked, seen, handler, succeeded, booksVars, cleared, faults>>

\* The cardholder's bank takes what is left; two events name the dispute.
Dispute(p) ==
  LET left == stripe[p].taken - stripe[p].refunded IN
  /\ Reversible(p) /\ stripe[p].disputed = 0 /\ left > 0
  /\ Cardinality({q \in Pis : stripe[q].disputed > 0}) < MaxDisputes
  /\ stripe' = [stripe EXCEPT ![p].disputed = left]
  /\ events' = events \cup {Event("created", p, left), Event("withdrawn", p, left)}
  /\ UNCHANGED <<intent, acked, seen, handler, succeeded, booksVars, cleared, faults>>

-----------------------------------------------------------------------------
(* A webhook handler.                                                      *)

Step(h, at) == handler' = [handler EXCEPT ![h].at = at]

\* What marks a delivery as seen; bug: the event, whoever saw it.
SeenBug(e, f) == \E g \in Endpoints : <<e, g>> \in seen
Seen(e, f) == <<e, f>> \in seen

\* The signature is verified and the event looked up: a seen one is answered
\* at once.  The portal looks up the advertiser first.
Deliver(h, e, f) ==
  /\ handler[h].at = "idle"
  /\ e \in events /\ f \in Targets(e)
  /\ <<e, f>> \notin acked \/ ~Seen(e, f)
  /\ IF Seen(e, f)
     THEN acked' = acked \cup {<<e, f>>} /\ UNCHANGED handler
     ELSE /\ handler' = [handler EXCEPT ![h] =
               [at |-> IF f = "portal" THEN "lookup" ELSE "apply", event |-> e, endpoint |-> f]]
          /\ UNCHANGED acked
  /\ UNCHANGED <<intent, stripe, events, seen, succeeded, booksVars, cleared, faults>>

\* The advertiser is found from the stored intent or the deposit row; an event
\* without one is done with.
Found(e) == CASE e.kind = "paid" -> e.pi \in intent [] OTHER -> e.pi \in credited
Lookup(h) ==
  LET r == handler[h] IN
  /\ r.at = "lookup"
  /\ Step(h, IF Found(r.event) THEN "apply" ELSE "record")
  /\ UNCHANGED <<intent, stripe, events, acked, seen, succeeded, booksVars, cleared, faults>>

\* How an amount taken back splits into what the balance still holds and bad
\* debt is in PrepayBalance; the cash goes either way.
TakeBack(p, amount) == cash' = [cash EXCEPT ![p] = @ - amount]

\* advertiser_credit_deposit, once per PaymentIntent.
Credit(p) ==
  /\ credited' = credited \cup {p}
  /\ IF p \in credited THEN UNCHANGED cash
     ELSE cash' = [cash EXCEPT ![p] = @ + Amount]
  /\ UNCHANGED <<refunded, chargebacks, held>>

\* advertiser_apply_deposit_refund, the part not booked yet; bug: all of it.
RefundDeltaBug(p, cumulative) == cumulative
RefundDelta(p, cumulative) == AtLeastZero(cumulative - refunded[p])
ApplyRefund(p, cumulative) ==
  /\ refunded' = [refunded EXCEPT ![p] = @ + RefundDelta(p, cumulative)]
  /\ TakeBack(p, RefundDelta(p, cumulative))
  /\ UNCHANGED <<credited, chargebacks, held>>

\* advertiser_apply_deposit_reversal, once per dispute.
ApplyDispute(p, amount) ==
  /\ chargebacks' = chargebacks \cup {p}
  /\ IF p \in chargebacks THEN UNCHANGED cash ELSE TakeBack(p, amount)
  /\ UNCHANGED <<credited, refunded, held>>

\* book_postpay_chargeback, once per dispute of a charge that was collected:
\* the loss, and a hold on the advertiser.  Bug: the hold comes before the
\* row that tells a replay apart.
WriteOffBug(p, amount) ==
  /\ IF p \in succeeded
     THEN /\ chargebacks' = chargebacks \cup {p}
          /\ held' = TRUE
          /\ IF p \in chargebacks THEN UNCHANGED cash
             ELSE TakeBack(p, Least(amount, Amount))
     ELSE UNCHANGED <<chargebacks, cash, held>>
  /\ UNCHANGED <<credited, refunded>>
WriteOff(p, amount) ==
  /\ IF p \in succeeded \ chargebacks
     THEN /\ chargebacks' = chargebacks \cup {p}
          /\ TakeBack(p, Least(amount, Amount))
          /\ held' = TRUE
     ELSE UNCHANGED <<chargebacks, cash, held>>
  /\ UNCHANGED <<credited, refunded>>

\* The one call that changes the books.
Apply(h) ==
  LET e == handler[h].event IN
  /\ handler[h].at = "apply"
  /\ \/ handler[h].endpoint = "connect" /\ WriteOff(e.pi, e.amount)
     \/ handler[h].endpoint = "portal" /\ e.kind = "paid" /\ Credit(e.pi)
     \/ handler[h].endpoint = "portal" /\ e.kind = "refund" /\ ApplyRefund(e.pi, e.amount)
     \/ /\ handler[h].endpoint = "portal" /\ e.kind \in {"created", "withdrawn"}
        /\ ApplyDispute(e.pi, e.amount)
  /\ Step(h, "record")
  /\ UNCHANGED <<intent, stripe, events, acked, seen, succeeded, cleared, faults>>

\* The event is recorded, or the record is lost without a word, and answered.
Record(h) ==
  LET d == <<handler[h].event, handler[h].endpoint>> IN
  /\ handler[h].at = "record"
  /\ \/ seen' = seen \cup {d} /\ UNCHANGED faults
     \/ faults < MaxFaults /\ faults' = faults + 1 /\ UNCHANGED seen
  /\ acked' = acked \cup {d}
  /\ handler' = [handler EXCEPT ![h] = Idle]
  /\ UNCHANGED <<intent, stripe, events, succeeded, booksVars, cleared>>

\* A call fails or the handler dies: Stripe gets no 2xx and delivers again.
Fail(h) ==
  /\ handler[h].at # "idle" /\ faults < MaxFaults
  /\ faults' = faults + 1
  /\ handler' = [handler EXCEPT ![h] = Idle]
  /\ UNCHANGED <<intent, stripe, events, acked, seen, succeeded, booksVars, cleared>>

-----------------------------------------------------------------------------
(* The console.                                                            *)

\* admin_clear_advertiser_dispute_hold.
ClearHold ==
  /\ held
  /\ held' = FALSE
  /\ cleared' = chargebacks \cap Charges
  /\ UNCHANGED <<intent, stripe, events, acked, seen, handler, succeeded, cash, credited,
                 refunded, chargebacks, faults>>

Money == \E p \in Pis : \/ Checkout(p) \/ Pay(p) \/ TakeCharge(p) \/ MarkCharge(p)
                        \/ Dispute(p) \/ \E c \in Refunds : Refund(p, c)
Handle(h) == Lookup(h) \/ Apply(h) \/ Record(h)
Next ==
  \/ Money
  \/ \E h \in Handlers : \/ Handle(h) \/ Fail(h)
                         \/ \E e \in events, f \in Endpoints : Deliver(h, e, f)
  \/ ClearHold

Spec == Init /\ [][Next]_vars

\* Stripe retries what it got no 2xx for, a handler that does not die goes on,
\* and a taken charge is marked in the end.
Unanswered == {d \in events \X Endpoints : d[2] \in Targets(d[1]) /\ d \notin acked}
Fairness ==
  /\ \A p \in Charges : WF_vars(MarkCharge(p))
  /\ \A h \in Handlers : WF_vars(Handle(h))
  /\ SF_vars(\E h \in Handlers, d \in Unanswered : Deliver(h, d[1], d[2]))

LiveSpec == Spec /\ Fairness

-----------------------------------------------------------------------------
(* Properties.                                                             *)

Left(p) == stripe[p].taken - stripe[p].refunded - stripe[p].disputed

\* However often, concurrently and in whatever order the events come, the
\* books never take back more than Stripe did nor credit a payment twice.
NeverBeyondStripe ==
  \A p \in Pis : Booked(p) => cash[p] \in Left(p) .. Amount

\* A hold stands for a post-pay chargeback booked since an admin last cleared
\* it: the second event of a dispute, or a replay, does not put it back.
HoldExplained == held <=> (chargebacks \cap Charges) \ cleared # {}

\* In the end the books show what Stripe has: no event is lost to a handler
\* that died, to the other endpoint's delivery or to a replay.
Settles == <>[](\A p \in Pis : cash[p] = Left(p))

=============================================================================
