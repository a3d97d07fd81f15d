------------------------ MODULE DepositEventsProofs ------------------------
(***************************************************************************)
(* The books of an advertiser's payments, for any number of payments,      *)
(* handlers and faults, whether or not reversals overtake their payment:   *)
(* they never take back more than Stripe did, and a dispute hold stands    *)
(* for a chargeback booked since it was last cleared.                      *)
(***************************************************************************)
EXTENDS DepositEvents, TLAPS

DisputeKinds == {"created", "withdrawn"}
EventRecord ==
  [kind : {"paid", "refund"} \cup DisputeKinds, pi : Pis, amount : Int]
StripeRecord == [taken : {0, Amount}, refunded : 0 .. Amount, disputed : 0 .. Amount]
HandlerRecord ==
  [at : {"idle", "lookup", "apply", "record"}, event : EventRecord \cup {None},
   endpoint : Endpoints]

Typed ==
  /\ intent \subseteq Deposits /\ credited \subseteq Deposits
  /\ succeeded \subseteq Charges
  /\ stripe \in [Pis -> StripeRecord]
  /\ events \subseteq EventRecord
  /\ handler \in [Handlers -> HandlerRecord]
  /\ cash \in [Pis -> Int] /\ refunded \in [Pis -> Int]
  /\ chargebacks \subseteq Pis
  /\ held \in BOOLEAN

\* What Stripe keeps never exceeds what it took.
StripeFits ==
  \A p \in Pis : stripe[p].refunded + stripe[p].disputed <= stripe[p].taken

\* An event tells what Stripe did and has not undone.
EventFits(e) ==
  /\ e.kind = "paid" => e.pi \in Deposits /\ stripe[e.pi].taken = Amount
  /\ e.kind = "refund" => e.pi \in Deposits /\ e.amount <= stripe[e.pi].refunded
  /\ e.kind \in DisputeKinds => e.amount = stripe[e.pi].disputed /\ e.amount > 0
EventsFit == \A e \in events : EventFits(e)

\* A handler works on an event of its endpoint; the portal applies a reversal
\* only to a deposit it has found.
HandlerFits(r) ==
  r.at # "idle" =>
    /\ r.event \in events
    /\ r.endpoint = "connect" => r.event.kind \in DisputeKinds
    /\ r.endpoint = "portal" /\ r.at = "apply" =>
         r.event.kind = "paid" \/ r.event.pi \in credited
HandlersFit == \A h \in Handlers : HandlerFits(handler[h])

\* The books of one payment.
BookFits(p) ==
  /\ Booked(p) => stripe[p].taken = Amount
  /\ ~Booked(p) => refunded[p] = 0 /\ p \notin chargebacks
  /\ 0 <= refunded[p] /\ refunded[p] <= stripe[p].refunded
  /\ p \in chargebacks => stripe[p].disputed > 0
  /\ cash[p] = (IF Booked(p) THEN Amount ELSE 0) - refunded[p]
                 - (IF p \in chargebacks THEN stripe[p].disputed ELSE 0)
BooksFit == \A p \in Pis : BookFits(p)

HoldFits == cleared \subseteq chargebacks \cap Charges /\ HoldExplained

IInv == Typed /\ StripeFits /\ EventsFit /\ HandlersFit /\ BooksFit /\ HoldFits

-----------------------------------------------------------------------------
(* Initially nothing is booked.                                            *)

LEMMA InitInv ==
  ASSUME DepositAssumption, Init
  PROVE  IInv
<1> USE DEF Init, NoMoney, Idle
<1>a. [taken |-> 0, refunded |-> 0, disputed |-> 0] \in StripeRecord
  BY DEF DepositAssumption, StripeRecord
<1>b. [at |-> "idle", event |-> None, endpoint |-> "portal"] \in HandlerRecord
  BY DEF HandlerRecord, Endpoints
<1>1. Typed
  <2>1. stripe \in [Pis -> StripeRecord]
    BY <1>a
  <2>2. handler \in [Handlers -> HandlerRecord]
    BY <1>b
  <2>3. cash \in [Pis -> Int] /\ refunded \in [Pis -> Int]
    OBVIOUS
  <2>4. events \subseteq EventRecord /\ chargebacks \subseteq Pis /\ held \in BOOLEAN
    OBVIOUS
  <2>5. intent \subseteq Deposits /\ credited \subseteq Deposits /\ succeeded \subseteq Charges
    OBVIOUS
  <2> QED BY <2>1, <2>2, <2>3, <2>4, <2>5 DEF Typed
<1>2. StripeFits /\ EventsFit /\ HandlersFit
  BY DEF StripeFits, EventsFit, HandlersFit, HandlerFits
<1>3. BooksFit
  BY DEF BooksFit, BookFits, Booked
<1>4. HoldFits
  BY DEF HoldFits, HoldExplained
<1> QED BY <1>1, <1>2, <1>3, <1>4 DEF IInv

-----------------------------------------------------------------------------
(* Stripe's steps leave the books and the handlers alone.                  *)

LEMMA CheckoutInv ==
  ASSUME IInv, NEW p \in Pis, Checkout(p)
  PROVE  IInv'
BY DEF IInv, Checkout, booksVars, Typed, StripeFits, EventsFit, EventFits, HandlersFit,
       HandlerFits, BooksFit, BookFits, Booked, HoldFits, HoldExplained

\* A payment that is taken.
LEMMA TakenInv ==
  ASSUME DepositAssumption, IInv, NEW p \in Pis, stripe[p].taken = 0,
         stripe' = [stripe EXCEPT ![p].taken = Amount],
         events' = events \/ /\ p \in Deposits
                             /\ events' = events \cup {Event("paid", p, Amount)},
         UNCHANGED <<intent, acked, seen, handler, succeeded, booksVars, cleared, faults>>
  PROVE  IInv'
<1> USE DEF IInv, booksVars
<1>0. /\ Amount \in Int /\ Amount > 0
      /\ \A q \in Pis : stripe[q] \in StripeRecord
  BY DEF DepositAssumption, Typed
<1>1. /\ stripe'[p].taken = Amount
      /\ \A q \in Pis : stripe'[q].refunded = stripe[q].refunded
                        /\ stripe'[q].disputed = stripe[q].disputed
      /\ \A q \in Pis \ {p} : stripe'[q] = stripe[q]
  BY DEF Typed, StripeRecord
<1>2. Typed'
  <2>1. stripe' \in [Pis -> StripeRecord]
    BY <1>0 DEF Typed, StripeRecord
  <2>2. Event("paid", p, Amount) \in EventRecord
    BY <1>0 DEF Event, EventRecord
  <2> QED BY <2>1, <2>2 DEF Typed
<1>3. StripeFits'
  BY <1>0, <1>1 DEF StripeFits, StripeRecord
<1>4. EventsFit'
  <2>1. ASSUME NEW e \in events PROVE EventFits(e)'
    <3>1. e.pi \in Pis
      BY DEF Typed, EventRecord
    <3> QED BY <1>0, <1>1, <3>1 DEF EventsFit, EventFits
  <2>2. p \in Deposits => EventFits(Event("paid", p, Amount))'
    BY <1>1 DEF EventFits, Event, DisputeKinds
  <2> QED BY <2>1, <2>2 DEF EventsFit
<1>5. HandlersFit'
  BY DEF HandlersFit, HandlerFits
<1>6. BooksFit'
  BY <1>0, <1>1 DEF BooksFit, BookFits, Booked
<1>7. HoldFits'
  BY DEF HoldFits, HoldExplained
<1> QED BY <1>2, <1>3, <1>4, <1>5, <1>6, <1>7

LEMMA PayInv ==
  ASSUME DepositAssumption, IInv, NEW p \in Pis, Pay(p) \/ TakeCharge(p)
  PROVE  IInv'
<1>1. p \in Deposits \/ TakeCharge(p)
  BY DEF Pay, IInv, Typed
<1> QED BY <1>1, TakenInv DEF Pay, TakeCharge

\* What the two reversals share: the row of the payment changes, and no event
\* told of it before.
LEMMA ReversedInv ==
  ASSUME DepositAssumption, IInv, NEW p \in Pis, NEW row \in StripeRecord,
         NEW new \in SUBSET EventRecord,
         stripe' = [stripe EXCEPT ![p] = row], events' = events \cup new,
         UNCHANGED <<intent, acked, seen, handler, succeeded, booksVars, cleared, faults>>,
         row.taken = stripe[p].taken, row.refunded >= stripe[p].refunded,
         row.refunded + row.disputed <= row.taken,
         row.disputed = stripe[p].disputed \/ stripe[p].disputed = 0,
         \A e \in new : EventFits(e)'
  PROVE  IInv'
<1> USE DEF IInv, booksVars
<1>0. \A q \in Pis : stripe[q] \in StripeRecord
  BY DEF Typed
<1>1. stripe'[p] = row /\ \A q \in Pis \ {p} : stripe'[q] = stripe[q]
  BY DEF Typed
<1>a. /\ row.refunded \in Int /\ row.disputed \in Int
      /\ \A q \in Pis : stripe[q].refunded \in Int /\ stripe[q].disputed \in Int
  BY <1>0 DEF StripeRecord, DepositAssumption
<1>2. Typed'
  BY DEF Typed
<1>3. StripeFits'
  BY <1>1 DEF StripeFits
<1>4. EventsFit'
  <2>1. ASSUME NEW e \in events PROVE EventFits(e)'
    <3>1. e.pi \in Pis /\ e.amount \in Int
      BY DEF Typed, EventRecord
    <3>2. EventFits(e)
      BY DEF EventsFit
    <3>3. CASE e.pi = p
      BY <1>1, <1>a, <3>1, <3>2, <3>3 DEF EventFits
    <3>4. CASE e.pi # p
      BY <1>1, <3>1, <3>2, <3>4 DEF EventFits
    <3> QED BY <3>3, <3>4
  <2> QED BY <2>1 DEF EventsFit
<1>5. HandlersFit'
  BY DEF HandlersFit, HandlerFits
<1>6. BooksFit'
  <2>1. ASSUME NEW q \in Pis PROVE BookFits(q)'
    <3>1. BookFits(q) /\ refunded[q] \in Int
      BY DEF BooksFit, Typed
    <3>2. CASE q = p
      BY <1>1, <1>a, <3>1, <3>2 DEF BookFits, Booked
    <3>3. CASE q # p
      BY <1>1, <3>1, <3>3 DEF BookFits, Booked
    <3> QED BY <3>2, <3>3
  <2> QED BY <2>1 DEF BooksFit
<1>7. HoldFits'
  BY DEF HoldFits, HoldExplained
<1> QED BY <1>2, <1>3, <1>4, <1>5, <1>6, <1>7

LEMMA RefundInv ==
  ASSUME DepositAssumption, IInv, NEW p \in Pis, NEW c \in Refunds, Refund(p, c)
  PROVE  IInv'
<1> DEFINE row == [stripe[p] EXCEPT !.refunded = c]
<1>1. stripe[p] \in StripeRecord /\ c \in 1 .. Amount /\ Amount \in Int
  BY DEF IInv, Typed, DepositAssumption
<1>2. stripe[p].taken = Amount /\ stripe[p].disputed = 0 /\ c > stripe[p].refunded
  BY <1>1 DEF Refund, Reversible, StripeRecord
<1>3. /\ row \in StripeRecord
      /\ row.taken = stripe[p].taken /\ row.disputed = stripe[p].disputed
      /\ row.refunded = c
  BY <1>1 DEF StripeRecord
<1>4. stripe' = [stripe EXCEPT ![p] = row]
  BY DEF Refund, IInv, Typed
<1>5. {Event("refund", p, c)} \in SUBSET EventRecord
  BY <1>1 DEF Event, EventRecord
<1>6. \A e \in {Event("refund", p, c)} : EventFits(e)'
  BY <1>1, <1>3, <1>4 DEF Event, EventFits, DisputeKinds, Refund, IInv, Typed
<1>7. row.refunded >= stripe[p].refunded /\ row.refunded + row.disputed <= row.taken
  BY <1>1, <1>2, <1>3 DEF StripeRecord
<1> HIDE DEF row
<1> QED BY <1>3, <1>4, <1>5, <1>6, <1>7, ReversedInv DEF Refund

LEMMA DisputeInv ==
  ASSUME DepositAssumption, IInv, NEW p \in Pis, Dispute(p)
  PROVE  IInv'
<1> DEFINE left == stripe[p].taken - stripe[p].refunded
           row == [stripe[p] EXCEPT !.disputed = left]
           new == {Event("created", p, left), Event("withdrawn", p, left)}
<1>1. stripe[p] \in StripeRecord /\ Amount \in Int
  BY DEF IInv, Typed, DepositAssumption
<1>2. stripe[p].taken = Amount /\ stripe[p].disputed = 0 /\ left > 0 /\ left \in 0 .. Amount
  BY <1>1 DEF Dispute, Reversible, StripeRecord
<1>3. /\ row \in StripeRecord
      /\ row.taken = stripe[p].taken /\ row.refunded = stripe[p].refunded
      /\ row.disputed = left
  BY <1>1, <1>2 DEF StripeRecord
<1>4. stripe' = [stripe EXCEPT ![p] = row] /\ events' = events \cup new
  BY DEF Dispute, IInv, Typed
<1>a. stripe[p].refunded \in Int /\ row.refunded + left = row.taken
  BY <1>1, <1>3 DEF StripeRecord
<1> HIDE DEF left, row
<1>5. new \in SUBSET EventRecord
  BY <1>1, <1>2 DEF Event, EventRecord, DisputeKinds
<1>6. \A e \in new : EventFits(e)'
  <2>1. stripe'[p].disputed = left
    BY <1>3, <1>4 DEF IInv, Typed
  <2> QED BY <1>2, <2>1 DEF Event, EventFits
<1>7. row.refunded >= stripe[p].refunded /\ row.refunded + row.disputed <= row.taken
  BY <1>1, <1>2, <1>3, <1>a DEF StripeRecord
<1> HIDE DEF new
<1> QED BY <1>2, <1>3, <1>4, <1>5, <1>6, <1>7, ReversedInv DEF Dispute

LEMMA MarkChargeInv ==
  ASSUME DepositAssumption, IInv, NEW p \in Pis, MarkCharge(p)
  PROVE  IInv'
<1> USE DEF IInv, MarkCharge
<1>1. /\ p \in Charges /\ p \notin succeeded /\ p \notin Deposits
      /\ stripe[p] \in StripeRecord /\ Amount \in Int /\ Amount > 0
  BY DEF DepositAssumption, Typed
<1>2. stripe[p].taken = Amount
  BY <1>1 DEF StripeRecord
<1>3. Typed' /\ StripeFits' /\ HandlersFit' /\ HoldFits'
  BY <1>1 DEF Typed, StripeFits, HandlersFit, HandlerFits, HoldFits, HoldExplained
<1>4. EventsFit'
  BY DEF EventsFit, EventFits
<1>5. BooksFit'
  <2>1. ASSUME NEW q \in Pis PROVE BookFits(q)'
    <3>1. BookFits(q) /\ cash \in [Pis -> Int]
      BY DEF BooksFit, Typed
    <3>2. CASE q = p
      BY <1>1, <1>2, <3>1, <3>2 DEF BookFits, Booked, Typed
    <3>3. CASE q # p
      BY <3>1, <3>3 DEF BookFits, Booked
    <3> QED BY <3>2, <3>3
  <2> QED BY <2>1 DEF BooksFit
<1> QED BY <1>3, <1>4, <1>5

-----------------------------------------------------------------------------
(* The steps of a handler.                                                 *)

\* A handler moves on and the books stay.
LEMMA HandlerMoves ==
  ASSUME IInv, NEW h \in Handlers, NEW r \in HandlerRecord, HandlerFits(r),
         handler' = [handler EXCEPT ![h] = r],
         UNCHANGED <<intent, stripe, events, succeeded, booksVars, cleared>>
  PROVE  IInv'
<1> USE DEF IInv, booksVars
<1>1. Typed'
  BY DEF Typed
<1>2. HandlersFit'
  BY DEF HandlersFit, HandlerFits, Typed
<1>3. StripeFits' /\ EventsFit' /\ BooksFit' /\ HoldFits'
  BY DEF StripeFits, EventsFit, EventFits, BooksFit, BookFits, Booked, HoldFits, HoldExplained
<1> QED BY <1>1, <1>2, <1>3

LEMMA DeliverInv ==
  ASSUME IInv, NEW h \in Handlers, NEW e \in events, NEW f \in Endpoints, Deliver(h, e, f)
  PROVE  IInv'
<1> DEFINE r == [at |-> IF f = "portal" THEN "lookup" ELSE "apply", event |-> e, endpoint |-> f]
<1>1. CASE Seen(e, f)
  BY <1>1 DEF Deliver, IInv, booksVars, Typed, StripeFits, EventsFit, EventFits,
              HandlersFit, HandlerFits, BooksFit, BookFits, Booked, HoldFits, HoldExplained
<1>2. CASE ~Seen(e, f)
  <2>1. r \in HandlerRecord
    BY DEF IInv, Typed, HandlerRecord, Endpoints
  <2>2. HandlerFits(r)
    BY DEF Deliver, Targets, HandlerFits, DisputeKinds, Endpoints
  <2>3. handler' = [handler EXCEPT ![h] = r]
    BY <1>2 DEF Deliver
  <2> HIDE DEF r
  <2> QED BY <2>1, <2>2, <2>3, HandlerMoves DEF Deliver
<1> QED BY <1>1, <1>2

\* A handler that gives up or is done.
LEMMA IdleInv ==
  ASSUME IInv, NEW h \in Handlers, Record(h) \/ Fail(h)
  PROVE  IInv'
<1>1. Idle \in HandlerRecord /\ HandlerFits(Idle)
  BY DEF Idle, HandlerRecord, HandlerFits, Endpoints
<1>2. handler' = [handler EXCEPT ![h] = Idle]
  BY DEF Record, Fail
<1> QED BY <1>1, <1>2, HandlerMoves DEF Record, Fail

LEMMA LookupInv ==
  ASSUME IInv, NEW h \in Handlers, Lookup(h)
  PROVE  IInv'
<1> DEFINE r == [handler[h] EXCEPT !.at = IF Found(handler[h].event) THEN "apply" ELSE "record"]
<1>1. handler[h] \in HandlerRecord /\ HandlerFits(handler[h]) /\ handler[h].at = "lookup"
  BY DEF Lookup, IInv, Typed, HandlersFit
<1>2. /\ r \in HandlerRecord
      /\ r.event = handler[h].event /\ r.endpoint = handler[h].endpoint
      /\ r.at = IF Found(handler[h].event) THEN "apply" ELSE "record"
  BY <1>1 DEF HandlerRecord
<1>3. handler' = [handler EXCEPT ![h] = r]
  BY DEF Lookup, Step, IInv, Typed
<1> HIDE DEF r
<1>4. HandlerFits(r)
  BY <1>1, <1>2 DEF HandlerFits, Found
<1> QED BY <1>2, <1>3, <1>4, HandlerMoves DEF Lookup

-----------------------------------------------------------------------------
(* The call of a handler that changes the books of one payment.            *)

Elsewhere(q) ==
  /\ cash'[q] = cash[q] /\ refunded'[q] = refunded[q]
  /\ q \in chargebacks' <=> q \in chargebacks
  /\ q \in credited' <=> q \in credited

LEMMA BooksMove ==
  ASSUME IInv, NEW h \in Handlers, NEW p \in Pis, Step(h, "record"),
         UNCHANGED <<intent, stripe, events, succeeded, cleared>>,
         credited \subseteq credited', credited' \subseteq Deposits,
         cash' \in [Pis -> Int], refunded' \in [Pis -> Int],
         chargebacks' \subseteq Pis, held' \in BOOLEAN,
         \A q \in Pis \ {p} : Elsewhere(q),
         BookFits(p)', HoldFits',
         handler[h].at = "apply"
  PROVE  IInv'
<1> USE DEF IInv
<1>1. handler' \in [Handlers -> HandlerRecord]
  BY DEF Step, Typed, HandlerRecord
<1>2. Typed'
  BY <1>1 DEF Typed
<1>3. StripeFits' /\ EventsFit'
  BY DEF StripeFits, EventsFit, EventFits
<1>4. HandlersFit'
  <2>1. ASSUME NEW k \in Handlers PROVE HandlerFits(handler[k])'
    <3>1. HandlerFits(handler[k])
      BY DEF HandlersFit
    <3>2. CASE k = h
      <4>1. handler'[h].at = "record" /\ handler'[h].event = handler[h].event
            /\ handler'[h].endpoint = handler[h].endpoint
        BY DEF Step, Typed, HandlerRecord
      <4> QED BY <3>1, <3>2, <4>1 DEF HandlerFits
    <3>3. CASE k # h
      <4>1. handler'[k] = handler[k]
        BY <3>3 DEF Step, Typed
      <4> QED BY <3>1, <4>1 DEF HandlerFits
    <3> QED BY <3>2, <3>3
  <2> QED BY <2>1 DEF HandlersFit
<1>5. BooksFit'
  <2>1. ASSUME NEW q \in Pis, q # p PROVE BookFits(q)'
    <3>1. BookFits(q) /\ Elsewhere(q)
      BY <2>1 DEF BooksFit
    <3> QED BY <3>1 DEF BookFits, Booked, Elsewhere
  <2> QED BY <2>1 DEF BooksFit
<1> QED BY <1>2, <1>3, <1>4, <1>5

\* What a handler knows when it applies its event.
LEMMA Applies ==
  ASSUME DepositAssumption, IInv, NEW h \in Handlers, handler[h].at = "apply"
  PROVE  LET e == handler[h].event IN
         /\ e.pi \in Pis /\ e.amount \in Int /\ EventFits(e) /\ BookFits(e.pi)
         /\ handler[h].endpoint = "portal" => e.pi \in Deposits
         /\ handler[h].endpoint = "portal" /\ e.kind # "paid" => e.pi \in credited
         /\ handler[h].endpoint = "connect" => e.kind \in DisputeKinds
<1> USE DEF IInv
<1>1. HandlerFits(handler[h])
  BY DEF HandlersFit
<1>2. handler[h].event \in events
  BY <1>1 DEF HandlerFits
<1>3. handler[h].event \in EventRecord /\ EventFits(handler[h].event)
  BY <1>2 DEF EventsFit, Typed
<1> QED BY <1>1, <1>3 DEF HandlerFits, EventFits, EventRecord, BooksFit, Typed

LEMMA CreditInv ==
  ASSUME DepositAssumption, IInv, NEW h \in Handlers, Apply(h), NEW p \in Pis,
         handler[h].endpoint = "portal", handler[h].event.kind = "paid",
         p = handler[h].event.pi, Credit(p)
  PROVE  IInv'
<1>1. handler[h].at = "apply" /\ Step(h, "record")
      /\ UNCHANGED <<intent, stripe, events, succeeded, cleared>>
  BY DEF Apply
<1>2. p \in Pis /\ p \in Deposits /\ EventFits(handler[h].event) /\ BookFits(p)
  BY <1>1, Applies
<1>3. stripe[p].taken = Amount /\ p \notin succeeded /\ Amount \in Int
  BY <1>2 DEF EventFits, IInv, Typed, DepositAssumption
<1>4. Credit(p)
  OBVIOUS
<1>5. cash \in [Pis -> Int] /\ refunded \in [Pis -> Int] /\ stripe[p] \in StripeRecord
  BY <1>2 DEF IInv, Typed
<1>6. /\ cash' \in [Pis -> Int] /\ refunded' \in [Pis -> Int]
      /\ \A q \in Pis \ {p} : Elsewhere(q)
  BY <1>3, <1>4, <1>5 DEF Credit, Elsewhere
<1>7. BookFits(p)'
  <2>1. stripe[p].refunded \in Int /\ stripe[p].disputed \in Int /\ stripe' = stripe
    BY <1>1, <1>5 DEF StripeRecord, DepositAssumption
  <2>2. CASE p \in credited
    <3>1. credited' = credited
      BY <1>4, <2>2 DEF Credit
    <3> QED BY <1>1, <1>2, <1>4, <2>2, <3>1 DEF BookFits, Booked, Credit
  <2>3. CASE p \notin credited
    <3>1. refunded[p] = 0 /\ p \notin chargebacks /\ cash[p] = 0
      BY <1>2, <1>3, <1>5, <2>3 DEF BookFits, Booked
    <3>2. cash'[p] = Amount /\ refunded'[p] = 0 /\ p \notin chargebacks' /\ p \in credited'
      BY <1>2, <1>3, <1>4, <1>5, <2>3, <3>1 DEF Credit
    <3> QED BY <1>2, <1>3, <2>1, <3>1, <3>2 DEF BookFits, Booked
  <2> QED BY <2>2, <2>3
<1>8. HoldFits'
  BY <1>1, <1>4 DEF Credit, HoldFits, HoldExplained, IInv
<1>9. /\ credited \subseteq credited' /\ credited' \subseteq Deposits
      /\ chargebacks' \subseteq Pis /\ held' \in BOOLEAN
  BY <1>2, <1>4 DEF Credit, IInv, Typed
<1> QED BY <1>1, <1>2, <1>6, <1>7, <1>8, <1>9, BooksMove

LEMMA ApplyRefundInv ==
  ASSUME DepositAssumption, IInv, NEW h \in Handlers, Apply(h), NEW p \in Pis, NEW c \in Int,
         handler[h].endpoint = "portal", handler[h].event.kind = "refund",
         p = handler[h].event.pi, c = handler[h].event.amount, ApplyRefund(p, c)
  PROVE  IInv'
<1> DEFINE delta == RefundDelta(p, c)
<1>1. handler[h].at = "apply" /\ Step(h, "record")
      /\ UNCHANGED <<intent, stripe, events, succeeded, cleared>>
  BY DEF Apply
<1>2. /\ p \in Pis /\ p \in Deposits /\ p \in credited /\ c \in Int
      /\ EventFits(handler[h].event) /\ BookFits(p)
  BY <1>1, Applies
<1>3. c <= stripe[p].refunded
  BY <1>2 DEF EventFits
<1>4. ApplyRefund(p, c)
  OBVIOUS
<1>5. cash \in [Pis -> Int] /\ refunded \in [Pis -> Int] /\ stripe[p] \in StripeRecord
  BY <1>2 DEF IInv, Typed
<1>a. stripe[p].refunded \in Int /\ stripe[p].disputed \in Int /\ Amount \in Int
  BY <1>5 DEF StripeRecord, DepositAssumption
<1>6. /\ delta \in Int /\ delta >= 0
      /\ refunded[p] + delta <= stripe[p].refunded
  BY <1>2, <1>3, <1>5, <1>a DEF RefundDelta, AtLeastZero, BookFits
<1>7. /\ refunded' = [refunded EXCEPT ![p] = @ + delta]
      /\ cash' = [cash EXCEPT ![p] = @ - delta]
      /\ UNCHANGED <<credited, chargebacks, held>>
  BY <1>4 DEF ApplyRefund, TakeBack
<1> HIDE DEF delta
<1>8. /\ cash' \in [Pis -> Int] /\ refunded' \in [Pis -> Int]
      /\ \A q \in Pis \ {p} : Elsewhere(q)
  BY <1>5, <1>6, <1>7 DEF Elsewhere
<1>9. BookFits(p)'
  <2>1. /\ cash'[p] = cash[p] - delta /\ refunded'[p] = refunded[p] + delta
        /\ cash[p] \in Int /\ refunded[p] \in Int
    BY <1>2, <1>5, <1>7
  <2>2. /\ UNCHANGED <<stripe, chargebacks>> /\ Booked(p)' = Booked(p) /\ Booked(p)
    BY <1>1, <1>2, <1>7 DEF Booked
  <2> QED BY <1>2, <1>6, <1>a, <2>1, <2>2 DEF BookFits
<1>10. HoldFits'
  BY <1>1, <1>7 DEF HoldFits, HoldExplained, IInv
<1>11. /\ credited \subseteq credited' /\ credited' \subseteq Deposits
       /\ chargebacks' \subseteq Pis /\ held' \in BOOLEAN
  BY <1>7 DEF IInv, Typed
<1> QED BY <1>1, <1>2, <1>8, <1>9, <1>10, <1>11, BooksMove

\* A chargeback is booked for the first time: of a deposit or of a charge.
LEMMA ChargedBack ==
  ASSUME DepositAssumption, IInv, NEW h \in Handlers, NEW p \in Pis, NEW amount \in Int,
         handler[h].at = "apply", Step(h, "record"),
         UNCHANGED <<intent, stripe, events, succeeded, cleared, credited, refunded>>,
         p \notin chargebacks, chargebacks' = chargebacks \cup {p}, Booked(p),
         amount = stripe[p].disputed, amount > 0,
         cash' = [cash EXCEPT ![p] = @ - amount],
         held' = IF p \in Charges THEN TRUE ELSE held
  PROVE  IInv'
<1>1. cash \in [Pis -> Int] /\ refunded \in [Pis -> Int] /\ BookFits(p) /\ Amount \in Int
  BY DEF IInv, Typed, BooksFit, DepositAssumption
<1>2. /\ cash' \in [Pis -> Int] /\ refunded' \in [Pis -> Int]
      /\ \A q \in Pis \ {p} : Elsewhere(q)
  BY <1>1 DEF Elsewhere
<1>3. BookFits(p)'
  <2>1. cash'[p] = cash[p] - amount /\ cash[p] \in Int /\ refunded[p] \in Int
    BY <1>1
  <2> QED BY <1>1, <2>1 DEF BookFits, Booked
<1>4. HoldFits'
  BY DEF HoldFits, HoldExplained, IInv
<1>5. /\ credited \subseteq credited' /\ credited' \subseteq Deposits
      /\ chargebacks' \subseteq Pis /\ held' \in BOOLEAN
  BY DEF IInv, Typed
<1> QED BY <1>2, <1>3, <1>4, <1>5, BooksMove

\* An event that finds its work done.
LEMMA NothingBooked ==
  ASSUME IInv, NEW h \in Handlers, handler[h].at = "apply", Step(h, "record"),
         UNCHANGED <<intent, stripe, events, succeeded, cleared, booksVars>>
  PROVE  IInv'
<1> DEFINE r == [handler[h] EXCEPT !.at = "record"]
<1>1. handler[h] \in HandlerRecord /\ HandlerFits(handler[h])
  BY DEF IInv, Typed, HandlersFit
<1>2. /\ r \in HandlerRecord /\ r.at = "record"
      /\ r.event = handler[h].event /\ r.endpoint = handler[h].endpoint
  BY <1>1 DEF HandlerRecord
<1>3. handler' = [handler EXCEPT ![h] = r]
  BY DEF Step, IInv, Typed
<1> HIDE DEF r
<1>4. HandlerFits(r)
  BY <1>1, <1>2 DEF HandlerFits
<1> QED BY <1>2, <1>3, <1>4, HandlerMoves

LEMMA ApplyInv ==
  ASSUME DepositAssumption, IInv, NEW h \in Handlers, Apply(h)
  PROVE  IInv'
<1> DEFINE e == handler[h].event
<1>1. handler[h].at = "apply" /\ Step(h, "record")
      /\ UNCHANGED <<intent, stripe, events, succeeded, cleared>>
  BY DEF Apply
<1>2. /\ e.pi \in Pis /\ e.amount \in Int /\ EventFits(e) /\ BookFits(e.pi)
      /\ handler[h].endpoint = "portal" => e.pi \in Deposits
      /\ handler[h].endpoint = "portal" /\ e.kind # "paid" => e.pi \in credited
      /\ handler[h].endpoint = "connect" => e.kind \in DisputeKinds
  BY <1>1, Applies
<1>3. PICK p \in Pis, c \in Int : p = e.pi /\ c = e.amount
  BY <1>2
<1>4. CASE handler[h].endpoint = "connect" /\ WriteOff(p, c)
  <2>1. e.kind \in DisputeKinds
    BY <1>2, <1>4
  <2>2. c = stripe[p].disputed /\ c > 0
    BY <1>2, <1>3, <2>1 DEF EventFits
  <2>3. CASE p \in succeeded \ chargebacks
    <3>1. stripe[p].taken = Amount /\ stripe[p] \in StripeRecord /\ p \in Charges
      BY <1>2, <1>3, <2>3 DEF BookFits, Booked, IInv, Typed
    <3>2. Least(c, Amount) = c
      BY <2>2, <3>1 DEF Least, StripeRecord, DepositAssumption
    <3> QED BY <1>1, <1>4, <2>2, <2>3, <3>1, <3>2, ChargedBack DEF WriteOff, TakeBack, Booked
  <2>4. CASE p \notin succeeded \ chargebacks
    BY <1>1, <1>4, <2>4, NothingBooked DEF WriteOff, booksVars
  <2> QED BY <2>3, <2>4
<1>5. CASE handler[h].endpoint = "portal" /\ e.kind = "paid" /\ Credit(p)
  BY <1>3, <1>5, CreditInv
<1>6. CASE handler[h].endpoint = "portal" /\ e.kind = "refund" /\ ApplyRefund(p, c)
  BY <1>3, <1>6, ApplyRefundInv
<1>7. CASE handler[h].endpoint = "portal" /\ e.kind \in DisputeKinds /\ ApplyDispute(p, c)
  <2>1. p \in credited /\ p \in Deposits /\ p \notin Charges
    BY <1>2, <1>3, <1>7 DEF DisputeKinds, DepositAssumption
  <2>2. c = stripe[p].disputed /\ c > 0
    BY <1>2, <1>3, <1>7 DEF EventFits
  <2>3. CASE p \notin chargebacks
    BY <1>1, <1>7, <2>1, <2>2, <2>3, ChargedBack DEF ApplyDispute, TakeBack, Booked
  <2>4. CASE p \in chargebacks
    <3>1. UNCHANGED booksVars
      BY <1>7, <2>4 DEF ApplyDispute, booksVars
    <3> QED BY <1>1, <3>1, NothingBooked
  <2> QED BY <2>3, <2>4
<1> QED BY <1>3, <1>4, <1>5, <1>6, <1>7 DEF Apply, DisputeKinds

-----------------------------------------------------------------------------
(* The console, and all steps together.                                    *)

LEMMA ClearHoldInv ==
  ASSUME IInv, ClearHold
  PROVE  IInv'
BY DEF IInv, ClearHold, Typed, StripeFits, EventsFit, EventFits, HandlersFit, HandlerFits,
       BooksFit, BookFits, Booked, HoldFits, HoldExplained

LEMMA NextInv ==
  ASSUME DepositAssumption, IInv, [Next]_vars
  PROVE  IInv'
<1>1. CASE Money
  <2> SUFFICES ASSUME NEW p \in Pis,
                      \/ Checkout(p) \/ Pay(p) \/ TakeCharge(p) \/ MarkCharge(p)
                      \/ Dispute(p) \/ \E c \in Refunds : Refund(p, c)
               PROVE  IInv'
    BY <1>1 DEF Money
  <2> QED BY CheckoutInv, PayInv, MarkChargeInv, DisputeInv, RefundInv
<1>2. ASSUME NEW h \in Handlers, Handle(h) \/ Fail(h) PROVE IInv'
  BY <1>2, LookupInv, ApplyInv, IdleInv DEF Handle
<1>3. ASSUME NEW h \in Handlers, NEW e \in events, NEW f \in Endpoints, Deliver(h, e, f)
      PROVE  IInv'
  BY <1>3, DeliverInv
<1>4. CASE ClearHold
  BY <1>4, ClearHoldInv
<1>5. CASE UNCHANGED vars
  BY <1>5 DEF vars, booksVars, IInv, Typed, StripeFits, EventsFit, EventFits, HandlersFit,
              HandlerFits, BooksFit, BookFits, Booked, HoldFits, HoldExplained
<1> QED BY <1>1, <1>2, <1>3, <1>4, <1>5 DEF Next

LEMMA Inductive == Spec => []IInv
<1>1. Init => IInv
  BY InitInv, DepositAssumption
<1>2. IInv /\ [Next]_vars => IInv'
  BY NextInv, DepositAssumption
<1> QED BY <1>1, <1>2, PTL DEF Spec

\* The books never take back more of a payment than Stripe has given back or
\* lost of it, nor credit it twice (the webhook handlers of advertiser-portal
\* and stripe-connect).
THEOREM BooksWithinStripe == Spec => []NeverBeyondStripe
<1>1. IInv => NeverBeyondStripe
  <2> SUFFICES ASSUME IInv, NEW p \in Pis, Booked(p)
               PROVE  cash[p] \in Left(p) .. Amount
    BY DEF NeverBeyondStripe
  <2>1. BookFits(p) /\ stripe[p] \in StripeRecord /\ refunded[p] \in Int /\ cash[p] \in Int
    BY DEF IInv, BooksFit, Typed
  <2>2. stripe[p].refunded \in Nat /\ stripe[p].disputed \in Nat /\ Amount \in Int
    BY <2>1, DepositAssumption DEF StripeRecord, DepositAssumption
  <2> QED BY <2>1, <2>2 DEF BookFits, Left
<1> QED BY <1>1, Inductive, PTL

\* A dispute hold stands for a post-pay chargeback that was booked since an
\* admin last cleared it (book_postpay_chargeback).
THEOREM HoldsAreExplained == Spec => []HoldExplained
<1>1. IInv => HoldExplained
  BY DEF IInv, HoldFits
<1> QED BY <1>1, Inductive, PTL

=============================================================================
