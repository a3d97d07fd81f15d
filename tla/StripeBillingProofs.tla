------------------------ MODULE StripeBillingProofs ------------------------
(***************************************************************************)
(* For any number of charge requests, groups, batches and intents: if the  *)
(* lock never times out under a live request, an impression is collected   *)
(* once and what was collected stays in the books, but for a batch whose   *)
(* charge a search missed, by an error, when its key was forgotten; every  *)
(* settled row was collected, and the refunds of a charge never exceed it. *)
(* And also if it does time out: a batch is charged once, with the same    *)
(* exception, and a settled row is final.                                  *)
(***************************************************************************)
EXTENDS StripeBilling, FiniteSetTheorems, TLAPS

AtBatch == {"select", "release", "search", "create", "mark", "fail", "pause",
            "draw", "markBalance"}
WithSet == {"release", "search", "create", "mark", "fail", "draw", "markBalance"}
ByStripe == {"release", "search", "create", "mark", "fail"}
Charging == {"search", "create", "mark", "fail"}

RunRecord == [pc : PCs, plan : SUBSET Groups, mode : Modes, todo : SUBSET Batches,
              batch : Batches \cup {None}, set : SUBSET Groups,
              card : Cards \cup {None}, intent : Intents \cup {None}]
IntentRecord == [status : {"none", "succeeded", "declined"},
                 batch : Batches \cup {None}, groups : SUBSET Groups,
                 card : Cards \cup {None}]

\* What the steps need of the types.
Shape ==
  /\ group \in [Groups -> {"none", "cleared", "reversed"}]
  /\ row \in [Groups -> {"none", "pending", "succeeded", "failed"}]
  /\ batch \in [Groups -> Batches \cup {None}]
  /\ route \in [Batches -> Modes \cup {"none"}]
  /\ mode \in Modes
  /\ lock \in Runs \cup {None}
  /\ run \in [Runs -> RunRecord]
  /\ card \in Cards \cup {None}
  /\ intent \in [Intents -> IntentRecord]
  /\ key \in [Batches -> Intents \cup {None}]
  /\ drawn \in [Batches -> SUBSET Groups]

\* What was collected for b is pending or settled, or given up after a charge
\* that no search found.
Stands(b, status) ==
  status \in {"pending", "succeeded"} \/ (status = "failed" /\ b \in missed)

\* A set of groups that was collected for b is what b has reserved, and goes
\* through the same.
Covers(b, S) ==
  /\ \A g \in S : batch[g] = b /\ Stands(b, row[g])
  /\ \A g, h \in S : row[g] = row[h]
  /\ Pending(b) = {} \/ Pending(b) = S

\* The rows, the intents and the draw-downs.
RowsOwned ==
  /\ \A g \in Groups : row[g] = "none" <=> batch[g] = None
  /\ \A g \in Groups : batch[g] # None => route[batch[g]] # "none"
IntentsOwned ==
  \A p \in Intents : ~Unused(p) =>
    intent[p].batch \in Batches /\ route[intent[p].batch] = "postpay"
KeysOwned ==
  \A b \in Batches : key[b] # None => ~Unused(key[b]) /\ intent[key[b]].batch = b
ChargesCover ==
  \A b \in Batches : \A p \in Charged(b) :
    Covers(b, intent[p].groups) /\ ~(Cents(intent[p].groups) < MinCents)
OneCharge ==
  \A b \in Batches : \A p \in Charged(b) :
    b \in missed \/ (key[b] \in {None, p} /\ \A q \in Charged(b) : p = q)
DrawsCover ==
  \A b \in Batches : drawn[b] # {} => route[b] = "prepay" /\ Covers(b, drawn[b])

\* What a request, as the record x, knows of the batch in its hands.
Fits(x) ==
  /\ x.pc \in AtBatch <=> x.batch # None
  /\ \A b \in x.todo : route[b] # "none"
  /\ x.pc \in WithSet => x.set = Pending(x.batch) /\ x.set # {}
  /\ x.pc \in ByStripe => route[x.batch] = "postpay"
  /\ x.pc \in {"draw", "markBalance"} => route[x.batch] = "prepay"
  /\ x.pc = "release" => Cents(x.set) < MinCents
  /\ x.pc \in Charging => ~(Cents(x.set) < MinCents)
  /\ x.pc = "create" =>
       x.batch \in missed \/ \A p \in Charged(x.batch) : key[x.batch] = p
  /\ x.pc = "mark" => x.intent \in Charged(x.batch)
  /\ x.pc = "fail" => x.batch \in missed \/ Charged(x.batch) = {}
  /\ x.pc = "markBalance" => drawn[x.batch] # {}

\* Only the owner of the lock is past it.
Working(r) == run[r].pc \notin {"idle", "lock"}
OneAtWork == \A r \in Runs : Working(r) => lock = r

BooksInv == /\ RowsOwned /\ IntentsOwned /\ KeysOwned
            /\ ChargesCover /\ OneCharge /\ DrawsCover
RunsInv == \A r \in Runs : Fits(run[r])

Inv == Shape /\ OneAtWork /\ BooksInv /\ RunsInv

\* Nothing is written to the books, though a search may miss a charge.
KeepsBooks ==
  /\ UNCHANGED <<row, batch, route, intent, key, drawn>>
  /\ missed \subseteq missed'

-----------------------------------------------------------------------------
(* Steps that leave the books alone.                                       *)

LEMMA BooksStay ==
  ASSUME KeepsBooks
  PROVE  /\ BooksInv => BooksInv'
         /\ \A x : Fits(x) => Fits(x)'
PROOF
  <1>1. \A b : Pending(b)' = Pending(b) /\ Charged(b)' = Charged(b)
    BY DEF KeepsBooks, Pending, Charged
  <1>2. ASSUME NEW b, NEW S, Covers(b, S) PROVE Covers(b, S)'
    BY <1>1, <1>2 DEF KeepsBooks, Covers, Stands
  <1>3. BooksInv => BooksInv'
    BY <1>1, <1>2 DEF KeepsBooks, BooksInv, RowsOwned, IntentsOwned, KeysOwned, ChargesCover,
                      OneCharge, DrawsCover, Unused
  <1>4. \A x : Fits(x) => Fits(x)'
    BY <1>1 DEF KeepsBooks, Fits
  <1> QED BY <1>3, <1>4

\* A request moves to the record x.
Moves(r, x) == run' = [run EXCEPT ![r] = x] /\ x \in RunRecord

LEMMA RunMoves ==
  ASSUME Shape, NEW r \in Runs, NEW x, Moves(r, x)
  PROVE  /\ run' \in [Runs -> RunRecord]
         /\ run'[r] = x
         /\ \A q \in Runs \ {r} : run'[q] = run[q]
PROOF
  BY DEF Moves, Shape

\* The request keeps the lock it holds, or ends.
KeepsLock(r, x) ==
  /\ lock' = lock
  /\ x.pc \in {"idle", "lock"} \/ Working(r)

LEMMA RunOnly ==
  ASSUME Inv, NEW r \in Runs, NEW x, Moves(r, x), KeepsLock(r, x), Fits(x),
         KeepsBooks, UNCHANGED <<mode, card>>,
         group' \in [Groups -> {"none", "cleared", "reversed"}]
  PROVE  Inv'
PROOF
  <1>1. /\ run' \in [Runs -> RunRecord] /\ run'[r] = x
        /\ \A q \in Runs \ {r} : run'[q] = run[q]
    BY RunMoves DEF Inv
  <1>2. Shape'
    BY <1>1 DEF Inv, Shape, KeepsBooks, KeepsLock
  <1>3. OneAtWork'
    BY <1>1 DEF Inv, OneAtWork, Working, KeepsLock
  <1>4. BooksInv' /\ RunsInv'
    BY <1>1, BooksStay DEF Inv, RunsInv
  <1> QED BY <1>2, <1>3, <1>4 DEF Inv

-----------------------------------------------------------------------------
(* The records a request moves to.                                         *)

LEMMA RunTyped ==
  ASSUME Inv, NEW r \in Runs
  PROVE  run[r] \in RunRecord /\ Fits(run[r])
PROOF
  BY DEF Inv, Shape, RunsInv

BackTo(r) == [run[r] EXCEPT !.pc = "loop", !.batch = None, !.set = {},
                            !.card = None, !.intent = None]

LEMMA GoesBack ==
  ASSUME Inv, NEW r \in Runs, run' = Back(r)
  PROVE  Moves(r, BackTo(r)) /\ Fits(BackTo(r)) /\ BackTo(r).pc = "loop"
PROOF
  <1>1. run[r] \in RunRecord /\ Fits(run[r])
    BY RunTyped
  <1>2. BackTo(r) \in RunRecord
    BY <1>1 DEF BackTo, RunRecord, PCs
  <1>3. /\ BackTo(r).pc = "loop" /\ BackTo(r).batch = None
        /\ BackTo(r).todo = run[r].todo
    BY <1>1 DEF BackTo, RunRecord
  <1>4. run' = [run EXCEPT ![r] = BackTo(r)]
    BY DEF Back, BackTo, Inv, Shape
  <1>5. Fits(BackTo(r))
    BY <1>1, <1>3 DEF Fits, AtBatch, WithSet, ByStripe, Charging
  <1> QED BY <1>2, <1>3, <1>4, <1>5 DEF Moves

\* The request keeps its batch and set and takes another stage and intent.
Stage(r, pc, p) == [run[r] EXCEPT !.pc = pc, !.intent = p]

LEMMA StageFields ==
  ASSUME Inv, NEW r \in Runs, NEW pc \in PCs, NEW p \in Intents \cup {None}
  PROVE  /\ Stage(r, pc, p) \in RunRecord
         /\ Stage(r, pc, p).pc = pc /\ Stage(r, pc, p).intent = p
         /\ Stage(r, pc, p).batch = run[r].batch /\ Stage(r, pc, p).set = run[r].set
         /\ Stage(r, pc, p).todo = run[r].todo /\ Stage(r, pc, p).plan = run[r].plan
PROOF
  <1>1. run[r] \in RunRecord
    BY DEF Inv, Shape
  <1>2. Stage(r, pc, p) \in RunRecord
    BY <1>1 DEF Stage, RunRecord
  <1>3. /\ Stage(r, pc, p).pc = pc /\ Stage(r, pc, p).intent = p
        /\ Stage(r, pc, p).batch = run[r].batch /\ Stage(r, pc, p).set = run[r].set
        /\ Stage(r, pc, p).todo = run[r].todo /\ Stage(r, pc, p).plan = run[r].plan
    BY <1>1 DEF Stage, RunRecord
  <1> QED BY <1>2, <1>3

LEMMA StageTyped ==
  ASSUME Inv, NEW r \in Runs, NEW pc \in PCs, NEW p \in Intents \cup {None}
  PROVE  /\ run' = [run EXCEPT ![r].pc = pc] /\ p = run[r].intent => Moves(r, Stage(r, pc, p))
         /\ run' = [run EXCEPT ![r].pc = pc, ![r].intent = p] => Moves(r, Stage(r, pc, p))
         /\ run' = [run EXCEPT ![r].intent = p, ![r].pc = pc] => Moves(r, Stage(r, pc, p))
PROOF
  <1>1. run[r] \in RunRecord /\ run \in [Runs -> RunRecord]
    BY DEF Inv, Shape
  <1>2. Stage(r, pc, p) \in RunRecord
    BY StageFields
  <1>3. run' = [run EXCEPT ![r].pc = pc, ![r].intent = p]
          => run' = [run EXCEPT ![r] = Stage(r, pc, p)]
    BY <1>1 DEF Stage
  <1>4. run' = [run EXCEPT ![r].intent = p, ![r].pc = pc]
          => run' = [run EXCEPT ![r] = Stage(r, pc, p)]
    BY <1>1 DEF Stage, RunRecord
  <1>5. run' = [run EXCEPT ![r].pc = pc] /\ p = run[r].intent
          => run' = [run EXCEPT ![r] = Stage(r, pc, p)]
    BY <1>1 DEF Stage, RunRecord
  <1> QED BY <1>2, <1>3, <1>4, <1>5 DEF Moves

LEMMA StageKeeps ==
  ASSUME Inv, NEW r \in Runs, NEW pc \in PCs, run' = [run EXCEPT ![r].pc = pc]
  PROVE  /\ Moves(r, Stage(r, pc, run[r].intent))
         /\ Stage(r, pc, run[r].intent).pc = pc
         /\ Stage(r, pc, run[r].intent).batch = run[r].batch
         /\ Stage(r, pc, run[r].intent).set = run[r].set
         /\ Stage(r, pc, run[r].intent).todo = run[r].todo
         /\ Stage(r, pc, run[r].intent).intent = run[r].intent
PROOF
  <1>1. PICK p \in Intents \cup {None} : p = run[r].intent
    BY RunTyped DEF RunRecord
  <1>2. Moves(r, Stage(r, pc, p))
    BY <1>1, StageTyped
  <1>3. /\ Stage(r, pc, p).pc = pc /\ Stage(r, pc, p).intent = p
        /\ Stage(r, pc, p).batch = run[r].batch /\ Stage(r, pc, p).set = run[r].set
        /\ Stage(r, pc, p).todo = run[r].todo
    BY StageFields
  <1> QED BY <1>1, <1>2, <1>3

LEMMA IdleFits ==
  ASSUME BillingAssumption
  PROVE  IdleRun \in RunRecord /\ IdleRun.pc = "idle" /\ Fits(IdleRun)
PROOF
  <1>1. IdleRun \in RunRecord
    BY DEF IdleRun, RunRecord, PCs, Modes
  <1>2. IdleRun.pc = "idle" /\ IdleRun.batch = None /\ IdleRun.todo = {}
    BY DEF IdleRun
  <1> QED BY <1>1, <1>2 DEF Fits, AtBatch, WithSet, ByStripe, Charging

-----------------------------------------------------------------------------
(* Each step of a request that writes no row and moves no money.           *)

LEMMA FetchViewKeeps ==
  ASSUME BillingAssumption, Inv, NEW r \in Runs, FetchView(r)
  PROVE  Inv'
PROOF
  <1> DEFINE x == [IdleRun EXCEPT !.pc = "lock", !.plan = Uncharged, !.mode = mode]
  <1>0. Uncharged \in SUBSET Groups /\ mode \in Modes
    BY DEF Uncharged, Inv, Shape
  <1>1. /\ x \in RunRecord /\ x.pc = "lock" /\ x.batch = None /\ x.todo = {}
    BY <1>0 DEF IdleRun, RunRecord, PCs, Modes
  <1>2. Moves(r, x)
    BY <1>1 DEF FetchView, Moves
  <1> HIDE DEF x
  <1>3. Fits(x)
    BY <1>1 DEF Fits, AtBatch, WithSet, ByStripe, Charging
  <1>4. KeepsLock(r, x) /\ KeepsBooks /\ UNCHANGED <<mode, card, group>>
    BY <1>1 DEF KeepsLock, FetchView, KeepsBooks, rowVars, stripeVars
  <1> QED BY <1>2, <1>3, <1>4, RunOnly DEF Inv, Shape

LEMMA AcquireKeeps ==
  ASSUME BillingAssumption, Inv, NEW r \in Runs, Acquire(r)
  PROVE  Inv'
PROOF
  <1>0. run[r] \in RunRecord /\ Fits(run[r])
    BY RunTyped
  <1>1. CASE lock = None
    <2> DEFINE x == Stage(r, "fetch", run[r].intent)
    <2>0. "fetch" \in PCs /\ run' = [run EXCEPT ![r].pc = "fetch"]
      BY <1>1 DEF Acquire, PCs
    <2>1. Moves(r, x) /\ x.pc = "fetch" /\ x.batch = run[r].batch /\ x.todo = run[r].todo
      BY <2>0, StageKeeps
    <2> HIDE DEF x
    <2>2. Fits(x)
      BY <1>0, <2>1 DEF Acquire, Fits, AtBatch, WithSet, ByStripe, Charging
    <2>3. /\ run' \in [Runs -> RunRecord] /\ run'[r] = x
          /\ \A q \in Runs \ {r} : run'[q] = run[q]
      BY <2>1, RunMoves DEF Inv
    <2>4. KeepsBooks /\ UNCHANGED <<mode, card, group>> /\ lock' = r
      BY <1>1 DEF Acquire, KeepsBooks, rowVars, stripeVars
    <2>5. Shape'
      BY <2>3, <2>4 DEF Inv, Shape, KeepsBooks
    <2>6. OneAtWork'
      BY <1>1, <2>3, <2>4 DEF Inv, OneAtWork, Working, BillingAssumption
    <2>7. BooksInv' /\ RunsInv'
      BY <2>2, <2>3, <2>4, BooksStay DEF Inv, RunsInv
    <2> QED BY <2>5, <2>6, <2>7 DEF Inv
  <1>2. CASE lock # None
    <2>1. Moves(r, IdleRun) /\ KeepsLock(r, IdleRun)
      BY <1>2, IdleFits DEF Acquire, Moves, KeepsLock
    <2> QED BY <2>1, IdleFits, RunOnly DEF Acquire, KeepsBooks, rowVars, stripeVars, Inv, Shape
  <1> QED BY <1>1, <1>2

LEMMA ReleaseKeeps ==
  ASSUME BillingAssumption, Inv, NEW r \in Runs, Release(r)
  PROVE  Inv'
PROOF
  <1>1. lock = r /\ lock' = None
    BY DEF Release, Inv, OneAtWork, Working
  <1>2. Moves(r, IdleRun)
    BY IdleFits DEF Release, Moves
  <1>3. /\ run' \in [Runs -> RunRecord] /\ run'[r] = IdleRun
        /\ \A q \in Runs \ {r} : run'[q] = run[q]
    BY <1>2, RunMoves DEF Inv
  <1>4. KeepsBooks /\ UNCHANGED <<mode, card, group>>
    BY DEF Release, KeepsBooks, rowVars, stripeVars
  <1>5. Shape'
    BY <1>1, <1>3, <1>4 DEF Inv, Shape, KeepsBooks
  <1>6. OneAtWork'
    BY <1>1, <1>3, IdleFits DEF Inv, OneAtWork, Working
  <1>7. BooksInv' /\ RunsInv'
    BY <1>3, <1>4, IdleFits, BooksStay DEF Inv, RunsInv
  <1> QED BY <1>5, <1>6, <1>7 DEF Inv

LEMMA CrashKeeps ==
  ASSUME BillingAssumption, Inv, NEW r \in Runs, Crash(r)
  PROVE  Inv'
PROOF
  <1>1. Moves(r, IdleRun) /\ KeepsLock(r, IdleRun) /\ Fits(IdleRun)
    BY IdleFits DEF Crash, Moves, KeepsLock
  <1> QED BY <1>1, RunOnly DEF Crash, KeepsBooks, rowVars, stripeVars, Inv, Shape

LEMMA FetchPendingKeeps ==
  ASSUME BillingAssumption, Inv, NEW r \in Runs, FetchPending(r)
  PROVE  Inv'
PROOF
  <1>0. run[r] \in RunRecord /\ Fits(run[r]) /\ run[r].pc = "fetch"
    BY RunTyped DEF FetchPending
  <1>1. KeepsBooks /\ UNCHANGED <<mode, card, group>> /\ lock' = lock /\ Working(r)
    BY <1>0 DEF FetchPending, KeepsBooks, rowVars, stripeVars, Working
  <1>2. CASE run' = [run EXCEPT ![r].pc = "loop",
                                ![r].todo = {b \in Batches : Pending(b) # {}}]
    <2> DEFINE x == [run[r] EXCEPT !.pc = "loop", !.todo = {b \in Batches : Pending(b) # {}}]
    <2>1. /\ x \in RunRecord /\ x.pc = "loop" /\ x.batch = run[r].batch
          /\ x.todo = {b \in Batches : Pending(b) # {}}
      BY <1>0 DEF RunRecord, PCs
    <2>2. Moves(r, x)
      BY <1>2, <2>1 DEF Moves, Inv, Shape
    <2> HIDE DEF x
    <2>3. \A b \in x.todo : route[b] # "none"
      BY <2>1 DEF Inv, BooksInv, RowsOwned, Pending, BillingAssumption
    <2>4. Fits(x)
      BY <1>0, <2>1, <2>3 DEF Fits, AtBatch, WithSet, ByStripe, Charging
    <2> QED BY <1>1, <2>2, <2>4, RunOnly DEF KeepsLock, Inv, Shape
  <1>3. CASE run' = [run EXCEPT ![r].pc = "loop"]
    <2> DEFINE x == Stage(r, "loop", run[r].intent)
    <2>0. "loop" \in PCs
      BY DEF PCs
    <2>1. Moves(r, x) /\ x.pc = "loop" /\ x.batch = run[r].batch /\ x.todo = run[r].todo
      BY <1>3, <2>0, StageKeeps
    <2> HIDE DEF x
    <2>2. Fits(x)
      BY <1>0, <2>1 DEF Fits, AtBatch, WithSet, ByStripe, Charging
    <2> QED BY <1>1, <2>1, <2>2, RunOnly DEF KeepsLock, Inv, Shape
  <1> QED BY <1>2, <1>3 DEF FetchPending

LEMMA RecoverKeeps ==
  ASSUME BillingAssumption, Inv, NEW r \in Runs, NEW b \in Batches, Recover(r, b)
  PROVE  Inv'
PROOF
  <1>0. run[r] \in RunRecord /\ Fits(run[r]) /\ run[r].pc = "loop" /\ b \in run[r].todo
    BY RunTyped DEF Recover
  <1>1. KeepsBooks /\ UNCHANGED <<mode, card, group>> /\ lock' = lock /\ Working(r)
    BY <1>0 DEF Recover, KeepsBooks, rowVars, stripeVars, Working
  <1> DEFINE y == [run[r] EXCEPT !.todo = @ \ {b}]
  <1>2. /\ y \in RunRecord /\ y.pc = "loop" /\ y.batch = run[r].batch
        /\ y.todo = run[r].todo \ {b}
    BY <1>0 DEF RunRecord
  <1>3. StartOn(r, b, Route(b), y)
    BY DEF Recover
  <1> HIDE DEF y
  <1>4. CASE run' = [run EXCEPT ![r] = y]
    <2>1. Fits(y)
      BY <1>0, <1>2 DEF Fits, AtBatch, WithSet, ByStripe, Charging
    <2> QED BY <1>1, <1>2, <1>4, <2>1, RunOnly DEF KeepsLock, Moves, Inv, Shape
  <1>5. CASE \E c \in Cards \cup {None} :
               run' = [run EXCEPT ![r] = [y EXCEPT !.pc = "select", !.batch = b, !.card = c]]
    <2>1. PICK c \in Cards \cup {None} :
            run' = [run EXCEPT ![r] = [y EXCEPT !.pc = "select", !.batch = b, !.card = c]]
      BY <1>5
    <2> DEFINE x == [y EXCEPT !.pc = "select", !.batch = b, !.card = c]
    <2>2. x \in RunRecord /\ x.pc = "select" /\ x.batch = b /\ x.todo = y.todo
      BY <1>2 DEF RunRecord, PCs
    <2>3. Moves(r, x)
      BY <2>1, <2>2 DEF Moves
    <2> HIDE DEF x
    <2>4. Fits(x)
      BY <1>0, <1>2, <2>2 DEF Fits, AtBatch, WithSet, ByStripe, Charging, BillingAssumption
    <2> QED BY <1>1, <2>3, <2>4, RunOnly DEF KeepsLock, Inv, Shape
  <1> QED BY <1>3, <1>4, <1>5 DEF StartOn, Inv, Shape

LEMMA SkipPlanKeeps ==
  ASSUME BillingAssumption, Inv, NEW r \in Runs, SkipPlan(r)
  PROVE  Inv'
PROOF
  <1>0. run[r] \in RunRecord /\ Fits(run[r]) /\ run[r].pc = "loop"
    BY RunTyped DEF SkipPlan
  <1>1. KeepsBooks /\ UNCHANGED <<mode, card, group>> /\ lock' = lock /\ Working(r)
    BY <1>0 DEF SkipPlan, KeepsBooks, rowVars, stripeVars, Working
  <1> DEFINE x == [run[r] EXCEPT !.plan = {}]
  <1>2. x \in RunRecord /\ x.pc = "loop" /\ x.batch = run[r].batch /\ x.todo = run[r].todo
    BY <1>0 DEF RunRecord
  <1>3. Moves(r, x)
    BY <1>2 DEF SkipPlan, Moves, Inv, Shape
  <1> HIDE DEF x
  <1>4. Fits(x)
    BY <1>0, <1>2 DEF Fits, AtBatch, WithSet, ByStripe, Charging
  <1> QED BY <1>1, <1>3, <1>4, RunOnly DEF KeepsLock, Inv, Shape

LEMMA ResolveFailsKeeps ==
  ASSUME BillingAssumption, Inv, NEW r \in Runs, ResolveFails(r)
  PROVE  Inv'
PROOF
  <1>0. run[r] \in RunRecord /\ Fits(run[r]) /\ run[r].pc = "loop"
    BY RunTyped DEF ResolveFails
  <1>1. KeepsBooks /\ UNCHANGED <<mode, card, group>> /\ lock' = lock /\ Working(r)
    BY <1>0 DEF ResolveFails, KeepsBooks, rowVars, stripeVars, Working
  <1>2. CASE \E b \in run[r].todo : run' = [run EXCEPT ![r].todo = @ \ {b}]
    <2>1. PICK b \in run[r].todo : run' = [run EXCEPT ![r].todo = @ \ {b}]
      BY <1>2
    <2> DEFINE x == [run[r] EXCEPT !.todo = @ \ {b}]
    <2>2. /\ x \in RunRecord /\ x.pc = "loop" /\ x.batch = run[r].batch
          /\ x.todo = run[r].todo \ {b}
      BY <1>0 DEF RunRecord
    <2>3. Moves(r, x)
      BY <2>1, <2>2 DEF Moves, Inv, Shape
    <2> HIDE DEF x
    <2>4. Fits(x)
      BY <1>0, <2>2 DEF Fits, AtBatch, WithSet, ByStripe, Charging
    <2> QED BY <1>1, <2>3, <2>4, RunOnly DEF KeepsLock, Inv, Shape
  <1>3. CASE run' = [run EXCEPT ![r].plan = {}]
    <2> DEFINE x == [run[r] EXCEPT !.plan = {}]
    <2>2. x \in RunRecord /\ x.pc = "loop" /\ x.batch = run[r].batch /\ x.todo = run[r].todo
      BY <1>0 DEF RunRecord
    <2>3. Moves(r, x)
      BY <1>3, <2>2 DEF Moves, Inv, Shape
    <2> HIDE DEF x
    <2>4. Fits(x)
      BY <1>0, <2>2 DEF Fits, AtBatch, WithSet, ByStripe, Charging
    <2> QED BY <1>1, <2>3, <2>4, RunOnly DEF KeepsLock, Inv, Shape
  <1> QED BY <1>2, <1>3 DEF ResolveFails

LEMMA BackKeeps ==
  ASSUME Inv, NEW r \in Runs, Working(r), run' = Back(r), lock' = lock,
         KeepsBooks, UNCHANGED <<mode, card, group>>
  PROVE  Inv'
PROOF
  <1>1. Moves(r, BackTo(r)) /\ Fits(BackTo(r)) /\ BackTo(r).pc = "loop"
    BY GoesBack
  <1> QED BY <1>1, RunOnly DEF KeepsLock, Inv, Shape

LEMMA SelectKeeps ==
  ASSUME BillingAssumption, Inv, NEW r \in Runs, Select(r)
  PROVE  Inv'
PROOF
  <1> DEFINE b == run[r].batch
             S == Pending(b)
             pc == IF route[b] = "prepay" THEN "draw"
                   ELSE IF Cents(S) < MinCents THEN "release" ELSE "search"
  <1>0. run[r] \in RunRecord /\ Fits(run[r]) /\ run[r].pc = "select" /\ b \in Batches
    BY RunTyped DEF Select, Fits, AtBatch, RunRecord
  <1>1. KeepsBooks /\ UNCHANGED <<mode, card, group>> /\ lock' = lock /\ Working(r)
    BY <1>0 DEF Select, KeepsBooks, rowVars, stripeVars, Working
  <1>2. CASE run' = Back(r)
    BY <1>1, <1>2, BackKeeps
  <1>3. CASE S # {} /\ run' = [run EXCEPT ![r].set = S, ![r].pc = pc]
    <2>1. route[b] \in Modes
      BY <1>0, <1>3 DEF Inv, Shape, BooksInv, RowsOwned, Pending, BillingAssumption
    <2>2. pc \in {"draw", "release", "search"} /\ pc \in PCs /\ pc \in WithSet
      BY DEF PCs, WithSet
    <2>3. /\ pc = "draw" => route[b] = "prepay"
          /\ pc \in {"release", "search"} => route[b] # "prepay"
      OBVIOUS
    <2>5. /\ pc = "release" => Cents(S) < MinCents
          /\ pc = "search" => ~(Cents(S) < MinCents)
      OBVIOUS
    <2> HIDE DEF pc, S
    <2> DEFINE x == [run[r] EXCEPT !.set = S, !.pc = pc]
    <2>6. /\ x \in RunRecord /\ x.pc = pc /\ x.batch = b /\ x.set = S
          /\ x.todo = run[r].todo
      BY <1>0, <2>2 DEF RunRecord, S, Pending
    <2>7. Moves(r, x)
      BY <1>0, <1>3, <2>6 DEF Moves, Inv, Shape
    <2> HIDE DEF x
    <2>8. Fits(x)
      BY <1>0, <1>3, <2>1, <2>2, <2>3, <2>5, <2>6
      DEF Fits, AtBatch, WithSet, ByStripe, Charging, BillingAssumption, Modes, S
    <2> QED BY <1>1, <2>2, <2>6, <2>7, <2>8, RunOnly DEF KeepsLock, Inv, Shape
  <1> QED BY <1>2, <1>3 DEF Select

\* A request that stays in charge of its batch moves to another stage.
LEMMA StageStep ==
  ASSUME Inv, NEW r \in Runs, Working(r), lock' = lock,
         NEW pc \in AtBatch, NEW p \in Intents \cup {None},
         \/ run' = [run EXCEPT ![r].pc = pc] /\ p = run[r].intent
         \/ run' = [run EXCEPT ![r].pc = pc, ![r].intent = p]
         \/ run' = [run EXCEPT ![r].intent = p, ![r].pc = pc],
         Fits(Stage(r, pc, p)),
         KeepsBooks, UNCHANGED <<mode, card, group>>
  PROVE  Inv'
PROOF
  <1>1. pc \in PCs
    BY DEF AtBatch, PCs
  <1>2. Moves(r, Stage(r, pc, p))
    BY <1>1, StageTyped
  <1> QED BY <1>2, RunOnly DEF KeepsLock, Inv, Shape

LEMMA SearchKeeps ==
  ASSUME BillingAssumption, Inv, NEW r \in Runs, Search(r)
  PROVE  Inv'
PROOF
  <1> DEFINE b == run[r].batch
  <1>0. run[r] \in RunRecord /\ Fits(run[r]) /\ run[r].pc = "search" /\ b \in Batches
    BY RunTyped DEF Search, Fits, AtBatch, RunRecord
  <1>1. KeepsBooks /\ UNCHANGED <<mode, card, group>> /\ lock' = lock /\ Working(r)
    BY <1>0 DEF Search, KeepsBooks, rowVars, stripeVars, Working
  <1>2. /\ run[r].set = Pending(b) /\ run[r].set # {} /\ route[b] = "postpay"
        /\ ~(Cents(run[r].set) < MinCents)
        /\ \A c \in run[r].todo : route[c] # "none"
    BY <1>0 DEF Fits, WithSet, ByStripe, Charging
  <1>3. CASE /\ Charged(b) = {} \/ key[b] # None \/ b \in missed'
             /\ run' = [run EXCEPT ![r].pc = "create"]
    <2> DEFINE p == run[r].intent
               x == Stage(r, "create", p)
    <2>1. "create" \in PCs /\ "create" \in AtBatch /\ p \in Intents \cup {None}
      BY <1>0 DEF PCs, AtBatch, RunRecord
    <2>2. /\ x.pc = "create" /\ x.batch = b /\ x.set = run[r].set /\ x.todo = run[r].todo
      BY <2>1, StageFields
    <2> HIDE DEF x
    <2>3. Moves(r, x)
      BY <1>3, <2>1, StageTyped DEF x
    <2>4. /\ run' \in [Runs -> RunRecord] /\ run'[r] = x
          /\ \A q \in Runs \ {r} : run'[q] = run[q]
      BY <2>3, RunMoves DEF Inv
    <2>5. b \in missed' \/ \A q \in Charged(b) : key[b] = q
      BY <1>0, <1>1, <1>3 DEF KeepsBooks, Inv, BooksInv, OneCharge
    <2>6. Fits(run[r])'
      <3>1. /\ run'[r].pc = "create" /\ run'[r].batch = b /\ run'[r].set = run[r].set
            /\ run'[r].todo = run[r].todo
        BY <2>2, <2>4
      <3>2. /\ {g \in Groups : batch'[g] = b /\ row'[g] = "pending"} = run[r].set
            /\ {q \in Intents : intent'[q].batch = b /\ intent'[q].status = "succeeded"}
                 = Charged(b)
            /\ UNCHANGED <<route, key>> /\ b # None
        BY <1>0, <1>1, <1>2 DEF KeepsBooks, Pending, Charged, BillingAssumption
      <3> HIDE DEF b
      <3> QED BY <1>2, <2>5, <3>1, <3>2
              DEF Fits, AtBatch, WithSet, ByStripe, Charging, Pending, Charged
    <2>7. BooksInv' /\ \A q \in Runs : Fits(run[q]) => Fits(run[q])' \/ q = r
      BY <1>1, <2>4, BooksStay DEF Inv
    <2>8. Shape' /\ OneAtWork'
      BY <1>1, <2>2, <2>4 DEF KeepsBooks, Inv, Shape, OneAtWork, Working
    <2> QED BY <2>6, <2>7, <2>8 DEF Inv, RunsInv
  <1>4. CASE \E p \in Charged(b) : run' = [run EXCEPT ![r].pc = "mark", ![r].intent = p]
    <2>0. PICK p \in Charged(b) : run' = [run EXCEPT ![r].pc = "mark", ![r].intent = p]
      BY <1>4
    <2> DEFINE x == Stage(r, "mark", p)
    <2>1. "mark" \in PCs /\ "mark" \in AtBatch /\ p \in Intents \cup {None}
      BY DEF PCs, AtBatch, Charged
    <2>2. /\ x.pc = "mark" /\ x.batch = b /\ x.set = run[r].set /\ x.todo = run[r].todo
          /\ x.intent = p
      BY <2>1, StageFields
    <2> HIDE DEF x
    <2>3. Fits(x)
      BY <1>0, <1>2, <2>0, <2>2
      DEF Fits, AtBatch, WithSet, ByStripe, Charging, BillingAssumption
    <2>6. Fits(Stage(r, "mark", p))
      BY <2>3 DEF x
    <2> QED BY <1>1, <2>0, <2>1, <2>6, StageStep
  <1> QED BY <1>3, <1>4 DEF Search

LEMMA CreateAgainKeeps ==
  ASSUME BillingAssumption, Inv, NEW r \in Runs, CreateAgain(r)
  PROVE  Inv'
PROOF
  <1> DEFINE b == run[r].batch
             p == key[b]
             pc == IF intent[p].status = "succeeded" THEN "mark" ELSE "fail"
             x == Stage(r, pc, p)
  <1>0. run[r] \in RunRecord /\ Fits(run[r]) /\ run[r].pc = "create" /\ b \in Batches
    BY RunTyped DEF CreateAgain, Fits, AtBatch, RunRecord
  <1>1. KeepsBooks /\ UNCHANGED <<mode, card, group>> /\ lock' = lock /\ Working(r)
    BY <1>0 DEF CreateAgain, KeepsBooks, rowVars, stripeVars, Working
  <1>2. /\ run[r].set = Pending(b) /\ run[r].set # {} /\ route[b] = "postpay"
        /\ ~(Cents(run[r].set) < MinCents)
        /\ b \in missed \/ \A q \in Charged(b) : p = q
        /\ \A c \in run[r].todo : route[c] # "none"
    BY <1>0 DEF Fits, WithSet, ByStripe, Charging
  <1>3. p \in Intents /\ intent[p].batch = b
    BY <1>0 DEF CreateAgain, Inv, Shape, BooksInv, KeysOwned
  <1>4. CASE run' = Back(r)
    BY <1>1, <1>4, BackKeeps
  <1>5. CASE run' = [run EXCEPT ![r].intent = p, ![r].pc = pc]
    <2>1. pc \in PCs /\ pc \in AtBatch
      BY DEF PCs, AtBatch
    <2>2. pc \in {"mark", "fail"} /\ (pc = "mark" => p \in Charged(b))
      BY <1>3 DEF Charged
    <2>3. pc = "fail" => b \in missed \/ Charged(b) = {}
      BY <1>2, <1>3 DEF Charged
    <2> HIDE DEF pc
    <2>4. /\ x.pc = pc /\ x.batch = b /\ x.set = run[r].set /\ x.todo = run[r].todo
          /\ x.intent = p
      BY <1>3, <2>1, StageFields
    <2> HIDE DEF x
    <2>5. Fits(x)
      BY <1>0, <1>2, <2>2, <2>3, <2>4
      DEF Fits, AtBatch, WithSet, ByStripe, Charging, BillingAssumption
    <2>6. Fits(Stage(r, pc, p))
      BY <2>5 DEF x
    <2> QED BY <1>1, <1>3, <1>5, <2>1, <2>6, StageStep
  <1> QED BY <1>4, <1>5 DEF CreateAgain, Answered

LEMMA PauseKeeps ==
  ASSUME BillingAssumption, Inv, NEW r \in Runs, Pause(r)
  PROVE  Inv'
PROOF
  BY BackKeeps DEF Pause, KeepsBooks, rowVars, stripeVars, Working

LEMMA WriteFailsKeeps ==
  ASSUME BillingAssumption, Inv, NEW r \in Runs, WriteFails(r)
  PROVE  Inv'
PROOF
  <1>1. KeepsBooks /\ UNCHANGED <<mode, card, group>> /\ lock' = lock /\ Working(r)
    BY DEF WriteFails, KeepsBooks, rowVars, stripeVars, Working
  <1>2. CASE run' = Back(r)
    BY <1>1, <1>2, BackKeeps
  <1>3. CASE run[r].pc = "fail" /\ run' = [run EXCEPT ![r].pc = "pause"]
    <2>0. run[r] \in RunRecord /\ Fits(run[r])
      BY RunTyped
    <2> DEFINE p == run[r].intent
               x == Stage(r, "pause", p)
    <2>1. "pause" \in PCs /\ "pause" \in AtBatch /\ p \in Intents \cup {None}
      BY <2>0 DEF PCs, AtBatch, RunRecord
    <2>2. /\ x.pc = "pause" /\ x.batch = run[r].batch /\ x.todo = run[r].todo
      BY <2>1, StageFields
    <2> HIDE DEF x
    <2>3. Fits(x)
      BY <1>3, <2>0, <2>2 DEF Fits, AtBatch, WithSet, ByStripe, Charging
    <2>6. Fits(Stage(r, "pause", p))
      BY <2>3 DEF x
    <2> QED BY <1>1, <1>3, <2>1, <2>6, StageStep
  <1> QED BY <1>2, <1>3 DEF WriteFails

-----------------------------------------------------------------------------
(* Steps that write the books: the owner of the lock takes them alone.     *)

LEMMA OwnerMoves ==
  ASSUME Inv, NEW r \in Runs, Working(r), lock' = lock,
         \A q \in Runs \ {r} : run'[q] = run[q],
         \A b \in Batches : route[b] # "none" => route'[b] # "none",
         Fits(run[r])'
  PROVE  RunsInv' /\ OneAtWork'
PROOF
  <1>1. OneAtWork'
    BY DEF Inv, OneAtWork, Working
  <1>2. ASSUME NEW q \in Runs \ {r} PROVE Fits(run[q])'
    <2>1. run'[q] = run[q] /\ run[q].pc \in {"idle", "lock"} /\ Fits(run[q])
          /\ run[q] \in RunRecord
      BY RunTyped DEF Inv, OneAtWork, Working
    <2>2. \A b \in run'[q].todo : route'[b] # "none"
      BY <2>1 DEF Fits, RunRecord
    <2> QED BY <2>1, <2>2 DEF Fits, AtBatch, WithSet, ByStripe, Charging
  <1> QED BY <1>1, <1>2 DEF RunsInv

LEMMA OwnerBacks ==
  ASSUME Inv, NEW r \in Runs, Working(r), lock' = lock, run' = Back(r), route' = route
  PROVE  run' \in [Runs -> RunRecord] /\ RunsInv' /\ OneAtWork'
PROOF
  <1>1. Moves(r, BackTo(r)) /\ BackTo(r).pc = "loop" /\ Fits(BackTo(r))
    BY GoesBack
  <1>2. /\ run' \in [Runs -> RunRecord] /\ run'[r] = BackTo(r)
        /\ \A q \in Runs \ {r} : run'[q] = run[q]
    BY <1>1, RunMoves DEF Inv
  <1> HIDE DEF BackTo
  <1>3. Fits(run[r])'
    BY <1>1, <1>2 DEF Fits, AtBatch, WithSet, ByStripe, Charging
  <1> QED BY <1>2, <1>3, OwnerMoves

\* Rows that are settled stay with the batch they were collected for.
LEMMA SettledKeeps ==
  ASSUME BillingAssumption, Inv, NEW r \in Runs, run[r].pc \in WithSet,
         Promote(r, "succeeded"),
         UNCHANGED <<group, batch, route, mode, lock, intent, card, key, missed, drawn>>,
         run' = Back(r)
  PROVE  Inv'
PROOF
  <1> DEFINE b == run[r].batch
  <1>0. run[r] \in RunRecord /\ b \in Batches /\ run[r].set = Pending(b) /\ Working(r)
    BY RunTyped DEF Fits, AtBatch, WithSet, RunRecord, Working
  <1>1. /\ row' = [g \in Groups |-> IF g \in Pending(b) THEN "succeeded" ELSE row[g]]
        /\ row' \in [Groups -> {"none", "pending", "succeeded", "failed"}]
    BY <1>0 DEF Promote, Pending, Inv, Shape
  <1>2. run' \in [Runs -> RunRecord] /\ RunsInv' /\ OneAtWork'
    BY <1>0, OwnerBacks
  <1>3. Shape'
    BY <1>1, <1>2 DEF Inv, Shape
  <1>4. ASSUME NEW c \in Batches, NEW S \in SUBSET Groups, Covers(c, S)
        PROVE  Covers(c, S)'
    <2> DEFINE P == {g \in Groups : batch'[g] = c /\ row'[g] = "pending"}
    <2>1. /\ \A g \in S : batch'[g] = c /\ Stands(c, row'[g])
          /\ \A g, h \in S : row'[g] = row'[h]
      BY <1>1, <1>4 DEF Covers, Stands, Pending
    <2>2. P = {} \/ P = Pending(c)
      <3>1. CASE c = b
        BY <1>1, <3>1 DEF Pending
      <3>2. CASE c # b
        BY <1>1, <3>2 DEF Pending
      <3> QED BY <3>1, <3>2
    <2>3. P = {} \/ P = S
      BY <1>4, <2>2 DEF Covers
    <2> QED BY <2>1, <2>3 DEF Covers, Stands, Pending
  <1>5. RowsOwned'
    BY <1>1 DEF Inv, BooksInv, RowsOwned, Pending
  <1>6. IntentsOwned' /\ KeysOwned' /\ OneCharge'
    BY DEF Inv, BooksInv, IntentsOwned, KeysOwned, OneCharge, Unused, Charged
  <1>7. ChargesCover'
    <2>1. \A c \in Batches : \A p \in Charged(c) : intent[p].groups \in SUBSET Groups
      BY DEF Inv, Shape, IntentRecord, Charged
    <2> QED BY <1>4, <2>1 DEF Inv, BooksInv, ChargesCover, Charged
  <1>8. DrawsCover'
    BY <1>4 DEF Inv, Shape, BooksInv, DrawsCover
  <1> QED BY <1>2, <1>3, <1>5, <1>6, <1>7, <1>8 DEF Inv, BooksInv

LEMMA MarkChargedKeeps ==
  ASSUME BillingAssumption, Inv, NEW r \in Runs, MarkCharged(r)
  PROVE  Inv'
PROOF
  BY SettledKeeps DEF MarkCharged, WithSet, stripeVars

LEMMA MarkBalanceKeeps ==
  ASSUME BillingAssumption, Inv, NEW r \in Runs, MarkBalance(r)
  PROVE  Inv'
PROOF
  BY SettledKeeps DEF MarkBalance, WithSet, stripeVars

\* What a batch has reserved is not touched.
Untouched(c) ==
  \A g \in Groups : /\ batch[g] = c => batch'[g] = c /\ row'[g] = row[g]
                    /\ batch'[g] = c => batch[g] = c

\* The rows of a batch that collected nothing may go anywhere.
LEMMA OtherBatches ==
  ASSUME Inv, NEW b \in Batches, Charged(b) = {}, drawn[b] = {},
         \A c \in Batches \ {b} : Untouched(c),
         \A c \in Batches \ {b} : route'[c] = route[c],
         UNCHANGED <<intent, missed, drawn>>
  PROVE  ChargesCover' /\ DrawsCover'
PROOF
  <1>1. ASSUME NEW c \in Batches \ {b}, NEW S \in SUBSET Groups, Covers(c, S)
        PROVE  Covers(c, S)'
    <2> DEFINE P == {g \in Groups : batch'[g] = c /\ row'[g] = "pending"}
    <2>1. \A g \in Groups : /\ batch[g] = c => batch'[g] = c /\ row'[g] = row[g]
                            /\ batch'[g] = c => batch[g] = c
      BY DEF Untouched
    <2>2. P = Pending(c)
      BY <2>1 DEF Pending
    <2>3. /\ \A g \in S : batch'[g] = c /\ Stands(c, row'[g])
          /\ \A g, h \in S : row'[g] = row'[h]
      BY <1>1, <2>1 DEF Covers
    <2> QED BY <1>1, <2>2, <2>3 DEF Covers, Stands, Pending
  <1>2. \A c \in Batches : \A p \in Charged(c) : intent[p].groups \in SUBSET Groups
    BY DEF Inv, Shape, IntentRecord, Charged
  <1>3. ChargesCover'
    BY <1>1, <1>2 DEF Inv, BooksInv, ChargesCover, Charged
  <1>4. DrawsCover'
    BY <1>1 DEF Inv, Shape, BooksInv, DrawsCover
  <1> QED BY <1>3, <1>4

LEMMA ReleaseBatchKeeps ==
  ASSUME BillingAssumption, Inv, NEW r \in Runs, ReleaseBatch(r)
  PROVE  Inv'
PROOF
  <1> DEFINE b == run[r].batch
  <1>0. /\ run[r] \in RunRecord /\ b \in Batches /\ Working(r)
        /\ run[r].set = Pending(b) /\ Pending(b) # {} /\ route[b] = "postpay"
        /\ Cents(Pending(b)) < MinCents
    BY RunTyped
    DEF ReleaseBatch, Fits, AtBatch, WithSet, ByStripe, RunRecord, Working
  <1>1. /\ row' = [g \in Groups |-> IF g \in Pending(b) THEN "none" ELSE row[g]]
        /\ batch' = [g \in Groups |-> IF g \in Pending(b) THEN None ELSE batch[g]]
    BY <1>0 DEF ReleaseBatch, Pending
  <1>2. Charged(b) = {}
    BY <1>0 DEF Inv, BooksInv, ChargesCover, Covers
  <1>3. drawn[b] = {}
    BY <1>0 DEF Inv, BooksInv, DrawsCover
  <1>4. UNCHANGED <<group, route, mode, lock, intent, card, key, missed, drawn>>
    BY DEF ReleaseBatch, stripeVars
  <1>5. run' \in [Runs -> RunRecord] /\ RunsInv' /\ OneAtWork'
    BY <1>0, <1>4, OwnerBacks DEF ReleaseBatch
  <1>6. Shape'
    BY <1>1, <1>4, <1>5 DEF Inv, Shape
  <1>7. \A c \in Batches \ {b} : Untouched(c)
    BY <1>1 DEF Untouched, Pending, BillingAssumption
  <1>8. ChargesCover' /\ DrawsCover'
    BY <1>0, <1>2, <1>3, <1>4, <1>7, OtherBatches
  <1>9. RowsOwned'
    BY <1>1, <1>4 DEF Inv, BooksInv, RowsOwned
  <1>10. IntentsOwned' /\ KeysOwned' /\ OneCharge'
    BY <1>4 DEF Inv, BooksInv, IntentsOwned, KeysOwned, OneCharge, Unused, Charged
  <1> QED BY <1>5, <1>6, <1>8, <1>9, <1>10 DEF Inv, BooksInv

LEMMA MarkFailedKeeps ==
  ASSUME BillingAssumption, Inv, NEW r \in Runs, MarkFailed(r)
  PROVE  Inv'
PROOF
  <1> DEFINE b == run[r].batch
  <1>0. /\ run[r] \in RunRecord /\ Fits(run[r]) /\ b \in Batches /\ Working(r)
        /\ run[r].set = Pending(b) /\ route[b] = "postpay"
        /\ b \in missed \/ Charged(b) = {}
    BY RunTyped
    DEF MarkFailed, Fits, AtBatch, WithSet, ByStripe, RunRecord, Working
  <1>1. row' = [g \in Groups |-> IF g \in Pending(b) THEN "failed" ELSE row[g]]
    BY <1>0 DEF MarkFailed, Promote, Pending
  <1>2. drawn[b] = {}
    BY <1>0 DEF Inv, BooksInv, DrawsCover
  <1>3. UNCHANGED <<group, batch, route, mode, lock, intent, card, key, missed, drawn>>
    BY DEF MarkFailed, stripeVars
  <1>4. "pause" \in PCs /\ run' = [run EXCEPT ![r].pc = "pause"]
    BY DEF MarkFailed, PCs
  <1> DEFINE x == Stage(r, "pause", run[r].intent)
  <1>5. Moves(r, x) /\ x.pc = "pause" /\ x.batch = b /\ x.todo = run[r].todo
    BY <1>4, StageKeeps
  <1>6. run' \in [Runs -> RunRecord] /\ run'[r] = x
        /\ \A q \in Runs \ {r} : run'[q] = run[q]
    BY <1>5, RunMoves DEF Inv
  <1> HIDE DEF x
  <1>7. Fits(run[r])'
    BY <1>0, <1>3, <1>5, <1>6 DEF Fits, AtBatch, WithSet, ByStripe, Charging, BillingAssumption
  <1>8. RunsInv' /\ OneAtWork'
    BY <1>0, <1>3, <1>6, <1>7, OwnerMoves
  <1>9. Shape'
    BY <1>1, <1>3, <1>6 DEF Inv, Shape
  <1>10. ASSUME NEW c \in Batches, c # b \/ b \in missed, NEW S \in SUBSET Groups, Covers(c, S)
         PROVE  Covers(c, S)'
    <2>1. /\ \A g \in S : batch'[g] = c /\ Stands(c, row'[g])
          /\ \A g, h \in S : row'[g] = row'[h]
      BY <1>1, <1>3, <1>10 DEF Covers, Stands, Pending
    <2>2. {g \in Groups : batch'[g] = c /\ row'[g] = "pending"}
            = IF c = b THEN {} ELSE Pending(c)
      BY <1>1, <1>3 DEF Pending
    <2> QED BY <1>3, <1>10, <2>1, <2>2 DEF Covers, Stands, Pending
  <1>11. ChargesCover' /\ DrawsCover'
    <2>1. \A c \in Batches : \A p \in Charged(c) :
            intent[p].groups \in SUBSET Groups /\ (c # b \/ b \in missed)
      BY <1>0 DEF Inv, Shape, IntentRecord, Charged
    <2>2. ChargesCover'
      BY <1>3, <1>10, <2>1 DEF Inv, BooksInv, ChargesCover, Charged
    <2>3. DrawsCover'
      BY <1>2, <1>3, <1>10 DEF Inv, Shape, BooksInv, DrawsCover
    <2> QED BY <2>2, <2>3
  <1>12. RowsOwned'
    BY <1>1, <1>3 DEF Inv, BooksInv, RowsOwned, Pending
  <1>13. IntentsOwned' /\ KeysOwned' /\ OneCharge'
    BY <1>3 DEF Inv, BooksInv, IntentsOwned, KeysOwned, OneCharge, Unused, Charged
  <1> QED BY <1>6, <1>8, <1>9, <1>11, <1>12, <1>13 DEF Inv, BooksInv

LEMMA ReservePlanKeeps ==
  ASSUME BillingAssumption, Inv, NEW r \in Runs, NEW b \in Batches, ReservePlan(r, b)
  PROVE  Inv'
PROOF
  <1>0. run[r] \in RunRecord /\ Fits(run[r]) /\ run[r].pc = "loop" /\ route[b] = "none"
    BY RunTyped DEF ReservePlan, Fresh
  <1>1. UNCHANGED <<group, mode, card, intent, key, missed, drawn>> /\ lock' = lock /\ Working(r)
    BY <1>0 DEF ReservePlan, stripeVars, Working
  <1> DEFINE y == [run[r] EXCEPT !.plan = {}]
  <1>2. y \in RunRecord /\ y.pc = "loop" /\ y.batch = run[r].batch /\ y.todo = run[r].todo
    BY <1>0 DEF RunRecord
  <1>3. StartOn(r, b, run[r].mode, y)
    BY DEF ReservePlan
  <1> HIDE DEF y
  <1>4. CASE run[r].mode = "postpay" /\ card = None
    <2>1. run' = [run EXCEPT ![r] = y] /\ KeepsBooks
      BY <1>1, <1>3, <1>4 DEF StartOn, ReservePlan, KeepsBooks, rowVars
    <2>2. Fits(y)
      BY <1>0, <1>2 DEF Fits, AtBatch, WithSet, ByStripe, Charging
    <2> QED BY <1>1, <1>2, <2>1, <2>2, RunOnly DEF KeepsLock, Moves, Inv, Shape
  <1>5. CASE ~(run[r].mode = "postpay" /\ card = None)
    <2> DEFINE c == IF run[r].mode = "postpay" THEN card ELSE None
               x == [y EXCEPT !.pc = "select", !.batch = b, !.card = c]
               R == Reservable(r)
    <2>1. c \in Cards \cup {None} /\ run' = [run EXCEPT ![r] = x]
      BY <1>3, <1>5 DEF StartOn, Inv, Shape
    <2> HIDE DEF c
    <2>2. x \in RunRecord /\ x.pc = "select" /\ x.batch = b /\ x.todo = run[r].todo
      BY <1>2, <2>1 DEF RunRecord, PCs
    <2> HIDE DEF x
    <2>3. /\ run' \in [Runs -> RunRecord] /\ run'[r] = x
          /\ \A q \in Runs \ {r} : run'[q] = run[q]
      BY <2>1, <2>2, RunMoves DEF Moves, Inv
    <2>4. /\ row' = [g \in Groups |-> IF g \in R THEN "pending" ELSE row[g]]
          /\ batch' = [g \in Groups |-> IF g \in R THEN b ELSE batch[g]]
          /\ route' = [route EXCEPT ![b] = run[r].mode] /\ run[r].mode \in Modes
      BY <1>0, <1>5 DEF ReservePlan, FrozenRoute, RunRecord
    <2>5. /\ \A g \in R : g \in Groups /\ row[g] = "none" /\ batch[g] = None
          /\ \A g \in Groups : batch[g] # b
      BY <1>0 DEF Reservable, RunRecord, Inv, BooksInv, RowsOwned, BillingAssumption
    <2> HIDE DEF R
    <2>6. Shape'
      BY <1>1, <2>3, <2>4 DEF Inv, Shape
    <2>7. \A d \in Batches : route[d] # "none" => route'[d] # "none" /\ route'[d] = route[d]
      BY <1>0, <2>4 DEF Inv, Shape
    <2>8. Fits(run[r])'
      BY <1>0, <1>2, <2>2, <2>3, <2>7
      DEF Fits, AtBatch, WithSet, ByStripe, Charging, BillingAssumption, RunRecord
    <2>9. RunsInv' /\ OneAtWork'
      BY <1>1, <2>3, <2>7, <2>8, OwnerMoves
    <2>10. Charged(b) = {} /\ drawn[b] = {}
      BY <1>0 DEF Charged, Unused, Inv, BooksInv, IntentsOwned, DrawsCover
    <2>11. \A d \in Batches \ {b} : Untouched(d)
      BY <2>4, <2>5 DEF Untouched, BillingAssumption
    <2>12. ChargesCover' /\ DrawsCover'
      BY <1>1, <2>4, <2>10, <2>11, OtherBatches DEF Inv, Shape
    <2>13. RowsOwned'
      BY <2>4, <2>5, <2>7 DEF Inv, Shape, BooksInv, RowsOwned, BillingAssumption, Modes
    <2>14. IntentsOwned'
      BY <1>1, <2>7 DEF Inv, BooksInv, IntentsOwned, Unused
    <2>15. KeysOwned' /\ OneCharge'
      BY <1>1 DEF Inv, BooksInv, KeysOwned, OneCharge, Unused, Charged
    <2> QED BY <2>3, <2>6, <2>9, <2>12, <2>13, <2>14, <2>15 DEF Inv, BooksInv
  <1> QED BY <1>4, <1>5

LEMMA DrawKeeps ==
  ASSUME BillingAssumption, Inv, NEW r \in Runs, Draw(r)
  PROVE  Inv'
PROOF
  <1> DEFINE b == run[r].batch
  <1>0. /\ run[r] \in RunRecord /\ Fits(run[r]) /\ b \in Batches /\ Working(r)
        /\ run[r].set = Pending(b) /\ run[r].set # {} /\ route[b] = "prepay"
    BY RunTyped
    DEF Draw, Fits, AtBatch, WithSet, ByStripe, RunRecord, Working
  <1>1. UNCHANGED <<group, row, batch, route, mode, lock, intent, card, key, missed>>
    BY DEF Draw, rowVars, stripeVars
  <1>2. CASE drawn' = drawn /\ run' = [run EXCEPT ![r].pc = "pause"]
    <2> DEFINE p == run[r].intent
               x == Stage(r, "pause", p)
    <2>1. "pause" \in PCs /\ "pause" \in AtBatch /\ p \in Intents \cup {None}
      BY <1>0 DEF PCs, AtBatch, RunRecord
    <2>2. /\ x.pc = "pause" /\ x.batch = run[r].batch /\ x.todo = run[r].todo
      BY <2>1, StageFields
    <2> HIDE DEF x
    <2>3. Fits(x)
      BY <1>0, <2>2 DEF Fits, AtBatch, WithSet, ByStripe, Charging, BillingAssumption
    <2>4. Fits(Stage(r, "pause", p))
      BY <2>3 DEF x
    <2> QED BY <1>0, <1>1, <1>2, <2>1, <2>4, StageStep DEF KeepsBooks
  <1>3. CASE drawn' = [drawn EXCEPT ![b] = IF @ = {} THEN run[r].set ELSE @]
    <2>1. /\ drawn' \in [Batches -> SUBSET Groups]
          /\ drawn'[b] # {} /\ drawn'[b] \in {drawn[b], Pending(b)}
          /\ drawn[b] # {} => drawn'[b] = drawn[b]
          /\ \A c \in Batches \ {b} : drawn'[c] = drawn[c]
      BY <1>0, <1>3 DEF Inv, Shape, Pending
    <2>2. DrawsCover'
      <3>1. Covers(b, Pending(b))
        BY DEF Covers, Stands, Pending
      <3>2. \A c \in Batches : drawn'[c] # {} => route[c] = "prepay" /\ Covers(c, drawn'[c])
        BY <1>0, <2>1, <3>1 DEF Inv, BooksInv, DrawsCover
      <3> QED BY <1>1, <3>2 DEF DrawsCover, Covers, Stands, Pending
    <2>3. RowsOwned' /\ IntentsOwned' /\ KeysOwned' /\ ChargesCover' /\ OneCharge'
      BY <1>1 DEF Inv, BooksInv, RowsOwned, IntentsOwned, KeysOwned, ChargesCover,
                  OneCharge, Covers, Stands, Pending, Unused, Charged
    <2>4. CASE run' = Back(r)
      <3>1. run' \in [Runs -> RunRecord] /\ RunsInv' /\ OneAtWork'
        BY <1>0, <1>1, <2>4, OwnerBacks
      <3>2. Shape'
        BY <1>1, <2>1, <3>1 DEF Inv, Shape
      <3> QED BY <2>2, <2>3, <3>1, <3>2 DEF Inv, BooksInv
    <2>5. CASE run' = [run EXCEPT ![r].pc = "markBalance"]
      <3> DEFINE x == Stage(r, "markBalance", run[r].intent)
      <3>1. "markBalance" \in PCs
        BY DEF PCs
      <3>2. /\ Moves(r, x) /\ x.pc = "markBalance" /\ x.batch = b
            /\ x.set = run[r].set /\ x.todo = run[r].todo
        BY <2>5, <3>1, StageKeeps
      <3>3. /\ run' \in [Runs -> RunRecord] /\ run'[r] = x
            /\ \A q \in Runs \ {r} : run'[q] = run[q]
        BY <3>2, RunMoves DEF Inv
      <3> HIDE DEF x
      <3>4. Fits(run[r])'
        BY <1>0, <1>1, <2>1, <3>2, <3>3
        DEF Fits, AtBatch, WithSet, ByStripe, Charging, BillingAssumption, Pending
      <3>5. RunsInv' /\ OneAtWork'
        BY <1>0, <1>1, <3>3, <3>4, OwnerMoves
      <3>6. Shape'
        BY <1>1, <2>1, <3>3 DEF Inv, Shape
      <3> QED BY <2>2, <2>3, <3>5, <3>6 DEF Inv, BooksInv
    <2> QED BY <1>3, <2>4, <2>5, <1>2 DEF Draw
  <1> QED BY <1>2, <1>3 DEF Draw

LEMMA CreateNewKeeps ==
  ASSUME BillingAssumption, Inv, NEW r \in Runs, NEW p \in Intents, CreateNew(r, p)
  PROVE  Inv'
PROOF
  <1> DEFINE b == run[r].batch
             S == run[r].set
  <1>0. /\ run[r] \in RunRecord /\ Fits(run[r]) /\ b \in Batches /\ Working(r)
        /\ S = Pending(b) /\ S # {} /\ S \in SUBSET Groups /\ route[b] = "postpay"
        /\ ~(Cents(S) < MinCents)
        /\ b \in missed \/ \A q \in Charged(b) : key[b] = q
    BY RunTyped
    DEF CreateNew, Fits, AtBatch, WithSet, ByStripe, Charging, RunRecord, Working
  <1>1. b \in missed \/ Charged(b) = {}
    BY <1>0 DEF CreateNew, Charged, BillingAssumption
  <1>2. /\ UNCHANGED <<group, row, batch, route, mode, lock, card, missed, drawn>>
        /\ intent[p].status = "none" /\ key[b] = None
        /\ key' = [key EXCEPT ![b] = p]
    BY DEF CreateNew, rowVars, Unused
  <1>3. PICK status \in {"succeeded", "declined"} :
          /\ intent' = [intent EXCEPT ![p] = [status |-> status, batch |-> b,
                          groups |-> S, card |-> run[r].card]]
          /\ Answered(r, p, status)
    BY DEF CreateNew
  <1>4. /\ intent' \in [Intents -> IntentRecord]
        /\ intent'[p].status = status /\ intent'[p].batch = b /\ intent'[p].groups = S
        /\ \A q \in Intents \ {p} : intent'[q] = intent[q]
    BY <1>0, <1>3 DEF Inv, Shape, IntentRecord, RunRecord
  <1>5. key' \in [Batches -> Intents \cup {None}] /\ key'[b] = p
        /\ \A c \in Batches \ {b} : key'[c] = key[c]
    BY <1>0, <1>2 DEF Inv, Shape
  <1> DEFINE Now(c) == {q \in Intents : intent'[q].batch = c /\ intent'[q].status = "succeeded"}
  <1>6. /\ \A c \in Batches \ {b} : Now(c) = Charged(c)
        /\ Now(b) = Charged(b) \cup (IF status = "succeeded" THEN {p} ELSE {})
    BY <1>2, <1>4 DEF Charged
  <1>7. IntentsOwned'
    BY <1>0, <1>2, <1>4 DEF Inv, BooksInv, IntentsOwned, Unused
  <1>8. KeysOwned'
    BY <1>2, <1>4, <1>5 DEF Inv, Shape, BooksInv, KeysOwned, Unused
  <1>9. OneCharge'
    <2>1. \A c \in Batches : \A q \in Now(c) :
            c \in missed \/ (key'[c] \in {None, q} /\ \A o \in Now(c) : q = o)
      BY <1>1, <1>5, <1>6 DEF Inv, BooksInv, OneCharge
    <2> QED BY <1>2, <2>1 DEF OneCharge, Charged
  <1>10. ChargesCover'
    <2>1. Covers(b, Pending(b))
      BY DEF Covers, Stands, Pending
    <2>2. Covers(b, S) /\ ~(Cents(S) < MinCents)
      BY <1>0, <2>1
    <2>3. \A c \in Batches : \A q \in Now(c) :
            Covers(c, intent'[q].groups) /\ ~(Cents(intent'[q].groups) < MinCents)
      <3>1. ASSUME NEW c \in Batches \ {b}, NEW q \in Now(c)
            PROVE  Covers(c, intent'[q].groups) /\ ~(Cents(intent'[q].groups) < MinCents)
        BY <1>2, <1>4, <1>6 DEF Inv, BooksInv, ChargesCover, Charged
      <3>2. ASSUME NEW q \in Charged(b)
            PROVE  Covers(b, intent[q].groups) /\ ~(Cents(intent[q].groups) < MinCents)
        BY <1>0 DEF Inv, BooksInv, ChargesCover
      <3>3. \A q \in Charged(b) : q \in Intents \ {p}
        BY <1>2 DEF Charged
      <3>4. ASSUME NEW q \in Now(b)
            PROVE  Covers(b, intent'[q].groups) /\ ~(Cents(intent'[q].groups) < MinCents)
        BY <1>4, <1>6, <2>2, <3>2, <3>3
      <3> QED BY <3>1, <3>4
    <2> QED BY <1>2, <2>3 DEF ChargesCover, Charged, Covers, Stands, Pending
  <1>11. RowsOwned' /\ DrawsCover'
    BY <1>2 DEF Inv, BooksInv, RowsOwned, DrawsCover, Covers, Stands, Pending
  <1>12. CASE run' = Back(r)
    <2>1. run' \in [Runs -> RunRecord] /\ RunsInv' /\ OneAtWork'
      BY <1>0, <1>2, <1>12, OwnerBacks
    <2>2. Shape'
      BY <1>2, <1>4, <1>5, <2>1 DEF Inv, Shape
    <2> QED BY <1>7, <1>8, <1>9, <1>10, <1>11, <2>1, <2>2 DEF Inv, BooksInv
  <1>13. CASE run' = [run EXCEPT ![r].intent = p,
                        ![r].pc = IF status = "succeeded" THEN "mark" ELSE "fail"]
    <2> DEFINE pc == IF status = "succeeded" THEN "mark" ELSE "fail"
               x == Stage(r, pc, p)
    <2>1. pc \in PCs /\ pc \in {"mark", "fail"}
          /\ (pc = "mark" <=> status = "succeeded")
      BY DEF PCs
    <2>2. run' = [run EXCEPT ![r].intent = p, ![r].pc = pc]
      BY <1>13
    <2> HIDE DEF pc
    <2>3. Moves(r, x)
      BY <2>1, <2>2, StageTyped
    <2>4. /\ x.pc = pc /\ x.batch = b /\ x.set = S /\ x.todo = run[r].todo
          /\ x.intent = p
      BY <2>1, StageFields
    <2>5. /\ run' \in [Runs -> RunRecord] /\ run'[r] = x
          /\ \A q \in Runs \ {r} : run'[q] = run[q]
      BY <2>3, RunMoves DEF Inv
    <2> HIDE DEF x
    <2>6. /\ pc = "mark" => p \in Now(b)
          /\ pc = "fail" => b \in missed \/ Now(b) = {}
      BY <1>1, <1>6, <2>1
    <2>7. Fits(run[r])'
      <3>1. /\ run'[r].pc = pc /\ run'[r].batch = b /\ run'[r].set = S
            /\ run'[r].todo = run[r].todo /\ run'[r].intent = p
        BY <2>4, <2>5
      <3>2. {q \in Intents : intent'[q].batch = run'[r].batch
                             /\ intent'[q].status = "succeeded"} = Now(b)
        BY <3>1
      <3>3. /\ {g \in Groups : batch'[g] = run'[r].batch /\ row'[g] = "pending"} = S
            /\ S # {} /\ b # None
        BY <1>0, <1>2, <3>1 DEF Pending, BillingAssumption
      <3>4. /\ \A c \in run'[r].todo : route'[c] # "none"
            /\ route'[b] = "postpay"
            /\ pc = "fail" => b \in missed' \/ Now(b) = {}
        BY <1>0, <1>2, <2>6, <3>1 DEF Fits
      <3> HIDE DEF b, S, Now
      <3>5. CASE pc = "mark"
        BY <1>0, <2>6, <3>1, <3>2, <3>3, <3>4, <3>5
        DEF Fits, AtBatch, WithSet, ByStripe, Charging, Charged, Pending
      <3>6. CASE pc = "fail"
        BY <1>0, <2>6, <3>1, <3>2, <3>3, <3>4, <3>6
        DEF Fits, AtBatch, WithSet, ByStripe, Charging, Charged, Pending
      <3> QED BY <2>1, <3>5, <3>6
    <2>8. RunsInv' /\ OneAtWork'
      BY <1>0, <1>2, <2>5, <2>7, OwnerMoves
    <2>9. Shape'
      BY <1>2, <1>4, <1>5, <2>5 DEF Inv, Shape
    <2> QED BY <1>7, <1>8, <1>9, <1>10, <1>11, <2>8, <2>9 DEF Inv, BooksInv
  <1> QED BY <1>3, <1>12, <1>13 DEF Answered

-----------------------------------------------------------------------------
(* Steps of nobody's request.                                              *)

LEMMA KeyExpiresKeeps ==
  ASSUME BillingAssumption, Inv, NEW b \in Batches, KeyExpires(b)
  PROVE  Inv'
PROOF
  <1>1. /\ UNCHANGED <<group, row, batch, route, mode, lock, run, card, intent, missed,
                     drawn>>
        /\ key' = [key EXCEPT ![b] = None] /\ \A r \in Runs : run[r].batch # b
    BY DEF KeyExpires, rowVars
  <1>2. /\ key' \in [Batches -> Intents \cup {None}] /\ key'[b] = None
        /\ \A c \in Batches \ {b} : key'[c] = key[c]
    BY <1>1 DEF Inv, Shape
  <1>3. Shape' /\ OneAtWork'
    BY <1>1, <1>2 DEF Inv, Shape, OneAtWork, Working
  <1>4. KeysOwned' /\ OneCharge'
    BY <1>1, <1>2 DEF Inv, BooksInv, KeysOwned, OneCharge, Unused, Charged
  <1>5. RowsOwned' /\ IntentsOwned' /\ ChargesCover' /\ DrawsCover'
    BY <1>1 DEF Inv, BooksInv, RowsOwned, IntentsOwned, ChargesCover, DrawsCover,
                Covers, Stands, Pending, Unused, Charged
  <1>6. ASSUME NEW r \in Runs PROVE Fits(run[r])'
    <2>1. /\ run[r] \in RunRecord /\ Fits(run[r]) /\ run[r].batch # b
          /\ run[r].pc = "create" => run[r].batch \in Batches
      BY <1>1, RunTyped DEF RunRecord, Fits, AtBatch
    <2>2. run[r].pc = "create" => key'[run[r].batch] = key[run[r].batch]
      BY <1>2, <2>1
    <2> QED BY <1>1, <2>1, <2>2
            DEF Fits, AtBatch, WithSet, ByStripe, Charging, Charged, Pending
  <1> QED BY <1>3, <1>4, <1>5, <1>6 DEF Inv, BooksInv, RunsInv

LEMMA LockTimesOutKeeps ==
  ASSUME BillingAssumption, ~Overlaps, Inv, LockTimesOut
  PROVE  Inv'
PROOF
  <1>1. KeepsBooks /\ UNCHANGED <<group, mode, card, run>> /\ lock' = None
    BY DEF LockTimesOut, KeepsBooks, rowVars, stripeVars
  <1>2. \A r \in Runs : ~Working(r)
    BY DEF LockTimesOut, Inv, OneAtWork, Working
  <1>3. OneAtWork'
    BY <1>1, <1>2 DEF OneAtWork, Working
  <1>4. Shape'
    BY <1>1 DEF Inv, Shape, KeepsBooks
  <1>5. BooksInv' /\ RunsInv'
    BY <1>1, BooksStay DEF Inv, RunsInv
  <1> QED BY <1>3, <1>4, <1>5 DEF Inv

LEMMA WorldKeeps ==
  ASSUME Inv, KeepsBooks, UNCHANGED <<run, lock>>, mode' \in Modes,
         card' \in Cards \cup {None},
         group' \in [Groups -> {"none", "cleared", "reversed"}]
  PROVE  Inv'
PROOF
  <1>1. Shape' /\ OneAtWork'
    BY DEF Inv, Shape, OneAtWork, Working, KeepsBooks
  <1>2. BooksInv' /\ RunsInv'
    BY BooksStay DEF Inv, RunsInv
  <1> QED BY <1>1, <1>2 DEF Inv

-----------------------------------------------------------------------------
(* The invariant, and what follows from it.                                *)

LEMMA InitHolds ==
  ASSUME BillingAssumption, Init
  PROVE  Inv
PROOF
  <1>1. Shape
    BY IdleFits DEF Init, Shape, NoIntent, IntentRecord, Modes
  <1>2. OneAtWork /\ RunsInv
    BY IdleFits DEF Init, OneAtWork, Working, RunsInv
  <1>3. \A b \in Batches : Charged(b) = {}
    BY DEF Init, Charged, NoIntent
  <1>4. BooksInv
    BY <1>3 DEF Init, BooksInv, RowsOwned, IntentsOwned, KeysOwned, ChargesCover,
                OneCharge, DrawsCover, Unused, NoIntent
  <1> QED BY <1>1, <1>2, <1>4 DEF Inv

LEMMA NextKeeps ==
  ASSUME BillingAssumption, ~Overlaps, Inv, [Next]_vars
  PROVE  Inv'
PROOF
  <1>1. CASE \E r \in Runs : RunStep(r) \/ Crash(r) \/ WriteFails(r) \/ ResolveFails(r)
    <2>1. PICK r \in Runs : RunStep(r) \/ Crash(r) \/ WriteFails(r) \/ ResolveFails(r)
      BY <1>1
    <2>2. CASE FetchView(r) \/ Acquire(r) \/ FetchPending(r) \/ Release(r) \/ Crash(r)
      BY <2>2, FetchViewKeeps, AcquireKeeps, FetchPendingKeeps, ReleaseKeeps, CrashKeeps
    <2>3. CASE \E b \in Batches : Recover(r, b) \/ ReservePlan(r, b)
      BY <2>3, RecoverKeeps, ReservePlanKeeps
    <2>4. CASE SkipPlan(r) \/ ResolveFails(r) \/ Select(r) \/ Search(r) \/ CreateAgain(r)
               \/ Pause(r) \/ WriteFails(r)
      BY <2>4, SkipPlanKeeps, ResolveFailsKeeps, SelectKeeps, SearchKeeps,
         CreateAgainKeeps, PauseKeeps, WriteFailsKeeps
    <2>5. CASE \E p \in Intents : CreateNew(r, p)
      BY <2>5, CreateNewKeeps
    <2>6. CASE ReleaseBatch(r) \/ MarkCharged(r) \/ MarkFailed(r) \/ Draw(r) \/ MarkBalance(r)
      BY <2>6, ReleaseBatchKeeps, MarkChargedKeeps, MarkFailedKeeps, DrawKeeps,
         MarkBalanceKeeps
    <2> QED BY <2>1, <2>2, <2>3, <2>4, <2>5, <2>6 DEF RunStep
  <1>2. CASE \E g \in Groups : RefundStep(g) \/ Clear(g) \/ RefundKeyExpires(g)
    <2>1. KeepsBooks /\ UNCHANGED <<run, lock, mode, card>>
      BY <1>2 DEF RefundStep, Reverse, Refund, Refunding, RefundMark, Clear, RefundKeyExpires,
          KeepsBooks, rowVars, stripeVars
    <2>2. group' \in [Groups -> {"none", "cleared", "reversed"}]
      BY <1>2 DEF RefundStep, Reverse, Refund, Refunding, RefundMark, Clear, RefundKeyExpires,
          Inv, Shape
    <2> QED BY <2>1, <2>2, WorldKeeps DEF Inv, Shape
  <1>3. CASE \E b \in Batches : KeyExpires(b)
    BY <1>3, KeyExpiresKeeps
  <1>4. CASE LockTimesOut
    BY <1>4, LockTimesOutKeeps
  <1>5. CASE ChangeCard \/ FlipMode \/ Resume
    <2>1. KeepsBooks /\ UNCHANGED <<run, lock, group>>
      BY <1>5 DEF ChangeCard, FlipMode, Resume, KeepsBooks, rowVars, stripeVars
    <2>2. mode' \in Modes /\ card' \in Cards \cup {None}
      BY <1>5 DEF ChangeCard, FlipMode, Resume, stripeVars, Inv, Shape
    <2> QED BY <2>1, <2>2, WorldKeeps DEF Inv, Shape
  <1>6. CASE UNCHANGED vars
    BY <1>6, WorldKeeps DEF vars, rowVars, stripeVars, KeepsBooks, Inv, Shape
  <1> QED BY <1>1, <1>2, <1>3, <1>4, <1>5, <1>6 DEF Next, WorldStep

\* While a lock never times out under a live request: the owner of the lock
\* is alone past it, every batch is settled by one route, has one intent that
\* charged it unless a search missed that one, and every stage of a request knows
\* the batch in its hands.
THEOREM InvHolds ==
  ASSUME ~Overlaps
  PROVE  Spec => []Inv
PROOF
  <1>1. Init => Inv
    BY InitHolds, BillingAssumption
  <1>2. Inv /\ [Next]_vars => Inv'
    BY NextKeeps, BillingAssumption
  <1> QED BY <1>1, <1>2, PTL DEF Spec

LEMMA InvCollects ==
  ASSUME Inv
  PROVE  CollectedOnce /\ CollectedIsKept
PROOF
  <1>1. ASSUME NEW g \in Groups, NEW p \in ChargedFor(g)
        PROVE  /\ intent[p].batch \in Batches /\ p \in Charged(intent[p].batch)
               /\ batch[g] = intent[p].batch /\ Stands(batch[g], row[g])
               /\ route[batch[g]] = "postpay"
    <2>1. p \in Intents /\ intent[p].status = "succeeded" /\ g \in intent[p].groups
      BY DEF ChargedFor
    <2>2. /\ intent[p].batch \in Batches /\ route[intent[p].batch] = "postpay"
          /\ p \in Charged(intent[p].batch)
      BY <2>1 DEF Inv, BooksInv, IntentsOwned, Unused, Charged
    <2> QED BY <2>1, <2>2 DEF Inv, BooksInv, ChargesCover, Covers
  <1>2. ASSUME NEW g \in Groups, NEW b \in DrawnFor(g)
        PROVE  /\ b \in Batches /\ batch[g] = b /\ Stands(batch[g], row[g])
               /\ route[b] = "prepay"
    BY DEF DrawnFor, Inv, BooksInv, DrawsCover, Covers
  <1>3. CollectedOnce
    <2>1. ASSUME NEW g \in Groups, NEW p \in ChargedFor(g), NEW q \in ChargedFor(g)
          PROVE  p = q \/ batch[g] \in missed
      BY <1>1 DEF Inv, BooksInv, OneCharge
    <2>2. ASSUME NEW g \in Groups, NEW b \in DrawnFor(g), NEW c \in DrawnFor(g)
          PROVE  b = c
      BY <1>2
    <2>3. ASSUME NEW g \in Groups, NEW p \in ChargedFor(g), NEW b \in DrawnFor(g)
          PROVE  FALSE
      BY <1>1, <1>2
    <2> QED BY <2>1, <2>2, <2>3 DEF CollectedOnce
  <1>4. CollectedIsKept
    BY <1>1, <1>2 DEF CollectedIsKept, Stands
  <1> QED BY <1>3, <1>4

\* While a lock never times out under a live request, an impression is
\* collected by at most one PaymentIntent or one draw-down, over any number of
\* requests, crashes, lost answers, expired keys and mode flips.  A second
\* PaymentIntent needs a search that erred with the key of the first forgotten.
THEOREM CollectedOnceHolds ==
  ASSUME ~Overlaps
  PROVE  Spec => []CollectedOnce
PROOF
  <1>1. Inv => CollectedOnce
    BY InvCollects
  <1> QED BY <1>1, InvHolds, PTL

\* And what was collected keeps a pending or a settled row: releaseBatch never
\* reaches it, and markPendingFailed only through a decline of the new
\* PaymentIntent that such a search let through.
THEOREM CollectedIsKeptHolds ==
  ASSUME ~Overlaps
  PROVE  Spec => []CollectedIsKept
PROOF
  <1>1. Inv => CollectedIsKept
    BY InvCollects
  <1> QED BY <1>1, InvHolds, PTL

-----------------------------------------------------------------------------
(* What a settled row says of its charge.                                  *)

\* A settled row names a draw-down or a charge that covers its group; any
\* other row names nothing.
RowTraced(g) ==
  IF row[g] = "succeeded"
  THEN IF settled[g] = "balance" THEN g \in drawn[batch[g]] /\ intentOf[g] = None
       ELSE intentOf[g] \in ChargedFor(g)
  ELSE intentOf[g] = None /\ settled[g] = "stripe"

\* The rows of a batch name one intent, also when two have charged them.
RowsAgree ==
  \A g, h \in Groups :
    intentOf[g] # None /\ intentOf[h] # None /\ batch[g] = batch[h] =>
      intentOf[g] = intentOf[h]

Traced ==
  /\ intentOf \in [Groups -> Intents \cup {None}]
  /\ settled \in [Groups -> {"stripe", "balance"}]
  /\ \A g \in Groups : RowTraced(g)
  /\ RowsAgree

\* No row is settled or loses its settlement; draw-downs and charges only
\* become more.
LEMMA TracedStays ==
  ASSUME BillingAssumption, Inv, Traced, UNCHANGED <<intentOf, settled>>,
         \A g \in Groups : /\ row'[g] = "succeeded" <=> row[g] = "succeeded"
                           /\ row[g] = "succeeded" => batch'[g] = batch[g],
         \A b \in Batches : drawn[b] \subseteq drawn'[b],
         \A p \in Intents : ~Unused(p) => intent'[p] = intent[p]
  PROVE  Traced'
PROOF
  <1>1. \A g \in Groups : row[g] = "succeeded" => batch[g] \in Batches
    BY DEF Inv, Shape, BooksInv, RowsOwned
  <1>2. \A g \in Groups : ChargedFor(g) \subseteq ChargedFor(g)'
    BY DEF ChargedFor, Unused
  <1>3. RowsAgree'
    <2>1. \A g \in Groups : intentOf[g] # None => batch'[g] = batch[g]
      BY DEF Traced, RowTraced
    <2> QED BY <2>1 DEF Traced, RowsAgree
  <1> QED BY <1>1, <1>2, <1>3 DEF Traced, RowTraced

\* The set a request marks is what its intent charged.
LEMMA MarkChargedTraced ==
  ASSUME BillingAssumption, Inv, Traced, NEW r \in Runs, MarkCharged(r)
  PROVE  Traced'
PROOF
  <1> DEFINE b == run[r].batch
             p == run[r].intent
             S == run[r].set
  <1>1. /\ b \in Batches /\ p \in Intents /\ S = Pending(b) /\ S # {}
        /\ p \in Charged(b)
    BY RunTyped DEF MarkCharged, Fits, AtBatch, WithSet, RunRecord, Charged
  <1>2. S = intent[p].groups /\ intent[p].status = "succeeded"
    BY <1>1 DEF Inv, BooksInv, ChargesCover, Covers, Charged
  <1>3. \A g \in S : g \in Groups /\ row[g] = "pending"
    BY <1>1 DEF Pending
  <1>4. /\ row' = [g \in Groups |-> IF g \in S THEN "succeeded" ELSE row[g]]
        /\ intentOf' = [g \in Groups |-> IF g \in S THEN p ELSE intentOf[g]]
        /\ UNCHANGED <<settled, batch, drawn, intent>>
    BY <1>3 DEF MarkCharged, Promote, stripeVars
  <1>5. \A g \in S : batch[g] = b
    BY <1>1 DEF Pending
  <1>6. ASSUME NEW g \in Groups, batch[g] = b, intentOf[g] # None PROVE g \in S
    <2> DEFINE q == intentOf[g]
    <2>1. q \in ChargedFor(g)
      BY <1>6 DEF Traced, RowTraced
    <2>2. /\ q \in Intents /\ g \in intent[q].groups /\ intent[q].batch \in Batches
          /\ q \in Charged(intent[q].batch)
      BY <2>1 DEF ChargedFor, Charged, Inv, BooksInv, IntentsOwned, Unused
    <2>3. Covers(intent[q].batch, intent[q].groups)
      BY <2>2 DEF Inv, BooksInv, ChargesCover
    <2>4. intent[q].batch = b
      BY <1>6, <2>2, <2>3 DEF Covers
    <2> QED BY <1>1, <2>2, <2>3, <2>4 DEF Covers
  <1> HIDE DEF b, p, S
  <1>7. ASSUME NEW g \in Groups, g \in S PROVE RowTraced(g)'
    <2>1. settled'[g] = "stripe" /\ intentOf'[g] = p /\ row'[g] = "succeeded"
      BY <1>3, <1>4, <1>7 DEF Traced, RowTraced
    <2>2. p \in ChargedFor(g)'
      BY <1>1, <1>2, <1>4, <1>7 DEF ChargedFor
    <2> QED BY <2>1, <2>2 DEF RowTraced
  <1>8. ASSUME NEW g \in Groups, g \notin S PROVE RowTraced(g)'
    BY <1>4, <1>8 DEF Traced, RowTraced, ChargedFor
  <1>9. intentOf' \in [Groups -> Intents \cup {None}] /\ settled' = settled
    BY <1>1, <1>4 DEF Traced
  <1>10. RowsAgree'
    <2>1. ASSUME NEW g \in Groups, NEW h \in Groups, intentOf'[g] # None, intentOf'[h] # None,
                 batch[g] = batch[h]
          PROVE  intentOf'[g] = intentOf'[h]
      <3>1. CASE batch[g] = b
        BY <1>4, <1>6, <2>1, <3>1
      <3>2. CASE batch[g] # b
        BY <1>4, <1>5, <2>1, <3>2 DEF Traced, RowsAgree
      <3> QED BY <3>1, <3>2
    <2> QED BY <1>4, <2>1 DEF RowsAgree
  <1> QED BY <1>7, <1>8, <1>9, <1>10 DEF Traced

\* The set a request marks is what the draw-down of its batch paid for.
LEMMA MarkBalanceTraced ==
  ASSUME BillingAssumption, Inv, Traced, NEW r \in Runs, MarkBalance(r)
  PROVE  Traced'
PROOF
  <1> DEFINE b == run[r].batch
             S == run[r].set
  <1>1. b \in Batches /\ S = Pending(b) /\ S # {} /\ drawn[b] # {}
    BY RunTyped DEF MarkBalance, Fits, AtBatch, WithSet, RunRecord
  <1>2. S = drawn[b]
    BY <1>1 DEF Inv, BooksInv, DrawsCover, Covers
  <1>3. \A g \in S : g \in Groups /\ row[g] = "pending" /\ batch[g] = b
    BY <1>1 DEF Pending
  <1>4. /\ row' = [g \in Groups |-> IF g \in S THEN "succeeded" ELSE row[g]]
        /\ settled' = [g \in Groups |-> IF g \in S THEN "balance" ELSE settled[g]]
        /\ UNCHANGED <<intentOf, batch, drawn, intent>>
    BY <1>3 DEF MarkBalance, Promote, stripeVars
  <1> HIDE DEF b, S
  <1>5. ASSUME NEW g \in Groups, g \in S PROVE RowTraced(g)'
    <2>1. intentOf[g] = None
      BY <1>3, <1>5 DEF Traced, RowTraced
    <2> QED BY <1>2, <1>3, <1>4, <1>5, <2>1 DEF RowTraced
  <1>6. ASSUME NEW g \in Groups, g \notin S PROVE RowTraced(g)'
    BY <1>4, <1>6 DEF Traced, RowTraced, ChargedFor
  <1>7. settled' \in [Groups -> {"stripe", "balance"}] /\ intentOf' = intentOf
    BY <1>4 DEF Traced
  <1>8. RowsAgree'
    BY <1>4 DEF Traced, RowsAgree
  <1> QED BY <1>5, <1>6, <1>7, <1>8 DEF Traced

LEMMA TracedStep ==
  ASSUME BillingAssumption, Inv, Traced, [Next]_vars
  PROVE  Traced'
PROOF
  <1> USE DEF rowVars, stripeVars
  <1>1. ASSUME UNCHANGED <<rowVars, drawn, intent>> PROVE Traced'
    BY <1>1, TracedStays
  <1>2. CASE UNCHANGED vars \/ WorldStep \/ \E g \in Groups : RefundStep(g)
    BY <1>1, <1>2
       DEF vars, WorldStep, Clear, KeyExpires, LockTimesOut, ChangeCard, FlipMode, Resume,
           RefundStep, Reverse, Refund, Refunding, RefundMark, RefundKeyExpires
  <1>3. ASSUME NEW r \in Runs,
               \/ FetchView(r) \/ Acquire(r) \/ FetchPending(r) \/ Release(r)
               \/ (\E b \in Batches : Recover(r, b)) \/ SkipPlan(r) \/ Select(r)
               \/ Search(r) \/ CreateAgain(r) \/ Pause(r)
               \/ Crash(r) \/ WriteFails(r) \/ ResolveFails(r)
        PROVE  Traced'
    BY <1>1, <1>3
       DEF FetchView, Acquire, FetchPending, Release, Recover, SkipPlan, Select, Search,
           CreateAgain, Pause, Crash, WriteFails, ResolveFails
  <1>4. ASSUME NEW r \in Runs, NEW b \in Batches, ReservePlan(r, b) PROVE Traced'
    <2>1. \A g \in Reservable(r) : row[g] = "none"
      BY DEF Reservable
    <2> QED BY <1>4, <2>1, TracedStays DEF ReservePlan
  <1>5. ASSUME NEW r \in Runs, ReleaseBatch(r) PROVE Traced'
    BY <1>5, TracedStays DEF ReleaseBatch
  <1>6. ASSUME NEW r \in Runs, MarkFailed(r) PROVE Traced'
    BY <1>6, TracedStays DEF MarkFailed, Promote
  <1>7. ASSUME NEW r \in Runs, NEW p \in Intents, CreateNew(r, p) PROVE Traced'
    BY <1>7, TracedStays DEF CreateNew, Unused, Inv, Shape
  <1>8. ASSUME NEW r \in Runs, Draw(r) PROVE Traced'
    <2>1. UNCHANGED <<rowVars, intent>>
      BY <1>8 DEF Draw
    <2>2. \A b \in Batches : drawn[b] \subseteq drawn'[b]
      BY <1>8 DEF Draw, Inv, Shape
    <2> QED BY <2>1, <2>2, TracedStays
  <1> QED BY <1>2, <1>3, <1>4, <1>5, <1>6, <1>7, <1>8, MarkChargedTraced, MarkBalanceTraced
          DEF Next, RunStep

\* Every settled row is traced to the charge or the draw-down that settled it.
LEMMA TracedAlways ==
  ASSUME ~Overlaps
  PROVE  Spec => [](Inv /\ Traced)
PROOF
  <1>1. Init => Traced
    BY DEF Init, Traced, RowTraced, RowsAgree
  <1>2. Inv /\ Traced /\ [Next]_vars => Traced'
    BY TracedStep, BillingAssumption
  <1> QED BY <1>1, <1>2, InvHolds, PTL DEF Spec

\* The rows that name an intent are the groups it charged.
LEMMA TracedIntent ==
  ASSUME BillingAssumption, Inv, Traced, NEW p \in Intents
  PROVE  /\ {h \in Groups : intentOf[h] = p} \subseteq intent[p].groups
         /\ \A g \in Groups : intentOf[g] = p =>
              {h \in Groups : intentOf[h] = p} = intent[p].groups
PROOF
  <1>1. ASSUME NEW g \in Groups, intentOf[g] = p
        PROVE  /\ row[g] = "succeeded" /\ settled[g] = "stripe"
               /\ intent[p].status = "succeeded" /\ g \in intent[p].groups
    <2>1. intentOf[g] # None
      BY <1>1 DEF BillingAssumption
    <2>2. row[g] = "succeeded" /\ settled[g] # "balance" /\ p \in ChargedFor(g)
      BY <1>1, <2>1 DEF Traced, RowTraced
    <2> QED BY <2>2 DEF Traced, ChargedFor
  <1>2. ASSUME NEW g \in Groups, intentOf[g] = p, NEW h \in intent[p].groups
        PROVE  h \in Groups /\ intentOf[h] = p
    <2> DEFINE b == intent[p].batch
    <2>1. intent[p].status = "succeeded" /\ g \in intent[p].groups /\ row[g] = "succeeded"
      BY <1>1, <1>2
    <2>2. h \in Groups
      BY <1>2 DEF Inv, Shape, IntentRecord
    <2>3. b \in Batches /\ route[b] = "postpay" /\ p \in Charged(b)
      BY <2>1 DEF Inv, BooksInv, IntentsOwned, Unused, Charged
    <2> HIDE DEF b
    <2>4. Covers(b, intent[p].groups)
      BY <2>3 DEF Inv, BooksInv, ChargesCover
    <2>5. batch[h] = b /\ row[h] = "succeeded"
      BY <1>2, <2>1, <2>2, <2>4 DEF Covers
    <2>6. settled[h] # "balance"
      BY <2>2, <2>3, <2>5 DEF Traced, RowTraced, Inv, BooksInv, DrawsCover
    <2>7. intentOf[h] \in ChargedFor(h)
      BY <2>2, <2>5, <2>6 DEF Traced, RowTraced
    <2>8. batch[g] = batch[h] /\ intentOf[g] # None /\ intentOf[h] # None
      BY <1>2, <2>1, <2>4, <2>5, <2>7 DEF Covers, ChargedFor, BillingAssumption
    <2> QED BY <1>2, <2>2, <2>8 DEF Traced, RowsAgree
  <1> QED BY <1>1, <1>2

\* While a lock never times out under a live request: a row marked succeeded
\* names the draw-down or the PaymentIntent that really collected it, and the
\* rows of a PaymentIntent are exactly the groups Stripe was told to charge.
THEOREM SettledIsCollectedHolds ==
  ASSUME ~Overlaps
  PROVE  Spec => []SettledIsCollected
PROOF
  <1>1. Inv /\ Traced => SettledIsCollected
    <2> SUFFICES ASSUME Inv, Traced, NEW g \in Groups, row[g] = "succeeded"
                 PROVE  IF settled[g] = "balance" THEN g \in drawn[batch[g]]
                        ELSE /\ intentOf[g] \in ChargedFor(g)
                             /\ {h \in Groups : intentOf[h] = intentOf[g]}
                                  = intent[intentOf[g]].groups
      BY DEF SettledIsCollected
    <2>1. CASE settled[g] = "balance"
      BY <2>1 DEF Traced, RowTraced
    <2>2. CASE settled[g] # "balance"
      <3>1. intentOf[g] \in ChargedFor(g) /\ intentOf[g] \in Intents
        BY <2>2 DEF Traced, RowTraced, ChargedFor
      <3> QED BY <2>2, <3>1, TracedIntent, BillingAssumption
    <2> QED BY <2>1, <2>2
  <1> QED BY <1>1, TracedAlways, PTL

-----------------------------------------------------------------------------
(* Refunds.                                                                *)

\* Cents floored one by one add up to at most the floor of the sum.
LEMMA FloorsAddUp ==
  ASSUME BillingAssumption, NEW k \in Nat, NEW n \in Nat, k <= n
  PROVE  (GroupMicros \div CentMicros) * k <= (GroupMicros * n) \div CentMicros
PROOF
  <1> DEFINE q == GroupMicros \div CentMicros
  <1>1. GroupMicros \in Nat /\ CentMicros \in Nat \ {0}
    BY DEF BillingAssumption
  <1>2. q \in Nat /\ q * CentMicros <= GroupMicros
    BY <1>1
  <1> HIDE DEF q
  <1>3. (q * CentMicros) * k <= GroupMicros * k
    <2>1. \A a, b, c \in Nat : a <= b => a * c <= b * c
      OBVIOUS
    <2> QED BY <1>1, <1>2, <2>1
  <1>4. GroupMicros * k <= GroupMicros * n
    <2>1. \A a, b, c \in Nat : a <= b => c * a <= c * b
      OBVIOUS
    <2> QED BY <1>1, <2>1
  <1>5. (q * k) * CentMicros <= GroupMicros * n
    BY <1>1, <1>2, <1>3, <1>4
  <1>6. ASSUME NEW a \in Nat, NEW c \in Nat \ {0}, NEW m \in Nat, m * c <= a
        PROVE  m <= a \div c
    BY <1>6
  <1>7. q * k \in Nat /\ GroupMicros * n \in Nat
    BY <1>1, <1>2
  <1> QED BY <1>1, <1>5, <1>6, <1>7 DEF q

\* A second refund of a group needs a key forgotten before the mark: one that
\* is refunded has its key or its mark.
RefundsKeyed ==
  /\ refunds \in [Groups -> Nat] /\ queued \in [Groups -> BOOLEAN]
  /\ refunding \subseteq refundKey
  /\ \A g \in Groups \ unmarked :
       /\ refunds[g] <= 1
       /\ refunds[g] = 1 => g \in refundKey \/ queued[g]

LEMMA RefundsKeyedStep == RefundsKeyed /\ [Next]_vars => RefundsKeyed'
PROOF
  <1> SUFFICES ASSUME RefundsKeyed, [Next]_vars PROVE RefundsKeyed'
    OBVIOUS
  <1>1. ASSUME NEW g \in Groups, Refund(g) PROVE RefundsKeyed'
    <2>1. /\ refunds' = [refunds EXCEPT ![g] = IF g \in refundKey THEN @ ELSE @ + 1]
          /\ refundKey' = refundKey \cup {g} /\ refunding' = refunding \cup {g}
          /\ ~queued[g] /\ UNCHANGED <<queued, unmarked>>
      BY <1>1 DEF Refund, Refunding
    <2>2. refunds' \in [Groups -> Nat]
      BY <2>1 DEF RefundsKeyed
    <2>3. ASSUME NEW h \in Groups \ unmarked
          PROVE  refunds'[h] <= 1 /\ (refunds'[h] = 1 => h \in refundKey' \/ queued'[h])
      <3>1. CASE h = g
        BY <2>1, <3>1 DEF RefundsKeyed
      <3>2. CASE h # g
        BY <2>1, <3>2 DEF RefundsKeyed
      <3> QED BY <3>1, <3>2
    <2> QED BY <2>1, <2>2, <2>3 DEF RefundsKeyed
  <1>2. ASSUME NEW g \in Groups, RefundMark(g) PROVE RefundsKeyed'
    <2>1. queued' \in [Groups -> BOOLEAN] /\ \A h \in Groups : queued[h] => queued'[h]
      BY <1>2 DEF RefundMark, RefundsKeyed
    <2>2. /\ UNCHANGED <<refunds, refundKey, unmarked>> /\ refunding' \subseteq refunding
      BY <1>2 DEF RefundMark
    <2> QED BY <2>1, <2>2 DEF RefundsKeyed
  <1>3. ASSUME NEW g \in Groups, RefundKeyExpires(g) PROVE RefundsKeyed'
    BY <1>3 DEF RefundKeyExpires, RefundsKeyed
  <1>4. ASSUME UNCHANGED refundVars PROVE RefundsKeyed'
    BY <1>4 DEF refundVars, RefundsKeyed
  <1>5. CASE ~ \E g \in Groups : Refund(g) \/ RefundMark(g) \/ RefundKeyExpires(g)
    <2>1. ASSUME NEW r \in Runs, RunStep(r) PROVE UNCHANGED refundVars
      <3>1. CASE \/ FetchView(r) \/ Acquire(r) \/ FetchPending(r) \/ Release(r)
                 \/ \E b \in Batches : Recover(r, b) \/ ReservePlan(r, b)
                 \/ SkipPlan(r) \/ Select(r) \/ ReleaseBatch(r) \/ Search(r)
        BY <3>1 DEF FetchView, Acquire, FetchPending, Release, Recover,
                    ReservePlan, SkipPlan, Select, ReleaseBatch, Search
      <3>2. CASE \/ CreateAgain(r) \/ \E p \in Intents : CreateNew(r, p)
                 \/ MarkCharged(r) \/ MarkFailed(r) \/ Pause(r) \/ Draw(r) \/ MarkBalance(r)
        BY <3>2 DEF CreateAgain, CreateNew, MarkCharged, MarkFailed, Pause, Draw, MarkBalance
      <3> QED BY <2>1, <3>1, <3>2 DEF RunStep
    <2>2. ASSUME NEW r \in Runs, Crash(r) \/ WriteFails(r) \/ ResolveFails(r)
          PROVE  UNCHANGED refundVars
      BY <2>2 DEF Crash, WriteFails, ResolveFails
    <2>3. ASSUME NEW g \in Groups, Reverse(g) \/ Clear(g) PROVE UNCHANGED refundVars
      BY <2>3 DEF Reverse, Clear
    <2>4. ASSUME \/ \E b \in Batches : KeyExpires(b)
                 \/ LockTimesOut \/ ChangeCard \/ FlipMode \/ Resume
          PROVE  UNCHANGED refundVars
      BY <2>4 DEF KeyExpires, LockTimesOut, ChangeCard, FlipMode, Resume
    <2>5. ASSUME UNCHANGED vars PROVE UNCHANGED refundVars
      BY <2>5 DEF vars
    <2>6. UNCHANGED refundVars
      BY <1>5, <2>1, <2>2, <2>3, <2>4, <2>5 DEF Next, RefundStep, WorldStep
    <2> QED BY <1>4, <2>6
  <1> QED BY <1>1, <1>2, <1>3, <1>5

\* While a lock never times out under a live request: the floored refunds of the
\* groups of an aggregate charge never add up to more than the charge, for any
\* prices and any size of a batch; and an impression is refunded twice only if
\* Stripe forgot the key of its refund before the review was marked.
THEOREM RefundsCoveredHolds ==
  ASSUME ~Overlaps
  PROVE  Spec => []RefundsCovered
PROOF
  <1>1. Inv /\ Traced /\ RefundsKeyed => RefundsCovered
    <2>0. RefundsKeyed => \A g \in Groups : refunds[g] <= 1 \/ g \in unmarked
      BY DEF RefundsKeyed
    <2> SUFFICES ASSUME Inv, Traced, RefundsKeyed, NEW p \in Intents
                 PROVE  RefundedCents(p) <= Cents(intent[p].groups)
      BY <2>0 DEF RefundsCovered
    <2> DEFINE A == {g \in Groups : intentOf[g] = p /\ refunds[g] > 0}
               B == intent[p].groups
    <2>1. A \subseteq B /\ B \subseteq Groups
      BY TracedIntent, BillingAssumption DEF Inv, Shape, IntentRecord
    <2>2. /\ Cardinality(A) \in Nat /\ Cardinality(B) \in Nat
          /\ Cardinality(A) <= Cardinality(B)
      <3>1. IsFiniteSet(B) /\ IsFiniteSet(A)
        BY <2>1, FS_Subset, BillingAssumption DEF BillingAssumption
      <3> QED BY <2>1, <3>1, FS_Subset, FS_CardinalityType
    <2>3. Cents({1}) = GroupMicros \div CentMicros
      <3>1. Cardinality({1}) = 1
        BY FS_Singleton
      <3> QED BY <3>1, BillingAssumption DEF Cents, BillingAssumption
    <2>4. (GroupMicros \div CentMicros) * Cardinality(A)
            <= (GroupMicros * Cardinality(B)) \div CentMicros
      BY <2>2, FloorsAddUp, BillingAssumption
    <2> QED BY <2>3, <2>4 DEF RefundedCents, Cents
  <1>2. Init => RefundsKeyed
    BY DEF Init, RefundsKeyed
  <1>3. Spec => []RefundsKeyed
    BY <1>2, RefundsKeyedStep, PTL DEF Spec
  <1> QED BY <1>1, <1>3, TracedAlways, PTL

-----------------------------------------------------------------------------
(* Types, whether or not a lock times out under a live request.            *)

\* A request past its choice has a batch in its hands.
Placed ==
  /\ run \in [Runs -> RunRecord]
  /\ \A r \in Runs : run[r].pc \in AtBatch => run[r].batch \in Batches

LEMMA PlacedBy ==
  ASSUME Placed, NEW r \in Runs, NEW x \in RunRecord, run' = [run EXCEPT ![r] = x],
         x.pc \in AtBatch => x.batch \in Batches
  PROVE  Placed'
PROOF
  BY DEF Placed

LEMMA PlacedAt ==
  ASSUME Placed, NEW r \in Runs, NEW pc \in PCs, NEW p \in Intents \cup {None},
         pc \in AtBatch => run[r].batch \in Batches,
         \/ run' = [run EXCEPT ![r].pc = pc]
         \/ run' = [run EXCEPT ![r].pc = pc, ![r].intent = p]
         \/ run' = [run EXCEPT ![r].intent = p, ![r].pc = pc]
  PROVE  Placed'
PROOF
  <1>1. run[r] \in RunRecord /\ run \in [Runs -> RunRecord]
    BY DEF Placed
  <1>2. CASE run' = [run EXCEPT ![r].pc = pc]
    <2> DEFINE x == [run[r] EXCEPT !.pc = pc]
    <2>1. x \in RunRecord /\ x.pc = pc /\ x.batch = run[r].batch
      BY <1>1 DEF RunRecord
    <2>2. run' = [run EXCEPT ![r] = x]
      BY <1>1, <1>2
    <2> HIDE DEF x
    <2> QED BY <2>1, <2>2, PlacedBy
  <1>3. CASE \/ run' = [run EXCEPT ![r].pc = pc, ![r].intent = p]
             \/ run' = [run EXCEPT ![r].intent = p, ![r].pc = pc]
    <2> DEFINE x == [run[r] EXCEPT !.pc = pc, !.intent = p]
    <2>1. x \in RunRecord /\ x.pc = pc /\ x.batch = run[r].batch
      BY <1>1 DEF RunRecord
    <2>2. run' = [run EXCEPT ![r] = x]
      BY <1>1, <1>3 DEF RunRecord
    <2> HIDE DEF x
    <2> QED BY <2>1, <2>2, PlacedBy
  <1> QED BY <1>2, <1>3

LEMMA PlacedBack ==
  ASSUME Placed, NEW r \in Runs, run' = Back(r)
  PROVE  Placed'
PROOF
  <1>1. run[r] \in RunRecord /\ run \in [Runs -> RunRecord]
    BY DEF Placed
  <1>2. BackTo(r) \in RunRecord /\ BackTo(r).pc = "loop" /\ "loop" \notin AtBatch
    BY <1>1 DEF BackTo, RunRecord, PCs, AtBatch
  <1>3. run' = [run EXCEPT ![r] = BackTo(r)]
    BY <1>1 DEF Back, BackTo
  <1> QED BY <1>2, <1>3, PlacedBy

LEMMA PlacedIdle ==
  ASSUME Placed, NEW r \in Runs, run' = [run EXCEPT ![r] = IdleRun]
  PROVE  Placed'
PROOF
  <1>1. IdleRun \in RunRecord /\ IdleRun.pc \notin AtBatch
    BY DEF IdleRun, RunRecord, PCs, Modes, AtBatch
  <1> QED BY <1>1, PlacedBy

\* Settling a batch starts with the request's next record.
LEMMA PlacedOn ==
  ASSUME Placed, card \in Cards \cup {None}, NEW r \in Runs, NEW b \in Batches, NEW way,
         NEW next \in RunRecord, next.pc = "loop", StartOn(r, b, way, next)
  PROVE  Placed'
PROOF
  <1>1. CASE way = "postpay" /\ card = None
    BY <1>1, PlacedBy DEF StartOn, AtBatch
  <1>2. CASE ~(way = "postpay" /\ card = None)
    <2> DEFINE x == [next EXCEPT !.pc = "select", !.batch = b,
                                 !.card = IF way = "postpay" THEN card ELSE None]
    <2>1. x \in RunRecord /\ x.batch = b
      <3>1. (IF way = "postpay" THEN card ELSE None) \in Cards \cup {None}
        OBVIOUS
      <3> QED BY <3>1 DEF RunRecord, PCs
    <2>2. run' = [run EXCEPT ![r] = x]
      BY <1>2 DEF StartOn
    <2> HIDE DEF x
    <2> QED BY <2>1, <2>2, PlacedBy
  <1> QED BY <1>1, <1>2

LEMMA PlacedStep ==
  ASSUME TypeOK, Placed, NEW r \in Runs,
         RunStep(r) \/ Crash(r) \/ WriteFails(r) \/ ResolveFails(r)
  PROVE  Placed'
PROOF
  <1>0. /\ run[r] \in RunRecord /\ run \in [Runs -> RunRecord]
        /\ run[r].pc \in AtBatch => run[r].batch \in Batches
    BY DEF Placed
  <1>1. CASE FetchView(r)
    <2> DEFINE x == [IdleRun EXCEPT !.pc = "lock", !.plan = Uncharged, !.mode = mode]
    <2>1. Uncharged \in SUBSET Groups /\ mode \in Modes
      BY DEF Uncharged, TypeOK
    <2>2. x \in RunRecord /\ x.pc = "lock"
      BY <2>1 DEF IdleRun, RunRecord, PCs, Modes
    <2>3. run' = [run EXCEPT ![r] = x]
      BY <1>1 DEF FetchView
    <2> HIDE DEF x
    <2> QED BY <2>2, <2>3, PlacedBy DEF AtBatch
  <1>2. CASE Acquire(r)
    <2>1. "fetch" \in PCs \ AtBatch /\ run[r].intent \in Intents \cup {None}
      BY <1>0 DEF PCs, AtBatch, RunRecord
    <2> QED BY <1>2, <2>1, PlacedAt, PlacedIdle DEF Acquire
  <1>3. CASE FetchPending(r)
    <2> DEFINE x == [run[r] EXCEPT !.pc = "loop", !.todo = {b \in Batches : Pending(b) # {}}]
    <2>1. "loop" \in PCs \ AtBatch /\ run[r].intent \in Intents \cup {None}
      BY <1>0 DEF PCs, AtBatch, RunRecord
    <2>2. x \in RunRecord /\ x.pc = "loop"
      BY <1>0, <2>1 DEF RunRecord
    <2>3. \/ run' = [run EXCEPT ![r] = x]
          \/ run' = [run EXCEPT ![r].pc = "loop"]
      BY <1>0, <1>3 DEF FetchPending
    <2> HIDE DEF x
    <2> QED BY <2>1, <2>2, <2>3, PlacedBy, PlacedAt
  <1>4. CASE Release(r) \/ Crash(r)
    BY <1>4, PlacedIdle DEF Release, Crash
  <1>5. ASSUME NEW b \in Batches, Recover(r, b) PROVE Placed'
    <2> DEFINE next == [run[r] EXCEPT !.todo = @ \ {b}]
    <2>1. next \in RunRecord /\ next.pc = "loop"
      BY <1>0, <1>5 DEF Recover, RunRecord
    <2>2. StartOn(r, b, Route(b), next) /\ card \in Cards \cup {None}
      BY <1>5 DEF Recover, TypeOK
    <2> HIDE DEF next
    <2> QED BY <2>1, <2>2, PlacedOn
  <1>6. ASSUME NEW b \in Batches, ReservePlan(r, b) PROVE Placed'
    <2> DEFINE next == [run[r] EXCEPT !.plan = {}]
    <2>1. next \in RunRecord /\ next.pc = "loop"
      BY <1>0, <1>6 DEF ReservePlan, RunRecord
    <2>2. StartOn(r, b, run[r].mode, next) /\ card \in Cards \cup {None}
      BY <1>6 DEF ReservePlan, TypeOK
    <2> HIDE DEF next
    <2> QED BY <2>1, <2>2, PlacedOn
  <1>7. ASSUME run[r].pc = "loop",
               \/ run' = [run EXCEPT ![r].plan = {}]
               \/ \E b \in run[r].todo : run' = [run EXCEPT ![r].todo = @ \ {b}]
        PROVE  Placed'
    <2>1. CASE run' = [run EXCEPT ![r].plan = {}]
      <3> DEFINE x == [run[r] EXCEPT !.plan = {}]
      <3>1. x \in RunRecord /\ x.pc = "loop"
        BY <1>0, <1>7 DEF RunRecord
      <3>2. run' = [run EXCEPT ![r] = x]
        BY <1>0, <2>1
      <3> HIDE DEF x
      <3> QED BY <3>1, <3>2, PlacedBy DEF AtBatch
    <2>2. ASSUME NEW b \in run[r].todo, run' = [run EXCEPT ![r].todo = @ \ {b}] PROVE Placed'
      <3> DEFINE x == [run[r] EXCEPT !.todo = @ \ {b}]
      <3>1. x \in RunRecord /\ x.pc = "loop"
        BY <1>0, <1>7 DEF RunRecord
      <3>2. run' = [run EXCEPT ![r] = x]
        BY <1>0, <2>2
      <3> HIDE DEF x
      <3> QED BY <3>1, <3>2, PlacedBy DEF AtBatch
    <2> QED BY <1>7, <2>1, <2>2
  <1>8. CASE SkipPlan(r) \/ ResolveFails(r)
    BY <1>7, <1>8 DEF SkipPlan, ResolveFails
  <1>9. CASE Select(r)
    <2> DEFINE S == Pending(run[r].batch)
               pc == IF route[run[r].batch] = "prepay" THEN "draw"
                     ELSE IF Cents(S) < MinCents THEN "release"
                     ELSE "search"
               x == [run[r] EXCEPT !.set = S, !.pc = pc]
    <2>1. S \in SUBSET Groups /\ pc \in PCs /\ run[r].batch \in Batches
      BY <1>0, <1>9 DEF Select, Pending, PCs, AtBatch
    <2>2. run' = Back(r) \/ run' = [run EXCEPT ![r].set = S, ![r].pc = pc]
      BY <1>9 DEF Select
    <2> HIDE DEF S, pc
    <2>3. x \in RunRecord /\ x.batch = run[r].batch
      BY <1>0, <2>1 DEF RunRecord
    <2>4. run' = Back(r) \/ run' = [run EXCEPT ![r] = x]
      BY <1>0, <2>2
    <2> HIDE DEF x
    <2> QED BY <2>1, <2>3, <2>4, PlacedBy, PlacedBack
  <1>10. CASE \/ ReleaseBatch(r) \/ MarkCharged(r) \/ MarkBalance(r) \/ Pause(r)
    BY <1>10, PlacedBack DEF ReleaseBatch, MarkCharged, MarkBalance, Pause
  <1>11. ASSUME run[r].pc \in AtBatch, NEW pc \in PCs, NEW p \in Intents \cup {None},
                \/ run' = Back(r)
                \/ run' = [run EXCEPT ![r].pc = pc]
                \/ run' = [run EXCEPT ![r].pc = pc, ![r].intent = p]
                \/ run' = [run EXCEPT ![r].intent = p, ![r].pc = pc]
         PROVE  Placed'
    BY <1>0, <1>11, PlacedAt, PlacedBack
  <1>12. CASE Search(r)
    <2>1. \/ run' = [run EXCEPT ![r].pc = "create"]
          \/ \E p \in Intents : run' = [run EXCEPT ![r].pc = "mark", ![r].intent = p]
      BY <1>12 DEF Search, Charged
    <2>2. {"create", "mark"} \subseteq PCs /\ run[r].pc \in AtBatch /\ None \in Intents \cup {None}
      BY <1>12 DEF Search, PCs, AtBatch
    <2> QED BY <2>1, <2>2, <1>11
  <1>13. ASSUME run[r].pc = "create", NEW p \in Intents, NEW status, Answered(r, p, status)
         PROVE  Placed'
    <2> DEFINE pc == IF status = "succeeded" THEN "mark" ELSE "fail"
    <2>1. run' = Back(r) \/ run' = [run EXCEPT ![r].intent = p, ![r].pc = pc]
      BY <1>13 DEF Answered
    <2>2. pc \in PCs /\ run[r].pc \in AtBatch
      BY <1>13 DEF PCs, AtBatch
    <2> HIDE DEF pc
    <2> QED BY <2>1, <2>2, <1>11
  <1>14. CASE CreateAgain(r)
    <2>1. run[r].pc = "create" /\ run[r].batch \in Batches
      BY <1>0, <1>14 DEF CreateAgain, AtBatch
    <2>2. key[run[r].batch] \in Intents
      BY <1>14, <2>1 DEF CreateAgain, TypeOK
    <2> QED BY <1>13, <1>14, <2>1, <2>2, PlacedBack DEF CreateAgain
  <1>15. CASE \E p \in Intents : CreateNew(r, p)
    BY <1>13, <1>15 DEF CreateNew
  <1>16. CASE MarkFailed(r) \/ Draw(r) \/ WriteFails(r)
    <2>1. /\ {"pause", "markBalance"} \subseteq PCs /\ run[r].pc \in AtBatch
          /\ None \in Intents \cup {None}
      BY <1>16 DEF MarkFailed, Draw, WriteFails, PCs, AtBatch
    <2>2. \/ run' = Back(r)
          \/ run' = [run EXCEPT ![r].pc = "pause"] \/ run' = [run EXCEPT ![r].pc = "markBalance"]
      BY <1>16 DEF MarkFailed, Draw, WriteFails
    <2> QED BY <2>1, <2>2, <1>11
  <1> QED BY <1>1, <1>2, <1>3, <1>4, <1>5, <1>6, <1>8, <1>9, <1>10, <1>12, <1>14, <1>15,
             <1>16 DEF RunStep

\* The columns that a request writes.
LEMMA TypedRunStep ==
  ASSUME TypeOK, Placed, NEW r \in Runs,
         RunStep(r) \/ Crash(r) \/ WriteFails(r) \/ ResolveFails(r)
  PROVE  TypeOK'
PROOF
  <1>0. /\ run[r] \in RunRecord /\ BillingAssumption
        /\ run[r].pc \in AtBatch => run[r].batch \in Batches
    BY BillingAssumption DEF Placed
  <1>1. run' \in [Runs -> RunRecord]
    BY PlacedStep DEF Placed
  <1>2. faults' \in 0..MaxFaults /\ changes' \in 0..MaxChanges
    <2>1. UNCHANGED changes /\ (UNCHANGED faults \/ (faults < MaxFaults /\ faults' = faults + 1))
      BY DEF RunStep, FetchView, Acquire, FetchPending, Release, Recover, StartOn, ReservePlan,
             SkipPlan, Select, ReleaseBatch, Search, CreateAgain, CreateNew, Answered,
             MarkCharged, MarkFailed, Pause, Draw, MarkBalance, Crash, WriteFails, ResolveFails
    <2> QED BY <1>0, <2>1 DEF TypeOK, BillingAssumption
  <1>3. /\ UNCHANGED <<group, mode, refundVars, card>>
        /\ serving' \in BOOLEAN /\ lock' \in Runs \cup {None}
    BY DEF RunStep, FetchView, Acquire, FetchPending, Release, Recover, StartOn, ReservePlan,
           SkipPlan, Select, ReleaseBatch, Search, CreateAgain, CreateNew, Answered,
           MarkCharged, MarkFailed, Pause, Draw, MarkBalance, Crash, WriteFails, ResolveFails,
           stripeVars, TypeOK
  <1>4. /\ row' \in [Groups -> {"none", "pending", "succeeded", "failed"}]
        /\ batch' \in [Groups -> Batches \cup {None}]
        /\ intentOf' \in [Groups -> Intents \cup {None}]
        /\ settled' \in [Groups -> {"stripe", "balance"}]
        /\ route' \in [Batches -> Modes \cup {"none"}]
    <2>1. CASE UNCHANGED <<rowVars, route>>
      BY <2>1 DEF rowVars, TypeOK
    <2>2. ASSUME NEW b \in Batches, ReservePlan(r, b)
          PROVE  \/ UNCHANGED <<rowVars, route>>
                 \/ /\ row' \in [Groups -> {"none", "pending", "succeeded", "failed"}]
                    /\ batch' \in [Groups -> Batches \cup {None}]
                    /\ UNCHANGED <<intentOf, settled>>
                    /\ route' \in [Batches -> Modes \cup {"none"}]
      <3>1. FrozenRoute(r) \in Modes
        BY <1>0 DEF FrozenRoute, RunRecord
      <3>2. CASE UNCHANGED <<rowVars, route>>
        BY <3>2
      <3>3. CASE /\ row' = [g \in Groups |-> IF g \in Reservable(r) THEN "pending" ELSE row[g]]
                 /\ batch' = [g \in Groups |-> IF g \in Reservable(r) THEN b ELSE batch[g]]
                 /\ route' = [route EXCEPT ![b] = FrozenRoute(r)]
                 /\ UNCHANGED <<intentOf, settled>>
        <4>1. row' \in [Groups -> {"none", "pending", "succeeded", "failed"}]
          BY <3>3 DEF TypeOK
        <4>2. batch' \in [Groups -> Batches \cup {None}]
          BY <3>3 DEF TypeOK
        <4>3. route' \in [Batches -> Modes \cup {"none"}]
          BY <3>1, <3>3 DEF TypeOK
        <4> QED BY <3>3, <4>1, <4>2, <4>3
      <3> QED BY <2>2, <3>2, <3>3 DEF ReservePlan
    <2>3. CASE ReleaseBatch(r)
      BY <2>3 DEF ReleaseBatch, TypeOK
    <2>4. CASE MarkCharged(r)
      <3>1. run[r].intent \in Intents \cup {None}
        BY <1>0 DEF RunRecord
      <3> QED BY <2>4, <3>1 DEF MarkCharged, Promote, TypeOK
    <2>5. CASE MarkFailed(r) \/ MarkBalance(r)
      BY <2>5 DEF MarkFailed, MarkBalance, Promote, TypeOK
    <2>6. \/ UNCHANGED <<rowVars, route>>
          \/ \E b \in Batches : ReservePlan(r, b)
          \/ ReleaseBatch(r) \/ MarkCharged(r) \/ MarkFailed(r) \/ MarkBalance(r)
      BY DEF RunStep, FetchView, Acquire, FetchPending, Release, Recover, SkipPlan, Select,
             Search, CreateAgain, CreateNew, Pause, Draw, Crash, WriteFails, ResolveFails
    <2> QED BY <2>1, <2>2, <2>3, <2>4, <2>5, <2>6 DEF TypeOK
  <1>5. /\ intent' \in [Intents -> IntentRecord]
        /\ key' \in [Batches -> Intents \cup {None}]
    <2>1. CASE UNCHANGED <<intent, key>>
      BY <2>1 DEF TypeOK, IntentRecord
    <2>2. ASSUME NEW p \in Intents, CreateNew(r, p)
          PROVE  /\ intent' \in [Intents -> IntentRecord]
                 /\ key' \in [Batches -> Intents \cup {None}]
      <3>1. /\ run[r].batch \in Batches \cup {None} /\ run[r].set \in SUBSET Groups
            /\ run[r].card \in Cards \cup {None}
        BY <1>0 DEF RunRecord
      <3>2. PICK status \in {"succeeded", "declined"} :
              intent' = [intent EXCEPT ![p] = [status |-> status, batch |-> run[r].batch,
                           groups |-> run[r].set, card |-> run[r].card]]
        BY <2>2 DEF CreateNew
      <3>3. [status |-> status, batch |-> run[r].batch, groups |-> run[r].set,
             card |-> run[r].card] \in IntentRecord
        BY <3>1 DEF IntentRecord
      <3>4. intent' \in [Intents -> IntentRecord]
        BY <3>2, <3>3 DEF TypeOK, IntentRecord
      <3>5. key' \in [Batches -> Intents \cup {None}]
        BY <2>2 DEF CreateNew, TypeOK
      <3> QED BY <3>4, <3>5
    <2>3. UNCHANGED <<intent, key>> \/ \E p \in Intents : CreateNew(r, p)
      BY DEF RunStep, FetchView, Acquire, FetchPending, Release, Recover, ReservePlan, SkipPlan,
             Select, ReleaseBatch, Search, CreateAgain, MarkCharged, MarkFailed, Pause, Draw,
             MarkBalance, Crash, WriteFails, ResolveFails, stripeVars
    <2> QED BY <2>1, <2>2, <2>3
  <1>6. drawn' \in [Batches -> SUBSET Groups]
    <2>1. CASE Draw(r)
      <3>1. run[r].set \in SUBSET Groups
        BY <1>0 DEF RunRecord
      <3> QED BY <2>1, <3>1 DEF Draw, TypeOK
    <2>2. CASE ~Draw(r)
      BY <2>2 DEF RunStep, FetchView, Acquire, FetchPending, Release, Recover, ReservePlan,
             SkipPlan, Select, ReleaseBatch, Search, CreateAgain, CreateNew, MarkCharged,
             MarkFailed, Pause, MarkBalance, Crash, WriteFails, ResolveFails, TypeOK
    <2> QED BY <2>1, <2>2
  <1>7. missed' \in SUBSET Batches
    <2>1. CASE Search(r)
      BY <1>0, <2>1 DEF Search, AtBatch, TypeOK
    <2>2. CASE ~Search(r)
      BY <2>2 DEF RunStep, FetchView, Acquire, FetchPending, Release, Recover, ReservePlan,
             SkipPlan, Select, ReleaseBatch, CreateAgain, CreateNew, MarkCharged, MarkFailed,
             Pause, Draw, MarkBalance, Crash, WriteFails, ResolveFails, stripeVars, TypeOK
    <2> QED BY <2>1, <2>2
  <1> QED BY <1>1, <1>2, <1>3, <1>4, <1>5, <1>6, <1>7
          DEF TypeOK, RunRecord, IntentRecord, refundVars

LEMMA TypedAlways == Spec => [](TypeOK /\ Placed)
PROOF
  <1>1. Init => TypeOK /\ Placed
    <2>1. IdleRun \in RunRecord /\ IdleRun.pc \notin AtBatch
      BY DEF IdleRun, RunRecord, PCs, Modes, AtBatch
    <2> QED BY <2>1, BillingAssumption
            DEF Init, TypeOK, Placed, RunRecord, Modes, NoIntent, BillingAssumption
  <1>2. TypeOK /\ Placed /\ [Next]_vars => TypeOK' /\ Placed'
    <2> SUFFICES ASSUME TypeOK, Placed, [Next]_vars PROVE TypeOK' /\ Placed'
      OBVIOUS
    <2>1. CASE \E r \in Runs : RunStep(r) \/ Crash(r) \/ WriteFails(r) \/ ResolveFails(r)
      BY <2>1, PlacedStep, TypedRunStep
    <2>2. CASE (\E g \in Groups : RefundStep(g)) \/ WorldStep \/ UNCHANGED vars
      <3>1. UNCHANGED run
        BY <2>2 DEF RefundStep, Reverse, Refund, Refunding, RefundMark, WorldStep, Clear,
             KeyExpires, RefundKeyExpires,
             LockTimesOut, ChangeCard, FlipMode, Resume, vars
      <3>2. Placed'
        BY <3>1 DEF Placed
      <3>3. UNCHANGED <<row, batch, intentOf, settled, route, intent, missed, drawn>>
        BY <2>2 DEF RefundStep, Reverse, Refund, Refunding, RefundMark, WorldStep, Clear,
             KeyExpires, RefundKeyExpires,
             LockTimesOut, ChangeCard, FlipMode, Resume, vars, rowVars, stripeVars
      <3>4. /\ group' \in [Groups -> {"none", "cleared", "reversed"}]
            /\ queued' \in [Groups -> BOOLEAN]
            /\ refunds' \in [Groups -> Nat]
            /\ refunding' \in SUBSET Groups /\ refundKey' \in SUBSET Groups
            /\ unmarked' \in SUBSET Groups
        <4>1. ASSUME NEW g \in Groups, Clear(g) \/ Reverse(g)
              PROVE  /\ group' \in [Groups -> {"none", "cleared", "reversed"}]
                     /\ UNCHANGED refundVars
          BY <4>1 DEF Clear, Reverse, TypeOK
        <4>2. ASSUME NEW g \in Groups, Refund(g)
              PROVE  /\ refunds' \in [Groups -> Nat] /\ refunding' \in SUBSET Groups
                     /\ refundKey' \in SUBSET Groups /\ UNCHANGED <<group, queued, unmarked>>
          <5>1. (IF g \in refundKey THEN refunds[g] ELSE refunds[g] + 1) \in Nat
            BY DEF TypeOK
          <5> QED BY <4>2, <5>1 DEF Refund, Refunding, TypeOK
        <4>3. ASSUME NEW g \in Groups, RefundMark(g)
              PROVE  /\ queued' \in [Groups -> BOOLEAN] /\ refunding' \in SUBSET Groups
                     /\ UNCHANGED <<group, refunds, refundKey, unmarked>>
          BY <4>3 DEF RefundMark, TypeOK
        <4>4. ASSUME NEW g \in Groups, RefundKeyExpires(g)
              PROVE  /\ refundKey' \in SUBSET Groups /\ unmarked' \in SUBSET Groups
                     /\ UNCHANGED <<group, queued, refunds, refunding>>
          BY <4>4 DEF RefundKeyExpires, TypeOK
        <4>5. \/ \E g \in Groups : \/ Clear(g) \/ Reverse(g) \/ Refund(g) \/ RefundMark(g)
                                   \/ RefundKeyExpires(g)
              \/ UNCHANGED <<group, refundVars>>
          BY <2>2 DEF RefundStep, WorldStep, KeyExpires, LockTimesOut, ChangeCard, FlipMode,
               Resume, vars
        <4> QED BY <4>1, <4>2, <4>3, <4>5, <4>4 DEF refundVars, TypeOK
      <3>5. /\ mode' \in Modes /\ serving' \in BOOLEAN /\ lock' \in Runs \cup {None}
            /\ card' \in Cards \cup {None} /\ key' \in [Batches -> Intents \cup {None}]
        <4>1. CASE ChangeCard \/ FlipMode \/ Resume \/ LockTimesOut
          BY <4>1 DEF LockTimesOut, ChangeCard, FlipMode, Resume, stripeVars, TypeOK
        <4>2. CASE \E b \in Batches : KeyExpires(b)
          BY <4>2 DEF KeyExpires, TypeOK
        <4>3. CASE UNCHANGED <<mode, serving, lock, stripeVars>>
          BY <4>3 DEF stripeVars, TypeOK
        <4> QED BY <2>2, <4>1, <4>2, <4>3 DEF RefundStep, Reverse, Refund, Refunding, RefundMark,
                 WorldStep, Clear, RefundKeyExpires, vars
      <3>6. faults' \in 0..MaxFaults /\ changes' \in 0..MaxChanges
        <4>1. /\ UNCHANGED faults \/ (faults < MaxFaults /\ faults' = faults + 1)
              /\ UNCHANGED changes \/ (changes < MaxChanges /\ changes' = changes + 1)
          BY <2>2 DEF RefundStep, Reverse, Refund, Refunding, RefundMark, WorldStep, Clear,
             KeyExpires, RefundKeyExpires,
               LockTimesOut, ChangeCard, FlipMode, Resume, vars
        <4> QED BY <4>1, BillingAssumption DEF TypeOK, BillingAssumption
      <3>7. TypeOK'
        BY <3>1, <3>3, <3>4, <3>5, <3>6 DEF TypeOK
      <3> QED BY <3>2, <3>7
    <2> QED BY <2>1, <2>2 DEF Next
  <1> QED BY <1>1, <1>2, PTL DEF Spec

\* Every variable keeps its type, also when a lock times out under a live request.
THEOREM BillingTyped == Spec => []TypeOK
PROOF
  BY TypedAlways, PTL

-----------------------------------------------------------------------------
(* What a batch and a settled row keep, whether or not a lock times out.   *)

\* No batch is charged by two PaymentIntents (note A1 of settleBatch), unless a
\* search erred after Stripe had forgotten the key of its charge.
BatchChargedOnce ==
  \A b \in Batches : \A p, q \in Charged(b) : p = q \/ b \in missed

\* A request about to create finds the charge of its batch, if there is one,
\* under the key, unless a search of the batch has missed it.
CreatesKnow ==
  \A r \in Runs : run[r].pc = "create" => run[r].batch \in missed \/
    \A p \in Charged(run[r].batch) : key[run[r].batch] = p

\* No request has come to its creation in this step.
NoneArrives ==
  \A r \in Runs : run'[r].pc = "create" => run[r].pc = "create" /\ run'[r].batch = run[r].batch

LEMMA ChargeStays ==
  ASSUME OneCharge, CreatesKnow, NoneArrives, UNCHANGED <<intent, key, missed>>
  PROVE  OneCharge' /\ CreatesKnow'
PROOF
  <1>1. \A b : Charged(b)' = Charged(b)
    BY DEF Charged
  <1> QED BY <1>1 DEF OneCharge, CreatesKnow, NoneArrives

\* Only a search leads to a creation.
LEMMA ArrivesBySearch ==
  ASSUME TypeOK, Placed, NEW r \in Runs,
         RunStep(r) \/ Crash(r) \/ WriteFails(r) \/ ResolveFails(r), ~Search(r)
  PROVE  NoneArrives
PROOF
  <1>0. run[r] \in RunRecord /\ run \in [Runs -> RunRecord]
    BY DEF Placed
  <1>1. ASSUME NEW x, x.pc # "create", run' = [run EXCEPT ![r] = x] PROVE NoneArrives
    BY <1>0, <1>1 DEF NoneArrives
  <1>2. CASE run' = Back(r)
    <2>1. run' = [run EXCEPT ![r] = BackTo(r)] /\ BackTo(r).pc = "loop"
      BY <1>0, <1>2 DEF Back, BackTo, RunRecord
    <2> QED BY <1>1, <2>1
  <1>3. ASSUME NEW pc, pc # "create", NEW p,
               \/ run' = [run EXCEPT ![r].pc = pc]
               \/ run' = [run EXCEPT ![r].intent = p, ![r].pc = pc]
        PROVE  NoneArrives
    <2>1. CASE run' = [run EXCEPT ![r].pc = pc]
      BY <1>0, <1>3, <2>1 DEF NoneArrives, RunRecord
    <2>2. CASE run' = [run EXCEPT ![r].intent = p, ![r].pc = pc]
      BY <1>0, <1>3, <2>2 DEF NoneArrives, RunRecord
    <2> QED BY <1>3, <2>1, <2>2
  <1>4. CASE FetchView(r) \/ Acquire(r) \/ Release(r) \/ Crash(r)
    <2>1. IdleRun.pc # "create"
      BY DEF IdleRun
    <2>2. CASE run' = [run EXCEPT ![r] = IdleRun]
      BY <1>1, <2>1, <2>2
    <2>3. CASE FetchView(r)
      <3> DEFINE x == [IdleRun EXCEPT !.pc = "lock", !.plan = Uncharged, !.mode = mode]
      <3>1. x.pc = "lock"
        BY DEF IdleRun
      <3>2. run' = [run EXCEPT ![r] = x]
        BY <2>3 DEF FetchView
      <3> HIDE DEF x
      <3> QED BY <1>1, <3>1, <3>2
    <2>4. CASE run' = [run EXCEPT ![r].pc = "fetch"]
      BY <1>3, <2>4
    <2> QED BY <1>4, <2>2, <2>3, <2>4 DEF Acquire, Release, Crash
  <1>5. CASE FetchPending(r) \/ SkipPlan(r) \/ ResolveFails(r)
    BY <1>0, <1>5 DEF FetchPending, SkipPlan, ResolveFails, NoneArrives, RunRecord
  <1>6. ASSUME NEW b, NEW way, NEW next \in RunRecord, next.pc = "loop",
               StartOn(r, b, way, next)
        PROVE  NoneArrives
    <2>1. CASE way = "postpay" /\ card = None
      BY <1>1, <1>6, <2>1 DEF StartOn
    <2>2. CASE ~(way = "postpay" /\ card = None)
      <3> DEFINE x == [next EXCEPT !.pc = "select", !.batch = b,
                                   !.card = IF way = "postpay" THEN card ELSE None]
      <3>1. x.pc = "select"
        BY DEF RunRecord
      <3>2. run' = [run EXCEPT ![r] = x]
        BY <1>6, <2>2 DEF StartOn
      <3> HIDE DEF x
      <3> QED BY <1>1, <3>1, <3>2
    <2> QED BY <2>1, <2>2
  <1>7. ASSUME NEW b \in Batches, Recover(r, b) PROVE NoneArrives
    <2> DEFINE next == [run[r] EXCEPT !.todo = @ \ {b}]
    <2>1. next \in RunRecord /\ next.pc = "loop"
      BY <1>0, <1>7 DEF Recover, RunRecord
    <2>2. StartOn(r, b, Route(b), next)
      BY <1>7 DEF Recover
    <2> HIDE DEF next
    <2> QED BY <1>6, <2>1, <2>2
  <1>8. ASSUME NEW b \in Batches, ReservePlan(r, b) PROVE NoneArrives
    <2> DEFINE next == [run[r] EXCEPT !.plan = {}]
    <2>1. next \in RunRecord /\ next.pc = "loop"
      BY <1>0, <1>8 DEF ReservePlan, RunRecord
    <2>2. StartOn(r, b, run[r].mode, next)
      BY <1>8 DEF ReservePlan
    <2> HIDE DEF next
    <2> QED BY <1>6, <2>1, <2>2
  <1>9. CASE Select(r)
    <2> DEFINE S == Pending(run[r].batch)
               pc == IF route[run[r].batch] = "prepay" THEN "draw"
                     ELSE IF Cents(S) < MinCents THEN "release"
                     ELSE "search"
    <2>1. run' = Back(r) \/ run' = [run EXCEPT ![r].set = S, ![r].pc = pc]
      BY <1>9 DEF Select
    <2>2. pc # "create"
      OBVIOUS
    <2> HIDE DEF S, pc
    <2>3. CASE run' = [run EXCEPT ![r].set = S, ![r].pc = pc]
      BY <1>0, <2>2, <2>3 DEF NoneArrives, RunRecord
    <2> QED BY <1>2, <2>1, <2>3
  <1>10. CASE ReleaseBatch(r) \/ MarkCharged(r) \/ MarkBalance(r) \/ Pause(r)
    BY <1>2, <1>10 DEF ReleaseBatch, MarkCharged, MarkBalance, Pause
  <1>11. ASSUME NEW p, NEW status, Answered(r, p, status) PROVE NoneArrives
    <2> DEFINE pc == IF status = "succeeded" THEN "mark" ELSE "fail"
    <2>1. run' = Back(r) \/ run' = [run EXCEPT ![r].intent = p, ![r].pc = pc]
      BY <1>11 DEF Answered
    <2>2. pc # "create"
      OBVIOUS
    <2> HIDE DEF pc
    <2> QED BY <1>2, <1>3, <2>1, <2>2
  <1>12. CASE CreateAgain(r) \/ \E p \in Intents : CreateNew(r, p)
    BY <1>2, <1>11, <1>12 DEF CreateAgain, CreateNew
  <1>13. CASE MarkFailed(r) \/ Draw(r) \/ WriteFails(r)
    BY <1>2, <1>3, <1>13 DEF MarkFailed, Draw, WriteFails
  <1> QED BY <1>4, <1>5, <1>7, <1>8, <1>9, <1>10, <1>12, <1>13 DEF RunStep

\* A request that finds nothing may create only under a key in force, or
\* when there is nothing to find.
LEMMA SearchKnows ==
  ASSUME TypeOK, Placed, OneCharge, CreatesKnow, NEW r \in Runs, Search(r)
  PROVE  OneCharge' /\ CreatesKnow'
PROOF
  <1>0. /\ run[r] \in RunRecord /\ run \in [Runs -> RunRecord] /\ run[r].batch \in Batches
        /\ UNCHANGED <<intent, key>> /\ missed \subseteq missed'
    BY DEF Placed, Search, AtBatch
  <1>1. \A b : Charged(b)' = Charged(b)
    BY <1>0 DEF Charged
  <1>2. OneCharge'
    BY <1>0, <1>1 DEF OneCharge
  <1>3. CASE /\ \/ Charged(run[r].batch) = {} \/ key[run[r].batch] # None
                \/ run[r].batch \in missed'
             /\ run' = [run EXCEPT ![r].pc = "create"]
    <2>1. run[r].batch \in missed' \/ \A p \in Charged(run[r].batch) : key[run[r].batch] = p
      BY <1>0, <1>3 DEF OneCharge
    <2>2. /\ run'[r].batch = run[r].batch
          /\ \A q \in Runs \ {r} : run'[q] = run[q]
      BY <1>0, <1>3 DEF RunRecord
    <2>3. ASSUME NEW q \in Runs, run'[q].pc = "create", NEW p \in Charged(run'[q].batch)
          PROVE  run'[q].batch \in missed' \/ key[run'[q].batch] = p
      BY <1>0, <2>1, <2>2, <2>3 DEF CreatesKnow
    <2>4. CreatesKnow'
      BY <1>0, <1>1, <2>3 DEF CreatesKnow
    <2> QED BY <1>2, <2>4
  <1>4. CASE missed' = missed /\ \E p \in Charged(run[r].batch) :
               run' = [run EXCEPT ![r].pc = "mark", ![r].intent = p]
    <2>1. NoneArrives
      BY <1>0, <1>4 DEF NoneArrives, RunRecord
    <2> QED BY <1>0, <1>4, <2>1, ChargeStays
  <1> QED BY <1>3, <1>4 DEF Search

\* A new charge goes under a key that was free, so there was none.
LEMMA CreateNewKnows ==
  ASSUME BillingAssumption, TypeOK, Placed, OneCharge, CreatesKnow,
         NEW r \in Runs, NEW p \in Intents, CreateNew(r, p), NoneArrives
  PROVE  OneCharge' /\ CreatesKnow'
PROOF
  <1>0. run[r] \in RunRecord /\ run[r].pc = "create" /\ run[r].batch \in Batches
    BY DEF Placed, CreateNew, AtBatch
  <1>1. PICK b \in Batches : b = run[r].batch
    BY <1>0
  <1>2. key[b] = None /\ (b \in missed \/ Charged(b) = {}) /\ missed' = missed
    BY <1>0, <1>1 DEF CreateNew, CreatesKnow, Charged, BillingAssumption
  <1>3. key' = [key EXCEPT ![b] = p] /\ Unused(p)
    BY <1>1 DEF CreateNew
  <1>4. PICK x \in IntentRecord : intent' = [intent EXCEPT ![p] = x] /\ x.batch = b
    <2>1. PICK status \in {"succeeded", "declined"} :
            intent' = [intent EXCEPT ![p] = [status |-> status, batch |-> run[r].batch,
                         groups |-> run[r].set, card |-> run[r].card]]
      BY DEF CreateNew
    <2>2. [status |-> status, batch |-> run[r].batch, groups |-> run[r].set,
           card |-> run[r].card] \in IntentRecord
      BY <1>0 DEF RunRecord, IntentRecord
    <2> QED BY <1>1, <2>1, <2>2
  <1>5. Charged(b)' \subseteq Charged(b) \cup {p} /\ key'[b] = p
    BY <1>2, <1>3, <1>4 DEF Charged, TypeOK, IntentRecord
  <1>6. \A c \in Batches \ {b} : Charged(c)' = Charged(c) /\ key'[c] = key[c]
    BY <1>3, <1>4 DEF Charged, Unused, TypeOK, IntentRecord
  <1>7. OneCharge'
    BY <1>2, <1>5, <1>6 DEF OneCharge
  <1>8. ASSUME NEW q \in Runs, run'[q].pc = "create"
        PROVE  run'[q].batch \in missed \/
                 \A i \in Charged(run[q].batch)' : key'[run'[q].batch] = i
    <2>1. run[q].pc = "create" /\ run'[q].batch = run[q].batch /\ run[q].batch \in Batches
      BY <1>8 DEF NoneArrives, Placed, AtBatch
    <2>2. PICK c \in Batches : c = run[q].batch
      BY <2>1
    <2>3. Charged(run[q].batch)' = Charged(c)'
      BY <2>1, <2>2 DEF Charged
    <2>4. c \in missed \/ \A i \in Charged(c)' : key'[c] = i
      BY <1>2, <1>5, <1>6, <2>1, <2>2 DEF CreatesKnow
    <2> QED BY <2>1, <2>2, <2>3, <2>4
  <1>9. CreatesKnow'
    BY <1>2, <1>8, NoneArrives DEF CreatesKnow, Charged, NoneArrives
  <1> QED BY <1>7, <1>9

\* A key is not forgotten under a request that may use it.
LEMMA KeyExpiresKnows ==
  ASSUME TypeOK, OneCharge, CreatesKnow, NEW b \in Batches, KeyExpires(b)
  PROVE  OneCharge' /\ CreatesKnow'
PROOF
  <1>1. missed' = missed /\ \A c : Charged(c)' = Charged(c)
    BY DEF KeyExpires, Charged
  <1>2. \A c \in Batches : key'[c] = IF c = b THEN None ELSE key[c]
    BY DEF KeyExpires, TypeOK
  <1>3. OneCharge'
    BY <1>1, <1>2 DEF OneCharge
  <1>4. \A r \in Runs : run'[r] = run[r] /\ run[r].batch # b
    BY DEF KeyExpires
  <1>5. \A c : c # b => key'[c] = key[c]
    BY DEF KeyExpires, TypeOK
  <1>6. CreatesKnow'
    BY <1>1, <1>4, <1>5 DEF CreatesKnow
  <1> QED BY <1>3, <1>6

LEMMA ChargeStep ==
  ASSUME BillingAssumption, TypeOK, Placed, OneCharge, CreatesKnow, [Next]_vars
  PROVE  OneCharge' /\ CreatesKnow'
PROOF
  <1>1. ASSUME NEW r \in Runs, RunStep(r) \/ Crash(r) \/ WriteFails(r) \/ ResolveFails(r)
        PROVE  OneCharge' /\ CreatesKnow'
    <2>1. CASE Search(r)
      BY <2>1, SearchKnows
    <2>2. CASE ~Search(r)
      <3>1. NoneArrives
        BY <1>1, <2>2, ArrivesBySearch
      <3>2. ASSUME NEW p \in Intents, CreateNew(r, p) PROVE OneCharge' /\ CreatesKnow'
        BY <3>1, <3>2, CreateNewKnows
      <3>3. CASE ~\E p \in Intents : CreateNew(r, p)
        <4>1. UNCHANGED <<intent, key, missed>>
          BY <1>1, <2>2, <3>3 DEF RunStep, FetchView, Acquire, FetchPending, Release, Recover,
               ReservePlan, SkipPlan, Select, ReleaseBatch, CreateAgain, MarkCharged,
               MarkFailed, Pause, Draw, MarkBalance, Crash, WriteFails, ResolveFails, stripeVars
        <4> QED BY <3>1, <4>1, ChargeStays
      <3> QED BY <3>2, <3>3
    <2> QED BY <2>1, <2>2
  <1>2. ASSUME NEW b \in Batches, KeyExpires(b) PROVE OneCharge' /\ CreatesKnow'
    BY <1>2, KeyExpiresKnows
  <1>3. ASSUME \/ \E g \in Groups : RefundStep(g) \/ Clear(g) \/ RefundKeyExpires(g)
               \/ LockTimesOut \/ ChangeCard \/ FlipMode \/ Resume
               \/ UNCHANGED vars
        PROVE  OneCharge' /\ CreatesKnow'
    <2>1. UNCHANGED <<run, intent, key, missed>>
      BY <1>3 DEF RefundStep, Reverse, Refund, Refunding, RefundMark, Clear, RefundKeyExpires,
           LockTimesOut, ChangeCard, FlipMode, Resume, vars, stripeVars
    <2>2. NoneArrives
      BY <2>1 DEF NoneArrives
    <2> QED BY <2>1, <2>2, ChargeStays
  <1> QED BY <1>1, <1>2, <1>3 DEF Next, WorldStep

\* However many requests work at a batch at once, a lock that has timed out
\* under one of them, a crash, a lost answer or a forgotten key included: two
\* PaymentIntents charge it only if a search erred while the key of its charge
\* was forgotten.
THEOREM BatchChargedOnceHolds == Spec => []BatchChargedOnce
PROOF
  <1>1. Init => OneCharge /\ CreatesKnow
    BY DEF Init, OneCharge, CreatesKnow, Charged, NoIntent, IdleRun
  <1>2. OneCharge /\ CreatesKnow /\ TypeOK /\ Placed /\ [Next]_vars => OneCharge' /\ CreatesKnow'
    BY ChargeStep, BillingAssumption
  <1>3. OneCharge => BatchChargedOnce
    BY DEF OneCharge, BatchChargedOnce
  <1> QED BY <1>1, <1>2, <1>3, TypedAlways, PTL DEF Spec

\* A row that was settled or given up is never written again: not its status,
\* not its batch, not what collected it.
Final == {"succeeded", "failed"}
RowsFinal ==
  [][\A g \in Groups : row[g] \in Final =>
       /\ row'[g] = row[g] /\ batch'[g] = batch[g]
       /\ intentOf'[g] = intentOf[g] /\ settled'[g] = settled[g]]_vars

LEMMA FinalStays ==
  ASSUME [Next]_vars, NEW g \in Groups, row[g] \in Final
  PROVE  /\ row'[g] = row[g] /\ batch'[g] = batch[g]
         /\ intentOf'[g] = intentOf[g] /\ settled'[g] = settled[g]
PROOF
  <1>1. CASE UNCHANGED rowVars
    BY <1>1 DEF rowVars
  <1>2. ASSUME NEW r \in Runs, NEW b \in Batches, ReservePlan(r, b)
        PROVE  UNCHANGED rowVars \/ (/\ row'[g] = row[g] /\ batch'[g] = batch[g]
                                     /\ UNCHANGED <<intentOf, settled>>)
    BY <1>2 DEF ReservePlan, Reservable, Final
  <1>3. ASSUME NEW r \in Runs, ReleaseBatch(r)
        PROVE  row'[g] = row[g] /\ batch'[g] = batch[g] /\ UNCHANGED <<intentOf, settled>>
    BY <1>3 DEF ReleaseBatch, Final
  <1>4. ASSUME NEW r \in Runs, MarkCharged(r) \/ MarkFailed(r) \/ MarkBalance(r)
        PROVE  /\ row'[g] = row[g] /\ batch'[g] = batch[g]
               /\ intentOf'[g] = intentOf[g] /\ settled'[g] = settled[g]
    BY <1>4 DEF MarkCharged, MarkFailed, MarkBalance, Promote, Final
  <1>5. \/ UNCHANGED rowVars
        \/ \E r \in Runs, b \in Batches : ReservePlan(r, b)
        \/ \E r \in Runs : ReleaseBatch(r) \/ MarkCharged(r) \/ MarkFailed(r) \/ MarkBalance(r)
    <2>1. ASSUME NEW r \in Runs, RunStep(r)
          PROVE  \/ UNCHANGED rowVars
                 \/ \E b \in Batches : ReservePlan(r, b)
                 \/ ReleaseBatch(r) \/ MarkCharged(r) \/ MarkFailed(r) \/ MarkBalance(r)
      BY <2>1 DEF RunStep, FetchView, Acquire, FetchPending, Release, Recover, SkipPlan, Select,
           Search, CreateAgain, CreateNew, Pause, Draw
    <2>2. ASSUME NEW r \in Runs, Crash(r) \/ WriteFails(r) \/ ResolveFails(r)
          PROVE  UNCHANGED rowVars
      BY <2>2 DEF Crash, WriteFails, ResolveFails
    <2>3. ASSUME (\E h \in Groups : RefundStep(h)) \/ WorldStep \/ UNCHANGED vars
          PROVE  UNCHANGED rowVars
      BY <2>3 DEF RefundStep, Reverse, Refund, Refunding, RefundMark, WorldStep, Clear,
           KeyExpires, RefundKeyExpires,
           LockTimesOut, ChangeCard, FlipMode, Resume, vars
    <2> QED BY <2>1, <2>2, <2>3 DEF Next
  <1> QED BY <1>1, <1>2, <1>3, <1>4, <1>5

\* A stale request, also one that has lost the lock, leaves what others have
\* settled or failed since as it is: release and marks touch pending rows only.
THEOREM RowsAreFinal == Spec => RowsFinal
PROOF
  <1>1. [Next]_vars =>
          [\A g \in Groups : row[g] \in Final =>
             /\ row'[g] = row[g] /\ batch'[g] = batch[g]
             /\ intentOf'[g] = intentOf[g] /\ settled'[g] = settled[g]]_vars
    BY FinalStays
  <1> QED BY <1>1, PTL DEF Spec, RowsFinal

=============================================================================
