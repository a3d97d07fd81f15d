---------------------------- MODULE PayoutsProofs ----------------------------
(***************************************************************************)
(* The payouts, for any number of batches, payouts and publishers and any  *)
(* prices: a payout is transferred once; what is paid or reserved stays    *)
(* covered by earnings, the ledger follows the transfers, and nothing is   *)
(* reserved for a publisher who is held unless an account update overtook  *)
(* the hold.                                                               *)
(***************************************************************************)
EXTENDS Payouts, FiniteSetTheorems, WellFoundedInduction, TLAPS

Stages == {"idle", "reserve", "fetch", "work", "check", "create", "recheck",
           "confirm", "fail"}
AtPayout == {"check", "create", "recheck", "confirm", "fail"}
RunRecord == [at : Stages, candidates : SUBSET Publishers, todo : SUBSET Payouts,
              payout : Payouts \cup {"none"}]

\* What the steps need of the types; the amounts do not matter here.
RunShape ==
  /\ run \in [Runs -> RunRecord]
  /\ \A r \in Runs : run[r].at \in AtPayout => run[r].payout \in Payouts
TransferShape ==
  /\ transfer = [po \in Payouts |->
       [made |-> transfer[po].made, returned |-> transfer[po].returned]]
  /\ \A po \in Payouts : transfer[po].made \in {0, 1}
KeyShape == key \in [Payouts -> {"none", "made", "rejected"}]

\* The key stands for the transfer as long as a batch may still create it.
KeyKnowsTransfer ==
  /\ \A po \in Payouts : key[po] = "made" => transfer[po].made = 1
  /\ \A r \in Runs :
       run[r].at = "create" =>
         transfer[run[r].payout].made = 0 \/ key[run[r].payout] = "made"

OnceInv == RunShape /\ TransferShape /\ KeyShape /\ KeyKnowsTransfer

-----------------------------------------------------------------------------
(* The steps of a batch: it moves on and leaves the others alone.          *)

LEMMA RunMoves ==
  ASSUME RunShape, NEW r \in Runs, NEW x \in RunRecord, run' = [run EXCEPT ![r] = x],
         x.at \in AtPayout => x.payout \in Payouts
  PROVE  /\ RunShape'
         /\ run'[r] = x
         /\ \A q \in Runs \ {r} : run'[q] = run[q]
PROOF
  BY DEF RunShape

LEMMA RunGoesTo ==
  ASSUME RunShape, NEW r \in Runs, NEW at \in Stages, To(r, at),
         at \in AtPayout => run[r].payout \in Payouts
  PROVE  /\ RunShape'
         /\ run'[r].at = at /\ run'[r].todo = run[r].todo /\ run'[r].payout = run[r].payout
         /\ \A q \in Runs \ {r} : run'[q] = run[q]
PROOF
  <1> DEFINE x == [run[r] EXCEPT !.at = at]
  <1>1. /\ x \in RunRecord /\ (x.at \in AtPayout => x.payout \in Payouts)
        /\ x.at = at /\ x.todo = run[r].todo /\ x.payout = run[r].payout
    BY DEF RunShape, RunRecord
  <1>2. run' = [run EXCEPT ![r] = x]
    BY DEF To, RunShape
  <1> HIDE DEF x
  <1> QED BY <1>1, <1>2, RunMoves

LEMMA RunGoesOn ==
  ASSUME RunShape, NEW r \in Runs, NextPayout(r)
  PROVE  /\ RunShape'
         /\ run'[r].at = "work" /\ run'[r].todo = run[r].todo /\ run'[r].payout = "none"
         /\ \A q \in Runs \ {r} : run'[q] = run[q]
PROOF
  <1> DEFINE x == [run[r] EXCEPT !.at = "work", !.payout = "none"]
  <1>1. /\ x \in RunRecord /\ x.at \notin AtPayout
        /\ x.at = "work" /\ x.todo = run[r].todo /\ x.payout = "none"
    BY DEF RunShape, RunRecord, Stages, AtPayout
  <1>2. run' = [run EXCEPT ![r] = x]
    BY DEF NextPayout, RunShape
  <1> HIDE DEF x
  <1> QED BY <1>1, <1>2, RunMoves

\* Where a step takes a batch: it creates a transfer only after the search found
\* none, and leaves the other batches alone.
Progress(r) ==
  /\ RunShape'
  /\ \A q \in Runs \ {r} : run'[q] = run[q]
  /\ run'[r].at = "create" =>
       run'[r].payout = run[r].payout /\ transfer[run[r].payout].made = 0

LEMMA StepProgress ==
  ASSUME RunShape, NEW r \in Runs, RunStep(r)
  PROVE  Progress(r)
PROOF
  <1>0. run[r] \in RunRecord /\ (run[r].at \in AtPayout => run[r].payout \in Payouts)
    BY DEF RunShape
  <1>1. CASE ReserveSelect(r)
    <2> DEFINE x == [IdleRun EXCEPT !.at = "reserve",
                       !.candidates = {p \in Publishers : /\ eligible[p]
                                                          /\ ~held[p]
                                                          /\ Active(p) = {}}]
    <2>1. x \in RunRecord /\ x.at = "reserve" /\ x.payout = "none" /\ x.todo = {}
      BY DEF RunRecord, IdleRun, Stages
    <2>2. run' = [run EXCEPT ![r] = x]
      BY <1>1 DEF ReserveSelect
    <2> HIDE DEF x
    <2> QED BY <2>1, <2>2, RunMoves DEF Progress, AtPayout
  <1>2. CASE ReserveCommit(r)
    <2>1. To(r, "fetch")
      BY <1>2 DEF ReserveCommit, To
    <2>2. "fetch" \in Stages /\ "fetch" \notin AtPayout
      BY DEF Stages, AtPayout
    <2>3. /\ RunShape' /\ run'[r].at = "fetch" /\ run'[r].todo = run[r].todo
          /\ run'[r].payout = run[r].payout /\ \A q \in Runs \ {r} : run'[q] = run[q]
      BY <2>1, <2>2, RunGoesTo
    <2> QED BY <2>3 DEF Progress
  <1>3. CASE FetchPending(r)
    <2> DEFINE x == [IdleRun EXCEPT !.at = "work", !.todo = Pending]
    <2>1. x \in RunRecord /\ x.at = "work" /\ x.payout = "none" /\ x.todo = Pending
      BY DEF RunRecord, IdleRun, Stages, Pending
    <2>2. run' = [run EXCEPT ![r] = x]
      BY <1>3 DEF FetchPending
    <2> HIDE DEF x
    <2> QED BY <2>1, <2>2, RunMoves DEF Progress, AtPayout
  <1>4. CASE TakePayout(r)
    <2>1. PICK po \in run[r].todo, at \in {"check", "fail"} :
            run' = [run EXCEPT ![r].at = at, ![r].payout = po, ![r].todo = @ \ {po}]
      BY <1>4 DEF TakePayout
    <2> DEFINE x == [run[r] EXCEPT !.at = at, !.payout = po, !.todo = @ \ {po}]
    <2>2. x \in RunRecord /\ x.at = at /\ x.payout = po /\ po \in Payouts
      BY <1>0 DEF RunRecord, Stages
    <2>3. run' = [run EXCEPT ![r] = x]
      BY <2>1 DEF RunShape
    <2> HIDE DEF x
    <2> QED BY <2>2, <2>3, RunMoves DEF Progress
  <1>5. CASE NextPayout(r)
    BY <1>5, RunGoesOn DEF Progress
  <1>6. CASE /\ run[r].at \in AtPayout /\ To(r, "confirm")
             /\ run[r].at = "create" \/ transfer[run[r].payout].made > 0
    BY <1>0, <1>6, RunGoesTo DEF Progress, Stages
  <1>7. CASE run[r].at = "check" /\ transfer[run[r].payout].made = 0 /\ To(r, "create")
    BY <1>0, <1>7, RunGoesTo DEF Progress, Stages, AtPayout
  <1>8. CASE run[r].at = "create" /\ To(r, "recheck")
    BY <1>0, <1>8, RunGoesTo DEF Progress, Stages, AtPayout
  <1>9. CASE run[r].at = "recheck" /\ To(r, "fail")
    BY <1>0, <1>9, RunGoesTo DEF Progress, Stages, AtPayout
  <1>10. CASE EndRun(r)
    <2>1. IdleRun \in RunRecord /\ IdleRun.at = "idle" /\ IdleRun.payout = "none" /\ IdleRun.todo = {}
      BY DEF RunRecord, IdleRun, Stages
    <2>2. run' = [run EXCEPT ![r] = IdleRun]
      BY <1>10 DEF EndRun
    <2> QED BY <2>1, <2>2, RunMoves DEF Progress, AtPayout
  <1>11. CASE PreCheck(r)
    BY <1>5, <1>6, <1>7, <1>11 DEF PreCheck, AtPayout
  <1>12. CASE CreateTransfer(r)
    <2>1. run[r].at = "create" /\ (NextPayout(r) \/ To(r, "confirm") \/ To(r, "recheck"))
      BY <1>12 DEF CreateTransfer
    <2> QED BY <1>5, <1>6, <1>8, <2>1 DEF AtPayout
  <1>13. CASE Recheck(r)
    BY <1>6, <1>9, <1>13 DEF Recheck, AtPayout
  <1>14. CASE Confirm(r) \/ Fail(r)
    BY <1>5, <1>14 DEF Confirm, Fail
  <1> QED BY <1>1, <1>2, <1>3, <1>4, <1>10, <1>11, <1>12, <1>13, <1>14 DEF RunStep

\* What transfers.create does at Stripe.
LEMMA CreateEffect ==
  ASSUME OnceInv, NEW r \in Runs, CreateTransfer(r)
  PROVE  LET po == run[r].payout
         IN /\ run[r].at = "create" /\ po \in Payouts /\ run'[r].at # "create"
            /\ \/ UNCHANGED <<key, transfer>>
               \/ /\ UNCHANGED transfer /\ key[po] # "made"
                  /\ \E k \in {"none", "rejected"} : key' = [key EXCEPT ![po] = k]
               \/ /\ key[po] = "none" /\ key' = [key EXCEPT ![po] = "made"]
                  /\ transfer' = [transfer EXCEPT ![po].made = @ + 1]
PROOF
  <1> DEFINE po == run[r].payout
  <1>1. run[r].at = "create" /\ po \in Payouts
    BY DEF CreateTransfer, OnceInv, RunShape, AtPayout
  <1>2. ASSUME NextPayout(r) PROVE run'[r].at # "create"
    BY <1>2, RunGoesOn DEF OnceInv
  <1>3. ASSUME NEW at \in {"confirm", "recheck"}, To(r, at) PROVE run'[r].at # "create"
    BY <1>1, <1>3, RunGoesTo DEF OnceInv, Stages
  <1>4. run'[r].at # "create"
    <2>1. NextPayout(r) \/ \E at \in {"confirm", "recheck"} : To(r, at)
      BY DEF CreateTransfer
    <2> QED BY <1>2, <1>3, <2>1
  <1>5. ASSUME NEW outcome \in IF key[po] = "none" THEN {"made", "rejected"} ELSE {key[po]},
               \E k \in Kept(outcome) : key' = [key EXCEPT ![po] = k],
               transfer' = IF outcome = "made" /\ key[po] = "none"
                           THEN [transfer EXCEPT ![po].made = @ + 1] ELSE transfer
        PROVE  \/ UNCHANGED <<key, transfer>>
               \/ /\ UNCHANGED transfer /\ key[po] # "made"
                  /\ \E k \in {"none", "rejected"} : key' = [key EXCEPT ![po] = k]
               \/ /\ key[po] = "none" /\ key' = [key EXCEPT ![po] = "made"]
                  /\ transfer' = [transfer EXCEPT ![po].made = @ + 1]
    <2>1. CASE outcome = "made" /\ key[po] = "none"
      BY <1>5, <2>1 DEF Kept
    <2>2. CASE outcome = "made" /\ key[po] # "none"
      BY <1>1, <1>5, <2>2 DEF Kept, OnceInv, KeyShape
    <2>3. CASE outcome = "rejected"
      BY <1>5, <2>3 DEF Kept
    <2>4. outcome \in {"made", "rejected"}
      BY <1>1 DEF OnceInv, KeyShape
    <2> QED BY <2>1, <2>2, <2>3, <2>4
  <1>6. \/ UNCHANGED <<key, transfer>>
        \/ \E outcome \in IF key[po] = "none" THEN {"made", "rejected"} ELSE {key[po]} :
             /\ \E k \in Kept(outcome) : key' = [key EXCEPT ![po] = k]
             /\ transfer' = IF outcome = "made" /\ key[po] = "none"
                            THEN [transfer EXCEPT ![po].made = @ + 1] ELSE transfer
    BY DEF CreateTransfer
  <1> QED BY <1>1, <1>4, <1>5, <1>6

-----------------------------------------------------------------------------
(* A payout is transferred once.                                           *)

LEMMA InitOnce == ASSUME Init PROVE OnceInv
PROOF
  BY DEF Init, OnceInv, RunShape, RunRecord, TransferShape, KeyShape,
         KeyKnowsTransfer, IdleRun, Stages, AtPayout

LEMMA CreateOnce ==
  ASSUME OnceInv, NEW r \in Runs, CreateTransfer(r)
  PROVE  OnceInv'
PROOF
  <1> DEFINE po == run[r].payout
  <1>1. RunShape' /\ (\A q \in Runs \ {r} : run'[q] = run[q])
    BY StepProgress DEF OnceInv, RunStep, Progress
  <1>2. run[r].at = "create" /\ po \in Payouts /\ run'[r].at # "create"
    BY CreateEffect
  <1>3. transfer[po].made = 0 \/ key[po] = "made"
    BY <1>2 DEF OnceInv, KeyKnowsTransfer
  <1>4. CASE UNCHANGED <<key, transfer>>
    BY <1>1, <1>2, <1>4 DEF OnceInv, TransferShape, KeyShape, KeyKnowsTransfer
  <1>5. CASE /\ UNCHANGED transfer
             /\ \E k \in {"none", "rejected"} : key' = [key EXCEPT ![po] = k]
             /\ key[po] # "made"
    <2>1. KeyShape' /\ \A q \in Payouts : key'[q] = "made" <=> key[q] = "made"
      BY <1>2, <1>5 DEF OnceInv, KeyShape
    <2>2. TransferShape'
      BY <1>5 DEF OnceInv, TransferShape
    <2>3. \A q \in Runs : run'[q].at = "create" => run'[q] = run[q] /\ run[q].payout \in Payouts
      BY <1>1, <1>2 DEF OnceInv, RunShape, AtPayout
    <2>4. KeyKnowsTransfer'
      BY <1>5, <2>1, <2>3 DEF OnceInv, KeyKnowsTransfer
    <2> QED BY <1>1, <2>1, <2>2, <2>4 DEF OnceInv
  <1>6. CASE /\ key[po] = "none" /\ key' = [key EXCEPT ![po] = "made"]
             /\ transfer' = [transfer EXCEPT ![po].made = @ + 1]
    <2>1. KeyShape' /\ key'[po] = "made" /\ \A q \in Payouts \ {po} : key'[q] = key[q]
      BY <1>2, <1>6 DEF OnceInv, KeyShape
    <2>2. /\ TransferShape' /\ transfer'[po].made = 1
          /\ \A q \in Payouts \ {po} : transfer'[q] = transfer[q]
      <3>1. PICK n : transfer[po] = [made |-> 0, returned |-> n]
        BY <1>2, <1>3, <1>6 DEF OnceInv, TransferShape
      <3>2. /\ transfer' = [q \in Payouts |-> transfer'[q]]
            /\ transfer'[po] = [transfer[po] EXCEPT !.made = @ + 1]
            /\ \A q \in Payouts \ {po} : transfer'[q] = transfer[q]
        BY <1>2, <1>6 DEF OnceInv, TransferShape
      <3>3. transfer'[po] = [made |-> 1, returned |-> n]
        BY <3>1, <3>2
      <3>4. ASSUME NEW q \in Payouts
            PROVE  /\ transfer'[q] = [made |-> transfer'[q].made,
                                      returned |-> transfer'[q].returned]
                   /\ transfer'[q].made \in {0, 1}
        <4>1. CASE q = po
          BY <3>3, <4>1
        <4>2. CASE q # po
          <5>1. transfer'[q] = transfer[q]
            BY <3>2, <4>2
          <5> QED BY <5>1 DEF OnceInv, TransferShape
        <4> QED BY <4>1, <4>2
      <3> QED BY <3>2, <3>3, <3>4 DEF TransferShape
    <2>3. \A q \in Runs : run'[q].at = "create" => run'[q] = run[q] /\ run[q].payout \in Payouts
      BY <1>1, <1>2 DEF OnceInv, RunShape, AtPayout
    <2>4. KeyKnowsTransfer'
      BY <1>2, <2>1, <2>2, <2>3 DEF OnceInv, KeyKnowsTransfer
    <2> QED BY <1>1, <2>1, <2>2, <2>4 DEF OnceInv
  <1> QED BY <1>4, <1>5, <1>6, CreateEffect

LEMMA OnceStep == ASSUME OnceInv, [Next]_vars PROVE OnceInv'
PROOF
  <1>1. CASE UNCHANGED <<run, transfer, key>>
    BY <1>1 DEF OnceInv, RunShape, TransferShape, KeyShape, KeyKnowsTransfer
  <1>2. CASE UNCHANGED vars
    BY <1>1, <1>2 DEF vars, stripeVars
  <1>3. ASSUME NEW r \in Runs, RunStep(r) PROVE OnceInv'
    <2>1. CASE CreateTransfer(r)
      BY <2>1, CreateOnce
    <2>2. CASE ~CreateTransfer(r)
      <3>1. UNCHANGED <<transfer, key>>
        BY <1>3, <2>2 DEF RunStep, ReserveSelect, ReserveCommit, FetchPending, TakePayout,
             PreCheck, Recheck, Confirm, Fail, EndRun, stripeVars
      <3>2. Progress(r)
        BY <1>3, StepProgress DEF OnceInv
      <3>3. TransferShape' /\ KeyShape'
        BY <3>1 DEF OnceInv, TransferShape, KeyShape
      <3>4. KeyKnowsTransfer'
        BY <3>1, <3>2 DEF OnceInv, KeyKnowsTransfer, Progress
      <3> QED BY <3>2, <3>3, <3>4 DEF OnceInv, Progress
    <2> QED BY <2>1, <2>2
  <1>4. ASSUME NEW po \in Payouts, KeyExpires(po) PROVE OnceInv'
    <2>1. UNCHANGED <<run, transfer>> /\ key' = [key EXCEPT ![po] = "none"]
      BY <1>4 DEF KeyExpires
    <2>2. KeyShape' /\ \A q \in Payouts \ {po} : key'[q] = key[q]
      BY <2>1 DEF OnceInv, KeyShape
    <2>3. \A r \in Runs : run[r].at = "create" => run[r].payout \in Payouts \ {po}
      BY <1>4 DEF KeyExpires, OnceInv, RunShape, AtPayout
    <2>4. key'[po] # "made"
      BY <2>1 DEF OnceInv, KeyShape
    <2> QED BY <2>1, <2>2, <2>3, <2>4 DEF OnceInv, RunShape, TransferShape, KeyKnowsTransfer
  <1>5. ASSUME NEW po \in Payouts, ReverseTransfer(po) PROVE OnceInv'
    <2>1. PICK amount : transfer' = [transfer EXCEPT ![po].returned = amount]
      BY <1>5 DEF ReverseTransfer
    <2>2. UNCHANGED <<run, key>>
      BY <1>5 DEF ReverseTransfer
    <2>3. TransferShape' /\ \A q \in Payouts : transfer'[q].made = transfer[q].made
      BY <2>1 DEF OnceInv, TransferShape
    <2>4. \A r \in Runs : run[r].at = "create" => run[r].payout \in Payouts
      BY DEF OnceInv, RunShape, AtPayout
    <2> QED BY <2>2, <2>3, <2>4 DEF OnceInv, RunShape, KeyShape, KeyKnowsTransfer
  <1>6. ASSUME NEW n \in notices, TransferReversed(n) PROVE OnceInv'
    BY <1>1, <1>6 DEF TransferReversed
  <1>7. ASSUME NEW e \in Events, Clear(e) PROVE OnceInv'
    BY <1>1, <1>7 DEF Clear, stripeVars
  <1>8. CASE Mature
    BY <1>1, <1>8 DEF Mature, stripeVars
  <1>9. ASSUME NEW p \in Publishers, PublisherStep(p) PROVE OnceInv'
    BY <1>1, <1>9 DEF PublisherStep, PlaceHold, EligibilityRead, EligibilityWrite, stripeVars
  <1>10. ASSUME NEW w \in Windows, ClawbackStep(w) PROVE OnceInv'
    BY <1>1, <1>10 DEF ClawbackStep, OpenClawback, PrepayClawback, SelfDealClawback, stripeVars
  <1> QED BY <1>2, <1>3, <1>4, <1>5, <1>6, <1>7, <1>8, <1>9, <1>10 DEF Next, StripeStep

\* Neither retries, lost answers, overlapping batches nor a forgotten key make a
\* second transfer for a payout.
THEOREM AlwaysTransferredOnce == Spec => []TransferredOnce
PROOF
  <1>1. Init => OnceInv
    BY InitOnce
  <1>2. OnceInv /\ [Next]_vars => OnceInv'
    BY OnceStep
  <1>3. OnceInv => TransferredOnce
    BY DEF OnceInv, TransferShape, TransferredOnce
  <1> QED BY <1>1, <1>2, <1>3, PTL DEF Spec

-----------------------------------------------------------------------------
(* Sums over finite sets.  The fold behind SumOf is a recursive function   *)
(* on the subsets of its set: it is shown to exist and to be unique by     *)
(* induction on the size of a subset, written with sets of subsets in the  *)
(* place of predicates.                                                    *)

\* Every non-empty set of naturals has a least element.
LEMMA LeastNatural ==
  ASSUME NEW T \in SUBSET Nat, T # {}
  PROVE  \E n \in T : \A m \in T : n <= m
PROOF
  <1> DEFINE R == {ss \in Nat \X Nat : ss[1] < ss[2]}
  <1>1. IsWellFoundedOn(R, Nat) BY NatLessThanWellFounded DEF OpToRel
  <1> HIDE DEF R
  <1>2. PICK x \in T : \A y \in T : ~ (<<y, x>> \in R) BY <1>1, WFMin
  <1>3. ASSUME NEW y \in T PROVE x <= y
    <2>1. <<y, x>> \notin R BY <1>2
    <2>2. ~(y < x) BY <2>1 DEF R
    <2> QED BY <2>2
  <1> QED BY <1>3

\* Induction over the subsets of a finite set, for a set of subsets in place
\* of a predicate.
LEMMA SubsetInduction ==
  ASSUME NEW S, IsFiniteSet(S), NEW G,
         {} \in G,
         \A T \in SUBSET S : T # {} /\ (\A x \in T : T \ {x} \in G) => T \in G
  PROVE  \A T \in SUBSET S : T \in G
PROOF
  <1> DEFINE Bad == {n \in Nat : \E T \in SUBSET S : T \notin G /\ Cardinality(T) = n}
  <1>1. \A T \in SUBSET S : IsFiniteSet(T) /\ Cardinality(T) \in Nat
    BY FS_Subset, FS_CardinalityType
  <1> SUFFICES ASSUME Bad # {} PROVE FALSE
    BY <1>1
  <1>2. PICK n \in Bad : \A m \in Bad : n <= m
    BY LeastNatural
  <1>3. PICK T \in SUBSET S : T \notin G /\ Cardinality(T) = n
    OBVIOUS
  <1>4. PICK x \in T : T \ {x} \notin G
    BY <1>3
  <1>5. Cardinality(T \ {x}) = n - 1 /\ T \ {x} \in SUBSET S
    BY <1>1, <1>3, FS_RemoveElement
  <1>6. n - 1 \in Bad
    BY <1>1, <1>4, <1>5
  <1> QED BY <1>2, <1>6

\* What the fold computes for T when g holds the results for its subsets.
Body(f, g, T) ==
  IF T = {} THEN 0
  ELSE f[CHOOSE x \in T : TRUE] + g[T \ {CHOOSE x \in T : TRUE}]
Folds(f, g, D) == g = [T \in D |-> Body(f, g, T)]
UpTo(S, n) == {T \in SUBSET S : Cardinality(T) <= n}

\* The function that the fold chooses exists.
LEMMA FoldExists ==
  ASSUME NEW f, NEW S, IsFiniteSet(S)
  PROVE  \E g : Folds(f, g, SUBSET S) /\ SumOf(f, S) = g[S]
PROOF
  <1>1. \A T \in SUBSET S :
          IsFiniteSet(T) /\ Cardinality(T) \in Nat /\ Cardinality(T) <= Cardinality(S)
    BY FS_Subset, FS_CardinalityType
  <1> DEFINE Bad == {n \in Nat : ~ \E g : Folds(f, g, UpTo(S, n))}
  <1>2. Bad = {}
    <2> SUFFICES ASSUME Bad # {} PROVE FALSE
      OBVIOUS
    <2>1. PICK n \in Bad : \A m \in Bad : n <= m BY LeastNatural
    <2>2. n # 0
      <3> SUFFICES ASSUME n = 0 PROVE FALSE
        OBVIOUS
      <3> DEFINE g == [T \in UpTo(S, 0) |-> 0]
      <3>1. UpTo(S, 0) = {{}} BY <1>1, FS_EmptySet DEF UpTo
      <3>2. Folds(f, g, UpTo(S, 0)) BY <3>1 DEF Folds, Body
      <3> QED BY <3>2, <2>1
    <2>3. PICK h : Folds(f, h, UpTo(S, n - 1)) BY <2>1, <2>2
    <2> DEFINE g == [T \in UpTo(S, n) |-> Body(f, h, T)]
    <2>4. ASSUME NEW T \in UpTo(S, n) PROVE Body(f, h, T) = Body(f, g, T)
      <3>1. CASE T = {} BY <3>1 DEF Body
      <3>2. CASE T # {}
        <4> DEFINE U == T \ {CHOOSE x \in T : TRUE}
        <4>1. U \in UpTo(S, n - 1)
           <5>1. (CHOOSE x \in T : TRUE) \in T BY <3>2
           <5>2. IsFiniteSet(T) /\ T \in SUBSET S /\ Cardinality(T) <= n BY <1>1 DEF UpTo
           <5>3. Cardinality(U) = Cardinality(T) - 1 BY <5>1, <5>2, FS_RemoveElement
           <5>4. Cardinality(U) <= n - 1 BY <5>2, <5>3, <1>1, <2>1
           <5> QED BY <5>4, <5>2 DEF UpTo
        <4>2. U \in UpTo(S, n) BY <4>1, <1>1, <2>1 DEF UpTo
        <4>3. g[U] = Body(f, h, U) BY <4>2
        <4>4. h[U] = Body(f, h, U) BY <4>1, <2>3 DEF Folds
        <4> QED BY <4>3, <4>4, <3>2 DEF Body
      <3> QED BY <3>1, <3>2
    <2>5. Folds(f, g, UpTo(S, n)) BY <2>4 DEF Folds
    <2> QED BY <2>5, <2>1
  <1>3. UpTo(S, Cardinality(S)) = SUBSET S BY <1>1 DEF UpTo
  <1>4. \E g : Folds(f, g, SUBSET S)
    <2>1. Cardinality(S) \in Nat BY FS_CardinalityType
    <2>2. \E g : Folds(f, g, UpTo(S, Cardinality(S))) BY <2>1, <1>2
    <2> QED BY <2>2, <1>3
  <1> DEFINE iter == CHOOSE g : Folds(f, g, SUBSET S)
  <1>5. Folds(f, iter, SUBSET S) BY <1>4
  <1>6. SumOf(f, S) = iter[S] BY DEF SumOf, MapThenSumSet, MapThenFoldSet, Folds, Body
  <1> QED BY <1>5, <1>6

\* On a common subset two such functions agree.
LEMMA FoldUnique ==
  ASSUME NEW f, NEW g, NEW h, NEW S, NEW T \in SUBSET S, IsFiniteSet(S),
         Folds(f, g, SUBSET S), Folds(f, h, SUBSET T)
  PROVE  g[T] = h[T]
PROOF
  <1> DEFINE G == {U \in SUBSET T : g[U] = h[U]}
  <1>1. \A U \in SUBSET T : g[U] = Body(f, g, U) /\ h[U] = Body(f, h, U)
    BY DEF Folds
  <1>2. IsFiniteSet(T) BY FS_Subset
  <1>3. {} \in G BY <1>1 DEF Body
  <1>4. ASSUME NEW U \in SUBSET T, U # {}, \A x \in U : U \ {x} \in G PROVE U \in G
    BY <1>1, <1>4 DEF Body
  <1>5. \A U \in SUBSET T : U \in G
    <2> HIDE DEF G
    <2> QED BY <1>2, <1>3, <1>4, SubsetInduction
  <1> QED BY <1>5

LEMMA SumEmpty == ASSUME NEW f PROVE SumOf(f, {}) = 0
PROOF
  <1>1. IsFiniteSet({}) BY FS_EmptySet
  <1>2. PICK g : Folds(f, g, SUBSET {}) /\ SumOf(f, {}) = g[{}] BY <1>1, FoldExists
  <1> QED BY <1>2 DEF Folds, Body


\* The element the fold takes first, and the rest.
LEMMA SumChoice ==
  ASSUME NEW f, NEW S, IsFiniteSet(S), S # {}
  PROVE  SumOf(f, S) = f[CHOOSE x \in S : TRUE] + SumOf(f, S \ {CHOOSE x \in S : TRUE})
PROOF
  <1> DEFINE c == CHOOSE x \in S : TRUE
             T == S \ {c}
  <1>1. c \in S /\ T \in SUBSET S OBVIOUS
  <1> HIDE DEF c, T
  <1>2. PICK g : Folds(f, g, SUBSET S) /\ SumOf(f, S) = g[S] BY FoldExists
  <1>3. IsFiniteSet(T) BY FS_Subset, <1>1
  <1>4. PICK h : Folds(f, h, SUBSET T) /\ SumOf(f, T) = h[T] BY <1>3, FoldExists
  <1>5. g[T] = h[T]
    <2>1. \A U \in SUBSET S : Folds(f, h, SUBSET U) => g[U] = h[U]
      BY <1>2, FoldUnique
    <2> QED BY <1>1, <1>4, <2>1
  <1>6. g[S] = f[c] + g[T] BY <1>2 DEF Folds, Body, c, T
  <1> QED BY <1>2, <1>4, <1>5, <1>6 DEF c, T

\* Only the values on the set count.
LEMMA SumAgree ==
  ASSUME NEW f, NEW h, NEW S, IsFiniteSet(S), \A x \in S : f[x] = h[x]
  PROVE  SumOf(f, S) = SumOf(h, S)
PROOF
  <1> DEFINE G == {T \in SUBSET S : SumOf(f, T) = SumOf(h, T)}
  <1>1. {} \in G BY SumEmpty
  <1>2. ASSUME NEW T \in SUBSET S, T # {}, \A x \in T : T \ {x} \in G PROVE T \in G
    <2> DEFINE c == CHOOSE x \in T : TRUE
    <2>1. c \in T BY <1>2
    <2>2. IsFiniteSet(T) BY FS_Subset
    <2>3. SumOf(f, T) = f[c] + SumOf(f, T \ {c}) /\ SumOf(h, T) = h[c] + SumOf(h, T \ {c})
      BY <1>2, <2>2, SumChoice
    <2>4. SumOf(f, T \ {c}) = SumOf(h, T \ {c}) /\ f[c] = h[c]
      BY <1>2, <2>1
    <2> QED BY <2>3, <2>4
  <1> HIDE DEF G
  <1>3. \A T \in SUBSET S : T \in G
    <2>1. \A T \in SUBSET S : T # {} /\ (\A x \in T : T \ {x} \in G) => T \in G
      BY <1>2
    <2> QED BY <1>1, <2>1, SubsetInduction
  <1> QED BY <1>3 DEF G

\* A sum of integers is an integer, a sum of naturals a natural.
LEMMA SumType ==
  ASSUME NEW D, D \in {Nat, Int}, NEW f, NEW S, IsFiniteSet(S), \A x \in S : f[x] \in D
  PROVE  SumOf(f, S) \in D
PROOF
  <1> DEFINE G == {T \in SUBSET S : SumOf(f, T) \in D}
  <1>1. {} \in G BY SumEmpty
  <1>2. ASSUME NEW T \in SUBSET S, T # {}, \A x \in T : T \ {x} \in G PROVE T \in G
    <2> DEFINE c == CHOOSE x \in T : TRUE
    <2>1. c \in T BY <1>2
    <2>2. IsFiniteSet(T) BY FS_Subset
    <2>3. SumOf(f, T) = f[c] + SumOf(f, T \ {c})
      BY <1>2, <2>2, SumChoice
    <2>4. SumOf(f, T \ {c}) \in D /\ f[c] \in D
      BY <1>2, <2>1
    <2>5. \A a, b \in D : a + b \in D
      OBVIOUS
    <2> QED BY <2>3, <2>4, <2>5
  <1> HIDE DEF G
  <1>3. \A T \in SUBSET S : T \in G
    <2>1. \A T \in SUBSET S : T # {} /\ (\A x \in T : T \ {x} \in G) => T \in G
      BY <1>2
    <2> QED BY <1>1, <2>1, SubsetInduction
  <1> QED BY <1>3 DEF G

\* Any element may be taken out first.
LEMMA SumRemove ==
  ASSUME NEW f, NEW S, IsFiniteSet(S), \A x \in S : f[x] \in Int, NEW y \in S
  PROVE  SumOf(f, S) = f[y] + SumOf(f, S \ {y})
PROOF
  <1> DEFINE G == {T \in SUBSET S : \A x \in T : SumOf(f, T) = f[x] + SumOf(f, T \ {x})}
  <1>1. {} \in G OBVIOUS
  <1>2. ASSUME NEW T \in SUBSET S, T # {}, \A x \in T : T \ {x} \in G PROVE T \in G
    <2> SUFFICES ASSUME NEW x \in T PROVE SumOf(f, T) = f[x] + SumOf(f, T \ {x})
      OBVIOUS
    <2> DEFINE c == CHOOSE z \in T : TRUE
    <2>1. c \in T BY <1>2
    <2>2. IsFiniteSet(T) BY FS_Subset
    <2>3. SumOf(f, T) = f[c] + SumOf(f, T \ {c})
      BY <1>2, <2>2, SumChoice
    <2> HIDE DEF c
    <2>4. CASE x = c BY <2>3, <2>4
    <2>5. CASE x # c
      <3> DEFINE U == (T \ {c}) \ {x}
      <3>1. U = (T \ {x}) \ {c} OBVIOUS
      <3>2. SumOf(f, T \ {c}) = f[x] + SumOf(f, U) BY <1>2, <2>1, <2>5
      <3>3. SumOf(f, T \ {x}) = f[c] + SumOf(f, U) BY <1>2, <2>1, <2>5, <3>1
      <3>4. SumOf(f, U) \in Int
        <4>1. IsFiniteSet(U) BY FS_Subset
        <4> QED BY <4>1, SumType
      <3>5. f[c] \in Int /\ f[x] \in Int BY <2>1
      <3> QED BY <2>3, <3>2, <3>3, <3>4, <3>5
    <2> QED BY <2>4, <2>5
  <1> HIDE DEF G
  <1>3. \A T \in SUBSET S : T \in G
    <2>1. \A T \in SUBSET S : T # {} /\ (\A x \in T : T \ {x} \in G) => T \in G
      BY <1>2
    <2> QED BY <1>1, <2>1, SubsetInduction
  <1> QED BY <1>3 DEF G

\* A sum over a set is the sum over a part and the rest.
LEMMA SumSplit ==
  ASSUME NEW f, NEW S, IsFiniteSet(S), \A x \in S : f[x] \in Int, NEW T \in SUBSET S
  PROVE  SumOf(f, S) = SumOf(f, T) + SumOf(f, S \ T)
PROOF
  <1> DEFINE G == {U \in SUBSET T : SumOf(f, S) = SumOf(f, U) + SumOf(f, S \ U)}
  <1>0. IsFiniteSet(T) BY FS_Subset
  <1>1. {} \in G
    <2>1. S \ {} = S OBVIOUS
    <2>2. SumOf(f, S) \in Int BY SumType
    <2> QED BY <2>1, <2>2, SumEmpty
  <1>2. ASSUME NEW U \in SUBSET T, U # {}, \A x \in U : U \ {x} \in G PROVE U \in G
    <2>1. PICK x : x \in U BY <1>2
    <2>2. /\ IsFiniteSet(U) /\ IsFiniteSet(S \ U)
          /\ IsFiniteSet(U \ {x}) /\ IsFiniteSet(S \ (U \ {x}))
      BY FS_Subset
    <2>3. SumOf(f, U) = f[x] + SumOf(f, U \ {x})
      BY <2>1, <2>2, SumRemove
    <2>4. (S \ (U \ {x})) \ {x} = S \ U BY <2>1
    <2>5. SumOf(f, S \ (U \ {x})) = f[x] + SumOf(f, S \ U)
      <3>1. x \in S \ (U \ {x}) BY <2>1
      <3> QED BY <2>2, <2>4, <3>1, SumRemove
    <2>6. SumOf(f, S) = SumOf(f, U \ {x}) + SumOf(f, S \ (U \ {x}))
      BY <1>2, <2>1
    <2>7. SumOf(f, U \ {x}) \in Int /\ SumOf(f, S \ U) \in Int /\ f[x] \in Int
      BY <2>1, <2>2, SumType
    <2>8. SumOf(f, S) = SumOf(f, U) + SumOf(f, S \ U)
      BY <2>3, <2>5, <2>6, <2>7
    <2> QED BY <2>8
  <1> HIDE DEF G
  <1>3. T \in G BY <1>0, <1>1, <1>2, SubsetInduction
  <1> QED BY <1>3 DEF G

\* A part of a sum of naturals is at most the sum, and so is each summand.
LEMMA SumPart ==
  ASSUME NEW f, NEW S, IsFiniteSet(S), \A x \in S : f[x] \in Nat
  PROVE  /\ \A T \in SUBSET S : SumOf(f, T) \in Nat /\ SumOf(f, T) <= SumOf(f, S)
         /\ \A x \in S : f[x] <= SumOf(f, S)
PROOF
  <1>1. ASSUME NEW T \in SUBSET S PROVE SumOf(f, T) \in Nat
    BY FS_Subset, SumType
  <1>2. ASSUME NEW T \in SUBSET S PROVE SumOf(f, T) <= SumOf(f, S)
    <2>1. SumOf(f, S) = SumOf(f, T) + SumOf(f, S \ T) BY SumSplit
    <2>2. SumOf(f, T) \in Nat /\ SumOf(f, S \ T) \in Nat BY <1>1
    <2> QED BY <2>1, <2>2
  <1>3. ASSUME NEW x \in S PROVE f[x] <= SumOf(f, S)
    <2>1. SumOf(f, S) = f[x] + SumOf(f, S \ {x}) BY SumRemove
    <2>2. SumOf(f, S \ {x}) \in Nat BY <1>1
    <2> QED BY <2>1, <2>2
  <1> QED BY <1>1, <1>2, <1>3

-----------------------------------------------------------------------------
(* The money: what is paid and reserved is covered by what has matured,    *)
(* and the ledger is what was transferred.                                 *)

PayoutRecord == [publisher : Publishers \cup {0}, amount : Nat,
                 status : {"none", "pending", "paid", "failed"},
                 transferred : BOOLEAN, reversed : Nat]

\* A row that is inserted has a publisher; what is transferred has been paid; and
\* nothing comes back of a payout before that, nor more than the payout.
Account(x) ==
  /\ x \in PayoutRecord
  /\ x.status # "none" => x.publisher \in Publishers
  /\ x.status \in {"none", "pending"} => ~x.transferred /\ x.reversed = 0
  /\ x.reversed <= x.amount

\* What the sums need of the types; paid may be negative until the ledger is known.
EarningShape ==
  /\ earning \in [Events -> {"provisional", "cleared", "reversed"}]
  /\ clock \in Nat
AccountShape ==
  /\ paid \in [Publishers -> Int]
  /\ payout = [po \in Payouts |-> payout[po]] /\ \A po \in Payouts : Account(payout[po])
ReturnShape ==
  /\ \A po \in Payouts : transfer[po].returned \in Nat
  /\ \A n \in notices : n \in [payout : Payouts, amount : Nat]
  /\ \A n \in notices : n.amount <= transfer[n.payout].returned

MoneyInv ==
  /\ OnceInv /\ EarningShape /\ AccountShape /\ ReturnShape
  /\ PayoutsBacked /\ LedgerFollowsTransfers

\* Sums of the earnings: finite, natural, and larger over more events.
LEMMA EarningsSum ==
  \A S \in SUBSET Events :
    /\ Total(S) \in Nat
    /\ \A T \in SUBSET S : Total(T) <= Total(S)
PROOF
  <1>1. IsFiniteSet(Events)
    <2>1. Clicked \in SUBSET Windows /\ IsFiniteSet(Windows)
      BY PayoutsAssumption DEF Clicked
    <2>2. IsFiniteSet(Clicked)
      BY <2>1, FS_Subset
    <2>3. IsFiniteSet({"impression"}) /\ IsFiniteSet({"click"})
      BY FS_Singleton
    <2>4. IsFiniteSet(Windows \X {"impression"}) /\ IsFiniteSet(Clicked \X {"click"})
      BY <2>1, <2>2, <2>3, FS_Product
    <2> QED BY <2>4, FS_Union DEF Events
  <1>2. \A e \in Events : Earning[e] \in Nat
    BY PayoutsAssumption DEF Earning
  <1> SUFFICES ASSUME NEW S \in SUBSET Events
               PROVE  Total(S) \in Nat /\ \A T \in SUBSET S : Total(T) <= Total(S)
    OBVIOUS
  <1>3. IsFiniteSet(S) /\ \A e \in S : Earning[e] \in Nat
    BY <1>1, <1>2, FS_Subset
  <1>4. S \in SUBSET S
    OBVIOUS
  <1> QED BY <1>3, <1>4, SumPart DEF Total

\* A sum over rows, with one of them apart.
LEMMA RowApart ==
  ASSUME NEW f \in [Payouts -> Nat], NEW S \in SUBSET Payouts, NEW po \in Payouts
  PROVE  /\ SumOf(f, S) \in Nat
         /\ SumOf(f, S) = SumOf(f, S \ {po}) + (IF po \in S THEN f[po] ELSE 0)
PROOF
  <1>1. IsFiniteSet(S) /\ IsFiniteSet(S \ {po})
    BY PayoutsAssumption, FS_Subset
  <1>2. /\ \A q \in S : f[q] \in Nat /\ f[q] \in Int
        /\ \A q \in S \ {po} : f[q] \in Nat
    OBVIOUS
  <1>3. SumOf(f, S) \in Nat /\ SumOf(f, S \ {po}) \in Nat
    BY <1>1, <1>2, SumType
  <1>4. CASE po \in S
    BY <1>1, <1>2, <1>3, <1>4, SumRemove
  <1>5. CASE po \notin S
    <2>1. S \ {po} = S
      BY <1>5
    <2> QED BY <1>3, <1>5, <2>1
  <1> QED BY <1>3, <1>4, <1>5

\* The same rows have the same sums.
LEMMA SameRows ==
  ASSUME NEW f, NEW g, NEW S \in SUBSET Payouts, \A po \in S : f[po] = g[po]
  PROVE  SumOf(f, S) = SumOf(g, S)
PROOF
  <1>1. IsFiniteSet(S)
    BY PayoutsAssumption, FS_Subset
  <1> QED BY <1>1, SumAgree

\* What a row adds to the sums of a publisher.
Holds(po, p) ==
  IF payout[po].publisher = p /\ payout[po].status = "pending" THEN payout[po].amount ELSE 0
Keeps(po, p) ==
  IF payout[po].publisher = p /\ payout[po].transferred
  THEN payout[po].amount - payout[po].reversed ELSE 0

LEMMA RowTypes ==
  ASSUME AccountShape
  PROVE  Amounts \in [Payouts -> Nat] /\ Retained \in [Payouts -> Nat]
PROOF
  <1>1. \A po \in Payouts : payout[po].amount \in Nat /\ payout[po].amount - payout[po].reversed \in Nat
    BY DEF AccountShape, Account, PayoutRecord
  <1> QED BY <1>1 DEF Amounts, Retained

\* One row changes: the sums of each publisher change by what it adds.
LEMMA OneRow ==
  ASSUME AccountShape, AccountShape', NEW po \in Payouts,
         \A q \in Payouts \ {po} : payout'[q] = payout[q],
         NEW p \in Publishers
  PROVE  /\ Reserved(p) \in Nat /\ SumOf(Retained, Booked(p)) \in Nat
         /\ Reserved(p)' = Reserved(p) - Holds(po, p) + Holds(po, p)'
         /\ SumOf(Retained, Booked(p))' = SumOf(Retained, Booked(p)) - Keeps(po, p) + Keeps(po, p)'
PROOF
  <1> DEFINE A == Active(p) \ {po}
             B == Booked(p) \ {po}
  <1>1. /\ Active(p) \in SUBSET Payouts /\ Active(p)' \in SUBSET Payouts
        /\ Booked(p) \in SUBSET Payouts /\ Booked(p)' \in SUBSET Payouts
        /\ A \in SUBSET Payouts /\ B \in SUBSET Payouts
    BY DEF Active, Booked
  <1>2. Active(p)' \ {po} = A /\ Booked(p)' \ {po} = B
    BY DEF Active, Booked
  <1>3. /\ Amounts \in [Payouts -> Nat] /\ Retained \in [Payouts -> Nat]
        /\ Amounts' \in [Payouts -> Nat] /\ Retained' \in [Payouts -> Nat]
    <2>1. Amounts \in [Payouts -> Nat] /\ Retained \in [Payouts -> Nat]
      BY RowTypes
    <2>2. \A q \in Payouts : /\ payout'[q].amount \in Nat
                             /\ payout'[q].amount - payout'[q].reversed \in Nat
      BY DEF AccountShape, Account, PayoutRecord
    <2>3. Amounts' \in [Payouts -> Nat] /\ Retained' \in [Payouts -> Nat]
      BY <2>2 DEF Amounts, Retained
    <2> QED BY <2>1, <2>3
  <1>4. SumOf(Amounts, A) = SumOf(Amounts', A) /\ SumOf(Retained, B) = SumOf(Retained', B)
    <2>1. /\ \A q \in A : Amounts[q] = Amounts'[q]
          /\ \A q \in B : Retained[q] = Retained'[q]
      BY DEF Amounts, Retained, Active, Booked
    <2> QED BY <1>1, <2>1, SameRows
  <1>5. /\ (po \in Active(p) => Amounts[po] = Holds(po, p)) /\ (po \notin Active(p) => Holds(po, p) = 0)
        /\ (po \in Booked(p) => Retained[po] = Keeps(po, p)) /\ (po \notin Booked(p) => Keeps(po, p) = 0)
    BY DEF Active, Amounts, Holds, Booked, Retained, Keeps
  <1>6. /\ (po \in Active(p)' => Amounts'[po] = Holds(po, p)') /\ (po \notin Active(p)' => Holds(po, p)' = 0)
        /\ (po \in Booked(p)' => Retained'[po] = Keeps(po, p)') /\ (po \notin Booked(p)' => Keeps(po, p)' = 0)
    BY DEF Active, Amounts, Holds, Booked, Retained, Keeps
  <1>7. /\ SumOf(Amounts, Active(p)) \in Nat /\ SumOf(Amounts, A) \in Nat
        /\ SumOf(Amounts, Active(p)) = SumOf(Amounts, A) + Holds(po, p)
    <2>1. SumOf(Amounts, Active(p)) \in Nat /\ SumOf(Amounts, A) \in Nat
      BY <1>1, <1>3, RowApart
    <2>2. SumOf(Amounts, Active(p)) = SumOf(Amounts, A) + (IF po \in Active(p) THEN Amounts[po] ELSE 0)
      BY <1>1, <1>3, RowApart
    <2> QED BY <1>5, <2>1, <2>2
  <1>8. SumOf(Amounts', Active(p)') = SumOf(Amounts', A) + Holds(po, p)'
    BY <1>1, <1>2, <1>3, <1>6, RowApart
  <1>9. /\ SumOf(Retained, Booked(p)) \in Nat /\ SumOf(Retained, B) \in Nat
        /\ SumOf(Retained, Booked(p)) = SumOf(Retained, B) + Keeps(po, p)
    <2>1. SumOf(Retained, Booked(p)) \in Nat /\ SumOf(Retained, B) \in Nat
      BY <1>1, <1>3, RowApart
    <2>2. SumOf(Retained, Booked(p)) = SumOf(Retained, B) + (IF po \in Booked(p) THEN Retained[po] ELSE 0)
      BY <1>1, <1>3, RowApart
    <2> QED BY <1>5, <2>1, <2>2
  <1>10. SumOf(Retained', Booked(p)') = SumOf(Retained', B) + Keeps(po, p)'
    BY <1>1, <1>2, <1>3, <1>6, RowApart
  <1>11. Reserved(p)' = SumOf(Amounts', Active(p)') /\ Reserved(p) = SumOf(Amounts, Active(p))
    BY DEF Reserved
  <1>12. Holds(po, p) \in Nat /\ Keeps(po, p) \in Nat
    BY DEF Holds, Keeps, AccountShape, Account, PayoutRecord
  <1>13. Holds(po, p)' \in Nat /\ Keeps(po, p)' \in Nat
    BY DEF Holds, Keeps, AccountShape, Account, PayoutRecord
  <1>14. Reserved(p)' = Reserved(p) - Holds(po, p) + Holds(po, p)'
    BY <1>4, <1>7, <1>8, <1>11, <1>12, <1>13
  <1> QED BY <1>4, <1>7, <1>9, <1>10, <1>11, <1>12, <1>13, <1>14

\* The sums of a publisher in a step: paid moves with what his rows keep, and what
\* is paid and reserved does not grow, or only up to what has matured.
Moves(p) ==
  /\ Reserved(p) \in Nat /\ Reserved(p)' \in Nat
  /\ SumOf(Retained, Booked(p)) \in Int
  /\ SumOf(Retained, Booked(p))' = SumOf(Retained, Booked(p)) + paid'[p] - paid[p]
  /\ \/ paid'[p] + Reserved(p)' <= paid[p] + Reserved(p)
     \/ /\ UNCHANGED <<earning, clock>>
        /\ paid'[p] + Reserved(p)' <= Total(Matured(p))

LEMMA SumsNatural ==
  ASSUME AccountShape, NEW p \in Publishers
  PROVE  Reserved(p) \in Nat /\ SumOf(Retained, Booked(p)) \in Nat
PROOF
  <1>1. Active(p) \in SUBSET Payouts /\ Booked(p) \in SUBSET Payouts
    BY DEF Active, Booked
  <1>2. IsFiniteSet(Active(p)) /\ IsFiniteSet(Booked(p))
    BY <1>1, PayoutsAssumption, FS_Subset
  <1>3. /\ \A po \in Active(p) : Amounts[po] \in Nat
        /\ \A po \in Booked(p) : Retained[po] \in Nat
    BY <1>1, RowTypes
  <1> QED BY <1>2, <1>3, SumType DEF Reserved

LEMMA ReservedAfter ==
  ASSUME AccountShape', NEW p \in Publishers
  PROVE  Reserved(p)' \in Nat
PROOF
  <1>1. IsFiniteSet(Active(p)') /\ Active(p)' \in SUBSET Payouts
    <2>1. Active(p)' \in SUBSET Payouts
      BY DEF Active
    <2> QED BY <2>1, PayoutsAssumption, FS_Subset
  <1>2. \A q \in Active(p)' : Amounts'[q] \in Nat
    BY <1>1 DEF Amounts, AccountShape, Account, PayoutRecord
  <1>3. SumOf(Amounts', Active(p)') \in Nat
    BY <1>1, <1>2, SumType
  <1> QED BY <1>3 DEF Reserved

\* Nothing moves.
LEMMA NoMove ==
  ASSUME AccountShape, UNCHANGED <<paid, payout>>, NEW p \in Publishers
  PROVE  Moves(p)
PROOF
  <1>1. Reserved(p)' = Reserved(p) /\ SumOf(Retained, Booked(p))' = SumOf(Retained, Booked(p))
    BY DEF Reserved, Amounts, Active, Retained, Booked
  <1>2. Reserved(p) \in Nat /\ SumOf(Retained, Booked(p)) \in Nat /\ paid[p] \in Int
    BY SumsNatural DEF AccountShape
  <1> QED BY <1>1, <1>2 DEF Moves

\* Whole cents of a natural are at most the natural.
LEMMA WholeCents ==
  ASSUME NEW a \in Nat
  PROVE  (a \div Cent) * Cent \in Nat /\ (a \div Cent) * Cent <= a
PROOF
  <1>1. Cent \in Nat \ {0}
    BY PayoutsAssumption
  <1>2. a \div Cent \in Nat /\ (a \div Cent) * Cent <= a
    BY <1>1
  <1>3. \A q, c \in Nat : q * c \in Nat
    OBVIOUS
  <1> QED BY <1>1, <1>2, <1>3

\* A reservation: each publisher gets at most one row, of what he may be paid.
LEMMA Reserving ==
  ASSUME OnceInv, EarningShape, AccountShape, NEW r \in Runs, ReserveCommit(r)
  PROVE  AccountShape' /\ \A p \in Publishers : Moves(p)
PROOF
  <1>1. PICK ps \in SUBSET Publishers : InsertPayouts(ps) /\ \A p \in ps : IsReserved(p)
    <2>1. run[r].candidates \in SUBSET Publishers
      BY DEF OnceInv, RunShape, RunRecord
    <2> DEFINE ps == {p \in FirstOf({q \in run[r].candidates : eligible[q]}) : IsReserved(p)}
    <2>2. InsertPayouts(ps)
      BY DEF ReserveCommit
    <2>3. ps \in SUBSET Publishers
      BY <2>1 DEF FirstOf
    <2> QED BY <2>2, <2>3
  <1>2. PICK fresh \in [ps -> {po \in Payouts : payout[po].status = "none"}] :
          /\ \A p, q \in ps : p # q => fresh[p] # fresh[q]
          /\ payout' = [po \in Payouts |->
               IF \E p \in ps : fresh[p] = po
               THEN LET p == CHOOSE q \in ps : fresh[q] = po
                    IN [NoPayout EXCEPT !.publisher = p, !.amount = Reservable(p),
                                        !.status = "pending"]
               ELSE payout[po]]
    BY <1>1 DEF InsertPayouts
  <1>3. UNCHANGED <<paid, earning, clock>>
    BY DEF ReserveCommit, ledgerVars
  <1>4. ASSUME NEW p \in ps
        PROVE  /\ Reservable(p) \in Nat /\ Reservable(p) <= Payable(p) /\ Active(p) = {}
               /\ fresh[p] \in Payouts /\ payout[fresh[p]].status = "none"
               /\ payout'[fresh[p]].publisher = p
               /\ payout'[fresh[p]].amount = Reservable(p)
               /\ payout'[fresh[p]].status = "pending"
               /\ ~payout'[fresh[p]].transferred
               /\ Account(payout'[fresh[p]])
    <2>1. Payable(p) \in Int
      <3>1. Matured(p) \in SUBSET Events
        BY DEF Matured, Cleared
      <3>2. Total(Matured(p)) \in Nat /\ paid[p] \in Int
        BY <3>1, EarningsSum DEF AccountShape
      <3> QED BY <3>2 DEF Payable
    <2>2. Payable(p) \in Nat /\ Active(p) = {}
      BY <1>1, <2>1 DEF IsReserved
    <2>3. Reservable(p) \in Nat /\ Reservable(p) <= Payable(p)
      BY <2>2, WholeCents DEF Reservable
    <2>4. fresh[p] \in Payouts /\ payout[fresh[p]].status = "none"
      BY <1>2
    <2>5. p = CHOOSE q \in ps : fresh[q] = fresh[p]
      BY <1>2
    <2>6. payout'[fresh[p]] = [NoPayout EXCEPT !.publisher = p, !.amount = Reservable(p),
                                               !.status = "pending"]
      BY <1>2, <2>4, <2>5
    <2>7. payout'[fresh[p]] = [publisher |-> p, amount |-> Reservable(p),
                               status |-> "pending", transferred |-> FALSE, reversed |-> 0]
      BY <2>6 DEF NoPayout
    <2>8. Account(payout'[fresh[p]])
      BY <2>3, <2>7 DEF Account, PayoutRecord
    <2> QED BY <2>2, <2>3, <2>4, <2>7, <2>8
  <1>5. ASSUME NEW po \in Payouts, \A p \in ps : fresh[p] # po PROVE payout'[po] = payout[po]
    BY <1>2, <1>5
  <1>6. AccountShape'
    <2>1. payout' = [po \in Payouts |-> payout'[po]]
      BY <1>2
    <2>2. ASSUME NEW po \in Payouts PROVE Account(payout'[po])
      <3>1. CASE \E p \in ps : fresh[p] = po
        <4>1. PICK p \in ps : fresh[p] = po
          BY <3>1
        <4> QED BY <1>4, <4>1
      <3>2. CASE \A p \in ps : fresh[p] # po
        BY <1>5, <3>2 DEF AccountShape
      <3> QED BY <3>1, <3>2
    <2> QED BY <1>3, <2>1, <2>2 DEF AccountShape
  <1> SUFFICES ASSUME NEW p \in Publishers PROVE Moves(p)
    BY <1>6
  <1>7. SumOf(Retained, Booked(p))' = SumOf(Retained, Booked(p))
    <2>1. \A po \in Payouts :
            \/ payout'[po] = payout[po]
            \/ ~payout[po].transferred /\ ~payout'[po].transferred
      <3> SUFFICES ASSUME NEW po \in Payouts, payout'[po] # payout[po]
                   PROVE  ~payout[po].transferred /\ ~payout'[po].transferred
        OBVIOUS
      <3>1. PICK q \in ps : fresh[q] = po
        BY <1>5
      <3>2. payout[po].status = "none" /\ ~payout'[po].transferred
        BY <1>4, <3>1
      <3> QED BY <3>2 DEF AccountShape, Account
    <2>2. Booked(p)' = Booked(p) /\ Booked(p) \in SUBSET Payouts
      BY <2>1 DEF Booked
    <2>3. \A po \in Booked(p) : Retained'[po] = Retained[po]
      BY <2>1 DEF Retained, Booked
    <2>4. SumOf(Retained', Booked(p)) = SumOf(Retained, Booked(p))
      BY <2>2, <2>3, SameRows
    <2> QED BY <2>2, <2>4
  <1>8. /\ Reserved(p) \in Nat /\ SumOf(Retained, Booked(p)) \in Nat /\ paid[p] \in Int
        /\ paid'[p] = paid[p]
    BY <1>3, SumsNatural DEF AccountShape
  <1>9. CASE p \in ps
    <2>1. Active(p)' = {fresh[p]}
      <3>1. fresh[p] \in Active(p)'
        BY <1>4, <1>9 DEF Active
      <3>2. ASSUME NEW po \in Active(p)', po # fresh[p] PROVE FALSE
        <4>1. po \in Payouts /\ payout'[po].publisher = p /\ payout'[po].status = "pending"
          BY <3>2 DEF Active
        <4>2. CASE \E q \in ps : fresh[q] = po
          BY <1>4, <3>2, <4>1, <4>2
        <4>3. CASE \A q \in ps : fresh[q] # po
          BY <1>4, <1>5, <1>9, <4>1, <4>3 DEF Active
        <4> QED BY <4>2, <4>3
      <3> QED BY <3>1, <3>2
    <2>2. Reserved(p)' = Reservable(p)
      <3>1. Amounts'[fresh[p]] = Reservable(p) /\ Reservable(p) \in Nat
        BY <1>4, <1>9 DEF Amounts
      <3>2. IsFiniteSet({fresh[p]}) /\ {fresh[p]} \ {fresh[p]} = {}
        BY FS_Singleton
      <3>3. SumOf(Amounts', {fresh[p]}) = Amounts'[fresh[p]] + SumOf(Amounts', {})
        BY <3>1, <3>2, SumRemove
      <3>4. SumOf(Amounts', {fresh[p]}) = Reservable(p)
        BY <3>1, <3>3, SumEmpty
      <3> QED BY <2>1, <3>4 DEF Reserved
    <2>3. Total(Matured(p)) \in Nat
      BY EarningsSum DEF Matured, Cleared
    <2>4. Reservable(p) \in Nat /\ Reservable(p) <= Total(Matured(p)) - paid[p]
      BY <1>4, <1>9 DEF Payable
    <2> QED BY <1>3, <1>7, <1>8, <2>2, <2>3, <2>4 DEF Moves
  <1>10. CASE p \notin ps
    <2>1. \A po \in Payouts :
            \/ payout'[po] = payout[po]
            \/ payout[po].status = "none" /\ payout'[po].publisher # p
      BY <1>4, <1>5, <1>10
    <2>2. Active(p)' = Active(p) /\ Active(p) \in SUBSET Payouts
      BY <2>1 DEF Active
    <2>3. \A po \in Active(p) : Amounts'[po] = Amounts[po]
      BY <2>1 DEF Amounts, Active
    <2>4. SumOf(Amounts', Active(p)) = SumOf(Amounts, Active(p))
      BY <2>2, <2>3, SameRows
    <2>5. Reserved(p)' = Reserved(p)
      BY <2>2, <2>4 DEF Reserved
    <2> QED BY <1>7, <1>8, <2>5 DEF Moves
  <1> QED BY <1>9, <1>10

\* Booking a transfer moves its amount from what is reserved to what is paid.
LEMMA Confirming ==
  ASSUME OnceInv, AccountShape, NEW r \in Runs, Confirm(r)
  PROVE  AccountShape' /\ \A p \in Publishers : Moves(p)
PROOF
  <1>1. PICK po \in Payouts : po = run[r].payout
    BY DEF Confirm, OnceInv, RunShape, AtPayout
  <1>2. CASE payout[po].status # "pending"
    <2>1. UNCHANGED <<paid, payout>>
      BY <1>1, <1>2 DEF Confirm
    <2> QED BY <2>1, NoMove DEF AccountShape
  <1>3. CASE payout[po].status = "pending"
    <2>1. /\ payout' = [payout EXCEPT ![po].status = "paid", ![po].transferred = TRUE]
          /\ paid' = [paid EXCEPT ![payout[po].publisher] = @ + payout[po].amount]
      BY <1>1, <1>3 DEF Confirm
    <2>2. Account(payout[po]) /\ payout[po].publisher \in Publishers
          /\ ~payout[po].transferred /\ payout[po].reversed = 0
      BY <1>1, <1>3 DEF AccountShape, Account
    <2>3. /\ \A q \in Payouts \ {po} : payout'[q] = payout[q]
          /\ payout' = [q \in Payouts |-> payout'[q]]
          /\ payout'[po] = [payout[po] EXCEPT !.status = "paid", !.transferred = TRUE]
      BY <1>1, <2>1 DEF AccountShape
    <2>4. Account(payout'[po])
      BY <2>2, <2>3 DEF Account, PayoutRecord
    <2>5. /\ payout'[po].publisher = payout[po].publisher
          /\ payout'[po].amount = payout[po].amount /\ payout'[po].reversed = 0
          /\ payout'[po].status = "paid" /\ payout'[po].transferred
          /\ payout[po].amount \in Nat
      BY <2>2, <2>3 DEF Account, PayoutRecord
    <2>6. /\ paid' \in [Publishers -> Int]
          /\ \A p \in Publishers :
               paid'[p] = paid[p] + (IF payout[po].publisher = p THEN payout[po].amount ELSE 0)
      BY <2>1, <2>2, <2>5 DEF AccountShape
    <2>7. AccountShape'
      BY <1>1, <2>3, <2>4, <2>6 DEF AccountShape
    <2> SUFFICES ASSUME NEW p \in Publishers PROVE Moves(p)
      BY <2>7
    <2>8. /\ Reserved(p) \in Nat /\ SumOf(Retained, Booked(p)) \in Nat
          /\ Reserved(p)' = Reserved(p) - Holds(po, p) + Holds(po, p)'
          /\ SumOf(Retained, Booked(p))' = SumOf(Retained, Booked(p)) - Keeps(po, p) + Keeps(po, p)'
      BY <1>1, <2>3, <2>7, OneRow
    <2>9. Reserved(p)' \in Nat /\ paid[p] \in Int
      BY <2>7, ReservedAfter DEF AccountShape
    <2>10. CASE payout[po].publisher = p
      <3>1. /\ Holds(po, p) = payout[po].amount /\ Holds(po, p)' = 0
            /\ Keeps(po, p) = 0 /\ Keeps(po, p)' = payout[po].amount
        BY <1>3, <2>2, <2>5, <2>10 DEF Holds, Keeps
      <3>2. paid'[p] = paid[p] + payout[po].amount
        BY <2>6, <2>10
      <3> QED BY <2>5, <2>8, <2>9, <3>1, <3>2 DEF Moves
    <2>11. CASE payout[po].publisher # p
      <3>1. /\ Holds(po, p) = 0 /\ Holds(po, p)' = 0 /\ Keeps(po, p) = 0 /\ Keeps(po, p)' = 0
        BY <2>5, <2>11 DEF Holds, Keeps
      <3>2. paid'[p] = paid[p]
        BY <2>6, <2>9, <2>11
      <3> QED BY <2>8, <2>9, <3>1, <3>2 DEF Moves
    <2> QED BY <2>10, <2>11
  <1> QED BY <1>2, <1>3

\* What is given up is no longer reserved.
LEMMA GivingUp ==
  ASSUME OnceInv, AccountShape, NEW r \in Runs, Fail(r)
  PROVE  AccountShape' /\ \A p \in Publishers : Moves(p)
PROOF
  <1>1. PICK po \in Payouts : po = run[r].payout
    BY DEF Fail, OnceInv, RunShape, AtPayout
  <1>2. /\ payout' = [payout EXCEPT ![po].status = IF @ = "pending" THEN "failed" ELSE @]
        /\ UNCHANGED paid
    BY <1>1 DEF Fail, ledgerVars
  <1>3. Account(payout[po])
    BY <1>1 DEF AccountShape
  <1>4. /\ \A q \in Payouts \ {po} : payout'[q] = payout[q]
        /\ payout' = [q \in Payouts |-> payout'[q]]
        /\ payout'[po] = [payout[po] EXCEPT !.status = IF @ = "pending" THEN "failed" ELSE @]
    BY <1>1, <1>2 DEF AccountShape
  <1>5. CASE payout[po].status # "pending"
    <2>1. payout'[po] = payout[po]
      BY <1>3, <1>4, <1>5 DEF Account, PayoutRecord
    <2>2. \A q \in Payouts : payout'[q] = payout[q]
      BY <1>4, <2>1
    <2>3. payout' = payout
      BY <1>4, <2>2 DEF AccountShape
    <2> QED BY <1>2, <2>3, NoMove DEF AccountShape
  <1>6. CASE payout[po].status = "pending"
    <2>1. payout'[po] = [payout[po] EXCEPT !.status = "failed"]
      BY <1>4, <1>6
    <2>2. Account(payout'[po])
      BY <1>3, <1>6, <2>1 DEF Account, PayoutRecord
    <2>3. /\ payout'[po].publisher = payout[po].publisher /\ payout'[po].status = "failed"
          /\ ~payout'[po].transferred /\ ~payout[po].transferred /\ payout[po].amount \in Nat
      BY <1>3, <1>6, <2>1 DEF Account, PayoutRecord
    <2>4. AccountShape'
      BY <1>1, <1>2, <1>4, <2>2 DEF AccountShape
    <2> SUFFICES ASSUME NEW p \in Publishers PROVE Moves(p)
      BY <2>4
    <2>5. /\ Reserved(p) \in Nat /\ SumOf(Retained, Booked(p)) \in Nat
          /\ Reserved(p)' = Reserved(p) - Holds(po, p) + Holds(po, p)'
          /\ SumOf(Retained, Booked(p))' = SumOf(Retained, Booked(p)) - Keeps(po, p) + Keeps(po, p)'
      BY <1>1, <1>4, <2>4, OneRow
    <2>6. Reserved(p)' \in Nat /\ paid[p] \in Int /\ paid'[p] = paid[p]
      BY <1>2, <2>4, ReservedAfter DEF AccountShape
    <2>7. /\ Holds(po, p) \in Nat /\ Holds(po, p)' = 0
          /\ Keeps(po, p) = 0 /\ Keeps(po, p)' = 0
      BY <2>3 DEF Holds, Keeps
    <2> QED BY <2>5, <2>6, <2>7 DEF Moves
  <1> QED BY <1>5, <1>6

\* An event takes back what it says beyond what is booked, and never more than
\* the payout; it changes nothing of what is reserved.
LEMMA TakingBack ==
  ASSUME AccountShape, ReturnShape, NEW n \in notices, TransferReversed(n)
  PROVE  /\ AccountShape' /\ \A p \in Publishers : Moves(p)
         /\ \A po \in Payouts :
              payout'[po].reversed = payout[po].reversed
              \/ payout'[po].reversed <= transfer[po].returned
PROOF
  <1> DEFINE po == n.payout
             target == Least(n.amount, payout[po].amount)
  <1>1. po \in Payouts /\ n.amount \in Nat /\ n.amount <= transfer[po].returned
        /\ transfer[po].returned \in Nat
    BY DEF ReturnShape
  <1>2. CASE UNCHANGED <<paid, payout>>
    BY <1>2, NoMove DEF AccountShape
  <1>3. CASE /\ payout[po].transferred /\ payout[po].status = "paid"
             /\ target > payout[po].reversed
             /\ payout' = [payout EXCEPT
                   ![po].reversed = target,
                   ![po].status = IF target = payout[po].amount THEN "failed" ELSE @]
             /\ paid' = [paid EXCEPT ![payout[po].publisher] =
                                        @ - (target - payout[po].reversed)]
    <2>1. Account(payout[po])
      BY <1>1 DEF AccountShape
    <2>2. target \in Nat /\ target <= payout[po].amount /\ target <= n.amount
          /\ payout[po].publisher \in Publishers /\ payout[po].reversed \in Nat
          /\ payout[po].amount \in Nat /\ payout[po].transferred
      BY <1>1, <1>3, <2>1 DEF Least, Account, PayoutRecord
    <2> HIDE DEF po, target
    <2>3. /\ \A q \in Payouts \ {po} : payout'[q] = payout[q]
          /\ payout' = [q \in Payouts |-> payout'[q]]
          /\ payout'[po] = [payout[po] EXCEPT
               !.reversed = target,
               !.status = IF target = payout[po].amount THEN "failed" ELSE @]
      BY <1>1, <1>3 DEF AccountShape
    <2>4. /\ Account(payout'[po]) /\ payout'[po].publisher = payout[po].publisher
          /\ payout'[po].amount = payout[po].amount /\ payout'[po].reversed = target
          /\ payout'[po].status # "pending" /\ payout'[po].transferred
      <3>1. CASE target = payout[po].amount
        <4>1. payout'[po] = [payout[po] EXCEPT !.reversed = target, !.status = "failed"]
          BY <2>3, <3>1
        <4>2. payout'[po] \in PayoutRecord
          BY <2>1, <2>2, <4>1 DEF Account, PayoutRecord
        <4>3. /\ payout'[po].publisher = payout[po].publisher
              /\ payout'[po].amount = payout[po].amount /\ payout'[po].reversed = target
              /\ payout'[po].status = "failed" /\ payout'[po].transferred
          BY <2>1, <2>2, <4>1 DEF Account, PayoutRecord
        <4> QED BY <2>2, <4>2, <4>3 DEF Account
      <3>2. CASE target # payout[po].amount
        <4>1. payout'[po] = [payout[po] EXCEPT !.reversed = target, !.status = "paid"]
          BY <1>3, <2>3, <3>2
        <4>2. payout'[po] \in PayoutRecord
          BY <2>1, <2>2, <4>1 DEF Account, PayoutRecord
        <4>3. /\ payout'[po].publisher = payout[po].publisher
              /\ payout'[po].amount = payout[po].amount /\ payout'[po].reversed = target
              /\ payout'[po].status = "paid" /\ payout'[po].transferred
          BY <2>1, <2>2, <4>1 DEF Account, PayoutRecord
        <4> QED BY <2>2, <4>2, <4>3 DEF Account
      <3> QED BY <3>1, <3>2
    <2>5. /\ paid' \in [Publishers -> Int]
          /\ \A p \in Publishers :
               paid'[p] = paid[p] - (IF payout[po].publisher = p
                                     THEN target - payout[po].reversed ELSE 0)
      BY <1>3, <2>2 DEF AccountShape
    <2>6. AccountShape'
      BY <1>1, <2>3, <2>4, <2>5 DEF AccountShape
    <2>7. ASSUME NEW p \in Publishers PROVE Moves(p)
      <3>1. /\ Reserved(p) \in Nat /\ SumOf(Retained, Booked(p)) \in Nat
            /\ Reserved(p)' = Reserved(p) - Holds(po, p) + Holds(po, p)'
            /\ SumOf(Retained, Booked(p))' = SumOf(Retained, Booked(p)) - Keeps(po, p) + Keeps(po, p)'
        BY <1>1, <2>3, <2>6, OneRow
      <3>2. paid[p] \in Int
        BY DEF AccountShape
      <3>3. Holds(po, p) = 0 /\ Holds(po, p)' = 0
        BY <1>3, <2>4 DEF Holds
      <3>4. CASE payout[po].publisher = p
        <4>1. /\ Keeps(po, p) = payout[po].amount - payout[po].reversed
              /\ Keeps(po, p)' = payout[po].amount - target
          BY <1>3, <2>4, <3>4 DEF Keeps
        <4>2. paid'[p] = paid[p] - (target - payout[po].reversed)
          BY <2>5, <3>4
        <4> QED BY <1>3, <2>2, <3>1, <3>2, <3>3, <4>1, <4>2 DEF Moves
      <3>5. CASE payout[po].publisher # p
        <4>1. Keeps(po, p) = 0 /\ Keeps(po, p)' = 0
          BY <2>4, <3>5 DEF Keeps
        <4>2. paid'[p] = paid[p]
          BY <2>5, <3>2, <3>5
        <4> QED BY <3>1, <3>2, <3>3, <4>1, <4>2 DEF Moves
      <3> QED BY <3>4, <3>5
    <2>8. payout'[po].reversed <= transfer[po].returned
      BY <1>1, <2>2, <2>4 DEF po
    <2> QED BY <2>3, <2>6, <2>7, <2>8
  <1> QED BY <1>2, <1>3 DEF TransferReversed

\* What Stripe has returned only grows, and no event says more.
LEMMA ReturnStep ==
  ASSUME OnceInv, AccountShape, ReturnShape, [Next]_vars
  PROVE  /\ ReturnShape'
         /\ \A po \in Payouts : transfer[po].returned <= transfer'[po].returned
PROOF
  <1>1. CASE /\ \A po \in Payouts : transfer'[po].returned = transfer[po].returned
             /\ notices' \subseteq notices
    BY <1>1 DEF ReturnShape
  <1>2. CASE UNCHANGED <<transfer, notices>>
    BY <1>1, <1>2
  <1>3. ASSUME NEW r \in Runs, CreateTransfer(r)
        PROVE  /\ \A po \in Payouts : transfer'[po].returned = transfer[po].returned
               /\ notices' \subseteq notices
    <2>1. /\ run[r].payout \in Payouts
          /\ \/ UNCHANGED transfer
             \/ transfer' = [transfer EXCEPT ![run[r].payout].made = @ + 1]
      BY <1>3, CreateEffect
    <2>2. UNCHANGED notices
      BY <1>3 DEF CreateTransfer
    <2> QED BY <2>1, <2>2 DEF OnceInv, TransferShape
  <1>4. ASSUME NEW r \in Runs, RunStep(r), ~CreateTransfer(r) PROVE UNCHANGED <<transfer, notices>>
    BY <1>4 DEF RunStep, ReserveSelect, ReserveCommit, FetchPending, TakePayout,
         PreCheck, Recheck, Confirm, Fail, EndRun, stripeVars
  <1>5. ASSUME NEW po \in Payouts, ReverseTransfer(po)
        PROVE  /\ ReturnShape'
               /\ \A q \in Payouts : transfer[q].returned <= transfer'[q].returned
    <2>1. PICK amount \in {transfer[po].returned + Cent, payout[po].amount} :
            /\ transfer[po].returned < amount
            /\ transfer' = [transfer EXCEPT ![po].returned = amount]
            /\ notices' = notices \cup {[payout |-> po, amount |-> amount]}
      BY <1>5 DEF ReverseTransfer
    <2>2. amount \in Nat
      BY <2>1, PayoutsAssumption DEF ReturnShape, AccountShape, Account, PayoutRecord
    <2>3. /\ transfer'[po].returned = amount
          /\ \A q \in Payouts \ {po} : transfer'[q].returned = transfer[q].returned
      BY <2>1 DEF OnceInv, TransferShape
    <2>4. \A q \in Payouts : /\ transfer'[q].returned \in Nat /\ transfer[q].returned \in Nat
                             /\ transfer[q].returned <= transfer'[q].returned
      BY <2>1, <2>2, <2>3 DEF ReturnShape
    <2>5. ASSUME NEW n \in notices'
          PROVE  n \in [payout : Payouts, amount : Nat] /\ n.amount <= transfer'[n.payout].returned
      <3>1. CASE n \in notices
        <4>1. /\ n \in [payout : Payouts, amount : Nat] /\ n.payout \in Payouts /\ n.amount \in Nat
              /\ n.amount <= transfer[n.payout].returned
          BY <3>1 DEF ReturnShape
        <4> QED BY <2>4, <4>1
      <3>2. CASE n = [payout |-> po, amount |-> amount]
        BY <2>2, <2>3, <3>2
      <3> QED BY <2>1, <2>5, <3>1, <3>2
    <2> QED BY <2>4, <2>5 DEF ReturnShape
  <1>6. ASSUME NEW n \in notices, TransferReversed(n)
        PROVE  UNCHANGED transfer /\ notices' \subseteq notices
    BY <1>6 DEF TransferReversed, Delivered
  <1>7. ASSUME \/ \E e \in Events : Clear(e)
               \/ Mature
               \/ \E p \in Publishers : PublisherStep(p)
               \/ \E w \in Windows : ClawbackStep(w)
               \/ \E po \in Payouts : KeyExpires(po)
        PROVE  UNCHANGED <<transfer, notices>>
    BY <1>7 DEF Clear, Mature, PublisherStep, PlaceHold, EligibilityRead, EligibilityWrite,
         ClawbackStep, OpenClawback, PrepayClawback, SelfDealClawback, KeyExpires, stripeVars
  <1>8. CASE UNCHANGED vars
    BY <1>2, <1>8 DEF vars, stripeVars
  <1> QED BY <1>1, <1>2, <1>3, <1>4, <1>5, <1>6, <1>7, <1>8 DEF Next, StripeStep

\* The rows and the ledger in any step.
LEMMA AccountStep ==
  ASSUME OnceInv, EarningShape, AccountShape, ReturnShape, [Next]_vars
  PROVE  /\ AccountShape' /\ \A p \in Publishers : Moves(p)
         /\ \A po \in Payouts :
              payout'[po].reversed \in {0, payout[po].reversed}
              \/ payout'[po].reversed <= transfer[po].returned
PROOF
  <1>1. CASE UNCHANGED <<paid, payout>>
    BY <1>1, NoMove DEF AccountShape
  <1>2. ASSUME NEW r \in Runs, ReserveCommit(r)
        PROVE  \A po \in Payouts : payout'[po].reversed \in {0, payout[po].reversed}
    <2>1. PICK ps : InsertPayouts(ps)
      BY <1>2 DEF ReserveCommit
    <2>2. PICK fresh \in [ps -> {po \in Payouts : payout[po].status = "none"}] :
            payout' = [po \in Payouts |->
              IF \E p \in ps : fresh[p] = po
              THEN LET p == CHOOSE q \in ps : fresh[q] = po
                   IN [NoPayout EXCEPT !.publisher = p, !.amount = Reservable(p),
                                       !.status = "pending"]
              ELSE payout[po]]
      BY <2>1 DEF InsertPayouts
    <2>3. \A p : [NoPayout EXCEPT !.publisher = p, !.amount = Reservable(p),
                                  !.status = "pending"].reversed = 0
      BY DEF NoPayout
    <2> QED BY <2>2, <2>3
  <1>3. ASSUME NEW r \in Runs, Confirm(r) \/ Fail(r)
        PROVE  \A po \in Payouts : payout'[po].reversed \in {0, payout[po].reversed}
    <2>1. PICK q \in Payouts : q = run[r].payout
      BY <1>3 DEF Confirm, Fail, OnceInv, RunShape, AtPayout
    <2>2. /\ Account(payout[q])
          /\ \/ UNCHANGED payout
             \/ payout' = [payout EXCEPT ![q].status = "paid", ![q].transferred = TRUE]
             \/ payout' = [payout EXCEPT ![q].status = IF @ = "pending" THEN "failed" ELSE @]
      BY <1>3, <2>1 DEF Confirm, Fail, AccountShape
    <2> QED BY <2>2 DEF AccountShape, Account, PayoutRecord
  <1>4. ASSUME NEW r \in Runs, RunStep(r)
        PROVE  ReserveCommit(r) \/ Confirm(r) \/ Fail(r) \/ UNCHANGED <<paid, payout>>
    BY <1>4 DEF RunStep, ReserveSelect, FetchPending, TakePayout, PreCheck, CreateTransfer,
         Recheck, EndRun, ledgerVars
  <1>5. ASSUME \/ \E e \in Events : Clear(e)
               \/ Mature
               \/ \E p \in Publishers : PublisherStep(p)
               \/ \E w \in Windows : ClawbackStep(w)
               \/ \E po \in Payouts : KeyExpires(po) \/ ReverseTransfer(po)
               \/ UNCHANGED vars
        PROVE  UNCHANGED <<paid, payout>>
    BY <1>5 DEF Clear, Mature, PublisherStep, PlaceHold, EligibilityRead, EligibilityWrite,
         ClawbackStep, OpenClawback, PrepayClawback, SelfDealClawback, KeyExpires,
         ReverseTransfer, ledgerVars, vars
  <1>6. CASE \E r \in Runs : ReserveCommit(r)
    BY <1>2, <1>6, Reserving
  <1>7. CASE \E r \in Runs : Confirm(r) \/ Fail(r)
    BY <1>3, <1>7, Confirming, GivingUp
  <1>8. CASE \E n \in notices : TransferReversed(n)
    BY <1>8, TakingBack
  <1> QED BY <1>1, <1>4, <1>5, <1>6, <1>7, <1>8 DEF Next, StripeStep

\* What has matured for a publisher shrinks in no step but a clawback, and that
\* finds nothing reserved and leaves what is paid.
LEMMA CreatedNatural == \A e \in Events : Created(e) \in Nat /\ e[1] \in Windows
PROOF
  <1> SUFFICES ASSUME NEW e \in Events PROVE Created(e) \in Nat /\ e[1] \in Windows
    OBVIOUS
  <1>1. e[1] \in Windows
    <2>1. CASE e \in Windows \X {"impression"}
      BY <2>1
    <2>2. CASE e \in Clicked \X {"click"}
      BY <2>2 DEF Clicked
    <2> QED BY <2>1, <2>2 DEF Events
  <1>2. e[1] \in Nat
    BY <1>1, PayoutsAssumption
  <1> QED BY <1>1, <1>2 DEF Created

LEMMA MaturedGrows ==
  ASSUME NEW p \in Publishers, Matured(p) \subseteq Matured(p)'
  PROVE  Total(Matured(p)) <= Total(Matured(p))'
PROOF
  <1>1. Matured(p)' \in SUBSET Events
    BY DEF Matured, Cleared
  <1> QED BY <1>1, EarningsSum

LEMMA ClockAdvances ==
  ASSUME EarningShape, Mature
  PROVE  clock' \in Nat /\ clock <= clock'
PROOF
  <1> DEFINE T == {Created(e) : e \in {f \in Events : Created(f) > clock}}
  <1>1. T \in SUBSET Nat /\ T # {} /\ (\A t \in T : t > clock) /\ clock \in Nat
    BY CreatedNatural DEF Mature, EarningShape
  <1>2. clock' = CHOOSE x \in T : \A y \in T : x <= y
    BY DEF Mature, Min
  <1>3. \E x \in T : \A y \in T : x <= y
    BY <1>1, LeastNatural
  <1> HIDE DEF T
  <1>4. clock' \in T
    BY <1>2, <1>3
  <1> QED BY <1>1, <1>4

LEMMA Reversing ==
  ASSUME EarningShape, AccountShape, NEW w \in Windows, Reversible(w),
         earning' = Reversed(w), UNCHANGED <<clock, paid>>,
         PayableWithout(w) >= 0 \/ w \in Prepay
  PROVE  /\ EarningShape'
         /\ \A p \in Publishers :
              \/ Matured(p) \subseteq Matured(p)'
              \/ Active(p) = {} /\ Total(Matured(p))' >= paid[p]
PROOF
  <1>1. EarningShape'
    BY DEF EarningShape, Reversed
  <1>2. ASSUME NEW p \in Publishers PROVE Matured(p)' = {e \in Matured(p) : e[1] # w}
    BY DEF Matured, Cleared, Reversed
  <1> DEFINE o == Owner[w]
             left == {e \in Matured(o) : e[1] # w}
  <1>3. o \in Publishers /\ Active(o) = {} /\ paid[o] \in Int
    BY PayoutsAssumption DEF Reversible, AccountShape
  <1>4. left \in SUBSET Events /\ Total(left) \in Nat
    BY EarningsSum DEF Matured, Cleared
  <1>5. ASSUME NEW p \in Publishers, p # o PROVE Matured(p) \subseteq Matured(p)'
    BY <1>2, <1>5 DEF Matured, Cleared
  <1>6. CASE PayableWithout(w) >= 0
    <2>1. Total(left) >= paid[o]
      BY <1>3, <1>4, <1>6 DEF PayableWithout
    <2> QED BY <1>1, <1>2, <1>3, <1>5, <2>1
  <1>7. CASE w \in Prepay
    <2> DEFINE imp == <<w, "impression">>
               older == {e \in Cleared(o) : Created(e) < Created(imp)}
    <2>1. imp \in Events /\ Created(imp) \in Nat
      BY CreatedNatural DEF Events
    <2>2. \A e \in Events : e[1] = w => e = imp
      BY <1>7 DEF Events, Clicked
    <2>3. CASE Created(imp) > clock
      <3>1. \A e \in Matured(o) : e # imp
        BY <2>1, <2>3 DEF Matured, EarningShape
      <3>2. Matured(o) \subseteq Matured(o)'
        BY <1>2, <1>3, <2>2, <3>1 DEF Matured, Cleared
      <3> QED BY <1>1, <1>5, <3>2
    <2>4. CASE Created(imp) <= clock
      <3>1. older \in SUBSET left
        BY <2>1, <2>2, <2>4, CreatedNatural DEF Matured, Cleared, EarningShape
      <3>2. Total(older) \in Nat /\ Total(older) <= Total(left)
        BY <1>4, <3>1, EarningsSum
      <3>3. ~(Total(older) < paid[o])
        BY DEF Reversible, EarningPaid
      <3>4. Total(left) >= paid[o]
        BY <1>3, <1>4, <3>2, <3>3
      <3> QED BY <1>1, <1>2, <1>3, <1>5, <3>4
    <2> QED BY <2>1, <2>3, <2>4 DEF EarningShape
  <1> QED BY <1>6, <1>7

LEMMA EarningStep ==
  ASSUME EarningShape, AccountShape, [Next]_vars
  PROVE  /\ EarningShape'
         /\ \A p \in Publishers :
              \/ Total(Matured(p)) <= Total(Matured(p))'
              \/ /\ UNCHANGED <<paid, payout>> /\ Active(p) = {}
                 /\ Total(Matured(p))' >= paid[p]
PROOF
  <1>1. CASE UNCHANGED <<earning, clock>>
    <2>1. \A p \in Publishers : Matured(p)' = Matured(p) /\ Matured(p) \in SUBSET Events
      BY <1>1 DEF Matured, Cleared
    <2> QED BY <1>1, <2>1, MaturedGrows DEF EarningShape
  <1>2. ASSUME NEW e \in Events, Clear(e)
        PROVE  EarningShape' /\ \A p \in Publishers : Matured(p) \subseteq Matured(p)'
    BY <1>2 DEF Clear, EarningShape, Matured, Cleared
  <1>3. CASE Mature
    <2>1. EarningShape' /\ \A p \in Publishers : Matured(p) \subseteq Matured(p)'
      <3>1. clock' \in Nat /\ clock <= clock' /\ clock \in Nat /\ UNCHANGED earning
        BY <1>3, ClockAdvances DEF Mature, ledgerVars, EarningShape
      <3> QED BY <3>1, CreatedNatural DEF EarningShape, Matured, Cleared
    <2> QED BY <2>1, MaturedGrows
  <1>4. ASSUME NEW w \in Windows, ClawbackStep(w)
        PROVE  /\ UNCHANGED <<paid, payout>> /\ UNCHANGED clock
               /\ \/ UNCHANGED earning
                  \/ /\ Reversible(w) /\ earning' = Reversed(w)
                     /\ PayableWithout(w) >= 0 \/ w \in Prepay
    BY <1>4 DEF ClawbackStep, OpenClawback, PrepayClawback, SelfDealClawback
  <1>5. CASE \E w \in Windows : ClawbackStep(w)
    BY <1>1, <1>4, <1>5, Reversing, MaturedGrows
  <1>6. ASSUME \/ \E p \in Publishers : PublisherStep(p)
               \/ \E r \in Runs : RunStep(r)
               \/ StripeStep
               \/ UNCHANGED vars
        PROVE  UNCHANGED <<earning, clock>>
    BY <1>6 DEF PublisherStep, PlaceHold, EligibilityRead, EligibilityWrite, RunStep,
         ReserveSelect, ReserveCommit, FetchPending, TakePayout, PreCheck, CreateTransfer,
         Recheck, Confirm, Fail, EndRun, StripeStep, KeyExpires, ReverseTransfer,
         TransferReversed, ledgerVars, vars
  <1> QED BY <1>1, <1>2, <1>3, <1>5, <1>6, MaturedGrows DEF Next

LEMMA InitMoney == ASSUME Init PROVE MoneyInv
PROOF
  <1>1. OnceInv
    BY InitOnce
  <1>2. EarningShape /\ ReturnShape
    BY DEF Init, EarningShape, ReturnShape
  <1>3. AccountShape
    BY DEF Init, AccountShape, Account, PayoutRecord, NoPayout
  <1>4. \A p \in Publishers :
          /\ Reserved(p) = 0 /\ SumOf(Retained, Booked(p)) = 0 /\ paid[p] = 0
          /\ Total(Matured(p)) \in Nat
    <2> SUFFICES ASSUME NEW p \in Publishers
                 PROVE  /\ Reserved(p) = 0 /\ SumOf(Retained, Booked(p)) = 0 /\ paid[p] = 0
                        /\ Total(Matured(p)) \in Nat
      OBVIOUS
    <2>1. Active(p) = {} /\ Booked(p) = {} /\ paid[p] = 0
      BY DEF Init, Active, Booked, NoPayout
    <2>2. Matured(p) \in SUBSET Events
      BY DEF Matured, Cleared
    <2> QED BY <2>1, <2>2, SumEmpty, EarningsSum DEF Reserved
  <1>5. \A po \in Payouts : payout[po].reversed <= transfer[po].returned
    BY DEF Init, NoPayout
  <1> QED BY <1>1, <1>2, <1>3, <1>4, <1>5
          DEF MoneyInv, PayoutsBacked, LedgerFollowsTransfers

LEMMA MoneyStep == ASSUME MoneyInv, [Next]_vars PROVE MoneyInv'
PROOF
  <1>1. OnceInv' /\ EarningShape' /\ AccountShape' /\ ReturnShape'
    BY OnceStep, EarningStep, AccountStep, ReturnStep DEF MoneyInv
  <1>2. ASSUME NEW p \in Publishers
        PROVE  /\ paid'[p] = SumOf(Retained, Booked(p))'
               /\ Total(Matured(p))' >= paid'[p] + Reserved(p)'
    <2>1. Moves(p)
      BY AccountStep DEF MoneyInv
    <2>2. paid[p] \in Int /\ paid'[p] \in Int
      BY <1>1 DEF MoneyInv, AccountShape
    <2>3. /\ paid[p] = SumOf(Retained, Booked(p))
          /\ Total(Matured(p)) >= paid[p] + Reserved(p)
      BY DEF MoneyInv, PayoutsBacked, LedgerFollowsTransfers
    <2>4. /\ Matured(p) \in SUBSET Events /\ Matured(p)' \in SUBSET Events
          /\ Total(Matured(p)) \in Nat /\ Total(Matured(p))' \in Nat
      <3>1. Matured(p) \in SUBSET Events /\ Matured(p)' \in SUBSET Events
        BY DEF Matured, Cleared
      <3>2. Total(Matured(p)) \in Nat /\ Total(Matured(p)') \in Nat
        BY <3>1, EarningsSum
      <3> QED BY <3>1, <3>2
    <2>5. CASE UNCHANGED <<paid, payout>> /\ Active(p) = {} /\ Total(Matured(p))' >= paid[p]
      <3>1. Active(p)' = {}
        BY <2>5 DEF Active
      <3>2. Reserved(p)' = 0
        BY <3>1, SumEmpty DEF Reserved
      <3> QED BY <2>1, <2>2, <2>3, <2>4, <2>5, <3>2 DEF Moves
    <2>6. CASE Total(Matured(p)) <= Total(Matured(p))'
      <3>1. CASE paid'[p] + Reserved(p)' <= paid[p] + Reserved(p)
        BY <2>1, <2>2, <2>3, <2>4, <2>6, <3>1 DEF Moves
      <3>2. CASE paid'[p] + Reserved(p)' <= Total(Matured(p))
        BY <2>1, <2>2, <2>3, <2>4, <2>6, <3>2 DEF Moves
      <3> QED BY <2>1, <3>1, <3>2 DEF Moves
    <2> QED BY <2>5, <2>6, EarningStep DEF MoneyInv
  <1>3. ASSUME NEW po \in Payouts PROVE payout'[po].reversed <= transfer'[po].returned
    <2>1. /\ transfer[po].returned \in Nat /\ transfer'[po].returned \in Nat
          /\ transfer[po].returned <= transfer'[po].returned
      BY <1>1, ReturnStep DEF MoneyInv, ReturnShape
    <2>2. /\ payout[po].reversed \in Nat /\ payout'[po].reversed \in Nat
          /\ payout[po].reversed <= transfer[po].returned
      BY <1>1 DEF MoneyInv, AccountShape, Account, PayoutRecord, LedgerFollowsTransfers
    <2> QED BY <2>1, <2>2, AccountStep DEF MoneyInv
  <1>4. PayoutsBacked' /\ LedgerFollowsTransfers'
    BY <1>2, <1>3 DEF PayoutsBacked, LedgerFollowsTransfers
  <1> QED BY <1>1, <1>4 DEF MoneyInv

LEMMA MoneyAlways == Spec => []MoneyInv
PROOF
  <1>1. Init => MoneyInv
    BY InitMoney
  <1>2. MoneyInv /\ [Next]_vars => MoneyInv'
    BY MoneyStep
  <1> QED BY <1>1, <1>2, PTL DEF Spec

\* What is paid to a publisher and what is reserved for him never exceeds his
\* matured, cleared earnings: no reservation counts an earning twice, and no
\* clawback of any of the three routes reaches behind a payout, for any number of
\* publishers, windows and batches and any prices.
THEOREM PayoutsAlwaysBacked == Spec => []PayoutsBacked
PROOF
  <1>1. MoneyInv => PayoutsBacked
    BY DEF MoneyInv
  <1> QED BY <1>1, MoneyAlways, PTL

\* The ledger of a publisher is what was transferred to him less what came back,
\* however often and in whichever order the events of Stripe arrive, and takes back
\* no more than Stripe did.
THEOREM LedgerAlwaysFollows == Spec => []LedgerFollowsTransfers
PROOF
  <1>1. MoneyInv => LedgerFollowsTransfers
    BY DEF MoneyInv
  <1> QED BY <1>1, MoneyAlways, PTL

-----------------------------------------------------------------------------
(* Types: what is paid is a natural because the ledger is what was kept.    *)

PublisherShape ==
  /\ eligible \in [Publishers -> BOOLEAN]
  /\ held \in [Publishers -> BOOLEAN]
  /\ callback \in [Publishers -> {"none", "free", "held"}]

LEMMA PublisherShapeStep == ASSUME PublisherShape, [Next]_vars PROVE PublisherShape'
PROOF
  <1>1. ASSUME NEW p \in Publishers, PublisherStep(p) PROVE PublisherShape'
    BY <1>1 DEF PublisherStep, PlaceHold, EligibilityRead, EligibilityWrite, PublisherShape
  <1>2. ASSUME NEW w \in Windows, ClawbackStep(w) PROVE PublisherShape'
    BY <1>2 DEF ClawbackStep, OpenClawback, PrepayClawback, SelfDealClawback, publisherVars,
                PublisherShape
  <1>3. ASSUME \/ \E e \in Events : Clear(e)
               \/ Mature
               \/ \E r \in Runs : RunStep(r)
               \/ StripeStep
               \/ UNCHANGED vars
        PROVE  UNCHANGED <<eligible, held, callback>>
    BY <1>3 DEF Clear, Mature, RunStep, ReserveSelect, ReserveCommit, FetchPending, TakePayout,
         PreCheck, CreateTransfer, Recheck, Confirm, Fail, EndRun, StripeStep, KeyExpires,
         ReverseTransfer, TransferReversed, publisherVars, vars
  <1> QED BY <1>1, <1>2, <1>3 DEF Next, PublisherShape

\* Every variable keeps its type.
THEOREM TypeCorrect == Spec => []TypeOK
PROOF
  <1>1. Init => PublisherShape
    BY DEF Init, PublisherShape
  <1>2. PublisherShape /\ [Next]_vars => PublisherShape'
    BY PublisherShapeStep
  <1>3. Spec => []PublisherShape
    BY <1>1, <1>2, PTL DEF Spec
  <1>4. MoneyInv /\ PublisherShape => TypeOK
    <2> SUFFICES ASSUME MoneyInv, PublisherShape PROVE TypeOK
      OBVIOUS
    <2>1. paid \in [Publishers -> Nat]
      <3>1. \A p \in Publishers : paid[p] \in Nat
        BY SumsNatural DEF MoneyInv, LedgerFollowsTransfers
      <3> QED BY <3>1 DEF MoneyInv, AccountShape
    <2>2. payout \in [Payouts -> PayoutRecord]
      BY DEF MoneyInv, AccountShape, Account
    <2>3. transfer \in [Payouts -> [made : Nat, returned : Nat]]
      <3>1. \A po \in Payouts : transfer[po].made \in Nat /\ transfer[po].returned \in Nat
        BY DEF MoneyInv, OnceInv, TransferShape, ReturnShape
      <3>2. transfer = [po \in Payouts |->
              [made |-> transfer[po].made, returned |-> transfer[po].returned]]
        BY DEF MoneyInv, OnceInv, TransferShape
      <3> QED BY <3>1, <3>2
    <2>4. notices \subseteq [payout : Payouts, amount : Nat]
      BY DEF MoneyInv, ReturnShape
    <2>5. run \in [Runs -> RunRecord] /\ key \in [Payouts -> {"none", "made", "rejected"}]
      BY DEF MoneyInv, OnceInv, RunShape, KeyShape
    <2> QED BY <2>1, <2>2, <2>3, <2>4, <2>5
            DEF TypeOK, PublisherShape, MoneyInv, EarningShape, PayoutRecord, RunRecord, Stages
  <1> QED BY <1>3, <1>4, MoneyAlways, PTL

-----------------------------------------------------------------------------
(* Holds.                                                                  *)

\* Who is held and eligible was so before, or an account update that had seen no
\* hold has made him eligible.
LEMMA OnlyOvertaken ==
  ASSUME PublisherShape, [Next]_vars,
         NEW p \in Publishers, held'[p], eligible'[p]
  PROVE  held[p] /\ (eligible[p] \/ callback[p] = "free")
PROOF
  <1>1. ASSUME NEW q \in Publishers, PublisherStep(q)
        PROVE  held[p] /\ (eligible[p] \/ callback[p] = "free")
    <2>1. CASE PlaceHold(q)
      BY <2>1 DEF PlaceHold, PublisherShape
    <2>2. CASE EligibilityRead(q)
      BY <2>2 DEF EligibilityRead
    <2>3. CASE EligibilityWrite(q)
      BY <2>3 DEF EligibilityWrite, PublisherShape
    <2> QED BY <1>1, <2>1, <2>2, <2>3 DEF PublisherStep
  <1>2. ASSUME NEW w \in Windows, ClawbackStep(w)
        PROVE  held[p] /\ (eligible[p] \/ callback[p] = "free")
    BY <1>2 DEF ClawbackStep, OpenClawback, PrepayClawback, SelfDealClawback,
                publisherVars, PublisherShape
  <1>3. ASSUME \/ \E e \in Events : Clear(e)
               \/ Mature
               \/ \E r \in Runs : RunStep(r)
               \/ StripeStep
               \/ UNCHANGED vars
        PROVE  UNCHANGED <<eligible, held, callback>>
    BY <1>3 DEF Clear, Mature, RunStep, ReserveSelect, ReserveCommit, FetchPending, TakePayout,
         PreCheck, CreateTransfer, Recheck, Confirm, Fail, EndRun, StripeStep, KeyExpires,
         ReverseTransfer, TransferReversed, publisherVars, vars
  <1> QED BY <1>1, <1>2, <1>3 DEF Next

\* Only a reservation makes a row pending, for a publisher who is eligible by then.
LEMMA OnlyReserves ==
  ASSUME RunShape, AccountShape, ReturnShape, [Next]_vars,
         NEW po \in Payouts, payout[po].status = "none", payout'[po].status = "pending"
  PROVE  payout'[po].publisher \in Publishers /\ eligible[payout'[po].publisher]
PROOF
  <1>2. CASE UNCHANGED payout
    BY <1>2
  <1>3. ASSUME NEW r \in Runs, ReserveCommit(r)
        PROVE  payout'[po].publisher \in Publishers /\ eligible[payout'[po].publisher]
    <2> DEFINE ps == {p \in FirstOf({q \in run[r].candidates : eligible[q]}) : IsReserved(p)}
    <2>1. InsertPayouts(ps)
      BY <1>3 DEF ReserveCommit
    <2>2. run[r].candidates \in SUBSET Publishers
      BY DEF RunShape, RunRecord
    <2>3. \A p \in ps : p \in Publishers /\ eligible[p]
      BY <2>2 DEF FirstOf
    <2> HIDE DEF ps
    <2>4. PICK fresh \in [ps -> {q \in Payouts : payout[q].status = "none"}] :
            payout' = [q \in Payouts |->
              IF \E p \in ps : fresh[p] = q
              THEN LET p == CHOOSE x \in ps : fresh[x] = q
                   IN [NoPayout EXCEPT !.publisher = p, !.amount = Reservable(p),
                                       !.status = "pending"]
              ELSE payout[q]]
      BY <2>1 DEF InsertPayouts
    <2>5. \E p \in ps : fresh[p] = po
      BY <2>4
    <2>6. PICK p \in ps : p = CHOOSE x \in ps : fresh[x] = po
      BY <2>5
    <2>7. payout'[po].publisher = p
      BY <2>4, <2>5, <2>6 DEF NoPayout
    <2> QED BY <2>3, <2>7
  <1>4. ASSUME NEW r \in Runs, Confirm(r) \/ Fail(r) PROVE payout'[po].status # "pending"
    <2>1. PICK q \in Payouts : q = run[r].payout
      BY <1>4 DEF Confirm, Fail, RunShape, AtPayout
    <2>2. \/ UNCHANGED payout
          \/ payout' = [payout EXCEPT ![q].status = "paid", ![q].transferred = TRUE]
          \/ payout' = [payout EXCEPT ![q].status = IF @ = "pending" THEN "failed" ELSE @]
      BY <1>4, <2>1 DEF Confirm, Fail
    <2>3. Account(payout[po]) /\ Account(payout[q])
      BY DEF AccountShape
    <2> QED BY <2>2, <2>3 DEF AccountShape, Account, PayoutRecord
  <1>5. ASSUME NEW n \in notices, TransferReversed(n) PROVE payout'[po].status # "pending"
    BY <1>5 DEF TransferReversed, AccountShape, Account, PayoutRecord
  <1> QED BY <1>2, <1>3, <1>4, <1>5
          DEF Next, vars, StripeStep, RunStep, Clear, Mature, PublisherStep, PlaceHold,
              EligibilityRead, EligibilityWrite, ClawbackStep, OpenClawback, PrepayClawback,
              SelfDealClawback, ReserveSelect, FetchPending, TakePayout, PreCheck,
              CreateTransfer, Recheck, EndRun, KeyExpires, ReverseTransfer

\* Between a batch, the scans that hold a publisher and the account updates,
\* however they overlap, nothing is reserved for a publisher who is held, unless
\* an update that had read the holds before this one made him eligible again.
THEOREM HeldNeverReserved == Spec => HeldNotReserved
PROOF
  <1>1. Init => PublisherShape
    BY DEF Init, PublisherShape
  <1>2. PublisherShape /\ [Next]_vars => PublisherShape'
    BY PublisherShapeStep
  <1>3. ASSUME MoneyInv, PublisherShape, [Next]_vars
        PROVE  /\ \A po \in Payouts :
                    payout[po].status = "none" /\ payout'[po].status = "pending"
                      => LET p == payout'[po].publisher IN held[p] => eligible[p]
               /\ \A p \in Publishers :
                    held'[p] /\ eligible'[p] => held[p] /\ (eligible[p] \/ callback[p] = "free")
    BY <1>3, OnlyReserves, OnlyOvertaken DEF MoneyInv, OnceInv
  <1> QED BY <1>1, <1>2, <1>3, MoneyAlways, PTL DEF Spec, HeldNotReserved

-----------------------------------------------------------------------------
(* A payouts row from its reservation on.                                  *)

\* Its publisher and amount stay, its status only goes forward, and what is
\* booked of its transfer and of what came back is never taken out again.
GoesOn(from, to) ==
  \/ to = from
  \/ from = "pending" /\ to \in {"paid", "failed"}
  \/ from = "paid" /\ to = "failed"
KeepsTerms(po) ==
  /\ payout'[po].publisher = payout[po].publisher /\ payout'[po].amount = payout[po].amount
  /\ GoesOn(payout[po].status, payout'[po].status)
  /\ payout[po].transferred => payout'[po].transferred
  /\ payout[po].reversed <= payout'[po].reversed
TermsKept == [][\A po \in Payouts : payout[po].status # "none" => KeepsTerms(po)]_vars

LEMMA SameTerms ==
  ASSUME AccountShape, NEW po \in Payouts, payout[po].status # "none",
         payout'[po] = payout[po]
  PROVE  KeepsTerms(po)
PROOF
  <1>1. payout[po] \in PayoutRecord
    BY DEF AccountShape, Account
  <1>2. payout[po].status \in {"pending", "paid", "failed"} /\ payout[po].reversed \in Nat
    BY <1>1 DEF PayoutRecord
  <1> QED BY <1>2 DEF KeepsTerms, GoesOn

LEMMA TermsStay ==
  ASSUME RunShape, AccountShape, ReturnShape, [Next]_vars,
         NEW po \in Payouts, payout[po].status # "none"
  PROVE  KeepsTerms(po)
PROOF
  <1>0. /\ payout[po] \in PayoutRecord
        /\ \A q \in Payouts : payout[q] \in PayoutRecord
        /\ payout = [q \in Payouts |-> payout[q]]
    BY DEF AccountShape, Account
  <1>1. CASE UNCHANGED payout
    BY <1>1, SameTerms
  <1>2. ASSUME NEW r \in Runs, ReserveCommit(r) PROVE KeepsTerms(po)
    <2>1. PICK ps : InsertPayouts(ps)
      BY <1>2 DEF ReserveCommit
    <2>2. PICK fresh \in [ps -> {q \in Payouts : payout[q].status = "none"}] :
            payout' = [q \in Payouts |->
              IF \E p \in ps : fresh[p] = q
              THEN LET p == CHOOSE x \in ps : fresh[x] = q
                   IN [NoPayout EXCEPT !.publisher = p, !.amount = Reservable(p),
                                       !.status = "pending"]
              ELSE payout[q]]
      BY <2>1 DEF InsertPayouts
    <2>3. ~ \E p \in ps : fresh[p] = po
      OBVIOUS
    <2>4. payout'[po] = payout[po]
      BY <2>2, <2>3
    <2> QED BY <2>4, SameTerms
  <1>3. ASSUME NEW r \in Runs, Confirm(r) \/ Fail(r) PROVE KeepsTerms(po)
    <2>1. PICK q \in Payouts : q = run[r].payout
      BY <1>3 DEF Confirm, Fail, RunShape, AtPayout
    <2>2. CASE q # po \/ UNCHANGED payout
      <3>1. payout'[po] = payout[po]
        BY <1>0, <1>3, <2>1, <2>2 DEF Confirm, Fail
      <3> QED BY <3>1, SameTerms
    <2>3. CASE /\ q = po /\ payout[po].status = "pending"
               /\ payout' = [payout EXCEPT ![q].status = "paid", ![q].transferred = TRUE]
      <3>1. payout'[po] = [payout[po] EXCEPT !.status = "paid", !.transferred = TRUE]
        BY <1>0, <2>3
      <3> QED BY <1>0, <2>3, <3>1 DEF KeepsTerms, GoesOn, PayoutRecord
    <2>4. CASE /\ q = po
               /\ payout' = [payout EXCEPT ![q].status = IF @ = "pending" THEN "failed" ELSE @]
      <3>1. payout'[po] = [payout[po] EXCEPT !.status = IF @ = "pending" THEN "failed" ELSE @]
        BY <1>0, <2>4
      <3>2. CASE payout[po].status = "pending"
        BY <1>0, <3>1, <3>2 DEF KeepsTerms, GoesOn, PayoutRecord
      <3>3. CASE payout[po].status # "pending"
        <4>1. payout[po].status \in {"paid", "failed"}
          BY <1>0, <3>3 DEF PayoutRecord
        <4> QED BY <1>0, <3>1, <3>3, <4>1 DEF KeepsTerms, GoesOn, PayoutRecord
      <3> QED BY <3>2, <3>3
    <2> QED BY <1>3, <2>1, <2>2, <2>3, <2>4 DEF Confirm, Fail
  <1>4. ASSUME NEW n \in notices, TransferReversed(n) PROVE KeepsTerms(po)
    <2>1. PICK q \in Payouts : q = n.payout
      BY DEF ReturnShape
    <2> DEFINE target == Least(n.amount, payout[q].amount)
    <2>2. PICK t : t = target
      OBVIOUS
    <2>3. \/ UNCHANGED payout
          \/ /\ payout[q].status = "paid" /\ t > payout[q].reversed
             /\ payout' = [payout EXCEPT ![q].reversed = t,
                             ![q].status = IF t = payout[q].amount THEN "failed" ELSE @]
      BY <1>4, <2>1, <2>2 DEF TransferReversed
    <2>4. t \in Nat
      BY <1>0, <2>1, <2>2 DEF Least, ReturnShape, PayoutRecord
    <2> HIDE DEF target
    <2>5. CASE q # po \/ UNCHANGED payout
      <3>1. payout'[po] = payout[po]
        BY <1>0, <2>3, <2>5
      <3> QED BY <3>1, SameTerms
    <2>6. CASE /\ q = po /\ payout[po].status = "paid" /\ t > payout[po].reversed
               /\ payout' = [payout EXCEPT ![q].reversed = t,
                               ![q].status = IF t = payout[q].amount THEN "failed" ELSE @]
      <3>1. PICK s \in {"paid", "failed"} :
              payout'[po] = [payout[po] EXCEPT !.reversed = t, !.status = s]
        BY <1>0, <2>6
      <3> QED BY <1>0, <2>4, <2>6, <3>1 DEF KeepsTerms, GoesOn, PayoutRecord
    <2> QED BY <2>3, <2>5, <2>6
  <1> QED BY <1>1, <1>2, <1>3, <1>4
          DEF Next, vars, StripeStep, RunStep, Clear, Mature, PublisherStep, PlaceHold,
              EligibilityRead, EligibilityWrite, ClawbackStep, OpenClawback, PrepayClawback,
              SelfDealClawback, ReserveSelect, FetchPending, TakePayout, PreCheck,
              CreateTransfer, Recheck, EndRun, KeyExpires, ReverseTransfer

\* Whatever batches and events of Stripe overlap: a payout that was given up is
\* never taken up again, one that was confirmed can only be reversed, and nobody
\* changes what is owed to whom.
THEOREM TermsAlwaysKept == Spec => TermsKept
PROOF
  <1>1. MoneyInv /\ [Next]_vars =>
          [\A po \in Payouts : payout[po].status # "none" => KeepsTerms(po)]_vars
    BY TermsStay DEF MoneyInv, OnceInv
  <1> QED BY <1>1, MoneyAlways, PTL DEF Spec, TermsKept

=============================================================================
