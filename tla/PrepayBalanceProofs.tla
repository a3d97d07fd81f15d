----------------------- MODULE PrepayBalanceProofs -----------------------
(***************************************************************************)
(* The money invariants of the prepaid balance, its reserve, receivable    *)
(* and window contract, for any number of windows, batches, runs and       *)
(* deposits and for any prices.                                            *)
(***************************************************************************)
EXTENDS PrepayBalance, FiniteSetTheorems, WellFoundedInduction, TLAPS

\* The estimate and every gross a close can book are positive amounts.
LEMMA AmountsPositive ==
  /\ Estimate \in Nat \ {0}
  /\ \A g \in GrossValues : g \in Nat \ {0}
PROOF
  <1> USE ConstantsAssumption DEF Estimate, GrossValues
  <1>1. DwellSeconds * Bid \in Nat \ {0}
    OBVIOUS
  <1>2. (DwellSeconds - 1) * Bid \in Nat \ {0}
    <2>1. DwellSeconds - 1 \in Nat \ {0}
      OBVIOUS
    <2>2. ASSUME NEW a \in Nat \ {0}, NEW b \in Nat \ {0} PROVE a * b \in Nat \ {0}
      OBVIOUS
    <2> QED BY <2>1, <2>2
  <1> QED BY <1>1, <1>2

\* A charged amount and its two shares are integers.
LEMMA ShareInt == ASSUME NEW g \in Nat PROVE PublisherShare(g) \in Int
PROOF
  BY DEF PublisherShare

\* The clamp and the release keep the stored hold a natural.
LEMMA ReleaseNat ==
  ASSUME reserved \in Nat, NEW delta \in Int
  PROVE  Released(delta) \in Nat
PROOF
  BY DEF Released, AtLeastZero

\* The ledger stays a function from the accounts to the integers whatever
\* accrual a clawback reverses.
LEMMA ReversedLedgerType ==
  ASSUME TypeOK, NEW w \in Windows
  PROVE  ReversedLedger(w) \in [Accounts -> Int]
PROOF
  BY ShareInt DEF TypeOK, ReversedLedger, Accounts

\* Amount the webhook takes back and its split.
LEMMA TakeBackType ==
  ASSUME TypeOK, NEW amount \in Nat, TakeBack(amount)
  PROVE  balance' \in Nat /\ ledger' \in [Accounts -> Int] /\ serving' \in BOOLEAN
PROOF
  <1> DEFINE reclaim == Least(amount, balance)
  <1>1. reclaim \in Nat /\ reclaim <= balance /\ amount - reclaim \in Nat
    <2>1. balance \in Nat
      BY DEF TypeOK
    <2>2. CASE amount < balance
      BY <2>1, <2>2 DEF Least
    <2>3. CASE ~(amount < balance)
      BY <2>1, <2>3 DEF Least
    <2> QED BY <2>2, <2>3
  <1>2. /\ balance' = balance - reclaim
        /\ serving' = FALSE
        /\ ledger' = [ledger EXCEPT
             !["platform_cash"]       = @ - amount,
             !["advertiser_funds"]    = @ + reclaim,
             !["advertiser_bad_debt"] = @ + (amount - reclaim)]
    BY DEF TakeBack
  <1> HIDE DEF reclaim
  <1>3. balance \in Nat /\ ledger \in [Accounts -> Int]
    BY DEF TypeOK
  <1>4. balance' \in Nat
    BY <1>1, <1>2, <1>3
  <1>6. serving' \in BOOLEAN
    BY <1>2, Zenon
  <1>5. ledger' \in [Accounts -> Int]
    BY <1>1, <1>2, <1>3 DEF Accounts
  <1> QED BY <1>4, <1>5, <1>6

\* Steps of the serving path keep the state well typed.
LEMMA ServeType == TypeOK /\ ServeStep => TypeOK'
PROOF
  <1> SUFFICES ASSUME TypeOK, NEW w \in Windows,
                      Open(w) \/ CloseCredited(w) \/ Abandon(w)
               PROVE  TypeOK'
    BY DEF ServeStep
  <1>1. CASE Open(w)
    BY <1>1, AmountsPositive
       DEF Open, TypeOK, WindowStates, Available, reviewVars, chargeVars, depositVars
  <1>2. CASE CloseCredited(w)
    <2>1. PICK g \in GrossValues :
            /\ impression' = [impression EXCEPT ![w] = "provisional"]
            /\ gross' = [gross EXCEPT ![w] = g]
            /\ reserved' = Released(hold[w] - g)
            /\ hold' = [hold EXCEPT ![w] = g]
      BY <1>2 DEF CloseCredited
    <2>2. g \in Nat /\ hold[w] - g \in Int
      BY AmountsPositive DEF TypeOK
    <2>3. reserved' \in Nat
      BY <2>1, <2>2, ReleaseNat DEF TypeOK
    <2> QED
      BY <1>2, <2>1, <2>2, <2>3
         DEF CloseCredited, TypeOK, WindowStates, reviewVars, chargeVars, depositVars
  <1>3. CASE Abandon(w)
    <2>1. reserved' \in Nat
      BY <1>3, ReleaseNat DEF Abandon, TypeOK
    <2> QED
      BY <1>3, <2>1
         DEF Abandon, TypeOK, WindowStates, reviewVars, chargeVars, depositVars
  <1> QED BY <1>1, <1>2, <1>3

\* Flags, reviews and the clearing of an impression.
LEMMA ReviewType == TypeOK /\ ReviewStep => TypeOK'
PROOF
  <1> SUFFICES ASSUME TypeOK, NEW w \in Windows,
                      Flag(w) \/ RejectReview(w) \/ Clear(w)
               PROVE  TypeOK'
    BY DEF ReviewStep
  <1> USE DEF TypeOK, WindowStates, balanceVars, windowVars, chargeVars, depositVars
  <1>1. CASE Flag(w)
    BY <1>1 DEF Flag
  <1>2. CASE RejectReview(w)
    BY <1>2 DEF RejectReview
  <1>3. CASE Clear(w)
    <2>1. PublisherShare(gross[w]) \in Int /\ gross[w] \in Int
      BY ShareInt
    <2>2. ledger' \in [Accounts -> Int]
      BY <1>3, <2>1 DEF Clear, Accounts
    <2> QED BY <1>3, <2>2 DEF Clear, reviewVars
  <1> QED BY <1>1, <1>2, <1>3

\* What the prepay reversal writes is well typed.
LEMMA PrepayReversalType ==
  ASSUME TypeOK, NEW w \in Windows, PrepayReversal(w)
  PROVE  /\ balance' \in Nat
         /\ reserved' \in Nat
         /\ ledger' \in [Accounts -> Int]
         /\ hold' \in [Windows -> Nat]
         /\ impression' \in [Windows -> {"none", "provisional", "cleared", "clawed_back"}]
         /\ recredited' \in SUBSET Windows
PROOF
  <1>1. Recredit(w) \in Nat /\ hold[w] \in Int
    BY DEF Recredit, TypeOK
  <1>2. reserved' \in Nat
    BY <1>1, ReleaseNat DEF PrepayReversal, TypeOK
  <1>3. ReversedLedger(w) \in [Accounts -> Int]
    BY ReversedLedgerType
  <1>4. ledger' \in [Accounts -> Int]
    BY <1>1, <1>3 DEF PrepayReversal, Accounts
  <1> QED BY <1>1, <1>2, <1>4 DEF PrepayReversal, TypeOK

\* The four ways an impression is clawed back.
LEMMA ClawbackType == TypeOK /\ ClawbackStep => TypeOK'
PROOF
  <1> SUFFICES ASSUME TypeOK, NEW w \in Windows,
                      \/ ApproveClawback(w) \/ AdminOpenClawback(w)
                      \/ AdminPrepayClawback(w) \/ RefundReview(w)
               PROVE  TypeOK'
    BY DEF ClawbackStep
  <1>a. ReversedLedger(w) \in [Accounts -> Int]
    BY ReversedLedgerType
  <1>1. CASE ApproveClawback(w)
    BY <1>1, <1>a DEF ApproveClawback, TypeOK, WindowStates, chargeVars, depositVars
  <1>2. CASE AdminOpenClawback(w)
    <2>1. reserved' \in Nat
      BY <1>2, ReleaseNat DEF AdminOpenClawback, TypeOK
    <2> QED
      BY <1>2, <1>a, <2>1
         DEF AdminOpenClawback, TypeOK, WindowStates, chargeVars, depositVars
  <1>3. CASE AdminPrepayClawback(w)
    <2>1. PrepayReversal(w)
      BY <1>3 DEF AdminPrepayClawback
    <2> QED
      BY <1>3, <2>1, PrepayReversalType
         DEF AdminPrepayClawback, TypeOK, WindowStates, chargeVars, depositVars
  <1>4. CASE RefundReview(w)
    <2>1. CASE Clawable(w)
      <3>1. PrepayReversal(w) /\ refundReply' = "re_credited"
        BY <1>4, <2>1 DEF RefundReview
      <3> QED
        BY <1>4, <3>1, PrepayReversalType
           DEF RefundReview, TypeOK, WindowStates, chargeVars, depositVars
    <2>2. CASE ~Clawable(w)
      BY <1>4, <2>2
         DEF RefundReview, TypeOK, WindowStates, balanceVars, chargeVars, depositVars
    <2> QED BY <2>1, <2>2
  <1> QED BY <1>1, <1>2, <1>3, <1>4

\* The billing runs.
LEMMA BillingType == TypeOK /\ BillingStep => TypeOK'
PROOF
  <1> USE DEF TypeOK, WindowStates, balanceVars, windowVars, reviewVars, depositVars
  <1>1. ASSUME TypeOK, NEW r \in Runs, FetchPlan(r) PROVE TypeOK'
    BY <1>1 DEF FetchPlan, Uncharged
  <1>2. ASSUME TypeOK, NEW r \in Runs, DropPlan(r) PROVE TypeOK'
    BY <1>2 DEF DropPlan
  <1>3. ASSUME TypeOK, NEW r \in Runs, NEW b \in Batches, ReserveBatch(r, b)
        PROVE  TypeOK'
    BY <1>3 DEF ReserveBatch
  <1>4. ASSUME TypeOK, NEW b \in Batches, DrawDown(b) PROVE TypeOK'
    <2>1. BatchSum(b) \in Nat \ {0} /\ balance >= BatchSum(b)
      BY <1>4 DEF DrawDown
    <2> DEFINE sum == BatchSum(b)
    <2>2. /\ balance' = balance - sum
          /\ reserved' = AtLeastZero(reserved - sum)
          /\ spent' = spent + sum
          /\ ledger' = [ledger EXCEPT !["advertiser_funds"]   = @ + sum,
                                      !["advertiser_billing"] = @ - sum]
      BY <1>4 DEF DrawDown
    <2> HIDE DEF sum
    <2>3. sum \in Nat /\ balance >= sum
      BY <2>1 DEF sum
    <2>4. balance' \in Nat /\ spent' \in Nat /\ reserved' \in Nat
      BY <1>4, <2>2, <2>3 DEF AtLeastZero
    <2>5. ledger' \in [Accounts -> Int]
      BY <1>4, <2>2, <2>3 DEF Accounts
    <2> QED BY <1>4, <2>4, <2>5 DEF DrawDown
  <1>5. ASSUME TypeOK, NEW b \in Batches, DrawDownShort(b) PROVE TypeOK'
    BY <1>5 DEF DrawDownShort, chargeVars
  <1>6. ASSUME TypeOK, NEW b \in Batches, SettleBatch(b) PROVE TypeOK'
    BY <1>6 DEF SettleBatch
  <1> QED BY <1>1, <1>2, <1>3, <1>4, <1>5, <1>6 DEF BillingStep

\* Deposits, disputes and refunds.
LEMMA DepositType == TypeOK /\ DepositStep => TypeOK'
PROOF
  <1> USE DEF TypeOK, WindowStates, windowVars, reviewVars, chargeVars
  <1>a. DepositMicros \in Nat /\ \A c \in RefundLevels : c \in Nat
    BY ConstantsAssumption DEF RefundLevels
  <1>1. ASSUME TypeOK, NEW d \in Deposits, CreditDeposit(d) PROVE TypeOK'
    <2>1. ledger' \in [Accounts -> Int]
      BY <1>1, <1>a DEF CreditDeposit, Accounts
    <2> QED BY <1>1, <1>a, <2>1 DEF CreditDeposit
  <1>2. ASSUME TypeOK, NEW d \in Deposits, DisputeDeposit(d) PROVE TypeOK'
    <2>1. TakeBack(DepositMicros)
      BY <1>2 DEF DisputeDeposit
    <2>2. balance' \in Nat /\ ledger' \in [Accounts -> Int] /\ serving' \in BOOLEAN
      BY <1>2, <1>a, <2>1, TakeBackType
    <2> QED BY <1>2, <2>2 DEF DisputeDeposit
  <1>3. ASSUME TypeOK, NEW d \in Deposits, NEW c \in RefundLevels, RefundDeposit(d, c)
        PROVE  TypeOK'
    <2>1. RefundDelta(d, c) \in Nat /\ TakeBack(RefundDelta(d, c))
      BY <1>3, <1>a DEF RefundDeposit, RefundDelta
    <2>2. balance' \in Nat /\ ledger' \in [Accounts -> Int] /\ serving' \in BOOLEAN
      BY <1>3, <2>1, TakeBackType
    <2> QED BY <1>3, <1>a, <2>2 DEF RefundDeposit
  <1> QED BY <1>1, <1>2, <1>3 DEF DepositStep

\* Adjustments, reconciliation, resumed serving, and the crash.
LEMMA AdminType == TypeOK /\ (AdminStep \/ Crash) => TypeOK'
PROOF
  <1> USE ConstantsAssumption
      DEF TypeOK, WindowStates, windowVars, reviewVars, chargeVars
  <1>1. ASSUME TypeOK, AdjustCredit PROVE TypeOK'
    <2>1. ledger' \in [Accounts -> Int]
      BY <1>1 DEF AdjustCredit, Accounts
    <2> QED BY <1>1, <2>1 DEF AdjustCredit
  <1>2. ASSUME TypeOK, AdjustDebit PROVE TypeOK'
    <2>1. ledger' \in [Accounts -> Int]
      BY <1>2 DEF AdjustDebit, Accounts
    <2> QED BY <1>2, <2>1 DEF AdjustDebit, Available
  <1>3. ASSUME TypeOK, Reconcile PROVE TypeOK'
    BY <1>3 DEF Reconcile, depositVars
  <1>4. ASSUME TypeOK, Resume PROVE TypeOK'
    BY <1>4 DEF Resume, balanceVars, depositVars
  <1>5. ASSUME TypeOK, Crash PROVE TypeOK'
    BY <1>5 DEF Crash, balanceVars, depositVars
  <1> QED BY <1>1, <1>2, <1>3, <1>4, <1>5 DEF AdminStep

\* Type correctness for every value of the constants: no interleaving of the
\* transactions makes the stored balance or reserve negative, so neither
\* CHECK (>= 0) of advertiser_balances can ever abort one of them.
THEOREM TypeCorrect == Spec => []TypeOK
PROOF
  <1>1. Init => TypeOK
    BY DEF Init, TypeOK, WindowStates, Accounts
  <1>2. TypeOK /\ [Next]_vars => TypeOK'
    <2>1. TypeOK /\ UNCHANGED vars => TypeOK'
      BY DEF TypeOK, vars, balanceVars, windowVars, reviewVars, chargeVars, depositVars
    <2> QED
      BY <2>1, ServeType, ReviewType, ClawbackType, BillingType, DepositType,
         AdminType DEF Next
  <1> QED BY <1>1, <1>2, PTL DEF Spec

-----------------------------------------------------------------------------
(* The double-entry argument: no step books one leg without its opposite.  *)

Money == BalanceBacked /\ LedgerZeroSum

\* A clawback's reversal moves no advertiser funds and is balanced.
LEMMA ReversalBalanced ==
  ASSUME TypeOK, NEW w \in Windows
  PROVE  LET rev == ReversedLedger(w)
         IN  /\ rev \in [Accounts -> Int]
             /\ rev["advertiser_funds"] = ledger["advertiser_funds"]
             /\ rev["platform_cash"] + rev["advertiser_funds"]
                + rev["advertiser_billing"] + rev["publisher_earnings"]
                + rev["platform_revenue"] + rev["advertiser_bad_debt"]
                = ledger["platform_cash"] + ledger["advertiser_funds"]
                  + ledger["advertiser_billing"] + ledger["publisher_earnings"]
                  + ledger["platform_revenue"] + ledger["advertiser_bad_debt"]
PROOF
  <1>1. PublisherShare(gross[w]) \in Int /\ gross[w] \in Int
    BY ShareInt DEF TypeOK
  <1>2. ledger \in [Accounts -> Int]
    BY DEF TypeOK
  <1> DEFINE share == PublisherShare(gross[w])
  <1>3. share \in Int
    BY <1>1
  <1>4. ReversedLedger(w) =
          IF impression[w] = "cleared"
          THEN [ledger EXCEPT
                 !["advertiser_billing"] = @ - gross[w],
                 !["publisher_earnings"] = @ + share,
                 !["platform_revenue"]   = @ + (gross[w] - share)]
          ELSE ledger
    BY DEF ReversedLedger
  <1> HIDE DEF share
  <1> QED BY <1>1, <1>2, <1>3, <1>4 DEF Accounts

\* The split of what a webhook takes back is balanced and takes from the
\* advertiser's liability exactly what leaves the balance.
LEMMA TakeBackMoney ==
  ASSUME TypeOK, Money, NEW amount \in Nat, TakeBack(amount)
  PROVE  Money'
PROOF
  <1> DEFINE reclaim == Least(amount, balance)
  <1>1. reclaim \in Int
    BY DEF TypeOK, Least
  <1>2. /\ balance' = balance - reclaim
        /\ ledger' = [ledger EXCEPT
             !["platform_cash"]       = @ - amount,
             !["advertiser_funds"]    = @ + reclaim,
             !["advertiser_bad_debt"] = @ + (amount - reclaim)]
    BY DEF TakeBack
  <1> HIDE DEF reclaim
  <1>3. balance \in Int /\ ledger \in [Accounts -> Int]
    BY DEF TypeOK
  <1>4. BalanceBacked'
    BY <1>1, <1>2, <1>3 DEF Accounts, Money, BalanceBacked
  <1>5. LedgerZeroSum'
    BY <1>1, <1>2, <1>3 DEF Accounts, Money, LedgerZeroSum
  <1> QED BY <1>4, <1>5 DEF Money

\* admin_prepay_clawback: what is given back moves from the receivable to
\* the funds, on top of the reversal.
LEMMA PrepayReversalMoney ==
  ASSUME TypeOK, Money, NEW w \in Windows, PrepayReversal(w)
  PROVE  Money'
PROOF
  <1> DEFINE rev == ReversedLedger(w)
             back == Recredit(w)
  <1>1. back \in Int
    BY DEF TypeOK, Recredit
  <1>2. /\ rev \in [Accounts -> Int]
        /\ rev["advertiser_funds"] = ledger["advertiser_funds"]
        /\ rev["platform_cash"] + rev["advertiser_funds"]
           + rev["advertiser_billing"] + rev["publisher_earnings"]
           + rev["platform_revenue"] + rev["advertiser_bad_debt"] = 0
    BY ReversalBalanced DEF Money, LedgerZeroSum
  <1>3. /\ balance' = balance + back
        /\ ledger' = [rev EXCEPT !["advertiser_billing"] = @ + back,
                                 !["advertiser_funds"]   = @ - back]
    BY DEF PrepayReversal
  <1> HIDE DEF rev, back
  <1>4. balance \in Int /\ ledger \in [Accounts -> Int]
    BY DEF TypeOK
  <1>5. BalanceBacked'
    BY <1>1, <1>2, <1>3, <1>4 DEF Accounts, Money, BalanceBacked
  <1>6. LedgerZeroSum'
    BY <1>1, <1>2, <1>3 DEF Accounts, LedgerZeroSum
  <1> QED BY <1>5, <1>6 DEF Money

\* The clearing of an impression books a balanced group and no funds.
LEMMA ClearMoney ==
  ASSUME TypeOK, Money, NEW w \in Windows, Clear(w)
  PROVE  Money'
PROOF
  <1> DEFINE share == PublisherShare(gross[w])
  <1>1. share \in Int /\ gross[w] \in Int
    BY ShareInt DEF TypeOK
  <1>2. balance' = balance /\ ledger' = [ledger EXCEPT
          !["advertiser_billing"] = @ + gross[w],
          !["publisher_earnings"] = @ - share,
          !["platform_revenue"]   = @ - (gross[w] - share)]
    BY DEF Clear
  <1> HIDE DEF share
  <1>3. balance \in Int /\ ledger \in [Accounts -> Int]
    BY DEF TypeOK
  <1> QED BY <1>1, <1>2, <1>3 DEF Accounts, Money, BalanceBacked, LedgerZeroSum

\* The four clawbacks.
LEMMA ClawbackMoney == TypeOK /\ Money /\ ClawbackStep => Money'
PROOF
  <1> SUFFICES ASSUME TypeOK, Money, NEW w \in Windows,
                      \/ ApproveClawback(w) \/ AdminOpenClawback(w)
                      \/ AdminPrepayClawback(w) \/ RefundReview(w)
               PROVE  Money'
    BY DEF ClawbackStep
  <1>1. ASSUME balance' = balance, ledger' = ReversedLedger(w) PROVE Money'
    BY <1>1, ReversalBalanced DEF Money, BalanceBacked, LedgerZeroSum
  <1>2. CASE ApproveClawback(w) \/ AdminOpenClawback(w)
    BY <1>1, <1>2 DEF ApproveClawback, AdminOpenClawback
  <1>3. CASE PrepayReversal(w)
    BY <1>3, PrepayReversalMoney
  <1>4. CASE RefundReview(w) /\ ~PrepayReversal(w)
    BY <1>4 DEF RefundReview, balanceVars, Money, BalanceBacked, LedgerZeroSum
  <1> QED BY <1>2, <1>3, <1>4 DEF AdminPrepayClawback

\* A draw-down settles part of the receivable with the advertiser's funds.
LEMMA DrawDownMoney ==
  ASSUME TypeOK, Money, NEW b \in Batches, DrawDown(b)
  PROVE  Money'
PROOF
  <1> DEFINE sum == BatchSum(b)
  <1>1. /\ sum \in Nat
        /\ balance' = balance - sum
        /\ ledger' = [ledger EXCEPT !["advertiser_funds"]   = @ + sum,
                                    !["advertiser_billing"] = @ - sum]
    BY DEF DrawDown
  <1> HIDE DEF sum
  <1>2. balance \in Int /\ ledger \in [Accounts -> Int]
    BY DEF TypeOK
  <1> QED BY <1>1, <1>2 DEF Accounts, Money, BalanceBacked, LedgerZeroSum

\* Every step keeps the books balanced and the balance backed.
LEMMA MoneyStep == TypeOK /\ Money /\ [Next]_vars => Money'
PROOF
  <1> SUFFICES ASSUME TypeOK, Money, [Next]_vars PROVE Money'
    OBVIOUS
  <1>a. ASSUME balance' = balance, ledger' = ledger PROVE Money'
    BY <1>a DEF Money, BalanceBacked, LedgerZeroSum
  <1>b. balance \in Int /\ ledger \in [Accounts -> Int]
    BY DEF TypeOK
  <1>1. CASE UNCHANGED vars
    BY <1>1, <1>a DEF vars, balanceVars
  <1>2. CASE ServeStep
    BY <1>2, <1>a DEF ServeStep, Open, CloseCredited, Abandon
  <1>3. CASE ReviewStep
    <2>1. PICK w \in Windows : Flag(w) \/ RejectReview(w) \/ Clear(w)
      BY <1>3 DEF ReviewStep
    <2>2. CASE Flag(w) \/ RejectReview(w)
      BY <2>2, <1>a DEF Flag, RejectReview, balanceVars
    <2> QED BY <2>1, <2>2, ClearMoney
  <1>4. CASE ClawbackStep
    BY <1>4, ClawbackMoney
  <1>5. CASE BillingStep
    <2>1. CASE \E b \in Batches : DrawDown(b)
      BY <2>1, DrawDownMoney
    <2>2. CASE ~ \E b \in Batches : DrawDown(b)
      BY <1>5, <2>2, <1>a
         DEF BillingStep, FetchPlan, DropPlan, ReserveBatch, DrawDownShort,
             SettleBatch, balanceVars
    <2> QED BY <2>1, <2>2
  <1>6. CASE DepositStep
    <2>1. DepositMicros \in Nat /\ \A c \in RefundLevels : c \in Nat
      BY ConstantsAssumption DEF RefundLevels
    <2>2. ASSUME NEW d \in Deposits, CreditDeposit(d) PROVE Money'
      BY <2>2, <2>1, <1>b
         DEF CreditDeposit, Accounts, Money, BalanceBacked, LedgerZeroSum
    <2>3. ASSUME NEW d \in Deposits, DisputeDeposit(d) PROVE Money'
      BY <2>3, <2>1, TakeBackMoney DEF DisputeDeposit
    <2>4. ASSUME NEW d \in Deposits, NEW c \in RefundLevels, RefundDeposit(d, c)
          PROVE  Money'
      <3>1. RefundDelta(d, c) \in Nat
        BY <2>1, <2>4 DEF RefundDeposit, RefundDelta, TypeOK
      <3> QED BY <2>4, <3>1, TakeBackMoney DEF RefundDeposit
    <2> QED BY <1>6, <2>2, <2>3, <2>4 DEF DepositStep
  <1>7. CASE AdminStep
    <2>1. AdjustMicros \in Int
      BY ConstantsAssumption
    <2>2. CASE AdjustCredit
      BY <2>1, <2>2, <1>b
         DEF AdjustCredit, Accounts, Money, BalanceBacked, LedgerZeroSum
    <2>3. CASE AdjustDebit
      BY <2>1, <2>3, <1>b
         DEF AdjustDebit, Accounts, Money, BalanceBacked, LedgerZeroSum
    <2>4. CASE Reconcile \/ Resume
      BY <2>4, <1>a DEF Reconcile, Resume, balanceVars
    <2> QED BY <1>7, <2>2, <2>3, <2>4 DEF AdminStep
  <1>8. CASE Crash
    BY <1>8, <1>a DEF Crash, balanceVars
  <1> QED BY <1>1, <1>2, <1>3, <1>4, <1>5, <1>6, <1>7, <1>8 DEF Next

\* The books start empty and balanced.
LEMMA MoneyAlways == Spec => []Money
PROOF
  <1>1. Init => Money
    <2> SUFFICES ASSUME Init PROVE Money
      OBVIOUS
    <2>1. balance = 0 /\ \A a \in Accounts : ledger[a] = 0
      BY DEF Init
    <2> QED BY <2>1 DEF Money, BalanceBacked, LedgerZeroSum, Accounts
  <1> QED BY <1>1, TypeCorrect, MoneyStep, PTL DEF Spec

\* The stored balance is the ledger's liability towards the advertiser after
\* any number of deposits, draw-downs, reversals, adjustments and clawbacks,
\* so the drift that app.advertiser_balance_health looks for never appears.
THEOREM BalanceAlwaysBacked == Spec => []BalanceBacked
PROOF
  <1>1. Money => BalanceBacked
    BY DEF Money
  <1> QED BY <1>1, MoneyAlways, PTL

\* The cleared legs always sum to zero: no RPC books an unbalanced group.
THEOREM LedgerAlwaysZeroSum == Spec => []LedgerZeroSum
PROOF
  <1>1. Money => LedgerZeroSum
    BY DEF Money
  <1> QED BY <1>1, MoneyAlways, PTL

-----------------------------------------------------------------------------
(* The settlement argument: what a batch has drawn stays drawn, and what a *)
(* window's charge row says is never rewritten by a later plan.            *)

\* A window that has not closed has no impression, a group without a charge
\* row has no batch.
RowsInOrder ==
  \A w \in Windows :
    /\ window[w] \in {"none", "open"} => impression[w] = "none"
    /\ charge[w] = "none" => batch[w] = NoBatch

Settlement == RowsInOrder /\ SettledOnlyIfDrawn /\ RecreditOnlyDrawnClawbacks

\* The re-credit of a clawed back impression: the charge has succeeded, so
\* the batch is drawn.
LEMMA PrepayReversalSettlement ==
  ASSUME TypeOK, Settlement, NEW w \in Windows, PrepayReversal(w), Clawable(w),
         UNCHANGED <<window, chargeVars>>
  PROVE  Settlement'
PROOF
  <1>1. charge[w] = "succeeded" => batch[w] \in drawn
    BY DEF Settlement, SettledOnlyIfDrawn
  <1>2. Recredit(w) > 0 => charge[w] = "succeeded"
    BY DEF Recredit
  <1>3. recredited' \subseteq recredited \cup (IF Recredit(w) > 0 THEN {w} ELSE {})
    BY DEF PrepayReversal
  <1>4. impression' = [impression EXCEPT ![w] = "clawed_back"]
    BY DEF PrepayReversal
  <1>5. RowsInOrder'
    BY <1>4 DEF Settlement, RowsInOrder, Clawable, TypeOK, chargeVars
  <1>6. SettledOnlyIfDrawn'
    BY DEF Settlement, SettledOnlyIfDrawn, chargeVars
  <1>7. RecreditOnlyDrawnClawbacks'
    BY <1>1, <1>2, <1>3, <1>4
       DEF Settlement, RecreditOnlyDrawnClawbacks, TypeOK, chargeVars
  <1> QED BY <1>5, <1>6, <1>7 DEF Settlement

\* Every step keeps the settlement argument.
LEMMA SettlementStep == TypeOK /\ Settlement /\ [Next]_vars => Settlement'
PROOF
  <1> SUFFICES ASSUME TypeOK, Settlement, [Next]_vars PROVE Settlement'
    OBVIOUS
  <1> USE DEF Settlement, RowsInOrder, SettledOnlyIfDrawn, RecreditOnlyDrawnClawbacks
  <1>1. CASE UNCHANGED vars
    BY <1>1 DEF vars, windowVars, reviewVars, chargeVars
  <1>2. CASE ServeStep
    <2>1. ASSUME NEW w \in Windows, Open(w) PROVE Settlement'
      BY <2>1 DEF Open, TypeOK, reviewVars, chargeVars
    <2>2. ASSUME NEW w \in Windows, CloseCredited(w) PROVE Settlement'
      BY <2>2 DEF CloseCredited, TypeOK, reviewVars, chargeVars
    <2>3. ASSUME NEW w \in Windows, Abandon(w) PROVE Settlement'
      BY <2>3 DEF Abandon, TypeOK, reviewVars, chargeVars
    <2> QED BY <1>2, <2>1, <2>2, <2>3 DEF ServeStep
  <1>3. CASE ReviewStep
    <2>1. ASSUME NEW w \in Windows, Flag(w) \/ RejectReview(w) PROVE Settlement'
      BY <2>1 DEF Flag, RejectReview, windowVars, chargeVars
    <2>2. ASSUME NEW w \in Windows, Clear(w) PROVE Settlement'
      BY <2>2 DEF Clear, TypeOK, reviewVars, chargeVars
    <2> QED BY <1>3, <2>1, <2>2 DEF ReviewStep
  <1>4. CASE ClawbackStep
    <2>1. ASSUME NEW w \in Windows, ApproveClawback(w) \/ AdminOpenClawback(w)
          PROVE  Settlement'
      BY <2>1 DEF ApproveClawback, AdminOpenClawback, Clawable, TypeOK, chargeVars
    <2>2. ASSUME NEW w \in Windows, AdminPrepayClawback(w) PROVE Settlement'
      BY <2>2, PrepayReversalSettlement DEF AdminPrepayClawback
    <2>3. ASSUME NEW w \in Windows, RefundReview(w) PROVE Settlement'
      <3>1. CASE Clawable(w)
        BY <2>3, <3>1, PrepayReversalSettlement DEF RefundReview
      <3>2. CASE ~Clawable(w)
        BY <2>3, <3>2 DEF RefundReview, chargeVars
      <3> QED BY <3>1, <3>2
    <2> QED BY <1>4, <2>1, <2>2, <2>3 DEF ClawbackStep
  <1>5. CASE BillingStep
    <2>1. ASSUME NEW r \in Runs, FetchPlan(r) \/ DropPlan(r) PROVE Settlement'
      BY <2>1 DEF FetchPlan, DropPlan, windowVars, reviewVars
    <2>2. ASSUME NEW r \in Runs, NEW b \in Batches, ReserveBatch(r, b)
          PROVE  Settlement'
      <3>1. \A w \in Windows : w \in Reservable(r) => charge[w] = "none"
        BY DEF Reservable
      <3>2. NoBatch \notin drawn
        BY ConstantsAssumption DEF TypeOK
      <3>3. RowsInOrder'
        BY <2>2, <3>1 DEF ReserveBatch, TypeOK, windowVars
      <3>4. SettledOnlyIfDrawn'
        BY <2>2, <3>1 DEF ReserveBatch, TypeOK
      <3>5. RecreditOnlyDrawnClawbacks'
        BY <2>2, <3>1, <3>2 DEF ReserveBatch, TypeOK, windowVars, reviewVars
      <3> QED BY <3>3, <3>4, <3>5
    <2>3. ASSUME NEW b \in Batches, DrawDown(b) PROVE Settlement'
      BY <2>3 DEF DrawDown, reviewVars
    <2>4. ASSUME NEW b \in Batches, DrawDownShort(b) PROVE Settlement'
      BY <2>4 DEF DrawDownShort, windowVars, reviewVars, chargeVars
    <2>5. ASSUME NEW b \in Batches, SettleBatch(b) PROVE Settlement'
      BY <2>5 DEF SettleBatch, Pending, TypeOK, windowVars, reviewVars
    <2> QED BY <1>5, <2>1, <2>2, <2>3, <2>4, <2>5 DEF BillingStep
  <1>6. CASE DepositStep \/ AdminStep
    BY <1>6 DEF DepositStep, CreditDeposit, DisputeDeposit, RefundDeposit,
                AdminStep, AdjustCredit, AdjustDebit, Reconcile, Resume,
                windowVars, reviewVars, chargeVars
  <1>7. CASE Crash
    BY <1>7 DEF Crash, TypeOK, reviewVars, chargeVars
  <1> QED BY <1>1, <1>2, <1>3, <1>4, <1>5, <1>6, <1>7 DEF Next

\* Nothing is settled at the start, and the argument is inductive.
LEMMA SettlementAlways == Spec => []Settlement
PROOF
  <1>1. Init => Settlement
    BY DEF Init, Settlement, RowsInOrder, SettledOnlyIfDrawn,
           RecreditOnlyDrawnClawbacks
  <1> QED BY <1>1, TypeCorrect, SettlementStep, PTL DEF Spec

\* However the requests of concurrent runs, their crashes and the recovery of
\* their pending batches interleave, a charge marked succeeded is one whose
\* batch really was drawn from the balance.
THEOREM SettledAlwaysDrawn == Spec => []SettledOnlyIfDrawn
PROOF
  <1>1. Settlement => SettledOnlyIfDrawn
    BY DEF Settlement
  <1> QED BY <1>1, SettlementAlways, PTL

\* A re-credit is only ever given for an impression that was drawn and is
\* clawed back, and stays so.
THEOREM RecreditAlwaysDrawn == Spec => []RecreditOnlyDrawnClawbacks
PROOF
  <1>1. Settlement => RecreditOnlyDrawnClawbacks
    BY DEF Settlement
  <1> QED BY <1>1, SettlementAlways, PTL

-----------------------------------------------------------------------------
(* Sums over finite sets.  The fold behind SumOf is a recursive function   *)
(* on the subsets of its set: it is shown to exist and to be unique by     *)
(* induction on the size of a subset, written with sets of subsets in the  *)
(* place of predicates.                                                    *)

\* Every non-empty set of naturals has a least element.
LEMMA LeastNatural ==
  ASSUME NEW T \in SUBSET Nat, T # {}
  PROVE  \E n \in T : \A m \in T : n <= m
PROOF
  <1> DEFINE R == {ss \in Nat \X Nat : ss[1] < ss[2]}
  <1>1. IsWellFoundedOn(R, Nat) BY NatLessThanWellFounded DEF OpToRel
  <1> HIDE DEF R
  <1>2. PICK x \in T : \A y \in T : ~ (<<y, x>> \in R) BY <1>1, WFMin
  <1>3. ASSUME NEW y \in T PROVE x <= y
    <2>1. <<y, x>> \notin R BY <1>2
    <2>2. ~(y < x) BY <2>1 DEF R
    <2> QED BY <2>2
  <1> QED BY <1>3

\* Induction over the subsets of a finite set, for a set of subsets in place
\* of a predicate.
LEMMA SubsetInduction ==
  ASSUME NEW S, IsFiniteSet(S), NEW G,
         {} \in G,
         \A T \in SUBSET S : T # {} /\ (\A x \in T : T \ {x} \in G) => T \in G
  PROVE  \A T \in SUBSET S : T \in G
PROOF
  <1> DEFINE Bad == {n \in Nat : \E T \in SUBSET S : T \notin G /\ Cardinality(T) = n}
  <1>1. \A T \in SUBSET S : IsFiniteSet(T) /\ Cardinality(T) \in Nat
    BY FS_Subset, FS_CardinalityType
  <1> SUFFICES ASSUME Bad # {} PROVE FALSE
    BY <1>1
  <1>2. PICK n \in Bad : \A m \in Bad : n <= m
    BY LeastNatural
  <1>3. PICK T \in SUBSET S : T \notin G /\ Cardinality(T) = n
    OBVIOUS
  <1>4. PICK x \in T : T \ {x} \notin G
    BY <1>3
  <1>5. Cardinality(T \ {x}) = n - 1 /\ T \ {x} \in SUBSET S
    BY <1>1, <1>3, FS_RemoveElement
  <1>6. n - 1 \in Bad
    BY <1>1, <1>4, <1>5
  <1> QED BY <1>2, <1>6

\* What the fold computes for T when g holds the results for its subsets.
Body(f, g, T) ==
  IF T = {} THEN 0
  ELSE f[CHOOSE x \in T : TRUE] + g[T \ {CHOOSE x \in T : TRUE}]
Folds(f, g, D) == g = [T \in D |-> Body(f, g, T)]
UpTo(S, n) == {T \in SUBSET S : Cardinality(T) <= n}

\* The function that the fold chooses exists.
LEMMA FoldExists ==
  ASSUME NEW f, NEW S, IsFiniteSet(S)
  PROVE  \E g : Folds(f, g, SUBSET S) /\ SumOf(f, S) = g[S]
PROOF
  <1>1. \A T \in SUBSET S :
          IsFiniteSet(T) /\ Cardinality(T) \in Nat /\ Cardinality(T) <= Cardinality(S)
    BY FS_Subset, FS_CardinalityType
  <1> DEFINE Bad == {n \in Nat : ~ \E g : Folds(f, g, UpTo(S, n))}
  <1>2. Bad = {}
    <2> SUFFICES ASSUME Bad # {} PROVE FALSE
      OBVIOUS
    <2>1. PICK n \in Bad : \A m \in Bad : n <= m BY LeastNatural
    <2>2. n # 0
      <3> SUFFICES ASSUME n = 0 PROVE FALSE
        OBVIOUS
      <3> DEFINE g == [T \in UpTo(S, 0) |-> 0]
      <3>1. UpTo(S, 0) = {{}} BY <1>1, FS_EmptySet DEF UpTo
      <3>2. Folds(f, g, UpTo(S, 0)) BY <3>1 DEF Folds, Body
      <3> QED BY <3>2, <2>1
    <2>3. PICK h : Folds(f, h, UpTo(S, n - 1)) BY <2>1, <2>2
    <2> DEFINE g == [T \in UpTo(S, n) |-> Body(f, h, T)]
    <2>4. ASSUME NEW T \in UpTo(S, n) PROVE Body(f, h, T) = Body(f, g, T)
      <3>1. CASE T = {} BY <3>1 DEF Body
      <3>2. CASE T # {}
        <4> DEFINE U == T \ {CHOOSE x \in T : TRUE}
        <4>1. U \in UpTo(S, n - 1)
           <5>1. (CHOOSE x \in T : TRUE) \in T BY <3>2
           <5>2. IsFiniteSet(T) /\ T \in SUBSET S /\ Cardinality(T) <= n BY <1>1 DEF UpTo
           <5>3. Cardinality(U) = Cardinality(T) - 1 BY <5>1, <5>2, FS_RemoveElement
           <5>4. Cardinality(U) <= n - 1 BY <5>2, <5>3, <1>1, <2>1
           <5> QED BY <5>4, <5>2 DEF UpTo
        <4>2. U \in UpTo(S, n) BY <4>1, <1>1, <2>1 DEF UpTo
        <4>3. g[U] = Body(f, h, U) BY <4>2
        <4>4. h[U] = Body(f, h, U) BY <4>1, <2>3 DEF Folds
        <4> QED BY <4>3, <4>4, <3>2 DEF Body
      <3> QED BY <3>1, <3>2
    <2>5. Folds(f, g, UpTo(S, n)) BY <2>4 DEF Folds
    <2> QED BY <2>5, <2>1
  <1>3. UpTo(S, Cardinality(S)) = SUBSET S BY <1>1 DEF UpTo
  <1>4. \E g : Folds(f, g, SUBSET S)
    <2>1. Cardinality(S) \in Nat BY FS_CardinalityType
    <2>2. \E g : Folds(f, g, UpTo(S, Cardinality(S))) BY <2>1, <1>2
    <2> QED BY <2>2, <1>3
  <1> DEFINE iter == CHOOSE g : Folds(f, g, SUBSET S)
  <1>5. Folds(f, iter, SUBSET S) BY <1>4
  <1>6. SumOf(f, S) = iter[S] BY DEF SumOf, MapThenSumSet, MapThenFoldSet, Folds, Body
  <1> QED BY <1>5, <1>6

\* On a common subset two such functions agree.
LEMMA FoldUnique ==
  ASSUME NEW f, NEW g, NEW h, NEW S, NEW T \in SUBSET S, IsFiniteSet(S),
         Folds(f, g, SUBSET S), Folds(f, h, SUBSET T)
  PROVE  g[T] = h[T]
PROOF
  <1> DEFINE G == {U \in SUBSET T : g[U] = h[U]}
  <1>1. \A U \in SUBSET T : g[U] = Body(f, g, U) /\ h[U] = Body(f, h, U)
    BY DEF Folds
  <1>2. IsFiniteSet(T) BY FS_Subset
  <1>3. {} \in G BY <1>1 DEF Body
  <1>4. ASSUME NEW U \in SUBSET T, U # {}, \A x \in U : U \ {x} \in G PROVE U \in G
    BY <1>1, <1>4 DEF Body
  <1>5. \A U \in SUBSET T : U \in G
    <2> HIDE DEF G
    <2> QED BY <1>2, <1>3, <1>4, SubsetInduction
  <1> QED BY <1>5

LEMMA SumEmpty == ASSUME NEW f PROVE SumOf(f, {}) = 0
PROOF
  <1>1. IsFiniteSet({}) BY FS_EmptySet
  <1>2. PICK g : Folds(f, g, SUBSET {}) /\ SumOf(f, {}) = g[{}] BY <1>1, FoldExists
  <1> QED BY <1>2 DEF Folds, Body


\* The element the fold takes first, and the rest.
LEMMA SumChoice ==
  ASSUME NEW f, NEW S, IsFiniteSet(S), S # {}
  PROVE  SumOf(f, S) = f[CHOOSE x \in S : TRUE] + SumOf(f, S \ {CHOOSE x \in S : TRUE})
PROOF
  <1> DEFINE c == CHOOSE x \in S : TRUE
             T == S \ {c}
  <1>1. c \in S /\ T \in SUBSET S OBVIOUS
  <1> HIDE DEF c, T
  <1>2. PICK g : Folds(f, g, SUBSET S) /\ SumOf(f, S) = g[S] BY FoldExists
  <1>3. IsFiniteSet(T) BY FS_Subset, <1>1
  <1>4. PICK h : Folds(f, h, SUBSET T) /\ SumOf(f, T) = h[T] BY <1>3, FoldExists
  <1>5. g[T] = h[T]
    <2>1. \A U \in SUBSET S : Folds(f, h, SUBSET U) => g[U] = h[U]
      BY <1>2, FoldUnique
    <2> QED BY <1>1, <1>4, <2>1
  <1>6. g[S] = f[c] + g[T] BY <1>2 DEF Folds, Body, c, T
  <1> QED BY <1>2, <1>4, <1>5, <1>6 DEF c, T

\* Only the values on the set count.
LEMMA SumAgree ==
  ASSUME NEW f, NEW h, NEW S, IsFiniteSet(S), \A x \in S : f[x] = h[x]
  PROVE  SumOf(f, S) = SumOf(h, S)
PROOF
  <1> DEFINE G == {T \in SUBSET S : SumOf(f, T) = SumOf(h, T)}
  <1>1. {} \in G BY SumEmpty
  <1>2. ASSUME NEW T \in SUBSET S, T # {}, \A x \in T : T \ {x} \in G PROVE T \in G
    <2> DEFINE c == CHOOSE x \in T : TRUE
    <2>1. c \in T BY <1>2
    <2>2. IsFiniteSet(T) BY FS_Subset
    <2>3. SumOf(f, T) = f[c] + SumOf(f, T \ {c}) /\ SumOf(h, T) = h[c] + SumOf(h, T \ {c})
      BY <1>2, <2>2, SumChoice
    <2>4. SumOf(f, T \ {c}) = SumOf(h, T \ {c}) /\ f[c] = h[c]
      BY <1>2, <2>1
    <2> QED BY <2>3, <2>4
  <1> HIDE DEF G
  <1>3. \A T \in SUBSET S : T \in G
    <2>1. \A T \in SUBSET S : T # {} /\ (\A x \in T : T \ {x} \in G) => T \in G
      BY <1>2
    <2> QED BY <1>1, <2>1, SubsetInduction
  <1> QED BY <1>3 DEF G

\* A sum of integers is an integer, a sum of naturals a natural.
LEMMA SumType ==
  ASSUME NEW D, D \in {Nat, Int}, NEW f, NEW S, IsFiniteSet(S), \A x \in S : f[x] \in D
  PROVE  SumOf(f, S) \in D
PROOF
  <1> DEFINE G == {T \in SUBSET S : SumOf(f, T) \in D}
  <1>1. {} \in G BY SumEmpty
  <1>2. ASSUME NEW T \in SUBSET S, T # {}, \A x \in T : T \ {x} \in G PROVE T \in G
    <2> DEFINE c == CHOOSE x \in T : TRUE
    <2>1. c \in T BY <1>2
    <2>2. IsFiniteSet(T) BY FS_Subset
    <2>3. SumOf(f, T) = f[c] + SumOf(f, T \ {c})
      BY <1>2, <2>2, SumChoice
    <2>4. SumOf(f, T \ {c}) \in D /\ f[c] \in D
      BY <1>2, <2>1
    <2>5. \A a, b \in D : a + b \in D
      OBVIOUS
    <2> QED BY <2>3, <2>4, <2>5
  <1> HIDE DEF G
  <1>3. \A T \in SUBSET S : T \in G
    <2>1. \A T \in SUBSET S : T # {} /\ (\A x \in T : T \ {x} \in G) => T \in G
      BY <1>2
    <2> QED BY <1>1, <2>1, SubsetInduction
  <1> QED BY <1>3 DEF G

\* Any element may be taken out first.
LEMMA SumRemove ==
  ASSUME NEW f, NEW S, IsFiniteSet(S), \A x \in S : f[x] \in Int, NEW y \in S
  PROVE  SumOf(f, S) = f[y] + SumOf(f, S \ {y})
PROOF
  <1> DEFINE G == {T \in SUBSET S : \A x \in T : SumOf(f, T) = f[x] + SumOf(f, T \ {x})}
  <1>1. {} \in G OBVIOUS
  <1>2. ASSUME NEW T \in SUBSET S, T # {}, \A x \in T : T \ {x} \in G PROVE T \in G
    <2> SUFFICES ASSUME NEW x \in T PROVE SumOf(f, T) = f[x] + SumOf(f, T \ {x})
      OBVIOUS
    <2> DEFINE c == CHOOSE z \in T : TRUE
    <2>1. c \in T BY <1>2
    <2>2. IsFiniteSet(T) BY FS_Subset
    <2>3. SumOf(f, T) = f[c] + SumOf(f, T \ {c})
      BY <1>2, <2>2, SumChoice
    <2> HIDE DEF c
    <2>4. CASE x = c BY <2>3, <2>4
    <2>5. CASE x # c
      <3> DEFINE U == (T \ {c}) \ {x}
      <3>1. U = (T \ {x}) \ {c} OBVIOUS
      <3>2. SumOf(f, T \ {c}) = f[x] + SumOf(f, U) BY <1>2, <2>1, <2>5
      <3>3. SumOf(f, T \ {x}) = f[c] + SumOf(f, U) BY <1>2, <2>1, <2>5, <3>1
      <3>4. SumOf(f, U) \in Int
        <4>1. IsFiniteSet(U) BY FS_Subset
        <4> QED BY <4>1, SumType
      <3>5. f[c] \in Int /\ f[x] \in Int BY <2>1
      <3> QED BY <2>3, <3>2, <3>3, <3>4, <3>5
    <2> QED BY <2>4, <2>5
  <1> HIDE DEF G
  <1>3. \A T \in SUBSET S : T \in G
    <2>1. \A T \in SUBSET S : T # {} /\ (\A x \in T : T \ {x} \in G) => T \in G
      BY <1>2
    <2> QED BY <1>1, <2>1, SubsetInduction
  <1> QED BY <1>3 DEF G

\* A sum over a set is the sum over a part and the rest.
LEMMA SumSplit ==
  ASSUME NEW f, NEW S, IsFiniteSet(S), \A x \in S : f[x] \in Int, NEW T \in SUBSET S
  PROVE  SumOf(f, S) = SumOf(f, T) + SumOf(f, S \ T)
PROOF
  <1> DEFINE G == {U \in SUBSET T : SumOf(f, S) = SumOf(f, U) + SumOf(f, S \ U)}
  <1>0. IsFiniteSet(T) BY FS_Subset
  <1>1. {} \in G
    <2>1. S \ {} = S OBVIOUS
    <2>2. SumOf(f, S) \in Int BY SumType
    <2> QED BY <2>1, <2>2, SumEmpty
  <1>2. ASSUME NEW U \in SUBSET T, U # {}, \A x \in U : U \ {x} \in G PROVE U \in G
    <2>1. PICK x : x \in U BY <1>2
    <2>2. /\ IsFiniteSet(U) /\ IsFiniteSet(S \ U)
          /\ IsFiniteSet(U \ {x}) /\ IsFiniteSet(S \ (U \ {x}))
      BY FS_Subset
    <2>3. SumOf(f, U) = f[x] + SumOf(f, U \ {x})
      BY <2>1, <2>2, SumRemove
    <2>4. (S \ (U \ {x})) \ {x} = S \ U BY <2>1
    <2>5. SumOf(f, S \ (U \ {x})) = f[x] + SumOf(f, S \ U)
      <3>1. x \in S \ (U \ {x}) BY <2>1
      <3> QED BY <2>2, <2>4, <3>1, SumRemove
    <2>6. SumOf(f, S) = SumOf(f, U \ {x}) + SumOf(f, S \ (U \ {x}))
      BY <1>2, <2>1
    <2>7. SumOf(f, U \ {x}) \in Int /\ SumOf(f, S \ U) \in Int /\ f[x] \in Int
      BY <2>1, <2>2, SumType
    <2>8. SumOf(f, S) = SumOf(f, U) + SumOf(f, S \ U)
      BY <2>3, <2>5, <2>6, <2>7
    <2> QED BY <2>8
  <1> HIDE DEF G
  <1>3. T \in G BY <1>0, <1>1, <1>2, SubsetInduction
  <1> QED BY <1>3 DEF G

\* One value changes: the sum changes by the difference.
LEMMA SumUpdate ==
  ASSUME NEW f, NEW h, NEW S, IsFiniteSet(S), NEW y \in S,
         \A x \in S : f[x] \in Int, h[y] \in Int,
         \A x \in S \ {y} : h[x] = f[x]
  PROVE  SumOf(h, S) = SumOf(f, S) - f[y] + h[y]
PROOF
  <1>1. IsFiniteSet(S \ {y}) BY FS_Subset
  <1>2. SumOf(f, S \ {y}) = SumOf(h, S \ {y}) BY <1>1, SumAgree
  <1>3. SumOf(f, S) = f[y] + SumOf(f, S \ {y}) BY SumRemove
  <1>4. SumOf(h, S) = h[y] + SumOf(h, S \ {y}) BY SumRemove
  <1>5. SumOf(f, S \ {y}) \in Int BY <1>1, SumType
  <1> QED BY <1>2, <1>3, <1>4, <1>5

\* Nothing adds up to nothing.
LEMMA SumZero ==
  ASSUME NEW f, NEW S, IsFiniteSet(S), \A x \in S : f[x] = 0
  PROVE  SumOf(f, S) = 0
PROOF
  <1> DEFINE G == {T \in SUBSET S : SumOf(f, T) = 0}
  <1>1. {} \in G BY SumEmpty
  <1>2. ASSUME NEW T \in SUBSET S, T # {}, \A x \in T : T \ {x} \in G PROVE T \in G
    <2>1. PICK x : x \in T BY <1>2
    <2>2. IsFiniteSet(T) BY FS_Subset
    <2>3. SumOf(f, T) = f[x] + SumOf(f, T \ {x}) BY <2>1, <2>2, SumRemove
    <2> QED BY <1>2, <2>1, <2>3
  <1> HIDE DEF G
  <1>3. \A T \in SUBSET S : T \in G
    <2>1. \A T \in SUBSET S : T # {} /\ (\A x \in T : T \ {x} \in G) => T \in G
      BY <1>2
    <2> QED BY <1>1, <2>1, SubsetInduction
  <1> QED BY <1>3 DEF G

\* A part of a sum of naturals is at most the sum, and so is each summand.
LEMMA SumPart ==
  ASSUME NEW f, NEW S, IsFiniteSet(S), \A x \in S : f[x] \in Nat
  PROVE  /\ \A T \in SUBSET S : SumOf(f, T) \in Nat /\ SumOf(f, T) <= SumOf(f, S)
         /\ \A x \in S : f[x] <= SumOf(f, S)
PROOF
  <1>1. ASSUME NEW T \in SUBSET S PROVE SumOf(f, T) \in Nat
    BY FS_Subset, SumType
  <1>2. ASSUME NEW T \in SUBSET S PROVE SumOf(f, T) <= SumOf(f, S)
    <2>1. SumOf(f, S) = SumOf(f, T) + SumOf(f, S \ T) BY SumSplit
    <2>2. SumOf(f, T) \in Nat /\ SumOf(f, S \ T) \in Nat BY <1>1
    <2> QED BY <2>1, <2>2
  <1>3. ASSUME NEW x \in S PROVE f[x] <= SumOf(f, S)
    <2>1. SumOf(f, S) = f[x] + SumOf(f, S \ {x}) BY SumRemove
    <2>2. SumOf(f, S \ {x}) \in Nat BY <1>1
    <2> QED BY <2>1, <2>2
  <1> QED BY <1>1, <1>2, <1>3

-----------------------------------------------------------------------------
(* The receivable: what cleared, less what was drawn, plus what was given  *)
(* back.                                                                   *)

Standing == {w \in Windows : impression[w] = "cleared"}

\* Sums over the windows of the state, before and after a step.
LEMMA StateSums ==
  ASSUME TypeOK
  PROVE  \A S \in SUBSET Windows :
           /\ IsFiniteSet(S)
           /\ SumOf(hold, S) \in Nat
           /\ SumOf(gross, S) \in Nat
PROOF
  <1> SUFFICES ASSUME NEW S \in SUBSET Windows
               PROVE  IsFiniteSet(S) /\ SumOf(hold, S) \in Nat /\ SumOf(gross, S) \in Nat
    OBVIOUS
  <1>1. IsFiniteSet(S) BY FS_Subset, ConstantsAssumption
  <1>2. \A w \in S : hold[w] \in Nat /\ gross[w] \in Nat BY DEF TypeOK
  <1> QED BY <1>1, <1>2, SumType

\* An impression enters the sum when it clears and leaves it when it is clawed
\* back, and the receivable moves by its gross.
LEMMA StandingGains ==
  ASSUME TypeOK, NEW w \in Windows, impression[w] # "cleared",
         impression' = [impression EXCEPT ![w] = "cleared"], UNCHANGED gross
  PROVE  SumOf(gross, Standing)' = SumOf(gross, Standing) + gross[w]
PROOF
  <1>1. Standing' \ {w} = Standing /\ w \in Standing'
    BY DEF Standing, TypeOK
  <1>2. Standing' \in SUBSET Windows BY DEF Standing
  <1>3. IsFiniteSet(Standing') BY <1>2, FS_Subset, ConstantsAssumption
  <1>4. \A v \in Standing' : gross[v] \in Int BY <1>2 DEF TypeOK
  <1>5. SumOf(gross, Standing') = gross[w] + SumOf(gross, Standing' \ {w})
    BY <1>1, <1>3, <1>4, SumRemove
  <1>6. SumOf(gross, Standing)' = SumOf(gross, Standing')
    OBVIOUS
  <1>7. SumOf(gross, Standing) \in Nat /\ gross[w] \in Nat
    <2>1. Standing \in SUBSET Windows BY DEF Standing
    <2> QED BY <2>1, StateSums DEF TypeOK
  <1>8. SumOf(gross, Standing') = gross[w] + SumOf(gross, Standing)
    BY <1>1, <1>5
  <1> QED BY <1>6, <1>7, <1>8

LEMMA StandingLoses ==
  ASSUME TypeOK, NEW w \in Windows,
         impression' = [impression EXCEPT ![w] = "clawed_back"], UNCHANGED gross
  PROVE  SumOf(gross, Standing)'
           = SumOf(gross, Standing) - (IF impression[w] = "cleared" THEN gross[w] ELSE 0)
PROOF
  <1>1. Standing' = Standing \ {w}
    BY DEF Standing, TypeOK
  <1>2. Standing \in SUBSET Windows BY DEF Standing
  <1>3. IsFiniteSet(Standing) /\ SumOf(gross, Standing) \in Nat
        /\ SumOf(gross, Standing \ {w}) \in Nat
    BY <1>2, StateSums
  <1>4. \A v \in Standing : gross[v] \in Int BY <1>2 DEF TypeOK
  <1>5. SumOf(gross, Standing)' = SumOf(gross, Standing \ {w})
    BY <1>1
  <1>6. CASE impression[w] = "cleared"
    <2>1. SumOf(gross, Standing) = gross[w] + SumOf(gross, Standing \ {w})
      BY <1>3, <1>4, <1>6, SumRemove DEF Standing
    <2>2. gross[w] \in Nat BY DEF TypeOK
    <2>3. SumOf(gross, Standing \ {w}) = SumOf(gross, Standing) - gross[w]
      BY <1>3, <2>1, <2>2
    <2> QED BY <1>5, <1>6, <2>3
  <1>7. CASE impression[w] # "cleared"
    <2>1. SumOf(gross, Standing \ {w}) = SumOf(gross, Standing)
      BY <1>7 DEF Standing
    <2>2. SumOf(gross, Standing) - 0 = SumOf(gross, Standing)
      BY <1>3
    <2> QED BY <1>5, <1>7, <2>1, <2>2
  <1> QED BY <1>6, <1>7

\* What leaves the books alone: the standing and the re-credited impressions
\* and their gross, what was drawn, and the receivable itself.
LEMMA ReceivableUnmoved ==
  ASSUME TypeOK, TypeOK', ReceivableExplained,
         Standing' = Standing, UNCHANGED <<recredited, spent>>,
         \A v \in Standing \cup recredited : gross'[v] = gross[v],
         ledger'["advertiser_billing"] = ledger["advertiser_billing"]
  PROVE  ReceivableExplained'
PROOF
  <1>1. IsFiniteSet(Standing) /\ IsFiniteSet(recredited)
    BY StateSums DEF TypeOK, Standing
  <1>2. SumOf(gross', Standing) = SumOf(gross, Standing)
    BY <1>1, SumAgree
  <1>3. SumOf(gross', recredited) = SumOf(gross, recredited)
    BY <1>1, SumAgree
  <1> QED BY <1>2, <1>3 DEF ReceivableExplained, Standing

\* The reversal that may give a draw-down back: the receivable loses the gross
\* of an impression that stood and gains what is given back.
LEMMA PrepayReversalReceivable ==
  ASSUME TypeOK, TypeOK', Settlement, ReceivableExplained, NEW w \in Windows,
         PrepayReversal(w), Clawable(w), UNCHANGED <<gross, spent>>
  PROVE  ReceivableExplained'
PROOF
  <1> DEFINE back == Recredit(w)
             lost == IF impression[w] = "cleared" THEN gross[w] ELSE 0
  <1>1. gross[w] \in Nat /\ back \in {0, gross[w]} /\ lost \in Nat
    BY DEF Recredit, TypeOK
  <1>2. ledger'["advertiser_billing"] = ledger["advertiser_billing"] - lost + back
    <2>1. ledger' = [ReversedLedger(w) EXCEPT !["advertiser_billing"] = @ + back,
                                              !["advertiser_funds"]   = @ - back]
      BY DEF PrepayReversal
    <2>2. ReversedLedger(w)["advertiser_billing"] = ledger["advertiser_billing"] - lost
      BY <1>1 DEF ReversedLedger, TypeOK, Accounts
    <2>3. ReversedLedger(w) \in [Accounts -> Int]
      BY ReversedLedgerType
    <2> HIDE DEF back, lost
    <2>4. ledger'["advertiser_billing"] = ReversedLedger(w)["advertiser_billing"] + back
      BY <2>1, <2>3 DEF Accounts
    <2> QED BY <2>2, <2>4
  <1>3. SumOf(gross, Standing)' = SumOf(gross, Standing) - lost
    BY StandingLoses DEF PrepayReversal
  <1>4. SumOf(gross, recredited)' = SumOf(gross, recredited) + back
    <2>1. w \notin recredited
      BY DEF Settlement, RecreditOnlyDrawnClawbacks, Clawable
    <2>2. CASE back > 0
      <3>1. recredited' = recredited \cup {w} /\ back = gross[w]
        BY <1>1, <2>2 DEF PrepayReversal
      <3>2. recredited' \ {w} = recredited /\ w \in recredited'
        BY <2>1, <3>1
      <3>3. recredited' \in SUBSET Windows BY DEF TypeOK
      <3>4. IsFiniteSet(recredited') BY <3>3, StateSums
      <3>5. \A v \in recredited' : gross[v] \in Int BY <3>3 DEF TypeOK
      <3>6. SumOf(gross, recredited') = gross[w] + SumOf(gross, recredited)
        BY <3>2, <3>4, <3>5, SumRemove
      <3>7. SumOf(gross, recredited) \in Nat BY StateSums DEF TypeOK
      <3> QED BY <1>1, <3>1, <3>6, <3>7
    <2>3. CASE ~(back > 0)
      <3>1. recredited' = recredited /\ back = 0
        BY <1>1, <2>3 DEF PrepayReversal
      <3>2. SumOf(gross, recredited) \in Nat BY StateSums DEF TypeOK
      <3> QED BY <3>1, <3>2
    <2> QED BY <2>2, <2>3
  <1> HIDE DEF back, lost
  <1>5. /\ SumOf(gross, Standing) \in Nat /\ SumOf(gross, recredited) \in Nat
        /\ ledger["advertiser_billing"] \in Int /\ spent \in Nat
    BY StateSums DEF TypeOK, Standing, Accounts
  <1>6. ledger["advertiser_billing"]
          = SumOf(gross, Standing) - spent + SumOf(gross, recredited)
    BY DEF ReceivableExplained, Standing
  <1>7. ledger'["advertiser_billing"]
          = SumOf(gross, Standing)' - spent + SumOf(gross, recredited)'
    BY <1>1, <1>2, <1>3, <1>4, <1>5, <1>6
  <1> QED BY <1>7 DEF ReceivableExplained, Standing

\* The other reversals: nothing is given back.
LEMMA ReversalReceivable ==
  ASSUME TypeOK, TypeOK', ReceivableExplained, NEW w \in Windows,
         impression' = [impression EXCEPT ![w] = "clawed_back"],
         ledger' = ReversedLedger(w), UNCHANGED <<gross, spent, recredited>>
  PROVE  ReceivableExplained'
PROOF
  <1> DEFINE lost == IF impression[w] = "cleared" THEN gross[w] ELSE 0
  <1>1. lost \in Nat
    BY DEF TypeOK
  <1>2. ledger'["advertiser_billing"] = ledger["advertiser_billing"] - lost
    BY DEF ReversedLedger, TypeOK, Accounts
  <1>3. SumOf(gross, Standing)' = SumOf(gross, Standing) - lost
    BY StandingLoses
  <1> HIDE DEF lost
  <1>4. /\ SumOf(gross, Standing) \in Nat /\ SumOf(gross, recredited) \in Nat
        /\ ledger["advertiser_billing"] \in Int /\ spent \in Nat
    BY StateSums DEF TypeOK, Standing, Accounts
  <1>5. ledger["advertiser_billing"]
          = SumOf(gross, Standing) - spent + SumOf(gross, recredited)
    BY DEF ReceivableExplained, Standing
  <1>6. ledger'["advertiser_billing"]
          = SumOf(gross, Standing)' - spent + SumOf(gross, recredited)
    BY <1>1, <1>2, <1>3, <1>4, <1>5
  <1> QED BY <1>6 DEF ReceivableExplained, Standing

\* Every step keeps the receivable explained.
LEMMA ReceivableStep ==
  TypeOK /\ TypeOK' /\ Settlement /\ ReceivableExplained /\ [Next]_vars
    => ReceivableExplained'
PROOF
  <1> SUFFICES ASSUME TypeOK, TypeOK', Settlement, ReceivableExplained, [Next]_vars
               PROVE  ReceivableExplained'
    OBVIOUS
  <1>1. ASSUME UNCHANGED <<impression, gross, recredited, spent, ledger>>
        PROVE  ReceivableExplained'
    BY <1>1, ReceivableUnmoved DEF Standing
  <1>2. CASE UNCHANGED vars
    BY <1>1, <1>2 DEF vars, balanceVars, windowVars, reviewVars, chargeVars
  <1>3. ASSUME NEW w \in Windows, Open(w) \/ Abandon(w) \/ Flag(w) \/ RejectReview(w)
        PROVE  ReceivableExplained'
    BY <1>1, <1>3 DEF Open, Abandon, Flag, RejectReview, balanceVars, windowVars,
                      reviewVars, chargeVars
  <1>4. ASSUME NEW w \in Windows, CloseCredited(w) PROVE ReceivableExplained'
    <2>1. impression[w] = "none" /\ w \notin Standing /\ w \notin recredited
      BY <1>4 DEF CloseCredited, Settlement, RowsInOrder, RecreditOnlyDrawnClawbacks,
                  Standing
    <2>2. /\ impression' = [impression EXCEPT ![w] = "provisional"]
          /\ \A v \in Windows \ {w} : gross'[v] = gross[v]
          /\ UNCHANGED <<recredited, spent, ledger>>
      BY <1>4 DEF CloseCredited, reviewVars, chargeVars, TypeOK
    <2>3. Standing' = Standing
      BY <2>1, <2>2 DEF Standing, TypeOK
    <2>4. Standing \cup recredited \subseteq Windows \ {w}
      BY <2>1 DEF Standing, TypeOK
    <2> QED BY <2>2, <2>3, <2>4, ReceivableUnmoved
  <1>5. ASSUME NEW w \in Windows, Clear(w) PROVE ReceivableExplained'
    <2>1. /\ impression[w] # "cleared"
          /\ impression' = [impression EXCEPT ![w] = "cleared"]
          /\ UNCHANGED <<gross, recredited, spent>>
      BY <1>5 DEF Clear, reviewVars, chargeVars
    <2>2. ledger'["advertiser_billing"] = ledger["advertiser_billing"] + gross[w]
      BY <1>5 DEF Clear, TypeOK, Accounts
    <2>3. SumOf(gross, Standing)' = SumOf(gross, Standing) + gross[w]
      BY <2>1, StandingGains
    <2>4. /\ SumOf(gross, Standing) \in Nat /\ SumOf(gross, recredited) \in Nat
          /\ ledger["advertiser_billing"] \in Int /\ spent \in Nat /\ gross[w] \in Nat
      BY StateSums DEF TypeOK, Standing, Accounts
    <2>5. ledger["advertiser_billing"]
            = SumOf(gross, Standing) - spent + SumOf(gross, recredited)
      BY DEF ReceivableExplained, Standing
    <2>6. ledger'["advertiser_billing"]
            = SumOf(gross, Standing)' - spent + SumOf(gross, recredited)
      BY <2>2, <2>3, <2>4, <2>5
    <2> QED BY <2>1, <2>6 DEF ReceivableExplained, Standing
  <1>6. ASSUME NEW w \in Windows, ApproveClawback(w) \/ AdminOpenClawback(w)
        PROVE  ReceivableExplained'
    BY <1>6, ReversalReceivable DEF ApproveClawback, AdminOpenClawback, chargeVars
  <1>7. ASSUME NEW w \in Windows, AdminPrepayClawback(w) PROVE ReceivableExplained'
    BY <1>7, PrepayReversalReceivable DEF AdminPrepayClawback, chargeVars
  <1>8. ASSUME NEW w \in Windows, RefundReview(w) PROVE ReceivableExplained'
    <2>1. CASE Clawable(w)
      BY <1>8, <2>1, PrepayReversalReceivable DEF RefundReview, chargeVars
    <2>2. CASE ~Clawable(w)
      BY <1>1, <1>8, <2>2 DEF RefundReview, chargeVars, balanceVars
    <2> QED BY <2>1, <2>2
  <1>9. ASSUME NEW r \in Runs, FetchPlan(r) \/ DropPlan(r) \/ \E b \in Batches : ReserveBatch(r, b)
        PROVE  ReceivableExplained'
    BY <1>1, <1>9 DEF FetchPlan, DropPlan, ReserveBatch, balanceVars, windowVars, reviewVars
  <1>10. ASSUME NEW b \in Batches, DrawDown(b) PROVE ReceivableExplained'
    <2>1. BatchSum(b) \in Nat
      BY <1>10 DEF DrawDown
    <2>2. /\ ledger'["advertiser_billing"] = ledger["advertiser_billing"] - BatchSum(b)
          /\ spent' = spent + BatchSum(b)
          /\ UNCHANGED <<impression, gross, recredited>>
      BY <1>10, <2>1 DEF DrawDown, reviewVars, TypeOK, Accounts
    <2>3. /\ SumOf(gross, Standing) \in Nat /\ SumOf(gross, recredited) \in Nat
          /\ ledger["advertiser_billing"] \in Int /\ spent \in Nat
      BY StateSums DEF TypeOK, Standing, Accounts
    <2>4. ledger["advertiser_billing"]
            = SumOf(gross, Standing) - spent + SumOf(gross, recredited)
      BY DEF ReceivableExplained, Standing
    <2>5. ledger'["advertiser_billing"]
            = SumOf(gross, Standing) - spent' + SumOf(gross, recredited)
      BY <2>1, <2>2, <2>3, <2>4
    <2> QED BY <2>2, <2>5 DEF ReceivableExplained, Standing
  <1>11. ASSUME NEW b \in Batches, DrawDownShort(b) \/ SettleBatch(b)
         PROVE  ReceivableExplained'
    BY <1>1, <1>11 DEF DrawDownShort, SettleBatch, balanceVars, windowVars, reviewVars, chargeVars
  <1>12. ASSUME NEW d \in Deposits, CreditDeposit(d) PROVE ReceivableExplained'
    <2>1. ledger'["advertiser_billing"] = ledger["advertiser_billing"]
      BY <1>12 DEF CreditDeposit, TypeOK, Accounts
    <2> QED BY <1>12, <2>1, ReceivableUnmoved
            DEF CreditDeposit, windowVars, reviewVars, chargeVars, Standing
  <1>13. ASSUME NEW amount, TakeBack(amount), UNCHANGED <<windowVars, reviewVars, chargeVars>>
         PROVE  ReceivableExplained'
    <2>1. ledger'["advertiser_billing"] = ledger["advertiser_billing"]
      BY <1>13 DEF TakeBack, TypeOK, Accounts
    <2> QED BY <1>13, <2>1, ReceivableUnmoved
            DEF windowVars, reviewVars, chargeVars, Standing
  <1>14. ASSUME NEW d \in Deposits,
                DisputeDeposit(d) \/ \E c \in RefundLevels : RefundDeposit(d, c)
         PROVE  ReceivableExplained'
    BY <1>13, <1>14 DEF DisputeDeposit, RefundDeposit
  <1>15. CASE AdjustCredit \/ AdjustDebit
    <2>1. ledger'["advertiser_billing"] = ledger["advertiser_billing"]
      BY <1>15 DEF AdjustCredit, AdjustDebit, TypeOK, Accounts
    <2> QED BY <1>15, <2>1, ReceivableUnmoved
            DEF AdjustCredit, AdjustDebit, windowVars, reviewVars, chargeVars, Standing
  <1>16. CASE Reconcile \/ Resume \/ Crash
    BY <1>1, <1>16 DEF Reconcile, Resume, Crash, balanceVars, windowVars, reviewVars, chargeVars
  <1> QED
    BY <1>2, <1>3, <1>4, <1>5, <1>6, <1>7, <1>8, <1>9, <1>10, <1>11, <1>12, <1>14,
       <1>15, <1>16
       DEF Next, ServeStep, ReviewStep, ClawbackStep, BillingStep, DepositStep, AdminStep

\* The receivable of the ledger is explained at any time, for any number of
\* windows: what cleared and stands, less what the batches have drawn, plus what
\* the clawbacks have given back, whichever of them overlap.
THEOREM ReceivableAlwaysExplained == Spec => []ReceivableExplained
PROOF
  <1>1. Init => ReceivableExplained
    <2> SUFFICES ASSUME Init PROVE ReceivableExplained
      OBVIOUS
    <2>1. Standing = {} /\ recredited = {} /\ spent = 0 /\ ledger["advertiser_billing"] = 0
      BY DEF Init, Standing, Accounts
    <2> QED BY <2>1, SumEmpty DEF ReceivableExplained, Standing
  <1>2. Spec => [](TypeOK /\ Settlement)
    BY TypeCorrect, SettlementAlways, PTL
  <1> QED BY <1>1, <1>2, ReceivableStep, PTL DEF Spec

-----------------------------------------------------------------------------
(* The reserve: while no window is lost and no impression clawed back, the *)
(* reserved amount is the sum of the holds and the cash covers it.         *)

CashKept == \A d \in Deposits : d \notin disputed /\ refunded[d] = 0

\* A window that serves nothing holds nothing, an open one its estimate, and
\* only a window with an impression is planned and charged.
ServedInOrder ==
  /\ \A w \in Windows :
       /\ window[w] \in {"none", "abandoned", "lost"} => hold[w] = 0
       /\ window[w] = "open" => hold[w] = Estimate
       /\ charge[w] # "none" => impression[w] # "none"
  /\ \A r \in Runs : \A w \in plan[r] : impression[w] # "none"

\* An impression holds its gross until the batch that bills it is drawn, so
\* a draw-down releases exactly what it takes.
HoldsGross ==
  HoldsIntact => \A w \in Windows : impression[w] # "none" =>
    window[w] = "credited" /\ hold[w] = IF batch[w] \in drawn THEN 0 ELSE gross[w]

CashCovers == HoldsIntact /\ CashKept => reserved <= balance

Reserve == ReservedIsSumOfHolds /\ HoldsGross /\ CashCovers

\* A batch that is not drawn has only pending rows, all with an impression.
LEMMA UndrawnBatch ==
  ASSUME TypeOK, Settlement, ServedInOrder, NEW b \in Batches, b \notin drawn
  PROVE  /\ Pending(b) = {w \in Windows : batch[w] = b}
         /\ \A w \in Pending(b) : impression[w] # "none" /\ window[w] \notin {"none", "open"}
PROOF
  <1>1. ASSUME NEW w \in Windows, batch[w] = b PROVE charge[w] = "pending"
    <2>1. charge[w] # "none"
      BY <1>1, ConstantsAssumption DEF Settlement, RowsInOrder
    <2>2. charge[w] # "succeeded"
      BY <1>1 DEF Settlement, SettledOnlyIfDrawn
    <2> QED BY <2>1, <2>2 DEF TypeOK
  <1>2. \A w \in Pending(b) : impression[w] # "none"
    BY DEF Pending, ServedInOrder
  <1> QED BY <1>1, <1>2 DEF Pending, Settlement, RowsInOrder

LEMMA ServedInOrderStep ==
  TypeOK /\ Settlement /\ ServedInOrder /\ [Next]_vars => ServedInOrder'
PROOF
  <1> SUFFICES ASSUME TypeOK, Settlement, ServedInOrder, [Next]_vars PROVE ServedInOrder'
    OBVIOUS
  <1> USE DEF windowVars, reviewVars, chargeVars
  <1>1. ASSUME UNCHANGED <<window, hold, charge, impression, plan>> PROVE ServedInOrder'
    BY <1>1 DEF ServedInOrder
  <1>2. CASE UNCHANGED vars \/ DepositStep \/ AdminStep
    BY <1>1, <1>2 DEF vars, DepositStep, CreditDeposit, DisputeDeposit, RefundDeposit,
                      AdminStep, AdjustCredit, AdjustDebit, Reconcile, Resume
  <1>3. ASSUME NEW w \in Windows, Open(w) PROVE ServedInOrder'
    BY <1>3 DEF Open, ServedInOrder, TypeOK
  <1>4. ASSUME NEW w \in Windows, CloseCredited(w) PROVE ServedInOrder'
    BY <1>4 DEF CloseCredited, ServedInOrder, TypeOK
  <1>5. ASSUME NEW w \in Windows, Abandon(w) PROVE ServedInOrder'
    BY <1>5 DEF Abandon, ServedInOrder, TypeOK
  <1>6. ASSUME NEW w \in Windows, Flag(w) \/ RejectReview(w) \/ Clear(w)
        PROVE  ServedInOrder'
    BY <1>6 DEF Flag, RejectReview, Clear, ServedInOrder, TypeOK
  <1>7. ASSUME NEW w \in Windows, Clawable(w),
               impression' = [impression EXCEPT ![w] = "clawed_back"],
               hold' = hold \/ hold' = [hold EXCEPT ![w] = 0],
               UNCHANGED <<window, charge, plan>>
        PROVE  ServedInOrder'
    <2>1. window[w] \notin {"none", "open"}
      BY <1>7 DEF Settlement, RowsInOrder, Clawable
    <2> QED BY <1>7, <2>1 DEF ServedInOrder, TypeOK
  <1>8. CASE ClawbackStep
    <2>1. PICK w \in Windows : ApproveClawback(w) \/ AdminOpenClawback(w)
                               \/ AdminPrepayClawback(w) \/ RefundReview(w)
      BY <1>8 DEF ClawbackStep
    <2>2. CASE Clawable(w)
      BY <1>7, <2>1, <2>2
         DEF ApproveClawback, AdminOpenClawback, AdminPrepayClawback, RefundReview,
             PrepayReversal
    <2>3. CASE ~Clawable(w)
      BY <1>1, <2>1, <2>3
         DEF ApproveClawback, AdminOpenClawback, AdminPrepayClawback, RefundReview
    <2> QED BY <2>2, <2>3
  <1>9. ASSUME NEW r \in Runs, FetchPlan(r) \/ DropPlan(r) PROVE ServedInOrder'
    <2>1. \A w \in Uncharged : impression[w] # "none"
      BY DEF Uncharged
    <2> QED BY <1>9, <2>1 DEF FetchPlan, DropPlan, ServedInOrder, TypeOK
  <1>10. ASSUME NEW r \in Runs, NEW b \in Batches, ReserveBatch(r, b)
         PROVE  ServedInOrder'
    <2>1. \A w \in Reservable(r) : impression[w] # "none"
      BY DEF Reservable, ServedInOrder
    <2> QED BY <1>10, <2>1 DEF ReserveBatch, ServedInOrder, TypeOK
  <1>11. ASSUME NEW b \in Batches, DrawDown(b) PROVE ServedInOrder'
    <2>1. /\ hold' = [w \in Windows |-> IF batch[w] = b THEN 0 ELSE hold[w]]
          /\ UNCHANGED <<window, impression, charge, plan>> /\ b \notin drawn
      BY <1>11 DEF DrawDown
    <2>2. \A w \in Windows : window[w] = "open" => batch[w] # b
      BY <2>1, UndrawnBatch
    <2> QED BY <2>1, <2>2 DEF ServedInOrder
  <1>12. ASSUME NEW b \in Batches, DrawDownShort(b) \/ SettleBatch(b)
         PROVE  ServedInOrder'
    BY <1>12 DEF DrawDownShort, SettleBatch, Pending, ServedInOrder, TypeOK
  <1>13. CASE Crash
    BY <1>13 DEF Crash, ServedInOrder, TypeOK
  <1> QED
    BY <1>2, <1>3, <1>4, <1>5, <1>6, <1>8, <1>9, <1>10, <1>11, <1>12, <1>13
       DEF Next, ServeStep, ReviewStep, BillingStep

\* What moves neither a hold nor the reserve.
LEMMA ReserveUnmoved ==
  ASSUME Reserve, HoldsIntact' => HoldsIntact,
         UNCHANGED <<reserved, hold, window, gross>>,
         \A w \in Windows : /\ impression'[w] # "none" => impression[w] # "none"
                            /\ batch'[w] \in drawn' <=> batch[w] \in drawn,
         CashKept' => reserved <= balance' \/ (CashKept /\ balance' = balance)
  PROVE  Reserve'
PROOF
  <1>1. ReservedIsSumOfHolds' BY DEF Reserve, ReservedIsSumOfHolds
  <1>2. HoldsGross' BY DEF Reserve, HoldsGross
  <1>3. CashCovers' BY DEF Reserve, CashCovers
  <1> QED BY <1>1, <1>2, <1>3 DEF Reserve

LEMMA SumMoves ==
  ASSUME NEW w \in Windows, NEW a \in Nat, \A v \in Windows : hold[v] \in Int,
         hold'[w] = a, \A v \in Windows \ {w} : hold'[v] = hold[v]
  PROVE  SumOf(hold', Windows) = SumOf(hold, Windows) - hold[w] + a
PROOF
  <1>1. IsFiniteSet(Windows)
    BY ConstantsAssumption
  <1> QED BY <1>1, SumUpdate

LEMMA HoldMoves ==
  ASSUME TypeOK, NEW w \in Windows, NEW a \in Nat, hold' = [hold EXCEPT ![w] = a]
  PROVE  SumOf(hold', Windows) = SumOf(hold, Windows) - hold[w] + a
PROOF
  <1>1. \A v \in Windows : hold[v] \in Int
    BY DEF TypeOK
  <1>2. hold'[w] = a /\ \A v \in Windows \ {w} : hold'[v] = hold[v]
    BY DEF TypeOK
  <1> QED BY <1>1, <1>2, SumMoves

\* One window's hold changes and the reserve moves with it.
LEMMA ReserveMoves ==
  ASSUME TypeOK, Reserve, HoldsIntact' => HoldsIntact, NEW w \in Windows, NEW a \in Nat,
         hold' = [hold EXCEPT ![w] = a],
         HoldsIntact => reserved' = reserved - hold[w] + a,
         HoldsIntact /\ CashKept => reserved' <= balance,
         UNCHANGED <<balance, batch, drawn, disputed, refunded>>,
         \A v \in Windows \ {w} : impression'[v] = impression[v] /\ window'[v] = window[v]
                                  /\ gross'[v] = gross[v],
         impression'[w] # "none" =>
           window'[w] = "credited" /\ batch[w] \notin drawn /\ gross'[w] = a
  PROVE  Reserve'
PROOF
  <1>1. SumOf(hold', Windows) = SumOf(hold, Windows) - hold[w] + a
    BY HoldMoves
  <1>2. ReservedIsSumOfHolds'
    BY <1>1 DEF Reserve, ReservedIsSumOfHolds
  <1>3. HoldsGross'
    BY DEF Reserve, HoldsGross, TypeOK
  <1>4. CashCovers'
    BY DEF Reserve, CashCovers, CashKept
  <1> QED BY <1>2, <1>3, <1>4 DEF Reserve

\* A draw-down releases the holds of its batch, which are the sum it takes.
LEMMA ReserveDrawn ==
  ASSUME TypeOK, Settlement, ServedInOrder, Reserve, NEW b \in Batches, DrawDown(b)
  PROVE  Reserve'
PROOF
  <1> DEFINE B == {w \in Windows : batch[w] = b}
             rest == Windows \ B
  <1>1. /\ b \notin drawn /\ drawn' = drawn \cup {b} /\ BatchSum(b) \in Nat
        /\ hold' = [w \in Windows |-> IF batch[w] = b THEN 0 ELSE hold[w]]
        /\ balance' = balance - BatchSum(b)
        /\ reserved' = AtLeastZero(reserved - BatchSum(b))
        /\ UNCHANGED <<window, impression, gross, batch, faults, disputed, refunded>>
    BY DEF DrawDown, chargeVars, depositVars
  <1>2. Pending(b) = B /\ \A w \in B : impression[w] # "none"
    BY <1>1, UndrawnBatch
  <1>3. HoldsIntact' = HoldsIntact
    BY <1>1 DEF HoldsIntact
  <1>4. SUFFICES ASSUME HoldsIntact PROVE Reserve'
    BY <1>3 DEF Reserve, ReservedIsSumOfHolds, HoldsGross, CashCovers
  <1>5. \A w \in B : hold[w] = gross[w]
    BY <1>1, <1>2, <1>4 DEF Reserve, HoldsGross
  <1>6. IsFiniteSet(Windows) /\ IsFiniteSet(B) /\ IsFiniteSet(rest)
    BY FS_Subset, ConstantsAssumption
  <1>7. \A w \in Windows : hold[w] \in Nat /\ hold'[w] \in Nat
    BY <1>1 DEF TypeOK
  <1>8. SumOf(hold, B) = BatchSum(b)
    BY <1>2, <1>5, <1>6, SumAgree DEF BatchSum
  <1>9. SumOf(hold, Windows) = BatchSum(b) + SumOf(hold, rest)
    BY <1>6, <1>7, <1>8, SumSplit
  <1>10. SumOf(hold', Windows) = SumOf(hold, rest)
    <2>1. SumOf(hold', Windows) = SumOf(hold', B) + SumOf(hold', rest)
      BY <1>6, <1>7, SumSplit
    <2>2. SumOf(hold', B) = 0
      BY <1>1, <1>6, SumZero
    <2>3. SumOf(hold', rest) = SumOf(hold, rest)
      BY <1>1, <1>6, SumAgree
    <2>4. SumOf(hold, rest) \in Nat
      BY StateSums
    <2> QED BY <2>1, <2>2, <2>3, <2>4
  <1>11. reserved = SumOf(hold, Windows) /\ SumOf(hold, rest) \in Nat
    BY <1>4, StateSums DEF Reserve, ReservedIsSumOfHolds
  <1>12. reserved' = SumOf(hold, rest) /\ reserved' = reserved - BatchSum(b)
    BY <1>1, <1>9, <1>11 DEF AtLeastZero
  <1>13. ReservedIsSumOfHolds'
    BY <1>10, <1>12 DEF ReservedIsSumOfHolds
  <1>14. HoldsGross'
    BY <1>1, <1>4 DEF Reserve, HoldsGross
  <1>15. CashCovers'
    <2>1. reserved \in Nat /\ balance \in Nat
      BY DEF TypeOK
    <2> QED BY <1>1, <1>4, <1>12, <2>1 DEF Reserve, CashCovers, CashKept
  <1> QED BY <1>13, <1>14, <1>15 DEF Reserve

\* Recomputing the reserve finds the sum of the holds.
LEMMA ReserveReconciled ==
  ASSUME TypeOK, ServedInOrder, Reserve, Reconcile
  PROVE  Reserve'
PROOF
  <1> DEFINE Kept == {w \in Windows : window[w] # "lost" /\ impression[w] # "clawed_back"}
  <1>1. reserved' = SumOf(hold, Kept)
        /\ UNCHANGED <<balance, window, hold, impression, gross, batch, drawn, disputed,
                       refunded, faults>>
    BY DEF Reconcile, ExpectedReserved, windowVars, chargeVars, depositVars
  <1>2. HoldsIntact' = HoldsIntact
    BY <1>1 DEF HoldsIntact
  <1>3. SUFFICES ASSUME HoldsIntact PROVE Reserve'
    BY <1>2 DEF Reserve, ReservedIsSumOfHolds, HoldsGross, CashCovers
  <1>4. \A w \in Windows \ Kept : hold[w] = 0
    BY <1>3 DEF HoldsIntact, ServedInOrder
  <1>5. SumOf(hold, Windows) = SumOf(hold, Kept)
    <2>1. IsFiniteSet(Windows) /\ IsFiniteSet(Windows \ Kept) /\ SumOf(hold, Kept) \in Nat
      BY StateSums
    <2>2. \A w \in Windows : hold[w] \in Int
      BY DEF TypeOK
    <2>3. SumOf(hold, Windows) = SumOf(hold, Kept) + SumOf(hold, Windows \ Kept)
      BY <2>1, <2>2, SumSplit
    <2>4. SumOf(hold, Windows \ Kept) = 0
      BY <1>4, <2>1, SumZero
    <2> QED BY <2>1, <2>3, <2>4
  <1>6. reserved' = reserved
    BY <1>1, <1>3, <1>5 DEF Reserve, ReservedIsSumOfHolds
  <1> QED BY <1>1, <1>2, <1>6, ReserveUnmoved DEF CashKept

\* Every step keeps the reserve, the clawbacks and the crash by ending what it
\* claims.
LEMMA ReserveStep ==
  TypeOK /\ TypeOK' /\ Settlement /\ ServedInOrder /\ Reserve /\ [Next]_vars => Reserve'
PROOF
  <1> SUFFICES ASSUME TypeOK, TypeOK', Settlement, ServedInOrder, Reserve, [Next]_vars
               PROVE  Reserve'
    OBVIOUS
  <1> USE DEF balanceVars, windowVars, reviewVars, chargeVars, depositVars
  <1>a. ~HoldsIntact' => Reserve'
    BY DEF Reserve, ReservedIsSumOfHolds, HoldsGross, CashCovers
  <1>b. ASSUME UNCHANGED <<balance, reserved, window, hold, impression, gross, batch, drawn,
                           disputed, refunded, faults>>
        PROVE  Reserve'
    BY <1>b, ReserveUnmoved DEF HoldsIntact, CashKept
  <1>c. /\ balance \in Nat /\ reserved \in Nat /\ Estimate \in Nat \ {0}
        /\ \A g \in GrossValues : g \in Nat \ {0} /\ g <= Estimate
    <2>1. \A g \in GrossValues : g <= Estimate
      <3>1. ASSUME NEW a \in Nat, NEW b \in Nat PROVE (a - 1) * b <= a * b
        OBVIOUS
      <3> QED BY <3>1, ConstantsAssumption DEF GrossValues, Estimate
    <2> QED BY <2>1, AmountsPositive DEF TypeOK
  <1>d. ASSUME NEW w \in Windows, HoldsIntact
        PROVE  reserved >= hold[w]
    <2>1. \A v \in Windows : hold[v] \in Nat
      BY DEF TypeOK
    <2> QED BY <1>d, <2>1, SumPart, ConstantsAssumption DEF Reserve, ReservedIsSumOfHolds
  <1>1. CASE UNCHANGED vars
    BY <1>b, <1>1 DEF vars
  <1>2. ASSUME NEW w \in Windows, Open(w) PROVE Reserve'
    <2>1. hold[w] = 0 /\ impression[w] = "none"
      BY <1>2 DEF Open, ServedInOrder, Settlement, RowsInOrder
    <2>2. HoldsIntact' = HoldsIntact
      BY <1>2 DEF Open, HoldsIntact
    <2>3. reserved' = reserved - hold[w] + Estimate /\ reserved' <= balance
      BY <1>2, <1>c, <2>1 DEF Open, Available
    <2>4. \A v \in Windows \ {w} : window'[v] = window[v]
      BY <1>2 DEF Open, TypeOK
    <2> QED BY <1>2, <1>c, <2>1, <2>2, <2>3, <2>4, ReserveMoves DEF Open
  <1>3. ASSUME NEW w \in Windows, CloseCredited(w) PROVE Reserve'
    <2>1. PICK g \in GrossValues :
            /\ impression' = [impression EXCEPT ![w] = "provisional"]
            /\ gross' = [gross EXCEPT ![w] = g]
            /\ reserved' = Released(hold[w] - g)
            /\ hold' = [hold EXCEPT ![w] = g]
      BY <1>3 DEF CloseCredited
    <2>2. /\ hold[w] = Estimate /\ impression[w] = "none" /\ batch[w] \notin drawn
      <3>1. window[w] = "open"
        BY <1>3 DEF CloseCredited
      <3>2. batch[w] = NoBatch
        BY <3>1 DEF ServedInOrder, Settlement, RowsInOrder
      <3> QED BY <3>1, <3>2, ConstantsAssumption DEF ServedInOrder, Settlement, RowsInOrder, TypeOK
    <2>3. HoldsIntact' => HoldsIntact
      BY <1>3, <2>1, <2>2 DEF CloseCredited, HoldsIntact, TypeOK
    <2>4. HoldsIntact => reserved' = reserved - hold[w] + g
      BY <1>c, <1>d, <2>1, <2>2 DEF Released, AtLeastZero
    <2>5. HoldsIntact /\ CashKept => reserved' <= balance
      BY <1>c, <2>1, <2>2, <2>4 DEF Reserve, CashCovers
    <2>6. /\ gross'[w] = g /\ window'[w] = "credited"
          /\ \A v \in Windows \ {w} : impression'[v] = impression[v] /\ window'[v] = window[v]
                                      /\ gross'[v] = gross[v]
      BY <1>3, <2>1 DEF CloseCredited, TypeOK
    <2>7. UNCHANGED <<balance, batch, drawn, disputed, refunded>>
      BY <1>3 DEF CloseCredited
    <2>8. g \in Nat
      BY <1>c
    <2> QED BY <2>1, <2>2, <2>3, <2>4, <2>5, <2>6, <2>7, <2>8, ReserveMoves
  <1>4. ASSUME NEW w \in Windows, Abandon(w) PROVE Reserve'
    <2>1. /\ hold[w] = Estimate /\ impression[w] = "none"
          /\ reserved' = Released(hold[w]) /\ hold' = [hold EXCEPT ![w] = 0]
          /\ UNCHANGED <<balance, impression, gross, batch, drawn, disputed, refunded, faults>>
      BY <1>4 DEF Abandon, ServedInOrder, Settlement, RowsInOrder
    <2>2. HoldsIntact' = HoldsIntact
      BY <2>1 DEF HoldsIntact
    <2>3. HoldsIntact => reserved' = reserved - hold[w] + 0
      BY <1>c, <1>d, <2>1 DEF Released, AtLeastZero
    <2>4. HoldsIntact /\ CashKept => reserved' <= balance
      BY <1>c, <2>1, <2>3 DEF Reserve, CashCovers
    <2>5. \A v \in Windows \ {w} : window'[v] = window[v]
      BY <1>4 DEF Abandon, TypeOK
    <2> QED BY <2>1, <2>2, <2>3, <2>4, <2>5, ReserveMoves
  <1>5. CASE ReviewStep
    <2>1. PICK w \in Windows : Flag(w) \/ RejectReview(w) \/ Clear(w)
      BY <1>5 DEF ReviewStep
    <2>2. CASE Flag(w) \/ RejectReview(w)
      BY <1>b, <2>2 DEF Flag, RejectReview
    <2>3. CASE Clear(w)
      <3>1. /\ HoldsIntact' => HoldsIntact
            /\ \A v \in Windows : impression'[v] # "none" => impression[v] # "none"
        BY <2>3 DEF Clear, HoldsIntact, TypeOK
      <3> QED BY <2>3, <3>1, ReserveUnmoved DEF Clear, CashKept
    <2> QED BY <2>1, <2>2, <2>3
  <1>6. CASE ClawbackStep
    <2>1. PICK w \in Windows : ApproveClawback(w) \/ AdminOpenClawback(w)
                               \/ AdminPrepayClawback(w) \/ RefundReview(w)
      BY <1>6 DEF ClawbackStep
    <2>2. CASE impression' = [impression EXCEPT ![w] = "clawed_back"]
      BY <1>a, <2>2 DEF HoldsIntact, TypeOK
    <2>3. CASE ~(impression' = [impression EXCEPT ![w] = "clawed_back"])
      BY <1>b, <2>1, <2>3
         DEF ApproveClawback, AdminOpenClawback, AdminPrepayClawback, RefundReview,
             PrepayReversal
    <2> QED BY <2>2, <2>3
  <1>7. ASSUME NEW r \in Runs, FetchPlan(r) \/ DropPlan(r) PROVE Reserve'
    BY <1>b, <1>7 DEF FetchPlan, DropPlan
  <1>8. ASSUME NEW r \in Runs, NEW b \in Batches, ReserveBatch(r, b) PROVE Reserve'
    <2>1. \A w \in Windows : batch'[w] \in drawn' <=> batch[w] \in drawn
      <3> SUFFICES ASSUME NEW w \in Windows PROVE batch'[w] \in drawn' <=> batch[w] \in drawn
        OBVIOUS
      <3>1. CASE w \in Reservable(r)
        <4>1. batch[w] = NoBatch /\ NoBatch \notin drawn
          BY <3>1, ConstantsAssumption DEF Reservable, Settlement, RowsInOrder, TypeOK
        <4> QED BY <1>8, <3>1, <4>1 DEF ReserveBatch
      <3>2. CASE w \notin Reservable(r)
        BY <1>8, <3>2 DEF ReserveBatch
      <3> QED BY <3>1, <3>2
    <2>2. HoldsIntact' = HoldsIntact
      BY <1>8 DEF ReserveBatch, HoldsIntact
    <2> QED BY <1>8, <2>1, <2>2, ReserveUnmoved DEF ReserveBatch, CashKept
  <1>9. ASSUME NEW b \in Batches, DrawDown(b) PROVE Reserve'
    BY <1>9, ReserveDrawn
  <1>10. ASSUME NEW b \in Batches, DrawDownShort(b) \/ SettleBatch(b) PROVE Reserve'
    BY <1>b, <1>10 DEF DrawDownShort, SettleBatch
  <1>11. ASSUME CashKept' => reserved <= balance' \/ (CashKept /\ balance' = balance),
                UNCHANGED <<reserved, window, hold, impression, gross, batch, drawn>>,
                faults'.crash = faults.crash
         PROVE  Reserve'
    BY <1>11, ReserveUnmoved DEF HoldsIntact
  <1>12. CASE DepositStep
    <2>1. ASSUME NEW d \in Deposits, CreditDeposit(d) PROVE Reserve'
      <3>1. CASE HoldsIntact /\ CashKept
        <4>1. reserved <= balance'
          BY <1>c, <2>1, <3>1, ConstantsAssumption DEF CreditDeposit, Reserve, CashCovers
        <4> QED BY <1>11, <2>1, <4>1 DEF CreditDeposit
      <3>2. CASE ~(HoldsIntact /\ CashKept)
        <4>1. (~HoldsIntact => ~HoldsIntact') /\ (CashKept' = CashKept)
          BY <2>1 DEF CreditDeposit, HoldsIntact, CashKept
        <4> QED BY <1>a, <1>11, <2>1, <3>2, <4>1 DEF CreditDeposit
      <3> QED BY <3>1, <3>2
    <2>2. ASSUME NEW d \in Deposits, DisputeDeposit(d) PROVE Reserve'
      <3>1. ~CashKept'
        BY <2>2 DEF DisputeDeposit, CashKept
      <3> QED BY <1>11, <2>2, <3>1 DEF DisputeDeposit
    <2>3. ASSUME NEW d \in Deposits, NEW c \in RefundLevels, RefundDeposit(d, c) PROVE Reserve'
      <3>1. refunded'[d] = c /\ c > refunded[d] /\ refunded[d] \in Nat
        BY <2>3 DEF RefundDeposit, TypeOK
      <3>2. c \in Int
        BY ConstantsAssumption DEF RefundLevels
      <3>3. ~CashKept'
        BY <3>1, <3>2 DEF CashKept
      <3> QED BY <1>11, <2>3, <3>3 DEF RefundDeposit
    <2> QED BY <1>12, <2>1, <2>2, <2>3 DEF DepositStep
  <1>13. CASE AdjustCredit
    <2>1. faults'.crash = faults.crash
      BY <1>13 DEF AdjustCredit, TypeOK
    <2>2. CASE HoldsIntact /\ CashKept
      <3>1. reserved <= balance'
        BY <1>c, <1>13, <2>2, ConstantsAssumption DEF AdjustCredit, Reserve, CashCovers
      <3> QED BY <1>11, <1>13, <2>1, <3>1 DEF AdjustCredit
    <2>3. CASE ~(HoldsIntact /\ CashKept)
      <3>1. (~HoldsIntact => ~HoldsIntact') /\ (CashKept' = CashKept)
        BY <1>13, <2>1 DEF AdjustCredit, HoldsIntact, CashKept
      <3> QED BY <1>a, <1>11, <1>13, <2>1, <2>3, <3>1 DEF AdjustCredit
    <2> QED BY <2>2, <2>3
  <1>14. CASE AdjustDebit
    <2>1. faults'.crash = faults.crash
      BY <1>14 DEF AdjustDebit, TypeOK
    <2>2. reserved <= balance'
      BY <1>c, <1>14, ConstantsAssumption DEF AdjustDebit, Available
    <2> QED BY <1>11, <1>14, <2>1, <2>2 DEF AdjustDebit
  <1>15. CASE Reconcile
    BY <1>15, ReserveReconciled
  <1>16. CASE Resume
    BY <1>b, <1>16 DEF Resume
  <1>17. CASE Crash
    <2>1. faults'.crash = faults.crash + 1 /\ faults.crash \in Nat
      BY <1>17 DEF Crash, TypeOK
    <2>2. ~HoldsIntact'
      BY <2>1 DEF HoldsIntact
    <2> QED BY <1>a, <2>2
  <1> QED
    BY <1>1, <1>2, <1>3, <1>4, <1>5, <1>6, <1>7, <1>8, <1>9, <1>10, <1>12, <1>13, <1>14,
       <1>15, <1>16, <1>17
       DEF Next, ServeStep, BillingStep, AdminStep

\* Nothing is held at the start.
LEMMA ReserveAlways == Spec => [](TypeOK /\ Settlement /\ ServedInOrder /\ Reserve)
PROOF
  <1>1. Init => ServedInOrder
    BY DEF Init, ServedInOrder
  <1>2. Init => Reserve
    <2> SUFFICES ASSUME Init PROVE Reserve
      OBVIOUS
    <2>1. SumOf(hold, Windows) = 0
      BY SumZero, ConstantsAssumption DEF Init
    <2> QED BY <2>1 DEF Init, Reserve, ReservedIsSumOfHolds, HoldsGross, CashCovers
  <1>3. Spec => []ServedInOrder
    BY <1>1, TypeCorrect, SettlementAlways, ServedInOrderStep, PTL DEF Spec
  <1> QED BY <1>2, <1>3, TypeCorrect, SettlementAlways, ReserveStep, PTL DEF Spec

\* Until a crash loses windows or a clawback strands a hold, the reserved amount is
\* the sum of the holds of all windows, whatever opens, closes, draw-downs and
\* reconciliations ran in whatever order, for any number of them.
THEOREM ReservedAlwaysSumOfHolds == Spec => []ReservedIsSumOfHolds
PROOF
  <1>1. Reserve => ReservedIsSumOfHolds
    BY DEF Reserve
  <1> QED BY <1>1, ReserveAlways, PTL

\* While moreover no cash was taken back, the balance covers every hold and so
\* every batch that is still to be drawn: a draw-down never finds it short.
THEOREM HoldsAlwaysCovered == Spec => []HoldsCovered
PROOF
  <1>1. TypeOK /\ Settlement /\ ServedInOrder /\ Reserve => HoldsCovered
    <2> SUFFICES ASSUME TypeOK, Settlement, ServedInOrder, Reserve, HoldsIntact, CashKept
                 PROVE  reserved <= balance
                        /\ \A b \in Batches : b \notin drawn => BatchSum(b) <= balance
      BY DEF HoldsCovered, CashKept
    <2>1. reserved <= balance
      BY DEF Reserve, CashCovers
    <2>2. ASSUME NEW b \in Batches, b \notin drawn PROVE BatchSum(b) <= balance
      <3>1. IsFiniteSet(Pending(b)) /\ Pending(b) \in SUBSET Windows
        BY StateSums DEF Pending
      <3>2. \A w \in Pending(b) : hold[w] = gross[w]
        BY <2>2, UndrawnBatch DEF Pending, Reserve, HoldsGross
      <3>3. SumOf(hold, Pending(b)) = BatchSum(b)
        BY <3>1, <3>2, SumAgree DEF BatchSum
      <3>4. SumOf(hold, Pending(b)) \in Nat /\ SumOf(hold, Pending(b)) <= SumOf(hold, Windows)
        <4>1. \A w \in Windows : hold[w] \in Nat
          BY DEF TypeOK
        <4> QED BY <3>1, <4>1, SumPart, ConstantsAssumption
      <3>5. reserved = SumOf(hold, Windows) /\ reserved \in Nat /\ balance \in Nat
        BY DEF Reserve, ReservedIsSumOfHolds, TypeOK
      <3> QED BY <2>1, <3>3, <3>4, <3>5
    <2> QED BY <2>1, <2>2
  <1> QED BY <1>1, ReserveAlways, PTL

-----------------------------------------------------------------------------
(* The windows of the balance implement WindowContract.                    *)

phaseBar == [w \in Windows |-> PhaseOf(w)]

LEMMA ContractInit == Init => Contract!Init
PROOF
  BY DEF Init, Contract!Init, PhaseOf

\* A serving step moves one window along the contract; a clawback, a draw-down and
\* a crash end those windows of theirs that still hold something.
LEMMA ContractStep ==
  TypeOK /\ Settlement /\ ServedInOrder /\ [Next]_vars
    => [Contract!Next]_<<phaseBar, hold>>
PROOF
  <1> SUFFICES ASSUME TypeOK, Settlement, ServedInOrder, [Next]_vars
               PROVE  Contract!Next \/ UNCHANGED <<phaseBar, hold>>
    BY DEF phaseBar
  <1> USE DEF windowVars, chargeVars
  <1>0. /\ Estimate \in Nat \ {0}
        /\ \A g \in GrossValues : g \in 1 .. Estimate
        /\ window \in [Windows -> WindowStates] /\ hold \in [Windows -> Nat]
    <2>1. \A g \in GrossValues : g <= Estimate
      <3>1. ASSUME NEW a \in Nat, NEW b \in Nat PROVE (a - 1) * b <= a * b
        OBVIOUS
      <3> QED BY <3>1, ConstantsAssumption DEF GrossValues, Estimate
    <2> QED BY <2>1, AmountsPositive DEF TypeOK
  <1>1. ASSUME UNCHANGED <<window, hold>> PROVE UNCHANGED <<phaseBar, hold>>
    BY <1>1 DEF phaseBar, PhaseOf
  <1>2. ASSUME NEW S \in SUBSET Windows,
               \A w \in S : PhaseOf(w) \in {"held", "owed"} /\ PhaseOf(w)' = "ended",
               \A w \in Windows : w \notin S => PhaseOf(w)' = PhaseOf(w),
               hold' = [w \in Windows |-> IF w \in S THEN 0 ELSE hold[w]]
        PROVE  Contract!Next
    BY <1>2 DEF Contract!Next, Contract!End
  <1>3. ASSUME NEW w \in Windows, Open(w) PROVE Contract!Next
    <2>1. /\ phaseBar[w] = "none"
          /\ phaseBar' = [phaseBar EXCEPT ![w] = "held"]
          /\ hold' = [hold EXCEPT ![w] = Estimate]
      BY <1>0, <1>3 DEF Open, phaseBar, PhaseOf
    <2> QED BY <2>1 DEF Contract!Next, Contract!Hold, phaseBar
  <1>4. ASSUME NEW w \in Windows, CloseCredited(w) PROVE Contract!Next
    <2>1. window[w] = "open" /\ hold[w] = Estimate
      BY <1>4 DEF CloseCredited, ServedInOrder
    <2>2. PICK g \in 1 .. hold[w] : hold' = [hold EXCEPT ![w] = g]
      BY <1>0, <1>4, <2>1 DEF CloseCredited
    <2>3. window' = [window EXCEPT ![w] = "credited"]
      BY <1>4 DEF CloseCredited
    <2>4. PhaseOf(w) = "held" /\ PhaseOf(w)' = "owed"
      BY <1>0, <2>1, <2>2, <2>3 DEF PhaseOf
    <2>5. \A v \in Windows \ {w} : PhaseOf(v)' = PhaseOf(v)
      BY <1>0, <2>2, <2>3 DEF PhaseOf
    <2>6. /\ phaseBar[w] = "held"
          /\ phaseBar' = [phaseBar EXCEPT ![w] = "owed"]
      BY <2>4, <2>5 DEF phaseBar
    <2> QED BY <2>2, <2>6 DEF Contract!Next, Contract!Owe, phaseBar
  <1>5. ASSUME NEW w \in Windows, Abandon(w) PROVE Contract!Next
    <2>1. {w} \in SUBSET Windows
      OBVIOUS
    <2>2. PhaseOf(w) = "held" /\ PhaseOf(w)' = "ended"
          /\ \A v \in Windows : v \notin {w} => PhaseOf(v)' = PhaseOf(v)
      BY <1>0, <1>5 DEF Abandon, PhaseOf
    <2>3. hold' = [v \in Windows |-> IF v \in {w} THEN 0 ELSE hold[v]]
      BY <1>0, <1>5 DEF Abandon
    <2> QED BY <1>2, <2>1, <2>2, <2>3
  \* The windows of S have an impression or are gone; those that hold something end.
  <1>6. ASSUME NEW S \in SUBSET Windows, \A w \in S : window[w] \notin {"none", "open"},
               window' = window,
               hold' = [w \in Windows |-> IF w \in S THEN 0 ELSE hold[w]]
        PROVE  Contract!Next
    <2> DEFINE E == {w \in S : hold[w] > 0}
    <2>1. \A w \in E : PhaseOf(w) = "owed" /\ PhaseOf(w)' = "ended"
      <3> SUFFICES ASSUME NEW w \in E PROVE PhaseOf(w) = "owed" /\ PhaseOf(w)' = "ended"
        OBVIOUS
      <3>1. window[w] = "credited"
        BY <1>0, <1>6 DEF ServedInOrder, WindowStates
      <3> QED BY <1>6, <3>1 DEF PhaseOf
    <2>2. \A w \in Windows : w \notin E => hold'[w] = hold[w]
      BY <1>0, <1>6
    <2>3. \A w \in Windows : w \notin E => PhaseOf(w)' = PhaseOf(w)
      BY <1>6, <2>2 DEF PhaseOf
    <2>4. hold' = [w \in Windows |-> IF w \in E THEN 0 ELSE hold[w]]
      BY <1>0, <1>6
    <2>5. E \in SUBSET Windows
      OBVIOUS
    <2> HIDE DEF E
    <2> QED BY <1>2, <2>1, <2>3, <2>4, <2>5
  <1>7. ASSUME NEW w \in Windows, Clawable(w), hold' = [hold EXCEPT ![w] = 0],
               window' = window
        PROVE  Contract!Next
    <2>1. \A v \in {w} : window[v] \notin {"none", "open"}
      BY <1>7 DEF Clawable, Settlement, RowsInOrder
    <2>2. hold' = [v \in Windows |-> IF v \in {w} THEN 0 ELSE hold[v]]
      BY <1>0, <1>7
    <2> QED BY <1>6, <1>7, <2>1, <2>2
  <1>8. CASE ClawbackStep
    BY <1>1, <1>7, <1>8
       DEF ClawbackStep, ApproveClawback, AdminOpenClawback, AdminPrepayClawback,
           RefundReview, PrepayReversal
  <1>9. ASSUME NEW b \in Batches, DrawDown(b) PROVE Contract!Next
    <2> DEFINE B == {w \in Windows : batch[w] = b}
    <2>1. \A w \in B : window[w] \notin {"none", "open"}
      BY <1>9, UndrawnBatch DEF DrawDown
    <2>2. hold' = [w \in Windows |-> IF w \in B THEN 0 ELSE hold[w]] /\ window' = window
      BY <1>9 DEF DrawDown
    <2>3. B \in SUBSET Windows
      OBVIOUS
    <2> HIDE DEF B
    <2> QED BY <1>6, <2>1, <2>2, <2>3
  <1>10. CASE Crash
    <2> DEFINE S == {w \in Windows : PhaseOf(w) \in {"held", "owed"}}
    <2>1. \A w \in S : PhaseOf(w) \in {"held", "owed"} /\ PhaseOf(w)' = "ended"
      BY <1>10 DEF Crash, PhaseOf
    <2>2. \A w \in Windows : w \notin S => PhaseOf(w)' = PhaseOf(w) /\ hold[w] = 0
      BY <1>0, <1>10 DEF Crash, PhaseOf, ServedInOrder, WindowStates
    <2>3. hold' = [w \in Windows |-> IF w \in S THEN 0 ELSE hold[w]]
      BY <1>10, <2>2 DEF Crash
    <2>4. S \in SUBSET Windows
      OBVIOUS
    <2> HIDE DEF S
    <2> QED BY <1>2, <2>1, <2>2, <2>3, <2>4
  <1>11. CASE UNCHANGED vars \/ ReviewStep \/ DepositStep \/ AdminStep
    BY <1>1, <1>11
       DEF vars, ReviewStep, Flag, RejectReview, Clear, DepositStep, CreditDeposit,
           DisputeDeposit, RefundDeposit, AdminStep, AdjustCredit, AdjustDebit,
           Reconcile, Resume
  <1>12. CASE BillingStep
    BY <1>1, <1>9, <1>12
       DEF BillingStep, FetchPlan, DropPlan, ReserveBatch, DrawDownShort, SettleBatch
  <1> QED
    BY <1>3, <1>4, <1>5, <1>8, <1>10, <1>11, <1>12 DEF Next, ServeStep

\* The transactions that move the balance keep the promise of WindowContract, which
\* the dwell protocol keeps too: what a window holds only shrinks, and what ends it
\* leaves nothing held, however its clawback, its batch and a crash overlap.
THEOREM BalanceKeepsContract == Spec => KeepsContract
PROOF
  <1>1. Spec => Contract!Init /\ [][Contract!Next]_<<phaseBar, hold>>
    BY ContractInit, ContractStep, ReserveAlways, PTL DEF Spec
  <1> QED BY <1>1, PTL DEF KeepsContract, Contract!Spec, phaseBar

=============================================================================
