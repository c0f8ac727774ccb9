--------------------------- MODULE InsuranceFund ---------------------------
(***************************************************************************)
(* The platform insurance fund.  A dispute resolved as INSURANCE_PAYOUT    *)
(* debits it inside the resolving transaction, within a cap per incident,  *)
(* a cap per buyer and year and a number of incidents per seller and year; *)
(* the nightly top-up credits it with a share of the commission of the     *)
(* orders paid since the last top-up.  Both lock the row of the balance    *)
(* until they commit.                                                      *)
(*                                                                         *)
(* All three kinds of process (claims, top-ups and the finalization of an  *)
(* order) read the clock before they wait for a lock or a slow hash, and   *)
(* stamp their rows with that reading when they commit.  What the others   *)
(* of them do to disputes and orders is in Escrow and Checkout.            *)
(***************************************************************************)
EXTENDS Integers, FiniteSets

CONSTANTS
    FundOrders,     \* orders being paid
    Contribution,   \* Contribution[S]: cents a top-up adds for the orders S
    Disputes, BuyerOf, SellerOf,    \* of a dispute's order; SellerOf[d] is
                                    \* Nobody for an order of several sellers
    Payouts, DisputeOf,     \* ledger row ids, and the dispute a row is for
    Amount,         \* Amount[d]: the total of dispute d's order, in cents
    Total,          \* Total[S]: the sum of the amounts of the ledger rows S
    Admins,         \* requests resolving a dispute as INSURANCE_PAYOUT
    TopUps,         \* worker replicas running the top-up
    InitialBalance,
    MaxPerIncident, MaxPerBuyerYear, MaxPerSellerYear,  \* insurance_fund.*
    Year,           \* YEAR_MS
    MaxNow,         \* bound: the clock stops there
    Never, Nobody

ASSUME InsuranceAssumption ==
    /\ Contribution \in [SUBSET FundOrders -> Nat]
    /\ DisputeOf \in [Payouts -> Disputes]
    /\ Amount \in [Disputes -> Nat]
    /\ IsFiniteSet(Payouts)
    /\ InitialBalance \in Nat /\ MaxPerSellerYear \in Nat
    /\ MaxPerBuyerYear \in Nat /\ MaxPerIncident \in Nat
    /\ Year \in Nat /\ MaxNow \in Nat
    /\ Never \notin Nat
    /\ Admins \intersect TopUps = {}
    /\ Nobody \notin Admins \union TopUps \union Disputes

\* What SUM(amount) computes.
ASSUME TotalAssumption ==
    /\ Total \in [SUBSET Payouts -> Nat]
    /\ Total[{}] = 0
    /\ \A S \in SUBSET Payouts : \A p \in Payouts \ S :
          Total[S \union {p}] = Total[S] + Amount[DisputeOf[p]]
    /\ \A S, T \in SUBSET Payouts : S \subseteq T => Total[S] <= Total[T]

VARIABLES
    now,
    balance,        \* insurance_fund.balance, in cents
    lock,           \* the transaction that holds the row of the balance
    marker,         \* insurance_fund.last_topup_at
    payoutAt,       \* insurance_payouts.created_at; Never: no such row
    resolved,       \* disputes with a final status
    payPc, paidAt,  \* finalization of an order, and its orders.paid_at
    adminPc, adminDispute, adminNow, adminBalance,
    topPc, topAt, topSince, topBalance,
    counted,        \* top-ups that counted an order (no column)
    toppedUp        \* cents added by all top-ups (the audit rows' sum)

fund == <<balance, lock, marker>>
payVars == <<payPc, paidAt>>
adminVars == <<adminPc, adminDispute, adminNow, adminBalance>>
topVars == <<topPc, topAt, topSince, topBalance>>
ghosts == <<counted, toppedUp>>
fundVars == <<now, fund, payoutAt, resolved, payVars, adminVars, topVars, ghosts>>

Rows == {p \in Payouts : payoutAt[p] # Never}

\* Before the first top-up the window starts at the epoch.
FundInit ==
    /\ now = 1
    /\ balance = InitialBalance
    /\ lock = Nobody
    /\ marker = 0
    /\ payoutAt = [p \in Payouts |-> Never]
    /\ resolved = {}
    /\ payPc = [o \in FundOrders |-> "pending"]
    /\ paidAt = [o \in FundOrders |-> Never]
    /\ adminPc = [a \in Admins |-> "idle"]
    /\ adminDispute = [a \in Admins |-> Nobody]
    /\ adminNow = [a \in Admins |-> 0]
    /\ adminBalance = [a \in Admins |-> 0]
    /\ topPc = [t \in TopUps |-> "idle"]
    /\ topAt = [t \in TopUps |-> 0]
    /\ topSince = [t \in TopUps |-> 0]
    /\ topBalance = [t \in TopUps |-> 0]
    /\ counted = [o \in FundOrders |-> 0]
    /\ toppedUp = 0

Tick ==
    /\ now < MaxNow
    /\ now' = now + 1
    /\ UNCHANGED <<fund, payoutAt, resolved, payVars, adminVars, topVars,
                   ghosts>>

-----------------------------------------------------------------------------
(* finalizePaidOrder takes the time, hashes the delivery code and commits. *)

PayStart(o) ==
    /\ payPc[o] = "pending"
    /\ payPc' = [payPc EXCEPT ![o] = "hashing"]
    /\ paidAt' = [paidAt EXCEPT ![o] = now]
    /\ UNCHANGED <<now, fund, payoutAt, resolved, adminVars, topVars, ghosts>>

PayCommit(o) ==
    /\ payPc[o] = "hashing"
    /\ payPc' = [payPc EXCEPT ![o] = "paid"]
    /\ UNCHANGED <<now, fund, payoutAt, resolved, paidAt, adminVars, topVars,
                   ghosts>>

PayDies(o) ==
    /\ payPc[o] = "hashing"
    /\ payPc' = [payPc EXCEPT ![o] = "pending"]
    /\ paidAt' = [paidAt EXCEPT ![o] = Never]
    /\ UNCHANGED <<now, fund, payoutAt, resolved, adminVars, topVars, ghosts>>

-----------------------------------------------------------------------------
(* resolveDispute with INSURANCE_PAYOUT, and payInsuranceClaimTx.          *)

\* The status check of resolveDispute, before its transaction.
AdminRead(a, d) ==
    /\ adminPc[a] = "idle"
    /\ d \notin resolved
    /\ adminPc' = [adminPc EXCEPT ![a] = "read"]
    /\ adminDispute' = [adminDispute EXCEPT ![a] = d]
    /\ UNCHANGED <<now, fund, payoutAt, resolved, payVars, adminNow,
                   adminBalance, topVars, ghosts>>

\* The claim takes the time, then waits for the lock.
ClaimStart(a) ==
    /\ adminPc[a] = "read"
    /\ Amount[adminDispute[a]] > 0
    /\ adminPc' = [adminPc EXCEPT ![a] = "waiting"]
    /\ adminNow' = [adminNow EXCEPT ![a] = now]
    /\ UNCHANGED <<now, fund, payoutAt, resolved, payVars, adminDispute,
                   adminBalance, topVars, ghosts>>

\* The ledger rows since a date that concern a buyer or a seller.
RowsSince(since) == {p \in Rows : payoutAt[p] >= since}
OfBuyer(S, b) == {p \in S : BuyerOf[DisputeOf[p]] = b}
OfSeller(S, s) == {p \in S : SellerOf[DisputeOf[p]] = s}

WithinFund(a) ==
    /\ Amount[adminDispute[a]] <= MaxPerIncident
    /\ Amount[adminDispute[a]] <= balance

WithinBuyerYear(a, rows) ==
    LET d == adminDispute[a] IN
    Total[OfBuyer(rows, BuyerOf[d])] + Amount[d] <= MaxPerBuyerYear

WithinSellerYear(a, rows) ==
    LET s == SellerOf[adminDispute[a]] IN
    s # Nobody => Cardinality(OfSeller(rows, s)) + 1 <= MaxPerSellerYear

ClaimChecked(a, owner) ==
    /\ lock' = owner
    /\ adminPc' = [adminPc EXCEPT ![a] = "checked"]
    /\ adminBalance' = [adminBalance EXCEPT ![a] = balance]
    /\ UNCHANGED <<now, balance, marker, payoutAt, resolved, payVars,
                   adminDispute, adminNow, topVars, ghosts>>

\* Mutated ClaimLock: a plain read instead of SELECT ... FOR UPDATE.
ClaimReadUnlocked(a) ==
    LET rows == RowsSince(adminNow[a] - Year) IN
    /\ adminPc[a] = "waiting"
    /\ WithinFund(a) /\ WithinBuyerYear(a, rows) /\ WithinSellerYear(a, rows)
    /\ ClaimChecked(a, lock)

\* Mutated ClaimLock: the year ends at the claim's own clock.
ClaimLockUpToNow(a) ==
    LET rows == {p \in RowsSince(adminNow[a] - Year) :
                    payoutAt[p] <= adminNow[a]} IN
    /\ adminPc[a] = "waiting" /\ lock = Nobody
    /\ WithinFund(a) /\ WithinBuyerYear(a, rows) /\ WithinSellerYear(a, rows)
    /\ ClaimChecked(a, a)

\* Under the lock of the balance row, the balance and every cap are read; a
\* claim that fails a check rolls the resolution back (ClaimDies).
ClaimLock(a) ==
    LET rows == RowsSince(adminNow[a] - Year) IN
    /\ adminPc[a] = "waiting" /\ lock = Nobody
    /\ WithinFund(a) /\ WithinBuyerYear(a, rows) /\ WithinSellerYear(a, rows)
    /\ ClaimChecked(a, a)

AdminIdle(a) ==
    /\ lock' = IF lock = a THEN Nobody ELSE lock
    /\ adminPc' = [adminPc EXCEPT ![a] = "idle"]
    /\ adminDispute' = [adminDispute EXCEPT ![a] = Nobody]
    /\ adminNow' = [adminNow EXCEPT ![a] = 0]
    /\ adminBalance' = [adminBalance EXCEPT ![a] = 0]
    /\ UNCHANGED <<now, marker, payVars, topVars, ghosts>>

\* The debit, the ledger row and the resolution, from the values checked.
ClaimCommit(a, p) ==
    LET d == adminDispute[a] IN
    /\ adminPc[a] = "checked"
    /\ payoutAt[p] = Never /\ DisputeOf[p] = d
    /\ balance' = adminBalance[a] - Amount[d]
    /\ payoutAt' = [payoutAt EXCEPT ![p] = adminNow[a]]
    /\ resolved' = resolved \union {d}
    /\ AdminIdle(a)

\* A check fails, or the request dies: everything rolls back.
ClaimDies(a) ==
    /\ adminPc[a] # "idle"
    /\ AdminIdle(a)
    /\ UNCHANGED <<balance, payoutAt, resolved>>

-----------------------------------------------------------------------------
(* accrueInsuranceTopUp.                                                   *)

\* The top-up takes the time, then waits for the lock.
TopUpStart(t) ==
    /\ topPc[t] = "idle"
    /\ topPc' = [topPc EXCEPT ![t] = "waiting"]
    /\ topAt' = [topAt EXCEPT ![t] = now]
    /\ UNCHANGED <<now, fund, payoutAt, resolved, payVars, adminVars, topSince,
                   topBalance, ghosts>>

TopUpChecked(t, owner) ==
    /\ topPc[t] = "waiting"
    /\ lock' = owner
    /\ topPc' = [topPc EXCEPT ![t] = "checked"]
    /\ topBalance' = [topBalance EXCEPT ![t] = balance]
    /\ topSince' = [topSince EXCEPT ![t] = marker]
    /\ UNCHANGED <<now, balance, marker, payoutAt, resolved, payVars,
                   adminVars, topAt, ghosts>>

TopUpLock(t) ==
    /\ lock = Nobody
    /\ TopUpChecked(t, t)

TopUpIdle(t) ==
    /\ lock' = IF lock = t THEN Nobody ELSE lock
    /\ topPc' = [topPc EXCEPT ![t] = "idle"]
    /\ topAt' = [topAt EXCEPT ![t] = 0]
    /\ topSince' = [topSince EXCEPT ![t] = 0]
    /\ topBalance' = [topBalance EXCEPT ![t] = 0]
    /\ UNCHANGED <<now, payoutAt, resolved, payVars, adminVars>>

\* The commission of the window is summed and its share credited, and the
\* marker moves to the window's end.
TopUpCommit(t) ==
    LET due == {o \in FundOrders : /\ payPc[o] = "paid"
                                   /\ topSince[t] < paidAt[o]
                                   /\ paidAt[o] <= topAt[t]} IN
    /\ topPc[t] = "checked"
    /\ balance' = topBalance[t] + Contribution[due]
    /\ marker' = topAt[t]
    /\ counted' = [o \in FundOrders |-> counted[o] + (IF o \in due THEN 1 ELSE 0)]
    /\ toppedUp' = toppedUp + Contribution[due]
    /\ TopUpIdle(t)

TopUpDies(t) ==
    /\ topPc[t] # "idle"
    /\ TopUpIdle(t)
    /\ UNCHANGED <<balance, marker, ghosts>>

-----------------------------------------------------------------------------
PayNext(o) == PayStart(o) \/ PayCommit(o) \/ PayDies(o)

ClaimNext(a) ==
    \/ \E d \in Disputes : AdminRead(a, d)
    \/ ClaimStart(a)
    \/ ClaimLock(a)
    \/ \E p \in Payouts : ClaimCommit(a, p)
    \/ ClaimDies(a)

TopUpNext(t) == TopUpStart(t) \/ TopUpLock(t) \/ TopUpCommit(t) \/ TopUpDies(t)

FundNext ==
    \/ Tick
    \/ \E o \in FundOrders : PayNext(o)
    \/ \E a \in Admins : ClaimNext(a)
    \/ \E t \in TopUps : TopUpNext(t)

FundSpec == FundInit /\ [][FundNext]_fundVars

-----------------------------------------------------------------------------
(* Properties.                                                             *)

\* Every variable holds a value its column or process state can hold; in
\* particular the balance is never negative.
FundTypeOK ==
    /\ now \in Nat /\ balance \in Nat /\ marker \in Nat
    /\ lock \in Admins \union TopUps \union {Nobody}
    /\ payoutAt \in [Payouts -> Nat \union {Never}]
    /\ resolved \subseteq Disputes
    /\ payPc \in [FundOrders -> {"pending", "hashing", "paid"}]
    /\ paidAt \in [FundOrders -> Nat \union {Never}]
    /\ adminPc \in [Admins -> {"idle", "read", "waiting", "checked"}]
    /\ adminDispute \in [Admins -> Disputes \union {Nobody}]
    /\ adminNow \in [Admins -> Nat]
    /\ adminBalance \in [Admins -> Nat]
    /\ topPc \in [TopUps -> {"idle", "waiting", "checked"}]
    /\ topAt \in [TopUps -> Nat] /\ topSince \in [TopUps -> Nat]
    /\ topBalance \in [TopUps -> Nat]
    /\ counted \in [FundOrders -> Nat] /\ toppedUp \in Nat

\* Parallel claims never overdraw the fund: the ledger never holds more than
\* was ever put in (the promise of the FOR UPDATE lock in
\* payInsuranceClaimTx; without it the balance would stay positive all the
\* same, each claim overwriting the other's debit).
NeverOverdrawn == Total[Rows] <= InitialBalance + toppedUp

\* The balance is what the fund started with, plus every top-up, less every
\* row of the ledger: no claim or top-up overwrites another's.
LedgerReconciles == balance + Total[Rows] = InitialBalance + toppedUp

\* The money is right whatever claims and top-ups overlap: none is paid out
\* that is not there, and none is lost or made.
FundSound == NeverOverdrawn /\ LedgerReconciles

\* The ledger rows of the year that starts at a time t.
RowsOfYear(t) == {p \in Rows : t <= payoutAt[p] /\ payoutAt[p] <= t + Year}

\* In no year, starting at any time, does a buyer get more than the cap,
\* although claims commit in another order than their clocks tell.
BuyerYearCap ==
    \A d \in Disputes, t \in 0..MaxNow :
        Total[OfBuyer(RowsOfYear(t), BuyerOf[d])] <= MaxPerBuyerYear

\* Nor does a seller have more incidents than the cap allows in any year.
SellerYearCap ==
    \A d \in Disputes, t \in 0..MaxNow :
        SellerOf[d] # Nobody =>
            Cardinality(OfSeller(RowsOfYear(t), SellerOf[d]))
                <= MaxPerSellerYear

\* Both yearly caps, for every year.
YearCapsHold == BuyerYearCap /\ SellerYearCap

\* What a transaction read under the lock is still so when it commits.
ClaimHolds(a) ==
    LET rows == RowsSince(adminNow[a] - Year) IN
    /\ adminPc[a] # "idle" => adminDispute[a] \in Disputes
    /\ adminPc[a] = "checked" =>
          /\ lock = a
          /\ adminBalance[a] = balance
          /\ WithinFund(a)
          /\ WithinBuyerYear(a, rows)
          /\ WithinSellerYear(a, rows)

ClaimMemory == \A a \in Admins : ClaimHolds(a)

TopUpMemory ==
    \A t \in TopUps :
        topPc[t] = "checked" => lock = t /\ topBalance[t] = balance

FundIInv == /\ FundTypeOK /\ ClaimMemory /\ TopUpMemory /\ NeverOverdrawn
        /\ LedgerReconciles /\ BuyerYearCap /\ SellerYearCap

\* From the comment of accrueInsuranceTopUp, "each run only counts new
\* commission": no order is counted by two top-ups, whichever replicas run
\* them.
CountedOnce == \A o \in FundOrders : counted[o] <= 1
=============================================================================
