--------------------------- MODULE InsuranceProofs ---------------------------
(***************************************************************************)
(* Proofs about InsuranceFund, for any number of orders, disputes, rows    *)
(* and processes and any caps.  FundIInv, defined in InsuranceFund, is     *)
(* inductive: what a transaction read under the lock still holds when it   *)
(* commits, and the rows of any year that contains the new one are among   *)
(* those the claim summed.                                                 *)
(***************************************************************************)
EXTENDS InsuranceFund, FiniteSetTheorems, TLAPS

LEMMA FundInitInv == FundInit => FundIInv
<1> USE InsuranceAssumption, TotalAssumption
<1> SUFFICES ASSUME FundInit PROVE FundIInv
  OBVIOUS
<1>1. FundTypeOK
  BY DEF FundInit, FundTypeOK
<1>2. ClaimMemory /\ TopUpMemory
  BY DEF FundInit, ClaimMemory, ClaimHolds, TopUpMemory
<1>3. Rows = {}
  BY DEF FundInit, Rows
<1>4. NeverOverdrawn /\ LedgerReconciles
  BY <1>3 DEF FundInit, NeverOverdrawn, LedgerReconciles
<1>5. BuyerYearCap
  <2> SUFFICES ASSUME NEW d \in Disputes, NEW t \in 0..MaxNow
               PROVE  Total[OfBuyer(RowsOfYear(t), BuyerOf[d])]
                          <= MaxPerBuyerYear
    BY DEF BuyerYearCap
  <2>1. OfBuyer(RowsOfYear(t), BuyerOf[d]) = {}
    BY <1>3 DEF OfBuyer, RowsOfYear
  <2>2. QED BY <2>1
<1>6. SellerYearCap
  <2> SUFFICES ASSUME NEW d \in Disputes, NEW t \in 0..MaxNow
               PROVE  Cardinality(OfSeller(RowsOfYear(t), SellerOf[d]))
                          <= MaxPerSellerYear
    BY DEF SellerYearCap
  <2>1. OfSeller(RowsOfYear(t), SellerOf[d]) = {}
    BY <1>3 DEF OfSeller, RowsOfYear
  <2>2. QED BY <2>1, FS_EmptySet
<1>7. QED BY <1>1, <1>2, <1>4, <1>5, <1>6 DEF FundIInv

\* A step that writes neither the ledger nor the balance.
LEMMA LedgerUntouched ==
    ASSUME FundIInv, UNCHANGED <<payoutAt, balance, toppedUp>>
    PROVE  NeverOverdrawn' /\ LedgerReconciles' /\ BuyerYearCap'
           /\ SellerYearCap'
<1>1. Rows' = Rows
  BY DEF Rows
<1>2. NeverOverdrawn' /\ LedgerReconciles'
  BY <1>1 DEF FundIInv, NeverOverdrawn, LedgerReconciles
<1>3. \A t : RowsOfYear(t)' = RowsOfYear(t)
  BY <1>1 DEF RowsOfYear
<1>4. BuyerYearCap' /\ SellerYearCap'
  BY <1>3 DEF FundIInv, BuyerYearCap, SellerYearCap, OfBuyer, OfSeller
<1>5. QED BY <1>2, <1>4

\* The memory of a claim outlives a step that leaves it, the fund and the
\* ledger alone.
LEMMA ClaimRemembers ==
    ASSUME FundIInv, UNCHANGED <<balance, payoutAt>>, NEW a \in Admins,
           UNCHANGED <<adminPc[a], adminDispute[a], adminNow[a],
                       adminBalance[a]>>,
           adminPc[a] = "checked" => lock' = lock
    PROVE  ClaimHolds(a)'
<1>1. RowsSince(adminNow[a] - Year)' = RowsSince(adminNow[a] - Year)
  BY DEF RowsSince, Rows
<1>2. QED
  BY <1>1 DEF FundIInv, ClaimMemory, ClaimHolds, WithinFund, WithinBuyerYear,
     WithinSellerYear, OfBuyer, OfSeller

LEMMA TickStep ==
    ASSUME FundIInv, Tick PROVE FundIInv'
<1> USE InsuranceAssumption DEF Tick, fund, payVars, adminVars, topVars, ghosts
<1>1. FundTypeOK'
  BY DEF FundIInv, FundTypeOK
<1>2. ClaimMemory'
  BY ClaimRemembers DEF ClaimMemory
<1>3. TopUpMemory'
  BY DEF FundIInv, TopUpMemory
<1>4. QED BY <1>1, <1>2, <1>3, LedgerUntouched DEF FundIInv

LEMMA PayStep ==
    ASSUME FundIInv, NEW o \in FundOrders, PayNext(o) PROVE FundIInv'
<1> USE InsuranceAssumption DEF fund, payVars, adminVars, topVars, ghosts
<1>1. UNCHANGED <<now, fund, payoutAt, resolved, adminVars, topVars, ghosts>>
  BY DEF PayNext, PayStart, PayCommit, PayDies
<1>2. FundTypeOK'
  BY DEF FundIInv, FundTypeOK, PayNext, PayStart, PayCommit, PayDies
<1>3. ClaimMemory'
  BY <1>1, ClaimRemembers DEF ClaimMemory
<1>4. TopUpMemory'
  BY <1>1 DEF FundIInv, TopUpMemory
<1>5. QED BY <1>1, <1>2, <1>3, <1>4, LedgerUntouched DEF FundIInv

\* The steps of a claim before its commit, and its death.
LEMMA ClaimWaits ==
    ASSUME FundIInv, NEW a \in Admins,
           \/ \E d \in Disputes : AdminRead(a, d)
           \/ ClaimStart(a)
           \/ ClaimLock(a)
           \/ ClaimDies(a)
    PROVE  FundIInv'
<1> USE InsuranceAssumption DEF fund, payVars, adminVars, topVars, ghosts
<1>1. UNCHANGED <<now, balance, marker, payoutAt, resolved, payVars, topVars,
                  ghosts>>
  BY Zenon DEF AdminRead, ClaimStart, ClaimLock, ClaimChecked, ClaimDies,
     AdminIdle
<1>2. FundTypeOK'
  <2>1. ASSUME NEW d \in Disputes, AdminRead(a, d) PROVE FundTypeOK'
    BY <2>1 DEF FundIInv, FundTypeOK, AdminRead
  <2>2. CASE ClaimStart(a)
    BY <2>2 DEF FundIInv, FundTypeOK, ClaimStart
  <2>3. CASE ClaimLock(a)
    BY <2>3 DEF FundIInv, FundTypeOK, ClaimLock, ClaimChecked
  <2>4. CASE ClaimDies(a)
    BY <2>4 DEF FundIInv, FundTypeOK, ClaimDies, AdminIdle
  <2>5. QED BY <2>1, <2>2, <2>3, <2>4
<1>3. ASSUME NEW b \in Admins \ {a}
      PROVE  /\ UNCHANGED <<adminPc[b], adminDispute[b], adminNow[b],
                            adminBalance[b]>>
             /\ adminPc[b] = "checked" => lock' = lock
  BY DEF FundIInv, FundTypeOK, ClaimMemory, ClaimHolds, AdminRead, ClaimStart,
     ClaimLock, ClaimChecked, ClaimDies, AdminIdle
<1>4. ClaimHolds(a)'
  <2>1. ASSUME NEW d \in Disputes, AdminRead(a, d)
        PROVE  ClaimHolds(a)'
    BY <2>1 DEF FundIInv, FundTypeOK, ClaimHolds, AdminRead
  <2>2. CASE ClaimStart(a)
    BY <2>2 DEF FundIInv, FundTypeOK, ClaimMemory, ClaimHolds, ClaimStart
  <2>3. CASE ClaimLock(a)
    <3>1. /\ WithinFund(a)
          /\ WithinBuyerYear(a, RowsSince(adminNow[a] - Year))
          /\ WithinSellerYear(a, RowsSince(adminNow[a] - Year))
      BY <2>3 DEF ClaimLock
    <3>2. /\ adminPc'[a] = "checked" /\ lock' = a
          /\ adminBalance'[a] = balance' /\ adminDispute' = adminDispute
          /\ adminDispute[a] \in Disputes /\ adminNow' = adminNow
      BY <2>3, <1>1 DEF FundIInv, FundTypeOK, ClaimMemory, ClaimHolds, ClaimLock,
         ClaimChecked
    <3>3. WithinFund(a)'
      BY <3>1, <3>2, <1>1 DEF WithinFund
    <3>4. WithinBuyerYear(a, RowsSince(adminNow[a] - Year))'
      BY <1>1, <3>1, <3>2 DEF WithinBuyerYear, OfBuyer, RowsSince, Rows
    <3>5. WithinSellerYear(a, RowsSince(adminNow[a] - Year))'
      BY <1>1, <3>1, <3>2 DEF WithinSellerYear, OfSeller, RowsSince, Rows
    <3>6. QED BY <3>2, <3>3, <3>4, <3>5 DEF ClaimHolds
  <2>4. CASE ClaimDies(a)
    BY <2>4 DEF FundIInv, FundTypeOK, ClaimHolds, ClaimDies, AdminIdle
  <2>5. QED BY <2>1, <2>2, <2>3, <2>4
<1>5. ClaimMemory'
  BY <1>1, <1>3, <1>4, ClaimRemembers DEF ClaimMemory
<1>6. TopUpMemory'
  BY <1>1 DEF FundIInv, FundTypeOK, TopUpMemory, AdminRead, ClaimStart, ClaimLock,
     ClaimChecked, ClaimDies, AdminIdle
<1>7. QED BY <1>1, <1>2, <1>5, <1>6, LedgerUntouched DEF FundIInv

\* The rows of a year after a new row at time n: the new row counts only in
\* the years that contain n, and the older rows of such a year are among
\* those since the year before n.
LEMMA NewRow ==
    ASSUME NEW p \in Payouts, NEW n \in Nat, NEW t \in Nat, FundTypeOK,
           payoutAt[p] = Never, payoutAt' = [payoutAt EXCEPT ![p] = n]
    PROVE  /\ Rows' = Rows \union {p} /\ p \notin Rows
           /\ p \notin RowsOfYear(t)
           /\ \/ RowsOfYear(t)' = RowsOfYear(t)
              \/ /\ RowsOfYear(t)' = RowsOfYear(t) \union {p}
                 /\ RowsOfYear(t) \subseteq RowsSince(n - Year)
           /\ RowsSince(n - Year) \subseteq Payouts
<1> USE InsuranceAssumption
<1>1. Rows' = Rows \union {p} /\ p \notin Rows
  BY DEF FundTypeOK, Rows
<1>2. p \notin RowsOfYear(t) /\ RowsSince(n - Year) \subseteq Payouts
  BY <1>1 DEF RowsOfYear, RowsSince, Rows
<1>3. \A q \in Rows : q # p /\ payoutAt'[q] = payoutAt[q] /\ payoutAt[q] \in Nat
  BY <1>1 DEF FundTypeOK, Rows
<1>4. payoutAt'[p] = n
  BY DEF FundTypeOK
<1>5. CASE t <= n /\ n <= t + Year
  <2>1. RowsOfYear(t)' = RowsOfYear(t) \union {p}
    BY <1>1, <1>3, <1>4, <1>5 DEF RowsOfYear
  <2>2. RowsOfYear(t) \subseteq RowsSince(n - Year)
    BY <1>3, <1>5 DEF RowsOfYear, RowsSince
  <2>3. QED BY <1>1, <1>2, <2>1, <2>2
<1>6. CASE ~(t <= n /\ n <= t + Year)
  <2>1. RowsOfYear(t)' = RowsOfYear(t)
    BY <1>1, <1>3, <1>4, <1>6 DEF RowsOfYear
  <2>2. QED BY <1>1, <1>2, <2>1
<1>7. QED BY <1>5, <1>6

LEMMA ClaimCommits ==
    ASSUME FundIInv, NEW a \in Admins, NEW p \in Payouts, ClaimCommit(a, p)
    PROVE  FundIInv'
<1> USE InsuranceAssumption, TotalAssumption
<1> DEFINE d == adminDispute[a]
           n == adminNow[a]
           recent == RowsSince(n - Year)
<1>1. /\ d \in Disputes /\ n \in Nat /\ lock = a
      /\ adminBalance[a] = balance
      /\ Amount[d] \in Nat /\ Amount[d] <= balance
      /\ WithinBuyerYear(a, recent) /\ WithinSellerYear(a, recent)
  BY DEF FundIInv, FundTypeOK, ClaimMemory, ClaimHolds, ClaimCommit, WithinFund
<1>2. /\ payoutAt[p] = Never /\ DisputeOf[p] = d
      /\ payoutAt' = [payoutAt EXCEPT ![p] = n]
      /\ balance' = balance - Amount[d]
      /\ toppedUp' = toppedUp
      /\ lock' = Nobody
  BY <1>1 DEF ClaimCommit, AdminIdle, ghosts
<1>3. FundTypeOK'
  BY <1>1, <1>2 DEF FundIInv, FundTypeOK, ClaimCommit, AdminIdle, payVars, topVars,
     ghosts
<1>4. Total[Rows'] = Total[Rows] + Amount[d]
  <2>1. /\ Rows' = Rows \union {p} /\ p \notin Rows
        /\ Rows \in SUBSET Payouts
    BY <1>1, <1>2, NewRow DEF FundIInv, Rows
  <2>2. QED BY <2>1, <1>2
<1>5. /\ Rows \in SUBSET Payouts /\ Total[Rows] \in Nat /\ balance \in Nat
      /\ toppedUp \in Nat
  BY DEF FundIInv, FundTypeOK, Rows
<1>6. NeverOverdrawn' /\ LedgerReconciles'
  BY <1>1, <1>2, <1>4, <1>5 DEF FundIInv, NeverOverdrawn, LedgerReconciles
<1>7. ASSUME NEW e \in Disputes, NEW t \in 0..MaxNow
      PROVE  Total[OfBuyer(RowsOfYear(t)', BuyerOf[e])] <= MaxPerBuyerYear
  <2> DEFINE old == OfBuyer(RowsOfYear(t), BuyerOf[e])
  <2>1. old \in SUBSET Payouts /\ Total[old] \in Nat
        /\ Total[old] <= MaxPerBuyerYear
    BY DEF FundIInv, BuyerYearCap, OfBuyer, RowsOfYear, Rows
  <2>2. /\ p \notin RowsOfYear(t)
        /\ \/ RowsOfYear(t)' = RowsOfYear(t)
           \/ /\ RowsOfYear(t)' = RowsOfYear(t) \union {p}
              /\ RowsOfYear(t) \subseteq recent
        /\ recent \subseteq Payouts
    <3>1. t \in Nat /\ FundTypeOK
      BY DEF FundIInv
    <3>2. QED BY <1>1, <1>2, <3>1, NewRow
  <2>3. CASE OfBuyer(RowsOfYear(t)', BuyerOf[e]) = old
    BY <2>1, <2>3
  <2>4. CASE OfBuyer(RowsOfYear(t)', BuyerOf[e]) # old
    <3>1. /\ RowsOfYear(t)' = RowsOfYear(t) \union {p}
          /\ p \notin RowsOfYear(t)
          /\ RowsOfYear(t) \subseteq recent
          /\ recent \subseteq Payouts
      BY <2>2, <2>4
    <3>2. BuyerOf[e] = BuyerOf[d]
      BY <1>2, <2>4, <3>1 DEF OfBuyer
    <3>3. /\ OfBuyer(RowsOfYear(t)', BuyerOf[e]) = old \union {p}
          /\ p \notin old
          /\ old \subseteq OfBuyer(recent, BuyerOf[d])
          /\ OfBuyer(recent, BuyerOf[d]) \in SUBSET Payouts
      BY <1>2, <3>1, <3>2 DEF OfBuyer
    <3>4. Total[old \union {p}] = Total[old] + Amount[d]
      BY <1>2, <2>1, <3>3
    <3>5. /\ Total[old] <= Total[OfBuyer(recent, BuyerOf[d])]
          /\ Total[OfBuyer(recent, BuyerOf[d])] \in Nat
      BY <2>1, <3>3
    <3>6. Total[OfBuyer(recent, BuyerOf[d])] + Amount[d] <= MaxPerBuyerYear
      BY <1>1 DEF WithinBuyerYear
    <3>7. QED BY <1>1, <2>1, <3>3, <3>4, <3>5, <3>6
  <2>5. QED BY <2>3, <2>4
<1>8. ASSUME NEW e \in Disputes, NEW t \in 0..MaxNow, SellerOf[e] # Nobody
      PROVE  Cardinality(OfSeller(RowsOfYear(t)', SellerOf[e]))
                 <= MaxPerSellerYear
  <2> DEFINE old == OfSeller(RowsOfYear(t), SellerOf[e])
  <2>1. old \in SUBSET Payouts /\ Cardinality(old) <= MaxPerSellerYear
    BY <1>8 DEF FundIInv, SellerYearCap, OfSeller, RowsOfYear, Rows
  <2>2. /\ p \notin RowsOfYear(t)
        /\ \/ RowsOfYear(t)' = RowsOfYear(t)
           \/ /\ RowsOfYear(t)' = RowsOfYear(t) \union {p}
              /\ RowsOfYear(t) \subseteq recent
        /\ recent \subseteq Payouts
    <3>1. t \in Nat /\ FundTypeOK
      BY DEF FundIInv
    <3>2. QED BY <1>1, <1>2, <3>1, NewRow
  <2>3. CASE OfSeller(RowsOfYear(t)', SellerOf[e]) = old
    BY <2>1, <2>3
  <2>4. CASE OfSeller(RowsOfYear(t)', SellerOf[e]) # old
    <3>1. /\ RowsOfYear(t)' = RowsOfYear(t) \union {p}
          /\ p \notin RowsOfYear(t)
          /\ RowsOfYear(t) \subseteq recent
          /\ recent \subseteq Payouts
      BY <2>2, <2>4
    <3>2. SellerOf[e] = SellerOf[d]
      BY <1>2, <2>4, <3>1 DEF OfSeller
    <3> DEFINE summed == OfSeller(recent, SellerOf[d])
    <3>3. /\ OfSeller(RowsOfYear(t)', SellerOf[e]) = old \union {p}
          /\ p \notin old
          /\ old \in SUBSET summed
          /\ summed \in SUBSET Payouts
      BY <1>2, <3>1, <3>2 DEF OfSeller
    <3>4. /\ IsFiniteSet(summed) /\ IsFiniteSet(old)
          /\ Cardinality(old) <= Cardinality(summed)
      BY <3>3, FS_Subset
    <3>5. Cardinality(old \union {p}) = Cardinality(old) + 1
      BY <3>3, <3>4, FS_AddElement
    <3>6. Cardinality(summed) + 1 <= MaxPerSellerYear
      BY <1>1, <1>8, <3>2 DEF WithinSellerYear
    <3>7. Cardinality(old) \in Nat /\ Cardinality(summed) \in Nat
      BY <3>4, FS_CardinalityType
    <3>8. QED BY <3>3, <3>4, <3>5, <3>6, <3>7
  <2>5. QED BY <2>3, <2>4
<1>9. BuyerYearCap' /\ SellerYearCap'
  BY <1>7, <1>8 DEF BuyerYearCap, SellerYearCap, OfBuyer, OfSeller
<1>10. ClaimMemory'
  BY <1>1 DEF FundIInv, FundTypeOK, ClaimMemory, ClaimHolds, ClaimCommit, AdminIdle
<1>11. TopUpMemory'
  BY <1>1 DEF FundIInv, FundTypeOK, TopUpMemory, ClaimCommit, AdminIdle, topVars
<1>12. QED BY <1>3, <1>6, <1>9, <1>10, <1>11 DEF FundIInv

LEMMA TopUpStep ==
    ASSUME FundIInv, NEW t \in TopUps, TopUpNext(t) PROVE FundIInv'
<1> USE InsuranceAssumption, TotalAssumption
    DEF fund, payVars, adminVars, topVars, ghosts
<1>1. CASE TopUpStart(t)
  <2>1. FundTypeOK'
    BY <1>1 DEF FundIInv, FundTypeOK, TopUpStart
  <2>2. ClaimMemory'
    BY <1>1, ClaimRemembers DEF ClaimMemory, TopUpStart
  <2>3. TopUpMemory'
    BY <1>1 DEF FundIInv, FundTypeOK, TopUpMemory, TopUpStart
  <2>4. QED
    BY <1>1, <2>1, <2>2, <2>3, LedgerUntouched DEF FundIInv, TopUpStart
<1>2. CASE TopUpLock(t)
  <2>1. FundTypeOK'
    BY <1>2 DEF FundIInv, FundTypeOK, TopUpLock, TopUpChecked
  <2>2. \A a \in Admins : adminPc[a] # "checked"
    BY <1>2 DEF FundIInv, ClaimMemory, ClaimHolds, TopUpLock
  <2>3. ClaimMemory'
    BY <1>2, <2>2, ClaimRemembers DEF ClaimMemory, TopUpLock, TopUpChecked
  <2>4. TopUpMemory'
    BY <1>2 DEF FundIInv, FundTypeOK, TopUpMemory, TopUpLock, TopUpChecked
  <2>5. QED
    BY <1>2, <2>1, <2>3, <2>4, LedgerUntouched DEF FundIInv, TopUpLock,
       TopUpChecked
<1>3. CASE TopUpCommit(t)
  <2> DEFINE due == {o \in FundOrders : /\ payPc[o] = "paid"
                                        /\ topSince[t] < paidAt[o]
                                        /\ paidAt[o] <= topAt[t]}
  <2>1. /\ lock = t /\ topBalance[t] = balance
        /\ Contribution[due] \in Nat /\ lock' = Nobody
        /\ balance' = balance + Contribution[due]
        /\ toppedUp' = toppedUp + Contribution[due]
    BY <1>3 DEF FundIInv, TopUpMemory, TopUpCommit, TopUpIdle
  <2>2. FundTypeOK'
    <3>1. balance' \in Nat /\ toppedUp' \in Nat
      BY <2>1 DEF FundIInv, FundTypeOK
    <3>2. marker' \in Nat
      BY <1>3 DEF FundIInv, FundTypeOK, TopUpCommit
    <3>3. counted' \in [FundOrders -> Nat]
      BY <1>3 DEF FundIInv, FundTypeOK, TopUpCommit
    <3>4. QED
      BY <1>3, <2>1, <3>1, <3>2, <3>3 DEF FundIInv, FundTypeOK, TopUpCommit,
         TopUpIdle
  <2>3. \A a \in Admins : adminPc[a] # "checked"
    BY <2>1 DEF FundIInv, ClaimMemory, ClaimHolds
  <2>4. ClaimMemory'
    BY <1>3, <2>3 DEF FundIInv, ClaimMemory, ClaimHolds, TopUpCommit,
       TopUpIdle
  <2>5. TopUpMemory'
    BY <1>3, <2>1 DEF FundIInv, FundTypeOK, TopUpMemory, TopUpCommit, TopUpIdle
  <2>6. payoutAt' = payoutAt
    BY <1>3 DEF TopUpCommit, TopUpIdle
  <2>7. Rows' = Rows /\ Rows \in SUBSET Payouts
    BY <2>6 DEF Rows
  <2>8. NeverOverdrawn' /\ LedgerReconciles'
    BY <2>1, <2>7 DEF FundIInv, FundTypeOK, NeverOverdrawn, LedgerReconciles
  <2>9. BuyerYearCap' /\ SellerYearCap'
    <3>1. \A y : RowsOfYear(y)' = RowsOfYear(y)
      BY <2>6, <2>7 DEF RowsOfYear
    <3>2. QED
      BY <3>1 DEF FundIInv, BuyerYearCap, SellerYearCap, OfBuyer, OfSeller
  <2>10. QED BY <2>2, <2>4, <2>5, <2>8, <2>9 DEF FundIInv
<1>4. CASE TopUpDies(t)
  <2>1. FundTypeOK'
    BY <1>4 DEF FundIInv, FundTypeOK, TopUpDies, TopUpIdle
  <2>2. \A a \in Admins : adminPc[a] = "checked" => lock' = lock
    BY <1>4 DEF FundIInv, ClaimMemory, ClaimHolds, TopUpDies, TopUpIdle
  <2>3. ClaimMemory'
    BY <1>4, <2>2, ClaimRemembers DEF ClaimMemory, TopUpDies, TopUpIdle
  <2>4. TopUpMemory'
    BY <1>4 DEF FundIInv, FundTypeOK, TopUpMemory, TopUpDies, TopUpIdle
  <2>5. QED
    BY <1>4, <2>1, <2>3, <2>4, LedgerUntouched DEF FundIInv, TopUpDies, TopUpIdle
<1>5. QED BY <1>1, <1>2, <1>3, <1>4 DEF TopUpNext

\* FundIInv is inductive.
LEMMA FundInductive == FundSpec => []FundIInv
<1>1. FundIInv /\ [FundNext]_fundVars => FundIInv'
  <2> SUFFICES ASSUME FundIInv, [FundNext]_fundVars PROVE FundIInv'
    OBVIOUS
  <2>1. CASE Tick
    BY <2>1, TickStep
  <2>2. ASSUME NEW o \in FundOrders, PayNext(o) PROVE FundIInv'
    BY <2>2, PayStep
  <2>3. ASSUME NEW a \in Admins, ClaimNext(a) PROVE FundIInv'
    BY <2>3, ClaimWaits, ClaimCommits DEF ClaimNext
  <2>4. ASSUME NEW t \in TopUps, TopUpNext(t) PROVE FundIInv'
    BY <2>4, TopUpStep
  <2>5. CASE UNCHANGED fundVars
    <3>1. FundTypeOK' /\ TopUpMemory'
      BY <2>5 DEF fundVars, fund, payVars, adminVars, topVars, ghosts, FundIInv,
         FundTypeOK, TopUpMemory
    <3>2. ClaimMemory'
      BY <2>5, ClaimRemembers DEF fundVars, fund, adminVars, ClaimMemory
    <3>3. QED
      BY <2>5, <3>1, <3>2, LedgerUntouched DEF fundVars, fund, ghosts, FundIInv
  <2>6. QED BY <2>1, <2>2, <2>3, <2>4, <2>5 DEF FundNext
<1>2. QED BY FundInitInv, <1>1, PTL DEF FundSpec

\* Types; the balance is never negative.
THEOREM FundTyped == FundSpec => []FundTypeOK
<1>1. FundIInv => FundTypeOK
  BY DEF FundIInv
<1>2. QED BY FundInductive, <1>1, PTL

\* No claim or top-up is lost from the balance, and none is paid from money
\* that is not there.
THEOREM FundStaysSound == FundSpec => []FundSound
<1>1. FundIInv => FundSound
  BY DEF FundIInv, FundSound
<1>2. QED BY FundInductive, <1>1, PTL

\* The rolling-year caps of payInsuranceClaimTx hold in every year.
THEOREM YearCaps == FundSpec => []YearCapsHold
<1>1. FundIInv => YearCapsHold
  BY DEF FundIInv, YearCapsHold
<1>2. QED BY FundInductive, <1>1, PTL
=============================================================================
