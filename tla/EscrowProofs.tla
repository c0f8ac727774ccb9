---------------------------- MODULE EscrowProofs ----------------------------
(***************************************************************************)
(* Proofs about Escrow, for any number of orders, holds, disputes and      *)
(* processes.  IInv, defined in Escrow, is inductive: each lemma below     *)
(* shows that the steps of one kind of process preserve it.                *)
(***************************************************************************)
EXTENDS Escrow, TLAPS

LEMMA InitIInv == Init => IInv
<1> USE EscrowAssumption
<1> SUFFICES ASSUME Init PROVE IInv
  OBVIOUS
<1>1. TypeOK
  BY DEF Init, TypeOK, OrderRow, HoldRow, DisputeRow, Day
<1>2. Memory
  BY DEF Init, Memory, DoorMemory, DevMemory, Dates, RelMemory, TabMemory,
     AdminMemory, WatchMemory, DisputeHasOrder
<1>3. /\ NoFreeGuess /\ DeliveredIsScheduled /\ DisputeFreezes
      /\ FrozenHoldHasDispute /\ DisputedOrderHasDispute
  BY DEF Init, NoFreeGuess, DeliveredIsScheduled, DisputeFreezes,
     FrozenHoldHasDispute, DisputedOrderHasDispute, DisputesOf
<1>4. QED BY <1>1, <1>2, <1>3 DEF IInv

\* The clock.
LEMMA TickStep ==
    ASSUME IInv, Tick PROVE IInv'
<1> USE EscrowAssumption
    DEF rows, orderRows, holdRows, disputeRows, courierVars, devVars,
        relVars, tabVars, adminVars, watchVars, IInv, Memory
<1>1. CASE Tick
  <2>1. TypeOK'
    BY <1>1 DEF Tick, TypeOK, OrderRow, HoldRow, DisputeRow, Resolved, Day
  <2>2. DoorMemory'
    BY <1>1 DEF Tick, TypeOK, DoorMemory
  <2>3. Dates'
    BY <1>1 DEF Tick, TypeOK, Dates, Day
  <2>4. RelMemory'
    BY <1>1 DEF Tick, TypeOK, RelMemory, Dates, Day
  <2>5. /\ DevMemory' /\ TabMemory' /\ AdminMemory' /\ WatchMemory'
        /\ DisputeHasOrder'
    BY <1>1 DEF Tick, DevMemory, TabMemory, HeldOf, HoldsOf, AdminMemory,
       WatchMemory, DisputeHasOrder
  <2>6. /\ NoFreeGuess' /\ DeliveredIsScheduled' /\ DisputeFreezes'
        /\ FrozenHoldHasDispute' /\ DisputedOrderHasDispute'
    BY <1>1 DEF Tick, NoFreeGuess, DeliveredIsScheduled, HeldOf, HoldsOf,
       DisputeFreezes, DisputesOf, FrozenHoldHasDispute,
       DisputedOrderHasDispute
  <2>7. QED BY <2>1, <2>2, <2>3, <2>4, <2>5, <2>6
<1>2. QED BY <1>1

\* The development advance.
LEMMA DevStep ==
    ASSUME IInv, NEW v \in Devs, DevNext(v) PROVE IInv'
<1> USE EscrowAssumption
    DEF rows, orderRows, holdRows, disputeRows, courierVars, devVars,
        relVars, tabVars, adminVars, watchVars, IInv, Memory
<1>1. ASSUME NEW o \in Orders, DevRead(v, o) PROVE IInv'
  <2>1. TypeOK'
    BY <1>1 DEF DevRead, TypeOK, OrderRow, HoldRow, DisputeRow, Resolved, Day,
       NextHappy
  <2>2. DevMemory'
    BY <1>1 DEF DevRead, TypeOK, DevMemory, NextHappy
  <2>3. /\ DoorMemory' /\ Dates' /\ RelMemory' /\ TabMemory' /\ AdminMemory'
        /\ WatchMemory' /\ DisputeHasOrder'
    BY <1>1 DEF DevRead, DoorMemory, Dates, RelMemory, TabMemory, HeldOf,
       HoldsOf, AdminMemory, WatchMemory, DisputeHasOrder
  <2>4. /\ NoFreeGuess' /\ DeliveredIsScheduled' /\ DisputeFreezes'
        /\ FrozenHoldHasDispute' /\ DisputedOrderHasDispute'
    BY <1>1 DEF DevRead, NoFreeGuess, DeliveredIsScheduled, HeldOf, HoldsOf,
       DisputeFreezes, DisputesOf, FrozenHoldHasDispute,
       DisputedOrderHasDispute
  <2>5. QED BY <2>1, <2>2, <2>3, <2>4
<1>2. CASE DevWrite(v)
  <2>1. TypeOK'
    BY <1>2 DEF DevWrite, DevMemory, TypeOK, OrderRow, HoldRow, DisputeRow,
       Resolved, Day
  <2>2. DeliveredIsScheduled'
    BY <1>2 DEF DevWrite, TypeOK, DeliveredIsScheduled, DevMemory, HeldOf,
       HoldsOf
  <2>3. DisputedOrderHasDispute'
    BY <1>2 DEF DevWrite, TypeOK, DisputedOrderHasDispute, DevMemory,
       DisputesOf
  <2>4. DevMemory'
    BY <1>2 DEF DevWrite, TypeOK, DevMemory
  <2>5. /\ DoorMemory' /\ Dates' /\ RelMemory' /\ TabMemory' /\ AdminMemory'
        /\ WatchMemory' /\ DisputeHasOrder'
    BY <1>2 DEF DevWrite, DoorMemory, Dates, RelMemory, TabMemory, HeldOf,
       HoldsOf, AdminMemory, WatchMemory, DisputeHasOrder
  <2>6. NoFreeGuess' /\ DisputeFreezes' /\ FrozenHoldHasDispute'
    BY <1>2 DEF DevWrite, NoFreeGuess, DisputeFreezes, HeldOf, HoldsOf,
       DisputesOf, FrozenHoldHasDispute
  <2>7. QED BY <2>1, <2>2, <2>3, <2>4, <2>5, <2>6
<1>3. QED BY <1>1, <1>2 DEF DevNext

\* A code submission at the door.
LEMMA DoorStep ==
    ASSUME IInv, NEW c \in Couriers, DoorNext(c) PROVE IInv'
<1> USE EscrowAssumption
    DEF rows, orderRows, holdRows, disputeRows, courierVars, devVars,
        relVars, tabVars, adminVars, watchVars, IInv, Memory
<1>1. ASSUME NEW o \in Orders, CourierStart(c, o) PROVE IInv'
  <2>1. TypeOK'
    BY <1>1 DEF CourierStart, TypeOK, OrderRow, HoldRow, DisputeRow, Resolved,
       Day
  <2>2. DoorMemory'
    BY <1>1 DEF CourierStart, TypeOK, DoorMemory
  <2>3. /\ DevMemory' /\ Dates' /\ RelMemory' /\ TabMemory' /\ AdminMemory'
        /\ WatchMemory' /\ DisputeHasOrder'
    BY <1>1 DEF CourierStart, DevMemory, Dates, RelMemory, TabMemory, HeldOf,
       HoldsOf, AdminMemory, WatchMemory, DisputeHasOrder
  <2>4. /\ NoFreeGuess' /\ DeliveredIsScheduled' /\ DisputeFreezes'
        /\ FrozenHoldHasDispute' /\ DisputedOrderHasDispute'
    BY <1>1 DEF CourierStart, NoFreeGuess, DeliveredIsScheduled, HeldOf,
       HoldsOf, DisputeFreezes, DisputesOf, FrozenHoldHasDispute,
       DisputedOrderHasDispute
  <2>5. QED BY <2>1, <2>2, <2>3, <2>4
<1>2. CASE CourierLock(c)
  <2>1. TypeOK'
    BY <1>2 DEF CourierLock, CourierReads, DoorMemory, TypeOK, OrderRow,
       HoldRow, DisputeRow, Resolved, Day
  <2>2. DoorMemory'
    BY <1>2 DEF CourierLock, CourierReads, TypeOK, DoorMemory
  <2>3. /\ DevMemory' /\ Dates' /\ RelMemory' /\ TabMemory' /\ AdminMemory'
        /\ WatchMemory' /\ DisputeHasOrder'
    BY <1>2 DEF CourierLock, CourierReads, DevMemory, Dates, RelMemory,
       TabMemory, HeldOf, HoldsOf, AdminMemory, WatchMemory, DisputeHasOrder
  <2>4. /\ NoFreeGuess' /\ DeliveredIsScheduled' /\ DisputeFreezes'
        /\ FrozenHoldHasDispute' /\ DisputedOrderHasDispute'
    BY <1>2 DEF CourierLock, CourierReads, NoFreeGuess, DeliveredIsScheduled,
       HeldOf, HoldsOf, DisputeFreezes, DisputesOf, FrozenHoldHasDispute,
       DisputedOrderHasDispute
  <2>5. QED BY <2>1, <2>2, <2>3, <2>4
<1>3. CASE CourierGivesUp(c)
  <2>1. TypeOK'
    BY <1>3 DEF CourierGivesUp, TypeOK, OrderRow, HoldRow, DisputeRow,
       Resolved, Day
  <2>2. DoorMemory'
    BY <1>3 DEF CourierGivesUp, TypeOK, DoorMemory
  <2>3. /\ DevMemory' /\ Dates' /\ RelMemory' /\ TabMemory' /\ AdminMemory'
        /\ WatchMemory' /\ DisputeHasOrder'
    BY <1>3 DEF CourierGivesUp, DevMemory, Dates, RelMemory, TabMemory, HeldOf,
       HoldsOf, AdminMemory, WatchMemory, DisputeHasOrder
  <2>4. /\ NoFreeGuess' /\ DeliveredIsScheduled' /\ DisputeFreezes'
        /\ FrozenHoldHasDispute' /\ DisputedOrderHasDispute'
    BY <1>3 DEF CourierGivesUp, NoFreeGuess, DeliveredIsScheduled, HeldOf,
       HoldsOf, DisputeFreezes, DisputesOf, FrozenHoldHasDispute,
       DisputedOrderHasDispute
  <2>5. QED BY <2>1, <2>2, <2>3, <2>4
<1>4. CASE CourierReject(c)
  <2>1. TypeOK'
    BY <1>4 DEF CourierReject, CourierDone, DoorMemory, TypeOK, OrderRow,
       HoldRow, DisputeRow, Resolved, Day
  <2>2. NoFreeGuess'
    BY <1>4 DEF CourierReject, CourierDone, TypeOK, NoFreeGuess, DoorMemory
  <2>3. DoorMemory'
    BY <1>4 DEF CourierReject, CourierDone, TypeOK, DoorMemory
  <2>4. /\ DevMemory' /\ Dates' /\ RelMemory' /\ TabMemory' /\ AdminMemory'
        /\ WatchMemory' /\ DisputeHasOrder'
    BY <1>4 DEF CourierReject, CourierDone, DevMemory, Dates, RelMemory,
       TabMemory, HeldOf, HoldsOf, AdminMemory, WatchMemory, DisputeHasOrder
  <2>5. /\ DeliveredIsScheduled' /\ DisputeFreezes' /\ FrozenHoldHasDispute'
        /\ DisputedOrderHasDispute'
    BY <1>4 DEF CourierReject, CourierDone, DeliveredIsScheduled, HeldOf,
       HoldsOf, DisputeFreezes, DisputesOf, FrozenHoldHasDispute,
       DisputedOrderHasDispute
  <2>6. QED BY <2>1, <2>2, <2>3, <2>4, <2>5
<1>5. CASE CourierAccept(c)
  <2>1. TypeOK'
    BY <1>5 DEF CourierAccept, CourierDone, FirstDelivery, DoorMemory, TypeOK,
       OrderRow, HoldRow, DisputeRow, Resolved, Day, HeldOf, HoldsOf
  <2>2. DeliveredIsScheduled'
    BY <1>5 DEF CourierAccept, CourierDone, FirstDelivery, TypeOK,
       DeliveredIsScheduled, HeldOf, HoldsOf
  <2>3. DisputedOrderHasDispute'
    BY <1>5 DEF CourierAccept, CourierDone, FirstDelivery, TypeOK,
       DisputedOrderHasDispute, DisputesOf, HeldOf, HoldsOf
  <2>4. DoorMemory'
    BY <1>5 DEF CourierAccept, CourierDone, FirstDelivery, TypeOK, DoorMemory,
       HeldOf, HoldsOf
  <2>5. Dates'
    <3> DEFINE o == courierOrder[c]
    <3>1. /\ o \in Orders /\ InTime(c)
          /\ firstDelivered' = [firstDelivered EXCEPT ![o] =
                                   IF @ = Never THEN now ELSE @]
          /\ now' = now
      BY <1>5 DEF CourierAccept, CourierDone, FirstDelivery, DoorMemory
    <3>2. \A p \in Orders :
             /\ firstDelivered[p] # Never => firstDelivered'[p] = firstDelivered[p]
             /\ firstDelivered'[p] # Never =>
                   firstDelivered'[p] \in Nat /\ firstDelivered'[p] <= now
      BY <3>1 DEF TypeOK, Dates, Day
    <3>3. ASSUME NEW h \in Holds, scheduled'[h] # Never
          PROVE  /\ firstDelivered'[OrderOf[h]] # Never
                 /\ firstDelivered'[OrderOf[h]] + Window <= scheduled'[h] + TxTimeout
      <4>1. CASE h \in HeldOf(o)
        <5>1. OrderOf[h] = o /\ scheduled'[h] = courierNow[c] + Window
          BY <1>5, <4>1 DEF CourierAccept, HeldOf, HoldsOf
        <5>2. firstDelivered'[o] # Never
          BY <3>1 DEF TypeOK
        <5>3. QED BY <3>1, <3>2, <5>1, <5>2 DEF InTime, TypeOK
      <4>2. CASE h \notin HeldOf(o)
        <5>1. scheduled'[h] = scheduled[h]
          BY <1>5, <4>2 DEF CourierAccept
        <5>2. QED BY <3>2, <3>3, <5>1 DEF Dates
      <4>3. QED BY <4>1, <4>2
    <3>4. QED BY <3>1, <3>2, <3>3 DEF Dates
  <2>6. RelMemory'
    BY <1>5 DEF CourierAccept, CourierDone, FirstDelivery, TypeOK, RelMemory,
       Dates, Day, DoorMemory, HeldOf, HoldsOf
  <2>7. /\ DevMemory' /\ TabMemory' /\ AdminMemory' /\ WatchMemory'
        /\ DisputeHasOrder'
    BY <1>5 DEF CourierAccept, CourierDone, FirstDelivery, DevMemory,
       TabMemory, HeldOf, HoldsOf, AdminMemory, WatchMemory, DisputeHasOrder
  <2>8. NoFreeGuess' /\ DisputeFreezes' /\ FrozenHoldHasDispute'
    BY <1>5 DEF CourierAccept, CourierDone, FirstDelivery, NoFreeGuess,
       DisputeFreezes, HeldOf, HoldsOf, DisputesOf, FrozenHoldHasDispute
  <2>9. QED BY <2>1, <2>2, <2>3, <2>4, <2>5, <2>6, <2>7, <2>8
<1>6. CASE CourierDies(c)
  <2>1. TypeOK'
    BY <1>6 DEF CourierDies, CourierDone, TypeOK, OrderRow, HoldRow,
       DisputeRow, Resolved, Day
  <2>2. DoorMemory'
    BY <1>6 DEF CourierDies, CourierDone, TypeOK, DoorMemory
  <2>3. /\ DevMemory' /\ Dates' /\ RelMemory' /\ TabMemory' /\ AdminMemory'
        /\ WatchMemory' /\ DisputeHasOrder'
    BY <1>6 DEF CourierDies, CourierDone, DevMemory, Dates, RelMemory,
       TabMemory, HeldOf, HoldsOf, AdminMemory, WatchMemory, DisputeHasOrder
  <2>4. /\ NoFreeGuess' /\ DeliveredIsScheduled' /\ DisputeFreezes'
        /\ FrozenHoldHasDispute' /\ DisputedOrderHasDispute'
    BY <1>6 DEF CourierDies, CourierDone, NoFreeGuess, DeliveredIsScheduled,
       HeldOf, HoldsOf, DisputeFreezes, DisputesOf, FrozenHoldHasDispute,
       DisputedOrderHasDispute
  <2>5. QED BY <2>1, <2>2, <2>3, <2>4
<1>7. QED BY <1>1, <1>2, <1>3, <1>4, <1>5, <1>6 DEF DoorNext

\* A release sweep.
LEMMA ReleaseStep ==
    ASSUME IInv, NEW r \in Releasers, ReleaseNext(r) PROVE IInv'
<1> USE EscrowAssumption
    DEF rows, orderRows, holdRows, disputeRows, courierVars, devVars,
        relVars, tabVars, adminVars, watchVars, IInv, Memory
<1>1. CASE RelFind(r)
  <2>1. TypeOK'
    BY <1>1 DEF RelFind, TypeOK, OrderRow, HoldRow, DisputeRow, Resolved, Day
  <2>2. RelMemory'
    BY <1>1 DEF RelFind, TypeOK, RelMemory
  <2>3. /\ DoorMemory' /\ DevMemory' /\ Dates' /\ TabMemory' /\ AdminMemory'
        /\ WatchMemory' /\ DisputeHasOrder'
    BY <1>1 DEF RelFind, DoorMemory, DevMemory, Dates, TabMemory, HeldOf,
       HoldsOf, AdminMemory, WatchMemory, DisputeHasOrder
  <2>4. /\ NoFreeGuess' /\ DeliveredIsScheduled' /\ DisputeFreezes'
        /\ FrozenHoldHasDispute' /\ DisputedOrderHasDispute'
    BY <1>1 DEF RelFind, NoFreeGuess, DeliveredIsScheduled, HeldOf, HoldsOf,
       DisputeFreezes, DisputesOf, FrozenHoldHasDispute,
       DisputedOrderHasDispute
  <2>5. QED BY <2>1, <2>2, <2>3, <2>4
<1>2. ASSUME NEW o \in Orders, RelReadOrder(r, o) PROVE IInv'
  <2>1. TypeOK'
    <3>1. relDue' \in [Releasers -> SUBSET Orders]
      BY <1>2 DEF RelReadOrder, TypeOK
    <3>2. relPc' \in [Releasers -> {"idle", "loop", "order", "holds"}]
      <4>1. \/ relPc' = [relPc EXCEPT ![r] = "order"]
            \/ relPc' = relPc
        BY <1>2 DEF RelReadOrder
      <4>2. QED BY <4>1 DEF TypeOK
    <3>3. relOrder' \in [Releasers -> Orders \union {Nobody}]
      <4>1. \/ relOrder' = [relOrder EXCEPT ![r] = o]
            \/ relOrder' = relOrder
        BY <1>2 DEF RelReadOrder
      <4>2. QED BY <4>1 DEF TypeOK
    <3>4. UNCHANGED <<now, rows, relNow, relHolds, courierVars, devVars,
                      tabVars, adminVars, watchVars>>
      BY <1>2 DEF RelReadOrder
    <3>5. QED BY <3>1, <3>2, <3>3, <3>4 DEF TypeOK
  <2>2. RelMemory'
    BY <1>2 DEF RelReadOrder, TypeOK, RelMemory
  <2>3. /\ DoorMemory' /\ DevMemory' /\ Dates' /\ TabMemory' /\ AdminMemory'
        /\ WatchMemory' /\ DisputeHasOrder'
    BY <1>2 DEF RelReadOrder, DoorMemory, DevMemory, Dates, TabMemory, HeldOf,
       HoldsOf, AdminMemory, WatchMemory, DisputeHasOrder
  <2>4. /\ NoFreeGuess' /\ DeliveredIsScheduled' /\ DisputeFreezes'
        /\ FrozenHoldHasDispute' /\ DisputedOrderHasDispute'
    BY <1>2 DEF RelReadOrder, NoFreeGuess, DeliveredIsScheduled, HeldOf,
       HoldsOf, DisputeFreezes, DisputesOf, FrozenHoldHasDispute,
       DisputedOrderHasDispute
  <2>5. QED BY <2>1, <2>2, <2>3, <2>4
<1>3. CASE RelReadHolds(r)
  <2>1. TypeOK'
    BY <1>3 DEF RelReadHolds, TypeOK, OrderRow, HoldRow, DisputeRow, Resolved,
       Day, HoldsOf, Releasable
  <2>2. RelMemory'
    BY <1>3 DEF RelReadHolds, TypeOK, RelMemory, Dates, Day, HoldsOf,
       Releasable
  <2>3. /\ DoorMemory' /\ DevMemory' /\ Dates' /\ TabMemory' /\ AdminMemory'
        /\ WatchMemory' /\ DisputeHasOrder'
    BY <1>3 DEF RelReadHolds, DoorMemory, DevMemory, Dates, TabMemory, HeldOf,
       HoldsOf, AdminMemory, WatchMemory, DisputeHasOrder
  <2>4. /\ NoFreeGuess' /\ DeliveredIsScheduled' /\ DisputeFreezes'
        /\ FrozenHoldHasDispute' /\ DisputedOrderHasDispute'
    BY <1>3 DEF RelReadHolds, NoFreeGuess, DeliveredIsScheduled, HeldOf,
       HoldsOf, DisputeFreezes, DisputesOf, FrozenHoldHasDispute,
       DisputedOrderHasDispute
  <2>5. QED BY <2>1, <2>2, <2>3, <2>4
<1>4. CASE RelCommit(r)
  <2>1. TypeOK'
    BY <1>4 DEF RelCommit, RelRelease, TypeOK, OrderRow, HoldRow, DisputeRow,
       Resolved, Day
  <2>2. DeliveredIsScheduled'
    BY <1>4 DEF RelCommit, RelRelease, TypeOK, DeliveredIsScheduled, HeldOf,
       HoldsOf
  <2>3. DisputeFreezes'
    <3>1. \A h \in Holds : hold'[h] = "HELD" => hold[h] = "HELD"
      BY <1>4 DEF RelCommit, RelRelease, TypeOK
    <3>2. QED
      BY <1>4, <3>1 DEF RelCommit, RelRelease, DisputeFreezes, HeldOf, HoldsOf,
         DisputesOf
  <2>4. FrozenHoldHasDispute'
    BY <1>4 DEF RelCommit, RelRelease, TypeOK, FrozenHoldHasDispute, DisputesOf
  <2>5. RelMemory'
    BY <1>4 DEF RelCommit, RelRelease, TypeOK, RelMemory
  <2>6. TabMemory'
    BY <1>4 DEF RelCommit, RelRelease, TypeOK, TabMemory, HeldOf, HoldsOf
  <2>7. AdminMemory'
    BY <1>4 DEF RelCommit, RelRelease, TypeOK, AdminMemory
  <2>8. DoorMemory' /\ DevMemory' /\ Dates' /\ WatchMemory' /\ DisputeHasOrder'
    BY <1>4 DEF RelCommit, RelRelease, DoorMemory, DevMemory, Dates,
       WatchMemory, DisputeHasOrder
  <2>9. NoFreeGuess' /\ DisputedOrderHasDispute'
    BY <1>4 DEF RelCommit, RelRelease, NoFreeGuess, DisputedOrderHasDispute,
       DisputesOf
  <2>10. QED BY <2>1, <2>2, <2>3, <2>4, <2>5, <2>6, <2>7, <2>8, <2>9
<1>5. CASE RelEnd(r)
  <2>1. TypeOK'
    BY <1>5 DEF RelEnd, TypeOK, OrderRow, HoldRow, DisputeRow, Resolved, Day
  <2>2. RelMemory'
    BY <1>5 DEF RelEnd, TypeOK, RelMemory
  <2>3. /\ DoorMemory' /\ DevMemory' /\ Dates' /\ TabMemory' /\ AdminMemory'
        /\ WatchMemory' /\ DisputeHasOrder'
    BY <1>5 DEF RelEnd, DoorMemory, DevMemory, Dates, TabMemory, HeldOf,
       HoldsOf, AdminMemory, WatchMemory, DisputeHasOrder
  <2>4. /\ NoFreeGuess' /\ DeliveredIsScheduled' /\ DisputeFreezes'
        /\ FrozenHoldHasDispute' /\ DisputedOrderHasDispute'
    BY <1>5 DEF RelEnd, NoFreeGuess, DeliveredIsScheduled, HeldOf, HoldsOf,
       DisputeFreezes, DisputesOf, FrozenHoldHasDispute,
       DisputedOrderHasDispute
  <2>5. QED BY <2>1, <2>2, <2>3, <2>4
<1>6. QED BY <1>1, <1>2, <1>3, <1>4, <1>5 DEF ReleaseNext

\* A tab submitting the dispute form.
LEMMA TabStep ==
    ASSUME IInv, NEW t \in Tabs, TabNext(t) PROVE IInv'
<1> USE EscrowAssumption
    DEF rows, orderRows, holdRows, disputeRows, courierVars, devVars,
        relVars, tabVars, adminVars, watchVars, IInv, Memory
<1>1. ASSUME NEW o \in Orders, TabReadOrder(t, o) PROVE IInv'
  <2>1. TypeOK'
    BY <1>1 DEF TabReadOrder, TypeOK, OrderRow, HoldRow, DisputeRow, Resolved,
       Day
  <2>2. TabMemory'
    BY <1>1 DEF TabReadOrder, TypeOK, TabMemory, HeldOf, HoldsOf
  <2>3. /\ DoorMemory' /\ DevMemory' /\ Dates' /\ RelMemory' /\ AdminMemory'
        /\ WatchMemory' /\ DisputeHasOrder'
    BY <1>1 DEF TabReadOrder, DoorMemory, DevMemory, Dates, RelMemory,
       AdminMemory, WatchMemory, DisputeHasOrder
  <2>4. /\ NoFreeGuess' /\ DeliveredIsScheduled' /\ DisputeFreezes'
        /\ FrozenHoldHasDispute' /\ DisputedOrderHasDispute'
    BY <1>1 DEF TabReadOrder, NoFreeGuess, DeliveredIsScheduled, HeldOf,
       HoldsOf, DisputeFreezes, DisputesOf, FrozenHoldHasDispute,
       DisputedOrderHasDispute
  <2>5. QED BY <2>1, <2>2, <2>3, <2>4
<1>2. CASE TabReadHolds(t)
  <2>1. TypeOK'
    BY <1>2 DEF TabReadHolds, TypeOK, OrderRow, HoldRow, DisputeRow, Resolved,
       Day, HeldOf, HoldsOf
  <2>2. TabMemory'
    BY <1>2 DEF TabReadHolds, TypeOK, TabMemory, HeldOf, HoldsOf
  <2>3. /\ DoorMemory' /\ DevMemory' /\ Dates' /\ RelMemory' /\ AdminMemory'
        /\ WatchMemory' /\ DisputeHasOrder'
    BY <1>2 DEF TabReadHolds, DoorMemory, DevMemory, Dates, RelMemory,
       AdminMemory, WatchMemory, DisputeHasOrder
  <2>4. /\ NoFreeGuess' /\ DeliveredIsScheduled' /\ DisputeFreezes'
        /\ FrozenHoldHasDispute' /\ DisputedOrderHasDispute'
    BY <1>2 DEF TabReadHolds, NoFreeGuess, DeliveredIsScheduled, HeldOf,
       HoldsOf, DisputeFreezes, DisputesOf, FrozenHoldHasDispute,
       DisputedOrderHasDispute
  <2>5. QED BY <2>1, <2>2, <2>3, <2>4
<1>3. ASSUME NEW d \in Disputes, TabCommit(t, d) PROVE IInv'
  <2>1. TypeOK'
    BY <1>3 DEF TabCommit, TabDone, TabMemory, TypeOK, OrderRow, HoldRow,
       DisputeRow, Resolved, Day, Unresolved
  <2>2. DeliveredIsScheduled'
    BY <1>3 DEF TabCommit, TabDone, TypeOK, DeliveredIsScheduled, TabMemory,
       HeldOf, HoldsOf, Unresolved
  <2>3. DisputeFreezes'
    <3> SUFFICES ASSUME NEW e \in Disputes, NEW h \in Holds,
                        disputeOrder'[e] = OrderOf[h], hold'[h] = "HELD"
                 PROVE  FALSE
      BY DEF DisputeFreezes, HeldOf, HoldsOf, DisputesOf
    <3>1. hold[h] = "HELD" /\ h \notin tabHolds[t]
      BY <1>3 DEF TabCommit
    <3>2. OrderOf[h] # tabOrder[t]
      BY <1>3, <3>1 DEF TabCommit, TabMemory, HeldOf, HoldsOf
    <3>3. disputeOrder[e] = OrderOf[h]
      BY <1>3, <3>2 DEF TabCommit, TypeOK
    <3>4. QED BY <3>1, <3>3 DEF DisputeFreezes, HeldOf, HoldsOf, DisputesOf
  <2>4. FrozenHoldHasDispute'
    <3> SUFFICES ASSUME NEW h \in Holds, hold'[h] = "HELD_DISPUTED"
                 PROVE  \E e \in Disputes : /\ disputeOrder'[e] = OrderOf[h]
                                            /\ holdDispute'[h] = e
                                            /\ dispute'[e] \in Unresolved
      BY DEF FrozenHoldHasDispute, DisputesOf
    <3>1. CASE h \in tabHolds[t]
      BY <1>3, <3>1 DEF TabCommit, TabMemory, HoldsOf, TypeOK, Unresolved
    <3>2. CASE h \notin tabHolds[t]
      <4>1. PICK e \in Disputes : /\ disputeOrder[e] = OrderOf[h]
                                  /\ holdDispute[h] = e
                                  /\ dispute[e] \in Unresolved
        BY <1>3, <3>2 DEF TabCommit, FrozenHoldHasDispute, DisputesOf
      <4>2. e # d
        BY <1>3, <4>1 DEF TabCommit, Unresolved
      <4>3. QED BY <1>3, <3>2, <4>1, <4>2 DEF TabCommit, TypeOK
    <3>3. QED BY <3>1, <3>2
  <2>5. DisputedOrderHasDispute'
    BY <1>3 DEF TabCommit, TabDone, TypeOK, DisputedOrderHasDispute, TabMemory,
       DisputesOf, Unresolved
  <2>6. TabMemory'
    BY <1>3 DEF TabCommit, TabDone, TypeOK, TabMemory, HeldOf, HoldsOf,
       Unresolved
  <2>7. AdminMemory'
    BY <1>3 DEF TabCommit, TabDone, TypeOK, AdminMemory, TabMemory, Unresolved
  <2>8. WatchMemory'
    BY <1>3 DEF TabCommit, TabDone, TypeOK, WatchMemory, TabMemory, Unresolved
  <2>9. DisputeHasOrder'
    BY <1>3 DEF TabCommit, TabDone, TypeOK, DisputeHasOrder, TabMemory,
       Unresolved
  <2>10. DoorMemory' /\ DevMemory' /\ Dates' /\ RelMemory'
    BY <1>3 DEF TabCommit, TabDone, DoorMemory, DevMemory, Dates, RelMemory
  <2>11. NoFreeGuess'
    BY <1>3 DEF TabCommit, TabDone, NoFreeGuess
  <2>12. QED
    BY <2>1, <2>2, <2>3, <2>4, <2>5, <2>6, <2>7, <2>8, <2>9, <2>10, <2>11
<1>4. CASE TabDies(t)
  <2>1. TypeOK'
    BY <1>4 DEF TabDies, TabDone, TypeOK, OrderRow, HoldRow, DisputeRow,
       Resolved, Day
  <2>2. TabMemory'
    BY <1>4 DEF TabDies, TabDone, TypeOK, TabMemory, HeldOf, HoldsOf
  <2>3. /\ DoorMemory' /\ DevMemory' /\ Dates' /\ RelMemory' /\ AdminMemory'
        /\ WatchMemory' /\ DisputeHasOrder'
    BY <1>4 DEF TabDies, TabDone, DoorMemory, DevMemory, Dates, RelMemory,
       AdminMemory, WatchMemory, DisputeHasOrder
  <2>4. /\ NoFreeGuess' /\ DeliveredIsScheduled' /\ DisputeFreezes'
        /\ FrozenHoldHasDispute' /\ DisputedOrderHasDispute'
    BY <1>4 DEF TabDies, TabDone, NoFreeGuess, DeliveredIsScheduled, HeldOf,
       HoldsOf, DisputeFreezes, DisputesOf, FrozenHoldHasDispute,
       DisputedOrderHasDispute
  <2>5. QED BY <2>1, <2>2, <2>3, <2>4
<1>5. QED BY <1>1, <1>2, <1>3, <1>4 DEF TabNext

\* An admin submitting the resolution form.
LEMMA AdminStep ==
    ASSUME IInv, NEW a \in Admins, AdminNext(a) PROVE IInv'
<1> USE EscrowAssumption
    DEF rows, orderRows, holdRows, disputeRows, courierVars, devVars,
        relVars, tabVars, adminVars, watchVars, IInv, Memory
<1>1. ASSUME NEW d \in Disputes, AdminReadDispute(a, d) PROVE IInv'
  <2>1. TypeOK'
    BY <1>1 DEF AdminReadDispute, TypeOK, OrderRow, HoldRow, DisputeRow,
       Resolved, Day, Unresolved
  <2>2. AdminMemory'
    BY <1>1 DEF AdminReadDispute, TypeOK, AdminMemory, Unresolved
  <2>3. /\ DoorMemory' /\ DevMemory' /\ Dates' /\ RelMemory' /\ TabMemory'
        /\ WatchMemory' /\ DisputeHasOrder'
    BY <1>1 DEF AdminReadDispute, DoorMemory, DevMemory, Dates, RelMemory,
       TabMemory, HeldOf, HoldsOf, WatchMemory, DisputeHasOrder
  <2>4. /\ NoFreeGuess' /\ DeliveredIsScheduled' /\ DisputeFreezes'
        /\ FrozenHoldHasDispute' /\ DisputedOrderHasDispute'
    BY <1>1 DEF AdminReadDispute, NoFreeGuess, DeliveredIsScheduled, HeldOf,
       HoldsOf, DisputeFreezes, DisputesOf, FrozenHoldHasDispute,
       DisputedOrderHasDispute
  <2>5. QED BY <2>1, <2>2, <2>3, <2>4
<1>2. CASE AdminReadHolds(a)
  <2>1. TypeOK'
    BY <1>2 DEF AdminReadHolds, TypeOK, OrderRow, HoldRow, DisputeRow,
       Resolved, Day, HoldsOf
  <2>2. AdminMemory'
    BY <1>2 DEF AdminReadHolds, TypeOK, AdminMemory, FrozenHoldHasDispute,
       DisputesOf, HoldsOf
  <2>3. /\ DoorMemory' /\ DevMemory' /\ Dates' /\ RelMemory' /\ TabMemory'
        /\ WatchMemory' /\ DisputeHasOrder'
    BY <1>2 DEF AdminReadHolds, DoorMemory, DevMemory, Dates, RelMemory,
       TabMemory, HeldOf, HoldsOf, WatchMemory, DisputeHasOrder
  <2>4. /\ NoFreeGuess' /\ DeliveredIsScheduled' /\ DisputeFreezes'
        /\ FrozenHoldHasDispute' /\ DisputedOrderHasDispute'
    BY <1>2 DEF AdminReadHolds, NoFreeGuess, DeliveredIsScheduled, HeldOf,
       HoldsOf, DisputeFreezes, DisputesOf, FrozenHoldHasDispute,
       DisputedOrderHasDispute
  <2>5. QED BY <2>1, <2>2, <2>3, <2>4
<1>3. ASSUME NEW resolution \in Resolutions, AdminCommit(a, resolution) PROVE IInv'
  <2>1. TypeOK'
    BY <1>3 DEF AdminCommit, Settle, AdminDone, AdminMemory, DisputeHasOrder,
       TypeOK, OrderRow, HoldRow, DisputeRow, Resolved, Day, Resolutions,
       escrowTarget, disputeStatusTarget, orderStatusTarget, Unresolved
  <2>2. DeliveredIsScheduled'
    BY <1>3 DEF AdminCommit, Settle, AdminDone, TypeOK, DeliveredIsScheduled,
       AdminMemory, DisputeHasOrder, HeldOf, HoldsOf, Resolutions,
       escrowTarget, disputeStatusTarget, orderStatusTarget, Unresolved
  <2>3. DisputeFreezes'
    <3>1. \A h \in Holds : hold'[h] = "HELD" => hold[h] = "HELD"
      BY <1>3 DEF AdminCommit, Settle, TypeOK, Resolutions, escrowTarget
    <3>2. QED
      BY <1>3, <3>1 DEF AdminCommit, Settle, AdminDone, DisputeFreezes, HeldOf,
         HoldsOf, DisputesOf
  <2>4. FrozenHoldHasDispute'
    BY <1>3 DEF AdminCommit, Settle, AdminDone, TypeOK, FrozenHoldHasDispute,
       AdminMemory, DisputeHasOrder, DisputesOf, Resolutions, escrowTarget,
       disputeStatusTarget, orderStatusTarget, Unresolved
  <2>5. DisputedOrderHasDispute'
    BY <1>3 DEF AdminCommit, Settle, AdminDone, TypeOK,
       DisputedOrderHasDispute, AdminMemory, DisputeHasOrder, DisputesOf,
       Resolutions, escrowTarget, disputeStatusTarget, orderStatusTarget,
       Unresolved
  <2>6. TabMemory'
    BY <1>3 DEF AdminCommit, Settle, AdminDone, TypeOK, TabMemory, AdminMemory,
       DisputeHasOrder, HeldOf, HoldsOf, Resolutions, escrowTarget,
       disputeStatusTarget, orderStatusTarget, Unresolved
  <2>7. AdminMemory'
    BY <1>3 DEF AdminCommit, Settle, AdminDone, TypeOK, AdminMemory,
       DisputeHasOrder, Resolutions, escrowTarget, disputeStatusTarget,
       orderStatusTarget, Unresolved
  <2>8. WatchMemory'
    BY <1>3 DEF AdminCommit, Settle, AdminDone, TypeOK, WatchMemory,
       AdminMemory, DisputeHasOrder, Resolutions, escrowTarget,
       disputeStatusTarget, orderStatusTarget, Unresolved
  <2>9. DisputeHasOrder'
    BY <1>3 DEF AdminCommit, Settle, AdminDone, TypeOK, DisputeHasOrder,
       AdminMemory, Resolutions, escrowTarget, disputeStatusTarget,
       orderStatusTarget, Unresolved
  <2>10. DoorMemory' /\ DevMemory' /\ Dates' /\ RelMemory'
    BY <1>3 DEF AdminCommit, Settle, AdminDone, DoorMemory, DevMemory, Dates,
       RelMemory
  <2>11. NoFreeGuess'
    BY <1>3 DEF AdminCommit, Settle, AdminDone, NoFreeGuess
  <2>12. QED
    BY <2>1, <2>2, <2>3, <2>4, <2>5, <2>6, <2>7, <2>8, <2>9, <2>10, <2>11
<1>4. CASE AdminFails(a)
  <2>1. TypeOK'
    BY <1>4 DEF AdminFails, AdminDone, TypeOK, OrderRow, HoldRow, DisputeRow,
       Resolved, Day
  <2>2. AdminMemory'
    BY <1>4 DEF AdminFails, AdminDone, TypeOK, AdminMemory
  <2>3. /\ DoorMemory' /\ DevMemory' /\ Dates' /\ RelMemory' /\ TabMemory'
        /\ WatchMemory' /\ DisputeHasOrder'
    BY <1>4 DEF AdminFails, AdminDone, DoorMemory, DevMemory, Dates, RelMemory,
       TabMemory, HeldOf, HoldsOf, WatchMemory, DisputeHasOrder
  <2>4. /\ NoFreeGuess' /\ DeliveredIsScheduled' /\ DisputeFreezes'
        /\ FrozenHoldHasDispute' /\ DisputedOrderHasDispute'
    BY <1>4 DEF AdminFails, AdminDone, NoFreeGuess, DeliveredIsScheduled,
       HeldOf, HoldsOf, DisputeFreezes, DisputesOf, FrozenHoldHasDispute,
       DisputedOrderHasDispute
  <2>5. QED BY <2>1, <2>2, <2>3, <2>4
<1>5. QED BY <1>1, <1>2, <1>3, <1>4 DEF AdminNext

\* An SLA sweep.
LEMMA WatchStep ==
    ASSUME IInv, NEW w \in Watchers, WatchNext(w) PROVE IInv'
<1> USE EscrowAssumption
    DEF rows, orderRows, holdRows, disputeRows, courierVars, devVars,
        relVars, tabVars, adminVars, watchVars, IInv, Memory
<1>1. CASE WatchFind(w)
  <2>1. TypeOK'
    BY <1>1 DEF WatchFind, TypeOK, OrderRow, HoldRow, DisputeRow, Resolved, Day
  <2>2. WatchMemory'
    BY <1>1 DEF WatchFind, TypeOK, WatchMemory
  <2>3. /\ DoorMemory' /\ DevMemory' /\ Dates' /\ RelMemory' /\ TabMemory'
        /\ AdminMemory' /\ DisputeHasOrder'
    BY <1>1 DEF WatchFind, DoorMemory, DevMemory, Dates, RelMemory, TabMemory,
       HeldOf, HoldsOf, AdminMemory, DisputeHasOrder
  <2>4. /\ NoFreeGuess' /\ DeliveredIsScheduled' /\ DisputeFreezes'
        /\ FrozenHoldHasDispute' /\ DisputedOrderHasDispute'
    BY <1>1 DEF WatchFind, NoFreeGuess, DeliveredIsScheduled, HeldOf, HoldsOf,
       DisputeFreezes, DisputesOf, FrozenHoldHasDispute,
       DisputedOrderHasDispute
  <2>5. QED BY <2>1, <2>2, <2>3, <2>4
<1>2. ASSUME NEW d \in Disputes, WatchCommit(w, d) PROVE IInv'
  <2>1. TypeOK'
    <3>1. /\ dispute' \in [Disputes -> DisputeRow]
          /\ breached' \subseteq Disputes
          /\ watchDue' \in [Watchers -> SUBSET Disputes]
      <4>1. dispute \in [Disputes -> DisputeRow] /\ breached \subseteq Disputes
        BY DEF TypeOK
      <4>2. watchDue' \in [Watchers -> SUBSET Disputes]
        BY <1>2 DEF WatchCommit, TypeOK
      <4>3. \/ /\ dispute' = [dispute EXCEPT ![d] = "ESCALATED"]
               /\ breached' = breached \union {d}
            \/ UNCHANGED <<dispute, breached>>
        BY <1>2 DEF WatchCommit
      <4>4. "ESCALATED" \in DisputeRow
        BY DEF DisputeRow, Unresolved
      <4>5. QED BY <4>1, <4>2, <4>3, <4>4
    <3>2. UNCHANGED <<now, orderRows, holdRows, disputeOrder, slaDue, watchPc,
                      courierVars, devVars, relVars, tabVars, adminVars>>
      BY <1>2 DEF WatchCommit
    <3>3. QED BY <3>1, <3>2 DEF TypeOK
  <2>2. FrozenHoldHasDispute'
    BY <1>2 DEF WatchCommit, TypeOK, FrozenHoldHasDispute, DisputesOf,
       Unresolved
  <2>3. DisputedOrderHasDispute'
    BY <1>2 DEF WatchCommit, TypeOK, DisputedOrderHasDispute, DisputesOf,
       Unresolved
  <2>4. AdminMemory'
    BY <1>2 DEF WatchCommit, TypeOK, AdminMemory, Unresolved
  <2>5. WatchMemory'
    BY <1>2 DEF WatchCommit, TypeOK, WatchMemory, Unresolved
  <2>6. DisputeHasOrder'
    BY <1>2 DEF WatchCommit, TypeOK, DisputeHasOrder, WatchMemory, Unresolved
  <2>7. DoorMemory' /\ DevMemory' /\ Dates' /\ RelMemory' /\ TabMemory'
    BY <1>2 DEF WatchCommit, DoorMemory, DevMemory, Dates, RelMemory,
       TabMemory, HeldOf, HoldsOf
  <2>8. NoFreeGuess' /\ DeliveredIsScheduled' /\ DisputeFreezes'
    BY <1>2 DEF WatchCommit, NoFreeGuess, DeliveredIsScheduled, HeldOf,
       HoldsOf, DisputeFreezes, DisputesOf
  <2>9. QED BY <2>1, <2>2, <2>3, <2>4, <2>5, <2>6, <2>7, <2>8
<1>3. CASE WatchEnd(w)
  <2>1. TypeOK'
    BY <1>3 DEF WatchEnd, TypeOK, OrderRow, HoldRow, DisputeRow, Resolved, Day
  <2>2. WatchMemory'
    BY <1>3 DEF WatchEnd, TypeOK, WatchMemory
  <2>3. /\ DoorMemory' /\ DevMemory' /\ Dates' /\ RelMemory' /\ TabMemory'
        /\ AdminMemory' /\ DisputeHasOrder'
    BY <1>3 DEF WatchEnd, DoorMemory, DevMemory, Dates, RelMemory, TabMemory,
       HeldOf, HoldsOf, AdminMemory, DisputeHasOrder
  <2>4. /\ NoFreeGuess' /\ DeliveredIsScheduled' /\ DisputeFreezes'
        /\ FrozenHoldHasDispute' /\ DisputedOrderHasDispute'
    BY <1>3 DEF WatchEnd, NoFreeGuess, DeliveredIsScheduled, HeldOf, HoldsOf,
       DisputeFreezes, DisputesOf, FrozenHoldHasDispute,
       DisputedOrderHasDispute
  <2>5. QED BY <2>1, <2>2, <2>3, <2>4
<1>4. QED BY <1>1, <1>2, <1>3 DEF WatchNext

\* IInv is inductive.
LEMMA Inductive == Spec => []IInv
<1>1. IInv /\ [Next]_vars => IInv'
  <2> SUFFICES ASSUME IInv, [Next]_vars PROVE IInv'
    OBVIOUS
  <2>1. CASE UNCHANGED vars
    <3> USE <2>1 DEF vars, rows, orderRows, holdRows, disputeRows,
          courierVars, devVars, relVars, tabVars, adminVars, watchVars
    <3>1. TypeOK'
      BY DEF IInv, TypeOK
    <3>2. Memory'
      BY DEF IInv, Memory, DoorMemory, DevMemory, Dates, RelMemory, TabMemory,
         AdminMemory, WatchMemory, DisputeHasOrder, HeldOf, HoldsOf
    <3>3. NoFreeGuess' /\ DeliveredIsScheduled' /\ DisputeFreezes'
      BY DEF IInv, NoFreeGuess, DeliveredIsScheduled, DisputeFreezes, HeldOf,
         HoldsOf, DisputesOf
    <3>4. FrozenHoldHasDispute' /\ DisputedOrderHasDispute'
      BY DEF IInv, FrozenHoldHasDispute, DisputedOrderHasDispute, DisputesOf
    <3>5. QED BY <3>1, <3>2, <3>3, <3>4 DEF IInv
  <2>2. CASE Next
    BY <2>2, TickStep, DevStep, DoorStep, ReleaseStep, TabStep, AdminStep,
       WatchStep DEF Next
  <2>3. QED BY <2>1, <2>2
<1>2. QED BY InitIInv, <1>1, PTL DEF Spec

\* Undisputed is kept by a step that touches none of the rows it is about,
\* first of all by the clock.
LEMMA UndisputedKept ==
    ASSUME IInv, Undisputed, now' = now \/ Tick,
           UNCHANGED <<firstDelivered, hold, disputeOrder, adminHolds>>
    PROVE  Undisputed'
<1> USE EscrowAssumption
<1>1. now \in Nat /\ now' \in Nat /\ now <= now'
  BY DEF IInv, TypeOK, Tick
<1>2. \A o \in Orders : firstDelivered[o] \in Nat \union {Never}
  BY DEF IInv, TypeOK, Day
<1>3. \A o : DisputesOf(o)' = DisputesOf(o)
  BY DEF DisputesOf
<1>4. ASSUME NEW h \in Holds, hold[h] = "RELEASING"
      PROVE  /\ firstDelivered[OrderOf[h]] # Never
             /\ firstDelivered[OrderOf[h]] + Window <= now' + TxTimeout
  BY <1>1, <1>2, <1>4 DEF Undisputed
<1>5. QED BY <1>3, <1>4 DEF Undisputed

\* A confirmed delivery leaves the day of the first one.
LEMMA UndisputedAccept ==
    ASSUME IInv, Undisputed, NEW c \in Couriers, CourierAccept(c)
    PROVE  Undisputed'
<1>1. UNCHANGED <<now, hold, disputeOrder, adminHolds>>
  BY DEF CourierAccept, CourierDone, disputeRows, adminVars
<1>2. \A o \in Orders :
         firstDelivered[o] # Never => firstDelivered'[o] = firstDelivered[o]
  BY DEF CourierAccept, FirstDelivery, IInv, TypeOK
<1>3. \A h \in Holds : OrderOf[h] \in Orders
  BY EscrowAssumption DEF EscrowAssumption
<1>4. \A o : DisputesOf(o)' = DisputesOf(o)
  BY <1>1 DEF DisputesOf
<1>5. QED BY <1>1, <1>2, <1>3, <1>4 DEF Undisputed

\* The sweep releases what was HELD and has had the window.
LEMMA UndisputedRelease ==
    ASSUME IInv, Undisputed, NEW r \in Releasers, RelCommit(r)
    PROVE  Undisputed'
<1>1. UNCHANGED <<now, firstDelivered, disputeOrder, adminHolds>>
  BY DEF RelCommit, RelRelease, orderRows, disputeRows, adminVars
<1>2. \A h \in Holds :
         \/ hold'[h] = hold[h]
         \/ hold'[h] = "RELEASING" /\ h \in relHolds[r]
  BY DEF RelCommit, RelRelease
<1>3. \A h \in relHolds[r] :
         /\ firstDelivered[OrderOf[h]] # Never
         /\ firstDelivered[OrderOf[h]] + Window <= now + TxTimeout
  BY DEF IInv, Memory, RelMemory
<1>4. \A o : DisputesOf(o)' = DisputesOf(o)
  BY <1>1 DEF DisputesOf
<1>5. QED BY <1>1, <1>2, <1>3, <1>4 DEF Undisputed

\* A dispute only adds to the disputes of an order.
LEMMA UndisputedTab ==
    ASSUME IInv, Undisputed, NEW t \in Tabs, NEW d \in Disputes, TabCommit(t, d)
    PROVE  Undisputed'
<1>1. UNCHANGED <<now, firstDelivered, adminHolds>>
  BY DEF TabCommit, TabDone, adminVars
<1>2. \A h \in Holds :
         \/ hold'[h] = hold[h]
         \/ hold'[h] = "HELD_DISPUTED" /\ h \in tabHolds[t]
  BY DEF TabCommit
<1>3. \A h \in tabHolds[t] : OrderOf[h] = tabOrder[t]
  BY DEF TabCommit, IInv, Memory, TabMemory, HoldsOf
<1>4. \A e \in Disputes : disputeOrder'[e] = IF e = d THEN tabOrder[t] ELSE disputeOrder[e]
  BY DEF TabCommit, IInv, TypeOK
<1>5. \A h \in Holds : DisputesOf(OrderOf[h]) \subseteq DisputesOf(OrderOf[h])'
  <2>1. disputeOrder[d] = Nobody
    BY DEF TabCommit, IInv, Memory, DisputeHasOrder
  <2>2. \A h \in Holds : OrderOf[h] # Nobody
    BY EscrowAssumption DEF EscrowAssumption
  <2>3. QED BY <1>4, <2>1, <2>2 DEF DisputesOf
<1>6. \A h \in tabHolds[t] : DisputesOf(OrderOf[h])' # {}
  BY <1>3, <1>4 DEF DisputesOf
<1>7. ASSUME NEW h \in Holds
      PROVE  /\ DisputesOf(OrderOf[h])' = {} => hold'[h] \in {"HELD", "RELEASING"}
             /\ hold'[h] = "RELEASING" =>
                   /\ firstDelivered'[OrderOf[h]] # Never
                   /\ firstDelivered'[OrderOf[h]] + Window <= now' + TxTimeout
  BY <1>1, <1>2, <1>5, <1>6 DEF Undisputed
<1>8. \A a \in Admins : \A h \in adminHolds'[a] : DisputesOf(OrderOf[h])' # {}
  <2>1. \A a \in Admins : adminHolds[a] \subseteq Holds
    BY DEF IInv, TypeOK
  <2>2. QED BY <1>1, <1>5, <2>1 DEF Undisputed
<1>9. QED BY <1>7, <1>8 DEF Undisputed

\* An admin settles the holds of an order with a dispute.
LEMMA UndisputedAdmin ==
    ASSUME IInv, Undisputed, NEW a \in Admins, AdminNext(a)
    PROVE  Undisputed'
<1>1. UNCHANGED <<now, firstDelivered, disputeOrder>>
  BY DEF AdminNext, AdminReadDispute, AdminReadHolds, AdminCommit, Settle,
     AdminFails, AdminDone, rows, orderRows, disputeRows
<1>2. \A o : DisputesOf(o)' = DisputesOf(o)
  BY <1>1 DEF DisputesOf
<1>3. \A h \in Holds :
         \/ hold'[h] = hold[h]
         \/ hold'[h] # "RELEASING" /\ h \in adminHolds[a]
  <2>1. ASSUME NEW resolution \in Resolutions, AdminCommit(a, resolution)
        PROVE  \A h \in Holds :
                  \/ hold'[h] = hold[h]
                  \/ hold'[h] # "RELEASING" /\ h \in adminHolds[a]
    BY <2>1 DEF AdminCommit, Settle, Resolutions, escrowTarget
  <2>2. CASE hold' = hold
    BY <2>2
  <2>3. QED
    BY <2>1, <2>2 DEF AdminNext, AdminReadDispute, AdminReadHolds, AdminFails,
       rows, holdRows
<1>4. \A b \in Admins : \A h \in adminHolds'[b] : DisputesOf(OrderOf[h]) # {}
  <2>1. CASE AdminReadHolds(a)
    <3>1. adminDispute[a] \in Disputes
      BY <2>1 DEF AdminReadHolds, IInv, Memory, AdminMemory
    <3>2. \A h \in adminHolds'[a] : disputeOrder[adminDispute[a]] = OrderOf[h]
      BY <2>1 DEF AdminReadHolds, HoldsOf, IInv, TypeOK
    <3>3. \A b \in Admins \ {a} : adminHolds'[b] = adminHolds[b]
      BY <2>1 DEF AdminReadHolds, IInv, TypeOK
    <3>4. QED BY <3>1, <3>2, <3>3 DEF DisputesOf, Undisputed
  <2>2. CASE \A b \in Admins : adminHolds'[b] \in {adminHolds[b], {}}
    BY <2>2 DEF Undisputed
  <2>3. QED
    BY <2>1, <2>2 DEF AdminNext, AdminReadDispute, AdminCommit, Settle,
       AdminFails, AdminDone, IInv, TypeOK
<1>5. QED BY <1>1, <1>2, <1>3, <1>4 DEF Undisputed

LEMMA UndisputedStep ==
    ASSUME IInv, Undisputed, Next PROVE Undisputed'
<1>1. CASE Tick
  BY <1>1, UndisputedKept DEF Tick, rows, orderRows, holdRows, disputeRows,
     adminVars
<1>2. ASSUME NEW v \in Devs, DevNext(v) PROVE Undisputed'
  BY <1>2, UndisputedKept DEF DevNext, DevRead, DevWrite, rows, orderRows,
     holdRows, disputeRows, adminVars
<1>3. ASSUME NEW c \in Couriers, DoorNext(c) PROVE Undisputed'
  BY <1>3, UndisputedKept, UndisputedAccept DEF DoorNext, CourierStart,
     CourierLock, CourierReads, CourierGivesUp, CourierReject, CourierDies,
     CourierDone, rows, orderRows, holdRows, disputeRows, adminVars
<1>4. ASSUME NEW r \in Releasers, ReleaseNext(r) PROVE Undisputed'
  BY <1>4, UndisputedKept, UndisputedRelease DEF ReleaseNext, RelFind,
     RelReadOrder, RelReadHolds, RelEnd, rows, orderRows, holdRows,
     disputeRows, adminVars
<1>5. ASSUME NEW t \in Tabs, TabNext(t) PROVE Undisputed'
  BY <1>5, UndisputedKept, UndisputedTab DEF TabNext, TabReadOrder,
     TabReadHolds, TabDies, TabDone, rows, orderRows, holdRows, disputeRows,
     adminVars
<1>6. ASSUME NEW w \in Watchers, WatchNext(w) PROVE Undisputed'
  BY <1>6, UndisputedKept DEF WatchNext, WatchFind, WatchCommit, WatchEnd,
     rows, orderRows, holdRows, disputeRows, adminVars
<1>7. QED
  BY <1>1, <1>2, <1>3, <1>4, <1>5, <1>6, UndisputedAdmin DEF Next

LEMMA AlwaysUndisputed == Spec => []Undisputed
<1>1. Init => Undisputed
  BY DEF Init, Undisputed
<1>2. IInv /\ Undisputed /\ [Next]_vars => Undisputed'
  <2>1. IInv /\ Undisputed /\ UNCHANGED vars => Undisputed'
    BY UndisputedKept DEF vars, rows, orderRows, holdRows, disputeRows, adminVars
  <2>2. QED BY <2>1, UndisputedStep
<1>3. QED BY Inductive, <1>1, <1>2, PTL DEF Spec

\* Every row and process keeps its type; in particular no order ever counts
\* more wrong codes than MaxAttempts (confirmDeliveryByCode).
THEOREM TypeCorrect == Spec => []TypeOK
  BY Inductive, PTL DEF IInv

\* Every wrong code at the door is counted, however many are tried at once.
THEOREM GuessesAreCounted == Spec => []NoFreeGuess
  BY Inductive, PTL DEF IInv

\* Every HELD hold of a DELIVERED order has a release date.
THEOREM DeliveredScheduled == Spec => []DeliveredIsScheduled
  BY Inductive, PTL DEF IInv

\* A dispute leaves no hold of its order HELD, whatever createDispute read.
THEOREM DisputeFreezesAll == Spec => []DisputeFreezes
  BY Inductive, PTL DEF IInv

\* A frozen hold always has a dispute that can still be resolved.
THEOREM FrozenIsResolvable == Spec => []FrozenHoldHasDispute
  BY Inductive, PTL DEF IInv

\* So has a DISPUTED order.
THEOREM DisputedIsResolvable == Spec => []DisputedOrderHasDispute
  BY Inductive, PTL DEF IInv

\* No submission delivers an order that wrong codes have locked: the one in
\* flight holds the row lock, and has seen fewer than MaxAttempts.
THEOREM LockedForGood == Spec => LockedStaysLocked
<1>1. IInv /\ [Next]_vars => [LockedIsNotDelivered]_vars
  <2> USE EscrowAssumption DEF LockedIsNotDelivered, IInv, Memory
  <2> SUFFICES ASSUME IInv, Next PROVE LockedIsNotDelivered
    BY DEF vars
  <2>1. ASSUME status' = status PROVE LockedIsNotDelivered
    BY <2>1
  <2>2. ASSUME NEW v \in Devs, DevWrite(v) PROVE LockedIsNotDelivered
    BY <2>2 DEF DevWrite, DevMemory, TypeOK
  <2>3. ASSUME NEW c \in Couriers, CourierAccept(c) PROVE LockedIsNotDelivered
    BY <2>3 DEF CourierAccept, DoorMemory, TypeOK
  <2>4. ASSUME NEW t \in Tabs, NEW d \in Disputes, TabCommit(t, d)
        PROVE LockedIsNotDelivered
    BY <2>4 DEF TabCommit, TypeOK
  <2>5. ASSUME NEW a \in Admins, NEW resolution \in Resolutions,
               AdminCommit(a, resolution)
        PROVE LockedIsNotDelivered
    BY <2>5 DEF AdminCommit, Settle, TypeOK, Resolutions, orderStatusTarget
  <2>6. CASE Tick \/ \E w \in Watchers : WatchNext(w)
    BY <2>1, <2>6 DEF Tick, WatchNext, WatchFind, WatchCommit, WatchEnd, rows,
       orderRows
  <2>7. ASSUME NEW v \in Devs, DevNext(v) PROVE LockedIsNotDelivered
    BY <2>1, <2>2, <2>7 DEF DevNext, DevRead, rows, orderRows
  <2>8. ASSUME NEW c \in Couriers, DoorNext(c) PROVE LockedIsNotDelivered
    BY <2>1, <2>3, <2>8 DEF DoorNext, CourierStart, CourierLock,
       CourierReads, CourierGivesUp, CourierReject, CourierDies, rows, orderRows
  <2>9. ASSUME NEW r \in Releasers, ReleaseNext(r) PROVE LockedIsNotDelivered
    BY <2>1, <2>9 DEF ReleaseNext, RelFind, RelReadOrder, RelReadHolds,
       RelCommit, RelRelease, RelEnd, rows, orderRows
  <2>10. ASSUME NEW t \in Tabs, TabNext(t) PROVE LockedIsNotDelivered
    BY <2>1, <2>4, <2>10 DEF TabNext, TabReadOrder, TabReadHolds, TabDies,
       rows, orderRows
  <2>11. ASSUME NEW a \in Admins, AdminNext(a) PROVE LockedIsNotDelivered
    BY <2>1, <2>5, <2>11 DEF AdminNext, AdminReadDispute, AdminReadHolds,
       AdminFails, rows, orderRows
  <2>12. QED
    BY <2>6, <2>7, <2>8, <2>9, <2>10, <2>11 DEF Next
<1>2. QED BY Inductive, <1>1, PTL DEF Spec, LockedStaysLocked

\* The sweep releases a hold only after the window, less the life of the
\* transaction that dated the delivery, and only while no dispute was ever
\* opened on its order.
THEOREM ReleaseEarned == Spec => ReleaseIsEarned
<1>1. IInv /\ [Next]_vars => [EarnedRelease]_vars
  <2> USE EscrowAssumption DEF EarnedRelease
  <2> SUFFICES ASSUME IInv, Next PROVE EarnedRelease
    BY DEF vars
  <2>1. ASSUME \A h \in Holds : hold'[h] = "RELEASING" => hold[h] = "RELEASING"
        PROVE EarnedRelease
    BY <2>1
  <2>2. ASSUME hold' = hold PROVE EarnedRelease
    BY <2>2
  <2>3. ASSUME NEW r \in Releasers, RelCommit(r) PROVE EarnedRelease
    <3> SUFFICES ASSUME NEW h \in Holds, hold'[h] = "RELEASING",
                        hold[h] # "RELEASING"
                 PROVE  /\ DisputesOf(OrderOf[h]) = {}
                        /\ firstDelivered[OrderOf[h]] # Never
                        /\ firstDelivered[OrderOf[h]] + Window <= now + TxTimeout
      OBVIOUS
    <3>1. h \in relHolds[r] /\ hold[h] = "HELD"
      BY <2>3 DEF RelCommit, RelRelease
    <3>2. DisputesOf(OrderOf[h]) = {}
      BY <3>1 DEF IInv, DisputeFreezes, HeldOf, HoldsOf
    <3>3. QED BY <3>1, <3>2 DEF IInv, Memory, RelMemory
  <2>4. ASSUME NEW t \in Tabs, NEW d \in Disputes, TabCommit(t, d)
        PROVE EarnedRelease
    BY <2>1, <2>4 DEF TabCommit
  <2>5. ASSUME NEW a \in Admins, NEW resolution \in Resolutions,
               AdminCommit(a, resolution)
        PROVE EarnedRelease
    BY <2>1, <2>5 DEF AdminCommit, Settle, Resolutions, escrowTarget
  <2>6. CASE Tick \/ \E w \in Watchers : WatchNext(w)
    BY <2>2, <2>6 DEF Tick, WatchNext, WatchFind, WatchCommit, WatchEnd, rows,
       holdRows
  <2>7. ASSUME NEW v \in Devs, DevNext(v) PROVE EarnedRelease
    BY <2>2, <2>7 DEF DevNext, DevRead, DevWrite, rows, holdRows
  <2>8. ASSUME NEW c \in Couriers, DoorNext(c) PROVE EarnedRelease
    BY <2>2, <2>8 DEF DoorNext, CourierStart, CourierLock, CourierReads,
       CourierGivesUp, CourierReject, CourierAccept, CourierDies, rows, holdRows
  <2>9. ASSUME NEW r \in Releasers, ReleaseNext(r) PROVE EarnedRelease
    BY <2>2, <2>3, <2>9 DEF ReleaseNext, RelFind, RelReadOrder, RelReadHolds,
       RelEnd, rows, holdRows
  <2>10. ASSUME NEW t \in Tabs, TabNext(t) PROVE EarnedRelease
    BY <2>2, <2>4, <2>10 DEF TabNext, TabReadOrder, TabReadHolds, TabDies,
       rows, holdRows
  <2>11. ASSUME NEW a \in Admins, AdminNext(a) PROVE EarnedRelease
    BY <2>2, <2>5, <2>11 DEF AdminNext, AdminReadDispute, AdminReadHolds,
       AdminFails, rows, holdRows
  <2>12. QED
    BY <2>6, <2>7, <2>8, <2>9, <2>10, <2>11 DEF Next
<1>2. QED BY Inductive, <1>1, PTL DEF Spec, ReleaseIsEarned
=============================================================================
