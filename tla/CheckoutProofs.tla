--------------------------- MODULE CheckoutProofs ---------------------------
(***************************************************************************)
(* What TLAPS proves of Checkout, for any number of orders, carts,         *)
(* sellers, webhook handlers and sweeps.                                   *)
(***************************************************************************)
EXTENDS Checkout, TLAPS

\* The invariant holds of the empty database.
LEMMA InitIInv == Init => IInv
  BY DEF Init, IInv, TypeOK, Memory, RequestMemory, HookMemory, SweepMemory,
     RowsAgree, RowsAre, CardPaidMeansCaptured, AckedIsAccounted, OrderRow,
     Rail, PaymentRow, Intent, PlacePc, NoHolds

\* finalizePaidOrder's guarded commit: the rows it writes stay in their
\* types and keep agreeing, a settled order is left alone, and the order it
\* was called for is settled afterwards.
LEMMA FinalizeStep ==
    ASSUME IInv, NEW o \in Orders, NEW ref \in SUBSET Orders,
           status[o] # "NONE", FinalizeCommit(o, ref)
    PROVE  /\ status' \in [Orders -> OrderRow]
           /\ payment' \in [Orders -> PaymentRow]
           /\ holds' \in [Orders -> [Sellers -> Nat]]
           /\ history' \in [Orders -> SUBSET {"PAID", "EXPIRED"}]
           /\ intentOnOrder' \subseteq Orders
           /\ intentOnPayment' \subseteq Orders
           /\ \A p \in Orders : p # o => status'[p] = status[p]
           /\ \A p \in Orders : status[p] # "PENDING_PAYMENT"
                                  => status'[p] = status[p]
           /\ status'[o] \in {"PAID", "EXPIRED"}
           /\ status[o] = "PENDING_PAYMENT" => status'[o] = "PAID"
           /\ RowsAgree'
<1> USE DEF IInv, TypeOK, OrderRow, PaymentRow
<1>1. CASE status[o] = "PENDING_PAYMENT" /\ MarkPaid(o, ref)
  <2>1. /\ status' = [status EXCEPT ![o] = "PAID"]
        /\ payment' = [payment EXCEPT ![o] = "CAPTURED"]
        /\ history' = [history EXCEPT ![o] = @ \union {"PAID"}]
        /\ intentOnOrder' = intentOnOrder \union ref
        /\ intentOnPayment' = intentOnPayment \union ref
    BY <1>1 DEF MarkPaid
  <2>2. holds[o] = NoHolds /\ history[o] = {}
    BY <1>1 DEF RowsAgree, RowsAre
  <2>3. holds' = [holds EXCEPT ![o] = OneHoldEach(o)]
    <3>1. [s \in Sellers |->
              holds[o][s] + (IF s \in SellersOf[o] THEN 1 ELSE 0)]
            = OneHoldEach(o)
      BY <2>2 DEF NoHolds, OneHoldEach
    <3>2. QED BY <3>1, <1>1 DEF MarkPaid
  <2>4. holds' \in [Orders -> [Sellers -> Nat]]
    BY <2>3 DEF OneHoldEach
  <2>5. RowsAgree'
    <3> SUFFICES ASSUME NEW p \in Orders
                 PROVE
        /\ status'[p] = "NONE" => RowsAre(p, "NONE", NoHolds, {})'
        /\ status'[p] = "PENDING_PAYMENT" => RowsAre(p, "PENDING", NoHolds, {})'
        /\ status'[p] = "PAID"
             => RowsAre(p, "CAPTURED", OneHoldEach(p), {"PAID"})'
        /\ status'[p] = "EXPIRED" => RowsAre(p, "FAILED", NoHolds, {"EXPIRED"})'
      BY DEF RowsAgree, RowsAre, NoHolds, OneHoldEach
    <3>1. CASE p = o
      BY <3>1, <2>1, <2>2, <2>3 DEF RowsAre
    <3>2. CASE p # o
      <4>1. /\ status'[p] = status[p] /\ payment'[p] = payment[p]
            /\ holds'[p] = holds[p] /\ history'[p] = history[p]
        BY <3>2, <2>1, <2>3
      <4>2. QED BY <4>1 DEF RowsAgree, RowsAre
    <3>3. QED BY <3>1, <3>2
  <2>6. QED BY <1>1, <2>1, <2>4, <2>5
<1>2. CASE /\ status[o] # "PENDING_PAYMENT"
           /\ UNCHANGED <<status, payment, holds, history, intentOnOrder,
                          intentOnPayment>>
  <2>1. RowsAgree'
    BY <1>2 DEF RowsAgree, RowsAre, NoHolds, OneHoldEach
  <2>2. QED BY <1>2, <2>1
<1>3. QED BY <1>1, <1>2 DEF FinalizeCommit

\* The same for expirePendingOrder's guarded commit, with the cancel after it.
LEMMA ExpireStep ==
    ASSUME IInv, NEW o \in Orders, ExpireCommit(o)
    PROVE  /\ status' \in [Orders -> OrderRow]
           /\ payment' \in [Orders -> PaymentRow]
           /\ history' \in [Orders -> SUBSET {"PAID", "EXPIRED"}]
           /\ intent' \in [Orders -> Intent]
           /\ cancelCalls' \subseteq Orders
           /\ \A p \in Orders : intent[p] # "open" => intent'[p] = intent[p]
           /\ \A p \in Orders : intent[p] = "open"
                                  => intent'[p] \in {"open", "canceled"}
           /\ \A p \in Orders : status[p] # "PENDING_PAYMENT"
                                  => status'[p] = status[p]
           /\ \A p \in Orders : status[p] = "PENDING_PAYMENT"
                    => status'[p] \in {"PENDING_PAYMENT", "EXPIRED"}
           /\ holds' = holds => RowsAgree'
<1> USE DEF IInv, TypeOK, OrderRow, PaymentRow, Intent
<1>1. CASE status[o] = "PENDING_PAYMENT" /\ MarkExpired(o)
  <2>1. /\ status' = [status EXCEPT ![o] = "EXPIRED"]
        /\ payment' = [payment EXCEPT ![o] = IF @ = "PENDING" THEN "FAILED" ELSE @]
        /\ history' = [history EXCEPT ![o] = @ \union {"EXPIRED"}]
        /\ CancelIntent(o)
    BY <1>1 DEF MarkExpired
  <2>2. /\ cancelCalls' \subseteq Orders
        /\ intent' \in {intent, [intent EXCEPT ![o] =
                                    IF @ = "open" THEN "canceled" ELSE @]}
    BY <2>1 DEF CancelIntent
  <2>3. /\ intent' \in [Orders -> Intent]
        /\ \A p \in Orders : intent[p] # "open" => intent'[p] = intent[p]
        /\ \A p \in Orders : intent[p] = "open"
                                  => intent'[p] \in {"open", "canceled"}
    <3>1. CASE intent' = intent
      BY <3>1
    <3>2. CASE intent' = [intent EXCEPT ![o] = "canceled"] /\ intent[o] = "open"
      BY <3>2
    <3>3. QED BY <2>2, <3>1, <3>2
  <2>4. ASSUME holds' = holds PROVE RowsAgree'
    <3>1. payment[o] = "PENDING" /\ holds[o] = NoHolds /\ history[o] = {}
      BY <1>1 DEF RowsAgree, RowsAre
    <3> SUFFICES ASSUME NEW p \in Orders
                 PROVE
        /\ status'[p] = "NONE" => RowsAre(p, "NONE", NoHolds, {})'
        /\ status'[p] = "PENDING_PAYMENT" => RowsAre(p, "PENDING", NoHolds, {})'
        /\ status'[p] = "PAID"
             => RowsAre(p, "CAPTURED", OneHoldEach(p), {"PAID"})'
        /\ status'[p] = "EXPIRED" => RowsAre(p, "FAILED", NoHolds, {"EXPIRED"})'
      BY DEF RowsAgree, RowsAre, NoHolds, OneHoldEach
    <3>2. CASE p = o
      BY <3>1, <3>2, <2>1, <2>4 DEF RowsAre
    <3>3. CASE p # o
      <4>1. /\ status'[p] = status[p] /\ payment'[p] = payment[p]
            /\ holds'[p] = holds[p] /\ history'[p] = history[p]
        BY <3>3, <2>1, <2>4
      <4>2. QED BY <4>1 DEF RowsAgree, RowsAre
    <3>4. QED BY <3>2, <3>3
  <2>5. /\ status' \in [Orders -> OrderRow]
        /\ payment' \in [Orders -> PaymentRow]
        /\ history' \in [Orders -> SUBSET {"PAID", "EXPIRED"}]
    BY <2>1
  <2>6. \A p \in Orders :
           /\ status[p] # "PENDING_PAYMENT" => status'[p] = status[p]
           /\ status[p] = "PENDING_PAYMENT"
                => status'[p] \in {"PENDING_PAYMENT", "EXPIRED"}
    BY <1>1, <2>1
  <2>7. QED BY <2>2, <2>3, <2>4, <2>5, <2>6
<1>2. CASE /\ status[o] # "PENDING_PAYMENT"
           /\ UNCHANGED <<status, payment, history, intent, cancelCalls>>
  <2>1. ASSUME holds' = holds PROVE RowsAgree'
    BY <1>2, <2>1 DEF RowsAgree, RowsAre, NoHolds, OneHoldEach
  <2>2. QED BY <1>2, <2>1
<1>3. QED BY <1>1, <1>2 DEF ExpireCommit

\* A step that leaves the four rows alone keeps them agreeing.
LEMMA RowsFrame ==
    ASSUME RowsAgree, UNCHANGED <<status, payment, holds, history>>
    PROVE  RowsAgree'
  BY DEF RowsAgree, RowsAre, NoHolds, OneHoldEach

\* Each action of a checkout request preserves the invariant.
LEMMA PlaceStep ==
    ASSUME IInv, NEW o \in Orders, PlaceNext(o) PROVE IInv'
<1> USE DEF rows, stripe, hookVars, sweepVars
<1>1. CASE Assemble(o)
  <2>1. RowsAgree' BY <1>1, RowsFrame DEF IInv, Assemble
  <2>2. QED
    BY <1>1, <2>1 DEF Assemble, IInv, TypeOK, Memory, RequestMemory,
       HookMemory, SweepMemory, CardPaidMeansCaptured, AckedIsAccounted,
       PlacePc
<1>2. ASSUME NEW r \in {"mock", "card"}, BuildPending(o, r) PROVE IInv'
  <2>1. status[o] = "NONE" /\ payment[o] = "NONE" /\ holds[o] = NoHolds
          /\ history[o] = {}
    BY <1>2 DEF BuildPending, IInv, TypeOK, Memory, RequestMemory, HookMemory,
       SweepMemory, RowsAgree, RowsAre
  <2>2. RowsAgree'
    BY <1>2, <2>1 DEF BuildPending, IInv, TypeOK, RowsAgree, RowsAre, NoHolds,
                      OneHoldEach
  <2>3. TypeOK'
    BY <1>2 DEF BuildPending, IInv, TypeOK, OrderRow, PaymentRow, Rail, PlacePc
  <2>4. Memory'
    BY <1>2, <2>1 DEF BuildPending, IInv, TypeOK, Memory, RequestMemory,
       HookMemory, SweepMemory
  <2>5. CardPaidMeansCaptured' /\ AckedIsAccounted'
    BY <1>2, <2>1 DEF BuildPending, IInv, TypeOK, CardPaidMeansCaptured,
                      AckedIsAccounted
  <2>6. QED BY <2>2, <2>3, <2>4, <2>5 DEF IInv
<1>3. CASE MockRead(o)
  <2>1. RowsAgree' BY <1>3, RowsFrame DEF IInv, MockRead
  <2>2. status[o] # "PENDING_PAYMENT" => status[o] \in {"PAID", "EXPIRED"}
    BY <1>3 DEF MockRead, IInv, TypeOK, Memory, RequestMemory, HookMemory,
       SweepMemory, OrderRow
  <2>3. QED
    BY <1>3, <2>1, <2>2 DEF MockRead, IInv, TypeOK, Memory, RequestMemory,
       HookMemory, SweepMemory, CardPaidMeansCaptured, AckedIsAccounted,
       PlacePc
<1>4. CASE MockCommit(o)
  <2>1. /\ FinalizeCommit(o, {}) /\ status[o] # "NONE" /\ rail[o] = "mock"
        /\ {} \in SUBSET Orders
    BY <1>4 DEF MockCommit, IInv, Memory, RequestMemory, HookMemory,
       SweepMemory
  <2>2. RowsAgree' BY <2>1, FinalizeStep
  <2>3. TypeOK'
    BY <1>4, <2>1, FinalizeStep DEF MockCommit, IInv, TypeOK, PlacePc
  <2>4. /\ \A p \in Orders : p # o => status'[p] = status[p]
        /\ \A p \in Orders : status[p] # "PENDING_PAYMENT"
                               => status'[p] = status[p]
        /\ status'[o] \in {"PAID", "EXPIRED"}
    BY <2>1, FinalizeStep
  <2>5. Memory'
    <3>1. RequestMemory'
      BY <1>4, <2>1, <2>4 DEF MockCommit, IInv, TypeOK, Memory, RequestMemory
    <3>2. HookMemory'
      BY <1>4, <2>4 DEF MockCommit, IInv, TypeOK, Memory, HookMemory
    <3>3. SweepMemory'
      BY <1>4 DEF MockCommit, IInv, Memory, SweepMemory
    <3>4. QED BY <3>1, <3>2, <3>3 DEF Memory
  <2>6. CardPaidMeansCaptured' /\ AckedIsAccounted'
    BY <1>4, <2>1, <2>4 DEF MockCommit, IInv, TypeOK, CardPaidMeansCaptured,
                            AckedIsAccounted
  <2>7. QED BY <2>2, <2>3, <2>5, <2>6 DEF IInv
<1>5. CASE ClearCart(o)
  <2>1. RowsAgree' BY <1>5, RowsFrame DEF IInv, ClearCart
  <2>2. QED
    BY <1>5, <2>1 DEF ClearCart, IInv, TypeOK, Memory, RequestMemory,
       HookMemory, SweepMemory, CardPaidMeansCaptured, AckedIsAccounted,
       PlacePc
<1>6. CASE OpenIntent(o)
  <2>1. RowsAgree' BY <1>6, RowsFrame DEF IInv, OpenIntent
  <2>2. TypeOK' BY <1>6 DEF OpenIntent, IInv, TypeOK, PlacePc, Intent
  <2>3. Memory'
    BY <1>6 DEF OpenIntent, IInv, TypeOK, Memory, RequestMemory, HookMemory,
       SweepMemory
  <2>4. CardPaidMeansCaptured' /\ AckedIsAccounted'
    BY <1>6 DEF OpenIntent, IInv, TypeOK, Memory, RequestMemory, HookMemory,
       SweepMemory, CardPaidMeansCaptured, AckedIsAccounted
  <2>5. QED BY <2>1, <2>2, <2>3, <2>4 DEF IInv
<1>7. CASE RecordIntent(o)
  <2>1. RowsAgree' BY <1>7, RowsFrame DEF IInv, RecordIntent
  <2>2. QED
    BY <1>7, <2>1 DEF RecordIntent, IInv, TypeOK, Memory, RequestMemory,
       HookMemory, SweepMemory, CardPaidMeansCaptured, AckedIsAccounted,
       PlacePc
<1>8. CASE RequestDies(o)
  <2>1. RowsAgree' BY <1>8, RowsFrame DEF IInv, RequestDies
  <2>2. QED
    BY <1>8, <2>1 DEF RequestDies, IInv, TypeOK, Memory, RequestMemory,
       HookMemory, SweepMemory, CardPaidMeansCaptured, AckedIsAccounted,
       PlacePc
<1>9. CASE GrowOld(o)
  <2>1. RowsAgree' BY <1>9, RowsFrame DEF IInv, GrowOld
  <2>2. QED
    BY <1>9, <2>1 DEF GrowOld, IInv, TypeOK, Memory, RequestMemory, HookMemory,
       SweepMemory, CardPaidMeansCaptured, AckedIsAccounted
<1>10. ASSUME NEW c \in Captured, Capture(o, c) PROVE IInv'
  <2>1. RowsAgree' BY <1>10, RowsFrame DEF IInv, Capture
  <2>2. TypeOK' BY <1>10 DEF Capture, IInv, TypeOK, Captured, Intent
  <2>3. Memory'
    BY <1>10 DEF Capture, IInv, TypeOK, Memory, RequestMemory, HookMemory,
       SweepMemory, Captured
  <2>4. CardPaidMeansCaptured' /\ AckedIsAccounted'
    BY <1>10 DEF Capture, IInv, TypeOK, CardPaidMeansCaptured, AckedIsAccounted
  <2>5. QED BY <2>1, <2>2, <2>3, <2>4 DEF IInv
<1>11. QED
  BY <1>1, <1>2, <1>3, <1>4, <1>5, <1>6, <1>7, <1>8, <1>9, <1>10 DEF PlaceNext

\* Each action of a webhook handler preserves the invariant.
LEMMA HookStep ==
    ASSUME IInv, NEW h \in Hooks, HookNext(h) PROVE IInv'
<1> USE DEF rows, stripe, hookVars, sweepVars
<1>1. ASSUME NEW o \in Orders, HookSettledAlready(h, o) PROVE IInv'
  <2>1. RowsAgree' BY <1>1, RowsFrame DEF IInv, HookSettledAlready
  <2>2. status[o] \in {"PAID", "EXPIRED"}
    BY <1>1 DEF HookSettledAlready, IInv, TypeOK, Memory, RequestMemory,
       HookMemory, SweepMemory, OrderRow, Captured
  <2>3. QED
    BY <1>1, <2>1, <2>2 DEF HookSettledAlready, IInv, TypeOK, Memory,
       RequestMemory, HookMemory, SweepMemory, CardPaidMeansCaptured,
       AckedIsAccounted
<1>2. ASSUME NEW o \in Orders, HookMismatch(h, o) PROVE IInv'
  <2>1. RowsAgree' BY <1>2, RowsFrame DEF IInv, HookMismatch
  <2>2. QED
    BY <1>2, <2>1 DEF HookMismatch, IInv, TypeOK, Memory, RequestMemory,
       HookMemory, SweepMemory, CardPaidMeansCaptured, AckedIsAccounted
<1>3. ASSUME NEW o \in Orders, HookRead(h, o) PROVE IInv'
  <2>1. RowsAgree' BY <1>3, RowsFrame DEF IInv, HookRead
  <2>2. QED
    BY <1>3, <2>1 DEF HookRead, IInv, TypeOK, Memory, RequestMemory,
       HookMemory, SweepMemory, CardPaidMeansCaptured, AckedIsAccounted
<1>4. CASE HookCommit(h)
  <2> DEFINE o == hookOrder[h]
  <2>1. /\ o \in Orders /\ intent[o] = "captured"
        /\ {o} \in SUBSET Orders /\ FinalizeCommit(o, {o})
        /\ status[o] # "NONE"
    BY <1>4 DEF HookCommit, IInv, Memory, RequestMemory, HookMemory,
       SweepMemory
  <2> HIDE DEF o
  <2>2. /\ RowsAgree'
        /\ \A p \in Orders : p # o => status'[p] = status[p]
        /\ \A p \in Orders : status[p] # "PENDING_PAYMENT"
                               => status'[p] = status[p]
        /\ status'[o] \in {"PAID", "EXPIRED"}
    BY <2>1, FinalizeStep
  <2>3. TypeOK'
    BY <1>4, <2>1, FinalizeStep DEF HookCommit, IInv, TypeOK
  <2>4. Memory'
    BY <1>4, <2>1, <2>2 DEF HookCommit, IInv, TypeOK, Memory, RequestMemory,
       HookMemory, SweepMemory, o
  <2>5. CardPaidMeansCaptured' /\ AckedIsAccounted'
    BY <1>4, <2>1, <2>2 DEF HookCommit, IInv, TypeOK, CardPaidMeansCaptured,
                            AckedIsAccounted
  <2>6. QED BY <2>2, <2>3, <2>4, <2>5 DEF IInv
<1>5. CASE HookReply(h)
  <2>1. RowsAgree' BY <1>5, RowsFrame DEF IInv, HookReply
  <2>2. QED
    BY <1>5, <2>1 DEF HookReply, IInv, TypeOK, Memory, RequestMemory,
       HookMemory, SweepMemory, CardPaidMeansCaptured, AckedIsAccounted
<1>6. CASE HookDies(h)
  <2>1. RowsAgree' BY <1>6, RowsFrame DEF IInv, HookDies
  <2>2. QED
    BY <1>6, <2>1 DEF HookDies, IInv, TypeOK, Memory, RequestMemory,
       HookMemory, SweepMemory, CardPaidMeansCaptured, AckedIsAccounted
<1>7. ASSUME NEW o \in Orders, HookFlagsThenDies(h, o) PROVE IInv'
  <2>1. RowsAgree' BY <1>7, RowsFrame DEF IInv, HookFlagsThenDies
  <2>2. QED
    BY <1>7, <2>1 DEF HookFlagsThenDies, IInv, TypeOK, Memory, RequestMemory,
       HookMemory, SweepMemory, CardPaidMeansCaptured, AckedIsAccounted
<1>8. QED BY <1>1, <1>2, <1>3, <1>4, <1>5, <1>6, <1>7 DEF HookNext

\* Each action of the expiry sweep preserves the invariant.
LEMMA SweepStep ==
    ASSUME IInv, NEW w \in Sweeps, SweepNext(w) PROVE IInv'
<1> USE DEF rows, stripe, hookVars, sweepVars
<1>1. CASE SweepFind(w)
  <2>1. RowsAgree' BY <1>1, RowsFrame DEF IInv, SweepFind
  <2>2. QED
    BY <1>1, <2>1 DEF SweepFind, IInv, TypeOK, Memory, RequestMemory,
       HookMemory, SweepMemory, CardPaidMeansCaptured, AckedIsAccounted
<1>2. ASSUME NEW o \in Orders, SweepRead(w, o) PROVE IInv'
  <2>1. RowsAgree' BY <1>2, RowsFrame DEF IInv, SweepRead
  <2>2. TypeOK' BY <1>2 DEF SweepRead, IInv, TypeOK
  <2>3. Memory'
    BY <1>2 DEF SweepRead, IInv, TypeOK, Memory, RequestMemory, HookMemory,
                SweepMemory
  <2>4. CardPaidMeansCaptured' /\ AckedIsAccounted'
    BY <1>2 DEF SweepRead, IInv, CardPaidMeansCaptured, AckedIsAccounted
  <2>5. QED BY <2>1, <2>2, <2>3, <2>4 DEF IInv
<1>3. CASE SweepCommit(w)
  <2> DEFINE o == sweepOrder[w]
  <2>1. o \in Orders /\ ExpireCommit(o) /\ holds' = holds
    BY <1>3 DEF SweepCommit, IInv, Memory, RequestMemory, HookMemory,
       SweepMemory
  <2> HIDE DEF o
  <2>2. /\ RowsAgree'
        /\ \A p \in Orders : intent[p] # "open" => intent'[p] = intent[p]
        /\ \A p \in Orders : intent[p] = "open"
                               => intent'[p] \in {"open", "canceled"}
        /\ \A p \in Orders : status[p] # "PENDING_PAYMENT"
                               => status'[p] = status[p]
        /\ \A p \in Orders : status[p] = "PENDING_PAYMENT"
                    => status'[p] \in {"PENDING_PAYMENT", "EXPIRED"}
    BY <2>1, ExpireStep
  <2>3. TypeOK'
    BY <1>3, <2>1, ExpireStep DEF SweepCommit, IInv, TypeOK
  <2>4. Memory'
    <3>1. RequestMemory'
      BY <1>3, <2>2 DEF SweepCommit, IInv, TypeOK, Memory, RequestMemory,
                        Intent, OrderRow
    <3>2. HookMemory'
      BY <1>3, <2>2 DEF SweepCommit, IInv, TypeOK, Memory, HookMemory
    <3>3. SweepMemory'
      BY <1>3 DEF SweepCommit, IInv, TypeOK, Memory, SweepMemory
    <3>4. QED BY <3>1, <3>2, <3>3 DEF Memory
  <2>5. CardPaidMeansCaptured' /\ AckedIsAccounted'
    BY <1>3, <2>1, <2>2 DEF SweepCommit, IInv, TypeOK, CardPaidMeansCaptured,
                            AckedIsAccounted
  <2>6. QED BY <2>2, <2>3, <2>4, <2>5 DEF IInv
<1>4. CASE SweepEnd(w)
  <2>1. RowsAgree' BY <1>4, RowsFrame DEF IInv, SweepEnd
  <2>2. QED
    BY <1>4, <2>1 DEF SweepEnd, IInv, TypeOK, Memory, RequestMemory,
       HookMemory, SweepMemory, CardPaidMeansCaptured, AckedIsAccounted
<1>5. QED BY <1>1, <1>2, <1>3, <1>4 DEF SweepNext

\* IInv is inductive.
THEOREM Inductive == Spec => []IInv
<1>1. IInv /\ [Next]_vars => IInv'
  <2> SUFFICES ASSUME IInv, [Next]_vars PROVE IInv'
    OBVIOUS
  <2>1. CASE Next
    BY <2>1, PlaceStep, HookStep, SweepStep DEF Next
  <2>2. CASE UNCHANGED vars
    <3>1. RowsAgree' BY <2>2, RowsFrame DEF IInv, vars, rows
    <3>2. QED
      BY <2>2, <3>1 DEF vars, rows, stripe, hookVars, sweepVars, IInv, TypeOK,
         Memory, RequestMemory, HookMemory, SweepMemory, CardPaidMeansCaptured,
         AckedIsAccounted
  <2>3. QED BY <2>1, <2>2
<1>2. QED BY InitIInv, <1>1, PTL DEF Spec

\* Every variable stays within the values its column or process can hold.
THEOREM TypeCorrect == Spec => []TypeOK
  BY Inductive, PTL DEF IInv

\* Order, payment, escrow and history rows agree in every reachable state.
THEOREM RowsAlwaysAgree == Spec => []RowsAgree
  BY Inductive, PTL DEF IInv

\* A card order is PAID only for exactly the captured amount.
THEOREM CardPaidCorrect == Spec => []CardPaidMeansCaptured
  BY Inductive, PTL DEF IInv

\* No event is acknowledged while its order is unsettled and unflagged.
THEOREM AckedCorrect == Spec => []AckedIsAccounted
  BY Inductive, PTL DEF IInv

\* A finalize commit is the abstract Pay, or changes neither variable.
LEMMA FinalizeRefines ==
    ASSUME IInv, NEW o \in Orders, NEW ref, FinalizeCommit(o, ref)
    PROVE  Outcome!Pay(o) \/ UNCHANGED <<OutcomeOf, holds>>
<1>1. CASE status[o] = "PENDING_PAYMENT" /\ MarkPaid(o, ref)
  <2>1. holds[o] = NoHolds
    BY <1>1 DEF IInv, RowsAgree, RowsAre
  <2>2. [s \in Sellers |-> holds[o][s] + (IF s \in SellersOf[o] THEN 1 ELSE 0)]
          = Outcome!OneHoldEach(o)
    BY <2>1 DEF NoHolds, Outcome!OneHoldEach
  <2>3. holds' = [holds EXCEPT ![o] = Outcome!OneHoldEach(o)]
    BY <1>1, <2>2 DEF MarkPaid
  <2>4. OutcomeOf[o] = "open" /\ OutcomeOf' = [OutcomeOf EXCEPT ![o] = "paid"]
    BY <1>1 DEF MarkPaid, OutcomeOf, IInv, TypeOK
  <2>5. QED BY <2>3, <2>4 DEF Outcome!Pay
<1>2. CASE UNCHANGED <<status, holds>>
  BY <1>2 DEF OutcomeOf
<1>3. QED BY <1>1, <1>2 DEF FinalizeCommit

\* An expire commit is the abstract Expire, or changes neither variable.
LEMMA ExpireRefines ==
    ASSUME IInv, NEW o \in Orders, ExpireCommit(o), holds' = holds
    PROVE  Outcome!Expire(o) \/ UNCHANGED <<OutcomeOf, holds>>
<1>1. CASE status[o] = "PENDING_PAYMENT" /\ MarkExpired(o)
  <2>1. OutcomeOf[o] = "open" /\ OutcomeOf' = [OutcomeOf EXCEPT ![o] = "expired"]
    BY <1>1 DEF MarkExpired, OutcomeOf, IInv, TypeOK
  <2>2. QED BY <2>1 DEF Outcome!Expire
<1>2. CASE UNCHANGED status
  BY <1>2 DEF OutcomeOf
<1>3. QED BY <1>1, <1>2 DEF ExpireCommit

\* Checkout implements OrderOutcome: settled at most once, and paid in the
\* very step that funds one hold per seller.
THEOREM Refinement == Spec => ImplementsOutcome
<1>1. Init => Outcome!Init
  BY DEF Init, Outcome!Init, OutcomeOf, NoHolds, Outcome!NoHolds
<1>2. IInv /\ [Next]_vars => [Outcome!Next]_(Outcome!vars)
  <2> SUFFICES ASSUME IInv, [Next]_vars
               PROVE  Outcome!Next \/ UNCHANGED <<OutcomeOf, holds>>
    BY DEF Outcome!vars
  <2>1. ASSUME UNCHANGED <<status, holds>>
        PROVE  UNCHANGED <<OutcomeOf, holds>>
    BY <2>1 DEF OutcomeOf
  <2>2. ASSUME NEW o \in Orders, NEW r \in {"mock", "card"}, BuildPending(o, r)
        PROVE  Outcome!Place(o)
    <3>1. status[o] = "NONE"
      BY <2>2 DEF BuildPending, IInv, Memory, RequestMemory
    <3>2. /\ OutcomeOf[o] = "absent"
          /\ OutcomeOf' = [OutcomeOf EXCEPT ![o] = "open"]
      BY <2>2, <3>1 DEF BuildPending, OutcomeOf, IInv, TypeOK
    <3>3. QED BY <2>2, <3>2 DEF BuildPending, Outcome!Place
  <2>3. ASSUME NEW o \in Orders, MockCommit(o)
        PROVE  Outcome!Pay(o) \/ UNCHANGED <<OutcomeOf, holds>>
    BY <2>3, FinalizeRefines DEF MockCommit
  <2>4. ASSUME NEW h \in Hooks, HookCommit(h)
        PROVE  /\ hookOrder[h] \in Orders
               /\ Outcome!Pay(hookOrder[h]) \/ UNCHANGED <<OutcomeOf, holds>>
    BY <2>4, FinalizeRefines DEF HookCommit, IInv, Memory, HookMemory
  <2>5. ASSUME NEW w \in Sweeps, SweepCommit(w)
        PROVE  /\ sweepOrder[w] \in Orders
               /\ Outcome!Expire(sweepOrder[w]) \/ UNCHANGED <<OutcomeOf, holds>>
    BY <2>5, ExpireRefines DEF SweepCommit, IInv, Memory, SweepMemory
  <2>6. CASE \E o \in Orders : PlaceNext(o)
    BY <2>1, <2>2, <2>3, <2>6 DEF PlaceNext, Assemble, MockRead, ClearCart,
         OpenIntent, RecordIntent, RequestDies, GrowOld, Capture, rows,
         Outcome!Next
  <2>7. CASE \E h \in Hooks : HookNext(h)
    BY <2>1, <2>4, <2>7 DEF HookNext, HookSettledAlready, HookMismatch,
       HookFlagsThenDies, HookRead, HookReply, HookDies, rows, Outcome!Next
  <2>8. CASE \E w \in Sweeps : SweepNext(w)
    BY <2>1, <2>5, <2>8 DEF SweepNext, SweepFind, SweepRead, SweepEnd, rows,
         Outcome!Next
  <2>9. CASE UNCHANGED vars
    BY <2>1, <2>9 DEF vars, rows
  <2>10. QED BY <2>6, <2>7, <2>8, <2>9 DEF Next
<1>3. QED
  BY <1>1, <1>2, Inductive, PTL DEF Spec, ImplementsOutcome, Outcome!Spec
=============================================================================
