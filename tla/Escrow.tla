------------------------------- MODULE Escrow -------------------------------
(***************************************************************************)
(* The trust mechanic: a paid order is delivered against a code, its       *)
(* escrow holds are released by a worker one dispute window later, and a   *)
(* dispute freezes them until an admin resolves it.  The door, the buyer's *)
(* tabs, the admins and the worker replicas write the same order, hold and *)
(* dispute rows through Postgres at READ COMMITTED.                        *)
(*                                                                         *)
(* Every read of a request is a step of its own, and so is the             *)
(* transaction of writes that ends it: it holds the row locks of its       *)
(* updates until it commits, so nothing comes between them.  Only          *)
(* confirmDeliveryByCode locks a row before it reads: until it commits,    *)
(* every other write of that order row waits for `lock'.  A process may    *)
(* die between any two of its steps.                                       *)
(*                                                                         *)
(* A period of the clock is a day: all the windows of the code are days.   *)
(***************************************************************************)
EXTENDS Integers

CONSTANTS
    Orders, Holds, Disputes,    \* row ids
    OrderOf,        \* OrderOf[h]: the order of hold h
    Couriers,       \* code submissions at the door in flight at once
    Devs,           \* requests of the development-only stage advance
    Releasers,      \* worker replicas running the release sweep
    Tabs,           \* browser tabs submitting the dispute form
    Admins,         \* admins submitting the resolution form
    Watchers,       \* worker replicas running the SLA sweep
    Window, CodeTTL, Sla,   \* periods: dispute window, code life, dispute SLA
    TxTimeout,      \* periods an interactive transaction of Prisma may take
    MaxAttempts,    \* MAX_DELIVERY_ATTEMPTS
    MaxNow,         \* bound: the clock stops there
    Never,          \* a date that was never set
    Nobody          \* no order, dispute or lock owner

ASSUME EscrowAssumption ==
    /\ OrderOf \in [Holds -> Orders]
    /\ Window \in Nat /\ CodeTTL \in Nat /\ Sla \in Nat /\ TxTimeout \in Nat
    /\ MaxAttempts \in Nat /\ MaxNow \in Nat
    /\ Never \notin Nat
    /\ Nobody \notin Orders \union Disputes \union Couriers

VARIABLES
    now,
    \* orders
    status, attempts, lock,
    guesses,        \* wrong codes checked so far (no column: for NoFreeGuess)
    firstDelivered, \* day of the first delivery, by the clock (no column)
    \* escrow_holds
    hold, scheduled, holdDispute,
    \* disputes
    dispute, disputeOrder, slaDue, breached,
    \* processes
    courierPc, courierOrder, courierSaw, courierNow,
    devNext, devOrder,
    relPc, relNow, relDue, relOrder, relHolds,
    tabPc, tabOrder, tabHolds,
    adminPc, adminDispute, adminHolds,
    watchPc, watchDue

orderRows == <<status, attempts, lock, guesses, firstDelivered>>
holdRows == <<hold, scheduled, holdDispute>>
disputeRows == <<dispute, disputeOrder, slaDue, breached>>
rows == <<orderRows, holdRows, disputeRows>>
courierVars == <<courierPc, courierOrder, courierSaw, courierNow>>
devVars == <<devNext, devOrder>>
relVars == <<relPc, relNow, relDue, relOrder, relHolds>>
tabVars == <<tabPc, tabOrder, tabHolds>>
adminVars == <<adminPc, adminDispute, adminHolds>>
watchVars == <<watchPc, watchDue>>
vars == <<now, rows, courierVars, devVars, relVars, tabVars, adminVars,
          watchVars>>

\* PREPARING stands for ACCEPTED, PREPARING and READY_FOR_PICKUP, which no
\* code here tells apart.
OrderRow == {"PAID", "PREPARING", "PICKED_UP", "OUT_FOR_DELIVERY", "ARRIVED",
             "DELIVERED", "COMPLETED", "DISPUTED", "REFUNDED"}
HoldRow == {"HELD", "HELD_DISPUTED", "RELEASING", "RELEASED", "REFUNDED",
            "PARTIALLY_REFUNDED", "INSURANCE_PAYOUT"}

\* The statuses the code writes (it reads IN_REVIEW, PENDING_BUYER,
\* PENDING_SELLER and CLOSED too, but nothing sets them).
Unresolved == {"OPEN", "ESCALATED"}
Resolved == {"RESOLVED_FAVOR_BUYER", "RESOLVED_FAVOR_SELLER",
             "RESOLVED_PARTIAL", "RESOLVED_INSURANCE"}
DisputeRow == {"NONE"} \union Unresolved \union Resolved

HoldsOf(o) == {h \in Holds : OrderOf[h] = o}
HeldOf(o) == {h \in HoldsOf(o) : hold[h] = "HELD"}
DisputesOf(o) == {d \in Disputes : disputeOrder[d] = o}

\* Orders as finalizePaidOrder leaves them, all paid at time 0.
Init ==
    /\ now = 0
    /\ status = [o \in Orders |-> "PAID"]
    /\ attempts = [o \in Orders |-> 0]
    /\ lock = [o \in Orders |-> Nobody]
    /\ guesses = [o \in Orders |-> 0]
    /\ firstDelivered = [o \in Orders |-> Never]
    /\ hold = [h \in Holds |-> "HELD"]
    /\ scheduled = [h \in Holds |-> Never]
    /\ holdDispute = [h \in Holds |-> Nobody]
    /\ dispute = [d \in Disputes |-> "NONE"]
    /\ disputeOrder = [d \in Disputes |-> Nobody]
    /\ slaDue = [d \in Disputes |-> Never]
    /\ breached = {}
    /\ courierPc = [c \in Couriers |-> "idle"]
    /\ courierOrder = [c \in Couriers |-> Nobody]
    /\ courierSaw = [c \in Couriers |-> 0]
    /\ courierNow = [c \in Couriers |-> 0]
    /\ devNext = [v \in Devs |-> "idle"]
    /\ devOrder = [v \in Devs |-> Nobody]
    /\ relPc = [r \in Releasers |-> "idle"]
    /\ relNow = [r \in Releasers |-> 0]
    /\ relDue = [r \in Releasers |-> {}]
    /\ relOrder = [r \in Releasers |-> Nobody]
    /\ relHolds = [r \in Releasers |-> {}]
    /\ tabPc = [t \in Tabs |-> "idle"]
    /\ tabOrder = [t \in Tabs |-> Nobody]
    /\ tabHolds = [t \in Tabs |-> {}]
    /\ adminPc = [a \in Admins |-> "idle"]
    /\ adminDispute = [a \in Admins |-> Nobody]
    /\ adminHolds = [a \in Admins |-> {}]
    /\ watchPc = [w \in Watchers |-> "idle"]
    /\ watchDue = [w \in Watchers |-> {}]

Tick ==
    /\ now < MaxNow
    /\ now' = now + 1
    /\ UNCHANGED <<rows, courierVars, devVars, relVars, tabVars, adminVars,
                   watchVars>>

-----------------------------------------------------------------------------
(* advanceOrderStatus, the development stand-in for the seller console and *)
(* the driver app: it reads the status, then writes the next one by id.    *)

NextHappy(s) ==
    CASE s = "PAID" -> {"PREPARING"}
      [] s = "PREPARING" -> {"PREPARING", "PICKED_UP"}
      [] s = "PICKED_UP" -> {"OUT_FOR_DELIVERY"}
      [] s = "OUT_FOR_DELIVERY" -> {"ARRIVED"}
      [] s = "ARRIVED" -> {"DELIVERED"}
      [] s = "DELIVERED" -> {"COMPLETED"}
      [] OTHER -> {}

DevRead(v, o) ==
    /\ devNext[v] = "idle"
    /\ \E next \in NextHappy(status[o]) \ {"DELIVERED"} :
           devNext' = [devNext EXCEPT ![v] = next]
    /\ devOrder' = [devOrder EXCEPT ![v] = o]
    /\ UNCHANGED <<now, rows, courierVars, relVars, tabVars, adminVars,
                   watchVars>>

DevWrite(v) ==
    /\ devNext[v] # "idle"
    /\ lock[devOrder[v]] = Nobody
    /\ status' = [status EXCEPT ![devOrder[v]] = devNext[v]]
    /\ devNext' = [devNext EXCEPT ![v] = "idle"]
    /\ devOrder' = [devOrder EXCEPT ![v] = Nobody]
    /\ UNCHANGED <<now, attempts, lock, guesses, firstDelivered, holdRows,
                   disputeRows, courierVars, relVars, tabVars, adminVars,
                   watchVars>>

-----------------------------------------------------------------------------
(* confirmDeliveryByCode.                                                  *)

\* The submission reads the clock and only then begins its transaction.
CourierStart(c, o) ==
    /\ courierPc[c] = "idle"
    /\ courierPc' = [courierPc EXCEPT ![c] = "waiting"]
    /\ courierOrder' = [courierOrder EXCEPT ![c] = o]
    /\ courierNow' = [courierNow EXCEPT ![c] = now]
    /\ UNCHANGED <<now, rows, courierSaw, devVars, relVars, tabVars, adminVars,
                   watchVars>>

\* A transaction that is not over in time can only roll back.
InTime(c) == now <= courierNow[c] + TxTimeout

\* The read and the checks it must pass.
CourierReads(c) ==
    LET o == courierOrder[c] IN
    /\ courierPc[c] = "waiting" /\ InTime(c)
    /\ status[o] \in {"OUT_FOR_DELIVERY", "ARRIVED"}
    /\ attempts[o] < MaxAttempts
    /\ courierNow[c] <= CodeTTL
    /\ courierPc' = [courierPc EXCEPT ![c] = "checked"]
    /\ courierSaw' = [courierSaw EXCEPT ![c] = attempts[o]]
    /\ UNCHANGED <<now, status, attempts, guesses, firstDelivered, holdRows,
                   disputeRows, courierOrder, courierNow, devVars, relVars,
                   tabVars, adminVars, watchVars>>

\* Mutated CourierLock: a plain read instead of SELECT ... FOR UPDATE.
CourierReadUnlocked(c) == CourierReads(c) /\ UNCHANGED lock

\* SELECT ... FOR UPDATE, which waits for the lock, and the read under it.
CourierLock(c) ==
    /\ CourierReads(c)
    /\ lock[courierOrder[c]] = Nobody
    /\ lock' = [lock EXCEPT ![courierOrder[c]] = c]

\* A check refuses the submission, or it dies before it has the lock.
CourierGivesUp(c) ==
    /\ courierPc[c] = "waiting"
    /\ courierPc' = [courierPc EXCEPT ![c] = "idle"]
    /\ courierOrder' = [courierOrder EXCEPT ![c] = Nobody]
    /\ courierNow' = [courierNow EXCEPT ![c] = 0]
    /\ UNCHANGED <<now, rows, courierSaw, devVars, relVars, tabVars, adminVars,
                   watchVars>>

CourierDone(c) ==
    /\ lock' = [lock EXCEPT ![courierOrder[c]] = Nobody]
    /\ courierPc' = [courierPc EXCEPT ![c] = "idle"]
    /\ courierOrder' = [courierOrder EXCEPT ![c] = Nobody]
    /\ courierSaw' = [courierSaw EXCEPT ![c] = 0]
    /\ courierNow' = [courierNow EXCEPT ![c] = 0]
    /\ UNCHANGED <<now, holdDispute, disputeRows, devVars, relVars, tabVars,
                   adminVars, watchVars>>

\* A wrong code: the attempt is counted from the value read.
CourierReject(c) ==
    /\ courierPc[c] = "checked" /\ InTime(c)
    /\ attempts' = [attempts EXCEPT ![courierOrder[c]] = courierSaw[c] + 1]
    /\ guesses' = [guesses EXCEPT ![courierOrder[c]] = @ + 1]
    /\ CourierDone(c)
    /\ UNCHANGED <<status, firstDelivered, hold, scheduled>>

FirstDelivery(c) ==
    firstDelivered' = [firstDelivered EXCEPT ![courierOrder[c]] =
                          IF @ = Never THEN now ELSE @]

\* Mutated CourierAccept: the holds are due at once, without the window.
CourierAcceptDueNow(c) ==
    /\ courierPc[c] = "checked" /\ InTime(c)
    /\ status' = [status EXCEPT ![courierOrder[c]] = "DELIVERED"]
    /\ scheduled' = [h \in Holds |-> IF h \in HeldOf(courierOrder[c])
                                     THEN courierNow[c] ELSE scheduled[h]]
    /\ FirstDelivery(c)
    /\ CourierDone(c)
    /\ UNCHANGED <<attempts, guesses, hold>>

\* The right code: DELIVERED, and the release clock of the HELD holds starts,
\* from the time that was read before the wait for the lock.
CourierAccept(c) ==
    /\ courierPc[c] = "checked" /\ InTime(c)
    /\ status' = [status EXCEPT ![courierOrder[c]] = "DELIVERED"]
    /\ scheduled' = [h \in Holds |->
                        IF h \in HeldOf(courierOrder[c])
                        THEN courierNow[c] + Window ELSE scheduled[h]]
    /\ FirstDelivery(c)
    /\ CourierDone(c)
    /\ UNCHANGED <<attempts, guesses, hold>>

\* The transaction dies and rolls back.
CourierDies(c) ==
    /\ courierPc[c] = "checked"
    /\ CourierDone(c)
    /\ UNCHANGED <<status, attempts, guesses, firstDelivered, hold, scheduled>>

-----------------------------------------------------------------------------
(* releaseAllEligibleEscrow and releaseEligibleEscrowForOrder.             *)

Releasable(h, t) ==
    hold[h] = "HELD" /\ scheduled[h] # Never /\ scheduled[h] <= t

\* Mutated RelFind: only the holds that fall due today.
RelFindDueToday(r) ==
    LET due == {o \in Orders : status[o] = "DELIVERED"
                    /\ \E h \in HeldOf(o) : scheduled[h] = now} IN
    /\ relPc[r] = "idle"
    /\ due # {}
    /\ relPc' = [relPc EXCEPT ![r] = "loop"]
    /\ relNow' = [relNow EXCEPT ![r] = now]
    /\ relDue' = [relDue EXCEPT ![r] = due]
    /\ UNCHANGED <<now, rows, relOrder, relHolds, courierVars, devVars,
                   tabVars, adminVars, watchVars>>

\* The candidate query: the orders with a hold that is due.
RelFind(r) ==
    LET due == {o \in Orders : status[o] = "DELIVERED"
                    /\ \E h \in HoldsOf(o) : Releasable(h, now)} IN
    /\ relPc[r] = "idle"
    /\ due # {}
    /\ relPc' = [relPc EXCEPT ![r] = "loop"]
    /\ relNow' = [relNow EXCEPT ![r] = now]
    /\ relDue' = [relDue EXCEPT ![r] = due]
    /\ UNCHANGED <<now, rows, relOrder, relHolds, courierVars, devVars,
                   tabVars, adminVars, watchVars>>

\* The order is read again; if it has left DELIVERED it is skipped.
RelReadOrder(r, o) ==
    /\ relPc[r] = "loop"
    /\ o \in relDue[r]
    /\ relDue' = [relDue EXCEPT ![r] = @ \ {o}]
    /\ \/ /\ status[o] = "DELIVERED"
          /\ relPc' = [relPc EXCEPT ![r] = "order"]
          /\ relOrder' = [relOrder EXCEPT ![r] = o]
       \/ /\ status[o] # "DELIVERED"
          /\ UNCHANGED <<relPc, relOrder>>
    /\ UNCHANGED <<now, rows, relNow, relHolds, courierVars, devVars, tabVars,
                   adminVars, watchVars>>

RelReadHolds(r) ==
    /\ relPc[r] = "order"
    /\ relPc' = [relPc EXCEPT ![r] = "holds"]
    /\ relHolds' = [relHolds EXCEPT ![r] =
                       {h \in HoldsOf(relOrder[r]) : Releasable(h, relNow[r])}]
    /\ UNCHANGED <<now, rows, relNow, relDue, relOrder, courierVars, devVars,
                   tabVars, adminVars, watchVars>>

RelRelease(r, released) ==
    /\ relPc[r] = "holds"
    /\ hold' = [h \in Holds |->
                   IF h \in released THEN "RELEASING" ELSE hold[h]]
    /\ relPc' = [relPc EXCEPT ![r] = "loop"]
    /\ relOrder' = [relOrder EXCEPT ![r] = Nobody]
    /\ relHolds' = [relHolds EXCEPT ![r] = {}]
    /\ UNCHANGED <<now, orderRows, scheduled, holdDispute, disputeRows, relNow,
                   relDue, courierVars, devVars, tabVars, adminVars, watchVars>>

\* Mutated RelCommit: UPDATE by id alone.
RelCommitUnguarded(r) == RelRelease(r, relHolds[r])

\* One guarded UPDATE per hold (WHERE state = 'HELD'); a hold never becomes
\* HELD again, so all of them are decided by the states at the commit.
RelCommit(r) == RelRelease(r, {h \in relHolds[r] : hold[h] = "HELD"})

\* The sweep is over, or dies.
RelEnd(r) ==
    /\ relPc[r] # "idle"
    /\ relPc' = [relPc EXCEPT ![r] = "idle"]
    /\ relDue' = [relDue EXCEPT ![r] = {}]
    /\ relOrder' = [relOrder EXCEPT ![r] = Nobody]
    /\ relHolds' = [relHolds EXCEPT ![r] = {}]
    /\ UNCHANGED <<now, rows, relNow, courierVars, devVars, tabVars, adminVars,
                   watchVars>>

-----------------------------------------------------------------------------
(* createDispute: reads the order, then its holds, outside a transaction.  *)

Disputable == OrderRow \ {"DISPUTED", "REFUNDED"}

TabReadOrder(t, o) ==
    /\ tabPc[t] = "idle"
    /\ status[o] \in Disputable
    /\ tabPc' = [tabPc EXCEPT ![t] = "order"]
    /\ tabOrder' = [tabOrder EXCEPT ![t] = o]
    /\ UNCHANGED <<now, rows, tabHolds, courierVars, devVars, relVars,
                   adminVars, watchVars>>

\* Mutated TabReadHolds: only the holds whose release is scheduled.
TabReadScheduled(t) ==
    /\ tabPc[t] = "order"
    /\ tabPc' = [tabPc EXCEPT ![t] = "holds"]
    /\ tabHolds' = [tabHolds EXCEPT ![t] =
                       {h \in HeldOf(tabOrder[t]) : scheduled[h] # Never}]
    /\ UNCHANGED <<now, rows, tabOrder, courierVars, devVars, relVars,
                   adminVars, watchVars>>

\* The holds the transaction will freeze are those HELD at this read.
TabReadHolds(t) ==
    /\ tabPc[t] = "order"
    /\ tabPc' = [tabPc EXCEPT ![t] = "holds"]
    /\ tabHolds' = [tabHolds EXCEPT ![t] = HeldOf(tabOrder[t])]
    /\ UNCHANGED <<now, rows, tabOrder, courierVars, devVars, relVars,
                   adminVars, watchVars>>

TabDone(t) ==
    /\ tabPc' = [tabPc EXCEPT ![t] = "idle"]
    /\ tabOrder' = [tabOrder EXCEPT ![t] = Nobody]
    /\ tabHolds' = [tabHolds EXCEPT ![t] = {}]
    /\ UNCHANGED <<now, courierVars, devVars, relVars, adminVars, watchVars>>

\* The transaction: the dispute row, every hold read as HELD (by id alone),
\* the order.
TabCommit(t, d) ==
    LET o == tabOrder[t] IN
    /\ tabPc[t] = "holds"
    /\ dispute[d] = "NONE"
    /\ lock[o] = Nobody
    /\ dispute' = [dispute EXCEPT ![d] = "OPEN"]
    /\ disputeOrder' = [disputeOrder EXCEPT ![d] = o]
    /\ slaDue' = [slaDue EXCEPT ![d] = now + Sla]
    /\ hold' = [h \in Holds |->
                   IF h \in tabHolds[t] THEN "HELD_DISPUTED" ELSE hold[h]]
    /\ holdDispute' = [h \in Holds |->
                          IF h \in tabHolds[t] THEN d ELSE holdDispute[h]]
    /\ status' = [status EXCEPT ![o] = "DISPUTED"]
    /\ TabDone(t)
    /\ UNCHANGED <<attempts, lock, guesses, firstDelivered, scheduled,
                   breached>>

TabDies(t) ==
    /\ tabPc[t] # "idle"
    /\ TabDone(t)
    /\ UNCHANGED rows

-----------------------------------------------------------------------------
(* resolveDispute: reads the dispute, then its order's holds, outside a    *)
(* transaction.                                                            *)

Resolutions == {"FULL_REFUND_TO_BUYER", "PARTIAL_REFUND_TO_BUYER",
                "RELEASE_TO_SELLER", "INSURANCE_PAYOUT"}

escrowTarget == [FULL_REFUND_TO_BUYER |-> "REFUNDED",
                 PARTIAL_REFUND_TO_BUYER |-> "PARTIALLY_REFUNDED",
                 RELEASE_TO_SELLER |-> "RELEASED",
                 INSURANCE_PAYOUT |-> "INSURANCE_PAYOUT"]

disputeStatusTarget == [FULL_REFUND_TO_BUYER |-> "RESOLVED_FAVOR_BUYER",
                        PARTIAL_REFUND_TO_BUYER |-> "RESOLVED_PARTIAL",
                        RELEASE_TO_SELLER |-> "RESOLVED_FAVOR_SELLER",
                        INSURANCE_PAYOUT |-> "RESOLVED_INSURANCE"]

orderStatusTarget == [FULL_REFUND_TO_BUYER |-> "REFUNDED",
                      PARTIAL_REFUND_TO_BUYER |-> "REFUNDED",
                      RELEASE_TO_SELLER |-> "COMPLETED",
                      INSURANCE_PAYOUT |-> "REFUNDED"]

AdminReadDispute(a, d) ==
    /\ adminPc[a] = "idle"
    /\ dispute[d] \in Unresolved
    /\ adminPc' = [adminPc EXCEPT ![a] = "dispute"]
    /\ adminDispute' = [adminDispute EXCEPT ![a] = d]
    /\ UNCHANGED <<now, rows, adminHolds, courierVars, devVars, relVars,
                   tabVars, watchVars>>

AdminReadHolds(a) ==
    LET d == adminDispute[a] IN
    /\ adminPc[a] = "dispute"
    /\ adminPc' = [adminPc EXCEPT ![a] = "holds"]
    /\ adminHolds' = [adminHolds EXCEPT ![a] =
                         {h \in HoldsOf(disputeOrder[d]) :
                             hold[h] = "HELD_DISPUTED" /\ holdDispute[h] = d}]
    /\ UNCHANGED <<now, rows, adminDispute, courierVars, devVars, relVars,
                   tabVars, watchVars>>

AdminDone(a) ==
    /\ adminPc' = [adminPc EXCEPT ![a] = "idle"]
    /\ adminDispute' = [adminDispute EXCEPT ![a] = Nobody]
    /\ adminHolds' = [adminHolds EXCEPT ![a] = {}]
    /\ UNCHANGED <<now, courierVars, devVars, relVars, tabVars, watchVars>>

Settle(a, resolution, settled, to) ==
    LET d == adminDispute[a]  o == disputeOrder[d] IN
    /\ adminPc[a] = "holds"
    /\ lock[o] = Nobody
    /\ hold' = [h \in Holds |->
                   IF h \in settled THEN escrowTarget[resolution] ELSE hold[h]]
    /\ dispute' = [dispute EXCEPT ![d] = disputeStatusTarget[resolution]]
    /\ status' = [status EXCEPT ![o] = to]
    /\ AdminDone(a)
    /\ UNCHANGED <<attempts, lock, guesses, firstDelivered, scheduled,
                   holdDispute, disputeOrder, slaDue, breached>>

\* Mutated AdminCommit: the hold update lacks the insurance case.
AdminCommitSkipsInsured(a, resolution) ==
    Settle(a, resolution,
           IF resolution = "INSURANCE_PAYOUT" THEN {} ELSE adminHolds[a],
           orderStatusTarget[resolution])

\* The transaction: the holds read, the dispute, the order, all by id.
AdminCommit(a, resolution) ==
    Settle(a, resolution, adminHolds[a], orderStatusTarget[resolution])

\* The insurance fund refuses the claim and everything rolls back, or the
\* request dies.
AdminFails(a) ==
    /\ adminPc[a] # "idle"
    /\ AdminDone(a)
    /\ UNCHANGED rows

-----------------------------------------------------------------------------
(* sweepDisputeSlaBreaches.                                                *)

WatchFind(w) ==
    LET due == {d \in Disputes :
                   /\ dispute[d] = "OPEN" /\ d \notin breached
                   /\ slaDue[d] # Never /\ slaDue[d] < now} IN
    /\ watchPc[w] = "idle"
    /\ due # {}
    /\ watchPc' = [watchPc EXCEPT ![w] = "loop"]
    /\ watchDue' = [watchDue EXCEPT ![w] = due]
    /\ UNCHANGED <<now, rows, courierVars, devVars, relVars, tabVars,
                   adminVars>>

\* Mutated WatchCommit: flags the breach but does not escalate.
WatchCommitFlagOnly(w, d) ==
    /\ watchPc[w] = "loop"
    /\ d \in watchDue[w]
    /\ watchDue' = [watchDue EXCEPT ![w] = @ \ {d}]
    /\ breached' = breached \union {d}
    /\ UNCHANGED <<now, orderRows, holdRows, dispute, disputeOrder, slaDue,
                   watchPc, courierVars, devVars, relVars, tabVars, adminVars>>

\* The guarded UPDATE: WHERE sla_breached = false, whatever the status.
WatchCommit(w, d) ==
    /\ watchPc[w] = "loop"
    /\ d \in watchDue[w]
    /\ watchDue' = [watchDue EXCEPT ![w] = @ \ {d}]
    /\ \/ /\ d \notin breached
          /\ dispute' = [dispute EXCEPT ![d] = "ESCALATED"]
          /\ breached' = breached \union {d}
       \/ /\ d \in breached
          /\ UNCHANGED <<dispute, breached>>
    /\ UNCHANGED <<now, orderRows, holdRows, disputeOrder, slaDue, watchPc,
                   courierVars, devVars, relVars, tabVars, adminVars>>

WatchEnd(w) ==
    /\ watchPc[w] = "loop"
    /\ watchPc' = [watchPc EXCEPT ![w] = "idle"]
    /\ watchDue' = [watchDue EXCEPT ![w] = {}]
    /\ UNCHANGED <<now, rows, courierVars, devVars, relVars, tabVars,
                   adminVars>>

-----------------------------------------------------------------------------
DoorNext(c) ==
    \/ \E o \in Orders : CourierStart(c, o)
    \/ CourierLock(c)
    \/ CourierGivesUp(c)
    \/ CourierReject(c)
    \/ CourierAccept(c)
    \/ CourierDies(c)

ReleaseNext(r) ==
    \/ RelFind(r)
    \/ \E o \in Orders : RelReadOrder(r, o)
    \/ RelReadHolds(r)
    \/ RelCommit(r)
    \/ RelEnd(r)

TabNext(t) ==
    \/ \E o \in Orders : TabReadOrder(t, o)
    \/ TabReadHolds(t)
    \/ \E d \in Disputes : TabCommit(t, d)
    \/ TabDies(t)

AdminNext(a) ==
    \/ \E d \in Disputes : AdminReadDispute(a, d)
    \/ AdminReadHolds(a)
    \/ \E resolution \in Resolutions : AdminCommit(a, resolution)
    \/ AdminFails(a)

WatchNext(w) ==
    \/ WatchFind(w)
    \/ \E d \in Disputes : WatchCommit(w, d)
    \/ WatchEnd(w)

DevNext(v) == (\E o \in Orders : DevRead(v, o)) \/ DevWrite(v)

Next ==
    \/ Tick
    \/ \E v \in Devs : DevNext(v)
    \/ \E c \in Couriers : DoorNext(c)
    \/ \E r \in Releasers : ReleaseNext(r)
    \/ \E t \in Tabs : TabNext(t)
    \/ \E a \in Admins : AdminNext(a)
    \/ \E w \in Watchers : WatchNext(w)

Spec == Init /\ [][Next]_vars

-----------------------------------------------------------------------------
(* Fairness.  Days pass, and the worker runs both sweeps again at every    *)
(* interval; a sweep may die anywhere, but not every time it gets to the   *)
(* same point.  Nothing is assumed of buyers, couriers and admins.         *)

Fairness ==
    /\ WF_vars(Tick)
    /\ \A r \in Releasers :
          /\ WF_vars(RelFind(r)) /\ WF_vars(RelEnd(r))
          /\ \A o \in Orders : SF_vars(RelReadOrder(r, o))
          /\ SF_vars(RelReadHolds(r)) /\ SF_vars(RelCommit(r))
    /\ \A w \in Watchers :
          /\ WF_vars(WatchFind(w)) /\ WF_vars(WatchEnd(w))
          /\ \A d \in Disputes : SF_vars(WatchCommit(w, d))

FairSpec == Spec /\ Fairness

-----------------------------------------------------------------------------
(* Properties.                                                             *)

Day == Nat \union {Never}

\* Every variable holds a value its column or process state can hold; in
\* particular no order counts more wrong codes than MaxAttempts.
TypeOK ==
    /\ now \in Nat
    /\ status \in [Orders -> OrderRow]
    /\ attempts \in [Orders -> 0..MaxAttempts]
    /\ lock \in [Orders -> Couriers \union {Nobody}]
    /\ guesses \in [Orders -> Nat]
    /\ firstDelivered \in [Orders -> Day]
    /\ hold \in [Holds -> HoldRow]
    /\ scheduled \in [Holds -> Day]
    /\ holdDispute \in [Holds -> Disputes \union {Nobody}]
    /\ dispute \in [Disputes -> DisputeRow]
    /\ disputeOrder \in [Disputes -> Orders \union {Nobody}]
    /\ slaDue \in [Disputes -> Day]
    /\ breached \subseteq Disputes
    /\ courierPc \in [Couriers -> {"idle", "waiting", "checked"}]
    /\ courierOrder \in [Couriers -> Orders \union {Nobody}]
    /\ courierSaw \in [Couriers -> Nat]
    /\ courierNow \in [Couriers -> Nat]
    /\ devNext \in [Devs -> OrderRow \union {"idle"}]
    /\ devOrder \in [Devs -> Orders \union {Nobody}]
    /\ relPc \in [Releasers -> {"idle", "loop", "order", "holds"}]
    /\ relNow \in [Releasers -> Nat]
    /\ relDue \in [Releasers -> SUBSET Orders]
    /\ relOrder \in [Releasers -> Orders \union {Nobody}]
    /\ relHolds \in [Releasers -> SUBSET Holds]
    /\ tabPc \in [Tabs -> {"idle", "order", "holds"}]
    /\ tabOrder \in [Tabs -> Orders \union {Nobody}]
    /\ tabHolds \in [Tabs -> SUBSET Holds]
    /\ adminPc \in [Admins -> {"idle", "dispute", "holds"}]
    /\ adminDispute \in [Admins -> Disputes \union {Nobody}]
    /\ adminHolds \in [Admins -> SUBSET Holds]
    /\ watchPc \in [Watchers -> {"idle", "loop"}]
    /\ watchDue \in [Watchers -> SUBSET Disputes]

\* However many submissions arrive at once, every wrong code is counted:
\* nobody gets a guess for free (the point of the FOR UPDATE lock in
\* confirmDeliveryByCode).
NoFreeGuess == \A o \in Orders : guesses[o] = attempts[o]

\* Once an order is locked by wrong codes no submission delivers it, not
\* even one that was checking the right code at that moment.
LockedIsNotDelivered ==
    \A o \in Orders :
        attempts[o] = MaxAttempts /\ status'[o] = "DELIVERED"
            => status[o] = "DELIVERED"

LockedStaysLocked == [][LockedIsNotDelivered]_vars

\* Every hold still HELD behind a DELIVERED order has a release date: what
\* the sweep looks for is always there to be found.
DeliveredIsScheduled ==
    \A o \in Orders :
        status[o] = "DELIVERED" => \A h \in HeldOf(o) : scheduled[h] # Never

\* A hold is released by the sweep only when the buyer has had the window
\* since the delivery was first confirmed, less at most the life of the
\* transaction that confirmed it (confirmDeliveryByCode dates the delivery
\* before it waits for the row), and no dispute was ever opened on the order,
\* even one that committed after the sweep had chosen the hold (the state
\* guard in releaseEligibleEscrowForOrder).
EarnedRelease ==
    \A h \in Holds :
        hold'[h] = "RELEASING" /\ hold[h] # "RELEASING" =>
            /\ DisputesOf(OrderOf[h]) = {}
            /\ firstDelivered[OrderOf[h]] # Never
            /\ firstDelivered[OrderOf[h]] + Window <= now + TxTimeout

ReleaseIsEarned == [][EarnedRelease]_vars

\* A dispute on an order leaves none of its holds HELD, although it freezes
\* the holds of an earlier read: nothing stays behind for the sweep.
DisputeFreezes ==
    \A o \in Orders : DisputesOf(o) # {} => HeldOf(o) = {}

\* A frozen hold always belongs to a dispute an admin can still resolve, on
\* its own order: no race of disputes, resolutions and escalations leaves
\* money frozen with nobody to unfreeze it.
FrozenHoldHasDispute ==
    \A h \in Holds :
        hold[h] = "HELD_DISPUTED" =>
            \E d \in DisputesOf(OrderOf[h]) :
                holdDispute[h] = d /\ dispute[d] \in Unresolved

\* A DISPUTED order always has a dispute an admin can still resolve (that
\* resolution is its only way out of DISPUTED).
DisputedOrderHasDispute ==
    \A o \in Orders :
        status[o] = "DISPUTED" =>
            \E d \in DisputesOf(o) : dispute[d] \in Unresolved

\* What each process remembers between two steps, strong enough (with the
\* invariants above) to be inductive.  A submission at the door sees the
\* order row as it is, because it holds the lock.
DoorMemory ==
    \A c \in Couriers :
        LET o == courierOrder[c] IN
        /\ courierPc[c] # "idle" => o \in Orders
        /\ courierPc[c] = "checked" =>
              /\ lock[o] = c
              /\ courierSaw[c] = attempts[o]
              /\ attempts[o] < MaxAttempts

DevMemory ==
    \A v \in Devs :
        devNext[v] # "idle" =>
            /\ devOrder[v] \in Orders
            /\ devNext[v] \notin {"DELIVERED", "DISPUTED"}

\* The release date of a hold leaves the buyer the window, less the life of
\* a transaction.
Dates ==
    /\ \A o \in Orders :
          firstDelivered[o] # Never => firstDelivered[o] <= now
    /\ \A h \in Holds :
          scheduled[h] # Never =>
              /\ firstDelivered[OrderOf[h]] # Never
              /\ firstDelivered[OrderOf[h]] + Window <= scheduled[h] + TxTimeout

RelMemory ==
    \A r \in Releasers :
        /\ relNow[r] <= now
        /\ relPc[r] \in {"order", "holds"} => relOrder[r] \in Orders
        /\ \A h \in relHolds[r] :
              /\ firstDelivered[OrderOf[h]] # Never
              /\ firstDelivered[OrderOf[h]] + Window <= now + TxTimeout

\* A hold that is HELD now was HELD when the tab read the holds.
TabMemory ==
    \A t \in Tabs :
        /\ tabPc[t] # "idle" => tabOrder[t] \in Orders
        /\ tabPc[t] # "holds" => tabHolds[t] = {}
        /\ tabPc[t] = "holds" => /\ HeldOf(tabOrder[t]) \subseteq tabHolds[t]
                                 /\ tabHolds[t] \subseteq HoldsOf(tabOrder[t])

\* The holds a dispute freezes are fixed when it is opened.
AdminMemory ==
    \A a \in Admins :
        /\ adminPc[a] # "idle" =>
              /\ adminDispute[a] \in Disputes
              /\ dispute[adminDispute[a]] # "NONE"
        /\ adminPc[a] = "holds" =>
              \A h \in Holds :
                  hold[h] = "HELD_DISPUTED" /\ holdDispute[h] = adminDispute[a]
                      => h \in adminHolds[a]

WatchMemory ==
    \A w \in Watchers : \A d \in watchDue[w] : dispute[d] # "NONE"

DisputeHasOrder ==
    \A d \in Disputes : (dispute[d] = "NONE") <=> (disputeOrder[d] = Nobody)

Memory == /\ DoorMemory /\ DevMemory /\ Dates /\ RelMemory /\ TabMemory
          /\ AdminMemory /\ WatchMemory /\ DisputeHasOrder

IInv == /\ TypeOK /\ Memory /\ NoFreeGuess /\ DeliveredIsScheduled
        /\ DisputeFreezes /\ FrozenHoldHasDispute /\ DisputedOrderHasDispute

\* What only a dispute and its resolution do to a hold, beside IInv: nothing
\* before the first dispute, and the sweep releases what was delivered and
\* has had the window.
Undisputed ==
    /\ \A h \in Holds :
          /\ DisputesOf(OrderOf[h]) = {} => hold[h] \in {"HELD", "RELEASING"}
          /\ hold[h] = "RELEASING" =>
                /\ firstDelivered[OrderOf[h]] # Never
                /\ firstDelivered[OrderOf[h]] + Window <= now + TxTimeout
    /\ \A a \in Admins : \A h \in adminHolds[a] : DisputesOf(OrderOf[h]) # {}

\* Money behind a delivered order does not stay HELD for ever: the sweep
\* releases it unless a dispute (or the development-only advance) takes the
\* order out of DELIVERED first.
DeliveredIsReleased ==
    \A h \in Holds :
        hold[h] = "HELD" /\ status[OrderOf[h]] = "DELIVERED"
            ~> hold[h] # "HELD" \/ status[OrderOf[h]] # "DELIVERED"

\* No dispute stays OPEN for ever once its SLA has passed.
OverdueIsEscalated ==
    \A d \in Disputes :
        dispute[d] = "OPEN" /\ slaDue[d] < now ~> dispute[d] # "OPEN"

\* From the header of dispute-sla.ts: "Already-escalated, resolved, closed,
\* or withdrawn disputes are skipped" by the sweep.
SweepSkipsResolved ==
    [][\A d \in Disputes :
          dispute[d] \in Resolved => dispute'[d] # "ESCALATED"]_vars
=============================================================================
