------------------------------ MODULE Checkout ------------------------------
(***************************************************************************)
(* From the checkout form to a settled order: the server action that       *)
(* places an order, Stripe and its webhook, and the worker sweep that      *)
(* expires abandoned orders.  All of them write the same order, payment    *)
(* and escrow rows through Postgres at READ COMMITTED.                     *)
(*                                                                         *)
(* A transaction is split where it matters: a plain read is one step, and  *)
(* the guarded UPDATE with everything after it up to the commit is another *)
(* (the UPDATE re-checks its WHERE under the row lock, which the           *)
(* transaction then keeps until it commits).  Another process may commit   *)
(* in between.  A process may die between any two of its steps.            *)
(*                                                                         *)
(* Stripe is external: it opens an intent when asked, captures it when the *)
(* buyer confirms, and delivers payment_intent.succeeded until it gets a   *)
(* 2xx, possibly several times and to several handlers at once.            *)
(***************************************************************************)
EXTENDS Naturals, FiniteSets

CONSTANTS
    Orders,     \* order ids: one per checkout request that builds an order
    Carts,      \* cart ids
    Sellers,    \* seller ids
    CartOf,     \* CartOf[o]: the cart the request of order o reads
    SellersOf,  \* SellersOf[o]: the sellers of the items in that cart
    Hooks,      \* webhook requests in flight at once
    Sweeps,     \* worker replicas running the expiry sweep
    NoOrder     \* "not working on an order"

ASSUME CheckoutAssumption ==
    /\ CartOf \in [Orders -> Carts]
    /\ SellersOf \in [Orders -> SUBSET Sellers]
    /\ NoOrder \notin Orders

VARIABLES
    \* rows
    status,          \* orders.status ("NONE": no such row)
    rail,            \* orders.payment_method, as the two code paths it selects
    payment,         \* payments.status
    holds,           \* number of escrow_holds rows per order and seller
    history,         \* to_status values in order_status_history
    intentOnOrder,   \* orders whose payment_intent_id is set
    intentOnPayment, \* orders whose payment row has a provider_payment_id
    flagged,         \* orders with a payment.amount_mismatch audit row
    carts,           \* carts that still exist
    aged,            \* orders created more than DEFAULT_EXPIRY_MS ago
    \* Stripe
    intent,          \* the order's PaymentIntent
    cancelCalls,     \* orders whose intent we asked Stripe to cancel
    acked,           \* orders whose succeeded event was answered 2xx
    \* processes
    place,           \* where the checkout request of each order is
    hookPc, hookOrder,
    sweepPc, sweepDue, sweepOrder

rows == <<status, rail, payment, holds, history, intentOnOrder,
          intentOnPayment, flagged, carts, aged>>
stripe == <<intent, cancelCalls, acked>>
hookVars == <<hookPc, hookOrder>>
sweepVars == <<sweepPc, sweepDue, sweepOrder>>
vars == <<rows, stripe, place, hookVars, sweepVars>>

OrderRow == {"NONE", "PENDING_PAYMENT", "PAID", "EXPIRED"}
PaymentRow == {"NONE", "PENDING", "CAPTURED", "FAILED"}
Rail == {"none", "mock", "card"}
\* "captured": exactly the order's total; "captured_other": any other amount
\* or currency.
Intent == {"none", "open", "captured", "captured_other", "canceled"}
Captured == {"captured", "captured_other"}
PlacePc == {"idle", "assembled", "built", "read", "settled", "opened",
            "handed", "done"}

NoHolds == [s \in Sellers |-> 0]
OneHoldEach(o) == [s \in Sellers |-> IF s \in SellersOf[o] THEN 1 ELSE 0]

Init ==
    /\ status = [o \in Orders |-> "NONE"]
    /\ rail = [o \in Orders |-> "none"]
    /\ payment = [o \in Orders |-> "NONE"]
    /\ holds = [o \in Orders |-> NoHolds]
    /\ history = [o \in Orders |-> {}]
    /\ intentOnOrder = {}
    /\ intentOnPayment = {}
    /\ flagged = {}
    /\ carts = Carts
    /\ aged = {}
    /\ intent = [o \in Orders |-> "none"]
    /\ cancelCalls = {}
    /\ acked = {}
    /\ place = [o \in Orders |-> "idle"]
    /\ hookPc = [h \in Hooks |-> "idle"]
    /\ hookOrder = [h \in Hooks |-> NoOrder]
    /\ sweepPc = [w \in Sweeps |-> "idle"]
    /\ sweepDue = [w \in Sweeps |-> {}]
    /\ sweepOrder = [w \in Sweeps |-> NoOrder]

-----------------------------------------------------------------------------
(* finalizePaidOrder, shared by the mock rail and the webhook.             *)

\* Everything after the guarded UPDATE matched one row.  ref is {o} when the
\* caller passes a providerPaymentId and {} when it does not.
MarkPaid(o, ref) ==
    /\ status' = [status EXCEPT ![o] = "PAID"]
    /\ payment' = [payment EXCEPT ![o] = "CAPTURED"]
    /\ holds' = [holds EXCEPT ![o] =
                    [s \in Sellers |->
                        holds[o][s] + (IF s \in SellersOf[o] THEN 1 ELSE 0)]]
    /\ history' = [history EXCEPT ![o] = @ \union {"PAID"}]
    /\ intentOnOrder' = intentOnOrder \union ref
    /\ intentOnPayment' = intentOnPayment \union ref

\* Mutated FinalizeCommit: UPDATE by id alone.
FinalizeUnguarded(o, ref) == MarkPaid(o, ref)

\* The guarded UPDATE: WHERE status = 'PENDING_PAYMENT'; a count of 0 is
\* already_finalized and writes nothing.
FinalizeCommit(o, ref) ==
    \/ /\ status[o] = "PENDING_PAYMENT"
       /\ MarkPaid(o, ref)
    \/ /\ status[o] # "PENDING_PAYMENT"
       /\ UNCHANGED <<status, payment, holds, history, intentOnOrder,
                      intentOnPayment>>

-----------------------------------------------------------------------------
(* placeOrder and createCardPaymentIntent, one request per order.          *)

\* assembleOrderDraft reads the cart outside any transaction.
Assemble(o) ==
    /\ place[o] = "idle"
    /\ CartOf[o] \in carts
    /\ place' = [place EXCEPT ![o] = "assembled"]
    /\ UNCHANGED <<rows, stripe, hookVars, sweepVars>>

\* buildPendingOrder commits order, items and payment in one transaction.
BuildPending(o, r) ==
    /\ place[o] = "assembled"
    /\ place' = [place EXCEPT ![o] = "built"]
    /\ status' = [status EXCEPT ![o] = "PENDING_PAYMENT"]
    /\ rail' = [rail EXCEPT ![o] = r]
    /\ payment' = [payment EXCEPT ![o] = "PENDING"]
    /\ UNCHANGED <<holds, history, intentOnOrder, intentOnPayment, flagged,
                   carts, aged, stripe, hookVars, sweepVars>>

\* Mock rail: the findUnique of finalizePaidOrder, called without an amount.
MockRead(o) ==
    /\ place[o] = "built"
    /\ rail[o] = "mock"
    /\ place' = [place EXCEPT ![o] =
                    IF status[o] = "PENDING_PAYMENT" THEN "read" ELSE "settled"]
    /\ UNCHANGED <<rows, stripe, hookVars, sweepVars>>

MockCommit(o) ==
    /\ place[o] = "read"
    /\ FinalizeCommit(o, {})
    /\ place' = [place EXCEPT ![o] = "settled"]
    /\ UNCHANGED <<rail, flagged, carts, aged, stripe, hookVars, sweepVars>>

\* The cart goes whatever finalizePaidOrder returned.
ClearCart(o) ==
    /\ place[o] = "settled"
    /\ carts' = carts \ {CartOf[o]}
    /\ place' = [place EXCEPT ![o] = "done"]
    /\ UNCHANGED <<status, rail, payment, holds, history, intentOnOrder,
                   intentOnPayment, flagged, aged, stripe, hookVars, sweepVars>>

\* Card rail: stripe.paymentIntents.create, then the write that records the
\* intent id on the payment row (and only there), then the client secret
\* reaches the buyer.
OpenIntent(o) ==
    /\ place[o] = "built"
    /\ rail[o] = "card"
    /\ intent' = [intent EXCEPT ![o] = "open"]
    /\ place' = [place EXCEPT ![o] = "opened"]
    /\ UNCHANGED <<rows, cancelCalls, acked, hookVars, sweepVars>>

RecordIntent(o) ==
    /\ place[o] = "opened"
    /\ intentOnPayment' = intentOnPayment \union {o}
    /\ place' = [place EXCEPT ![o] = "handed"]
    /\ UNCHANGED <<status, rail, payment, holds, history, intentOnOrder,
                   flagged, carts, aged, stripe, hookVars, sweepVars>>

\* The request dies (process crash, Stripe error) between two of its steps.
RequestDies(o) ==
    /\ place[o] \in {"assembled", "built", "read", "settled", "opened"}
    /\ place' = [place EXCEPT ![o] = "done"]
    /\ UNCHANGED <<rows, stripe, hookVars, sweepVars>>

\* Thirty minutes pass since the order was created.
GrowOld(o) ==
    /\ status[o] = "PENDING_PAYMENT"
    /\ o \notin aged
    /\ aged' = aged \union {o}
    /\ UNCHANGED <<status, rail, payment, holds, history, intentOnOrder,
                   intentOnPayment, flagged, carts, stripe, place, hookVars,
                   sweepVars>>

-----------------------------------------------------------------------------
(* Stripe and the webhook handler.                                         *)

\* The buyer confirms with the client secret; from here on the succeeded
\* event can be delivered.
Capture(o, outcome) ==
    /\ intent[o] = "open"
    /\ place[o] = "handed"
    /\ intent' = [intent EXCEPT ![o] = outcome]
    /\ UNCHANGED <<rows, cancelCalls, acked, place, hookVars, sweepVars>>

\* Mutated HookSettledAlready: anything but a fresh finalization is an error
\* reply, which Stripe retries.
HookSettledRefused(h, o) ==
    /\ hookPc[h] = "idle"
    /\ intent[o] \in Captured
    /\ status[o] # "PENDING_PAYMENT"
    /\ UNCHANGED vars

\* A delivery that finds the order settled already: 200, no retry.
HookSettledAlready(h, o) ==
    /\ hookPc[h] = "idle"
    /\ intent[o] \in Captured
    /\ status[o] # "PENDING_PAYMENT"
    /\ acked' = acked \union {o}
    /\ UNCHANGED <<rows, intent, cancelCalls, place, hookVars, sweepVars>>

\* Mutated HookMismatch: the audit row is dropped.
HookMismatchSilent(h, o) ==
    /\ hookPc[h] = "idle"
    /\ intent[o] = "captured_other"
    /\ status[o] = "PENDING_PAYMENT"
    /\ acked' = acked \union {o}
    /\ UNCHANGED <<rows, intent, cancelCalls, place, hookVars, sweepVars>>

\* A delivery whose captured amount or currency is not the order's: audit,
\* then 200.
HookMismatch(h, o) ==
    /\ hookPc[h] = "idle"
    /\ intent[o] = "captured_other"
    /\ status[o] = "PENDING_PAYMENT"
    /\ flagged' = flagged \union {o}
    /\ acked' = acked \union {o}
    /\ UNCHANGED <<status, rail, payment, holds, history, intentOnOrder,
                   intentOnPayment, carts, aged, intent, cancelCalls, place,
                   hookVars, sweepVars>>

\* The same, but the handler dies between the audit row and the 200.
HookFlagsThenDies(h, o) ==
    /\ hookPc[h] = "idle"
    /\ intent[o] = "captured_other"
    /\ status[o] = "PENDING_PAYMENT"
    /\ flagged' = flagged \union {o}
    /\ UNCHANGED <<status, rail, payment, holds, history, intentOnOrder,
                   intentOnPayment, carts, aged, stripe, place, hookVars,
                   sweepVars>>

\* Mutated HookRead: trusts that the captured amount is the order's.
HookReadAnyAmount(h, o) ==
    /\ hookPc[h] = "idle"
    /\ intent[o] \in Captured
    /\ status[o] = "PENDING_PAYMENT"
    /\ hookPc' = [hookPc EXCEPT ![h] = "read"]
    /\ hookOrder' = [hookOrder EXCEPT ![h] = o]
    /\ UNCHANGED <<rows, stripe, place, sweepVars>>

\* A delivery that reads the order PENDING_PAYMENT and the right amount.
HookRead(h, o) ==
    /\ hookPc[h] = "idle"
    /\ intent[o] = "captured"
    /\ status[o] = "PENDING_PAYMENT"
    /\ hookPc' = [hookPc EXCEPT ![h] = "read"]
    /\ hookOrder' = [hookOrder EXCEPT ![h] = o]
    /\ UNCHANGED <<rows, stripe, place, sweepVars>>

HookCommit(h) ==
    /\ hookPc[h] = "read"
    /\ FinalizeCommit(hookOrder[h], {hookOrder[h]})
    /\ hookPc' = [hookPc EXCEPT ![h] = "reply"]
    /\ UNCHANGED <<rail, flagged, carts, aged, stripe, place, hookOrder,
                   sweepVars>>

HookReply(h) ==
    /\ hookPc[h] = "reply"
    /\ acked' = acked \union {hookOrder[h]}
    /\ hookPc' = [hookPc EXCEPT ![h] = "idle"]
    /\ hookOrder' = [hookOrder EXCEPT ![h] = NoOrder]
    /\ UNCHANGED <<rows, intent, cancelCalls, place, sweepVars>>

\* The handler dies without answering; Stripe will deliver again.
HookDies(h) ==
    /\ hookPc[h] # "idle"
    /\ hookPc' = [hookPc EXCEPT ![h] = "idle"]
    /\ hookOrder' = [hookOrder EXCEPT ![h] = NoOrder]
    /\ UNCHANGED <<rows, stripe, place, sweepVars>>

-----------------------------------------------------------------------------
(* expireStalePendingOrders and expirePendingOrder.                        *)

\* Mutated SweepFind: only orders whose own row carries an intent.
SweepFindWithIntent(w) ==
    LET due == {o \in aged : status[o] = "PENDING_PAYMENT"
                                 /\ o \in intentOnOrder} IN
    /\ sweepPc[w] = "idle"
    /\ due # {}
    /\ sweepDue' = [sweepDue EXCEPT ![w] = due]
    /\ sweepPc' = [sweepPc EXCEPT ![w] = "loop"]
    /\ UNCHANGED <<rows, stripe, place, hookVars, sweepOrder>>

\* The candidate query.  The loop may take the candidates in any order here;
\* the code takes them oldest first, 500 at a time.
SweepFind(w) ==
    LET due == {o \in aged : status[o] = "PENDING_PAYMENT"} IN
    /\ sweepPc[w] = "idle"
    /\ due # {}
    /\ sweepDue' = [sweepDue EXCEPT ![w] = due]
    /\ sweepPc' = [sweepPc EXCEPT ![w] = "loop"]
    /\ UNCHANGED <<rows, stripe, place, hookVars, sweepOrder>>

\* expirePendingOrder's read: an order that has moved on is skipped.
SweepRead(w, o) ==
    /\ sweepPc[w] = "loop"
    /\ o \in sweepDue[w]
    /\ sweepDue' = [sweepDue EXCEPT ![w] = @ \ {o}]
    /\ \/ /\ status[o] # "PENDING_PAYMENT"
          /\ UNCHANGED <<sweepPc, sweepOrder>>
       \/ /\ status[o] = "PENDING_PAYMENT"
          /\ sweepPc' = [sweepPc EXCEPT ![w] = "read"]
          /\ sweepOrder' = [sweepOrder EXCEPT ![w] = o]
    /\ UNCHANGED <<rows, stripe, place, hookVars>>

\* What the post-commit cancel does at Stripe: it runs only when the order
\* row itself carries an intent id; it fails unless the intent is open, and
\* an open one may also fail to be canceled (network).
CancelIntent(o) ==
    IF o \in intentOnOrder
    THEN /\ cancelCalls' = cancelCalls \union {o}
         /\ intent' \in {intent, [intent EXCEPT ![o] =
                                    IF @ = "open" THEN "canceled" ELSE @]}
    ELSE UNCHANGED <<intent, cancelCalls>>

\* The guarded UPDATE of the order, the UPDATE of its PENDING payment, the
\* history row, and the cancel that follows the commit.
MarkExpired(o) ==
    /\ status' = [status EXCEPT ![o] = "EXPIRED"]
    /\ payment' = [payment EXCEPT ![o] = IF @ = "PENDING" THEN "FAILED" ELSE @]
    /\ history' = [history EXCEPT ![o] = @ \union {"EXPIRED"}]
    /\ CancelIntent(o)

\* Mutated ExpireCommit: UPDATE by id alone.
ExpireUnguarded(o) == MarkExpired(o)

ExpireCommit(o) ==
    \/ /\ status[o] = "PENDING_PAYMENT"
       /\ MarkExpired(o)
    \/ /\ status[o] # "PENDING_PAYMENT"
       /\ UNCHANGED <<status, payment, history, intent, cancelCalls>>

SweepCommit(w) ==
    /\ sweepPc[w] = "read"
    /\ ExpireCommit(sweepOrder[w])
    /\ sweepPc' = [sweepPc EXCEPT ![w] = "loop"]
    /\ sweepOrder' = [sweepOrder EXCEPT ![w] = NoOrder]
    /\ UNCHANGED <<rail, holds, intentOnOrder, intentOnPayment, flagged, carts,
                   aged, acked, place, hookVars, sweepDue>>

\* The loop is over, or a failure before the commit ends the whole sweep and
\* drops the candidates it had left.
SweepEnd(w) ==
    /\ sweepPc[w] # "idle"
    /\ sweepPc' = [sweepPc EXCEPT ![w] = "idle"]
    /\ sweepDue' = [sweepDue EXCEPT ![w] = {}]
    /\ sweepOrder' = [sweepOrder EXCEPT ![w] = NoOrder]
    /\ UNCHANGED <<rows, stripe, place, hookVars>>

-----------------------------------------------------------------------------
PlaceNext(o) ==
    \/ Assemble(o)
    \/ \E r \in {"mock", "card"} : BuildPending(o, r)
    \/ MockRead(o)
    \/ MockCommit(o)
    \/ ClearCart(o)
    \/ OpenIntent(o)
    \/ RecordIntent(o)
    \/ RequestDies(o)
    \/ GrowOld(o)
    \/ \E c \in Captured : Capture(o, c)

HookNext(h) ==
    \/ \E o \in Orders : HookSettledAlready(h, o)
    \/ \E o \in Orders : HookMismatch(h, o)
    \/ \E o \in Orders : HookFlagsThenDies(h, o)
    \/ \E o \in Orders : HookRead(h, o)
    \/ HookCommit(h)
    \/ HookReply(h)
    \/ HookDies(h)

SweepNext(w) ==
    \/ SweepFind(w)
    \/ \E o \in Orders : SweepRead(w, o)
    \/ SweepCommit(w)
    \/ SweepEnd(w)

Next ==
    \/ \E o \in Orders : PlaceNext(o)
    \/ \E h \in Hooks : HookNext(h)
    \/ \E w \in Sweeps : SweepNext(w)

Spec == Init /\ [][Next]_vars

-----------------------------------------------------------------------------
(* Fairness.  Time passes; the worker runs the sweep again at every        *)
(* interval and no failure before the commit recurs for ever; Stripe keeps *)
(* delivering an event that was not answered 2xx and a handler does not    *)
(* die every time.  Nothing is assumed of the buyer or of the checkout     *)
(* request, which may stop anywhere.                                       *)

Deliver(h, o) == HookSettledAlready(h, o) \/ HookMismatch(h, o) \/ HookRead(h, o)

Fairness ==
    /\ \A o \in Orders : /\ WF_vars(GrowOld(o))
                          /\ SF_vars(\E h \in Hooks : Deliver(h, o))
                          /\ \A w \in Sweeps : SF_vars(SweepRead(w, o))
    /\ \A w \in Sweeps : /\ WF_vars(SweepFind(w)) /\ WF_vars(SweepEnd(w))
                          /\ SF_vars(SweepCommit(w))
    /\ \A h \in Hooks : SF_vars(HookCommit(h)) /\ SF_vars(HookReply(h))

FairSpec == Spec /\ Fairness

-----------------------------------------------------------------------------
(* Properties.                                                             *)

\* Every variable holds a value its column or process state can hold.
TypeOK ==
    /\ status \in [Orders -> OrderRow]
    /\ rail \in [Orders -> Rail]
    /\ payment \in [Orders -> PaymentRow]
    /\ holds \in [Orders -> [Sellers -> Nat]]
    /\ history \in [Orders -> SUBSET {"PAID", "EXPIRED"}]
    /\ intentOnOrder \subseteq Orders
    /\ intentOnPayment \subseteq Orders
    /\ flagged \subseteq Orders
    /\ carts \subseteq Carts
    /\ aged \subseteq Orders
    /\ intent \in [Orders -> Intent]
    /\ cancelCalls \subseteq Orders
    /\ acked \subseteq Orders
    /\ place \in [Orders -> PlacePc]
    /\ hookPc \in [Hooks -> {"idle", "read", "reply"}]
    /\ hookOrder \in [Hooks -> Orders \union {NoOrder}]
    /\ sweepPc \in [Sweeps -> {"idle", "loop", "read"}]
    /\ sweepDue \in [Sweeps -> SUBSET Orders]
    /\ sweepOrder \in [Sweeps -> Orders \union {NoOrder}]

\* The order, payment, escrow and history rows of one order always tell the
\* same story, whichever of the mock rail, several webhook deliveries and
\* several sweeps settled it: paid with one hold per seller, expired with
\* none, or neither yet.  (finalizePaidOrder and expirePendingOrder write
\* four tables each and race for the same order.)
RowsAre(o, p, hs, hist) == payment[o] = p /\ holds[o] = hs /\ history[o] = hist

RowsAgree ==
    \A o \in Orders :
        /\ status[o] = "NONE" => RowsAre(o, "NONE", NoHolds, {})
        /\ status[o] = "PENDING_PAYMENT" => RowsAre(o, "PENDING", NoHolds, {})
        /\ status[o] = "PAID" => RowsAre(o, "CAPTURED", OneHoldEach(o), {"PAID"})
        /\ status[o] = "EXPIRED" => RowsAre(o, "FAILED", NoHolds, {"EXPIRED"})

\* A card order is PAID only if Stripe captured exactly its total: no
\* delivery, retry or race marks it paid otherwise (the reconciliation in
\* finalizePaidOrder).
CardPaidMeansCaptured ==
    \A o \in Orders :
        status[o] = "PAID" /\ rail[o] = "card" => intent[o] = "captured"

\* Once Stripe has its 2xx it never delivers again, so by then the order is
\* settled or the charge is flagged for manual review: the webhook never
\* answers 2xx while its event still has something to do.
AckedIsAccounted ==
    \A o \in acked : status[o] \in {"PAID", "EXPIRED"} \/ o \in flagged

\* What the processes remember between two steps still holds when they go
\* on; with the invariants above it is inductive.
RequestMemory ==
    \A o \in Orders :
        /\ place[o] \in {"idle", "assembled"} => status[o] = "NONE"
        /\ place[o] \in {"idle", "assembled", "built"} => intent[o] = "none"
        /\ place[o] \in {"built", "read", "opened", "handed"}
              => status[o] # "NONE"
        /\ place[o] = "read" => rail[o] = "mock"
        /\ place[o] = "settled" => status[o] \in {"PAID", "EXPIRED"}
        /\ intent[o] # "none" => status[o] # "NONE"

HookMemory ==
    \A h \in Hooks :
        hookPc[h] # "idle" =>
            /\ hookOrder[h] \in Orders
            /\ intent[hookOrder[h]] = "captured"
            /\ hookPc[h] = "reply" =>
                  status[hookOrder[h]] \in {"PAID", "EXPIRED"}

SweepMemory ==
    \A w \in Sweeps : sweepPc[w] = "read" => sweepOrder[w] \in Orders

Memory == RequestMemory /\ HookMemory /\ SweepMemory

IInv == /\ TypeOK /\ Memory /\ RowsAgree
        /\ CardPaidMeansCaptured /\ AckedIsAccounted

\* The rows implement the abstract promise: an order is settled at most once
\* and becomes paid in the very step that funds one hold per seller.
OutcomeOf == [o \in Orders |->
    CASE status[o] = "NONE" -> "absent"
      [] status[o] = "PENDING_PAYMENT" -> "open"
      [] status[o] = "PAID" -> "paid"
      [] OTHER -> "expired"]

Outcome == INSTANCE OrderOutcome WITH outcome <- OutcomeOf, escrow <- holds

ImplementsOutcome == Outcome!Spec

\* No order stays PENDING_PAYMENT for ever: what no rail finalizes, the
\* sweep expires, although any run of it may be cut short.
EveryOrderSettles ==
    \A o \in Orders :
        status[o] = "PENDING_PAYMENT" ~> status[o] \in {"PAID", "EXPIRED"}

\* Every captured charge is answered in the end, however often a handler
\* dies between its commit and its reply: the retry finds the order settled
\* and still says 2xx.
CaptureIsAnswered ==
    \A o \in Orders : intent[o] \in Captured ~> o \in acked

\* From placeOrder (apps/web/app/actions/order.ts:82, "Clear the cart on
\* success."): a cart is gone only when an order built from it was paid; a
\* checkout whose order the sweep expired first leaves the buyer the cart.
CartClearedOnSuccess ==
    \A c \in Carts \ carts :
        \E o \in Orders : CartOf[o] = c /\ status[o] = "PAID"

\* From docs/superpowers/specs/2026-05-31-expire-stale-pending-orders-design.md
\* ("A captured-then-expired order is impossible"): a charge captured for
\* exactly the order's total and acknowledged to Stripe paid its order.
CapturedIsPaid ==
    \A o \in acked : intent[o] = "captured" => status[o] = "PAID"
=============================================================================
