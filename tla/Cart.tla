-------------------------------- MODULE Cart --------------------------------
(***************************************************************************)
(* The cart: rows found or created under the session id of a cookie that   *)
(* all tabs of a browser share, and the checkout that reads and clears     *)
(* them.  Every query of a request is a step of its own; there are no      *)
(* transactions and no unique index on sessions or on products of a cart.  *)
(***************************************************************************)
EXTENDS Integers, FiniteSets, FiniteSetsExt

CONSTANTS
    Browsers, Tabs,
    Products, Price,
    Zones, ZoneFee,     \* base_delivery_fee
    FreeFrom, PageFee,  \* what the pages say delivery costs, and up to where
    Cap,                \* the most that the + button leads to
    NoOne,
    MaxSessions, MaxCarts, MaxItems,    \* bounds: ids ever given
    MaxQuantity,        \* bound: quantity of a row up to which one can add
    MaxOrders           \* bound: orders

Sessions == 1 .. MaxSessions
Carts == 1 .. MaxCarts
Items == 1 .. MaxItems

ASSUME CartAssumption ==
    /\ Price \in [Products -> Nat] /\ ZoneFee \in [Zones -> Nat]
    /\ FreeFrom \in Nat /\ PageFee \in Nat /\ Cap \in Nat \ {0}
    /\ NoOne \notin Browsers \union Products
    /\ MaxSessions \in Nat /\ MaxCarts \in Nat /\ MaxItems \in Nat
    /\ MaxQuantity \in Nat /\ MaxOrders \in Nat
    /\ IsFiniteSet(Tabs)

VARIABLES
    browserOf,          \* the browser of a tab
    cookie,             \* vdr_cart, 0 when there is none
    owner,              \* ghost: the browser for which a session id was minted
    cartSession,        \* the session of a cart row, 0 when there is no row
    item,               \* the rows [cart, product, quantity], cart 0 for none
    used,               \* how many session, cart and item ids were given
    cartPc, request,    \* a tab's server action, and what it has read
    placed              \* orders

tabVars == <<browserOf, cookie, owner>>
cartRows == <<cartSession, item, used>>
cartVars == <<tabVars, cartRows, cartPc, request, placed>>

NoItem == [cart |-> 0, product |-> NoOne, quantity |-> 0]
NoRequest == [session |-> 0, cart |-> 0, product |-> NoOne, item |-> 0,
              quantity |-> 0, lines |-> [p \in Products |-> 0]]

CartInit ==
    /\ browserOf \in [Tabs -> Browsers]
    /\ cookie = [b \in Browsers |-> 0]
    /\ owner = [s \in Sessions |-> NoOne]
    /\ cartSession = [c \in Carts |-> 0]
    /\ item = [i \in Items |-> NoItem]
    /\ used = [sessions |-> 0, carts |-> 0, items |-> 0]
    /\ cartPc = [t \in Tabs |-> "idle"]
    /\ request = [t \in Tabs |-> NoRequest]
    /\ placed = {}

CartsOf(s) == {c \in Carts : s # 0 /\ cartSession[c] = s}
ItemsOf(c) == {i \in Items : c # 0 /\ item[i].cart = c}
RowsOf(c, p) == {i \in ItemsOf(c) : item[i].product = p}
Jar(t) == cookie[browserOf[t]]

At(t, pc) == cartPc[t] = pc
Goto(t, pc, r) ==
    /\ cartPc' = [cartPc EXCEPT ![t] = pc]
    /\ request' = [request EXCEPT ![t] = r]
Done(t) == Goto(t, "idle", NoRequest)

\* The response carries the cookie that the action set.
Responds(t) == cookie' = [cookie EXCEPT ![browserOf[t]] = request[t].session]

-----------------------------------------------------------------------------
(* addToCart.                                                              *)

\* The session id of the cookie, or a new one.
AddStart(t, p) ==
    /\ At(t, "idle")
    /\ \/ /\ Jar(t) # 0
          /\ Goto(t, "add-cart", [NoRequest EXCEPT !.product = p, !.session = Jar(t)])
          /\ UNCHANGED <<owner, used>>
       \/ /\ Jar(t) = 0 /\ used.sessions < MaxSessions
          /\ used' = [used EXCEPT !.sessions = @ + 1]
          /\ owner' = [owner EXCEPT ![used'.sessions] = browserOf[t]]
          /\ Goto(t, "add-cart",
                  [NoRequest EXCEPT !.product = p, !.session = used'.sessions])
    /\ UNCHANGED <<browserOf, cookie, cartSession, item, placed>>

FindCart(t) ==
    /\ At(t, "add-cart")
    /\ \/ \E c \in CartsOf(request[t].session) :
             Goto(t, "add-item", [request[t] EXCEPT !.cart = c])
       \/ /\ CartsOf(request[t].session) = {}
          /\ Goto(t, "new-cart", request[t])
    /\ UNCHANGED <<tabVars, cartRows, placed>>

CreateCart(t) ==
    /\ At(t, "new-cart") /\ used.carts < MaxCarts
    /\ used' = [used EXCEPT !.carts = @ + 1]
    /\ cartSession' = [cartSession EXCEPT ![used'.carts] = request[t].session]
    /\ Goto(t, "add-item", [request[t] EXCEPT !.cart = used'.carts])
    /\ UNCHANGED <<tabVars, item, placed>>

FindItem(t) ==
    /\ At(t, "add-item")
    /\ LET found == RowsOf(request[t].cart, request[t].product) IN
       \/ \E i \in found :
             Goto(t, "bump", [request[t] EXCEPT !.item = i, !.quantity = item[i].quantity])
       \/ found = {} /\ Goto(t, "new-item", request[t])
    /\ UNCHANGED <<tabVars, cartRows, placed>>

\* The row gets what was read and one more; an update without row throws.
Bump(t) ==
    /\ At(t, "bump") /\ request[t].quantity < MaxQuantity
    /\ \/ /\ item[request[t].item] # NoItem
          /\ item' = [item EXCEPT ![request[t].item].quantity = request[t].quantity + 1]
          /\ Responds(t)
       \/ item[request[t].item] = NoItem /\ UNCHANGED <<item, cookie>>
    /\ Done(t)
    /\ UNCHANGED <<browserOf, owner, cartSession, used, placed>>

\* A row of a cart that is gone violates the foreign key.
CreateItem(t) ==
    /\ At(t, "new-item") /\ used.items < MaxItems
    /\ \/ /\ cartSession[request[t].cart] # 0
          /\ used' = [used EXCEPT !.items = @ + 1]
          /\ item' = [item EXCEPT ![used'.items] =
                 [cart |-> request[t].cart, product |-> request[t].product, quantity |-> 1]]
          /\ Responds(t)
       \/ cartSession[request[t].cart] = 0 /\ UNCHANGED <<item, used, cookie>>
    /\ Done(t)
    /\ UNCHANGED <<browserOf, owner, cartSession, placed>>

-----------------------------------------------------------------------------
(* removeCartItem and updateCartItemQuantity.                              *)

Mine(t, i) == item[i] # NoItem /\ cartSession[item[i].cart] = Jar(t)

\* Mutated MayTouch: the row's id is enough.
MayTouchAny(t, i) == item[i] # NoItem

\* Any id may be sent; the row's cart must be of the caller's session.
MayTouch(t, i) == Jar(t) # 0 /\ Mine(t, i)

TouchRead(t, i, pc) ==
    /\ At(t, "idle") /\ MayTouch(t, i)
    /\ Goto(t, pc, [NoRequest EXCEPT !.item = i, !.quantity = item[i].quantity])
    /\ UNCHANGED <<tabVars, cartRows, placed>>

RemoveRead(t, i) == TouchRead(t, i, "remove")
PlusRead(t, i) == TouchRead(t, i, "plus")
MinusRead(t, i) == TouchRead(t, i, "minus")

\* A delete or an update of a row that is gone throws.
Touch(t, row) ==
    /\ item' = IF item[request[t].item] = NoItem THEN item
               ELSE [item EXCEPT ![request[t].item] = row]
    /\ Done(t)
    /\ UNCHANGED <<tabVars, cartSession, used, placed>>

Least(m, n) == IF m < n THEN m ELSE n

RemoveCommit(t) == At(t, "remove") /\ Touch(t, NoItem)

PlusCommit(t) ==
    /\ At(t, "plus")
    /\ Touch(t, [item[request[t].item] EXCEPT
                    !.quantity = Least(Cap, request[t].quantity + 1)])

\* The last one removed deletes the row.
MinusCommit(t) ==
    /\ At(t, "minus")
    /\ Touch(t, IF request[t].quantity = 1 THEN NoItem
                ELSE [item[request[t].item] EXCEPT
                         !.quantity = Least(Cap, request[t].quantity - 1)])

-----------------------------------------------------------------------------
(* The checkout.                                                           *)

Content(c) == [p \in Products |->
                 MapThenSumSet(LAMBDA i : item[i].quantity, RowsOf(c, p))]
Subtotal(lines) == MapThenSumSet(LAMBDA p : Price[p] * lines[p], Products)

\* The cart and the checkout page.
ShownTotal(lines) ==
    Subtotal(lines) + (IF Subtotal(lines) >= FreeFrom THEN 0 ELSE PageFee)

\* assembleOrderDraft.
ChargedTotal(lines, z) == Subtotal(lines) + ZoneFee[z]

Assemble(t, pc) ==
    /\ At(t, "idle")
    /\ \E c \in CartsOf(Jar(t)) :
          /\ ItemsOf(c) # {}
          /\ Goto(t, pc, [NoRequest EXCEPT !.cart = c, !.lines = Content(c)])
    /\ UNCHANGED <<tabVars, cartRows, placed>>

AssembleWallet(t) == Assemble(t, "wallet")
AssembleCard(t) == Assemble(t, "card")

Build(t, z) ==
    /\ Cardinality(placed) < MaxOrders
    /\ placed' = placed \union {[cart |-> request[t].cart, lines |-> request[t].lines,
                                 shown |-> ShownTotal(request[t].lines),
                                 total |-> ChargedTotal(request[t].lines, z)]}

\* By wallet: built and paid at once, then the cart is cleared in two steps.
OrderByWallet(t, z) ==
    /\ At(t, "wallet") /\ Build(t, z)
    /\ Goto(t, "clear-items", request[t])
    /\ UNCHANGED <<tabVars, cartRows>>

ClearItems(t) ==
    /\ At(t, "clear-items")
    /\ item' = [i \in Items |-> IF i \in ItemsOf(request[t].cart) THEN NoItem ELSE item[i]]
    /\ Goto(t, "clear-cart", request[t])
    /\ UNCHANGED <<tabVars, cartSession, used, placed>>

\* The cart with the rows that came since, and the cookie.
ClearCart(t) ==
    /\ At(t, "clear-cart")
    /\ cartSession' = [cartSession EXCEPT ![request[t].cart] = 0]
    /\ item' = [i \in Items |-> IF i \in ItemsOf(request[t].cart) THEN NoItem ELSE item[i]]
    /\ cookie' = [cookie EXCEPT ![browserOf[t]] = 0]
    /\ Done(t)
    /\ UNCHANGED <<browserOf, owner, used, placed>>

\* By card the order waits for the webhook, which leaves the cart alone.
OrderByCard(t, z) ==
    /\ At(t, "card") /\ Build(t, z)
    /\ Done(t)
    /\ UNCHANGED <<tabVars, cartRows>>

-----------------------------------------------------------------------------
TabNext(t) ==
    \/ \E p \in Products : AddStart(t, p)
    \/ FindCart(t)
    \/ CreateCart(t)
    \/ FindItem(t)
    \/ Bump(t)
    \/ CreateItem(t)
    \/ \E i \in Items : RemoveRead(t, i) \/ PlusRead(t, i) \/ MinusRead(t, i)
    \/ RemoveCommit(t)
    \/ PlusCommit(t)
    \/ MinusCommit(t)
    \/ AssembleWallet(t)
    \/ AssembleCard(t)
    \/ \E z \in Zones : OrderByWallet(t, z) \/ OrderByCard(t, z)
    \/ ClearItems(t)
    \/ ClearCart(t)

CartNext == \E t \in Tabs : TabNext(t)

CartSpec == CartInit /\ [][CartNext]_cartVars

-----------------------------------------------------------------------------
(* Properties.                                                             *)

\* Types; a row has a cart that exists and one of its product at least, and
\* a cart exists under a session that was minted.
CartTypeOK ==
    /\ browserOf \in [Tabs -> Browsers]
    /\ cookie \in [Browsers -> 0 .. used.sessions]
    /\ owner \in [Sessions -> Browsers \union {NoOne}]
    /\ cartSession \in [Carts -> 0 .. used.sessions]
    /\ \A i \in Items :
          \/ item[i] = NoItem
          \/ /\ item[i].cart \in Carts /\ cartSession[item[i].cart] # 0
             /\ item[i].product \in Products /\ item[i].quantity \in Nat \ {0}
    /\ cartPc \in [Tabs -> {"idle", "add-cart", "new-cart", "add-item", "new-item", "bump",
                            "remove", "plus", "minus", "wallet", "card",
                            "clear-items", "clear-cart"}]

\* Find-then-create without a unique index: a session has no more carts,
\* and a cart no more rows of a product, than there are tabs that raced for
\* them. Whoever adds alone keeps one.
RowsBounded ==
    /\ \A s \in Sessions : Cardinality(CartsOf(s)) <= Cardinality(Tabs)
    /\ \A c \in Carts, p \in Products :
          Cardinality(RowsOf(c, p)) <= Cardinality(Tabs)

\* Whatever ids a request sends and however late its write comes, a cart
\* and its rows change only by a tab of the browser that the cart's session
\* was minted for (cart.ts: "prevents tampering by guessing IDs").
OthersUntouched ==
    [][\A c \in Carts :
          /\ cartSession[c] # 0
          /\ \A t \in Tabs :
                cartPc'[t] # cartPc[t] => browserOf[t] # owner[cartSession[c]]
          => /\ cartSession'[c] = cartSession[c]
             /\ \A i \in ItemsOf(c) : item'[i] = item[i]]_cartVars

\* From addToCart (cart.ts:54: "Coalesces by (product_id, variant_id) -
\* duplicate adds increment quantity instead of creating multiple rows"): a
\* cart has one row of a product, however its adds interleave.
AddsCoalesce ==
    \A c \in Carts, p \in Products : Cardinality(RowsOf(c, p)) <= 1

\* The buyer is charged what the cart and the checkout page said (cart page:
\* "Free delivery on orders over $50").
ChargedAsShown == \A o \in placed : o.total = o.shown
=============================================================================
