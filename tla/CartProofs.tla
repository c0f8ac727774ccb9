------------------------------- MODULE CartProofs -------------------------------
(***************************************************************************)
(* Proofs about Cart: nobody reaches the cart of another browser, and the  *)
(* races of find-then-create leave no more rows than there are tabs.       *)
(***************************************************************************)
EXTENDS Cart, FiniteSetTheorems, TLAPS

Pcs == {"idle", "add-cart", "new-cart", "add-item", "new-item", "bump", "remove", "plus",
        "minus", "wallet", "card", "clear-items", "clear-cart"}

\* Lines are whatever the cart summed up to.
Requests(lines) ==
    [session : {0} \union Sessions, cart : {0} \union Carts, product : Products \union {NoOne},
     item : {0} \union Items, quantity : Nat, lines : {lines}]

\* Rows have ids that were given.
RowsOK ==
    /\ used \in [sessions : 0 .. MaxSessions, carts : 0 .. MaxCarts, items : 0 .. MaxItems]
    /\ item \in [Items -> [cart : {0} \union Carts, product : Products \union {NoOne},
                           quantity : Nat]]
    /\ \A c \in Carts : c > used.carts => cartSession[c] = 0
    /\ \A i \in Items : i > used.items => item[i] = NoItem

\* What a request refers to was its browser's, and is that or gone.
RefOK(t, r) ==
    /\ r.session # 0 => r.session <= used.sessions /\ owner[r.session] = browserOf[t]
    /\ r.cart # 0 => /\ r.cart <= used.carts
                     /\ \/ cartSession[r.cart] = 0
                        \/ owner[cartSession[r.cart]] = browserOf[t]
    /\ r.item # 0 => /\ r.item <= used.items
                     /\ \/ item[r.item] = NoItem
                        \/ owner[cartSession[item[r.item].cart]] = browserOf[t]

PcOK(pc, r) ==
    /\ r \in Requests(r.lines)
    /\ pc \in {"add-cart", "new-cart", "add-item", "new-item", "bump"} =>
          r.session # 0 /\ r.product \in Products
    /\ pc \in {"add-item", "new-item", "wallet", "card", "clear-items", "clear-cart"} =>
          r.cart # 0
    /\ pc \in {"bump", "remove", "plus", "minus"} => r.item # 0
    /\ pc \in {"plus", "minus"} => r.quantity # 0

TabsOK == /\ DOMAIN request = Tabs
          /\ \A t \in Tabs : RefOK(t, request[t]) /\ PcOK(cartPc[t], request[t])

CookiesOK == \A b \in Browsers : cookie[b] # 0 => owner[cookie[b]] = b

\* Tabs that found no row and are about to create one.
NewCart(s) == {t \in Tabs : cartPc[t] = "new-cart" /\ request[t].session = s}
NewItem(c, p) == {t \in Tabs : /\ cartPc[t] = "new-item"
                               /\ request[t].cart = c /\ request[t].product = p}

CountsOK ==
    /\ \A s \in Sessions :
          Cardinality(CartsOf(s)) + Cardinality(NewCart(s)) <= Cardinality(Tabs)
    /\ \A c \in Carts, p \in Products :
          Cardinality(RowsOf(c, p)) + Cardinality(NewItem(c, p)) <= Cardinality(Tabs)

CartInv == CartTypeOK /\ RowsOK /\ TabsOK /\ CookiesOK /\ CountsOK

\* Ids are not given twice, and a row that stays is of the same cart and
\* product.
Evolves ==
    /\ browserOf' = browserOf
    /\ /\ used.sessions <= used'.sessions /\ used.carts <= used'.carts
       /\ used.items <= used'.items
    /\ \A s \in Sessions : s <= used.sessions => owner'[s] = owner[s]
    /\ \A c \in Carts : c <= used.carts => cartSession'[c] \in {0, cartSession[c]}
    /\ \A i \in Items :
          i <= used.items =>
             \/ item'[i] = NoItem
             \/ /\ item[i] # NoItem /\ item'[i].cart = item[i].cart
                /\ item'[i].product = item[i].product

\* A step of t reaches no cart of another browser.
Untouched(t) ==
    \A c \in Carts :
        cartSession[c] # 0 /\ browserOf[t] # owner[cartSession[c]] =>
            /\ cartSession'[c] = cartSession[c]
            /\ \A i \in ItemsOf(c) : item'[i] = item[i]

-----------------------------------------------------------------------------
(* Sums of rows and of tabs about to create one.                           *)

LEMMA SumKept ==
    ASSUME NEW A, NEW B, IsFiniteSet(A), IsFiniteSet(B), NEW n \in Nat,
           Cardinality(A) + Cardinality(B) <= n, NEW A2 \in SUBSET A, NEW B2 \in SUBSET B
    PROVE  Cardinality(A2) + Cardinality(B2) <= n
<1>1. Cardinality(A2) <= Cardinality(A) /\ Cardinality(B2) <= Cardinality(B)
  BY FS_Subset
<1>2. IsFiniteSet(A2) /\ IsFiniteSet(B2)
  BY FS_Subset
<1>3. /\ Cardinality(A) \in Nat /\ Cardinality(B) \in Nat
      /\ Cardinality(A2) \in Nat /\ Cardinality(B2) \in Nat
  BY <1>2, FS_CardinalityType
<1>4. QED BY <1>1, <1>3

LEMMA SumFirst ==
    ASSUME NEW T, IsFiniteSet(T), NEW B \in SUBSET T
    PROVE  Cardinality({}) + Cardinality(B) <= Cardinality(T)
<1>1. Cardinality({}) = 0 /\ Cardinality(B) <= Cardinality(T) /\ IsFiniteSet(B)
  BY FS_EmptySet, FS_Subset
<1>2. Cardinality(B) \in Nat /\ Cardinality(T) \in Nat
  BY <1>1, FS_CardinalityType
<1>3. QED BY <1>1, <1>2

LEMMA SumMoved ==
    ASSUME NEW A, NEW B, IsFiniteSet(A), IsFiniteSet(B), NEW n \in Nat,
           Cardinality(A) + Cardinality(B) <= n, NEW x, NEW t \in B
    PROVE  Cardinality(A \union {x}) + Cardinality(B \ {t}) <= n
<1>1. Cardinality(B \ {t}) = Cardinality(B) - 1
  BY FS_RemoveElement
<1>2. Cardinality(A \union {x}) <= Cardinality(A) + 1
  <2>1. Cardinality(A) \in Nat
    BY FS_CardinalityType
  <2>2. Cardinality(A \union {x}) = IF x \in A THEN Cardinality(A) ELSE Cardinality(A) + 1
    BY FS_AddElement
  <2>3. QED BY <2>1, <2>2
<1>3. /\ Cardinality(A) \in Nat /\ Cardinality(B) \in Nat /\ IsFiniteSet(A \union {x})
      /\ Cardinality(A \union {x}) \in Nat
  BY FS_CardinalityType, FS_AddElement
<1>4. QED BY <1>1, <1>2, <1>3

LEMMA Finite ==
    ASSUME CartAssumption
    PROVE  /\ IsFiniteSet(Tabs) /\ Cardinality(Tabs) \in Nat
           /\ \A s : IsFiniteSet(CartsOf(s)) /\ IsFiniteSet(NewCart(s))
           /\ \A c, p : IsFiniteSet(RowsOf(c, p)) /\ IsFiniteSet(NewItem(c, p))
<1>1. IsFiniteSet(Tabs) /\ Cardinality(Tabs) \in Nat
  BY FS_CardinalityType DEF CartAssumption
<1>2. IsFiniteSet(Carts) /\ IsFiniteSet(Items)
  BY FS_Interval DEF CartAssumption, Carts, Items
<1>3. /\ \A s : CartsOf(s) \subseteq Carts /\ NewCart(s) \subseteq Tabs
      /\ \A c, p : RowsOf(c, p) \subseteq Items /\ NewItem(c, p) \subseteq Tabs
  BY DEF CartsOf, NewCart, RowsOf, ItemsOf, NewItem
<1>4. QED BY <1>1, <1>2, <1>3, FS_Subset

-----------------------------------------------------------------------------
(* What a step does to the tabs.                                           *)

LEMMA Goes ==
    ASSUME CartTypeOK, TabsOK, NEW t \in Tabs, NEW pc \in Pcs, NEW r, Goto(t, pc, r)
    PROVE  /\ cartPc' \in [Tabs -> Pcs] /\ DOMAIN request' = Tabs
           /\ cartPc'[t] = pc /\ request'[t] = r
           /\ \A q \in Tabs \ {t} : cartPc'[q] = cartPc[q] /\ request'[q] = request[q]
  BY DEF Goto, CartTypeOK, TabsOK, Pcs

\* What a request refers to stays its browser's.
LEMMA RefKept ==
    ASSUME CartTypeOK, RowsOK, CartTypeOK', RowsOK', Evolves, CartAssumption,
           NEW t \in Tabs, NEW r, r \in Requests(r.lines), RefOK(t, r)
    PROVE  RefOK(t, r)'
<1> USE CartAssumption DEF CartAssumption
<1>0. /\ r.session \in {0} \union Sessions /\ r.cart \in {0} \union Carts
      /\ r.item \in {0} \union Items
      /\ used.sessions \in Nat /\ used.carts \in Nat /\ used.items \in Nat
      /\ used'.sessions \in Nat /\ used'.carts \in Nat /\ used'.items \in Nat
  BY DEF Requests, RowsOK
<1>1. \A c \in Carts : cartSession[c] \in Sessions \union {0} /\ cartSession[c] <= used.sessions
  BY <1>0 DEF CartTypeOK, RowsOK, Sessions
<1>2. r.session # 0 => r.session <= used'.sessions /\ owner'[r.session] = browserOf'[t]
  BY <1>0 DEF RefOK, Evolves, Sessions
<1>3. \A c \in Carts :
         c <= used.carts /\ (cartSession[c] = 0 \/ owner[cartSession[c]] = browserOf[t])
         => cartSession'[c] = 0 \/ owner'[cartSession'[c]] = browserOf'[t]
  BY <1>1 DEF Evolves
<1>4. r.cart # 0 => /\ r.cart <= used'.carts
                    /\ cartSession'[r.cart] = 0 \/ owner'[cartSession'[r.cart]] = browserOf'[t]
  BY <1>0, <1>3 DEF RefOK, Evolves, Carts
<1>5. ASSUME r.item # 0, item'[r.item] # NoItem
      PROVE  owner'[cartSession'[item'[r.item].cart]] = browserOf'[t]
  <2>1. /\ item[r.item] # NoItem /\ item'[r.item].cart = item[r.item].cart
        /\ owner[cartSession[item[r.item].cart]] = browserOf[t]
    BY <1>0, <1>5 DEF RefOK, Evolves
  <2>2. PICK c \in Carts : c = item[r.item].cart /\ cartSession[c] # 0 /\ cartSession'[c] # 0
    BY <1>0, <1>5, <2>1 DEF CartTypeOK
  <2>3. c <= used.carts
    BY <1>0, <2>2 DEF RowsOK, Carts
  <2>4. QED BY <1>3, <2>1, <2>2, <2>3
<1>6. r.item # 0 => r.item <= used'.items
  BY <1>0 DEF RefOK, Evolves, Items
<1>7. QED BY <1>2, <1>4, <1>5, <1>6 DEF RefOK

LEMMA TabsKept ==
    ASSUME CartInv, CartTypeOK', RowsOK', Evolves, CartAssumption,
           NEW t \in Tabs, NEW pc \in Pcs, NEW r, Goto(t, pc, r), RefOK(t, r)', PcOK(pc, r)
    PROVE  TabsOK'
<1>1. /\ DOMAIN request' = Tabs /\ cartPc'[t] = pc /\ request'[t] = r
      /\ \A q \in Tabs \ {t} : cartPc'[q] = cartPc[q] /\ request'[q] = request[q]
  BY Goes DEF CartInv
<1>2. ASSUME NEW q \in Tabs
      PROVE  RefOK(q, request[q])' /\ PcOK(cartPc[q], request[q])'
  <2>1. CASE q = t
    BY <1>1, <2>1 DEF RefOK, PcOK, Requests
  <2>2. CASE q # t
    <3>1. PICK r0, pc0 : r0 = request[q] /\ pc0 = cartPc[q]
      OBVIOUS
    <3>2. RefOK(q, r0) /\ PcOK(pc0, r0)
      BY <3>1 DEF CartInv, TabsOK
    <3>3. RefOK(q, r0)'
      BY <3>2, RefKept DEF CartInv, PcOK
    <3>4. QED BY <1>1, <2>2, <3>1, <3>2, <3>3 DEF RefOK, PcOK, Requests
  <2>3. QED BY <2>1, <2>2
<1>3. QED BY <1>1, <1>2 DEF TabsOK

\* The counts where no row comes and nobody else is about to create one.
LEMMA CountsKept ==
    ASSUME CartInv, CartAssumption,
           \A s \in Sessions : /\ CartsOf(s)' \subseteq CartsOf(s)
                               /\ NewCart(s)' \subseteq NewCart(s) \/ CartsOf(s)' = {},
           \A c \in Carts, p \in Products :
              /\ RowsOf(c, p)' \subseteq RowsOf(c, p)
              /\ NewItem(c, p)' \subseteq NewItem(c, p) \/ RowsOf(c, p)' = {}
    PROVE  CountsOK'
<1>1. ASSUME NEW s \in Sessions
      PROVE  Cardinality(CartsOf(s)') + Cardinality(NewCart(s)') <= Cardinality(Tabs)
  <2>1. CASE NewCart(s)' \subseteq NewCart(s)
    BY <2>1, Finite, SumKept DEF CartInv, CountsOK
  <2>2. CASE CartsOf(s)' = {}
    <3>1. NewCart(s)' \subseteq Tabs
      BY DEF NewCart
    <3>2. QED BY <2>2, <3>1, Finite, SumFirst
  <2>3. QED BY <2>1, <2>2
<1>2. ASSUME NEW c \in Carts, NEW p \in Products
      PROVE  Cardinality(RowsOf(c, p)') + Cardinality(NewItem(c, p)') <= Cardinality(Tabs)
  <2>1. CASE NewItem(c, p)' \subseteq NewItem(c, p)
    BY <2>1, Finite, SumKept DEF CartInv, CountsOK
  <2>2. CASE RowsOf(c, p)' = {}
    <3>1. NewItem(c, p)' \subseteq Tabs
      BY DEF NewItem
    <3>2. QED BY <2>2, <3>1, Finite, SumFirst
  <2>3. QED BY <2>1, <2>2
<1>3. QED BY <1>1, <1>2 DEF CountsOK

-----------------------------------------------------------------------------
(* The steps of a tab.                                                     *)

\* A step that writes no row.
LEMMA ReadStep ==
    ASSUME CartInv, CartAssumption, UNCHANGED <<tabVars, cartRows>>,
           NEW t \in Tabs, NEW pc \in Pcs, NEW r, Goto(t, pc, r), RefOK(t, r), PcOK(pc, r),
           pc = "new-cart" => CartsOf(r.session) = {},
           pc = "new-item" => RowsOf(r.cart, r.product) = {}
    PROVE  CartInv' /\ Untouched(t)
<1> USE DEF CartInv
<1>0. UNCHANGED <<browserOf, cookie, owner, cartSession, item, used>>
  BY DEF tabVars, cartRows
<1>1. /\ cartPc' \in [Tabs -> Pcs] /\ cartPc'[t] = pc /\ request'[t] = r
      /\ \A q \in Tabs \ {t} : cartPc'[q] = cartPc[q] /\ request'[q] = request[q]
  BY Goes
<1>2. CartTypeOK' /\ RowsOK' /\ CookiesOK'
  BY <1>0, <1>1 DEF CartTypeOK, RowsOK, CookiesOK, Pcs
<1>3. Evolves
  BY <1>0 DEF Evolves, RowsOK
<1>4. RefOK(t, r)'
  BY <1>0 DEF RefOK
<1>5. TabsOK'
  BY <1>2, <1>3, <1>4, TabsKept
<1>6. /\ \A s : CartsOf(s)' = CartsOf(s)
      /\ \A c, p : RowsOf(c, p)' = RowsOf(c, p)
  BY <1>0 DEF CartsOf, RowsOf, ItemsOf
<1>7. CountsOK'
  <2>1. ASSUME NEW s \in Sessions
        PROVE  NewCart(s)' \subseteq NewCart(s) \/ CartsOf(s)' = {}
    BY <1>1, <1>6 DEF NewCart
  <2>2. ASSUME NEW c \in Carts, NEW p \in Products
        PROVE  NewItem(c, p)' \subseteq NewItem(c, p) \/ RowsOf(c, p)' = {}
    BY <1>1, <1>6 DEF NewItem
  <2>3. QED BY <1>6, <2>1, <2>2, CountsKept
<1>8. Untouched(t)
  BY <1>0 DEF Untouched
<1>9. QED BY <1>2, <1>5, <1>7, <1>8

LEMMA NoRequestOK == ASSUME CartAssumption, NEW t PROVE PcOK("idle", NoRequest) /\ RefOK(t, NoRequest)
  BY DEF PcOK, RefOK, NoRequest, Requests

\* The carts of D go, the rows of I change or go, all of them of t's browser,
\* and the cookie becomes n or stays.
Writes(t, n, D, I) ==
    /\ UNCHANGED <<browserOf, owner, used>>
    /\ n \in {0} \union Sessions /\ n <= used.sessions /\ (n # 0 => owner[n] = browserOf[t])
    /\ cookie' = cookie \/ cookie' = [cookie EXCEPT ![browserOf[t]] = n]
    /\ D \subseteq Carts /\ I \subseteq Items
    /\ cartSession' = [c \in Carts |-> IF c \in D THEN 0 ELSE cartSession[c]]
    /\ item' \in [Items -> [cart : {0} \union Carts, product : Products \union {NoOne},
                           quantity : Nat]]
    /\ \A i \in Items \ I : item'[i] = item[i]
    /\ \A i \in I :
          /\ item[i] # NoItem => owner[cartSession[item[i].cart]] = browserOf[t]
          /\ \/ item'[i] = NoItem
             \/ /\ item[i] # NoItem /\ item'[i].cart = item[i].cart
                /\ item'[i].product = item[i].product /\ item'[i].quantity # 0
    /\ \A i \in Items : item[i].cart \in D => item'[i] = NoItem
    /\ \A c \in D : cartSession[c] # 0 => owner[cartSession[c]] = browserOf[t]

\* A step that changes and deletes rows of its browser's carts.
LEMMA WriteStep ==
    ASSUME CartInv, CartAssumption,
           NEW t \in Tabs, NEW pc \in {"idle", "clear-cart"}, NEW r, Goto(t, pc, r),
           RefOK(t, r), PcOK(pc, r), NEW n, NEW D, NEW I, Writes(t, n, D, I)
    PROVE  CartInv' /\ Untouched(t)
<1> USE DEF CartInv, Writes
<1>0. browserOf[t] \in Browsers
  BY DEF CartTypeOK
<1>1. /\ cartPc' \in [Tabs -> Pcs] /\ cartPc'[t] = pc /\ request'[t] = r
      /\ \A q \in Tabs \ {t} : cartPc'[q] = cartPc[q] /\ request'[q] = request[q]
  BY Goes DEF Pcs
<1>2. used.sessions \in Nat /\ used.carts \in Nat /\ used.items \in Nat
  BY CartAssumption DEF RowsOK, CartAssumption
<1>3. \A i \in Items : \/ item'[i] = NoItem
                       \/ /\ item[i] # NoItem /\ item'[i].cart = item[i].cart
                          /\ item'[i].product = item[i].product /\ item'[i].quantity # 0
  <2>1. \A i \in Items \ I : item[i] # NoItem => item[i].quantity # 0
    BY DEF CartTypeOK
  <2>2. QED BY <2>1
<1>4. \A i \in Items :
         item'[i] # NoItem =>
            /\ item'[i].cart \in Carts /\ cartSession'[item'[i].cart] # 0
            /\ item'[i].product \in Products /\ item'[i].quantity \in Nat \ {0}
  <2>1. SUFFICES ASSUME NEW i \in Items, item'[i] # NoItem
                 PROVE  /\ item'[i].cart \in Carts /\ cartSession'[item'[i].cart] # 0
                        /\ item'[i].product \in Products /\ item'[i].quantity \in Nat \ {0}
    OBVIOUS
  <2>2. /\ item[i] # NoItem /\ item'[i].cart = item[i].cart
        /\ item'[i].product = item[i].product /\ item'[i].quantity # 0
    BY <1>3, <2>1
  <2>3. /\ item[i].cart \in Carts \ D /\ cartSession[item[i].cart] # 0
        /\ item[i].product \in Products
    BY <2>1, <2>2 DEF CartTypeOK
  <2>4. item'[i].quantity \in Nat
    OBVIOUS
  <2>5. QED BY <2>2, <2>3, <2>4
<1>5. CartTypeOK'
  <2>1. cookie' \in [Browsers -> 0 .. used.sessions]
    <3>1. n \in 0 .. used.sessions
      BY <1>2, CartAssumption DEF Sessions, CartAssumption
    <3>2. QED BY <1>0, <3>1 DEF CartTypeOK
  <2>2. cartSession' \in [Carts -> 0 .. used.sessions]
    BY <1>2 DEF CartTypeOK
  <2>3. QED BY <1>1, <1>4, <2>1, <2>2 DEF CartTypeOK, Pcs
<1>6. RowsOK'
  BY <1>3 DEF RowsOK
<1>7. CookiesOK'
  BY <1>0 DEF CookiesOK, CartTypeOK
<1>8. Evolves
  BY <1>2, <1>3 DEF Evolves
<1>9. TabsOK'
  <2>1. RefOK(t, r)'
    BY <1>5, <1>6, <1>8, RefKept DEF PcOK
  <2>2. QED BY <1>5, <1>6, <1>8, <2>1, TabsKept DEF Pcs
<1>10. CountsOK'
  <2>1. \A s \in Sessions : CartsOf(s)' \subseteq CartsOf(s) /\ NewCart(s)' \subseteq NewCart(s)
    BY <1>1 DEF CartsOf, NewCart, Sessions
  <2>2. ASSUME NEW c \in Carts, NEW p \in Products
        PROVE  RowsOf(c, p)' \subseteq RowsOf(c, p) /\ NewItem(c, p)' \subseteq NewItem(c, p)
    <3>1. NewItem(c, p)' \subseteq NewItem(c, p)
      BY <1>1 DEF NewItem
    <3>2. RowsOf(c, p)' \subseteq RowsOf(c, p)
      BY <1>3 DEF RowsOf, ItemsOf, NoItem, Carts
    <3>3. QED BY <3>1, <3>2
  <2>3. QED BY <2>1, <2>2, CountsKept
<1>11. Untouched(t)
  BY DEF Untouched, ItemsOf
<1>12. QED BY <1>5, <1>6, <1>7, <1>9, <1>10, <1>11
Start(p, n) == [NoRequest EXCEPT !.product = p, !.session = n]

LEMMA StartRequest ==
    ASSUME CartAssumption, NEW p \in Products, NEW n \in Sessions
    PROVE  /\ Start(p, n).session = n /\ Start(p, n).cart = 0 /\ Start(p, n).item = 0
           /\ Start(p, n).product = p /\ Start(p, n) \in Requests(Start(p, n).lines)
           /\ n # 0
<1>1. PICK r, lines : r = Start(p, n) /\ lines = NoRequest.lines
  OBVIOUS
<1>2. NoRequest \in Requests(lines)
  BY <1>1, NoRequestOK DEF PcOK
<1>3. NoRequest.session = 0 /\ NoRequest.cart = 0 /\ NoRequest.item = 0
  BY DEF NoRequest
<1>4. r \in Requests(lines) /\ r.session = n /\ r.product = p /\ r.cart = 0 /\ r.item = 0
  BY <1>1, <1>2, <1>3 DEF Requests, Start
<1>5. r.lines = lines
  BY <1>4 DEF Requests
<1>6. n # 0
  BY CartAssumption DEF Sessions, CartAssumption
<1>7. QED BY <1>1, <1>4, <1>5, <1>6

\* The session id of the cookie, or a new one.
LEMMA AddStartStep ==
    ASSUME CartInv, CartAssumption, NEW t \in Tabs, NEW p \in Products, AddStart(t, p)
    PROVE  CartInv' /\ Untouched(t)
<1> USE DEF CartInv
<1>0. /\ browserOf[t] \in Browsers /\ MaxSessions \in Nat
      /\ used.sessions \in 0 .. MaxSessions /\ used.carts \in Nat /\ used.items \in Nat
      /\ Jar(t) \in 0 .. used.sessions
  BY DEF CartAssumption, CartTypeOK, RowsOK, Jar
<1>1. CASE Jar(t) # 0 /\ UNCHANGED <<tabVars, cartRows>>
           /\ Goto(t, "add-cart", [NoRequest EXCEPT !.product = p, !.session = Jar(t)])
  <2>1. PICK r : r = Start(p, Jar(t))
    OBVIOUS
  <2>2. /\ r.session = Jar(t) /\ r.cart = 0 /\ r.item = 0 /\ r.product = p
        /\ r \in Requests(r.lines)
    <3>1. Jar(t) \in Sessions
      BY <1>0, <1>1 DEF Sessions
    <3>2. QED BY <2>1, <3>1, StartRequest
  <2>3. RefOK(t, r) /\ PcOK("add-cart", r)
    BY <1>0, <1>1, <2>2 DEF RefOK, PcOK, CookiesOK, Jar
  <2>4. Goto(t, "add-cart", r)
    BY <1>1, <2>1 DEF Start
  <2>5. QED BY <1>1, <2>3, <2>4, ReadStep DEF Pcs
<1>2. ASSUME used.sessions < MaxSessions, used' = [used EXCEPT !.sessions = @ + 1],
             owner' = [owner EXCEPT ![used'.sessions] = browserOf[t]],
             Goto(t, "add-cart", [NoRequest EXCEPT !.product = p, !.session = used'.sessions]),
             UNCHANGED <<browserOf, cookie, cartSession, item>>
      PROVE  CartInv' /\ Untouched(t)
  <2>1. PICK n : n = used.sessions + 1
    OBVIOUS
  <2>2. /\ n \in Sessions /\ used'.sessions = n /\ used'.carts = used.carts
        /\ used'.items = used.items
        /\ used' \in [sessions : 0 .. MaxSessions, carts : 0 .. MaxCarts, items : 0 .. MaxItems]
    BY <1>0, <1>2, <2>1 DEF Sessions, RowsOK
  <2>3. PICK r : r = Start(p, n) /\ Goto(t, "add-cart", r)
    BY <1>2, <2>2 DEF Start
  <2>4. /\ r.session = n /\ r.cart = 0 /\ r.item = 0 /\ r.product = p
        /\ r \in Requests(r.lines) /\ n # 0
    BY <2>2, <2>3, StartRequest
  <2>5. /\ owner' \in [Sessions -> Browsers \union {NoOne}] /\ owner'[n] = browserOf[t]
        /\ \A s \in Sessions : s <= used.sessions => owner'[s] = owner[s]
    <3>1. /\ owner \in [Sessions -> Browsers \union {NoOne}]
          /\ browserOf[t] \in Browsers
      BY DEF CartTypeOK
    <3> HIDE DEF CartInv
    <3>2. owner' = [owner EXCEPT ![n] = browserOf[t]]
      BY <1>2, <2>2
    <3>3. \A s \in Sessions : s <= used.sessions => s # n
      BY <1>0, <2>1 DEF Sessions
    <3>4. QED BY <2>2, <3>1, <3>2, <3>3
  <2>6. PcOK("add-cart", r) /\ RefOK(t, r)'
    BY <1>0, <1>2, <2>2, <2>4, <2>5 DEF PcOK, RefOK
  <2>7. /\ cartPc' \in [Tabs -> Pcs] /\ cartPc'[t] = "add-cart"
        /\ \A q \in Tabs \ {t} : cartPc'[q] = cartPc[q] /\ request'[q] = request[q]
    BY <1>2, <2>2, <2>3, Goes DEF Pcs
  <2>8. CartTypeOK'
    <3>1. cookie' \in [Browsers -> 0 .. used'.sessions]
      BY <1>0, <1>2, <2>1, <2>2 DEF CartTypeOK
    <3>2. cartSession' \in [Carts -> 0 .. used'.sessions]
      BY <1>0, <1>2, <2>1, <2>2 DEF CartTypeOK
    <3>3. QED BY <1>2, <2>5, <2>7, <3>1, <3>2 DEF CartTypeOK, Pcs
  <2>9. RowsOK'
    BY <1>2, <2>2 DEF RowsOK
  <2>10. Evolves
    BY <1>0, <1>2, <2>1, <2>2, <2>5 DEF Evolves
  <2>11. TabsOK'
    BY <1>2, <2>2, <2>3, <2>6, <2>8, <2>9, <2>10, TabsKept DEF Pcs
  <2>12. CookiesOK'
    <3>1. \A b \in Browsers : cookie[b] # 0 => owner[cookie[b]] = b
      BY DEF CookiesOK
    <3>2. \A b \in Browsers : cookie[b] # 0 => /\ cookie[b] \in Sessions
                                              /\ cookie[b] <= used.sessions
      BY <1>0 DEF CartTypeOK, Sessions
    <3> HIDE DEF CartInv
    <3>3. QED BY <1>2, <2>5, <3>1, <3>2 DEF CookiesOK
  <2>13. CountsOK'
    <3>1. \A s \in Sessions : CartsOf(s)' = CartsOf(s) /\ NewCart(s)' \subseteq NewCart(s)
      BY <1>2, <2>7 DEF CartsOf, NewCart
    <3>2. \A c \in Carts, q \in Products : /\ RowsOf(c, q)' = RowsOf(c, q)
                                          /\ NewItem(c, q)' \subseteq NewItem(c, q)
      BY <1>2, <2>7 DEF RowsOf, ItemsOf, NewItem
    <3>3. QED BY <3>1, <3>2, CountsKept
  <2>14. Untouched(t)
    BY <1>2 DEF Untouched
  <2>15. QED BY <2>8, <2>9, <2>11, <2>12, <2>13, <2>14
<1>3. QED BY <1>1, <1>2 DEF AddStart, tabVars, cartRows

LEMMA CreateCartStep ==
    ASSUME CartInv, CartAssumption, NEW t \in Tabs, CreateCart(t)
    PROVE  CartInv' /\ Untouched(t)
<1> USE DEF CartInv
<1>0. PICK r0, n : r0 = request[t] /\ n = used.carts + 1
  OBVIOUS
<1>1. /\ cartPc[t] = "new-cart" /\ used.carts < MaxCarts
      /\ used' = [used EXCEPT !.carts = @ + 1]
      /\ cartSession' = [cartSession EXCEPT ![used'.carts] = r0.session]
      /\ Goto(t, "add-item", [r0 EXCEPT !.cart = used'.carts])
      /\ UNCHANGED <<browserOf, cookie, owner, item>>
  BY <1>0 DEF CreateCart, At, tabVars
<1>2. /\ RefOK(t, r0) /\ r0 \in Requests(r0.lines) /\ r0.session # 0 /\ r0.product \in Products
      /\ r0.session \in Sessions /\ r0.session <= used.sessions
      /\ owner[r0.session] = browserOf[t]
  BY <1>0, <1>1 DEF TabsOK, PcOK, RefOK, Requests
<1>3. /\ used.sessions \in 0 .. MaxSessions /\ used.carts \in Nat /\ used.items \in Nat
      /\ MaxSessions \in Nat /\ MaxCarts \in Nat
  BY DEF CartAssumption, RowsOK
<1>4. /\ n \in Carts /\ used'.carts = n /\ used'.sessions = used.sessions
      /\ used'.items = used.items /\ cartSession[n] = 0 /\ n # 0
      /\ used' \in [sessions : 0 .. MaxSessions, carts : 0 .. MaxCarts, items : 0 .. MaxItems]
  BY <1>0, <1>1, <1>3 DEF Carts, RowsOK
<1>5. /\ cartSession'[n] = r0.session
      /\ \A c \in Carts \ {n} : cartSession'[c] = cartSession[c]
      /\ cartSession' \in [Carts -> 0 .. used'.sessions]
  <2>1. cartSession \in [Carts -> 0 .. used.sessions]
    BY DEF CartTypeOK
  <2> HIDE DEF CartInv
  <2>2. cartSession' = [cartSession EXCEPT ![n] = r0.session]
    BY <1>1, <1>4
  <2>3. r0.session \in 0 .. used'.sessions
    BY <1>2, <1>3, <1>4 DEF Sessions
  <2>4. QED BY <1>4, <2>1, <2>2, <2>3
<1>6. PICK r : r = [r0 EXCEPT !.cart = n]
  OBVIOUS
<1>7. /\ r.session = r0.session /\ r.cart = n /\ r.item = r0.item /\ r.product = r0.product
      /\ r \in Requests(r.lines)
  BY <1>2, <1>4, <1>6 DEF Requests
<1>8. /\ cartPc' \in [Tabs -> Pcs] /\ cartPc'[t] = "add-item" /\ request'[t] = r
      /\ \A q \in Tabs \ {t} : cartPc'[q] = cartPc[q] /\ request'[q] = request[q]
  BY <1>1, <1>4, <1>6, Goes DEF Pcs
<1>9. \A i \in Items : item[i] # NoItem => item[i].cart # n
  BY <1>4 DEF CartTypeOK
<1>10. CartTypeOK' /\ RowsOK' /\ CookiesOK'
  <2>1. CartTypeOK'
    BY <1>1, <1>4, <1>5, <1>8, <1>9 DEF CartTypeOK, Pcs
  <2>2. \A c \in Carts : c > used'.carts => cartSession'[c] = 0
    <3>1. \A c \in Carts : c > used.carts => cartSession[c] = 0
      BY DEF RowsOK
    <3> HIDE DEF CartInv
    <3>2. \A c \in Carts : c > n => c > used.carts /\ c # n
      BY <1>0, <1>3 DEF Carts
    <3>3. QED BY <1>4, <1>5, <3>1, <3>2
  <2>3. QED BY <1>1, <1>4, <2>1, <2>2 DEF RowsOK, CookiesOK
<1>11. Evolves
  BY <1>0, <1>1, <1>3, <1>4, <1>5 DEF Evolves
<1>12. TabsOK'
  <2>1. RefOK(t, r)'
    <3>1. RefOK(t, r0)'
      BY <1>2, <1>10, <1>11, RefKept
    <3> HIDE DEF CartInv
    <3>2. owner'[cartSession'[n]] = browserOf'[t]
      BY <1>1, <1>2, <1>5
    <3>3. n <= used'.carts
      BY <1>4 DEF Carts
    <3>4. QED BY <1>7, <3>1, <3>2, <3>3 DEF RefOK
  <2>2. PcOK("add-item", r)
    <3> HIDE DEF CartInv
    <3>1. QED BY <1>2, <1>4, <1>7 DEF PcOK
  <2>3. QED BY <1>1, <1>4, <1>6, <1>10, <1>11, <2>1, <2>2, TabsKept DEF Pcs
<1>13. CountsOK'
  <2>1. ASSUME NEW s \in Sessions
        PROVE  Cardinality(CartsOf(s)') + Cardinality(NewCart(s)') <= Cardinality(Tabs)
    <3>1. CASE s = r0.session
      <4>1. CartsOf(s)' = CartsOf(s) \union {n}
        BY <1>2, <1>4, <1>5, <3>1 DEF CartsOf
      <4>2. t \in NewCart(s) /\ NewCart(s)' = NewCart(s) \ {t}
        BY <1>0, <1>1, <1>8, <3>1 DEF NewCart
      <4>3. Cardinality(CartsOf(s)) + Cardinality(NewCart(s)) <= Cardinality(Tabs)
        BY DEF CountsOK
      <4>4. QED BY <4>1, <4>2, <4>3, Finite, SumMoved
    <3>2. CASE s # r0.session
      <4>1. CartsOf(s)' = CartsOf(s)
        BY <1>4, <1>5, <3>2 DEF CartsOf
      <4>2. NewCart(s)' \subseteq NewCart(s)
        BY <1>8 DEF NewCart
      <4>3. QED BY <4>1, <4>2, Finite, SumKept DEF CountsOK
    <3>3. QED BY <3>1, <3>2
  <2>2. ASSUME NEW c \in Carts, NEW p \in Products
        PROVE  Cardinality(RowsOf(c, p)') + Cardinality(NewItem(c, p)') <= Cardinality(Tabs)
    <3>1. RowsOf(c, p)' = RowsOf(c, p) /\ NewItem(c, p)' \subseteq NewItem(c, p)
      BY <1>1, <1>8 DEF RowsOf, ItemsOf, NewItem
    <3>2. QED BY <3>1, Finite, SumKept DEF CountsOK
  <2>3. QED BY <2>1, <2>2 DEF CountsOK
<1>14. Untouched(t)
  BY <1>1, <1>4, <1>5 DEF Untouched
<1>15. QED BY <1>10, <1>12, <1>13, <1>14
LEMMA CreateItemStep ==
    ASSUME CartInv, CartAssumption, NEW t \in Tabs, CreateItem(t),
           cartSession[request[t].cart] # 0
    PROVE  CartInv' /\ Untouched(t)
<1> USE DEF CartInv
<1>0. PICK r0, n, c0, p0 : /\ r0 = request[t] /\ n = used.items + 1
                          /\ c0 = r0.cart /\ p0 = r0.product
  OBVIOUS
<1>1. /\ cartPc[t] = "new-item" /\ used.items < MaxItems
      /\ used' = [used EXCEPT !.items = @ + 1]
      /\ item' = [item EXCEPT ![used'.items] = [cart |-> c0, product |-> p0, quantity |-> 1]]
      /\ Responds(t) /\ Goto(t, "idle", NoRequest)
      /\ UNCHANGED <<browserOf, owner, cartSession>>
  BY <1>0 DEF CreateItem, At, Done
<1>2. /\ RefOK(t, r0) /\ r0 \in Requests(r0.lines) /\ r0.session # 0 /\ p0 \in Products
      /\ c0 \in Carts /\ r0.session \in Sessions /\ r0.session <= used.sessions
      /\ owner[r0.session] = browserOf[t] /\ c0 # 0
      /\ owner[cartSession[c0]] = browserOf[t]
  <2>1. RefOK(t, r0) /\ PcOK("new-item", r0) /\ cartSession[c0] # 0
    BY <1>0, <1>1 DEF TabsOK
  <2>2. r0 \in Requests(r0.lines) /\ r0.session # 0 /\ p0 \in Products /\ c0 # 0
    BY <1>0, <2>1 DEF PcOK
  <2>3. c0 \in Carts /\ r0.session \in Sessions
    BY <1>0, <2>2 DEF Requests
  <2>4. QED BY <1>0, <2>1, <2>2, <2>3 DEF RefOK
<1>3. /\ used.sessions \in 0 .. MaxSessions /\ used.carts \in Nat /\ used.items \in Nat
      /\ MaxSessions \in Nat /\ MaxItems \in Nat /\ browserOf[t] \in Browsers
  BY DEF CartAssumption, RowsOK, CartTypeOK
<1>4. /\ n \in Items /\ used'.items = n /\ used'.sessions = used.sessions
      /\ used'.carts = used.carts /\ item[n] = NoItem
      /\ used' \in [sessions : 0 .. MaxSessions, carts : 0 .. MaxCarts, items : 0 .. MaxItems]
  <2>1. n \in Items /\ n > used.items
    BY <1>0, <1>1, <1>3 DEF Items
  <2>2. item[n] = NoItem
    BY <2>1 DEF RowsOK
  <2>3. /\ used'.items = n /\ used'.sessions = used.sessions /\ used'.carts = used.carts
        /\ used' \in [sessions : 0 .. MaxSessions, carts : 0 .. MaxCarts,
                      items : 0 .. MaxItems]
    BY <1>0, <1>1, <1>3 DEF RowsOK
  <2>4. QED BY <2>1, <2>2, <2>3
<1>5. PICK row : row = [cart |-> c0, product |-> p0, quantity |-> 1]
  OBVIOUS
<1>6. /\ row \in [cart : {0} \union Carts, product : Products \union {NoOne}, quantity : Nat]
      /\ row.cart = c0 /\ row.product = p0 /\ row.quantity = 1
  BY <1>2, <1>5
<1>7. /\ item'[n] = row /\ \A i \in Items \ {n} : item'[i] = item[i]
      /\ item' \in [Items -> [cart : {0} \union Carts, product : Products \union {NoOne},
                             quantity : Nat]]
  BY <1>1, <1>4, <1>5, <1>6 DEF RowsOK
<1>8. /\ cartPc' \in [Tabs -> Pcs] /\ cartPc'[t] = "idle"
      /\ \A q \in Tabs \ {t} : cartPc'[q] = cartPc[q] /\ request'[q] = request[q]
  BY <1>1, Goes DEF Pcs
<1>9. cookie' = [cookie EXCEPT ![browserOf[t]] = r0.session]
  BY <1>0, <1>1 DEF Responds
<1>10. CartTypeOK'
  <2>1. cookie' \in [Browsers -> 0 .. used'.sessions]
    BY <1>2, <1>3, <1>4, <1>9 DEF CartTypeOK, Sessions
  <2>2. \A i \in Items :
           \/ item'[i] = NoItem
           \/ /\ item'[i].cart \in Carts /\ cartSession'[item'[i].cart] # 0
              /\ item'[i].product \in Products /\ item'[i].quantity \in Nat \ {0}
    BY <1>0, <1>1, <1>2, <1>6, <1>7 DEF CartTypeOK
  <2>3. QED BY <1>1, <1>4, <1>8, <2>1, <2>2 DEF CartTypeOK, Pcs
<1>11. RowsOK'
  <2>1. \A i \in Items : i > used'.items => item'[i] = NoItem
    <3>1. SUFFICES ASSUME NEW i \in Items, i > n
                   PROVE  item'[i] = NoItem
      BY <1>4
    <3>2. i # n /\ i > used.items
      BY <1>0, <1>3, <3>1 DEF Items
    <3>3. QED BY <1>7, <3>2 DEF RowsOK
  <2>2. QED BY <1>1, <1>4, <1>7, <2>1 DEF RowsOK
<1>12. CookiesOK'
  BY <1>1, <1>2, <1>3, <1>9 DEF CookiesOK, CartTypeOK
<1>13. Evolves
  BY <1>0, <1>1, <1>3, <1>4, <1>7 DEF Evolves
<1>14. TabsOK'
  <2>1. PcOK("idle", NoRequest) /\ RefOK(t, NoRequest)
    BY NoRequestOK
  <2>2. RefOK(t, NoRequest)'
    BY <1>10, <1>11, <1>13, <2>1, RefKept DEF PcOK
  <2>3. QED BY <1>1, <1>10, <1>11, <1>13, <2>1, <2>2, TabsKept DEF Pcs
<1>15. CountsOK'
  <2>1. ASSUME NEW s \in Sessions
        PROVE  Cardinality(CartsOf(s)') + Cardinality(NewCart(s)') <= Cardinality(Tabs)
    <3>1. CartsOf(s)' = CartsOf(s) /\ NewCart(s)' \subseteq NewCart(s)
      BY <1>1, <1>8 DEF CartsOf, NewCart
    <3>2. QED BY <3>1, Finite, SumKept DEF CountsOK
  <2>2. ASSUME NEW c \in Carts, NEW p \in Products
        PROVE  Cardinality(RowsOf(c, p)') + Cardinality(NewItem(c, p)') <= Cardinality(Tabs)
    <3>1. CASE c = c0 /\ p = p0
      <4>1. RowsOf(c, p)' = RowsOf(c, p) \union {n}
        BY <1>2, <1>4, <1>6, <1>7, <3>1 DEF RowsOf, ItemsOf
      <4>2. t \in NewItem(c, p) /\ NewItem(c, p)' = NewItem(c, p) \ {t}
        BY <1>0, <1>1, <1>8, <3>1 DEF NewItem
      <4>3. Cardinality(RowsOf(c, p)) + Cardinality(NewItem(c, p)) <= Cardinality(Tabs)
        BY DEF CountsOK
      <4>4. QED BY <4>1, <4>2, <4>3, Finite, SumMoved
    <3>2. CASE ~(c = c0 /\ p = p0)
      <4>1. RowsOf(c, p)' \subseteq RowsOf(c, p)
        BY <1>4, <1>6, <1>7, <3>2 DEF RowsOf, ItemsOf
      <4>2. NewItem(c, p)' \subseteq NewItem(c, p)
        BY <1>8 DEF NewItem
      <4>3. QED BY <4>1, <4>2, Finite, SumKept DEF CountsOK
    <3>3. QED BY <3>1, <3>2
  <2>3. QED BY <2>1, <2>2 DEF CountsOK
<1>16. Untouched(t)
  <2>1. \A c \in Carts : n \notin ItemsOf(c)
    BY <1>4, CartAssumption DEF ItemsOf, NoItem, Carts, CartAssumption
  <2>2. QED BY <1>1, <1>7, <2>1 DEF Untouched, ItemsOf
<1>17. QED BY <1>10, <1>11, <1>12, <1>14, <1>15, <1>16

\* The steps that only read.
LEMMA LookStep ==
    ASSUME CartInv, CartAssumption, NEW t \in Tabs,
           \/ FindCart(t) \/ FindItem(t)
           \/ \E i \in Items : RemoveRead(t, i) \/ PlusRead(t, i) \/ MinusRead(t, i)
           \/ AssembleWallet(t) \/ AssembleCard(t)
           \/ \E z \in Zones : OrderByWallet(t, z) \/ OrderByCard(t, z)
    PROVE  CartInv' /\ Untouched(t)
<1> USE DEF CartInv
<1>0. PICK r0 : r0 = request[t]
  OBVIOUS
<1>1. RefOK(t, r0) /\ PcOK(cartPc[t], r0) /\ r0 \in Requests(r0.lines)
  BY <1>0 DEF TabsOK, PcOK
<1>2. UNCHANGED <<tabVars, cartRows>>
  BY DEF FindCart, FindItem, RemoveRead, PlusRead, MinusRead, TouchRead, AssembleWallet,
         AssembleCard, Assemble, OrderByWallet, OrderByCard, Build
<1>3. /\ NoRequest \in Requests(NoRequest.lines) /\ NoRequest.session = 0
      /\ NoRequest.cart = 0 /\ NoRequest.item = 0
  BY NoRequestOK DEF PcOK, NoRequest
<1>4. /\ \A c \in Carts : cartSession[c] # 0 => c <= used.carts
      /\ \A i \in Items : item[i] # NoItem => i <= used.items
  BY CartAssumption DEF RowsOK, CartAssumption, Carts, Items
<1>5. ASSUME NEW c \in Carts, c \in CartsOf(r0.session), cartPc[t] = "add-cart"
      PROVE  /\ RefOK(t, [r0 EXCEPT !.cart = c]) /\ PcOK("add-item", [r0 EXCEPT !.cart = c])
  <2>1. PICK r : r = [r0 EXCEPT !.cart = c]
    OBVIOUS
  <2>2. /\ r \in Requests(r0.lines) /\ r.session = r0.session /\ r.cart = c
        /\ r.item = r0.item /\ r.product = r0.product
    BY <1>1, <2>1 DEF Requests
  <2>3. r.lines = r0.lines /\ c # 0
    BY <2>2, CartAssumption DEF Requests, Carts, CartAssumption
  <2>4. /\ cartSession[c] = r0.session /\ cartSession[c] # 0 /\ c <= used.carts
    BY <1>4, <1>5 DEF CartsOf
  <2>5. owner[cartSession[c]] = browserOf[t]
    BY <1>1, <2>4 DEF RefOK
  <2>6. RefOK(t, r)
    BY <1>1, <2>2, <2>4, <2>5 DEF RefOK
  <2>7. PcOK("add-item", r)
    BY <1>1, <1>5, <2>2, <2>3 DEF PcOK
  <2>8. QED BY <2>1, <2>6, <2>7
<1>6. CASE FindCart(t)
  <2>1. cartPc[t] = "add-cart"
    BY <1>6 DEF FindCart, At
  <2>2. ASSUME NEW c \in CartsOf(r0.session), Goto(t, "add-item", [r0 EXCEPT !.cart = c])
        PROVE  CartInv' /\ Untouched(t)
    <3>1. c \in Carts
      BY DEF CartsOf
    <3>2. QED BY <1>2, <1>5, <2>1, <2>2, <3>1, ReadStep DEF Pcs
  <2>3. ASSUME CartsOf(r0.session) = {}, Goto(t, "new-cart", r0)
        PROVE  CartInv' /\ Untouched(t)
    <3>1. PcOK("new-cart", r0)
      BY <1>1, <2>1 DEF PcOK
    <3>2. QED BY <1>1, <1>2, <2>3, <3>1, ReadStep DEF Pcs
  <2>4. QED BY <1>0, <1>6, <2>2, <2>3 DEF FindCart
<1>7. CASE FindItem(t)
  <2>1. cartPc[t] = "add-item" /\ r0.cart \in Carts /\ r0.product \in Products
    BY <1>1, <1>7 DEF FindItem, At, PcOK, Requests
  <2>2. ASSUME NEW i \in RowsOf(r0.cart, r0.product),
               Goto(t, "bump", [r0 EXCEPT !.item = i, !.quantity = item[i].quantity])
        PROVE  CartInv' /\ Untouched(t)
    <3>1. i \in Items /\ item[i].cart = r0.cart /\ r0.cart # 0
      BY DEF RowsOf, ItemsOf
    <3>2. item[i].quantity \in Nat /\ item[i] # NoItem /\ cartSession[r0.cart] # 0
      BY <3>1 DEF RowsOK, CartTypeOK, NoItem
    <3>3. PICK r : r = [r0 EXCEPT !.item = i, !.quantity = item[i].quantity]
      OBVIOUS
    <3>4. /\ r \in Requests(r0.lines) /\ r.session = r0.session /\ r.cart = r0.cart
          /\ r.item = i /\ r.product = r0.product
      BY <1>1, <3>1, <3>2, <3>3 DEF Requests
    <3>5. r.lines = r0.lines /\ i # 0
      BY <3>1, <3>4, CartAssumption DEF Requests, Items, CartAssumption
    <3>6. RefOK(t, r)
      BY <1>1, <1>4, <3>1, <3>2, <3>4 DEF RefOK
    <3>7. PcOK("bump", r)
      BY <1>1, <2>1, <3>4, <3>5 DEF PcOK
    <3>8. QED BY <1>2, <2>2, <3>3, <3>6, <3>7, ReadStep DEF Pcs
  <2>3. ASSUME RowsOf(r0.cart, r0.product) = {}, Goto(t, "new-item", r0)
        PROVE  CartInv' /\ Untouched(t)
    <3>1. PcOK("new-item", r0)
      BY <1>1, <2>1 DEF PcOK
    <3>2. QED BY <1>1, <1>2, <2>3, <3>1, ReadStep DEF Pcs
  <2>4. QED BY <1>0, <1>7, <2>2, <2>3 DEF FindItem
<1>8. ASSUME NEW i \in Items, NEW pc \in {"remove", "plus", "minus"}, TouchRead(t, i, pc)
      PROVE  CartInv' /\ Untouched(t)
  <2>1. PICK r : r = [NoRequest EXCEPT !.item = i, !.quantity = item[i].quantity]
    OBVIOUS
  <2>2. /\ Goto(t, pc, r) /\ Jar(t) # 0 /\ item[i] # NoItem
        /\ cartSession[item[i].cart] = Jar(t)
    BY <1>8, <2>1 DEF TouchRead, MayTouch, Mine
  <2>3. item[i].quantity \in Nat \ {0}
    BY <2>2 DEF CartTypeOK
  <2>4. /\ r \in Requests(NoRequest.lines) /\ r.session = 0 /\ r.cart = 0 /\ r.item = i
        /\ r.quantity = item[i].quantity
    BY <1>3, <2>1, <2>3 DEF Requests
  <2>5. r.lines = NoRequest.lines /\ i # 0
    BY <2>4, CartAssumption DEF Requests, Items, CartAssumption
  <2>6. owner[cartSession[item[i].cart]] = browserOf[t]
    BY <2>2 DEF Jar, CookiesOK, CartTypeOK
  <2>7. RefOK(t, r)
    BY <1>4, <2>2, <2>4, <2>6 DEF RefOK
  <2>8. PcOK(pc, r)
    BY <2>3, <2>4, <2>5 DEF PcOK
  <2>9. QED BY <1>2, <2>2, <2>7, <2>8, ReadStep DEF Pcs
<1>9. ASSUME NEW pc \in {"wallet", "card"}, Assemble(t, pc)
      PROVE  CartInv' /\ Untouched(t)
  <2>1. PICK c \in CartsOf(Jar(t)) :
           Goto(t, pc, [NoRequest EXCEPT !.cart = c, !.lines = Content(c)])
    BY <1>9 DEF Assemble
  <2>2. PICK r, lines : /\ r = [NoRequest EXCEPT !.cart = c, !.lines = Content(c)]
                       /\ lines = Content(c)
    OBVIOUS
  <2>3. c \in Carts /\ cartSession[c] = Jar(t) /\ Jar(t) # 0
    BY DEF CartsOf
  <2>4. /\ r \in Requests(lines) /\ r.session = 0 /\ r.cart = c /\ r.item = 0
    BY <1>3, <2>2, <2>3 DEF Requests
  <2>5. r.lines = lines /\ c # 0
    BY <2>3, <2>4, CartAssumption DEF Requests, Carts, CartAssumption
  <2>6. owner[cartSession[c]] = browserOf[t]
    BY <2>3 DEF Jar, CookiesOK, CartTypeOK
  <2>7. RefOK(t, r)
    BY <1>4, <2>3, <2>4, <2>6 DEF RefOK
  <2>8. PcOK(pc, r)
    BY <2>4, <2>5 DEF PcOK
  <2>9. QED BY <1>2, <2>1, <2>2, <2>7, <2>8, ReadStep DEF Pcs
<1>10. ASSUME NEW z \in Zones, OrderByWallet(t, z)
       PROVE  CartInv' /\ Untouched(t)
  <2>1. Goto(t, "clear-items", r0) /\ cartPc[t] = "wallet"
    BY <1>0, <1>10 DEF OrderByWallet, At
  <2>2. PcOK("clear-items", r0)
    BY <1>1, <2>1 DEF PcOK
  <2>3. QED BY <1>1, <1>2, <2>1, <2>2, ReadStep DEF Pcs
<1>11. ASSUME NEW z \in Zones, OrderByCard(t, z)
       PROVE  CartInv' /\ Untouched(t)
  BY <1>2, <1>11, NoRequestOK, ReadStep DEF OrderByCard, Done, Pcs
<1>12. QED BY <1>6, <1>7, <1>8, <1>9, <1>10, <1>11 DEF RemoveRead, PlusRead, MinusRead,
        AssembleWallet, AssembleCard
\* The steps that change and delete rows, and the ones that throw.
LEMMA ChangeStep ==
    ASSUME CartInv, CartAssumption, NEW t \in Tabs,
           \/ Bump(t) \/ CreateItem(t)
           \/ RemoveCommit(t) \/ PlusCommit(t) \/ MinusCommit(t)
           \/ ClearItems(t) \/ ClearCart(t)
    PROVE  CartInv' /\ Untouched(t)
<1> USE DEF CartInv
<1>0. PICK r0, i0, c0 : r0 = request[t] /\ i0 = r0.item /\ c0 = r0.cart
  OBVIOUS
<1>1. RefOK(t, r0) /\ PcOK(cartPc[t], r0) /\ r0 \in Requests(r0.lines)
  BY <1>0 DEF TabsOK, PcOK
<1>2. /\ r0.session \in {0} \union Sessions /\ r0.quantity \in Nat
      /\ i0 \in {0} \union Items /\ c0 \in {0} \union Carts
      /\ used.sessions \in Nat /\ 0 <= used.sessions /\ NoItem.quantity = 0
  BY <1>0, <1>1, CartAssumption DEF Requests, RowsOK, CartAssumption, NoItem
<1>3. RefOK(t, NoRequest) /\ PcOK("idle", NoRequest)
  BY NoRequestOK
<1>4. /\ cartSession = [c \in Carts |-> IF c \in {} THEN 0 ELSE cartSession[c]]
      /\ NoItem \in [cart : {0} \union Carts, product : Products \union {NoOne}, quantity : Nat]
  BY DEF CartTypeOK, NoItem
\* A write of one row, by the request that read it.
<1>5. ASSUME i0 # 0, item[i0] # NoItem, UNCHANGED <<browserOf, owner, cartSession, used>>,
             NEW row \in [cart : {0} \union Carts, product : Products \union {NoOne},
                         quantity : Nat],
             \/ row = NoItem
             \/ /\ row.cart = item[i0].cart /\ row.product = item[i0].product
                /\ row.quantity # 0,
             item' = [item EXCEPT ![i0] = row], Done(t),
             cookie' = cookie \/ (Responds(t) /\ r0.session # 0)
      PROVE  CartInv' /\ Untouched(t)
  <2>1. i0 \in Items /\ owner[cartSession[item[i0].cart]] = browserOf[t]
    BY <1>0, <1>1, <1>2, <1>5 DEF RefOK
  <2>2. /\ item'[i0] = row /\ \A i \in Items \ {i0} : item'[i] = item[i]
        /\ item' \in [Items -> [cart : {0} \union Carts, product : Products \union {NoOne},
                               quantity : Nat]]
    BY <1>5, <2>1 DEF RowsOK
  <2>3. PICK n \in {0} \union Sessions :
           /\ n <= used.sessions /\ (n # 0 => owner[n] = browserOf[t])
           /\ cookie' = cookie \/ cookie' = [cookie EXCEPT ![browserOf[t]] = n]
    <3>1. CASE cookie' = cookie
      BY <1>2, <3>1
    <3>2. CASE Responds(t) /\ r0.session # 0
      BY <1>0, <1>1, <1>2, <3>2 DEF Responds, RefOK
    <3>3. QED BY <1>5, <3>1, <3>2
  <2>4. cartSession' = [c \in Carts |-> IF c \in {} THEN 0 ELSE cartSession[c]]
    BY <1>4, <1>5
  <2>5. Writes(t, n, {}, {i0})
    BY <1>5, <2>1, <2>2, <2>3, <2>4 DEF Writes
  <2>6. QED BY <1>3, <1>5, <2>5, WriteStep DEF Done
\* A write that throws.
<1>6. ASSUME UNCHANGED <<browserOf, cookie, owner, cartSession, item, used>>, Done(t)
      PROVE  CartInv' /\ Untouched(t)
  BY <1>3, <1>6, ReadStep DEF Done, Pcs, tabVars, cartRows
<1>7. CASE Bump(t)
  <2>1. i0 # 0 /\ r0.session # 0
    BY <1>0, <1>1, <1>7 DEF Bump, At, PcOK
  <2>2. CASE item[i0] = NoItem
    BY <1>0, <1>6, <1>7, <2>2 DEF Bump
  <2>3. CASE item[i0] # NoItem
    <3>1. PICK row : row = [item[i0] EXCEPT !.quantity = r0.quantity + 1]
      OBVIOUS
    <3>2. /\ row \in [cart : {0} \union Carts, product : Products \union {NoOne}, quantity : Nat]
          /\ row.cart = item[i0].cart /\ row.product = item[i0].product /\ row.quantity # 0
      BY <1>2, <2>1, <3>1 DEF RowsOK
    <3>3. item' = [item EXCEPT ![i0] = row]
      BY <1>0, <1>7, <2>3, <3>1 DEF Bump
    <3>4. QED BY <1>0, <1>5, <1>7, <2>1, <2>3, <3>2, <3>3 DEF Bump
  <2>4. QED BY <2>2, <2>3
<1>8. CASE CreateItem(t)
  <2>1. CASE cartSession[c0] # 0
    BY <1>0, <1>8, <2>1, CreateItemStep
  <2>2. CASE cartSession[c0] = 0
    BY <1>0, <1>6, <1>8, <2>2 DEF CreateItem
  <2>3. QED BY <2>1, <2>2
<1>9. ASSUME i0 # 0, NEW row, Touch(t, row),
             row \in [cart : {0} \union Carts, product : Products \union {NoOne}, quantity : Nat],
             \/ row = NoItem
             \/ /\ row.cart = item[i0].cart /\ row.product = item[i0].product
                /\ row.quantity # 0
      PROVE  CartInv' /\ Untouched(t)
  <2>1. UNCHANGED <<browserOf, cookie, owner, cartSession, used>> /\ Done(t)
    BY <1>9 DEF Touch, tabVars
  <2>2. CASE item[i0] = NoItem
    BY <1>0, <1>6, <1>9, <2>1, <2>2 DEF Touch
  <2>3. CASE item[i0] # NoItem
    BY <1>0, <1>5, <1>9, <2>1, <2>3 DEF Touch
  <2>4. QED BY <2>2, <2>3
<1>10. CASE RemoveCommit(t)
  <2>1. i0 # 0
    BY <1>0, <1>1, <1>10 DEF RemoveCommit, At, PcOK
  <2>2. QED BY <1>4, <1>9, <1>10, <2>1 DEF RemoveCommit
<1>11. ASSUME NEW n \in Nat, n # 0, i0 # 0,
              Touch(t, [item[i0] EXCEPT !.quantity = Least(Cap, n)])
       PROVE  CartInv' /\ Untouched(t)
  <2>1. PICK row : row = [item[i0] EXCEPT !.quantity = Least(Cap, n)]
    OBVIOUS
  <2>2. Least(Cap, n) \in Nat \ {0} /\ i0 \in Items
    BY <1>2, <1>11, CartAssumption DEF Least, CartAssumption
  <2>3. /\ row \in [cart : {0} \union Carts, product : Products \union {NoOne}, quantity : Nat]
        /\ row.cart = item[i0].cart /\ row.product = item[i0].product /\ row.quantity # 0
    BY <2>1, <2>2 DEF RowsOK
  <2>4. QED BY <1>9, <1>11, <2>1, <2>3
<1>12. CASE PlusCommit(t)
  <2>1. i0 # 0 /\ Touch(t, [item[i0] EXCEPT !.quantity = Least(Cap, r0.quantity + 1)])
    BY <1>0, <1>1, <1>12 DEF PlusCommit, At, PcOK
  <2>2. r0.quantity + 1 \in Nat /\ r0.quantity + 1 # 0
    BY <1>2
  <2>3. QED BY <1>11, <2>1, <2>2
<1>13. CASE MinusCommit(t)
  <2>1. i0 # 0 /\ r0.quantity # 0
    BY <1>0, <1>1, <1>13 DEF MinusCommit, At, PcOK
  <2>2. CASE r0.quantity = 1
    BY <1>0, <1>4, <1>9, <1>13, <2>1, <2>2 DEF MinusCommit
  <2>3. CASE r0.quantity # 1
    <3>1. r0.quantity - 1 \in Nat /\ r0.quantity - 1 # 0
      BY <1>2, <2>1, <2>3
    <3>2. Touch(t, [item[i0] EXCEPT !.quantity = Least(Cap, r0.quantity - 1)])
      BY <1>0, <1>13, <2>3 DEF MinusCommit
    <3>3. QED BY <1>11, <2>1, <3>1, <3>2
  <2>4. QED BY <2>2, <2>3
\* The rows of the request's own cart.
<1>14. ASSUME c0 # 0,
              item' = [i \in Items |-> IF i \in ItemsOf(c0) THEN NoItem ELSE item[i]]
       PROVE  /\ c0 \in Carts /\ ItemsOf(c0) \in SUBSET Items
              /\ cartSession[c0] # 0 => owner[cartSession[c0]] = browserOf[t]
              /\ \A i \in Items \ ItemsOf(c0) : item'[i] = item[i]
              /\ \A i \in ItemsOf(c0) :
                    /\ item'[i] = NoItem
                    /\ item[i] # NoItem => owner[cartSession[item[i].cart]] = browserOf[t]
              /\ \A i \in Items : item[i].cart = c0 => item'[i] = NoItem
              /\ item' \in [Items -> [cart : {0} \union Carts, product : Products \union {NoOne},
                                     quantity : Nat]]
  <2>1. c0 \in Carts /\ ItemsOf(c0) \in SUBSET Items
    BY <1>2, <1>14 DEF ItemsOf
  <2>2. cartSession[c0] # 0 => owner[cartSession[c0]] = browserOf[t]
    BY <1>0, <1>1, <1>14 DEF RefOK
  <2>3. \A i \in ItemsOf(c0) : item[i] # NoItem => cartSession[item[i].cart] # 0 /\ item[i].cart = c0
    BY DEF ItemsOf, CartTypeOK
  <2>4. QED BY <1>4, <1>14, <2>1, <2>2, <2>3 DEF ItemsOf, RowsOK
<1>15. CASE ClearItems(t)
  <2>1. /\ cartPc[t] = "clear-items" /\ Goto(t, "clear-cart", r0)
        /\ UNCHANGED <<browserOf, cookie, owner, cartSession, used>>
        /\ item' = [i \in Items |-> IF i \in ItemsOf(c0) THEN NoItem ELSE item[i]]
    BY <1>0, <1>15 DEF ClearItems, At, tabVars
  <2>2. c0 # 0 /\ PcOK("clear-cart", r0)
    BY <1>0, <1>1, <2>1 DEF PcOK
  <2>3. cartSession' = [c \in Carts |-> IF c \in {} THEN 0 ELSE cartSession[c]]
    BY <1>4, <2>1
  <2>4. Writes(t, 0, {}, ItemsOf(c0))
    BY <1>2, <1>14, <2>1, <2>2, <2>3 DEF Writes
  <2>5. QED BY <1>1, <2>1, <2>2, <2>4, WriteStep
<1>16. CASE ClearCart(t)
  <2>1. /\ cartPc[t] = "clear-cart" /\ Goto(t, "idle", NoRequest)
        /\ UNCHANGED <<browserOf, owner, used>>
        /\ cartSession' = [cartSession EXCEPT ![c0] = 0]
        /\ cookie' = [cookie EXCEPT ![browserOf[t]] = 0]
        /\ item' = [i \in Items |-> IF i \in ItemsOf(c0) THEN NoItem ELSE item[i]]
    BY <1>0, <1>16 DEF ClearCart, At, Done
  <2>2. c0 # 0
    BY <1>0, <1>1, <2>1 DEF PcOK
  <2>3. cartSession' = [c \in Carts |-> IF c \in {c0} THEN 0 ELSE cartSession[c]]
    BY <2>1 DEF CartTypeOK
  <2>4. Writes(t, 0, {c0}, ItemsOf(c0))
    BY <1>2, <1>14, <2>1, <2>2, <2>3 DEF Writes
  <2>5. QED BY <1>3, <2>1, <2>4, WriteStep
<1>17. QED BY <1>7, <1>8, <1>10, <1>12, <1>13, <1>15, <1>16

LEMMA TabStep ==
    ASSUME CartInv, CartAssumption, NEW t \in Tabs, TabNext(t)
    PROVE  CartInv' /\ Untouched(t)
<1>1. CASE \E p \in Products : AddStart(t, p)
  BY <1>1, AddStartStep
<1>2. CASE CreateCart(t)
  BY <1>2, CreateCartStep
<1>3. CASE \/ FindCart(t) \/ FindItem(t)
           \/ \E i \in Items : RemoveRead(t, i) \/ PlusRead(t, i) \/ MinusRead(t, i)
           \/ AssembleWallet(t) \/ AssembleCard(t)
           \/ \E z \in Zones : OrderByWallet(t, z) \/ OrderByCard(t, z)
  BY <1>3, LookStep
<1>4. CASE \/ Bump(t) \/ CreateItem(t)
           \/ RemoveCommit(t) \/ PlusCommit(t) \/ MinusCommit(t)
           \/ ClearItems(t) \/ ClearCart(t)
  BY <1>4, ChangeStep
<1>5. QED BY <1>1, <1>2, <1>3, <1>4 DEF TabNext

\* Every action takes its tab to another step, so the tab that acts is known.
LEMMA TabMoves ==
    ASSUME CartInv, NEW t \in Tabs, TabNext(t)
    PROVE  cartPc'[t] # cartPc[t]
  BY DEF CartInv, CartTypeOK, TabNext, AddStart, FindCart, CreateCart, FindItem, Bump, CreateItem,
     RemoveRead, PlusRead, MinusRead, TouchRead, RemoveCommit, PlusCommit, MinusCommit, Touch,
     AssembleWallet, AssembleCard, Assemble, OrderByWallet, OrderByCard, ClearItems, ClearCart,
     At, Goto, Done

LEMMA CartInitInv == CartInit => CartInv
<1> SUFFICES ASSUME CartInit
             PROVE  CartInv
  OBVIOUS
<1> USE CartAssumption DEF CartInit
<1>1. CartTypeOK
  BY DEF CartAssumption, CartTypeOK
<1>2. RowsOK
  BY DEF CartAssumption, RowsOK, NoItem
<1>3. TabsOK
  <2>1. ASSUME NEW t \in Tabs
        PROVE  RefOK(t, request[t]) /\ PcOK(cartPc[t], request[t])
    BY NoRequestOK
  <2>2. QED BY <2>1 DEF TabsOK
<1>4. CookiesOK
  BY DEF CookiesOK
<1>5. CountsOK
  <2>1. ASSUME NEW s \in Sessions
        PROVE  Cardinality(CartsOf(s)) + Cardinality(NewCart(s)) <= Cardinality(Tabs)
    <3>1. CartsOf(s) = {} /\ NewCart(s) \subseteq Tabs
      BY DEF CartsOf, NewCart
    <3>2. QED BY <3>1, Finite, SumFirst
  <2>2. ASSUME NEW c \in Carts, NEW p \in Products
        PROVE  Cardinality(RowsOf(c, p)) + Cardinality(NewItem(c, p)) <= Cardinality(Tabs)
    <3>1. RowsOf(c, p) = {} /\ NewItem(c, p) \subseteq Tabs
      BY DEF RowsOf, ItemsOf, NoItem, NewItem
    <3>2. QED BY <3>1, Finite, SumFirst
  <2>3. QED BY <2>1, <2>2 DEF CountsOK
<1>6. QED BY <1>1, <1>2, <1>3, <1>4, <1>5 DEF CartInv

LEMMA CartStutters == ASSUME CartInv, UNCHANGED cartVars PROVE CartInv'
<1>1. UNCHANGED <<browserOf, cookie, owner, cartSession, item, used, cartPc, request>>
  BY DEF cartVars, tabVars, cartRows
<1>2. CountsOK'
  <2>1. /\ \A s : CartsOf(s)' = CartsOf(s) /\ NewCart(s)' = NewCart(s)
        /\ \A c, p : RowsOf(c, p)' = RowsOf(c, p) /\ NewItem(c, p)' = NewItem(c, p)
    BY <1>1 DEF CartsOf, NewCart, RowsOf, ItemsOf, NewItem
  <2>2. QED BY <2>1 DEF CartInv, CountsOK
<1>3. TabsOK'
  BY <1>1 DEF CartInv, TabsOK, RefOK, PcOK, Requests
<1>4. QED BY <1>1, <1>2, <1>3 DEF CartInv, CartTypeOK, RowsOK, CookiesOK

LEMMA CartInductive == CartSpec => []CartInv
<1>1. CartInv /\ [CartNext]_cartVars => CartInv'
  BY TabStep, CartStutters, CartAssumption DEF CartNext
<1>2. QED BY <1>1, CartInitInv, PTL DEF CartSpec

\* A row has a cart that exists, and a cart a session that was minted.
THEOREM CartTyped == CartSpec => []CartTypeOK
<1>1. CartInv => CartTypeOK
  BY DEF CartInv
<1>2. QED BY <1>1, CartInductive, PTL

\* Whatever ids are sent and however late the writes come, only a cart's own
\* browser changes it.
THEOREM OthersStayUntouched == CartSpec => OthersUntouched
<1>1. CartInv /\ [CartNext]_cartVars =>
         [\A c \in Carts :
            /\ cartSession[c] # 0
            /\ \A t \in Tabs :
                  cartPc'[t] # cartPc[t] => browserOf[t] # owner[cartSession[c]]
            => /\ cartSession'[c] = cartSession[c]
               /\ \A i \in ItemsOf(c) : item'[i] = item[i]]_cartVars
  <2> SUFFICES ASSUME CartInv, NEW t \in Tabs, TabNext(t), NEW c \in Carts,
                      cartSession[c] # 0,
                      \A q \in Tabs :
                         cartPc'[q] # cartPc[q] => browserOf[q] # owner[cartSession[c]]
               PROVE  /\ cartSession'[c] = cartSession[c]
                      /\ \A i \in ItemsOf(c) : item'[i] = item[i]
    BY DEF CartNext
  <2>1. browserOf[t] # owner[cartSession[c]]
    BY TabMoves
  <2>2. Untouched(t)
    BY TabStep, CartAssumption
  <2>3. QED BY <2>1, <2>2 DEF Untouched
<1>2. QED BY <1>1, CartInductive, PTL DEF CartSpec, OthersUntouched

\* A session has no more carts, and a cart no more rows of a product, than
\* there are tabs that raced to create them.
THEOREM RowsStayBounded == CartSpec => []RowsBounded
<1>1. CartInv => RowsBounded
  <2> SUFFICES ASSUME CartInv
               PROVE  RowsBounded
    OBVIOUS
  <2>1. ASSUME NEW s \in Sessions
        PROVE  Cardinality(CartsOf(s)) <= Cardinality(Tabs)
    <3>1. Cardinality(CartsOf(s)) \in Nat /\ Cardinality(NewCart(s)) \in Nat
      BY Finite, CartAssumption, FS_CardinalityType
    <3>2. Cardinality(CartsOf(s)) + Cardinality(NewCart(s)) <= Cardinality(Tabs)
      BY DEF CartInv, CountsOK
    <3>3. QED BY <3>1, <3>2, Finite, CartAssumption
  <2>2. ASSUME NEW c \in Carts, NEW p \in Products
        PROVE  Cardinality(RowsOf(c, p)) <= Cardinality(Tabs)
    <3>1. Cardinality(RowsOf(c, p)) \in Nat /\ Cardinality(NewItem(c, p)) \in Nat
      BY Finite, CartAssumption, FS_CardinalityType
    <3>2. Cardinality(RowsOf(c, p)) + Cardinality(NewItem(c, p)) <= Cardinality(Tabs)
      BY DEF CartInv, CountsOK
    <3>3. QED BY <3>1, <3>2, Finite, CartAssumption
  <2>3. QED BY <2>1, <2>2 DEF RowsBounded
<1>2. QED BY <1>1, CartInductive, PTL

\* A single tab, whose requests follow one another, coalesces its adds: two
\* rows of a product take a race.
THEOREM LoneTabCoalesces ==
    ASSUME Cardinality(Tabs) = 1
    PROVE  CartSpec => []AddsCoalesce
<1>1. RowsBounded => AddsCoalesce
  BY DEF RowsBounded, AddsCoalesce
<1>2. QED BY <1>1, RowsStayBounded, PTL
=============================================================================
