---------------------------- MODULE OrderOutcome ----------------------------
(***************************************************************************)
(* What checkout promises about an order, whichever payment rail, webhook  *)
(* handler or worker gets there first: once placed, an order is settled at *)
(* most once, as paid or as expired, and the step that makes it paid is    *)
(* the step that puts exactly one escrow hold per seller behind it.        *)
(***************************************************************************)
EXTENDS Naturals

CONSTANTS
    Orders,     \* order ids
    Sellers,    \* seller ids
    SellersOf   \* SellersOf[o]: the sellers with an item in order o

VARIABLES
    outcome,    \* outcome[o]: "absent", "open", "paid" or "expired"
    escrow      \* escrow[o][s]: number of escrow holds for seller s of o

vars == <<outcome, escrow>>

NoHolds == [s \in Sellers |-> 0]
OneHoldEach(o) == [s \in Sellers |-> IF s \in SellersOf[o] THEN 1 ELSE 0]

Init ==
    /\ outcome = [o \in Orders |-> "absent"]
    /\ escrow = [o \in Orders |-> NoHolds]

Place(o) ==
    /\ outcome[o] = "absent"
    /\ outcome' = [outcome EXCEPT ![o] = "open"]
    /\ UNCHANGED escrow

Pay(o) ==
    /\ outcome[o] = "open"
    /\ outcome' = [outcome EXCEPT ![o] = "paid"]
    /\ escrow' = [escrow EXCEPT ![o] = OneHoldEach(o)]

Expire(o) ==
    /\ outcome[o] = "open"
    /\ outcome' = [outcome EXCEPT ![o] = "expired"]
    /\ UNCHANGED escrow

Next == \E o \in Orders : Place(o) \/ Pay(o) \/ Expire(o)

Spec == Init /\ [][Next]_vars
=============================================================================
