----------------------------- MODULE MCCheckout -----------------------------
(***************************************************************************)
(* Instances of Checkout for TLC.  Both orders are built from the same     *)
(* cart (a double submit) and the cart has the items of every seller.      *)
(***************************************************************************)
EXTENDS Checkout

CONSTANT c1

MCCartOf == [o \in Orders |-> c1]
MCSellersOf == [o \in Orders |-> Sellers]
=============================================================================
