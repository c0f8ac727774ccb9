------------------------------- MODULE MCCart -------------------------------
(* The cart alone, for TLC: every product costs 30 and every zone charges  *)
(* what the pages say, 2.                                                  *)
EXTENDS Cart

MCPrice == [p \in Products |-> 30]
MCZoneFee == [z \in Zones |-> 2]
=============================================================================
