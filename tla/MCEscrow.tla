------------------------------ MODULE MCEscrow ------------------------------
(***************************************************************************)
(* Instances of Escrow and its pages for TLC: all the holds belong to one  *)
(* order, as the holds of a multi-seller order do.                         *)
(***************************************************************************)
EXTENDS Tracking

CONSTANT o1

MCOrderOf == [h \in Holds |-> o1]
=============================================================================
