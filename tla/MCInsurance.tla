----------------------------- MODULE MCInsurance -----------------------------
(* The fund alone, for TLC: one order at 3 cents of commission, two         *)
(* replicas that run the top-up, and no claim.                              *)
EXTENDS InsuranceFund

MCContribution == [S \in SUBSET FundOrders |-> Cardinality(S) * 2]
MCBuyerOf == [d \in Disputes |-> Nobody]
MCSellerOf == [d \in Disputes |-> Nobody]
MCDisputeOf == [p \in Payouts |-> Nobody]
MCAmount == [d \in Disputes |-> 0]
MCTotal == [S \in SUBSET Payouts |-> 0]
=============================================================================
