---------------------------- MODULE MCBackOffice ----------------------------
(* What settles an order and what the back office makes of it, for TLC:    *)
(* the checkout, the insurance fund, the buyers' scores and the trust      *)
(* cases. One instance checks them side by side: a behaviour is of the one *)
(* part that is chosen at the start, and the others rest.                  *)
EXTENDS Checkout, InsuranceFund, TrustScore, TrustCases, FiniteSetsExt, TLC

CONSTANTS c1, d1, d2, d3, p1, p2, p3, p4, b1, b2, s1

\* Checkout: both orders are built from the same cart (a double submit), which
\* has items of every seller.
MCCartOf == [o \in Orders |-> c1]
MCSellersOf == [o \in Orders |-> Sellers]

\* InsuranceFund: d1 and d2 share the buyer, d1 and d3 the seller (d2's
\* order has several), and the ledger has room for two payouts of d1.
MCBuyerOf == [d \in Disputes |-> IF d = d3 THEN b2 ELSE b1]
MCSellerOf == [d \in Disputes |-> IF d = d2 THEN Nobody ELSE s1]
MCDisputeOf == (p1 :> d1) @@ (p2 :> d1) @@ (p3 :> d2) @@ (p4 :> d3)
MCAmount == [d \in Disputes |-> 2]

\* SUM(amount).
MCTotal ==
    [S \in SUBSET Payouts |->
        MapThenSumSet(LAMBDA p : MCAmount[MCDisputeOf[p]], S)]

\* Half of the commission, 3 cents an order, rounded half up.
MCContribution == [S \in SUBSET FundOrders |-> (3 * Cardinality(S) + 1) \div 2]

\* TrustCases: one driver, with the driver's rule.
MCRuleOf == [s \in Subjects |-> "DRIVER"]
MCThreshold == [r \in Rules |-> 1]

\* The parts share the model values of their processes: webhook handlers,
\* admins and desks, and sweeps and scans.
MCSymmetry == Permutations(Hooks) \union Permutations(Sweeps)

VARIABLE part

BackOfficeInit ==
    /\ part \in {"checkout", "fund", "score", "cases"}
    /\ Init /\ FundInit /\ ScoreInit /\ CasesInit

BackOfficeNext ==
    /\ UNCHANGED part
    /\ \/ /\ part = "checkout" /\ Next
          /\ UNCHANGED <<fundVars, scoreVars, caseVars>>
       \/ /\ part = "fund" /\ FundNext
          /\ UNCHANGED <<vars, scoreVars, caseVars>>
       \/ /\ part = "score" /\ ScoreNext
          /\ UNCHANGED <<vars, fundVars, caseVars>>
       \/ /\ part = "cases" /\ CasesNext
          /\ UNCHANGED <<vars, fundVars, scoreVars>>

BackOfficeSpec ==
    BackOfficeInit
        /\ [][BackOfficeNext]_<<part, vars, fundVars, scoreVars, caseVars>>
=============================================================================
