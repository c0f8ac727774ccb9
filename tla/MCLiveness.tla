----------------------------- MODULE MCLiveness -----------------------------
(* What has to happen in the end, for TLC: the settling of an order, the   *)
(* worker's two polling loops without Redis, its replicas and queues with  *)
(* it, and one of the jobs that they run, the fraud scan.  A behaviour is  *)
(* of the one part that is chosen at the start, and the others rest.       *)
EXTENDS Checkout, PollLoop, JobQueue, TrustCases

CONSTANT c1

\* Checkout: both orders are built from the same cart (a double submit).
MCCartOf == [o \in Orders |-> c1]
MCSellersOf == [o \in Orders |-> Sellers]

\* PollLoop: the daily loop has one sweep here.
MCLoopOf == [s \in Jobs |-> IF s = "topup" THEN "daily" ELSE "main"]

MCQueueOrder == <<"escrow", "expiry">>

\* TrustCases: one driver, with the driver's rule.
MCRuleOf == [s \in Subjects |-> "DRIVER"]
MCThreshold == [r \in Rules |-> 2]

VARIABLE part

LivenessInit ==
    /\ part \in {"checkout", "poll", "queue", "scan"}
    /\ Init /\ PollInit /\ JobInit /\ CasesInit

LivenessNext ==
    /\ UNCHANGED part
    /\ \/ /\ part = "checkout" /\ Next
          /\ UNCHANGED <<pollVars, jobVars, caseVars>>
       \/ /\ part = "poll" /\ PollNext
          /\ UNCHANGED <<vars, jobVars, caseVars>>
       \/ /\ part = "queue" /\ JobNext
          /\ UNCHANGED <<vars, pollVars, caseVars>>
       \/ /\ part = "scan" /\ CasesNext
          /\ UNCHANGED <<vars, pollVars, jobVars>>

\* A part that rests owes no step.
LivenessSpec ==
    /\ LivenessInit
    /\ [][LivenessNext]_<<part, vars, pollVars, jobVars, caseVars>>
    /\ \/ part = "checkout" /\ Fairness
       \/ part = "poll" /\ PollFairness
       \/ part = "queue" /\ JobFairness
       \/ part = "scan" /\ CasesFairness
=============================================================================
