----------------------------- MODULE MCTrustDesk -----------------------------
(* What Trust & Safety decides, for TLC: the disputes of one order, the   *)
(* applications of sellers and the listings of one. They share no row, so  *)
(* one instance checks them side by side: a behaviour is of the part that  *)
(* is chosen at the start, and the others rest.                            *)
EXTENDS Tracking, Kyc, Listings, TLC

CONSTANTS o1, b1, s3

MCOrderOf == [h \in Holds |-> o1]

\* Kyc: two tabs of a guest's browser.
MCBrowserOf == [t \in Wizards |-> b1]
MCSignedIn == [b \in Browsers |-> Missing]

\* Listings: products and keys that no row or tab holds are interchangeable,
\* so whatever is new is taken in order.
InOrder ==
    /\ listed' = 1 .. Cardinality(listed')
    /\ \A k \in bucket' \ bucket : FreshKeys \intersect (1 .. k - 1) = {}

\* Editing and moderating have all but one of the slugs: with two of them a
\* listing can take a free slug, and meet one that is taken.  Passing the cap
\* takes the last one, and no edit or verdict.
AllButOne == \A r \in SellerTabs : form'[r].slug # s3

\* The parts share the model values of tabs, of the people who decide and, as
\* ProductSlugs, of Users, so one symmetry reduces all.
MCSymmetry == UNION {Permutations(S) : S \in {Users, Wizards, Reviewers}}

VARIABLE part

TrustDeskInit ==
    /\ part \in {"disputes", "kyc", "listings", "cap"}
    /\ Init /\ KycInit /\ ListInit

TrustDeskNext ==
    /\ UNCHANGED part
    /\ \/ /\ part = "disputes" /\ Next
          /\ UNCHANGED <<kycVars, listVars>>
       \/ /\ part = "kyc" /\ KycNext
          /\ UNCHANGED <<vars, listVars>>
       \/ /\ part = "listings" /\ ListNext /\ InOrder /\ AllButOne
          /\ UNCHANGED <<vars, kycVars>>
       \/ /\ part = "cap"
          /\ \E r \in SellerTabs : CreatorNext(r) \/ RequestDies(r)
          /\ InOrder
          /\ UNCHANGED <<vars, kycVars>>

TrustDeskSpec ==
    TrustDeskInit /\ [][TrustDeskNext]_<<part, vars, kycVars, listVars>>
=============================================================================
