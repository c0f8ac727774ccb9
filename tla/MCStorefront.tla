---------------------------- MODULE MCStorefront ----------------------------
(* What a shopper meets, for TLC: the cart, the search pages, the users    *)
(* table and the proof of delivery. They share no row, so one instance     *)
(* checks them side by side: a behaviour is of the one part that is chosen *)
(* at the start, and the others rest.                                      *)
EXTENDS Cart, Search, Accounts, DeliveryProof, TLC

CONSTANTS g1, g2, g3, s1, s2, c1, c2, rice

\* Cart: one product at 30 and a zone that charges 3 where the pages say 2.
MCPrice == [p \in Products |-> 30]
MCZoneFee == [z \in Zones |-> 3]

\* The other parts hold no tab or browser.
MCSymmetry == Permutations(Tabs) \union Permutations(Browsers)

\* Search: three products of two sellers in two categories; two of them
\* cost the same and came in the same batch, so that they tie by price,
\* one has no rating yet and one does not match the query.
Each(a, b, c) == g1 :> a @@ g2 :> b @@ g3 :> c
MCGoods == {g1, g2, g3}
MCSellerOf == Each(s1, s2, s1)
MCCategoryOf == Each(c1, c1, c2)
MCBox == Each([cond |-> "NEW", auth |-> "PROOF_PROVIDED"],
              [cond |-> "USED_GOOD", auth |-> "PROOF_PROVIDED"],
              [cond |-> "NEW", auth |-> "CLAIMED"])
MCRating == Each(4, 0, 3)
MCPriceOf == Each(5, 5, 2)
MCFeatured == Each(0, 1, 0)
MCCreated == Each(1, 1, 2)
MCRank == [q \in {rice} |-> Each(1, 2, 0)]

VARIABLE part

StorefrontInit ==
    /\ part \in {"cart", "search", "accounts", "proof"}
    /\ CartInit /\ SearchInit /\ AccountsInit /\ ProofInit
    /\ part # "search" => live = {}
    /\ part # "accounts" => primary = CHOOSE f \in [People -> Emails] :
                                \A a, b \in People : f[a] = f[b] => a = b

StorefrontNext ==
    /\ UNCHANGED part
    /\ \/ /\ part = "cart" /\ CartNext
          /\ UNCHANGED <<searchVars, accountVars, proofVars>>
       \/ /\ part = "search" /\ SearchNext
          /\ UNCHANGED <<cartVars, accountVars, proofVars>>
       \/ /\ part = "accounts" /\ AccountsNext
          /\ UNCHANGED <<cartVars, searchVars, proofVars>>
       \/ /\ part = "proof" /\ ProofNext
          /\ UNCHANGED <<cartVars, searchVars, accountVars>>

StorefrontSpec ==
    StorefrontInit
        /\ [][StorefrontNext]_<<part, cartVars, searchVars, accountVars, proofVars>>
=============================================================================
