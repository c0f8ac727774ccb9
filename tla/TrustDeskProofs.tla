---------------------------- MODULE TrustDeskProofs ----------------------------
(***************************************************************************)
(* Proofs about Tracking and Kyc: frozen money is always on the desk of an *)
(* admin, a dispute in time freezes all of it, a verdict on an application *)
(* stands, and a seller is taken for what it says.                         *)
(***************************************************************************)
EXTENDS Tracking, EscrowProofs, Kyc

-----------------------------------------------------------------------------
(* The queue of disputes.                                                  *)

\* The admins' queue and the page of a dispute offer a resolution for all
\* frozen money and every DISPUTED order.
THEOREM FrozenAlwaysListed == Spec => []FrozenIsListed
<1>1. FrozenHoldHasDispute /\ DisputedOrderHasDispute => FrozenIsListed
  <2> SUFFICES ASSUME FrozenHoldHasDispute, DisputedOrderHasDispute
               PROVE  FrozenIsListed
    OBVIOUS
  <2>1. \A d \in Disputes :
           dispute[d] \in Unresolved => d \in AdminQueue /\ ShowResolution(d)
    BY DEF AdminQueue, OpenStatuses, ShowResolution, ResolvedStatuses, Unresolved, Resolved
  <2>2. ASSUME NEW h \in Holds, hold[h] = "HELD_DISPUTED"
        PROVE  \E d \in AdminQueue : h \in AdminFrozenIn(d) /\ ShowResolution(d)
    <3>1. PICK d \in DisputesOf(OrderOf[h]) : holdDispute[h] = d /\ dispute[d] \in Unresolved
      BY <2>2 DEF FrozenHoldHasDispute
    <3>2. h \in AdminFrozenIn(d)
      BY <2>2, <3>1 DEF AdminFrozenIn, FrozenIn, HoldsOf, DisputesOf
    <3>3. QED BY <2>1, <3>1, <3>2 DEF DisputesOf
  <2>3. ASSUME NEW o \in Orders, status[o] = "DISPUTED"
        PROVE  \E d \in AdminQueue : disputeOrder[d] = o /\ ShowResolution(d)
    BY <2>1, <2>3 DEF DisputedOrderHasDispute, DisputesOf
  <2>4. QED BY <2>2, <2>3 DEF FrozenIsListed
<1>2. QED BY FrozenIsResolvable, DisputedIsResolvable, <1>1, PTL

\* A dispute that comes in the time the tracking page leaves for it freezes
\* all the money of its order: the sweep has released none of it, and
\* createDispute has read all of it as HELD.
THEOREM TimelyDisputeFreezes == Spec => DisputeInTimeFreezes
<1>1. IInv /\ Undisputed /\ [Next]_vars => [TimelyFreeze]_vars
  <2> SUFFICES ASSUME IInv, Undisputed, Next PROVE TimelyFreeze
    OBVIOUS
  <2>1. CASE UNCHANGED disputeOrder
    BY <2>1 DEF TimelyFreeze, DisputesOf
  <2>2. ASSUME NEW t \in Tabs, NEW d \in Disputes, TabCommit(t, d)
        PROVE  TimelyFreeze
    <3> SUFFICES ASSUME NEW o \in Orders, NEW h \in HoldsOf(o),
                        DisputesOf(o) = {}, DisputesOf(o)' # {}, StillPromised(o)
                 PROVE  hold'[h] = "HELD_DISPUTED"
      BY DEF TimelyFreeze
    <3>1. h \in Holds /\ OrderOf[h] = o
      BY DEF HoldsOf
    <3>2. o = tabOrder[t]
      BY <2>2 DEF TabCommit, DisputesOf, IInv, TypeOK
    <3>3. hold[h] \in {"HELD", "RELEASING"}
      BY <3>1 DEF Undisputed
    <3>4. hold[h] # "RELEASING"
      <4>1. now \in Nat /\ firstDelivered[o] \in Nat \union {Never}
        BY DEF IInv, TypeOK, Day
      <4>2. firstDelivered[o] = Never \/ now + TxTimeout < firstDelivered[o] + Window
        BY DEF StillPromised
      <4>3. hold[h] = "RELEASING" => /\ firstDelivered[o] # Never
                                     /\ firstDelivered[o] + Window <= now + TxTimeout
        BY <3>1 DEF Undisputed
      <4>4. Window \in Nat /\ TxTimeout \in Nat /\ Never \notin Nat
        BY EscrowAssumption DEF EscrowAssumption
      <4>5. QED BY <4>1, <4>2, <4>3, <4>4
    <3>5. h \in tabHolds[t]
      BY <2>2, <3>1, <3>2, <3>3, <3>4 DEF TabCommit, IInv, Memory, TabMemory, HeldOf
    <3>6. QED BY <2>2, <3>1, <3>5 DEF TabCommit
  <2>3. UNCHANGED disputeOrder \/ \E t \in Tabs, d \in Disputes : TabCommit(t, d)
    BY DEF Next, Tick, DevNext, DevRead, DevWrite, DoorNext, CourierStart, CourierLock,
       CourierReads, CourierGivesUp, CourierReject, CourierAccept, CourierDies,
       CourierDone, ReleaseNext, RelFind, RelReadOrder, RelReadHolds, RelCommit,
       RelRelease, RelEnd, TabNext, TabReadOrder, TabReadHolds, TabDies, AdminNext,
       AdminReadDispute, AdminReadHolds, AdminCommit, Settle, AdminFails, WatchNext,
       WatchFind, WatchCommit, WatchEnd, rows, disputeRows
  <2>4. QED BY <2>1, <2>2, <2>3
<1>2. QED BY Inductive, AlwaysUndisputed, <1>1, PTL DEF Spec, DisputeInTimeFreezes

-----------------------------------------------------------------------------
(* Sellers and their applications.                                         *)

Standings == {"NONE", "IN_REVIEW", "APPROVED", "REJECTED"}

\* A wizard request that is about to write has a complete draft.
WizardOK ==
    \A t \in Wizards :
        wizPc[t] = "commit" => /\ wizDraft[t].slug \in Slugs
                               /\ Owner(t, wizDraft[t]) \in Users

AppsOK == \A a \in Applications : appOf[a] = Missing <=> appStatus[a] = "NONE"

SellersOK ==
    \A u \in Users :
        sellerSlug[u] = Missing => kycStatus[u] = "NONE" /\ kycTier[u] = 0

\* A review that has decided holds the lock of an application that is still
\* open, and the seller's row is still what it read.
DecidingOK(r) ==
    LET a == revApp[r]
        u == appOf[a] IN
    /\ appLock[a] = r
    /\ appStatus[a] \in Reviewable
    /\ revTier[r] = kycTier[u]
    /\ revStatus[r] = kycStatus[u]

ReviewOK ==
    \A r \in Reviewers :
        /\ revPc[r] # "idle" => revApp[r] \in Applications /\ appOf[revApp[r]] \in Users
        /\ revPc[r] = "decided" => DecidingOK(r)

UploadsOK ==
    \A x \in Uploads :
        /\ upPc[x] \in {"new", "checked"} => x \notin objects /\ x \notin documents
        /\ upPc[x] = "put" => x \in objects /\ x \notin documents
        /\ x \in documents => x \in objects
        /\ x \in objects \ documents => upPc[x] \in {"put", "dead"}

Standing == AppsOK /\ SellersOK /\ ReviewOK /\ SellerHasItsApplication /\ StandingIsBacked

KycInv == KycTypeOK /\ WizardOK /\ UploadsOK /\ Standing

LEMMA KycInitInv == KycInit => KycInv
  BY KycAssumption DEF KycInit, KycInv, KycTypeOK, WizardOK, UploadsOK, Standing, AppsOK,
     SellersOK, ReviewOK, SellerHasItsApplication, StandingIsBacked, Backed, Drafts,
     Blank, Decisions, Decided, AppsOf

\* What the rows of sellers, applications and reviews say.
LEMMA StandingKept ==
    ASSUME Standing, UNCHANGED <<sellerVars, appVars, reviewVars>>
    PROVE  Standing'
<1> USE DEF sellerVars, appVars, reviewVars
<1>1. \A u : AppsOf(u)' = AppsOf(u)
  BY DEF AppsOf
<1>2. KycQueue' = KycQueue /\ \A a : ShowReviewForm(a)' = ShowReviewForm(a)
  BY DEF KycQueue, ShowReviewForm
<1>3. AppsOK' /\ SellersOK'
  BY DEF Standing, AppsOK, SellersOK
<1>4. ReviewOK'
  BY <1>1 DEF Standing, ReviewOK, DecidingOK
<1>5. SellerHasItsApplication'
  BY <1>1 DEF Standing, SellerHasItsApplication
<1>6. StandingIsBacked'
  BY <1>1, <1>2 DEF Standing, StandingIsBacked, Backed
<1>7. QED BY <1>3, <1>4, <1>5, <1>6 DEF Standing

LEMMA UploadsKept == ASSUME UploadsOK, UNCHANGED uploadVars PROVE UploadsOK'
  BY DEF UploadsOK, uploadVars

LEMMA WizardKept == ASSUME WizardOK, UNCHANGED wizardVars PROVE WizardOK'
  BY DEF WizardOK, wizardVars, Owner

\* The steps of the wizard that write no row.
LEMMA WizardStep ==
    ASSUME KycInv, NEW t \in Wizards,
           \/ \E s \in Slugs, e \in Users : Step1(t, s, e)
           \/ Step2(t) \/ WriteDraft(t) \/ Step3Read(t) \/ ClearDraft(t) \/ WizardDies(t)
    PROVE  KycInv'
<1> USE KycAssumption
<1>1. UNCHANGED <<sellerVars, appVars, reviewVars, uploadVars>>
  BY DEF Step1, Step2, WriteDraft, Step3Read, ClearDraft, WizardDies
<1>2. Jar(t) \in Drafts /\ wizDraft[t] \in Drafts /\ Blank \in Drafts
  BY DEF KycInv, KycTypeOK, Jar, Drafts, Blank
<1>3. \E pc \in {"idle", "answer", "commit", "clear"}, d \in Drafts :
         /\ WizardTo(t, pc, d)
         /\ pc = "commit" => d.slug \in Slugs /\ Owner(t, d) \in Users
  <2>1. ASSUME NEW s \in Slugs, NEW e \in Users, Step1(t, s, e)
        PROVE  \E d \in Drafts : WizardTo(t, "answer", d)
    <3>1. [Jar(t) EXCEPT !.slug = s, !.email = e] \in Drafts
      BY <1>2 DEF Drafts
    <3>2. QED BY <2>1, <3>1 DEF Step1
  <2>2. CASE Step2(t)
    <3>1. [Jar(t) EXCEPT !.city = TRUE] \in Drafts
      BY <1>2 DEF Drafts
    <3>2. QED BY <2>2, <3>1 DEF Step2
  <2>3. CASE Step3Read(t)
    <3>1. Jar(t).slug \in Slugs /\ Owner(t, Jar(t)) \in Users
      BY <1>2, <2>3 DEF Step3Read, Drafts, Owner
    <3>2. QED BY <1>2, <2>3, <3>1 DEF Step3Read
  <2>4. CASE WriteDraft(t) \/ ClearDraft(t) \/ WizardDies(t)
    BY <1>2, <2>4 DEF WriteDraft, ClearDraft, WizardDies
  <2>5. QED BY <2>1, <2>2, <2>3, <2>4
<1>4. draft' \in [Browsers -> Drafts]
  BY <1>2 DEF KycInv, KycTypeOK, Step1, Step2, WriteDraft, Step3Read, ClearDraft, WizardDies
<1>5. /\ wizPc' \in [Wizards -> {"idle", "answer", "commit", "clear"}]
      /\ wizDraft' \in [Wizards -> Drafts]
  BY <1>3 DEF KycInv, KycTypeOK, WizardTo
<1>6. KycTypeOK'
  BY <1>1, <1>4, <1>5 DEF KycInv, KycTypeOK, sellerVars, appVars, reviewVars, uploadVars
<1>7. WizardOK'
  BY <1>3 DEF KycInv, KycTypeOK, WizardOK, WizardTo, Owner
<1>8. QED BY <1>1, <1>6, <1>7, StandingKept, UploadsKept DEF KycInv

\* An application comes in.
LEMMA AppComes ==
    ASSUME KycTypeOK, AppsOK, NEW u \in Users, NEW a \in Applications, NEW n \in Nat,
           appOf[a] = Missing,
           appOf' = [appOf EXCEPT ![a] = u],
           appTarget' = [appTarget EXCEPT ![a] = n],
           appStatus' = [appStatus EXCEPT ![a] = "SUBMITTED"]
    PROVE  /\ appTarget'[a] = n /\ appStatus'[a] = "SUBMITTED" /\ appOf'[a] = u
           /\ \A b \in Applications \ {a} : /\ appOf'[b] = appOf[b]
                                            /\ appTarget'[b] = appTarget[b]
                                            /\ appStatus'[b] = appStatus[b]
           /\ \A v \in Users : a \notin AppsOf(v)
           /\ AppsOf(u)' = AppsOf(u) \union {a}
           /\ \A v \in Users \ {u} : AppsOf(v)' = AppsOf(v)
           /\ AppsOK'
<1> USE KycAssumption
<1>1. appTarget'[a] = n /\ appStatus'[a] = "SUBMITTED" /\ appOf'[a] = u
  BY DEF KycTypeOK
<1>2. \A b \in Applications \ {a} : /\ appOf'[b] = appOf[b]
                                    /\ appTarget'[b] = appTarget[b]
                                    /\ appStatus'[b] = appStatus[b]
  BY DEF KycTypeOK
<1>3. \A v \in Users : a \notin AppsOf(v)
  BY DEF AppsOf
<1>4. AppsOf(u)' = AppsOf(u) \union {a} /\ \A v \in Users \ {u} : AppsOf(v)' = AppsOf(v)
  BY <1>1, <1>2, <1>3 DEF AppsOf
<1>5. AppsOK'
  BY <1>1, <1>2 DEF AppsOK
<1>6. QED BY <1>1, <1>2, <1>3, <1>4, <1>5

\* It is no review's, and changes the standing of nobody who has one already.
LEMMA ReviewsGoOn ==
    ASSUME ReviewOK, NEW a \in Applications, UNCHANGED reviewVars,
           \A v \in Users : /\ a \notin AppsOf(v)
                            /\ AppsOf(v) # {} => /\ kycStatus'[v] = kycStatus[v]
                                                 /\ kycTier'[v] = kycTier[v],
           \A b \in Applications \ {a} : /\ appOf'[b] = appOf[b]
                                         /\ appStatus'[b] = appStatus[b]
    PROVE  ReviewOK'
<1> SUFFICES ASSUME NEW r \in Reviewers, revPc[r] # "idle"
             PROVE  /\ revApp[r] \in Applications /\ appOf'[revApp[r]] \in Users
                    /\ revPc[r] = "decided" => DecidingOK(r)'
  BY DEF ReviewOK, reviewVars
<1>0. PICK b, v : b = revApp[r] /\ v = appOf[b]
  OBVIOUS
<1>1. b \in Applications /\ v \in Users
  BY <1>0 DEF ReviewOK
<1>2. b \in AppsOf(v) /\ b # a
  BY <1>0, <1>1 DEF AppsOf
<1>3. /\ appOf'[b] = v /\ appStatus'[b] = appStatus[b]
      /\ kycStatus'[v] = kycStatus[v] /\ kycTier'[v] = kycTier[v]
  BY <1>0, <1>1, <1>2
<1>4. ASSUME revPc[r] = "decided"
      PROVE  DecidingOK(r)'
  <2>1. DecidingOK(r)
    BY <1>4 DEF ReviewOK
  <2>2. QED BY <1>0, <1>3, <2>1 DEF DecidingOK, reviewVars
<1>5. QED BY <1>0, <1>1, <1>3, <1>4

\* A seller's standing is backed as before where no application of it changed.
LEMMA BackedAsBefore ==
    ASSUME NEW v \in Users, Backed(v), kycTier'[v] = kycTier[v],
           kycStatus'[v] = kycStatus[v], AppsOf(v)' = AppsOf(v),
           \A b \in AppsOf(v) : appStatus'[b] = appStatus[b] /\ appTarget'[b] = appTarget[b]
    PROVE  Backed(v)'
<1>1. \A b \in AppsOf(v) : /\ b \in KycQueue => b \in KycQueue'
                           /\ ShowReviewForm(b)' = ShowReviewForm(b)
  BY DEF KycQueue, ShowReviewForm
<1>2. QED BY <1>1 DEF Backed

LEMMA Step3Step ==
    ASSUME KycInv, NEW t \in Wizards, NEW a \in Applications, Step3Commit(t, a)
    PROVE  KycInv'
<1> USE KycAssumption
<1>0. PICK u : u = Owner(t, wizDraft[t])
  OBVIOUS
<1>s. PICK s : s = wizDraft[t].slug
  OBVIOUS
<1>1. u \in Users /\ s \in Slugs /\ s # Missing
  BY <1>0, <1>s DEF KycInv, WizardOK, Step3Commit, Onboard
<1>2. /\ appOf[a] = Missing /\ sellerSlug[u] = Missing /\ ~SlugTaken(s)
      /\ sellerSlug' = [sellerSlug EXCEPT ![u] = s]
      /\ kycTier' = [kycTier EXCEPT ![u] = 1]
      /\ kycStatus' = [kycStatus EXCEPT ![u] = "IN_REVIEW"]
      /\ appOf' = [appOf EXCEPT ![a] = u]
      /\ appTarget' = [appTarget EXCEPT ![a] = 1]
      /\ appStatus' = [appStatus EXCEPT ![a] = "SUBMITTED"]
      /\ WizardTo(t, "clear", Blank)
      /\ UNCHANGED <<draft, reviewVars, uploadVars>>
  BY <1>0, <1>s DEF Step3Commit, Onboard
<1>3. KycTypeOK'
  <2>1. Blank \in Drafts
    BY DEF Drafts, Blank
  <2>2. QED BY <1>1, <1>2, <2>1 DEF KycInv, KycTypeOK, WizardTo, reviewVars, uploadVars
<1>4. WizardOK'
  BY <1>2 DEF KycInv, KycTypeOK, WizardOK, WizardTo, Owner
<1>5. UploadsOK'
  BY <1>2, UploadsKept DEF KycInv
<1>6. AppsOf(u) = {}
  BY <1>1, <1>2 DEF KycInv, Standing, SellerHasItsApplication
<1>7. /\ appTarget'[a] = 1 /\ appStatus'[a] = "SUBMITTED" /\ appOf'[a] = u
      /\ \A b \in Applications \ {a} : /\ appOf'[b] = appOf[b]
                                       /\ appTarget'[b] = appTarget[b]
                                       /\ appStatus'[b] = appStatus[b]
      /\ \A v \in Users : a \notin AppsOf(v)
      /\ AppsOf(u)' = AppsOf(u) \union {a}
      /\ \A v \in Users \ {u} : AppsOf(v)' = AppsOf(v)
      /\ AppsOK'
  BY <1>1, <1>2, AppComes DEF KycInv, Standing
<1>8. /\ sellerSlug'[u] = s /\ kycTier'[u] = 1 /\ kycStatus'[u] = "IN_REVIEW"
      /\ \A v \in Users \ {u} : /\ sellerSlug'[v] = sellerSlug[v]
                                /\ kycTier'[v] = kycTier[v] /\ kycStatus'[v] = kycStatus[v]
  BY <1>1, <1>2 DEF KycInv, KycTypeOK
<1>9. SellersOK'
  BY <1>1, <1>8 DEF KycInv, Standing, SellersOK
<1>10. ReviewOK'
  <2>1. \A v \in Users :
           AppsOf(v) # {} => kycStatus'[v] = kycStatus[v] /\ kycTier'[v] = kycTier[v]
    BY <1>6, <1>8
  <2>2. QED BY <1>2, <1>7, <2>1, ReviewsGoOn DEF KycInv, Standing
<1>11. SellerHasItsApplication'
  <2>1. \A v \in Users \ {u} : sellerSlug[v] # s
    BY <1>2 DEF SlugTaken
  <2>3. AppsOf(u)' = {a}
    BY <1>6, <1>7
  <2>4. ASSUME NEW v \in Users
        PROVE  IF sellerSlug'[v] = Missing
               THEN AppsOf(v)' = {}
               ELSE \E b \in Applications : AppsOf(v)' = {b}
    <3>1. CASE v = u
      BY <1>1, <1>7, <1>8, <2>3, <3>1
    <3>2. CASE v # u
      <4>1. AppsOf(v)' = AppsOf(v) /\ sellerSlug'[v] = sellerSlug[v]
        BY <1>7, <1>8, <3>2
      <4>2. QED BY <4>1 DEF KycInv, Standing, SellerHasItsApplication
    <3>3. QED BY <3>1, <3>2
  <2>5. \A v, w \in Users :
           sellerSlug'[v] = sellerSlug'[w] /\ sellerSlug'[v] # Missing => v = w
    BY <1>8, <2>1 DEF KycInv, Standing, SellerHasItsApplication
  <2>6. QED BY <2>4, <2>5 DEF SellerHasItsApplication
<1>12. StandingIsBacked'
  <2>1. Backed(u)'
    BY <1>6, <1>7, <1>8 DEF Backed, StandingAfter, KycQueue, ShowReviewForm
  <2>2. ASSUME NEW v \in Users \ {u}
        PROVE  Backed(v)'
    <3>1. \A b \in AppsOf(v) : appStatus'[b] = appStatus[b] /\ appTarget'[b] = appTarget[b]
      BY <1>7 DEF AppsOf
    <3>2. Backed(v)
      BY DEF KycInv, Standing, StandingIsBacked
    <3>3. QED BY <1>7, <1>8, <3>1, <3>2, BackedAsBefore
  <2>3. QED BY <2>1, <2>2 DEF StandingIsBacked
<1>13. QED BY <1>3, <1>4, <1>5, <1>7, <1>9, <1>10, <1>11, <1>12 DEF KycInv, Standing

\* A review before its verdict: nothing of sellers and applications moves.
LEMMA ReviewStep ==
    ASSUME KycInv, NEW r \in Reviewers,
           \/ \E a \in Applications, decision \in Decisions : ReviewRead(r, a, decision)
           \/ ReviewDecide(r) \/ ReviewDies(r)
    PROVE  KycInv'
<1> USE KycAssumption
<1>1. UNCHANGED <<wizardVars, sellerVars, appVars, uploadVars>>
  BY DEF ReviewRead, ReviewDecide, DecideAndReadSeller, ReviewDies, ReviewIdle, sellerVars,
         appVars
<1>2. UNCHANGED <<sellerSlug, kycTier, kycStatus, appOf, appTarget, appStatus>>
  BY <1>1 DEF sellerVars, appVars
<1>3. WizardOK' /\ UploadsOK'
  BY <1>1, WizardKept, UploadsKept DEF KycInv
<1>4. \A u : AppsOf(u)' = AppsOf(u)
  BY <1>2 DEF AppsOf
<1>5. AppsOK' /\ SellersOK' /\ SellerHasItsApplication'
  BY <1>2, <1>4 DEF KycInv, Standing, AppsOK, SellersOK, SellerHasItsApplication
<1>6. StandingIsBacked'
  <2>1. \A v \in Users : Backed(v)'
    BY <1>2, <1>4, BackedAsBefore DEF KycInv, Standing, StandingIsBacked
  <2>2. QED BY <2>1 DEF StandingIsBacked
<1>7. \A q \in Reviewers \ {r} :
         /\ revPc'[q] = revPc[q] /\ revApp'[q] = revApp[q] /\ revTier'[q] = revTier[q]
         /\ revStatus'[q] = revStatus[q]
         /\ \A b \in Applications : appLock[b] = q => appLock'[b] = q
  BY DEF KycInv, KycTypeOK, ReviewRead, ReviewDecide, DecideAndReadSeller, ReviewDies,
         ReviewIdle
<1>8. ASSUME NEW q \in Reviewers \ {r}
      PROVE  /\ revPc'[q] # "idle" => revApp'[q] \in Applications /\ appOf'[revApp'[q]] \in Users
             /\ revPc'[q] = "decided" => DecidingOK(q)'
  <2>1. /\ revPc[q] # "idle" => revApp[q] \in Applications /\ appOf[revApp[q]] \in Users
        /\ revPc[q] = "decided" => DecidingOK(q)
    BY DEF KycInv, Standing, ReviewOK
  <2>2. QED BY <1>2, <1>4, <1>7, <2>1 DEF DecidingOK
<1>9. KycTypeOK'
  <2>1. /\ appLock' \in [Applications -> Reviewers \union {Missing}]
        /\ revPc' \in [Reviewers -> {"idle", "read", "decided"}]
        /\ revApp' \in [Reviewers -> Applications \union {Missing}]
        /\ revDecision' \in [Reviewers -> Decisions]
        /\ revTier' \in [Reviewers -> Nat]
        /\ revStatus' \in [Reviewers -> Standings]
    <3>1. CASE \E a \in Applications, decision \in Decisions : ReviewRead(r, a, decision)
      BY <3>1 DEF KycInv, KycTypeOK, ReviewRead, Standings
    <3>2. CASE ReviewDecide(r)
      <4>1. appOf[revApp[r]] \in Users /\ revApp[r] \in Applications
        BY <3>2 DEF ReviewDecide, DecideAndReadSeller, KycInv, Standing, ReviewOK
      <4>2. QED BY <3>2, <4>1 DEF ReviewDecide, DecideAndReadSeller, KycInv, KycTypeOK, Standings
    <3>3. CASE ReviewDies(r)
      BY <3>3 DEF KycInv, KycTypeOK, ReviewDies, ReviewIdle, Decisions, Standings
    <3>4. QED BY <3>1, <3>2, <3>3
  <2>2. QED BY <1>1, <1>2, <2>1 DEF KycInv, KycTypeOK, wizardVars, uploadVars, Standings
<1>10. /\ revPc'[r] # "idle" => revApp'[r] \in Applications /\ appOf'[revApp'[r]] \in Users
       /\ revPc'[r] = "decided" => DecidingOK(r)'
  <2>1. ASSUME NEW a \in Applications, NEW decision \in Decisions, ReviewRead(r, a, decision)
        PROVE  revPc'[r] = "read" /\ revApp'[r] = a /\ appOf'[a] \in Users
    BY <1>2, <2>1 DEF ReviewRead, KycInv, KycTypeOK
  <2>2. CASE ReviewDecide(r)
    <3> DEFINE a == revApp[r]
               u == appOf[a]
    <3>1. a \in Applications /\ u \in Users /\ u # Missing
      BY <2>2 DEF ReviewDecide, DecideAndReadSeller, KycInv, Standing, ReviewOK
    <3>2. /\ revApp' = revApp /\ revPc'[r] = "decided" /\ appLock'[a] = r
          /\ appStatus[a] \in Reviewable
          /\ revTier'[r] = kycTier[u] /\ revStatus'[r] = kycStatus[u]
      BY <2>2, <3>1 DEF ReviewDecide, DecideAndReadSeller, KycInv, KycTypeOK
    <3>3. DecidingOK(r)'
      BY <1>2, <3>2 DEF DecidingOK
    <3>4. QED BY <1>2, <3>1, <3>2, <3>3
  <2>3. CASE ReviewDies(r)
    BY <2>3 DEF ReviewDies, ReviewIdle, KycInv, KycTypeOK
  <2>4. QED BY <2>1, <2>2, <2>3
<1>11. ReviewOK'
  BY <1>8, <1>10 DEF ReviewOK
<1>12. QED BY <1>3, <1>5, <1>6, <1>9, <1>11 DEF KycInv, Standing

\* A verdict: the review holds the row of an application that is still open.
LEMMA VerdictStep ==
    ASSUME KycInv, NEW r \in Reviewers, ReviewCommit(r)
    PROVE  /\ KycInv'
           /\ \A b \in Applications : appStatus[b] \in Decided => appStatus'[b] = appStatus[b]
<1> USE KycAssumption
<1>0. PICK a, u : a = revApp[r] /\ u = appOf[a]
  OBVIOUS
<1>1. /\ revPc[r] = "decided" /\ appLock' = [appLock EXCEPT ![a] = Missing] /\ ReviewIdle(r)
      /\ appStatus' = [appStatus EXCEPT ![a] = NewStatus(revDecision[r])]
  BY <1>0 DEF ReviewCommit
<1>2. a \in Applications /\ u \in Users /\ DecidingOK(r) /\ revDecision[r] \in Decisions
  BY <1>0, <1>1 DEF KycInv, KycTypeOK, Standing, ReviewOK
<1>3. /\ appLock[a] = r /\ appStatus[a] = "SUBMITTED" /\ AppsOf(u) = {a}
      /\ kycStatus[u] = "IN_REVIEW" /\ kycTier[u] = appTarget[a]
      /\ revStatus[r] = "IN_REVIEW" /\ revTier[r] = appTarget[a]
  <2>1. /\ appLock[a] = r /\ appStatus[a] = "SUBMITTED" /\ a \in AppsOf(u)
        /\ revTier[r] = kycTier[u] /\ revStatus[r] = kycStatus[u]
    BY <1>0, <1>2 DEF DecidingOK, Reviewable, AppsOf
  <2>2. AppsOf(u) = {a}
    BY <1>2, <2>1 DEF KycInv, Standing, SellerHasItsApplication
  <2>3. Backed(u)
    BY <1>2 DEF KycInv, Standing, StandingIsBacked
  <2>4. QED BY <2>1, <2>2, <2>3 DEF Backed, StandingAfter
<1>4. UNCHANGED <<sellerSlug, appOf, appTarget, wizardVars, uploadVars>>
  BY <1>1 DEF ReviewIdle
<1>5. appStatus'[a] \in Decided /\ \A b \in Applications \ {a} : appStatus'[b] = appStatus[b]
  BY <1>1, <1>2 DEF NewStatus, Decided, Decisions, KycInv, KycTypeOK
<1>6. \A b \in Applications : appStatus[b] \in Decided => appStatus'[b] = appStatus[b]
  BY <1>3, <1>5 DEF Decided
<1>7. \/ /\ revDecision[r] = "APPROVE"
         /\ kycTier' = [kycTier EXCEPT ![u] = Higher(revTier[r], appTarget[a])]
         /\ kycStatus' = [kycStatus EXCEPT ![u] = "APPROVED"]
      \/ /\ revDecision[r] = "DENY"
         /\ kycStatus' = [kycStatus EXCEPT ![u] = "REJECTED"]
         /\ kycTier' = kycTier
  BY <1>0, <1>3 DEF ReviewCommit
<1>8. Higher(revTier[r], appTarget[a]) = appTarget[a] /\ appTarget[a] \in Nat
  BY <1>2, <1>3 DEF Higher, KycInv, KycTypeOK
<1>9. /\ \A v \in Users \ {u} : kycTier'[v] = kycTier[v] /\ kycStatus'[v] = kycStatus[v]
      /\ kycTier' \in [Users -> Nat]
      /\ kycStatus' \in [Users -> Standings]
  BY <1>2, <1>7, <1>8 DEF KycInv, KycTypeOK, Standings
<1>10. /\ kycTier'[u] = appTarget[a]
       /\ kycStatus'[u] = StandingAfter(appStatus'[a])
       /\ kycStatus'[u] # "IN_REVIEW"
  <2>1. appStatus'[a] = NewStatus(revDecision[r])
    BY <1>1, <1>2 DEF KycInv, KycTypeOK
  <2>2. \/ revDecision[r] = "APPROVE" /\ kycStatus'[u] = "APPROVED"
        \/ revDecision[r] = "DENY" /\ kycStatus'[u] = "REJECTED"
    BY <1>2, <1>7 DEF KycInv, KycTypeOK
  <2>3. kycTier'[u] = appTarget[a]
    BY <1>2, <1>3, <1>7, <1>8 DEF KycInv, KycTypeOK
  <2>4. QED BY <2>1, <2>2, <2>3 DEF NewStatus, StandingAfter
<1>11. \A v : AppsOf(v)' = AppsOf(v)
  BY <1>4 DEF AppsOf
<1>12. KycTypeOK'
  <2>1. appStatus' \in [Applications -> {"NONE", "SUBMITTED"} \union Decided]
    BY <1>1, <1>2 DEF KycInv, KycTypeOK, NewStatus, Decided
  <2>2. /\ appLock' \in [Applications -> Reviewers \union {Missing}]
        /\ revPc' \in [Reviewers -> {"idle", "read", "decided"}]
        /\ revApp' \in [Reviewers -> Applications \union {Missing}]
        /\ revDecision' \in [Reviewers -> Decisions]
        /\ revTier' \in [Reviewers -> Nat]
        /\ revStatus' \in [Reviewers -> Standings]
    BY <1>1, <1>2 DEF KycInv, KycTypeOK, ReviewIdle, Decisions, Standings
  <2>3. QED BY <1>4, <1>9, <2>1, <2>2 DEF KycInv, KycTypeOK, wizardVars, uploadVars, Standings
<1>13. WizardOK' /\ UploadsOK'
  BY <1>4, WizardKept, UploadsKept DEF KycInv
<1>14. AppsOK'
  BY <1>2, <1>3, <1>4, <1>5, <1>0 DEF KycInv, Standing, AppsOK, Decided
<1>15. SellersOK'
  <2>1. sellerSlug[u] # Missing
    BY <1>2, <1>3 DEF KycInv, Standing, SellerHasItsApplication
  <2>2. QED BY <1>4, <1>9, <2>1 DEF KycInv, Standing, SellersOK
<1>16. ReviewOK'
  <2>1. \A q \in Reviewers \ {r} :
           /\ revPc'[q] = revPc[q] /\ revApp'[q] = revApp[q] /\ revTier'[q] = revTier[q]
           /\ revStatus'[q] = revStatus[q]
    BY <1>1 DEF ReviewIdle, KycInv, KycTypeOK
  <2>2. revPc'[r] = "idle"
    BY <1>1 DEF ReviewIdle, KycInv, KycTypeOK
  <2>3. ASSUME NEW q \in Reviewers \ {r}, revPc[q] # "idle"
        PROVE  /\ revApp'[q] \in Applications /\ appOf'[revApp'[q]] \in Users
               /\ revPc'[q] = "decided" => DecidingOK(q)'
    <3>0. PICK b, v : b = revApp[q] /\ v = appOf[b]
      OBVIOUS
    <3>1. b \in Applications /\ v \in Users
      BY <2>3, <3>0 DEF KycInv, Standing, ReviewOK
    <3>2. ASSUME revPc[q] = "decided"
          PROVE  DecidingOK(q)'
      <4>1. /\ appLock[b] = q /\ appStatus[b] \in Reviewable
            /\ revTier[q] = kycTier[v] /\ revStatus[q] = kycStatus[v]
        BY <3>0, <3>2 DEF KycInv, Standing, ReviewOK, DecidingOK
      <4>2. b # a /\ v # u
        BY <1>3, <3>0, <3>1, <4>1 DEF AppsOf
      <4>3. appLock'[b] = q /\ appStatus'[b] \in Reviewable
        BY <1>1, <1>5, <3>1, <4>1, <4>2 DEF KycInv, KycTypeOK
      <4>4. kycTier'[v] = kycTier[v] /\ kycStatus'[v] = kycStatus[v]
        BY <1>9, <3>1, <4>2
      <4>5. QED BY <1>4, <2>1, <3>0, <4>1, <4>3, <4>4 DEF DecidingOK
    <3>3. QED BY <1>4, <2>1, <3>0, <3>1, <3>2
  <2>4. QED BY <2>1, <2>2, <2>3 DEF ReviewOK
<1>17. SellerHasItsApplication'
  BY <1>4, <1>11 DEF KycInv, Standing, SellerHasItsApplication
<1>18. StandingIsBacked'
  <2>1. ASSUME NEW v \in Users \ {u}
        PROVE  Backed(v)'
    <3>1. \A b \in AppsOf(v) : appStatus'[b] = appStatus[b] /\ appTarget'[b] = appTarget[b]
      BY <1>0, <1>4, <1>5 DEF AppsOf
    <3>2. QED BY <1>9, <1>11, <3>1, BackedAsBefore DEF KycInv, Standing, StandingIsBacked
  <2>2. Backed(u)'
    BY <1>3, <1>4, <1>10, <1>11 DEF Backed
  <2>3. QED BY <2>1, <2>2 DEF StandingIsBacked
<1>19. QED BY <1>6, <1>12, <1>13, <1>14, <1>15, <1>16, <1>17, <1>18 DEF KycInv, Standing

\* Between storing a document and recording it.
LEMMA UploadStep ==
    ASSUME KycInv, NEW x \in Uploads, UploadNext(x)
    PROVE  KycInv'
<1>1. UNCHANGED <<wizardVars, sellerVars, appVars, reviewVars>>
  BY DEF UploadNext, UploadCheck, UploadPut, UploadRecord, UploadFails, UploadDies, UploadTo
<1>2. /\ upPc' \in [Uploads -> {"new", "checked", "put", "done", "dead"}]
      /\ upApp' \in [Uploads -> Applications \union {Missing}]
      /\ objects' \subseteq Uploads /\ documents' \subseteq Uploads
  BY DEF KycInv, KycTypeOK, UploadNext, UploadCheck, UploadPut, UploadRecord, UploadFails,
         UploadDies, UploadTo
<1>3. KycTypeOK'
  BY <1>1, <1>2 DEF KycInv, KycTypeOK, wizardVars, sellerVars, appVars, reviewVars
<1>4. UploadsOK'
  <2> USE DEF KycInv, KycTypeOK, UploadsOK, UploadTo
  <2>1. ASSUME NEW a \in Applications, UploadCheck(x, a)
        PROVE  UploadsOK'
    BY <2>1 DEF UploadCheck
  <2>2. CASE UploadPut(x)
    BY <2>2 DEF UploadPut
  <2>3. CASE UploadRecord(x)
    BY <2>3 DEF UploadRecord
  <2>4. CASE UploadFails(x)
    BY <2>4 DEF UploadFails
  <2>5. CASE UploadDies(x)
    BY <2>5 DEF UploadDies
  <2>6. QED BY <2>1, <2>2, <2>3, <2>4, <2>5 DEF UploadNext
<1>5. QED BY <1>1, <1>3, <1>4, StandingKept, WizardKept DEF KycInv

LEMMA KycStep ==
    ASSUME KycInv, [KycNext]_kycVars
    PROVE  /\ KycInv'
           /\ \A a \in Applications : appStatus[a] \in Decided => appStatus'[a] = appStatus[a]
<1> DEFINE Kept == \A a \in Applications : appStatus[a] \in Decided => appStatus'[a] = appStatus[a]
<1>1. CASE UNCHANGED kycVars
  <2>1. UNCHANGED <<wizardVars, sellerVars, appVars, reviewVars, uploadVars>>
    BY <1>1 DEF kycVars
  <2>2. KycTypeOK'
    BY <2>1 DEF KycInv, KycTypeOK, wizardVars, sellerVars, appVars, reviewVars, uploadVars
  <2>3. Kept
    BY <2>1 DEF appVars
  <2>4. QED BY <2>1, <2>2, <2>3, StandingKept, WizardKept, UploadsKept DEF KycInv
<1>2. ASSUME NEW t \in Wizards, WizardNext(t)
      PROVE  KycInv' /\ Kept
  <2>1. CASE \E a \in Applications : Step3Commit(t, a)
    <3>1. PICK a \in Applications : Step3Commit(t, a)
      BY <2>1
    <3>2. appOf[a] = Missing /\ appStatus' = [appStatus EXCEPT ![a] = "SUBMITTED"]
      BY <3>1 DEF Step3Commit, Onboard
    <3>3. Kept
      BY <3>2 DEF KycInv, KycTypeOK, Standing, AppsOK, Decided
    <3>4. QED BY <3>1, <3>3, Step3Step
  <2>2. CASE \/ \E s \in Slugs, e \in Users : Step1(t, s, e)
             \/ Step2(t) \/ WriteDraft(t) \/ Step3Read(t) \/ ClearDraft(t) \/ WizardDies(t)
    <3>1. UNCHANGED appVars
      BY <2>2 DEF Step1, Step2, WriteDraft, Step3Read, ClearDraft, WizardDies
    <3>2. Kept
      BY <3>1 DEF appVars
    <3>3. QED BY <2>2, <3>2, WizardStep
  <2>3. QED BY <1>2, <2>1, <2>2 DEF WizardNext
<1>4. ASSUME NEW r \in Reviewers, ReviewNext(r)
      PROVE  KycInv' /\ Kept
  <2>1. CASE ReviewCommit(r)
    BY <2>1, VerdictStep
  <2>2. CASE \/ \E a \in Applications, decision \in Decisions : ReviewRead(r, a, decision)
             \/ ReviewDecide(r) \/ ReviewDies(r)
    <3>1. appStatus' = appStatus
      BY <2>2 DEF ReviewRead, ReviewDecide, DecideAndReadSeller, ReviewDies, appVars
    <3>2. QED BY <2>2, <3>1, ReviewStep
  <2>3. QED BY <1>4, <2>1, <2>2 DEF ReviewNext
<1>5. ASSUME NEW x \in Uploads, UploadNext(x)
      PROVE  KycInv' /\ Kept
  <2>1. UNCHANGED appVars
    BY <1>5 DEF UploadNext, UploadCheck, UploadPut, UploadRecord, UploadFails, UploadDies, UploadTo
  <2>2. QED BY <1>5, <2>1, UploadStep DEF appVars
<1>6. QED BY <1>1, <1>2, <1>4, <1>5 DEF KycNext

LEMMA KycInductive == KycSpec => []KycInv
<1>1. KycInv /\ [KycNext]_kycVars => KycInv'
  BY KycStep
<1>2. QED BY <1>1, KycInitInv, PTL DEF KycSpec

\* Rows, cookies and requests hold values they can hold.
THEOREM KycTyped == KycSpec => []KycTypeOK
<1>1. KycInv => KycTypeOK
  BY DEF KycInv
<1>2. QED BY <1>1, KycInductive, PTL

\* However often the last step of the wizard is sent, a seller has exactly
\* one application and its slug is its own.
THEOREM SellersHaveApplications == KycSpec => []SellerHasItsApplication
<1>1. KycInv => SellerHasItsApplication
  BY DEF KycInv, Standing
<1>2. QED BY <1>1, KycInductive, PTL

\* A seller is what the decision on its application says, and one under
\* review stands in the queue, whatever rows the reviewers write from.
THEOREM StandingAlwaysBacked == KycSpec => []StandingIsBacked
<1>1. KycInv => StandingIsBacked
  BY DEF KycInv, Standing
<1>2. QED BY <1>1, KycInductive, PTL

\* A review page lists no document that is not stored, and only a request
\* that still runs or died leaves bytes that no row records.
THEOREM DocumentsAlwaysStored == KycSpec => []DocumentsAreStored
<1>1. KycInv => DocumentsAreStored
  BY DEF KycInv, KycTypeOK, UploadsOK, DocumentsAreStored, ShownDocuments
<1>2. QED BY <1>1, KycInductive, PTL

\* No second reviewer overturns a verdict.
THEOREM VerdictsStand == KycSpec => DecidedForGood
<1>1. KycInv /\ [KycNext]_kycVars =>
         [\A a \in Applications : appStatus[a] \in Decided => appStatus'[a] = appStatus[a]]_kycVars
  BY KycStep
<1>2. QED BY <1>1, KycInductive, PTL DEF KycSpec, DecidedForGood
=============================================================================
