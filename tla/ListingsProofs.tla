----------------------------- MODULE ListingsProofs -----------------------------
(***************************************************************************)
(* Proofs about Listings: what is live stays as it was approved, what was  *)
(* rejected stays as it was until it is resubmitted, every listing has its *)
(* image, and the cap is passed by less than the number of tabs.           *)
(***************************************************************************)
EXTENDS Listings, FiniteSetTheorems, TLAPS

Steps == {"idle", "counted", "checked", "put", "open", "submitted", "read", "swapped"}

\* A tab holds the keys of its step only, and edits a listing that exists.
FormOK(r) ==
    /\ pc[r] = "put" => form[r].key # NoKey
    /\ pc[r] \notin {"put", "submitted", "read"} => form[r].key = NoKey
    /\ pc[r] # "swapped" => form[r].old = NoKey
    /\ pc[r] \in {"open", "submitted", "read"} => form[r].product \in listed

FormsOK == \A r \in SellerTabs : FormOK(r)

\* Only listings that exist are opened by a moderator and carry a verdict; a
\* rejected one has a note about something a moderator was shown.
VerdictsOK ==
    /\ \A v \in Moderators :
          modPc[v] = "open" => modProduct[v] \in listed /\ modSeen[v] # NoKey
    /\ \A p \in Products : moderation[p] # "PENDING" => p \in listed
    /\ \A p \in Products : moderation[p] = "REJECTED" => noted[p] # NoKey

Images == {image[p] : p \in listed}

\* Every key in the bucket has one owner: a listing, a tab, or nobody.
KeysOK ==
    /\ Images \subseteq bucket
    /\ \A p, q \in listed : image[p] = image[q] => p = q
    /\ \A r \in SellerTabs : Held(r) \subseteq bucket \ Images
    /\ \A r, q \in SellerTabs : r # q => Held(r) \intersect Held(q) = {}
    /\ \A k \in bucket \ Images : k \in leaked \/ \E r \in SellerTabs : k \in Held(r)

\* Tabs that have passed the check of the cap and may still insert.
Creating == {r \in SellerTabs : pc[r] \in {"counted", "checked", "put"}}

CountOK == /\ IsFiniteSet(listed)
           /\ Cardinality(listed) + Cardinality(Creating) <= Cap - 1 + Cardinality(SellerTabs)

ListInv == ListTypeOK /\ FormsOK /\ VerdictsOK /\ KeysOK /\ CountOK

-----------------------------------------------------------------------------
(* What a tab's step does to the tabs and to the keys.                     *)

LEMMA TabMoves ==
    ASSUME ListTypeOK, NEW r \in SellerTabs, NEW step \in Steps, NEW f \in Forms, TabTo(r, step, f)
    PROVE  /\ pc' \in [SellerTabs -> Steps] /\ form' \in [SellerTabs -> Forms]
           /\ pc'[r] = step /\ form'[r] = f /\ Held(r)' = {f.key, f.old} \ {NoKey}
           /\ \A q \in SellerTabs \ {r} : /\ pc'[q] = pc[q] /\ form'[q] = form[q]
                                    /\ Held(q)' = Held(q)
           /\ UNCHANGED modVars
<1>1. /\ pc' \in [SellerTabs -> Steps] /\ form' \in [SellerTabs -> Forms]
      /\ pc'[r] = step /\ form'[r] = f
      /\ \A q \in SellerTabs \ {r} : pc'[q] = pc[q] /\ form'[q] = form[q]
      /\ UNCHANGED modVars
  BY DEF TabTo, ListTypeOK, Steps
<1>2. QED BY <1>1 DEF Held

\* The tabs of the others are as they were, also where a listing came.
LEMMA OthersOK ==
    ASSUME FormsOK, NEW r \in SellerTabs, listed \subseteq listed', FormOK(r)',
           \A q \in SellerTabs \ {r} : pc'[q] = pc[q] /\ form'[q] = form[q]
    PROVE  FormsOK'
  BY DEF FormsOK, FormOK

LEMMA KeysSame ==
    ASSUME KeysOK, UNCHANGED <<bucket, leaked, image, listed>>,
           \A q \in SellerTabs : Held(q)' = Held(q)
    PROVE  KeysOK'
<1>1. Images' = Images
  BY DEF Images
<1>2. QED BY <1>1 DEF KeysOK

\* An upload.
LEMMA KeysPut ==
    ASSUME KeysOK, NEW r \in SellerTabs, NEW k, k \notin bucket, Held(r) = {}, Held(r)' = {k},
           bucket' = bucket \union {k}, UNCHANGED <<leaked, image, listed>>,
           \A q \in SellerTabs \ {r} : Held(q)' = Held(q)
    PROVE  KeysOK'
<1>1. Images' = Images
  BY DEF Images
<1>2. Images' \subseteq bucket' /\ \A p, q \in listed' : image'[p] = image'[q] => p = q
  BY <1>1 DEF KeysOK
<1>3. \A q \in SellerTabs : Held(q)' \subseteq bucket' \ Images'
  BY <1>1 DEF KeysOK
<1>4. \A q, s \in SellerTabs : q # s => Held(q)' \intersect Held(s)' = {}
  <2>1. \A q \in SellerTabs \ {r} : k \notin Held(q)'
    BY DEF KeysOK
  <2>2. QED BY <2>1 DEF KeysOK
<1>5. \A l \in bucket' \ Images' : l \in leaked' \/ \E q \in SellerTabs : l \in Held(q)'
  BY <1>1 DEF KeysOK
<1>6. QED BY <1>2, <1>3, <1>4, <1>5 DEF KeysOK

\* A request deletes what it holds, if it holds anything.
LEMMA KeysClean ==
    ASSUME KeysOK, NEW r \in SellerTabs, NEW k, Held(r) = {k} \ {NoKey}, Held(r)' = {},
           NoKey \notin bucket, bucket' = bucket \ {k}, UNCHANGED <<leaked, image, listed>>,
           \A q \in SellerTabs \ {r} : Held(q)' = Held(q)
    PROVE  KeysOK'
<1>1. Images' = Images
  BY DEF Images
<1>2. k \notin Images
  BY DEF KeysOK
<1>3. Images' \subseteq bucket' /\ \A p, q \in listed' : image'[p] = image'[q] => p = q
  BY <1>1, <1>2 DEF KeysOK
<1>4. \A q \in SellerTabs : Held(q)' \subseteq bucket' \ Images'
  <2>1. \A q \in SellerTabs \ {r} : k \notin Held(q)
    BY DEF KeysOK
  <2>2. QED BY <1>1, <2>1 DEF KeysOK
<1>5. \A q, s \in SellerTabs : q # s => Held(q)' \intersect Held(s)' = {}
  BY DEF KeysOK
<1>6. \A l \in bucket' \ Images' : l \in leaked' \/ \E q \in SellerTabs : l \in Held(q)'
  BY <1>1 DEF KeysOK
<1>7. QED BY <1>3, <1>4, <1>5, <1>6 DEF KeysOK

\* A request ends and leaves what it holds behind.
LEMMA KeysLeak ==
    ASSUME KeysOK, NEW r \in SellerTabs, Held(r)' = {}, UNCHANGED <<bucket, image, listed>>,
           leaked' = leaked \union (bucket \intersect Held(r)),
           \A q \in SellerTabs \ {r} : Held(q)' = Held(q)
    PROVE  KeysOK'
<1>1. Images' = Images
  BY DEF Images
<1>2. \A l \in bucket' \ Images' : l \in leaked' \/ \E q \in SellerTabs : l \in Held(q)'
  <2>1. SUFFICES ASSUME NEW l \in bucket \ Images, l \notin leaked'
                 PROVE  \E q \in SellerTabs : l \in Held(q)'
    BY <1>1
  <2>2. PICK q \in SellerTabs : l \in Held(q)
    BY <2>1 DEF KeysOK
  <2>3. q # r
    BY <2>1, <2>2
  <2>4. QED BY <2>2, <2>3
<1>3. /\ \A q \in SellerTabs : Held(q)' \subseteq bucket' \ Images'
      /\ \A q, s \in SellerTabs : q # s => Held(q)' \intersect Held(s)' = {}
  BY <1>1 DEF KeysOK
<1>4. Images' \subseteq bucket' /\ \A p, q \in listed' : image'[p] = image'[q] => p = q
  BY <1>1 DEF KeysOK
<1>5. QED BY <1>2, <1>3, <1>4 DEF KeysOK

\* A listing takes the key of a tab, which is left with the one, if any,
\* that the listing had.
LEMMA KeysTaken ==
    ASSUME KeysOK, NEW r \in SellerTabs, NEW p, NEW k, Held(r) = {k},
           listed' = listed \union {p}, image'[p] = k,
           \A q \in listed \ {p} : image'[q] = image[q],
           Held(r)' = IF p \in listed THEN {image[p]} ELSE {},
           UNCHANGED <<bucket, leaked>>,
           \A q \in SellerTabs \ {r} : Held(q)' = Held(q)
    PROVE  KeysOK'
<1>1. /\ k \in bucket \ Images
      /\ \A q \in listed : image[q] # k
      /\ \A q \in SellerTabs \ {r} : k \notin Held(q)
  BY DEF KeysOK, Images
<1>2. Images' = (Images \ Held(r)') \union {k}
  <2>1. \A q \in listed \ {p} : image[q] \notin Held(r)'
    BY DEF KeysOK
  <2>2. ASSUME NEW l \in Images'
        PROVE  l \in (Images \ Held(r)') \union {k}
    <3>1. PICK q \in listed \union {p} : l = image'[q]
      BY <2>2 DEF Images
    <3>2. QED BY <2>1, <3>1 DEF Images
  <2>3. ASSUME NEW l \in Images \ Held(r)'
        PROVE  l \in Images'
    <3>1. PICK q \in listed : l = image[q]
      BY <2>3 DEF Images
    <3>2. q # p
      BY <2>3, <3>1
    <3>3. QED BY <3>1, <3>2 DEF Images
  <2>4. k \in Images'
    BY DEF Images
  <2>5. QED BY <2>2, <2>3, <2>4
<1>3. Held(r)' \subseteq Images /\ k \notin Held(r)'
  BY <1>1 DEF Images
<1>4. Images' \subseteq bucket'
  BY <1>1, <1>2 DEF KeysOK
<1>5. \A q, s \in listed' : image'[q] = image'[s] => q = s
  BY <1>1 DEF KeysOK
<1>6. \A q \in SellerTabs : Held(q)' \subseteq bucket' \ Images'
  <2>1. Held(r)' \subseteq bucket' \ Images'
    BY <1>2, <1>3 DEF KeysOK
  <2>2. ASSUME NEW q \in SellerTabs \ {r}
        PROVE  Held(q)' \subseteq bucket' \ Images'
    BY <1>1, <1>2 DEF KeysOK
  <2>3. QED BY <2>1, <2>2
<1>7. \A q, s \in SellerTabs : q # s => Held(q)' \intersect Held(s)' = {}
  <2>1. \A q \in SellerTabs \ {r} : Held(q)' \intersect Held(r)' = {}
    BY <1>3 DEF KeysOK
  <2>2. QED BY <2>1 DEF KeysOK
<1>8. \A l \in bucket' \ Images' : l \in leaked' \/ \E q \in SellerTabs : l \in Held(q)'
  <2>1. SUFFICES ASSUME NEW l \in bucket, l \notin Images', l \notin leaked, l \notin Held(r)'
                 PROVE  \E q \in SellerTabs : l \in Held(q)'
    OBVIOUS
  <2>2. l \notin Images /\ l # k
    BY <1>2, <2>1
  <2>3. PICK q \in SellerTabs : l \in Held(q)
    BY <2>1, <2>2 DEF KeysOK
  <2>4. q # r
    BY <2>2, <2>3
  <2>5. QED BY <2>3, <2>4
<1>9. QED BY <1>4, <1>5, <1>6, <1>7, <1>8 DEF KeysOK

-----------------------------------------------------------------------------
(* What a tab's step does to the count.                                    *)

LEMMA CountKept ==
    ASSUME CountOK, ListingsAssumption, UNCHANGED listed, Creating' \subseteq Creating
    PROVE  CountOK'
<1>1. IsFiniteSet(Creating) /\ IsFiniteSet(SellerTabs)
  BY FS_Subset DEF Creating, ListingsAssumption
<1>2. Cardinality(Creating') <= Cardinality(Creating) /\ IsFiniteSet(Creating')
  BY <1>1, FS_Subset
<1>3. /\ Cardinality(Creating) \in Nat /\ Cardinality(Creating') \in Nat
      /\ Cardinality(listed) \in Nat /\ Cardinality(SellerTabs) \in Nat
  BY <1>1, <1>2, FS_CardinalityType DEF CountOK
<1>4. QED BY <1>2, <1>3 DEF CountOK, ListingsAssumption

\* Below the cap there is room for every tab.
LEMMA CountPassed ==
    ASSUME CountOK, ListingsAssumption, UNCHANGED listed, Cardinality(listed) < Cap
    PROVE  CountOK'
<1>1. /\ IsFiniteSet(SellerTabs) /\ Creating' \subseteq SellerTabs
  BY DEF Creating, ListingsAssumption
<1>2. Cardinality(Creating') <= Cardinality(SellerTabs) /\ IsFiniteSet(Creating')
  BY <1>1, FS_Subset
<1>3. /\ Cardinality(Creating') \in Nat /\ Cardinality(listed) \in Nat
      /\ Cardinality(SellerTabs) \in Nat
  BY <1>1, <1>2, FS_CardinalityType DEF CountOK
<1>4. QED BY <1>2, <1>3 DEF CountOK, ListingsAssumption

\* The tab that inserts stops creating.
LEMMA CountInserted ==
    ASSUME CountOK, ListingsAssumption, NEW r \in Creating, NEW p, p \notin listed,
           listed' = listed \union {p}, Creating' = Creating \ {r}
    PROVE  CountOK'
<1>1. IsFiniteSet(Creating) /\ IsFiniteSet(SellerTabs)
  BY FS_Subset DEF Creating, ListingsAssumption
<1>2. Cardinality(Creating') = Cardinality(Creating) - 1
  BY <1>1, FS_RemoveElement
<1>3. IsFiniteSet(listed') /\ Cardinality(listed') = Cardinality(listed) + 1
  BY FS_AddElement DEF CountOK
<1>4. /\ Cardinality(Creating) \in Nat /\ Cardinality(listed) \in Nat
      /\ Cardinality(SellerTabs) \in Nat
  BY <1>1, FS_CardinalityType DEF CountOK
<1>5. QED BY <1>2, <1>3, <1>4 DEF CountOK, ListingsAssumption

-----------------------------------------------------------------------------
(* The steps of a tab.                                                     *)

\* A step that writes no row and moves no key.
LEMMA QuietStep ==
    ASSUME ListInv, NEW r \in SellerTabs, UNCHANGED <<rowVars, storeVars>>,
           NEW step \in Steps, NEW f \in Forms, TabTo(r, step, f),
           {f.key, f.old} \ {NoKey} = Held(r), FormOK(r)',
           \/ r \in Creating \/ step \notin {"counted", "checked", "put"}
           \/ Cardinality(listed) < Cap
    PROVE  ListInv'
<1> USE ListingsAssumption DEF ListInv
<1>0. UNCHANGED <<listed, slug, content, moderation, live, image, noted, bucket, leaked>>
  BY DEF rowVars, storeVars
<1>1. /\ pc' \in [SellerTabs -> Steps] /\ form' \in [SellerTabs -> Forms] /\ pc'[r] = step
      /\ \A q \in SellerTabs \ {r} : pc'[q] = pc[q] /\ form'[q] = form[q] /\ Held(q)' = Held(q)
      /\ Held(r)' = Held(r) /\ UNCHANGED <<modPc, modProduct, modSeen>>
  BY TabMoves DEF modVars
<1>2. ListTypeOK'
  BY <1>0, <1>1 DEF ListTypeOK, Steps
<1>3. FormsOK'
  BY <1>0, <1>1, OthersOK
<1>4. VerdictsOK'
  BY <1>0, <1>1 DEF VerdictsOK
<1>5. KeysOK'
  BY <1>0, <1>1, KeysSame
<1>6. CountOK'
  <2>1. CASE r \in Creating \/ step \notin {"counted", "checked", "put"}
    BY <1>0, <1>1, <2>1, CountKept DEF Creating
  <2>2. CASE Cardinality(listed) < Cap
    BY <1>0, <2>2, CountPassed
  <2>3. QED BY <2>1, <2>2
<1>7. QED BY <1>2, <1>3, <1>4, <1>5, <1>6

\* A request that is over, whatever became of its key.
LEMMA EndStep ==
    ASSUME ListInv, NEW r \in SellerTabs, UNCHANGED rowVars, TabTo(r, "idle", NoForm), KeysOK',
           bucket' \subseteq Keys, leaked' \subseteq Keys
    PROVE  ListInv'
<1> USE ListingsAssumption DEF ListInv
<1>0. UNCHANGED <<listed, slug, content, moderation, live, image, noted>>
  BY DEF rowVars
<1>1. NoForm \in Forms /\ "idle" \in Steps
  BY DEF NoForm, Forms, Maybe, Steps
<1>2. /\ pc' \in [SellerTabs -> Steps] /\ form' \in [SellerTabs -> Forms]
      /\ pc'[r] = "idle" /\ form'[r] = NoForm
      /\ \A q \in SellerTabs \ {r} : pc'[q] = pc[q] /\ form'[q] = form[q]
      /\ UNCHANGED <<modPc, modProduct, modSeen>>
  BY <1>1, TabMoves DEF modVars
<1>3. ListTypeOK'
  BY <1>0, <1>2 DEF ListTypeOK, Steps
<1>4. FormsOK'
  BY <1>0, <1>2, OthersOK DEF FormOK, NoForm
<1>5. VerdictsOK'
  BY <1>0, <1>2 DEF VerdictsOK
<1>6. CountOK'
  BY <1>0, <1>2, CountKept DEF Creating
<1>7. QED BY <1>3, <1>4, <1>5, <1>6

LEMMA CleanedStep ==
    ASSUME ListInv, NEW r \in SellerTabs, NEW k, Cleaned(r, k), Held(r) = {k} \ {NoKey}
    PROVE  ListInv'
<1> USE ListingsAssumption DEF ListInv
<1>1. /\ bucket' = bucket \ {k} /\ TabTo(r, "idle", NoForm) /\ UNCHANGED rowVars
      /\ leaked' = leaked
  BY DEF Cleaned
<1>2. NoForm \in Forms /\ "idle" \in Steps
  BY DEF NoForm, Forms, Maybe, Steps
<1>3. Held(r)' = {} /\ \A q \in SellerTabs \ {r} : Held(q)' = Held(q)
  BY <1>1, <1>2, TabMoves DEF NoForm
<1>4. NoKey \notin bucket /\ UNCHANGED <<image, listed>>
  BY <1>1 DEF ListTypeOK, rowVars
<1>5. KeysOK'
  BY <1>1, <1>3, <1>4, KeysClean
<1>6. bucket' \subseteq Keys /\ leaked' \subseteq Keys
  BY <1>1 DEF ListTypeOK
<1>7. QED BY <1>1, <1>5, <1>6, EndStep

LEMMA DieStep ==
    ASSUME ListInv, NEW r \in SellerTabs, RequestDies(r)
    PROVE  ListInv'
<1> USE ListingsAssumption DEF ListInv
<1>1. /\ leaked' = leaked \union (bucket \intersect Held(r))
      /\ TabTo(r, "idle", NoForm) /\ UNCHANGED rowVars /\ bucket' = bucket
  BY DEF RequestDies
<1>2. NoForm \in Forms /\ "idle" \in Steps
  BY DEF NoForm, Forms, Maybe, Steps
<1>3. Held(r)' = {} /\ \A q \in SellerTabs \ {r} : Held(q)' = Held(q)
  BY <1>1, <1>2, TabMoves DEF NoForm
<1>4. UNCHANGED <<image, listed>>
  BY <1>1 DEF rowVars
<1>5. KeysOK'
  BY <1>1, <1>3, <1>4, KeysLeak
<1>6. bucket' \subseteq Keys /\ leaked' \subseteq Keys
  BY <1>1 DEF ListTypeOK
<1>7. QED BY <1>1, <1>5, <1>6, EndStep

LEMMA PutStep ==
    ASSUME ListInv, NEW r \in SellerTabs, NEW k \in FreshKeys, NEW f \in Forms, NEW step \in Steps,
           Held(r) = {}, f.key = k, f.old = NoKey, TabTo(r, step, f), FormOK(r)',
           bucket' = bucket \union {k}, UNCHANGED <<rowVars, leaked>>,
           \/ r \in Creating \/ step \notin {"counted", "checked", "put"}
    PROVE  ListInv'
<1> USE ListingsAssumption DEF ListInv
<1>0. UNCHANGED <<listed, slug, content, moderation, live, image, noted>>
  BY DEF rowVars
<1>1. k \in Keys /\ k \notin bucket /\ k # NoKey
  BY DEF FreshKeys
<1>2. /\ pc' \in [SellerTabs -> Steps] /\ form' \in [SellerTabs -> Forms] /\ pc'[r] = step
      /\ \A q \in SellerTabs \ {r} : pc'[q] = pc[q] /\ form'[q] = form[q] /\ Held(q)' = Held(q)
      /\ Held(r)' = {k} /\ UNCHANGED <<modPc, modProduct, modSeen>>
  BY <1>1, TabMoves DEF modVars
<1>3. ListTypeOK'
  BY <1>0, <1>1, <1>2 DEF ListTypeOK, Steps
<1>4. FormsOK'
  BY <1>0, <1>2, OthersOK
<1>5. VerdictsOK'
  BY <1>0, <1>2 DEF VerdictsOK
<1>6. KeysOK'
  BY <1>0, <1>1, <1>2, KeysPut
<1>7. CountOK'
  BY <1>0, <1>2, CountKept DEF Creating
<1>8. QED BY <1>3, <1>4, <1>5, <1>6, <1>7

LEMMA InsertStep ==
    ASSUME ListInv, NEW r \in SellerTabs, NEW p \in Products, Insert(r, p)
    PROVE  ListInv'
<1> USE ListingsAssumption DEF ListInv
<1>1. /\ pc[r] = "put" /\ p \notin listed /\ listed' = listed \union {p}
      /\ slug' = [slug EXCEPT ![p] = form[r].slug]
      /\ content' = [content EXCEPT ![p] = form[r].content]
      /\ image' = [image EXCEPT ![p] = form[r].key]
      /\ TabTo(r, "idle", NoForm)
      /\ UNCHANGED <<moderation, live, noted, bucket, leaked>>
  BY DEF Insert, storeVars
<1>2. NoForm \in Forms /\ "idle" \in Steps
  BY DEF NoForm, Forms, Maybe, Steps
<1>3. /\ pc' \in [SellerTabs -> Steps] /\ form' \in [SellerTabs -> Forms]
      /\ pc'[r] = "idle" /\ form'[r] = NoForm /\ Held(r)' = {}
      /\ \A q \in SellerTabs \ {r} : pc'[q] = pc[q] /\ form'[q] = form[q] /\ Held(q)' = Held(q)
      /\ UNCHANGED <<modPc, modProduct, modSeen>>
  BY <1>1, <1>2, TabMoves DEF modVars, NoForm
<1>4. ListTypeOK'
  <2>1. form[r] \in Forms
    BY DEF ListTypeOK
  <2>2. /\ form[r].slug \in Maybe(ProductSlugs) /\ form[r].content \in Maybe(Contents)
        /\ form[r].key \in Maybe(Keys)
    BY <2>1 DEF Forms
  <2>3. QED BY <1>1, <1>3, <2>2 DEF ListTypeOK, Steps
<1>5. FormsOK'
  <2>1. FormOK(r)' /\ listed \subseteq listed'
    BY <1>1, <1>3 DEF FormOK, NoForm
  <2>2. QED BY <1>3, <2>1, OthersOK
<1>6. VerdictsOK'
  <2>1. moderation[p] = "PENDING"
    BY <1>1 DEF VerdictsOK, ListTypeOK
  <2>2. \A q \in Products \ {p} : Shown(q)' = Shown(q)
    BY <1>1 DEF Shown, ListTypeOK
  <2>3. QED BY <1>1, <1>3, <2>1, <2>2 DEF VerdictsOK
<1>7. KeysOK'
  <2>1. Held(r) = {form[r].key}
    BY <1>1 DEF FormsOK, FormOK, Held
  <2>2. image'[p] = form[r].key /\ \A q \in listed \ {p} : image'[q] = image[q]
    BY <1>1 DEF ListTypeOK
  <2>3. QED BY <1>1, <1>3, <2>1, <2>2, KeysTaken
<1>8. CountOK'
  <2>1. r \in Creating /\ Creating' = Creating \ {r}
    BY <1>1, <1>3 DEF Creating
  <2>2. QED BY <1>1, <2>1, CountInserted
<1>9. QED BY <1>4, <1>5, <1>6, <1>7, <1>8

LEMMA EditCommitStep ==
    ASSUME ListInv, NEW r \in SellerTabs, EditCommit(r)
    PROVE  ListInv'
<1> USE ListingsAssumption DEF ListInv
<1>0. PICK f, p, old : f = form[r] /\ p = form[r].product /\ old = Replaced(r)
  OBVIOUS
<1>1. /\ pc[r] = "read" /\ moderation[p] \in Editable
      /\ slug' = [slug EXCEPT ![p] = f.slug]
      /\ content' = [content EXCEPT ![p] = f.content]
      /\ moderation' = [moderation EXCEPT ![p] = "PENDING"]
      /\ image' = [image EXCEPT ![p] = IF f.key = NoKey THEN @ ELSE f.key]
      /\ IF old = NoKey THEN TabTo(r, "idle", NoForm)
                        ELSE TabTo(r, "swapped", [f EXCEPT !.key = NoKey, !.old = old])
      /\ UNCHANGED <<listed, live, noted, bucket, leaked>>
  BY <1>0 DEF EditCommit, MayEdit, Rewrite, storeVars
<1>2. /\ p \in listed /\ p \in Products /\ f \in Forms /\ f.old = NoKey
      /\ f.slug \in Maybe(ProductSlugs) /\ f.content \in Maybe(Contents) /\ f.key \in Maybe(Keys)
  <2>1. f \in Forms
    BY <1>0 DEF ListTypeOK
  <2>2. p \in listed /\ p \in Products /\ f.old = NoKey
    BY <1>0, <1>1 DEF FormsOK, FormOK, ListTypeOK
  <2>3. QED BY <2>1, <2>2 DEF Forms
<1>3. /\ image[p] \in Keys /\ image[p] # NoKey
      /\ old = IF f.key = NoKey THEN NoKey ELSE image[p]
      /\ old = NoKey <=> f.key = NoKey
  BY <1>0, <1>2 DEF Replaced, KeysOK, Images, ListTypeOK
<1>4. PICK step \in {"idle", "swapped"}, g \in Forms :
         /\ TabTo(r, step, g) /\ g.key = NoKey /\ g.old = old
         /\ step = "idle" => old = NoKey
  <2>1. NoForm \in Forms /\ NoForm.key = NoKey /\ NoForm.old = NoKey
    BY DEF NoForm, Forms, Maybe
  <2>2. CASE old = NoKey
    BY <1>1, <2>1, <2>2
  <2>3. CASE old # NoKey
    <3>1. old \in Maybe(Keys) /\ NoKey \in Maybe(Keys)
      BY <1>3 DEF Maybe
    <3>2. [f EXCEPT !.key = NoKey, !.old = old] \in Forms
      BY <1>2, <3>1 DEF Forms
    <3>3. /\ [f EXCEPT !.key = NoKey, !.old = old].key = NoKey
          /\ [f EXCEPT !.key = NoKey, !.old = old].old = old
      BY <1>2 DEF Forms
    <3>4. QED BY <1>1, <2>3, <3>2, <3>3
  <2>4. QED BY <2>2, <2>3
<1>5. /\ pc' \in [SellerTabs -> Steps] /\ form' \in [SellerTabs -> Forms]
      /\ pc'[r] = step /\ form'[r] = g /\ Held(r)' = {old} \ {NoKey}
      /\ \A q \in SellerTabs \ {r} : pc'[q] = pc[q] /\ form'[q] = form[q] /\ Held(q)' = Held(q)
      /\ UNCHANGED <<modPc, modProduct, modSeen>>
  BY <1>4, TabMoves DEF modVars, Steps
<1>6. ListTypeOK'
  <2>1. live' = [q \in Products |-> moderation'[q] = "APPROVED"]
    <3>1. moderation[p] # "APPROVED"
      BY <1>1 DEF Editable
    <3>2. \A q \in Products : moderation'[q] = "APPROVED" <=> moderation[q] = "APPROVED"
      BY <1>1, <1>2, <3>1 DEF ListTypeOK
    <3>3. [q \in Products |-> moderation'[q] = "APPROVED"]
            = [q \in Products |-> moderation[q] = "APPROVED"]
      BY <3>2, Zenon
    <3>4. QED BY <1>1, <3>3, Zenon DEF ListTypeOK
  <2>2. image' \in [Products -> Maybe(Keys)]
    BY <1>1, <1>2 DEF ListTypeOK
  <2>3. QED BY <1>1, <1>2, <1>5, <2>1, <2>2 DEF ListTypeOK, Steps
<1>7. FormsOK'
  <2>1. FormOK(r)' /\ listed \subseteq listed'
    BY <1>1, <1>4, <1>5 DEF FormOK
  <2>2. QED BY <1>5, <2>1, OthersOK
<1>8. VerdictsOK'
  <2>1. moderation'[p] = "PENDING"
    BY <1>1, <1>2 DEF ListTypeOK
  <2>2. \A q \in Products \ {p} : Shown(q)' = Shown(q) /\ moderation'[q] = moderation[q]
    BY <1>1 DEF Shown, ListTypeOK
  <2>3. QED BY <1>1, <1>5, <2>1, <2>2 DEF VerdictsOK
<1>9. KeysOK'
  <2>1. Held(r) = {f.key} \ {NoKey}
    BY <1>0, <1>2 DEF Held
  <2>2. CASE f.key = NoKey
    <3>1. image' = image /\ Held(r)' = Held(r)
      BY <1>1, <1>2, <1>3, <1>5, <2>1, <2>2 DEF ListTypeOK
    <3>2. QED BY <1>1, <1>5, <3>1, KeysSame
  <2>3. CASE f.key # NoKey
    <3>1. Held(r) = {f.key} /\ Held(r)' = {image[p]}
      BY <1>3, <1>5, <2>1, <2>3
    <3>2. image'[p] = f.key /\ \A q \in listed \ {p} : image'[q] = image[q]
      BY <1>1, <1>2, <2>3 DEF ListTypeOK
    <3>3. listed' = listed \union {p}
      BY <1>1, <1>2
    <3>4. QED BY <1>1, <1>2, <1>5, <3>1, <3>2, <3>3, KeysTaken
  <2>4. QED BY <2>2, <2>3
<1>10. CountOK'
  BY <1>1, <1>4, <1>5, CountKept DEF Creating
<1>11. QED BY <1>6, <1>7, <1>8, <1>9, <1>10
LEMMA CreatorStep ==
    ASSUME ListInv, NEW r \in SellerTabs, CreatorNext(r)
    PROVE  ListInv'
<1> USE ListingsAssumption DEF ListInv
<1>0. form[r] \in Forms /\ NoForm \in Forms /\ NoKey \in Maybe(Keys)
  BY DEF ListTypeOK, NoForm, Forms, Maybe
<1>t. "idle" \in Steps /\ "counted" \in Steps /\ "checked" \in Steps /\ "put" \in Steps
  BY DEF Steps
<1>1. ASSUME NEW s \in ProductSlugs, NEW c \in Contents, CreateCount(r, s, c)
      PROVE  ListInv'
  <2>1. PICK f \in Forms : f = [NoForm EXCEPT !.slug = s, !.content = c]
    BY <1>0 DEF Forms, NoForm, Maybe
  <2>2. /\ TabTo(r, "counted", f) /\ UNCHANGED <<rowVars, storeVars>> /\ pc[r] = "idle"
        /\ Cardinality(listed) < Cap
    BY <1>1, <2>1 DEF CreateCount, Counted
  <2>3. f.key = NoKey /\ f.old = NoKey
    BY <2>1 DEF NoForm
  <2>4. FormOK(r)' /\ Held(r) = {}
    BY <1>t, <2>2, <2>3, TabMoves DEF FormOK, FormsOK, Held
  <2>5. QED BY <1>t, <2>2, <2>3, <2>4, QuietStep
<1>2. CASE CreateSlug(r)
  <2>1. pc[r] = "counted" /\ Held(r) = {} /\ form[r].key = NoKey /\ form[r].old = NoKey
    BY <1>2 DEF CreateSlug, FormsOK, FormOK, Held
  <2>2. CASE TabTo(r, "checked", form[r])
    <3>1. FormOK(r)' /\ r \in Creating
      BY <1>0, <1>t, <2>1, <2>2, TabMoves DEF FormOK, Creating
    <3>2. QED BY <1>0, <1>t, <1>2, <2>1, <2>2, <3>1, QuietStep DEF CreateSlug
  <2>3. CASE TabTo(r, "idle", NoForm)
    <3>1. FormOK(r)' /\ r \in Creating
      BY <1>0, <1>t, <2>1, <2>3, TabMoves DEF FormOK, Creating, NoForm
    <3>2. {NoForm.key, NoForm.old} \ {NoKey} = Held(r)
      BY <2>1 DEF NoForm
    <3>3. QED BY <1>0, <1>t, <1>2, <2>3, <3>1, <3>2, QuietStep DEF CreateSlug
  <2>4. QED BY <1>2, <2>2, <2>3 DEF CreateSlug
<1>3. ASSUME NEW k \in Keys, CreatePut(r, k)
      PROVE  ListInv'
  <2>1. /\ pc[r] = "checked" /\ k \in FreshKeys /\ bucket' = bucket \union {k}
        /\ TabTo(r, "put", [form[r] EXCEPT !.key = k]) /\ UNCHANGED <<rowVars, leaked>>
    BY <1>3 DEF CreatePut
  <2>2. PICK f \in Forms : f = [form[r] EXCEPT !.key = k]
    BY <1>0 DEF Forms, Maybe
  <2>3. Held(r) = {} /\ form[r].old = NoKey /\ r \in Creating
    BY <2>1 DEF FormsOK, FormOK, Held, Creating
  <2>4. f.key = k /\ f.old = NoKey /\ k # NoKey
    BY <1>0, <2>2, <2>3 DEF Forms
  <2>5. FormOK(r)'
    <3>1. TabTo(r, "put", f)
      BY <2>1, <2>2
    <3>2. pc'[r] = "put" /\ form'[r] = f
      BY <1>t, <3>1, TabMoves DEF Steps
    <3> HIDE DEF ListInv
    <3>3. QED BY <2>4, <3>2 DEF FormOK
  <2>6. QED BY <1>t, <2>1, <2>2, <2>3, <2>4, <2>5, PutStep
<1>4. ASSUME NEW p \in Products, CreateCommit(r, p)
      PROVE  ListInv'
  BY <1>4, InsertStep DEF CreateCommit
<1>5. CASE CreateFails(r)
  <2>1. Cleaned(r, form[r].key) /\ form[r].old = NoKey
    BY <1>5 DEF CreateFails, FormsOK, FormOK
  <2>2. Held(r) = {form[r].key} \ {NoKey}
    BY <2>1 DEF Held
  <2>3. QED BY <2>1, <2>2, CleanedStep
<1>6. QED BY <1>1, <1>2, <1>3, <1>4, <1>5 DEF CreatorNext

LEMMA EditorStep ==
    ASSUME ListInv, NEW r \in SellerTabs, EditorNext(r)
    PROVE  ListInv'
<1> USE ListingsAssumption DEF ListInv
<1>0. form[r] \in Forms /\ NoForm \in Forms /\ NoKey \in Maybe(Keys)
  BY DEF ListTypeOK, NoForm, Forms, Maybe
<1>t. "idle" \in Steps /\ "open" \in Steps /\ "submitted" \in Steps /\ "read" \in Steps
  BY DEF Steps
<1>1. ASSUME NEW p \in Products, EditOpen(r, p)
      PROVE  ListInv'
  <2>1. /\ pc[r] = "idle" /\ p \in listed /\ UNCHANGED <<rowVars, storeVars>>
        /\ TabTo(r, "open", [NoForm EXCEPT !.product = p])
    BY <1>1 DEF EditOpen
  <2>2. PICK f \in Forms : f = [NoForm EXCEPT !.product = p]
    BY <1>0 DEF Forms, NoForm, Maybe
  <2>3. f.key = NoKey /\ f.old = NoKey /\ f.product = p
    BY <2>2 DEF NoForm
  <2>4. FormOK(r)' /\ Held(r) = {}
    <3>1. pc'[r] = "open" /\ form'[r] = f /\ listed' = listed
      BY <1>t, <2>1, <2>2, TabMoves DEF rowVars
    <3>2. FormOK(r)'
      BY <2>1, <2>3, <3>1 DEF FormOK
    <3>3. Held(r) = {}
      BY <2>1 DEF FormsOK, FormOK, Held
    <3>4. QED BY <3>2, <3>3
  <2>5. QED BY <1>t, <2>1, <2>2, <2>3, <2>4, QuietStep
<1>2. ASSUME NEW s \in ProductSlugs, NEW c \in Contents, NEW k \in Keys \union {NoKey},
             EditSubmit(r, s, c, k)
      PROVE  ListInv'
  <2>1. /\ pc[r] = "open" /\ k \in FreshKeys \union {NoKey}
        /\ bucket' = bucket \union ({k} \ {NoKey})
        /\ TabTo(r, "submitted", [form[r] EXCEPT !.slug = s, !.content = c, !.key = k])
        /\ UNCHANGED <<rowVars, leaked>>
    BY <1>2 DEF EditSubmit
  <2>2. PICK f \in Forms : f = [form[r] EXCEPT !.slug = s, !.content = c, !.key = k]
    <3>1. k \in Maybe(Keys) /\ s \in Maybe(ProductSlugs) /\ c \in Maybe(Contents)
      BY DEF Maybe
    <3>2. QED BY <1>0, <3>1 DEF Forms
  <2>3. Held(r) = {} /\ form[r].old = NoKey /\ form[r].product \in listed
    BY <2>1 DEF FormsOK, FormOK, Held
  <2>4. f.key = k /\ f.old = NoKey /\ f.product \in listed
    BY <1>0, <2>2, <2>3 DEF Forms
  <2>5. FormOK(r)'
    <3>1. pc'[r] = "submitted" /\ form'[r] = f /\ listed' = listed
      BY <1>t, <2>1, <2>2, TabMoves DEF rowVars
    <3>2. QED BY <2>4, <3>1 DEF FormOK
  <2>6. CASE k = NoKey
    <3>1. {f.key, f.old} \ {NoKey} = Held(r) /\ UNCHANGED storeVars
      BY <2>1, <2>3, <2>4, <2>6 DEF storeVars
    <3>2. QED BY <1>t, <2>1, <2>2, <2>5, <3>1, QuietStep
  <2>7. CASE k # NoKey
    <3>1. k \in FreshKeys /\ bucket' = bucket \union {k}
      BY <2>1, <2>7
    <3>2. QED BY <1>t, <2>1, <2>2, <2>3, <2>4, <2>5, <3>1, PutStep
  <2>8. QED BY <2>6, <2>7
<1>3. CASE EditRead(r)
  <2>1. /\ pc[r] = "submitted" /\ TabTo(r, "read", form[r])
        /\ UNCHANGED <<rowVars, storeVars>>
    BY <1>3 DEF EditRead
  <2>2. FormOK(r)' /\ {form[r].key, form[r].old} \ {NoKey} = Held(r)
    BY <1>0, <1>t, <2>1, TabMoves DEF FormsOK, FormOK, Held, rowVars
  <2>3. QED BY <1>0, <1>t, <2>1, <2>2, QuietStep
<1>4. CASE EditCommit(r)
  BY <1>4, EditCommitStep
<1>5. CASE EditRefused(r)
  <2>1. Cleaned(r, form[r].key) /\ form[r].old = NoKey
    BY <1>5 DEF EditRefused, FormsOK, FormOK
  <2>2. Held(r) = {form[r].key} \ {NoKey}
    BY <2>1 DEF Held
  <2>3. QED BY <2>1, <2>2, CleanedStep
<1>6. CASE EditDropOld(r)
  <2>1. Cleaned(r, form[r].old) /\ form[r].key = NoKey
    BY <1>6 DEF EditDropOld, FormsOK, FormOK
  <2>2. Held(r) = {form[r].old} \ {NoKey}
    BY <2>1 DEF Held
  <2>3. QED BY <2>1, <2>2, CleanedStep
<1>7. QED BY <1>1, <1>2, <1>3, <1>4, <1>5, <1>6 DEF EditorNext

-----------------------------------------------------------------------------
(* The steps of a moderator, and the theorems.                             *)

\* A page is opened, or closed without a verdict.
LEMMA PageStep ==
    ASSUME ListInv, NEW v \in Moderators, NEW step \in {"idle", "open"}, NEW q, NEW seen,
           ModeratorTo(v, step, q, seen), UNCHANGED <<moderation, live, noted>>,
           \/ step = "idle" /\ q = NoKey /\ seen = NoKey
           \/ q \in listed /\ seen = Shown(q)
    PROVE  ListInv'
<1> USE ListingsAssumption DEF ListInv
<1>1. UNCHANGED <<listed, slug, content, moderation, live, image, noted, bucket, leaked, pc, form>>
  BY DEF ModeratorTo, storeVars, requestVars
<1>2. FormsOK' /\ CountOK'
  BY <1>1, CountKept DEF FormsOK, FormOK, Creating
<1>3. KeysOK'
  <2>1. \A r \in SellerTabs : Held(r)' = Held(r)
    BY <1>1 DEF Held
  <2>2. QED BY <1>1, <2>1, KeysSame
<1>4. /\ q \in Maybe(Products) /\ seen \in Maybe(Maybe(ProductSlugs) \X Maybe(Contents))
      /\ step = "open" => q \in listed /\ seen # NoKey
  <2>1. CASE step = "idle" /\ q = NoKey /\ seen = NoKey
    BY <2>1 DEF Maybe
  <2>2. CASE q \in listed /\ seen = Shown(q)
    <3>1. q \in Products /\ seen \in Maybe(ProductSlugs) \X Maybe(Contents)
      BY <2>2 DEF Shown, ListTypeOK
    <3>2. seen # NoKey
      BY <3>1 DEF ListingsAssumption, Maybe
    <3>3. QED BY <2>2, <3>1, <3>2 DEF Maybe
  <2>3. QED BY <2>1, <2>2
<1>5. ListTypeOK'
  <2>1. /\ modPc' \in [Moderators -> {"idle", "open"}]
        /\ modProduct' \in [Moderators -> Maybe(Products)]
        /\ modSeen' \in [Moderators -> Maybe(Maybe(ProductSlugs) \X Maybe(Contents))]
    BY <1>4 DEF ListTypeOK, ModeratorTo
  <2>2. live' = [p \in Products |-> moderation'[p] = "APPROVED"]
    <3>1. live = [p \in Products |-> moderation[p] = "APPROVED"]
      BY DEF ListTypeOK
    <3>2. live' = live /\ moderation' = moderation
      OBVIOUS
    <3>3. QED BY <3>1, <3>2, Zenon
  <2>3. QED BY <1>1, <2>1, <2>2 DEF ListTypeOK
<1>6. VerdictsOK'
  BY <1>1, <1>4 DEF VerdictsOK, ListTypeOK, ModeratorTo
<1>7. QED BY <1>2, <1>3, <1>5, <1>6

\* A verdict.
LEMMA VerdictStep ==
    ASSUME ListInv, NEW v \in Moderators, Approve(v) \/ Reject(v)
    PROVE  ListInv'
<1> USE ListingsAssumption DEF ListInv
<1>1. UNCHANGED <<listed, slug, content, image, bucket, leaked, pc, form>>
  BY DEF Approve, ApproveAs, Reject, RejectAny, ModeratorTo, storeVars, requestVars
<1>2. FormsOK' /\ CountOK'
  BY <1>1, CountKept DEF FormsOK, FormOK, Creating
<1>3. KeysOK'
  <2>1. \A r \in SellerTabs : Held(r)' = Held(r)
    BY <1>1 DEF Held
  <2>2. QED BY <1>1, <2>1, KeysSame
<1>4. PICK p : p = modProduct[v]
  OBVIOUS
<1>5. p \in listed /\ p \in Products /\ moderation[p] = "PENDING"
  BY <1>4 DEF Approve, ApproveAs, Reject, RejectAny, VerdictsOK, ListTypeOK
<1>6. /\ modPc' = [modPc EXCEPT ![v] = "idle"] /\ modProduct' = [modProduct EXCEPT ![v] = NoKey]
      /\ modSeen' = [modSeen EXCEPT ![v] = NoKey]
  BY DEF Approve, ApproveAs, Reject, RejectAny, ModeratorTo
<1>7. PICK seen : seen = modSeen[v]
  OBVIOUS
<1>8. seen \in Maybe(ProductSlugs) \X Maybe(Contents) /\ seen # NoKey
  <2>1. modPc[v] = "open"
    BY DEF Approve, ApproveAs, Reject, RejectAny
  <2>2. QED BY <1>7, <2>1 DEF VerdictsOK, ListTypeOK, Maybe
<1>9. PICK b \in BOOLEAN :
         /\ moderation' = [moderation EXCEPT ![p] = IF b THEN "APPROVED" ELSE "REJECTED"]
         /\ live' = [live EXCEPT ![p] = b]
         /\ noted' = IF b THEN noted ELSE [noted EXCEPT ![p] = seen]
  <2>1. live[p] = FALSE
    BY <1>5 DEF ListTypeOK
  <2>2. live = [live EXCEPT ![p] = FALSE]
    BY <2>1, Zenon DEF ListTypeOK
  <2>3. CASE Approve(v)
    BY <1>4, <2>3 DEF Approve, ApproveAs
  <2>4. CASE Reject(v)
    BY <1>4, <1>7, <2>2, <2>4 DEF Reject, RejectAny
  <2>5. QED BY <2>3, <2>4
<1>10. live' = [q \in Products |-> moderation'[q] = "APPROVED"]
  <2>1. /\ moderation'[p] = "APPROVED" <=> b
        /\ \A q \in Products \ {p} : moderation'[q] = moderation[q]
    BY <1>5, <1>9 DEF ListTypeOK
  <2>2. live = [q \in Products |-> moderation[q] = "APPROVED"]
    BY DEF ListTypeOK
  <2>3. live' = [q \in Products |-> IF q = p THEN b ELSE moderation[q] = "APPROVED"]
    BY <1>9, <2>2, Zenon
  <2>4. \A q \in Products :
           (IF q = p THEN b ELSE moderation[q] = "APPROVED") = (moderation'[q] = "APPROVED")
    BY <2>1
  <2>5. QED BY <2>3, <2>4, Zenon
<1>11. ListTypeOK'
  <2>1. moderation' \in [Products -> {"PENDING", "APPROVED", "REJECTED"}]
    BY <1>9 DEF ListTypeOK
  <2>2. noted' \in [Products -> Maybe(Maybe(ProductSlugs) \X Maybe(Contents))]
    BY <1>8, <1>9 DEF ListTypeOK, Maybe
  <2>3. QED BY <1>1, <1>6, <1>10, <2>1, <2>2 DEF ListTypeOK, Maybe
<1>12. VerdictsOK'
  <2>1. \A w \in Moderators :
           modPc'[w] = "open" => modProduct'[w] \in listed' /\ modSeen'[w] # NoKey
    BY <1>1, <1>6 DEF VerdictsOK, ListTypeOK
  <2>2. \A q \in Products : moderation'[q] # "PENDING" => q \in listed'
    BY <1>1, <1>5, <1>9 DEF VerdictsOK, ListTypeOK
  <2>3. \A q \in Products : moderation'[q] = "REJECTED" => noted'[q] # NoKey
    BY <1>5, <1>8, <1>9 DEF VerdictsOK, ListTypeOK
  <2>4. QED BY <2>1, <2>2, <2>3 DEF VerdictsOK
<1>13. QED BY <1>2, <1>3, <1>11, <1>12

LEMMA ModeratorStep ==
    ASSUME ListInv, NEW v \in Moderators, ModeratorNext(v)
    PROVE  ListInv'
<1>1. ASSUME NEW q \in Products, ReviewOpen(v, q)
      PROVE  ListInv'
  <2>1. /\ ModeratorTo(v, "open", q, Shown(q)) /\ UNCHANGED <<moderation, live, noted>>
        /\ q \in listed
    BY <1>1 DEF ReviewOpen, ModerationQueue
  <2>2. PICK seen : seen = Shown(q)
    OBVIOUS
  <2>3. QED BY <2>1, <2>2, PageStep
<1>2. CASE AlreadyDecided(v)
  <2>1. ModeratorTo(v, "idle", NoKey, NoKey) /\ UNCHANGED <<moderation, live, noted>>
    BY <1>2 DEF AlreadyDecided
  <2>2. QED BY <2>1, PageStep
<1>3. QED BY <1>1, <1>2, VerdictStep DEF ModeratorNext

LEMMA ListInitInv == ListInit => ListInv
<1> SUFFICES ASSUME ListInit
             PROVE  ListInv
  OBVIOUS
<1> USE ListingsAssumption DEF ListInit
<1>1. NoForm \in Forms
  BY DEF NoForm, Forms, Maybe
<1>2. ListTypeOK
  <2>1. live = [p \in Products |-> moderation[p] = "APPROVED"]
    <3>1. \A p \in Products : FALSE = (moderation[p] = "APPROVED")
      OBVIOUS
    <3>2. QED BY <3>1, Zenon
  <2>2. QED BY <1>1, <2>1 DEF ListTypeOK, Maybe
<1>3. FormsOK
  BY DEF FormsOK, FormOK, NoForm
<1>4. VerdictsOK
  BY DEF VerdictsOK
<1>5. \A r \in SellerTabs : Held(r) = {}
  BY DEF Held, NoForm
<1>6. KeysOK
  BY <1>5 DEF KeysOK, Images
<1>7. CountOK
  <2>1. Creating = {} /\ Cardinality(Creating) = 0 /\ Cardinality(listed) = 0
    BY FS_EmptySet DEF Creating
  <2>2. IsFiniteSet(listed) /\ Cardinality(SellerTabs) \in Nat
    BY FS_EmptySet, FS_CardinalityType DEF ListingsAssumption
  <2>3. QED BY <2>1, <2>2 DEF CountOK, ListingsAssumption
<1>8. QED BY <1>2, <1>3, <1>4, <1>6, <1>7 DEF ListInv

LEMMA ListInductive == ListSpec => []ListInv
<1>1. ListInv /\ [ListNext]_listVars => ListInv'
  <2> SUFFICES ASSUME ListInv, [ListNext]_listVars
               PROVE  ListInv'
    OBVIOUS
  <2>1. CASE UNCHANGED listVars
    <3>1. UNCHANGED <<listed, slug, content, moderation, live, image, noted, bucket, leaked,
                      pc, form, modPc, modProduct, modSeen>>
      BY <2>1 DEF listVars, rowVars, storeVars, requestVars, modVars
    <3>2. \A r \in SellerTabs : Held(r)' = Held(r)
      BY <3>1 DEF Held
    <3>3. KeysOK'
      BY <3>1, <3>2, KeysSame DEF ListInv
    <3>4. QED BY <3>1, <3>3 DEF ListInv, ListTypeOK, FormsOK, FormOK, VerdictsOK,
                  CountOK, Creating
  <2>2. QED BY <2>1, CreatorStep, EditorStep, DieStep, ModeratorStep DEF ListNext
<1>2. QED BY <1>1, ListInitInv, PTL DEF ListSpec

\* Rows and tabs hold values they can hold, and PUBLISHED means approved.
THEOREM ListingsTyped == ListSpec => []ListTypeOK
<1>1. ListInv => ListTypeOK
  BY DEF ListInv
<1>2. QED BY <1>1, ListInductive, PTL

\* Every listing has its own image in the bucket, and bytes nobody shows
\* belong to a request that is at work or that died.
THEOREM ImagesAlwaysStored == ListSpec => []ImagesAreStored
<1>1. ListInv => ImagesAreStored
  <2> SUFFICES ASSUME ListInv
               PROVE  ImagesAreStored
    OBVIOUS
  <2>1. \A p \in listed : /\ image[p] \in bucket
                           /\ \A q \in listed : image[q] = image[p] => q = p
    BY DEF ListInv, KeysOK, Images
  <2>2. bucket \ {image[p] : p \in listed} \subseteq leaked \union UNION {Held(r) : r \in SellerTabs}
    BY DEF ListInv, KeysOK, Images
  <2>3. QED BY <2>1, <2>2 DEF ImagesAreStored
<1>2. QED BY <1>1, ListInductive, PTL

\* The cap is passed by less than the number of tabs, for every cap and
\* every number of tabs.
THEOREM CapIsNear == ListSpec => []ListingsNearCap
<1>1. ListInv => ListingsNearCap
  <2> SUFFICES ASSUME ListInv
               PROVE  ListingsNearCap
    OBVIOUS
  <2>1. IsFiniteSet(Creating) /\ IsFiniteSet(SellerTabs)
    BY ListingsAssumption, FS_Subset DEF Creating, ListingsAssumption
  <2>2. /\ Cardinality(Creating) \in Nat /\ Cardinality(SellerTabs) \in Nat
        /\ Cardinality(listed) \in Nat
    BY <2>1, FS_CardinalityType DEF ListInv, CountOK
  <2>3. QED BY <2>2, ListingsAssumption DEF ListInv, CountOK, ListingsNearCap, ListingsAssumption
<1>2. QED BY <1>1, ListInductive, PTL

\* What a moderator published never changes, whoever saves or decides late.
THEOREM LiveStaysFrozen == ListSpec => LiveIsFrozen
<1> DEFINE Frozen == \A p \in Products :
              live[p] => /\ live'[p] /\ moderation'[p] = "APPROVED"
                         /\ slug'[p] = slug[p] /\ content'[p] = content[p]
                         /\ image'[p] = image[p]
<1>1. ASSUME ListInv, [ListNext]_listVars
      PROVE  Frozen
  <2>1. \A p \in Products : live[p] => moderation[p] = "APPROVED"
    BY <1>1 DEF ListInv, ListTypeOK
  <2>2. ASSUME UNCHANGED <<slug, content, moderation, live, image>>
        PROVE  Frozen
    BY <2>1, <2>2
  <2>3. ASSUME NEW r \in SellerTabs, CreatorNext(r)
        PROVE  Frozen
    <3>1. CASE \E p \in Products : CreateCommit(r, p)
      <4>1. PICK p \in Products : Insert(r, p)
        BY <3>1 DEF CreateCommit
      <4>2. moderation[p] = "PENDING"
        BY <1>1, <4>1 DEF Insert, ListInv, VerdictsOK
      <4>3. QED BY <1>1, <2>1, <4>1, <4>2 DEF Insert, ListInv, ListTypeOK
    <3>2. CASE ~\E p \in Products : CreateCommit(r, p)
      BY <2>2, <2>3, <3>2 DEF CreatorNext, CreateCount, Counted, CreateSlug, CreatePut,
           CreateFails, Cleaned, rowVars
    <3>3. QED BY <3>1, <3>2
  <2>4. ASSUME NEW r \in SellerTabs, EditorNext(r)
        PROVE  Frozen
    <3>1. CASE EditCommit(r)
      <4>1. moderation[form[r].product] # "APPROVED"
        BY <3>1 DEF EditCommit, MayEdit, Editable
      <4>2. QED BY <1>1, <2>1, <3>1, <4>1 DEF EditCommit, Rewrite, ListInv, ListTypeOK
    <3>2. CASE ~EditCommit(r)
      BY <2>2, <2>4, <3>2 DEF EditorNext, EditOpen, EditSubmit, EditRead, EditRefused,
           EditDropOld, Cleaned, rowVars
    <3>3. QED BY <3>1, <3>2
  <2>5. ASSUME NEW v \in Moderators, ModeratorNext(v)
        PROVE  Frozen
    <3>1. CASE Approve(v) \/ Reject(v)
      <4>1. moderation[modProduct[v]] = "PENDING"
        BY <3>1 DEF Approve, ApproveAs, Reject
      <4>2. QED BY <1>1, <2>1, <3>1, <4>1 DEF Approve, ApproveAs, Reject, RejectAny, ModeratorTo,
                   ListInv, ListTypeOK
    <3>2. CASE ~(Approve(v) \/ Reject(v))
      BY <2>2, <2>5, <3>2 DEF ModeratorNext, ReviewOpen, AlreadyDecided, ModeratorTo
    <3>3. QED BY <3>1, <3>2
  <2>6. ASSUME NEW r \in SellerTabs, RequestDies(r)
        PROVE  Frozen
    BY <2>2, <2>6 DEF RequestDies, rowVars
  <2>7. ASSUME UNCHANGED listVars
        PROVE  Frozen
    BY <2>2, <2>7 DEF listVars, rowVars
  <2>8. QED BY <1>1, <2>3, <2>4, <2>5, <2>6, <2>7 DEF ListNext
<1>2. QED BY <1>1, ListInductive, PTL DEF ListSpec, LiveIsFrozen

\* Until it is resubmitted a rejected listing stays what it was, under the
\* same note, whoever saves or decides late, and its seller can read the
\* note and edit.
THEOREM RejectionsStand == ListSpec => RejectionStands
<1> DEFINE Same(p) == /\ moderation'[p] = moderation[p] /\ noted'[p] = noted[p]
                      /\ slug'[p] = slug[p] /\ content'[p] = content[p]
                      /\ image'[p] = image[p]
           Stands == \A p \in Products : moderation[p] = "REJECTED" =>
                        Same(p) \/ p \in ModerationQueue'
<1>1. ASSUME ListInv, [ListNext]_listVars
      PROVE  Stands
  <2>1. ASSUME UNCHANGED <<slug, content, moderation, image, noted>>
        PROVE  Stands
    BY <2>1
  <2>2. ASSUME NEW r \in SellerTabs, CreatorNext(r)
        PROVE  Stands
    <3>1. CASE \E p \in Products : CreateCommit(r, p)
      <4>1. PICK p \in Products : Insert(r, p)
        BY <3>1 DEF CreateCommit
      <4>2. moderation[p] = "PENDING"
        BY <1>1, <4>1 DEF Insert, ListInv, VerdictsOK, ListTypeOK
      <4>3. QED BY <1>1, <4>1, <4>2 DEF Insert, ListInv, ListTypeOK
    <3>2. CASE ~\E p \in Products : CreateCommit(r, p)
      BY <2>1, <2>2, <3>2 DEF CreatorNext, CreateCount, Counted, CreateSlug, CreatePut,
           CreateFails, Cleaned, rowVars
    <3>3. QED BY <3>1, <3>2
  <2>3. ASSUME NEW r \in SellerTabs, EditorNext(r)
        PROVE  Stands
    <3>1. CASE EditCommit(r)
      <4>1. Rewrite(r, "PENDING", Replaced(r)) /\ form[r].product \in listed
        BY <1>1, <3>1 DEF EditCommit, ListInv, FormsOK, FormOK
      <4>2. PICK p : p = form[r].product
        OBVIOUS
      <4>3. p \in Products /\ p \in listed' /\ moderation'[p] = "PENDING"
        BY <1>1, <4>1, <4>2 DEF Rewrite, ListInv, ListTypeOK
      <4>4. \A q \in Products \ {p} : Same(q)
        BY <1>1, <4>1, <4>2 DEF Rewrite, ListInv, ListTypeOK
      <4>5. p \in ModerationQueue'
        BY <4>3 DEF ModerationQueue
      <4>6. QED BY <4>4, <4>5
    <3>2. CASE ~EditCommit(r)
      BY <2>1, <2>3, <3>2 DEF EditorNext, EditOpen, EditSubmit, EditRead, EditRefused,
           EditDropOld, Cleaned, rowVars
    <3>3. QED BY <3>1, <3>2
  <2>4. ASSUME NEW v \in Moderators, ModeratorNext(v)
        PROVE  Stands
    <3>1. CASE Approve(v) \/ Reject(v)
      <4>1. moderation[modProduct[v]] = "PENDING"
        BY <3>1 DEF Approve, ApproveAs, Reject
      <4>2. QED BY <1>1, <3>1, <4>1 DEF Approve, ApproveAs, Reject, RejectAny, ModeratorTo,
                   ListInv, ListTypeOK
    <3>2. CASE ~(Approve(v) \/ Reject(v))
      BY <2>1, <2>4, <3>2 DEF ModeratorNext, ReviewOpen, AlreadyDecided, ModeratorTo
    <3>3. QED BY <3>1, <3>2
  <2>5. ASSUME NEW r \in SellerTabs, RequestDies(r)
        PROVE  Stands
    BY <2>1, <2>5 DEF RequestDies, rowVars
  <2>6. ASSUME UNCHANGED listVars
        PROVE  Stands
    BY <2>1, <2>6 DEF listVars, rowVars
  <2>7. QED BY <1>1, <2>2, <2>3, <2>4, <2>5, <2>6 DEF ListNext
<1>2. ASSUME ListInv
      PROVE  \A p \in Products :
                moderation[p] = "REJECTED" => ShowFeedback(p) /\ ShowEdit(p)
  BY <1>2 DEF ListInv, VerdictsOK, ShowFeedback, ShowEdit, Editable
<1>3. ASSUME ListInv, [ListNext]_listVars
      PROVE  \A p \in Products : moderation[p] = "REJECTED" =>
                /\ ShowFeedback(p) /\ ShowEdit(p)
                /\ \/ /\ moderation'[p] = "REJECTED" /\ noted'[p] = noted[p]
                      /\ slug'[p] = slug[p] /\ content'[p] = content[p]
                      /\ image'[p] = image[p]
                   \/ p \in ModerationQueue'
  BY <1>1, <1>2, <1>3
<1>4. QED BY <1>3, ListInductive, PTL DEF ListSpec, RejectionStands
=============================================================================
