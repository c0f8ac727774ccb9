------------------------------ MODULE Listings ------------------------------
(***************************************************************************)
(* The product listings of one seller: creating one, editing it while it   *)
(* is not approved, and the moderation that publishes it.  Each request    *)
(* first stores its image in object storage, which no transaction covers,   *)
(* and then writes the rows.                                               *)
(*                                                                         *)
(* Every check and the unique index on (seller_id, slug) are per seller.   *)
(***************************************************************************)
EXTENDS Integers, FiniteSets

CONSTANTS
    Products,       \* rows that may be created
    ProductSlugs,   \* slugs of products
    Contents,       \* name, texts, category, condition and prices
    Keys,           \* object keys, fresh random ones
    Cap,            \* LISTING_LIMIT_BY_PLAN of the seller's plan
    SellerTabs,     \* browser tabs of the seller
    Moderators,     \* tabs of the people who review
    NoKey

ASSUME ListingsAssumption ==
    /\ Cap \in Nat \ {0}
    /\ IsFiniteSet(Products)
    /\ IsFiniteSet(SellerTabs) /\ SellerTabs # {}
    /\ NoKey \notin Keys \union Products \union ProductSlugs \union Contents
    /\ NoKey \notin (ProductSlugs \union {NoKey}) \X (Contents \union {NoKey})

VARIABLES
    listed,         \* products that exist
    slug, content,
    moderation,
    live,           \* status = PUBLISHED; an unpublished one is a DRAFT
    image,          \* the key in the primary ProductImage
    noted,          \* what the newest product.rejected note was written about
    bucket,         \* keys in R2
    leaked,         \* keys of requests that ended before cleaning up
    pc, form,       \* a seller's tab, and what it has submitted
    modPc, modProduct,
    modSeen         \* what the page showed that a moderator decides from

rowVars == <<listed, slug, content, moderation, live, image, noted>>
storeVars == <<bucket, leaked>>
requestVars == <<pc, form>>
modVars == <<modPc, modProduct, modSeen>>
listVars == <<rowVars, storeVars, requestVars, modVars>>

Editable == {"REJECTED", "PENDING"}

Maybe(S) == S \union {NoKey}
Forms == [product : Maybe(Products), slug : Maybe(ProductSlugs),
          content : Maybe(Contents), key : Maybe(Keys), old : Maybe(Keys)]
NoForm == [product |-> NoKey, slug |-> NoKey, content |-> NoKey,
           key |-> NoKey, old |-> NoKey]

ListInit ==
    /\ listed = {}
    /\ slug = [p \in Products |-> NoKey]
    /\ content = [p \in Products |-> NoKey]
    /\ moderation = [p \in Products |-> "PENDING"]
    /\ live = [p \in Products |-> FALSE]
    /\ image = [p \in Products |-> NoKey]
    /\ noted = [p \in Products |-> NoKey]
    /\ bucket = {}
    /\ leaked = {}
    /\ pc = [r \in SellerTabs |-> "idle"]
    /\ form = [r \in SellerTabs |-> NoForm]
    /\ modPc = [v \in Moderators |-> "idle"]
    /\ modProduct = [v \in Moderators |-> NoKey]
    /\ modSeen = [v \in Moderators |-> NoKey]

SlugFree(s, p) == \A q \in listed \ {p} : slug[q] # s

Held(r) == {form[r].key, form[r].old} \ {NoKey}

FreshKeys == Keys \ (bucket \union {image[p] : p \in listed}
                       \union UNION {Held(r) : r \in SellerTabs})

TabTo(r, step, f) ==
    /\ pc' = [pc EXCEPT ![r] = step]
    /\ form' = [form EXCEPT ![r] = f]
    /\ UNCHANGED modVars

\* A request is over: the key it was to delete is gone from the bucket.
Cleaned(r, key) ==
    /\ bucket' = bucket \ {key}
    /\ TabTo(r, "idle", NoForm)
    /\ UNCHANGED <<rowVars, leaked>>

\* The process dies, a clean-up fails and is swallowed, or a write throws
\* what nobody catches: the keys it held that no product has stay behind.
RequestDies(r) ==
    /\ pc[r] \notin {"idle", "open"}
    /\ leaked' = leaked \union (bucket \intersect Held(r))
    /\ TabTo(r, "idle", NoForm)
    /\ UNCHANGED <<rowVars, bucket>>

-----------------------------------------------------------------------------
(* createProduct.                                                          *)

Counted(r, s, c) ==
    /\ pc[r] = "idle"
    /\ TabTo(r, "counted", [NoForm EXCEPT !.slug = s, !.content = c])
    /\ UNCHANGED <<rowVars, storeVars>>

\* Mutated CreateCount: a seller at the cap may create one more.
CreateCountAtCap(r, s, c) == Cardinality(listed) <= Cap /\ Counted(r, s, c)

CreateCount(r, s, c) == Cardinality(listed) < Cap /\ Counted(r, s, c)

\* A slug that is taken ends the request.
CreateSlug(r) ==
    /\ pc[r] = "counted"
    /\ IF SlugFree(form[r].slug, NoKey)
       THEN TabTo(r, "checked", form[r])
       ELSE TabTo(r, "idle", NoForm)
    /\ UNCHANGED <<rowVars, storeVars>>

CreatePut(r, k) ==
    /\ pc[r] = "checked"
    /\ k \in FreshKeys
    /\ bucket' = bucket \union {k}
    /\ TabTo(r, "put", [form[r] EXCEPT !.key = k])
    /\ UNCHANGED <<rowVars, leaked>>

Insert(r, p) ==
    /\ pc[r] = "put"
    /\ p \notin listed
    /\ listed' = listed \union {p}
    /\ slug' = [slug EXCEPT ![p] = form[r].slug]
    /\ content' = [content EXCEPT ![p] = form[r].content]
    /\ image' = [image EXCEPT ![p] = form[r].key]
    /\ TabTo(r, "idle", NoForm)
    /\ UNCHANGED <<moderation, live, noted, storeVars>>

\* Product and image row in one transaction, under the unique index.
CreateCommit(r, p) ==
    /\ SlugFree(form[r].slug, NoKey)
    /\ Insert(r, p)

\* The transaction fails, on the index or otherwise; the image is deleted.
CreateFails(r) ==
    /\ pc[r] = "put"
    /\ Cleaned(r, form[r].key)

-----------------------------------------------------------------------------
(* updateProduct and updateSellerProduct.                                  *)

\* The edit page shows a form for a listing that may be edited.
EditOpen(r, p) ==
    /\ pc[r] = "idle"
    /\ p \in listed /\ moderation[p] \in Editable
    /\ TabTo(r, "open", [NoForm EXCEPT !.product = p])
    /\ UNCHANGED <<rowVars, storeVars>>

\* The form is submitted, with a new image (stored first) or without.
EditSubmit(r, s, c, k) ==
    /\ pc[r] = "open"
    /\ k \in FreshKeys \union {NoKey}
    /\ bucket' = bucket \union ({k} \ {NoKey})
    /\ TabTo(r, "submitted",
             [form[r] EXCEPT !.slug = s, !.content = c, !.key = k])
    /\ UNCHANGED <<rowVars, leaked>>

MayEdit(r) ==
    /\ moderation[form[r].product] \in Editable
    /\ SlugFree(form[r].slug, form[r].product)

EditRead(r) ==
    /\ pc[r] = "submitted"
    /\ MayEdit(r)
    /\ TabTo(r, "read", form[r])
    /\ UNCHANGED <<rowVars, storeVars>>

Rewrite(r, verdict, old) ==
    LET f == form[r]
        p == f.product IN
    /\ slug' = [slug EXCEPT ![p] = f.slug]
    /\ content' = [content EXCEPT ![p] = f.content]
    /\ moderation' = [moderation EXCEPT ![p] = verdict]
    /\ image' = [image EXCEPT ![p] = IF f.key = NoKey THEN @ ELSE f.key]
    /\ IF old = NoKey
       THEN TabTo(r, "idle", NoForm)
       ELSE TabTo(r, "swapped", [f EXCEPT !.key = NoKey, !.old = old])
    /\ UNCHANGED <<listed, live, noted, storeVars>>

Replaced(r) ==
    IF form[r].key = NoKey THEN NoKey ELSE image[form[r].product]

\* Mutated EditCommit: the old key is returned although no image came.
EditCommitReturnsOld(r) ==
    /\ pc[r] = "read" /\ MayEdit(r)
    /\ Rewrite(r, "PENDING", image[form[r].product])

\* Mutated EditCommit: the update is by id alone.
EditCommitUnguarded(r) ==
    /\ pc[r] = "read" /\ SlugFree(form[r].slug, form[r].product)
    /\ Rewrite(r, "PENDING", Replaced(r))

\* Mutated EditCommit: saving does not resubmit.
EditCommitKeepsVerdict(r) ==
    /\ pc[r] = "read" /\ MayEdit(r)
    /\ Rewrite(r, moderation[form[r].product], Replaced(r))

\* The guarded update; it holds the row, so the image key read after it is
\* the one it replaces.
EditCommit(r) ==
    /\ pc[r] = "read" /\ MayEdit(r)
    /\ Rewrite(r, "PENDING", Replaced(r))

\* A decision or another listing was first: the new image is deleted.
EditRefused(r) ==
    /\ pc[r] \in {"submitted", "read"}
    /\ ~MayEdit(r)
    /\ Cleaned(r, form[r].key)

EditDropOld(r) ==
    /\ pc[r] = "swapped"
    /\ Cleaned(r, form[r].old)

-----------------------------------------------------------------------------
(* reviewProduct.                                                          *)

Shown(p) == <<slug[p], content[p]>>

\* The pending view of the queue; each row links to its review page.
ModerationQueue == {p \in listed : moderation[p] = "PENDING"}

ShowDecision(p) == moderation[p] \notin {"APPROVED", "REJECTED"}

ModeratorTo(v, step, p, seen) ==
    /\ modPc' = [modPc EXCEPT ![v] = step]
    /\ modProduct' = [modProduct EXCEPT ![v] = p]
    /\ modSeen' = [modSeen EXCEPT ![v] = seen]
    /\ UNCHANGED <<listed, slug, content, image, storeVars, requestVars>>

\* The review page offers a decision on a listing that has none.  A save that
\* comes while it is open does not reach it.
ReviewOpen(v, p) ==
    /\ modPc[v] = "idle"
    /\ p \in ModerationQueue /\ ShowDecision(p)
    /\ ModeratorTo(v, "open", p, Shown(p))
    /\ UNCHANGED <<moderation, live, noted>>

ApproveAs(v, published) ==
    /\ modPc[v] = "open"
    /\ moderation[modProduct[v]] = "PENDING"
    /\ moderation' = [moderation EXCEPT ![modProduct[v]] = "APPROVED"]
    /\ live' = [live EXCEPT ![modProduct[v]] = published]
    /\ ModeratorTo(v, "idle", NoKey, NoKey)
    /\ UNCHANGED noted

Approve(v) == ApproveAs(v, TRUE)

\* The note is written about the page, whatever was saved since.
RejectAny(v) ==
    /\ modPc[v] = "open"
    /\ moderation' = [moderation EXCEPT ![modProduct[v]] = "REJECTED"]
    /\ noted' = [noted EXCEPT ![modProduct[v]] = modSeen[v]]
    /\ ModeratorTo(v, "idle", NoKey, NoKey)
    /\ UNCHANGED live

\* Status and audit row with the note are one transaction.
Reject(v) ==
    /\ modPc[v] = "open"
    /\ moderation[modProduct[v]] = "PENDING"
    /\ RejectAny(v)

\* Somebody else decided first.
AlreadyDecided(v) ==
    /\ modPc[v] = "open"
    /\ moderation[modProduct[v]] # "PENDING"
    /\ ModeratorTo(v, "idle", NoKey, NoKey)
    /\ UNCHANGED <<moderation, live, noted>>

-----------------------------------------------------------------------------
CreatorNext(r) ==
    \/ \E s \in ProductSlugs, c \in Contents : CreateCount(r, s, c)
    \/ CreateSlug(r)
    \/ \E k \in Keys : CreatePut(r, k)
    \/ \E p \in Products : CreateCommit(r, p)
    \/ CreateFails(r)

EditorNext(r) ==
    \/ \E p \in Products : EditOpen(r, p)
    \/ \E s \in ProductSlugs, c \in Contents, k \in Keys \union {NoKey} :
          EditSubmit(r, s, c, k)
    \/ EditRead(r)
    \/ EditCommit(r)
    \/ EditRefused(r)
    \/ EditDropOld(r)

ModeratorNext(v) ==
    \/ \E p \in Products : ReviewOpen(v, p)
    \/ Approve(v)
    \/ Reject(v)
    \/ AlreadyDecided(v)

ListNext ==
    \/ \E r \in SellerTabs : CreatorNext(r) \/ EditorNext(r) \/ RequestDies(r)
    \/ \E v \in Moderators : ModeratorNext(v)

ListSpec == ListInit /\ [][ListNext]_listVars

-----------------------------------------------------------------------------
(* The seller's console.                                                   *)

\* A row of the seller's console: the link that edits, the reviewer's note.
ShowEdit(p) == moderation[p] \in Editable
ShowFeedback(p) == moderation[p] = "REJECTED" /\ noted[p] # NoKey

-----------------------------------------------------------------------------
(* Properties.                                                             *)

\* Every row and tab holds a value it can hold; status and moderation_status
\* say the same.
ListTypeOK ==
    /\ listed \subseteq Products
    /\ slug \in [Products -> Maybe(ProductSlugs)]
    /\ content \in [Products -> Maybe(Contents)]
    /\ moderation \in [Products -> {"PENDING", "APPROVED", "REJECTED"}]
    /\ live = [p \in Products |-> moderation[p] = "APPROVED"]
    /\ image \in [Products -> Maybe(Keys)]
    /\ noted \in [Products -> Maybe(Maybe(ProductSlugs) \X Maybe(Contents))]
    /\ bucket \subseteq Keys /\ leaked \subseteq Keys
    /\ pc \in [SellerTabs -> {"idle", "counted", "checked", "put",
                            "open", "submitted", "read", "swapped"}]
    /\ form \in [SellerTabs -> Forms]
    /\ modPc \in [Moderators -> {"idle", "open"}]
    /\ modProduct \in [Moderators -> Maybe(Products)]
    /\ modSeen \in [Moderators -> Maybe(Maybe(ProductSlugs) \X Maybe(Contents))]

\* A listing always has an image, one that is in the bucket and that no other
\* listing has, although requests delete objects that they believe unused:
\* the loser of an edit its own upload, the winner the one it replaced.  And
\* bytes that no listing shows belong to a request that is still at work or
\* to one that ended without cleaning up.
ImagesAreStored ==
    /\ \A p \in listed :
          /\ image[p] \in bucket
          /\ \A q \in listed : image[q] = image[p] => q = p
    /\ bucket \ {image[p] : p \in listed}
          \subseteq leaked \union UNION {Held(r) : r \in SellerTabs}

\* The count that gates creation is not locked: the cap can be passed, by
\* at most the tabs that counted before the last listing under it came.
ListingsNearCap ==
    Cardinality(listed) <= Cap + Cardinality(SellerTabs) - 1

\* What a moderator published is what shoppers keep seeing: no save, late
\* rejection or image swap reaches a listing that is live.
LiveIsFrozen ==
    [][\A p \in Products :
          live[p] => /\ live'[p] /\ moderation'[p] = "APPROVED"
                     /\ slug'[p] = slug[p] /\ content'[p] = content[p]
                     /\ image'[p] = image[p]]_listVars

\* A rejection stands on what it fell on, however saves and verdicts cross:
\* the seller is shown a note and may edit, and until a save sends the listing
\* back to the moderators' queue neither a save, nor a second verdict, nor an
\* image swap changes the listing or the note under the verdict.  (The note
\* may be about an older text than the one it fell on: the page the moderator
\* wrote it from is not reloaded when a save comes.)
RejectionStands ==
    [][\A p \in Products : moderation[p] = "REJECTED" =>
          /\ ShowFeedback(p) /\ ShowEdit(p)
          /\ \/ /\ moderation'[p] = "REJECTED" /\ noted'[p] = noted[p]
                /\ slug'[p] = slug[p] /\ content'[p] = content[p]
                /\ image'[p] = image[p]
             \/ p \in ModerationQueue']_listVars
=============================================================================
