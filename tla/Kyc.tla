-------------------------------- MODULE Kyc --------------------------------
(***************************************************************************)
(* How a seller comes to be and is verified.  The wizard of /sell keeps    *)
(* its draft in a cookie that every tab of a browser shares; the last step *)
(* writes the seller with its first KYC application.  Reviewers decide     *)
(* applications, which moves the seller's tier and status, and admins      *)
(* upload an applicant's documents to object storage and then record them. *)
(*                                                                         *)
(* A request carries the cookie as it was when the browser sent it, and    *)
(* its answer replaces the whole cookie.                                   *)
(***************************************************************************)
EXTENDS Integers, FiniteSets

CONSTANTS
    Users,          \* users.id; an e-mail address stands for its user
    Slugs,
    Browsers, SignedIn,     \* SignedIn[b]: the user, or Missing for a guest
    Wizards, BrowserOf,     \* wizard requests and the browser that sends them
    Applications,
    Reviewers,      \* requests deciding an application
    Uploads,        \* requests uploading a document, each with its own key
    Missing         \* a value that is missing

ASSUME KycAssumption ==
    /\ SignedIn \in [Browsers -> Users \union {Missing}]
    /\ BrowserOf \in [Wizards -> Browsers]
    /\ Missing \notin Users \union Slugs \union Applications \union Reviewers

VARIABLES
    draft,          \* the cookie vdr_sell_onb of a browser
    wizPc, wizDraft,
    sellerSlug,     \* sellers.business_slug of a user's seller, if it has one
    kycTier, kycStatus,
    appOf, appTarget, appStatus,    \* kyc_applications
    appLock,        \* the transaction that holds an application's row
    revPc, revApp, revDecision, revTier, revStatus,
    upPc, upApp,
    objects,        \* keys in R2
    documents       \* keys that a kyc_documents row records

wizardVars == <<draft, wizPc, wizDraft>>
sellerVars == <<sellerSlug, kycTier, kycStatus>>
appVars == <<appOf, appTarget, appStatus>>
reviewVars == <<appLock, revPc, revApp, revDecision, revTier, revStatus>>
uploadVars == <<upPc, upApp, objects, documents>>
kycVars == <<wizardVars, sellerVars, appVars, reviewVars, uploadVars>>

Drafts == [slug : Slugs \union {Missing}, email : Users \union {Missing},
           city : BOOLEAN]
Blank == [slug |-> Missing, email |-> Missing, city |-> FALSE]

Reviewable == {"SUBMITTED"}
Decided == {"APPROVED", "DENIED"}
Decisions == {"APPROVE", "DENY"}

KycInit ==
    /\ draft = [b \in Browsers |-> Blank]
    /\ wizPc = [t \in Wizards |-> "idle"]
    /\ wizDraft = [t \in Wizards |-> Blank]
    /\ sellerSlug = [u \in Users |-> Missing]
    /\ kycTier = [u \in Users |-> 0]
    /\ kycStatus = [u \in Users |-> "NONE"]
    /\ appOf = [a \in Applications |-> Missing]
    /\ appTarget = [a \in Applications |-> 0]
    /\ appStatus = [a \in Applications |-> "NONE"]
    /\ appLock = [a \in Applications |-> Missing]
    /\ revPc = [r \in Reviewers |-> "idle"]
    /\ revApp = [r \in Reviewers |-> Missing]
    /\ revDecision = [r \in Reviewers |-> "DENY"]
    /\ revTier = [r \in Reviewers |-> 0]
    /\ revStatus = [r \in Reviewers |-> "NONE"]
    /\ upPc = [x \in Uploads |-> "new"]
    /\ upApp = [x \in Uploads |-> Missing]
    /\ objects = {}
    /\ documents = {}

-----------------------------------------------------------------------------
(* The wizard.                                                             *)

SlugTaken(s) == \E u \in Users : sellerSlug[u] = s

Jar(t) == draft[BrowserOf[t]]

WizardTo(t, pc, d) ==
    /\ wizPc' = [wizPc EXCEPT ![t] = pc]
    /\ wizDraft' = [wizDraft EXCEPT ![t] = d]

\* Name, slug and contact; the slug is free for now.
Step1(t, s, e) ==
    /\ wizPc[t] = "idle"
    /\ ~SlugTaken(s)
    /\ WizardTo(t, "answer", [Jar(t) EXCEPT !.slug = s, !.email = e])
    /\ UNCHANGED <<draft, sellerVars, appVars, reviewVars, uploadVars>>

Step2(t) ==
    /\ wizPc[t] = "idle"
    /\ WizardTo(t, "answer", [Jar(t) EXCEPT !.city = TRUE])
    /\ UNCHANGED <<draft, sellerVars, appVars, reviewVars, uploadVars>>

\* The answer sets the merged cookie.
WriteDraft(t) ==
    /\ wizPc[t] = "answer"
    /\ draft' = [draft EXCEPT ![BrowserOf[t]] = wizDraft[t]]
    /\ WizardTo(t, "idle", Blank)
    /\ UNCHANGED <<sellerVars, appVars, reviewVars, uploadVars>>

\* The signed-in user, or the one (perhaps new) with the business e-mail.
Owner(t, d) ==
    IF SignedIn[BrowserOf[t]] # Missing THEN SignedIn[BrowserOf[t]] ELSE d.email

\* A complete draft of somebody who has no seller account.
Step3Read(t) ==
    LET d == Jar(t) IN
    /\ wizPc[t] = "idle"
    /\ d.slug # Missing /\ d.email # Missing /\ d.city
    /\ sellerSlug[Owner(t, d)] = Missing
    /\ WizardTo(t, "commit", d)
    /\ UNCHANGED <<draft, sellerVars, appVars, reviewVars, uploadVars>>

Onboard(t, a) ==
    LET d == wizDraft[t]
        u == Owner(t, d) IN
    /\ wizPc[t] = "commit"
    /\ appOf[a] = Missing
    /\ sellerSlug' = [sellerSlug EXCEPT ![u] = d.slug]
    /\ kycTier' = [kycTier EXCEPT ![u] = 1]
    /\ kycStatus' = [kycStatus EXCEPT ![u] = "IN_REVIEW"]
    /\ appOf' = [appOf EXCEPT ![a] = u]
    /\ appTarget' = [appTarget EXCEPT ![a] = 1]
    /\ appStatus' = [appStatus EXCEPT ![a] = "SUBMITTED"]
    /\ WizardTo(t, "clear", Blank)
    /\ UNCHANGED <<draft, reviewVars, uploadVars>>

\* Mutated Step3Commit: the seller row is upserted, the application created.
Step3CommitUpsert(t, a) == Onboard(t, a)

\* Seller and application in one transaction, which a unique user_id or
\* business_slug that is taken rolls back (WizardDies).
Step3Commit(t, a) ==
    /\ wizPc[t] = "commit"
    /\ sellerSlug[Owner(t, wizDraft[t])] = Missing
    /\ ~SlugTaken(wizDraft[t].slug)
    /\ Onboard(t, a)

ClearDraft(t) ==
    /\ wizPc[t] = "clear"
    /\ draft' = [draft EXCEPT ![BrowserOf[t]] = Blank]
    /\ WizardTo(t, "idle", Blank)
    /\ UNCHANGED <<sellerVars, appVars, reviewVars, uploadVars>>

\* The request fails or its answer is lost.
WizardDies(t) ==
    /\ wizPc[t] # "idle"
    /\ WizardTo(t, "idle", Blank)
    /\ UNCHANGED <<draft, sellerVars, appVars, reviewVars, uploadVars>>

-----------------------------------------------------------------------------
(* reviewKycApplication.                                                   *)

\* The application is read before the transaction; its status is not looked
\* at, and the rest of it never changes.
ReviewRead(r, a, decision) ==
    /\ revPc[r] = "idle"
    /\ appOf[a] # Missing
    /\ revPc' = [revPc EXCEPT ![r] = "read"]
    /\ revApp' = [revApp EXCEPT ![r] = a]
    /\ revDecision' = [revDecision EXCEPT ![r] = decision]
    /\ UNCHANGED <<wizardVars, sellerVars, appVars, appLock, revTier,
                   revStatus, uploadVars>>

DecideAndReadSeller(r) ==
    LET a == revApp[r]
        u == appOf[a] IN
    /\ revPc[r] = "read"
    /\ appLock[a] = Missing
    /\ appLock' = [appLock EXCEPT ![a] = r]
    /\ revPc' = [revPc EXCEPT ![r] = "decided"]
    /\ revTier' = [revTier EXCEPT ![r] = kycTier[u]]
    /\ revStatus' = [revStatus EXCEPT ![r] = kycStatus[u]]
    /\ UNCHANGED <<wizardVars, sellerVars, appVars, revApp, revDecision,
                   uploadVars>>

\* Mutated ReviewDecide: the update is by id alone.
ReviewDecideAgain(r) == DecideAndReadSeller(r)

\* The guarded update of the application, which keeps its row locked, and
\* the read of the seller's row, which does not lock it.
ReviewDecide(r) ==
    /\ revPc[r] = "read"
    /\ appStatus[revApp[r]] \in Reviewable
    /\ DecideAndReadSeller(r)

ReviewIdle(r) ==
    /\ revPc' = [revPc EXCEPT ![r] = "idle"]
    /\ revApp' = [revApp EXCEPT ![r] = Missing]
    /\ revDecision' = [revDecision EXCEPT ![r] = "DENY"]
    /\ revTier' = [revTier EXCEPT ![r] = 0]
    /\ revStatus' = [revStatus EXCEPT ![r] = "NONE"]
    /\ UNCHANGED <<wizardVars, sellerSlug, appOf, appTarget, uploadVars>>

Higher(m, n) == IF m > n THEN m ELSE n

NewStatus(decision) == IF decision = "APPROVE" THEN "APPROVED" ELSE "DENIED"

\* An approval never lowers the tier that was read; a denial rejects a
\* seller that was not approved when it was read.
ReviewCommit(r) ==
    LET a == revApp[r]
        u == appOf[a] IN
    /\ revPc[r] = "decided"
    /\ appStatus' = [appStatus EXCEPT ![a] = NewStatus(revDecision[r])]
    /\ \/ /\ revDecision[r] = "APPROVE"
          /\ kycTier' = [kycTier EXCEPT ![u] = Higher(revTier[r], appTarget[a])]
          /\ kycStatus' = [kycStatus EXCEPT ![u] = "APPROVED"]
       \/ /\ revDecision[r] = "DENY"
          /\ kycStatus' = [kycStatus EXCEPT ![u] =
                              IF revStatus[r] = "APPROVED" THEN @ ELSE "REJECTED"]
          /\ UNCHANGED kycTier
    /\ appLock' = [appLock EXCEPT ![a] = Missing]
    /\ ReviewIdle(r)

\* The other reviewer was first, or the request dies and rolls back.
ReviewDies(r) ==
    /\ revPc[r] # "idle"
    /\ appLock' = [a \in Applications |->
                      IF appLock[a] = r THEN Missing ELSE appLock[a]]
    /\ ReviewIdle(r)
    /\ UNCHANGED <<appStatus, kycTier, kycStatus>>

-----------------------------------------------------------------------------
(* uploadKycDocument: check, store the bytes, record them.                 *)

UploadTo(x, pc) ==
    /\ upPc' = [upPc EXCEPT ![x] = pc]
    /\ UNCHANGED <<wizardVars, sellerVars, appVars, reviewVars>>

UploadCheck(x, a) ==
    /\ upPc[x] = "new" /\ appOf[a] # Missing
    /\ upApp' = [upApp EXCEPT ![x] = a]
    /\ UploadTo(x, "checked")
    /\ UNCHANGED <<objects, documents>>

UploadPut(x) ==
    /\ upPc[x] = "checked"
    /\ objects' = objects \union {x}
    /\ UploadTo(x, "put")
    /\ UNCHANGED <<upApp, documents>>

UploadRecord(x) ==
    /\ upPc[x] = "put"
    /\ documents' = documents \union {x}
    /\ UploadTo(x, "done")
    /\ UNCHANGED <<upApp, objects>>

\* Mutated UploadFails: the error is reported without the clean-up.
UploadFailsQuietly(x) ==
    /\ upPc[x] = "put"
    /\ UploadTo(x, "done")
    /\ UNCHANGED <<upApp, objects, documents>>

\* The transaction fails, and the orphaned object is deleted.
UploadFails(x) ==
    /\ upPc[x] = "put"
    /\ objects' = objects \ {x}
    /\ UploadTo(x, "done")
    /\ UNCHANGED <<upApp, documents>>

\* The process dies, or the clean-up fails too and that is swallowed.
UploadDies(x) ==
    /\ upPc[x] \in {"checked", "put"}
    /\ UploadTo(x, "dead")
    /\ UNCHANGED <<upApp, objects, documents>>

-----------------------------------------------------------------------------
WizardNext(t) ==
    \/ \E s \in Slugs, e \in Users : Step1(t, s, e)
    \/ Step2(t)
    \/ WriteDraft(t)
    \/ Step3Read(t)
    \/ \E a \in Applications : Step3Commit(t, a)
    \/ ClearDraft(t)
    \/ WizardDies(t)

ReviewNext(r) ==
    \/ \E a \in Applications, decision \in Decisions :
          ReviewRead(r, a, decision)
    \/ ReviewDecide(r)
    \/ ReviewCommit(r)
    \/ ReviewDies(r)

UploadNext(x) ==
    \/ \E a \in Applications : UploadCheck(x, a)
    \/ UploadPut(x)
    \/ UploadRecord(x)
    \/ UploadFails(x)
    \/ UploadDies(x)

KycNext ==
    \/ \E t \in Wizards : WizardNext(t)
    \/ \E r \in Reviewers : ReviewNext(r)
    \/ \E x \in Uploads : UploadNext(x)

KycSpec == KycInit /\ [][KycNext]_kycVars

-----------------------------------------------------------------------------
(* The pages of the reviewers.                                             *)

\* The pending view of the queue; each row links to its review page.
KycQueue ==
    {a \in Applications :
        appStatus[a] \in {"SUBMITTED", "IN_REVIEW", "NEEDS_MORE_INFO"}}

\* The review page shows what was decided, or the form that decides it.
ShowReviewForm(a) == appStatus[a] \notin {"APPROVED", "DENIED", "EXPIRED"}

\* The rows of the page's list of documents.
ShownDocuments(a) == {x \in documents : upApp[x] = a}

-----------------------------------------------------------------------------
(* Properties.                                                             *)

AppsOf(u) == {a \in Applications : appOf[a] = u}

\* Every row, cookie and request holds a value it can hold.
KycTypeOK ==
    /\ draft \in [Browsers -> Drafts]
    /\ wizPc \in [Wizards -> {"idle", "answer", "commit", "clear"}]
    /\ wizDraft \in [Wizards -> Drafts]
    /\ sellerSlug \in [Users -> Slugs \union {Missing}]
    /\ kycTier \in [Users -> Nat]
    /\ kycStatus \in [Users -> {"NONE", "IN_REVIEW", "APPROVED", "REJECTED"}]
    /\ appOf \in [Applications -> Users \union {Missing}]
    /\ appTarget \in [Applications -> Nat]
    /\ appStatus \in [Applications -> {"NONE", "SUBMITTED"} \union Decided]
    /\ appLock \in [Applications -> Reviewers \union {Missing}]
    /\ revPc \in [Reviewers -> {"idle", "read", "decided"}]
    /\ revApp \in [Reviewers -> Applications \union {Missing}]
    /\ revDecision \in [Reviewers -> Decisions]
    /\ revTier \in [Reviewers -> Nat]
    /\ revStatus \in [Reviewers ->
                        {"NONE", "IN_REVIEW", "APPROVED", "REJECTED"}]
    /\ upPc \in [Uploads -> {"new", "checked", "put", "done", "dead"}]
    /\ upApp \in [Uploads -> Applications \union {Missing}]
    /\ objects \subseteq Uploads /\ documents \subseteq Uploads

\* However often and from wherever the last step of the wizard is sent, a
\* seller has exactly the one application written with it, and nobody
\* without a seller has any; no two sellers share a slug.
SellerHasItsApplication ==
    /\ \A u \in Users :
          IF sellerSlug[u] = Missing
          THEN AppsOf(u) = {}
          ELSE \E a \in Applications : AppsOf(u) = {a}
    /\ \A u, v \in Users :
          sellerSlug[u] = sellerSlug[v] /\ sellerSlug[u] # Missing => u = v

\* What a decision makes of a seller.
StandingAfter(s) ==
    CASE s = "APPROVED" -> "APPROVED"
      [] s = "DENIED" -> "REJECTED"
      [] OTHER -> "IN_REVIEW"

\* A seller is what the decision on its application says, at the tier that
\* was asked for, and while it is IN_REVIEW the application stands in the
\* reviewers' queue and its page decides it.
Backed(u) ==
    \A a \in AppsOf(u) :
        /\ kycStatus[u] = StandingAfter(appStatus[a])
        /\ kycTier[u] = appTarget[a]
        /\ kycStatus[u] = "IN_REVIEW" => a \in KycQueue /\ ShowReviewForm(a)

\* The seller's row, which a review reads and writes without locking it,
\* never comes apart from the application that was decided, and nobody waits
\* unseen.  With DecidedForGood: an APPROVED seller stays so ("DENY only
\* rejects a seller that isn't already APPROVED"), and keeps its tier
\* ("APPROVE never DOWNgrades").
StandingIsBacked == \A u \in Users : Backed(u)

\* Two reviewers cannot both decide an application: a verdict stands.
DecidedForGood ==
    [][\A a \in Applications :
          appStatus[a] \in Decided => appStatus'[a] = appStatus[a]]_kycVars

\* Every document that a review page lists is in the bucket, and bytes that
\* no row records belong to a request that is still running or that died: a
\* failed transaction leaks no personal data.
DocumentsAreStored ==
    /\ \A a \in Applications : ShownDocuments(a) \subseteq objects
    /\ \A x \in objects \ documents : upPc[x] \in {"put", "dead"}
=============================================================================
