--------------------------- MODULE StorefrontProofs ---------------------------
(***************************************************************************)
(* Proofs about Accounts, DeliveryProof and Search: the users table keeps  *)
(* the orders of accounts and of guests apart, a recorded photo is         *)
(* genuine, a facet's number is what its box adds, and paging through the  *)
(* results shows each of them once.                                        *)
(***************************************************************************)
EXTENDS Accounts, DeliveryProof, Search, FiniteSetTheorems, SequenceTheorems,
        TLAPS

-----------------------------------------------------------------------------
(* Accounts.                                                               *)

VisitSteps == {"idle", "sync", "mirror", "resolve", "mint", "log", "done",
               "refused", "threw"}

VisitRecords == [step : VisitSteps, who : People \union {Guest},
                 page : {"search", "checkout"},
                 email : Emails \union {Idle.email}]

\* A request that mirrors an account has one; one that resolves an address
\* is a guest's, and what it resolves is an address.
VisitsOK ==
    /\ visit \in [Visits -> VisitRecords]
    /\ \A v \in Visits :
          /\ visit[v].step \in {"sync", "mirror"} => visit[v].who \in People
          /\ visit[v].step \in {"resolve", "mint", "log"} =>
                visit[v].who = Guest /\ visit[v].email \in Emails
          /\ visit[v].step = "log" => visit[v].page = "search"

AccountsInv == AccountsTypeOK /\ VisitsOK /\ OrdersStayApart

LEMMA AccountsInitInv == AccountsInit => AccountsInv
  BY DEF AccountsInit, AccountsInv, AccountsTypeOK, VisitsOK, OrdersStayApart,
         VisitRecords, VisitSteps, Idle

\* The step of a request moves on and the rest of it stays as it was.
LEMMA StepKeeps ==
    ASSUME AccountsInv, NEW v \in Visits, NEW s \in {"done", "refused", "threw"}, Step(v, s)
    PROVE  VisitsOK'
  BY DEF AccountsInv, VisitsOK, VisitRecords, VisitSteps, Step

LEMMA StepChecked ==
    ASSUME AccountsInv, NEW v \in Visits,
           \/ visit[v].step = "sync" /\ Step(v, "mirror")
           \/ visit[v].step = "resolve" /\ Step(v, "mint")
    PROVE  VisitsOK'
  BY DEF AccountsInv, VisitsOK, VisitRecords, VisitSteps, Step

\* Whoever the buyer's row belongs to is the one who made the request.
LEMMA ProceedApart ==
    ASSUME AccountsInv, NEW v \in Visits, NEW u, Proceed(v, u),
           users \subseteq users',
           \/ /\ u \in users' /\ u.clerk = visit[v].who
              /\ visit[v].who = Guest => u.email = visit[v].email
           \/ u = NoRow /\ visit[v].page = "search"
    PROVE  OrdersStayApart'
<1>1. CASE visit[v].page = "search"
  BY <1>1 DEF AccountsInv, OrdersStayApart, Proceed
<1>2. CASE visit[v].page # "search"
  BY <1>2 DEF AccountsInv, OrdersStayApart, Proceed
<1>3. QED BY <1>1, <1>2

LEMMA CreateKeeps ==
    ASSUME AccountsInv, NEW v \in Visits, NEW row, Create(v, row),
           row \in [clerk : People \union {Guest}, email : Emails],
           row.clerk = visit[v].who,
           visit[v].who = Guest => row.email = visit[v].email,
           primary' = primary
    PROVE  AccountsInv'
<1>1. CASE InWayOf(row) = {}
  <2>1. users' = users \union {row} /\ Proceed(v, row)
    BY <1>1 DEF Create
  <2>2. Step(v, "done")
    BY <2>1 DEF Proceed
  <2>3. VisitsOK'
    BY <2>2, StepKeeps
  <2>4. \A u \in users : u.email # row.email
                         /\ ~(u.clerk = row.clerk /\ u.clerk # Guest)
    BY <1>1 DEF InWayOf, ByEmail, ByClerk
  <2>5. AccountsTypeOK'
    BY <2>1, <2>3, <2>4 DEF AccountsInv, AccountsTypeOK, VisitsOK, VisitRecords, VisitSteps
  <2>6. OrdersStayApart'
    BY <2>1, ProceedApart
  <2>7. QED BY <2>3, <2>5, <2>6 DEF AccountsInv
<1>2. CASE InWayOf(row) # {}
  <2>1. Step(v, "threw") /\ UNCHANGED <<users, orders, logged>>
    BY <1>2 DEF Create
  <2>2. VisitsOK'
    BY <2>1, StepKeeps
  <2>3. QED
    BY <2>1, <2>2 DEF AccountsInv, AccountsTypeOK, OrdersStayApart, VisitsOK, VisitRecords, VisitSteps
<1>3. QED BY <1>1, <1>2

LEMMA AccountsStep == AccountsInv /\ [AccountsNext]_accountVars => AccountsInv'
<1> SUFFICES ASSUME AccountsInv, [AccountsNext]_accountVars
             PROVE  AccountsInv'
  OBVIOUS
<1> USE DEF AccountsInv
<1>0. \A v \in Visits : visit[v].step \in VisitSteps
  BY DEF VisitsOK, VisitRecords
<1>1. ASSUME NEW v \in Visits, NEW who \in People \union {Guest},
             NEW page \in {"search", "checkout"}, NEW e \in Emails, Arrive(v, who, page, e)
      PROVE  AccountsInv'
  <2>1. VisitsOK'
    BY <1>1, AccountsAssumption DEF Arrive, VisitsOK, VisitRecords, VisitSteps
  <2>2. AccountsTypeOK'
    BY <1>1, <2>1 DEF Arrive, AccountsTypeOK, VisitsOK, VisitRecords, VisitSteps
  <2>3. OrdersStayApart'
    BY <1>1 DEF Arrive, OrdersStayApart
  <2>4. QED BY <2>1, <2>2, <2>3
<1>2. ASSUME NEW v \in Visits, SyncClerkUser(v)
      PROVE  AccountsInv'
  <2>0. visit[v].who \in People /\ visit[v].who # Guest
    BY <1>2, AccountsAssumption DEF SyncClerkUser, VisitsOK
  <2>1. CASE \E u \in ByClerk(visit[v].who) : Proceed(v, u)
    <3>1. PICK u \in ByClerk(visit[v].who) : Proceed(v, u)
      BY <2>1
    <3>2. Step(v, "done") /\ users' = users /\ primary' = primary
      BY <1>2, <3>1 DEF SyncClerkUser, Proceed
    <3>3. VisitsOK'
      BY <3>2, StepKeeps
    <3>4. OrdersStayApart'
      <4>1. u \in users' /\ u.clerk = visit[v].who
        BY <3>1, <3>2 DEF ByClerk
      <4>2. QED BY <2>0, <3>1, <3>2, <4>1, ProceedApart
    <3>5. QED BY <3>2, <3>3, <3>4 DEF AccountsTypeOK, VisitsOK, VisitRecords, VisitSteps
  <2>2. CASE Step(v, "mirror") /\ UNCHANGED <<orders, logged>>
    <3>1. VisitsOK'
      BY <1>2, <2>2, StepChecked DEF SyncClerkUser
    <3>2. QED BY <1>2, <2>2, <3>1 DEF SyncClerkUser, AccountsTypeOK, OrdersStayApart, VisitsOK, VisitRecords, VisitSteps
  <2>3. QED BY <1>2, <2>1, <2>2 DEF SyncClerkUser
<1>3. ASSUME NEW v \in Visits, Mirror(v)
      PROVE  AccountsInv'
  <2>1. visit[v].who \in People /\ visit[v].who # Guest
    BY <1>3, AccountsAssumption DEF Mirror, VisitsOK
  <2>2. primary[visit[v].who] \in Emails
    BY <2>1 DEF AccountsTypeOK
  <2>3. QED BY <1>3, <2>1, <2>2, CreateKeeps DEF Mirror
<1>4. ASSUME NEW v \in Visits, ResolveGuestBuyer(v)
      PROVE  AccountsInv'
  <2>0. visit[v].who = Guest
    BY <1>4 DEF ResolveGuestBuyer, VisitsOK
  <2>1. CASE \E u \in ByEmail(visit[v].email) : u.clerk = Guest /\ Proceed(v, u)
    <3>1. PICK u \in ByEmail(visit[v].email) : u.clerk = Guest /\ Proceed(v, u)
      BY <2>1
    <3>2. Step(v, "done") /\ users' = users /\ primary' = primary
      BY <1>4, <3>1 DEF ResolveGuestBuyer, Proceed
    <3>3. VisitsOK'
      BY <3>2, StepKeeps
    <3>4. OrdersStayApart'
      <4>1. u \in users' /\ u.clerk = visit[v].who /\ u.email = visit[v].email
        BY <2>0, <3>1, <3>2 DEF ByEmail
      <4>2. QED BY <3>1, <3>2, <4>1, ProceedApart
    <3>5. QED BY <3>2, <3>3, <3>4 DEF AccountsTypeOK, VisitsOK, VisitRecords, VisitSteps
  <2>2. CASE Step(v, "refused") /\ UNCHANGED <<orders, logged>>
    <3>1. VisitsOK'
      BY <2>2, StepKeeps
    <3>2. QED BY <1>4, <2>2, <3>1 DEF ResolveGuestBuyer, AccountsTypeOK, OrdersStayApart, VisitsOK, VisitRecords, VisitSteps
  <2>3. CASE Step(v, "mint") /\ UNCHANGED <<orders, logged>>
    <3>1. VisitsOK'
      BY <1>4, <2>3, StepChecked DEF ResolveGuestBuyer
    <3>2. QED BY <1>4, <2>3, <3>1 DEF ResolveGuestBuyer, AccountsTypeOK, OrdersStayApart, VisitsOK, VisitRecords, VisitSteps
  <2>4. QED BY <1>4, <2>1, <2>2, <2>3 DEF ResolveGuestBuyer
<1>5. ASSUME NEW v \in Visits, Mint(v)
      PROVE  AccountsInv'
  <2>1. visit[v].who = Guest /\ visit[v].email \in Emails
    BY <1>5 DEF Mint, VisitsOK
  <2>2. QED BY <1>5, <2>1, CreateKeeps DEF Mint
<1>6. ASSUME NEW v \in Visits, LogGuest(v)
      PROVE  AccountsInv'
  <2>1. Step(v, "done") /\ users' = users /\ primary' = primary
    BY <1>6 DEF LogGuest, Proceed
  <2>2. VisitsOK'
    BY <2>1, StepKeeps
  <2>3. OrdersStayApart'
    <3>1. CASE Proceed(v, NoRow)
      <4>1. visit[v].page = "search"
        BY <1>6 DEF LogGuest, VisitsOK
      <4>2. QED BY <2>1, <3>1, <4>1, ProceedApart
    <3>2. CASE UNCHANGED <<orders, logged>>
      BY <2>1, <3>2 DEF OrdersStayApart
    <3>3. QED BY <1>6, <3>1, <3>2 DEF LogGuest
  <2>4. QED BY <2>1, <2>2, <2>3 DEF AccountsTypeOK, VisitsOK, VisitRecords, VisitSteps
<1>7. ASSUME NEW a \in People, NEW e \in Emails, ChangeEmail(a, e)
      PROVE  AccountsInv'
  BY <1>7 DEF ChangeEmail, AccountsTypeOK, VisitsOK, OrdersStayApart
<1>8. CASE UNCHANGED accountVars
  BY <1>8 DEF accountVars, AccountsTypeOK, VisitsOK, OrdersStayApart
<1>9. QED BY <1>1, <1>2, <1>3, <1>4, <1>5, <1>6, <1>7, <1>8 DEF AccountsNext

LEMMA AccountsInductive == AccountsSpec => []AccountsInv
  BY AccountsInitInv, AccountsStep, PTL DEF AccountsSpec

\* Rows of users are unique by address and by account, whatever requests of
\* syncClerkUser and resolveGuestBuyer race.
THEOREM AccountsTyped == AccountsSpec => []AccountsTypeOK
<1>1. AccountsInv => AccountsTypeOK
  BY DEF AccountsInv
<1>2. QED BY AccountsInductive, <1>1, PTL

\* An order of an account is on its row, and a guest's on the guest row of
\* the address that was typed.
THEOREM OrdersAlwaysApart == AccountsSpec => []OrdersStayApart
<1>1. AccountsInv => OrdersStayApart
  BY DEF AccountsInv
<1>2. QED BY AccountsInductive, <1>1, PTL

-----------------------------------------------------------------------------
(* DeliveryProof.                                                          *)

Submitting == {"idle", "upload", "record", "cleanup", "done"}

ProofTypeOK ==
    /\ clock \in Clock
    /\ delivery \in [status : {"EN_ROUTE", "ARRIVED", "COMPLETED"}, arrived : Clock,
                     photo : Submissions \union {NoKey}, taken : Clock]
    /\ submit \in [Submissions -> [step : Submitting, taken : Clock]]
    /\ bucket \subseteq Submissions /\ dropped \subseteq Submissions

\* A call that passed its checks was of this arrival and not from the
\* future; the bytes of a call that is about to record are there, and are
\* not yet the delivery's unless it recorded them.
CallsOK ==
    \A d \in Submissions :
        /\ submit[d].step \in {"upload", "record", "cleanup"} =>
              /\ delivery.status \in {"ARRIVED", "COMPLETED"}
              /\ submit[d].taken >= delivery.arrived - Skew
              /\ submit[d].taken <= clock + Skew
              /\ delivery.photo # d
        /\ submit[d].step = "record" => d \in bucket
        /\ submit[d].step = "idle" => d # delivery.photo

\* Stored bytes that are not the delivery's belong to a call on its way.
StoreOK ==
    \A d \in bucket : \/ delivery.photo = d
                      \/ d \in dropped
                      \/ submit[d].step \in {"record", "cleanup"}

ProofInv ==
    /\ ProofTypeOK /\ CallsOK /\ StoreOK
    /\ delivery.photo # NoKey =>
          /\ delivery.status = "COMPLETED"
          /\ delivery.photo \in bucket
          /\ delivery.taken >= delivery.arrived - Skew
          /\ delivery.taken <= clock + Skew

LEMMA ProofInitInv == ProofInit => ProofInv
  BY ProofAssumption DEF ProofInit, ProofInv, ProofTypeOK, CallsOK, StoreOK, Submitting, Clock

LEMMA ProofStep == ProofInv /\ [ProofNext]_proofVars => ProofInv'
<1> SUFFICES ASSUME ProofInv, [ProofNext]_proofVars
             PROVE  ProofInv'
  OBVIOUS
<1> USE ProofAssumption DEF ProofInv, ProofTypeOK, CallsOK, StoreOK, Submitting, Clock
<1>1. CASE ClockTicks
  BY <1>1 DEF ClockTicks
<1>2. CASE DriverArrives
  BY <1>2 DEF DriverArrives
<1>3. ASSUME NEW d \in Submissions, NEW taken \in Clock, Check(d, taken)
      PROVE  ProofInv'
  BY <1>3 DEF Check, AtStep, ValidateProofMetadata, SinceArrival
<1>4. ASSUME NEW d \in Submissions, Upload(d)
      PROVE  ProofInv'
  BY <1>4 DEF Upload, AtStep, To
<1>5. ASSUME NEW d \in Submissions, Record(d)
      PROVE  ProofInv'
  <2>1. CASE delivery.photo = NoKey /\ delivery.status = "ARRIVED"
    <3>1. /\ delivery' = [delivery EXCEPT !.photo = d, !.taken = submit[d].taken,
                                         !.status = "COMPLETED"]
          /\ submit' = [submit EXCEPT ![d].step = "done"]
          /\ submit[d].step = "record"
          /\ UNCHANGED <<clock, bucket, dropped>>
      BY <1>5, <2>1 DEF Record, AtStep, To
    <3>2. /\ delivery'.photo = d /\ delivery'.status = "COMPLETED"
          /\ delivery'.taken = submit[d].taken
          /\ delivery'.arrived = delivery.arrived
      BY <3>1
    <3>3. ProofTypeOK'
      BY <3>1
    <3>4. d \in bucket /\ submit'[d].step = "done"
      BY <3>1
    <3>5. \A c \in Submissions \ {d} : submit'[c] = submit[c]
      BY <3>1
    <3>6. CallsOK'
      BY <3>1, <3>2, <3>4, <3>5
    <3>7. StoreOK'
      BY <2>1, <3>1, <3>2, <3>5
    <3>8. delivery'.taken >= delivery'.arrived - Skew /\ delivery'.taken <= clock' + Skew
      BY <3>1, <3>2
    <3>9. QED BY <3>1, <3>2, <3>3, <3>4, <3>6, <3>7, <3>8
  <2>2. CASE ~(delivery.photo = NoKey /\ delivery.status = "ARRIVED")
    BY <1>5, <2>2 DEF Record, AtStep, To
  <2>3. QED BY <2>1, <2>2
<1>6. ASSUME NEW d \in Submissions, CleanUp(d)
      PROVE  ProofInv'
  BY <1>6 DEF CleanUp, AtStep, To
<1>7. ASSUME NEW d \in Submissions, CallDies(d)
      PROVE  ProofInv'
  BY <1>7 DEF CallDies, To
<1>8. CASE UNCHANGED proofVars
  BY <1>8 DEF proofVars
<1>9. QED BY <1>1, <1>2, <1>3, <1>4, <1>5, <1>6, <1>7, <1>8 DEF ProofNext

LEMMA ProofInductive == ProofSpec => []ProofInv
  BY ProofInitInv, ProofStep, PTL DEF ProofSpec

\* A photo that recordDeliveryProof recorded is stored and of this delivery,
\* and no other stays behind that no call is to blame for.
THEOREM ProofAlwaysGenuine == ProofSpec => []ProofIsGenuine
<1>1. ProofInv => ProofIsGenuine
  BY DEF ProofInv, ProofTypeOK, CallsOK, StoreOK, ProofIsGenuine, Submitting
<1>2. QED BY ProofInductive, <1>1, PTL

-----------------------------------------------------------------------------
(* Search: the results.                                                    *)

\* What a link or the header can lead to.
Urls == [path : {Everywhere} \union Categories, q : Queries \union {NoQuery},
         boxes : [Dims -> SUBSET (Conditions \union Authenticities \union Tiers)],
         rating : {0} \union Stars, sort : Sorts \union {"best"}, page : Nat \ {0}]

\* What ORDER BY puts first.
Ahead(u, p, r) == Before(OrderBy(u, p), OrderBy(u, r))

\* How many of a result are ahead of a product, and whether it ties with none.
Place(u, S, p) == Cardinality({r \in S : Ahead(u, r, p)})
Lone(u, S, p) == \A r \in S \ {p} : Ahead(u, p, r) \/ Ahead(u, r, p)

\* Nothing is ahead of itself: the sort keys are numbers.
LEMMA NeverAheadOfItself ==
    ASSUME NEW u \in Urls, NEW p \in Goods
    PROVE  ~Ahead(u, p, p)
<1> DEFINE s == OrderBy(u, p)
<1>1. /\ Created[p] \in Nat /\ Rating[p] \in Nat /\ PriceOf[p] \in Nat
      /\ Featured[p] \in Nat
      /\ u.q # NoQuery => Rank[u.q][p] \in Nat
  BY SearchAssumption DEF Urls
<1>2. \A i \in DOMAIN s : s[i] \in Int
  <2>1. CASE u.sort = "price-asc"
    BY <1>1, <2>1 DEF OrderBy
  <2>2. CASE u.sort = "price-desc"
    BY <1>1, <2>2 DEF OrderBy
  <2>3. CASE u.sort = "new"
    BY <1>1, <2>3 DEF OrderBy
  <2>4. CASE u.sort = "rating"
    BY <1>1, <2>4 DEF OrderBy
  <2>5. CASE /\ u.sort \notin {"price-asc", "price-desc", "new", "rating"}
             /\ u.q # NoQuery
    <3>1. s = <<-Rank[u.q][p], -Created[p]>>
      BY <2>5, Zenon DEF OrderBy
    <3>2. QED BY <1>1, <2>5, <3>1
  <2>6. CASE /\ u.sort \notin {"price-asc", "price-desc", "new", "rating"}
             /\ u.q = NoQuery
    <3>1. s = <<-Featured[p], -Rating[p], -Created[p]>>
      BY <2>6, Zenon DEF OrderBy
    <3>2. QED BY <1>1, <3>1
  <2>7. QED BY <2>1, <2>2, <2>3, <2>4, <2>5, <2>6
<1> HIDE DEF s
<1>3. ~Before(s, s)
  BY <1>2 DEF Before
<1>4. QED BY <1>3 DEF s, Ahead

-----------------------------------------------------------------------------
(* Search: the counts beside the boxes.                                    *)

\* Every link of a page leads to a URL.
LEMMA LinksAreUrls ==
    ASSUME NEW u \in Urls
    PROVE  /\ \A d \in Dims : \A o \in Options[d] : RowHref(u, d, o) \in Urls
           /\ \A r \in Stars : StarHref(u, r) \in Urls
           /\ ClearHref(u) \in Urls
           /\ \A s \in Sorts : [u EXCEPT !.sort = s, !.page = 1] \in Urls
           /\ [u EXCEPT !.page = @ + 1] \in Urls
           /\ u.page > 1 => [u EXCEPT !.page = @ - 1] \in Urls
<1> DEFINE All == Conditions \union Authenticities \union Tiers
<1>1. ASSUME NEW boxes \in [Dims -> SUBSET All], NEW r \in {0} \union Stars
      PROVE  BuildHref(u, boxes, r) \in Urls
  <2> DEFINE merged == [d \in Dims |-> IF boxes[d] # {} THEN boxes[d] ELSE u.boxes[d]]
             rating == IF r # 0 THEN r ELSE u.rating
  <2>1. merged \in [Dims -> SUBSET All] /\ rating \in {0} \union Stars
    BY DEF Urls
  <2>2. BuildHref(u, boxes, r) =
           [[[u EXCEPT !.boxes = merged] EXCEPT !.rating = rating] EXCEPT !.page = 1]
    BY DEF BuildHref
  <2> HIDE DEF merged, rating
  <2>3. [u EXCEPT !.boxes = merged] \in Urls
    BY <2>1 DEF Urls
  <2>4. \A v \in Urls : [v EXCEPT !.rating = rating] \in Urls
    BY <2>1 DEF Urls
  <2>5. \A v \in Urls : [v EXCEPT !.page = 1] \in Urls
    BY DEF Urls
  <2>6. QED BY <2>2, <2>3, <2>4, <2>5
<1>2. ASSUME NEW d \in Dims, NEW o \in Options[d]
      PROVE  RowHref(u, d, o) \in Urls
  <2>1. o \in All
    BY DEF Dims, Options
  <2>2. Toggled(u.boxes[d], o) \in SUBSET All
    BY <2>1 DEF Toggled, Urls
  <2>3. [Unpatched EXCEPT ![d] = Toggled(u.boxes[d], o)] \in [Dims -> SUBSET All]
    BY <2>2 DEF Unpatched
  <2>4. QED BY <1>1, <2>3 DEF RowHref
<1>3. ASSUME NEW r \in Stars PROVE StarHref(u, r) \in Urls
  BY <1>1 DEF StarHref, Unpatched
<1>4. ClearHref(u) \in Urls
  BY <1>1 DEF ClearHref, Unpatched
<1>5. ASSUME NEW s \in Sorts PROVE [u EXCEPT !.sort = s, !.page = 1] \in Urls
  <2>1. /\ [u EXCEPT !.sort = s] \in Urls
        /\ \A v \in Urls : [v EXCEPT !.page = 1] \in Urls
    BY DEF Urls
  <2>2. QED BY <2>1
<1>6. /\ [u EXCEPT !.page = @ + 1] \in Urls
      /\ u.page > 1 => [u EXCEPT !.page = @ - 1] \in Urls
  BY DEF Urls
<1>7. QED BY <1>2, <1>3, <1>4, <1>5, <1>6

LEMMA PlainIsUrl ==
    ASSUME NEW path \in {Everywhere} \union Categories, NEW q \in Queries \union {NoQuery}
    PROVE  Plain(path, q) \in Urls
  BY DEF Plain, Urls

\* The queries read the catalogue and nothing else.
LEMMA QueriesReadCatalogue ==
    ASSUME UNCHANGED <<live, tier>>, NEW u
    PROVE  /\ HitSet(u)' = HitSet(u)
           /\ \A d : FacetRows(u, d)' = FacetRows(u, d)
           /\ \A p, d : Of(p, d)' = Of(p, d)
<1>1. \A p, d : Of(p, d)' = Of(p, d)
  BY DEF Of
<1>2. \A d : BuildBaseWhere(u, d)' = BuildBaseWhere(u, d)
  BY <1>1 DEF BuildBaseWhere
<1>3. BuildRankedQuerySql(u)' = BuildRankedQuerySql(u) /\ TierRows(u)' = TierRows(u)
  BY DEF BuildRankedQuerySql, TierRows
<1>4. QED BY <1>1, <1>2, <1>3 DEF HitSet, FacetRows

\* The number beside the box of an option, by the present catalogue.
CountOf(u, d, o) == Cardinality({p \in FacetRows(u, d) : Of(p, d) = o})

LEMMA QueriesFindGoods ==
    ASSUME live \subseteq Goods, NEW u
    PROVE  /\ HitSet(u) \in SUBSET Goods
           /\ IsFiniteSet(HitSet(u)) /\ Cardinality(HitSet(u)) \in Nat
           /\ \A d : FacetRows(u, d) \in SUBSET Goods
<1>1. HitSet(u) \in SUBSET Goods /\ \A d : FacetRows(u, d) \in SUBSET Goods
  BY DEF HitSet, BuildBaseWhere, BuildRankedQuerySql, FacetRows, TierRows
<1>2. QED BY <1>1, SearchAssumption, FS_Subset, FS_CardinalityType

\* The hits of a URL by the present catalogue, how many they are, and the last
\* one that the pages up to u's show.
CountHits(u) == Cardinality(HitSet(u))
UpTo(u) == IF Skip(u.page + 1) < CountHits(u) THEN Skip(u.page + 1) ELSE CountHits(u)

\* Whatever order the database chose, a result has each hit once.
LEMMA ResultsList ==
    ASSUME live \subseteq Goods, NEW u, NEW hits \in Results(u)
    PROVE  /\ hits \in Seq(HitSet(u)) /\ Len(hits) = CountHits(u)
           /\ hits \in [1 .. CountHits(u) -> HitSet(u)]
           /\ \A i, j \in 1 .. CountHits(u) : hits[i] = hits[j] => i = j
           /\ \A p \in HitSet(u) : \E i \in 1 .. CountHits(u) : hits[i] = p
<1> DEFINE S == HitSet(u)
           n == CountHits(u)
<1>1. IsFiniteSet(S) /\ n \in Nat /\ n = Cardinality(S)
  BY QueriesFindGoods DEF CountHits
<1>2. hits \in [1 .. n -> S] /\ \A i, j \in 1 .. n : i < j => hits[i] # hits[j]
  BY DEF Results, CountHits
<1> HIDE DEF S, n
<1>3. \A i, j \in 1 .. n : hits[i] = hits[j] => i = j
  BY <1>1, <1>2
<1>4. hits \in Seq(S) /\ Len(hits) = n
  <2>1. hits \in Seq(S)
    BY <1>1, <1>2, SeqDef
  <2>2. Len(hits) \in Nat /\ DOMAIN hits = 1 .. Len(hits) /\ DOMAIN hits = 1 .. n
    BY <1>2, <2>1, LenProperties
  <2>3. QED BY <1>1, <2>1, <2>2
<1>5. \A p \in S : \E i \in 1 .. n : hits[i] = p
  <2>1. hits \in Injection(1 .. n, S)
    BY <1>2, <1>3 DEF Injection, IsInjective
  <2>2. IsFiniteSet(1 .. n) /\ Cardinality(1 .. n) = n
    BY <1>1, FS_Interval
  <2>3. hits \in Surjection(1 .. n, S)
    BY <1>1, <2>1, <2>2, FS_Injection
  <2>4. QED BY <2>3 DEF Surjection
<1>6. QED BY <1>2, <1>3, <1>4, <1>5 DEF S, n

\* What is on a page that was just rendered.
LEMMA Rendered ==
    ASSUME live \subseteq Goods, NEW u, NEW page \in Render(u)
    PROVE  /\ page.url = u
           /\ \E hits \in Results(u) : page.cards = PageOf(u, hits)
           /\ page.total = Cardinality(HitSet(u))
           /\ page.pages = TotalPages(Cardinality(HitSet(u)))
           /\ \A d \in Dims : \A o \in Options[d] :
                 page.counts[d][o] = CountOf(u, d, o)
<1>1. PICK hits \in Results(u) : page = Page(u, hits)
  BY DEF Render
<1>2. Len(hits) = Cardinality(HitSet(u))
  BY ResultsList DEF CountHits
<1>3. \A d \in Dims : \A o \in Options[d] : GetFacetCounts(u)[d][o] = CountOf(u, d, o)
  BY DEF GetFacetCounts, CountOf
<1>4. QED BY <1>1, <1>2, <1>3 DEF Page

-----------------------------------------------------------------------------

\* The page of the URL u tells the present numbers.
TellsPresent(u) ==
    still => /\ shown.total = Cardinality(HitSet(u))
             /\ \A d \in Dims : \A o \in Options[d] :
                   shown.counts[d][o] = CountOf(u, d, o)

\* The types that the counts and the pages rest on.
SearchTypeOK ==
    /\ live \subseteq Goods /\ tier \in [AllSellers -> Tiers]
    /\ shown.url \in Urls /\ shown.total \in Nat /\ still \in BOOLEAN

CountsOK == \A u \in Urls : shown.url = u => TellsPresent(u)

CountInv == SearchTypeOK /\ CountsOK

\* A step of the shopper renders a URL of the present catalogue.
LEMMA ShopperRenders ==
    ASSUME SearchTypeOK, ShopperNext
    PROVE  /\ UNCHANGED <<live, tier>>
           /\ shown'.url \in Urls /\ shown' \in Render(shown'.url)
           /\ still' \in BOOLEAN
<1> DEFINE Shows(v) == /\ UNCHANGED <<live, tier>> /\ v \in Urls
                       /\ shown' \in Render(v) /\ still' \in BOOLEAN
<1>1. shown.url \in Urls /\ live \subseteq Goods /\ still \in BOOLEAN
  BY DEF SearchTypeOK
<1>2. ASSUME NEW v \in Urls, Go(v) PROVE Shows(v)
  BY <1>2 DEF Go
<1>3. \E v \in Urls : Shows(v)
  <2> HIDE DEF Shows
  <2>1. ASSUME NEW q \in Queries, HeaderSearch(q) PROVE \E v \in Urls : Shows(v)
    BY <1>2, <2>1, PlainIsUrl DEF HeaderSearch
  <2>2. CASE Browse
    BY <1>2, <2>2, PlainIsUrl DEF Browse
  <2>3. ASSUME NEW c \in Categories, OpenCategory(c) PROVE \E v \in Urls : Shows(v)
    BY <1>2, <2>3, PlainIsUrl DEF OpenCategory
  <2>4. ASSUME NEW d \in Dims, NEW o \in Options[d], ClickRow(d, o)
        PROVE  \E v \in Urls : Shows(v)
    BY <1>1, <1>2, <2>4, LinksAreUrls DEF ClickRow, url
  <2>5. ASSUME NEW r \in Stars, ClickStars(r) PROVE \E v \in Urls : Shows(v)
    BY <1>1, <1>2, <2>5, LinksAreUrls DEF ClickStars, url
  <2>6. CASE ClearAll
    BY <1>1, <1>2, <2>6, LinksAreUrls DEF ClearAll, url
  <2>7. ASSUME NEW s \in Sorts, SortBy(s) PROVE \E v \in Urls : Shows(v)
    BY <1>1, <1>2, <2>7, LinksAreUrls DEF SortBy, url
  <2>8. CASE NextPage
    BY <1>1, <2>8, LinksAreUrls DEF NextPage, TurnTo, url, Shows
  <2>9. CASE Previous
    BY <1>1, <2>9, LinksAreUrls DEF Previous, TurnTo, url, Shows
  <2>10. QED
    BY <2>1, <2>2, <2>3, <2>4, <2>5, <2>6, <2>7, <2>8, <2>9 DEF ShopperNext
<1>4. QED BY <1>1, <1>3, Rendered

LEMMA ShopperCounts == ASSUME CountInv, ShopperNext PROVE CountInv'
<1> DEFINE v == shown'.url
<1>1. /\ UNCHANGED <<live, tier>> /\ v \in Urls /\ shown' \in Render(v)
      /\ still' \in BOOLEAN /\ live \subseteq Goods /\ SearchTypeOK
  BY ShopperRenders DEF CountInv, SearchTypeOK
<1>2. /\ shown'.total = Cardinality(HitSet(v)) /\ Cardinality(HitSet(v)) \in Nat
      /\ \A d \in Dims : \A o \in Options[d] : shown'.counts[d][o] = CountOf(v, d, o)
  BY <1>1, Rendered, QueriesFindGoods
<1>3. SearchTypeOK'
  BY <1>1, <1>2 DEF SearchTypeOK
<1>4. ASSUME NEW u \in Urls, shown'.url = u PROVE TellsPresent(u)'
  <2>1. HitSet(u)' = HitSet(u)
    BY <1>1, QueriesReadCatalogue
  <2>2. \A d, o : CountOf(u, d, o)' = CountOf(u, d, o)
    BY <1>1, QueriesReadCatalogue DEF CountOf
  <2>3. QED BY <1>2, <1>4, <2>1, <2>2 DEF TellsPresent
<1>5. QED BY <1>3, <1>4 DEF CountInv, CountsOK

LEMMA CountStep == CountInv /\ [SearchNext]_searchVars => CountInv'
<1> SUFFICES ASSUME CountInv, [SearchNext]_searchVars PROVE CountInv'
  OBVIOUS
<1>1. CASE ShopperNext
  BY <1>1, ShopperCounts
<1>2. CASE Publish \/ Promote
  BY <1>2 DEF Publish, Promote, CountInv, SearchTypeOK, CountsOK, TellsPresent
<1>3. CASE UNCHANGED searchVars
  <2>1. UNCHANGED <<live, tier, shown, still>>
    BY <1>3 DEF searchVars
  <2>2. ASSUME NEW u \in Urls, shown'.url = u PROVE TellsPresent(u)'
    <3>1. HitSet(u)' = HitSet(u) /\ \A d, o : CountOf(u, d, o)' = CountOf(u, d, o)
      BY <2>1, QueriesReadCatalogue DEF CountOf
    <3>2. QED BY <2>1, <2>2, <3>1 DEF CountInv, CountsOK, TellsPresent
  <2>3. QED BY <2>1, <2>2 DEF CountInv, CountsOK, SearchTypeOK
<1>4. QED BY <1>1, <1>2, <1>3 DEF SearchNext

LEMMA CountInit == SearchInit => CountInv
<1> SUFFICES ASSUME SearchInit PROVE CountInv
  OBVIOUS
<1> DEFINE v == Plain(Everywhere, NoQuery)
<1>1. live \subseteq Goods /\ v \in Urls /\ shown \in Render(v) /\ still = TRUE
      /\ tier \in [AllSellers -> Tiers]
  BY PlainIsUrl, SearchAssumption DEF SearchInit
<1>2. QED
  BY <1>1, Rendered, QueriesFindGoods
     DEF CountInv, SearchTypeOK, CountsOK, TellsPresent

LEMMA CountInductive == SearchSpec => []CountInv
  BY CountInit, CountStep, PTL DEF SearchSpec

\* Checking a box of a page without a query: the boxes of its group were
\* empty, and the link narrows the page to the option; or they were not, and
\* the link adds the option's rows, none of which is on the page.
LEMMA RowAdds ==
    ASSUME SearchTypeOK, NEW u \in Urls, u.q = NoQuery, NEW d \in Dims,
           NEW o \in Options[d] \ u.boxes[d]
    PROVE  Cardinality(HitSet(RowHref(u, d, o))) =
              CountOf(u, d, o)
                 + (IF u.boxes[d] = {} THEN 0 ELSE Cardinality(HitSet(u)))
<1> DEFINE v == RowHref(u, d, o)
           New == {p \in FacetRows(u, d) : Of(p, d) = o}
<1>1. /\ v.path = u.path /\ v.q = u.q /\ v.rating = u.rating
      /\ v.boxes[d] = u.boxes[d] \union {o}
      /\ \A e \in Dims \ {d} : v.boxes[e] = u.boxes[e]
  BY DEF RowHref, BuildHref, Toggled, Unpatched, Urls
<1>2. FacetRows(u, d) = BuildBaseWhere(u, d)
  BY DEF FacetRows, TierRows, BuildBaseWhere, Of, Dims
<1>3. HitSet(u) = BuildBaseWhere(u, "none") /\ HitSet(v) = BuildBaseWhere(v, "none")
  BY <1>1 DEF HitSet
<1>4. "none" \notin Dims
  BY DEF Dims
<1>5. \A w : BuildBaseWhere(w, "none") =
               {p \in BuildBaseWhere(w, d) : AnyOrIn(w.boxes[d], Of(p, d))}
  BY <1>4 DEF BuildBaseWhere
<1>6. BuildBaseWhere(v, d) = BuildBaseWhere(u, d)
  BY <1>1 DEF BuildBaseWhere
<1>7. CASE u.boxes[d] = {}
  <2>1. HitSet(v) = New
    BY <1>1, <1>2, <1>3, <1>5, <1>6, <1>7 DEF AnyOrIn
  <2>2. IsFiniteSet(New) /\ Cardinality(New) \in Nat
    BY <2>1, QueriesFindGoods DEF SearchTypeOK
  <2>3. QED BY <1>7, <2>1, <2>2 DEF CountOf
<1>8. CASE u.boxes[d] # {}
  <2>1. HitSet(v) = New \union HitSet(u) /\ New \intersect HitSet(u) = {}
    BY <1>1, <1>2, <1>3, <1>5, <1>6, <1>8 DEF AnyOrIn
  <2>2. /\ IsFiniteSet(HitSet(v)) /\ IsFiniteSet(HitSet(u))
        /\ Cardinality(HitSet(u)) \in Nat
    BY QueriesFindGoods DEF SearchTypeOK
  <2>3. IsFiniteSet(New) /\ Cardinality(New) \in Nat
    BY <2>1, <2>2, FS_Subset, FS_CardinalityType
  <2>4. Cardinality(HitSet(v)) = Cardinality(New) + Cardinality(HitSet(u))
    <3> HIDE DEF New, v
    <3>1. Cardinality(New \intersect HitSet(u)) = 0
      BY <2>1, FS_EmptySet
    <3>2. Cardinality(New \union HitSet(u)) =
             Cardinality(New) + Cardinality(HitSet(u)) - Cardinality(New \intersect HitSet(u))
      BY <2>2, <2>3, FS_Union
    <3>3. QED BY <2>1, <2>2, <2>3, <3>1, <3>2
  <2>5. QED BY <1>8, <2>4 DEF CountOf
<1>9. QED BY <1>7, <1>8

\* The number beside an unchecked box of getFacetCounts is what checking it
\* adds, for every catalogue and every combination of filters.
THEOREM CountsAreKept == SearchSpec => []CountsKeepTheirWord
<1>1. CountInv => CountsKeepTheirWord
  <2> SUFFICES ASSUME CountInv, url.q = NoQuery, still,
                      NEW d \in Dims, NEW o \in Options[d] \ url.boxes[d]
               PROVE  Cardinality(HitSet(RowHref(url, d, o))) =
                         shown.counts[d][o]
                            + (IF url.boxes[d] = {} THEN 0 ELSE shown.total)
    BY DEF CountsKeepTheirWord
  <2>1. /\ SearchTypeOK /\ url \in Urls
        /\ shown.total = Cardinality(HitSet(url))
        /\ shown.counts[d][o] = CountOf(url, d, o)
    BY DEF CountInv, SearchTypeOK, CountsOK, TellsPresent, url
  <2>2. QED BY <2>1, RowAdds
<1>2. QED BY CountInductive, <1>1, PTL

-----------------------------------------------------------------------------
(* Search: the pages.                                                      *)

\* Pages of PerPage: a few facts of arithmetic.
LEMMA Quotient ==
    ASSUME NEW a \in Nat, NEW b \in Nat \ {0}
    PROVE  /\ a \div b \in Nat
           /\ (a \div b) * b <= a
           /\ a < (a \div b) * b + b
  OBVIOUS

LEMMA Times ==
    ASSUME NEW i \in Nat, NEW j \in Nat
    PROVE  /\ i * PerPage \in Nat /\ (i + 1) * PerPage = i * PerPage + PerPage
           /\ i <= j => i * PerPage <= j * PerPage
<1>1. PerPage \in Nat \ {0}
  BY SearchAssumption
<1>2. i * PerPage \in Nat /\ (i + 1) * PerPage = i * PerPage + PerPage
  BY <1>1
<1>3. ASSUME i <= j PROVE i * PerPage <= j * PerPage
  <2>1. j - i \in Nat /\ (j - i) * PerPage \in Nat /\ j * PerPage = i * PerPage + (j - i) * PerPage
    BY <1>1, <1>3
  <2>2. QED BY <1>2, <2>1
<1>4. QED BY <1>2, <1>3

\* The last page is the one that holds the last hit.
LEMMA LastPage ==
    ASSUME NEW n \in Nat, NEW i \in Nat
    PROVE  /\ TotalPages(n) \in Nat
           /\ i < TotalPages(n) => i * PerPage < n
           /\ i = TotalPages(n) => n <= i * PerPage
<1>1. PerPage \in Nat \ {0} /\ n + PerPage - 1 \in Nat
  BY SearchAssumption
<1> DEFINE k == TotalPages(n)
<1>2. /\ k \in Nat /\ k * PerPage <= n + PerPage - 1
      /\ n + PerPage - 1 < k * PerPage + PerPage
  BY <1>1, Quotient DEF TotalPages
<1> HIDE DEF k
<1>3. ASSUME i < k PROVE i * PerPage < n
  <2>1. i + 1 \in Nat /\ i + 1 <= k
    BY <1>2, <1>3
  <2>2. (i + 1) * PerPage <= k * PerPage /\ (i + 1) * PerPage = i * PerPage + PerPage
        /\ i * PerPage \in Nat /\ k * PerPage \in Nat
    BY <1>2, <2>1, Times
  <2>3. QED BY <1>1, <1>2, <2>2
<1>4. ASSUME i = k PROVE n <= i * PerPage
  <2>1. k * PerPage \in Nat
    BY <1>2, Times
  <2>2. QED BY <1>1, <1>2, <1>4, <2>1
<1>5. QED BY <1>2, <1>3, <1>4 DEF k

\* s is a stretch of a result, from the a-th hit on, as far as ties let tell.
Stretch(u, S, s, a) ==
    /\ s \in Seq(S)
    /\ \A p \in S : Lone(u, S, p) =>
          \A i \in 1 .. Len(s) : s[i] = p <=> a + i = Place(u, S, p) + 1

\* Fewer than all hits are ahead of one of them.
LEMMA PlaceInRange ==
    ASSUME live \subseteq Goods, NEW u \in Urls, NEW p \in HitSet(u)
    PROVE  Place(u, HitSet(u), p) + 1 \in 1 .. CountHits(u)
<1> DEFINE S == HitSet(u)
           Pred == {r \in S : Ahead(u, r, p)}
<1>1. IsFiniteSet(S) /\ Cardinality(S) \in Nat /\ p \in Goods /\ p \in S
  BY QueriesFindGoods
<1>2. Pred \in SUBSET (S \ {p})
  BY <1>1, NeverAheadOfItself
<1> HIDE DEF S, Pred
<1>3. IsFiniteSet(S \ {p}) /\ Cardinality(S \ {p}) = Cardinality(S) - 1
  BY <1>1, FS_RemoveElement
<1>4. IsFiniteSet(Pred) /\ Cardinality(Pred) <= Cardinality(S) - 1
  BY <1>2, <1>3, FS_Subset
<1>5. Cardinality(Pred) \in Nat
  BY <1>4, FS_CardinalityType
<1>6. Cardinality(Pred) + 1 \in 1 .. Cardinality(S)
  BY <1>1, <1>4, <1>5
<1>7. QED BY <1>6 DEF S, Pred, Place, CountHits

\* In every answer of the database, a product that ties with none comes right
\* after those ahead of it.
LEMMA LoneKeepsPlace ==
    ASSUME live \subseteq Goods, NEW u \in Urls, NEW hits \in Results(u)
    PROVE  Stretch(u, HitSet(u), hits, 0)
<1> DEFINE S == HitSet(u)
           n == CountHits(u)
<1>1. /\ S \in SUBSET Goods /\ n \in Nat
      /\ hits \in [1 .. n -> S] /\ hits \in Seq(S) /\ Len(hits) = n
      /\ \A i, j \in 1 .. n : hits[i] = hits[j] => i = j
      /\ \A p \in S : \E i \in 1 .. n : hits[i] = p
  BY ResultsList, QueriesFindGoods DEF CountHits
<1>2. \A i, j \in 1 .. n : i < j => ~Ahead(u, hits[j], hits[i])
  BY DEF Results, Ahead, CountHits
<1> HIDE DEF S, n
<1>3. ASSUME NEW p \in S, Lone(u, S, p), NEW k \in 1 .. n, hits[k] = p
      PROVE  Place(u, S, p) = k - 1
  <2> DEFINE Pred == {r \in S : Ahead(u, r, p)}
             f == [j \in 1 .. k - 1 |-> hits[j]]
  <2>1. ASSUME NEW j \in 1 .. n
        PROVE  Ahead(u, hits[j], p) <=> j < k
    <3>1. CASE j < k
      <4>1. hits[j] \in S \ {p} /\ ~Ahead(u, p, hits[j])
        BY <1>1, <1>2, <1>3, <3>1
      <4>2. QED BY <1>3, <3>1, <4>1 DEF Lone
    <3>2. CASE j = k
      BY <1>1, <1>3, <3>2, NeverAheadOfItself
    <3>3. CASE k < j
      BY <1>2, <1>3, <3>3
    <3>4. QED BY <1>1, <3>1, <3>2, <3>3
  <2>2. k - 1 \in Nat /\ \A j \in 1 .. k - 1 : j \in 1 .. n /\ j < k
    BY <1>1
  <2>3. f \in Bijection(1 .. k - 1, Pred)
    <3>1. \A j \in 1 .. k - 1 : f[j] = hits[j] /\ f[j] \in Pred
      BY <1>1, <2>1, <2>2
    <3>2. \A i, j \in 1 .. k - 1 : f[i] = f[j] => i = j
      BY <1>1, <2>2, <3>1
    <3>3. ASSUME NEW r \in Pred PROVE \E j \in 1 .. k - 1 : f[j] = r
      <4>1. PICK j \in 1 .. n : hits[j] = r
        BY <1>1
      <4>2. j < k
        BY <2>1, <4>1
      <4>3. j \in 1 .. k - 1
        BY <1>1, <4>2
      <4>4. QED BY <3>1, <4>1, <4>3
    <3>4. f \in [1 .. k - 1 -> Pred]
      BY <3>1
    <3> HIDE DEF f, Pred
    <3>5. QED BY <3>2, <3>3, <3>4 DEF Bijection, Injection, Surjection, IsInjective
  <2>4. IsFiniteSet(1 .. k - 1) /\ Cardinality(1 .. k - 1) = k - 1
    BY <2>2, FS_Interval
  <2> HIDE DEF f, Pred
  <2>5. Cardinality(Pred) = k - 1
    BY <2>3, <2>4, FS_Bijection DEF ExistsBijection
  <2>6. QED BY <2>5 DEF Place, Pred
<1>4. ASSUME NEW p \in S, Lone(u, S, p)
      PROVE  \A i \in 1 .. n : hits[i] = p <=> 0 + i = Place(u, S, p) + 1
  <2>1. PICK k \in 1 .. n : hits[k] = p
    BY <1>1
  <2>2. Place(u, S, p) = k - 1
    BY <1>3, <1>4, <2>1
  <2>3. QED BY <1>1, <2>1, <2>2
<1>5. QED BY <1>1, <1>4 DEF S, n, Stretch

\* Another page of the same query has the same hits in the same places.
LEMMA SameHits ==
    ASSUME NEW u \in Urls, NEW v \in Urls,
           v.path = u.path, v.q = u.q, v.boxes = u.boxes, v.rating = u.rating,
           v.sort = u.sort
    PROVE  /\ HitSet(v) = HitSet(u)
           /\ \A S, s, a : Stretch(v, S, s, a) <=> Stretch(u, S, s, a)
<1>1. HitSet(v) = HitSet(u)
  BY DEF HitSet, BuildBaseWhere, BuildRankedQuerySql
<1>2. \A p : OrderBy(v, p) = OrderBy(u, p)
  BY DEF OrderBy
<1>3. \A p, r : Ahead(v, p, r) <=> Ahead(u, p, r)
  BY <1>2 DEF Ahead
<1>4. \A S, p : Place(v, S, p) = Place(u, S, p) /\ (Lone(v, S, p) <=> Lone(u, S, p))
  BY <1>3 DEF Place, Lone
<1>5. QED BY <1>1, <1>4 DEF Stretch

\* Two stretches that meet are one.
LEMMA StretchesMeet ==
    ASSUME NEW u, NEW S, NEW s, NEW t, Stretch(u, S, s, 0), Stretch(u, S, t, Len(s))
    PROVE  Stretch(u, S, s \o t, 0) /\ Len(s \o t) = Len(s) + Len(t)
<1>1. s \in Seq(S) /\ t \in Seq(S) /\ Len(s) \in Nat /\ Len(t) \in Nat
  BY LenProperties DEF Stretch
<1>2. /\ s \o t \in Seq(S) /\ Len(s \o t) = Len(s) + Len(t)
      /\ \A i \in 1 .. Len(s) + Len(t) :
            (s \o t)[i] = IF i <= Len(s) THEN s[i] ELSE t[i - Len(s)]
  BY <1>1, ConcatProperties
<1>3. ASSUME NEW p \in S, Lone(u, S, p), NEW i \in 1 .. Len(s \o t)
      PROVE  (s \o t)[i] = p <=> 0 + i = Place(u, S, p) + 1
  <2>1. CASE i <= Len(s)
    <3>1. i \in 1 .. Len(s) /\ (s \o t)[i] = s[i]
      BY <1>1, <1>2, <2>1
    <3>2. QED BY <1>3, <3>1 DEF Stretch
  <2>2. CASE i > Len(s)
    <3>1. /\ i - Len(s) \in 1 .. Len(t) /\ (s \o t)[i] = t[i - Len(s)]
          /\ Len(s) + (i - Len(s)) = 0 + i
      BY <1>1, <1>2, <2>2
    <3>2. t[i - Len(s)] = p <=> Len(s) + (i - Len(s)) = Place(u, S, p) + 1
      BY <1>3, <3>1 DEF Stretch
    <3>3. QED BY <3>1, <3>2
  <2>3. QED BY <1>1, <1>2, <2>1, <2>2
<1>4. QED BY <1>2, <1>3 DEF Stretch

\* A page within the hits shows some of them, up to where the next one starts.
LEMMA PageShows ==
    ASSUME live \subseteq Goods, NEW u \in Urls, NEW page \in Render(u)
    PROVE  /\ Skip(u.page) \in Nat /\ UpTo(u) \in 0 .. CountHits(u)
           /\ Skip(u.page) <= CountHits(u) =>
                 /\ Stretch(u, HitSet(u), page.cards, Skip(u.page))
                 /\ Len(page.cards) = UpTo(u) - Skip(u.page)
           /\ page.cards = << >> => CountHits(u) <= Skip(u.page)
           /\ CountHits(u) <= Skip(u.page + 1) => UpTo(u) = CountHits(u)
<1> DEFINE n == CountHits(u)
           m == Skip(u.page)
           S == HitSet(u)
           k == UpTo(u)
<1>1. PICK s \in Results(u) : page.cards = PageOf(u, s)
  BY Rendered
<1>2. n \in Nat /\ s \in Seq(S) /\ Len(s) = n /\ Stretch(u, S, s, 0)
  BY ResultsList, LoneKeepsPlace, QueriesFindGoods DEF CountHits
<1>3. u.page \in Nat \ {0} /\ PerPage \in Nat \ {0}
  BY SearchAssumption DEF Urls
<1>4. m \in Nat /\ Skip(u.page + 1) = m + PerPage
  <2>1. u.page - 1 \in Nat /\ (u.page - 1) + 1 = u.page /\ (u.page + 1) - 1 = u.page
    BY <1>3
  <2>2. QED BY <2>1, Times DEF Skip
<1> HIDE DEF m, n, S
<1>5. k = (IF m + PerPage < n THEN m + PerPage ELSE n)
  BY <1>4 DEF UpTo, n
<1> HIDE DEF k
<1>6. k \in 0 .. n /\ (m <= n => m <= k) /\ (m < n => m < k)
  BY <1>2, <1>3, <1>4, <1>5
<1>7. page.cards = SubSeq(s, m + 1, k)
  BY <1>1, <1>2, <1>4, <1>5 DEF PageOf, m
<1>8. ASSUME m <= n
      PROVE  /\ SubSeq(s, m + 1, k) \in Seq(S) /\ Len(SubSeq(s, m + 1, k)) = k - m
             /\ \A i \in 1 .. k - m : SubSeq(s, m + 1, k)[i] = s[m + i]
  <2>1. \A i \in m + 1 .. k : s[i] \in S
    BY <1>2, <1>4, <1>6, ElementOfSeq
  <2>2. m + 1 \in Int /\ k \in Int /\ m + 1 <= k + 1
    BY <1>4, <1>6, <1>8
  <2>3. /\ SubSeq(s, m + 1, k) \in Seq(S)
        /\ Len(SubSeq(s, m + 1, k)) = (IF m + 1 <= k THEN k - (m + 1) + 1 ELSE 0)
        /\ \A i \in 1 .. k - (m + 1) + 1 : SubSeq(s, m + 1, k)[i] = s[m + 1 + i - 1]
    BY <2>1, <2>2, SubSeqProperties
  <2>4. k - (m + 1) + 1 = k - m /\ (m + 1 <= k \/ k - m = 0)
    BY <1>4, <1>6, <1>8
  <2>5. \A i \in 1 .. k - m : m + 1 + i - 1 = m + i
    BY <1>4, <1>6
  <2>6. QED BY <2>3, <2>4, <2>5
<1>9. ASSUME m <= n
      PROVE  Stretch(u, S, page.cards, m) /\ Len(page.cards) = k - m
  <2>1. ASSUME NEW p \in S, Lone(u, S, p), NEW i \in 1 .. k - m
        PROVE  s[m + i] = p <=> m + i = Place(u, S, p) + 1
    <3>1. m + i \in 1 .. Len(s) /\ 0 + (m + i) = m + i
      BY <1>2, <1>4, <1>6
    <3>2. QED BY <1>2, <2>1, <3>1 DEF Stretch
  <2>2. /\ page.cards \in Seq(S) /\ Len(page.cards) = k - m
        /\ \A i \in 1 .. k - m : page.cards[i] = s[m + i]
    BY <1>7, <1>8, <1>9
  <2>3. ASSUME NEW p \in S, Lone(u, S, p), NEW i \in 1 .. Len(page.cards)
        PROVE  page.cards[i] = p <=> m + i = Place(u, S, p) + 1
    BY <2>1, <2>2, <2>3
  <2>4. QED BY <2>2, <2>3 DEF Stretch
<1>10. page.cards = << >> => n <= m
  <2>1. ASSUME m < n PROVE page.cards # << >>
    <3>1. Len(page.cards) = k - m /\ k - m # 0
      BY <1>2, <1>4, <1>6, <1>9, <2>1
    <3>2. Len(<< >>) = 0
      BY EmptySeq
    <3>3. QED BY <3>1, <3>2
  <2>2. QED BY <1>2, <1>4, <2>1
<1>11. n <= m + PerPage => k = n
  BY <1>2, <1>3, <1>4, <1>5
<1>12. QED BY <1>4, <1>6, <1>9, <1>10, <1>11 DEF m, n, S, k

-----------------------------------------------------------------------------

\* The pages followed with Next are as long as the hits up to where the page
\* on screen ends, and what ties with nothing is in its place.
TrailOK(u) == still => Stretch(u, HitSet(u), trail, 0) /\ Len(trail) = UpTo(u)

\* A page on screen is past the last hit only if it was when it was rendered;
\* and unless a tier is filtered for, what it counted is still there.
GapOK(u) ==
    /\ shown.pages = TotalPages(shown.total)
    /\ shown.cards = << >> => shown.total <= Skip(u.page)
    /\ u.boxes["tier"] = {} => /\ shown.total <= CountHits(u)
                               /\ shown.total # 0 => Skip(u.page) < shown.total

PagesOK == \A u \in Urls : shown.url = u => TrailOK(u) /\ GapOK(u)

PageInv == CountInv /\ PagesOK

\* What a shopper's step shows: a page of the present catalogue, which is past
\* the last hit only for a tier; and the trail of a still catalogue goes on.
Lands(v) ==
    /\ UNCHANGED <<live, tier>> /\ shown' \in Render(v)
    /\ v.boxes["tier"] = {} /\ CountHits(v) # 0 => Skip(v.page) < CountHits(v)
    /\ still' => Stretch(v, HitSet(v), trail', 0) /\ Len(trail') = UpTo(v)

LEMMA FirstPage ==
    ASSUME live \subseteq Goods, NEW v \in Urls, v.page = 1, NEW page \in Render(v)
    PROVE  /\ Skip(v.page) = 0
           /\ Stretch(v, HitSet(v), page.cards, 0) /\ Len(page.cards) = UpTo(v)
<1>1. Skip(v.page) = 0
  <2>1. 1 - 1 = 0 /\ 0 * PerPage = 0
    BY SearchAssumption
  <2>2. QED BY <2>1 DEF Skip
<1>2. CountHits(v) \in Nat
  BY QueriesFindGoods DEF CountHits
<1>3. /\ UpTo(v) \in 0 .. CountHits(v)
      /\ Stretch(v, HitSet(v), page.cards, 0) /\ Len(page.cards) = UpTo(v) - 0
  BY <1>1, <1>2, PageShows
<1>4. UpTo(v) - 0 = UpTo(v)
  BY <1>2, <1>3
<1>5. QED BY <1>1, <1>3, <1>4

LEMMA GoLands ==
    ASSUME live \subseteq Goods, NEW v \in Urls, v.page = 1, Go(v)
    PROVE  Lands(v)
<1>1. /\ UNCHANGED <<live, tier>> /\ shown' \in Render(v)
      /\ trail' = shown'.cards
  BY DEF Go
<1>2. CountHits(v) \in Nat
  BY QueriesFindGoods DEF CountHits
<1>3. CountHits(v) # 0 => 0 < CountHits(v)
  BY <1>2
<1>4. QED BY <1>1, <1>3, FirstPage DEF Lands

\* Every link but the pager's leads to a first page.
LEMMA LinksStartOver ==
    ASSUME NEW u \in Urls
    PROVE  /\ \A d \in Dims : \A o \in Options[d] : RowHref(u, d, o).page = 1
           /\ \A r \in Stars : StarHref(u, r).page = 1
           /\ ClearHref(u).page = 1
           /\ \A s \in Sorts : [u EXCEPT !.sort = s, !.page = 1].page = 1
           /\ \A path, q : Plain(path, q).page = 1
  BY DEF RowHref, StarHref, ClearHref, BuildHref, Plain, Urls

LEMMA NextLands ==
    ASSUME PageInv, NextPage
    PROVE  \E v \in Urls : Lands(v)
<1> DEFINE u == shown.url
           v == [u EXCEPT !.page = @ + 1]
           n == CountHits(u)
           k == u.page
<1>1. /\ SearchTypeOK /\ live \subseteq Goods /\ u \in Urls /\ v \in Urls
      /\ shown.total \in Nat /\ k \in Nat /\ k + 1 \in Nat
  BY LinksAreUrls DEF PageInv, CountInv, SearchTypeOK, Urls
<1>2. /\ v.path = u.path /\ v.q = u.q /\ v.boxes = u.boxes
      /\ v.rating = u.rating /\ v.sort = u.sort /\ v.page = k + 1
  BY <1>1 DEF Urls
<1>3. /\ k < shown.pages /\ shown' \in Render(v) /\ UNCHANGED <<live, tier, still>>
      /\ trail' = trail \o shown'.cards
  BY DEF NextPage, TurnTo, url
<1>4. TellsPresent(u) /\ TrailOK(u) /\ GapOK(u)
  BY <1>1 DEF PageInv, PagesOK, CountInv, CountsOK
<1>5. /\ HitSet(v) = HitSet(u) /\ CountHits(v) = n
      /\ \A S, s, a : Stretch(v, S, s, a) <=> Stretch(u, S, s, a)
  <2>1. /\ HitSet(v) = HitSet(u)
        /\ \A S, s, a : Stretch(v, S, s, a) <=> Stretch(u, S, s, a)
    <3> HIDE DEF v, u
    <3>1. QED BY <1>1, <1>2, SameHits
  <2>2. QED BY <2>1 DEF CountHits
<1> HIDE DEF u, v, n, k
<1>6. n \in Nat
  BY <1>1, QueriesFindGoods DEF n, CountHits
<1>7. Skip(k + 1) = k * PerPage /\ k * PerPage \in Nat /\ k * PerPage < shown.total
  <2>1. (k + 1) - 1 = k
    BY <1>1
  <2>2. Skip(k + 1) = k * PerPage /\ k * PerPage \in Nat
    BY <1>1, <2>1, Times DEF Skip
  <2>3. k < TotalPages(shown.total)
    BY <1>3, <1>4 DEF GapOK
  <2>4. QED BY <1>1, <2>2, <2>3, LastPage
<1>8. v.boxes["tier"] = {} /\ CountHits(v) # 0 => Skip(v.page) < CountHits(v)
  <2>1. v.boxes["tier"] = {} => shown.total <= n
    BY <1>2, <1>4 DEF GapOK, n
  <2>2. QED BY <1>1, <1>2, <1>5, <1>6, <1>7, <2>1
<1>9. ASSUME still'
      PROVE  Stretch(v, HitSet(v), trail', 0) /\ Len(trail') = UpTo(v)
  <2>1. /\ shown.total = n
        /\ Stretch(u, HitSet(u), trail, 0) /\ Len(trail) = UpTo(u)
    BY <1>3, <1>4, <1>9 DEF TellsPresent, TrailOK, n, CountHits
  <2>2. UpTo(u) = k * PerPage
    BY <1>7, <2>1 DEF UpTo, n, k
  <2>3. Skip(v.page) = UpTo(u) /\ Skip(v.page) <= CountHits(v)
    BY <1>2, <1>5, <1>6, <1>7, <2>1, <2>2
  <2>4. /\ UpTo(v) \in 0 .. n
        /\ Stretch(v, HitSet(v), shown'.cards, UpTo(u))
        /\ Len(shown'.cards) = UpTo(v) - UpTo(u)
    BY <1>1, <1>3, <1>5, <2>3, PageShows
  <2>5. /\ Stretch(u, HitSet(u), trail \o shown'.cards, 0)
        /\ Len(trail \o shown'.cards) = UpTo(u) + (UpTo(v) - UpTo(u))
    BY <1>5, <2>1, <2>4, StretchesMeet
  <2>6. UpTo(u) + (UpTo(v) - UpTo(u)) = UpTo(v)
    BY <1>6, <1>7, <2>2, <2>4
  <2>7. QED BY <1>3, <1>5, <2>5, <2>6
<1>10. QED BY <1>1, <1>3, <1>8, <1>9 DEF Lands

LEMMA PreviousLands ==
    ASSUME PageInv, Previous
    PROVE  \E v \in Urls : Lands(v)
<1> DEFINE u == shown.url
           v == [u EXCEPT !.page = @ - 1]
           k == u.page
<1>1. /\ SearchTypeOK /\ live \subseteq Goods /\ u \in Urls
      /\ shown.total \in Nat /\ k \in Nat \ {0}
  BY DEF PageInv, CountInv, SearchTypeOK, Urls
<1>2. /\ k > 1 /\ shown.pages > 1 /\ shown' \in Render(v) /\ UNCHANGED <<live, tier>>
      /\ ~still'
  BY DEF Previous, Paged, TurnTo, url
<1>3. v \in Urls
  BY <1>1, <1>2, LinksAreUrls
<1>4. /\ v.path = u.path /\ v.q = u.q /\ v.boxes = u.boxes
      /\ v.rating = u.rating /\ v.sort = u.sort /\ v.page = k - 1
  BY <1>1 DEF Urls
<1>5. GapOK(u)
  BY <1>1 DEF PageInv, PagesOK
<1>6. HitSet(v) = HitSet(u)
  <2> HIDE DEF v, u
  <2>1. QED BY <1>1, <1>3, <1>4, SameHits
<1> HIDE DEF u, v, k
<1>7. CountHits(v) = CountHits(u) /\ CountHits(u) \in Nat
  BY <1>1, <1>6, QueriesFindGoods DEF CountHits
<1>8. shown.total # 0
  <2>1. 0 < TotalPages(shown.total)
    BY <1>2, <1>5, <1>1, LastPage DEF GapOK
  <2>2. 0 * PerPage < shown.total
    BY <1>1, <2>1, LastPage
  <2>3. 0 * PerPage = 0
    BY SearchAssumption
  <2>4. QED BY <1>1, <2>2, <2>3
<1>9. Skip(k - 1) \in Nat /\ Skip(k) \in Nat /\ Skip(k - 1) <= Skip(k)
  <2>1. k - 1 \in Nat /\ (k - 1) - 1 \in Nat /\ (k - 1) - 1 <= k - 1
    BY <1>1, <1>2
  <2>2. QED BY <2>1, Times DEF Skip
<1>10. v.boxes["tier"] = {} => Skip(v.page) < CountHits(v)
  <2>1. v.boxes["tier"] = {} => shown.total <= CountHits(u) /\ Skip(k) < shown.total
    BY <1>4, <1>5, <1>8 DEF GapOK, k
  <2>2. QED BY <1>1, <1>4, <1>7, <1>9, <2>1
<1>11. QED BY <1>2, <1>3, <1>10 DEF Lands

LEMMA ShopperLands ==
    ASSUME PageInv, ShopperNext
    PROVE  \E v \in Urls : Lands(v)
<1>1. shown.url \in Urls /\ live \subseteq Goods
  BY DEF PageInv, CountInv, SearchTypeOK
<1>2. \A v \in Urls : v.page = 1 /\ Go(v) => Lands(v)
  BY <1>1, GoLands
<1>3. ASSUME NEW q \in Queries, HeaderSearch(q) PROVE \E v \in Urls : Lands(v)
  BY <1>2, <1>3, PlainIsUrl, LinksStartOver, <1>1 DEF HeaderSearch
<1>4. CASE Browse
  BY <1>1, <1>2, <1>4, PlainIsUrl, LinksStartOver DEF Browse
<1>5. ASSUME NEW c \in Categories, OpenCategory(c) PROVE \E v \in Urls : Lands(v)
  BY <1>1, <1>2, <1>5, PlainIsUrl, LinksStartOver DEF OpenCategory
<1>6. ASSUME NEW d \in Dims, NEW o \in Options[d], ClickRow(d, o)
      PROVE  \E v \in Urls : Lands(v)
  BY <1>1, <1>2, <1>6, LinksAreUrls, LinksStartOver DEF ClickRow, url
<1>7. ASSUME NEW r \in Stars, ClickStars(r) PROVE \E v \in Urls : Lands(v)
  BY <1>1, <1>2, <1>7, LinksAreUrls, LinksStartOver DEF ClickStars, url
<1>8. CASE ClearAll
  BY <1>1, <1>2, <1>8, LinksAreUrls, LinksStartOver DEF ClearAll, url
<1>9. ASSUME NEW s \in Sorts, SortBy(s) PROVE \E v \in Urls : Lands(v)
  BY <1>1, <1>2, <1>9, LinksAreUrls, LinksStartOver DEF SortBy, url
<1>10. CASE NextPage
  BY <1>10, NextLands
<1>11. CASE Previous
  BY <1>11, PreviousLands
<1>12. QED
  BY <1>3, <1>4, <1>5, <1>6, <1>7, <1>8, <1>9, <1>10, <1>11 DEF ShopperNext

LEMMA ShopperPages ==
    ASSUME PageInv, ShopperNext
    PROVE  PagesOK'
<1> SUFFICES ASSUME NEW u \in Urls, shown'.url = u
             PROVE  TrailOK(u)' /\ GapOK(u)'
  BY DEF PagesOK
<1>1. live \subseteq Goods /\ SearchTypeOK
  BY DEF PageInv, CountInv, SearchTypeOK
<1>2. PICK v \in Urls : Lands(v)
  BY ShopperLands
<1>3. v = u /\ shown' \in Render(u) /\ UNCHANGED <<live, tier>>
  BY <1>1, <1>2, Rendered DEF Lands
<1>4. /\ shown'.total = CountHits(u) /\ shown'.pages = TotalPages(CountHits(u))
      /\ CountHits(u) \in Nat
  BY <1>1, <1>3, Rendered, QueriesFindGoods DEF CountHits
<1>5. /\ shown'.cards = << >> => CountHits(u) <= Skip(u.page)
      /\ u.boxes["tier"] = {} /\ CountHits(u) # 0 => Skip(u.page) < CountHits(u)
      /\ still' => Stretch(u, HitSet(u), trail', 0) /\ Len(trail') = UpTo(u)
  BY <1>1, <1>2, <1>3, PageShows DEF Lands
<1>6. HitSet(u)' = HitSet(u)
  BY <1>3, QueriesReadCatalogue
<1>7. CountHits(u)' = CountHits(u) /\ UpTo(u)' = UpTo(u)
  BY <1>6 DEF CountHits, UpTo
<1>8. TrailOK(u)'
  BY <1>5, <1>6, <1>7 DEF TrailOK
<1>9. CountHits(u) <= CountHits(u)
  BY <1>4
<1>10. GapOK(u)'
  BY <1>4, <1>5, <1>7, <1>9 DEF GapOK
<1>11. QED BY <1>8, <1>10

\* A catalogue that only grows loses no hit, unless a tier is filtered for.
LEMMA HitsStay ==
    ASSUME live \subseteq live', live' \subseteq Goods, NEW u, u.boxes["tier"] = {}
    PROVE  CountHits(u) \in Nat /\ CountHits(u)' \in Nat /\ CountHits(u) <= CountHits(u)'
<1>1. \A p : /\ AnyOrIn(u.boxes["tier"], tier[SellerOf[p]])
             /\ AnyOrIn(u.boxes["tier"], tier'[SellerOf[p]])
  BY DEF AnyOrIn
<1>2. \A p, d : d # "tier" => Of(p, d)' = Of(p, d)
  BY DEF Of
<1>3. \A p : AnyOrIn(u.boxes["tier"], Of(p, "tier"))'
  BY DEF AnyOrIn
<1>4. BuildBaseWhere(u, "none") \subseteq BuildBaseWhere(u, "none")'
  BY <1>2, <1>3 DEF BuildBaseWhere, Dims
<1>5. BuildRankedQuerySql(u) \subseteq BuildRankedQuerySql(u)'
  BY <1>1 DEF BuildRankedQuerySql
<1>6. HitSet(u) \subseteq HitSet(u)' /\ HitSet(u)' \subseteq Goods
  BY <1>4, <1>5 DEF HitSet, BuildBaseWhere, BuildRankedQuerySql
<1>7. IsFiniteSet(HitSet(u)')
  BY <1>6, SearchAssumption, FS_Subset
<1>8. /\ Cardinality(HitSet(u)) \in Nat /\ Cardinality(HitSet(u)') \in Nat
      /\ Cardinality(HitSet(u)) <= Cardinality(HitSet(u)')
  BY <1>6, <1>7, FS_Subset, FS_CardinalityType
<1>9. QED BY <1>8 DEF CountHits

LEMMA CataloguePages ==
    ASSUME PageInv, SearchTypeOK', Publish \/ Promote
    PROVE  PagesOK'
<1> SUFFICES ASSUME NEW u \in Urls, shown'.url = u
             PROVE  TrailOK(u)' /\ GapOK(u)'
  BY DEF PagesOK
<1>1. /\ live \subseteq live' /\ live' \subseteq Goods
      /\ shown' = shown /\ ~still'
  BY DEF Publish, Promote, SearchTypeOK
<1>2. GapOK(u) /\ shown.total \in Nat
  BY <1>1 DEF PageInv, PagesOK, CountInv, SearchTypeOK
<1>3. u.boxes["tier"] = {} => shown.total <= CountHits(u)'
  BY <1>1, <1>2, HitsStay DEF GapOK
<1>4. QED BY <1>1, <1>2, <1>3 DEF TrailOK, GapOK

LEMMA PageStep ==
    ASSUME PageInv, [SearchNext]_searchVars
    PROVE  PageInv'
<1>1. CountInv'
  BY CountStep DEF PageInv
<1>2. CASE ShopperNext
  BY <1>1, <1>2, ShopperPages DEF PageInv
<1>3. CASE Publish \/ Promote
  BY <1>1, <1>3, CataloguePages DEF PageInv, CountInv
<1>4. CASE UNCHANGED searchVars
  <2>1. UNCHANGED <<live, tier, shown, trail, still>>
    BY <1>4 DEF searchVars
  <2>2. ASSUME NEW u \in Urls, shown'.url = u PROVE TrailOK(u)' /\ GapOK(u)'
    <3>1. HitSet(u)' = HitSet(u)
      BY <2>1, QueriesReadCatalogue
    <3>2. CountHits(u)' = CountHits(u) /\ UpTo(u)' = UpTo(u)
      BY <3>1 DEF CountHits, UpTo
    <3>3. TrailOK(u) /\ GapOK(u)
      BY <2>1, <2>2 DEF PageInv, PagesOK
    <3>4. QED BY <2>1, <3>1, <3>2, <3>3 DEF TrailOK, GapOK
  <2>3. QED BY <1>1, <2>2 DEF PageInv, PagesOK
<1>5. QED BY <1>2, <1>3, <1>4 DEF SearchNext

LEMMA PageInit == ASSUME SearchInit PROVE PageInv
<1> DEFINE v == Plain(Everywhere, NoQuery)
<1>1. CountInv
  BY CountInit
<1>2. /\ live \subseteq Goods /\ v \in Urls /\ v.page = 1 /\ shown \in Render(v)
      /\ trail = shown.cards
  BY PlainIsUrl, LinksStartOver DEF SearchInit
<1> HIDE DEF v
<1>3. /\ shown.url = v /\ shown.total = CountHits(v)
      /\ shown.pages = TotalPages(CountHits(v)) /\ CountHits(v) \in Nat
  BY <1>2, Rendered, QueriesFindGoods DEF CountHits
<1>4. /\ Skip(v.page) = 0
      /\ Stretch(v, HitSet(v), trail, 0) /\ Len(trail) = UpTo(v)
  BY <1>2, FirstPage
<1>5. shown.cards = << >> => CountHits(v) <= Skip(v.page)
  BY <1>2, PageShows
<1>6. CountHits(v) <= CountHits(v) /\ (CountHits(v) # 0 => 0 < CountHits(v))
  BY <1>3
<1>7. TrailOK(v) /\ GapOK(v)
  BY <1>3, <1>4, <1>5, <1>6 DEF TrailOK, GapOK
<1>8. QED BY <1>1, <1>3, <1>7 DEF PageInv, PagesOK

\* The two spellings of the filters ask for what the URL does.
LEMMA HitsAreWanted ==
    ASSUME live \subseteq Goods, NEW u \in Urls
    PROVE  HitSet(u) = {p \in live : Wanted(u, p)}
<1> SUFFICES ASSUME NEW p \in live
             PROVE  p \in HitSet(u) <=> Wanted(u, p)
  BY DEF HitSet, BuildBaseWhere, BuildRankedQuerySql
<1>1. Rating[p] \in Nat /\ u.rating \in Nat
  BY SearchAssumption DEF Urls, Stars
<1>2. Rating[p] >= u.rating <=> (u.rating > 0 => Rating[p] >= u.rating)
  BY <1>1
<1>3. u.path \in {Everywhere, CategoryOf[p]} <=> u.path = Everywhere \/ CategoryOf[p] = u.path
  OBVIOUS
<1>4. \A d : AnyOrIn(u.boxes[d], Of(p, d)) <=> (u.boxes[d] # {} => Of(p, d) \in u.boxes[d])
  BY DEF AnyOrIn
<1>5. CASE u.q = NoQuery
  <2>1. Dims \ {"none"} = Dims
    BY DEF Dims
  <2>2. p \in HitSet(u) <=> /\ u.path \in {Everywhere, CategoryOf[p]}
                            /\ \A d \in Dims : AnyOrIn(u.boxes[d], Of(p, d))
                            /\ u.rating > 0 => Rating[p] >= u.rating
    BY <1>5, <2>1 DEF HitSet, BuildBaseWhere
  <2>3. QED BY <1>2, <1>3, <1>4, <1>5, <2>2, Zenon DEF Wanted
<1>6. CASE u.q # NoQuery
  <2>1. (\A d \in Dims : AnyOrIn(u.boxes[d], Of(p, d))) <=>
           /\ AnyOrIn(u.boxes["cond"], Box[p]["cond"])
           /\ AnyOrIn(u.boxes["tier"], tier[SellerOf[p]])
           /\ AnyOrIn(u.boxes["auth"], Box[p]["auth"])
    BY DEF Dims, Of
  <2>2. p \in HitSet(u) <=> /\ Rank[u.q][p] > 0
                            /\ u.path \in {Everywhere, CategoryOf[p]}
                            /\ \A d \in Dims : AnyOrIn(u.boxes[d], Of(p, d))
                            /\ u.rating > 0 => Rating[p] >= u.rating
    BY <1>6, <2>1 DEF HitSet, BuildRankedQuerySql
  <2>3. QED BY <1>2, <1>3, <1>4, <1>6, <2>2, Zenon DEF Wanted
<1>7. QED BY <1>5, <1>6

\* Offset paging by search.ts: while nothing is published, pages 1 to the last
\* show as many products as the URL asks for, only such, and each that ties
\* with no other once; and no link leads to a page past the last one, unless a
\* seller left the tier filtered for.
THEOREM EveryHitIsShownOnce == SearchSpec => []EveryHitOnce
<1>1. ASSUME PageInv PROVE EveryHitOnce
  <2> DEFINE n == CountHits(url)
             S == HitSet(url)
  <2>1. /\ live \subseteq Goods /\ url \in Urls /\ url.page \in Nat
        /\ shown.total \in Nat /\ TellsPresent(url) /\ TrailOK(url) /\ GapOK(url)
        /\ shown.url = url
    BY <1>1 DEF PageInv, PagesOK, CountInv, CountsOK, SearchTypeOK, url, Urls
  <2>2. S = Matches(url) /\ n \in Nat /\ n = Cardinality(S)
    BY <2>1, HitsAreWanted, QueriesFindGoods DEF CountHits, Matches
  <2> HIDE DEF n, S
  <2>3. ASSUME still, url.page = shown.pages
        PROVE  Stretch(url, S, trail, 0) /\ Len(trail) = n /\ DOMAIN trail = 1 .. n
    <3>1. url.page = TotalPages(n)
      BY <2>1, <2>3 DEF GapOK, TellsPresent, n, CountHits
    <3>2. n <= url.page * PerPage
      BY <2>1, <2>2, <3>1, LastPage
    <3>3. (url.page + 1) - 1 = url.page
      BY <2>1
    <3>4. n <= Skip(url.page + 1)
      BY <3>2, <3>3 DEF Skip
    <3>5. Skip(url.page + 1) \in Nat
      BY <2>1, <3>3, Times DEF Skip
    <3>6. UpTo(url) = n
      BY <2>2, <3>4, <3>5 DEF UpTo, n
    <3>7. Stretch(url, S, trail, 0) /\ Len(trail) = n
      BY <2>1, <2>3, <3>6 DEF TrailOK, S
    <3>8. QED BY <3>7, LenProperties DEF Stretch
  <2>4. ASSUME NEW p \in S, Alone(url, p)
        PROVE  Lone(url, S, p) /\ Place(url, S, p) + 1 \in 1 .. n
    <3>1. Lone(url, S, p)
      BY <2>2, <2>4 DEF Alone, Lone, Ahead
    <3>2. QED BY <2>1, <2>4, <3>1, PlaceInRange DEF S, n
  <2>5. ASSUME still, url.page = shown.pages
        PROVE  /\ Len(trail) = Cardinality(Matches(url))
               /\ \A i \in DOMAIN trail : trail[i] \in Matches(url)
               /\ \A p \in Matches(url) :
                     Alone(url, p) => \E i \in DOMAIN trail :
                                        \A j \in DOMAIN trail : trail[j] = p <=> j = i
    <3>1. \A i \in DOMAIN trail : trail[i] \in S
      BY <2>3, <2>5, ElementOfSeq DEF Stretch
    <3>2. ASSUME NEW p \in S, Alone(url, p)
          PROVE  \E i \in DOMAIN trail : \A j \in DOMAIN trail : trail[j] = p <=> j = i
      <4> DEFINE i == Place(url, S, p) + 1
      <4>1. i \in DOMAIN trail
        BY <2>3, <2>4, <2>5, <3>2
      <4>2. ASSUME NEW j \in DOMAIN trail PROVE trail[j] = p <=> j = i
        <5>1. j \in 1 .. Len(trail) /\ 0 + j = j
          BY <2>3, <2>5, <2>2
        <5>2. QED BY <2>3, <2>4, <2>5, <3>2, <5>1 DEF Stretch
      <4>3. QED BY <4>1, <4>2
    <3>3. QED BY <2>2, <2>3, <2>5, <3>1, <3>2
  <2>6. ASSUME shown.cards = << >>, url.boxes["tier"] = {} PROVE shown.total = 0
    <3>1. shown.total <= Skip(url.page) /\ (shown.total # 0 => Skip(url.page) < shown.total)
      BY <2>1, <2>6 DEF GapOK
    <3>2. Skip(url.page) \in Nat
      BY <2>1, Times DEF Skip, Urls
    <3>3. QED BY <2>1, <3>1, <3>2
  <2>7. QED BY <2>5, <2>6 DEF EveryHitOnce
<1>2. QED BY <1>1, PageInit, PageStep, PTL DEF SearchSpec
=============================================================================
