------------------------------- MODULE Search -------------------------------
(***************************************************************************)
(* Searching and browsing (lib/search.ts, app/search/page.tsx,             *)
(* app/c/[slug]/page.tsx, ProtoFilterSidebar, ProtoSortDropdown): a        *)
(* shopper's page is a function of its URL and of the live catalogue, and  *)
(* every control on it is a link to another URL. The catalogue changes     *)
(* under the page: listings go live, sellers rise a tier. One rendering    *)
(* is one step; a page that is on screen keeps what it showed.             *)
(***************************************************************************)
EXTENDS Integers, Sequences, FiniteSets

CONSTANTS Goods, SellerOf, CategoryOf,  \* what a product is
          Box,              \* [Goods -> [cond, auth : option]]
          Rating, PriceOf, Featured, Created,   \* [Goods -> Nat]; rating 0: none yet
          Queries, NoQuery, \* what is typed in the header
          Rank,             \* ts_rank: [Queries -> [Goods -> 0 .. 2]]; 0: no match
          AllSellers, Tiers, Conditions, Authenticities, Sorts,
          Everywhere,       \* the path /search; any other path is a category
          PerPage           \* DEFAULT_PER_PAGE

ASSUME SearchAssumption ==
  /\ IsFiniteSet(Goods)
  /\ SellerOf \in [Goods -> AllSellers]
  /\ Box \in [Goods -> [cond : Conditions, auth : Authenticities]]
  /\ Rating \in [Goods -> Nat] /\ PriceOf \in [Goods -> Nat]
  /\ Featured \in [Goods -> Nat] /\ Created \in [Goods -> Nat]
  /\ Rank \in [Queries -> [Goods -> 0 .. 2]] /\ NoQuery \notin Queries
  /\ Tiers \subseteq Nat /\ 1 \in Tiers
  /\ PerPage \in Nat \ {0}

Categories == {CategoryOf[p] : p \in Goods}
Dims == {"cond", "auth", "tier"}
Options == [cond |-> Conditions, auth |-> Authenticities, tier |-> Tiers]
Stars == {3, 4}

VARIABLES live,     \* products PUBLISHED, APPROVED and not deleted
          tier,     \* sellers.kyc_tier
          shown,    \* the page on screen
          trail,    \* history: what pages 1, 2, ... showed, followed by Next
          still     \* history: the catalogue has not changed since page 1

searchVars == <<live, tier, shown, trail, still>>

-----------------------------------------------------------------------------
(* A URL, its filters and the links that change them.                      *)

Plain(path, q) == [path |-> path, q |-> q, boxes |-> [d \in Dims |-> {}],
                   rating |-> 0, sort |-> "best", page |-> 1]

(* toggleCsv: the empty list is encoded as undefined (here {}).            *)
Toggled(boxes, o) == IF o \in boxes THEN boxes \ {o} ELSE boxes \cup {o}

(* buildHref: a patch that is undefined falls back to the present state,   *)
(* and the page is dropped.                                                *)
BuildHref(u, boxes, rating) ==
  [u EXCEPT !.boxes = [d \in Dims |-> IF boxes[d] # {} THEN boxes[d] ELSE u.boxes[d]],
            !.rating = IF rating # 0 THEN rating ELSE u.rating,
            !.page = 1]
Unpatched == [d \in Dims |-> {}]
RowHref(u, d, o) == BuildHref(u, [Unpatched EXCEPT ![d] = Toggled(u.boxes[d], o)], 0)
StarHref(u, r) == BuildHref(u, Unpatched, IF u.rating = r THEN 0 ELSE r)
ClearHref(u) == BuildHref(u, Unpatched, 0)
AnyFilterActive(u) == u.rating > 0 \/ \E d \in Dims : u.boxes[d] # {}

-----------------------------------------------------------------------------
(* The queries: the browse path's where clause, the ranked SQL and the     *)
(* facet counts each spell the filters out on their own.                   *)

Of(p, d) == IF d = "tier" THEN tier[SellerOf[p]] ELSE Box[p][d]
AnyOrIn(boxes, v) == boxes = {} \/ v \in boxes

BuildBaseWhere(u, omit) ==
  {p \in live : /\ u.path \in {Everywhere, CategoryOf[p]}
                /\ \A d \in Dims \ {omit} : AnyOrIn(u.boxes[d], Of(p, d))
                /\ u.rating > 0 => Rating[p] >= u.rating}

BuildRankedQuerySql(u) ==
  {p \in live : /\ Rank[u.q][p] > 0
                /\ u.path \in {Everywhere, CategoryOf[p]}
                /\ AnyOrIn(u.boxes["cond"], Box[p]["cond"])
                /\ AnyOrIn(u.boxes["tier"], tier[SellerOf[p]])
                /\ AnyOrIn(u.boxes["auth"], Box[p]["auth"])
                /\ u.rating > 0 => Rating[p] >= u.rating}

(* Sort keys, smallest first; the last one of every sort is created_at.     *)
OrderBy(u, p) ==
  CASE u.sort = "price-asc"  -> <<PriceOf[p], -Created[p]>>
    [] u.sort = "price-desc" -> <<-PriceOf[p], -Created[p]>>
    [] u.sort = "new"        -> <<-Created[p]>>
    [] u.sort = "rating"     -> <<-Rating[p], -Created[p]>>
    [] OTHER -> IF u.q # NoQuery THEN <<-Rank[u.q][p], -Created[p]>>
                ELSE <<-Featured[p], -Rating[p], -Created[p]>>
Before(s, t) == \E i \in DOMAIN s : /\ s[i] < t[i]
                                    /\ \A j \in 1 .. i - 1 : s[j] = t[j]

HitSet(u) == IF u.q = NoQuery THEN BuildBaseWhere(u, "none") ELSE BuildRankedQuerySql(u)

(* What the database may answer: the hits by their keys, those with equal  *)
(* keys in any order, and in another one the next time it is asked.        *)
Results(u) ==
  LET S == HitSet(u)
      n == Cardinality(S)
  IN {hits \in [1 .. n -> S] :
        \A i, j \in 1 .. n :
           i < j => /\ hits[i] # hits[j]
                    /\ ~Before(OrderBy(u, hits[j]), OrderBy(u, hits[i]))}

(* Mutated Skip: pages are counted from 0. *)
SkipWhole(page) == page * PerPage

Skip(page) == (page - 1) * PerPage
PageOf(u, hits) == SubSeq(hits, Skip(u.page) + 1,
                          IF Skip(u.page + 1) < Len(hits) THEN Skip(u.page + 1) ELSE Len(hits))
TotalPages(n) == (n + PerPage - 1) \div PerPage

(* getFacetCounts: two groupBys and, for the tier, a raw join. None reads q. *)

(* Mutated TierRows: the join forgets the rating filter. *)
TierRowsAnyRating(u) == {p \in live : /\ u.path \in {Everywhere, CategoryOf[p]}
                                      /\ AnyOrIn(u.boxes["cond"], Box[p]["cond"])
                                      /\ AnyOrIn(u.boxes["auth"], Box[p]["auth"])}

TierRows(u) == {p \in live : /\ u.path \in {Everywhere, CategoryOf[p]}
                             /\ AnyOrIn(u.boxes["cond"], Box[p]["cond"])
                             /\ AnyOrIn(u.boxes["auth"], Box[p]["auth"])
                             /\ u.rating > 0 => Rating[p] >= u.rating}
FacetRows(u, d) == IF d = "tier" THEN TierRows(u) ELSE BuildBaseWhere(u, d)
GetFacetCounts(u) ==
  [d \in Dims |-> [o \in Options[d] |-> Cardinality({p \in FacetRows(u, d) : Of(p, d) = o})]]

(* SearchPage and CategoryPage.                                            *)
Page(u, hits) == [url |-> u, cards |-> PageOf(u, hits), total |-> Len(hits),
                  pages |-> TotalPages(Len(hits)), counts |-> GetFacetCounts(u)]
Render(u) == {Page(u, hits) : hits \in Results(u)}

-----------------------------------------------------------------------------
(* The shopper.                                                            *)

url == shown.url
Go(u) == /\ shown' \in Render(u)
         /\ trail' = shown'.cards /\ still' = TRUE
         /\ UNCHANGED <<live, tier>>

RowVisible(d, o) == shown.counts[d][o] > 0 \/ o \in url.boxes[d]
HeaderSearch(q) == Go(Plain(Everywhere, q))
Browse == Go(Plain(Everywhere, NoQuery))
OpenCategory(c) == Go(Plain(c, NoQuery))
ClickRow(d, o) == RowVisible(d, o) /\ Go(RowHref(url, d, o))
ClickStars(r) == Go(StarHref(url, r))
ClearAll == AnyFilterActive(url) /\ Go(ClearHref(url))
SortBy(s) == Go([url EXCEPT !.sort = s, !.page = 1])

(* The pager of /search; a category page has none.                         *)
Paged == url.path = Everywhere /\ shown.cards # <<>> /\ shown.pages > 1
TurnTo(u) == /\ shown' \in Render(u)
             /\ UNCHANGED <<live, tier>>
NextPage == /\ Paged /\ url.page < shown.pages
            /\ TurnTo([url EXCEPT !.page = @ + 1])
            /\ trail' = trail \o shown'.cards
            /\ UNCHANGED still
Previous == /\ Paged /\ url.page > 1
            /\ TurnTo([url EXCEPT !.page = @ - 1])
            /\ trail' = <<>> /\ still' = FALSE

ShopperNext == \/ \E q \in Queries : HeaderSearch(q)
               \/ Browse
               \/ \E c \in Categories : OpenCategory(c)
               \/ \E d \in Dims : \E o \in Options[d] : ClickRow(d, o)
               \/ \E r \in Stars : ClickStars(r)
               \/ ClearAll
               \/ \E s \in Sorts : SortBy(s)
               \/ NextPage
               \/ Previous

(* The catalogue: moderation publishes, a KYC decision raises a tier.      *)
Publish == \E p \in Goods \ live :
              /\ live' = live \cup {p}
              /\ UNCHANGED <<tier, shown>>
              /\ trail' = <<>> /\ still' = FALSE
Promote == \E s \in AllSellers : \E t \in Tiers :
              /\ tier[s] < t
              /\ tier' = [tier EXCEPT ![s] = t]
              /\ UNCHANGED <<live, shown>>
              /\ trail' = <<>> /\ still' = FALSE

SearchInit == /\ live \in SUBSET Goods
              /\ tier = [s \in AllSellers |-> 1]
              /\ shown \in Render(Plain(Everywhere, NoQuery))
              /\ trail = shown.cards
              /\ still = TRUE
SearchNext == ShopperNext \/ Publish \/ Promote
SearchSpec == SearchInit /\ [][SearchNext]_searchVars

-----------------------------------------------------------------------------
(* What a URL asks for, stated on its own.                                 *)
Wanted(u, p) == /\ u.path = Everywhere \/ CategoryOf[p] = u.path
                /\ \A d \in Dims : u.boxes[d] # {} => Of(p, d) \in u.boxes[d]
                /\ Rating[p] >= u.rating
                /\ u.q # NoQuery => Rank[u.q][p] > 0

Matches(u) == {p \in live : Wanted(u, p)}
Alone(u, p) ==      \* No other match has the same sort keys.
  \A r \in Matches(u) \ {p} : \/ Before(OrderBy(u, p), OrderBy(u, r))
                              \/ Before(OrderBy(u, r), OrderBy(u, p))

(* Following Next from page 1 to the last, while nothing is published,     *)
(* shows as many products as match, all of them matches, and each one that *)
(* ties with no other exactly once: offset pages neither skip nor repeat   *)
(* it, however the database arranges the ties of each page anew. And a     *)
(* page that a link leads to is empty only when nothing matches, unless a  *)
(* seller left the tier filtered for.                                      *)
EveryHitOnce ==
  /\ (still /\ url.page = shown.pages) =>
        /\ Len(trail) = Cardinality(Matches(url))
        /\ \A i \in DOMAIN trail : trail[i] \in Matches(url)
        /\ \A p \in Matches(url) :
              Alone(url, p) => \E i \in DOMAIN trail :
                                 \A j \in DOMAIN trail : trail[j] = p <=> j = i
  /\ (shown.cards = <<>> /\ url.boxes["tier"] = {}) => shown.total = 0

(* The count beside an unchecked box is what checking it adds: the link    *)
(* leads to that many results more (that many, where the group had no box  *)
(* checked). For a page without a query; the counts ignore the query.      *)
CountsKeepTheirWord ==
  (url.q = NoQuery /\ still) =>
     \A d \in Dims : \A o \in Options[d] \ url.boxes[d] :
        Cardinality(HitSet(RowHref(url, d, o))) =
           shown.counts[d][o] + (IF url.boxes[d] = {} THEN 0 ELSE shown.total)
=============================================================================
