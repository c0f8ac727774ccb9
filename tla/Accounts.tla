------------------------------ MODULE Accounts ------------------------------
(***************************************************************************)
(* The users table as the buyer's pages meet it (lib/auth.ts,              *)
(* lib/user-sync.ts, resolveGuestBuyer and buildPendingOrder of            *)
(* lib/order.ts, lib/search-analytics.ts): a Clerk account is mirrored     *)
(* into a row on first sight, a guest's checkout finds or creates a        *)
(* guest_ row by email, and both are a read and a later insert under two   *)
(* unique columns. Nothing updates or deletes a row.                       *)
(***************************************************************************)
EXTENDS Naturals, FiniteSets

CONSTANTS People,    \* Clerk accounts
          Emails,    \* addresses that are verified at Clerk or typed by a guest
          Visits,    \* concurrent requests
          Guest,     \* the visitor who is not signed in
          MaxVisits, \* bound: requests made
          MaxChanges \* bound: primary addresses changed at Clerk

ASSUME AccountsAssumption == Guest \notin People

VARIABLES primary,   \* the primary email of an account at Clerk
          users,     \* rows [clerk, email]; every guest_ id is written Guest
          visit,     \* a request: [step, who, page, email]
          orders,    \* [who, email, buyer]: buyer is the row it was attributed to
          logged,    \* search events [who, buyer]
          visits, changes

accountVars == <<primary, users, visit, orders, logged, visits, changes>>

Idle == [step |-> "idle", who |-> Guest, page |-> "search", email |-> CHOOSE e \in Emails : TRUE]
NoRow == [clerk |-> "none", email |-> "none"]

AccountsInit == /\ primary \in [People -> Emails]
                /\ \A a, b \in People : primary[a] = primary[b] => a = b
                /\ users = {}
                /\ visit = [v \in Visits |-> Idle]
                /\ orders = {} /\ logged = {}
                /\ visits = 0 /\ changes = 0

ByClerk(c) == {u \in users : u.clerk = c}
ByEmail(e) == {u \in users : u.email = e}

Step(v, step) == visit' = [visit EXCEPT ![v].step = step]

(* A request comes in: a search page, or a checkout whose form holds any   *)
(* address. Clerk says who is signed in.                                   *)
Arrive(v, who, page, e) ==
  /\ visit[v].step \in {"idle", "done", "refused", "threw"}
  /\ visits < MaxVisits
  /\ visits' = visits + 1
  /\ visit' = [visit EXCEPT ![v] =
                 [step |-> IF who \in People THEN "sync"
                           ELSE IF page = "search" THEN "log" ELSE "resolve",
                  who |-> who, page |-> page, email |-> e]]
  /\ UNCHANGED <<primary, users, orders, logged, changes>>

(* What follows once the buyer is known: placing the order (the contact    *)
(* email is recorded as it was typed), or the search event.                *)
Proceed(v, u) ==
  IF visit[v].page = "search"
  THEN /\ Step(v, "done") /\ UNCHANGED orders
       /\ logged' = logged \cup {[who |-> visit[v].who, buyer |-> u]}
  ELSE /\ Step(v, "done") /\ UNCHANGED logged
       /\ orders' = orders \cup {[who |-> visit[v].who, email |-> visit[v].email, buyer |-> u]}

(* syncClerkUser: the row by clerk_id, else an insert with the primary     *)
(* email that Clerk reports now.                                           *)
SyncClerkUser(v) ==
  /\ visit[v].step = "sync"
  /\ \/ \E u \in ByClerk(visit[v].who) : Proceed(v, u)
     \/ /\ ByClerk(visit[v].who) = {}
        /\ Step(v, "mirror") /\ UNCHANGED <<orders, logged>>
  /\ UNCHANGED <<primary, users, visits, changes>>

(* An insert under the unique indexes on clerk_id and email: the request   *)
(* throws when a row is in the way. (A guest_ id is fresh.)                *)
InWayOf(row) == ByEmail(row.email) \cup (IF row.clerk = Guest THEN {} ELSE ByClerk(row.clerk))
Create(v, row) ==
  \/ /\ InWayOf(row) = {}
     /\ users' = users \cup {row}
     /\ Proceed(v, row)
  \/ /\ InWayOf(row) # {}
     /\ Step(v, "threw")
     /\ UNCHANGED <<users, orders, logged>>

Mirror(v) ==
  /\ visit[v].step = "mirror"
  /\ Create(v, [clerk |-> visit[v].who, email |-> primary[visit[v].who]])
  /\ UNCHANGED <<primary, visits, changes>>

(* Mutated ResolveGuestBuyer: any row with the address is reused.          *)
ResolveAny(v) ==
  /\ visit[v].step = "resolve"
  /\ \/ \E u \in ByEmail(visit[v].email) : Proceed(v, u)
     \/ /\ ByEmail(visit[v].email) = {}
        /\ Step(v, "mint") /\ UNCHANGED <<orders, logged>>
  /\ UNCHANGED <<primary, users, visits, changes>>

(* resolveGuestBuyer: reuse a guest_ row, refuse an account's address,     *)
(* else create.                                                            *)
ResolveGuestBuyer(v) ==
  /\ visit[v].step = "resolve"
  /\ \/ \E u \in ByEmail(visit[v].email) :
           IF u.clerk = Guest THEN Proceed(v, u)
                              ELSE Step(v, "refused") /\ UNCHANGED <<orders, logged>>
     \/ /\ ByEmail(visit[v].email) = {}
        /\ Step(v, "mint") /\ UNCHANGED <<orders, logged>>
  /\ UNCHANGED <<primary, users, visits, changes>>

Mint(v) ==
  /\ visit[v].step = "mint"
  /\ Create(v, [clerk |-> Guest, email |-> visit[v].email])
  /\ UNCHANGED <<primary, visits, changes>>

(* logSearchEvent of a guest: no row to find; the insert's own failure is  *)
(* swallowed.                                                              *)
LogGuest(v) ==
  /\ visit[v].step = "log"
  /\ \/ Proceed(v, NoRow)
     \/ Step(v, "done") /\ UNCHANGED <<orders, logged>>
  /\ UNCHANGED <<primary, users, visits, changes>>

(* At Clerk, an account takes an address no other account holds.           *)
ChangeEmail(a, e) ==
  /\ changes < MaxChanges /\ changes' = changes + 1
  /\ \A b \in People : primary[b] # e
  /\ primary' = [primary EXCEPT ![a] = e]
  /\ UNCHANGED <<users, visit, orders, logged, visits>>

AccountsNext ==
  \/ \E v \in Visits : \/ \E who \in People \cup {Guest} : \E page \in {"search", "checkout"} :
                             \E e \in Emails : Arrive(v, who, page, e)
                       \/ SyncClerkUser(v)
                       \/ Mirror(v)
                       \/ ResolveGuestBuyer(v)
                       \/ Mint(v)
                       \/ LogGuest(v)
  \/ \E a \in People : \E e \in Emails : ChangeEmail(a, e)

AccountsSpec == AccountsInit /\ [][AccountsNext]_accountVars

-----------------------------------------------------------------------------
(* Rows are unique by address, and by account for those that mirror one.   *)
AccountsTypeOK ==
  /\ primary \in [People -> Emails]
  /\ users \subseteq [clerk : People \cup {Guest}, email : Emails]
  /\ \A u, w \in users : (u.email = w.email \/ (u.clerk = w.clerk /\ u.clerk # Guest)) => u = w
  /\ \A v \in Visits :
        visit[v].step \in {"idle", "sync", "mirror", "resolve", "mint", "log", "done", "refused", "threw"}

(* An order is never forked or attached to somebody else: a signed-in      *)
(* buyer's orders are on the row of that account whatever address was      *)
(* typed, and a guest's are on the one guest_ row of the address, never on *)
(* an account's. The same holds of the search events.                      *)
OrdersStayApart ==
  /\ \A o \in orders : /\ o.buyer \in users
                       /\ o.buyer.clerk = o.who
                       /\ o.who = Guest => o.buyer.email = o.email
  /\ \A s \in logged : s.buyer # NoRow => s.buyer.clerk = s.who
=============================================================================
