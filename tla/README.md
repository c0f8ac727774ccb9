# Vendoora in TLA+

Vendoora is a marketplace: a Next.js application (`apps/web`), a worker
(`apps/worker`) and a domain package (`packages/domain`) over one Postgres
database (`packages/db`), with Stripe and BullMQ/Redis outside. It has no long
lived state of its own: every request and every sweep reads rows, decides, and
writes rows in a transaction. What can go wrong is therefore mostly what happens
*between* one process's read and its write. The modules model the code that
way: each process is a few program-counter values and what it remembers, each
read is a step, and each transaction of writes is a step.

Paths below are relative to the repository, with `src/` left out.

## 1. Inventory

| Component | State it keeps | Operations | What is hard about it |
|---|---|---|---|
| Checkout and payment: `apps/web/lib/order.ts`, `app/actions/order.ts`, `app/api/webhooks/stripe/route.ts`, `packages/domain/src/checkout.ts` | `orders`, `payments`, `escrow_holds`, history; Stripe's intents | place an order (wallet or card), open an intent, webhook, expiry sweep | webhook, its retries, the wallet rail and the sweep race for one order; each may die half way |
| Delivery and release: `apps/web/lib/escrow.ts`, `packages/domain/src/escrow.ts`, `app/actions/order-status.ts`, `lib/order-stage.ts`, the order page | order status, `delivery_attempts`, hold state, release date | check the code at the door, release sweep, development stage advance | concurrent guesses; a clock read before the wait for the row; a dispute that commits while the sweep works |
| Disputes: `app/actions/dispute.ts`, `app/actions/admin-dispute.ts`, `packages/domain/src/dispute-sla.ts`, the buyer's and admins' pages | `disputes`, hold state, order status | open, resolve (four ways), escalate what is overdue, list | reads outside the transaction, writes by id: every stale read is written back |
| Insurance fund: `packages/domain/src/insurance.ts` | one balance row, `insurance_payouts`, `last_topup_at` | claim, top-up | one row that everybody locks; clocks read before the lock |
| Cart: `app/actions/cart.ts`, cart and checkout pages | a cookie, `carts`, `cart_items` | add, change, remove, order from it | find-then-create without an index; totals computed three times |
| Accounts: `lib/auth.ts`, `lib/user-sync.ts`, guests in `lib/order.ts`, `lib/search-analytics.ts` | `users` | mirror a Clerk account, mint a guest, attribute an order | two unique columns, inserted after a read |
| Search: `lib/search.ts`, search and category pages, filters and sorting | only the URL | browse, query, filter, sort, page | two query paths and the facets each spell the filters out |
| Seller onboarding and KYC: `app/actions/seller-onboarding.ts`, `lib/kyc.ts`, `app/actions/admin-kyc.ts`, `lib/r2.ts` | a draft cookie, sellers, applications, documents | wizard, review, upload | tabs share a cookie; a standing computed from a stale row; bytes outside the transaction |
| Listings and moderation: `app/actions/seller-products.ts`, `lib/product-edit.ts`, `lib/product-moderation.ts`, console and review pages | `products`, images in the bucket | create, edit, swap an image, approve, reject | saves that cross verdicts; a cap checked on a stale count |
| Trust scores and cases: `packages/domain/src/trust-score.ts`, `trust/*`, `worker/src/trust-window.ts` | scores, `trust_cases` | recompute, fraud scan, annotate, resolve | four separate counts; a look-back window; two scans |
| Delivery proof: `lib/delivery-proof.ts` | `deliveries`, photos in the bucket | record a proof | concurrent calls, a death between upload and row |
| Worker: `apps/worker/src/*` | timers and promises, or BullMQ's queues | boot, run every sweep at its interval, shut down | sweeps that hang, throw or overlap; replicas that die with jobs |
| Home, product, analytics and finance pages | none | read-only | none: see section 6 |

How they meet: checkout reads and clears the cart, takes its buyer from the
accounts and creates the holds that delivery schedules; the release sweep
releases them, a dispute freezes them and a resolution settles them; a
resolution may call the insurance fund inside its transaction; finalizing an
order is also what the fund's top-up counts. KYC decides the tier that search
shows, moderation what search finds. The worker drives all the sweeps. Components share rows, not
messages; the only callbacks are Stripe's webhook and the schedulers.

What makes each component correct:

- Checkout: an order is settled once; paid exactly when its holds are funded,
  and by card only for the right amount; nothing is acknowledged to
  Stripe that still needs work; every order settles.
- Delivery: no free guess of a code, a locked order stays locked;
  money is released only after the dispute window, never over a dispute,
  and does get released.
- Disputes: a dispute freezes everything still held, and in the time the buyer
  is given for it that is everything; nothing stays frozen, and
  no order DISPUTED, without a dispute that an admin can find and resolve; an overdue one
  gets escalated.
- Fund: never overdrawn, reconciles with its ledger, inside its
  caps over any year; each order's commission counted once.
- Cart and accounts: one row a product; nobody touches another's rows; an order
  belongs to whoever placed it; a cart is gone only for an order that was paid.
- Search: paging shows every match once; a count keeps its word.
- KYC and listings: a seller's standing is what the one decision said, a verdict
  stands; what is live never changes, and what is rejected only by going back to
  the moderators; rows never name bytes that are gone, and no bytes are left
  behind unexplained.
- Trust: no active buyer is skipped; one open case a subject and scan; a resolution stands.
- Worker: no sweep overlaps itself or holds up another; nothing runs once the
  database is disconnected; every queue keeps running.

The hazards of the code, line by line, are in `PROJECT.json` under `hazards`,
each with the properties that watch it or the reason why none does.

## 2. How the code becomes TLA+

- **Isolation.** Postgres runs at READ COMMITTED and Prisma sets no other level.
  A plain `findUnique`/`findMany`/`count` is a step of its own; an `include` is a second
  query and so a second step wherever the two can disagree in a way that matters.
- **Transactions.** From its first `UPDATE` to the commit a transaction holds the
  row locks of what it changed and re-evaluates its `WHERE` under the lock, so
  the writes and the commit are one step that tests the *current* row (guarded
  `updateMany`) or does not (update by id). Other processes can commit before
  that step, between it and the earlier reads.
- **`SELECT ... FOR UPDATE`.** Where the code locks before it reads, the model
  has a `lock` variable that other writers of that row wait for.
- **Object storage** is a set of keys that no transaction covers: a put or a
  delete is a step of its own.
- **Crashes.** A process may die between any two of its steps, which throws away
  its memory and rolls its transaction back.
- **Data.** Amounts, addresses, texts and codes are reduced to what the control
  flow distinguishes (a right or a wrong code; the right or another amount). The
  append-only `audit_log` is not modelled except the rows a property needs.
- **Clocks.** Time is a counter; the windows are constants of the model. A
  process that reads its clock before it waits keeps that reading. A transaction
  that waits for a row cannot do so for ever: Prisma rolls an interactive
  transaction back after a limit (its default, since nothing in the repository
  sets another), `TxTimeout` in `Escrow`.
- **Pages** are functions of the rows (or, in `Search`, of the URL and the
  catalogue): what a queue lists and which form a page shows.
- **Ghosts.** Variables that no column keeps (`guesses`, `firstDelivered`,
  `counted`, `toppedUp`, `leaked`, `owner`, `lastStart`, `skipped`, `bodies`, ...) are named as such where
  they are declared; no guard reads them.

### The modules

| Module | What it is |
|---|---|
| `OrderOutcome` | The abstract promise of checkout: an order is open, then paid or expired, once; paying it funds exactly one hold per seller in the same step. |
| `Checkout` | Checkout request, Stripe, webhook handlers and expiry sweeps over the order's rows. Implements `OrderOutcome`. |
| `Escrow`, `Tracking` | Door, release sweep, dispute form, admin resolution, SLA sweep, development advance; `Tracking` adds the pages. |
| `InsuranceFund` | Claims and top-ups on the balance row, and as much of finalizing an order as the top-up sees. |
| `Cart` | Tabs of several browsers that change, order from and clear carts. |
| `Accounts` | The `users` table: mirrored accounts, guests, attribution. |
| `Search` | A shopper's walk along the links of the search pages, under a changing catalogue. |
| `Kyc` | The seller wizard, the review of applications, the upload of documents. |
| `Listings` | One seller's listings: create, edit, moderate; images. |
| `TrustCases`, `TrustScore` | The fraud scan and the desks; the recomputation of scores. |
| `DeliveryProof` | Concurrent calls of `recordDeliveryProof`. |
| `PollLoop`, `JobQueue` | The worker without Redis, and with it. |
| `MCCheckout`, `MCEscrow`, `MCInsurance`, `MCCart` | Values of the constants for TLC. |
| `MCTrustDesk`, `MCBackOffice`, `MCLiveness`, `MCStorefront` | Several components that share no row side by side in one instance: a behaviour is of the part chosen at the start, so their state spaces add up instead of multiplying. |
| `*Proofs` | The theorems (section 5). |

### How state and actions correspond

**Checkout.** `Assemble`, `BuildPending`, `MockRead`, `MockCommit`, `ClearCart`,
`OpenIntent` and `RecordIntent` are the statements of `placeOrder` and
`createCardPaymentIntent` in order;
`RequestDies` stops them anywhere. `HookSettledAlready`, `HookMismatch`, `HookRead`
are what the webhook's read inside `finalizePaidOrder` can find, `HookCommit` its
guarded update (shared with the wallet rail), `HookReply` the 2xx.
`SweepFind`, `SweepRead`, `SweepCommit`, `SweepEnd` are
`expireStalePendingOrders`; its `CancelIntent` looks for an intent id on the
order row, as the code does. Stripe is external: it opens an intent when asked,
captures it when the buyer confirms (the right amount or another) and delivers
until it is answered 2xx, to several handlers at once. The batch limit of 500 and
the prices are abstracted away.

**Escrow.** Orders start as `finalizePaidOrder` leaves them. `CourierStart` reads
the clock, as `confirmDeliveryByCode` does before its transaction; `CourierLock` is
the wait for the row, the read and the checks (`CourierGivesUp` where one refuses),
`CourierReject` and `CourierAccept` the two ends. `RelFind`, `RelReadOrder`, `RelReadHolds`, `RelCommit` are the
release sweep; the guarded updates of an order's holds are decided together at the commit, because a
hold never becomes `HELD` again. `TabReadOrder`, `TabReadHolds`, `TabCommit` are
`createDispute`; the insert of the dispute takes a share lock on the order row
and so waits for the door. `AdminReadDispute`, `AdminReadHolds`, `AdminCommit`
are `resolveDispute`, `AdminFails` its roll-back when the fund refuses.
`WatchFind`, `WatchCommit` are the SLA sweep, `DevRead`, `DevWrite` the
development-only advance. Statuses that are declared but never written are left
out. `Tracking` says what the rows become on the pages: the stage and the dispute
link of the order page, the dispute form, a dispute's frozen holds, the admins'
queue and its resolution form. The forms that only a development build shows are
left out.

**InsuranceFund.** `ClaimStart` reads the clock, `ClaimLock` gets the row lock and
makes every check, `ClaimCommit` writes balance, ledger row and resolution;
`TopUpStart`, `TopUpLock`, `TopUpCommit` are `accrueInsuranceTopUp`; `PayStart`,
`PayCommit` the two moments of `finalizePaidOrder` that matter to it, stamping
`paid_at` and committing. `Contribution[S]` is the rounded share of the
commission of the orders `S`, `Total[S]` what `SUM(amount)` returns over rows
`S`: constants, characterised by assumptions that TLC evaluates.

**Cart.** A tab's server action is `cartPc` and what it has read, `request`.
`AddStart`, `FindCart`, `CreateCart`, `FindItem`, `Bump`/`CreateItem` are
`addToCart` query by query; `PlusRead`/`PlusCommit` and the like the two reads
and the write by id of the quantity buttons; `AssembleWallet`, `OrderByWallet`,
`ClearItems`, `ClearCart` and `AssembleCard`, `OrderByCard` the part of checkout
that reads and clears a cart. The cookie is shared by the tabs of a browser.

**Accounts.** A request arrives signed in or as a guest (`Arrive`), and mirrors an
account (`SyncClerkUser`, `Mirror`) or resolves a guest (`ResolveGuestBuyer`,
`Mint`), each a read and a later insert that an index may refuse. Then it places
an order or logs a search (`Proceed`, `LogGuest`).

**Search.** `Results` is the set of the orders in which the database may answer:
products that tie in every sort key come in any. `BuildBaseWhere`, `BuildRankedQuerySql` and `GetFacetCounts` spell the
filters out as the three queries do; `Skip`, `PageOf`, `TotalPages` are the
paging; `BuildHref` and its users the links of the sidebar. `SearchAssumption` types the
catalogue. One rendering is one
step: its three queries could straddle a publication, which the properties do not
speak of (`still`).

**Kyc.** `Step1`, `Step2`, `Step3Read`, `Step3Commit`, `ClearDraft` are the
wizard's actions, which carry the cookie of when they were sent. `ReviewRead`,
`ReviewDecide`, `ReviewCommit` are `reviewKycApplication`: the guarded decision
locks the application's row, the standing is computed from the row of the seller
read before. `UploadCheck`, `UploadPut`, `UploadRecord`, `UploadFails` are
`uploadKycDocument`.

**Listings.** `CreateCount`, `CreateSlug`, `CreatePut`, `CreateCommit`/`CreateFails`
are `createProduct`; `EditOpen`, `EditSubmit`, `EditRead`,
`EditCommit`/`EditRefused`, `EditDropOld` the edit with its image swap;
`ReviewOpen`, `Approve`, `Reject`, `AlreadyDecided` the review, whose note is about
the page that was opened; `RequestDies` any
request that ends without cleaning up.

**TrustCases, TrustScore.** A scan runs its four queries in order and handles
what each returned (`Find`, `Create`, `CreateFails`); a desk reads a case and
resolves it with a guarded update, or appends a note. A score run takes its clock
(`TakeClock`), queries the active buyers and counts four times for each
(`Count`); rows are stamped when a statement is issued and seen later.

**DeliveryProof.** `Check`, `Upload`, `Record`, `CleanUp` are the four parts of
`recordDeliveryProof`; `CallDies` stops it between any two.

**PollLoop, JobQueue.** `LoopTick` is a timer's tick (`SweepOnce` with the
overlap guard), `Finish`, `Fail` and `Hang` what a sweep's body does, `BeginClose`,
`Disconnect`, `Exit` the shutdown. With Redis, a replica boots queue by queue
(`Upsert`, `AddBootJob`), takes jobs, closes and crashes; schedulers, stalled
jobs and their redelivery are BullMQ's and external.

## 3. What TLC checks

All runs have `CHECK_DEADLOCK FALSE`: clocks stop at their bound, ids run out,
and people need not do anything.

| Run | Bounds | Distinct states | Shows |
|---|---|---|---|
| `escrow_delivery` | one order with 2 holds, 2 submissions, 1 development advance, 1 release sweep, 1 dispute, 1 SLA sweep, 2 wrong codes, codes good for the first period, a window of 2, a transaction limit of 1, clock to 3 | 112,077 | `NoFreeGuess`, `LockedStaysLocked`, `ReleaseIsEarned`, `DisputeInTimeFreezes`, `DeliveredIsReleased`, `OverdueIsEscalated` |
| `trust_desk` | disputes: one order with 2 holds, 2 disputes, 2 tabs, 2 admins, 1 SLA sweep; KYC: 2 users, 1 slug, one browser with 2 wizard requests, 2 applications, 2 reviewers, 1 upload; listings: 3 products, slugs and keys, one content, a cap of 1, 2 tabs, 2 moderators | 682,058 | `DisputeFreezes`, `FrozenIsListed`; `SellerHasItsApplication`, `StandingIsBacked`, `DocumentsAreStored`, `DecidedForGood`; `ImagesAreStored`, `ListingsNearCap`, `LiveIsFrozen`, `RejectionStands` |
| `back_office` | checkout: 2 orders from one cart (a double submit), 2 sellers, 2 webhook handlers, 2 sweeps; fund: 3 disputes (two share the buyer, two the seller), 4 possible payouts, 2 admins, 1 top-up, 1 order, clock to 3; scores: 1 buyer, 2 orders, clock to 3; cases: 1 driver, 2 scans, 2 desks, 3 cases, 1 fault | 762,020 | `RowsAgree`, `CardPaidMeansCaptured`, `AckedIsAccounted`, and the refinement `ImplementsOutcome`; `FundSound`, `YearCapsHold`; `NobodySkipped`; `OpenCasesBounded`, `ResolutionStands` |
| `liveness` | checkout: 2 orders, 1 seller, 1 handler, 1 sweep; worker: 2 loops with 3 sweeps, 2 replicas with 2 queues; cases: 1 driver, 2 scans, 1 desk, 1 case, 1 fault | 21,745 | `EveryOrderSettles`, `CaptureIsAnswered`; `NothingRunsAtDisconnect`, `KeepsSweeping`, `ShutdownEnds`; `KeepsRunning`; `TrippingGetsACase` |
| `storefront` | cart: 2 tabs in one browser or two, 1 product, 2 sessions, 3 carts, 3 rows; search: 3 products of 2 sellers in 2 categories, two of which tie by price, a page of 2; accounts: 2 accounts, 2 addresses, 2 requests at once, 3 in all; proof: 2 calls, clock to 4 | 422,964 | `OthersUntouched`; `EveryHitOnce`, `CountsKeepTheirWord`; `OrdersStayApart`; `ProofIsGenuine` |

The other seven runs show where code and documents disagree (below).

Why these bounds are enough. The code never relates two orders, two listings of
different sellers or two cases of different subjects (except through the fund, where the ledger does), so
one order with two holds shows every race on an order, and two processes of a
kind show every race of that kind: a third would repeat the role of one of the
two. Time bounds let a window pass and leave a period after it. Limits are small
enough to be reached: 2 wrong codes instead of 3 lock an order, a listing
cap of 1, caps of the fund that admit one payout or incident a year, a page of 2
with 3 products, 2 sessions for a browser whose cookie checkout clears. The
dispute window is longer than a transaction may take, so that the difference
counts: a submission that waited for the row is late by one period of the two,
and the clock goes on until its release is due. The theorems
of section 5 do without the bounds on processes and rows. Symmetry is declared
only over sets that no constant and no property tells apart, and never beside a liveness property.
In `MCTrustDesk`, products and keys are taken in order (`InOrder`), and the part
that edits and moderates has two slugs (`AllButOne`), the one that passes the cap
all three.

Each property is broken by a small plausible change of the code, listed under
`mutants` in `PROJECT.json`: dropping a `FOR UPDATE`, the guard of an update or the
reset of a schedule, an off-by-one at a limit, a 2xx sent too early, a clean-up
that deletes the wrong key. The mutated operators stand beside the ones they
mutate and are used by nothing else.

`LockedStaysLocked`, `ReleaseIsEarned`, `DisputeInTimeFreezes`, `OthersUntouched`,
`LiveIsFrozen`, `RejectionStands`, `DecidedForGood` and `ResolutionStands` are
action properties: what no step may do.

Three properties ask for less than the reader may expect, because the code keeps
no more. `ReleaseIsEarned` and `DisputeInTimeFreezes` leave out of the window the
time a submission waited for the order's row: `delivered_at` is as old as the
clock read before the wait (`lib/escrow.ts:66`). `RejectionStands` says that a
rejected listing shows its feedback and cannot change except by going back to the
queue, not that the note is about what the listing shows: a save between the
moderator's read and the decision leaves it PENDING, and the guard looks at
nothing else (`product-moderation.ts:72`). `EveryHitOnce` promises each match that
ties with no other exactly once, and of the others that the pages are full and
hold matches only: nothing after `created_at` decides a tie (`search.ts:298`), so
the database may answer differently from page to page.

The type invariants are proved (section 5); those of `Search`, `TrustScore` and
`JobQueue` stand beside their proofs.

### Where code and documents disagree

| Run | The code does | It is said |
|---|---|---|
| `checkout_cart_lost` | the cart is deleted whatever finalizing answered, also for an order the sweep has expired: `CartClearedOnSuccess` fails | "Clear the cart on success." (`actions/order.ts:82`) |
| `checkout_stranded_charge` | a charge captured after (or while) the sweep expires the order is acknowledged and kept, without refund or flag: `CapturedIsPaid` fails | "A captured-then-expired order is impossible" (design note of the expiry) |
| `escrow_resolved_escalated` | a dispute resolved between the SLA sweep's query and its update is set back to ESCALATED: `SweepSkipsResolved` fails | resolved disputes "are skipped" (header of `dispute-sla.ts`) |
| `escrow_disputed_paid` | a dispute opened after the release freezes nothing, and the seller's payout goes on: `DisputedIsFrozen` fails | "Money stays in escrow until it's resolved" (order page, dispute form) |
| `insurance_recounts` | of two top-ups, the one with the earlier clock commits last and moves `last_topup_at` back, and the next counts an order again: `CountedOnce` fails | "each run only counts new commission" (`insurance.ts:258-260`), "safe to run as multiple replicas" and "never the total accrued" (`insurance-topup-queue.ts:11-16`) |
| `cart_duplicate_rows` | two adds look for the row before either creates it, and the cart has two: `AddsCoalesce` fails | adds coalesce "instead of creating multiple rows" (`actions/cart.ts:55-56`) |
| `charged_as_shown` | the zone's delivery fee is charged whatever the subtotal: `ChargedAsShown` fails | "Free delivery on orders over $50" (cart page) |

Further races that the models have, as the code does, are in `hazards` with a
note: two admins who resolve one dispute from the fund both debit it; the later of
two resolutions replaces the earlier one, where `Engineering_Spec.md:3167` promises
an error; an order stamped before, and committed after, a top-up's window is in no
window; a double submit makes two orders of one cart; two additions to one cart
row lose one; a guest order under an address makes a later sign-in with it throw;
the last box of a filter group cannot be unset, although each row is said to toggle
(`search.ts:12`).

Two comments are contradicted without a run. `search.ts:21` and `:178` say that
"best" without a query sorts by recency alone, while `:179` goes by featured and
rating first: one line to read, no behaviour to search, and the paging properties
ask for no particular order. `kyc.ts:109-115` says that an approval never
downgrades a seller and a denial never clobbers an APPROVED one; the rule works on
a seller's row read without a lock, and two applications of one seller could break
it, but no code gives a seller a second application (`SellerHasItsApplication`).

## 4. Fairness

- Checkout: time passes (`GrowOld`); the worker runs the sweep again at every
  interval, so an enabled `SweepFind`, and the end of a sweep, cannot be put off
  for ever; a sweep may die before any commit but not every time it gets there
  (strong fairness on `SweepRead`, `SweepCommit`). Stripe retries a delivery that
  was not answered 2xx, and a handler does not die every time (strong fairness on
  deliveries, commit and reply). Nothing is assumed of the buyer or the request.
- Escrow: the same for the release and SLA sweeps, and `Tick`. Nothing is assumed
  of buyers, couriers and admins.
- Polling worker: its timers fire, a body that does not hang ends, and the
  shutdown goes on (weak fairness). `Hang` is allowed at any time, and
  `KeepsSweeping` and `ShutdownEnds` say what a hanging sweep may hold up:
  itself, and a shutdown that waits for it.
- Queues: Redis keeps its schedule, a worker that is up takes what waits, a job
  ends. Nothing is assumed of boots, crashes or redelivery; `KeepsRunning` asks
  for one replica that stays up.
- Fraud scan: a scan that is under way goes on, and the worker starts the next
  (weak fairness on `ScanProgress`). It may fail a bounded number of times
  (`MaxFaults`), and `TrippingGetsACase` is about a subject that trips its rule
  from some time on.

Stripe in fact stops retrying after some days, and a queue runs its next job at
the next interval; both are long compared with the outage the fairness
rules out. One order whose transaction fails *every* time would violate the
assumption, and then also block the orders behind it in the sweep: listed as a
hazard.

## 5. What is proved

With TLAPS, for all values of the constants that satisfy the named assumptions
of the modules (typing, finiteness of the sets that are counted, distinctness of
the null values; for the fund also what a `SUM` is, `TotalAssumption`):

| Module | Theorems |
|---|---|
| `CheckoutProofs` | `TypeCorrect`, `RowsAlwaysAgree`, `CardPaidCorrect`, `AckedCorrect`; `Refinement`: `Checkout` implements `OrderOutcome` under `OutcomeOf` |
| `EscrowProofs` | `TypeCorrect`, `GuessesAreCounted`, `DeliveredScheduled`, `DisputeFreezesAll`, `FrozenIsResolvable`, `DisputedIsResolvable`, `LockedForGood`, `ReleaseEarned` |
| `TrustDeskProofs` | `FrozenAlwaysListed`, `TimelyDisputeFreezes` (from `EscrowProofs`); `KycTyped`, `SellersHaveApplications`, `StandingAlwaysBacked`, `DocumentsAlwaysStored`, `VerdictsStand` |
| `InsuranceProofs` | `FundTyped` (a balance that is never negative), `FundStaysSound`, `YearCaps` |
| `CartProofs` | `CartTyped`, `OthersStayUntouched`; `RowsStayBounded`, no more rows of a product than tabs that raced, and `LoneTabCoalesces`, one row with one tab |
| `ListingsProofs` | `ListingsTyped`, `ImagesAlwaysStored`, `CapIsNear`, `RejectionsStand`, `LiveStaysFrozen` |
| `StorefrontProofs` | `AccountsTyped`, `OrdersAlwaysApart`; `ProofAlwaysGenuine`; `CountsAreKept`; `EveryHitIsShownOnce` |
| `WorkerProofs` | `PollNeverOverlaps`, `DisconnectsDrained`; `CasesStayBounded`, `ResolutionsStand`; `ScoresTyped`, `NobodyIsSkipped`; `JobsStaySound` |

The argument is the same everywhere. The properties speak of rows, and are not
inductive because a step writes what its process remembers from an earlier read.
The inductive invariant adds, for every kind of process, what its memory still
guarantees when it goes on:

- `Checkout!IInv`: the request, handler and sweep know the order exists and, for
  a handler, that the charge is the right one; the guarded update does the rest.
- `Escrow!IInv`: `DoorMemory`, the row is as the submission saw it, since it
  holds the lock; `TabMemory`, a hold that is HELD now was HELD when the tab read
  the holds (holds never return to HELD), so a dispute leaves none behind;
  `AdminMemory`, a dispute's frozen holds can only shrink after the read, so a
  resolution leaves none frozen; `RelMemory` and `Dates`, every chosen hold's date
  lies a window after the first delivery, less `TxTimeout`. `Undisputed` adds what
  `DisputeInTimeFreezes` needs: before the first dispute a hold is HELD or
  RELEASING, and RELEASING only when its window is over.
- `InsuranceFund!FundIInv`: what was read under the lock is still true at the commit.
  For the caps: a year that contains the new row's stamp `n` starts no earlier
  than `n - Year`, so its rows are among those the claim summed, whatever order
  the rows were committed in.
- `KycInv`: `SellersOK`, who has no seller has no standing; `ReviewOK`, a review
  that has decided holds the lock of an application that is still open, and the
  seller's row is still what it read, for nobody else decides on the seller's one
  application; `UploadsOK`, at which step an upload's key is in the bucket and in
  a row.
- `ListInv`: `KeysOK`, every key in the bucket has exactly one owner: a listing, a
  request at work, or a request that died; `VerdictsOK`, only
  a listing that exists is opened or judged, and a rejected one has a note; `CountOK`, the listings plus the tabs that have
  passed the check of the cap are at most `Cap - 1 + |Tabs|`, which a step of
  either kind preserves.
- `CartInv`: `CookiesOK`, a cookie holds a session of its browser; `TabsOK`,
  what a request has read was its browser's own and a row never changes hands;
  `CountsOK`, rows plus the tabs about to create one are at most `|Tabs|`.
- `AccountsInv`: what step a request is at tells which rows it found
  (`VisitsOK`); rows are never changed, so this stays true.
- `ProofInv`: `CallsOK`, the checks a call passed are still true, for an arrival
  is recorded once; `StoreOK`, whose fault each stored photo is.
- `PollInv`: `DrainOK`, from the moment the loops are closed no timer is set and
  what runs is awaited. `CasesInv`: `RoomForCreators`, the open cases of a subject
  plus the scans that found none are at most the scans. `JobInv`: `BootsSchedule`,
  the odd step of a boot at a queue has left a scheduler, which nothing removes.
- `ScoreInv`: `ChangesCaught`, a buyer whose score is stale either has a row in
  the next run's window, or is one the run under way still has to do, or was
  dropped; `CountsFresh`, the counts a run has read of a buyer are the present
  ones unless a row of it changed since, and that change is stamped late enough.
  The margin covers the worst case: `Period + Late + Lag <= Interval + Margin`.
- `CountInv`: while nothing was published since, a page tells the present total
  and the present counts (`CountsOK`). `RowAdds` then shows that the three
  spellings of the filters agree: the rows of the option are disjoint from the
  page's and together they are the page the link leads to.
- `PageInv` adds `TrailOK`, what was paged through is as long as the first `UpTo`
  hits, and a hit that ties with nothing is in its place; `GapOK`, a page is past
  the last hit only if a tier is filtered for: a catalogue that grows loses no hit
  otherwise (`HitsStay`), but a seller who is promoted leaves its tier's box. The
  lemma under it is `LoneKeepsPlace`: in every order the database may choose, a
  hit without a tie has as many hits before it as come before it by the sort keys.

Counting arguments (`CountOK`, `CountsOK`, `RoomForCreators`, `RowAdds`,
`LoneKeepsPlace`) rest on the library's `FiniteSetTheorems`, the concatenation of
pages on its `SequenceTheorems`. One lemma per kind of process shows that its steps
preserve the invariant, one lemma per module combines them, and TLC finds each
invariant kept on the instances above.

Only model-checked: the liveness properties (`EveryOrderSettles`,
`CaptureIsAnswered`, `DeliveredIsReleased`, `OverdueIsEscalated`, `KeepsSweeping`,
`ShutdownEnds`, `KeepsRunning`, `TrippingGetsACase`), for fairness and ENABLED are
outside the prover; and everything that is violated. Every safety and action
property of the passing runs has a theorem, without further hypotheses.

## 6. What is not modelled

- Home, product, brand, analytics and finance pages: they read rows and show
  lists, sums and static text. No later step relies on what they computed, so
  there is no behaviour beyond the queries themselves; a model would be the query
  again. The same holds of the seed, the design tokens, the shared types and the
  build files.
- Authentication: Clerk's sessions, and the seller's and admin's cookies. The
  models take the identity of a request as given.
- Validation of form fields, formats, addresses, currencies and exchange rates,
  and rendering.
- Amounts in `Escrow`: a partial refund's amount is written to every hold of an
  order (see the hazards); the fund's debit may refuse at will there, and is
  modelled in `InsuranceFund`, which leaves out the holds. The two together in one
  module would exceed what TLC can check at bounds that show anything new.
- The audit log, except where the seller's feedback reads it; physical deletion;
  schema migrations, which nothing runs at run time.
- Postgres, Redis, BullMQ, R2, Clerk and Stripe are external: their actions are
  modelled from how the code uses them and marked so in `map`.
- In `Checkout` and `InsuranceFund`, the limit on a transaction's life: a request
  may die at any step, and no property there depends on how old a clock gets.
- Batch limits of sweeps (500) and of queues (100 rows): the instances stay below.
