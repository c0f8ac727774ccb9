----------------------------- MODULE TrustScore -----------------------------
(***************************************************************************)
(* Buyers' trust scores: the worker recomputes, once a period, the score   *)
(* of every buyer whose orders or disputes changed since a look-back.      *)
(*                                                                         *)
(* A row is stamped updated_at when its statement is issued and is seen    *)
(* by others up to Lag later; the worker ticks up to Late after its period *)
(* and finishes a run before the next is due.                              *)
(***************************************************************************)
EXTENDS Integers

CONSTANTS
    Buyers,
    Period,         \* between two ticks of the scheduler
    Interval,       \* TRUST_RECOMPUTE_INTERVAL_MS, for the look-back
    Margin,         \* TRUST_RECOMPUTE_LOOKBACK_MARGIN_MS
    Lag, Late,
    MaxTime,         \* bound: the clock
    MaxOrders       \* bound: orders, and disputes, of a buyer

ASSUME ScoreAssumption ==
    /\ Period \in Nat /\ Interval \in Nat /\ Margin \in Nat
    /\ Lag \in Nat /\ Late \in Nat /\ MaxTime \in Nat /\ MaxOrders \in Nat
    /\ Period + Late + Lag <= Interval + Margin

VARIABLES
    time,
    orders,         \* what the four counts of a buyer would return
    touched,        \* the newest updated_at of its orders and disputes
    score,          \* users.trust_score
    runPc, since,
    left,           \* buyers that the run has still to do
    buyer, reading, \* the one it is at, and the counts read so far
    lastStart,      \* ghost: when the last run took its clock
    skipped         \* ghost: buyers that a failed run was to recompute

buyerRows == <<orders, touched>>
runVars == <<runPc, since, left, buyer, reading>>
scoreVars == <<time, buyerRows, score, runVars, lastStart, skipped>>

Kinds == {"total", "settled", "disputed", "refunded"}
NoBuyer == "no buyer"
Unread == -1

NoCounts == [k \in Kinds |-> 0]
Blank == [k \in Kinds |-> Unread]

Smaller(m, n) == IF m < n THEN m ELSE n
Clamp(n, lo, hi) == IF n < lo THEN lo ELSE IF n > hi THEN hi ELSE n

\* 50 + 30 * settled/total - 40 * disputed/settled - 20 * refunded/settled,
\* each of the last two rates at most 1, rounded half up.
Rounded(num, den) == (2 * num + den) \div (2 * den)

Formula(c) ==
    IF c.total = 0 THEN 50
    ELSE IF c.settled = 0 THEN 50
    ELSE Rounded(50 * c.total * c.settled + 30 * c.settled * c.settled
                   - 40 * Smaller(c.settled, c.disputed) * c.total
                   - 20 * Smaller(c.settled, c.refunded) * c.total,
                 c.total * c.settled)

Score(c) == Clamp(Formula(c), 0, 100)

ScoreInit ==
    /\ time = 0
    /\ orders = [u \in Buyers |-> NoCounts]
    /\ touched = [u \in Buyers |-> 0]
    /\ score = [u \in Buyers |-> 50]
    /\ runPc = "idle" /\ since = 0
    /\ left = {}
    /\ buyer = NoBuyer /\ reading = Blank
    /\ lastStart = 0
    /\ skipped = {}

\* A run starts at most Period + Late after the one before.
ScoreTick ==
    /\ time < MaxTime /\ time < lastStart + Period + Late
    /\ time' = time + 1
    /\ UNCHANGED <<buyerRows, score, runVars, lastStart, skipped>>

-----------------------------------------------------------------------------
(* What buyers do.  External: the rows of the other components.            *)

Changed(u, counts, stamp) ==
    /\ stamp <= time /\ stamp + Lag >= time
    /\ orders' = [orders EXCEPT ![u] = counts]
    /\ touched' = [touched EXCEPT ![u] = IF stamp > @ THEN stamp ELSE @]
    /\ UNCHANGED <<time, score, runVars, lastStart, skipped>>

PlaceOrder(u, stamp) ==
    /\ orders[u].total < MaxOrders
    /\ Changed(u, [orders[u] EXCEPT !.total = @ + 1], stamp)

PayOrder(u, stamp) ==
    /\ orders[u].settled < orders[u].total
    /\ Changed(u, [orders[u] EXCEPT !.settled = @ + 1], stamp)

RefundOrder(u, stamp) ==
    /\ orders[u].refunded < orders[u].settled
    /\ Changed(u, [orders[u] EXCEPT !.refunded = @ + 1], stamp)

OpenDispute(u, stamp) ==
    /\ orders[u].disputed < orders[u].settled
    /\ Changed(u, [orders[u] EXCEPT !.disputed = @ + 1], stamp)

-----------------------------------------------------------------------------
(* recomputeActiveBuyerTrustScores.                                        *)

\* The clock is read ...
RunStart(start) ==
    /\ runPc = "idle"
    /\ runPc' = "query"
    /\ since' = start
    /\ lastStart' = time
    /\ UNCHANGED <<time, buyerRows, score, left, buyer, reading, skipped>>

\* Mutated TakeClock: the window has no margin.
TakeClockNoMargin == RunStart(time - Interval)

TakeClock == RunStart(time - Interval - Margin)

\* ... then the buyers with a change in the window are.
QueryActive ==
    /\ runPc = "query"
    /\ runPc' = "next"
    /\ left' = {u \in Buyers : touched[u] >= since}
    /\ UNCHANGED <<time, buyerRows, score, since, buyer, reading, lastStart, skipped>>

NextBuyer(u) ==
    /\ runPc = "next" /\ u \in left
    /\ runPc' = "count"
    /\ buyer' = u /\ reading' = Blank
    /\ UNCHANGED <<time, buyerRows, score, since, left, lastStart, skipped>>

\* The four counts are four statements, in any order.
Count(k) ==
    /\ runPc = "count" /\ reading[k] = Unread
    /\ reading' = [reading EXCEPT ![k] = orders[buyer][k]]
    /\ UNCHANGED <<time, buyerRows, score, runPc, since, left, buyer, lastStart,
                   skipped>>

WriteScore ==
    /\ runPc = "count" /\ \A k \in Kinds : reading[k] # Unread
    /\ score' = [score EXCEPT ![buyer] = Score(reading)]
    /\ skipped' = skipped \ {buyer}
    /\ runPc' = "next"
    /\ left' = left \ {buyer}
    /\ buyer' = NoBuyer /\ reading' = Blank
    /\ UNCHANGED <<time, buyerRows, since, lastStart>>

RunEnds ==
    /\ runPc = "next" /\ left = {}
    /\ runPc' = "idle" /\ since' = 0
    /\ UNCHANGED <<time, buyerRows, score, left, buyer, reading, lastStart, skipped>>

\* A buyer's failure ends the run for all that follow.
RunFails ==
    /\ runPc # "idle"
    /\ skipped' = skipped \union
                    (IF runPc = "query" THEN {u \in Buyers : touched[u] >= since}
                     ELSE left)
    /\ runPc' = "idle" /\ since' = 0
    /\ left' = {} /\ buyer' = NoBuyer /\ reading' = Blank
    /\ UNCHANGED <<time, buyerRows, score, lastStart>>

-----------------------------------------------------------------------------
RunNext ==
    \/ TakeClock
    \/ QueryActive
    \/ \E u \in Buyers : NextBuyer(u)
    \/ \E k \in Kinds : Count(k)
    \/ WriteScore
    \/ RunEnds
    \/ RunFails

ScoreNext ==
    \/ ScoreTick
    \/ RunNext
    \/ \E u \in Buyers, stamp \in 0 .. MaxTime :
          \/ PlaceOrder(u, stamp) \/ PayOrder(u, stamp)
          \/ RefundOrder(u, stamp) \/ OpenDispute(u, stamp)

ScoreSpec == ScoreInit /\ [][ScoreNext]_scoreVars

-----------------------------------------------------------------------------
(* Properties.                                                             *)

\* A late tick skips nobody: between two runs, whoever's score is not what
\* its rows say has a row that the next run's window will contain, at the
\* latest start it can have, unless a failed run dropped the buyer.
NobodySkipped ==
    runPc = "idle" =>
        \A u \in Buyers \ skipped :
            score[u] # Score(orders[u]) =>
                touched[u] >= lastStart + Period + Late - Interval - Margin

=============================================================================
