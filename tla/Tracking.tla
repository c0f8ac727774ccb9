------------------------------ MODULE Tracking ------------------------------
(***************************************************************************)
(* What the pages make of the rows of Escrow: the buyer's tracking page,   *)
(* the dispute form, the buyer's and the admin's view of a dispute and the *)
(* admin queue.  A page is rendered from one read of the rows; it keeps no *)
(* state, so it is a function of them.                                     *)
(*                                                                         *)
(* People act on what they read there: the properties are that money moves *)
(* as the pages say.                                                       *)
(***************************************************************************)
EXTENDS Escrow

Stageless == {"DISPUTED", "REFUNDED"}

\* The five stages a buyer is shown; the two terminal panels have none.
StageFor(s) ==
    CASE s = "PAID" -> 0
      [] s = "PREPARING" -> 1
      [] s = "PICKED_UP" -> 2
      [] s \in {"OUT_FOR_DELIVERY", "ARRIVED"} -> 3
      [] OTHER -> 4

\* The link of the last stage, beside "Escrow releases in 24 hours", and the
\* form behind it.
ShowDisputeLink(s) == s \notin Stageless /\ StageFor(s) = 4
ShowDisputeForm(s) == s \in Disputable

OpenStatuses == Unresolved
ResolvedStatuses == Resolved

\* A dispute as its page shows it to the buyer: the holds that name it.
FrozenIn(d) == {h \in Holds : hold[h] = "HELD_DISPUTED" /\ holdDispute[h] = d}

\* The disputes behind the queue's default filter.
AdminQueue == {d \in Disputes : dispute[d] \in OpenStatuses}

\* The holds its page counts, of the holds of its order.
AdminFrozenIn(d) == {h \in HoldsOf(disputeOrder[d]) : h \in FrozenIn(d)}

ShowResolution(d) == dispute[d] # "NONE" /\ dispute[d] \notin ResolvedStatuses

-----------------------------------------------------------------------------
(* Properties.                                                             *)

\* What the tracking page says of the money of an order: not the seller's
\* before the code is verified at the door (stages 0 to 3), and for the
\* window after that (stage 4).
StillPromised(o) ==
    LET s == status[o] IN
    /\ ShowDisputeForm(s)
    /\ IF ShowDisputeLink(s) THEN now + TxTimeout < firstDelivered[o] + Window
       ELSE firstDelivered[o] = Never

\* "Your seller(s) will be paid automatically unless you open a dispute [...]
\* within the next 24 hours": the first dispute of an order, when it commits
\* in that time, freezes all its money, whatever the release sweep did between
\* the reads of createDispute and its transaction.  (The time is short of the
\* window by the life of the transaction that confirmed the delivery.)
TimelyFreeze ==
    \A o \in Orders :
        DisputesOf(o) = {} /\ DisputesOf(o)' # {} /\ StillPromised(o) =>
            \A h \in HoldsOf(o) : hold'[h] = "HELD_DISPUTED"

DisputeInTimeFreezes == [][TimelyFreeze]_vars

\* Frozen money is always on somebody's desk: whatever disputes, sweeps and
\* resolutions raced, a frozen hold is counted on the page of a dispute that
\* is in the admins' queue and offers them a resolution; and so is a dispute
\* of every order that is DISPUTED.
FrozenIsListed ==
    /\ \A h \in Holds :
          hold[h] = "HELD_DISPUTED" =>
              \E d \in AdminQueue : h \in AdminFrozenIn(d) /\ ShowResolution(d)
    /\ \A o \in Orders :
          status[o] = "DISPUTED" =>
              \E d \in AdminQueue : disputeOrder[d] = o /\ ShowResolution(d)

\* From the dispute form, "Your payment stays frozen in escrow - sellers are
\* NOT paid", and the panel of a DISPUTED order, "Money stays in escrow
\* until it's resolved".
DisputedIsFrozen ==
    \A h \in Holds :
        status[OrderOf[h]] = "DISPUTED" => hold[h] = "HELD_DISPUTED"
=============================================================================
