--------------------------- MODULE DeliveryProof ----------------------------
(***************************************************************************)
(* recordDeliveryProof (lib/delivery-proof.ts): a driver's app submits a   *)
(* photo for a delivery; the row is read and checked, the bytes go to the  *)
(* object store, and a guarded update completes the delivery. The app may  *)
(* submit twice, and a request may die between any two steps. Which photo  *)
(* it is does not matter; when it was taken does.                          *)
(***************************************************************************)
EXTENDS Integers, FiniteSets

CONSTANTS Submissions,    \* concurrent calls; each uploads under a key of its own
          NoKey,
          Skew,           \* FUTURE_SKEW_MS
          ProofHorizon    \* bound on the clock

ASSUME ProofAssumption ==
  NoKey \notin Submissions /\ Skew \in Nat /\ ProofHorizon \in Nat

Clock == 0 .. ProofHorizon

VARIABLES clock,
          delivery,   \* the row: status, arrived_at, photo key and its capture time
          submit,     \* a call: its step and the capture time it was given
          bucket,     \* keys stored
          dropped     \* history: keys whose call died or failed to clean up

proofVars == <<clock, delivery, submit, bucket, dropped>>

ProofInit == /\ clock = 0
             /\ delivery = [status |-> "EN_ROUTE", arrived |-> 0, photo |-> NoKey, taken |-> 0]
             /\ submit = [d \in Submissions |-> [step |-> "idle", taken |-> 0]]
             /\ bucket = {} /\ dropped = {}

AtStep(d, step) == submit[d].step = step
To(d, step) == submit' = [submit EXCEPT ![d].step = step]

ClockTicks == /\ clock < ProofHorizon /\ clock' = clock + 1
              /\ UNCHANGED <<delivery, submit, bucket, dropped>>

(* The driver's arrival is recorded elsewhere.                             *)
DriverArrives == /\ delivery.status = "EN_ROUTE"
                 /\ delivery' = [delivery EXCEPT !.status = "ARRIVED", !.arrived = clock]
                 /\ UNCHANGED <<clock, submit, bucket, dropped>>

(* validateProofMetadata, and the check against the arrival. Coordinates   *)
(* and bytes are either acceptable or the call ends without an effect.     *)
ValidateProofMetadata(taken) == taken <= clock + Skew
SinceArrival(taken) == taken >= delivery.arrived - Skew

(* Mutated Check: the arrival is not compared.                              *)
CheckAnyTime(d, taken) ==
  /\ AtStep(d, "idle")
  /\ submit' = [submit EXCEPT ![d] =
        [step |-> IF /\ delivery.photo = NoKey /\ delivery.status = "ARRIVED"
                     /\ ValidateProofMetadata(taken)
                  THEN "upload" ELSE "done", taken |-> taken]]
  /\ UNCHANGED <<clock, delivery, bucket, dropped>>

Check(d, taken) ==
  /\ AtStep(d, "idle")
  /\ submit' = [submit EXCEPT ![d] =
        [step |-> IF /\ delivery.photo = NoKey /\ delivery.status = "ARRIVED"
                     /\ ValidateProofMetadata(taken) /\ SinceArrival(taken)
                  THEN "upload" ELSE "done", taken |-> taken]]
  /\ UNCHANGED <<clock, delivery, bucket, dropped>>

(* Upload first: a row never points at bytes that are not there.           *)
Upload(d) == /\ AtStep(d, "upload")
             /\ bucket' = bucket \cup {d}
             /\ To(d, "record")
             /\ UNCHANGED <<clock, delivery, dropped>>

Record(d) ==
  /\ AtStep(d, "record")
  /\ IF delivery.photo = NoKey /\ delivery.status = "ARRIVED"
     THEN /\ delivery' = [delivery EXCEPT !.photo = d, !.taken = submit[d].taken,
                                          !.status = "COMPLETED"]
          /\ To(d, "done")
     ELSE To(d, "cleanup") /\ UNCHANGED delivery
  /\ UNCHANGED <<clock, bucket, dropped>>

(* deleteObject of the loser's key; a failure is swallowed.                *)
CleanUp(d) == /\ AtStep(d, "cleanup") /\ To(d, "done")
              /\ \/ bucket' = bucket \ {d} /\ UNCHANGED dropped
                 \/ dropped' = dropped \cup {d} /\ UNCHANGED bucket
              /\ UNCHANGED <<clock, delivery>>

CallDies(d) == /\ submit[d].step \in {"upload", "record", "cleanup"}
               /\ To(d, "done")
               /\ dropped' = dropped \cup {d}
               /\ UNCHANGED <<clock, delivery, bucket>>

ProofNext == \/ ClockTicks \/ DriverArrives
             \/ \E d \in Submissions : \/ \E taken \in Clock : Check(d, taken)
                                       \/ Upload(d) \/ Record(d) \/ CleanUp(d) \/ CallDies(d)

ProofSpec == ProofInit /\ [][ProofNext]_proofVars

-----------------------------------------------------------------------------
(* A recorded photo is stored, and it is of this delivery: taken no        *)
(* earlier than the driver's arrival and not in the future, give or take   *)
(* the skew, however late the call that recorded it was. Once every call   *)
(* is over the store holds, beside it, only what a call that died or could *)
(* not clean up left.                                                      *)
ProofIsGenuine ==
  /\ delivery.photo # NoKey =>
        /\ delivery.status = "COMPLETED"
        /\ delivery.photo \in bucket
        /\ delivery.taken >= delivery.arrived - Skew
        /\ delivery.taken <= clock + Skew
  /\ (\A d \in Submissions : submit[d].step \in {"idle", "done"}) =>
        bucket \subseteq {delivery.photo} \cup dropped
=============================================================================
