-------------------------- MODULE ReplicaMetering --------------------------
(***************************************************************************)
(* Charges of a Replica (replica/metering.rs).  A charge is a delta file   *)
(* in the spool; the ship loop posts the oldest files together with the    *)
(* buffered last-used pairs, the Primary applies a batch in one            *)
(* transaction keyed by delta id, and only an answered batch is released.  *)
(* The in-memory pending counter makes the balance preflight see charges   *)
(* the Primary has not applied yet.  Batches and answers may be lost, late *)
(* or repeated, the process may stop, and a graceful stop ships once more  *)
(* beside the loop (main.rs).                                              *)
(*                                                                         *)
(* One user is charged.  Plan terminals travel in the same batch and are   *)
(* modelled in PlanAdmission; request logs in RequestLogSpool.             *)
(***************************************************************************)
EXTENDS Integers, Sequences, FiniteSets, FiniteSetsExt

CONSTANTS Delta,      \* charges
          AmountOf,   \* amount_nano_usd of a charge
          ApiKey,     \* API keys whose last use is recorded
          ShipMax,    \* ship_batch_max
          MaxPost,    \* bound: batches under way
          MaxRestart  \* bound: restarts of the Replica

ASSUME MeteringConstants ==
  /\ IsFiniteSet(Delta)
  /\ AmountOf \in [Delta -> Nat \ {0}]
  /\ ShipMax \in Nat \ {0} /\ MaxPost \in Nat \ {0}
  /\ MaxRestart \in Nat

VARIABLES charge,   \* progress of enqueue_balance_delta
          files,    \* the delta spool, oldest first
          entry,    \* whether PendingDeductions has an entry for the user
          pending,  \* the amount of that entry, 0 without one
          late,     \* history: charges counted between zero and the removal
          ledger,   \* Primary: billing_ledger rows of the deltas
          debited,  \* Primary: what was subtracted from the balance
          shipper,  \* progress of ship_once, of the loop and of final_ship
          post,     \* batches under way
          buffer,   \* LastUsedBatcher
          stamped,  \* Primary: keys whose last_used_at was written
          touched,  \* history: keys recorded since the start of the process
          forgot,   \* history: keys in hand when the terminal spool failed
          phase, restarts

pendingVars == <<entry, pending, late>>

meterVars == <<charge, files, entry, pending, late, ledger, debited, shipper,
               post, buffer, stamped, touched, forgot, phase, restarts>>

Shipper  == {"loop", "final"}
AtRest   == [st |-> "idle", batch |-> <<>>, keys |-> {}]
Elems(q) == {q[i] : i \in DOMAIN q}
Total(S) == MapThenSumSet(LAMBDA d : AmountOf[d], S)
Without(q, S) ==
  LET kept[n \in 0..Len(q)] ==
        IF n = 0 THEN <<>>
        ELSE IF q[n] \in S THEN kept[n - 1] ELSE Append(kept[n - 1], q[n])
  IN  kept[Len(q)]

Body == [deltas : SUBSET Delta, keys : SUBSET ApiKey]

(* MeterTypeOK: types; every file is a published delta, and once.          *)
MeterTypeOK ==
  /\ charge \in [Delta -> {"none", "published", "counted"}]
  /\ files \in Seq(Delta)
  /\ \A i, j \in DOMAIN files : files[i] = files[j] => i = j
  /\ \A d \in Elems(files) : charge[d] # "none"
  /\ entry \in BOOLEAN /\ pending \in Int /\ debited \in Nat
  /\ ~entry => pending = 0
  /\ late \subseteq {d \in Delta : charge[d] = "counted"}
  /\ ledger \subseteq Delta
  /\ shipper \in [Shipper -> [st : {"idle", "load", "wait", "release",
                                    "subtract", "remove"},
                              batch : Seq(Delta), keys : SUBSET ApiKey]]
  /\ post \subseteq Body
  /\ buffer \subseteq ApiKey /\ stamped \subseteq ApiKey
  /\ touched \subseteq ApiKey /\ forgot \subseteq ApiKey
  /\ phase \in {"serving", "stopping", "shipping", "primary"}
  /\ restarts \in 0..MaxRestart

MeterInit ==
  /\ charge = [d \in Delta |-> "none"] /\ files = <<>>
  /\ entry = FALSE /\ pending = 0 /\ late = {}
  /\ ledger = {} /\ debited = 0
  /\ shipper = [s \in Shipper |-> AtRest]
  /\ post = {} /\ buffer = {} /\ stamped = {} /\ touched = {} /\ forgot = {}
  /\ phase = "serving" /\ restarts = 0

-----------------------------------------------------------------------------
(* enqueue_balance_delta: the file is published ...                        *)
PublishDelta(d) ==
  /\ phase # "primary" /\ charge[d] = "none"
  /\ charge' = [charge EXCEPT ![d] = "published"]
  /\ files' = Append(files, d)
  /\ UNCHANGED <<pendingVars, ledger, debited, shipper, post, buffer, stamped,
                 touched, forgot, phase, restarts>>

(* ... and counted afterwards.                                             *)
CountDelta(d) ==
  /\ charge[d] = "published" /\ phase # "primary"
  /\ charge' = [charge EXCEPT ![d] = "counted"]
  /\ entry' = TRUE /\ pending' = pending + AmountOf[d]
  /\ late' = IF \E s \in Shipper : shipper[s].st = "remove"
             THEN late \cup {d} ELSE late
  /\ UNCHANGED <<files, ledger, debited, shipper, post, buffer, stamped,
                 touched, forgot, phase, restarts>>

RecordUse(k) ==
  /\ phase # "primary"
  /\ k \notin touched
  /\ touched' = touched \cup {k}
  /\ buffer' = buffer \cup {k}
  /\ UNCHANGED <<charge, files, pendingVars, ledger, debited, shipper, post,
                 stamped, forgot, phase, restarts>>

-----------------------------------------------------------------------------
(* ship_once: the last-used pairs are drained first, then the plan         *)
(* terminals are read.  final_ship does so once.                           *)
StartTick(s) ==
  /\ shipper[s].st = "idle"
  /\ phase # "primary"
  /\ s = "final" => phase = "stopping"
  /\ phase' = IF s = "final" THEN "shipping" ELSE phase
  /\ shipper' = [shipper EXCEPT ![s] =
                   [st |-> "load", batch |-> <<>>, keys |-> buffer]]
  /\ buffer' = {}
  /\ UNCHANGED <<charge, files, pendingVars, ledger, debited, post, stamped,
                 touched, forgot, restarts>>

(* load_pending_terminals fails: the tick ends without requeue_last_used.  *)
TerminalLoadFails(s) ==
  /\ shipper[s].st = "load"
  /\ forgot' = forgot \cup shipper[s].keys
  /\ shipper' = [shipper EXCEPT ![s] = AtRest]
  /\ UNCHANGED <<charge, files, pendingVars, ledger, debited, post, buffer,
                 stamped, touched, phase, restarts>>

(* load_batch, post_batch: an empty batch is only a heartbeat.             *)
PostBatch(s) ==
  /\ shipper[s].st = "load"
  /\ LET batch == SubSeq(files, 1, IF Len(files) < ShipMax THEN Len(files)
                                   ELSE ShipMax)
         keys  == shipper[s].keys
     IN  IF batch = <<>> /\ keys = {}
         THEN /\ shipper' = [shipper EXCEPT ![s] = AtRest]
              /\ UNCHANGED post
         ELSE /\ Cardinality(post) < MaxPost
              /\ shipper' = [shipper EXCEPT ![s] =
                    [st |-> "wait", batch |-> batch, keys |-> keys]]
              /\ post' = post \cup {[deltas |-> Elems(batch), keys |-> keys]}
  /\ UNCHANGED <<charge, files, pendingVars, ledger, debited, buffer, stamped,
                 touched, forgot, phase, restarts>>

(* Fault: a delta the ledger has is subtracted again.                      *)
EveryDelta(m) == m.deltas

(* apply_balance_delta changes a balance only with a new ledger row.       *)
NewDeltas(m) == m.deltas \ ledger

(* apply_metering_batch_tx.  The answer may be lost, the request repeated. *)
IngestBatch(m, answered, repeated) ==
  /\ m \in post
  /\ debited' = debited + Total(NewDeltas(m))
  /\ ledger' = ledger \cup m.deltas
  /\ stamped' = stamped \cup m.keys
  /\ post' = IF repeated THEN post ELSE post \ {m}
  /\ shipper' = [s \in Shipper |->
       IF /\ answered /\ shipper[s].st = "wait"
          /\ m = [deltas |-> Elems(shipper[s].batch), keys |-> shipper[s].keys]
       THEN [shipper[s] EXCEPT !.st = "release"] ELSE shipper[s]]
  /\ UNCHANGED <<charge, files, pendingVars, buffer, touched, forgot, phase,
                 restarts>>

BatchLost(m) ==
  /\ m \in post
  /\ post' = post \ {m}
  /\ UNCHANGED <<charge, files, pendingVars, ledger, debited, shipper, buffer,
                 stamped, touched, forgot, phase, restarts>>

(* Fault: a failed batch forgets the pairs it carried.                     *)
RequeueNothing(s) == buffer

RequeueLastUsed(s) == buffer \cup shipper[s].keys

(* A transport error, a timeout or another status.                         *)
PostFails(s) ==
  /\ shipper[s].st = "wait"
  /\ buffer' = RequeueLastUsed(s)
  /\ shipper' = [shipper EXCEPT ![s] = AtRest]
  /\ UNCHANGED <<charge, files, pendingVars, ledger, debited, post, stamped,
                 touched, forgot, phase, restarts>>

(* Fault: everything in the spool is released, not what was posted.        *)
ReleaseEverything(s) == <<>>

(* release of the posted files; a file that is gone already is no error.   *)
RemainingFiles(s) == Without(files, Elems(shipper[s].batch))

ReleaseFiles(s) ==
  /\ shipper[s].st = "release"
  /\ files' = RemainingFiles(s)
  /\ shipper' = [shipper EXCEPT ![s].st = "subtract", ![s].keys = {}]
  /\ UNCHANGED <<charge, pendingVars, ledger, debited, post, buffer, stamped,
                 touched, forgot, phase, restarts>>

(* Fault: what was released is forgotten as a whole.                       *)
PendingCleared(d) == 0

(* PendingDeductions::subtract: nothing happens without an entry.          *)
PendingWithout(d) == IF entry THEN pending - AmountOf[d] ELSE pending

(* At zero the guard of the entry is dropped before the entry is removed.  *)
SubtractPending(s) ==
  /\ shipper[s].st = "subtract"
  /\ LET batch == shipper[s].batch
     IN  IF batch = <<>>
         THEN /\ shipper' = [shipper EXCEPT ![s] = AtRest]
              /\ UNCHANGED pending
         ELSE /\ pending' = PendingWithout(Head(batch))
              /\ shipper' = [shipper EXCEPT
                   ![s].batch = Tail(batch),
                   ![s].st = IF entry /\ pending' = 0 THEN "remove"
                             ELSE "subtract"]
  /\ UNCHANGED <<charge, files, entry, late, ledger, debited, post, buffer,
                 stamped, touched, forgot, phase, restarts>>

(* The removal takes whatever was added since.                             *)
RemoveEntry(s) ==
  /\ shipper[s].st = "remove"
  /\ entry' = FALSE /\ pending' = 0
  /\ shipper' = [shipper EXCEPT ![s].st = "subtract"]
  /\ UNCHANGED <<charge, files, late, ledger, debited, post, buffer, stamped,
                 touched, forgot, phase, restarts>>

-----------------------------------------------------------------------------
(* A graceful stop: final_ship runs while the loop is still running.       *)
Stop ==
  /\ phase = "serving" /\ restarts < MaxRestart
  /\ phase' = "stopping"
  /\ UNCHANGED <<charge, files, pendingVars, ledger, debited, shipper, post,
                 buffer, stamped, touched, forgot, restarts>>

(* reconstruct_pending_amounts                                             *)
ReconstructPending == Total(Elems(files))

(* The process ends, or crashes anywhere, and starts again as a Replica.   *)
RestartReplica ==
  /\ restarts < MaxRestart /\ phase # "primary"
  /\ restarts' = restarts + 1
  /\ phase' = "serving"
  /\ entry' = (files # <<>>) /\ pending' = ReconstructPending /\ late' = {}
  /\ charge' = [d \in Delta |->
                  IF charge[d] = "none" THEN "none" ELSE "counted"]
  /\ shipper' = [s \in Shipper |-> AtRest]
  /\ buffer' = {} /\ touched' = {} /\ forgot' = {}
  /\ UNCHANGED <<files, ledger, debited, post, stamped>>

(* It starts as the Primary: drain_delta_spool_to_local_db.                *)
PromoteAndDrain ==
  /\ restarts < MaxRestart /\ phase # "primary"
  /\ restarts' = restarts + 1
  /\ phase' = "primary"
  /\ debited' = debited + Total(NewDeltas([deltas |-> Elems(files)]))
  /\ ledger' = ledger \cup Elems(files)
  /\ files' = <<>>
  /\ entry' = FALSE /\ pending' = 0 /\ late' = {}
  /\ shipper' = [s \in Shipper |-> AtRest]
  /\ buffer' = {} /\ touched' = {} /\ forgot' = {}
  /\ charge' = [d \in Delta |->
                  IF charge[d] = "none" THEN "none" ELSE "counted"]
  /\ UNCHANGED <<post, stamped>>

ShipperStep(s) ==
  StartTick(s) \/ PostBatch(s) \/ PostFails(s) \/ ReleaseFiles(s)
    \/ SubtractPending(s) \/ RemoveEntry(s)

MeterNext ==
  \/ \E d \in Delta : PublishDelta(d) \/ CountDelta(d)
  \/ \E k \in ApiKey : RecordUse(k)
  \/ \E s \in Shipper : ShipperStep(s) \/ TerminalLoadFails(s)
  \/ \E m \in post :
       BatchLost(m) \/ \E a, rep \in BOOLEAN : IngestBatch(m, a, rep)
  \/ Stop \/ RestartReplica \/ PromoteAndDrain

(* The loop ticks and in the end reads its terminals, a stopped Replica is *)
(* started again, no request stays under way for good, and a batch that is *)
(* posted again and again is answered again and again.                     *)
MeterFairness ==
  /\ WF_meterVars(ShipperStep("loop")) /\ SF_meterVars(PostBatch("loop"))
  /\ WF_meterVars(phase \in {"stopping", "shipping"} /\ RestartReplica)
  /\ WF_meterVars(\E m \in post : BatchLost(m))
  /\ SF_meterVars(\E m \in post :
        /\ shipper["loop"].st = "wait"
        /\ m.deltas = Elems(shipper["loop"].batch)
        /\ m.keys = shipper["loop"].keys
        /\ IngestBatch(m, TRUE, FALSE))

MeterSpec == MeterInit /\ [][MeterNext]_meterVars

FairMeterSpec == MeterSpec /\ MeterFairness

-----------------------------------------------------------------------------
Spooled == Elems(files)

Book ==
  INSTANCE ChargeLedger WITH
    Charge <- Delta,
    Amount <- {AmountOf[d] : d \in Delta},
    outcome <- [d \in Delta |->
      IF d \in ledger THEN "spent"
      ELSE IF charge[d] = "none" THEN "none"
      ELSE IF d \in Spooled THEN "open" ELSE "lost"],
    aside <- [d \in Delta |->
      IF d \in Spooled \ ledger THEN AmountOf[d] ELSE 0],
    held <- Total(Spooled \ ledger),
    spent <- debited

(* DeltaLedger: the deltas are the ledger of ChargeLedger: a published     *)
(* charge is debited exactly once, and its file leaves the spool only when *)
(* the Primary has it, whatever is lost, repeated, restarted or shipped    *)
(* twice.                                                                  *)
DeltaLedger == Book!Spec

(* Charges whose enqueue has not returned.                                 *)
InFlight == {d \in Delta : charge[d] = "published"}

(* PreflightSeesCharges: the pending counter falls short of the charges    *)
(* still spooled by no more than those whose enqueue has not returned and  *)
(* those counted while the loop was between bringing the entry to zero and *)
(* removing it: nothing else a tick, a restart, a lost answer or a repeated*)
(* batch does hides a charge from the preflight.                           *)
PreflightSeesCharges ==
  phase = "serving" => pending + Total(InFlight \cup late) >= Total(Spooled)

(* OverspendInFlightOnly: what M8 says of the preflight: only charges in   *)
(* flight may be missing from the counter.                                 *)
OverspendInFlightOnly ==
  phase = "serving" => pending + Total(InFlight) >= Total(Spooled)

(* LastUseKept: a recorded use is in the buffer, under way or written;     *)
(* only a tick whose read of the terminal spool failed forgets it (M5).    *)
LastUseKept ==
  \A k \in touched :
    \/ k \in buffer \cup stamped \cup forgot
    \/ \E s \in Shipper : k \in shipper[s].keys

(* ChargedEventually: a published charge reaches the Primary, unless the   *)
(* Replica is stopped for good.                                            *)
ChargedEventually ==
  \A d \in Delta : (charge[d] # "none") ~> (d \in ledger)
=============================================================================
