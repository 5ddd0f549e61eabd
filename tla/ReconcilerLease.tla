--------------------------- MODULE ReconcilerLease ---------------------------
(***************************************************************************)
(* The lease of the Store reconciler (reconciliation.rs): run_once takes   *)
(* the store_reconciler row, gets a new epoch, and then does its work in   *)
(* transactions that first check owner, epoch and expiry (validate_fence). *)
(* A run never renews its lease; it computes the time for a check before   *)
(* it waits for the transaction, and two runs may share one owner id.      *)
(***************************************************************************)
EXTENDS Integers

CONSTANTS Owner,    \* opaque owner ids
          NoOwner,  \* the empty owner id of the initial row
          Run,      \* invocations of run_once
          OwnerOf,  \* the owner id a run is started with
          Skew,     \* how far ahead of true time the clock of an owner is
          Lease,    \* LEASE_SECONDS
          MaxTime,  \* bound: true time explored
          MaxEpoch  \* bound: runs started

ASSUME LeaseConstants ==
  /\ NoOwner \notin Owner
  /\ OwnerOf \in [Run -> Owner]
  /\ Skew \in [Owner -> Nat]
  /\ Lease \in Nat /\ MaxTime \in Nat /\ MaxEpoch \in Nat

VARIABLES time,   \* true time
          lease,  \* the store_reconciliation_leases row
          run,    \* progress of each run
          written \* epoch of the last fenced transaction that committed

leaseVars == <<time, lease, run, written>>

Idle == [st |-> "idle", epoch |-> 0, now |-> 0]

(* TypeOK: the lease row and the local variables of a run.                 *)
TypeOK ==
  /\ time \in Nat
  /\ lease \in [owner : Owner \cup {NoOwner}, epoch : Nat, expires : Nat]
  /\ run \in [Run -> [st : {"idle", "scan", "fence"}, epoch : Nat, now : Nat]]
  /\ written \in Nat

Init ==
  /\ time = 0
  /\ lease = [owner |-> NoOwner, epoch |-> 0, expires |-> 0]
  /\ run = [r \in Run |-> Idle]
  /\ written = 0

Now(o) == time + Skew[o]

NextEpoch(o) == lease.epoch + 1

AcquireLease(r) ==
  LET o == OwnerOf[r]
  IN  /\ run[r].st = "idle"
      /\ lease.epoch < MaxEpoch
      /\ ~(lease.owner # NoOwner /\ lease.owner # o /\ lease.expires > Now(o))
      /\ lease' = [owner |-> o, epoch |-> NextEpoch(o),
                   expires |-> Now(o) + Lease]
      /\ run' = [run EXCEPT ![r] =
                   [st |-> "scan", epoch |-> NextEpoch(o), now |-> Now(o)]]
      /\ UNCHANGED <<time, written>>

(* reconciliation_now: read before the transaction is begun.               *)
ReadFenceClock(r) ==
  /\ run[r].st = "scan"
  /\ run' = [run EXCEPT ![r].st = "fence", ![r].now = Now(OwnerOf[r])]
  /\ UNCHANGED <<time, lease, written>>

(* Fault: owner and expiry are checked, the epoch is not.                  *)
ValidateOwnerOnly(r) == lease.owner = OwnerOf[r] /\ lease.expires > run[r].now

ValidateFence(r) ==
  /\ lease.owner = OwnerOf[r]
  /\ lease.epoch = run[r].epoch
  /\ lease.expires > run[r].now

(* A fenced transaction; LeaseLost ends the run.                           *)
FencedWrite(r) ==
  /\ run[r].st = "fence"
  /\ \/ /\ ValidateFence(r)
        /\ written' = run[r].epoch
        /\ run' = [run EXCEPT ![r].st = "scan"]
     \/ /\ ~ValidateFence(r)
        /\ run' = [run EXCEPT ![r] = Idle]
        /\ UNCHANGED written
  /\ UNCHANGED <<time, lease>>

(* The run has no candidate left, fails, or its process stops.             *)
EndRun(r) ==
  /\ run[r].st # "idle"
  /\ run' = [run EXCEPT ![r] = Idle]
  /\ UNCHANGED <<time, lease, written>>

Tick ==
  /\ time < MaxTime
  /\ time' = time + 1
  /\ UNCHANGED <<lease, run, written>>

Next ==
  \/ Tick
  \/ \E r \in Run :
       AcquireLease(r) \/ ReadFenceClock(r) \/ FencedWrite(r) \/ EndRun(r)

Spec == Init /\ [][Next]_leaseVars

-----------------------------------------------------------------------------
(* Once a fenced transaction of a newer run has committed, none of an      *)
(* older run does, whatever the clocks say, however long the older run     *)
(* was stalled and also when both runs use one owner id (SB-OP-1).         *)
StaleRunNeverWrites == [][written' >= written]_leaseVars

(* At most one of the runs under way could pass the check of a fenced      *)
(* transaction.                                                            *)
OneLiveRun ==
  \A r, s \in Run :
    /\ run[r].st # "idle" /\ ValidateFence(r)
    /\ run[s].st # "idle" /\ ValidateFence(s)
    => r = s

(* The inductive invariant: epochs are handed out once and never ahead of  *)
(* the lease row.                                                          *)
LeaseInv ==
  /\ TypeOK
  /\ written <= lease.epoch
  /\ \A r \in Run : run[r].st # "idle" => run[r].epoch <= lease.epoch
  /\ \A r, s \in Run :
       /\ run[r].st # "idle" /\ run[s].st # "idle"
       /\ run[r].epoch = run[s].epoch
       => r = s
=============================================================================
