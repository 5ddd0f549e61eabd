--------------------------- MODULE StoreRetention ---------------------------
(***************************************************************************)
(* Retention of payment evidence (store_billing/retention.rs) under the    *)
(* lease of the Store Primary (store_billing/availability.rs).             *)
(*                                                                         *)
(* A process takes the lease at its start under an owner id of its own,    *)
(* renews it, and stops when a renewal fails.  The daily job and the Admin *)
(* endpoint validate the lease once and then run: read the time and the    *)
(* policy, claim the run, delete in one transaction, or record the         *)
(* failure.  Between these steps the process may stall past its lease, so  *)
(* the runs of two Primaries meet.  Time is relative: left is what remains *)
(* of the lease.  Which records a run selects (their age, the policy, the  *)
(* legal holds, the batch size) is left open: it deletes any set of those  *)
(* that remain.                                                            *)
(***************************************************************************)
EXTENDS Naturals, FiniteSets

CONSTANTS Evidence,      \* records past their retention period
          PrimaryTtl,    \* the lease, in units of time
          PrimarySafety, \* what must be left of it for a renewal
          FailureLimit,  \* failures in a row that pause checkout
          MaxProcesses, MaxRuns, MaxJobs \* bounds: starts, runs, runs at a time

ASSUME RetentionConstants ==
  /\ MaxProcesses \in Nat /\ MaxRuns \in Nat /\ MaxJobs \in Nat
  /\ PrimaryTtl \in Nat \ {0} /\ PrimarySafety \in Nat
  /\ FailureLimit \in Nat \ {0}

VARIABLES
  primary,   \* the row of store_primary_leases
  process,   \* processes, with the epoch each acquired
  job,       \* what a request or the daily job remembers of its run
  retRun,    \* rows of store_retention_runs
  retState,  \* the row of store_retention_state
  kept,      \* evidence still stored
  erasedBy,  \* history: the run that deleted a record
  failed,    \* history: runs recorded as failed since the last success
  contained  \* history: whether a containment followed the last failure

retVars == <<primary, process, job, retRun, retState, kept,
             erasedBy, failed, contained>>

(* Owner and run ids are new for each; here they are numbered in the order *)
(* of their first use.                                                     *)
Process   == 1..MaxProcesses
RetRun    == 1..MaxRuns
NoProcess == 0
NoRun     == 0

Job(at, p, policy) == [at |-> at, by |-> p, policy |-> policy]
NoJob == Job("none", NoProcess, "none")
Ended == Job("done", NoProcess, "none")

JobRow == [at : {"none", "validated", "timed", "claimed", "failing", "done"},
           by : Process \cup {NoProcess}, policy : {"none", "current", "unusable"}]

StateOf(current, owner, failures, checkout, alert) ==
  [current |-> current, owner |-> owner, failures |-> failures,
   checkout |-> checkout, alert |-> alert]

StateRow == [current : RetRun \cup {NoRun}, owner : Process \cup {NoProcess},
             failures : Nat, checkout : {"open", "paused"},
             alert : {"none", "active"}]

(* RetTypeOK: the rows have their types, and nothing is known of a run     *)
(* before it is claimed.                                                   *)
RetTypeOK ==
  /\ primary \in [owner : Process \cup {NoProcess}, epoch : Nat, left : 0..PrimaryTtl]
  /\ process \in [Process -> [st : {"down", "up", "lost", "gone"}, epoch : Nat]]
  /\ job \in [RetRun -> JobRow]
  /\ retRun \in [RetRun -> [st : {"none", "running", "succeeded", "failed"},
                            owner : Process \cup {NoProcess}]]
  /\ retState \in StateRow
  /\ kept \subseteq Evidence
  /\ erasedBy \in [Evidence -> RetRun \cup {NoRun}]
  /\ failed \subseteq RetRun /\ contained \in BOOLEAN
  /\ \A r \in RetRun :
       job[r].at \in {"none", "validated", "timed"} => retRun[r].st = "none"

RetInit ==
  /\ primary = [owner |-> NoProcess, epoch |-> 0, left |-> 0]
  /\ process = [p \in Process |-> [st |-> "down", epoch |-> 0]]
  /\ job = [r \in RetRun |-> NoJob]
  /\ retRun = [r \in RetRun |-> [st |-> "none", owner |-> NoProcess]]
  /\ retState = StateOf(NoRun, NoProcess, 0, "open", "none")
  /\ kept = Evidence
  /\ erasedBy = [x \in Evidence |-> NoRun]
  /\ failed = {} /\ contained = FALSE

leaseOnly == <<job, retRun, retState, kept, erasedBy, failed, contained>>

-----------------------------------------------------------------------------
(* The lease of the Store Primary.                                         *)

(* validate_token, and the flag of a failed renewal.                       *)
ValidLease(p) ==
  /\ process[p].st = "up"
  /\ primary.owner = p /\ primary.epoch = process[p].epoch /\ primary.left > 0

(* A new owner takes an absent or an expired lease with the next epoch.    *)
AcquirePrimary(p) ==
  /\ process[p].st = "down" /\ \A q \in 1..(p - 1) : process[q].st # "down"
  /\ primary.owner = NoProcess \/ primary.left = 0
  /\ primary' = [owner |-> p, epoch |-> primary.epoch + 1, left |-> PrimaryTtl]
  /\ process' = [process EXCEPT ![p] = [st |-> "up", epoch |-> primary.epoch + 1]]
  /\ UNCHANGED leaseOnly

RenewPrimary(p) ==
  /\ ValidLease(p) /\ primary.left > PrimarySafety
  /\ primary' = [primary EXCEPT !.left = PrimaryTtl]
  /\ UNCHANGED <<process, leaseOnly>>

(* The renewal was fenced, came too late or failed too often: the process  *)
(* asks for its shutdown, and what it has begun goes on.                   *)
RenewalFails(p) ==
  /\ process[p].st = "up"
  /\ process' = [process EXCEPT ![p].st = "lost"]
  /\ UNCHANGED <<primary, leaseOnly>>

LeaseRunsDown ==
  /\ primary.left > 0
  /\ primary' = [primary EXCEPT !.left = @ - 1]
  /\ UNCHANGED <<process, leaseOnly>>

StopProcess(p) ==
  /\ process[p].st \in {"up", "lost"}
  /\ process' = [process EXCEPT ![p].st = "gone"]
  /\ job' = [r \in RetRun |->
       IF job[r].by = p THEN Ended ELSE job[r]]
  /\ UNCHANGED <<primary, retRun, retState, kept, erasedBy, failed, contained>>

-----------------------------------------------------------------------------
(* A retention run.                                                        *)

(* The daily job and the Admin endpoint, once the lease is validated.      *)
BeginRun(r, p) ==
  /\ job[r].at = "none" /\ \A s \in 1..(r - 1) : job[s].at # "none"
  /\ Cardinality({s \in RetRun : job[s].at \notin {"none", "done"}}) < MaxJobs
  /\ ValidLease(p)
  /\ job' = [job EXCEPT ![r] = Job("validated", p, "none")]
  /\ UNCHANGED <<primary, process, retRun, retState, kept, erasedBy, failed, contained>>

(* run_at reads its time and looks for the policy in force.                *)
ReadPolicy(r, policy) ==
  /\ job[r].at = "validated"
  /\ job' = [job EXCEPT ![r] = Job("timed", job[r].by, policy)]
  /\ UNCHANGED <<primary, process, retRun, retState, kept, erasedBy, failed, contained>>

(* Fault: checkout is paused by the failure that reaches the limit, and by *)
(* none after a containment.                                               *)
CountedToLimit(s) ==
  IF s.failures + 1 = FailureLimit THEN StateOf(s.current, s.owner, s.failures + 1, "paused", "active")
  ELSE StateOf(s.current, s.owner, s.failures + 1, s.checkout, s.alert)

(* increment_failure_locked.                                               *)
Counted(s) ==
  IF s.failures + 1 >= FailureLimit THEN StateOf(s.current, s.owner, s.failures + 1, "paused", "active")
  ELSE StateOf(s.current, s.owner, s.failures + 1, s.checkout, s.alert)

(* The run rows after a claim: the run in progress is interrupted.         *)
Interrupted(r) == [x \in RetRun |->
  CASE x = r -> [st |-> "running", owner |-> job[r].by]
    [] x # r /\ x = retState.current /\ retRun[x].st = "running" ->
         [retRun[x] EXCEPT !.st = "failed"]
    [] OTHER -> retRun[x]]

(* claim_run_locked.  A run of the same owner refuses the claim, that of   *)
(* another owner is recorded as failed.                                    *)
ClaimRun(r) ==
  LET busy == retState.current # NoRun
      s == IF busy THEN Counted(retState) ELSE retState
  IN  /\ job[r].at = "timed"
      /\ ~(busy /\ retState.owner = job[r].by)
      /\ job' = [job EXCEPT ![r] = Job("claimed", job[r].by, job[r].policy)]
      /\ retRun' = Interrupted(r)
      /\ retState' = StateOf(r, job[r].by, s.failures, s.checkout, s.alert)
      /\ failed' = IF busy THEN failed \cup {retState.current} ELSE failed
      /\ contained' = (contained /\ ~busy)
      /\ UNCHANGED <<primary, process, kept, erasedBy>>

(* A refused claim, or a storage error before the claim is committed.      *)
AbandonRun(r) ==
  /\ job[r].at \in {"validated", "timed"}
  /\ job' = [job EXCEPT ![r] = Ended]
  /\ UNCHANGED <<primary, process, retRun, retState, kept, erasedBy, failed, contained>>

(* Fault: the deletions are committed although the claim was lost.         *)
ClaimIgnored(r) == TRUE

(* The UPDATE guarded by owner and state reached the row of the run.       *)
ClaimStands(r) == retRun[r].st = "running" /\ retRun[r].owner = job[r].by

Freed(s, n) == StateOf(NoRun, NoProcess, n, s.checkout, s.alert)

(* execute_success deletes a batch; a lost claim rolls it back.            *)
ExecuteSuccess(r, batch) ==
  /\ job[r].at = "claimed" /\ job[r].policy = "current" /\ ClaimStands(r)
  /\ batch \subseteq kept
  /\ job' = [job EXCEPT ![r] = Ended]
  /\ kept' = kept \ batch
  /\ erasedBy' = [x \in Evidence |-> IF x \in batch THEN r ELSE erasedBy[x]]
  /\ retRun' = [retRun EXCEPT ![r].st = IF retRun[r].st = "running" THEN "succeeded" ELSE @]
  /\ retState' = IF retState.current = r
                 THEN Freed(retState, 0) ELSE retState
  /\ failed' = IF retState.current = r THEN {} ELSE failed
  /\ UNCHANGED <<primary, process, contained>>

(* No usable policy, a storage error or a lost claim.                      *)
ExecuteFails(r) ==
  /\ job[r].at = "claimed"
  /\ job' = [job EXCEPT ![r] = Job("failing", job[r].by, job[r].policy)]
  /\ UNCHANGED <<primary, process, retRun, retState, kept, erasedBy, failed, contained>>

FinalizeFailure(r) ==
  /\ job[r].at = "failing" /\ ClaimStands(r)
  /\ job' = [job EXCEPT ![r] = Ended]
  /\ retRun' = [retRun EXCEPT ![r].st = "failed"]
  /\ retState' = LET s == Counted(retState)
                 IN  IF retState.current = r THEN Freed(s, s.failures) ELSE s
  /\ failed' = failed \cup {r} /\ contained' = FALSE
  /\ UNCHANGED <<primary, process, kept, erasedBy>>

(* The claim was lost, or the failure could not be stored: the row then    *)
(* stays in progress.                                                      *)
FinalizeRefused(r) ==
  /\ job[r].at = "failing"
  /\ job' = [job EXCEPT ![r] = Ended]
  /\ UNCHANGED <<primary, process, retRun, retState, kept, erasedBy, failed, contained>>

-----------------------------------------------------------------------------
(* The Admin contains the alert.  The request validated the lease when it  *)
(* arrived and may commit later.                                           *)
Serving == \E p \in Process : process[p].st \in {"up", "lost"}

Contain ==
  /\ retState.checkout = "paused" /\ retState.alert = "active" /\ Serving
  /\ retState' = StateOf(retState.current, retState.owner, retState.failures, "open", "none")
  /\ contained' = TRUE
  /\ UNCHANGED <<primary, process, job, retRun, kept, erasedBy, failed>>

RetNext ==
  \/ \E p \in Process :
       \/ AcquirePrimary(p) \/ RenewPrimary(p) \/ RenewalFails(p) \/ StopProcess(p)
       \/ \E r \in RetRun : BeginRun(r, p)
  \/ LeaseRunsDown
  \/ \E r \in RetRun :
       \/ \E policy \in {"current", "unusable"} : ReadPolicy(r, policy)
       \/ ClaimRun(r) \/ AbandonRun(r)
       \/ \E batch \in SUBSET Evidence : ExecuteSuccess(r, batch)
       \/ ExecuteFails(r) \/ FinalizeFailure(r) \/ FinalizeRefused(r)
  \/ Contain

RetSpec == RetInit /\ [][RetNext]_retVars

-----------------------------------------------------------------------------
(* One run at a time holds the claim, whatever stalled Primary comes back, *)
(* and only a run that succeeded has deleted anything: one that failed or  *)
(* was interrupted by the next Primary left every record (SB-PR-11G,       *)
(* SB-PR-11B).                                                             *)
OneRunDeletes ==
  /\ \A r \in RetRun : retRun[r].st = "running" <=> retState.current = r
  /\ \A x \in Evidence \ kept :
       erasedBy[x] \in RetRun /\ retRun[erasedBy[x]].st = "succeeded"

(* The count is that of the runs recorded as failed since the last         *)
(* success, interrupted ones included, and once it has reached the limit   *)
(* checkout is paused unless an Admin contained the last failure (SB-PR-12,*)
(* SB-PR-12B).                                                             *)
FailuresPause ==
  /\ retState.failures = Cardinality(failed)
  /\ retState.failures >= FailureLimit => retState.checkout = "paused" \/ contained
  /\ retState.checkout = "paused" <=> retState.alert = "active"

(* What makes the two inductive: a run is counted as failed once, because  *)
(* its row is no longer in progress.                                       *)
CountedOnce == \A r \in failed : retRun[r].st = "failed"
=============================================================================
