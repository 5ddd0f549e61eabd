-------------------------- MODULE StoreJobsProofs ---------------------------
(***************************************************************************)
(* The store beside its orders: the fencing of the reconciler, for any     *)
(* owners, runs, clocks and lease time; the retention job, for any number  *)
(* of processes, runs and records and any limit; and the balance of an     *)
(* agent, for any number of sales, withdrawals, fees and amounts.          *)
(***************************************************************************)
EXTENDS ReconcilerLease, StoreRetention, SalesBalance, SumTheorems,
        FiniteSetTheorems, TLAPS

(* An action of run_once or of the clock preserves the inductive           *)
(* invariant: each epoch is handed out once and none is ahead of the row.  *)
LEMMA LeaseStep == LeaseInv /\ [Next]_leaseVars => LeaseInv'
<1> SUFFICES ASSUME LeaseInv, [Next]_leaseVars PROVE LeaseInv'
  OBVIOUS
<1> USE LeaseConstants DEF LeaseInv, TypeOK
<1>1. CASE Tick
  BY <1>1 DEF Tick
<1>2. ASSUME NEW r \in Run, AcquireLease(r) PROVE LeaseInv'
  <2>0. Now(OwnerOf[r]) \in Nat
    BY DEF Now
  <2>1. TypeOK'
    BY <1>2, <2>0 DEF AcquireLease, NextEpoch
  <2>2. /\ lease'.epoch = lease.epoch + 1
        /\ written' = written
    BY <1>2 DEF AcquireLease, NextEpoch
  <2>3. \A s \in Run : s # r => run'[s] = run[s]
    BY <1>2 DEF AcquireLease, NextEpoch
  <2>4. run'[r].epoch = lease.epoch + 1
    BY <1>2 DEF AcquireLease, NextEpoch
  <2>5. \A s \in Run : run'[s].st # "idle" => run'[s].epoch <= lease'.epoch
    BY <2>1, <2>2, <2>3, <2>4
  <2>6. \A s \in Run : s # r /\ run'[s].st # "idle" => run'[s].epoch # run'[r].epoch
    BY <2>3, <2>4
  <2>7. \A s, t \in Run :
          /\ run'[s].st # "idle" /\ run'[t].st # "idle"
          /\ run'[s].epoch = run'[t].epoch
          => s = t
    BY <2>3, <2>6
  <2> QED
    BY <2>1, <2>2, <2>5, <2>7
<1>3. ASSUME NEW r \in Run, ReadFenceClock(r) PROVE LeaseInv'
  <2>1. Now(OwnerOf[r]) \in Nat
    BY DEF Now
  <2>2. /\ run' = [run EXCEPT ![r] = [@ EXCEPT !.st = "fence", !.now = Now(OwnerOf[r])]]
        /\ run[r].st = "scan" /\ UNCHANGED <<time, lease, written>>
    BY <1>3 DEF ReadFenceClock
  <2>3. TypeOK'
    BY <2>1, <2>2
  <2>4. \A s \in Run : run'[s].epoch = run[s].epoch /\ (run'[s].st = "idle" <=> run[s].st = "idle")
    BY <2>1, <2>2
  <2> QED
    BY <2>2, <2>3, <2>4
<1>4. ASSUME NEW r \in Run, FencedWrite(r) PROVE LeaseInv'
  <2>1. CASE ValidateFence(r)
    <3>1. /\ written' = lease.epoch /\ lease' = lease /\ time' = time
          /\ run' = [run EXCEPT ![r] = [@ EXCEPT !.st = "scan"]]
      BY <1>4, <2>1 DEF FencedWrite, ValidateFence
    <3>2. TypeOK'
      BY <3>1
    <3>3. \A s \in Run : run'[s].epoch = run[s].epoch
      BY <3>1
    <3>4. \A s \in Run : run'[s].st # "idle" => run[s].st # "idle"
      BY <1>4, <3>1 DEF FencedWrite
    <3> QED
      BY <3>1, <3>2, <3>3, <3>4
  <2>2. CASE ~ValidateFence(r)
    <3>1. /\ written' = written /\ lease' = lease /\ time' = time
          /\ run' = [run EXCEPT ![r] = Idle]
      BY <1>4, <2>2 DEF FencedWrite
    <3> QED
      BY <3>1 DEF Idle
  <2> QED
    BY <2>1, <2>2
<1>5. ASSUME NEW r \in Run, EndRun(r) PROVE LeaseInv'
  BY <1>5 DEF EndRun, Idle
<1>6. CASE UNCHANGED leaseVars
  BY <1>6 DEF leaseVars
<1> QED
  BY <1>1, <1>2, <1>3, <1>4, <1>5, <1>6 DEF Next

(* The inductive invariant holds in every reachable state.                 *)
THEOREM LeaseInvariant == Spec => []LeaseInv
<1>1. Init => LeaseInv
  BY LeaseConstants DEF Init, LeaseInv, TypeOK, Idle
<1> QED
  BY <1>1, LeaseStep, PTL DEF Spec

(* Only one run at a time can pass validate_fence, also among runs that    *)
(* share an owner id.                                                      *)
THEOREM AtMostOneLiveRun == Spec => []OneLiveRun
<1>1. LeaseInv => OneLiveRun
  BY DEF LeaseInv, OneLiveRun, ValidateFence
<1> QED
  BY <1>1, LeaseInvariant, PTL

(* No fenced transaction of an older run commits after one of a newer run. *)
THEOREM FencingOrdersWrites == Spec => StaleRunNeverWrites
<1>1. LeaseInv /\ [Next]_leaseVars => [written' >= written]_leaseVars
  <2> SUFFICES ASSUME LeaseInv, Next PROVE written' >= written
    BY DEF leaseVars
  <2>0. written \in Nat /\ written <= lease.epoch /\ lease.epoch \in Nat
    BY DEF LeaseInv, TypeOK
  <2>1. CASE Tick
    BY <2>0, <2>1 DEF Tick
  <2>2. ASSUME NEW r \in Run,
               AcquireLease(r) \/ ReadFenceClock(r) \/ FencedWrite(r) \/ EndRun(r)
        PROVE  written' >= written
    BY <2>0, <2>2
       DEF AcquireLease, NextEpoch, ReadFenceClock, FencedWrite, EndRun, ValidateFence
  <2> QED
    BY <2>1, <2>2 DEF Next
<1> QED
  BY <1>1, LeaseInvariant, PTL DEF Spec, StaleRunNeverWrites

-----------------------------------------------------------------------------
(* The inductive invariant.  The count of failures needs CountedOnce, and  *)
(* CountedOnce needs that the run in progress is the current one.          *)
RetInv == RetTypeOK /\ OneRunDeletes /\ FailuresPause /\ CountedOnce

(* The history of failed runs is finite, so its size can be counted.       *)
LEMMA FailedFinite == ASSUME failed \subseteq RetRun PROVE IsFiniteSet(failed)
<1>1. MaxRuns \in Nat /\ 1 \in Int /\ MaxRuns \in Int
  BY RetentionConstants
<1>2. IsFiniteSet(1..MaxRuns)
  BY <1>1, FS_Interval
<1> QED
  BY <1>2, FS_Subset DEF RetRun

(* A run not yet counted adds one to the count.                            *)
LEMMA OneMore ==
  ASSUME failed \subseteq RetRun, NEW r, r \notin failed
  PROVE  Cardinality(failed \cup {r}) = Cardinality(failed) + 1
BY FailedFinite, FS_AddElement

(* The first state: nothing is claimed, counted or deleted.                *)
LEMMA RetInitInv == RetInit => RetInv
<1> SUFFICES ASSUME RetInit PROVE RetInv
  OBVIOUS
<1>1. Cardinality({}) = 0
  BY FS_EmptySet
<1>2. RetTypeOK
  <2> USE RetentionConstants DEF RetInit, NoProcess, NoRun, Job, NoJob, StateOf
  <2>1. primary \in [owner : Process \cup {0}, epoch : Nat, left : 0..PrimaryTtl]
    OBVIOUS
  <2>2. process \in [Process -> [st : {"down", "up", "lost", "gone"}, epoch : Nat]]
    OBVIOUS
  <2>3. job \in [RetRun -> JobRow]
    BY DEF JobRow
  <2>4. retRun \in [RetRun -> [st : {"none", "running", "succeeded", "failed"},
                               owner : Process \cup {0}]]
    OBVIOUS
  <2>5. retState \in StateRow
    BY DEF StateRow
  <2>6. kept \subseteq Evidence /\ erasedBy \in [Evidence -> RetRun \cup {0}]
    OBVIOUS
  <2>7. failed \subseteq RetRun /\ contained \in BOOLEAN
    OBVIOUS
  <2>8. \A r \in RetRun : retRun[r].st = "none"
    OBVIOUS
  <2> QED
    BY <2>1, <2>2, <2>3, <2>4, <2>5, <2>6, <2>7, <2>8 DEF RetTypeOK
<1>3. OneRunDeletes
  BY RetentionConstants DEF RetInit, StateOf, OneRunDeletes, RetRun, NoRun
<1>4. FailuresPause
  BY <1>1, RetentionConstants DEF RetInit, StateOf, FailuresPause
<1>5. CountedOnce
  BY DEF RetInit, CountedOnce
<1> QED
  BY <1>2, <1>3, <1>4, <1>5 DEF RetInv

(* A failure that is counted keeps the state row well formed and raises    *)
(* the pause at the limit.                                                 *)
LEMMA CountedRow ==
  ASSUME retState \in StateRow, retState.checkout = "paused" <=> retState.alert = "active"
  PROVE  /\ Counted(retState) \in StateRow
         /\ Counted(retState).failures = retState.failures + 1
         /\ Counted(retState).current = retState.current
         /\ Counted(retState).owner = retState.owner
         /\ Counted(retState).failures >= FailureLimit => Counted(retState).checkout = "paused"
         /\ Counted(retState).checkout = "paused" <=> Counted(retState).alert = "active"
BY RetentionConstants DEF Counted, StateOf, StateRow

(* Every step keeps the types.                                             *)
LEMMA RetTypeStep == RetTypeOK /\ RetNext => RetTypeOK'
<1> SUFFICES ASSUME RetTypeOK, RetNext PROVE RetTypeOK'
  OBVIOUS
<1> USE RetentionConstants DEF RetTypeOK, NoProcess, NoRun, Job, StateOf
<1>1. CASE \E p \in Process : AcquirePrimary(p)
  BY <1>1 DEF AcquirePrimary, leaseOnly
<1>2. CASE \E p \in Process : RenewPrimary(p)
  BY <1>2 DEF RenewPrimary, leaseOnly
<1>3. CASE \E p \in Process : RenewalFails(p)
  BY <1>3 DEF RenewalFails, leaseOnly
<1>4. CASE LeaseRunsDown
  BY <1>4 DEF LeaseRunsDown, leaseOnly
<1>5. CASE \E p \in Process : StopProcess(p)
  BY <1>5 DEF StopProcess, Ended, NoJob, JobRow
<1>6. CASE \E p \in Process, r \in RetRun : BeginRun(r, p)
  BY <1>6 DEF BeginRun, NoJob, JobRow
<1>7. CASE \E r \in RetRun, policy \in {"current", "unusable"} : ReadPolicy(r, policy)
  BY <1>7 DEF ReadPolicy, JobRow
<1>8. ASSUME NEW r \in RetRun, ClaimRun(r) PROVE RetTypeOK'
  <2>1. Counted(retState) \in StateRow
    BY DEF Counted, StateRow
  <2>2. retState' \in StateRow
    BY <1>8, <2>1 DEF ClaimRun, StateRow, JobRow
  <2>3. retRun' \in [RetRun -> [st : {"none", "running", "succeeded", "failed"},
                                owner : Process \cup {0}]]
    BY <1>8 DEF ClaimRun, Interrupted, JobRow
  <2>4. job' \in [RetRun -> JobRow]
    BY <1>8 DEF ClaimRun, JobRow
  <2>5. failed' \subseteq RetRun
    BY <1>8 DEF ClaimRun, StateRow
  <2>6. ASSUME NEW s \in RetRun, job'[s].at \in {"none", "validated", "timed"}
        PROVE  retRun'[s].st = "none"
    <3>1. s # r /\ job'[s] = job[s]
      BY <1>8, <2>6 DEF ClaimRun, JobRow
    <3>2. retRun[s].st = "none"
      BY <2>6, <3>1
    <3> QED
      BY <1>8, <3>1, <3>2 DEF ClaimRun, Interrupted
  <2>7. contained' \in BOOLEAN
    BY <1>8 DEF ClaimRun
  <2> QED
    BY <1>8, <2>2, <2>3, <2>4, <2>5, <2>6, <2>7 DEF ClaimRun
<1>9. CASE \E r \in RetRun : AbandonRun(r)
  BY <1>9 DEF AbandonRun, Ended, NoJob, JobRow
<1>10. CASE \E r \in RetRun, batch \in SUBSET Evidence : ExecuteSuccess(r, batch)
  BY <1>10 DEF ExecuteSuccess, ClaimStands, Freed, Ended, NoJob, JobRow, StateRow
<1>11. CASE \E r \in RetRun : ExecuteFails(r)
  BY <1>11 DEF ExecuteFails, JobRow
<1>12. ASSUME NEW r \in RetRun, FinalizeFailure(r) PROVE RetTypeOK'
  <2>1. Counted(retState) \in StateRow
    BY DEF Counted, StateRow
  <2>2. retState' \in StateRow
    BY <1>12, <2>1 DEF FinalizeFailure, Freed, StateRow
  <2>3. job' \in [RetRun -> JobRow]
    BY <1>12 DEF FinalizeFailure, Ended, JobRow
  <2>4. retRun' \in [RetRun -> [st : {"none", "running", "succeeded", "failed"},
                                owner : Process \cup {0}]]
    BY <1>12 DEF FinalizeFailure
  <2>5. failed' \subseteq RetRun /\ contained' \in BOOLEAN
    BY <1>12 DEF FinalizeFailure
  <2>6. ASSUME NEW s \in RetRun, job'[s].at \in {"none", "validated", "timed"}
        PROVE  retRun'[s].st = "none"
    BY <1>12, <2>6 DEF FinalizeFailure, Ended
  <2> QED
    BY <1>12, <2>2, <2>3, <2>4, <2>5, <2>6 DEF FinalizeFailure
<1>13. CASE \E r \in RetRun : FinalizeRefused(r)
  BY <1>13 DEF FinalizeRefused, Ended, NoJob, JobRow
<1>14. CASE Contain
  BY <1>14 DEF Contain, StateRow
<1> QED
  BY <1>1, <1>2, <1>3, <1>4, <1>5, <1>6, <1>7, <1>8, <1>9, <1>10, <1>11, <1>12,
     <1>13, <1>14 DEF RetNext

(* Every step keeps the claim, the deletions and the count.                *)
LEMMA RetStep == RetInv /\ RetNext => RetInv'
<1> SUFFICES ASSUME RetInv, RetNext PROVE RetInv'
  OBVIOUS
<1> USE RetentionConstants
<1>t. RetTypeOK /\ RetTypeOK'
  BY RetTypeStep DEF RetInv
<1>i. /\ retState \in StateRow /\ failed \subseteq RetRun
      /\ retRun \in [RetRun -> [st : {"none", "running", "succeeded", "failed"},
                                owner : Process \cup {NoProcess}]]
      /\ job \in [RetRun -> JobRow] /\ kept \subseteq Evidence
      /\ erasedBy \in [Evidence -> RetRun \cup {NoRun}]
      /\ \A r \in RetRun :
           job[r].at \in {"none", "validated", "timed"} => retRun[r].st = "none"
  BY <1>t DEF RetTypeOK
<1>k. OneRunDeletes /\ FailuresPause /\ CountedOnce
  BY DEF RetInv
<1>n. NoRun \notin RetRun
  BY DEF NoRun, RetRun
<1>u. CASE UNCHANGED <<retRun, retState, kept, erasedBy, failed, contained>>
  BY <1>t, <1>k, <1>u DEF RetInv, OneRunDeletes, FailuresPause, CountedOnce
<1>1. CASE \E p \in Process : \/ AcquirePrimary(p) \/ RenewPrimary(p) \/ RenewalFails(p)
                             \/ StopProcess(p) \/ \E r \in RetRun : BeginRun(r, p)
  BY <1>1, <1>u DEF AcquirePrimary, RenewPrimary, RenewalFails, StopProcess, BeginRun, leaseOnly
<1>2. CASE LeaseRunsDown
  BY <1>2, <1>u DEF LeaseRunsDown, leaseOnly
<1>3. CASE \E r \in RetRun : \/ \E policy \in {"current", "unusable"} : ReadPolicy(r, policy)
                            \/ AbandonRun(r) \/ ExecuteFails(r) \/ FinalizeRefused(r)
  BY <1>3, <1>u DEF ReadPolicy, AbandonRun, ExecuteFails, FinalizeRefused
<1>4. ASSUME NEW r \in RetRun, ClaimRun(r) PROVE RetInv'
  <2>1. retRun[r].st = "none" /\ r \notin failed /\ r # retState.current
    BY <1>4, <1>i, <1>k DEF ClaimRun, OneRunDeletes, CountedOnce
  <2>2. retRun'[r].st = "running" /\ retState'.current = r
    BY <1>4, <1>i DEF ClaimRun, Interrupted, StateOf
  <2>3. ASSUME NEW s \in RetRun, s # r
        PROVE  retRun'[s].st = IF retRun[s].st = "running" THEN "failed" ELSE retRun[s].st
    <3>1. retRun[s].st = "running" <=> retState.current = s
      BY <1>k DEF OneRunDeletes
    <3>2. CASE retState.current = s
      BY <1>4, <1>i, <2>3, <3>1, <3>2 DEF ClaimRun, Interrupted
    <3>3. CASE retState.current # s
      BY <1>4, <1>i, <2>3, <3>1, <3>3 DEF ClaimRun, Interrupted
    <3> QED
      BY <3>2, <3>3
  <2>4. OneRunDeletes'
    <3>1. ASSUME NEW s \in RetRun PROVE retRun'[s].st = "running" <=> retState'.current = s
      BY <2>2, <2>3
    <3>2. ASSUME NEW x \in Evidence \ kept' PROVE erasedBy'[x] \in RetRun /\ retRun'[erasedBy'[x]].st = "succeeded"
      <4>1. x \in Evidence \ kept /\ erasedBy'[x] = erasedBy[x]
        BY <1>4 DEF ClaimRun
      <4>2. erasedBy[x] \in RetRun /\ retRun[erasedBy[x]].st = "succeeded"
        BY <1>k, <4>1 DEF OneRunDeletes
      <4> QED
        BY <2>1, <2>3, <4>1, <4>2
    <3> QED
      BY <3>1, <3>2 DEF OneRunDeletes
  <2>5. CASE retState.current # NoRun
    <3>1. /\ retState.current \in RetRun /\ retRun[retState.current].st = "running"
          /\ retState.current \notin failed
      BY <1>i, <1>k, <2>5 DEF StateRow, OneRunDeletes, CountedOnce
    <3>2. failed' = failed \cup {retState.current}
      BY <1>4, <2>5 DEF ClaimRun
    <3>3. Cardinality(failed') = Cardinality(failed) + 1
      BY <1>i, <3>1, <3>2, OneMore
    <3>4. /\ retState'.failures = Counted(retState).failures
          /\ retState'.checkout = Counted(retState).checkout
          /\ retState'.alert = Counted(retState).alert
      BY <1>4, <2>5 DEF ClaimRun, StateOf
    <3>5. FailuresPause'
      BY <1>i, <1>k, <3>3, <3>4, CountedRow DEF FailuresPause
    <3>6. CountedOnce'
      BY <1>i, <1>k, <2>1, <2>3, <3>1, <3>2 DEF CountedOnce
    <3> QED
      BY <1>t, <2>4, <3>5, <3>6 DEF RetInv
  <2>6. CASE retState.current = NoRun
    <3>1. failed' = failed /\ (contained => contained')
      BY <1>4, <2>6 DEF ClaimRun
    <3>2. /\ retState'.failures = retState.failures
          /\ retState'.checkout = retState.checkout
          /\ retState'.alert = retState.alert
      BY <1>4, <2>6 DEF ClaimRun, StateOf
    <3>3. FailuresPause'
      BY <1>k, <3>1, <3>2 DEF FailuresPause
    <3>4. CountedOnce'
      BY <1>i, <1>k, <2>1, <2>3, <3>1 DEF CountedOnce
    <3> QED
      BY <1>t, <2>4, <3>3, <3>4 DEF RetInv
  <2> QED
    BY <2>5, <2>6
<1>5. ASSUME NEW r \in RetRun, NEW batch \in SUBSET Evidence, ExecuteSuccess(r, batch)
      PROVE  RetInv'
  <2>1. retRun[r].st = "running" /\ retState.current = r
    BY <1>5, <1>k DEF ExecuteSuccess, ClaimStands, OneRunDeletes
  <2>2. retRun'[r].st = "succeeded" /\ \A s \in RetRun \ {r} : retRun'[s].st = retRun[s].st
    BY <1>5, <1>i, <2>1 DEF ExecuteSuccess
  <2>3. /\ retState'.current = NoRun /\ retState'.failures = 0
        /\ retState'.checkout = retState.checkout /\ retState'.alert = retState.alert
    BY <1>5, <2>1 DEF ExecuteSuccess, Freed, StateOf
  <2>4. failed' = {} /\ Cardinality({}) = 0
    BY <1>5, <2>1, FS_EmptySet DEF ExecuteSuccess
  <2>5. OneRunDeletes'
    <3>1. ASSUME NEW s \in RetRun PROVE retRun'[s].st = "running" <=> retState'.current = s
      BY <1>k, <1>n, <2>1, <2>2, <2>3 DEF OneRunDeletes
    <3>2. ASSUME NEW x \in Evidence \ kept' PROVE erasedBy'[x] \in RetRun /\ retRun'[erasedBy'[x]].st = "succeeded"
      <4>1. CASE x \in batch
        BY <1>5, <1>i, <2>2, <4>1 DEF ExecuteSuccess
      <4>2. CASE x \notin batch
        <5>1. x \in Evidence \ kept /\ erasedBy'[x] = erasedBy[x]
          BY <1>5, <1>i, <3>2, <4>2 DEF ExecuteSuccess
        <5>2. erasedBy[x] \in RetRun /\ retRun[erasedBy[x]].st = "succeeded"
          BY <1>k, <5>1 DEF OneRunDeletes
        <5> QED
          BY <2>2, <5>1, <5>2
      <4> QED
        BY <4>1, <4>2
    <3> QED
      BY <3>1, <3>2 DEF OneRunDeletes
  <2>6. FailuresPause'
    BY <1>k, <2>3, <2>4 DEF FailuresPause
  <2>7. CountedOnce'
    BY <2>4 DEF CountedOnce
  <2> QED
    BY <1>t, <2>5, <2>6, <2>7 DEF RetInv
<1>6. ASSUME NEW r \in RetRun, FinalizeFailure(r) PROVE RetInv'
  <2>1. retRun[r].st = "running" /\ retState.current = r /\ r \notin failed
    BY <1>6, <1>k DEF FinalizeFailure, ClaimStands, OneRunDeletes, CountedOnce
  <2>2. retRun'[r].st = "failed" /\ \A s \in RetRun \ {r} : retRun'[s].st = retRun[s].st
    BY <1>6, <1>i DEF FinalizeFailure
  <2>3. /\ retState'.current = NoRun /\ retState'.failures = Counted(retState).failures
        /\ retState'.checkout = Counted(retState).checkout
        /\ retState'.alert = Counted(retState).alert
    BY <1>6, <2>1 DEF FinalizeFailure, Freed, StateOf
  <2>4. failed' = failed \cup {r} /\ kept' = kept /\ erasedBy' = erasedBy
    BY <1>6 DEF FinalizeFailure
  <2>5. Cardinality(failed') = Cardinality(failed) + 1
    BY <1>i, <2>1, <2>4, OneMore
  <2>6. OneRunDeletes'
    <3>1. ASSUME NEW s \in RetRun PROVE retRun'[s].st = "running" <=> retState'.current = s
      BY <1>k, <1>n, <2>1, <2>2, <2>3 DEF OneRunDeletes
    <3>2. ASSUME NEW x \in Evidence \ kept' PROVE erasedBy'[x] \in RetRun /\ retRun'[erasedBy'[x]].st = "succeeded"
      <4>1. erasedBy[x] \in RetRun /\ retRun[erasedBy[x]].st = "succeeded"
        BY <1>k, <2>4 DEF OneRunDeletes
      <4> QED
        BY <2>1, <2>2, <2>4, <4>1
    <3> QED
      BY <3>1, <3>2 DEF OneRunDeletes
  <2>7. FailuresPause'
    BY <1>i, <1>k, <2>3, <2>5, CountedRow DEF FailuresPause
  <2>8. CountedOnce'
    BY <1>i, <1>k, <2>2, <2>4 DEF CountedOnce
  <2> QED
    BY <1>t, <2>6, <2>7, <2>8 DEF RetInv
<1>7. CASE Contain
  <2>1. /\ UNCHANGED <<retRun, kept, erasedBy, failed>> /\ contained'
        /\ retState'.current = retState.current /\ retState'.failures = retState.failures
        /\ retState'.checkout = "open" /\ retState'.alert = "none"
    BY <1>7 DEF Contain, StateOf
  <2> QED
    BY <1>t, <1>k, <2>1 DEF RetInv, OneRunDeletes, FailuresPause, CountedOnce
<1> QED
  BY <1>1, <1>2, <1>3, <1>4, <1>5, <1>6, <1>7 DEF RetNext

(* RetentionInvariant: the inductive invariant holds in every state, for   *)
(* any number of processes, runs and records (retention.rs).               *)
THEOREM RetentionInvariant == RetSpec => []RetInv
<1>1. RetInv /\ UNCHANGED retVars => RetInv'
  BY DEF retVars, RetInv, RetTypeOK, OneRunDeletes, FailuresPause, CountedOnce
<1> QED
  BY <1>1, RetInitInv, RetStep, PTL DEF RetSpec

(* ClaimsExclude: claim_run_locked and the guarded updates let one run at  *)
(* a time delete, whatever stalled Primary comes back, and a run that      *)
(* failed or was interrupted has deleted nothing.                          *)
THEOREM ClaimsExclude == RetSpec => []OneRunDeletes
BY RetentionInvariant, PTL DEF RetInv

(* FailuresCounted: increment_failure_locked counts every failed run once  *)
(* and keeps checkout paused at the limit until a containment.             *)
THEOREM FailuresCounted == RetSpec => []FailuresPause
BY RetentionInvariant, PTL DEF RetInv

-----------------------------------------------------------------------------
(* The commission balance of an agent.                                     *)

EntryRow == [st : {"none", "credited", "reversed"}, fee : Fee \cup {0}]

WithdrawalRow == [st : {"none", "requested", "paid", "rejected", "cancelled"},
                  sum : Amount \cup {0}]

Decision == {"paid", "rejected", "cancelled"}

OpenTx == [op : {"accrue", "claim", "reverse", "request"} \cup Decision,
           at : {"begun", "marked", "read"}, row : Row, sum : Fee \cup Amount \cup {0},
           seen : Int, hit : BOOLEAN]

SalesShape ==
  /\ entry \in [Sale -> EntryRow] /\ withdrawal \in [Withdrawal -> WithdrawalRow]
  /\ available \in Int
  /\ tx \in [Request -> OpenTx \cup {NoTx}]

(* The write lock: one transaction is open at a time.                      *)
OneOpen == \A r, q \in Request : Open(r) /\ Open(q) => r = q

(* What an open transaction has read still stands.                         *)
TxCurrent(t) ==
  /\ t.op \in {"accrue", "claim"} =>
       t.row \in Sale /\ entry[t.row].st = "none" /\ t.sum \in Fee
  /\ t.op = "reverse" =>
       /\ t.row \in Sale /\ entry[t.row].st = "credited" /\ entry[t.row].fee = t.sum
       /\ t.at # "begun" => t.hit
  /\ t.op = "request" =>
       t.row \in Withdrawal /\ withdrawal[t.row].st = "none" /\ t.sum \in Amount
  /\ t.op \in Decision =>
       /\ t.row \in Withdrawal /\ withdrawal[t.row].st = "requested"
       /\ withdrawal[t.row].sum = t.sum
       /\ t.at # "begun" => t.hit
  /\ t.at = "read" => t.seen = available /\ t.op # "paid"

SalesInv ==
  /\ SalesShape /\ OneOpen /\ (\A r \in Request : Open(r) => TxCurrent(tx[r]))
  /\ SettlementAddsUp

-----------------------------------------------------------------------------
(* What a row contributes to a figure of the settlement.                   *)
Worth(e) == IF e.st = "credited" THEN e.fee ELSE 0
WorthIn(st, x) == IF x.st = st THEN x.sum ELSE 0

Earned == [s \in Sale |-> IF entry[s].st = "credited" THEN entry[s].fee ELSE 0]
Asked(st) ==
  [w \in Withdrawal |-> IF withdrawal[w].st = st THEN withdrawal[w].sum ELSE 0]

LEMMA FenIsOf == \A S, f : FenOver(S, f) = SumOf(f, S)
BY DEF FenOver, SumOf

LEMMA Figures ==
  /\ AccruedMinor = SumOf(Earned, Sale)
  /\ AccruedMinor' = SumOf(Earned', Sale)
  /\ \A st : /\ WithdrawalsIn(st) = SumOf(Asked(st), Withdrawal)
             /\ WithdrawalsIn(st)' = SumOf(Asked(st)', Withdrawal)
BY FenIsOf DEF AccruedMinor, WithdrawalsIn, Earned, Asked

LEMMA AmountsNat ==
  /\ \A n \in Fee \cup {0} : n \in Nat
  /\ \A n \in Amount \cup {0} : n \in Nat
BY SalesConstants

LEMMA FiguresInt ==
  ASSUME SalesShape
  PROVE  /\ Ints(Earned, Sale) /\ AccruedMinor \in Int
         /\ \A st : Ints(Asked(st), Withdrawal) /\ WithdrawalsIn(st) \in Int
<1>1. Ints(Earned, Sale)
  <2>1. \A s \in Sale : entry[s].fee \in Nat
    BY AmountsNat DEF SalesShape, EntryRow
  <2> QED
    BY <2>1, SalesConstants DEF Earned, Ints
<1>2. \A st : Ints(Asked(st), Withdrawal)
  <2>1. \A w \in Withdrawal : withdrawal[w].sum \in Nat
    BY AmountsNat DEF SalesShape, WithdrawalRow
  <2> QED
    BY <2>1, SalesConstants DEF Asked, Ints
<1> QED
  BY <1>1, <1>2, SumInt, Figures

LEMMA EntryChanges ==
  ASSUME SalesShape, NEW s \in Sale, NEW e \in EntryRow, entry' = [entry EXCEPT ![s] = e]
  PROVE  AccruedMinor' = AccruedMinor + Worth(e) - Worth(entry[s])
<1>1. PICK f, g : f = Earned /\ g = Earned'
  OBVIOUS
<1>2. entry \in [Sale -> EntryRow]
  BY DEF SalesShape
<1>3. /\ g[s] = Worth(e) /\ f[s] = Worth(entry[s])
      /\ \A x \in Sale : x # s => g[x] = f[x]
  BY <1>1, <1>2 DEF Earned, Worth
<1>4. Ints(f, Sale) /\ g[s] \in Int
  <2>1. e.fee \in Nat
    BY AmountsNat DEF EntryRow
  <2> QED
    BY <1>1, <1>3, <2>1, FiguresInt DEF Worth
<1>5. SumOf(g, Sale) = SumOf(f, Sale) + g[s] - f[s]
  BY <1>3, <1>4, SumChange
<1> QED
  BY <1>1, <1>3, <1>5, Figures

LEMMA WithdrawalChanges ==
  ASSUME SalesShape, NEW w \in Withdrawal, NEW x \in WithdrawalRow,
         withdrawal' = [withdrawal EXCEPT ![w] = x], NEW st
  PROVE  WithdrawalsIn(st)' = WithdrawalsIn(st) + WorthIn(st, x) - WorthIn(st, withdrawal[w])
<1>1. PICK f, g : f = Asked(st) /\ g = Asked(st)'
  OBVIOUS
<1>2. withdrawal \in [Withdrawal -> WithdrawalRow]
  BY DEF SalesShape
<1>3. /\ g[w] = WorthIn(st, x) /\ f[w] = WorthIn(st, withdrawal[w])
      /\ \A y \in Withdrawal : y # w => g[y] = f[y]
  BY <1>1, <1>2 DEF Asked, WorthIn
<1>4. Ints(f, Withdrawal) /\ g[w] \in Int
  <2>1. x.sum \in Nat
    BY AmountsNat DEF WithdrawalRow
  <2> QED
    BY <1>1, <1>3, <2>1, FiguresInt DEF WorthIn
<1>5. SumOf(g, Withdrawal) = SumOf(f, Withdrawal) + g[w] - f[w]
  BY <1>3, <1>4, SumChange
<1> QED
  BY <1>1, <1>3, <1>5, Figures

LEMMA FiguresStay ==
  /\ UNCHANGED entry => AccruedMinor' = AccruedMinor
  /\ UNCHANGED withdrawal => \A st : WithdrawalsIn(st)' = WithdrawalsIn(st)
BY DEF AccruedMinor, WithdrawalsIn

-----------------------------------------------------------------------------
LEMMA SalesStarts == SalesInit => SalesInv
<1> SUFFICES ASSUME SalesInit PROVE SalesInv
  OBVIOUS
<1>1. SalesShape /\ OneOpen /\ (\A r \in Request : ~Open(r))
  BY DEF SalesInit, SalesShape, OneOpen, Open, EntryRow, WithdrawalRow
<1>2. AccruedMinor = 0
  <2>1. PICK f : f = Earned
    OBVIOUS
  <2>2. \A s \in Sale : f[s] = 0
    BY <2>1 DEF SalesInit, Earned
  <2>3. SumOf(f, Sale) = 0
    BY <2>2, SumZero, SalesConstants
  <2> QED
    BY <2>1, <2>3, Figures
<1>3. ASSUME NEW st, st # "none" PROVE WithdrawalsIn(st) = 0
  <2>1. PICK f : f = Asked(st)
    OBVIOUS
  <2>2. \A w \in Withdrawal : f[w] = 0
    BY <2>1, <1>3 DEF SalesInit, Asked
  <2>3. SumOf(f, Withdrawal) = 0
    BY <2>2, SumZero, SalesConstants
  <2> QED
    BY <2>1, <2>3, Figures
<1>4. SettlementAddsUp
  BY <1>2, <1>3 DEF SettlementAddsUp, SalesInit
<1> QED
  BY <1>1, <1>4 DEF SalesInv

(* A step that commits nothing: a transaction begins or goes on.           *)
LEMMA TxAdvances ==
  ASSUME SalesInv, UNCHANGED <<entry, withdrawal, available>>, NEW r \in Request,
         NEW t \in OpenTx, TxCurrent(t), tx' = [tx EXCEPT ![r] = t],
         \A q \in Request : q # r => ~Open(q)
  PROVE  SalesInv'
<1>1. SalesShape
  BY DEF SalesInv
<1>2. SalesShape'
  BY <1>1 DEF SalesShape
<1>3. tx'[r] = t /\ \A q \in Request : q # r => tx'[q] = tx[q]
  BY <1>1 DEF SalesShape
<1>4. \A q \in Request : Open(q)' => q = r
  BY <1>3 DEF Open, NoTx
<1>5. OneOpen'
  BY <1>4 DEF OneOpen
<1>6. \A q \in Request : Open(q)' => TxCurrent(tx[q])'
  <2>1. TxCurrent(tx[r])'
    BY <1>3 DEF TxCurrent
  <2> QED
    BY <1>4, <2>1
<1>7. SettlementAddsUp'
  BY FiguresStay DEF SettlementAddsUp, SalesInv
<1> QED
  BY <1>2, <1>5, <1>6, <1>7 DEF SalesInv

(* A step outside the open transactions, or the end of one.                *)
LEMMA TxEnds ==
  ASSUME SalesInv, UNCHANGED <<entry, withdrawal, available>>,
         tx' = tx \/ (\E r \in Request : tx' = [tx EXCEPT ![r] = NoTx])
  PROVE  SalesInv'
<1>1. SalesShape
  BY DEF SalesInv
<1>2. SalesShape' /\ \A q \in Request : tx'[q] = tx[q] \/ tx'[q] = NoTx
  BY <1>1 DEF SalesShape
<1>3. \A q \in Request : Open(q)' => Open(q) /\ tx'[q] = tx[q]
  BY <1>2 DEF Open
<1>4. OneOpen'
  BY <1>3 DEF OneOpen, SalesInv
<1>5. ASSUME NEW q \in Request, Open(q)' PROVE TxCurrent(tx[q])'
  BY <1>3, <1>5 DEF TxCurrent, SalesInv
<1>6. SettlementAddsUp'
  BY FiguresStay DEF SettlementAddsUp, SalesInv
<1> QED
  BY <1>2, <1>4, <1>5, <1>6 DEF SalesInv

LEMMA OthersClosed ==
  ASSUME SalesInv, NEW r \in Request, Open(r)
  PROVE  /\ \A q \in Request : q # r => ~Open(q)
         /\ tx[r] \in OpenTx /\ TxCurrent(tx[r])
BY DEF SalesInv, OneOpen, SalesShape, Open

LEMMA TxBegins ==
  ASSUME SalesInv, NEW r \in Request, NEW t \in OpenTx, TxCurrent(t), Sqlite, CanWrite,
         UNCHANGED <<entry, withdrawal, available>>, tx' = [tx EXCEPT ![r] = t]
  PROVE  SalesInv'
<1>1. \A q \in Request : ~Open(q)
  BY DEF CanWrite
<1> QED
  BY <1>1, TxAdvances

LEMMA BeginStep ==
  ASSUME SalesInv, Sqlite, NEW r \in Request
  PROVE  /\ \A s \in Sale, f \in Fee :
              AccrueSalesCommission(r, s, f) \/ ClaimOrder(r, s, f) => SalesInv'
         /\ \A s \in Sale : ReverseCommission(r, s) => SalesInv'
         /\ \A w \in Withdrawal, a \in Amount : RequestWithdrawal(r, w, a) => SalesInv'
         /\ \A w \in Withdrawal, to \in Decision : DecideWithdrawal(r, w, to) => SalesInv'
<1>0. SalesShape
  BY DEF SalesInv
<1>1. ASSUME NEW op \in {"claim", "reverse", "request"} \cup Decision, NEW row \in Row,
             NEW sum \in Fee \cup Amount \cup {0}, Begin(r, op, row, sum),
             NEW t, t = [op |-> op, at |-> "begun", row |-> row, sum |-> sum,
                         seen |-> 0, hit |-> FALSE],
             TxCurrent(t)
      PROVE  SalesInv'
  <2>1. t \in OpenTx
    BY <1>1 DEF OpenTx
  <2>2. CanWrite /\ UNCHANGED <<entry, withdrawal, available>> /\ tx' = [tx EXCEPT ![r] = t]
    BY <1>1 DEF Begin
  <2> QED
    BY <1>1, <2>1, <2>2, TxBegins
<1>2. ASSUME NEW s \in Sale, NEW f \in Fee, AccrueSalesCommission(r, s, f) PROVE SalesInv'
  <2>1. PICK t : t = [op |-> "accrue", at |-> "read", row |-> s, sum |-> f,
                      seen |-> available, hit |-> TRUE]
    OBVIOUS
  <2>2. t \in OpenTx /\ TxCurrent(t)
    BY <1>0, <1>2, <2>1 DEF OpenTx, Row, TxCurrent, AccrueSalesCommission, SalesShape, Decision
  <2>3. CanWrite /\ UNCHANGED <<entry, withdrawal, available>> /\ tx' = [tx EXCEPT ![r] = t]
    BY <1>2, <2>1 DEF AccrueSalesCommission
  <2> QED
    BY <2>2, <2>3, TxBegins
<1>3. ASSUME NEW s \in Sale, NEW f \in Fee, ClaimOrder(r, s, f) PROVE SalesInv'
  <2>1. PICK t : t = [op |-> "claim", at |-> "begun", row |-> s, sum |-> f,
                      seen |-> 0, hit |-> FALSE]
    OBVIOUS
  <2>2. TxCurrent(t) /\ s \in Row
    BY <1>3, <2>1 DEF Row, TxCurrent, ClaimOrder, Decision
  <2> QED
    BY <1>1, <1>3, <2>1, <2>2 DEF ClaimOrder
<1>4. ASSUME NEW s \in Sale, ReverseCommission(r, s) PROVE SalesInv'
  <2>1. PICK f : f = entry[s].fee
    OBVIOUS
  <2>2. PICK t : t = [op |-> "reverse", at |-> "begun", row |-> s, sum |-> f,
                      seen |-> 0, hit |-> FALSE]
    OBVIOUS
  <2>3. TxCurrent(t) /\ s \in Row
    BY <1>4, <2>1, <2>2 DEF Row, TxCurrent, ReverseCommission, Decision
  <2>4. Begin(r, "reverse", s, f)
    BY <1>4, <2>1 DEF ReverseCommission
  <2>5. f \in Fee \cup {0}
    BY <1>0, <2>1 DEF SalesShape, EntryRow
  <2> QED
    BY <1>1, <2>2, <2>3, <2>4, <2>5
<1>5. ASSUME NEW w \in Withdrawal, NEW a \in Amount, RequestWithdrawal(r, w, a) PROVE SalesInv'
  <2>1. PICK t : t = [op |-> "request", at |-> "begun", row |-> w, sum |-> a,
                      seen |-> 0, hit |-> FALSE]
    OBVIOUS
  <2>2. TxCurrent(t) /\ w \in Row
    BY <1>5, <2>1 DEF Row, TxCurrent, RequestWithdrawal, Decision
  <2> QED
    BY <1>1, <1>5, <2>1, <2>2 DEF RequestWithdrawal
<1>6. ASSUME NEW w \in Withdrawal, NEW to \in Decision, DecideWithdrawal(r, w, to) PROVE SalesInv'
  <2>1. PICK a : a = withdrawal[w].sum
    OBVIOUS
  <2>2. PICK t : t = [op |-> to, at |-> "begun", row |-> w, sum |-> a,
                      seen |-> 0, hit |-> FALSE]
    OBVIOUS
  <2>3. TxCurrent(t) /\ w \in Row
    BY <1>6, <2>1, <2>2 DEF Row, TxCurrent, DecideWithdrawal, Decision
  <2>4. Begin(r, to, w, a)
    BY <1>6, <2>1 DEF DecideWithdrawal
  <2>5. a \in Amount \cup {0}
    BY <1>0, <2>1 DEF SalesShape, WithdrawalRow
  <2> QED
    BY <1>1, <2>2, <2>3, <2>4, <2>5
<1> QED
  BY <1>2, <1>3, <1>4, <1>5, <1>6

LEMMA GoesOn ==
  ASSUME SalesInv, Sqlite, NEW r \in Request, MarkRow(r) \/ InsertEntry(r) \/ ReadAgent(r)
  PROVE  SalesInv'
<1>1. PICK t : t = tx[r]
  OBVIOUS
<1>2. /\ Open(r) /\ t \in OpenTx /\ TxCurrent(t)
      /\ \A q \in Request : q # r => ~Open(q)
      /\ UNCHANGED <<entry, withdrawal, available>>
      /\ tx \in [Request -> OpenTx \cup {NoTx}] /\ available \in Int
  BY <1>1, OthersClosed DEF MarkRow, InsertEntry, ReadAgent, SalesInv, SalesShape
<1>3. CASE MarkRow(r)
  <2>1. PICK h : h = IF t.op = "reverse" THEN entry[t.row].st = "credited"
                     ELSE withdrawal[t.row].st = "requested"
    OBVIOUS
  <2>2. /\ t.op \in {"reverse"} \cup Decision
        /\ tx' = [tx EXCEPT ![r].at = "marked", ![r].hit = h]
    BY <1>1, <1>3, <2>1 DEF MarkRow, Decision
  <2>3. h = TRUE
    BY <1>2, <2>1, <2>2 DEF TxCurrent, Decision
  <2>4. PICK n : n = [t EXCEPT !.at = "marked", !.hit = TRUE]
    OBVIOUS
  <2>5. n \in OpenTx /\ TxCurrent(n)
    BY <1>2, <2>2, <2>4 DEF OpenTx, TxCurrent, Decision
  <2>6. tx' = [tx EXCEPT ![r] = n]
    BY <1>1, <1>2, <2>2, <2>3, <2>4
  <2> QED
    BY <1>2, <2>5, <2>6, TxAdvances
<1>4. CASE InsertEntry(r)
  <2>2. t.op = "claim" /\ tx' = [tx EXCEPT ![r].at = "marked", ![r].hit = TRUE]
    BY <1>1, <1>4 DEF InsertEntry
  <2>4. PICK n : n = [t EXCEPT !.at = "marked", !.hit = TRUE]
    OBVIOUS
  <2>5. n \in OpenTx /\ TxCurrent(n)
    BY <1>2, <2>2, <2>4 DEF OpenTx, TxCurrent, Decision
  <2>6. tx' = [tx EXCEPT ![r] = n]
    BY <1>1, <1>2, <2>2, <2>4
  <2> QED
    BY <1>2, <2>5, <2>6, TxAdvances
<1>5. CASE ReadAgent(r)
  <2>1. PICK b : b = available
    OBVIOUS
  <2>2. /\ t.op # "paid" /\ (t.op # "request" => t.at = "marked")
        /\ tx' = [tx EXCEPT ![r].at = "read", ![r].seen = b]
    BY <1>1, <1>5, <2>1 DEF ReadAgent
  <2>4. PICK n : n = [t EXCEPT !.at = "read", !.seen = b]
    OBVIOUS
  <2>5. n \in OpenTx /\ TxCurrent(n)
    BY <1>2, <2>1, <2>2, <2>4 DEF OpenTx, TxCurrent, Decision
  <2>6. tx' = [tx EXCEPT ![r] = n]
    BY <1>1, <1>2, <2>2, <2>4
  <2> QED
    BY <1>2, <2>5, <2>6, TxAdvances
<1> QED
  BY <1>3, <1>4, <1>5

LEMMA CommitEnds ==
  ASSUME SalesInv, NEW r \in Request, Open(r), tx' = [tx EXCEPT ![r] = NoTx],
         entry' \in [Sale -> EntryRow], withdrawal' \in [Withdrawal -> WithdrawalRow],
         available' \in Int, SettlementAddsUp'
  PROVE  SalesInv'
<1>1. \A q \in Request : tx'[q] = NoTx
  BY OthersClosed DEF Open, SalesInv, SalesShape
<1>2. SalesShape'
  BY DEF SalesInv, SalesShape
<1>3. \A q \in Request : ~Open(q)'
  BY <1>1 DEF Open
<1> QED
  BY <1>2, <1>3 DEF SalesInv, OneOpen

LEMMA CommitStep ==
  ASSUME SalesInv, Sqlite, NEW r \in Request, Commit(r) PROVE SalesInv'
<1>1. PICK t : t = tx[r]
  OBVIOUS
<1>2. Open(r) /\ t \in OpenTx /\ TxCurrent(t) /\ tx' = [tx EXCEPT ![r] = NoTx]
  BY <1>1, OthersClosed DEF Commit
<1>3. /\ entry \in [Sale -> EntryRow] /\ withdrawal \in [Withdrawal -> WithdrawalRow]
      /\ available \in Int /\ SalesShape /\ SettlementAddsUp
  BY DEF SalesInv, SalesShape
<1>4. /\ AccruedMinor \in Int
      /\ WithdrawalsIn("requested") \in Int /\ WithdrawalsIn("paid") \in Int
  BY <1>3, FiguresInt
<1>5. t.sum \in Nat
  BY <1>2, AmountsNat DEF OpenTx
<1>6. /\ t.at = "read" => available' = NewBalance(t) /\ t.seen = available /\ t.op # "paid"
      /\ t.at # "read" => available' = available /\ t.op \in {"paid", "reverse"} /\ t.at = "marked"
                          /\ (t.op = "reverse" => ~t.hit)
  BY <1>1, <1>2 DEF Commit, TxCurrent
<1>7. CASE t.op \in {"accrue", "claim"}
  <2>1. PICK e : e = [st |-> "credited", fee |-> t.sum]
    OBVIOUS
  <2>2. t.row \in Sale /\ entry[t.row].st = "none" /\ e \in EntryRow
    BY <1>2, <1>7, <2>1 DEF TxCurrent, EntryRow
  <2>3. entry' = [entry EXCEPT ![t.row] = e] /\ UNCHANGED withdrawal
    BY <1>1, <1>7, <2>1 DEF Commit
  <2>4. available' = available + t.sum
    BY <1>6, <1>7 DEF NewBalance
  <2>5. AccruedMinor' = AccruedMinor + Worth(e) - Worth(entry[t.row])
    BY <1>3, <2>2, <2>3, EntryChanges
  <2>6. Worth(e) = t.sum /\ Worth(entry[t.row]) = 0
    BY <2>1, <2>2 DEF Worth
  <2>7. SettlementAddsUp'
    BY <1>3, <1>4, <1>5, <2>3, <2>4, <2>5, <2>6, FiguresStay DEF SettlementAddsUp
  <2>9. /\ entry' \in [Sale -> EntryRow] /\ withdrawal' \in [Withdrawal -> WithdrawalRow]
        /\ available' \in Int
    BY <1>3, <1>5, <2>2, <2>3, <2>4
  <2> QED
    BY <1>2, <2>7, <2>9, CommitEnds
<1>8. CASE t.op = "reverse"
  <2>1. /\ t.row \in Sale /\ entry[t.row].st = "credited" /\ entry[t.row].fee = t.sum
        /\ t.hit /\ t.at = "read"
    BY <1>2, <1>6, <1>8 DEF TxCurrent, OpenTx
  <2>2. PICK e : e = [entry[t.row] EXCEPT !.st = "reversed"]
    OBVIOUS
  <2>3. e \in EntryRow /\ e.st = "reversed"
    BY <1>3, <2>1, <2>2 DEF EntryRow
  <2>4. entry' = [entry EXCEPT ![t.row] = e] /\ UNCHANGED withdrawal
    BY <1>1, <1>8, <2>1, <2>2 DEF Commit
  <2>5. available' = available - t.sum
    BY <1>6, <1>8, <2>1 DEF NewBalance
  <2>6. AccruedMinor' = AccruedMinor + Worth(e) - Worth(entry[t.row])
    BY <1>3, <2>1, <2>3, <2>4, EntryChanges
  <2>7. Worth(e) = 0 /\ Worth(entry[t.row]) = t.sum
    BY <2>1, <2>3 DEF Worth
  <2>8. SettlementAddsUp'
    BY <1>3, <1>4, <1>5, <2>4, <2>5, <2>6, <2>7, FiguresStay DEF SettlementAddsUp
  <2>9. /\ entry' \in [Sale -> EntryRow] /\ withdrawal' \in [Withdrawal -> WithdrawalRow]
        /\ available' \in Int
    BY <1>3, <1>5, <2>1, <2>3, <2>4, <2>5
  <2> QED
    BY <1>2, <2>8, <2>9, CommitEnds
<1>9. CASE t.op = "request"
  <2>1. PICK x : x = [st |-> "requested", sum |-> t.sum]
    OBVIOUS
  <2>2. t.row \in Withdrawal /\ withdrawal[t.row].st = "none" /\ x \in WithdrawalRow
    BY <1>2, <1>9, <2>1 DEF TxCurrent, WithdrawalRow
  <2>3. withdrawal' = [withdrawal EXCEPT ![t.row] = x] /\ UNCHANGED entry
    BY <1>1, <1>9, <2>1 DEF Commit
  <2>4. available' = available - t.sum
    BY <1>6, <1>9 DEF NewBalance
  <2>5. \A st : WithdrawalsIn(st)'
                  = WithdrawalsIn(st) + WorthIn(st, x) - WorthIn(st, withdrawal[t.row])
    BY <1>3, <2>2, <2>3, WithdrawalChanges
  <2>6. /\ WorthIn("requested", x) = t.sum /\ WorthIn("requested", withdrawal[t.row]) = 0
        /\ WorthIn("paid", x) = 0 /\ WorthIn("paid", withdrawal[t.row]) = 0
    BY <2>1, <2>2 DEF WorthIn
  <2>7. SettlementAddsUp'
    BY <1>3, <1>4, <1>5, <2>3, <2>4, <2>5, <2>6, FiguresStay DEF SettlementAddsUp
  <2>9. /\ entry' \in [Sale -> EntryRow] /\ withdrawal' \in [Withdrawal -> WithdrawalRow]
        /\ available' \in Int
    BY <1>3, <1>5, <2>2, <2>3, <2>4
  <2> QED
    BY <1>2, <2>7, <2>9, CommitEnds
<1>10. CASE t.op \in Decision
  <2>1. /\ t.row \in Withdrawal /\ withdrawal[t.row].st = "requested"
        /\ withdrawal[t.row].sum = t.sum /\ t.hit
    BY <1>2, <1>6, <1>10 DEF TxCurrent, OpenTx
  <2>2. PICK x : x = [withdrawal[t.row] EXCEPT !.st = t.op]
    OBVIOUS
  <2>3. x \in WithdrawalRow /\ x.st = t.op /\ x.sum = t.sum
    BY <1>3, <1>10, <2>1, <2>2 DEF WithdrawalRow, Decision
  <2>4. withdrawal' = [withdrawal EXCEPT ![t.row] = x] /\ UNCHANGED entry
    BY <1>1, <1>10, <2>1, <2>2 DEF Commit, Decision
  <2>5. \A st : WithdrawalsIn(st)'
                  = WithdrawalsIn(st) + WorthIn(st, x) - WorthIn(st, withdrawal[t.row])
    BY <1>3, <2>1, <2>3, <2>4, WithdrawalChanges
  <2>6. /\ WorthIn("requested", x) = 0 /\ WorthIn("requested", withdrawal[t.row]) = t.sum
        /\ WorthIn("paid", withdrawal[t.row]) = 0
        /\ WorthIn("paid", x) = IF t.op = "paid" THEN t.sum ELSE 0
    BY <1>10, <2>1, <2>3 DEF WorthIn, Decision
  <2>7. available' = IF t.op = "paid" THEN available ELSE available + t.sum
    BY <1>6, <1>10 DEF NewBalance, Decision
  <2>8. SettlementAddsUp'
    BY <1>3, <1>4, <1>5, <2>4, <2>5, <2>6, <2>7, FiguresStay DEF SettlementAddsUp
  <2>9. /\ entry' \in [Sale -> EntryRow] /\ withdrawal' \in [Withdrawal -> WithdrawalRow]
        /\ available' \in Int
    BY <1>3, <1>5, <2>1, <2>3, <2>4, <2>7
  <2> QED
    BY <1>2, <2>8, <2>9, CommitEnds
<1> QED
  BY <1>2, <1>7, <1>8, <1>9, <1>10 DEF OpenTx

LEMMA SalesStep == ASSUME Sqlite PROVE SalesInv /\ [SalesNext]_salesVars => SalesInv'
<1> SUFFICES ASSUME SalesInv, [SalesNext]_salesVars PROVE SalesInv'
  OBVIOUS
<1>1. ASSUME NEW r \in Request, Rollback(r) PROVE SalesInv'
  BY <1>1, TxEnds DEF Rollback
<1>2. ASSUME NEW s \in Sale, FulfillUncoded(s) \/ BeginRefund(s) \/ RefundUncredited(s)
      PROVE  SalesInv'
  BY <1>2, TxEnds DEF FulfillUncoded, BeginRefund, RefundUncredited
<1>3. CASE UNCHANGED salesVars
  BY <1>3, TxEnds DEF salesVars
<1> QED
  BY <1>1, <1>2, <1>3, BeginStep, GoesOn, CommitStep DEF SalesNext, Decision

(* On SQLite, where begin_write admits one open transaction, what an agent *)
(* earned is always available, asked for or paid out: for any number of    *)
(* orders, withdrawals and requests, statement by statement.               *)
THEOREM SettlementHolds == ASSUME Sqlite PROVE SalesSpec => []SettlementAddsUp
<1>1. SalesInv => SettlementAddsUp
  BY DEF SalesInv
<1> QED
  BY <1>1, SalesStarts, SalesStep, PTL DEF SalesSpec
=============================================================================
