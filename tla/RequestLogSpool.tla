-------------------------- MODULE RequestLogSpool --------------------------
(***************************************************************************)
(* The durable request log of the gateway: RequestLogBatcher in            *)
(* db_cache.rs, the lifecycle of handlers/request_logging.rs, and the      *)
(* active probe of app.rs.  A request reserves the largest entry, arms a   *)
(* fallback on disk before it is dispatched, and replaces it by its        *)
(* terminal log; the flush task moves files into the table.                *)
(*                                                                         *)
(* The steps between two awaits of a task are one step.  push_reserved and *)
(* flush (or ship_via, whose sink is a database far away) exclude each     *)
(* other by flush_lock; the promotion in Drop does not take that lock.     *)
(* Every written entry has one byte; a reservation has Unit bytes.         *)
(***************************************************************************)
EXTENDS Naturals, FiniteSets, FiniteSetsExt

CONSTANTS LogReq,   \* requests of clients
          Probe,    \* active probes, which may cancel
          Unit,     \* spool_entry_max_bytes
          SpoolMax, \* spool_max_bytes
          Word,     \* the number of values of an AtomicU64
          MaxEntries, \* memory_capacity, or ship_batch_max of a Replica
          MaxStop,  \* bound: restarts of the process
          MaxIoErr  \* bound: spool writes and transactions that fail

ASSUME SpoolConstants ==
  /\ IsFiniteSet(LogReq) /\ IsFiniteSet(Probe)
  /\ Unit \in Nat \ {0} /\ SpoolMax \in Nat /\ Word \in Nat
  /\ Word > 2 * SpoolMax + Unit
  /\ MaxEntries \in Nat \ {0} /\ MaxStop \in Nat /\ MaxIoErr \in Nat
  /\ LogReq \cap Probe = {}
  /\ {"free", "flush"} \cap (LogReq \cup Probe) = {}

Log == LogReq \cup Probe

VARIABLES
  state,    \* the atomic state of the reservation of a log
  task,     \* progress of the task that owns the reservation
  mark,     \* disk: .admission-<id>
  file,     \* disk: <id>.json
  row,      \* the request_logs row with the stable id
  admitted, \* admitted_bytes
  flushLock, \* the holder of flush_lock
  batch,    \* the files a flush loaded, and whether it committed
  seen,     \* history: what happened to a log
  stops, ioErrs

spoolVars == <<state, task, mark, file, row, admitted, flushLock, batch, seen,
               stops, ioErrs>>

NoBatch == [logs |-> {}, done |-> FALSE]

(* SpoolTypeOK: types; a marker exists only for a reservation that was     *)
(* neither consumed nor dropped, unless a process left it.                 *)
SpoolTypeOK ==
  /\ state \in [Log -> {"none", "unarmed", "arming", "armed", "claimed",
                        "canceling", "consumed"}]
  /\ task \in [Log -> {"none", "arm", "run", "push", "wait", "write", "cancel",
                       "drop", "done", "stuck"}]
  /\ mark \in [Log -> {"none", "probe", "fallback"}]
  /\ file \in [Log -> {"none", "fallback", "terminal"}]
  /\ row \in [Log -> {"none", "fallback", "terminal"}]
  /\ admitted \in 0..(Word - 1)
  /\ flushLock \in Log \cup {"free", "flush"}
  /\ batch \in [logs : SUBSET Log, done : BOOLEAN]
  /\ seen \in [Log -> SUBSET {"armed", "cancelled", "published", "renamed"}]
  /\ stops \in 0..MaxStop /\ ioErrs \in 0..MaxIoErr
  /\ \A r \in Log :
       mark[r] # "none" => state[r] \notin {"none", "consumed"}

SpoolInit ==
  /\ state = [r \in Log |-> "none"] /\ task = [r \in Log |-> "none"]
  /\ mark = [r \in Log |-> "none"] /\ file = [r \in Log |-> "none"]
  /\ row = [r \in Log |-> "none"]
  /\ admitted = 0 /\ flushLock = "free" /\ batch = NoBatch
  /\ seen = [r \in Log |-> {}]
  /\ stops = 0 /\ ioErrs = 0

(* atomic_saturating_sub, and fetch_sub, which wraps.                      *)
SaturatingSub(a, b) == IF a >= b THEN a - b ELSE 0

FetchSub(a, b) == (a + Word - b) % Word

-----------------------------------------------------------------------------
(* Fault: the quota is compared without the new reservation.               *)
FitsEmptySpool == admitted <= SpoolMax

FitsSpool == admitted + Unit <= SpoolMax

(* reserve_terminal_log and publish_request_log_admission, then the CAS of *)
(* arm_reserved: one poll of the handler.                                  *)
ReserveLog(r) ==
  /\ task[r] = "none"
  /\ FitsSpool
  /\ admitted' = admitted + Unit
  /\ state' = [state EXCEPT ![r] = "arming"]
  /\ mark' = [mark EXCEPT ![r] = "probe"]
  /\ task' = [task EXCEPT ![r] = "arm"]
  /\ UNCHANGED <<file, row, flushLock, batch, seen, stops, ioErrs>>

ArmLog(r) ==
  /\ task[r] = "arm"
  /\ mark' = [mark EXCEPT ![r] = "fallback"]
  /\ state' = [state EXCEPT ![r] = "armed"]
  /\ task' = [task EXCEPT ![r] = "run"]
  /\ seen' = [seen EXCEPT ![r] = @ \cup {"armed"}]
  /\ UNCHANGED <<file, row, admitted, flushLock, batch, stops, ioErrs>>

(* The write fails: the lifecycle is removed, and the dropped reservation  *)
(* removes its marker and returns its bytes.                               *)
ArmFails(r) ==
  /\ task[r] = "arm" /\ ioErrs < MaxIoErr
  /\ ioErrs' = ioErrs + 1
  /\ mark' = [mark EXCEPT ![r] = "none"]
  /\ state' = [state EXCEPT ![r] = "consumed"]
  /\ task' = [task EXCEPT ![r] = "done"]
  /\ admitted' = FetchSub(admitted, Unit)
  /\ UNCHANGED <<file, row, flushLock, batch, seen, stops>>

(* The handler is dropped while it waits for the write.  There is no guard *)
(* yet, and the map of admissions keeps the lifecycle; the write, on a     *)
(* blocking thread, runs on.                                               *)
ArmAbandoned(r) ==
  /\ r \in LogReq /\ task[r] = "arm"
  /\ mark' = [mark EXCEPT ![r] = "fallback"]
  /\ task' = [task EXCEPT ![r] = "stuck"]
  /\ UNCHANGED <<state, file, row, admitted, flushLock, batch, seen, stops, ioErrs>>

(* try_schedule_terminal by a terminal scheduler or the dropped guard, or  *)
(* the end of a probe that succeeded; then encode and claim.               *)
SchedulePush(r) ==
  /\ task[r] = "run"
  /\ state[r] = "armed"
  /\ state' = [state EXCEPT ![r] = "claimed"]
  /\ task' = [task EXCEPT ![r] = "push"]
  /\ UNCHANGED <<mark, file, row, admitted, flushLock, batch, seen, stops, ioErrs>>

(* The terminal log is larger than the reservation.  The lifecycle of a    *)
(* request stays in the map with its armed reservation; the reservation of *)
(* a probe is dropped.                                                     *)
PushTooLarge(r) ==
  /\ task[r] = "run"
  /\ task' = [task EXCEPT ![r] = IF r \in Probe THEN "drop" ELSE "stuck"]
  /\ UNCHANGED <<state, mark, file, row, admitted, flushLock, batch, seen, stops,
                 ioErrs>>

LockForPush(r) ==
  /\ task[r] = "push" /\ flushLock = "free"
  /\ flushLock' = r
  /\ task' = [task EXCEPT ![r] = "wait"]
  /\ UNCHANGED <<state, mark, file, row, admitted, batch, seen, stops, ioErrs>>

(* write_spool_file: the rename makes the terminal log visible ...         *)
PushRename(r) ==
  /\ task[r] = "wait"
  /\ file' = [file EXCEPT ![r] = "terminal"]
  /\ task' = [task EXCEPT ![r] = "write"]
  /\ seen' = [seen EXCEPT ![r] = @ \cup {"published"}]
  /\ UNCHANGED <<state, mark, row, admitted, flushLock, batch, stops, ioErrs>>

(* ... and the directory is synced: complete_durable_push and consume.     *)
PushComplete(r) ==
  /\ task[r] = "write"
  /\ mark' = [mark EXCEPT ![r] = "none"]
  /\ state' = [state EXCEPT ![r] = "consumed"]
  /\ admitted' = FetchSub(admitted, Unit - 1)
  /\ flushLock' = "free"
  /\ task' = [task EXCEPT ![r] = "done"]
  /\ UNCHANGED <<file, row, batch, seen, stops, ioErrs>>

(* Fault: a failed write is not tried again.                               *)
PushGivesUp(r) ==
  /\ task[r] \in {"wait", "write"} /\ ioErrs < MaxIoErr
  /\ ioErrs' = ioErrs + 1
  /\ flushLock' = "free"
  /\ task' = [task EXCEPT ![r] = "done"]
  /\ UNCHANGED <<state, mark, file, row, admitted, batch, seen, stops>>

(* The write fails before the rename, or the sync after it: the lock is    *)
(* released and the same write is tried again.                             *)
PushFails(r) ==
  /\ task[r] \in {"wait", "write"} /\ ioErrs < MaxIoErr
  /\ ioErrs' = ioErrs + 1
  /\ flushLock' = "free"
  /\ task' = [task EXCEPT ![r] = "push"]
  /\ seen' = IF task[r] = "write"
             THEN [seen EXCEPT ![r] = @ \cup {"renamed"}] ELSE seen
  /\ UNCHANGED <<state, mark, file, row, admitted, batch, stops>>

-----------------------------------------------------------------------------
(* cancel_reserved of a probe that failed or was never sent.               *)
CancelLog(r) ==
  /\ r \in Probe /\ task[r] = "run"
  /\ state[r] = "armed"
  /\ state' = [state EXCEPT ![r] = "canceling"]
  /\ mark' = [mark EXCEPT ![r] = "none"]
  /\ task' = [task EXCEPT ![r] = "cancel"]
  /\ seen' = [seen EXCEPT ![r] = @ \cup {"cancelled"}]
  /\ UNCHANGED <<file, row, admitted, flushLock, batch, stops, ioErrs>>

CancelDone(r) ==
  /\ task[r] = "cancel"
  /\ state' = [state EXCEPT ![r] = "consumed"]
  /\ admitted' = FetchSub(admitted, Unit)
  /\ task' = [task EXCEPT ![r] = "done"]
  /\ UNCHANGED <<mark, file, row, flushLock, batch, seen, stops, ioErrs>>

(* promote_fallback: the file appears ...                                  *)
PromoteRename(r) ==
  /\ task[r] = "drop" /\ mark[r] = "fallback"
  /\ file' = [file EXCEPT ![r] = "fallback"]
  /\ mark' = [mark EXCEPT ![r] = "none"]
  /\ UNCHANGED <<state, task, row, admitted, flushLock, batch, seen, stops, ioErrs>>

(* ... and is then accounted, unless a flush took it away.                 *)
PromoteAccount(r) ==
  /\ task[r] = "drop" /\ mark[r] = "none"
  /\ IF file[r] = "none"
     THEN UNCHANGED <<state, admitted>>
     ELSE /\ state' = [state EXCEPT ![r] = "consumed"]
          /\ admitted' = FetchSub(admitted, Unit - 1)
  /\ task' = [task EXCEPT ![r] = "done"]
  /\ UNCHANGED <<mark, file, row, flushLock, batch, seen, stops, ioErrs>>

-----------------------------------------------------------------------------
(* flush: load_spool_batch under flush_lock.  It takes no more than        *)
(* max_entries paths, the buffered ones before those the directory lists   *)
(* in an order of its own; a buffered path whose file is gone takes a      *)
(* place too.  So it is any choice of that size.                           *)
FlushLoad ==
  /\ flushLock = "free"
  /\ flushLock' = "flush"
  /\ \E logs \in SUBSET {r \in Log : file[r] # "none"} :
       /\ logs # {} /\ Cardinality(logs) <= MaxEntries
       /\ batch' = [logs |-> logs, done |-> FALSE]
  /\ UNCHANGED <<state, task, mark, file, row, admitted, seen, stops, ioErrs>>

(* INSERT ... ON CONFLICT(id) DO NOTHING                                   *)
InsertIgnore(r) ==
  IF r \in batch.logs /\ row[r] = "none" THEN file[r] ELSE row[r]

FlushCommit ==
  /\ flushLock = "flush" /\ ~batch.done
  /\ row' = [r \in Log |-> InsertIgnore(r)]
  /\ batch' = [batch EXCEPT !.done = TRUE]
  /\ UNCHANGED <<state, task, mark, file, admitted, flushLock, seen, stops, ioErrs>>

(* The transaction fails, or commits and its answer is lost.               *)
FlushFails(committed) ==
  /\ flushLock = "flush" /\ ~batch.done /\ ioErrs < MaxIoErr
  /\ ioErrs' = ioErrs + 1
  /\ row' = IF committed THEN [r \in Log |-> InsertIgnore(r)] ELSE row
  /\ flushLock' = "free" /\ batch' = NoBatch
  /\ UNCHANGED <<state, task, mark, file, admitted, seen, stops>>

(* Fault: files are deleted before the transaction has committed.          *)
MayDeleteEarly == TRUE

MayDelete == batch.done

FlushDelete(r) ==
  /\ flushLock = "flush" /\ MayDelete /\ r \in batch.logs
  /\ file' = [file EXCEPT ![r] = "none"]
  /\ admitted' = SaturatingSub(admitted, 1)
  /\ IF batch.logs = {r}
     THEN flushLock' = "free" /\ batch' = NoBatch
     ELSE flushLock' = flushLock /\ batch' = [batch EXCEPT !.logs = @ \ {r}]
  /\ UNCHANGED <<state, task, mark, row, seen, stops, ioErrs>>

-----------------------------------------------------------------------------
(* Fault: startup lets the fallback replace the published file.            *)
RecoveredOverwriting(r) ==
  IF mark[r] = "fallback" THEN "fallback" ELSE file[r]

(* initialize_spool: an armed marker is promoted unless its file exists.   *)
Recovered(r) ==
  IF mark[r] = "fallback" /\ file[r] = "none" THEN "fallback" ELSE file[r]

(* The process stops anywhere and starts again.                            *)
Restart ==
  /\ stops < MaxStop
  /\ stops' = stops + 1
  /\ file' = [r \in Log |-> Recovered(r)]
  /\ mark' = [r \in Log |-> "none"]
  /\ admitted' = Cardinality({r \in Log : Recovered(r) # "none"})
  /\ state' = [r \in Log |-> IF task[r] = "none" THEN "none" ELSE "consumed"]
  /\ task' = [r \in Log |-> IF task[r] = "none" THEN "none" ELSE "done"]
  /\ flushLock' = "free" /\ batch' = NoBatch
  /\ UNCHANGED <<row, seen, ioErrs>>

PushStep(r) ==
  SchedulePush(r) \/ LockForPush(r) \/ PushRename(r) \/ PushComplete(r)

LogStep(r) ==
  \/ ReserveLog(r) \/ ArmLog(r) \/ ArmFails(r) \/ ArmAbandoned(r)
  \/ PushStep(r) \/ PushTooLarge(r) \/ PushFails(r)
  \/ CancelLog(r) \/ CancelDone(r) \/ PromoteRename(r) \/ PromoteAccount(r)

FlushStep == FlushLoad \/ FlushCommit \/ \E r \in Log : FlushDelete(r)

SpoolNext ==
  \/ \E r \in Log : LogStep(r)
  \/ FlushStep
  \/ \E c \in BOOLEAN : FlushFails(c)
  \/ Restart

(* Tasks run on and the flush timer fires; flush_lock is a fair queue, so  *)
(* a writer that waits for it again and again gets it.                     *)
SpoolFairness ==
  /\ \A r \in Log :
       /\ WF_spoolVars(ArmLog(r) \/ SchedulePush(r) \/ PushRename(r)
                       \/ PushComplete(r))
       /\ SF_spoolVars(LockForPush(r))
       /\ WF_spoolVars(PromoteRename(r) \/ PromoteAccount(r) \/ CancelDone(r))
  /\ WF_spoolVars(FlushStep) /\ SF_spoolVars(FlushLoad)

SpoolSpec == SpoolInit /\ [][SpoolNext]_spoolVars

FairSpoolSpec == SpoolSpec /\ SpoolFairness

-----------------------------------------------------------------------------
(* LogNeverLost: from the moment a request is armed, hence before it is    *)
(* dispatched, its log survives every crash: as marker, as file or as row, *)
(* unless a probe cancelled it (RL1j-1, DPT-RL10).                         *)
LogNeverLost ==
  \A r \in Log :
    "armed" \in seen[r] /\ "cancelled" \notin seen[r]
      => mark[r] = "fallback" \/ file[r] # "none" \/ row[r] # "none"

(* TerminalWins: once the terminal log was renamed into place, neither a   *)
(* crash before its marker is removed nor a retry after a flush puts the   *)
(* fallback into the table (one stable id, ON CONFLICT DO NOTHING).        *)
TerminalWins ==
  \A r \in Log : "published" \in seen[r] => row[r] # "fallback"

(* The bytes a log occupies or may still write under its reservation.      *)
Occupies ==
  [r \in Log |->
     IF task[r] \in {"arm", "run", "push", "wait", "write"} THEN Unit
     ELSE (IF mark[r] = "none" THEN 0 ELSE 1) + (IF file[r] = "none" THEN 0 ELSE 1)]

SumOver(S, f) == MapThenSumSet(LAMBDA x : f[x], S)

Misaccounted == \E r \in Log : "renamed" \in seen[r]

(* QuotaCovers: unless the sync after a rename failed, the counter covers  *)
(* every file, marker and promise, in every interleaving of reservations,  *)
(* pushes, cancellations, promotions and flushes, so the spool never grows *)
(* past its quota (DPT-RL3c).                                              *)
QuotaCovers ==
  ~Misaccounted =>
    SumOver(Log, Occupies) <= admitted /\ admitted <= SpoolMax

(* QuotaNeverWraps: DPT-RL7a says that removing a file never makes later   *)
(* admissions fail with a false quota-exhausted state.                     *)
QuotaNeverWraps == admitted <= SpoolMax

(* LoggedEventually: an armed request has its row eventually, or was       *)
(* cancelled, or its task ended without releasing the lifecycle.           *)
LoggedEventually ==
  \A r \in Log :
    "armed" \in seen[r]
      ~> (row[r] # "none" \/ "cancelled" \in seen[r] \/ task[r] = "stuck")

=============================================================================
