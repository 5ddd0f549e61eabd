----------------------------- MODULE MCPrimary -----------------------------
(***************************************************************************)
(* Five services of the Primary: the lease of the reconciler, the plan     *)
(* quota of its own requests, the admission tokens of a Replica, the       *)
(* balance of a sales agent on SQLite, and the retention of evidence under *)
(* the Primary lease.  The modules share no state, so what they do         *)
(* together is what each does alone: the first state chooses the one that  *)
(* runs while the others rest, so that states add up instead of            *)
(* multiplying.                                                            *)
(*                                                                         *)
(*  lease: three runs of two owners whose clocks differ by one unit.       *)
(*  quota: two requests, a rolling and a calendar rule with room for one   *)
(*    reserve and a half, an exchange rate that leaves remainders, two     *)
(*    plans, charges below, at and above the reserve.                      *)
(*  token: one token through two crashes of the Replica and a lost or a    *)
(*    repeated message.                                                    *)
(*  sales: two orders of a commission larger than one withdrawal, two      *)
(*    withdrawals, two requests at the same time.                          *)
(*  retention: three runs of two processes, two at a time, and a pause     *)
(*    after two failures instead of three.                                 *)
(***************************************************************************)
EXTENDS ReconcilerLease, QuotaReservation, PlanAdmission,
        SalesBalance, StoreRetention, TLC

CONSTANTS p, q, run1, run2, run3, q1, q2, roll, day, k1

VARIABLE service

MCOwnerOf  == run1 :> p @@ run2 :> p @@ run3 :> q
MCSkew     == p :> 0 @@ q :> 1
MCWindowOf == roll :> 2 @@ day :> 2
MCLimitOf  == roll :> 3 @@ day :> 3

PrimaryInit ==
  /\ service \in {"lease", "quota", "token", "sales", "retention"}
  /\ Init /\ QuotaInit /\ AdmInit /\ SalesInit /\ RetInit
  /\ service # "quota" => gate

PrimaryNext ==
  \/ service = "lease" /\ Next /\ UNCHANGED <<service, quotaVars, admVars, salesVars, retVars>>
  \/ service = "quota" /\ QuotaNext /\ UNCHANGED <<service, leaseVars, admVars, salesVars, retVars>>
  \/ service = "token" /\ AdmNext /\ UNCHANGED <<service, leaseVars, quotaVars, salesVars, retVars>>
  \/ service = "sales" /\ SalesNext /\ UNCHANGED <<service, leaseVars, quotaVars, admVars, retVars>>
  \/ service = "retention" /\ RetNext
     /\ UNCHANGED <<service, leaseVars, quotaVars, admVars, salesVars>>

(* The fairness is that of the tokens; what is stated of the others is     *)
(* safety.                                                                 *)
PrimarySpec ==
  /\ PrimaryInit /\ [][PrimaryNext]_<<service, leaseVars, quotaVars, admVars, salesVars, retVars>>
  /\ AdmFairness
=============================================================================
