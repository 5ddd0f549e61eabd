----------------------------- MODULE MCDbCache -----------------------------
(***************************************************************************)
(* The two halves of db_cache.rs: the request-log spool and the generation *)
(* caches.  They share no state, so what they do together is what each     *)
(* does alone: the first state chooses what runs while the rest does not,  *)
(* so that states add up instead of multiplying.                           *)
(*                                                                         *)
(*  logs: two requests and a probe, room for the reservations of two, one  *)
(*    crash and one failed write.                                          *)
(*  lookups: room for one of the two keys of one user, two lookups at a    *)
(*    time, one mutation.                                                  *)
(*  mutations: the same with one lookup at a time and two mutations.       *)
(***************************************************************************)
EXTENDS RequestLogSpool, GenerationCache, TLC

CONSTANTS l1, l2, p1, k1, k2, u1, r1, r2, w1, w2

VARIABLE scene

MCUserOfKey == k1 :> u1 @@ k2 :> u1

SceneInit ==
  /\ scene \in {"logs", "lookups", "mutations"}
  /\ SpoolInit /\ CacheInit
  /\ scene = "logs" => reader[r1].key = k1
  /\ scene # "lookups" => reader[r2].key = k1

SceneNext ==
  \/ scene = "logs" /\ SpoolNext /\ UNCHANGED <<scene, cacheVars>>
  \/ /\ scene = "lookups" /\ CacheNext /\ writes' <= 1
     /\ UNCHANGED <<scene, spoolVars>>
  \/ /\ scene = "mutations" /\ CacheNext /\ reader'[r2] = reader[r2]
     /\ UNCHANGED <<scene, spoolVars>>

(* The fairness is that of the logs; what is stated of the keys is safety. *)
SceneSpec ==
  /\ SceneInit /\ [][SceneNext]_<<scene, spoolVars, cacheVars>>
  /\ SpoolFairness
=============================================================================
