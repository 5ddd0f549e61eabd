--------------------------- MODULE PlanAdmission ---------------------------
(***************************************************************************)
(* Plan admission of one Replica: the Primary reserves quota and issues a  *)
(* token (admission_runtime.rs); the Replica claims it durably, confirms   *)
(* it, dispatches, and spools one terminal (admission_client.rs and        *)
(* AdmissionClaimStore in admission_token.rs); the ship loop posts the     *)
(* terminals (metering.rs) and the Primary applies them with a receipt,    *)
(* while its reaper releases tokens nobody confirmed.  Requests and        *)
(* answers may be lost, late or repeated, and the Replica may crash.       *)
(*                                                                         *)
(* Every claim store method holds one lock from its first read to its last *)
(* write and is one step.  The quota behind a token is modelled in         *)
(* QuotaReservation; here it is held until the token has a receipt.        *)
(***************************************************************************)
EXTENDS Naturals, FiniteSets

CONSTANTS Token,    \* tokens, one per request id of this Replica
          MaxCrash, \* bound: restarts of the Replica
          MaxFault  \* bound: claim writes that fail

ASSUME AdmissionConstants == MaxCrash \in Nat /\ MaxFault \in Nat

VARIABLES
  token,   \* Primary: store_admission_tokens and _terminal_receipts
  marker,  \* Replica disk: claims/claim-<digest>.json
  term,    \* Replica disk: terminal/terminal-<digest>.json
  owner,   \* Replica: progress of the request and its admission owner
  active,  \* Replica: requests in the map of active admissions
  rel,     \* Replica: progress of a release of an active admission
  ship,    \* Replica: progress of the ship loop
  net,     \* requests under way to the Primary
  past,    \* history: what happened to a request before a crash
  crashes, \* restarts so far
  faults   \* tokens of which a claim write failed

admVars == <<token, marker, term, owner, active, rel, ship, net, past,
             crashes, faults>>

Kinds == {"settlement", "release"}
NoTerm == [kind |-> "none", by |-> "none"]
NoMarker == [st |-> "none", acked |-> FALSE]
NoToken == [st |-> "none", confirmed |-> FALSE, receipt |-> "none"]
IdleShip == [st |-> "idle", todo |-> {}, batch |-> {}]

Confirm(k) == [type |-> "confirm", k |-> k]
Batch(b)   == [type |-> "batch", b |-> b]

(* A terminal as it is posted: token and kind; the digest covers these and *)
(* the amount, of which a token never has two.                             *)
Posted == [k : Token, kind : Kinds]

(* AdmTypeOK: types of the rows, files and tasks; a terminal on disk       *)
(* belongs to a claim, a claim to an issued token.                         *)
AdmTypeOK ==
  /\ token \in [Token -> [st : {"none", "issued", "late"},
                          confirmed : BOOLEAN,
                          receipt : Kinds \cup {"none"}]]
  /\ marker \in [Token -> [st : {"none", "claimed", "confirmed", "routed",
                                 "release_pending"},
                           acked : BOOLEAN]]
  /\ term \in [Token -> [kind : Kinds \cup {"none"},
                         by : {"none", "owner", "handler", "loop", "start"}]]
  /\ owner \in [Token -> {"idle", "claim", "confirm1", "confirm2", "persist",
                          "abort", "abort_spool", "handoff", "sent", "ready",
                          "routed", "lost", "done"}]
  /\ active \subseteq Token /\ faults \subseteq Token
  /\ rel \in [Token -> {"idle", "mark", "spool"}]
  /\ ship \in [st : {"idle", "publish", "wait", "ack"},
               todo : SUBSET Token, batch : SUBSET Posted]
  /\ net \subseteq {Confirm(k) : k \in Token} \cup
                   {Batch(b) : b \in SUBSET Posted}
  /\ past \in [Token -> SUBSET {"sent", "gave_up"}]
  /\ crashes \in 0..MaxCrash
  /\ \A k \in Token :
       /\ term[k] # NoTerm => marker[k].st # "none"
       /\ marker[k].st # "none" => token[k].st # "none"

AdmInit ==
  /\ token = [k \in Token |-> NoToken]
  /\ marker = [k \in Token |-> NoMarker]
  /\ term = [k \in Token |-> NoTerm]
  /\ owner = [k \in Token |-> "idle"]
  /\ active = {} /\ faults = {} /\ net = {}
  /\ rel = [k \in Token |-> "idle"]
  /\ ship = IdleShip
  /\ past = [k \in Token |-> {}]
  /\ crashes = 0

-----------------------------------------------------------------------------
(* The Primary.                                                            *)

(* issue_tx and its answer, which may be lost.  A repeated request id gets *)
(* the stored token again.                                                 *)
Issue(k, answered) ==
  /\ owner[k] \in {"idle", "done"} /\ rel[k] = "idle" /\ k \notin active
  /\ token' = IF token[k].st = "none"
              THEN [token EXCEPT ![k].st = "issued"] ELSE token
  /\ owner' = [owner EXCEPT ![k] = IF answered THEN "claim" ELSE "done"]
  /\ UNCHANGED <<marker, term, active, rel, ship, net, past, crashes, faults>>

(* expires_at + CLOCK_SKEW_SECONDS passes.                                 *)
Expire(k) ==
  /\ token[k].st = "issued"
  /\ token' = [token EXCEPT ![k].st = "late"]
  /\ UNCHANGED <<marker, term, owner, active, rel, ship, net, past, crashes,
                 faults>>

(* Fault: a receipt is not looked up before a token is confirmed.          *)
ConfirmableReaped(k, onTime) == token[k].confirmed \/ onTime

(* confirm_tx.  The handler reads its clock before it waits for the row    *)
(* lock, so a late token may still be confirmed, or be refused.            *)
Confirmable(k, onTime) ==
  /\ token[k].receipt = "none"
  /\ token[k].confirmed \/ onTime

ConfirmArrives(k, onTime, answered, repeated) ==
  /\ Confirm(k) \in net
  /\ token[k].st = "issued" => onTime
  /\ token' = IF Confirmable(k, onTime)
              THEN [token EXCEPT ![k].confirmed = TRUE] ELSE token
  /\ owner' = IF answered /\ owner[k] \in {"confirm1", "confirm2"}
              THEN [owner EXCEPT ![k] = IF Confirmable(k, onTime)
                                        THEN "persist" ELSE "abort"]
              ELSE owner
  /\ net' = IF repeated THEN net ELSE net \ {Confirm(k)}
  /\ UNCHANGED <<marker, term, active, rel, ship, past, crashes, faults>>

(* Faults: the reaper trusts its candidate query.                          *)
ReapableCandidate(k) == token[k].receipt = "none"

ReapableUnlocked(k) == TRUE

Reapable(k) == ~token[k].confirmed /\ token[k].receipt = "none"

(* recover_unconfirmed_tx: the release it applies has the digest of the    *)
(* release a Replica would spool.                                          *)
Reap(k) ==
  /\ token[k].st = "late"
  /\ Reapable(k)
  /\ token' = [token EXCEPT ![k].receipt = "release"]
  /\ UNCHANGED <<marker, term, owner, active, rel, ship, net, past, crashes,
                 faults>>

(* apply_terminal_tx: a repeated terminal is a duplicate, a changed one,   *)
(* or a settlement of an unconfirmed token, is refused.                    *)
Acceptable(t) ==
  \/ token[t.k].receipt = t.kind
  \/ /\ token[t.k].receipt = "none"
     /\ t.kind = "settlement" => token[t.k].confirmed

(* apply_metering_batch_tx: one refused terminal rolls the batch back.     *)
BatchArrives(m, answered, repeated) ==
  /\ m \in net /\ m.type = "batch"
  /\ LET ok == \A t \in m.b : Acceptable(t)
     IN  /\ token' = [k \in Token |->
              IF ok /\ \E t \in m.b : t.k = k
              THEN [token[k] EXCEPT !.receipt =
                      (CHOOSE t \in m.b : t.k = k).kind]
              ELSE token[k]]
         /\ ship' = IF answered /\ ship.st = "wait" /\ ship.batch = m.b
                    THEN IF ok THEN [ship EXCEPT !.st = "ack"] ELSE IdleShip
                    ELSE ship
  /\ net' = IF repeated THEN net ELSE net \ {m}
  /\ UNCHANGED <<marker, term, owner, active, rel, past, crashes, faults>>

Lost(m) ==
  /\ m \in net
  /\ net' = net \ {m}
  /\ UNCHANGED <<token, marker, term, owner, active, rel, ship, past, crashes,
                 faults>>

-----------------------------------------------------------------------------
(* The claim store of the Replica.                                         *)

(* spool_terminal publishes a new file only; the caller's terminal is      *)
(* refused when one exists that differs, also in created_at.               *)
MaySpool(k) ==
  /\ marker[k].st # "none" /\ ~marker[k].acked
  /\ term[k] = NoTerm

SpoolTerminal(k, kind, who) ==
  term' = IF MaySpool(k)
          THEN [term EXCEPT ![k] = [kind |-> kind, by |-> who]] ELSE term

(* verify, then claim: an existing marker is a replay.                     *)
Claim(k, verified) ==
  /\ owner[k] = "claim"
  /\ IF verified /\ marker[k].st = "none"
     THEN /\ marker' = [marker EXCEPT ![k].st = "claimed"]
          /\ owner' = [owner EXCEPT ![k] = "confirm1"]
          /\ net' = net \cup {Confirm(k)}
     ELSE /\ owner' = [owner EXCEPT ![k] = "done"]
          /\ UNCHANGED <<marker, net>>
  /\ UNCHANGED <<token, term, active, rel, ship, past, crashes, faults>>

(* confirm: an ambiguous first attempt is repeated once.                   *)
ConfirmTimeout(k) ==
  /\ \/ /\ owner[k] = "confirm1"
        /\ owner' = [owner EXCEPT ![k] = "confirm2"]
        /\ net' = net \cup {Confirm(k)}
     \/ /\ owner[k] = "confirm2"
        /\ owner' = [owner EXCEPT ![k] = "abort"]
        /\ UNCHANGED net
  /\ UNCHANGED <<token, marker, term, active, rel, ship, past, crashes, faults>>

(* claim_confirm_activate ends: the claim is confirmed and active.         *)
MarkConfirmed(k) ==
  /\ owner[k] = "persist"
  /\ marker' = [marker EXCEPT ![k].st = "confirmed"]
  /\ owner' = [owner EXCEPT ![k] = "handoff"]
  /\ active' = active \cup {k}
  /\ UNCHANGED <<token, term, rel, ship, net, past, crashes, faults>>

(* The admission owner sends its result while the receiver still exists,   *)
(* and ends; a receiver that is gone by then is a StartRelease.            *)
HandOff(k) ==
  /\ owner[k] = "handoff"
  /\ owner' = [owner EXCEPT ![k] = "sent"]
  /\ UNCHANGED <<token, marker, term, active, rel, ship, net, past, crashes,
                 faults>>

(* The handler wakes up with the result and builds its scope.              *)
BuildScope(k) ==
  /\ owner[k] = "sent" /\ k \in active
  /\ owner' = [owner EXCEPT ![k] = "ready"]
  /\ UNCHANGED <<token, marker, term, active, rel, ship, net, past, crashes,
                 faults>>

(* The handler is dropped with the result in the channel: there is neither *)
(* an owner nor a scope that would release the claim.                      *)
HandlerDropped(k) ==
  /\ owner[k] = "sent"
  /\ owner' = [owner EXCEPT ![k] = "lost"]
  /\ UNCHANGED <<token, marker, term, active, rel, ship, net, past, crashes,
                 faults>>

(* begin_release of claim_confirm_activate: its errors are ignored.        *)
AbortMark(k) ==
  /\ owner[k] = "abort"
  /\ marker' = [marker EXCEPT ![k].st = "release_pending"]
  /\ owner' = [owner EXCEPT ![k] = "abort_spool"]
  /\ UNCHANGED <<token, term, active, rel, ship, net, past, crashes, faults>>

AbortSpool(k) ==
  /\ owner[k] = "abort_spool"
  /\ SpoolTerminal(k, "release", "owner")
  /\ owner' = [owner EXCEPT ![k] = "done"]
  /\ UNCHANGED <<token, marker, active, rel, ship, net, past, crashes, faults>>

(* A claim write fails: mark_confirmed falls back to begin_release, and a  *)
(* failing begin_release leaves the claim as it is.                        *)
ClaimWriteFails(k) ==
  /\ Cardinality(faults) < MaxFault
  /\ owner[k] \in {"persist", "abort", "abort_spool"}
  /\ owner' = [owner EXCEPT ![k] = IF @ = "persist" THEN "abort" ELSE "done"]
  /\ faults' = faults \cup {k}
  /\ UNCHANGED <<token, marker, term, active, rel, ship, net, past, crashes>>

DispatchMarker(k) == [marker[k] EXCEPT !.st = "routed"]

(* mark_routed, then the first dispatch upstream.                          *)
MarkRouted(k) ==
  /\ owner[k] = "ready"
  /\ marker' = [marker EXCEPT ![k] = DispatchMarker(k)]
  /\ owner' = [owner EXCEPT ![k] = "routed"]
  /\ past' = [past EXCEPT ![k] = @ \cup {"sent"}]
  /\ UNCHANGED <<token, term, active, rel, ship, net, crashes, faults>>

(* settle: spooled and removed from the active map in one step.            *)
SettleRequest(k) ==
  /\ owner[k] = "routed"
  /\ SpoolTerminal(k, "settlement", "handler")
  /\ active' = active \ {k}
  /\ owner' = [owner EXCEPT ![k] = "done"]
  /\ UNCHANGED <<token, marker, rel, ship, net, past, crashes, faults>>

(* release by the handler, by a dropped scope or for a caller that left.   *)
StartRelease(k) ==
  /\ owner[k] \in {"handoff", "ready", "routed"}
  /\ owner' = [owner EXCEPT ![k] = "done"]
  /\ rel' = [rel EXCEPT ![k] = "mark"]
  /\ past' = [past EXCEPT ![k] = @ \cup {"gave_up"}]
  /\ UNCHANGED <<token, marker, term, active, ship, net, crashes, faults>>

ReleaseMark(k) ==
  /\ rel[k] = "mark"
  /\ marker' = [marker EXCEPT ![k].st = "release_pending"]
  /\ rel' = [rel EXCEPT ![k] = "spool"]
  /\ UNCHANGED <<token, term, owner, active, ship, net, past, crashes, faults>>

(* The entry leaves the active map only when this release was spooled.     *)
ReleaseSpool(k) ==
  /\ rel[k] = "spool"
  /\ SpoolTerminal(k, "release", "handler")
  /\ active' = IF MaySpool(k) THEN active \ {k} ELSE active
  /\ rel' = [rel EXCEPT ![k] = "idle"]
  /\ UNCHANGED <<token, marker, owner, ship, net, past, crashes, faults>>

(* finish is cancelled between the two writes; the dropped scope starts    *)
(* another release.                                                        *)
ReleaseCancelled(k) ==
  /\ rel[k] = "spool"
  /\ rel' = [rel EXCEPT ![k] = "mark"]
  /\ UNCHANGED <<token, marker, term, owner, active, ship, net, past, crashes,
                 faults>>

-----------------------------------------------------------------------------
(* The ship loop.                                                          *)

(* publish_release_pending reads the claims, then spools them one by one;  *)
(* the first refusal ends the tick.                                        *)
PublishLoad ==
  /\ ship.st = "idle"
  /\ ship' = [ship EXCEPT !.st = "publish", !.todo =
       {k \in Token : /\ marker[k].st = "release_pending"
                      /\ ~marker[k].acked /\ term[k] = NoTerm}]
  /\ UNCHANGED <<token, marker, term, owner, active, rel, net, past, crashes,
                 faults>>

PublishRelease(k) ==
  /\ ship.st = "publish" /\ k \in ship.todo
  /\ SpoolTerminal(k, "release", "loop")
  /\ ship' = IF MaySpool(k) THEN [ship EXCEPT !.todo = @ \ {k}] ELSE IdleShip
  /\ UNCHANGED <<token, marker, owner, active, rel, net, past, crashes, faults>>

Spooled == {t \in Posted : term[t.k].kind = t.kind}

Post ==
  /\ ship.st = "publish" /\ ship.todo = {}
  /\ IF Spooled = {}
     THEN ship' = IdleShip /\ UNCHANGED net
     ELSE /\ ship' = [ship EXCEPT !.st = "wait", !.batch = Spooled]
          /\ net' = net \cup {Batch(Spooled)}
  /\ UNCHANGED <<token, marker, term, owner, active, rel, past, crashes, faults>>

ShipTimeout ==
  /\ ship.st = "wait"
  /\ ship' = IdleShip
  /\ UNCHANGED <<token, marker, term, owner, active, rel, net, past, crashes,
                 faults>>

(* acknowledge_terminal of one posted terminal.                            *)
AckTerminal(t) ==
  /\ ship.st = "ack" /\ t \in ship.batch
  /\ IF term[t.k].kind = t.kind
     THEN /\ marker' = [marker EXCEPT ![t.k].acked = TRUE]
          /\ term' = [term EXCEPT ![t.k] = NoTerm]
     ELSE UNCHANGED <<marker, term>>
  /\ ship' = IF ship.batch = {t} THEN IdleShip
             ELSE [ship EXCEPT !.batch = @ \ {t}]
  /\ UNCHANGED <<token, owner, active, rel, net, past, crashes, faults>>

(* Fault: startup releases every abandoned claim.                          *)
StartupTermReleases(k) ==
  IF MaySpool(k) THEN [kind |-> "release", by |-> "start"] ELSE term[k]

(* Fault: startup recovers dispatched claims only.                         *)
StartupTermRouted(k) ==
  IF MaySpool(k) /\ marker[k].st = "routed"
  THEN [kind |-> "settlement", by |-> "start"] ELSE term[k]

(* recover_startup_before_publish.                                         *)
StartupTerm(k) ==
  IF MaySpool(k)
  THEN [kind |-> IF marker[k].st = "routed" THEN "settlement" ELSE "release",
        by |-> "start"]
  ELSE term[k]

(* The process stops anywhere, in acknowledge_terminal also between its    *)
(* two writes (half), and starts again.                                    *)
Crash(half) ==
  /\ crashes < MaxCrash
  /\ half \in {{}} \cup {{t} : t \in {u \in ship.batch :
                 ship.st = "ack" /\ term[u.k].kind = u.kind}}
  /\ crashes' = crashes + 1
  /\ marker' = [k \in Token |->
       IF \E t \in half : t.k = k THEN [marker[k] EXCEPT !.acked = TRUE]
       ELSE marker[k]]
  /\ term' = [k \in Token |-> StartupTerm(k)]
  /\ owner' = [k \in Token |-> IF owner[k] = "idle" THEN "idle" ELSE "done"]
  /\ active' = {} /\ rel' = [k \in Token |-> "idle"] /\ ship' = IdleShip
  /\ UNCHANGED <<token, net, past, faults>>

-----------------------------------------------------------------------------
OwnerStep(k) ==
  \/ \E v \in BOOLEAN : Claim(k, v)
  \/ ConfirmTimeout(k) \/ MarkConfirmed(k) \/ HandOff(k)
  \/ AbortMark(k) \/ AbortSpool(k)

HandlerStep(k) ==
  \/ BuildScope(k) \/ HandlerDropped(k)
  \/ MarkRouted(k) \/ SettleRequest(k) \/ StartRelease(k)

ReleaseStep(k) == ReleaseMark(k) \/ ReleaseSpool(k)

ShipStep ==
  \/ PublishLoad \/ Post \/ ShipTimeout
  \/ \E k \in Token : PublishRelease(k)
  \/ \E t \in ship.batch : AckTerminal(t)

AdmNext ==
  \/ \E k \in Token :
       \/ \E a \in BOOLEAN : Issue(k, a)
       \/ Expire(k) \/ Reap(k)
       \/ \E onTime, a, rep \in BOOLEAN : ConfirmArrives(k, onTime, a, rep)
       \/ OwnerStep(k) \/ ClaimWriteFails(k)
       \/ HandlerStep(k) \/ ReleaseStep(k) \/ ReleaseCancelled(k)
  \/ \E m \in net : Lost(m)
  \/ \E m \in net, a, rep \in BOOLEAN : BatchArrives(m, a, rep)
  \/ ShipStep
  \/ \E half \in {{}} \cup {{t} : t \in ship.batch} : Crash(half)

(* Every spawned task runs on, a handler goes on or is dropped, the        *)
(* Primary runs its reaper, and a batch posted again and again is answered *)
(* again and again.  Nothing runs for a lost admission.                    *)
AdmFairness ==
  /\ \A k \in Token :
       /\ WF_admVars(OwnerStep(k)) /\ WF_admVars(ReleaseStep(k))
       /\ WF_admVars(HandlerStep(k))
       /\ WF_admVars(Expire(k)) /\ WF_admVars(Reap(k))
  /\ WF_admVars(ShipStep)
  /\ SF_admVars(\E m \in net : BatchArrives(m, TRUE, FALSE))

AdmSpec == AdmInit /\ [][AdmNext]_admVars

FairAdmSpec == AdmSpec /\ AdmFairness

-----------------------------------------------------------------------------
(* DispatchedKeepsQuota: as long as a dispatched request has not spooled   *)
(* its terminal, its quota is held: neither the reaper, a late release nor *)
(* a repeated confirmation gave the token a receipt (PRP-B19D).            *)
DispatchedKeepsQuota ==
  \A k \in Token :
    (marker[k].st = "routed" \/ owner[k] = "routed")
      /\ term[k] = NoTerm /\ ~marker[k].acked
    => token[k].confirmed /\ token[k].receipt = "none"

(* SpooledIsAcceptable: the Primary never refuses a terminal on disk.  A   *)
(* refused one would roll back every batch that carries it and stop all    *)
(* metering of the Replica (apply_metering_batch_tx).                      *)
SpooledIsAcceptable ==
  \A k \in Token :
    term[k] # NoTerm => Acceptable([k |-> k, kind |-> term[k].kind])

(* AckedIsReceived: a claim is only acknowledged when the Primary has its  *)
(* receipt.                                                                *)
AckedIsReceived ==
  \A k \in Token : marker[k].acked => token[k].receipt # "none"

(* SentIsNotForgiven: a request that was dispatched is released only when  *)
(* its handler gave it up, not because the Replica crashed (PRP-B19F).     *)
SentIsNotForgiven ==
  \A k \in Token :
    "sent" \in past[k] /\ token[k].receipt = "release"
      => "gave_up" \in past[k]

(* ReceiptIsFinal: a receipt, once written, never changes, whatever is     *)
(* delivered late or twice.                                                *)
ReceiptIsFinal ==
  [][\A k \in Token :
       token[k].receipt # "none" => token'[k].receipt = token[k].receipt]_admVars

(* IssuedIsResolved: every issued token eventually has a receipt, so no    *)
(* quota is held forever; only a failed claim write, or a handler dropped  *)
(* between the hand-off and its scope, may need a restart, and the restart *)
(* then resolves what the handler left.                                    *)
IssuedIsResolved ==
  \A k \in Token :
    \/ <>[](owner[k] = "lost")
    \/ (token[k].st # "none") ~> (token[k].receipt # "none" \/ k \in faults)
=============================================================================
