-------------------------- MODULE RequestPathProofs -------------------------
(***************************************************************************)
(* The request path.  First the routing: a change of the configuration is  *)
(* forgotten nowhere; for any channels, requests, limits and number of     *)
(* changes, nothing learnt under the older configuration survives its      *)
(* prune or comes back after it.                                           *)
(***************************************************************************)
EXTENDS ChannelRouting, RequestLogSpool, GenerationCache, ReplicaMetering, SumTheorems, TLAPS

(* The fields of an entry of channel_health.                               *)
HealthFields == {"st", "healthy", "cool", "probes", "probed", "samples", "ver"}

HealthEntry(h) == DOMAIN h = HealthFields /\ h.st \in {"absent", "present"} /\ h.ver \in Nat

Bound(b) == DOMAIN b = {"ch", "bound", "left", "ver"} /\ b.ver \in Nat

ShapeOK ==
  /\ health = [c \in Channel |-> health[c]]
  /\ \A c \in Channel : HealthEntry(health[c])
  /\ Bound(binding)
  /\ dbVer \in Nat /\ revision \in Nat
  /\ changed \in [Learnt -> [Channel -> Nat]]
  /\ DOMAIN admin = {"st", "chs", "todo"}
  /\ admin.st \in {"idle", "stored", "pruning"} /\ admin.todo \in Seq(Learnt)
  /\ admin.st = "pruning" => admin.todo # <<>>
  /\ admin.st = "idle" => admin.todo = <<>>

(* Storing and advancing the revision alternate: the revision lags behind  *)
(* the stored configuration only between the two.                          *)
RevisionFollows == dbVer = IF admin.st = "stored" THEN revision + 1 ELSE revision

(* An attempt or probe read the revision before the configuration, so what *)
(* still has the current revision knows a configuration as new as that.    *)
Fresh(p) == p.rev \in Nat /\ p.ver \in Nat /\ p.rev <= p.ver

Attempt(q) ==
  /\ DOMAIN q = {"st", "rev", "ver", "todo", "hit", "used"}
  /\ q.st \in {"idle", "captured", "calling", "streaming"}
  /\ q.st = "captured" => q.rev \in Nat /\ q.rev <= revision
  /\ q.st \in {"calling", "streaming"} => Fresh(q)

AttemptsFresh ==
  /\ req = [r \in Req |-> req[r]]
  /\ \A r \in Req : Attempt(req[r])

ProbesFresh ==
  /\ DOMAIN probe = {"st", "rev", "ver", "todo", "ch", "lag"}
  /\ probe.st \in {"asleep", "awake", "started", "tick", "asked"}
  /\ probe.st = "started" => probe.rev \in Nat /\ probe.rev <= revision
  /\ probe.st \in {"tick", "asked"} => Fresh(probe)

(* A change newer than the revision is one whose prune is still to come.   *)
ChangesPending ==
  \A w \in Learnt, c \in Channel :
    \/ changed[w][c] <= revision
    \/ admin.st = "stored" /\ Unpruned(w, c) /\ changed[w][c] <= dbVer

RoutingInv ==
  /\ ShapeOK /\ RevisionFollows /\ AttemptsFresh /\ ProbesFresh
  /\ ChangesPending /\ ChangeForgets

-----------------------------------------------------------------------------
(* What each outcome of a call or a probe makes of an entry: it stays as   *)
(* old as it was, or becomes as old as the writer.                         *)
Aged(h, new, v) ==
  /\ HealthEntry(new) /\ new.st = "present"
  /\ new.ver = v \/ (h.st = "present" /\ new.ver = h.ver)

LEMMA NewAged ==
  ASSUME NEW h, HealthEntry(h), NEW v \in Nat
  PROVE  LET old == IF h.st = "absent" THEN NewHealth(v) ELSE h
         IN  /\ DOMAIN old = HealthFields /\ old.st = "present"
             /\ old.ver \in Nat /\ Lesser(old.ver, v) \in Nat
             /\ Lesser(old.ver, v) = v \/ (h.st = "present" /\ Lesser(old.ver, v) = h.ver)
<1>1. DOMAIN NewHealth(v) = HealthFields /\ NewHealth(v).st = "present" /\ NewHealth(v).ver = v
  BY DEF NewHealth, NoHealth, HealthFields
<1> QED
  BY <1>1 DEF HealthEntry, Lesser

LEMMA FailedAged ==
  ASSUME NEW h, HealthEntry(h), NEW v \in Nat, NEW class
  PROVE  Aged(h, FailedHealth(h, class, v), v)
<1> DEFINE old == IF h.st = "absent" THEN NewHealth(v) ELSE h
           s == SampledUpToThreshold(PrunedSamples(old.samples))
           hit == [old EXCEPT !.samples = s, !.ver = Lesser(@, v)]
<1>1. /\ DOMAIN old = HealthFields /\ old.st = "present"
      /\ old.ver \in Nat /\ Lesser(old.ver, v) \in Nat
      /\ Lesser(old.ver, v) = v \/ (h.st = "present" /\ Lesser(old.ver, v) = h.ver)
  BY NewAged
<1> HIDE DEF old, s
<1>2. DOMAIN hit = HealthFields /\ hit.st = "present" /\ hit.ver = Lesser(old.ver, v)
  BY <1>1 DEF HealthFields
<1> HIDE DEF hit
<1> DEFINE down == [hit EXCEPT !.healthy = FALSE, !.probes = 0,
                      !.probed = ProbeEvery + MaxLag,
                      !.cool = IF class = "rate" THEN RateCooldown ELSE Cooldown]
<1>3. DOMAIN down = HealthFields /\ down.st = "present" /\ down.ver = Lesser(old.ver, v)
  BY <1>2 DEF HealthFields
<1>4. FailedHealth(h, class, v) \in {hit, down}
  BY DEF FailedHealth, hit, s, old
<1> QED
  BY <1>1, <1>2, <1>3, <1>4 DEF Aged, HealthEntry

LEMMA HealedAged ==
  ASSUME NEW h, HealthEntry(h), NEW v \in Nat
  PROVE  Aged(h, HealedHealth(h, v), v)
<1> DEFINE old == IF h.st = "absent" THEN NewHealth(v) ELSE h
           new == [old EXCEPT !.healthy = TRUE, !.cool = 0, !.probes = 0,
                     !.probed = ProbeEvery + MaxLag, !.ver = Lesser(@, v),
                     !.samples = PrunedSamples(@)]
<1>1. /\ DOMAIN old = HealthFields /\ old.st = "present"
      /\ old.ver \in Nat /\ Lesser(old.ver, v) \in Nat
      /\ Lesser(old.ver, v) = v \/ (h.st = "present" /\ Lesser(old.ver, v) = h.ver)
  BY NewAged
<1> HIDE DEF old
<1>2. DOMAIN new = HealthFields /\ new.st = "present" /\ new.ver = Lesser(old.ver, v)
  BY <1>1 DEF HealthFields
<1>3. HealedHealth(h, v) = new
  BY DEF HealedHealth, old
<1> QED
  BY <1>1, <1>2, <1>3 DEF Aged, HealthEntry

LEMMA ProbedAged ==
  ASSUME NEW h, HealthEntry(h), probe.ver \in Nat, NEW ok
  PROVE  Aged(h, ProbedHealth(h, ok), probe.ver)
<1> DEFINE v == probe.ver
           old == IF h.st = "absent" THEN NewHealth(v) ELSE h
           new == [old EXCEPT !.probed = probe.lag, !.ver = Lesser(@, v)]
<1>1. /\ DOMAIN old = HealthFields /\ old.st = "present"
      /\ old.ver \in Nat /\ Lesser(old.ver, v) \in Nat
      /\ Lesser(old.ver, v) = v \/ (h.st = "present" /\ Lesser(old.ver, v) = h.ver)
  BY NewAged
<1> HIDE DEF old
<1>2. DOMAIN new = HealthFields /\ new.st = "present" /\ new.ver = Lesser(old.ver, v)
  BY <1>1 DEF HealthFields
<1> DEFINE down == [new EXCEPT !.healthy = FALSE, !.probes = 0, !.cool = Cooldown - probe.lag]
           more == [new EXCEPT !.probes = @ + 1]
           up == [new EXCEPT !.healthy = TRUE, !.cool = 0, !.probes = 0,
                    !.probed = ProbeEvery + MaxLag]
<1>3. ProbedHealth(h, ok) \in {down, more, up}
  BY DEF ProbedHealth, old
<1> HIDE DEF new
<1>4. /\ DOMAIN down = HealthFields /\ down.st = "present" /\ down.ver = new.ver
      /\ DOMAIN more = HealthFields /\ more.st = "present" /\ more.ver = new.ver
      /\ DOMAIN up = HealthFields /\ up.st = "present" /\ up.ver = new.ver
  BY <1>2 DEF HealthFields
<1> QED
  BY <1>1, <1>2, <1>3, <1>4 DEF Aged, HealthEntry

-----------------------------------------------------------------------------
(* A writer of version v has touched the entries.                          *)
Written(v) ==
  /\ health' = [c \in Channel |-> health'[c]]
  /\ \A c \in Channel :
       /\ HealthEntry(health'[c])
       /\ health'[c].st = "present" =>
            \/ health[c].st = "present" /\ health'[c].ver = health[c].ver
            \/ health'[c].ver = v

(* One entry is written.                                                   *)
LEMMA EntryWritten ==
  ASSUME ShapeOK, NEW v, NEW c, NEW new,
         c \in Channel => Aged(health[c], new, v),
         health' = [health EXCEPT ![c] = new]
  PROVE  Written(v)
<1>1. health = [d \in Channel |-> health[d]] /\ \A d \in Channel : HealthEntry(health[d])
  BY DEF ShapeOK
<1>2. health' = [d \in Channel |-> IF d = c THEN new ELSE health[d]]
  BY <1>1
<1>3. \A d \in Channel : health'[d] = IF d = c THEN new ELSE health[d]
  BY <1>2
<1>4. health' = [d \in Channel |-> health'[d]]
  BY <1>2
<1> QED
  BY <1>1, <1>3, <1>4 DEF Written, Aged

LEMMA NothingWritten ==
  ASSUME ShapeOK, NEW v, UNCHANGED health PROVE Written(v)
BY DEF ShapeOK, Written, HealthEntry

(* A writer whose revision is current knows every change that has not its  *)
(* prune still to come, so it brings nothing back.                         *)
LEMMA WriterForgets ==
  ASSUME RoutingInv, NEW v, Written(v),
         UNCHANGED <<changed, admin, dbVer, revision>>,
         (v \in Nat /\ revision <= v) \/ UNCHANGED health,
         \/ UNCHANGED binding
         \/ binding' = NoBinding
         \/ Bound(binding') /\ revision <= binding'.ver
  PROVE  ShapeOK' /\ RevisionFollows' /\ ChangesPending' /\ ChangeForgets'
<1>1. /\ ShapeOK /\ ChangesPending /\ ChangeForgets /\ RevisionFollows
      /\ revision \in Nat
  BY DEF RoutingInv, ShapeOK
<1>2. Bound(binding') /\ (binding' = NoBinding => binding'.ch = "none")
  BY <1>1 DEF NoBinding, ShapeOK, Bound
<1>3. ShapeOK'
  BY <1>1, <1>2 DEF ShapeOK, Written
<1>4. RevisionFollows' /\ ChangesPending'
  BY <1>1 DEF RevisionFollows, ChangesPending, Unpruned
<1>5. ASSUME NEW w \in Learnt, NEW c \in Channel, ~Unpruned(w, c)
      PROVE  changed[w][c] \in Nat /\ changed[w][c] <= revision
  BY <1>1, <1>5 DEF ChangesPending, ShapeOK
<1>6. ASSUME NEW c \in Channel, health'[c].st = "present", ~Unpruned("health", c)
      PROVE  health'[c].ver >= changed["health"][c]
  <2>1. changed["health"][c] \in Nat /\ changed["health"][c] <= revision
    BY <1>5, <1>6 DEF Learnt
  <2>2. CASE health[c].st = "present" /\ health'[c].ver = health[c].ver
    BY <1>1, <1>6, <2>2 DEF ChangeForgets, Entries
  <2>3. CASE health'[c].ver = v /\ v \in Nat /\ revision <= v
    BY <1>1, <2>1, <2>3
  <2> QED
    BY <1>6, <2>2, <2>3 DEF Written
<1>7. ASSUME NEW c \in Channel, binding'.ch = c, ~Unpruned("affinity", c)
      PROVE  binding'.ver >= changed["affinity"][c]
  <2>1. changed["affinity"][c] \in Nat /\ changed["affinity"][c] <= revision
    BY <1>5, <1>7 DEF Learnt
  <2>2. binding' # NoBinding
    BY <1>2, <1>7, RoutingConstants
  <2>3. CASE UNCHANGED binding
    BY <1>1, <1>7, <2>3 DEF ChangeForgets
  <2>4. CASE Bound(binding') /\ revision <= binding'.ver
    BY <1>1, <2>1, <2>4 DEF Bound
  <2> QED
    BY <2>2, <2>3, <2>4
<1>8. ChangeForgets'
  BY <1>6, <1>7 DEF ChangeForgets, Entries, Unpruned
<1> QED
  BY <1>3, <1>4, <1>8

-----------------------------------------------------------------------------
LEMMA IdleAttempt == Attempt(IdleReq)
BY DEF Attempt, IdleReq

(* One request moves on.                                                   *)
LEMMA RequestMoves ==
  ASSUME RoutingInv, NEW r \in Req, NEW q, Attempt(q),
         req' = [req EXCEPT ![r] = q], UNCHANGED revision
  PROVE  AttemptsFresh'
<1>1. req = [s \in Req |-> req[s]] /\ \A s \in Req : Attempt(req[s])
  BY DEF RoutingInv, AttemptsFresh
<1>2. req' = [s \in Req |-> IF s = r THEN q ELSE req[s]]
  BY <1>1
<1>3. \A s \in Req : req'[s] = IF s = r THEN q ELSE req[s]
  BY <1>2
<1>4. req' = [s \in Req |-> req'[s]]
  BY <1>2
<1> QED
  BY <1>1, <1>3, <1>4 DEF AttemptsFresh, Attempt, Fresh

LEMMA RequestsRest ==
  ASSUME RoutingInv, UNCHANGED <<req, revision>> PROVE AttemptsFresh'
BY DEF RoutingInv, AttemptsFresh, Attempt, Fresh

LEMMA ProbeRests ==
  ASSUME RoutingInv, UNCHANGED <<probe, revision>> PROVE ProbesFresh'
BY DEF RoutingInv, ProbesFresh, Fresh

(* Neither entries nor the binding are written.                            *)
LEMMA NothingLearnt ==
  ASSUME RoutingInv, UNCHANGED <<changed, dbVer, revision, health, binding, admin>>
  PROVE  ShapeOK' /\ RevisionFollows' /\ ChangesPending' /\ ChangeForgets'
<1>1. Written(0)
  BY NothingWritten DEF RoutingInv
<1> QED
  BY <1>1, WriterForgets

LEMMA CaptureStep ==
  ASSUME RoutingInv, NEW r \in Req, CaptureRevision(r) PROVE RoutingInv'
<1> DEFINE q == [IdleReq EXCEPT !.st = "captured", !.rev = revision]
<1>1. Attempt(q)
  BY DEF RoutingInv, ShapeOK, Attempt, IdleReq
<1> HIDE DEF q
<1>2. AttemptsFresh'
  BY <1>1, RequestMoves DEF CaptureRevision, q
<1> QED
  BY <1>2, NothingLearnt, ProbeRests DEF CaptureRevision, RoutingInv

LEMMA BuildStep ==
  ASSUME RoutingInv, NEW r \in Req, BuildAttempts(r) PROVE RoutingInv'
<1>1. PICK hit, todo :
        req' \in {[req EXCEPT ![r] = IdleReq],
                  [req EXCEPT ![r] = [@ EXCEPT !.st = "calling", !.ver = dbVer,
                                        !.hit = hit, !.used = 1, !.todo = todo]]}
  BY DEF BuildAttempts
<1> DEFINE p == req[r]
           q == [p EXCEPT !.st = "calling", !.ver = dbVer,
                          !.hit = hit, !.used = 1, !.todo = todo]
<1>2. /\ Attempt(p) /\ p.st = "captured"
      /\ revision \in Nat /\ dbVer \in Nat /\ revision <= dbVer
  BY DEF RoutingInv, ShapeOK, RevisionFollows, AttemptsFresh, BuildAttempts
<1>3. req' \in {[req EXCEPT ![r] = IdleReq], [req EXCEPT ![r] = q]}
  BY <1>1
<1> HIDE DEF p
<1>4. /\ DOMAIN q = {"st", "rev", "ver", "todo", "hit", "used"}
      /\ q.st = "calling" /\ q.rev = p.rev /\ q.ver = dbVer
  BY <1>2 DEF Attempt
<1> HIDE DEF q
<1>5. Attempt(q)
  BY <1>2, <1>4 DEF Attempt, Fresh
<1>6. AttemptsFresh'
  BY <1>3, <1>5, IdleAttempt, RequestMoves DEF BuildAttempts
<1> QED
  BY <1>6, NothingLearnt, ProbeRests DEF BuildAttempts, RoutingInv

-----------------------------------------------------------------------------
(* An attempt that may still publish is as new as the revision.            *)
LEMMA CurrentIsNew ==
  ASSUME RoutingInv, NEW r \in Req, req[r].st \in {"calling", "streaming"}
  PROVE  /\ req[r].ver \in Nat
         /\ CurrentRevision(req[r].rev) => revision <= req[r].ver
BY DEF RoutingInv, AttemptsFresh, Attempt, Fresh, CurrentRevision

(* record_upstream_attempt_failure and record_midstream_terminal_failure.  *)
LEMMA FailureForgets ==
  ASSUME RoutingInv, NEW r \in Req, req[r].st \in {"calling", "streaming"},
         NEW c, NEW class,
         health' = MarkFailure(r, c, class),
         binding' = ClearedBinding(r, c, class),
         UNCHANGED <<changed, dbVer, revision, admin>>
  PROVE  ShapeOK' /\ RevisionFollows' /\ ChangesPending' /\ ChangeForgets'
<1> DEFINE v == req[r].ver
<1>1. v \in Nat /\ (CurrentRevision(req[r].rev) => revision <= v)
  BY CurrentIsNew
<1>2. ShapeOK /\ \A d \in Channel : HealthEntry(health[d])
  BY DEF RoutingInv, ShapeOK
<1>3. binding' = NoBinding \/ UNCHANGED binding
  BY DEF ClearedBinding
<1>4. CASE UNCHANGED health
  BY <1>1, <1>2, <1>3, <1>4, NothingWritten, WriterForgets
<1>5. CASE /\ health' = [health EXCEPT ![c] = FailedHealth(@, class, v)]
           /\ CurrentRevision(req[r].rev)
  <2> DEFINE new == FailedHealth(health[c], class, v)
  <2>1. health' = [health EXCEPT ![c] = new]
    BY <1>5
  <2>2. c \in Channel => Aged(health[c], new, v)
    BY <1>1, <1>2, FailedAged
  <2> HIDE DEF new, v
  <2>3. Written(v)
    BY <1>2, <2>1, <2>2, EntryWritten
  <2> QED
    BY <1>1, <1>3, <1>5, <2>3, WriterForgets
<1> QED
  BY <1>4, <1>5 DEF MarkFailure

LEMMA CallFailsStep ==
  ASSUME RoutingInv, NEW r \in Req, NEW class, CallFails(r, class)
  PROVE  RoutingInv'
<1>0. PICK used, todo :
        req' \in {[req EXCEPT ![r] = [@ EXCEPT !.used = used]],
                  [req EXCEPT ![r] = IdleReq],
                  [req EXCEPT ![r] = [@ EXCEPT !.todo = todo, !.used = 1, !.hit = FALSE]]}
  BY DEF CallFails
<1> DEFINE p == req[r]
           again == [p EXCEPT !.used = used]
           next == [p EXCEPT !.todo = todo, !.used = 1, !.hit = FALSE]
<1>1. p.st = "calling" /\ Attempt(p)
  BY DEF CallFails, RoutingInv, AttemptsFresh
<1>2. req' \in {[req EXCEPT ![r] = again], [req EXCEPT ![r] = IdleReq],
                [req EXCEPT ![r] = next]}
  BY <1>0
<1> HIDE DEF p
<1>3. /\ DOMAIN again = DOMAIN p /\ again.st = p.st /\ again.rev = p.rev
      /\ again.ver = p.ver
      /\ DOMAIN next = DOMAIN p /\ next.st = p.st /\ next.rev = p.rev
      /\ next.ver = p.ver
  BY <1>1 DEF Attempt
<1> HIDE DEF again, next
<1>4. Attempt(again) /\ Attempt(next)
  BY <1>1, <1>3 DEF Attempt, Fresh
<1>5. AttemptsFresh'
  BY <1>2, <1>4, IdleAttempt, RequestMoves DEF CallFails
<1>6. ShapeOK' /\ RevisionFollows' /\ ChangesPending' /\ ChangeForgets'
  BY FailureForgets DEF CallFails
<1> QED
  BY <1>5, <1>6, ProbeRests DEF CallFails, RoutingInv

LEMMA StreamBreaksStep ==
  ASSUME RoutingInv, NEW r \in Req, NEW class, StreamBreaks(r, class)
  PROVE  RoutingInv'
<1>1. AttemptsFresh'
  BY IdleAttempt, RequestMoves DEF StreamBreaks
<1>2. ShapeOK' /\ RevisionFollows' /\ ChangesPending' /\ ChangeForgets'
  BY FailureForgets DEF StreamBreaks
<1> QED
  BY <1>1, <1>2, ProbeRests DEF StreamBreaks, RoutingInv

LEMMA CallSucceedsStep ==
  ASSUME RoutingInv, NEW r \in Req, CallSucceeds(r) PROVE RoutingInv'
<1> DEFINE p == req[r]
           q == [p EXCEPT !.st = "streaming"]
           v == p.ver
           c == Head(p.todo)
<1>1. p.st = "calling" /\ Attempt(p) /\ req' = [req EXCEPT ![r] = q]
  BY DEF CallSucceeds, RoutingInv, AttemptsFresh
<1>2. v \in Nat /\ (CurrentRevision(req[r].rev) => revision <= v)
  BY <1>1, CurrentIsNew
<1>3. ShapeOK /\ \A d \in Channel : HealthEntry(health[d])
  BY DEF RoutingInv, ShapeOK
<1>4. ShapeOK' /\ RevisionFollows' /\ ChangesPending' /\ ChangeForgets'
  <2>1. CASE UNCHANGED health
    BY <1>3, <2>1, NothingWritten, WriterForgets DEF CallSucceeds
  <2>2. CASE /\ health' = [health EXCEPT ![c] = HealedHealth(@, v)]
             /\ CurrentRevision(req[r].rev)
    <3> DEFINE new == HealedHealth(health[c], v)
    <3>1. health' = [health EXCEPT ![c] = new]
      BY <2>2
    <3>2. c \in Channel => Aged(health[c], new, v)
      BY <1>2, <1>3, HealedAged
    <3> HIDE DEF new, v, c
    <3>3. Written(v)
      BY <1>3, <3>1, <3>2, EntryWritten
    <3> QED
      BY <1>2, <2>2, <3>3, WriterForgets DEF CallSucceeds
  <2> QED
    BY <2>1, <2>2 DEF CallSucceeds
<1> HIDE DEF p
<1>5. DOMAIN q = DOMAIN p /\ q.st = "streaming" /\ q.rev = p.rev /\ q.ver = p.ver
  BY <1>1 DEF Attempt
<1> HIDE DEF q
<1>6. Attempt(q)
  BY <1>1, <1>5 DEF Attempt, Fresh
<1>7. AttemptsFresh'
  BY <1>1, <1>6, RequestMoves DEF CallSucceeds
<1> QED
  BY <1>4, <1>7, ProbeRests DEF CallSucceeds, RoutingInv

LEMMA CompleteStep ==
  ASSUME RoutingInv, NEW r \in Req, Complete(r) PROVE RoutingInv'
<1>1. AttemptsFresh'
  BY IdleAttempt, RequestMoves DEF Complete
<1>2. \/ UNCHANGED binding
      \/ /\ CurrentRevision(req[r].rev) /\ binding'.ver = req[r].ver
         /\ DOMAIN binding' = {"ch", "bound", "left", "ver"}
  BY DEF Complete
<1>3. \/ UNCHANGED binding
      \/ Bound(binding') /\ revision <= binding'.ver
  BY <1>2, CurrentIsNew DEF Complete, Bound
<1>4. ShapeOK' /\ RevisionFollows' /\ ChangesPending' /\ ChangeForgets'
  BY <1>3, NothingWritten, WriterForgets DEF Complete, RoutingInv
<1> QED
  BY <1>1, <1>4, ProbeRests DEF Complete, RoutingInv

-----------------------------------------------------------------------------
LEMMA StartProbeStep ==
  ASSUME RoutingInv, StartProbeTick PROVE RoutingInv'
<1> DEFINE q == [IdleProbe EXCEPT !.st = "started", !.rev = revision]
<1>1. /\ DOMAIN q = {"st", "rev", "ver", "todo", "ch", "lag"}
      /\ q.st = "started" /\ q.rev = revision
  BY DEF IdleProbe
<1> HIDE DEF q
<1>2. ProbesFresh'
  BY <1>1 DEF StartProbeTick, ProbesFresh, RoutingInv, ShapeOK, q
<1> QED
  BY <1>2, NothingLearnt, RequestsRest DEF StartProbeTick, RoutingInv

LEMMA LoadCandidatesStep ==
  ASSUME RoutingInv, LoadCandidates PROVE RoutingInv'
<1>1. PICK todo : probe' = [probe EXCEPT !.st = "tick", !.ver = dbVer, !.todo = todo]
  BY DEF LoadCandidates
<1>2. /\ ProbesFresh /\ probe.st = "started"
      /\ revision \in Nat /\ dbVer \in Nat /\ revision <= dbVer
  BY DEF RoutingInv, ShapeOK, RevisionFollows, LoadCandidates
<1>3. /\ DOMAIN probe' = DOMAIN probe
      /\ probe'.st = "tick" /\ probe'.rev = probe.rev /\ probe'.ver = dbVer
  BY <1>1, <1>2 DEF ProbesFresh
<1>4. ProbesFresh'
  BY <1>2, <1>3 DEF ProbesFresh, Fresh
<1> QED
  BY <1>4, NothingLearnt, RequestsRest DEF LoadCandidates, RoutingInv

(* A step of the scheduler that writes no health and stays in its tick.    *)
LEMMA ProbeMoves ==
  ASSUME RoutingInv, probe.st \in {"tick", "asked"},
         DOMAIN probe' = DOMAIN probe, probe'.st \in {"tick", "asked"},
         probe'.rev = probe.rev, probe'.ver = probe.ver,
         UNCHANGED <<present, dbVer, changed, revision, health, binding, req, admin>>
  PROVE  RoutingInv'
<1>1. ProbesFresh'
  BY DEF RoutingInv, ProbesFresh, Fresh
<1> QED
  BY <1>1, NothingLearnt, RequestsRest DEF RoutingInv

(* ... or ends it.                                                         *)
LEMMA ProbeTickEnds ==
  ASSUME RoutingInv, probe' = IdleProbe,
         UNCHANGED <<present, dbVer, changed, revision, health, binding, req, admin>>
  PROVE  RoutingInv'
<1>1. ProbesFresh'
  BY DEF ProbesFresh, IdleProbe
<1> QED
  BY <1>1, NothingLearnt, RequestsRest DEF RoutingInv

LEMMA ProbeNextStep ==
  ASSUME RoutingInv, ProbeNext PROVE RoutingInv'
<1>1. ProbesFresh
  BY DEF RoutingInv
<1>2. /\ DOMAIN probe' = DOMAIN probe
      /\ probe'.st = "asked" /\ probe'.rev = probe.rev /\ probe'.ver = probe.ver
  BY <1>1 DEF ProbeNext, ProbesFresh
<1> QED
  BY <1>2, ProbeMoves DEF ProbeNext

LEMMA ProbeHinderedStep ==
  ASSUME RoutingInv, ProbeHindered PROVE RoutingInv'
<1>1. ProbesFresh
  BY DEF RoutingInv
<1>2. CASE CandidatesFail
  BY <1>2, ProbeTickEnds DEF CandidatesFail
<1>3. CASE ProbeSkipped
  <2>1. /\ DOMAIN probe' = DOMAIN probe
        /\ probe'.st = "tick" /\ probe'.rev = probe.rev /\ probe'.ver = probe.ver
    BY <1>1, <1>3 DEF ProbeSkipped, ProbesFresh
  <2> QED
    BY <1>3, <2>1, ProbeMoves DEF ProbeSkipped
<1>4. CASE ProbeUncounted
  <2>1. /\ DOMAIN probe' = DOMAIN probe
        /\ probe'.st = "tick" /\ probe'.rev = probe.rev /\ probe'.ver = probe.ver
    BY <1>1, <1>4 DEF ProbeUncounted, ProbesFresh
  <2> QED
    BY <1>4, <2>1, ProbeMoves DEF ProbeUncounted
<1> QED
  BY <1>2, <1>3, <1>4 DEF ProbeHindered

LEMMA ProbeAnsweredStep ==
  ASSUME RoutingInv, NEW ok \in BOOLEAN, ProbeAnswered(ok) PROVE RoutingInv'
<1> DEFINE v == probe.ver
           c == probe.ch
<1>1. ProbesFresh /\ probe.st = "asked" /\ Fresh(probe)
  BY DEF RoutingInv, ProbesFresh, ProbeAnswered
<1>2. v \in Nat /\ (CurrentRevision(probe.rev) => revision <= v)
  BY <1>1 DEF Fresh, CurrentRevision
<1>3. ShapeOK /\ \A d \in Channel : HealthEntry(health[d])
  BY DEF RoutingInv, ShapeOK
<1>4. ShapeOK' /\ RevisionFollows' /\ ChangesPending' /\ ChangeForgets'
  <2>1. CASE UNCHANGED health
    BY <1>3, <2>1, NothingWritten, WriterForgets DEF ProbeAnswered
  <2>2. CASE /\ health' = [health EXCEPT ![c] = ProbedHealth(@, ok)]
             /\ CurrentRevision(probe.rev)
    <3> DEFINE new == ProbedHealth(health[c], ok)
    <3>1. health' = [health EXCEPT ![c] = new]
      BY <2>2
    <3>2. c \in Channel => Aged(health[c], new, v)
      BY <1>2, <1>3, ProbedAged
    <3> HIDE DEF new, v, c
    <3>3. Written(v)
      BY <1>3, <3>1, <3>2, EntryWritten
    <3> QED
      BY <1>2, <2>2, <3>3, WriterForgets DEF ProbeAnswered
  <2> QED
    BY <2>1, <2>2 DEF ProbeAnswered
<1>5. /\ DOMAIN probe' = DOMAIN probe
      /\ probe'.st = "tick" /\ probe'.rev = probe.rev /\ probe'.ver = probe.ver
  BY <1>1 DEF ProbeAnswered, ProbesFresh
<1>6. ProbesFresh'
  BY <1>1, <1>5 DEF ProbesFresh, Fresh
<1> QED
  BY <1>4, <1>6, RequestsRest DEF ProbeAnswered, RoutingInv

-----------------------------------------------------------------------------
(* The stored change is newer than all that was learnt, and its prune is   *)
(* to come.                                                                *)
LEMMA StoreStep ==
  ASSUME RoutingInv, NEW S, NEW prunes \in Seq(Learnt), Store(S, prunes)
  PROVE  RoutingInv'
<1>1. /\ ShapeOK /\ RevisionFollows /\ ChangesPending /\ ChangeForgets
      /\ dbVer \in Nat /\ revision \in Nat /\ admin.st = "idle" /\ dbVer = revision
  BY DEF RoutingInv, ShapeOK, RevisionFollows, Store
<1>2. admin'.st = "stored" /\ admin'.todo = prunes /\ admin'.chs = S
  BY DEF Store
<1>3. \A w \in Learnt, c \in Channel :
        changed'[w][c] = IF Unpruned(w, c)' THEN dbVer + 1 ELSE changed[w][c]
  BY <1>2 DEF Store, Unpruned
<1>4. changed' \in [Learnt -> [Channel -> Nat]]
  BY <1>1 DEF Store, ShapeOK
<1>5. ShapeOK'
  BY <1>1, <1>2, <1>4 DEF ShapeOK, Store, HealthEntry
<1>6. RevisionFollows'
  BY <1>1, <1>2 DEF RevisionFollows, Store
<1>7. \A w \in Learnt, c \in Channel : changed[w][c] \in Nat /\ changed[w][c] <= revision
  BY <1>1 DEF ChangesPending, ShapeOK
<1>8. ChangesPending'
  BY <1>1, <1>2, <1>3, <1>7 DEF ChangesPending, Store
<1>9. \A w \in Learnt, c \in Channel : ~Unpruned(w, c)
  BY <1>1 DEF ShapeOK, Unpruned
<1>10. ChangeForgets'
  BY <1>1, <1>3, <1>9 DEF ChangeForgets, Store, Entries, Learnt
<1>11. AttemptsFresh' /\ ProbesFresh'
  BY RequestsRest, ProbeRests DEF Store
<1> QED
  BY <1>5, <1>6, <1>8, <1>10, <1>11 DEF RoutingInv

LEMMA AdvanceStep ==
  ASSUME RoutingInv, AdvanceRevision PROVE RoutingInv'
<1>1. /\ ShapeOK /\ RevisionFollows /\ ChangesPending /\ ChangeForgets
      /\ AttemptsFresh /\ ProbesFresh
      /\ dbVer \in Nat /\ revision \in Nat /\ admin.st = "stored"
      /\ dbVer = revision + 1 /\ revision' = revision + 1 /\ dbVer' = dbVer
  BY DEF RoutingInv, ShapeOK, RevisionFollows, AdvanceRevision
<1>2. /\ admin'.todo = admin.todo /\ admin'.todo \in Seq(Learnt)
      /\ admin'.st = IF admin.todo = <<>> THEN "idle" ELSE "pruning"
      /\ \A w \in Learnt, c \in Channel : Unpruned(w, c)' <=> Unpruned(w, c)
  <2>1. CASE admin.todo = <<>>
    BY <1>1, <2>1 DEF AdvanceRevision, IdleAdmin, Unpruned, ShapeOK
  <2>2. CASE admin.todo # <<>> /\ admin' = [admin EXCEPT !.st = "pruning"]
    <3>1. {"st", "chs", "todo"} = DOMAIN admin
      BY <1>1 DEF ShapeOK
    <3> QED
      BY <1>1, <2>2, <3>1 DEF Unpruned, ShapeOK
  <2> QED
    BY <2>1, <2>2 DEF AdvanceRevision
<1>7. DOMAIN admin' = {"st", "chs", "todo"}
  BY <1>1 DEF AdvanceRevision, IdleAdmin, ShapeOK
<1>3. ShapeOK'
  BY <1>1, <1>2, <1>7 DEF ShapeOK, AdvanceRevision
<1>8. RevisionFollows'
  BY <1>1, <1>2 DEF RevisionFollows
<1>4. ChangesPending'
  BY <1>1, <1>2 DEF ChangesPending, AdvanceRevision, ShapeOK
<1>5. ChangeForgets'
  BY <1>1, <1>2 DEF ChangeForgets, AdvanceRevision, Entries, Learnt
<1>6. AttemptsFresh' /\ ProbesFresh'
  BY <1>1 DEF AttemptsFresh, ProbesFresh, Attempt, Fresh, AdvanceRevision
<1> QED
  BY <1>3, <1>4, <1>5, <1>6, <1>8 DEF RoutingInv

(* A list with more than one element is its head and its tail.             *)
LEMMA TailHolds ==
  ASSUME NEW S, NEW s \in Seq(S), s # <<>>, Len(s) # 1
  PROVE  /\ Tail(s) \in Seq(S) /\ Tail(s) # <<>>
         /\ \A i \in DOMAIN s : \/ s[i] = Head(s)
                               \/ \E j \in DOMAIN Tail(s) : Tail(s)[j] = s[i]
<1>1. Len(s) # 0
  OBVIOUS
<1>2. Len(s) \in Nat /\ DOMAIN s = 1..Len(s) /\ Head(s) = s[1]
  OBVIOUS
<1>3. Len(s) > 1
  BY <1>1, <1>2
<1>4. /\ Tail(s) \in Seq(S) /\ Len(Tail(s)) = Len(s) - 1
      /\ \A j \in 1..(Len(s) - 1) : Tail(s)[j] = s[j + 1]
  OBVIOUS
<1>5. DOMAIN Tail(s) = 1..(Len(s) - 1)
  BY <1>4
<1>6. Tail(s) # <<>>
  <2>1. Len(Tail(s)) # 0
    BY <1>2, <1>3, <1>4
  <2>2. Len(<<>>) = 0
    OBVIOUS
  <2> QED
    BY <2>1, <2>2
<1>7. ASSUME NEW i \in DOMAIN s, i # 1
      PROVE  i - 1 \in DOMAIN Tail(s) /\ Tail(s)[i - 1] = s[i]
  <2>1. i \in Int /\ i - 1 \in 1..(Len(s) - 1) /\ (i - 1) + 1 = i
    BY <1>2, <1>7
  <2> QED
    BY <1>4, <1>5, <2>1
<1> QED
  BY <1>2, <1>4, <1>6, <1>7

(* What is pruned is off the list, and nothing else.                       *)
LEMMA PruneTakesHead ==
  ASSUME RoutingInv, Prune
  PROVE  /\ admin'.todo \in Seq(Learnt) /\ DOMAIN admin' = {"st", "chs", "todo"}
         /\ admin'.st = IF admin'.todo = <<>> THEN "idle" ELSE "pruning"
         /\ \A w \in Learnt, c \in Channel : Unpruned(w, c) /\ ~Unpruned(w, c)'
              => w = Head(admin.todo) /\ c \in admin.chs
<1>1. /\ DOMAIN admin = {"st", "chs", "todo"} /\ admin.st = "pruning"
      /\ admin.todo \in Seq(Learnt) /\ admin.todo # <<>>
  BY DEF RoutingInv, ShapeOK, Prune
<1>2. CASE Len(admin.todo) = 1
  <2>1. admin'.st = "idle" /\ admin'.todo = <<>> /\ DOMAIN admin' = {"st", "chs", "todo"}
    BY <1>2 DEF Prune, IdleAdmin
  <2>2. \A i \in DOMAIN admin.todo : admin.todo[i] = Head(admin.todo)
    BY <1>1, <1>2
  <2> QED
    BY <2>1, <2>2 DEF Unpruned
<1>3. CASE Len(admin.todo) # 1
  <2>1. /\ admin'.st = "pruning" /\ admin'.todo = Tail(admin.todo)
        /\ admin'.chs = admin.chs /\ DOMAIN admin' = {"st", "chs", "todo"}
    BY <1>1, <1>3 DEF Prune
  <2>2. /\ Tail(admin.todo) \in Seq(Learnt) /\ Tail(admin.todo) # <<>>
        /\ \A i \in DOMAIN admin.todo :
             \/ admin.todo[i] = Head(admin.todo)
             \/ \E j \in DOMAIN Tail(admin.todo) : Tail(admin.todo)[j] = admin.todo[i]
    BY <1>1, <1>3, TailHolds
  <2> QED
    BY <2>1, <2>2 DEF Unpruned
<1> QED
  BY <1>2, <1>3

LEMMA PruneStep ==
  ASSUME RoutingInv, Prune PROVE RoutingInv'
<1>1. /\ ShapeOK /\ RevisionFollows /\ ChangesPending /\ ChangeForgets
      /\ admin.st = "pruning" /\ admin.todo \in Seq(Learnt) /\ admin.todo # <<>>
      /\ Head(admin.todo) \in Learnt
  BY DEF RoutingInv, ShapeOK, Prune
<1>2. HealthEntry(NoHealth) /\ NoHealth.st = "absent"
  BY DEF HealthEntry, NoHealth, HealthFields
<1>3. NoBinding.ch = "none" /\ Bound(NoBinding)
  BY DEF NoBinding, Bound
<1> DEFINE gone == Head(admin.todo)
<1>4. \A c \in Channel :
        health'[c] = IF gone = "health" /\ c \in admin.chs THEN NoHealth ELSE health[c]
  BY DEF Prune, PrunedHealth
<1>5. health' = [c \in Channel |-> health'[c]]
  BY <1>1 DEF Prune, PrunedHealth, ShapeOK
<1>6. binding' = IF gone # "health" /\ binding.ch \in admin.chs THEN NoBinding ELSE binding
  BY DEF Prune, PrunedBinding
<1>7. ShapeOK'
  BY <1>1, <1>2, <1>3, <1>4, <1>5, <1>6, PruneTakesHead DEF ShapeOK, Prune
<1>8. RevisionFollows' /\ ChangesPending'
  BY <1>1, PruneTakesHead DEF RevisionFollows, ChangesPending, Prune
<1>9. ASSUME NEW c \in Channel, health'[c].st = "present", ~Unpruned("health", c)'
      PROVE  health'[c].ver >= changed["health"][c]
  BY <1>1, <1>2, <1>4, <1>9, PruneTakesHead DEF ChangeForgets, Entries, Learnt
<1>10. ASSUME NEW c \in Channel, binding'.ch = c, ~Unpruned("affinity", c)'
       PROVE  binding'.ver >= changed["affinity"][c]
  BY <1>1, <1>3, <1>6, <1>10, PruneTakesHead, RoutingConstants DEF ChangeForgets, Learnt
<1>11. ChangeForgets'
  BY <1>9, <1>10 DEF ChangeForgets, Entries, Prune
<1>12. AttemptsFresh' /\ ProbesFresh'
  BY RequestsRest, ProbeRests DEF Prune
<1> QED
  BY <1>7, <1>8, <1>11, <1>12 DEF RoutingInv

LEMMA TickStep ==
  ASSUME RoutingInv, Tick PROVE RoutingInv'
<1>1. ASSUME NEW c \in Channel
      PROVE  \E x, y, z :
               health'[c] = [health[c] EXCEPT !.cool = x, !.probed = y, !.samples = z]
  BY DEF Tick
<1>2. ASSUME NEW c \in Channel
      PROVE  HealthEntry(health'[c]) /\ health'[c].st = health[c].st /\ health'[c].ver = health[c].ver
  <2>1. PICK x, y, z :
          health'[c] = [health[c] EXCEPT !.cool = x, !.probed = y, !.samples = z]
    BY <1>1
  <2>2. HealthEntry(health[c])
    BY DEF RoutingInv, ShapeOK
  <2> QED
    BY <2>1, <2>2 DEF HealthEntry, HealthFields
<1>3. health' = [c \in Channel |-> health'[c]]
  BY DEF Tick
<1>4. ShapeOK /\ ChangeForgets /\ RevisionFollows /\ ChangesPending /\ ProbesFresh
  BY DEF RoutingInv
<1>5. \/ binding' = NoBinding
      \/ \E x, y : binding' = [binding EXCEPT !.left = x, !.bound = y]
  BY DEF Tick
<1>6. /\ Bound(binding')
      /\ \/ binding'.ch = "none"
         \/ binding'.ch = binding.ch /\ binding'.ver = binding.ver
  <2>1. CASE binding' = NoBinding
    BY <2>1 DEF NoBinding, Bound
  <2>2. CASE binding' # NoBinding
    <3>1. PICK x, y : binding' = [binding EXCEPT !.left = x, !.bound = y]
      BY <1>5, <2>2
    <3>2. Bound(binding)
      BY <1>4 DEF ShapeOK
    <3>3. DOMAIN binding' = DOMAIN binding /\ binding'.ch = binding.ch /\ binding'.ver = binding.ver
      BY <3>1, <3>2 DEF Bound
    <3> QED
      BY <3>2, <3>3 DEF Bound
  <2> QED
    BY <2>1, <2>2
<1>7. ShapeOK'
  BY <1>2, <1>3, <1>4, <1>6 DEF ShapeOK, Tick
<1>8. RevisionFollows' /\ ChangesPending'
  BY <1>4 DEF RevisionFollows, ChangesPending, Unpruned, Tick
<1>14. UNCHANGED <<changed, admin>>
  BY DEF Tick
<1>9. ChangeForgets'
  BY <1>2, <1>4, <1>6, <1>14, RoutingConstants DEF ChangeForgets, Entries, Unpruned
<1>10. \/ probe' = [probe EXCEPT !.st = "awake"]
       \/ \E x : probe' = [probe EXCEPT !.lag = x]
  BY DEF Tick
<1>11. /\ DOMAIN probe' = DOMAIN probe /\ probe'.rev = probe.rev /\ probe'.ver = probe.ver
       /\ probe'.st \in {"awake", probe.st}
  BY <1>4, <1>10 DEF ProbesFresh
<1>12. ProbesFresh'
  BY <1>4, <1>11 DEF ProbesFresh, Fresh, Tick
<1>13. AttemptsFresh'
  BY RequestsRest DEF Tick
<1> QED
  BY <1>7, <1>8, <1>9, <1>12, <1>13 DEF RoutingInv

-----------------------------------------------------------------------------
LEMMA RoutingStarts == ASSUME RoutingInit PROVE RoutingInv
<1>1. HealthEntry(NoHealth) /\ NoHealth.st = "absent"
  BY DEF HealthEntry, NoHealth, HealthFields
<1>2. NoBinding.ch = "none" /\ Bound(NoBinding)
  BY DEF NoBinding, Bound
<1>3. ShapeOK
  BY <1>1, <1>2 DEF ShapeOK, RoutingInit, IdleAdmin
<1>4. RevisionFollows
  BY DEF RoutingInit, RevisionFollows, IdleAdmin
<1>5. AttemptsFresh
  BY IdleAttempt DEF AttemptsFresh, RoutingInit
<1>6. ProbesFresh
  BY DEF ProbesFresh, RoutingInit, IdleProbe
<1>7. ChangesPending
  BY DEF ChangesPending, RoutingInit
<1>8. ChangeForgets
  BY <1>1, <1>2, RoutingConstants DEF ChangeForgets, RoutingInit, Entries
<1> QED
  BY <1>3, <1>4, <1>5, <1>6, <1>7, <1>8 DEF RoutingInv

LEMMA RoutingKept == ASSUME RoutingInv, [RoutingNext]_routingVars PROVE RoutingInv'
<1>1. CASE UNCHANGED routingVars
  <2>1. UNCHANGED <<changed, dbVer, revision, health, binding, req, probe, admin>>
    BY <1>1 DEF routingVars
  <2> QED
    BY <2>1, NothingLearnt, RequestsRest, ProbeRests DEF RoutingInv
<1>2. ASSUME NEW r \in Req,
             \/ CaptureRevision(r) \/ BuildAttempts(r) \/ CallSucceeds(r)
             \/ Complete(r)
      PROVE  RoutingInv'
  BY <1>2, CaptureStep, BuildStep, CallSucceedsStep, CompleteStep
<1>3. ASSUME NEW r \in Req, NEW class \in Class,
             CallFails(r, class) \/ StreamBreaks(r, class)
      PROVE  RoutingInv'
  BY <1>3, CallFailsStep, StreamBreaksStep
<1>4. CASE ProbeStep
  BY <1>4, StartProbeStep, LoadCandidatesStep, ProbeTickEnds, ProbeNextStep,
     ProbeAnsweredStep
     DEF ProbeStep, EndProbeTick
<1>9. CASE ProbeHindered
  BY <1>9, ProbeHinderedStep
<1>5. CASE AdminStep
  BY <1>5, AdvanceStep, PruneStep DEF AdminStep
<1>6. ASSUME NEW c \in Channel, NEW gone \in BOOLEAN, StoreProvider(c, gone)
      PROVE  RoutingInv'
  <2>1. <<"health", "affinity">> \in Seq(Learnt)
    BY DEF Learnt
  <2> QED
    BY <1>6, <2>1, StoreStep DEF StoreProvider
<1>7. ASSUME NEW prunes \in SettingsPrunes, StoreForAll(prunes)
      PROVE  RoutingInv'
  <2>1. /\ <<"affinity", "health">> \in Seq(Learnt) /\ <<"affinity">> \in Seq(Learnt)
        /\ <<"health">> \in Seq(Learnt) /\ <<>> \in Seq(Learnt)
    BY DEF Learnt
  <2>2. prunes \in Seq(Learnt)
    BY <2>1, Zenon DEF SettingsPrunes
  <2> QED
    BY <1>7, <2>2, StoreStep DEF StoreForAll
<1>8. CASE Tick
  BY <1>8, TickStep
<1> QED
  BY <1>1, <1>2, <1>3, <1>4, <1>5, <1>6, <1>7, <1>8, <1>9
     DEF RoutingNext

(* ChangesForgotten: whatever the channels, the limits and the number of   *)
(* changes of the configuration, no attempt and no probe that read an      *)
(* older configuration leaves or brings back health or a binding that the  *)
(* handler of the change has pruned: the revision is read before the       *)
(* configuration and compared under the lock of the map.                   *)
THEOREM ChangesForgotten == RoutingSpec => []ChangeForgets
<1>1. RoutingInv => ChangeForgets
  BY DEF RoutingInv
<1>2. RoutingInit => RoutingInv
  BY RoutingStarts
<1>3. RoutingInv /\ [RoutingNext]_routingVars => RoutingInv'
  BY RoutingKept
<1> QED
  BY <1>1, <1>2, <1>3, PTL DEF RoutingSpec

-----------------------------------------------------------------------------
(***************************************************************************)
(* The caches never serve a row older than an invalidated mutation, for    *)
(* any keys, users, readers, writers, capacity and number of mutations; no *)
(* armed log is lost and no fallback takes the place of a terminal log,    *)
(* for any number of requests, restarts and failed writes.                 *)
(***************************************************************************)

(* What a reader holds: never ahead of the generation, and, as long as     *)
(* nothing was invalidated since, not older than any invalidated mutation. *)
ReaderHolds(p) ==
  /\ reader[p].gen <= gen
  /\ reader[p].floor <= done[reader[p].key]
  /\ /\ reader[p].st \notin {"idle", "miss"}
     /\ reader[p].st = "read" => reader[p].ver # 0
     /\ reader[p].gen = gen
     => reader[p].ver >= done[reader[p].key]
  /\ /\ reader[p].st \in {"read", "locked", "checked", "stored", "answered"}
     /\ reader[p].st = "read" => reader[p].ver # 0
     => reader[p].ver >= reader[p].floor

(* The inductive invariant: no invalidation is ahead of the commit it      *)
(* follows, and the promise of ReadableIsCurrent holds of every copy that  *)
(* a reader may still publish or answer with.                              *)
CacheInv ==
  /\ CacheTypeOK
  /\ \A k \in Key : done[k] <= version[k]
  /\ \A w \in Writer, k \in Key : writer[w].ver[k] <= version[k]
  /\ ReadableIsCurrent
  /\ \A p \in Reader : ReaderHolds(p)

(* Empty caches and idle readers satisfy the invariant.                    *)
LEMMA CacheInitInv == CacheInit => CacheInv
<1> SUFFICES ASSUME CacheInit PROVE CacheInv
  OBVIOUS
<1> USE DEF CacheInit, NoEntry, Entry, ReaderState
<1>1. reader \in [Reader -> [st : {"idle"}, key : Key, gen : {0}, ver : {0}, floor : {0}]]
  OBVIOUS
<1>2. CacheTypeOK
  BY <1>1, CacheConstants DEF CacheTypeOK
<1>3. ReadableIsCurrent
  BY DEF ReadableIsCurrent, Cached
<1>4. \A p \in Reader : ReaderHolds(p)
  BY <1>1 DEF ReaderHolds
<1> QED
  BY <1>2, <1>3, <1>4 DEF CacheInv

(* A step that leaves the database, the generation and the writers alone   *)
(* keeps the invariant if it keeps the cache, and what one reader holds.   *)
LEMMA QuietStep ==
  ASSUME CacheInv, CacheTypeOK', NEW p \in Reader,
         UNCHANGED <<version, done, gen, writer>>,
         \A q \in Reader \ {p} : reader'[q] = reader[q],
         \A k \in Key : \/ cache'[k].st = "absent"
                        \/ cache'[k].gen = cache[k].gen /\ cache'[k].ver = cache[k].ver
                             /\ cache[k].st # "absent"
                        \/ cache'[k].gen = gen => cache'[k].ver >= done[k],
         ReaderHolds(p)'
  PROVE  CacheInv'
<1>1. ReadableIsCurrent'
  BY DEF CacheInv, ReadableIsCurrent, Cached, CacheTypeOK
<1>2. \A q \in Reader \ {p} : ReaderHolds(q)'
  BY DEF CacheInv, ReaderHolds
<1> QED
  BY <1>1, <1>2 DEF CacheInv

(* The states in which a reader holds the lock.                            *)
Publishing == {"locked", "checked", "stored"}

ReaderRecord ==
  [st : ReaderState, key : Key, gen : Nat, ver : Nat, floor : Nat]

(* A step of one reader that takes, keeps or returns the lock as it should *)
(* and leaves the cache in its type.                                       *)
LEMMA LockMoves ==
  ASSUME CacheTypeOK, NEW p \in Reader,
         reader' \in [Reader -> ReaderRecord],
         \A q \in Reader \ {p} : reader'[q] = reader[q],
         \/ lock' = lock /\ (reader'[p].st \in Publishing <=> reader[p].st \in Publishing)
         \/ lock = {} /\ lock' = {p} /\ reader'[p].st \in Publishing
         \/ reader[p].st \in Publishing /\ lock' = {} /\ reader'[p].st \notin Publishing,
         cache' \in [Key -> Entry], index' \in [CacheUser -> SUBSET Key],
         \A k \in Key : cache'[k].gen <= gen,
         UNCHANGED <<version, done, gen, writer, writes>>
  PROVE  CacheTypeOK'
<1>1. lock' \in SUBSET Reader
  BY DEF CacheTypeOK
<1>2. \A q \in Reader : lock = {q} <=> reader[q].st \in Publishing
  BY DEF CacheTypeOK, Publishing
<1>3. \A q \in Reader : lock' = {q} <=> reader'[q].st \in Publishing
  <2>1. CASE lock' = lock
    BY <1>2, <2>1
  <2>2. CASE lock = {} /\ lock' = {p}
    BY <1>2, <2>2
  <2>3. CASE reader[p].st \in Publishing /\ lock' = {}
    <3>1. lock = {p}
      BY <1>2, <2>3
    <3> QED
      BY <1>2, <2>3, <3>1
  <2> QED
    BY <2>1, <2>2, <2>3
<1> QED
  BY <1>1, <1>3 DEF CacheTypeOK, Publishing, ReaderRecord

(* Removing keys leaves the cache and the index in their types.            *)
LEMMA RemoveTypes ==
  ASSUME CacheTypeOK, NEW S, RemoveKeys(S)
  PROVE  /\ cache' \in [Key -> Entry] /\ index' \in [CacheUser -> SUBSET Key]
         /\ \A k \in Key : cache'[k].gen <= gen
BY DEF CacheTypeOK, RemoveKeys, Entry, NoEntry

(* What a reader does keeps the types, and the lock with its holder.       *)
LEMMA ReaderTypes ==
  ASSUME CacheTypeOK, NEW p \in Reader, reader[p].gen <= gen,
         ReaderStep(p) \/ \E k \in Key : Lookup(p, k)
  PROVE  CacheTypeOK'
<1>0. /\ reader \in [Reader -> ReaderRecord] /\ gen \in Nat
      /\ cache \in [Key -> Entry] /\ index \in [CacheUser -> SUBSET Key]
      /\ \A k \in Key : cache[k].gen <= gen
      /\ version \in [Key -> Nat] /\ done \in [Key -> Nat]
  BY DEF CacheTypeOK, ReaderRecord
<1>1. ASSUME NEW x \in ReaderState, reader' = [reader EXCEPT ![p].st = x]
      PROVE  /\ reader' \in [Reader -> ReaderRecord] /\ reader'[p].st = x
             /\ \A q \in Reader \ {p} : reader'[q] = reader[q]
  BY <1>0, <1>1 DEF ReaderRecord
<1>2. ASSUME NEW k \in Key, Lookup(p, k) PROVE CacheTypeOK'
  <2>1. /\ reader' \in [Reader -> ReaderRecord] /\ reader'[p].st \in {"hit", "miss"}
        /\ \A q \in Reader \ {p} : reader'[q] = reader[q]
    BY <1>0, <1>2 DEF Lookup, ReaderRecord, ReaderState, Entry
  <2> QED
    BY <1>0, <1>2, <2>1, LockMoves DEF Lookup, Publishing
<1>3. CASE CheckHit(p)
  <2>1. /\ reader' \in [Reader -> ReaderRecord] /\ reader'[p].st \in {"hitChecked", "miss"}
        /\ \A q \in Reader \ {p} : reader'[q] = reader[q]
    <3>1. \E x \in {"hitChecked", "miss"} : reader' = [reader EXCEPT ![p].st = x]
      BY <1>3 DEF CheckHit
    <3> QED
      BY <3>1, <1>1 DEF ReaderState
  <2>2. /\ cache' \in [Key -> Entry] /\ index' \in [CacheUser -> SUBSET Key]
        /\ \A k \in Key : cache'[k].gen <= gen
    <3>1. RemoveKeys({reader[p].key}) \/ UNCHANGED <<cache, index>>
      BY <1>3 DEF CheckHit
    <3> QED
      BY <3>1, <1>0, RemoveTypes
  <2> QED
    BY <1>3, <2>1, <2>2, LockMoves DEF CheckHit, Publishing
<1>4. CASE ReturnHit(p)
  <2>1. \E x \in {"answered", "miss"} : reader' = [reader EXCEPT ![p].st = x]
    BY <1>4 DEF ReturnHit
  <2> QED
    BY <1>0, <1>1, <1>4, <2>1, LockMoves DEF ReturnHit, ReaderState, Publishing
<1>5. CASE CaptureGeneration(p)
  <2>1. /\ reader' \in [Reader -> ReaderRecord] /\ reader'[p].st = "read"
        /\ \A q \in Reader \ {p} : reader'[q] = reader[q]
    <3>1. reader[p] \in ReaderRecord
      BY <1>0
    <3>2. reader' = [reader EXCEPT ![p] = [@ EXCEPT !.st = "read", !.gen = gen, !.ver = 0]]
      BY <1>0, <1>5 DEF CaptureGeneration
    <3>3. /\ [reader[p] EXCEPT !.st = "read", !.gen = gen, !.ver = 0] \in ReaderRecord
          /\ [reader[p] EXCEPT !.st = "read", !.gen = gen, !.ver = 0].st = "read"
      BY <1>0, <3>1 DEF ReaderRecord, ReaderState
    <3> QED
      BY <1>0, <3>2, <3>3
  <2> QED
    BY <1>0, <1>5, <2>1, LockMoves DEF CaptureGeneration, Publishing
<1>6. CASE ReadRow(p)
  <2>1. /\ reader' \in [Reader -> ReaderRecord] /\ reader'[p].st = "read"
        /\ \A q \in Reader \ {p} : reader'[q] = reader[q]
    <3>1. reader[p].key \in Key
      BY <1>0 DEF ReaderRecord
    <3>2. version[reader[p].key] \in Nat
      BY <1>0, <3>1
    <3> QED
      BY <1>0, <1>6, <3>2 DEF ReadRow, ReaderRecord, ReaderState
  <2> QED
    BY <1>0, <1>6, <2>1, LockMoves DEF ReadRow, Publishing
<1>7. CASE AnswerUncached(p)
  BY <1>0, <1>1, <1>7, LockMoves DEF AnswerUncached, ReaderState, Publishing
<1>8. CASE InsertLock(p)
  BY <1>0, <1>1, <1>8, LockMoves DEF InsertLock, ReaderState, Publishing
<1>9. CASE InsertCheck(p)
  BY <1>0, <1>1, <1>9, LockMoves DEF InsertCheck, ReaderState, Publishing
<1>10. CASE InsertStore(p)
  <2>1. PICK gone \in Evictions(reader[p].key) :
          /\ cache' = [c \in Key |->
               IF c = reader[p].key
               THEN [ver |-> reader[p].ver, gen |-> EntryGeneration(p), st |-> "fresh"]
               ELSE IF c \in gone THEN NoEntry ELSE cache[c]]
          /\ index' = IndexWith(reader[p].key, gone)
    BY <1>10 DEF InsertStore
  <2>3. cache' \in [Key -> Entry] /\ \A k \in Key : cache'[k].gen <= gen
    BY <1>0, <2>1 DEF EntryGeneration, ReaderRecord, Entry, NoEntry
  <2>4. index' \in [CacheUser -> SUBSET Key]
    BY <1>0, <2>1 DEF IndexWith, ReaderRecord
  <2> QED
    BY <1>1, <1>10, <2>3, <2>4, LockMoves DEF InsertStore, ReaderState, Publishing
<1>11. CASE InsertRecheck(p)
  <2>1. /\ cache' \in [Key -> Entry] /\ index' \in [CacheUser -> SUBSET Key]
        /\ \A k \in Key : cache'[k].gen <= gen
    <3>1. RemoveKeys({reader[p].key}) \/ UNCHANGED <<cache, index>>
      BY <1>11 DEF InsertRecheck
    <3> QED
      BY <3>1, <1>0, RemoveTypes
  <2>2. \E x \in {"answered", "miss"} : reader' = [reader EXCEPT ![p].st = x]
    BY <1>11 DEF InsertRecheck
  <2> QED
    BY <1>1, <1>11, <2>1, <2>2, LockMoves DEF InsertRecheck, ReaderState, Publishing
<1> QED
  BY <1>2, <1>3, <1>4, <1>5, <1>6, <1>7, <1>8, <1>9, <1>10, <1>11 DEF ReaderStep

(* A reader keeps the invariant: what it copies is current if the          *)
(* generation it compares is, and what it publishes it had read after      *)
(* capturing the generation.                                               *)
LEMMA ReaderKeeps ==
  ASSUME CacheInv, NEW p \in Reader, ReaderStep(p) \/ \E k \in Key : Lookup(p, k)
  PROVE  CacheInv'
<1>0. /\ reader \in [Reader -> ReaderRecord] /\ gen \in Nat
      /\ cache \in [Key -> Entry]
      /\ version \in [Key -> Nat] /\ done \in [Key -> Nat]
      /\ reader[p].key \in Key /\ version[reader[p].key] \in Nat
      /\ done[reader[p].key] \in Nat /\ done[reader[p].key] <= version[reader[p].key]
  BY DEF CacheInv, CacheTypeOK, ReaderRecord
<1>1. ReaderHolds(p)
  BY DEF CacheInv
<1>2. CacheTypeOK'
  BY <1>1, ReaderTypes DEF CacheInv, ReaderHolds
<1>3. ASSUME NEW x \in ReaderState, reader' = [reader EXCEPT ![p].st = x]
      PROVE  /\ reader'[p].st = x /\ reader'[p].key = reader[p].key
             /\ reader'[p].gen = reader[p].gen /\ reader'[p].ver = reader[p].ver
             /\ reader'[p].floor = reader[p].floor
             /\ \A q \in Reader \ {p} : reader'[q] = reader[q]
  BY <1>0, <1>3 DEF ReaderRecord
<1>4. ASSUME NEW k \in Key, Lookup(p, k) PROVE CacheInv'
  <2>1. /\ reader'[p].st \in {"hit", "miss"} /\ reader'[p].key = k
        /\ reader'[p].st = "hit" => k \in Cached
        /\ reader'[p].gen = cache[k].gen /\ reader'[p].ver = cache[k].ver
        /\ reader'[p].floor = done[k]
        /\ \A q \in Reader \ {p} : reader'[q] = reader[q]
    BY <1>0, <1>4 DEF Lookup
  <2>2. cache[k].gen <= gen /\ (k \in Cached /\ cache[k].gen = gen => cache[k].ver >= done[k])
    BY DEF CacheInv, CacheTypeOK, ReadableIsCurrent
  <2>3. ReaderHolds(p)'
    BY <1>0, <1>4, <2>1, <2>2 DEF Lookup, ReaderHolds
  <2> QED
    BY <1>2, <1>4, <2>1, <2>3, QuietStep DEF Lookup
<1>5. CASE CheckHit(p)
  <2>1. PICK x \in {"hitChecked", "miss"} : reader' = [reader EXCEPT ![p].st = x]
    BY <1>5 DEF CheckHit
  <2>2. ReaderHolds(p)'
    BY <1>0, <1>1, <1>3, <1>5, <2>1 DEF CheckHit, ReaderHolds, ReaderState
  <2>3. RemoveKeys({reader[p].key}) \/ UNCHANGED cache
    BY <1>5 DEF CheckHit
  <2>4. \A k \in Key : cache'[k].st = "absent" \/ cache'[k] = cache[k]
    BY <2>3, <1>0 DEF RemoveKeys, NoEntry
  <2> QED
    BY <1>2, <1>3, <1>5, <2>1, <2>2, <2>4, QuietStep DEF CheckHit, ReaderState
<1>6. CASE ReturnHit(p)
  <2>1. PICK x \in {"answered", "miss"} :
          /\ reader' = [reader EXCEPT ![p].st = x]
          /\ x = "answered" => reader[p].gen = gen
    BY <1>6 DEF ReturnHit, HitIsCurrent
  <2>2. ReaderHolds(p)'
    BY <1>0, <1>1, <1>3, <1>6, <2>1 DEF ReturnHit, ReaderHolds, ReaderState, ReaderRecord
  <2> QED
    BY <1>2, <1>3, <1>6, <2>1, <2>2, QuietStep DEF ReturnHit, ReaderState
<1>7. CASE CaptureGeneration(p)
  <2>1. reader' = [reader EXCEPT ![p] = [@ EXCEPT !.st = "read", !.gen = gen, !.ver = 0]]
    BY <1>0, <1>7 DEF CaptureGeneration
  <2>2. /\ reader'[p].st = "read" /\ reader'[p].key = reader[p].key
        /\ reader'[p].gen = gen /\ reader'[p].ver = 0
        /\ reader'[p].floor = reader[p].floor
        /\ \A q \in Reader \ {p} : reader'[q] = reader[q]
    BY <1>0, <2>1 DEF ReaderRecord
  <2>3. ReaderHolds(p)'
    BY <1>0, <1>1, <1>7, <2>2 DEF CaptureGeneration, ReaderHolds
  <2> QED
    BY <1>2, <1>7, <2>2, <2>3, QuietStep DEF CaptureGeneration
<1>8. CASE ReadRow(p)
  <2>1. /\ reader'[p].st = "read" /\ reader'[p].key = reader[p].key
        /\ reader'[p].gen = reader[p].gen /\ reader'[p].ver = version[reader[p].key]
        /\ reader'[p].floor = reader[p].floor
        /\ \A q \in Reader \ {p} : reader'[q] = reader[q]
    BY <1>0, <1>8 DEF ReadRow, ReaderRecord
  <2>2. ReaderHolds(p)'
    BY <1>0, <1>1, <1>8, <2>1 DEF ReadRow, ReaderHolds, ReaderRecord
  <2> QED
    BY <1>2, <1>8, <2>1, <2>2, QuietStep DEF ReadRow
<1>9. CASE AnswerUncached(p)
  <2>1. ReaderHolds(p)'
    BY <1>0, <1>1, <1>3, <1>9 DEF AnswerUncached, ReaderHolds, ReaderState
  <2> QED
    BY <1>2, <1>3, <1>9, <2>1, QuietStep DEF AnswerUncached, ReaderState
<1>10. CASE InsertLock(p)
  <2>1. PICK x \in {"locked", "miss"} : reader' = [reader EXCEPT ![p].st = x]
    BY <1>10 DEF InsertLock
  <2>2. ReaderHolds(p)'
    BY <1>0, <1>1, <1>3, <1>10, <2>1 DEF InsertLock, ReaderHolds, ReaderState
  <2> QED
    BY <1>2, <1>3, <1>10, <2>1, <2>2, QuietStep DEF InsertLock, ReaderState
<1>11. CASE InsertCheck(p)
  <2>1. PICK x \in {"checked", "miss"} : reader' = [reader EXCEPT ![p].st = x]
    BY <1>11 DEF InsertCheck
  <2>2. ReaderHolds(p)'
    BY <1>0, <1>1, <1>3, <1>11, <2>1 DEF InsertCheck, ReaderHolds, ReaderState
  <2> QED
    BY <1>2, <1>3, <1>11, <2>1, <2>2, QuietStep DEF InsertCheck, ReaderState
<1>12. CASE InsertStore(p)
  <2>1. PICK gone \in Evictions(reader[p].key) :
          cache' = [c \in Key |->
            IF c = reader[p].key
            THEN [ver |-> reader[p].ver, gen |-> EntryGeneration(p), st |-> "fresh"]
            ELSE IF c \in gone THEN NoEntry ELSE cache[c]]
    BY <1>12 DEF InsertStore
  <2>2. \A k \in Key : \/ cache'[k].st = "absent"
                       \/ cache'[k] = cache[k]
                       \/ cache'[k].gen = gen => cache'[k].ver >= done[k]
    <3>1. reader[p].gen = gen => reader[p].ver >= done[reader[p].key]
      BY <1>1, <1>12 DEF InsertStore, ReaderHolds
    <3> TAKE k \in Key
    <3>2. CASE k = reader[p].key
      <4>1. cache'[k] = [ver |-> reader[p].ver, gen |-> reader[p].gen, st |-> "fresh"]
        BY <2>1, <3>2 DEF EntryGeneration
      <4> QED
        BY <3>1, <3>2, <4>1
    <3>3. CASE k # reader[p].key
      BY <2>1, <3>3 DEF NoEntry
    <3> QED
      BY <3>2, <3>3
  <2>3. ReaderHolds(p)'
    BY <1>0, <1>1, <1>3, <1>12 DEF InsertStore, ReaderHolds, ReaderState
  <2>4. \A q \in Reader \ {p} : reader'[q] = reader[q]
    BY <1>3, <1>12 DEF InsertStore, ReaderState
  <2>5. \A k \in Key : \/ cache'[k].st = "absent"
                       \/ cache'[k].gen = cache[k].gen /\ cache'[k].ver = cache[k].ver
                            /\ cache[k].st # "absent"
                       \/ cache'[k].gen = gen => cache'[k].ver >= done[k]
    <3> TAKE k \in Key
    <3>1. CASE cache'[k].st = "absent"
      BY <3>1
    <3>2. CASE cache'[k].st # "absent" /\ cache'[k] = cache[k]
      BY <3>2
    <3>3. CASE cache'[k].gen = gen => cache'[k].ver >= done[k]
      BY <3>3
    <3> QED
      BY <2>2, <3>1, <3>2, <3>3
  <2> QED
    BY <1>2, <1>12, <2>3, <2>4, <2>5, QuietStep DEF InsertStore
<1>13. CASE InsertRecheck(p)
  <2>1. PICK x \in {"answered", "miss"} : reader' = [reader EXCEPT ![p].st = x]
    BY <1>13 DEF InsertRecheck
  <2>2. ReaderHolds(p)'
    BY <1>0, <1>1, <1>3, <1>13, <2>1 DEF InsertRecheck, ReaderHolds, ReaderState
  <2>3. RemoveKeys({reader[p].key}) \/ UNCHANGED cache
    BY <1>13 DEF InsertRecheck
  <2>4. \A k \in Key : cache'[k].st = "absent" \/ cache'[k] = cache[k]
    BY <2>3, <1>0 DEF RemoveKeys, NoEntry
  <2> QED
    BY <1>2, <1>3, <1>13, <2>1, <2>2, <2>4, QuietStep DEF InsertRecheck, ReaderState
<1> QED
  BY <1>4, <1>5, <1>6, <1>7, <1>8, <1>9, <1>10, <1>11, <1>12, <1>13 DEF ReaderStep

(* A writer keeps the invariant: the generation moves past every entry and *)
(* every copy in the same step as the promise it must keep.                *)
LEMMA WriterKeeps ==
  ASSUME CacheInv, NEW w \in Writer,
         BeginInvalidation(w) \/ RemoveInvalidated(w) \/ \E S \in Scope : Commit(w, S)
  PROVE  CacheInv'
<1>0. /\ gen \in Nat /\ version \in [Key -> Nat] /\ done \in [Key -> Nat]
      /\ cache \in [Key -> Entry] /\ reader \in [Reader -> ReaderRecord]
      /\ writer \in [Writer -> [st : {"idle", "committed", "bumped"},
                                keys : SUBSET Key, ver : [Key -> Nat]]]
  BY DEF CacheInv, CacheTypeOK, ReaderRecord
<1>1. CASE BeginInvalidation(w)
  <2>1. \A k \in Key : /\ done'[k] \in Nat /\ done[k] <= done'[k] /\ done'[k] <= version[k]
    BY <1>0, <1>1 DEF BeginInvalidation, CacheInv
  <2>2. /\ done' \in [Key -> Nat]
        /\ writer' \in [Writer -> [st : {"idle", "committed", "bumped"},
                                  keys : SUBSET Key, ver : [Key -> Nat]]]
        /\ \A v \in Writer : writer'[v].ver = writer[v].ver
    BY <1>0, <1>1, <2>1 DEF BeginInvalidation
  <2>3. gen' = gen + 1 /\ UNCHANGED <<version, cache, index, lock, reader, writes>>
    BY <1>1 DEF BeginInvalidation, NextGeneration
  <2>4. CacheTypeOK'
    BY <1>0, <2>2, <2>3 DEF CacheInv, CacheTypeOK, Entry
  <2>5. ReadableIsCurrent'
    BY <1>0, <2>3 DEF CacheInv, CacheTypeOK, ReadableIsCurrent, Cached, Entry
  <2>6. \A p \in Reader : ReaderHolds(p)'
    BY <1>0, <2>1, <2>3 DEF CacheInv, ReaderHolds, ReaderRecord
  <2> QED
    BY <2>1, <2>2, <2>3, <2>4, <2>5, <2>6 DEF CacheInv
<1>2. CASE RemoveInvalidated(w)
  <2>1. /\ writer' \in [Writer -> [st : {"idle", "committed", "bumped"},
                                  keys : SUBSET Key, ver : [Key -> Nat]]]
        /\ \A v \in Writer : writer'[v].ver = writer[v].ver
    BY <1>0, <1>2 DEF RemoveInvalidated
  <2>2. CacheTypeOK'
    BY <1>2, <2>1, RemoveTypes DEF RemoveInvalidated, CacheInv, CacheTypeOK
  <2>3. ReadableIsCurrent'
    BY <1>0, <1>2 DEF RemoveInvalidated, RemoveKeys, NoEntry, CacheInv, ReadableIsCurrent, Cached
  <2>4. \A p \in Reader : ReaderHolds(p)'
    BY <1>2 DEF RemoveInvalidated, CacheInv, ReaderHolds
  <2> QED
    BY <1>2, <2>1, <2>2, <2>3, <2>4 DEF RemoveInvalidated, CacheInv
<1>3. ASSUME NEW S \in Scope, Commit(w, S) PROVE CacheInv'
  <2>1. /\ version' \in [Key -> Nat] /\ \A k \in Key : version[k] <= version'[k]
    BY <1>0, <1>3 DEF Commit
  <2>2. S \subseteq Key
    BY DEF Scope
  <2>3. /\ writer' \in [Writer -> [st : {"idle", "committed", "bumped"},
                                  keys : SUBSET Key, ver : [Key -> Nat]]]
        /\ \A v \in Writer : writer'[v].ver = writer[v].ver \/ writer'[v].ver = version'
    BY <1>0, <1>3, <2>1, <2>2 DEF Commit
  <2>4. writes' \in 0..MaxWrite
    BY <1>3, CacheConstants DEF Commit, CacheInv, CacheTypeOK
  <2>5. CacheTypeOK'
    BY <1>3, <2>1, <2>3, <2>4 DEF Commit, CacheInv, CacheTypeOK
  <2>6. \A k \in Key : done'[k] <= version'[k]
    BY <1>0, <1>3, <2>1 DEF Commit, CacheInv
  <2>7. \A v \in Writer, k \in Key : writer'[v].ver[k] <= version'[k]
    <3> TAKE v \in Writer, k \in Key
    <3>1. /\ writer[v].ver[k] \in Nat /\ version[k] \in Nat /\ version'[k] \in Nat
          /\ writer[v].ver[k] <= version[k] /\ version[k] <= version'[k]
      BY <1>0, <2>1 DEF CacheInv
    <3>2. CASE writer'[v].ver = writer[v].ver
      BY <3>1, <3>2
    <3>3. CASE writer'[v].ver = version'
      BY <3>1, <3>3
    <3> QED
      BY <2>3, <3>2, <3>3
  <2>8. ReadableIsCurrent' /\ \A p \in Reader : ReaderHolds(p)'
    BY <1>3 DEF Commit, CacheInv, ReadableIsCurrent, Cached, ReaderHolds
  <2> QED
    BY <2>5, <2>6, <2>7, <2>8 DEF CacheInv
<1> QED
  BY <1>1, <1>2, <1>3

(* Every step of the caches keeps the invariant.                           *)
LEMMA CacheStep == CacheInv /\ [CacheNext]_cacheVars => CacheInv'
<1> SUFFICES ASSUME CacheInv, [CacheNext]_cacheVars PROVE CacheInv'
  OBVIOUS
<1>0. /\ gen \in Nat /\ version \in [Key -> Nat] /\ done \in [Key -> Nat]
      /\ cache \in [Key -> Entry]
      /\ writer \in [Writer -> [st : {"idle", "committed", "bumped"},
                                keys : SUBSET Key, ver : [Key -> Nat]]]
  BY DEF CacheInv, CacheTypeOK
<1>1. ASSUME NEW k \in Key, ForeignCommit(k) PROVE CacheInv'
  <2>1. version' \in [Key -> Nat] /\ \A c \in Key : version[c] <= version'[c]
    BY <1>0, <1>1 DEF ForeignCommit
  <2>2. writes' \in 0..MaxWrite
    BY <1>1, CacheConstants DEF ForeignCommit, CacheInv, CacheTypeOK
  <2>3. CacheTypeOK'
    BY <1>1, <2>1, <2>2 DEF ForeignCommit, CacheInv, CacheTypeOK
  <2>4. /\ \A c \in Key : done'[c] <= version'[c]
        /\ \A w \in Writer, c \in Key : writer'[w].ver[c] <= version'[c]
    BY <1>0, <1>1, <2>1 DEF ForeignCommit, CacheInv
  <2>5. ReadableIsCurrent' /\ \A p \in Reader : ReaderHolds(p)'
    BY <1>1 DEF ForeignCommit, CacheInv, ReadableIsCurrent, Cached, ReaderHolds
  <2> QED
    BY <2>3, <2>4, <2>5 DEF CacheInv
<1>2. ASSUME NEW k \in Key, Expire(k) PROVE CacheInv'
  <2>1. /\ cache' \in [Key -> Entry]
        /\ \A c \in Key : cache'[c].gen = cache[c].gen /\ cache'[c].ver = cache[c].ver
                             /\ (cache'[c].st = "absent" <=> cache[c].st = "absent")
    BY <1>0, <1>2 DEF Expire, Entry
  <2>2. CacheTypeOK'
    BY <1>2, <2>1 DEF Expire, CacheInv, CacheTypeOK
  <2>3. ReadableIsCurrent' /\ \A p \in Reader : ReaderHolds(p)'
    BY <1>2, <2>1 DEF Expire, CacheInv, ReadableIsCurrent, Cached, ReaderHolds
  <2> QED
    BY <1>2, <2>2, <2>3 DEF Expire, CacheInv
<1>3. CASE EvictExpired
  <2>1. CacheTypeOK'
    BY <1>3, RemoveTypes DEF EvictExpired, CacheInv, CacheTypeOK
  <2>2. ReadableIsCurrent'
    BY <1>0, <1>3 DEF EvictExpired, RemoveKeys, NoEntry, CacheInv, ReadableIsCurrent, Cached
  <2>3. \A p \in Reader : ReaderHolds(p)'
    BY <1>3 DEF EvictExpired, CacheInv, ReaderHolds
  <2> QED
    BY <1>3, <2>1, <2>2, <2>3 DEF EvictExpired, CacheInv
<1>4. CASE UNCHANGED cacheVars
  BY <1>4 DEF cacheVars, CacheInv, CacheTypeOK, ReadableIsCurrent, Cached, ReaderHolds
<1> QED
  BY <1>1, <1>2, <1>3, <1>4, ReaderKeeps, WriterKeeps DEF CacheNext

(* The caches keep their types and their lock discipline.                  *)
THEOREM CacheTypes == CacheSpec => []CacheTypeOK
<1>1. CacheInv => CacheTypeOK
  BY DEF CacheInv
<1> QED
  BY <1>1, CacheInitInv, CacheStep, PTL DEF CacheSpec

(* No entry that a lookup would accept is older than an invalidated        *)
(* mutation, whatever reads were in flight: the generation check of        *)
(* insert_if_current and of get, with any number of readers and writers.   *)
THEOREM NoStaleEntry == CacheSpec => []ReadableIsCurrent
<1>1. CacheInv => ReadableIsCurrent
  BY DEF CacheInv
<1> QED
  BY <1>1, CacheInitInv, CacheStep, PTL DEF CacheSpec

(* No lookup answers with a row older than a mutation that was invalidated *)
(* before the lookup started.                                              *)
THEOREM NoStaleAnswer == CacheSpec => []AnswerNotOlder
<1>1. CacheInv => AnswerNotOlder
  BY DEF CacheInv, ReaderHolds, AnswerNotOlder
<1> QED
  BY <1>1, CacheInitInv, CacheStep, PTL DEF CacheSpec

-----------------------------------------------------------------------------
Kept == {"none", "fallback", "terminal"}
Happened == {"armed", "cancelled", "published", "renamed"}

SpoolShape ==
  /\ task \in [Log -> {"none", "arm", "run", "push", "wait", "write", "cancel",
                       "drop", "done", "stuck"}]
  /\ mark \in [Log -> {"none", "probe", "fallback"}]
  /\ file \in [Log -> Kept] /\ row \in [Log -> Kept]
  /\ seen \in [Log -> SUBSET Happened]

(* What a log has on disk and in the table while its task is there.        *)
TaskHolds(r) ==
  /\ task[r] = "none" => mark[r] = "none"
  /\ task[r] \in {"none", "arm"} => seen[r] = {} /\ file[r] = "none" /\ row[r] = "none"
  /\ task[r] = "run" => /\ mark[r] = "fallback" /\ file[r] = "none" /\ row[r] = "none"
                        /\ seen[r] = {"armed"}
  /\ task[r] \in {"push", "wait", "write"} =>
       /\ mark[r] = "fallback" /\ file[r] # "fallback" /\ row[r] # "fallback"
       /\ "cancelled" \notin seen[r]
  /\ task[r] = "write" => file[r] = "terminal"
  /\ task[r] = "drop" => "published" \notin seen[r]

(* A published log is in the table, or its file is still to be inserted.   *)
TerminalKept(r) ==
  "published" \in seen[r] =>
    row[r] = "terminal" \/ (row[r] = "none" /\ file[r] = "terminal")

LogSafe(r) ==
  "armed" \in seen[r] /\ "cancelled" \notin seen[r]
    => mark[r] = "fallback" \/ file[r] # "none" \/ row[r] # "none"

(* The writer of a log holds flush_lock, so no flush is between its rename *)
(* and its sync; a loaded file stays until its row is committed.           *)
LockHeld(r) == task[r] \in {"wait", "write"} => flushLock = r

BatchHolds ==
  /\ DOMAIN batch = {"logs", "done"} /\ batch.done \in BOOLEAN
  /\ flushLock # "flush" => batch = NoBatch
  /\ \A r \in Log : r \in batch.logs =>
       file[r] # "none" /\ (batch.done => row[r] # "none")

OneLogOK(r) == TaskHolds(r) /\ TerminalKept(r) /\ LogSafe(r) /\ LockHeld(r)

SpoolInv == SpoolShape /\ BatchHolds /\ \A r \in Log : OneLogOK(r)

-----------------------------------------------------------------------------
LEMMA SpoolStarts == SpoolInit => SpoolInv
<1> SUFFICES ASSUME SpoolInit PROVE SpoolInv
  OBVIOUS
<1>1. SpoolShape
  BY DEF SpoolInit, SpoolShape, Kept, Happened
<1>2. BatchHolds
  BY DEF SpoolInit, BatchHolds, NoBatch
<1>3. \A r \in Log : OneLogOK(r)
  BY DEF SpoolInit, OneLogOK, TaskHolds, TerminalKept, LogSafe, LockHeld
<1> QED
  BY <1>1, <1>2, <1>3 DEF SpoolInv

(* A step of the task of one log that touches no batch.                    *)
LEMMA OneLogMoves ==
  ASSUME SpoolInv, SpoolShape', NEW r \in Log, OneLogOK(r)',
         \A s \in Log \ {r} : /\ task'[s] = task[s] /\ mark'[s] = mark[s]
                              /\ file'[s] = file[s] /\ row'[s] = row[s]
                              /\ seen'[s] = seen[s],
         UNCHANGED <<batch, row>>, file[r] # "none" => file'[r] # "none",
         \/ UNCHANGED flushLock
         \/ flushLock = "free" /\ flushLock' = r
         \/ flushLock = r /\ flushLock' = "free"
  PROVE  SpoolInv'
<1>1. "free" \notin Log /\ "flush" \notin Log
  BY SpoolConstants DEF Log
<1>2. \A s \in Log \ {r} : OneLogOK(s)'
  BY <1>1 DEF SpoolInv, OneLogOK, TaskHolds, TerminalKept, LogSafe, LockHeld
<1>3. BatchHolds'
  BY <1>1 DEF SpoolInv, BatchHolds
<1> QED
  BY <1>2, <1>3 DEF SpoolInv

LEMMA LogSteps ==
  ASSUME SpoolInv, NEW r \in Log, LogStep(r) PROVE SpoolInv'
<1> USE DEF SpoolInv, SpoolShape
<1>0. OneLogOK(r) /\ "free" \notin Log /\ "flush" \notin Log
  BY SpoolConstants DEF Log
<1> USE DEF OneLogOK, TaskHolds, TerminalKept, LogSafe, LockHeld, Kept, Happened
<1>1. CASE ReserveLog(r)
  BY <1>0, <1>1, OneLogMoves DEF ReserveLog
<1>2. CASE ArmLog(r)
  BY <1>0, <1>2, OneLogMoves DEF ArmLog
<1>3. CASE ArmFails(r)
  BY <1>0, <1>3, OneLogMoves DEF ArmFails
<1>4. CASE ArmAbandoned(r)
  BY <1>0, <1>4, OneLogMoves DEF ArmAbandoned
<1>5. CASE SchedulePush(r)
  BY <1>0, <1>5, OneLogMoves DEF SchedulePush
<1>6. CASE LockForPush(r)
  BY <1>0, <1>6, OneLogMoves DEF LockForPush
<1>7. CASE PushRename(r)
  BY <1>0, <1>7, OneLogMoves DEF PushRename
<1>8. CASE PushComplete(r)
  BY <1>0, <1>8, OneLogMoves DEF PushComplete
<1>9. CASE PushTooLarge(r)
  BY <1>0, <1>9, OneLogMoves DEF PushTooLarge
<1>10. CASE PushFails(r)
  BY <1>0, <1>10, OneLogMoves DEF PushFails
<1>11. CASE CancelLog(r)
  BY <1>0, <1>11, OneLogMoves DEF CancelLog
<1>12. CASE CancelDone(r)
  BY <1>0, <1>12, OneLogMoves DEF CancelDone
<1>13. CASE PromoteRename(r)
  BY <1>0, <1>13, OneLogMoves DEF PromoteRename
<1>14. CASE PromoteAccount(r)
  BY <1>0, <1>14, OneLogMoves DEF PromoteAccount
<1> QED
  BY <1>1, <1>2, <1>3, <1>4, <1>5, <1>6, <1>7, <1>8, <1>9, <1>10, <1>11,
     <1>12, <1>13, <1>14 DEF LogStep, PushStep

-----------------------------------------------------------------------------
(* What a flush commits: a row that exists stays, a new one is its file.   *)
LEMMA Inserted ==
  ASSUME SpoolInv, NEW r \in Log
  PROVE  /\ InsertIgnore(r) \in Kept
         /\ row[r] # "none" => InsertIgnore(r) = row[r]
         /\ row[r] = "none" => InsertIgnore(r) \in {"none", file[r]}
         /\ r \in batch.logs => InsertIgnore(r) # "none"
BY DEF SpoolInv, SpoolShape, BatchHolds, InsertIgnore

(* The rows of the batch are committed.                                    *)
LEMMA RowsCommitted ==
  ASSUME SpoolInv, flushLock = "flush",
         row' = [r \in Log |-> InsertIgnore(r)],
         UNCHANGED <<task, mark, file, seen>>
  PROVE  SpoolShape' /\ \A r \in Log : TaskHolds(r)' /\ TerminalKept(r)' /\ LogSafe(r)'
<1>1. \A r \in Log : row'[r] = InsertIgnore(r)
  OBVIOUS
<1>2. row' \in [Log -> Kept]
  BY Inserted
<1>3. SpoolShape'
  BY <1>2 DEF SpoolInv, SpoolShape
<1>4. ASSUME NEW r \in Log PROVE TaskHolds(r)' /\ TerminalKept(r)' /\ LogSafe(r)'
  <2>1. OneLogOK(r)
    BY DEF SpoolInv
  <2>2. UNCHANGED <<task[r], mark[r], file[r], seen[r]>>
    OBVIOUS
  <2>3. r \in batch.logs => file[r] # "none"
    BY DEF SpoolInv, BatchHolds
  <2>4. r \notin batch.logs => row'[r] = row[r]
    BY <1>1 DEF InsertIgnore
  <2> QED
    BY <1>1, <2>1, <2>2, <2>3, <2>4, Inserted
       DEF OneLogOK, TaskHolds, TerminalKept, LogSafe
<1> QED
  BY <1>3, <1>4

LEMMA FlushSteps ==
  ASSUME SpoolInv, FlushStep \/ \E c \in BOOLEAN : FlushFails(c)
  PROVE  SpoolInv'
<1> USE DEF SpoolInv
<1>0. "free" \notin Log /\ "flush" \notin Log
  BY SpoolConstants DEF Log
<1>1. CASE FlushLoad
  <2>1. batch'.logs \subseteq {r \in Log : file[r] # "none"} /\ batch'.done = FALSE
        /\ DOMAIN batch' = {"logs", "done"}
    BY <1>1 DEF FlushLoad
  <2>2. BatchHolds'
    BY <1>1, <2>1 DEF FlushLoad, BatchHolds
  <2> QED
    BY <1>0, <1>1, <2>2 DEF FlushLoad, SpoolShape, OneLogOK, TaskHolds,
       TerminalKept, LogSafe, LockHeld
<1>2. CASE FlushCommit
  <2>1. batch'.logs = batch.logs /\ batch'.done = TRUE /\ DOMAIN batch' = {"logs", "done"}
    BY <1>2 DEF FlushCommit, BatchHolds
  <2>2. \A r \in Log : row'[r] = InsertIgnore(r)
    BY <1>2 DEF FlushCommit
  <2>3. BatchHolds'
    BY <1>2, <2>1, <2>2, Inserted DEF FlushCommit, BatchHolds
  <2>4. \A r \in Log : LockHeld(r)'
    BY <1>2 DEF FlushCommit, OneLogOK, LockHeld
  <2> QED
    BY <1>2, <2>3, <2>4, RowsCommitted DEF FlushCommit, OneLogOK
<1>3. ASSUME NEW c \in BOOLEAN, FlushFails(c) PROVE SpoolInv'
  <2>1. BatchHolds'
    BY <1>3 DEF FlushFails, BatchHolds, NoBatch
  <2>2. \A r \in Log : LockHeld(r)'
    BY <1>0, <1>3 DEF FlushFails, OneLogOK, LockHeld
  <2>3. CASE c
    BY <1>3, <2>1, <2>2, <2>3, RowsCommitted DEF FlushFails, OneLogOK
  <2>4. CASE ~c
    BY <1>3, <2>1, <2>2, <2>4 DEF FlushFails, SpoolShape, OneLogOK, TaskHolds,
       TerminalKept, LogSafe
  <2> QED
    BY <2>3, <2>4
<1>4. ASSUME NEW r \in Log, FlushDelete(r) PROVE SpoolInv'
  <2>1. /\ flushLock = "flush" /\ row[r] # "none" /\ file' = [file EXCEPT ![r] = "none"]
        /\ UNCHANGED <<task, mark, row, seen>>
    BY <1>4 DEF FlushDelete, MayDelete, BatchHolds
  <2>2. SpoolShape'
    BY <2>1 DEF SpoolShape, Kept
  <2>3. ASSUME NEW s \in Log PROVE OneLogOK(s)'
    <3>1. OneLogOK(s) /\ task[s] \notin {"wait", "write"}
      BY <1>0, <2>1 DEF OneLogOK, LockHeld
    <3>2. file'[s] = IF s = r THEN "none" ELSE file[s]
      BY <2>1 DEF SpoolShape
    <3> QED
      BY <2>1, <3>1, <3>2 DEF OneLogOK, TaskHolds, TerminalKept, LogSafe, LockHeld
  <2>6. IF batch.logs = {r}
        THEN flushLock' = "free" /\ batch' = NoBatch
        ELSE flushLock' = flushLock /\ batch' = [batch EXCEPT !.logs = @ \ {r}]
    BY <1>4, Zenon DEF FlushDelete
  <2>4. CASE batch.logs = {r}
    <3>2. flushLock' = "free" /\ batch' = NoBatch
      BY <2>4, <2>6, Zenon
    <3>1. BatchHolds'
      BY <3>2 DEF BatchHolds, NoBatch
    <3> QED
      BY <2>2, <2>3, <3>1
  <2>5. CASE batch.logs # {r}
    <3>4. batch' = [batch EXCEPT !.logs = @ \ {r}] /\ flushLock' = "flush"
      BY <2>1, <2>5, <2>6, Zenon
    <3>5. DOMAIN batch = {"logs", "done"}
      BY DEF BatchHolds
    <3>1. /\ batch'.logs = batch.logs \ {r} /\ batch'.done = batch.done
          /\ DOMAIN batch' = {"logs", "done"} /\ flushLock' = "flush"
      BY <3>4, <3>5
    <3>2. \A s \in Log \ {r} : file'[s] = file[s]
      BY <2>1 DEF SpoolShape
    <3>3. BatchHolds'
      BY <2>1, <3>1, <3>2 DEF BatchHolds
    <3> QED
      BY <2>2, <2>3, <3>3
  <2> QED
    BY <2>4, <2>5
<1> QED
  BY <1>1, <1>2, <1>3, <1>4 DEF FlushStep

LEMMA RestartStep == ASSUME SpoolInv, Restart PROVE SpoolInv'
<1> USE DEF SpoolInv
<1>1. BatchHolds'
  BY DEF Restart, BatchHolds, NoBatch
<1>2. SpoolShape'
  BY DEF Restart, SpoolShape, Kept, Recovered
<1>3. ASSUME NEW r \in Log PROVE OneLogOK(r)'
  <2>1. OneLogOK(r)
    OBVIOUS
  <2>2. /\ file'[r] = Recovered(r) /\ mark'[r] = "none"
        /\ task'[r] = (IF task[r] = "none" THEN "none" ELSE "done")
        /\ row'[r] = row[r] /\ seen'[r] = seen[r]
    BY DEF Restart
  <2> QED
    BY <2>1, <2>2 DEF OneLogOK, TaskHolds, TerminalKept, LogSafe, LockHeld, Recovered
<1> QED
  BY <1>1, <1>2, <1>3

LEMMA SpoolKept == SpoolInv /\ [SpoolNext]_spoolVars => SpoolInv'
<1> SUFFICES ASSUME SpoolInv, [SpoolNext]_spoolVars PROVE SpoolInv'
  OBVIOUS
<1>1. CASE UNCHANGED spoolVars
  BY <1>1 DEF SpoolInv, SpoolShape, BatchHolds, OneLogOK, TaskHolds, TerminalKept,
     LogSafe, LockHeld, spoolVars
<1> QED
  BY <1>1, LogSteps, FlushSteps, RestartStep DEF SpoolNext

LEMMA SpoolSafe == SpoolSpec => []SpoolInv
BY SpoolStarts, SpoolKept, PTL DEF SpoolSpec

(* ArmedLogsKept: an armed log is found again as marker, file or row after *)
(* any number of restarts, failed writes and lost transactions, whatever   *)
(* pushes, promotions and flushes were under way.                          *)
THEOREM ArmedLogsKept == SpoolSpec => []LogNeverLost
<1>1. SpoolInv => LogNeverLost
  BY DEF SpoolInv, OneLogOK, LogSafe, LogNeverLost
<1> QED
  BY <1>1, SpoolSafe, PTL

(* TerminalLogsWin: a terminal log that was renamed into place is the one  *)
(* the table gets, even if its marker outlives it and is promoted later.   *)
THEOREM TerminalLogsWin == SpoolSpec => []TerminalWins
<1>1. SpoolInv => TerminalWins
  BY DEF SpoolInv, OneLogOK, TerminalKept, TerminalWins
<1> QED
  BY <1>1, SpoolSafe, PTL

-----------------------------------------------------------------------------
(* The bytes the counter still holds for a log: its reservation until the  *)
(* task ends, then its file.  A promoted file that a flush takes before it *)
(* is accounted was already subtracted.                                    *)
Held ==
  [r \in Log |->
     IF task[r] \in {"none", "done"} THEN (IF file[r] = "none" THEN 0 ELSE 1)
     ELSE IF task[r] = "drop" /\ mark[r] = "none" /\ file[r] = "none" THEN Unit - 1
     ELSE Unit]

(* Where a log is on disk, as long as no renamed file was written again.   *)
DiskOK(r) ==
  /\ task[r] \in {"none", "push", "wait", "cancel", "stuck"} => file[r] = "none"
  /\ task[r] \in {"none", "cancel", "done"} => mark[r] = "none"
  /\ task[r] = "drop" => mark[r] = "none" \/ file[r] = "none"

SpoolFits ==
  ~Misaccounted =>
    /\ \A r \in Log : DiskOK(r)
    /\ admitted \in Nat /\ SumOf(Held, Log) <= admitted /\ admitted <= SpoolMax

LEMMA HeldKnown ==
  /\ Ints(Held, Log) /\ SumOf(Held, Log) \in Nat
  /\ \A r \in Log : Held[r] \in Nat /\ Held[r] <= SumOf(Held, Log)
<1>1. \A r \in Log : Held[r] \in Nat
  BY SpoolConstants DEF Held
<1>2. IsFiniteSet(Log)
  BY SpoolConstants, FS_Union DEF Log
<1>3. Ints(Held, Log) /\ \A r \in Log : Held[r] >= 0
  BY <1>1, <1>2 DEF Ints
<1>4. PICK f : f = Held
  OBVIOUS
<1>5. SumOf(f, Log) \in Nat
  BY <1>3, <1>4, SumNat
<1>6. ASSUME NEW r \in Log PROVE f[r] <= SumOf(f, Log)
  <2>1. SumOf(f, Log) = f[r] + SumOf(f, Log \ {r})
    BY <1>3, <1>4, SumRemove
  <2>2. Ints(f, Log \ {r}) /\ \A s \in Log \ {r} : f[s] >= 0
    BY <1>3, <1>4, IntsSubset
  <2>3. SumOf(f, Log \ {r}) \in Nat
    BY <2>2, SumNat
  <2> QED
    BY <1>1, <1>4, <2>1, <2>3
<1> QED
  BY <1>1, <1>3, <1>4, <1>5, <1>6

LEMMA HeldNext ==
  /\ Ints(Held', Log) /\ SumOf(Held', Log) \in Nat
  /\ \A r \in Log : Held'[r] \in Nat
<1>1. \A r \in Log : Held'[r] \in Nat
  BY SpoolConstants DEF Held
<1>2. IsFiniteSet(Log)
  BY SpoolConstants, FS_Union DEF Log
<1>3. Ints(Held', Log) /\ \A r \in Log : Held'[r] >= 0
  BY <1>1, <1>2 DEF Ints
<1>4. PICK f : f = Held'
  OBVIOUS
<1>5. SumOf(f, Log) \in Nat
  BY <1>3, <1>4, SumNat
<1> QED
  BY <1>1, <1>3, <1>4, <1>5

(* The counter moves with what it holds for the log that moved.            *)
LEMMA OneLogHeld ==
  ASSUME SpoolFits, ~Misaccounted, NEW r \in Log, DiskOK(r)',
         \A s \in Log \ {r} : /\ task'[s] = task[s] /\ mark'[s] = mark[s]
                              /\ file'[s] = file[s],
         admitted' \in Nat, admitted' <= SpoolMax,
         admitted' + Held[r] >= admitted + Held'[r]
  PROVE  SpoolFits'
<1>1. PICK f, g : f = Held /\ g = Held'
  OBVIOUS
<1>2. \A s \in Log : s # r => g[s] = f[s]
  BY <1>1 DEF Held
<1>3. Ints(f, Log) /\ SumOf(f, Log) \in Nat /\ g[r] \in Int /\ f[r] \in Int
  BY <1>1, HeldKnown, HeldNext
<1>9. PICK V : V = Log
  OBVIOUS
<1>10. Ints(f, V) /\ r \in V /\ g[r] \in Int /\ \A y \in V : y # r => g[y] = f[y]
  BY <1>2, <1>3, <1>9
<1>4. SumOf(g, Log) = SumOf(f, Log) + g[r] - f[r]
  <2>1. SumOf(g, V) = SumOf(f, V) + g[r] - f[r]
    BY ONLY <1>10, SumChange
  <2> QED
    BY <1>9, <2>1
<1>5. admitted \in Nat /\ SumOf(f, Log) <= admitted /\ \A s \in Log : DiskOK(s)
  BY <1>1 DEF SpoolFits
<1>6. admitted' + f[r] >= admitted + g[r]
  BY <1>1
<1>7. SumOf(g, Log) <= admitted'
  BY <1>3, <1>4, <1>5, <1>6
<1>8. \A s \in Log : DiskOK(s)'
  BY <1>5 DEF DiskOK
<1> QED
  BY <1>1, <1>7, <1>8 DEF SpoolFits

(* A plain fetch_sub does not wrap as long as it takes what is held.       *)
LEMMA NoWrap ==
  ASSUME NEW a \in Nat, a <= SpoolMax, NEW b \in Nat, b <= a
  PROVE  FetchSub(a, b) = a - b
<1>1. a - b \in Nat /\ a - b < Word /\ Word \in Nat \ {0}
  BY SpoolConstants
<1>2. FetchSub(a, b) = ((a - b) + Word) % Word
  BY <1>1 DEF FetchSub
<1> QED
  BY <1>1, <1>2

LEMMA LogStepFits ==
  ASSUME SpoolInv, SpoolFits, ~Misaccounted, ~Misaccounted', NEW r \in Log, LogStep(r)
  PROVE  SpoolFits'
<1>1. /\ OneLogOK(r) /\ DiskOK(r) /\ admitted \in Nat /\ admitted <= SpoolMax
      /\ Held[r] \in Nat /\ Held[r] <= admitted
  BY HeldKnown DEF SpoolInv, SpoolFits
<1>2. Unit \in Nat /\ Unit >= 1 /\ SpoolMax \in Nat
  BY SpoolConstants
<1>3. SpoolShape
  BY DEF SpoolInv
<1>4. /\ Held[r] = IF task[r] \in {"none", "done"} THEN (IF file[r] = "none" THEN 0 ELSE 1)
                   ELSE IF task[r] = "drop" /\ mark[r] = "none" /\ file[r] = "none"
                   THEN Unit - 1 ELSE Unit
      /\ Held'[r] = IF task'[r] \in {"none", "done"} THEN (IF file'[r] = "none" THEN 0 ELSE 1)
                    ELSE IF task'[r] = "drop" /\ mark'[r] = "none" /\ file'[r] = "none"
                    THEN Unit - 1 ELSE Unit
  BY DEF Held
<1>5. "renamed" \notin seen'[r]
  BY DEF Misaccounted
<1> USE DEF SpoolShape, OneLogOK, TaskHolds, DiskOK
<1>6. CASE ReserveLog(r)
  BY <1>1, <1>2, <1>3, <1>4, <1>6, OneLogHeld DEF ReserveLog, FitsSpool
<1>7. CASE ArmLog(r) \/ ArmAbandoned(r)
  BY <1>1, <1>2, <1>3, <1>4, <1>7, OneLogHeld DEF ArmLog, ArmAbandoned
<1>8. CASE ArmFails(r)
  <2>1. task[r] = "arm" /\ Held[r] = Unit
    BY <1>4, <1>8 DEF ArmFails
  <2>2. admitted' = admitted - Unit
    BY <1>1, <1>2, <1>8, <2>1, NoWrap DEF ArmFails
  <2>3. /\ task'[r] = "done" /\ mark'[r] = "none" /\ file'[r] = "none"
        /\ \A s \in Log \ {r} : /\ task'[s] = task[s] /\ mark'[s] = mark[s]
                                 /\ file'[s] = file[s]
    BY <1>1, <1>3, <1>8, <2>1 DEF ArmFails
  <2>4. Held'[r] = 0 /\ DiskOK(r)'
    BY <1>4, <2>3
  <2> QED
    BY <1>1, <1>2, <2>1, <2>2, <2>3, <2>4, OneLogHeld
<1>9. CASE SchedulePush(r) \/ LockForPush(r) \/ PushRename(r)
  BY <1>1, <1>2, <1>3, <1>4, <1>9, OneLogHeld DEF SchedulePush, LockForPush, PushRename
<1>10. CASE PushComplete(r)
  BY <1>1, <1>2, <1>3, <1>4, <1>10, NoWrap, OneLogHeld DEF PushComplete
<1>11. CASE PushTooLarge(r)
  BY <1>1, <1>2, <1>3, <1>4, <1>11, OneLogHeld DEF PushTooLarge
<1>12. CASE PushFails(r)
  BY <1>1, <1>2, <1>3, <1>4, <1>5, <1>12, OneLogHeld DEF PushFails
<1>13. CASE CancelLog(r)
  BY <1>1, <1>2, <1>3, <1>4, <1>13, OneLogHeld DEF CancelLog
<1>14. CASE CancelDone(r)
  BY <1>1, <1>2, <1>3, <1>4, <1>14, NoWrap, OneLogHeld DEF CancelDone
<1>15. CASE PromoteRename(r)
  BY <1>1, <1>2, <1>3, <1>4, <1>15, OneLogHeld DEF PromoteRename
<1>16. CASE PromoteAccount(r)
  BY <1>1, <1>2, <1>3, <1>4, <1>16, NoWrap, OneLogHeld DEF PromoteAccount
<1> QED
  BY <1>6, <1>7, <1>8, <1>9, <1>10, <1>11, <1>12, <1>13, <1>14, <1>15, <1>16
     DEF LogStep, PushStep

LEMMA DeleteFits ==
  ASSUME SpoolInv, SpoolFits, ~Misaccounted, NEW r \in Log, FlushDelete(r)
  PROVE  SpoolFits'
<1>1. /\ OneLogOK(r) /\ DiskOK(r) /\ admitted \in Nat /\ admitted <= SpoolMax
      /\ Held[r] \in Nat /\ Held[r] <= admitted /\ SpoolShape
  BY HeldKnown DEF SpoolInv, SpoolFits
<1>2. Unit \in Nat /\ Unit >= 1 /\ SpoolMax \in Nat /\ "flush" \notin Log
  BY SpoolConstants DEF Log
<1>3. /\ file[r] # "none" /\ task[r] \notin {"wait", "write"}
      /\ file' = [file EXCEPT ![r] = "none"] /\ UNCHANGED <<task, mark>>
      /\ admitted' = SaturatingSub(admitted, 1)
  BY <1>1, <1>2 DEF FlushDelete, SpoolInv, BatchHolds, OneLogOK, LockHeld
<1>4. task[r] \in {"done", "drop"} /\ (task[r] = "drop" => mark[r] = "none")
  BY <1>1, <1>3 DEF SpoolShape, OneLogOK, TaskHolds, DiskOK
<1>5. /\ file'[r] = "none" /\ task'[r] = task[r] /\ mark'[r] = mark[r]
      /\ \A s \in Log \ {r} : task'[s] = task[s] /\ mark'[s] = mark[s] /\ file'[s] = file[s]
  BY <1>1, <1>3 DEF SpoolShape
<1>6. Held[r] >= 1 /\ Held'[r] = Held[r] - 1
  BY <1>2, <1>3, <1>4, <1>5 DEF Held
<1>7. admitted' = admitted - 1
  BY <1>1, <1>3, <1>6 DEF SaturatingSub
<1>8. DiskOK(r)'
  BY <1>1, <1>5 DEF DiskOK
<1> QED
  BY <1>1, <1>2, <1>5, <1>6, <1>7, <1>8, OneLogHeld

(* Once a synced rename is lost it stays lost: the history only grows.     *)
LEMMA MisaccountedStays ==
  ASSUME SpoolInv, [SpoolNext]_spoolVars, ~Misaccounted' PROVE ~Misaccounted
<1>1. ASSUME NEW r \in Log, LogStep(r) PROVE \A s \in Log : seen[s] \subseteq seen'[s]
  BY <1>1 DEF SpoolInv, SpoolShape, Kept, Happened, LogStep, PushStep, ReserveLog, ArmLog,
     ArmFails, ArmAbandoned, SchedulePush, LockForPush, PushRename, PushComplete,
     PushTooLarge, PushFails, CancelLog, CancelDone, PromoteRename, PromoteAccount
<1>2. CASE FlushStep \/ (\E c \in BOOLEAN : FlushFails(c)) \/ Restart
  BY <1>2 DEF FlushStep, FlushLoad, FlushCommit, FlushDelete, FlushFails, Restart,
     Misaccounted
<1>3. CASE UNCHANGED spoolVars
  BY <1>3 DEF spoolVars, Misaccounted
<1> QED
  BY <1>1, <1>2, <1>3 DEF SpoolNext, Misaccounted

LEMMA HeldSame ==
  ASSUME SpoolFits, ~Misaccounted, UNCHANGED <<task, mark, file, admitted>>
  PROVE  SpoolFits'
<1>1. Held' = Held
  BY DEF Held
<1>2. PICK f, g : f = Held /\ g = Held'
  OBVIOUS
<1>3. SumOf(g, Log) = SumOf(f, Log)
  BY <1>1, <1>2
<1>4. /\ \A r \in Log : DiskOK(r)
      /\ admitted \in Nat /\ SumOf(f, Log) <= admitted /\ admitted <= SpoolMax
  BY <1>2 DEF SpoolFits
<1>5. \A r \in Log : DiskOK(r)'
  BY <1>4 DEF DiskOK
<1> QED
  BY <1>2, <1>3, <1>4, <1>5 DEF SpoolFits

(* Startup counts the files it finds or promotes; each of them was covered *)
(* by what the stopped process held for its log.                           *)
LEMMA RestartFits ==
  ASSUME SpoolInv, SpoolFits, ~Misaccounted, Restart
  PROVE  SpoolFits'
<1> DEFINE T == {r \in Log : Recovered(r) # "none"}
<1>1. PICK f, g : f = Held /\ g = Held'
  OBVIOUS
<1>2. IsFiniteSet(Log)
  BY SpoolConstants, FS_Union DEF Log
<1>13. Unit \in Nat /\ Unit >= 1 /\ SpoolMax \in Nat
  BY SpoolConstants
<1>3. /\ \A r \in Log : DiskOK(r)
      /\ admitted \in Nat /\ SumOf(f, Log) <= admitted /\ admitted <= SpoolMax
  BY <1>1 DEF SpoolFits
<1>4. \A r \in Log : /\ file'[r] = Recovered(r) /\ mark'[r] = "none"
                     /\ task'[r] = IF task[r] = "none" THEN "none" ELSE "done"
  BY DEF Restart
<1>5. \A r \in Log : task[r] = "none" => Recovered(r) = "none"
  BY <1>3 DEF DiskOK, Recovered
<1>6. \A r \in Log : DiskOK(r)'
  BY <1>4, <1>5 DEF DiskOK
<1>7. \A r \in Log : g[r] = IF r \in T THEN 1 ELSE 0
  BY <1>1, <1>4 DEF Held
<1>8. \A r \in Log : g[r] <= f[r]
  <2> SUFFICES ASSUME NEW r \in Log PROVE g[r] <= f[r]
    OBVIOUS
  <2>1. f[r] = IF task[r] \in {"none", "done"} THEN (IF file[r] = "none" THEN 0 ELSE 1)
               ELSE IF task[r] = "drop" /\ mark[r] = "none" /\ file[r] = "none"
               THEN Unit - 1 ELSE Unit
    BY <1>1 DEF Held
  <2>2. task[r] \in {"none", "done"} => mark[r] = "none"
    BY <1>3 DEF DiskOK
  <2>3. mark[r] = "none" => Recovered(r) = file[r]
    BY DEF Recovered
  <2> QED
    BY <1>7, <1>13, <2>1, <2>2, <2>3
<1>9. T \subseteq Log /\ SumOf(g, Log) = Cardinality(T)
  BY <1>2, <1>7, SumCount
<1>10. Ints(f, Log) /\ Ints(g, Log) /\ SumOf(g, Log) \in Nat /\ SumOf(f, Log) \in Nat
  BY <1>1, HeldKnown, HeldNext
<1>11. SumOf(g, Log) <= SumOf(f, Log)
  BY <1>8, <1>10, SumAtMost
<1>12. admitted' = SumOf(g, Log)
  BY <1>9 DEF Restart
<1> QED
  BY <1>1, <1>3, <1>6, <1>10, <1>11, <1>12, <1>13 DEF SpoolFits

LEMMA SpoolFitsKept ==
  ASSUME SpoolInv, SpoolFits, [SpoolNext]_spoolVars PROVE SpoolFits'
<1> SUFFICES ASSUME ~Misaccounted' PROVE SpoolFits'
  BY DEF SpoolFits
<1>1. ~Misaccounted
  BY MisaccountedStays
<1>2. CASE \E r \in Log : LogStep(r)
  BY <1>1, <1>2, LogStepFits
<1>3. CASE \E r \in Log : FlushDelete(r)
  BY <1>1, <1>3, DeleteFits
<1>4. CASE FlushLoad \/ FlushCommit \/ (\E c \in BOOLEAN : FlushFails(c)) \/ UNCHANGED spoolVars
  BY <1>1, <1>4, HeldSame DEF FlushLoad, FlushCommit, FlushFails, spoolVars
<1>5. CASE Restart
  BY <1>1, <1>5, RestartFits
<1> QED
  BY <1>2, <1>3, <1>4, <1>5 DEF SpoolNext, FlushStep

LEMMA SpoolFitsStarts == SpoolInit => SpoolFits
<1> SUFFICES ASSUME SpoolInit PROVE SpoolFits
  OBVIOUS
<1>1. PICK f : f = Held
  OBVIOUS
<1>2. IsFiniteSet(Log) /\ SpoolMax \in Nat
  BY SpoolConstants, FS_Union DEF Log
<1>3. \A r \in Log : f[r] = 0 /\ DiskOK(r)
  BY <1>1 DEF SpoolInit, Held, DiskOK
<1>4. SumOf(f, Log) = 0
  BY <1>2, <1>3, SumZero
<1> QED
  BY <1>1, <1>2, <1>3, <1>4 DEF SpoolInit, SpoolFits

(* No log occupies, or may still write, more than is held for it.          *)
LEMMA HeldCovers == SpoolInv /\ SpoolFits => QuotaCovers
<1> SUFFICES ASSUME SpoolInv, SpoolFits, ~Misaccounted
             PROVE  SumOver(Log, Occupies) <= admitted /\ admitted <= SpoolMax
  BY DEF QuotaCovers
<1>1. PICK f, o : f = Held /\ o = Occupies
  OBVIOUS
<1>2. Unit \in Nat /\ Unit >= 1
  BY SpoolConstants
<1>3. /\ \A r \in Log : DiskOK(r)
      /\ admitted \in Nat /\ SumOf(f, Log) <= admitted /\ admitted <= SpoolMax
  BY <1>1 DEF SpoolFits
<1>4. \A r \in Log : o[r] \in Nat /\ o[r] <= f[r]
  <2> SUFFICES ASSUME NEW r \in Log PROVE o[r] \in Nat /\ o[r] <= f[r]
    OBVIOUS
  <2>1. f[r] = IF task[r] \in {"none", "done"} THEN (IF file[r] = "none" THEN 0 ELSE 1)
               ELSE IF task[r] = "drop" /\ mark[r] = "none" /\ file[r] = "none"
               THEN Unit - 1 ELSE Unit
    BY <1>1 DEF Held
  <2>2. o[r] = IF task[r] \in {"arm", "run", "push", "wait", "write"} THEN Unit
               ELSE (IF mark[r] = "none" THEN 0 ELSE 1) + (IF file[r] = "none" THEN 0 ELSE 1)
    BY <1>1 DEF Occupies
  <2>3. DiskOK(r) /\ OneLogOK(r) /\ SpoolShape
    BY <1>3 DEF SpoolInv
  <2> QED
    BY <1>2, <2>1, <2>2, <2>3 DEF DiskOK, OneLogOK, TaskHolds, SpoolShape
<1>5. Ints(f, Log) /\ SumOf(f, Log) \in Nat
  BY <1>1, HeldKnown
<1>6. Ints(o, Log)
  BY <1>4, <1>5 DEF Ints
<1>7. SumOf(o, Log) <= SumOf(f, Log) /\ SumOf(o, Log) \in Int
  BY <1>4, <1>5, <1>6, SumAtMost, SumInt
<1>8. SumOver(Log, Occupies) = SumOf(o, Log)
  BY <1>1 DEF SumOver, SumOf
<1> QED
  BY <1>3, <1>5, <1>7, <1>8

(* CounterCovers: unless a sync after a rename failed, admitted_bytes is   *)
(* at least the bytes of every file and marker and of every reservation    *)
(* whose task may still write, and at most the quota, for any number of    *)
(* requests: each saturating or wrapping subtraction takes only what the   *)
(* counter still holds for that log, whichever of the promotion and the    *)
(* flush comes first.                                                      *)
THEOREM CounterCovers == SpoolSpec => []QuotaCovers
<1>1. SpoolInit => SpoolInv /\ SpoolFits
  BY SpoolStarts, SpoolFitsStarts
<1>2. SpoolInv /\ SpoolFits /\ [SpoolNext]_spoolVars => SpoolInv' /\ SpoolFits'
  BY SpoolKept, SpoolFitsKept
<1> QED
  BY <1>1, <1>2, HeldCovers, PTL DEF SpoolSpec

-----------------------------------------------------------------------------
(***************************************************************************)
(* Whatever is lost, repeated, late or restarted, a charge of a Replica is *)
(* debited exactly once and seen by the preflight until then, for any      *)
(* charges, amounts, keys and number of restarts.                          *)
(***************************************************************************)

Distinct(q) == \A i, j \in DOMAIN q : q[i] = q[j] => i = j

-----------------------------------------------------------------------------
(* A set of numbers up to n has a smallest one.                            *)
LEMMA SmallestNumber ==
  ASSUME NEW n \in Nat, NEW B, B \subseteq 0..n, B # {}
  PROVE  \E k \in B : \A j \in B : k <= j
<1> DEFINE U == 0..n
           X == {0..k : k \in B}
<1>5. IsFiniteSet(U)
  BY FS_Interval
<1>6. X # {}
  OBVIOUS
<1>7. \A k \in B : 0..k \in SUBSET (0..n)
  OBVIOUS
<1>1. X \subseteq SUBSET U
  BY <1>7
<1>2. PICK t \in X : \A s \in X : ~(s \subseteq t /\ s # t)
  <2> HIDE DEF X, U
  <2> QED
    BY <1>1, <1>5, <1>6, Smallest
<1>3. PICK k \in B : t = 0..k
  OBVIOUS
<1>4. ASSUME NEW j \in B PROVE k <= j
  <2>1. j \in Nat /\ k \in Nat
    OBVIOUS
  <2>2. SUFFICES ASSUME j < k PROVE FALSE
    BY <2>1
  <2>3. 0..j \subseteq 0..k /\ k \in 0..k /\ k \notin 0..j
    BY <2>1, <2>2
  <2>4. 0..j \in X
    OBVIOUS
  <2> QED
    BY <1>2, <1>3, <2>3, <2>4
<1> QED
  BY <1>4

(* kept drops the members of S from the first n elements of q.             *)
Drops(kept, q, S, n) ==
  kept = [i \in 0..n |->
            IF i = 0 THEN <<>>
            ELSE IF q[i] \in S THEN kept[i - 1] ELSE Append(kept[i - 1], q[i])]

LEMMA DropsExists ==
  ASSUME NEW D, NEW q \in Seq(D), NEW S
  PROVE  \E kept : Drops(kept, q, S, Len(q))
<1> DEFINE B == {n \in 0..Len(q) : ~ \E kept : Drops(kept, q, S, n)}
<1>1. Len(q) \in Nat
  OBVIOUS
<1> SUFFICES ASSUME B # {} PROVE FALSE
  BY <1>1
<1>2. PICK n \in B : \A j \in B : n <= j
  <2>1. B \subseteq 0..Len(q)
    OBVIOUS
  <2> HIDE DEF B
  <2> QED
    BY <1>1, <2>1, SmallestNumber
<1>3. n \in 0..Len(q) /\ n \in Nat /\ ~ \E kept : Drops(kept, q, S, n)
  BY <1>1
<1>4. CASE n = 0
  <2> DEFINE z == [i \in 0..0 |-> <<>>]
  <2>1. Drops(z, q, S, 0)
    BY DEF Drops
  <2> QED
    BY <1>3, <1>4, <2>1
<1>5. CASE n # 0
  <2>1. n - 1 \in 0..Len(q) /\ n - 1 \notin B
    BY <1>1, <1>2, <1>3, <1>5
  <2>2. PICK f : Drops(f, q, S, n - 1)
    BY <2>1
  <2> DEFINE e == IF q[n] \in S THEN f[n - 1] ELSE Append(f[n - 1], q[n])
             g == [i \in 0..n |-> IF i = n THEN e ELSE f[i]]
  <2>3. \A i \in 0..(n - 1) :
          f[i] = IF i = 0 THEN <<>>
                 ELSE IF q[i] \in S THEN f[i - 1] ELSE Append(f[i - 1], q[i])
    BY <2>2 DEF Drops
  <2>4. \A i \in 0..(n - 1) : g[i] = f[i] /\ i # n
    BY <1>3
  <2>5. g[n] = e
    BY <1>3
  <2>6. \A i \in 0..n : i = n \/ i \in 0..(n - 1)
    BY <1>3
  <2>7. \A i \in 0..n : i # 0 => i - 1 \in 0..(n - 1)
    BY <1>3
  <2> HIDE DEF g
  <2>8. \A i \in 0..n :
          g[i] = IF i = 0 THEN <<>>
                 ELSE IF q[i] \in S THEN g[i - 1] ELSE Append(g[i - 1], q[i])
    BY <1>5, <2>3, <2>4, <2>5, <2>6, <2>7
  <2>9. g = [i \in 0..n |-> g[i]]
    BY DEF g
  <2>10. Drops(g, q, S, n)
    BY <2>8, <2>9 DEF Drops
  <2> QED
    BY <1>3, <2>10
<1> QED
  BY <1>4, <1>5

LEMMA WithoutDrops ==
  ASSUME NEW D, NEW q \in Seq(D), NEW S
  PROVE  \E kept : Drops(kept, q, S, Len(q)) /\ Without(q, S) = kept[Len(q)]
<1> DEFINE k == CHOOSE kept : Drops(kept, q, S, Len(q))
<1>1. Drops(k, q, S, Len(q))
  BY DropsExists
<1>2. Without(q, S) = k[Len(q)]
  BY DEF Without, Drops
<1> QED
  BY <1>1, <1>2

(* A new element comes last and is the only change.                        *)
LEMMA Appended ==
  ASSUME NEW D, NEW q \in Seq(D), NEW d \in D
  PROVE  /\ Append(q, d) \in Seq(D)
         /\ Elems(Append(q, d)) = Elems(q) \cup {d}
         /\ Distinct(q) /\ d \notin Elems(q) => Distinct(Append(q, d))
<1> DEFINE p == Append(q, d)
           n == Len(q)
<1>1. n \in Nat /\ DOMAIN q = 1..n
  OBVIOUS
<1>2. p \in Seq(D) /\ Len(p) = n + 1
  OBVIOUS
<1>3. DOMAIN p = 1..(n + 1)
  BY <1>2
<1>4. p[n + 1] = d /\ \A i \in 1..n : p[i] = q[i]
  OBVIOUS
<1> HIDE DEF p, n
<1>5. \A i \in 1..(n + 1) : i = n + 1 \/ i \in 1..n
  BY <1>1
<1>6. n + 1 \in 1..(n + 1) /\ 1..n \subseteq 1..(n + 1)
  BY <1>1
<1>7. Elems(p) = Elems(q) \cup {d}
  BY <1>1, <1>3, <1>4, <1>5, <1>6 DEF Elems
<1>8. ASSUME Distinct(q), d \notin Elems(q) PROVE Distinct(p)
  BY <1>1, <1>3, <1>4, <1>5, <1>8 DEF Elems, Distinct
<1> QED
  BY <1>2, <1>7, <1>8 DEF p

(* Releasing S leaves the other files in the spool, each once.             *)
LEMMA WithoutKeeps ==
  ASSUME NEW D, NEW q \in Seq(D), Distinct(q), NEW S
  PROVE  /\ Without(q, S) \in Seq(D)
         /\ Elems(Without(q, S)) = Elems(q) \ S
         /\ Distinct(Without(q, S))
<1> DEFINE Upto(n) == {q[i] : i \in 1..n} \ S
           Good(p, n) == p \in Seq(D) /\ Elems(p) = Upto(n) /\ Distinct(p)
<1>1. Len(q) \in Nat /\ DOMAIN q = 1..Len(q)
  OBVIOUS
<1>2. PICK f : Drops(f, q, S, Len(q)) /\ Without(q, S) = f[Len(q)]
  BY WithoutDrops
<1> DEFINE B == {n \in 0..Len(q) : ~Good(f[n], n)}
<1>3. B = {}
  <2> SUFFICES ASSUME B # {} PROVE FALSE
    OBVIOUS
  <2>1. PICK n \in B : \A j \in B : n <= j
    <3>1. B \subseteq 0..Len(q)
      OBVIOUS
    <3> HIDE DEF B
    <3> QED
      BY <1>1, <3>1, SmallestNumber
  <2>2. n \in 0..Len(q) /\ n \in Nat /\ ~Good(f[n], n)
    BY <1>1
  <2>3. f[n] = IF n = 0 THEN <<>>
               ELSE IF q[n] \in S THEN f[n - 1] ELSE Append(f[n - 1], q[n])
    BY <1>2, <2>2 DEF Drops
  <2>4. CASE n = 0
    <3>3. 1..0 = {} /\ DOMAIN <<>> = {}
      OBVIOUS
    <3>1. Upto(0) = {} /\ Elems(<<>>) = {}
      BY <3>3 DEF Elems
    <3>2. <<>> \in Seq(D) /\ Distinct(<<>>)
      BY DEF Distinct
    <3> QED
      BY <2>2, <2>3, <2>4, <3>1, <3>2
  <2>5. CASE n # 0
    <3>8. n - 1 \in 0..Len(q) /\ ~(n <= n - 1) /\ n \in 1..Len(q)
      BY <1>1, <2>2, <2>5
    <3>1. n - 1 \in 0..Len(q) /\ n - 1 \notin B /\ n \in 1..Len(q)
      <4> HIDE DEF B
      <4> QED
        BY <2>1, <3>8
    <3>2. Good(f[n - 1], n - 1)
      <4> HIDE DEF Good
      <4> QED
        BY <3>1
    <3>3. \A i \in 1..n : i = n \/ i \in 1..(n - 1)
      BY <2>2
    <3>4. n \in 1..n /\ 1..(n - 1) \subseteq 1..n
      BY <2>2, <2>5
    <3>5. {q[i] : i \in 1..n} = {q[i] : i \in 1..(n - 1)} \cup {q[n]}
      BY <3>3, <3>4
    <3>6. CASE q[n] \in S
      BY <2>2, <2>3, <2>5, <3>2, <3>5, <3>6
    <3>7. CASE q[n] \notin S
      <4>1. f[n] = Append(f[n - 1], q[n]) /\ q[n] \in D
        BY <1>1, <2>3, <2>5, <3>1, <3>7
      <4>2. \A i \in 1..(n - 1) : i \in DOMAIN q /\ n \in DOMAIN q /\ i # n
        BY <1>1, <3>1
      <4>3. q[n] \notin Upto(n - 1)
        BY <4>2 DEF Distinct
      <4>4. Upto(n) = Upto(n - 1) \cup {q[n]}
        BY <3>5, <3>7
      <4> HIDE DEF Upto
      <4>5. Good(f[n], n)
        BY <3>2, <4>1, <4>3, <4>4, Appended
      <4> QED
        BY <2>2, <4>5
    <3> QED
      BY <3>6, <3>7
  <2> QED
    BY <2>4, <2>5
<1>4. Good(f[Len(q)], Len(q))
  <2>1. Len(q) \in 0..Len(q) /\ Len(q) \notin B
    BY <1>1, <1>3
  <2> HIDE DEF Good
  <2> QED
    BY <2>1
<1>5. Upto(Len(q)) = Elems(q) \ S
  BY <1>1 DEF Elems
<1> QED
  BY <1>2, <1>4, <1>5

(* What load_batch takes: the first n files.                               *)
LEMMA Prefixed ==
  ASSUME NEW D, NEW q \in Seq(D), Distinct(q), NEW n \in 0..Len(q)
  PROVE  /\ SubSeq(q, 1, n) \in Seq(D)
         /\ Elems(SubSeq(q, 1, n)) \subseteq Elems(q)
         /\ Distinct(SubSeq(q, 1, n))
<1> DEFINE p == SubSeq(q, 1, n)
<1>1. Len(q) \in Nat /\ DOMAIN q = 1..Len(q) /\ n \in Nat /\ n <= Len(q)
  OBVIOUS
<1>2. \A i \in 1..n : q[i] \in D
  BY <1>1
<1>3. p = [i \in 1..n |-> q[i]]
  BY <1>1
<1>4. p \in Seq(D) /\ DOMAIN p = 1..n
  BY <1>1, <1>2, <1>3
<1>5. \A i \in 1..n : p[i] = q[i] /\ i \in DOMAIN q
  BY <1>1, <1>3
<1> HIDE DEF p
<1> QED
  BY <1>4, <1>5 DEF p, Elems, Distinct

(* The first element of a batch is taken off it.                           *)
LEMMA TakenOff ==
  ASSUME NEW D, NEW q \in Seq(D), Distinct(q), q # <<>>
  PROVE  /\ Head(q) \in D /\ Tail(q) \in Seq(D) /\ Distinct(Tail(q))
         /\ Elems(q) = Elems(Tail(q)) \cup {Head(q)} /\ Head(q) \notin Elems(Tail(q))
<1> DEFINE p == Tail(q)
           n == Len(q)
<1>1. n # 0
  OBVIOUS
<1>2. n \in Nat /\ DOMAIN q = 1..n /\ Head(q) = q[1]
  OBVIOUS
<1>3. 1 \in 1..n /\ q[1] \in D
  BY <1>1, <1>2
<1>4. /\ p \in Seq(D) /\ Len(p) = n - 1
      /\ \A i \in 1..(n - 1) : p[i] = q[i + 1]
  OBVIOUS
<1>5. DOMAIN p = 1..(n - 1)
  BY <1>4
<1> HIDE DEF p, n
<1>6. \A i \in 1..(n - 1) : i + 1 \in 1..n /\ i + 1 # 1
  BY <1>2
<1>7. \A i \in 1..n : i # 1 => i - 1 \in 1..(n - 1) /\ (i - 1) + 1 = i
  BY <1>2
<1>8. \A i, j \in 1..(n - 1) : i + 1 = j + 1 => i = j
  BY <1>2
<1>9. Distinct(p)
  <2> SUFFICES ASSUME NEW i \in 1..(n - 1), NEW j \in 1..(n - 1), p[i] = p[j]
               PROVE  i = j
    BY <1>5 DEF Distinct
  <2>1. q[i + 1] = q[j + 1] /\ i + 1 \in DOMAIN q /\ j + 1 \in DOMAIN q
    BY <1>2, <1>4, <1>6
  <2>2. i + 1 = j + 1
    BY <2>1 DEF Distinct
  <2> QED
    BY <1>8, <2>2
<1>12. ASSUME NEW i \in 1..(n - 1) PROVE p[i] \in Elems(q) /\ p[i] # q[1]
  <2>1. p[i] = q[i + 1] /\ i + 1 \in DOMAIN q /\ 1 \in DOMAIN q /\ i + 1 # 1
    BY <1>2, <1>3, <1>4, <1>6
  <2> QED
    BY <2>1 DEF Elems, Distinct
<1>13. ASSUME NEW i \in 1..n, i # 1 PROVE q[i] \in Elems(p)
  <2>1. i - 1 \in DOMAIN p /\ p[i - 1] = q[i]
    BY <1>4, <1>5, <1>7, <1>13
  <2> QED
    BY <2>1 DEF Elems
<1>10. Elems(q) = Elems(p) \cup {q[1]}
  <2>1. \A x \in Elems(p) : x \in Elems(q)
    BY <1>5, <1>12 DEF Elems
  <2>2. \A x \in Elems(q) : x \in Elems(p) \cup {q[1]}
    BY <1>2, <1>13 DEF Elems
  <2>3. q[1] \in Elems(q)
    BY <1>2, <1>3 DEF Elems
  <2> QED
    BY <2>1, <2>2, <2>3
<1>11. q[1] \notin Elems(p)
  BY <1>5, <1>12 DEF Elems
<1> QED
  BY <1>2, <1>3, <1>4, <1>9, <1>10, <1>11 DEF p

-----------------------------------------------------------------------------
Published == {d \in Delta : charge[d] # "none"}

(* What the counter may lack: the file is published and not counted yet,   *)
(* or it was counted just before the entry was removed.                    *)
Uncounted == InFlight \cup late

Holding == [st : {"idle", "load", "wait", "release", "subtract", "remove"},
            batch : Seq(Delta), keys : SUBSET ApiKey]

MeterShape ==
  /\ charge \in [Delta -> {"none", "published", "counted"}]
  /\ files \in Seq(Delta) /\ Distinct(files)
  /\ entry \in BOOLEAN /\ pending \in Int /\ debited \in Nat
  /\ late \subseteq {d \in Delta : charge[d] = "counted"}
  /\ ledger \subseteq Delta
  /\ shipper \in [Shipper -> Holding] /\ post \subseteq Body
  /\ buffer \subseteq ApiKey
  /\ phase \in {"serving", "stopping", "shipping", "primary"}

(* A published charge is in the spool or in the ledger, and only published *)
(* ones are shipped.                                                       *)
ChargesKnown ==
  /\ Published = Spooled \cup ledger
  /\ \A m \in post : m.deltas \subseteq Published
  /\ \A s \in Shipper : Elems(shipper[s].batch) \subseteq Published

(* Files are released, and pairs forgotten, once the Primary has them.     *)
AnswerHolds ==
  \A s \in Shipper :
    /\ shipper[s].st = "release" =>
         Elems(shipper[s].batch) \subseteq ledger /\ shipper[s].keys \subseteq stamped
    /\ shipper[s].st \in {"idle", "subtract", "remove"} => shipper[s].keys = {}

(* Released charges that are still in the pending counter.                 *)
Unsubtracted ==
  IF shipper["loop"].st \in {"subtract", "remove"} THEN Elems(shipper["loop"].batch) ELSE {}

(* While only the loop ships, what it holds is in the spool until it is    *)
(* released, and is subtracted once.                                       *)
LoopAlone ==
  phase = "serving" =>
    /\ shipper["final"].st = "idle"
    /\ Distinct(shipper["loop"].batch)
    /\ shipper["loop"].st \in {"wait", "release"} =>
         Elems(shipper["loop"].batch) \subseteq Spooled
    /\ Unsubtracted \cap Spooled = {}

(* What stays of the entry: between zero and the removal, nothing.         *)
Counter == IF shipper["loop"].st = "remove" THEN 0 ELSE pending

PendingCovers ==
  phase = "serving" =>
    /\ Counter + Total(Uncounted) >= Total(Spooled \cup Unsubtracted)
    /\ pending >= Counter

MeterInv ==
  /\ MeterShape /\ ChargesKnown /\ AnswerHolds /\ LastUseKept
  /\ LoopAlone /\ PendingCovers

-----------------------------------------------------------------------------
LEMMA Amounts ==
  ASSUME NEW S, S \subseteq Delta
  PROVE  /\ IsFiniteSet(S) /\ Ints(AmountOf, S) /\ Total(S) = SumOf(AmountOf, S)
         /\ \A d \in S : AmountOf[d] \in Nat /\ AmountOf[d] >= 0
         /\ Total(S) \in Nat
<1>1. IsFiniteSet(S) /\ \A d \in S : AmountOf[d] \in Nat /\ AmountOf[d] >= 0
  BY MeteringConstants, FS_Subset
<1>2. Ints(AmountOf, S)
  BY <1>1 DEF Ints
<1>3. Total(S) = SumOf(AmountOf, S)
  BY DEF Total, SumOf
<1> QED
  BY <1>1, <1>2, <1>3, SumNat

LEMMA TotalNone == Total({}) = 0
BY Amounts, SumEmpty

LEMMA TotalAdd ==
  ASSUME NEW S, S \subseteq Delta, NEW d \in Delta, d \notin S
  PROVE  Total(S \cup {d}) = Total(S) + AmountOf[d]
<1>1. S \cup {d} \subseteq Delta /\ {d} \subseteq Delta
  OBVIOUS
<1>2. /\ Total(S) = SumOf(AmountOf, S) /\ Total(S) \in Nat
      /\ Total(S \cup {d}) = SumOf(AmountOf, S \cup {d})
      /\ Ints(AmountOf, S) /\ AmountOf[d] \in Nat
  BY <1>1, Amounts
<1> QED
  BY <1>2, SumAdd

LEMMA TotalSplit ==
  ASSUME NEW T, T \subseteq Delta, NEW S, S \subseteq T
  PROVE  /\ Total(T) = Total(S) + Total(T \ S)
         /\ Total(S) \in Nat /\ Total(T) \in Nat /\ Total(T \ S) \in Nat
         /\ Total(S) <= Total(T)
<1>1. S \subseteq Delta /\ T \ S \subseteq Delta
  OBVIOUS
<1>2. /\ Total(S) = SumOf(AmountOf, S) /\ Total(T) = SumOf(AmountOf, T)
      /\ Total(T \ S) = SumOf(AmountOf, T \ S)
      /\ Ints(AmountOf, T) /\ Total(S) \in Nat /\ Total(T) \in Nat /\ Total(T \ S) \in Nat
  BY <1>1, Amounts
<1>3. Total(T) = Total(S) + Total(T \ S)
  BY <1>2, SumSplit
<1> QED
  BY <1>2, <1>3

LEMMA InDelta ==
  ASSUME MeterInv
  PROVE  /\ Spooled \subseteq Delta /\ Unsubtracted \subseteq Delta
         /\ Uncounted \subseteq Delta /\ Published \subseteq Delta
<1>1. Spooled \subseteq Delta
  BY DEF MeterInv, MeterShape, Spooled, Elems
<1>2. \A s \in Shipper : Elems(shipper[s].batch) \subseteq Delta
  BY DEF MeterInv, ChargesKnown, Published
<1> QED
  BY <1>1, <1>2 DEF Unsubtracted, Uncounted, InFlight, Published, Shipper, MeterInv, MeterShape

LEMMA RestHolds ==
  /\ AtRest \in Holding /\ AtRest.st = "idle" /\ AtRest.keys = {} /\ AtRest.batch = <<>>
  /\ Elems(<<>>) = {} /\ Distinct(<<>>)
<1>1. DOMAIN <<>> = {} /\ <<>> \in Seq(Delta)
  OBVIOUS
<1> QED
  BY <1>1 DEF AtRest, Holding, Elems, Distinct

(* A shipper starts, posts or gives up.                                    *)
LEMMA ShipperMoves ==
  ASSUME MeterInv, NEW s \in Shipper, NEW new \in Holding,
         new.st \in {"idle", "load", "wait"},
         new.st = "idle" => new.keys = {},
         Elems(new.batch) \subseteq Spooled, Distinct(new.batch),
         shipper' = [shipper EXCEPT ![s] = new],
         s = "loop" => Unsubtracted = {} /\ shipper[s].st # "remove",
         s = "final" => new.st = "idle" \/ phase' # "serving",
         UNCHANGED <<charge, files, entry, pending, late, ledger, debited, stamped>>,
         buffer' \subseteq ApiKey,
         post' \subseteq Body, \A m \in post' : m.deltas \subseteq Published,
         phase' \in {"serving", "stopping", "shipping", "primary"},
         phase' = "serving" => phase = "serving"
  PROVE  MeterShape' /\ ChargesKnown' /\ AnswerHolds' /\ LoopAlone' /\ PendingCovers'
<1>1. shipper \in [Shipper -> Holding] /\ ChargesKnown /\ AnswerHolds /\ LoopAlone
      /\ PendingCovers /\ MeterShape
  BY DEF MeterInv, MeterShape
<1>2. /\ shipper' \in [Shipper -> Holding]
      /\ \A t \in Shipper : shipper'[t] = IF t = s THEN new ELSE shipper[t]
  BY <1>1
<1>3. Published' = Published /\ Spooled' = Spooled /\ Uncounted' = Uncounted
  BY DEF Published, Spooled, Uncounted, InFlight
<1>4. MeterShape'
  BY <1>1, <1>2 DEF MeterShape
<1>5. Spooled \subseteq Published
  BY <1>1 DEF ChargesKnown
<1>6. ChargesKnown'
  BY <1>1, <1>2, <1>3, <1>5 DEF ChargesKnown
<1>7. AnswerHolds'
  BY <1>1, <1>2 DEF AnswerHolds
<1>8. Unsubtracted' = Unsubtracted
  BY <1>2 DEF Unsubtracted, Shipper
<1>9. LoopAlone'
  BY <1>1, <1>2, <1>3, <1>8 DEF LoopAlone, Shipper
<1>10. PendingCovers'
  <2>1. Total(Uncounted)' = Total(Uncounted) /\ Total(Spooled \cup Unsubtracted)' = Total(Spooled \cup Unsubtracted)
    BY <1>3, <1>8
  <2>2. Counter' = Counter
    BY <1>2 DEF Counter, Shipper
  <2> QED
    BY <1>1, <2>1, <2>2 DEF PendingCovers
<1> QED
  BY <1>4, <1>6, <1>7, <1>9, <1>10

(* What it holds of the last uses moves with it.                           *)
LEMMA KeysMove ==
  ASSUME MeterInv, NEW s \in Shipper, NEW new,
         shipper' = [shipper EXCEPT ![s] = new],
         buffer \cup shipper[s].keys \subseteq buffer' \cup stamped' \cup forgot' \cup new.keys,
         stamped \subseteq stamped', forgot \subseteq forgot',
         UNCHANGED touched
  PROVE  LastUseKept'
<1>1. \A t \in Shipper : shipper'[t] = IF t = s THEN new ELSE shipper[t]
  BY DEF MeterInv, MeterShape
<1>2. LastUseKept
  BY DEF MeterInv
<1> QED
  BY <1>1, <1>2 DEF LastUseKept

LEMMA StartStep ==
  ASSUME MeterInv, NEW s \in Shipper, StartTick(s) PROVE MeterInv'
<1> DEFINE new == [st |-> "load", batch |-> <<>>, keys |-> buffer]
<1>1. shipper[s].st = "idle" /\ shipper[s].keys = {}
  BY DEF MeterInv, AnswerHolds, StartTick
<1>2. /\ new \in Holding /\ new.st = "load" /\ new.batch = <<>> /\ new.keys = buffer
      /\ shipper' = [shipper EXCEPT ![s] = new]
  BY DEF Holding, StartTick, MeterInv, MeterShape
<1> HIDE DEF new
<1>3. LastUseKept'
  BY <1>1, <1>2, KeysMove DEF StartTick
<1>4. s = "loop" => Unsubtracted = {} /\ shipper[s].st # "remove"
  BY <1>1 DEF Unsubtracted
<1>5. MeterShape /\ ChargesKnown
  BY DEF MeterInv
<1>7. /\ s = "final" => phase' # "serving"
      /\ phase' \in {"serving", "stopping", "shipping", "primary"}
      /\ phase' = "serving" => phase = "serving"
      /\ buffer' \subseteq ApiKey /\ UNCHANGED post
      /\ post \subseteq Body /\ \A m \in post : m.deltas \subseteq Published
  BY <1>5 DEF StartTick, MeterShape, ChargesKnown
<1>8. Elems(new.batch) \subseteq Spooled /\ Distinct(new.batch)
  BY <1>2, RestHolds
<1>9. UNCHANGED <<charge, files, entry, pending, late, ledger, debited, stamped>>
  BY DEF StartTick, pendingVars
<1>6. MeterShape' /\ ChargesKnown' /\ AnswerHolds' /\ LoopAlone' /\ PendingCovers'
  BY <1>2, <1>4, <1>7, <1>8, <1>9, ShipperMoves
<1> QED
  BY <1>3, <1>6 DEF MeterInv

LEMMA LoadFailsStep ==
  ASSUME MeterInv, NEW s \in Shipper, TerminalLoadFails(s) PROVE MeterInv'
<1>1. s = "loop" => Unsubtracted = {} /\ shipper[s].st # "remove"
  BY DEF Unsubtracted, TerminalLoadFails
<1>2. MeterShape /\ ChargesKnown
  BY DEF MeterInv
<1>3. LastUseKept'
  BY RestHolds, KeysMove DEF TerminalLoadFails
<1>4. MeterShape' /\ ChargesKnown' /\ AnswerHolds' /\ LoopAlone' /\ PendingCovers'
  BY <1>1, <1>2, RestHolds, ShipperMoves DEF TerminalLoadFails, pendingVars, MeterShape, ChargesKnown
<1> QED
  BY <1>3, <1>4 DEF MeterInv

LEMMA PostFailsStep ==
  ASSUME MeterInv, NEW s \in Shipper, PostFails(s) PROVE MeterInv'
<1>1. s = "loop" => Unsubtracted = {} /\ shipper[s].st # "remove"
  BY DEF Unsubtracted, PostFails
<1>2. MeterShape /\ ChargesKnown
  BY DEF MeterInv
<1>3. LastUseKept'
  BY RestHolds, KeysMove DEF PostFails, RequeueLastUsed
<1>5. buffer' \subseteq ApiKey
  BY <1>2 DEF PostFails, RequeueLastUsed, MeterShape, Holding
<1>4. MeterShape' /\ ChargesKnown' /\ AnswerHolds' /\ LoopAlone' /\ PendingCovers'
  BY <1>1, <1>2, <1>5, RestHolds, ShipperMoves DEF PostFails, pendingVars, MeterShape, ChargesKnown
<1> QED
  BY <1>3, <1>4 DEF MeterInv

LEMMA PostStep ==
  ASSUME MeterInv, NEW s \in Shipper, PostBatch(s) PROVE MeterInv'
<1> DEFINE n == IF Len(files) < ShipMax THEN Len(files) ELSE ShipMax
           taken == SubSeq(files, 1, n)
           new == [st |-> "wait", batch |-> taken, keys |-> shipper[s].keys]
           m == [deltas |-> Elems(taken), keys |-> shipper[s].keys]
<1>1. MeterShape /\ ChargesKnown /\ shipper[s].st = "load" /\ shipper[s].keys \subseteq ApiKey
  BY DEF MeterInv, MeterShape, PostBatch, Holding
<1>2. n \in 0..Len(files)
  BY <1>1, MeteringConstants DEF MeterShape
<1>3. taken \in Seq(Delta) /\ Elems(taken) \subseteq Spooled /\ Distinct(taken)
  <2> HIDE DEF n
  <2> QED
    BY <1>1, <1>2, Prefixed DEF MeterShape, Spooled
<1>4. s = "loop" => Unsubtracted = {} /\ shipper[s].st # "remove"
  BY <1>1 DEF Unsubtracted
<1>5. Spooled \subseteq Delta /\ Spooled \subseteq Published
  BY <1>1, InDelta DEF ChargesKnown
<1>6. \/ /\ shipper' = [shipper EXCEPT ![s] = AtRest]
         /\ UNCHANGED post /\ shipper[s].keys = {}
      \/ /\ shipper' = [shipper EXCEPT ![s] = new]
         /\ post' = post \cup {m}
  BY DEF PostBatch
<1> HIDE DEF taken
<1>7. /\ new \in Holding /\ new.st = "wait" /\ new.batch = taken
      /\ new.keys = shipper[s].keys
      /\ m \in Body /\ m.deltas = Elems(taken)
  BY <1>1, <1>3, <1>5 DEF Holding, Body
<1> HIDE DEF new, m
<1>8. LastUseKept'
  BY <1>6, <1>7, RestHolds, KeysMove DEF PostBatch
<1>9. post' \subseteq Body /\ \A p \in post' : p.deltas \subseteq Published
  BY <1>1, <1>3, <1>5, <1>6, <1>7 DEF ChargesKnown, MeterShape
<1>10. MeterShape' /\ ChargesKnown' /\ AnswerHolds' /\ LoopAlone' /\ PendingCovers'
  <2>1. /\ s = "final" => phase # "serving"
        /\ buffer' \subseteq ApiKey /\ phase' = phase
        /\ phase \in {"serving", "stopping", "shipping", "primary"}
    BY <1>1 DEF MeterInv, LoopAlone, PostBatch, MeterShape
  <2>2. CASE shipper' = [shipper EXCEPT ![s] = AtRest]
    BY <1>4, <1>9, <2>1, <2>2, RestHolds, ShipperMoves DEF PostBatch, pendingVars
  <2>3. CASE shipper' = [shipper EXCEPT ![s] = new]
    BY <1>3, <1>4, <1>7, <1>9, <2>1, <2>3, ShipperMoves DEF PostBatch, pendingVars
  <2> QED
    BY <1>6, <2>2, <2>3
<1> QED
  BY <1>8, <1>10 DEF MeterInv

-----------------------------------------------------------------------------
(* A new file is uncounted, so the counter may lack it.                    *)
LEMMA PublishStep ==
  ASSUME MeterInv, NEW d \in Delta, PublishDelta(d)
  PROVE  /\ MeterInv' /\ Spooled' = Spooled \cup {d}
         /\ d \notin Spooled /\ d \notin ledger /\ d \notin Unsubtracted
<1>1. /\ MeterShape /\ ChargesKnown /\ AnswerHolds /\ LastUseKept /\ LoopAlone
      /\ PendingCovers
  BY DEF MeterInv
<1>2. d \notin Published /\ d \notin Uncounted
  BY <1>1 DEF PublishDelta, Published, Uncounted, InFlight, MeterShape
<1>3. d \notin Spooled /\ d \notin ledger
  BY <1>1, <1>2 DEF ChargesKnown
<1>4. d \notin Unsubtracted
  BY <1>1, <1>2 DEF ChargesKnown, Unsubtracted, Shipper
<1>5. /\ files' \in Seq(Delta) /\ Distinct(files') /\ Spooled' = Spooled \cup {d}
  BY <1>1, <1>3, Appended DEF PublishDelta, MeterShape, Spooled
<1>6. /\ charge' \in [Delta -> {"none", "published", "counted"}]
      /\ Published' = Published \cup {d} /\ Uncounted' = Uncounted \cup {d}
  BY <1>1 DEF PublishDelta, MeterShape, Published, Uncounted, InFlight, pendingVars
<1>7. MeterShape'
  BY <1>1, <1>5, <1>6 DEF MeterShape, PublishDelta, pendingVars
<1>8. ChargesKnown'
  BY <1>1, <1>5, <1>6 DEF ChargesKnown, PublishDelta
<1>9. AnswerHolds' /\ LastUseKept'
  BY <1>1 DEF AnswerHolds, LastUseKept, PublishDelta
<1>10. Unsubtracted' = Unsubtracted
  BY DEF Unsubtracted, PublishDelta
<1>11. LoopAlone'
  BY <1>1, <1>4, <1>5, <1>10 DEF LoopAlone, PublishDelta
<1>12. PendingCovers'
  <2> DEFINE T == Spooled \cup Unsubtracted
  <2>1. Uncounted \subseteq Delta /\ T \subseteq Delta /\ d \notin T
    BY <1>3, <1>4, InDelta
  <2>2. (Spooled \cup Unsubtracted)' = T \cup {d}
    BY <1>5, <1>10
  <2> HIDE DEF T
  <2>3. Total(Uncounted \cup {d}) = Total(Uncounted) + AmountOf[d]
        /\ Total(T \cup {d}) = Total(T) + AmountOf[d]
    BY <1>2, <2>1, TotalAdd
  <2>4. Total(Uncounted)' = Total(Uncounted \cup {d})
        /\ Total(Spooled \cup Unsubtracted)' = Total(T \cup {d})
    BY <1>6, <2>2
  <2>5. Total(Uncounted) \in Nat /\ Total(T) \in Nat /\ AmountOf[d] \in Nat /\ Counter \in Int
    BY <1>1, <2>1, Amounts, MeteringConstants DEF MeterShape, Counter
  <2>6. pending' = pending /\ phase' = phase /\ Counter' = Counter
    BY DEF PublishDelta, pendingVars, Counter
  <2> QED
    BY <1>1, <2>3, <2>4, <2>5, <2>6 DEF PendingCovers, T
<1> QED
  BY <1>3, <1>4, <1>5, <1>7, <1>8, <1>9, <1>11, <1>12 DEF MeterInv

LEMMA CountStep ==
  ASSUME MeterInv, NEW d \in Delta, CountDelta(d)
  PROVE  MeterInv' /\ Published' = Published
<1>1. /\ MeterShape /\ ChargesKnown /\ AnswerHolds /\ LastUseKept /\ LoopAlone
      /\ PendingCovers
  BY DEF MeterInv
<1>2. /\ charge' \in [Delta -> {"none", "published", "counted"}]
      /\ Published' = Published /\ d \in Uncounted /\ d \notin late
      /\ InFlight' = InFlight \ {d}
      /\ late' \subseteq {e \in Delta : charge'[e] = "counted"}
  BY <1>1 DEF CountDelta, MeterShape, Published, Uncounted, InFlight
<1>3. Spooled' = Spooled /\ Unsubtracted' = Unsubtracted
  BY DEF CountDelta, Spooled, Unsubtracted
<1>4. AmountOf[d] \in Nat
  BY MeteringConstants
<1>5. MeterShape'
  BY <1>1, <1>2, <1>4 DEF MeterShape, CountDelta
<1>6. ChargesKnown' /\ AnswerHolds' /\ LastUseKept' /\ LoopAlone'
  BY <1>1, <1>2, <1>3 DEF ChargesKnown, AnswerHolds, LastUseKept, LoopAlone, CountDelta
<1>7. PendingCovers'
  <2> SUFFICES ASSUME phase = "serving" PROVE PendingCovers'
    BY DEF PendingCovers, CountDelta
  <2>1. pending \in Int /\ pending' = pending + AmountOf[d] /\ shipper' = shipper
    BY <1>1 DEF CountDelta, MeterShape
  <2>2. shipper["final"].st # "remove"
    BY <1>1 DEF LoopAlone
  <2>3. CASE shipper["loop"].st = "remove"
    <3>1. Uncounted' = Uncounted
      <4>1. late' = late \cup {d}
        BY <2>3 DEF CountDelta, Shipper
      <4> QED
        BY <1>2, <4>1 DEF Uncounted, InFlight, CountDelta
    <3>2. Counter' = 0 /\ Counter = 0
      BY <2>1, <2>3 DEF Counter
    <3>3. Total(Uncounted)' = Total(Uncounted)
          /\ Total(Spooled \cup Unsubtracted)' = Total(Spooled \cup Unsubtracted)
      BY <1>3, <3>1
    <3> QED
      BY <1>1, <1>4, <2>1, <3>2, <3>3 DEF PendingCovers
  <2>4. CASE shipper["loop"].st # "remove"
    <3> DEFINE S == Uncounted \ {d}
               T == Spooled \cup Unsubtracted
    <3>1. S \subseteq Delta /\ T \subseteq Delta /\ d \notin S /\ Uncounted = S \cup {d}
      BY <1>2, InDelta
    <3>2. Uncounted' = S
      <4>1. late' = late
        BY <2>2, <2>4 DEF CountDelta, Shipper
      <4> QED
        BY <1>2, <4>1 DEF Uncounted
    <3> HIDE DEF S, T
    <3>3. Total(S \cup {d}) = Total(S) + AmountOf[d]
      BY <3>1, TotalAdd
    <3>4. Total(Uncounted) = Total(S \cup {d})
      BY <3>1
    <3>5. Total(Uncounted)' = Total(S) /\ Total(Spooled \cup Unsubtracted)' = Total(T)
      BY <1>3, <3>2 DEF T
    <3>6. Total(S) \in Nat /\ Total(T) \in Nat
      BY <3>1, Amounts
    <3>7. Counter = pending /\ Counter' = pending'
      BY <2>1, <2>4 DEF Counter
    <3> QED
      BY <1>1, <1>4, <2>1, <3>3, <3>4, <3>5, <3>6, <3>7 DEF PendingCovers, T
  <2> QED
    BY <2>3, <2>4
<1> QED
  BY <1>2, <1>5, <1>6, <1>7 DEF MeterInv

(* Steps that touch neither charges nor shippers.                          *)
LEMMA QuietSteps ==
  ASSUME MeterInv,
         \/ \E k \in ApiKey : RecordUse(k)
         \/ \E m \in post : BatchLost(m)
         \/ Stop \/ UNCHANGED meterVars
  PROVE  MeterInv' /\ UNCHANGED <<charge, files, ledger, debited>>
<1>1. /\ MeterShape /\ ChargesKnown /\ AnswerHolds /\ LastUseKept /\ LoopAlone
      /\ PendingCovers
  BY DEF MeterInv
<1>2. UNCHANGED <<charge, files, ledger, debited, entry, pending, late, shipper, stamped, forgot>>
  BY DEF RecordUse, BatchLost, Stop, meterVars, pendingVars
<1>3. /\ post' \subseteq post /\ buffer' \subseteq ApiKey
      /\ phase' \in {"serving", "stopping", "shipping", "primary"}
      /\ phase' = "serving" => phase = "serving"
      /\ buffer \subseteq buffer' /\ touched' \subseteq touched \cup buffer'
  BY <1>1 DEF RecordUse, BatchLost, Stop, meterVars, MeterShape
<1>4. Published' = Published /\ Spooled' = Spooled /\ Uncounted' = Uncounted
      /\ Unsubtracted' = Unsubtracted /\ Counter' = Counter
  BY <1>2 DEF Published, Spooled, Uncounted, InFlight, Unsubtracted, Counter
<1>5. MeterShape'
  BY <1>1, <1>2, <1>3 DEF MeterShape
<1>6. ChargesKnown' /\ AnswerHolds' /\ LastUseKept' /\ LoopAlone'
  BY <1>1, <1>2, <1>3, <1>4 DEF ChargesKnown, AnswerHolds, LastUseKept, LoopAlone
<1>7. PendingCovers'
  <2>1. Total(Uncounted)' = Total(Uncounted)
        /\ Total(Spooled \cup Unsubtracted)' = Total(Spooled \cup Unsubtracted)
    BY <1>4
  <2> QED
    BY <1>1, <1>2, <1>3, <1>4, <2>1 DEF PendingCovers
<1> QED
  BY <1>2, <1>5, <1>6, <1>7 DEF MeterInv

(* The Primary applies a batch: only now may a shipper release it.         *)
LEMMA IngestStep ==
  ASSUME MeterInv, NEW m \in post, NEW a, NEW rep, IngestBatch(m, a, rep)
  PROVE  MeterInv'
<1>1. /\ MeterShape /\ ChargesKnown /\ AnswerHolds /\ LastUseKept /\ LoopAlone
      /\ PendingCovers
  BY DEF MeterInv
<1>2. m.deltas \subseteq Delta /\ m.deltas \subseteq Published /\ m.keys \subseteq ApiKey
  BY <1>1 DEF MeterShape, ChargesKnown, Body
<1>3. /\ UNCHANGED <<charge, files, entry, pending, late, buffer, touched, forgot, phase>>
      /\ ledger' = ledger \cup m.deltas /\ stamped' = stamped \cup m.keys
      /\ post' \subseteq post
  BY DEF IngestBatch, pendingVars
<1>4. ASSUME NEW s \in Shipper
      PROVE  /\ shipper'[s].batch = shipper[s].batch /\ shipper'[s].keys = shipper[s].keys
             /\ shipper'[s] \in Holding
             /\ \/ shipper'[s].st = shipper[s].st
                \/ /\ shipper[s].st = "wait" /\ shipper'[s].st = "release"
                   /\ m.deltas = Elems(shipper[s].batch) /\ m.keys = shipper[s].keys
  <2>1. shipper[s] \in Holding
    BY <1>1 DEF MeterShape
  <2>2. \/ shipper'[s] = shipper[s]
        \/ /\ shipper'[s] = [shipper[s] EXCEPT !.st = "release"] /\ shipper[s].st = "wait"
           /\ m = [deltas |-> Elems(shipper[s].batch), keys |-> shipper[s].keys]
    BY DEF IngestBatch
  <2> QED
    BY <2>1, <2>2 DEF Holding
<1>5. shipper' \in [Shipper -> Holding]
  <2>1. shipper' = [s \in Shipper |-> shipper'[s]]
    BY DEF IngestBatch
  <2> QED
    BY <1>4, <2>1
<1>6. Published' = Published /\ Spooled' = Spooled /\ Uncounted' = Uncounted
  BY <1>3 DEF Published, Spooled, Uncounted, InFlight
<1>7. NewDeltas(m) \subseteq Delta /\ Total(NewDeltas(m)) \in Nat /\ debited' \in Nat
  <2>1. NewDeltas(m) \subseteq Delta
    BY <1>2 DEF NewDeltas
  <2>2. Total(NewDeltas(m)) \in Nat
    BY <2>1, Amounts
  <2> QED
    BY <1>1, <2>1, <2>2 DEF IngestBatch, MeterShape
<1>8. MeterShape'
  BY <1>1, <1>2, <1>3, <1>5, <1>7 DEF MeterShape
<1>9. ChargesKnown'
  BY <1>1, <1>2, <1>3, <1>4, <1>6 DEF ChargesKnown
<1>10. AnswerHolds'
  BY <1>1, <1>3, <1>4 DEF AnswerHolds
<1>11. LastUseKept'
  BY <1>1, <1>3, <1>4 DEF LastUseKept
<1>12. Unsubtracted' = Unsubtracted /\ Counter' = Counter
  BY <1>3, <1>4 DEF Unsubtracted, Counter, Shipper
<1>13. LoopAlone'
  BY <1>1, <1>3, <1>4, <1>6, <1>12 DEF LoopAlone, Shipper
<1>14. PendingCovers'
  <2>1. Total(Uncounted)' = Total(Uncounted)
        /\ Total(Spooled \cup Unsubtracted)' = Total(Spooled \cup Unsubtracted)
    BY <1>6, <1>12
  <2> QED
    BY <1>1, <1>3, <1>12, <2>1 DEF PendingCovers
<1> QED
  BY <1>8, <1>9, <1>10, <1>11, <1>13, <1>14 DEF MeterInv

(* What is released is in the ledger, and is subtracted from now on.       *)
LEMMA ReleaseStep ==
  ASSUME MeterInv, NEW s \in Shipper, ReleaseFiles(s)
  PROVE  MeterInv' /\ Spooled' \subseteq Spooled /\ Spooled \ Spooled' \subseteq ledger
<1>1. /\ MeterShape /\ ChargesKnown /\ AnswerHolds /\ LastUseKept /\ LoopAlone
      /\ PendingCovers
  BY DEF MeterInv
<1> DEFINE taken == shipper[s].batch
<1>2. /\ shipper[s] \in Holding /\ shipper[s].st = "release"
      /\ Elems(taken) \subseteq ledger /\ shipper[s].keys \subseteq stamped
      /\ s = "final" => phase # "serving"
  BY <1>1 DEF ReleaseFiles, AnswerHolds, MeterShape, LoopAlone
<1>3. files' \in Seq(Delta) /\ Distinct(files') /\ Spooled' = Spooled \ Elems(taken)
  BY <1>1, WithoutKeeps DEF MeterShape, ReleaseFiles, RemainingFiles, Spooled
<1>4. shipper' = [t \in Shipper |->
        IF t = s THEN [shipper[s] EXCEPT !.st = "subtract", !.keys = {}] ELSE shipper[t]]
  BY <1>1 DEF ReleaseFiles, MeterShape
<1>5. /\ shipper'[s] \in Holding /\ shipper'[s].st = "subtract"
      /\ shipper'[s].batch = taken /\ shipper'[s].keys = {}
      /\ \A t \in Shipper \ {s} : shipper'[t] = shipper[t]
  BY <1>2, <1>4 DEF Holding
<1>6. shipper' \in [Shipper -> Holding]
  <2>1. \A t \in Shipper : shipper'[t] \in Holding
    BY <1>1, <1>5 DEF MeterShape
  <2> QED
    BY <1>4, <2>1
<1>7. UNCHANGED <<charge, entry, pending, late, ledger, debited, post, buffer, stamped, touched,
                  forgot, phase>>
  BY DEF ReleaseFiles, pendingVars
<1>8. Published' = Published /\ Uncounted' = Uncounted
  BY <1>7 DEF Published, Uncounted, InFlight
<1>9. MeterShape'
  BY <1>1, <1>3, <1>6, <1>7 DEF MeterShape
<1>10. ChargesKnown'
  <2>1. Published = (Spooled \ Elems(taken)) \cup ledger
    BY <1>1, <1>2 DEF ChargesKnown
  <2>2. \A t \in Shipper : shipper'[t].batch = shipper[t].batch
    BY <1>5
  <2> HIDE DEF taken
  <2> QED
    BY <1>1, <1>3, <1>7, <1>8, <2>1, <2>2 DEF ChargesKnown
<1>11. AnswerHolds'
  BY <1>1, <1>5, <1>7 DEF AnswerHolds
<1>12. LastUseKept'
  BY <1>1, <1>2, <1>5, <1>7 DEF LastUseKept
<1>13. phase = "serving" => /\ s = "loop" /\ Unsubtracted = {} /\ Unsubtracted' = Elems(taken)
                            /\ Elems(taken) \subseteq Spooled /\ Distinct(taken)
                            /\ Counter' = Counter
  BY <1>1, <1>2, <1>5, <1>7 DEF LoopAlone, Unsubtracted, Counter, Shipper
<1> HIDE DEF taken
<1>14. LoopAlone'
  <2>1. "final" \in Shipper
    BY DEF Shipper
  <2> QED
    BY <1>1, <1>3, <1>5, <1>7, <1>13, <2>1 DEF LoopAlone
<1>15. PendingCovers'
  <2> SUFFICES ASSUME phase = "serving" PROVE PendingCovers'
    BY <1>7 DEF PendingCovers
  <2>1. (Spooled \cup Unsubtracted)' = Spooled \cup Unsubtracted
    BY <1>3, <1>13
  <2>2. Total(Uncounted)' = Total(Uncounted)
        /\ Total(Spooled \cup Unsubtracted)' = Total(Spooled \cup Unsubtracted)
    BY <1>8, <2>1
  <2> QED
    BY <1>1, <1>7, <1>13, <2>2 DEF PendingCovers
<1> QED
  BY <1>2, <1>3, <1>9, <1>10, <1>11, <1>12, <1>14, <1>15 DEF MeterInv

(* A released charge leaves the counter at most once.                      *)
LEMMA SubtractStep ==
  ASSUME MeterInv, NEW s \in Shipper, SubtractPending(s) PROVE MeterInv'
<1>1. /\ MeterShape /\ ChargesKnown /\ AnswerHolds /\ LastUseKept /\ LoopAlone
      /\ PendingCovers
  BY DEF MeterInv
<1> DEFINE taken == shipper[s].batch
<1>2. /\ shipper[s] \in Holding /\ shipper[s].st = "subtract" /\ shipper[s].keys = {}
      /\ taken \in Seq(Delta) /\ Elems(taken) \subseteq Published
      /\ s = "final" => phase # "serving"
  BY <1>1 DEF SubtractPending, AnswerHolds, MeterShape, LoopAlone, ChargesKnown, Holding
<1>3. CASE taken = <<>>
  <2>1. shipper' = [shipper EXCEPT ![s] = AtRest] /\ UNCHANGED pending
    BY <1>3 DEF SubtractPending
  <2>2. LastUseKept'
    BY <1>2, <2>1, RestHolds, KeysMove DEF SubtractPending
  <2>3. s = "loop" => Unsubtracted = {} /\ shipper[s].st # "remove"
    BY <1>2, <1>3, RestHolds DEF Unsubtracted
  <2>4. MeterShape' /\ ChargesKnown' /\ AnswerHolds' /\ LoopAlone' /\ PendingCovers'
    BY <1>1, <2>1, <2>3, RestHolds, ShipperMoves DEF SubtractPending, MeterShape, ChargesKnown
  <2> QED
    BY <2>2, <2>4 DEF MeterInv
<1>4. CASE taken # <<>>
  <2> DEFINE d == Head(taken)
             rest == Tail(taken)
  <2>1. /\ pending' = PendingWithout(d)
        /\ UNCHANGED <<charge, files, entry, late, ledger, debited, post, buffer, stamped,
                       touched, forgot, phase>>
    BY <1>4 DEF SubtractPending
  <2> DEFINE next == IF entry /\ pending' = 0 THEN "remove" ELSE "subtract"
  <2>2. shipper' = [t \in Shipper |->
          IF t = s THEN [shipper[s] EXCEPT !.batch = rest, !.st = next] ELSE shipper[t]]
    BY <1>1, <1>4 DEF SubtractPending, MeterShape
  <2>3. d \in Delta /\ rest \in Seq(Delta) /\ Elems(rest) \subseteq Elems(taken)
    <3>1. Len(taken) # 0 /\ Len(taken) \in Nat
      BY <1>2, <1>4
    <3>2. /\ rest \in Seq(Delta) /\ d = taken[1] /\ DOMAIN taken = 1..Len(taken)
          /\ DOMAIN rest = 1..(Len(taken) - 1)
          /\ \A i \in 1..(Len(taken) - 1) : rest[i] = taken[i + 1]
      BY <1>2, <1>4
    <3>3. d \in Delta
      BY <1>2, <3>1, <3>2
    <3>4. \A i \in 1..(Len(taken) - 1) : i + 1 \in 1..Len(taken)
      BY <3>1
    <3> HIDE DEF d, rest, taken
    <3> QED
      BY <3>2, <3>3, <3>4 DEF Elems
  <2>4. /\ shipper'[s] \in Holding /\ shipper'[s].st = next
        /\ next \in {"subtract", "remove"}
        /\ next = "remove" => pending' = 0
        /\ shipper'[s].batch = rest /\ shipper'[s].keys = {}
        /\ \A t \in Shipper \ {s} : shipper'[t] = shipper[t]
    <3> HIDE DEF rest
    <3> QED
      BY <1>2, <2>2, <2>3 DEF Holding
  <2> HIDE DEF rest, d, next
  <2>5. shipper' \in [Shipper -> Holding]
    <3>1. \A t \in Shipper : shipper'[t] \in Holding
      BY <1>1, <2>4 DEF MeterShape
    <3> QED
      BY <2>2, <3>1
  <2>6. Published' = Published /\ Uncounted' = Uncounted /\ Spooled' = Spooled
    BY <2>1 DEF Published, Uncounted, InFlight, Spooled
  <2>7. AmountOf[d] \in Nat /\ pending \in Int /\ pending' \in Int
    BY <1>1, <2>1, <2>3, MeteringConstants DEF PendingWithout, MeterShape
  <2>8. MeterShape'
    BY <1>1, <2>1, <2>5, <2>7 DEF MeterShape
  <2>9. ChargesKnown'
    <3>1. \A t \in Shipper : Elems(shipper'[t].batch) \subseteq Published
      BY <1>1, <1>2, <2>3, <2>4 DEF ChargesKnown
    <3> QED
      BY <1>1, <2>1, <2>6, <3>1 DEF ChargesKnown
  <2>10. AnswerHolds' /\ LastUseKept'
    BY <1>1, <1>2, <2>1, <2>4 DEF AnswerHolds, LastUseKept
  <2>11. phase = "serving" =>
           /\ s = "loop" /\ Unsubtracted = Elems(taken) /\ Unsubtracted' = Elems(rest)
           /\ Distinct(taken) /\ Unsubtracted \cap Spooled = {}
           /\ Counter = pending /\ Counter' = pending'
    BY <1>1, <1>2, <2>4 DEF LoopAlone, Unsubtracted, Counter, Shipper
  <2>12. Distinct(taken) =>
           /\ Distinct(rest) /\ Elems(taken) = Elems(rest) \cup {d} /\ d \notin Elems(rest)
    BY <1>2, <1>4, TakenOff DEF d, rest
  <2> HIDE DEF taken
  <2>13. LoopAlone'
    <3>1. "final" \in Shipper
      BY DEF Shipper
    <3> QED
      BY <1>1, <2>1, <2>4, <2>6, <2>11, <2>12, <3>1 DEF LoopAlone
  <2>14. PendingCovers'
    <3> SUFFICES ASSUME phase = "serving" PROVE PendingCovers'
      BY <2>1 DEF PendingCovers
    <3> DEFINE T == Spooled \cup Elems(rest)
    <3>1. /\ Spooled \cup Unsubtracted = T \cup {d} /\ d \notin T
          /\ (Spooled \cup Unsubtracted)' = T
      BY <2>6, <2>11, <2>12
    <3>2. T \subseteq Delta /\ Uncounted \subseteq Delta
      BY <3>1, InDelta
    <3> HIDE DEF T
    <3>3. Total(T \cup {d}) = Total(T) + AmountOf[d]
      BY <2>3, <3>1, <3>2, TotalAdd
    <3>4. Total(T) \in Nat /\ Total(Uncounted) \in Nat
      BY <3>2, Amounts
    <3>5. pending + Total(Uncounted) >= Total(T \cup {d})
      <4>1. Total(Spooled \cup Unsubtracted) = Total(T \cup {d})
        BY <3>1
      <4> QED
        BY <1>1, <2>11, <4>1 DEF PendingCovers
    <3>6. Total(Uncounted)' = Total(Uncounted) /\ Total(Spooled \cup Unsubtracted)' = Total(T)
      BY <2>6, <3>1
    <3>7. pending' + Total(Uncounted) >= Total(T)
      BY <2>1, <2>7, <3>3, <3>4, <3>5 DEF PendingWithout
    <3> QED
      BY <2>7, <2>11, <3>6, <3>7 DEF PendingCovers
  <2> QED
    BY <2>8, <2>9, <2>10, <2>13, <2>14 DEF MeterInv
<1> QED
  BY <1>3, <1>4

(* The removal loses only what the counter was not relied on for.          *)
LEMMA RemoveStep ==
  ASSUME MeterInv, NEW s \in Shipper, RemoveEntry(s) PROVE MeterInv'
<1>1. /\ MeterShape /\ ChargesKnown /\ AnswerHolds /\ LastUseKept /\ LoopAlone
      /\ PendingCovers
  BY DEF MeterInv
<1>2. /\ shipper[s] \in Holding /\ shipper[s].st = "remove" /\ shipper[s].keys = {}
      /\ s = "final" => phase # "serving"
  BY <1>1 DEF RemoveEntry, AnswerHolds, MeterShape, LoopAlone
<1>3. /\ pending' = 0 /\ entry' \in BOOLEAN
      /\ UNCHANGED <<charge, files, late, ledger, debited, post, buffer, stamped,
                     touched, forgot, phase>>
  BY DEF RemoveEntry
<1>4. shipper' = [t \in Shipper |->
        IF t = s THEN [shipper[s] EXCEPT !.st = "subtract"] ELSE shipper[t]]
  BY <1>1 DEF RemoveEntry, MeterShape
<1>5. /\ shipper'[s] \in Holding /\ shipper'[s].st = "subtract"
      /\ shipper'[s].batch = shipper[s].batch /\ shipper'[s].keys = shipper[s].keys
      /\ \A t \in Shipper \ {s} : shipper'[t] = shipper[t]
  BY <1>2, <1>4 DEF Holding
<1>6. shipper' \in [Shipper -> Holding]
  <2>1. \A t \in Shipper : shipper'[t] \in Holding
    BY <1>1, <1>5 DEF MeterShape
  <2> QED
    BY <1>4, <2>1
<1>7. Published' = Published /\ Uncounted' = Uncounted /\ Spooled' = Spooled
  BY <1>3 DEF Published, Uncounted, InFlight, Spooled
<1>8. MeterShape'
  BY <1>1, <1>3, <1>6 DEF MeterShape
<1>9. ChargesKnown' /\ AnswerHolds' /\ LastUseKept'
  BY <1>1, <1>2, <1>3, <1>5, <1>7 DEF ChargesKnown, AnswerHolds, LastUseKept
<1>10. Unsubtracted' = Unsubtracted
  BY <1>2, <1>5 DEF Unsubtracted, Shipper
<1>11. LoopAlone'
  BY <1>1, <1>2, <1>3, <1>5, <1>7, <1>10 DEF LoopAlone, Shipper
<1>12. PendingCovers'
  <2> SUFFICES ASSUME phase = "serving" PROVE PendingCovers'
    BY <1>3 DEF PendingCovers
  <2>1. Total(Uncounted)' = Total(Uncounted)
        /\ Total(Spooled \cup Unsubtracted)' = Total(Spooled \cup Unsubtracted)
    BY <1>7, <1>10
  <2>2. Counter = 0 /\ Counter' = 0
    BY <1>2, <1>3, <1>5 DEF Counter, Shipper
  <2> QED
    BY <1>1, <1>3, <2>1, <2>2 DEF PendingCovers
<1> QED
  BY <1>8, <1>9, <1>11, <1>12 DEF MeterInv

-----------------------------------------------------------------------------
(* A process that starts holds nothing: what it knows is on disk.          *)
LEMMA StartsAnew ==
  ASSUME MeterInv, shipper' = [s \in Shipper |-> AtRest],
         charge' = [d \in Delta |-> IF charge[d] = "none" THEN "none" ELSE "counted"],
         buffer' = {}, touched' = {}, late' = {}, UNCHANGED post
  PROVE  /\ shipper' \in [Shipper -> Holding]
         /\ charge' \in [Delta -> {"none", "published", "counted"}]
         /\ Published' = Published /\ Uncounted' = {} /\ Unsubtracted' = {}
         /\ AnswerHolds' /\ LastUseKept'
         /\ \A s \in Shipper : /\ Elems(shipper'[s].batch) = {}
                               /\ Distinct(shipper'[s].batch) /\ shipper'[s].st = "idle"
<1>1. \A s \in Shipper : shipper'[s] = AtRest
  OBVIOUS
<1>2. /\ shipper' \in [Shipper -> Holding]
      /\ \A s \in Shipper : /\ Elems(shipper'[s].batch) = {} /\ shipper'[s].keys = {}
                            /\ Distinct(shipper'[s].batch) /\ shipper'[s].st = "idle"
  BY <1>1, RestHolds
<1>3. Published' = Published /\ Uncounted' = {}
  BY DEF Published, Uncounted, InFlight
<1>4. Unsubtracted' = {}
  BY <1>2 DEF Unsubtracted, Shipper
<1> QED
  BY <1>2, <1>3, <1>4 DEF AnswerHolds, LastUseKept

LEMMA MeterRestartStep ==
  ASSUME MeterInv, RestartReplica
  PROVE  MeterInv' /\ Published' = Published /\ UNCHANGED <<files, ledger, debited>>
<1>1. MeterShape /\ ChargesKnown
  BY DEF MeterInv
<1>2. /\ shipper' \in [Shipper -> Holding]
      /\ charge' \in [Delta -> {"none", "published", "counted"}]
      /\ Published' = Published /\ Uncounted' = {} /\ Unsubtracted' = {}
      /\ AnswerHolds' /\ LastUseKept'
      /\ \A s \in Shipper : /\ Elems(shipper'[s].batch) = {}
                            /\ Distinct(shipper'[s].batch) /\ shipper'[s].st = "idle"
  BY StartsAnew DEF RestartReplica
<1>3. Spooled' = Spooled /\ UNCHANGED <<files, ledger, debited, post>>
  BY DEF RestartReplica, Spooled
<1>4. /\ pending' = Total(Spooled) /\ Total(Spooled) \in Nat
      /\ entry' \in BOOLEAN /\ late' = {}
  BY InDelta, Amounts DEF RestartReplica, ReconstructPending, Spooled
<1>5. MeterShape'
  BY <1>1, <1>2, <1>3, <1>4 DEF MeterShape, RestartReplica
<1>6. ChargesKnown'
  BY <1>1, <1>2, <1>3 DEF ChargesKnown
<1>7. LoopAlone'
  BY <1>2 DEF LoopAlone, Shipper
<1>8. PendingCovers'
  <2>1. (Spooled \cup Unsubtracted)' = Spooled
    BY <1>2, <1>3
  <2>2. Total(Spooled \cup Unsubtracted)' = Total(Spooled) /\ Total(Uncounted)' = 0
    BY <1>2, <2>1, TotalNone
  <2>3. Counter' = pending'
    BY <1>2 DEF Counter, Shipper
  <2> QED
    BY <1>4, <2>2, <2>3 DEF PendingCovers
<1> QED
  BY <1>2, <1>3, <1>5, <1>6, <1>7, <1>8 DEF MeterInv

LEMMA DrainStep ==
  ASSUME MeterInv, PromoteAndDrain
  PROVE  MeterInv' /\ Published' = Published /\ Spooled' = {}
<1>1. MeterShape /\ ChargesKnown
  BY DEF MeterInv
<1>2. /\ shipper' \in [Shipper -> Holding]
      /\ charge' \in [Delta -> {"none", "published", "counted"}]
      /\ Published' = Published /\ Uncounted' = {} /\ Unsubtracted' = {}
      /\ AnswerHolds' /\ LastUseKept'
      /\ \A s \in Shipper : /\ Elems(shipper'[s].batch) = {}
                            /\ Distinct(shipper'[s].batch) /\ shipper'[s].st = "idle"
  BY StartsAnew DEF PromoteAndDrain
<1>3. /\ files' = <<>> /\ Spooled' = {} /\ ledger' = ledger \cup Spooled
      /\ UNCHANGED post /\ phase' = "primary" /\ buffer' = {} /\ pending' = 0
      /\ entry' \in BOOLEAN /\ late' = {}
  BY RestHolds DEF PromoteAndDrain, Spooled
<1>4. debited' \in Nat
  <2> DEFINE S == NewDeltas([deltas |-> Elems(files)])
  <2>1. S \subseteq Delta
    BY InDelta DEF NewDeltas, Spooled
  <2> HIDE DEF S
  <2>2. Total(S) \in Nat
    BY <2>1, Amounts
  <2> QED
    BY <1>1, <2>2 DEF PromoteAndDrain, MeterShape, S
<1>5. MeterShape'
  BY <1>1, <1>2, <1>3, <1>4, InDelta, RestHolds DEF MeterShape
<1>6. ChargesKnown'
  BY <1>1, <1>2, <1>3 DEF ChargesKnown
<1>7. LoopAlone' /\ PendingCovers'
  BY <1>3 DEF LoopAlone, PendingCovers
<1> QED
  BY <1>2, <1>3, <1>5, <1>6, <1>7 DEF MeterInv

LEMMA MeterStarts == MeterInit => MeterInv
<1> SUFFICES ASSUME MeterInit PROVE MeterInv
  OBVIOUS
<1>1. \A s \in Shipper : shipper[s] = AtRest
  BY DEF MeterInit
<1>2. shipper \in [Shipper -> Holding] /\ <<>> \in Seq(Delta)
  BY RestHolds DEF MeterInit
<1>3. Published = {} /\ Spooled = {} /\ Uncounted = {} /\ Unsubtracted = {}
  BY <1>1, RestHolds DEF MeterInit, Published, Spooled, Uncounted, InFlight, Unsubtracted, Shipper
<1>9. entry \in BOOLEAN
  BY DEF MeterInit
<1>4. MeterShape
  <2>1. /\ charge = [d \in Delta |-> "none"] /\ files = <<>> /\ pending = 0 /\ late = {}
        /\ ledger = {} /\ debited = 0 /\ post = {} /\ buffer = {} /\ phase = "serving"
    BY DEF MeterInit
  <2> QED
    BY <1>2, <1>9, <2>1, RestHolds DEF MeterShape
<1>5. ChargesKnown
  BY <1>1, <1>3, RestHolds DEF MeterInit, ChargesKnown
<1>6. AnswerHolds /\ LastUseKept
  BY <1>1, RestHolds DEF MeterInit, AnswerHolds, LastUseKept
<1>7. LoopAlone
  BY <1>1, <1>3, RestHolds DEF LoopAlone, Shipper
<1>8. PendingCovers
  <2>1. Spooled \cup Unsubtracted = {}
    BY <1>3
  <2>2. Total(Uncounted) = 0 /\ Total(Spooled \cup Unsubtracted) = 0
    BY <1>3, <2>1, TotalNone
  <2>3. Counter = 0 /\ pending = 0
    BY DEF Counter, MeterInit
  <2> QED
    BY <2>2, <2>3 DEF PendingCovers
<1> QED
  BY <1>4, <1>5, <1>6, <1>7, <1>8 DEF MeterInv

LEMMA MeterKept == MeterInv /\ [MeterNext]_meterVars => MeterInv'
<1> SUFFICES ASSUME MeterInv, [MeterNext]_meterVars PROVE MeterInv'
  OBVIOUS
<1>1. ASSUME NEW d \in Delta, PublishDelta(d) \/ CountDelta(d) PROVE MeterInv'
  BY <1>1, PublishStep, CountStep
<1>2. ASSUME NEW s \in Shipper, ShipperStep(s) \/ TerminalLoadFails(s) PROVE MeterInv'
  BY <1>2, StartStep, PostStep, PostFailsStep, ReleaseStep, SubtractStep,
     RemoveStep, LoadFailsStep DEF ShipperStep
<1>3. ASSUME NEW m \in post, \E a, rep \in BOOLEAN : IngestBatch(m, a, rep)
      PROVE  MeterInv'
  BY <1>3, IngestStep
<1> QED
  BY <1>1, <1>2, <1>3, QuietSteps, MeterRestartStep, DrainStep DEF MeterNext

LEMMA MeterSafe == MeterSpec => []MeterInv
BY MeterStarts, MeterKept, PTL DEF MeterSpec

(* ChargesSeen: while a Replica serves, its balance preflight sees every   *)
(* spooled charge but those whose enqueue has not returned and those       *)
(* counted between the subtraction that brings the entry to zero and its   *)
(* removal, whatever was shipped, lost or repeated and however often it    *)
(* was restarted.                                                          *)
THEOREM ChargesSeen == MeterSpec => []PreflightSeesCharges
<1>1. MeterInv => PreflightSeesCharges
  <2> SUFFICES ASSUME MeterInv, phase = "serving"
               PROVE  pending + Total(Uncounted) >= Total(Spooled)
    BY DEF PreflightSeesCharges, Uncounted
  <2>1. /\ Counter + Total(Uncounted) >= Total(Spooled \cup Unsubtracted)
        /\ pending >= Counter
    BY DEF MeterInv, PendingCovers
  <2> DEFINE T == Spooled \cup Unsubtracted
  <2>2. Spooled \subseteq T /\ T \subseteq Delta
    BY InDelta
  <2> HIDE DEF T
  <2>3. Total(Spooled) <= Total(T) /\ Total(Spooled) \in Nat /\ Total(T) \in Nat
    BY <2>2, TotalSplit
  <2>4. Total(Uncounted) \in Nat /\ pending \in Int /\ Counter \in Int
    BY InDelta, Amounts DEF MeterInv, MeterShape, Counter
  <2> QED
    BY <2>1, <2>3, <2>4 DEF T
<1> QED
  BY <1>1, MeterSafe, PTL

(* LastUsesKept: a recorded use of an API key is never dropped silently,   *)
(* but by a tick whose read of the terminal spool failed.                  *)
THEOREM LastUsesKept == MeterSpec => []LastUseKept
<1>1. MeterInv => LastUseKept
  BY DEF MeterInv
<1> QED
  BY <1>1, MeterSafe, PTL

-----------------------------------------------------------------------------
(* The state of the ledger of ChargeLedger.                                *)
Outcome ==
  [d \in Delta |->
     IF d \in ledger THEN "spent"
     ELSE IF charge[d] = "none" THEN "none"
     ELSE IF d \in Spooled THEN "open" ELSE "lost"]

Aside == [d \in Delta |-> IF d \in Spooled \ ledger THEN AmountOf[d] ELSE 0]

MeterHeld == Total(Spooled \ ledger)

BookNext == [Book!Next]_<<Outcome, Aside, MeterHeld, debited>>

(* What a charge is to the ledger, in the terms of the invariant.          *)
LEMMA Outcomes ==
  ASSUME MeterInv
  PROVE  Outcome = [d \in Delta |-> IF d \in ledger THEN "spent"
                                    ELSE IF d \notin Published THEN "none" ELSE "open"]
BY DEF Outcome, Published, MeterInv, ChargesKnown

LEMMA LedgerRests ==
  ASSUME MeterInv, MeterInv', Published' = Published, ledger' = ledger,
         debited' = debited, Spooled' \ ledger = Spooled \ ledger
  PROVE  BookNext
<1>1. Outcome' = Outcome
  BY Outcomes DEF Outcome, Published, MeterInv, ChargesKnown
<1>2. Aside' = Aside
  BY DEF Aside
<1>3. MeterHeld' = MeterHeld
  BY DEF MeterHeld
<1> QED
  BY <1>1, <1>2, <1>3 DEF BookNext

LEMMA LedgerOpens ==
  ASSUME MeterInv, NEW d \in Delta, PublishDelta(d) PROVE BookNext
<1>1. /\ MeterInv' /\ Spooled' = Spooled \cup {d}
      /\ d \notin Spooled /\ d \notin ledger
  BY PublishStep
<1>2. UNCHANGED <<ledger, debited>> /\ charge' = [charge EXCEPT ![d] = "published"]
      /\ charge[d] = "none" /\ charge \in [Delta -> {"none", "published", "counted"}]
  BY DEF PublishDelta, MeterInv, MeterShape
<1> DEFINE a == AmountOf[d]
<1>3. a \in {AmountOf[e] : e \in Delta}
  OBVIOUS
<1>4. Outcome[d] = "none" /\ Outcome' = [Outcome EXCEPT ![d] = "open"]
  BY <1>1, <1>2 DEF Outcome
<1>5. Aside' = [Aside EXCEPT ![d] = a]
  BY <1>1, <1>2 DEF Aside
<1>6. MeterHeld' = MeterHeld + a
  <2>1. (Spooled \ ledger)' = (Spooled \ ledger) \cup {d}
    BY <1>1, <1>2
  <2> DEFINE S == Spooled \ ledger
  <2>2. S \subseteq Delta /\ d \notin S
    BY <1>1, InDelta
  <2> HIDE DEF S
  <2>3. Total(S \cup {d}) = Total(S) + a
    BY <2>2, TotalAdd
  <2> QED
    BY <2>1, <2>3 DEF MeterHeld, S
<1>7. Book!Open(d, a)
  BY <1>2, <1>4, <1>5, <1>6 DEF Book!Open, Outcome, Aside, MeterHeld
<1> QED
  BY <1>3, <1>7 DEF BookNext, Book!Next

(* The sums of the ledger module are the sums of this one.                 *)
LEMMA BookSums ==
  ASSUME NEW f, NEW V
  PROVE  Book!MapThenSumSet(LAMBDA c : f[c], V) = SumOf(f, V)
BY SumDef DEF Book!MapThenSumSet, Book!MapThenFoldSet, Adds, Pick

(* A batch charges what it finds open, together.                           *)
LEMMA LedgerSpends ==
  ASSUME MeterInv, MeterInv', NEW S, S \subseteq Spooled \ ledger, S # {},
         Published' = Published, ledger' = ledger \cup S,
         Spooled' \ ledger' = (Spooled \ ledger) \ S,
         debited' = debited + Total(S)
  PROVE  BookNext
<1>1. S \subseteq Delta /\ Spooled \ ledger \subseteq Delta /\ S \subseteq Published
  BY InDelta DEF MeterInv, ChargesKnown
<1> DEFINE x == [c \in S |-> AmountOf[c]]
<1>2. x \in [S -> {AmountOf[d] : d \in Delta}]
  BY <1>1
<1>3. Outcome' = [c \in Delta |-> IF c \in S THEN "spent" ELSE Outcome[c]]
  <2>1. Outcome' = [d \in Delta |-> IF d \in ledger' THEN "spent"
                                    ELSE IF d \notin Published' THEN "none" ELSE "open"]
    BY DEF Outcome, Published, MeterInv, ChargesKnown
  <2> QED
    BY <2>1, Outcomes
<1>4. \A c \in S : Outcome[c] = "open"
  BY <1>1, Outcomes
<1>5. Aside' = [c \in Delta |-> IF c \in S THEN 0 ELSE Aside[c]]
  BY DEF Aside
<1>6. \A c \in S : Aside[c] = AmountOf[c] /\ x[c] = AmountOf[c]
  BY <1>1 DEF Aside
<1>7. Ints(AmountOf, S) /\ Total(S) = SumOf(AmountOf, S)
  BY <1>1, Amounts
<1> HIDE DEF x
<1>8. SumOf(Aside, S) = Total(S) /\ SumOf(x, S) = Total(S)
  <2>1. SumOf(AmountOf, S) = SumOf(Aside, S)
    BY <1>6, <1>7, SumSame
  <2>2. SumOf(AmountOf, S) = SumOf(x, S)
    BY <1>6, <1>7, SumSame
  <2> QED
    BY <1>7, <2>1, <2>2
<1>9. MeterHeld' = MeterHeld - Total(S)
  <2> DEFINE T == Spooled \ ledger
  <2>1. Total(T) = Total(S) + Total(T \ S) /\ Total(S) \in Nat /\ Total(T \ S) \in Nat
    BY <1>1, TotalSplit
  <2>2. MeterHeld' = Total(T \ S) /\ MeterHeld = Total(T)
    BY DEF MeterHeld
  <2> HIDE DEF T
  <2> QED
    BY <2>1, <2>2
<1>10. Book!Spend(S, x)
  <2>1. MeterHeld' = MeterHeld - SumOf(Aside, S) /\ debited' = debited + SumOf(x, S)
    BY <1>8, <1>9
  <2>2. /\ MeterHeld' = MeterHeld - Book!MapThenSumSet(LAMBDA c : Aside[c], S)
        /\ debited' = debited + Book!MapThenSumSet(LAMBDA c : x[c], S)
    BY <2>1, BookSums
  <2> QED
    BY <1>3, <1>4, <1>5, <2>2 DEF Book!Spend, Outcome, Aside, MeterHeld
<1> QED
  BY <1>1, <1>2, <1>10 DEF BookNext, Book!Next

LEMMA LedgerStep == MeterInv /\ [MeterNext]_meterVars => BookNext
<1> SUFFICES ASSUME MeterInv, [MeterNext]_meterVars PROVE BookNext
  OBVIOUS
<1>1. MeterInv' /\ Published = Spooled \cup ledger
  BY MeterKept DEF MeterInv, ChargesKnown
<1>2. ASSUME UNCHANGED <<charge, files, ledger, debited>> PROVE BookNext
  BY <1>1, <1>2, LedgerRests DEF Published, Spooled
<1>3. ASSUME NEW d \in Delta, PublishDelta(d) \/ CountDelta(d) PROVE BookNext
  <2>1. CASE CountDelta(d)
    BY <1>1, <2>1, CountStep, LedgerRests DEF CountDelta, Spooled
  <2> QED
    BY <1>3, <2>1, LedgerOpens
<1>4. ASSUME NEW s \in Shipper, ShipperStep(s) \/ TerminalLoadFails(s) PROVE BookNext
  <2>1. CASE ReleaseFiles(s)
    <3>1. Spooled' \ ledger = Spooled \ ledger
      BY <2>1, ReleaseStep
    <3> QED
      BY <1>1, <2>1, <3>1, LedgerRests DEF ReleaseFiles, Published
  <2> QED
    BY <1>2, <1>4, <2>1 DEF ShipperStep, StartTick, PostBatch, PostFails,
       SubtractPending, RemoveEntry, TerminalLoadFails
<1>5. ASSUME NEW m \in post, NEW a \in BOOLEAN, NEW rep \in BOOLEAN, IngestBatch(m, a, rep)
      PROVE  BookNext
  <2> DEFINE S == NewDeltas(m)
  <2>1. m.deltas \subseteq Published
    BY DEF MeterInv, ChargesKnown
  <2>2. /\ UNCHANGED <<charge, files>> /\ ledger' = ledger \cup m.deltas
        /\ debited' = debited + Total(S)
    BY <1>5 DEF IngestBatch
  <2>3. S \subseteq Spooled \ ledger /\ ledger' = ledger \cup S
    BY <1>1, <2>1, <2>2 DEF NewDeltas
  <2>4. Published' = Published /\ Spooled' = Spooled
    BY <2>2 DEF Published, Spooled
  <2> HIDE DEF S
  <2>5. CASE S = {}
    <3>1. Total(S) = 0 /\ debited \in Nat
      BY <2>5, TotalNone DEF MeterInv, MeterShape
    <3> QED
      BY <1>1, <2>2, <2>3, <2>4, <2>5, <3>1, LedgerRests
  <2>6. CASE S # {}
    BY <1>1, <2>2, <2>3, <2>4, <2>6, LedgerSpends
  <2> QED
    BY <2>5, <2>6
<1>6. CASE PromoteAndDrain
  <2> DEFINE S == Spooled \ ledger
  <2>1. /\ ledger' = ledger \cup S /\ debited' = debited + Total(S)
        /\ Published' = Published /\ Spooled' = {}
    BY <1>6, DrainStep DEF PromoteAndDrain, NewDeltas, Spooled
  <2>2. S \subseteq Spooled \ ledger /\ Spooled' \ ledger' = S \ S
    BY <2>1
  <2>3. CASE S = {}
    <3>1. Total(S) = 0 /\ debited \in Nat
      BY <2>3, TotalNone DEF MeterInv, MeterShape
    <3> QED
      BY <1>1, <2>1, <2>2, <2>3, <3>1, LedgerRests
  <2>4. CASE S # {}
    BY <1>1, <2>1, <2>2, <2>4, LedgerSpends
  <2> QED
    BY <2>3, <2>4
<1>7. CASE RestartReplica
  BY <1>1, <1>7, MeterRestartStep, LedgerRests DEF Spooled
<1>8. CASE \/ \E k \in ApiKey : RecordUse(k)
           \/ \E m \in post : BatchLost(m)
           \/ Stop \/ UNCHANGED meterVars
  BY <1>2, <1>8, QuietSteps
<1> QED
  BY <1>3, <1>4, <1>5, <1>6, <1>7, <1>8 DEF MeterNext

(* ChargedOnce: the delta files implement the ledger of ChargeLedger: each *)
(* published charge is debited exactly once, its amount is held until then *)
(* and the balance is debited by the sum, whatever is lost, repeated,      *)
(* shipped twice or restarted, and when a Replica becomes the Primary.     *)
THEOREM ChargedOnce == MeterSpec => DeltaLedger
<1>1. MeterInit => Book!Init
  <2> SUFFICES ASSUME MeterInit PROVE Book!Init
    OBVIOUS
  <2>1. Spooled = {} /\ ledger = {} /\ debited = 0 /\ charge = [d \in Delta |-> "none"]
    BY RestHolds DEF MeterInit, Spooled
  <2>2. Spooled \ ledger = {}
    BY <2>1
  <2>3. Outcome = [d \in Delta |-> "none"] /\ Aside = [d \in Delta |-> 0] /\ MeterHeld = 0
    BY <2>1, <2>2, TotalNone DEF Outcome, Aside, MeterHeld
  <2> QED
    BY <2>1, <2>3 DEF Book!Init, Outcome, Aside, MeterHeld
<1>2. BookNext => [Book!Next]_<<Outcome, Aside, MeterHeld, debited>>
  BY DEF BookNext
<1> QED
  BY <1>1, <1>2, LedgerStep, MeterSafe, PTL
     DEF MeterSpec, DeltaLedger, Book!Spec, Outcome, Aside, MeterHeld
=============================================================================
