--------------------------- MODULE ChannelRouting ---------------------------
(***************************************************************************)
(* Routing of requests over upstream channels (handlers/routing.rs,        *)
(* monoize_routing.rs, the probe scheduler of app.rs and the provider and  *)
(* settings handlers of dashboard_handlers/): the waterfall of attempts    *)
(* with retries on the same channel, the passive circuit breaker, active   *)
(* probes, the affinity of a conversation to the channel that served it,   *)
(* and the routing configuration revision that keeps attempts and probes   *)
(* of an older configuration from publishing into a newer one.             *)
(*                                                                         *)
(* A provider has one channel.  All requests belong to one conversation.   *)
(* Instants are kept as distances from now (remaining cooldown, age of a   *)
(* failure sample), so time is not bounded.                                *)
(***************************************************************************)
EXTENDS Integers, Sequences, FiniteSets

CONSTANTS Order,        \* channels in provider order
          Req,          \* requests
          Threshold,    \* effective_passive_failure_threshold
          Window,       \* passive_window_seconds
          Cooldown,     \* passive_cooldown_seconds
          RateCooldown, \* passive_rate_limit_cooldown_seconds
          MaxRetries,   \* channel_max_retries
          IdleTtl,      \* affinity_idle_ttl_seconds
          Failback,     \* delay of "prefer_higher_priority"; 0 is "sticky"
          ProbeSuccess, \* active_success_threshold
          ProbeEvery,   \* active_interval_seconds
          HealthMax,    \* channel_health_max_entries
          Probed,       \* channels the scheduler probes: none on a Replica, on
                        \* the Primary those of a breaker with probing enabled,
                        \* a type that can be probed and the probe model offered
          MaxLag,       \* bound: how long a tick of the probe takes
          MaxChange     \* bound: configuration changes

Channel == {Order[i] : i \in DOMAIN Order}

ASSUME RoutingConstants ==
  /\ \A n \in {Threshold, Window, Cooldown, RateCooldown, IdleTtl, ProbeSuccess,
               ProbeEvery, HealthMax} : n \in Nat \ {0}
  /\ \A n \in {MaxRetries, Failback, MaxLag, MaxChange} : n \in Nat
  /\ Probed \subseteq Channel
  /\ \A i, j \in DOMAIN Order : Order[i] = Order[j] => i = j
  /\ "none" \notin Channel

VARIABLES present,  \* channels whose provider is stored and enabled
          dbVer,    \* version of the stored configuration
          changed,  \* history: version of the last change of a channel after
                    \* which what was learnt of it has to go
          revision, \* routing_config_revision
          health,   \* channel_health
          binding,  \* channel_affinity of the conversation
          req, probe, admin

routingVars == <<present, dbVer, changed, revision, health, binding,
                 req, probe, admin>>

NoHealth == [st |-> "absent", healthy |-> TRUE, cool |-> 0, probes |-> 0,
             probed |-> ProbeEvery + MaxLag, samples |-> <<>>, ver |-> 0]
NewHealth(v) == [NoHealth EXCEPT !.st = "present", !.ver = v]
NoBinding == [ch |-> "none", bound |-> 0, left |-> 0, ver |-> 0]
IdleReq   == [st |-> "idle", rev |-> 0, ver |-> 0, todo |-> <<>>, hit |-> FALSE,
              used |-> 0]
IdleProbe == [st |-> "asleep", rev |-> 0, ver |-> 0, todo |-> <<>>, ch |-> "none",
              lag |-> 0]
IdleAdmin == [st |-> "idle", chs |-> {}, todo |-> <<>>]

Learnt == {"health", "affinity"}

Lesser(a, b) == IF a < b THEN a ELSE b
Entries == {c \in Channel : health[c].st = "present"}

(* RoutingTypeOK: types and limits: no more samples than the threshold, no *)
(* more entries than the limit, no more attempts on a channel than its     *)
(* retries and the extra one of the bound channel allow (R-H-13, R-H-16,   *)
(* RTA-4a).                                                                *)
RoutingTypeOK ==
  /\ present \subseteq Channel
  /\ dbVer \in 0..MaxChange /\ revision \in 0..MaxChange
  /\ changed \in [Learnt -> [Channel -> 0..MaxChange]]
  /\ \A c \in Channel :
       /\ health[c].cool \in (-MaxLag)..(Cooldown + RateCooldown)
       /\ health[c].probes \in 0..ProbeSuccess
       /\ health[c].probed \in 0..(ProbeEvery + MaxLag)
       /\ health[c].samples \in Seq(0..(Window + 1))
       /\ Len(health[c].samples) <= Threshold
       /\ health[c].healthy \in BOOLEAN
  /\ Cardinality(Entries) <= HealthMax
  /\ binding.ch \in Channel \cup {"none"} /\ binding.left \in 0..IdleTtl
  /\ \A r \in Req :
       req[r].used <= MaxRetries + (IF req[r].hit THEN 2 ELSE 1)
  /\ probe.lag \in 0..MaxLag

RoutingInit ==
  /\ present = Channel
  /\ dbVer = 0 /\ revision = 0 /\ changed = [w \in Learnt |-> [c \in Channel |-> 0]]
  /\ health = [c \in Channel |-> NoHealth]
  /\ binding = NoBinding
  /\ req = [r \in Req |-> IdleReq]
  /\ probe = IdleProbe /\ admin = IdleAdmin

-----------------------------------------------------------------------------
(* missing_channel_health_is_saturated                                     *)
Saturated(c) == c \notin Entries /\ Cardinality(Entries) >= HealthMax

(* filter_eligible_channels: healthy, or past its cooldown.                *)
Eligible(c) ==
  /\ ~ Saturated(c)
  /\ health[c].healthy \/ health[c].cool <= 0

Promote(q, c) == <<c>> \o SelectSeq(q, LAMBDA d : d # c)
IndexOf(q, c) == CHOOSE i \in DOMAIN q : q[i] = c

(* apply_channel_affinity: the bound channel goes first, unless an earlier *)
(* provider is due to get the conversation back.                           *)
FailbackDue(q) ==
  /\ Failback > 0 /\ binding.bound >= Failback
  /\ IndexOf(q, binding.ch) > 1

(* build_monoize_attempts: the revision is read first ...                  *)
CaptureRevision(r) ==
  /\ req[r].st = "idle"
  /\ req' = [req EXCEPT ![r] = [IdleReq EXCEPT !.st = "captured",
                                               !.rev = revision]]
  /\ UNCHANGED <<present, dbVer, changed, revision, health, binding,
                 probe, admin>>

(* ... then the stored providers, filtered once by health and reordered by *)
(* affinity; an expired binding is removed.                                *)
BuildAttempts(r) ==
  /\ req[r].st = "captured"
  /\ LET q   == SelectSeq(Order, LAMBDA c : c \in present /\ Eligible(c))
         own == binding.ch \in {q[i] : i \in DOMAIN q}
         hit == own /\ ~ FailbackDue(q)
     IN  req' = [req EXCEPT ![r] =
           IF q = <<>> THEN IdleReq
           ELSE [@ EXCEPT !.st = "calling", !.ver = dbVer, !.hit = hit,
                          !.used = 1,
                          !.todo = IF hit THEN Promote(q, binding.ch) ELSE q]]
  /\ UNCHANGED <<present, dbVer, changed, revision, health, binding,
                 probe, admin>>

-----------------------------------------------------------------------------
(* Fault: attempts of an older configuration publish as well.              *)
AnyRevision(v) == TRUE

(* Updates are made under the lock of the map after this comparison.       *)
CurrentRevision(v) == v = revision

(* prune_passive_failure_timestamps                                        *)
PrunedSamples(s) == SelectSeq(s, LAMBDA a : a <= Window)

SampledUpToThreshold(s) == IF Len(s) < Threshold THEN Append(s, 0) ELSE s

(* apply_retryable_failure_to_channel on an entry.                         *)
FailedHealth(h, class, v) ==
  LET old == IF h.st = "absent" THEN NewHealth(v) ELSE h
      s   == SampledUpToThreshold(PrunedSamples(old.samples))
      hit == [old EXCEPT !.samples = s, !.ver = Lesser(@, v)]
  IN  IF class = "persistent" \/ Len(s) >= Threshold
      THEN [hit EXCEPT !.healthy = FALSE, !.probes = 0,
              !.probed = ProbeEvery + MaxLag,
              !.cool = IF class = "rate" THEN RateCooldown ELSE Cooldown]
      ELSE hit

MarkFailure(r, c, class) ==
  IF class # "other" /\ CurrentRevision(req[r].rev) /\ ~ Saturated(c)
  THEN [health EXCEPT ![c] = FailedHealth(@, class, req[r].ver)]
  ELSE health

(* clear_channel_affinity: only when the bound channel itself tripped.     *)
(* The key is removed whatever it is bound to by now.                      *)
ClearedBinding(r, c, class) ==
  IF /\ req[r].hit /\ class \notin {"other", "origin"}
     /\ ~ health'[c].healthy
     /\ CurrentRevision(req[r].rev)
  THEN NoBinding ELSE binding

(* allow_same_channel_retry; "origin" failures skip the channel.           *)
MayRetry(r, c, class) ==
  /\ class \in {"rate", "transient"}
  /\ req[r].used < MaxRetries + 1
                     + (IF req[r].hit /\ class = "transient" THEN 1 ELSE 0)
  /\ health'[c].healthy
  /\ c \in {d \in Channel : health'[d].st = "present"}
       \/ Cardinality({d \in Channel : health'[d].st = "present"}) < HealthMax

Class == {"rate", "transient", "origin", "persistent", "other"}

(* An attempt fails before the first byte: record_upstream_attempt_failure *)
(* and the next attempt, of the same channel or of the next one.           *)
CallFails(r, class) ==
  /\ req[r].st = "calling"
  /\ LET c == Head(req[r].todo)
     IN  /\ health' = MarkFailure(r, c, class)
         /\ binding' = ClearedBinding(r, c, class)
         /\ req' = [req EXCEPT ![r] =
              IF MayRetry(r, c, class) THEN [@ EXCEPT !.used = @ + 1]
              ELSE IF Len(@.todo) = 1 THEN IdleReq
              ELSE [@ EXCEPT !.todo = Tail(@), !.used = 1, !.hit = FALSE]]
  /\ UNCHANGED <<present, dbVer, changed, revision, probe, admin>>

(* mark_channel_success *)
HealedHealth(h, v) ==
  LET old == IF h.st = "absent" THEN NewHealth(v) ELSE h
  IN  [old EXCEPT !.healthy = TRUE, !.cool = 0, !.probes = 0,
                  !.probed = ProbeEvery + MaxLag, !.ver = Lesser(@, v),
                  !.samples = PrunedSamples(@)]

CallSucceeds(r) ==
  /\ req[r].st = "calling"
  /\ LET c == Head(req[r].todo)
     IN  health' = IF CurrentRevision(req[r].rev) /\ ~ Saturated(c)
                      THEN [health EXCEPT ![c] = HealedHealth(@, req[r].ver)]
                      ELSE health
  /\ req' = [req EXCEPT ![r].st = "streaming"]
  /\ UNCHANGED <<present, dbVer, changed, revision, binding, probe,
                 admin>>

(* The answer is complete: refresh_channel_affinity.                       *)
Complete(r) ==
  /\ req[r].st = "streaming"
  /\ LET c == Head(req[r].todo)
     IN  IF CurrentRevision(req[r].rev)
         THEN binding' = [ch |-> c, left |-> IdleTtl, ver |-> req[r].ver,
                          bound |-> IF req[r].hit /\ binding.ch = c
                                    THEN binding.bound ELSE 0]
         ELSE UNCHANGED binding
  /\ req' = [req EXCEPT ![r] = IdleReq]
  /\ UNCHANGED <<present, dbVer, changed, revision, health, probe, admin>>

(* The stream breaks after the first byte: no other attempt is possible    *)
(* (record_midstream_terminal_failure).                                    *)
StreamBreaks(r, class) ==
  /\ req[r].st = "streaming" /\ class # "origin"
  /\ LET c == Head(req[r].todo)
     IN  /\ health' = MarkFailure(r, c, class)
         /\ binding' = ClearedBinding(r, c, class)
  /\ req' = [req EXCEPT ![r] = IdleReq]
  /\ UNCHANGED <<present, dbVer, changed, revision, probe, admin>>

-----------------------------------------------------------------------------
(* A tick of the probe scheduler, a second after the last one: the         *)
(* revision is read, ...                                                   *)
StartProbeTick ==
  /\ probe.st = "awake"
  /\ probe' = [IdleProbe EXCEPT !.st = "started", !.rev = revision]
  /\ UNCHANGED <<present, dbVer, changed, revision, health, binding, req, admin>>

(* ... then the candidates and the time, once for the whole tick.          *)
LoadCandidates ==
  /\ probe.st = "started"
  /\ probe' = [probe EXCEPT !.st = "tick", !.ver = dbVer,
                            !.todo = SelectSeq(Order, LAMBDA c : c \in present)]
  /\ UNCHANGED <<present, dbVer, changed, revision, health, binding, req, admin>>

(* The candidates cannot be listed: the tick ends.                         *)
CandidatesFail ==
  /\ probe.st = "started"
  /\ probe' = IdleProbe
  /\ UNCHANGED <<present, dbVer, changed, revision, health, binding, req, admin>>

(* A probed channel that is unhealthy and past its cooldown and its        *)
(* interval, as of the time of the tick.                                   *)
ProbeDue(c) ==
  /\ c \in Probed /\ ~ health[c].healthy
  /\ health[c].cool + probe.lag <= 0
  /\ health[c].probed - probe.lag >= ProbeEvery

(* Places of the candidates that are due, and the first of them.           *)
DuePlaces == {i \in DOMAIN probe.todo : ProbeDue(probe.todo[i])}
FirstDue  == CHOOSE i \in DuePlaces : \A j \in DuePlaces : i <= j
AfterDue  == SubSeq(probe.todo, FirstDue + 1, Len(probe.todo))

EndProbeTick ==
  /\ probe.st = "tick" /\ DuePlaces = {}
  /\ probe' = IdleProbe
  /\ UNCHANGED <<present, dbVer, changed, revision, health, binding, req, admin>>

(* The next candidate that is due is asked.                                *)
ProbeNext ==
  /\ probe.st = "tick" /\ DuePlaces # {}
  /\ probe' = [probe EXCEPT !.st = "asked", !.ch = probe.todo[FirstDue],
                            !.todo = AfterDue]
  /\ UNCHANGED <<present, dbVer, changed, revision, health, binding, req, admin>>

(* It is skipped: its proxy cannot be built, or the spool admits no log or *)
(* cannot arm its fallback.                                                *)
ProbeSkipped ==
  /\ probe.st = "tick" /\ DuePlaces # {}
  /\ probe' = [probe EXCEPT !.todo = AfterDue]
  /\ UNCHANGED <<present, dbVer, changed, revision, health, binding, req, admin>>

(* Fault: a successful probe never completes the count.                    *)
ProbedNever(h, ok) ==
  [h EXCEPT !.probes = 0, !.probed = probe.lag,
            !.cool = IF ok THEN @ ELSE Cooldown - probe.lag]

(* The outcome is stamped with the time of the tick.                       *)
ProbedHealth(h, ok) ==
  LET old == IF h.st = "absent" THEN NewHealth(probe.ver) ELSE h
      new == [old EXCEPT !.probed = probe.lag, !.ver = Lesser(@, probe.ver)]
  IN  IF ~ ok THEN [new EXCEPT !.healthy = FALSE, !.probes = 0,
                               !.cool = Cooldown - probe.lag]
      ELSE IF old.probes + 1 < ProbeSuccess THEN [new EXCEPT !.probes = @ + 1]
      ELSE [new EXCEPT !.healthy = TRUE, !.cool = 0, !.probes = 0,
                       !.probed = ProbeEvery + MaxLag]

ProbeAnswered(ok) ==
  /\ probe.st = "asked"
  /\ health' = IF CurrentRevision(probe.rev) /\ ~ Saturated(probe.ch)
               THEN [health EXCEPT ![probe.ch] = ProbedHealth(@, ok)]
               ELSE health
  /\ probe' = [probe EXCEPT !.st = "tick", !.ch = "none"]
  /\ UNCHANGED <<present, dbVer, changed, revision, binding, req, admin>>

(* The outcome is not counted: the log of a success cannot be enqueued, or *)
(* the reservation of a failure cannot be cancelled.                       *)
ProbeUncounted ==
  /\ probe.st = "asked"
  /\ probe' = [probe EXCEPT !.st = "tick", !.ch = "none"]
  /\ UNCHANGED <<present, dbVer, changed, revision, health, binding, req, admin>>

-----------------------------------------------------------------------------
(* A handler stores a change of channels S; what it will prune is listed   *)
(* in the order of the code.                                               *)
Store(S, prunes) ==
  /\ admin.st = "idle" /\ dbVer < MaxChange
  /\ dbVer' = dbVer + 1
  /\ admin' = [st |-> "stored", chs |-> S, todo |-> prunes]
  /\ changed' = [w \in Learnt |-> [c \in Channel |->
       IF c \in S /\ w \in {prunes[i] : i \in DOMAIN prunes} THEN dbVer + 1
       ELSE changed[w][c]]]
  /\ UNCHANGED <<revision, health, binding, req, probe>>

(* update_provider, delete_provider *)
StoreProvider(c, gone) ==
  /\ c \in present
  /\ present' = IF gone THEN present \ {c} ELSE present
  /\ Store({c}, <<"health", "affinity">>)

(* update_settings prunes what the changed settings govern; reordering the *)
(* providers prunes nothing.                                               *)
StoreForAll(prunes) ==
  /\ Store(Channel, prunes)
  /\ UNCHANGED present

SettingsPrunes == {<<"affinity", "health">>, <<"affinity">>, <<"health">>, <<>>}

(* advance_routing_config_revision *)
AdvanceRevision ==
  /\ admin.st = "stored"
  /\ revision' = revision + 1
  /\ admin' = IF admin.todo = <<>> THEN IdleAdmin
              ELSE [admin EXCEPT !.st = "pruning"]
  /\ UNCHANGED <<present, dbVer, changed, health, binding, req, probe>>

(* prune_provider_channel_health *)
PrunedHealth ==
  [c \in Channel |-> IF c \in admin.chs THEN NoHealth ELSE health[c]]

(* prune_provider_channel_affinity *)
PrunedBinding == IF binding.ch \in admin.chs THEN NoBinding ELSE binding

(* What was learnt under the old configuration goes, one lock at a time.   *)
Prune ==
  /\ admin.st = "pruning"
  /\ IF Head(admin.todo) = "health"
     THEN health' = PrunedHealth /\ UNCHANGED binding
     ELSE binding' = PrunedBinding /\ UNCHANGED health
  /\ admin' = IF Len(admin.todo) = 1 THEN IdleAdmin
              ELSE [admin EXCEPT !.todo = Tail(@)]
  /\ UNCHANGED <<present, dbVer, changed, revision, req, probe>>

-----------------------------------------------------------------------------
Older(n, cap) == IF n < cap THEN n + 1 ELSE n

Tick ==
  /\ probe.st \in {"asleep", "awake"} \/ probe.lag < MaxLag
  /\ probe' = IF probe.st \in {"asleep", "awake"}
              THEN [probe EXCEPT !.st = "awake"]
              ELSE [probe EXCEPT !.lag = @ + 1]
  /\ health' = [c \in Channel |->
       LET h == health[c]
       IN  [h EXCEPT
              !.cool = IF h.healthy \/ @ = -MaxLag THEN @ ELSE @ - 1,
              !.probed = Older(@, ProbeEvery + MaxLag),
              !.samples = PrunedSamples([i \in DOMAIN @ |->
                                           Older(@[i], Window + 1)])]]
  /\ binding' = IF binding.left <= 1 THEN NoBinding
                ELSE [binding EXCEPT !.left = @ - 1,
                                     !.bound = Older(@, Failback)]
  /\ UNCHANGED <<present, dbVer, changed, revision, req, admin>>

ProbeStep ==
  \/ StartProbeTick \/ LoadCandidates \/ EndProbeTick \/ ProbeNext
  \/ \E ok \in BOOLEAN : ProbeAnswered(ok)

ProbeHindered == CandidatesFail \/ ProbeSkipped \/ ProbeUncounted

AdminStep == AdvanceRevision \/ Prune

RoutingNext ==
  \/ \E r \in Req :
       \/ CaptureRevision(r) \/ BuildAttempts(r) \/ CallSucceeds(r)
       \/ Complete(r)
       \/ \E class \in Class : CallFails(r, class) \/ StreamBreaks(r, class)
  \/ ProbeStep \/ ProbeHindered \/ AdminStep
  \/ \E c \in Channel, gone \in BOOLEAN : StoreProvider(c, gone)
  \/ \E prunes \in SettingsPrunes : StoreForAll(prunes)
  \/ Tick

(* The task of the scheduler goes on, with a probe, without it or past its *)
(* outcome; probes are answered or time out, and time passes.              *)
RoutingFairness ==
  /\ WF_routingVars(ProbeStep \/ ProbeHindered) /\ WF_routingVars(AdminStep)
  /\ WF_routingVars(Tick)

RoutingSpec == RoutingInit /\ [][RoutingNext]_routingVars

FairRoutingSpec == RoutingSpec /\ RoutingFairness

-----------------------------------------------------------------------------
(* What the handler of the last change has still to prune.                 *)
Unpruned(w, c) ==
  c \in admin.chs /\ w \in {admin.todo[i] : i \in DOMAIN admin.todo}

(* ChangeForgets: once a change has been stored and pruned, nothing that   *)
(* was learnt under the older configuration is left or comes back, neither *)
(* in the health of a channel nor as a binding to it, whatever attempts    *)
(* and probes were in flight (HSK-4, HSK-5, AFF-14).                       *)
ChangeForgets ==
  \A c \in Channel :
    /\ c \in Entries /\ ~ Unpruned("health", c)
         => health[c].ver >= changed["health"][c]
    /\ binding.ch = c /\ ~ Unpruned("affinity", c)
         => binding.ver >= changed["affinity"][c]

(* A call or a probe of an upstream is answered with a failure.            *)
UpstreamFails ==
  \/ ProbeAnswered(FALSE)
  \/ \E r \in Req, class \in Class :
       CallFails(r, class) \/ StreamBreaks(r, class)

(* ChannelRecovers: a channel the scheduler probes does not stay out of    *)
(* service once its upstream works and nothing hinders the probes any      *)
(* more, whatever was tripped, skipped, left uncounted or changed before.  *)
(* Of other channels only requests find out.                               *)
ChannelRecovers ==
  <>[][~ UpstreamFails /\ ~ ProbeHindered]_routingVars
    => \A c \in Probed : []<>(health[c].healthy \/ c \notin present)
=============================================================================
