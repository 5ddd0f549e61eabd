-------------------------- MODULE GenerationCache --------------------------
(***************************************************************************)
(* The read-through caches of the gateway (db_cache.rs: ApiKeyCache and    *)
(* BalanceCache, one discipline).  A miss captures the invalidation        *)
(* generation, reads the database without a lock and publishes what it     *)
(* read only while the generation stays; a mutation commits, advances the  *)
(* generation and then removes the entries its index names.  Lookups take  *)
(* no lock: they compare the generation of the entry before and after.     *)
(*                                                                         *)
(* A row is a version number: what a hit must not do is go back behind a   *)
(* mutation that was invalidated.  Lookups hold a shard of the map for     *)
(* reading, which delays removals; the model lets removals proceed.        *)
(***************************************************************************)
EXTENDS Naturals, FiniteSets

CONSTANTS Key,       \* complete API keys (or users, for balances)
          CacheUser, \* users
          UserOfKey, \* user of a key
          Reader, Writer,
          Capacity, \* entries of the cache
          MaxWrite  \* bound: committed mutations

ASSUME CacheConstants ==
  /\ UserOfKey \in [Key -> CacheUser]
  /\ Capacity \in Nat \ {0} /\ MaxWrite \in Nat

VARIABLES version, \* database: version of the row behind a key
          done,    \* history: newest version whose invalidation began
          gen,     \* generation
          cache,   \* cached entries
          index,   \* user_id_index (key_id_index is the same, per key)
          lock,    \* holder of mutation_lock: {} or {p}
          reader, writer, writes

cacheVars == <<version, done, gen, cache, index, lock, reader, writer, writes>>

NoEntry == [ver |-> 0, gen |-> 0, st |-> "absent"]

Entry  == [ver : Nat, gen : Nat, st : {"absent", "fresh", "expired"}]
Cached == {k \in Key : cache[k].st # "absent"}

ReaderState == {"idle", "hit", "hitChecked", "miss", "read", "locked",
                "checked", "stored", "answered"}

(* CacheTypeOK: types; the lock is held exactly by the reader that         *)
(* publishes, and no entry or reader is ahead of the generation.           *)
CacheTypeOK ==
  /\ version \in [Key -> Nat] /\ done \in [Key -> Nat]
  /\ gen \in Nat /\ writes \in 0..MaxWrite
  /\ cache \in [Key -> Entry]
  /\ index \in [CacheUser -> SUBSET Key]
  /\ lock \in SUBSET Reader
  /\ reader \in [Reader -> [st : ReaderState, key : Key, gen : Nat, ver : Nat,
                            floor : Nat]]
  /\ writer \in [Writer -> [st : {"idle", "committed", "bumped"},
                            keys : SUBSET Key, ver : [Key -> Nat]]]
  /\ \A p \in Reader :
       lock = {p} <=> reader[p].st \in {"locked", "checked", "stored"}
  /\ \A k \in Key : cache[k].gen <= gen

CacheInit ==
  /\ version = [k \in Key |-> 1] /\ done = [k \in Key |-> 1]
  /\ gen = 0 /\ writes = 0 /\ lock = {}
  /\ cache = [k \in Key |-> NoEntry]
  /\ index = [o \in CacheUser |-> {}]
  /\ reader \in [Reader -> {[st |-> "idle", key |-> k, gen |-> 0, ver |-> 0,
                             floor |-> 0] : k \in Key}]
  /\ writer = [w \in Writer |-> [st |-> "idle", keys |-> {}, ver |-> version]]

-----------------------------------------------------------------------------
(* remove_key_locked: the entry and its membership of the index.           *)
RemoveKeys(S) ==
  /\ cache' = [k \in Key |-> IF k \in S THEN NoEntry ELSE cache[k]]
  /\ index' = [o \in CacheUser |-> index[o] \ S]

(* get: the entry, if there is one.                                        *)
Lookup(p, k) ==
  /\ reader[p].st \in {"idle", "answered"}
  /\ reader' = [reader EXCEPT ![p] =
       [st    |-> IF k \in Cached THEN "hit" ELSE "miss",
        key   |-> k, gen |-> cache[k].gen, ver |-> cache[k].ver,
        floor |-> done[k]]]
  /\ UNCHANGED <<version, done, gen, cache, index, lock, writer, writes>>

(* Fault: the generation of the entry is not compared.                     *)
HitAnyGeneration(p) == TRUE

(* An entry of another generation is a miss, and so is an expired one,     *)
(* which is removed if it still is expired under the lock.                 *)
HitIsCurrent(p) == reader[p].gen = gen

CheckHit(p) ==
  /\ reader[p].st = "hit"
  /\ LET k == reader[p].key
     IN  \/ /\ HitIsCurrent(p) /\ cache[k].st # "expired"
            /\ reader' = [reader EXCEPT ![p].st = "hitChecked"]
            /\ UNCHANGED <<cache, index>>
         \/ /\ ~ HitIsCurrent(p)
            /\ reader' = [reader EXCEPT ![p].st = "miss"]
            /\ UNCHANGED <<cache, index>>
         \/ /\ HitIsCurrent(p) /\ cache[k].st = "expired" /\ lock = {}
            /\ reader' = [reader EXCEPT ![p].st = "miss"]
            /\ RemoveKeys({k})
  /\ UNCHANGED <<version, done, gen, lock, writer, writes>>

(* The generation is read again after the value was copied.                *)
ReturnHit(p) ==
  /\ reader[p].st = "hitChecked"
  /\ reader' = [reader EXCEPT
       ![p].st = IF HitIsCurrent(p) THEN "answered" ELSE "miss"]
  /\ UNCHANGED <<version, done, gen, cache, index, lock, writer, writes>>

(* A miss: current_generation, ...                                         *)
CaptureGeneration(p) ==
  /\ reader[p].st = "miss"
  /\ reader' = [reader EXCEPT ![p].st = "read", ![p].gen = gen, ![p].ver = 0]
  /\ UNCHANGED <<version, done, gen, cache, index, lock, writer, writes>>

(* ... the database read, ...                                              *)
ReadRow(p) ==
  /\ reader[p].st = "read" /\ reader[p].ver = 0
  /\ reader' = [reader EXCEPT ![p].ver = version[reader[p].key]]
  /\ UNCHANGED <<version, done, gen, cache, index, lock, writer, writes>>

(* A missing or disabled row is answered without being cached.             *)
AnswerUncached(p) ==
  /\ reader[p].st = "read" /\ reader[p].ver # 0
  /\ reader' = [reader EXCEPT ![p].st = "answered"]
  /\ UNCHANGED <<version, done, gen, cache, index, lock, writer, writes>>

GenerationStands(p) == reader[p].gen = gen

(* ... and insert_if_current, whose failure repeats the loop.              *)
InsertLock(p) ==
  /\ reader[p].st = "read" /\ reader[p].ver # 0
  /\ \/ /\ ~ GenerationStands(p)
        /\ reader' = [reader EXCEPT ![p].st = "miss"]
        /\ UNCHANGED lock
     \/ /\ GenerationStands(p) /\ lock = {}
        /\ reader' = [reader EXCEPT ![p].st = "locked"]
        /\ lock' = {p}
  /\ UNCHANGED <<version, done, gen, cache, index, writer, writes>>

InsertCheck(p) ==
  /\ reader[p].st = "locked"
  /\ \/ /\ ~ GenerationStands(p)
        /\ reader' = [reader EXCEPT ![p].st = "miss"]
        /\ lock' = {}
     \/ /\ GenerationStands(p)
        /\ reader' = [reader EXCEPT ![p].st = "checked"]
        /\ UNCHANGED lock
  /\ UNCHANGED <<version, done, gen, cache, index, writer, writes>>

(* A new key at capacity evicts an entry, whichever the map yields first.  *)
Evictions(k) ==
  IF k \notin Cached /\ Cardinality(Cached) >= Capacity
  THEN {{e} : e \in Cached} ELSE {{}}

IndexWith(k, gone) ==
  [o \in CacheUser |-> (index[o] \ gone) \cup (IF o = UserOfKey[k] THEN {k} ELSE {})]

(* Fault: the entry is stamped when it is inserted.                        *)
GenerationAtInsert(p) == gen

(* The stamp is the generation observed before the database read.          *)
EntryGeneration(p) == reader[p].gen

InsertStore(p) ==
  /\ reader[p].st = "checked"
  /\ LET k == reader[p].key
     IN  \E gone \in Evictions(k) :
           /\ cache' = [c \in Key |->
                IF c = k THEN [ver |-> reader[p].ver, gen |-> EntryGeneration(p),
                               st  |-> "fresh"]
                ELSE IF c \in gone THEN NoEntry ELSE cache[c]]
           /\ index' = IndexWith(k, gone)
  /\ reader' = [reader EXCEPT ![p].st = "stored"]
  /\ UNCHANGED <<version, done, gen, lock, writer, writes>>

(* A generation that moved during the insertion takes the entry back.      *)
InsertRecheck(p) ==
  /\ reader[p].st = "stored"
  /\ lock' = {}
  /\ LET k == reader[p].key
     IN  IF GenerationStands(p)
         THEN /\ reader' = [reader EXCEPT ![p].st = "answered"]
              /\ UNCHANGED <<cache, index>>
         ELSE /\ reader' = [reader EXCEPT ![p].st = "miss"]
              /\ IF cache[k].st # "absent" /\ cache[k].gen = reader[p].gen
                 THEN RemoveKeys({k}) ELSE UNCHANGED <<cache, index>>
  /\ UNCHANGED <<version, done, gen, writer, writes>>

-----------------------------------------------------------------------------
(* A mutation commits: of the row of one key, or of a user, whose fields   *)
(* every entry of the user repeats.                                        *)
Scope == {{k} : k \in Key} \cup {{k \in Key : UserOfKey[k] = o} : o \in CacheUser}

Commit(w, S) ==
  /\ writer[w].st = "idle" /\ writes < MaxWrite
  /\ version' = [k \in Key |-> IF k \in S THEN version[k] + 1 ELSE version[k]]
  /\ writer' = [writer EXCEPT ![w] =
                  [st |-> "committed", keys |-> S, ver |-> version']]
  /\ writes' = writes + 1
  /\ UNCHANGED <<done, gen, cache, index, lock, reader>>

(* A change made by another process, or by a path that does not invalidate *)
(* (payment credits and metered deltas write the balance directly).        *)
ForeignCommit(k) ==
  /\ writes < MaxWrite
  /\ version' = [version EXCEPT ![k] = @ + 1]
  /\ writes' = writes + 1
  /\ UNCHANGED <<done, gen, cache, index, lock, reader, writer>>

(* begin_invalidation *)
NextGeneration == gen + 1

BeginInvalidation(w) ==
  /\ writer[w].st = "committed"
  /\ gen' = NextGeneration
  /\ done' = [k \in Key |-> IF k \in writer[w].keys /\ writer[w].ver[k] > done[k]
                            THEN writer[w].ver[k] ELSE done[k]]
  /\ writer' = [writer EXCEPT ![w].st = "bumped"]
  /\ UNCHANGED <<version, cache, index, lock, reader, writes>>

(* invalidate_by_key_id, invalidate_by_user_id, invalidate_all: the index  *)
(* names the entries to remove.                                            *)
RemoveInvalidated(w) ==
  /\ writer[w].st = "bumped" /\ lock = {}
  /\ RemoveKeys({k \in writer[w].keys : k \in index[UserOfKey[k]]})
  /\ writer' = [writer EXCEPT ![w].st = "idle"]
  /\ UNCHANGED <<version, done, gen, lock, reader, writes>>

(* The time to live passes; the eviction task removes expired entries.     *)
Expire(k) ==
  /\ cache[k].st = "fresh"
  /\ cache' = [cache EXCEPT ![k].st = "expired"]
  /\ UNCHANGED <<version, done, gen, index, lock, reader, writer, writes>>

EvictExpired ==
  /\ lock = {}
  /\ \E k \in Key : cache[k].st = "expired"
  /\ RemoveKeys({k \in Key : cache[k].st = "expired"})
  /\ UNCHANGED <<version, done, gen, lock, reader, writer, writes>>

ReaderStep(p) ==
  CheckHit(p) \/ ReturnHit(p) \/ CaptureGeneration(p) \/ ReadRow(p)
    \/ AnswerUncached(p) \/ InsertLock(p) \/ InsertCheck(p) \/ InsertStore(p) \/ InsertRecheck(p)

CacheNext ==
  \/ \E p \in Reader : ReaderStep(p) \/ \E k \in Key : Lookup(p, k)
  \/ \E w \in Writer :
       BeginInvalidation(w) \/ RemoveInvalidated(w)
         \/ \E S \in Scope : Commit(w, S)
  \/ \E k \in Key : ForeignCommit(k) \/ Expire(k)
  \/ EvictExpired

CacheSpec == CacheInit /\ [][CacheNext]_cacheVars

-----------------------------------------------------------------------------
(* ReadableIsCurrent: an entry a lookup would accept is not older than any *)
(* mutation whose invalidation has begun, whatever read was in flight when *)
(* it began (DPT-AK9a, DPT-BC7a).                                          *)
ReadableIsCurrent ==
  \A k \in Cached : cache[k].gen = gen => cache[k].ver >= done[k]

(* AnswerNotOlder: a lookup never answers with a row older than a mutation *)
(* that was invalidated before the lookup started (DPT-BC10).              *)
AnswerNotOlder ==
  \A p \in Reader :
    reader[p].st = "answered" => reader[p].ver >= reader[p].floor
=============================================================================
