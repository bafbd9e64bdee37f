-------------------------- MODULE EntitlementCache --------------------------
(***************************************************************************)
(* The read-through cache in front of entitlement snapshots, tenant rows   *)
(* and role grants: cache.remember() and the invalidate calls that follow  *)
(* a commit, in the processes that serve the API and run the jobs.         *)
(*                                                                         *)
(* Data is the version of the row behind a key.  Time passes in units of   *)
(* which an entry lives Ttl; an entry whose time is over is no entry.      *)
(***************************************************************************)
EXTENDS Integers

CONSTANTS
  Keys,            \* cache keys
  Processes,       \* node processes
  Shared,          \* the cache all of them use under Redis
  Readers,         \* requests that may be filling the cache at once
  Writers,         \* requests that may be between a commit and its flush
  NoKey, NoProcess,
  Ttl,             \* life of an entry
  Lag,             \* bound: how long a fill may take
  MaxVersion, MaxRestarts     \* bounds

ASSUME CacheAssumption ==
  /\ Shared \notin Processes /\ NoProcess \notin Processes /\ NoKey \notin Keys
  /\ Ttl \in Nat \ {0} /\ Lag \in Nat
  /\ MaxVersion \in Nat /\ MaxRestarts \in Nat

Versions == 0 .. MaxVersion
Caches == Processes \cup {Shared}
StaleBound == Ttl + Lag

VARIABLES
  driver,      \* "memory" or "redis"
  source,      \* [Keys -> Versions]
  since,       \* [Keys -> [Versions -> Nat]]: time since a version was superseded
  entry,       \* [Caches -> [Keys -> Entry]]
  fill,        \* what a reader that missed is about to store
  flush,       \* what a writer has still to delete
  answer,      \* the last version a reader was given
  restarts

cacheVars == <<driver, source, since, entry, fill, flush, answer, restarts>>

(* excused is history: the entry is stale for a reason the code leaves     *)
(* open (see StaleForCause).                                               *)
Entry == [version: Versions, left: 0 .. Ttl, excused: BOOLEAN]
NoEntry == [version |-> 0, left |-> 0, excused |-> FALSE]

Fill ==
  [key: Keys \cup {NoKey}, process: Processes \cup {NoProcess},
   version: Versions, age: 0 .. Lag, excused: BOOLEAN]
NoFill ==
  [key |-> NoKey, process |-> NoProcess, version |-> 0, age |-> 0, excused |-> FALSE]

Flush == [process: Processes \cup {NoProcess}, due: SUBSET Keys]
NoFlush == [process |-> NoProcess, due |-> {}]

CacheTypeOK ==
  /\ driver \in {"memory", "redis"}
  /\ source \in [Keys -> Versions]
  /\ since \in [Keys -> [Versions -> Nat]]
  /\ entry \in [Caches -> [Keys -> Entry]]
  /\ fill \in [Readers -> Fill]
  /\ flush \in [Writers -> Flush]
  /\ answer \in [Keys -> Versions]
  /\ restarts \in Nat

CacheInit ==
  /\ driver \in {"memory", "redis"}
  /\ source = [k \in Keys |-> 0]
  /\ since = [k \in Keys |-> [v \in Versions |-> 0]]
  /\ entry = [c \in Caches |-> [k \in Keys |-> NoEntry]]
  /\ fill = [r \in Readers |-> NoFill]
  /\ flush = [w \in Writers |-> NoFlush]
  /\ answer = source
  /\ restarts = 0

CacheOf(p) == IF driver = "redis" THEN Shared ELSE p

Hit(c, k) == entry[c][k].left > 0

-----------------------------------------------------------------------------
(* Reads. *)

ServeHit(p, k) ==
  /\ Hit(CacheOf(p), k)
  /\ answer' = [answer EXCEPT ![k] = entry[CacheOf(p)][k].version]
  /\ UNCHANGED <<driver, source, since, entry, fill, flush, restarts>>

(* remember() misses, or Redis fails to answer, which counts as a miss:    *)
(* the producer reads the rows.  resolve() reads six tables; the version   *)
(* is the oldest of what it read.                                          *)
Produce(r, p, k) ==
  /\ fill[r] = NoFill
  /\ Hit(CacheOf(p), k) => driver = "redis"
  /\ fill' = [fill EXCEPT ![r] = [key |-> k, process |-> p, version |-> source[k],
                                  age |-> 0, excused |-> FALSE]]
  /\ UNCHANGED <<driver, source, since, entry, flush, answer, restarts>>

(* What was read is stored, whatever happened meanwhile, and returned; a   *)
(* driver that fails to store is logged and no more.                       *)
StoreProduced(r, stored) ==
  LET f == fill[r]
  IN  /\ f # NoFill
      /\ stored \/ driver = "redis"
      /\ entry' = IF stored
                  THEN [entry EXCEPT ![CacheOf(f.process)][f.key] =
                          [version |-> f.version, left |-> Ttl, excused |-> f.excused]]
                  ELSE entry
      /\ answer' = [answer EXCEPT ![f.key] = f.version]
      /\ fill' = [fill EXCEPT ![r] = NoFill]
      /\ UNCHANGED <<driver, source, since, flush, restarts>>

-----------------------------------------------------------------------------
(* Writes and their invalidation. *)

(* Entries and fills of keys ks in the caches of cs that hold a version    *)
(* which is not the current one get an excuse.                             *)
ExcusedEntries(cs, ks, current) ==
  [c \in Caches |-> [k \in Keys |->
    IF c \in cs /\ k \in ks /\ Hit(c, k) /\ entry[c][k].version < current[k]
    THEN [entry[c][k] EXCEPT !.excused = TRUE] ELSE entry[c][k]]]

ExcusedFills(cs, ks, current) ==
  [r \in Readers |->
    IF fill[r] # NoFill /\ fill[r].key \in ks /\ CacheOf(fill[r].process) \in cs
         /\ fill[r].version < current[fill[r].key]
    THEN [fill[r] EXCEPT !.excused = TRUE] ELSE fill[r]]

Dropped(c, ks) ==
  [entry EXCEPT ![c] = [k \in Keys |-> IF k \in ks THEN NoEntry ELSE entry[c][k]]]

(* Mutant: the caches are flushed before the transaction commits. *)
CommitFlushed(w, p, ks) ==
  /\ flush[w] = NoFlush
  /\ \A k \in ks : source[k] < MaxVersion
  /\ source' = [k \in Keys |-> IF k \in ks THEN source[k] + 1 ELSE source[k]]
  /\ entry' = Dropped(CacheOf(p), ks)
  /\ fill' = ExcusedFills(Caches \ {CacheOf(p)}, ks, source')
  /\ UNCHANGED <<driver, since, flush, answer, restarts>>

(* A transaction commits; what it wrote is behind the keys ks.  Caches     *)
(* other than the writer's are never told.                                 *)
Commit(w, p, ks) ==
  /\ flush[w] = NoFlush
  /\ \A k \in ks : source[k] < MaxVersion
  /\ source' = [k \in Keys |-> IF k \in ks THEN source[k] + 1 ELSE source[k]]
  /\ flush' = [flush EXCEPT ![w] = [process |-> p, due |-> ks]]
  /\ entry' = ExcusedEntries(Caches \ {CacheOf(p)}, ks, source')
  /\ fill' = ExcusedFills(Caches \ {CacheOf(p)}, ks, source')
  /\ UNCHANGED <<driver, since, answer, restarts>>

(* afterWrite(): the keys are deleted one after the other.  A fill that is *)
(* under way is not stopped; Redis may fail to delete, which is logged.    *)
Invalidate(w, k, deleted) ==
  LET c == CacheOf(flush[w].process)
      left == flush[w].due \ {k}
  IN  /\ k \in flush[w].due
      /\ deleted \/ driver = "redis"
      /\ entry' = IF deleted THEN Dropped(c, {k}) ELSE ExcusedEntries({c}, {k}, source)
      /\ fill' = ExcusedFills({c}, {k}, source)
      /\ flush' = [flush EXCEPT ![w] = IF left = {} THEN NoFlush ELSE [@ EXCEPT !.due = left]]
      /\ UNCHANGED <<driver, source, since, answer, restarts>>

(* A process dies, with its memory and the invalidations it still owed. *)
Restart(p) ==
  LET owed == UNION {flush[w].due : w \in {x \in Writers : flush[x].process = p}}
      alive == [r \in Readers |-> IF fill[r].process = p THEN NoFill ELSE fill[r]]
  IN  /\ restarts < MaxRestarts
      /\ restarts' = restarts + 1
      /\ entry' = IF driver = "redis" THEN ExcusedEntries({Shared}, owed, source)
                  ELSE [entry EXCEPT ![p] = [k \in Keys |-> NoEntry]]
      /\ fill' = [r \in Readers |-> IF alive[r] = NoFill THEN NoFill
                                    ELSE ExcusedFills({Shared}, owed, source)[r]]
      /\ flush' = [w \in Writers |-> IF flush[w].process = p THEN NoFlush ELSE flush[w]]
      /\ UNCHANGED <<driver, source, since, answer>>

-----------------------------------------------------------------------------
(* Mutant: what was stored never expires. *)
AgedForever(e) == e

Aged(e) == IF e.left <= 1 THEN NoEntry ELSE [e EXCEPT !.left = @ - 1]

(* No fill takes longer than Lag. *)
Elapse ==
  /\ \A r \in Readers : fill[r] # NoFill => fill[r].age < Lag
  /\ entry' = [c \in Caches |-> [k \in Keys |-> Aged(entry[c][k])]]
  /\ fill' = [r \in Readers |-> IF fill[r] = NoFill THEN NoFill
                                ELSE [fill[r] EXCEPT !.age = @ + 1]]
  /\ since' = [k \in Keys |-> [v \in Versions |->
                IF v < source[k] /\ since[k][v] <= StaleBound THEN since[k][v] + 1
                ELSE since[k][v]]]
  /\ UNCHANGED <<driver, source, flush, answer, restarts>>

ReadStep(r) ==
  \/ \E p \in Processes, k \in Keys : Produce(r, p, k)
  \/ \E stored \in BOOLEAN : StoreProduced(r, stored)

WriteStep(w) ==
  \/ \E p \in Processes, ks \in (SUBSET Keys) \ {{}} : Commit(w, p, ks)
  \/ \E k \in Keys, deleted \in BOOLEAN : Invalidate(w, k, deleted)

CacheNext ==
  \/ \E p \in Processes, k \in Keys : ServeHit(p, k)
  \/ \E r \in Readers : ReadStep(r)
  \/ \E w \in Writers : WriteStep(w)
  \/ \E p \in Processes : Restart(p)
  \/ Elapse

CacheSpec == CacheInit /\ [][CacheNext]_cacheVars

(* Timers run and the database answers. *)
CacheFairness ==
  /\ WF_cacheVars(Elapse)
  /\ \A r \in Readers : WF_cacheVars(\E stored \in BOOLEAN : StoreProduced(r, stored))

-----------------------------------------------------------------------------
(* Properties. *)

(* No answer is older than an entry's life and the time a fill takes,      *)
(* whatever is written, flushed, lost or restarted: the caches implement   *)
(* a register with bounded staleness.                                      *)
Promise == INSTANCE StaleRegister WITH Bound <- StaleBound
AnswersWithinBound == Promise!Spec

(* In the process that wrote, a stale entry is one whose deletion is still *)
(* owed.  The only others were filled across a write, belong to a process  *)
(* the writer cannot reach, or were left by a deletion that failed or died *)
(* with its process.                                                       *)
Owed(c, k) == \E w \in Writers : k \in flush[w].due /\ CacheOf(flush[w].process) = c

StaleForCause ==
  \A c \in Caches, k \in Keys :
    Hit(c, k) /\ entry[c][k].version < source[k] /\ ~entry[c][k].excused => Owed(c, k)

(* When nothing is written any more, every cache comes to agree with the   *)
(* database, the ones that were never told included.                       *)
CachesConverge ==
  <>[](\A c \in Caches, k \in Keys : Hit(c, k) => entry[c][k].version = source[k])
=============================================================================
