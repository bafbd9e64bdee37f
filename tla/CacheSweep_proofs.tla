------------------------- MODULE CacheSweep_proofs --------------------------
(***************************************************************************)
(* Two parts that two hosts share.  The caches implement a register with   *)
(* bounded staleness, and a stale entry has one of the causes the code     *)
(* leaves open: for any number of processes, keys, readers and writers,    *)
(* either driver, any life of an entry and any time a fill may take. The   *)
(* notification sweep, for any number of rows, people, sweeps, deaths and  *)
(* failures, tells nobody the same thing for ever, and while nothing went  *)
(* wrong every telling has its e-mail.                                     *)
(***************************************************************************)
EXTENDS EntitlementCache, NotificationSweep, FiniteSetTheorems, SequenceTheorems, TLAPS

(* An entry that is still there was superseded no longer ago than it has   *)
(* been stored, plus the time its fill took.                               *)
EntryFresh(e, k) ==
  e.left > 0 => /\ e.version <= source[k]
                /\ since[k][e.version] <= Ttl + Lag - e.left

(* What a reader holds was superseded no longer ago than it has held it.   *)
FillFresh(f) ==
  f # NoFill => /\ f.key \in Keys /\ f.process \in Processes
                /\ f.version <= source[f.key]
                /\ since[f.key][f.version] <= f.age

(* A version that is current, or still to come, was superseded at no time. *)
NotYetPast == \A k \in Keys, v \in Versions : v >= source[k] => since[k][v] = 0

Fresh ==
  /\ CacheTypeOK /\ NotYetPast
  /\ \A c \in Caches, k \in Keys : EntryFresh(entry[c][k], k)
  /\ \A r \in Readers : FillFresh(fill[r])

LEMMA Blanks ==
  /\ NoEntry \in Entry /\ NoEntry.left = 0
  /\ NoFill \in Fill /\ NoFlush \in Flush
  BY CacheAssumption DEF NoEntry, Entry, NoFill, Fill, NoFlush, Flush, Versions

LEMMA CacheOfCaches == \A p \in Processes : CacheOf(p) \in Caches
  BY DEF CacheOf, Caches

(* An excuse changes nothing but the excuse. *)
LEMMA ExcusedEntriesSay ==
  ASSUME CacheTypeOK, NEW cs, NEW ks, NEW current
  PROVE  /\ ExcusedEntries(cs, ks, current) \in [Caches -> [Keys -> Entry]]
         /\ \A c \in Caches, k \in Keys :
              /\ ExcusedEntries(cs, ks, current)[c][k].version = entry[c][k].version
              /\ ExcusedEntries(cs, ks, current)[c][k].left = entry[c][k].left
              /\ ExcusedEntries(cs, ks, current)[c][k].excused =
                   (entry[c][k].excused
                    \/ (c \in cs /\ k \in ks /\ Hit(c, k) /\ entry[c][k].version < current[k]))
<1> DEFINE new(c, k) ==
      IF c \in cs /\ k \in ks /\ Hit(c, k) /\ entry[c][k].version < current[k]
      THEN [entry[c][k] EXCEPT !.excused = TRUE] ELSE entry[c][k]
<1>1. ASSUME NEW c \in Caches, NEW k \in Keys
      PROVE  /\ new(c, k) \in Entry
             /\ new(c, k).version = entry[c][k].version /\ new(c, k).left = entry[c][k].left
             /\ new(c, k).excused =
                  (entry[c][k].excused
                   \/ (c \in cs /\ k \in ks /\ Hit(c, k) /\ entry[c][k].version < current[k]))
  <2>1. entry[c][k] \in Entry /\ entry[c][k].excused \in BOOLEAN
    BY DEF CacheTypeOK, Entry
  <2>2. CASE c \in cs /\ k \in ks /\ Hit(c, k) /\ entry[c][k].version < current[k]
    <3>1. new(c, k) = [entry[c][k] EXCEPT !.excused = TRUE]
      BY <2>2
    <3>2. /\ [entry[c][k] EXCEPT !.excused = TRUE] \in Entry
          /\ [entry[c][k] EXCEPT !.excused = TRUE].version = entry[c][k].version
          /\ [entry[c][k] EXCEPT !.excused = TRUE].left = entry[c][k].left
          /\ [entry[c][k] EXCEPT !.excused = TRUE].excused = TRUE
      BY <2>1 DEF Entry
    <3> QED BY <2>2, <3>1, <3>2
  <2>3. CASE ~(c \in cs /\ k \in ks /\ Hit(c, k) /\ entry[c][k].version < current[k])
    BY <2>1, <2>3
  <2> QED BY <2>2, <2>3
<1>2. ExcusedEntries(cs, ks, current) = [c \in Caches |-> [k \in Keys |-> new(c, k)]]
  BY DEF ExcusedEntries
<1> HIDE DEF new
<1> QED BY <1>1, <1>2

LEMMA ExcusedFillsSay ==
  ASSUME CacheTypeOK, NEW cs, NEW ks, NEW current
  PROVE  /\ ExcusedFills(cs, ks, current) \in [Readers -> Fill]
         /\ \A r \in Readers :
              LET f == ExcusedFills(cs, ks, current)[r]
              IN  /\ f.key = fill[r].key /\ f.process = fill[r].process
                  /\ f.version = fill[r].version /\ f.age = fill[r].age
                  /\ fill[r] = NoFill => f = NoFill
                  /\ fill[r] # NoFill =>
                       f.excused =
                         (fill[r].excused
                          \/ (/\ fill[r].key \in ks /\ CacheOf(fill[r].process) \in cs
                              /\ fill[r].version < current[fill[r].key]))
<1> DEFINE stale(r) == /\ fill[r] # NoFill /\ fill[r].key \in ks /\ CacheOf(fill[r].process) \in cs
                       /\ fill[r].version < current[fill[r].key]
           new(r) == IF stale(r) THEN [fill[r] EXCEPT !.excused = TRUE] ELSE fill[r]
<1>1. ASSUME NEW r \in Readers
      PROVE  /\ new(r) \in Fill
             /\ new(r).key = fill[r].key /\ new(r).process = fill[r].process
             /\ new(r).version = fill[r].version /\ new(r).age = fill[r].age
             /\ fill[r] = NoFill => new(r) = NoFill
             /\ new(r).excused = (fill[r].excused \/ stale(r))
  <2>1. fill[r] \in Fill /\ fill[r].excused \in BOOLEAN
    BY DEF CacheTypeOK, Fill
  <2>2. CASE stale(r)
    <3>1. /\ [fill[r] EXCEPT !.excused = TRUE] \in Fill
          /\ [fill[r] EXCEPT !.excused = TRUE].key = fill[r].key
          /\ [fill[r] EXCEPT !.excused = TRUE].process = fill[r].process
          /\ [fill[r] EXCEPT !.excused = TRUE].version = fill[r].version
          /\ [fill[r] EXCEPT !.excused = TRUE].age = fill[r].age
          /\ [fill[r] EXCEPT !.excused = TRUE].excused = TRUE
      BY <2>1 DEF Fill
    <3>2. new(r) = [fill[r] EXCEPT !.excused = TRUE] /\ fill[r] # NoFill
      BY <2>2
    <3> QED BY <2>2, <3>1, <3>2
  <2>3. CASE ~stale(r)
    BY <2>1, <2>3
  <2> QED BY <2>2, <2>3
<1>2. ExcusedFills(cs, ks, current) = [r \in Readers |-> new(r)]
  BY DEF ExcusedFills
<1> HIDE DEF new
<1> QED BY <1>1, <1>2

(* Entries that are excused, dropped or left, and fills that are excused   *)
(* or lost, are as fresh as they were.                                     *)
LEMMA FreshKept ==
  ASSUME Fresh, CacheTypeOK', UNCHANGED since,
         \A k \in Keys : source'[k] \in {source[k], source[k] + 1},
         \A c \in Caches, k \in Keys :
           \/ entry'[c][k].left = 0
           \/ entry'[c][k].version = entry[c][k].version /\ entry'[c][k].left = entry[c][k].left,
         \A r \in Readers :
           \/ fill'[r] = NoFill
           \/ /\ fill[r] # NoFill /\ fill'[r].key = fill[r].key
              /\ fill'[r].process = fill[r].process
              /\ fill'[r].version = fill[r].version /\ fill'[r].age = fill[r].age
  PROVE  Fresh'
<1>2. Versions \subseteq Int
  BY DEF Versions
<1>1. \A k \in Keys : source[k] \in Int /\ source'[k] \in Int /\ source[k] <= source'[k]
  <2>1. \A k \in Keys : source[k] \in Int
    BY <1>2 DEF Fresh, CacheTypeOK
  <2> QED BY <2>1
<1>3. NotYetPast'
  BY <1>1, <1>2 DEF Fresh, NotYetPast
<1>4. ASSUME NEW c \in Caches, NEW k \in Keys PROVE EntryFresh(entry[c][k], k)'
  <2>1. EntryFresh(entry[c][k], k) /\ entry[c][k].version \in Int
    BY <1>2 DEF Fresh, CacheTypeOK, Entry
  <2> QED BY <1>1, <2>1 DEF EntryFresh
<1>5. ASSUME NEW r \in Readers PROVE FillFresh(fill[r])'
  <2>1. FillFresh(fill[r]) /\ fill[r].version \in Int
    BY <1>2 DEF Fresh, CacheTypeOK, Fill
  <2> QED BY <1>1, <2>1 DEF FillFresh
<1> QED BY <1>3, <1>4, <1>5 DEF Fresh

-----------------------------------------------------------------------------
(* Every step keeps what is stored fresh, and is a step of the register.   *)

RegisterStep == [Promise!Next]_(Promise!register)

LEMMA FreshInit == CacheInit => Fresh
<1> SUFFICES ASSUME CacheInit PROVE Fresh
  OBVIOUS
<1>1. 0 \in Versions
  BY CacheAssumption DEF Versions
<1>2. CacheTypeOK
  BY <1>1, Blanks DEF CacheInit, CacheTypeOK
<1>3. NotYetPast
  BY DEF CacheInit, NotYetPast
<1>4. \A c \in Caches, k \in Keys : entry[c][k].left = 0
  BY Blanks DEF CacheInit
<1>5. \A r \in Readers : fill[r] = NoFill
  BY DEF CacheInit
<1> QED BY <1>2, <1>3, <1>4, <1>5 DEF Fresh, EntryFresh, FillFresh

(* An answer from the cache, and one from the rows, is within the bound.   *)
LEMMA ServeHitSteps ==
  ASSUME Fresh, NEW p \in Processes, NEW k \in Keys, ServeHit(p, k)
  PROVE  Fresh' /\ RegisterStep
<1> DEFINE e == entry[CacheOf(p)][k]
<1>1. /\ e \in Entry /\ e.version \in Versions /\ e.left \in 0 .. Ttl /\ e.left > 0
      /\ answer' = [answer EXCEPT ![k] = e.version]
      /\ UNCHANGED <<driver, source, since, entry, fill, flush, restarts>>
  BY CacheOfCaches DEF Fresh, CacheTypeOK, ServeHit, Hit, Entry
<1>2. answer' \in [Keys -> Versions]
  BY <1>1 DEF Fresh, CacheTypeOK
<1>3. since[k][e.version] <= StaleBound
  <2>1. since[k][e.version] <= Ttl + Lag - e.left
    BY <1>1, CacheOfCaches DEF Fresh, EntryFresh
  <2>2. since[k][e.version] \in Nat
    BY <1>1 DEF Fresh, CacheTypeOK
  <2> QED BY <1>1, <2>1, <2>2, CacheAssumption DEF StaleBound
<1> HIDE DEF e
<1>4. RegisterStep
  <2>1. \A j \in Keys : answer'[j] # answer[j] => since[j][answer'[j]] <= StaleBound
    BY <1>1, <1>3 DEF Fresh, CacheTypeOK
  <2>2. Promise!Answer
    BY <1>1, <1>2, <2>1 DEF Promise!Answer
  <2> QED BY <2>2 DEF RegisterStep, Promise!Next
<1>5. Fresh'
  BY <1>1, <1>2 DEF Fresh, CacheTypeOK, NotYetPast, EntryFresh, FillFresh
<1> QED BY <1>4, <1>5

LEMMA ProduceSteps ==
  ASSUME Fresh, NEW r \in Readers, NEW p \in Processes, NEW k \in Keys, Produce(r, p, k)
  PROVE  Fresh' /\ RegisterStep
<1> DEFINE f == [key |-> k, process |-> p, version |-> source[k], age |-> 0, excused |-> FALSE]
<1>1. /\ fill' = [fill EXCEPT ![r] = f]
      /\ UNCHANGED <<driver, source, since, entry, flush, answer, restarts>>
  BY DEF Produce
<1>2. f \in Fill /\ source[k] \in Versions
  BY CacheAssumption DEF Fresh, CacheTypeOK, Fill
<1>3. /\ f.key = k /\ f.process = p /\ f.version = source[k] /\ f.age = 0
      /\ since[k][source[k]] = 0
  BY <1>2, CacheAssumption DEF Fresh, NotYetPast, Versions
<1> HIDE DEF f
<1>4. CacheTypeOK' /\ \A o \in Readers : fill'[o] = IF o = r THEN f ELSE fill[o]
  BY <1>1, <1>2 DEF Fresh, CacheTypeOK
<1>5. \A o \in Readers : FillFresh(fill[o])'
  <2>1. source[k] <= source[k]
    BY <1>2 DEF Versions
  <2> QED BY <1>1, <1>3, <1>4, <2>1 DEF Fresh, FillFresh
<1>6. NotYetPast' /\ \A c \in Caches, j \in Keys : EntryFresh(entry[c][j], j)'
  BY <1>1 DEF Fresh, NotYetPast, EntryFresh
<1> QED BY <1>1, <1>4, <1>5, <1>6 DEF Fresh, RegisterStep, Promise!register

LEMMA StoreSteps ==
  ASSUME Fresh, NEW r \in Readers, NEW stored \in BOOLEAN, StoreProduced(r, stored)
  PROVE  Fresh' /\ RegisterStep
<1> DEFINE f == fill[r]
           c == CacheOf(f.process)
           e == [version |-> f.version, left |-> Ttl, excused |-> f.excused]
<1>1. /\ f # NoFill /\ answer' = [answer EXCEPT ![f.key] = f.version]
      /\ entry' = IF stored THEN [entry EXCEPT ![c][f.key] = e] ELSE entry
      /\ fill' = [fill EXCEPT ![r] = NoFill]
      /\ UNCHANGED <<driver, source, since, flush, restarts>>
  BY DEF StoreProduced
<1>2. /\ f \in Fill /\ f.key \in Keys /\ f.process \in Processes /\ f.version \in Versions
      /\ f.version <= source[f.key] /\ since[f.key][f.version] <= f.age
      /\ f.age \in 0 .. Lag /\ f.excused \in BOOLEAN
  BY <1>1 DEF Fresh, FillFresh, CacheTypeOK, Fill
<1>3. /\ e \in Entry /\ e.version = f.version /\ e.left = Ttl
      /\ since[f.key][f.version] \in Nat /\ since[f.key][f.version] <= Lag
  BY <1>2, CacheAssumption DEF Entry, Fresh, CacheTypeOK
<1>4. c \in Caches
  BY <1>2, CacheOfCaches
<1> HIDE DEF f, c, e
<1>5. answer' \in [Keys -> Versions] /\ entry' \in [Caches -> [Keys -> Entry]]
      /\ fill' \in [Readers -> Fill]
  BY <1>1, <1>2, <1>3, <1>4, Blanks DEF Fresh, CacheTypeOK
<1>6. CacheTypeOK' /\ NotYetPast'
  BY <1>1, <1>5 DEF Fresh, CacheTypeOK, NotYetPast
<1>7. ASSUME NEW d \in Caches, NEW k \in Keys PROVE EntryFresh(entry[d][k], k)'
  <2>1. CASE stored /\ d = c /\ k = f.key
    <3>1. entry'[d][k] = e
      BY <1>1, <1>2, <1>4, <2>1 DEF Fresh, CacheTypeOK
    <3>2. e.version <= source[k] /\ since[k][e.version] <= Ttl + Lag - e.left
      BY <1>2, <1>3, <2>1, CacheAssumption
    <3> QED BY <1>1, <3>1, <3>2 DEF EntryFresh
  <2>2. CASE ~(stored /\ d = c /\ k = f.key)
    <3>1. entry'[d][k] = entry[d][k]
      BY <1>1, <1>2, <1>4, <2>2 DEF Fresh, CacheTypeOK
    <3> QED BY <1>1, <3>1 DEF Fresh, EntryFresh
  <2> QED BY <2>1, <2>2
<1>8. \A o \in Readers : FillFresh(fill[o])'
  BY <1>1 DEF Fresh, CacheTypeOK, FillFresh
<1>9. RegisterStep
  <2>1. \A j \in Keys : answer'[j] # answer[j] => since[j][answer'[j]] <= StaleBound
    <3>1. since[f.key][f.version] <= StaleBound
      BY <1>3, CacheAssumption DEF StaleBound
    <3> QED BY <1>1, <1>2, <3>1 DEF Fresh, CacheTypeOK
  <2>2. Promise!Answer
    BY <1>1, <1>5, <2>1 DEF Promise!Answer
  <2> QED BY <2>2 DEF RegisterStep, Promise!Next
<1> QED BY <1>6, <1>7, <1>8, <1>9 DEF Fresh

(* What is dropped has no life left; the rest stays.                       *)
LEMMA DroppedSays ==
  ASSUME CacheTypeOK, NEW c \in Caches, NEW ks
  PROVE  /\ Dropped(c, ks) \in [Caches -> [Keys -> Entry]]
         /\ \A d \in Caches, k \in Keys :
              Dropped(c, ks)[d][k] = IF d = c /\ k \in ks THEN NoEntry ELSE entry[d][k]
<1> DEFINE new == [k \in Keys |-> IF k \in ks THEN NoEntry ELSE entry[c][k]]
<1>1. new \in [Keys -> Entry]
  BY Blanks DEF CacheTypeOK
<1>2. \A k \in Keys : new[k] = IF k \in ks THEN NoEntry ELSE entry[c][k]
  OBVIOUS
<1>3. Dropped(c, ks) = [entry EXCEPT ![c] = new]
  BY DEF Dropped
<1> HIDE DEF new
<1> QED BY <1>1, <1>2, <1>3 DEF CacheTypeOK

LEMMA CommitSteps ==
  ASSUME Fresh, NEW w \in Writers, NEW p \in Processes, NEW ks \in SUBSET Keys, Commit(w, p, ks)
  PROVE  Fresh' /\ RegisterStep
<1> DEFINE others == Caches \ {CacheOf(p)}
<1>0. CacheTypeOK
  BY DEF Fresh
<1>1. /\ source' = [k \in Keys |-> IF k \in ks THEN source[k] + 1 ELSE source[k]]
      /\ \A k \in ks : source[k] < MaxVersion
      /\ flush' = [flush EXCEPT ![w] = [process |-> p, due |-> ks]]
      /\ entry' = ExcusedEntries(others, ks, source')
      /\ fill' = ExcusedFills(others, ks, source')
      /\ UNCHANGED <<driver, since, answer, restarts>>
  BY DEF Commit
<1>2. source' \in [Keys -> Versions] /\ \A k \in Keys : source'[k] \in {source[k], source[k] + 1}
  BY <1>0, <1>1, CacheAssumption DEF CacheTypeOK, Versions
<1>3. flush' \in [Writers -> Flush]
  BY <1>0, <1>1 DEF CacheTypeOK, Flush
<1> HIDE DEF others
<1>4. entry' \in [Caches -> [Keys -> Entry]] /\ fill' \in [Readers -> Fill]
  BY <1>0, <1>1, ExcusedEntriesSay, ExcusedFillsSay
<1>5. CacheTypeOK'
  BY <1>0, <1>1, <1>2, <1>3, <1>4 DEF CacheTypeOK
<1>6. \A c \in Caches, k \in Keys : /\ entry'[c][k].version = entry[c][k].version
                                    /\ entry'[c][k].left = entry[c][k].left
  BY <1>0, <1>1, ExcusedEntriesSay
<1>7. \A r \in Readers :
        \/ fill'[r] = NoFill
        \/ /\ fill[r] # NoFill /\ fill'[r].key = fill[r].key
           /\ fill'[r].process = fill[r].process
           /\ fill'[r].version = fill[r].version /\ fill'[r].age = fill[r].age
  BY <1>0, <1>1, ExcusedFillsSay
<1>8. Fresh'
  BY <1>1, <1>2, <1>5, <1>6, <1>7, FreshKept
<1>9. RegisterStep
  BY <1>1, <1>2 DEF RegisterStep, Promise!Next, Promise!Write
<1> QED BY <1>8, <1>9

LEMMA InvalidateSteps ==
  ASSUME Fresh, NEW w \in Writers, NEW k \in Keys, NEW deleted \in BOOLEAN,
         Invalidate(w, k, deleted)
  PROVE  Fresh' /\ RegisterStep
<1> DEFINE c == CacheOf(flush[w].process)
           left == flush[w].due \ {k}
<1>0. CacheTypeOK /\ flush[w] \in Flush /\ flush[w].due \subseteq Keys /\ k \in flush[w].due
  BY DEF Fresh, CacheTypeOK, Flush, Invalidate
<1>1. /\ entry' = IF deleted THEN Dropped(c, {k}) ELSE ExcusedEntries({c}, {k}, source)
      /\ fill' = ExcusedFills({c}, {k}, source)
      /\ UNCHANGED <<driver, source, since, answer, restarts>>
  BY DEF Invalidate
<1>2. flush' \in [Writers -> Flush]
  <2>1. flush' = [flush EXCEPT ![w] = IF left = {} THEN NoFlush
                                      ELSE [flush[w] EXCEPT !.due = left]]
    BY <1>0 DEF Invalidate, CacheTypeOK
  <2>2. left \in SUBSET Keys
    BY <1>0
  <2> HIDE DEF left
  <2>3. [flush[w] EXCEPT !.due = left] \in Flush
    BY <1>0, <2>2 DEF Flush
  <2> QED BY <1>0, <2>1, <2>3, Blanks DEF CacheTypeOK
<1> HIDE DEF c, left
<1>3. /\ ExcusedEntries({c}, {k}, source) \in [Caches -> [Keys -> Entry]]
      /\ \A d \in Caches, j \in Keys :
           /\ ExcusedEntries({c}, {k}, source)[d][j].version = entry[d][j].version
           /\ ExcusedEntries({c}, {k}, source)[d][j].left = entry[d][j].left
  BY <1>0, ExcusedEntriesSay
<1>4. /\ entry' \in [Caches -> [Keys -> Entry]]
      /\ \A d \in Caches, j \in Keys :
           \/ entry'[d][j].left = 0
           \/ /\ entry'[d][j].version = entry[d][j].version
              /\ entry'[d][j].left = entry[d][j].left
  <2>1. CASE ~deleted
    BY <1>1, <1>3, <2>1
  <2>2. CASE deleted
    <3>1. CASE c \in Caches
      BY <1>0, <1>1, <2>2, <3>1, DroppedSays, Blanks
    <3>2. CASE c \notin Caches
      <4>1. Dropped(c, {k}) = entry
        BY <1>0, <3>2 DEF Dropped, CacheTypeOK
      <4> QED BY <1>0, <1>1, <2>2, <4>1 DEF CacheTypeOK
    <3> QED BY <3>1, <3>2
  <2> QED BY <2>1, <2>2
<1>5. /\ fill' \in [Readers -> Fill]
      /\ \A r \in Readers :
           \/ fill'[r] = NoFill
           \/ /\ fill[r] # NoFill /\ fill'[r].key = fill[r].key
              /\ fill'[r].process = fill[r].process
              /\ fill'[r].version = fill[r].version /\ fill'[r].age = fill[r].age
  BY <1>0, <1>1, ExcusedFillsSay
<1>6. CacheTypeOK'
  BY <1>0, <1>1, <1>2, <1>4, <1>5 DEF CacheTypeOK
<1>7. Fresh'
  BY <1>1, <1>4, <1>5, <1>6, FreshKept
<1> QED BY <1>1, <1>7 DEF RegisterStep, Promise!register

(* What a restart leaves of the entries, the fills and the flushes.        *)
LEMMA RestartSays ==
  ASSUME CacheTypeOK, NEW p \in Processes, Restart(p)
  PROVE  /\ entry' \in [Caches -> [Keys -> Entry]]
         /\ fill' \in [Readers -> Fill] /\ flush' \in [Writers -> Flush]
         /\ driver = "redis" =>
              entry' = ExcusedEntries({Shared}, UNION {flush[w].due :
                         w \in {x \in Writers : flush[x].process = p}}, source)
         /\ driver # "redis" =>
              \A d \in Caches, k \in Keys :
                entry'[d][k] = IF d = p THEN NoEntry ELSE entry[d][k]
         /\ \A r \in Readers :
              fill'[r] = IF fill[r] = NoFill \/ fill[r].process = p THEN NoFill
                         ELSE ExcusedFills({Shared}, UNION {flush[w].due :
                                w \in {x \in Writers : flush[x].process = p}}, source)[r]
         /\ \A w \in Writers :
              flush'[w] = IF flush[w].process = p THEN NoFlush ELSE flush[w]
         /\ UNCHANGED <<driver, source, since, answer>> /\ restarts' = restarts + 1
<1> DEFINE owed == UNION {flush[w].due : w \in {x \in Writers : flush[x].process = p}}
           alive == [r \in Readers |-> IF fill[r].process = p THEN NoFill ELSE fill[r]]
<1>1. /\ entry' = IF driver = "redis" THEN ExcusedEntries({Shared}, owed, source)
                  ELSE [entry EXCEPT ![p] = [k \in Keys |-> NoEntry]]
      /\ fill' = [r \in Readers |-> IF alive[r] = NoFill THEN NoFill
                                    ELSE ExcusedFills({Shared}, owed, source)[r]]
      /\ flush' = [w \in Writers |-> IF flush[w].process = p THEN NoFlush ELSE flush[w]]
      /\ UNCHANGED <<driver, source, since, answer>> /\ restarts' = restarts + 1
  BY DEF Restart
<1> HIDE DEF owed
<1>2. /\ ExcusedEntries({Shared}, owed, source) \in [Caches -> [Keys -> Entry]]
      /\ ExcusedFills({Shared}, owed, source) \in [Readers -> Fill]
  BY ExcusedEntriesSay, ExcusedFillsSay
<1>3. /\ entry' \in [Caches -> [Keys -> Entry]]
      /\ driver # "redis" =>
           \A d \in Caches, k \in Keys :
             entry'[d][k] = IF d = p THEN NoEntry ELSE entry[d][k]
  BY <1>1, <1>2, Blanks DEF CacheTypeOK
<1>4. \A r \in Readers :
        /\ alive[r] = NoFill <=> fill[r] = NoFill \/ fill[r].process = p
        /\ fill'[r] = IF alive[r] = NoFill THEN NoFill
                      ELSE ExcusedFills({Shared}, owed, source)[r]
  BY <1>1
<1> HIDE DEF alive
<1>5. fill' \in [Readers -> Fill]
  BY <1>1, <1>2, Blanks
<1>6. flush' \in [Writers -> Flush]
  BY <1>1, Blanks DEF CacheTypeOK
<1> QED BY <1>1, <1>3, <1>4, <1>5, <1>6 DEF owed

LEMMA RestartSteps ==
  ASSUME Fresh, NEW p \in Processes, Restart(p)
  PROVE  Fresh' /\ RegisterStep
<1> DEFINE owed == UNION {flush[w].due : w \in {x \in Writers : flush[x].process = p}}
<1>0. CacheTypeOK
  BY DEF Fresh
<1>1. /\ entry' \in [Caches -> [Keys -> Entry]]
      /\ fill' \in [Readers -> Fill] /\ flush' \in [Writers -> Flush]
      /\ driver = "redis" => entry' = ExcusedEntries({Shared}, owed, source)
      /\ driver # "redis" =>
           \A d \in Caches, k \in Keys :
             entry'[d][k] = IF d = p THEN NoEntry ELSE entry[d][k]
      /\ \A r \in Readers :
           fill'[r] = IF fill[r] = NoFill \/ fill[r].process = p THEN NoFill
                      ELSE ExcusedFills({Shared}, owed, source)[r]
      /\ UNCHANGED <<driver, source, since, answer>> /\ restarts' = restarts + 1
  BY <1>0, RestartSays
<1> HIDE DEF owed
<1>2. CacheTypeOK'
  BY <1>0, <1>1 DEF CacheTypeOK
<1>3. \A c \in Caches, k \in Keys :
        \/ entry'[c][k].left = 0
        \/ entry'[c][k].version = entry[c][k].version /\ entry'[c][k].left = entry[c][k].left
  <2>1. CASE driver = "redis"
    BY <1>0, <1>1, <2>1, ExcusedEntriesSay
  <2>2. CASE driver # "redis"
    BY <1>1, <2>2, Blanks
  <2> QED BY <2>1, <2>2
<1>4. \A r \in Readers :
        \/ fill'[r] = NoFill
        \/ /\ fill[r] # NoFill /\ fill'[r].key = fill[r].key
           /\ fill'[r].process = fill[r].process
           /\ fill'[r].version = fill[r].version /\ fill'[r].age = fill[r].age
  BY <1>0, <1>1, ExcusedFillsSay
<1>5. Fresh'
  BY <1>1, <1>2, <1>3, <1>4, FreshKept
<1> QED BY <1>1, <1>5 DEF RegisterStep, Promise!register

(* An hour makes everything an hour older, and ends what has none left.    *)
LEMMA ElapseSteps ==
  ASSUME Fresh, Elapse
  PROVE  Fresh' /\ RegisterStep
<1>0. CacheTypeOK
  BY DEF Fresh
<1>1. /\ \A r \in Readers : fill[r] # NoFill => fill[r].age < Lag
      /\ entry' = [c \in Caches |-> [k \in Keys |-> Aged(entry[c][k])]]
      /\ fill' = [r \in Readers |-> IF fill[r] = NoFill THEN NoFill
                                    ELSE [fill[r] EXCEPT !.age = @ + 1]]
      /\ since' = [k \in Keys |-> [v \in Versions |->
                    IF v < source[k] /\ since[k][v] <= StaleBound THEN since[k][v] + 1
                    ELSE since[k][v]]]
      /\ UNCHANGED <<driver, source, flush, answer, restarts>>
  BY DEF Elapse
<1>2. ASSUME NEW e \in Entry
      PROVE  /\ Aged(e) \in Entry
             /\ Aged(e).left > 0 => Aged(e).version = e.version /\ e.left > 1
                                    /\ Aged(e).left = e.left - 1
  <2>0. e.left \in 0 .. Ttl
    BY DEF Entry
  <2>1. CASE e.left <= 1
    BY <2>1, Blanks DEF Aged
  <2>2. CASE ~(e.left <= 1)
    <3>1. Aged(e) = [e EXCEPT !.left = e.left - 1]
      BY <2>2 DEF Aged
    <3>2. e.left - 1 \in 0 .. Ttl
      BY <2>0, <2>2, CacheAssumption
    <3> QED BY <2>0, <2>2, <3>1, <3>2 DEF Entry
  <2> QED BY <2>1, <2>2
<1>3. ASSUME NEW r \in Readers
      PROVE  /\ fill'[r] \in Fill
             /\ fill[r] = NoFill => fill'[r] = NoFill
             /\ fill[r] # NoFill => /\ fill'[r].key = fill[r].key
                                    /\ fill'[r].process = fill[r].process
                                    /\ fill'[r].version = fill[r].version
                                    /\ fill'[r].age = fill[r].age + 1
  <2>1. fill[r] \in Fill /\ fill[r].age \in 0 .. Lag
    BY <1>0 DEF CacheTypeOK, Fill
  <2>2. CASE fill[r] = NoFill
    BY <1>1, <2>2, Blanks
  <2>3. CASE fill[r] # NoFill
    <3>1. fill'[r] = [fill[r] EXCEPT !.age = fill[r].age + 1]
      BY <1>1, <2>3
    <3>2. fill[r].age + 1 \in 0 .. Lag
      BY <1>1, <2>1, <2>3, CacheAssumption
    <3> QED BY <2>1, <2>3, <3>1, <3>2 DEF Fill
  <2> QED BY <2>2, <2>3
<1>4. \A k \in Keys, v \in Versions :
        /\ since[k][v] \in Nat /\ source[k] \in Versions
        /\ since'[k][v] = IF v < source[k] /\ since[k][v] <= StaleBound THEN since[k][v] + 1
                          ELSE since[k][v]
  BY <1>0, <1>1 DEF CacheTypeOK
<1>5. since' \in [Keys -> [Versions -> Nat]]
  BY <1>1, <1>4
<1>6. entry' \in [Caches -> [Keys -> Entry]]
  BY <1>0, <1>1, <1>2 DEF CacheTypeOK
<1>7. fill' \in [Readers -> Fill]
  BY <1>1, <1>3
<1>8. CacheTypeOK'
  BY <1>0, <1>1, <1>5, <1>6, <1>7 DEF CacheTypeOK
<1>9. Versions \subseteq Int
  BY DEF Versions
<1>10. NotYetPast'
  <2>1. ASSUME NEW k \in Keys, NEW v \in Versions, v >= source[k] PROVE ~(v < source[k])
    <3>1. v \in Int /\ source[k] \in Int
      BY <1>4, <1>9
    <3> QED BY <2>1, <3>1
  <2> QED BY <1>1, <1>4, <2>1 DEF Fresh, NotYetPast
<1>11. ASSUME NEW c \in Caches, NEW k \in Keys PROVE EntryFresh(entry[c][k], k)'
  <2> DEFINE e == entry[c][k]
  <2>1. /\ e \in Entry /\ e.version \in Versions /\ e.left \in 0 .. Ttl
        /\ EntryFresh(e, k) /\ entry'[c][k] = Aged(e)
    BY <1>0, <1>1 DEF CacheTypeOK, Entry, Fresh
  <2> HIDE DEF e
  <2>2. SUFFICES ASSUME Aged(e).left > 0
                 PROVE  /\ Aged(e).version <= source[k]
                        /\ since'[k][Aged(e).version] <= Ttl + Lag - Aged(e).left
    BY <1>1, <2>1 DEF EntryFresh
  <2>3. Aged(e).version = e.version /\ e.left > 1 /\ Aged(e).left = e.left - 1
    BY <1>2, <2>1, <2>2
  <2>4. e.version <= source[k] /\ since[k][e.version] <= Ttl + Lag - e.left
    BY <2>1, <2>3 DEF EntryFresh
  <2>5. since'[k][e.version] <= since[k][e.version] + 1 /\ since'[k][e.version] \in Nat
    BY <1>4, <1>5, <2>1
  <2>6. since[k][e.version] \in Nat
    BY <1>4, <2>1
  <2> QED BY <2>1, <2>3, <2>4, <2>5, <2>6, CacheAssumption
<1>12. ASSUME NEW r \in Readers PROVE FillFresh(fill[r])'
  <2>1. CASE fill[r] = NoFill
    BY <1>3, <2>1 DEF FillFresh
  <2>2. CASE fill[r] # NoFill
    <3>1. FillFresh(fill[r]) /\ fill[r].version \in Versions /\ fill[r].age \in Int
      BY <1>0 DEF Fresh, CacheTypeOK, Fill
    <3>2. /\ since[fill[r].key][fill[r].version] \in Nat
          /\ since'[fill[r].key][fill[r].version] \in Nat
          /\ since'[fill[r].key][fill[r].version] <= since[fill[r].key][fill[r].version] + 1
      BY <1>4, <1>5, <2>2, <3>1 DEF FillFresh
    <3>3. /\ fill[r].key \in Keys /\ fill[r].process \in Processes
          /\ fill[r].version <= source[fill[r].key]
          /\ since[fill[r].key][fill[r].version] <= fill[r].age
      BY <2>2, <3>1 DEF FillFresh
    <3>4. since'[fill[r].key][fill[r].version] <= fill[r].age + 1
      BY <3>1, <3>2, <3>3
    <3>5. /\ fill'[r].key = fill[r].key /\ fill'[r].process = fill[r].process
          /\ fill'[r].version = fill[r].version /\ fill'[r].age = fill[r].age + 1
      BY <1>3, <2>2
    <3>6. source' = source
      BY <1>1
    <3> QED BY <3>3, <3>4, <3>5, <3>6 DEF FillFresh
  <2> QED BY <2>1, <2>2
<1>13. RegisterStep
  <2>1. Promise!Elapse
    BY <1>1 DEF Promise!Elapse
  <2> QED BY <2>1 DEF RegisterStep, Promise!Next
<1> QED BY <1>8, <1>10, <1>11, <1>12, <1>13 DEF Fresh

LEMMA FreshNext == Fresh /\ [CacheNext]_cacheVars => Fresh' /\ RegisterStep
<1> SUFFICES ASSUME Fresh, [CacheNext]_cacheVars PROVE Fresh' /\ RegisterStep
  OBVIOUS
<1>1. CASE UNCHANGED cacheVars
  BY <1>1 DEF cacheVars, Fresh, CacheTypeOK, NotYetPast, EntryFresh, FillFresh,
              RegisterStep, Promise!register
<1>2. CASE CacheNext
  BY <1>2, ServeHitSteps, ProduceSteps, StoreSteps, CommitSteps, InvalidateSteps,
     RestartSteps, ElapseSteps DEF CacheNext, ReadStep, WriteStep
<1> QED BY <1>1, <1>2

(* Entries, fills and what a writer owes keep their types.                 *)
THEOREM CachesTyped == CacheSpec => []CacheTypeOK
<1>1. Fresh => CacheTypeOK
  BY DEF Fresh
<1> QED BY FreshInit, FreshNext, <1>1, PTL DEF CacheSpec

(* remember() and invalidate() implement the register: whatever is written *)
(* meanwhile, never flushed, lost by Redis or cached by a process nobody   *)
(* tells, an answer was the row at most Ttl and the time of a fill ago.    *)
THEOREM AnswersAreBounded == CacheSpec => AnswersWithinBound
<1>1. CacheInit => Promise!Init
  BY DEF CacheInit, Promise!Init
<1>2. Fresh /\ [CacheNext]_cacheVars => [Promise!Next]_(Promise!register)
  BY FreshNext DEF RegisterStep
<1> QED BY FreshInit, FreshNext, <1>1, <1>2, PTL DEF CacheSpec, AnswersWithinBound, Promise!Spec

-----------------------------------------------------------------------------
(* Why an entry is stale.  A fill is followed to the cache it will be      *)
(* stored in, so its excuses are those of the entry it becomes.            *)

OwedBy(flushes, c, k) ==
  \E w \in Writers : k \in flushes[w].due /\ CacheOf(flushes[w].process) = c

FillForCause(f) ==
  f # NoFill /\ f.version < source[f.key] /\ ~f.excused
    => OwedBy(flush, CacheOf(f.process), f.key)

Causes == StaleForCause /\ \A r \in Readers : FillForCause(fill[r])

(* Debts that stay, versions and excuses that stay: the causes stay.       *)
LEMMA CausesKept ==
  ASSUME Causes, driver' = driver,
         \A c \in Caches, k \in Keys :
           \/ entry'[c][k].left = 0
           \/ entry'[c][k].excused
           \/ OwedBy(flush', c, k)
           \/ ~(entry'[c][k].version < source'[k])
           \/ /\ entry'[c][k].version = entry[c][k].version
              /\ entry[c][k].left > 0 /\ ~entry[c][k].excused
              /\ source'[k] = source[k]
              /\ OwedBy(flush, c, k) => OwedBy(flush', c, k),
         \A r \in Readers :
           \/ fill'[r] = NoFill
           \/ fill'[r].excused
           \/ OwedBy(flush', CacheOf(fill'[r].process), fill'[r].key)
           \/ ~(fill'[r].version < source'[fill'[r].key])
           \/ /\ fill[r] # NoFill /\ ~fill[r].excused
              /\ fill'[r].key = fill[r].key /\ fill'[r].process = fill[r].process
              /\ fill'[r].version = fill[r].version
              /\ source'[fill[r].key] = source[fill[r].key]
              /\ OwedBy(flush, CacheOf(fill[r].process), fill[r].key) =>
                   OwedBy(flush', CacheOf(fill[r].process), fill[r].key)
  PROVE  Causes'
<1>0. \A p : CacheOf(p)' = CacheOf(p)
  BY DEF CacheOf
<1>1. ASSUME NEW c \in Caches, NEW k \in Keys, entry'[c][k].left > 0,
             entry'[c][k].version < source'[k], ~entry'[c][k].excused
      PROVE  OwedBy(flush', c, k)
  <2>1. entry[c][k].left > 0 /\ entry[c][k].version < source[k] /\ ~entry[c][k].excused
        => OwedBy(flush, c, k)
    BY DEF Causes, StaleForCause, Hit, Owed, OwedBy
  <2> QED BY <1>1, <2>1
<1>2. ASSUME NEW r \in Readers, fill'[r] # NoFill,
             fill'[r].version < source'[fill'[r].key], ~fill'[r].excused
      PROVE  OwedBy(flush', CacheOf(fill'[r].process), fill'[r].key)
  <2>1. FillForCause(fill[r])
    BY DEF Causes
  <2> QED BY <1>2, <2>1 DEF FillForCause
<1>3. StaleForCause'
  BY <1>1 DEF StaleForCause, Hit, Owed, OwedBy, CacheOf
<1>4. ASSUME NEW r \in Readers PROVE FillForCause(fill[r])'
  BY <1>2 DEF FillForCause, OwedBy, CacheOf
<1> QED BY <1>3, <1>4 DEF Causes

LEMMA StoreCauses ==
  ASSUME Fresh, Causes, NEW r \in Readers, NEW stored \in BOOLEAN, StoreProduced(r, stored)
  PROVE  Causes'
<1> DEFINE f == fill[r]
           c == CacheOf(f.process)
           e == [version |-> f.version, left |-> Ttl, excused |-> f.excused]
<1>1. /\ f # NoFill
      /\ entry' = IF stored THEN [entry EXCEPT ![c][f.key] = e] ELSE entry
      /\ fill' = [fill EXCEPT ![r] = NoFill]
      /\ UNCHANGED <<driver, source, since, flush, restarts>>
  BY DEF StoreProduced
<1>2. /\ f.version < source[f.key] /\ ~f.excused => OwedBy(flush, c, f.key)
      /\ e.version = f.version /\ e.excused = f.excused
  BY <1>1 DEF Causes, FillForCause
<1> HIDE DEF f, c, e
<1>3. ASSUME NEW d \in Caches, NEW k \in Keys
      PROVE  entry'[d][k] = entry[d][k] \/ (d = c /\ k = f.key /\ entry'[d][k] = e)
  BY <1>1 DEF Fresh, CacheTypeOK
<1>4. \A o \in Readers : fill'[o] = fill[o] \/ fill'[o] = NoFill
  BY <1>1 DEF Fresh, CacheTypeOK
<1>5. \A d \in Caches, k \in Keys :
        \/ entry'[d][k].left = 0
        \/ entry'[d][k].excused
        \/ OwedBy(flush', d, k)
        \/ ~(entry'[d][k].version < source'[k])
        \/ /\ entry'[d][k].version = entry[d][k].version
           /\ entry[d][k].left > 0 /\ ~entry[d][k].excused
           /\ source'[k] = source[k]
           /\ OwedBy(flush, d, k) => OwedBy(flush', d, k)
  <2> SUFFICES ASSUME NEW d \in Caches, NEW k \in Keys, entry'[d][k].left # 0,
                      ~entry'[d][k].excused, ~OwedBy(flush', d, k),
                      entry'[d][k].version < source'[k]
               PROVE  /\ entry'[d][k].version = entry[d][k].version
                      /\ entry[d][k].left > 0 /\ ~entry[d][k].excused
                      /\ source'[k] = source[k]
                      /\ OwedBy(flush, d, k) => OwedBy(flush', d, k)
    OBVIOUS
  <2>1. entry'[d][k] = entry[d][k]
    BY <1>1, <1>2, <1>3
  <2>2. entry[d][k].left \in Nat
    BY CacheAssumption DEF Fresh, CacheTypeOK, Entry
  <2> QED BY <1>1, <2>1, <2>2
<1> QED BY <1>1, <1>4, <1>5, CausesKept

LEMMA CommitCauses ==
  ASSUME Fresh, Causes, NEW w \in Writers, NEW p \in Processes, NEW ks \in SUBSET Keys,
         Commit(w, p, ks)
  PROVE  Causes'
<1> DEFINE others == Caches \ {CacheOf(p)}
<1>0. CacheTypeOK /\ \A c \in Caches, k \in Keys : entry[c][k].left \in Nat
  BY CacheAssumption DEF Fresh, CacheTypeOK, Entry
<1>1. /\ flush[w] = NoFlush
      /\ source' = [k \in Keys |-> IF k \in ks THEN source[k] + 1 ELSE source[k]]
      /\ flush' = [flush EXCEPT ![w] = [process |-> p, due |-> ks]]
      /\ entry' = ExcusedEntries(others, ks, source')
      /\ fill' = ExcusedFills(others, ks, source')
      /\ driver' = driver
  BY DEF Commit
<1>2. \A k \in Keys : k \notin ks => source'[k] = source[k]
  BY <1>1
<1>3. /\ \A k \in ks : OwedBy(flush', CacheOf(p), k)
      /\ \A c, k : OwedBy(flush, c, k) => OwedBy(flush', c, k)
  <2>1. /\ flush'[w] = [process |-> p, due |-> ks] /\ flush[w].due = {}
        /\ \A x \in Writers \ {w} : flush'[x] = flush[x]
    BY <1>0, <1>1 DEF CacheTypeOK, NoFlush
  <2> QED BY <2>1 DEF OwedBy
<1> HIDE DEF others
<1>4. ASSUME NEW c \in Caches, NEW k \in Keys
      PROVE  /\ entry'[c][k].version = entry[c][k].version
             /\ entry'[c][k].left = entry[c][k].left
             /\ \/ entry'[c][k].excused
                \/ /\ ~entry[c][k].excused
                   /\ c \in others /\ k \in ks /\ Hit(c, k) => ~(entry[c][k].version < source'[k])
  <2>1. entry'[c][k].excused =
          (entry[c][k].excused
           \/ (c \in others /\ k \in ks /\ Hit(c, k) /\ entry[c][k].version < source'[k]))
    BY <1>0, <1>1, ExcusedEntriesSay
  <2>2. \/ entry'[c][k].excused
        \/ /\ ~entry[c][k].excused
           /\ c \in others /\ k \in ks /\ Hit(c, k) => ~(entry[c][k].version < source'[k])
    BY <2>1, Zenon
  <2> QED BY <1>0, <1>1, <2>2, ExcusedEntriesSay
<1>5. ASSUME NEW r \in Readers
      PROVE  /\ fill[r] = NoFill => fill'[r] = NoFill
             /\ fill'[r].key = fill[r].key /\ fill'[r].process = fill[r].process
             /\ fill'[r].version = fill[r].version
             /\ fill[r] # NoFill =>
                  fill'[r].excused =
                    (fill[r].excused
                     \/ (/\ fill[r].key \in ks /\ CacheOf(fill[r].process) \in others
                         /\ fill[r].version < source'[fill[r].key]))
  BY <1>0, <1>1, ExcusedFillsSay
<1>6. ASSUME NEW c \in Caches, NEW k \in Keys
      PROVE  \/ entry'[c][k].left = 0
             \/ entry'[c][k].excused
             \/ OwedBy(flush', c, k)
             \/ ~(entry'[c][k].version < source'[k])
             \/ /\ entry'[c][k].version = entry[c][k].version
                /\ entry[c][k].left > 0 /\ ~entry[c][k].excused
                /\ source'[k] = source[k]
                /\ OwedBy(flush, c, k) => OwedBy(flush', c, k)
  <2>1. CASE k \in ks /\ c = CacheOf(p)
    BY <1>3, <2>1
  <2>2. CASE k \in ks /\ c # CacheOf(p)
    <3>1. c \in others
      BY <2>2 DEF others
    <3>2. entry'[c][k].left = 0 \/ Hit(c, k)
      BY <1>0, <1>4 DEF Hit
    <3> QED BY <1>4, <2>2, <3>1, <3>2
  <2>3. CASE k \notin ks
    <3>1. entry'[c][k].left = 0 \/ entry[c][k].left > 0
      BY <1>0, <1>4
    <3>2. source'[k] = source[k] /\ (OwedBy(flush, c, k) => OwedBy(flush', c, k))
      BY <1>2, <1>3, <2>3
    <3> QED BY <1>4, <3>1, <3>2
  <2> QED BY <2>1, <2>2, <2>3
<1>7. ASSUME NEW r \in Readers
      PROVE  \/ fill'[r] = NoFill
             \/ fill'[r].excused
             \/ OwedBy(flush', CacheOf(fill'[r].process), fill'[r].key)
             \/ ~(fill'[r].version < source'[fill'[r].key])
             \/ /\ fill[r] # NoFill /\ ~fill[r].excused
                /\ fill'[r].key = fill[r].key /\ fill'[r].process = fill[r].process
                /\ fill'[r].version = fill[r].version
                /\ source'[fill[r].key] = source[fill[r].key]
                /\ OwedBy(flush, CacheOf(fill[r].process), fill[r].key) =>
                     OwedBy(flush', CacheOf(fill[r].process), fill[r].key)
  <2>0. fill[r] # NoFill => fill[r].key \in Keys /\ CacheOf(fill[r].process) \in Caches
    BY CacheOfCaches DEF Fresh, FillFresh
  <2>1. CASE fill[r] = NoFill
    BY <1>5, <2>1
  <2>2. CASE fill[r] # NoFill /\ fill[r].key \in ks /\ CacheOf(fill[r].process) = CacheOf(p)
    BY <1>3, <1>5, <2>2
  <2>3. CASE fill[r] # NoFill /\ fill[r].key \in ks /\ CacheOf(fill[r].process) # CacheOf(p)
    BY <1>5, <2>0, <2>3 DEF others
  <2>4. CASE fill[r] # NoFill /\ fill[r].key \notin ks
    BY <1>2, <1>3, <1>5, <2>0, <2>4
  <2> QED BY <2>1, <2>2, <2>3, <2>4
<1> QED BY <1>1, <1>6, <1>7, CausesKept

LEMMA InvalidateCauses ==
  ASSUME Fresh, Causes, NEW w \in Writers, NEW k \in Keys, NEW deleted \in BOOLEAN,
         Invalidate(w, k, deleted)
  PROVE  Causes'
<1> DEFINE c == CacheOf(flush[w].process)
           left == flush[w].due \ {k}
<1>0. /\ CacheTypeOK /\ \A d \in Caches, j \in Keys : entry[d][j].left \in Nat
      /\ flush \in [Writers -> Flush]
  BY CacheAssumption DEF Fresh, CacheTypeOK, Entry
<1>1. /\ entry' = IF deleted THEN Dropped(c, {k}) ELSE ExcusedEntries({c}, {k}, source)
      /\ fill' = ExcusedFills({c}, {k}, source)
      /\ flush' = [flush EXCEPT ![w] = IF left = {} THEN NoFlush ELSE [@ EXCEPT !.due = left]]
      /\ UNCHANGED <<driver, source>>
  BY DEF Invalidate
<1>2. ASSUME NEW d, NEW j, OwedBy(flush, d, j), ~(d = c /\ j = k)
      PROVE  OwedBy(flush', d, j)
  <2>1. PICK x \in Writers : j \in flush[x].due /\ CacheOf(flush[x].process) = d
    BY <1>2 DEF OwedBy
  <2>2. CASE x # w
    <3>1. flush'[x] = flush[x]
      BY <1>0, <1>1, <2>2
    <3> QED BY <2>1, <3>1 DEF OwedBy
  <2>3. CASE x = w
    <3>1. j \in left
      BY <1>2, <2>1, <2>3
    <3>2. flush'[w] = [flush[w] EXCEPT !.due = left]
      BY <1>0, <1>1, <3>1
    <3>3. flush'[w].due = left /\ flush'[w].process = flush[w].process
      BY <1>0, <3>2 DEF Flush
    <3> QED BY <2>1, <2>3, <3>1, <3>3 DEF OwedBy
  <2> QED BY <2>2, <2>3
<1> HIDE DEF c, left
<1>3. ASSUME NEW d \in Caches, NEW j \in Keys
      PROVE  \/ entry'[d][j].left = 0
             \/ /\ entry'[d][j].version = entry[d][j].version
                /\ entry'[d][j].left = entry[d][j].left
                /\ \/ entry'[d][j].excused
                   \/ ~entry[d][j].excused
                      /\ (d = c /\ j = k => ~Hit(d, j) \/ ~(entry[d][j].version < source[j]))
  <2>1. CASE ~deleted
    <3>1. /\ entry'[d][j].version = entry[d][j].version
          /\ entry'[d][j].left = entry[d][j].left
          /\ entry'[d][j].excused =
               (entry[d][j].excused
                \/ (d \in {c} /\ j \in {k} /\ Hit(d, j) /\ entry[d][j].version < source[j]))
      BY <1>0, <1>1, <2>1, ExcusedEntriesSay
    <3> QED BY <3>1
  <2>2. CASE deleted /\ d = c /\ j = k
    BY <1>0, <1>1, <2>2, DroppedSays, Blanks
  <2>3. CASE deleted /\ ~(d = c /\ j = k)
    <3>1. entry'[d][j] = entry[d][j]
      <4>1. CASE c \in Caches
        BY <1>0, <1>1, <2>3, <4>1, DroppedSays
      <4>2. CASE c \notin Caches
        BY <1>0, <1>1, <2>3, <4>2 DEF Dropped, CacheTypeOK
      <4> QED BY <4>1, <4>2
    <3> QED BY <2>3, <3>1
  <2> QED BY <2>1, <2>2, <2>3
<1>4. ASSUME NEW r \in Readers
      PROVE  /\ fill[r] = NoFill => fill'[r] = NoFill
             /\ fill'[r].key = fill[r].key /\ fill'[r].process = fill[r].process
             /\ fill'[r].version = fill[r].version
             /\ fill[r] # NoFill =>
                  fill'[r].excused =
                    (fill[r].excused
                     \/ (/\ fill[r].key \in {k} /\ CacheOf(fill[r].process) \in {c}
                         /\ fill[r].version < source[fill[r].key]))
  BY <1>0, <1>1, ExcusedFillsSay
<1>5. ASSUME NEW d \in Caches, NEW j \in Keys
      PROVE  \/ entry'[d][j].left = 0
             \/ entry'[d][j].excused
             \/ OwedBy(flush', d, j)
             \/ ~(entry'[d][j].version < source'[j])
             \/ /\ entry'[d][j].version = entry[d][j].version
                /\ entry[d][j].left > 0 /\ ~entry[d][j].excused
                /\ source'[j] = source[j]
                /\ OwedBy(flush, d, j) => OwedBy(flush', d, j)
  <2>1. entry'[d][j].left = 0 \/ entry[d][j].left > 0
    BY <1>0, <1>3
  <2>2. CASE d = c /\ j = k
    BY <1>1, <1>3, <2>1, <2>2 DEF Hit
  <2>3. CASE ~(d = c /\ j = k)
    BY <1>1, <1>2, <1>3, <2>1, <2>3
  <2> QED BY <2>2, <2>3
<1>6. \A r \in Readers :
        \/ fill'[r] = NoFill
        \/ fill'[r].excused
        \/ OwedBy(flush', CacheOf(fill'[r].process), fill'[r].key)
        \/ ~(fill'[r].version < source'[fill'[r].key])
        \/ /\ fill[r] # NoFill /\ ~fill[r].excused
           /\ fill'[r].key = fill[r].key /\ fill'[r].process = fill[r].process
           /\ fill'[r].version = fill[r].version
           /\ source'[fill[r].key] = source[fill[r].key]
           /\ OwedBy(flush, CacheOf(fill[r].process), fill[r].key) =>
                OwedBy(flush', CacheOf(fill[r].process), fill[r].key)
  BY <1>1, <1>2, <1>4
<1> QED BY <1>1, <1>5, <1>6, CausesKept

LEMMA RestartCauses ==
  ASSUME Fresh, Causes, NEW p \in Processes, Restart(p)
  PROVE  Causes'
<1> DEFINE owed == UNION {flush[w].due : w \in {x \in Writers : flush[x].process = p}}
<1>0. CacheTypeOK /\ \A c \in Caches, k \in Keys : entry[c][k].left \in Nat
  BY CacheAssumption DEF Fresh, CacheTypeOK, Entry
<1>1. /\ driver = "redis" => entry' = ExcusedEntries({Shared}, owed, source)
      /\ driver # "redis" =>
           \A c \in Caches, k \in Keys :
             entry'[c][k] = IF c = p THEN NoEntry ELSE entry[c][k]
      /\ \A r \in Readers :
           fill'[r] = IF fill[r] = NoFill \/ fill[r].process = p THEN NoFill
                      ELSE ExcusedFills({Shared}, owed, source)[r]
      /\ \A w \in Writers : flush'[w] = IF flush[w].process = p THEN NoFlush ELSE flush[w]
      /\ UNCHANGED <<driver, source>>
  BY <1>0, RestartSays
<1>2. ASSUME NEW c, NEW k, OwedBy(flush, c, k), ~OwedBy(flush', c, k)
      PROVE  k \in owed /\ c = CacheOf(p)
  <2>1. PICK w \in Writers : k \in flush[w].due /\ CacheOf(flush[w].process) = c
    BY <1>2 DEF OwedBy
  <2>2. flush[w].process = p
    BY <1>1, <1>2, <2>1 DEF OwedBy
  <2> QED BY <2>1, <2>2
<1> HIDE DEF owed
<1>3. ASSUME NEW c \in Caches, NEW k \in Keys
      PROVE  \/ entry'[c][k].left = 0
             \/ entry'[c][k].excused
             \/ /\ entry'[c][k].version = entry[c][k].version
                /\ entry[c][k].left > 0 /\ ~entry[c][k].excused
                /\ k \in owed /\ c = CacheOf(p) => ~(entry[c][k].version < source[k])
  <2>1. CASE driver = "redis"
    <3>1. /\ entry'[c][k].version = entry[c][k].version
          /\ entry'[c][k].left = entry[c][k].left
          /\ entry'[c][k].excused =
               (entry[c][k].excused
                \/ (c \in {Shared} /\ k \in owed /\ Hit(c, k) /\ entry[c][k].version < source[k]))
      BY <1>0, <1>1, <2>1, ExcusedEntriesSay
    <3>2. \/ entry'[c][k].excused
          \/ /\ ~entry[c][k].excused
             /\ c \in {Shared} /\ k \in owed /\ Hit(c, k) => ~(entry[c][k].version < source[k])
      BY <3>1, Zenon
    <3>3. entry'[c][k].left = 0 \/ (entry[c][k].left > 0 /\ Hit(c, k))
      BY <1>0, <3>1 DEF Hit
    <3>4. CacheOf(p) = Shared
      BY <2>1 DEF CacheOf
    <3> QED BY <3>1, <3>2, <3>3, <3>4
  <2>2. CASE driver # "redis"
    <3>1. CacheOf(p) = p
      BY <2>2 DEF CacheOf
    <3>2. CASE c = p
      BY <1>1, <2>2, <3>2, Blanks
    <3>3. CASE c # p
      <4>1. entry'[c][k] = entry[c][k]
        BY <1>1, <2>2, <3>3
      <4> QED BY <1>0, <3>1, <3>3, <4>1
    <3> QED BY <3>2, <3>3
  <2> QED BY <2>1, <2>2
<1>4. ASSUME NEW r \in Readers
      PROVE  \/ fill'[r] = NoFill
             \/ fill'[r].excused
             \/ /\ fill[r] # NoFill /\ ~fill[r].excused
                /\ fill'[r].key = fill[r].key /\ fill'[r].process = fill[r].process
                /\ fill'[r].version = fill[r].version
                /\ fill[r].key \in owed /\ CacheOf(fill[r].process) = CacheOf(p)
                     => ~(fill[r].version < source[fill[r].key])
  <2>1. CASE fill[r] = NoFill \/ fill[r].process = p
    BY <1>1, <2>1
  <2>2. CASE ~(fill[r] = NoFill \/ fill[r].process = p)
    <3> DEFINE f == ExcusedFills({Shared}, owed, source)[r]
    <3>1. fill'[r] = f
      BY <1>1, <2>2
    <3>2. /\ f.key = fill[r].key /\ f.process = fill[r].process /\ f.version = fill[r].version
          /\ f.excused =
               (fill[r].excused
                \/ (/\ fill[r].key \in owed /\ CacheOf(fill[r].process) \in {Shared}
                    /\ fill[r].version < source[fill[r].key]))
      BY <1>0, <2>2, ExcusedFillsSay
    <3> HIDE DEF f
    <3>3. \/ f.excused
          \/ /\ ~fill[r].excused
             /\ fill[r].key \in owed /\ CacheOf(fill[r].process) \in {Shared}
                  => ~(fill[r].version < source[fill[r].key])
      BY <3>2, Zenon
    <3>4. CacheOf(fill[r].process) = CacheOf(p) => CacheOf(fill[r].process) \in {Shared}
      BY <2>2 DEF CacheOf
    <3> QED BY <2>2, <3>1, <3>2, <3>3, <3>4
  <2> QED BY <2>1, <2>2
<1> QED BY <1>1, <1>2, <1>3, <1>4, CausesKept

LEMMA ElapseCauses ==
  ASSUME Fresh, Causes, Elapse
  PROVE  Causes'
<1>1. /\ entry' = [c \in Caches |-> [k \in Keys |-> Aged(entry[c][k])]]
      /\ fill' = [r \in Readers |-> IF fill[r] = NoFill THEN NoFill
                                    ELSE [fill[r] EXCEPT !.age = @ + 1]]
      /\ UNCHANGED <<driver, source, flush>>
  BY DEF Elapse
<1>2. ASSUME NEW c \in Caches, NEW k \in Keys
      PROVE  \/ entry'[c][k].left = 0
             \/ /\ entry'[c][k].version = entry[c][k].version
                /\ entry'[c][k].excused = entry[c][k].excused /\ entry[c][k].left > 0
  <2>1. entry[c][k] \in Entry /\ entry[c][k].left \in Nat /\ entry'[c][k] = Aged(entry[c][k])
    BY <1>1, CacheAssumption DEF Fresh, CacheTypeOK, Entry
  <2>2. CASE entry[c][k].left <= 1
    BY <2>1, <2>2, Blanks DEF Aged
  <2>3. CASE ~(entry[c][k].left <= 1)
    <3>1. entry'[c][k] = [entry[c][k] EXCEPT !.left = entry[c][k].left - 1]
      BY <2>1, <2>3 DEF Aged
    <3> QED BY <2>1, <2>3, <3>1 DEF Entry
  <2> QED BY <2>2, <2>3
<1>3. ASSUME NEW r \in Readers
      PROVE  \/ fill'[r] = NoFill
             \/ /\ fill[r] # NoFill
                /\ fill'[r].key = fill[r].key /\ fill'[r].process = fill[r].process
                /\ fill'[r].version = fill[r].version /\ fill'[r].excused = fill[r].excused
  <2>1. fill[r] \in Fill
    BY DEF Fresh, CacheTypeOK
  <2>2. fill[r] # NoFill => fill'[r] = [fill[r] EXCEPT !.age = fill[r].age + 1]
    BY <1>1
  <2> QED BY <1>1, <2>1, <2>2 DEF Fill
<1>4. ASSUME NEW c \in Caches, NEW k \in Keys
      PROVE  \/ entry'[c][k].left = 0
             \/ entry'[c][k].excused
             \/ /\ entry'[c][k].version = entry[c][k].version
                /\ entry[c][k].left > 0 /\ ~entry[c][k].excused
  BY <1>2
<1>5. ASSUME NEW r \in Readers
      PROVE  \/ fill'[r] = NoFill
             \/ fill'[r].excused
             \/ /\ fill[r] # NoFill /\ ~fill[r].excused
                /\ fill'[r].key = fill[r].key /\ fill'[r].process = fill[r].process
                /\ fill'[r].version = fill[r].version
  BY <1>3
<1> QED BY <1>1, <1>4, <1>5, CausesKept

LEMMA CausesNext == Fresh /\ Causes /\ [CacheNext]_cacheVars => Causes'
<1> SUFFICES ASSUME Fresh, Causes, [CacheNext]_cacheVars PROVE Causes'
  OBVIOUS
<1>0. \A c \in Caches, k \in Keys : entry[c][k].left \in Nat
  BY CacheAssumption DEF Fresh, CacheTypeOK, Entry
<1>1. ASSUME UNCHANGED <<driver, source, entry, fill, flush>> PROVE Causes'
  BY <1>1 DEF Causes, StaleForCause, FillForCause, OwedBy, Owed, Hit, CacheOf
<1>2. ASSUME NEW r \in Readers, NEW p \in Processes, NEW k \in Keys, Produce(r, p, k)
      PROVE  Causes'
  <2> DEFINE f == [key |-> k, process |-> p, version |-> source[k], age |-> 0, excused |-> FALSE]
  <2>1. fill' = [fill EXCEPT ![r] = f] /\ UNCHANGED <<driver, source, entry, flush>>
    BY <1>2 DEF Produce
  <2>2. f.key = k /\ f.version = source[k] /\ ~(source[k] < source[k])
    <3>1. source[k] \in Int
      BY DEF Fresh, CacheTypeOK, Versions
    <3> QED BY <3>1
  <2> HIDE DEF f
  <2>3. \A o \in Readers : fill'[o] = IF o = r THEN f ELSE fill[o]
    BY <2>1 DEF Fresh, CacheTypeOK
  <2>4. StaleForCause'
    BY <2>1 DEF Causes, StaleForCause, Owed, Hit, CacheOf
  <2>5. \A o \in Readers : FillForCause(fill[o])'
    BY <2>1, <2>2, <2>3 DEF Causes, FillForCause, OwedBy, CacheOf
  <2> QED BY <2>4, <2>5 DEF Causes
<1>3. CASE UNCHANGED cacheVars
  BY <1>1, <1>3 DEF cacheVars
<1>4. ASSUME NEW p \in Processes, NEW k \in Keys, ServeHit(p, k) PROVE Causes'
  BY <1>1, <1>4 DEF ServeHit
<1>5. CASE CacheNext
  BY <1>2, <1>4, <1>5, StoreCauses, CommitCauses, InvalidateCauses, RestartCauses, ElapseCauses
     DEF CacheNext, ReadStep, WriteStep
<1> QED BY <1>3, <1>5

(* A stale entry that has no excuse is in the cache of a process that has  *)
(* committed and still has it to delete.                                   *)
THEOREM StaleHasCause == CacheSpec => []StaleForCause
<1>1. CacheInit => Causes
  <2> SUFFICES ASSUME CacheInit PROVE Causes
    OBVIOUS
  <2>1. \A c \in Caches, k \in Keys : ~Hit(c, k)
    <3>1. \A c \in Caches, k \in Keys : entry[c][k].left = 0
      BY Blanks DEF CacheInit
    <3> QED BY <3>1 DEF Hit
  <2>2. \A r \in Readers : fill[r] = NoFill
    BY DEF CacheInit
  <2> QED BY <2>1, <2>2 DEF Causes, StaleForCause, FillForCause
<1>2. Causes => StaleForCause
  BY DEF Causes
<1> QED BY FreshInit, FreshNext, CausesNext, <1>1, <1>2, PTL DEF CacheSpec

-----------------------------------------------------------------------------
(* The sweeps: what a pass has still to take is of its kind, once each,    *)
(* and is not the row it has in hand.                                      *)

KindOf(pass) == IF pass = "marked" THEN Marked ELSE Referenced

SweepSound(s) ==
  /\ s.pass = "none" => s.at = "next" /\ s.todo = <<>>
  /\ \A m, n \in 1 .. Len(s.todo) : s.todo[m] = s.todo[n] => m = n
  /\ \A n \in 1 .. Len(s.todo) : s.todo[n] \in KindOf(s.pass) /\ s.todo[n] # s.row
  /\ s.at = "next" => s.row = NoRow
  /\ s.at # "next" => s.row \in KindOf(s.pass)
  /\ s.sending # NoUser => s.at = "mail"

SweepsSound == \A d \in Sweeps : SweepSound(sweeping[d])

(* Who has still to tell of a row, who has told of it and is sending mail, *)
(* who is sending one to somebody, and who has still to.                   *)
WillTell(s, r) ==
  \/ \E n \in 1 .. Len(s.todo) : s.todo[n] = r
  \/ s.row = r /\ s.at = "persist"
Mails(s, r) == s.row = r /\ s.at = "mail"
Sends(s, r, u) == s.row = r /\ s.sending = u
WillSend(s, r, u) == s.row = r /\ s.at = "mail" /\ u \in s.tell

Tellers(held, r) == {d \in Sweeps : WillTell(held[d], r)}
Mailers(held, r) == {d \in Sweeps : Mails(held[d], r)}
Senders(held, r, u) == {d \in Sweeps : Sends(held[d], r, u)}
ToSend(held, r, u) == {d \in Sweeps : WillSend(held[d], r, u)}

(* A row is told as often as it was selected and no more; until a marked   *)
(* row has its marker, who told of it is still at it, or died, or failed.  *)
RowBounded(r, told, tellers, mailers, again, open) ==
  /\ told + tellers <= Cardinality(Sweeps) + (IF r \in Marked THEN again ELSE 0)
  /\ open => told <= mailers + again

TellingsBounded ==
  \A r \in Rows, u \in Users :
    RowBounded(r, inApp[r][u], Cardinality(Tellers(sweeping, r)),
               Cardinality(Mailers(sweeping, r)), ToldAgain, r \in Marked \ marker)

(* What is being sent is an e-mail row that is pending; while nothing went *)
(* wrong, it is all that is, and every telling has its e-mail.             *)
RowMailed(m, told, senders, toSend, orderly) ==
  /\ senders <= m.pending
  /\ orderly => /\ m.pending = senders
                /\ told = m.pending + m.failed + m.sent + toSend

MailKept ==
  \A r \in Rows, u \in Users :
    RowMailed(mail[r][u], inApp[r][u], Cardinality(Senders(sweeping, r, u)),
              Cardinality(ToSend(sweeping, r, u)), deaths + throws = 0)

SweepInv == SweepTypeOK /\ SweepsSound /\ TellingsBounded /\ MailKept

-----------------------------------------------------------------------------
(* Rows before a row are some of the others; every place has its row.      *)
LEMMA EveryPlaceTaken ==
  ASSUME NEW rows \in SUBSET Rows
  PROVE  /\ IsFiniteSet(rows) /\ Cardinality(rows) \in Nat
         /\ \A n \in 1 .. Cardinality(rows) :
              \E r \in rows : Cardinality(Earlier(r, rows)) = n - 1
<1> DEFINE N == Cardinality(rows)
           place == [r \in rows |-> Cardinality(Earlier(r, rows)) + 1]
<1>1. IsFiniteSet(rows) /\ N \in Nat /\ \A r \in rows : r \in Nat
  BY SweepAssumption, FS_Subset, FS_CardinalityType
<1>2. \A r \in rows : /\ IsFiniteSet(Earlier(r, rows)) /\ Cardinality(Earlier(r, rows)) \in Nat
                      /\ Cardinality(Earlier(r, rows)) <= N - 1
  <2> SUFFICES ASSUME NEW r \in rows
               PROVE  /\ IsFiniteSet(Earlier(r, rows)) /\ Cardinality(Earlier(r, rows)) \in Nat
                      /\ Cardinality(Earlier(r, rows)) <= N - 1
    OBVIOUS
  <2>1. IsFiniteSet(rows \ {r}) /\ Cardinality(rows \ {r}) = N - 1
    BY <1>1, FS_RemoveElement
  <2>2. Earlier(r, rows) \in SUBSET (rows \ {r})
    BY <1>1 DEF Earlier
  <2>3. QED BY <2>1, <2>2, FS_Subset, FS_CardinalityType
<1>3. place \in [rows -> 1 .. N]
  BY <1>1, <1>2
<1>4. ASSUME NEW r \in rows, NEW q \in rows, r < q PROVE place[r] # place[q]
  <2>1. Earlier(r, rows) \in SUBSET (Earlier(q, rows) \ {r}) /\ r \in Earlier(q, rows)
    BY <1>1, <1>4 DEF Earlier
  <2>2. /\ IsFiniteSet(Earlier(q, rows) \ {r})
        /\ Cardinality(Earlier(q, rows) \ {r}) = Cardinality(Earlier(q, rows)) - 1
    BY <1>2, <2>1, FS_RemoveElement
  <2>3. Cardinality(Earlier(r, rows)) <= Cardinality(Earlier(q, rows)) - 1
    BY <2>1, <2>2, FS_Subset
  <2>4. QED BY <1>2, <2>3
<1>5. place \in Injection(rows, 1 .. N)
  <2>1. \A r, q \in rows : place[r] = place[q] => r = q
    BY <1>1, <1>4
  <2> HIDE DEF place
  <2>2. QED BY <1>3, <2>1 DEF Injection, IsInjective
<1>6. IsFiniteSet(1 .. N) /\ Cardinality(1 .. N) = N
  BY <1>1, FS_Interval
<1>7. place \in Surjection(rows, 1 .. N)
  <2> HIDE DEF place
  <2>1. QED BY <1>5, <1>6, FS_Injection
<1>8. \A n \in 1 .. N : \E r \in rows : place[r] = n
  BY <1>7 DEF Surjection
<1>9. QED BY <1>1, <1>2, <1>8

(* A selection is of the rows it is made from, each at most once.          *)
LEMMA OldestDistinct ==
  ASSUME NEW rows \in SUBSET Rows
  PROVE  LET s == OldestOf(rows)
         IN  /\ s \in Seq(Rows)
             /\ \A n \in 1 .. Len(s) : s[n] \in rows
             /\ \A m, n \in 1 .. Len(s) : s[m] = s[n] => m = n
<1> DEFINE N == Cardinality(rows)
           k == IF Limit < N THEN Limit ELSE N
           at(n) == CHOOSE r \in rows : Cardinality(Earlier(r, rows)) = n - 1
           s == OldestOf(rows)
<1>1. N \in Nat /\ \A n \in 1 .. N : at(n) \in rows /\ Cardinality(Earlier(at(n), rows)) = n - 1
  BY EveryPlaceTaken
<1>2. k \in Nat /\ 1 .. k \subseteq 1 .. N
  BY <1>1, SweepAssumption
<1>3. s = [n \in 1 .. k |-> at(n)]
  BY DEF OldestOf
<1> HIDE DEF k, at
<1>4. s \in [1 .. k -> Rows]
  BY <1>1, <1>2, <1>3
<1>5. s \in Seq(Rows) /\ Len(s) = k
  BY <1>2, <1>4, SeqDef, LenProperties
<1>6. \A n \in 1 .. k : s[n] \in rows
  BY <1>1, <1>2, <1>3
<1>7. ASSUME NEW m \in 1 .. k, NEW n \in 1 .. k, s[m] = s[n] PROVE m = n
  <2>1. m - 1 = n - 1
    BY <1>1, <1>2, <1>3, <1>7
  <2>2. m \in Nat /\ n \in Nat
    BY <1>2
  <2>3. QED BY <2>1, <2>2
<1>8. QED BY <1>5, <1>6, <1>7

(* A sweep's next selection is of rows it may take, each at most once.     *)
LEMMA SelectedSound ==
  ASSUME SweepTypeOK, NEW pass \in {"marked", "referenced"}
  PROVE  LET s == Selected(pass)
         IN  /\ s \in Seq(Rows)
             /\ \A n \in 1 .. Len(s) : /\ s[n] \in KindOf(pass)
                                       /\ s[n] \in Marked \ marker \/ (s[n] \in Referenced /\ ~Notified(s[n]))
             /\ \A m, n \in 1 .. Len(s) : s[m] = s[n] => m = n
<1> DEFINE rows == IF pass = "marked" THEN (Marked \cap published) \ marker
                   ELSE {r \in Referenced \cap published : ~Notified(r) /\ audience[r] # {}}
<1>1. rows \in SUBSET Rows
  BY SweepAssumption DEF Referenced
<1>2. \A r \in rows : /\ r \in KindOf(pass)
                      /\ r \in Marked \ marker \/ (r \in Referenced /\ ~Notified(r))
  BY Zenon DEF KindOf
<1>3. Selected(pass) = OldestOf(rows)
  BY DEF Selected
<1> HIDE DEF rows
<1> DEFINE s == OldestOf(rows)
<1>4. /\ s \in Seq(Rows) /\ \A n \in 1 .. Len(s) : s[n] \in rows
      /\ \A m, n \in 1 .. Len(s) : s[m] = s[n] => m = n
  BY <1>1, OldestDistinct
<1>5. QED BY <1>2, <1>3, <1>4, Zenon

-----------------------------------------------------------------------------
(* How a count of sweeps changes when one sweep moves.                     *)

Moved(A, B, d) ==
  LET a == Cardinality(A)
      b == Cardinality(B)
      n == Cardinality(Sweeps)
  IN  /\ n \in Nat /\ a \in Nat /\ b \in Nat /\ a <= n /\ b <= n
      /\ (d \in A <=> d \in B) => b = a
      /\ d \in A /\ d \notin B => a = b + 1
      /\ d \notin A /\ d \in B => b = a + 1

(* Two sets of sweeps that differ at most in one sweep.                    *)
LEMMA OneMoves ==
  ASSUME NEW A \in SUBSET Sweeps, NEW B \in SUBSET Sweeps, NEW d \in Sweeps,
         A \ {d} = B \ {d}
  PROVE  Moved(A, B, d)
<1> DEFINE a == Cardinality(A)
           b == Cardinality(B)
           n == Cardinality(Sweeps)
           c == Cardinality(A \ {d})
<1>1. /\ IsFiniteSet(A) /\ IsFiniteSet(B) /\ n \in Nat /\ a \in Nat /\ b \in Nat
      /\ a <= n /\ b <= n
  BY SweepAssumption, FS_Subset, FS_CardinalityType
<1>2. IsFiniteSet(A \ {d}) /\ c \in Nat
  BY <1>1, FS_Subset, FS_CardinalityType
<1>3. d \in A => c = a - 1
  BY <1>1, FS_RemoveElement
<1>4. d \notin A => c = a
  <2>1. d \notin A => A \ {d} = A
    OBVIOUS
  <2>2. QED BY <2>1, Zenon
<1>5. d \in B => c = b - 1
  <2>1. d \in B => Cardinality(B \ {d}) = b - 1
    BY <1>1, FS_RemoveElement
  <2>2. QED BY <2>1
<1>6. d \notin B => c = b
  <2>1. d \notin B => A \ {d} = B
    OBVIOUS
  <2>2. QED BY <2>1, Zenon
<1> HIDE DEF a, b, n, c
<1>7. /\ (d \in A <=> d \in B) => b = a
      /\ d \in A /\ d \notin B => a = b + 1
      /\ d \notin A /\ d \in B => b = a + 1
  BY <1>1, <1>2, <1>3, <1>4, <1>5, <1>6
<1>8. QED BY <1>1, <1>7, Zenon DEF Moved, a, b, n

(* One sweep's step, and what it does to the four counts.                  *)
LEMMA SweepMoves ==
  ASSUME SweepTypeOK, NEW d \in Sweeps, NEW held \in Sweep, Doing(d, held)
  PROVE  /\ sweeping' \in [Sweeps -> Sweep]
         /\ sweeping'[d] = held
         /\ \A e \in Sweeps \ {d} : sweeping'[e] = sweeping[e]
         /\ \A r \in Rows :
              /\ Moved(Tellers(sweeping, r), Tellers(sweeping', r), d)
              /\ Moved(Mailers(sweeping, r), Mailers(sweeping', r), d)
         /\ \A r \in Rows, u \in Users :
              /\ Moved(Senders(sweeping, r, u), Senders(sweeping', r, u), d)
              /\ Moved(ToSend(sweeping, r, u), ToSend(sweeping', r, u), d)
<1>1. /\ sweeping' \in [Sweeps -> Sweep] /\ sweeping'[d] = held
      /\ \A e \in Sweeps \ {d} : sweeping'[e] = sweeping[e]
  BY DEF SweepTypeOK, Doing
<1>2. ASSUME NEW r \in Rows
      PROVE  /\ Moved(Tellers(sweeping, r), Tellers(sweeping', r), d)
             /\ Moved(Mailers(sweeping, r), Mailers(sweeping', r), d)
  <2>1. /\ Tellers(sweeping, r) \in SUBSET Sweeps /\ Tellers(sweeping', r) \in SUBSET Sweeps
        /\ Mailers(sweeping, r) \in SUBSET Sweeps /\ Mailers(sweeping', r) \in SUBSET Sweeps
    BY DEF Tellers, Mailers
  <2>2. \A e \in Sweeps \ {d} : /\ e \in Tellers(sweeping, r) <=> e \in Tellers(sweeping', r)
                                /\ e \in Mailers(sweeping, r) <=> e \in Mailers(sweeping', r)
    BY <1>1, Zenon DEF Tellers, Mailers
  <2>3. /\ Tellers(sweeping, r) \ {d} = Tellers(sweeping', r) \ {d}
        /\ Mailers(sweeping, r) \ {d} = Mailers(sweeping', r) \ {d}
    BY <2>1, <2>2
  <2>4. QED BY <2>1, <2>3, OneMoves
<1>3. ASSUME NEW r \in Rows, NEW u \in Users
      PROVE  /\ Moved(Senders(sweeping, r, u), Senders(sweeping', r, u), d)
             /\ Moved(ToSend(sweeping, r, u), ToSend(sweeping', r, u), d)
  <2>1. /\ Senders(sweeping, r, u) \in SUBSET Sweeps /\ Senders(sweeping', r, u) \in SUBSET Sweeps
        /\ ToSend(sweeping, r, u) \in SUBSET Sweeps /\ ToSend(sweeping', r, u) \in SUBSET Sweeps
    BY DEF Senders, ToSend
  <2>2. \A e \in Sweeps \ {d} : /\ e \in Senders(sweeping, r, u) <=> e \in Senders(sweeping', r, u)
                                /\ e \in ToSend(sweeping, r, u) <=> e \in ToSend(sweeping', r, u)
    BY <1>1, Zenon DEF Senders, ToSend
  <2>3. /\ Senders(sweeping, r, u) \ {d} = Senders(sweeping', r, u) \ {d}
        /\ ToSend(sweeping, r, u) \ {d} = ToSend(sweeping', r, u) \ {d}
    BY <2>1, <2>2
  <2>4. QED BY <2>1, <2>3, OneMoves
<1>4. QED BY <1>1, <1>2, <1>3

(* Who has still to tell of a row is not who told of it.                   *)
LEMMA TellersOrMailers ==
  ASSUME NEW held \in [Sweeps -> Sweep], \A d \in Sweeps : SweepSound(held[d]), NEW r \in Rows
  PROVE  /\ Cardinality(Tellers(held, r)) \in Nat /\ Cardinality(Mailers(held, r)) \in Nat
         /\ Cardinality(Sweeps) \in Nat
         /\ Cardinality(Tellers(held, r)) + Cardinality(Mailers(held, r)) <= Cardinality(Sweeps)
<1> DEFINE A == Tellers(held, r)
           B == Mailers(held, r)
<1>1. A \in SUBSET Sweeps /\ B \in SUBSET Sweeps
  BY DEF Tellers, Mailers
<1>2. \A d \in Sweeps : ~(d \in A /\ d \in B)
  BY DEF Tellers, Mailers, WillTell, Mails, SweepSound
<1> HIDE DEF A, B
<1>3. A \cap B = {} /\ A \cup B \in SUBSET Sweeps
  BY <1>1, <1>2
<1>4. /\ IsFiniteSet(A) /\ IsFiniteSet(B) /\ Cardinality(A) \in Nat /\ Cardinality(B) \in Nat
      /\ Cardinality(Sweeps) \in Nat
  BY <1>1, SweepAssumption, FS_Subset, FS_CardinalityType
<1>5. Cardinality(A \cup B) = Cardinality(A) + Cardinality(B) - Cardinality(A \cap B)
  BY <1>4, FS_Union
<1>6. Cardinality(A \cap B) = 0
  BY <1>3, FS_EmptySet
<1>7. Cardinality(A \cup B) <= Cardinality(Sweeps)
  BY <1>3, SweepAssumption, FS_Subset
<1>8. QED BY <1>4, <1>5, <1>6, <1>7 DEF A, B
-----------------------------------------------------------------------------
(* Every step keeps the invariant.                                         *)

(* The pieces the steps need of it, in numbers.                            *)
LEMMA SweepNumbers ==
  ASSUME SweepInv
  PROVE  /\ Cardinality(Sweeps) \in Nat /\ ToldAgain \in Nat /\ deaths + throws \in Nat
         /\ \A r \in Rows, u \in Users :
              /\ inApp[r][u] \in Nat
              /\ mail[r][u] \in Mail
              /\ mail[r][u].pending \in Nat /\ mail[r][u].failed \in Nat /\ mail[r][u].sent \in Nat
<1>1. Cardinality(Sweeps) \in Nat
  BY SweepAssumption, FS_CardinalityType
<1>2. deaths \in Nat /\ throws \in Nat
  BY DEF SweepInv, SweepTypeOK
<1>3. Cardinality(Sweeps) * deaths \in Nat
  BY <1>1, <1>2
<1>4. ToldAgain \in Nat /\ deaths + throws \in Nat
  BY <1>2, <1>3 DEF ToldAgain
<1>5. \A r \in Rows, u \in Users : inApp[r][u] \in Nat /\ mail[r][u] \in Mail
  BY DEF SweepInv, SweepTypeOK
<1>6. QED BY <1>1, <1>4, <1>5 DEF Mail

(* Selecting and taking: nothing is told, and what is selected is rows     *)
(* without a marker, or that nobody was told about.                        *)
LEMMA QuietKeeps ==
  ASSUME SweepInv, NEW d \in Sweeps, NEW held \in Sweep, Doing(d, held), SweepSound(held),
         sweeping[d].at = "next", held.at \in {"next", "persist"}, held.sending = NoUser,
         UNCHANGED <<published, audience, marker, inApp, mail, deaths, throws>>,
         \A r \in Rows : WillTell(held, r) =>
           \/ WillTell(sweeping[d], r)
           \/ r \in Marked \ marker
           \/ r \in Referenced /\ ~Notified(r)
  PROVE  SweepInv'
<1>1. /\ sweeping' \in [Sweeps -> Sweep] /\ sweeping'[d] = held
      /\ \A e \in Sweeps \ {d} : sweeping'[e] = sweeping[e]
  BY SweepMoves DEF SweepInv
<1>2. SweepTypeOK'
  BY <1>1 DEF SweepInv, SweepTypeOK
<1>3. \A e \in Sweeps : SweepSound(sweeping'[e])
  BY <1>1, Zenon DEF SweepInv, SweepsSound
<1>4. sweeping[d].sending = NoUser
  BY DEF SweepInv, SweepsSound, SweepSound
<1>5. ASSUME NEW r \in Rows, NEW u \in Users
      PROVE  /\ RowBounded(r, inApp[r][u], Cardinality(Tellers(sweeping', r)),
                           Cardinality(Mailers(sweeping', r)), ToldAgain, r \in Marked \ marker)
             /\ RowMailed(mail[r][u], inApp[r][u], Cardinality(Senders(sweeping', r, u)),
                          Cardinality(ToSend(sweeping', r, u)), deaths + throws = 0)
  <2>1. /\ d \notin Mailers(sweeping, r) /\ d \notin Mailers(sweeping', r)
        /\ d \notin Senders(sweeping, r, u) /\ d \notin Senders(sweeping', r, u)
        /\ d \notin ToSend(sweeping, r, u) /\ d \notin ToSend(sweeping', r, u)
    BY <1>1, <1>4, SweepAssumption DEF Mailers, Mails, Senders, Sends, ToSend, WillSend
  <2> DEFINE n == Cardinality(Sweeps)
             t == Cardinality(Tellers(sweeping, r))
             t2 == Cardinality(Tellers(sweeping', r))
             m == Cardinality(Mailers(sweeping, r))
             m2 == Cardinality(Mailers(sweeping', r))
             told == inApp[r][u]
             again == ToldAgain
  <2>2. /\ m2 = m
        /\ Cardinality(Senders(sweeping', r, u)) = Cardinality(Senders(sweeping, r, u))
        /\ Cardinality(ToSend(sweeping', r, u)) = Cardinality(ToSend(sweeping, r, u))
    BY <2>1, SweepMoves DEF Moved, SweepInv
  <2>3. /\ n \in Nat /\ t \in Nat /\ t2 \in Nat /\ t2 <= n
        /\ d \in Tellers(sweeping, r) \/ d \notin Tellers(sweeping', r) => t2 <= t
    BY SweepMoves DEF Moved, SweepInv
  <2>4. /\ t2 + m2 <= n /\ m2 \in Nat
    BY <1>1, <1>3, TellersOrMailers
  <2>5. told \in Nat /\ again \in Nat
    BY SweepNumbers
  <2>6. RowBounded(r, told, t, m, again, r \in Marked \ marker)
    BY DEF SweepInv, TellingsBounded
  <2>7. CASE d \in Tellers(sweeping, r) \/ d \notin Tellers(sweeping', r)
    <3>1. t2 <= t
      BY <2>3, <2>7
    <3> HIDE DEF n, t, t2, m, m2, told, again
    <3>2. RowBounded(r, told, t2, m2, again, r \in Marked \ marker)
      BY <2>2, <2>3, <2>4, <2>5, <2>6, <3>1 DEF RowBounded, n
    <3>3. QED BY <2>2, <3>2 DEF SweepInv, MailKept, t2, m2, told, again
  <2>8. CASE d \in Tellers(sweeping', r) /\ d \notin Tellers(sweeping, r)
    <3>1. WillTell(held, r) /\ ~WillTell(sweeping[d], r)
      BY <1>1, <2>8 DEF Tellers
    <3>2. r \in Marked \ marker \/ (r \in Referenced /\ told = 0)
      BY <2>5, <3>1 DEF Notified
    <3> HIDE DEF t, t2, m, m2, told, again
    <3>3. RowBounded(r, told, t2, m2, again, r \in Marked \ marker)
      BY <2>2, <2>3, <2>4, <2>5, <2>6, <3>2 DEF RowBounded, Referenced
    <3>4. QED BY <2>2, <3>3 DEF SweepInv, MailKept, t2, m2, told, again
  <2>9. QED BY <2>7, <2>8
<1>6. QED BY <1>2, <1>3, <1>5 DEF SweepInv, SweepsSound, TellingsBounded, MailKept, ToldAgain
(* A pass begins with what it selected.                                    *)
LEMMA SelectingKeeps ==
  ASSUME SweepInv, NEW d \in Sweeps, NEW pass \in {"marked", "referenced"},
         Doing(d, [Resting EXCEPT !.pass = pass, !.todo = Selected(pass)]),
         sweeping[d].at = "next",
         UNCHANGED <<published, audience, marker, inApp, mail, deaths, throws>>
  PROVE  SweepInv'
<1> DEFINE todo == Selected(pass)
           held == [Resting EXCEPT !.pass = pass, !.todo = todo]
<1>1. /\ todo \in Seq(Rows)
      /\ \A n \in 1 .. Len(todo) : /\ todo[n] \in KindOf(pass)
                                   /\ todo[n] \in Marked \ marker \/ (todo[n] \in Referenced /\ ~Notified(todo[n]))
      /\ \A m, n \in 1 .. Len(todo) : todo[m] = todo[n] => m = n
  BY SelectedSound DEF SweepInv
<1>2. Doing(d, held)
  OBVIOUS
<1> HIDE DEF todo
<1>3. /\ held.pass = pass /\ held.todo = todo /\ held.row = NoRow /\ held.at = "next"
      /\ held.tell = {} /\ held.sending = NoUser
      /\ held \in Sweep
  BY <1>1 DEF Resting, Sweep
<1> HIDE DEF held
<1>4. \A n \in 1 .. Len(todo) : todo[n] # NoRow
  <2>1. KindOf(pass) \subseteq Rows
    BY SweepAssumption DEF KindOf, Referenced
  <2>2. QED BY <1>1, <2>1, SweepAssumption
<1>5. SweepSound(held)
  BY <1>1, <1>3, <1>4 DEF SweepSound
<1>6. \A r \in Rows : WillTell(held, r) =>
        r \in Marked \ marker \/ (r \in Referenced /\ ~Notified(r))
  BY <1>1, <1>3 DEF WillTell
<1>7. QED BY <1>2, <1>3, <1>5, <1>6, QuietKeeps

(* A sweep begins with the marked kinds.                                   *)
LEMMA BeginSweepKeeps ==
  ASSUME SweepInv, NEW d \in Sweeps, BeginSweep(d)
  PROVE  SweepInv'
<1>1. sweeping[d].at = "next"
  BY DEF SweepInv, SweepsSound, SweepSound, BeginSweep
<1>2. QED BY <1>1, SelectingKeeps DEF BeginSweep

(* The pass over the referenced kinds selects anew; the last pass rests.   *)
LEMMA NextPassKeeps ==
  ASSUME SweepInv, NEW d \in Sweeps, NextPass(d)
  PROVE  SweepInv'
<1>1. CASE sweeping[d].pass = "marked"
  BY <1>1, SelectingKeeps DEF NextPass
<1>2. CASE sweeping[d].pass = "referenced"
  <2>1. Resting \in Sweep /\ SweepSound(Resting) /\ \A r \in Rows : ~WillTell(Resting, r)
    BY DEF Resting, Sweep, SweepSound, WillTell
  <2>2. Doing(d, Resting) /\ Resting.at = "next" /\ Resting.sending = NoUser
    BY <1>2 DEF NextPass, Resting
  <2>3. sweeping[d].at = "next" /\ UNCHANGED <<published, audience, marker, inApp, mail, deaths, throws>>
    BY DEF NextPass
  <2>4. QED BY <2>1, <2>2, <2>3, QuietKeeps
<1>3. QED BY <1>1, <1>2 DEF NextPass

(* Taking a row: what was to be told of it still is, or it is passed by.   *)
LEMMA TakeRowKeeps ==
  ASSUME SweepInv, NEW d \in Sweeps, TakeRow(d)
  PROVE  SweepInv'
<1> DEFINE s == sweeping[d]
           r0 == Head(s.todo)
           rest == Tail(s.todo)
           passed == [s EXCEPT !.todo = rest]
           taken == [s EXCEPT !.todo = rest, !.row = r0, !.at = "persist", !.tell = audience[r0]]
<1>1. s \in Sweep /\ SweepSound(s) /\ s.at = "next" /\ s.todo # <<>> /\ s.todo \in Seq(Rows)
  BY DEF SweepInv, SweepTypeOK, SweepsSound, Sweep, TakeRow
<1>2. UNCHANGED <<published, audience, marker, inApp, mail, deaths, throws>>
  BY DEF TakeRow
<1>3. Doing(d, passed) \/ Doing(d, taken)
  BY DEF TakeRow
<1>4. /\ r0 = s.todo[1] /\ r0 \in Rows /\ rest \in Seq(Rows) /\ Len(s.todo) \in Nat
      /\ Len(rest) = Len(s.todo) - 1 /\ Len(s.todo) >= 1
      /\ \A n \in 1 .. Len(rest) : rest[n] = s.todo[n + 1]
  BY <1>1
<1>5. audience[r0] \in SUBSET Users
  BY <1>4 DEF SweepInv, SweepTypeOK
<1> HIDE DEF r0, rest
<1>6. /\ s.row = NoRow /\ s.sending = NoUser /\ s.pass # "none"
  <2>1. s.sending = NoUser /\ s.row = NoRow
    BY <1>1 DEF SweepSound
  <2>2. s.pass # "none"
    BY <1>1 DEF SweepSound
  <2>3. QED BY <2>1, <2>2
<1>7. /\ \A n \in 1 .. Len(rest) : rest[n] \in KindOf(s.pass) /\ rest[n] # NoRow /\ rest[n] # r0
      /\ \A m, n \in 1 .. Len(rest) : rest[m] = rest[n] => m = n
      /\ r0 \in KindOf(s.pass) /\ r0 # NoRow
  <2>1. \A n \in 1 .. Len(rest) : n + 1 \in 1 .. Len(s.todo) /\ n + 1 # 1
    BY <1>4
  <2>2. 1 \in 1 .. Len(s.todo)
    BY <1>4
  <2>3. /\ \A m, n \in 1 .. Len(s.todo) : s.todo[m] = s.todo[n] => m = n
        /\ \A n \in 1 .. Len(s.todo) : s.todo[n] \in KindOf(s.pass) /\ s.todo[n] # NoRow
    BY <1>1, <1>6 DEF SweepSound
  <2>4. \A m, n \in 1 .. Len(rest) : rest[m] = rest[n] => m + 1 = n + 1
    BY <1>4, <2>1, <2>3
  <2>5. \A m, n \in 1 .. Len(rest) : m + 1 = n + 1 => m = n
    OBVIOUS
  <2>6. \A n \in 1 .. Len(rest) : rest[n] # r0
    BY <1>4, <2>1, <2>2, <2>3
  <2>7. QED BY <1>4, <2>1, <2>2, <2>3, <2>4, <2>5, <2>6
<1>8. \A n \in 1 .. Len(rest) : \E k \in 1 .. Len(s.todo) : s.todo[k] = rest[n]
  BY <1>4
<1>9. CASE Doing(d, passed)
  <2>1. /\ passed.todo = rest /\ passed.row = NoRow /\ passed.at = "next" /\ passed.pass = s.pass
        /\ passed.sending = NoUser /\ passed \in Sweep
    BY <1>1, <1>4, <1>6 DEF Sweep
  <2> HIDE DEF passed
  <2>2. SweepSound(passed)
    BY <1>6, <1>7, <2>1 DEF SweepSound
  <2>3. \A r \in Rows : WillTell(passed, r) => WillTell(s, r)
    BY <1>8, <2>1 DEF WillTell
  <2>4. QED BY <1>1, <1>2, <1>9, <2>1, <2>2, <2>3, QuietKeeps
<1>10. CASE Doing(d, taken)
  <2>1. /\ taken.todo = rest /\ taken.row = r0 /\ taken.at = "persist" /\ taken.pass = s.pass
        /\ taken.sending = NoUser /\ taken \in Sweep
    BY <1>1, <1>4, <1>5, <1>6 DEF Sweep
  <2> HIDE DEF taken
  <2>2. SweepSound(taken)
    BY <1>6, <1>7, <2>1 DEF SweepSound
  <2>3. \A r \in Rows : WillTell(taken, r) => WillTell(s, r)
    <3>1. WillTell(s, r0)
      BY <1>4 DEF WillTell
    <3>2. QED BY <1>8, <2>1, <3>1 DEF WillTell
  <2>4. QED BY <1>1, <1>2, <1>10, <2>1, <2>2, <2>3, QuietKeeps
<1>11. QED BY <1>3, <1>9, <1>10
(* What holds of a sweep with a row in hand.                               *)
LEMMA RowInHand ==
  ASSUME SweepInv, NEW d \in Sweeps, sweeping[d].row # NoRow
  PROVE  /\ sweeping[d] \in Sweep /\ SweepSound(sweeping[d]) /\ sweeping[d].row \in Rows
         /\ sweeping[d].at \in {"persist", "mail"}
         /\ \A n \in 1 .. Len(sweeping[d].todo) : sweeping[d].todo[n] # NoRow
BY SweepAssumption DEF SweepInv, SweepTypeOK, SweepsSound, SweepSound, Sweep, KindOf, Referenced

(* Telling of a row: one less has still to, one more is sending its mail.  *)
LEMMA PersistKeeps ==
  ASSUME SweepInv, NEW d \in Sweeps, Persist(d)
  PROVE  SweepInv'
<1> DEFINE s == sweeping[d]
           r0 == s.row
           held == [s EXCEPT !.at = "mail"]
<1>1. /\ s \in Sweep /\ SweepSound(s) /\ s.at = "persist" /\ r0 \in Rows /\ s.sending = NoUser
      /\ s.tell \in SUBSET Users
  BY SweepAssumption DEF SweepInv, SweepTypeOK, SweepsSound, SweepSound, Sweep, KindOf, Referenced, Persist
<1>2. /\ Doing(d, held) /\ UNCHANGED <<published, audience, marker, mail, deaths, throws>>
      /\ inApp' = [inApp EXCEPT ![r0] = [u \in Users |->
                     IF u \in s.tell THEN inApp[r0][u] + 1 ELSE inApp[r0][u]]]
  BY DEF Persist
<1>3. /\ held \in Sweep /\ held.row = r0 /\ held.at = "mail" /\ held.tell = s.tell
      /\ held.todo = s.todo /\ held.pass = s.pass /\ held.sending = NoUser
  BY <1>1 DEF Sweep
<1> HIDE DEF held
<1>4. SweepSound(held)
  BY <1>1, <1>3 DEF SweepSound
<1>5. /\ sweeping' \in [Sweeps -> Sweep] /\ sweeping'[d] = held
      /\ \A e \in Sweeps \ {d} : sweeping'[e] = sweeping[e]
  BY <1>2, <1>3, SweepMoves DEF SweepInv
<1>6. /\ inApp' \in [Rows -> [Users -> Nat]]
      /\ \A r \in Rows, u \in Users :
           inApp'[r][u] = IF r = r0 /\ u \in s.tell THEN inApp[r][u] + 1 ELSE inApp[r][u]
  <2>1. inApp \in [Rows -> [Users -> Nat]]
    BY DEF SweepInv, SweepTypeOK
  <2>2. [u \in Users |-> IF u \in s.tell THEN inApp[r0][u] + 1 ELSE inApp[r0][u]] \in [Users -> Nat]
    BY <1>1, <2>1
  <2>3. QED BY <1>1, <1>2, <2>1, <2>2
<1>7. SweepTypeOK'
  BY <1>2, <1>5, <1>6 DEF SweepInv, SweepTypeOK
<1>8. \A e \in Sweeps : SweepSound(sweeping'[e])
  BY <1>4, <1>5, Zenon DEF SweepInv, SweepsSound
<1>9. ASSUME NEW r \in Rows, NEW u \in Users
      PROVE  /\ RowBounded(r, inApp'[r][u], Cardinality(Tellers(sweeping', r)),
                           Cardinality(Mailers(sweeping', r)), ToldAgain, r \in Marked \ marker)
             /\ RowMailed(mail[r][u], inApp'[r][u], Cardinality(Senders(sweeping', r, u)),
                          Cardinality(ToSend(sweeping', r, u)), deaths + throws = 0)
  <2> DEFINE t == Cardinality(Tellers(sweeping, r))
             t2 == Cardinality(Tellers(sweeping', r))
             m == Cardinality(Mailers(sweeping, r))
             m2 == Cardinality(Mailers(sweeping', r))
             x == Cardinality(Senders(sweeping, r, u))
             x2 == Cardinality(Senders(sweeping', r, u))
             w == Cardinality(ToSend(sweeping, r, u))
             w2 == Cardinality(ToSend(sweeping', r, u))
             n == Cardinality(Sweeps)
             told == inApp[r][u]
             told2 == inApp'[r][u]
             again == ToldAgain
  <2>1. /\ d \in Tellers(sweeping, r) /\ d \notin Tellers(sweeping', r) <=> r = r0
        /\ d \notin Tellers(sweeping, r) /\ d \in Tellers(sweeping', r) <=> FALSE
        /\ d \notin Mailers(sweeping, r)
        /\ d \in Mailers(sweeping', r) <=> r = r0
        /\ d \notin Senders(sweeping, r, u) /\ d \notin Senders(sweeping', r, u)
        /\ d \notin ToSend(sweeping, r, u)
        /\ d \in ToSend(sweeping', r, u) <=> r = r0 /\ u \in s.tell
    BY <1>1, <1>3, <1>5, SweepAssumption
       DEF Tellers, Mailers, Senders, ToSend, WillTell, Mails, Sends, WillSend, SweepSound
  <2>2. /\ n \in Nat /\ t \in Nat /\ t2 \in Nat /\ m \in Nat /\ m2 \in Nat
        /\ x \in Nat /\ x2 \in Nat /\ w \in Nat /\ w2 \in Nat
        /\ t2 = IF r = r0 THEN t - 1 ELSE t
        /\ m2 = IF r = r0 THEN m + 1 ELSE m
        /\ x2 = x
        /\ w2 = IF r = r0 /\ u \in s.tell THEN w + 1 ELSE w
    BY <1>2, <1>3, <2>1, SweepMoves DEF Moved, SweepInv
  <2>3. told \in Nat /\ again \in Nat /\ told2 = IF r = r0 /\ u \in s.tell THEN told + 1 ELSE told
    BY <1>6, SweepNumbers
  <2>4. /\ RowBounded(r, told, t, m, again, r \in Marked \ marker)
        /\ RowMailed(mail[r][u], told, x, w, deaths + throws = 0)
        /\ mail[r][u].pending \in Nat /\ mail[r][u].failed \in Nat /\ mail[r][u].sent \in Nat
    BY SweepNumbers DEF SweepInv, TellingsBounded, MailKept
  <2> HIDE DEF t, t2, m, m2, x, x2, w, w2, told, told2, again
  <2>5. RowBounded(r, told2, t2, m2, again, r \in Marked \ marker)
    BY <2>2, <2>3, <2>4 DEF RowBounded
  <2>6. RowMailed(mail[r][u], told2, x2, w2, deaths + throws = 0)
    BY <2>2, <2>3, <2>4 DEF RowMailed
  <2>7. QED BY <2>5, <2>6 DEF t2, m2, x2, w2, told2, again
<1>10. QED BY <1>2, <1>7, <1>8, <1>9 DEF SweepInv, SweepsSound, TellingsBounded, MailKept, ToldAgain

(* Stamping a row: who told of it is done, and nobody can select it again. *)
LEMMA StampKeeps ==
  ASSUME SweepInv, NEW d \in Sweeps, Stamp(d)
  PROVE  SweepInv'
<1> DEFINE s == sweeping[d]
           r0 == s.row
           held == [s EXCEPT !.row = NoRow, !.at = "next", !.tell = {}, !.sending = NoUser]
<1>1. /\ s \in Sweep /\ SweepSound(s) /\ s.at = "mail" /\ r0 \in Rows /\ s.sending = NoUser
      /\ s.tell = {} /\ \A n \in 1 .. Len(s.todo) : s.todo[n] # NoRow
  BY SweepAssumption DEF SweepInv, SweepTypeOK, SweepsSound, SweepSound, Sweep, KindOf, Referenced, Stamp
<1>2. /\ Doing(d, held) /\ UNCHANGED <<published, audience, inApp, mail, deaths, throws>>
      /\ marker' = IF r0 \in Marked THEN marker \cup {r0} ELSE marker
  BY DEF Stamp, Onward
<1>3. /\ held \in Sweep /\ held.row = NoRow /\ held.at = "next" /\ held.tell = {}
      /\ held.todo = s.todo /\ held.pass = s.pass /\ held.sending = NoUser
  BY <1>1 DEF Sweep
<1> HIDE DEF held
<1>4. SweepSound(held)
  BY <1>1, <1>3 DEF SweepSound
<1>5. /\ sweeping' \in [Sweeps -> Sweep] /\ sweeping'[d] = held
      /\ \A e \in Sweeps \ {d} : sweeping'[e] = sweeping[e]
  BY <1>2, <1>3, SweepMoves DEF SweepInv
<1>6. SweepTypeOK'
  BY <1>2, <1>5 DEF SweepInv, SweepTypeOK
<1>7. \A e \in Sweeps : SweepSound(sweeping'[e])
  BY <1>4, <1>5, Zenon DEF SweepInv, SweepsSound
<1>8. ASSUME NEW r \in Rows, NEW u \in Users
      PROVE  /\ RowBounded(r, inApp[r][u], Cardinality(Tellers(sweeping', r)),
                           Cardinality(Mailers(sweeping', r)), ToldAgain, r \in Marked \ marker')
             /\ RowMailed(mail[r][u], inApp[r][u], Cardinality(Senders(sweeping', r, u)),
                          Cardinality(ToSend(sweeping', r, u)), deaths + throws = 0)
  <2> DEFINE t == Cardinality(Tellers(sweeping, r))
             t2 == Cardinality(Tellers(sweeping', r))
             m == Cardinality(Mailers(sweeping, r))
             m2 == Cardinality(Mailers(sweeping', r))
             told == inApp[r][u]
             again == ToldAgain
  <2>1. /\ d \in Tellers(sweeping, r) <=> d \in Tellers(sweeping', r)
        /\ r # r0 => (d \in Mailers(sweeping, r) <=> d \in Mailers(sweeping', r))
        /\ d \notin Senders(sweeping, r, u) /\ d \notin Senders(sweeping', r, u)
        /\ d \notin ToSend(sweeping, r, u) /\ d \notin ToSend(sweeping', r, u)
    BY <1>1, <1>3, <1>5, SweepAssumption
       DEF Tellers, Mailers, Senders, ToSend, WillTell, Mails, Sends, WillSend
  <2>2. /\ t \in Nat /\ t2 = t /\ m \in Nat /\ (r # r0 => m2 = m)
        /\ Cardinality(Senders(sweeping', r, u)) = Cardinality(Senders(sweeping, r, u))
        /\ Cardinality(ToSend(sweeping', r, u)) = Cardinality(ToSend(sweeping, r, u))
    BY <1>2, <1>3, <2>1, SweepMoves DEF Moved, SweepInv
  <2>3. RowBounded(r, told, t, m, again, r \in Marked \ marker)
    BY DEF SweepInv, TellingsBounded
  <2>4. r \in Marked \ marker' => r # r0 /\ r \in Marked \ marker
    BY <1>2
  <2> HIDE DEF t, t2, m, m2, told, again
  <2>5. RowBounded(r, told, t2, m2, again, r \in Marked \ marker')
    BY <2>2, <2>3, <2>4 DEF RowBounded
  <2>6. QED BY <2>2, <2>5 DEF SweepInv, MailKept, t2, m2, told, again
<1>9. QED BY <1>2, <1>6, <1>7, <1>8 DEF SweepInv, SweepsSound, TellingsBounded, MailKept, ToldAgain

(* A failed row may be told of once more: that is one throw.               *)
LEMMA RowFailsKeeps ==
  ASSUME SweepInv, NEW d \in Sweeps, RowFails(d)
  PROVE  SweepInv'
<1> DEFINE s == sweeping[d]
           held == [s EXCEPT !.row = NoRow, !.at = "next", !.tell = {}, !.sending = NoUser]
<1>1. /\ s \in Sweep /\ SweepSound(s) /\ s.at \in {"persist", "mail"} /\ s.row \in Rows
      /\ \A n \in 1 .. Len(s.todo) : s.todo[n] # NoRow
  BY RowInHand DEF RowFails
<1>2. /\ Doing(d, held) /\ throws' = throws + 1
      /\ UNCHANGED <<published, audience, marker, inApp, mail, deaths>>
  BY DEF RowFails, Onward
<1>3. /\ held \in Sweep /\ held.row = NoRow /\ held.at = "next" /\ held.tell = {}
      /\ held.todo = s.todo /\ held.pass = s.pass /\ held.sending = NoUser
  BY <1>1 DEF Sweep
<1> HIDE DEF held
<1>4. SweepSound(held)
  BY <1>1, <1>3 DEF SweepSound
<1>5. /\ sweeping' \in [Sweeps -> Sweep] /\ sweeping'[d] = held
      /\ \A e \in Sweeps \ {d} : sweeping'[e] = sweeping[e]
  BY <1>2, <1>3, SweepMoves DEF SweepInv
<1>6. SweepTypeOK'
  BY <1>2, <1>5 DEF SweepInv, SweepTypeOK
<1>7. \A e \in Sweeps : SweepSound(sweeping'[e])
  BY <1>4, <1>5, Zenon DEF SweepInv, SweepsSound
<1>8. ToldAgain' = ToldAgain + 1 /\ deaths' + throws' # 0
  <2>1. deaths \in Nat /\ throws \in Nat
    BY DEF SweepInv, SweepTypeOK
  <2>2. Cardinality(Sweeps) * deaths \in Nat
    BY <2>1, SweepNumbers
  <2>3. QED BY <1>2, <2>1, <2>2 DEF ToldAgain
<1>9. ASSUME NEW r \in Rows, NEW u \in Users
      PROVE  /\ RowBounded(r, inApp[r][u], Cardinality(Tellers(sweeping', r)),
                           Cardinality(Mailers(sweeping', r)), ToldAgain + 1, r \in Marked \ marker)
             /\ RowMailed(mail[r][u], inApp[r][u], Cardinality(Senders(sweeping', r, u)),
                          Cardinality(ToSend(sweeping', r, u)), FALSE)
  <2> DEFINE t == Cardinality(Tellers(sweeping, r))
             t2 == Cardinality(Tellers(sweeping', r))
             m == Cardinality(Mailers(sweeping, r))
             m2 == Cardinality(Mailers(sweeping', r))
             x == Cardinality(Senders(sweeping, r, u))
             x2 == Cardinality(Senders(sweeping', r, u))
             n == Cardinality(Sweeps)
             told == inApp[r][u]
             again == ToldAgain
  <2>1. /\ d \in Tellers(sweeping', r) => d \in Tellers(sweeping, r)
        /\ d \notin Mailers(sweeping', r) /\ d \notin Senders(sweeping', r, u)
    BY <1>1, <1>3, <1>5, SweepAssumption DEF Tellers, Mailers, Senders, WillTell, Mails, Sends
  <2>2. /\ n \in Nat /\ t \in Nat /\ t2 \in Nat /\ t2 <= t
        /\ m \in Nat /\ m2 \in Nat /\ m <= m2 + 1
        /\ x \in Nat /\ x2 \in Nat /\ x2 <= x
    BY <1>2, <1>3, <2>1, SweepMoves DEF Moved, SweepInv
  <2>3. told \in Nat /\ again \in Nat /\ mail[r][u].pending \in Nat
    BY SweepNumbers
  <2>4. /\ RowBounded(r, told, t, m, again, r \in Marked \ marker)
        /\ RowMailed(mail[r][u], told, x, Cardinality(ToSend(sweeping, r, u)), deaths + throws = 0)
    BY DEF SweepInv, TellingsBounded, MailKept
  <2> HIDE DEF t, t2, m, m2, x, x2, told, again
  <2>5. RowBounded(r, told, t2, m2, again + 1, r \in Marked \ marker)
    BY <2>2, <2>3, <2>4 DEF RowBounded
  <2>6. x2 <= mail[r][u].pending
    BY <2>2, <2>3, <2>4 DEF RowMailed
  <2>7. QED BY <2>5, <2>6 DEF RowMailed, t2, m2, x2, told, again
<1>10. QED BY <1>2, <1>6, <1>7, <1>8, <1>9 DEF SweepInv, SweepsSound, TellingsBounded, MailKept
MailKeptWith(r0, u0, m0, held) ==
  \A r \in Rows, u \in Users :
    RowMailed(IF r = r0 /\ u = u0 THEN m0 ELSE mail[r][u], inApp[r][u],
              Cardinality(Senders(held, r, u)), Cardinality(ToSend(held, r, u)),
              deaths + throws = 0)

(* The e-mail rows of one person and row change; who has told of what does *)
(* not, nor what is still to be told.                                      *)
LEMMA MailingKeeps ==
  ASSUME SweepInv, NEW d \in Sweeps, NEW held \in Sweep, Doing(d, held),
         sweeping[d].at = "mail", NEW u0 \in Users, NEW m0 \in Mail,
         mail' = [mail EXCEPT ![sweeping[d].row][u0] = m0],
         UNCHANGED <<published, audience, marker, inApp, deaths, throws>>,
         held.pass = sweeping[d].pass, held.todo = sweeping[d].todo,
         held.row = sweeping[d].row, held.at = "mail",
         MailKeptWith(sweeping[d].row, u0, m0, sweeping')
  PROVE  SweepInv'
<1> DEFINE r0 == sweeping[d].row
<1>1. SweepSound(sweeping[d]) /\ r0 \in Rows
  BY SweepAssumption DEF SweepInv, SweepTypeOK, SweepsSound, SweepSound, Sweep, KindOf, Referenced
<1>2. SweepSound(held)
  BY <1>1 DEF SweepSound
<1>3. /\ sweeping' \in [Sweeps -> Sweep] /\ sweeping'[d] = held
      /\ \A e \in Sweeps \ {d} : sweeping'[e] = sweeping[e]
  BY SweepMoves DEF SweepInv
<1>4. /\ mail' \in [Rows -> [Users -> Mail]]
      /\ \A r \in Rows, u \in Users : mail'[r][u] = IF r = r0 /\ u = u0 THEN m0 ELSE mail[r][u]
  BY <1>1 DEF SweepInv, SweepTypeOK
<1>5. SweepTypeOK'
  BY <1>3, <1>4 DEF SweepInv, SweepTypeOK
<1>6. \A e \in Sweeps : SweepSound(sweeping'[e])
  BY <1>2, <1>3, Zenon DEF SweepInv, SweepsSound
<1>7. ASSUME NEW r \in Rows, NEW u \in Users
      PROVE  RowBounded(r, inApp[r][u], Cardinality(Tellers(sweeping', r)),
                        Cardinality(Mailers(sweeping', r)), ToldAgain, r \in Marked \ marker)
  <2>1. /\ d \in Tellers(sweeping, r) <=> d \in Tellers(sweeping', r)
        /\ d \in Mailers(sweeping, r) <=> d \in Mailers(sweeping', r)
    BY <1>3 DEF Tellers, Mailers, WillTell, Mails
  <2>2. /\ Cardinality(Tellers(sweeping', r)) = Cardinality(Tellers(sweeping, r))
        /\ Cardinality(Mailers(sweeping', r)) = Cardinality(Mailers(sweeping, r))
    BY <2>1, SweepMoves DEF Moved, SweepInv
  <2>3. QED BY <2>2 DEF SweepInv, TellingsBounded
<1>8. QED BY <1>3, <1>4, <1>5, <1>6, <1>7 DEF SweepInv, SweepsSound, TellingsBounded, MailKept, MailKeptWith, ToldAgain

(* An e-mail row is written, pending, by who now sends it.                 *)
LEMMA CreateMailKeeps ==
  ASSUME SweepInv, NEW d \in Sweeps, NEW u0 \in Users, CreateMail(d, u0)
  PROVE  SweepInv'
<1> DEFINE s == sweeping[d]
           r0 == s.row
           held == [s EXCEPT !.tell = s.tell \ {u0}, !.sending = u0]
           m0 == [mail[r0][u0] EXCEPT !.pending = mail[r0][u0].pending + 1]
<1>1. /\ s \in Sweep /\ SweepSound(s) /\ s.at = "mail" /\ r0 \in Rows /\ s.sending = NoUser
      /\ s.tell \in SUBSET Users /\ u0 \in s.tell
  BY SweepAssumption DEF SweepInv, SweepTypeOK, SweepsSound, SweepSound, Sweep, KindOf, Referenced, CreateMail
<1>2. mail[r0][u0] \in Mail /\ mail \in [Rows -> [Users -> Mail]]
  BY <1>1, SweepNumbers DEF SweepInv, SweepTypeOK
<1>3. /\ Doing(d, held) /\ UNCHANGED <<published, audience, marker, inApp, deaths, throws>>
      /\ mail' = [mail EXCEPT ![r0][u0] = m0]
  BY <1>1, <1>2 DEF CreateMail, Mail
<1>4. /\ held \in Sweep /\ held.row = r0 /\ held.at = "mail" /\ held.tell = s.tell \ {u0}
      /\ held.todo = s.todo /\ held.pass = s.pass /\ held.sending = u0
  BY <1>1 DEF Sweep
<1>5. /\ m0 \in Mail /\ m0.pending = mail[r0][u0].pending + 1
      /\ m0.failed = mail[r0][u0].failed /\ m0.sent = mail[r0][u0].sent
  BY <1>2 DEF Mail
<1> HIDE DEF held, m0
<1>6. sweeping'[d] = held
  BY <1>3, <1>4, SweepMoves DEF SweepInv
<1>7. ASSUME NEW r \in Rows, NEW u \in Users
      PROVE  RowMailed(IF r = r0 /\ u = u0 THEN m0 ELSE mail[r][u], inApp[r][u],
                       Cardinality(Senders(sweeping', r, u)), Cardinality(ToSend(sweeping', r, u)),
                       deaths + throws = 0)
  <2> DEFINE x == Cardinality(Senders(sweeping, r, u))
             x2 == Cardinality(Senders(sweeping', r, u))
             w == Cardinality(ToSend(sweeping, r, u))
             w2 == Cardinality(ToSend(sweeping', r, u))
             told == inApp[r][u]
  <2>1. /\ d \notin Senders(sweeping, r, u)
        /\ d \in Senders(sweeping', r, u) <=> r = r0 /\ u = u0
        /\ r = r0 /\ u = u0 => d \in ToSend(sweeping, r, u) /\ d \notin ToSend(sweeping', r, u)
        /\ ~(r = r0 /\ u = u0) => (d \in ToSend(sweeping, r, u) <=> d \in ToSend(sweeping', r, u))
    BY <1>1, <1>4, <1>6, SweepAssumption DEF Senders, ToSend, Sends, WillSend
  <2>2. /\ x \in Nat /\ x2 \in Nat /\ w \in Nat /\ w2 \in Nat
        /\ x2 = IF r = r0 /\ u = u0 THEN x + 1 ELSE x
        /\ w2 = IF r = r0 /\ u = u0 THEN w - 1 ELSE w
    BY <1>3, <1>4, <2>1, SweepMoves DEF Moved, SweepInv
  <2>3. /\ RowMailed(mail[r][u], told, x, w, deaths + throws = 0) /\ told \in Nat
        /\ mail[r][u].pending \in Nat /\ mail[r][u].failed \in Nat /\ mail[r][u].sent \in Nat
    BY SweepNumbers DEF SweepInv, MailKept
  <2> HIDE DEF x, x2, w, w2, told
  <2>4. RowMailed(IF r = r0 /\ u = u0 THEN m0 ELSE mail[r][u], told, x2, w2, deaths + throws = 0)
    BY <1>5, <2>2, <2>3 DEF RowMailed
  <2>5. QED BY <2>4 DEF x2, w2, told
<1>8. MailKeptWith(r0, u0, m0, sweeping')
  BY <1>7 DEF MailKeptWith
<1>9. QED BY <1>1, <1>3, <1>4, <1>5, <1>8, MailingKeeps

(* A delivery is written down once, as sent or as failed.                  *)
LEMMA DeliveredCounts ==
  ASSUME NEW m \in [pending : Int, failed : Int, sent : Int], NEW ok \in BOOLEAN
  PROVE  LET n == Delivered(m, ok)
         IN  /\ n \in [pending : Int, failed : Int, sent : Int]
             /\ n.pending = m.pending /\ n.failed >= m.failed /\ n.sent >= m.sent
             /\ n.failed + n.sent = m.failed + m.sent + 1
<1>1. CASE ok
  <2>1. Delivered(m, ok) = [m EXCEPT !.sent = m.sent + 1]
    BY <1>1 DEF Delivered
  <2>2. QED BY <2>1
<1>2. CASE ~ok
  <2>1. Delivered(m, ok) = [m EXCEPT !.failed = m.failed + 1]
    BY <1>2 DEF Delivered
  <2>2. QED BY <2>1
<1>3. QED BY <1>1, <1>2

(* A delivery turns a pending row, which there is, into a settled one.     *)
LEMMA DeliverMailKeeps ==
  ASSUME SweepInv, NEW d \in Sweeps, NEW ok \in BOOLEAN, DeliverMail(d, ok)
  PROVE  SweepInv'
<1> DEFINE s == sweeping[d]
           r0 == s.row
           u0 == s.sending
           held == [s EXCEPT !.sending = NoUser]
           old == mail[r0][u0]
           k == [old EXCEPT !.pending = old.pending - 1]
           m0 == Delivered(k, ok)
<1>1. /\ s \in Sweep /\ SweepSound(s) /\ s.at = "mail" /\ r0 \in Rows /\ u0 \in Users
  BY SweepAssumption DEF SweepInv, SweepTypeOK, SweepsSound, SweepSound, Sweep, KindOf, Referenced, DeliverMail
<1>2. /\ old \in Mail /\ mail \in [Rows -> [Users -> Mail]]
  BY <1>1, SweepNumbers DEF SweepInv, SweepTypeOK
<1>3. /\ Doing(d, held) /\ UNCHANGED <<published, audience, marker, inApp, deaths, throws>>
      /\ mail' = [mail EXCEPT ![r0][u0] = m0]
  BY DEF DeliverMail
<1>4. /\ held \in Sweep /\ held.row = r0 /\ held.at = "mail" /\ held.tell = s.tell
      /\ held.todo = s.todo /\ held.pass = s.pass /\ held.sending = NoUser
  BY <1>1 DEF Sweep
<1>5. /\ m0 \in [pending : Int, failed : Int, sent : Int]
      /\ m0.pending = old.pending - 1 /\ m0.failed >= old.failed /\ m0.sent >= old.sent
      /\ m0.failed + m0.sent = old.failed + old.sent + 1
      /\ old.failed \in Nat /\ old.sent \in Nat
  <2>1. old \in [pending : Nat, failed : Nat, sent : Nat]
    BY <1>2 DEF Mail
  <2>2. /\ k \in [pending : Int, failed : Int, sent : Int] /\ k.pending = old.pending - 1
        /\ k.failed = old.failed /\ k.sent = old.sent
    BY <2>1
  <2> HIDE DEF k
  <2>3. QED BY <2>1, <2>2, DeliveredCounts
<1> HIDE DEF held, m0
<1>6. sweeping'[d] = held
  BY <1>3, <1>4, SweepMoves DEF SweepInv
<1>7. old.pending \in Nat /\ old.pending > 0
  <2>1. d \in Senders(sweeping, r0, u0) /\ d \notin Senders(sweeping', r0, u0)
    BY <1>1, <1>4, <1>6, SweepAssumption DEF Senders, Sends
  <2>2. Cardinality(Senders(sweeping, r0, u0)) > 0 /\ Cardinality(Senders(sweeping, r0, u0)) \in Nat
    BY <1>1, <1>3, <1>4, <2>1, SweepMoves DEF Moved, SweepInv
  <2>3. Cardinality(Senders(sweeping, r0, u0)) <= old.pending
    BY <1>1 DEF SweepInv, MailKept, RowMailed
  <2>4. QED BY <1>1, <2>2, <2>3, SweepNumbers
<1>8. m0 \in Mail
  <2>1. m0.pending \in Nat /\ m0.failed \in Nat /\ m0.sent \in Nat
    BY <1>5, <1>7
  <2>2. QED BY <1>5, <2>1 DEF Mail
<1>9. ASSUME NEW r \in Rows, NEW u \in Users
      PROVE  RowMailed(IF r = r0 /\ u = u0 THEN m0 ELSE mail[r][u], inApp[r][u],
                       Cardinality(Senders(sweeping', r, u)), Cardinality(ToSend(sweeping', r, u)),
                       deaths + throws = 0)
  <2> DEFINE x == Cardinality(Senders(sweeping, r, u))
             x2 == Cardinality(Senders(sweeping', r, u))
             w == Cardinality(ToSend(sweeping, r, u))
             w2 == Cardinality(ToSend(sweeping', r, u))
             told == inApp[r][u]
  <2>1. /\ d \notin Senders(sweeping', r, u)
        /\ d \in Senders(sweeping, r, u) <=> r = r0 /\ u = u0
        /\ d \in ToSend(sweeping, r, u) <=> d \in ToSend(sweeping', r, u)
    BY <1>1, <1>4, <1>6, SweepAssumption DEF Senders, ToSend, Sends, WillSend
  <2>2. /\ x \in Nat /\ x2 \in Nat /\ w \in Nat /\ w2 = w
        /\ x2 = IF r = r0 /\ u = u0 THEN x - 1 ELSE x
    BY <1>3, <1>4, <2>1, SweepMoves DEF Moved, SweepInv
  <2>3. /\ RowMailed(mail[r][u], told, x, w, deaths + throws = 0) /\ told \in Nat
        /\ mail[r][u].pending \in Nat /\ mail[r][u].failed \in Nat /\ mail[r][u].sent \in Nat
    BY SweepNumbers DEF SweepInv, MailKept
  <2> HIDE DEF x, x2, w, w2, told
  <2>4. RowMailed(IF r = r0 /\ u = u0 THEN m0 ELSE mail[r][u], told, x2, w2, deaths + throws = 0)
    BY <1>5, <2>2, <2>3 DEF RowMailed
  <2>5. QED BY <2>4 DEF x2, w2, told
<1>10. MailKeptWith(r0, u0, m0, sweeping')
  BY <1>9 DEF MailKeptWith
<1>11. QED BY <1>1, <1>3, <1>4, <1>8, <1>10, MailingKeeps

(* A retry takes a failed row and settles it again: their sum stays.       *)
LEMMA RetryMailKeeps ==
  ASSUME SweepInv, NEW r0 \in Rows, NEW u0 \in Users, NEW ok \in BOOLEAN, RetryMail(r0, u0, ok)
  PROVE  SweepInv'
<1> DEFINE old == mail[r0][u0]
           k == [old EXCEPT !.failed = old.failed - 1]
           m0 == Delivered(k, ok)
<1>1. /\ old \in Mail /\ mail \in [Rows -> [Users -> Mail]]
  BY SweepNumbers DEF SweepInv, SweepTypeOK
<1>2. /\ UNCHANGED <<published, audience, marker, inApp, sweeping, deaths, throws>>
      /\ old.failed > 0 /\ mail' = [mail EXCEPT ![r0][u0] = m0]
  BY DEF RetryMail
<1>3. /\ m0 \in Mail /\ m0.pending = old.pending
      /\ m0.failed + m0.sent = old.failed + old.sent
  <2>0. old \in [pending : Nat, failed : Nat, sent : Nat]
    BY <1>1 DEF Mail
  <2>1. /\ k \in [pending : Int, failed : Int, sent : Int] /\ k.pending = old.pending
        /\ k.failed = old.failed - 1 /\ k.sent = old.sent
        /\ old.pending \in Nat /\ old.failed \in Nat /\ old.sent \in Nat
    BY <2>0
  <2> HIDE DEF k
  <2>2. /\ m0 \in [pending : Int, failed : Int, sent : Int]
        /\ m0.pending = k.pending /\ m0.failed >= k.failed /\ m0.sent >= k.sent
        /\ m0.failed + m0.sent = k.failed + k.sent + 1
    BY <2>1, DeliveredCounts
  <2> HIDE DEF m0
  <2>3. m0.pending \in Nat /\ m0.failed \in Nat /\ m0.sent \in Nat
    BY <1>2, <2>1, <2>2
  <2>4. m0 \in Mail
    BY <2>2, <2>3 DEF Mail
  <2>5. QED BY <2>1, <2>2, <2>4
<1> HIDE DEF m0
<1>4. /\ mail' \in [Rows -> [Users -> Mail]]
      /\ \A r \in Rows, u \in Users : mail'[r][u] = IF r = r0 /\ u = u0 THEN m0 ELSE mail[r][u]
  BY <1>1, <1>2, <1>3
<1>5. SweepTypeOK' /\ SweepsSound'
  BY <1>2, <1>4 DEF SweepInv, SweepTypeOK, SweepsSound
<1>6. ASSUME NEW r \in Rows, NEW u \in Users
      PROVE  RowMailed(mail'[r][u], inApp[r][u], Cardinality(Senders(sweeping, r, u)),
                       Cardinality(ToSend(sweeping, r, u)), deaths + throws = 0)
  <2> DEFINE x == Cardinality(Senders(sweeping, r, u))
             w == Cardinality(ToSend(sweeping, r, u))
             m == mail'[r][u]
             told == inApp[r][u]
  <2>1. x \in Nat /\ w \in Nat
    BY SweepAssumption, FS_Subset, FS_CardinalityType DEF Senders, ToSend
  <2>2. /\ RowMailed(mail[r][u], told, x, w, deaths + throws = 0) /\ told \in Nat
        /\ mail[r][u].pending \in Nat /\ mail[r][u].failed \in Nat /\ mail[r][u].sent \in Nat
    BY SweepNumbers DEF SweepInv, MailKept
  <2>3. /\ m.pending = mail[r][u].pending /\ m.failed \in Nat /\ m.sent \in Nat
        /\ m.failed + m.sent = mail[r][u].failed + mail[r][u].sent
    BY <1>3, <1>4, SweepNumbers DEF Mail
  <2> HIDE DEF x, w, m, told
  <2>4. RowMailed(m, told, x, w, deaths + throws = 0)
    BY <2>1, <2>2, <2>3 DEF RowMailed
  <2>5. QED BY <2>4 DEF x, w, m, told
<1>7. TellingsBounded' /\ MailKept'
  BY <1>2, <1>6 DEF SweepInv, TellingsBounded, MailKept, ToldAgain
<1>8. QED BY <1>5, <1>7 DEF SweepInv

(* A crash takes sweeps away and as many tellings may have to be repeated. *)
LEMMA CrashKeeps ==
  ASSUME SweepInv, NEW ds \in SUBSET Sweeps, Crash(ds)
  PROVE  SweepInv'
<1>1. /\ UNCHANGED <<published, audience, marker, inApp, mail, throws>> /\ deaths' = deaths + 1
      /\ sweeping' = [d \in Sweeps |-> IF d \in ds THEN Resting ELSE sweeping[d]]
  BY DEF Crash
<1>2. /\ Resting \in Sweep /\ SweepSound(Resting) /\ Resting.todo = <<>> /\ Resting.row = NoRow
      /\ Resting.at = "next"
  BY DEF Resting, Sweep, SweepSound
<1>3. sweeping' \in [Sweeps -> Sweep] /\ \A d \in Sweeps : SweepSound(sweeping'[d])
  BY <1>1, <1>2 DEF SweepInv, SweepTypeOK, SweepsSound
<1>4. SweepTypeOK' /\ SweepsSound'
  BY <1>1, <1>3 DEF SweepInv, SweepTypeOK, SweepsSound
<1>5. ToldAgain' = ToldAgain + Cardinality(Sweeps) /\ deaths' + throws' # 0
  <2> DEFINE n == Cardinality(Sweeps)
  <2>1. n \in Nat /\ deaths \in Nat /\ throws \in Nat
    BY SweepNumbers DEF SweepInv, SweepTypeOK
  <2> HIDE DEF n
  <2>2. n * (deaths + 1) = n * deaths + n /\ n * deaths \in Nat
    BY <2>1
  <2>3. QED BY <1>1, <2>1, <2>2 DEF ToldAgain, n
<1>6. ASSUME NEW r \in Rows, NEW u \in Users
      PROVE  /\ RowBounded(r, inApp[r][u], Cardinality(Tellers(sweeping', r)),
                           Cardinality(Mailers(sweeping', r)), ToldAgain + Cardinality(Sweeps),
                           r \in Marked \ marker)
             /\ RowMailed(mail[r][u], inApp[r][u], Cardinality(Senders(sweeping', r, u)),
                          Cardinality(ToSend(sweeping', r, u)), FALSE)
  <2> DEFINE t == Cardinality(Tellers(sweeping, r))
             t2 == Cardinality(Tellers(sweeping', r))
             m == Cardinality(Mailers(sweeping, r))
             m2 == Cardinality(Mailers(sweeping', r))
             x == Cardinality(Senders(sweeping, r, u))
             x2 == Cardinality(Senders(sweeping', r, u))
             n == Cardinality(Sweeps)
             told == inApp[r][u]
             again == ToldAgain
  <2>1. /\ Tellers(sweeping, r) \in SUBSET Sweeps /\ Mailers(sweeping, r) \in SUBSET Sweeps
        /\ Mailers(sweeping', r) \in SUBSET Sweeps /\ Senders(sweeping, r, u) \in SUBSET Sweeps
    BY DEF Tellers, Mailers, Senders
  <2>2. /\ Tellers(sweeping', r) \in SUBSET Tellers(sweeping, r)
        /\ Senders(sweeping', r, u) \in SUBSET Senders(sweeping, r, u)
    <3>1. ~WillTell(Resting, r) /\ ~Sends(Resting, r, u)
      BY <1>2, SweepAssumption DEF WillTell, Sends
    <3>2. \A d \in Sweeps : /\ WillTell(sweeping'[d], r) => WillTell(sweeping[d], r)
                            /\ Sends(sweeping'[d], r, u) => Sends(sweeping[d], r, u)
      BY <1>1, <3>1
    <3>3. QED BY <3>2 DEF Tellers, Senders
  <2>3. /\ n \in Nat /\ t \in Nat /\ t2 \in Nat /\ t2 <= t /\ m \in Nat /\ m <= n /\ m2 \in Nat
        /\ x \in Nat /\ x2 \in Nat /\ x2 <= x
    BY <2>1, <2>2, SweepAssumption, FS_Subset, FS_CardinalityType
  <2>4. told \in Nat /\ again \in Nat /\ mail[r][u].pending \in Nat
    BY SweepNumbers
  <2>5. /\ RowBounded(r, told, t, m, again, r \in Marked \ marker)
        /\ RowMailed(mail[r][u], told, x, Cardinality(ToSend(sweeping, r, u)), deaths + throws = 0)
    BY DEF SweepInv, TellingsBounded, MailKept
  <2> HIDE DEF t, t2, m, m2, x, x2, told, again
  <2>6. RowBounded(r, told, t2, m2, again + n, r \in Marked \ marker)
    BY <2>3, <2>4, <2>5 DEF RowBounded
  <2>7. x2 <= mail[r][u].pending
    BY <2>3, <2>4, <2>5 DEF RowMailed
  <2>8. QED BY <2>6, <2>7 DEF RowMailed, t2, m2, x2, told, again
<1>7. QED BY <1>1, <1>4, <1>5, <1>6 DEF SweepInv, TellingsBounded, MailKept

(* All the steps.                                                          *)
LEMMA SweepNextKeeps ==
  ASSUME SweepInv, [SweepNext]_sweepVars
  PROVE  SweepInv'
<1>1. ASSUME NEW r \in Rows, Publish(r) PROVE SweepInv'
  BY <1>1 DEF Publish, SweepInv, SweepTypeOK, SweepsSound, TellingsBounded, MailKept, ToldAgain
<1>2. ASSUME NEW r \in Rows, NEW u \in Users, Link(r, u) PROVE SweepInv'
  <2>1. SweepTypeOK'
    BY <1>2 DEF Link, SweepInv, SweepTypeOK
  <2>2. QED BY <1>2, <2>1 DEF Link, SweepInv, SweepsSound, TellingsBounded, MailKept, ToldAgain
<1>3. CASE UNCHANGED sweepVars
  BY <1>3 DEF sweepVars, SweepInv, SweepTypeOK, SweepsSound, TellingsBounded, MailKept, ToldAgain
<1>4. QED
  BY <1>1, <1>2, <1>3, RetryMailKeeps, BeginSweepKeeps, NextPassKeeps, TakeRowKeeps, PersistKeeps,
     StampKeeps, CreateMailKeeps, DeliverMailKeeps, RowFailsKeeps, CrashKeeps
  DEF SweepNext, SweepWork

(* Nothing selected, told or written.                                      *)
LEMMA SweepInitHolds ==
  SweepInit => SweepInv
<1> SUFFICES ASSUME SweepInit PROVE SweepInv
  OBVIOUS
<1>1. /\ Resting \in Sweep /\ SweepSound(Resting) /\ Resting.todo = <<>> /\ Resting.row = NoRow
      /\ Resting.at = "next"
  BY DEF Resting, Sweep, SweepSound
<1>2. SweepTypeOK /\ SweepsSound
  BY <1>1 DEF SweepInit, SweepTypeOK, SweepsSound, Mail
<1>3. ASSUME NEW r \in Rows, NEW u \in Users
      PROVE  /\ Cardinality(Tellers(sweeping, r)) = 0 /\ Cardinality(Mailers(sweeping, r)) = 0
             /\ Cardinality(Senders(sweeping, r, u)) = 0 /\ Cardinality(ToSend(sweeping, r, u)) = 0
             /\ inApp[r][u] = 0 /\ mail[r][u] = [pending |-> 0, failed |-> 0, sent |-> 0]
  <2>1. /\ Tellers(sweeping, r) = {} /\ Mailers(sweeping, r) = {}
        /\ Senders(sweeping, r, u) = {} /\ ToSend(sweeping, r, u) = {}
    BY <1>1, SweepAssumption
       DEF SweepInit, Tellers, Mailers, Senders, ToSend, WillTell, Mails, Sends, WillSend
  <2>2. QED BY <2>1, FS_EmptySet DEF SweepInit
<1>4. Cardinality(Sweeps) \in Nat /\ ToldAgain \in Nat
  <2>1. Cardinality(Sweeps) \in Nat
    BY SweepAssumption, FS_CardinalityType
  <2>2. QED BY <2>1 DEF SweepInit, ToldAgain
<1>5. QED BY <1>2, <1>3, <1>4 DEF SweepInv, TellingsBounded, MailKept, RowBounded, RowMailed

(* What the dispatch task's rows, sweeps and mail owe each other, always.  *)
THEOREM SweepInvHolds ==
  SweepSpec => []SweepInv
BY SweepInitHolds, SweepNextKeeps, PTL DEF SweepSpec

(* Types: the sweeps, the rows and the mail they write stay of their       *)
(* kinds; no e-mail row's count ever goes below nought.                    *)
THEOREM NotificationsTyped ==
  SweepSpec => []SweepTypeOK
<1>1. SweepInv => SweepTypeOK
  BY DEF SweepInv
<1>2. QED BY <1>1, SweepInvHolds, PTL

(* However many sweeps run at once and wherever they die, nobody is told   *)
(* of a row more often than sweeps had selected it, and of a marked row    *)
(* once more for each that ended between the telling and the marker.       *)
THEOREM NobodyToldForEver ==
  SweepSpec => []RepeatsBounded
<1>1. SweepInv => RepeatsBounded
  <2> SUFFICES ASSUME SweepInv, NEW r \in Rows, NEW u \in Users
               PROVE  inApp[r][u] <= Cardinality(Sweeps) + (IF r \in Marked THEN ToldAgain ELSE 0)
    BY DEF RepeatsBounded
  <2>1. Cardinality(Tellers(sweeping, r)) \in Nat
    BY SweepAssumption, FS_Subset, FS_CardinalityType DEF Tellers
  <2>2. QED BY <2>1, SweepNumbers DEF SweepInv, TellingsBounded, RowBounded
<1>2. QED BY <1>1, SweepInvHolds, PTL

(* While no sweep died and no statement failed, every telling has its      *)
(* e-mail row, written or about to be, and what is pending is being sent.  *)
THEOREM EveryTellingMailed ==
  SweepSpec => []MailAccounted
<1>1. SweepInv => MailAccounted
  BY DEF SweepInv, MailKept, RowMailed, MailAccounted, Senders, Sends, ToSend, WillSend
<1>2. QED BY <1>1, SweepInvHolds, PTL
=============================================================================
