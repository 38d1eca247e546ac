---------------------------- MODULE Gates_proofs ----------------------------
(***************************************************************************)
(* For any updates, accounts, settings and limits: the throttle's lock and *)
(* its cap, and the settings cache, do what the middlewares count on; and  *)
(* the types.                                                              *)
(***************************************************************************)
EXTENDS Gates, WellFoundedInduction, TLAPS

(* The lock.                                                               *)

LockTyped ==
    /\ now      \in Nat
    /\ pc       \in [Tasks -> Places]
    /\ begun    \in [Tasks -> Nat]
    /\ inFlight \in [Accounts -> Nat \cup {None}]

\* While no handler of its account has been slow, the lock is that of the running
\* handler, and as old.
OwnsLock(x) ==
    pc[x] \in Handling /\ From[x] \notin slow =>
        /\ inFlight[From[x]] = begun[x]
        /\ begun[x] <= now /\ now - begun[x] < LockTTL

LockInv == LockTyped /\ LockIsHeld /\ OneHandlerAtATime /\ \A x \in Tasks : OwnsLock(x)

\* At the start nobody runs and nobody is locked.
LEMMA InitLockInv == Init => LockInv
  BY GatesAssumption, SettingsAssumption
     DEF Init, SettingsInit, LockInv, LockTyped, LockIsHeld, OneHandlerAtATime, OwnsLock,
         Running, Handling, Places

\* A step of an update that neither enters nor leaves its handler.
LEMMA MovesOn ==
    ASSUME LockInv, NEW x \in Tasks, NEW l \in Places, Goes(x, l),
           l \in Handling <=> pc[x] \in Handling,
           UNCHANGED <<now, begun, inFlight, slow>>
    PROVE  LockInv'
  <1>1. LockTyped'
    BY DEF LockInv, LockTyped, Goes
  <1>2. \A y \in Tasks : pc'[y] \in Handling <=> pc[y] \in Handling
    BY DEF LockInv, LockTyped, Goes
  <1>3. \A a \in Accounts : Running(a)' = Running(a)
    BY <1>2 DEF Running
  <1>4. LockIsHeld' /\ OneHandlerAtATime'
    BY <1>3 DEF LockInv, LockIsHeld, OneHandlerAtATime
  <1>5. \A y \in Tasks : OwnsLock(y)'
    BY <1>2 DEF LockInv, OwnsLock
  <1>6. QED
    BY <1>1, <1>4, <1>5 DEF LockInv

\* The verdict of the gates: turned away, or let in to a free lock.
LEMMA JudgedLock ==
    ASSUME LockInv, NEW x \in Tasks, NEW on, pc[x] \in {"gate", "gateLoaded"},
           Judged(x, on), now' = now
    PROVE  LockInv'
  <1> DEFINE a == From[x]
  <1> USE GatesAssumption
  <1>0. a \in Accounts /\ pc[x] \notin Handling /\ slow' = slow
    BY DEF Accounts, Handling, Judged
  <1>1. ASSUME pc' = [pc EXCEPT ![x] = "gone"],
               inFlight' = inFlight \/ (/\ LockIsFree(a)
                                        /\ inFlight' = [inFlight EXCEPT ![a] = None]),
               begun' = [begun EXCEPT ![x] = 0]
        PROVE  LockInv'
    <2>1. LockTyped'
      BY <1>1 DEF LockInv, LockTyped, Places
    <2>2. \A b \in Accounts : Running(b)' = Running(b)
      BY <1>0, <1>1 DEF LockInv, LockTyped, Running, Handling
    <2>3. LockIsHeld' /\ OneHandlerAtATime'
      BY <1>0, <1>1, <2>2 DEF LockInv, LockTyped, LockIsHeld, OneHandlerAtATime
    <2>4. ASSUME NEW y \in Tasks, OwnsLock(y)
          PROVE  OwnsLock(y)'
      <3>1. CASE y = x
        BY <3>1, <1>1 DEF LockInv, LockTyped, OwnsLock, Handling
      <3>2. CASE y # x /\ From[y] = a /\ LockIsFree(a)
            \* A free lock is nobody's: the running handler would be slow.
        BY <3>2, <2>4, <1>0, <1>1 DEF LockInv, LockTyped, OwnsLock, LockIsFree
      <3>3. CASE y # x /\ (From[y] # a \/ ~LockIsFree(a))
        BY <3>3, <2>4, <1>0, <1>1 DEF LockInv, LockTyped, OwnsLock, Accounts
      <3>4. QED
        BY <3>1, <3>2, <3>3
    <2>5. QED
      BY <2>1, <2>3, <2>4 DEF LockInv
  <1>2. ASSUME LockIsFree(a), pc' = [pc EXCEPT ![x] = "handler"],
               inFlight' = [inFlight EXCEPT ![a] = now], begun' = [begun EXCEPT ![x] = now]
        PROVE  LockInv'
    <2>1. LockTyped'
      BY <1>0, <1>2 DEF LockInv, LockTyped, Places
    <2>2. \A y \in Tasks \ {x} : From[y] = a /\ pc[y] \in Handling => a \in slow
      BY <1>2, <1>0 DEF LockInv, LockTyped, OwnsLock, LockIsFree
    <2>3. x \in Running(a)' /\ \A b \in Accounts : Running(b)' \subseteq Running(b) \cup {x}
      BY <1>2 DEF LockInv, LockTyped, Running, Handling
    <2>4. \A b \in Accounts \ {a} : x \notin Running(b)'
      BY DEF Running
    <2>5. \A b \in Accounts : Running(b) \subseteq Running(b)'
      BY <1>0, <1>2 DEF LockInv, LockTyped, Running
    <2>6. LockIsHeld'
      BY <1>0, <1>2, <2>3, <2>5 DEF LockInv, LockTyped, LockIsHeld
    <2>7. OneHandlerAtATime'
      <3> SUFFICES ASSUME NEW b \in Accounts, NEW y \in Running(b)', NEW z \in Running(b)', y # z
                   PROVE  b \in slow
        BY <1>0 DEF OneHandlerAtATime
      <3>1. CASE b # a
        BY <3>1, <2>3, <2>4 DEF LockInv, OneHandlerAtATime
      <3>2. CASE b = a
        BY <3>2, <2>2, <2>3 DEF LockInv, OneHandlerAtATime, Running
      <3>3. QED
        BY <3>1, <3>2
    <2>8. ASSUME NEW y \in Tasks, OwnsLock(y)
          PROVE  OwnsLock(y)'
      <3>1. CASE y = x
        BY <3>1, <1>0, <1>2 DEF LockInv, LockTyped, OwnsLock
      <3>2. CASE y # x /\ From[y] = a
        BY <3>2, <2>2, <1>0, <1>2 DEF LockInv, LockTyped, OwnsLock
      <3>3. CASE From[y] # a
        BY <3>3, <2>8, <1>0, <1>2 DEF LockInv, LockTyped, OwnsLock, Accounts
      <3>4. QED
        BY <3>1, <3>2, <3>3
    <2>9. QED
      BY <2>1, <2>6, <2>7, <2>8 DEF LockInv
  <1>3. \/ Cancelled(x) \/ Throttled(x) \/ LetIn(x)
    BY DEF Judged
  <1>4. x \in DOMAIN pc
    BY DEF LockInv, LockTyped
  <1>5. CASE Cancelled(x)
    BY <1>1, <1>4, <1>5 DEF Cancelled, Goes, Judged
  <1>6. CASE Throttled(x)
    BY <1>1, <1>4, <1>6 DEF Throttled, Goes, Judged
  <1>7. CASE LetIn(x)
    BY <1>2, <1>4, <1>7 DEF LetIn, Goes, Judged
  <1>8. QED
    BY <1>3, <1>5, <1>6, <1>7

\* A handler's end frees the account, and leaves a second handler of it unlocked
\* only where one has been slow.
LEMMA FinishesLock ==
    ASSUME LockInv, NEW x \in Tasks, Finishes(x)
    PROVE  LockInv'
  <1> USE GatesAssumption
  <1> DEFINE a == From[x]
  <1>0. a \in Accounts /\ pc[x] \in Handling /\ slow' = slow /\ now' = now /\ x \in Running(a)
    BY DEF Accounts, Handling, Finishes, Running
  <1>1. pc' = [pc EXCEPT ![x] = "gone"] /\ inFlight' = [inFlight EXCEPT ![a] = None]
        /\ begun' = [begun EXCEPT ![x] = 0]
    BY DEF Finishes, Goes
  <1>2. LockTyped'
    BY <1>0, <1>1 DEF LockInv, LockTyped, Places
  <1>3. \A b \in Accounts : Running(b)' \subseteq Running(b)
    BY <1>1 DEF LockInv, LockTyped, Running, Handling
  <1>4. \A b \in Accounts \ {a} : Running(b)' = Running(b)
    BY <1>1 DEF LockInv, LockTyped, Running
  <1>5. LockIsHeld'
    BY <1>0, <1>1, <1>4 DEF LockInv, LockTyped, LockIsHeld
  <1>6. OneHandlerAtATime'
    BY <1>0, <1>3 DEF LockInv, OneHandlerAtATime
  <1>7. ASSUME NEW y \in Tasks, OwnsLock(y)
        PROVE  OwnsLock(y)'
    <2>1. CASE y = x
      BY <2>1, <1>1 DEF LockInv, LockTyped, OwnsLock, Handling
    <2>2. CASE y # x /\ From[y] = a
      BY <2>2, <1>0, <1>1 DEF LockInv, LockTyped, OwnsLock, OneHandlerAtATime, Running
    <2>3. CASE From[y] # a
      BY <2>3, <1>7, <1>0, <1>1 DEF LockInv, LockTyped, OwnsLock, Accounts
    <2>4. QED
      BY <2>1, <2>2, <2>3
  <1>8. QED
    BY <1>2, <1>5, <1>6, <1>7 DEF LockInv

\* The tick at which a lock turns leaked makes the account of its handler slow.
LEMMA TimePassesLock ==
    ASSUME LockInv, TimePasses
    PROVE  LockInv'
  <1> USE GatesAssumption
  <1>1. now' = now + 1 /\ UNCHANGED <<pc, begun, inFlight>>
    BY DEF TimePasses, Tick
  <1>2. slow \subseteq slow'
    BY DEF TimePasses
  <1>3. LockTyped' /\ \A a \in Accounts : Running(a)' = Running(a)
    BY <1>1 DEF LockInv, LockTyped, Running
  <1>4. LockIsHeld' /\ OneHandlerAtATime'
    BY <1>1, <1>2, <1>3 DEF LockInv, LockIsHeld, OneHandlerAtATime
  <1>5. ASSUME NEW y \in Tasks, OwnsLock(y)
        PROVE  OwnsLock(y)'
    <2> SUFFICES ASSUME pc'[y] \in Handling, From[y] \notin slow'
                 PROVE  /\ inFlight'[From[y]] = begun'[y]
                        /\ begun'[y] <= now' /\ now' - begun'[y] < LockTTL
      BY DEF OwnsLock
    <2>1. From[y] \in Accounts /\ y \in Running(From[y])
      BY <1>1 DEF Accounts, Running
    <2>2. ~(now + 1 - begun[y] >= LockTTL)
      BY <2>1 DEF TimePasses
    <2>3. QED
      BY <1>1, <1>2, <1>5, <2>2 DEF LockInv, LockTyped, OwnsLock
  <1>6. QED
    BY <1>3, <1>4, <1>5 DEF LockInv

\* Every step keeps the lock with the writer that holds it.
LEMMA NextLockInv == LockInv /\ [Next]_vars => LockInv'
  <1> SUFFICES ASSUME LockInv, [Next]_vars
               PROVE  LockInv'
    OBVIOUS
  <1>1. CASE UNCHANGED vars
    BY <1>1 DEF vars, settingsVars, gateVars, LockInv, LockTyped, LockIsHeld,
                OneHandlerAtATime, OwnsLock, Running
  <1>2. ASSUME NEW k \in Keys, WrittenOutside(k)
        PROVE  LockInv'
    BY <1>2 DEF WrittenOutside, LockInv, LockTyped, LockIsHeld, OneHandlerAtATime,
                OwnsLock, Running
  <1>3. CASE TimePasses
    BY <1>3, TimePassesLock
  <1>4. ASSUME NEW x \in Tasks
        PROVE  /\ (\E s \in Statuses : Arrives(x, s)) => LockInv'
               /\ AsksTable(x) => LockInv'
               /\ TableReads(x) => LockInv'
               /\ StepsCached(x) => LockInv'
               /\ StepsLoading(x) => LockInv'
               /\ StepResumes(x) => LockInv'
               /\ Commits(x) => LockInv'
               /\ Committed(x) => LockInv'
    BY MovesOn DEF Arrives, AsksTable, TableReads, StepsCached, StepsLoading, StepResumes,
                   Commits, Committed, Loads, Stores, Caches, StaysGated, settingsVars,
                   Handling, Places
  <1>5. ASSUME NEW x \in Tasks, PassesGates(x) \/ TableAnswered(x)
        PROVE  LockInv'
    BY <1>5, JudgedLock DEF PassesGates, TableAnswered, settingsVars
  <1>6. ASSUME NEW x \in Tasks, Finishes(x)
        PROVE  LockInv'
    BY <1>6, FinishesLock
  <1>7. QED
    BY <1>1, <1>2, <1>3, <1>4, <1>5, <1>6 DEF Next

\* Two handlers of one account run at once only after one of its handlers has run
\* for IN_FLIGHT_TTL, for any number of updates and accounts (throttle.py:39).
THEOREM OneHandlerAtATimeHolds == Spec => []OneHandlerAtATime
  <1>1. LockInv => OneHandlerAtATime
    BY DEF LockInv
  <1>2. QED
    BY InitLockInv, NextLockInv, <1>1, PTL DEF Spec

\* A lock is held only while a handler of its account runs (throttle.py:3).
THEOREM LockIsHeldHolds == Spec => []LockIsHeld
  <1>1. LockInv => LockIsHeld
    BY DEF LockInv
  <1>2. QED
    BY InitLockInv, NextLockInv, <1>1, PTL DEF Spec

-----------------------------------------------------------------------------
(* The settings.                                                           *)

\* The table, and when it last held each value.
TableInv ==
    /\ now \in Nat
    /\ DOMAIN stored = Keys /\ DOMAIN heldAt = Keys
    /\ \A k \in Keys :
         /\ stored[k] \in Values(k)
         /\ heldAt[k] \in [Values(k) -> Nat]
         /\ heldAt[k][stored[k]] = now
         /\ \A v \in Values(k) : heldAt[k][v] <= now

\* An entry does not outlive the value it copies by more than CACHE_TTL.
Dated(k) ==
    cache[k] # NoEntry =>
        /\ cache[k] \in [value : Values(k), deadline : Nat]
        /\ cache[k].deadline <= heldAt[k][cache[k].value] + CacheTTL

\* What a task holds at an await has just been in the table, or will be in it.
HoldsRecent(x) ==
    /\ pc[x] = "gateLoaded" =>
         /\ loaded[x] \in Values(Maintenance)
         /\ heldAt[Maintenance][loaded[x]] = now
    /\ pc[x] \in {"stepLoaded", "write", "written"} => loaded[x] \in Values(Button[x])
    /\ pc[x] = "stepLoaded" => heldAt[Button[x]][loaded[x]] = now
    /\ pc[x] = "written" => heldAt[Button[x]][Following(Button[x], loaded[x])] = now

CacheInv ==
    /\ TableInv
    /\ DOMAIN cache = Keys /\ \A k \in Keys : Dated(k)
    /\ DOMAIN loaded = Tasks /\ pc \in [Tasks -> Places]
    /\ \A x \in Tasks : HoldsRecent(x)

\* One value of a setting is stamped.
LEMMA Stamped ==
    ASSUME NEW S, NEW f \in [S -> Nat], NEW s \in S, NEW n \in Nat
    PROVE  /\ [f EXCEPT ![s] = n] \in [S -> Nat]
           /\ [f EXCEPT ![s] = n][s] = n
           /\ \A v \in S : [f EXCEPT ![s] = n][v] \in {f[v], n}
  OBVIOUS

\* A button steps from one value of its setting to another.
LEMMA FollowingIsValue ==
    ASSUME NEW k \in Keys, NEW v \in Values(k)
    PROVE  Following(k, v) \in Values(k)
  <1> DEFINE at == CHOOSE i \in DOMAIN Cycle[k] : Cycle[k][i] = v
             n  == Len(Cycle[k])
  <1>1. Cycle[k] \in Seq(Values(k)) /\ n \in Nat \ {0} /\ DOMAIN Cycle[k] = 1..n
    BY SettingsAssumption
  <1>2. at \in DOMAIN Cycle[k]
    BY DEF Values
  <1>3. (at % n) + 1 \in DOMAIN Cycle[k]
    BY <1>1, <1>2
  <1>4. QED
    BY <1>3 DEF Following, Values

\* A transaction of a task, or of another process.
LEMMA StoresTable ==
    ASSUME CacheInv, NEW k \in Keys, NEW v \in Values(k), Stores(k, v),
           UNCHANGED <<now, cache, loaded>>
    PROVE  /\ TableInv' /\ heldAt'[k][v] = now
           /\ \A j \in Keys : Dated(j)'
           /\ \A x \in Tasks : HoldsRecent(x) /\ pc'[x] = pc[x] => HoldsRecent(x)'
  <1>1. /\ stored' = [stored EXCEPT ![k] = v]
        /\ heldAt' = [heldAt EXCEPT ![k] = [heldAt[k] EXCEPT ![v] = now]]
    BY DEF Stores
  <1>2. heldAt'[k] = [heldAt[k] EXCEPT ![v] = now] /\ stored'[k] = v
    BY <1>1 DEF CacheInv, TableInv
  <1>3. ASSUME NEW j \in Keys \ {k}
        PROVE  heldAt'[j] = heldAt[j] /\ stored'[j] = stored[j]
    BY <1>1 DEF CacheInv, TableInv
  <1>4. ASSUME NEW j \in Keys
        PROVE  heldAt[j] \in [Values(j) -> Nat]
    BY DEF CacheInv, TableInv
  <1>5. ASSUME NEW j \in Keys, NEW w \in Values(j)
        PROVE  /\ heldAt'[j][w] >= heldAt[j][w] /\ heldAt'[j][w] <= now
               /\ heldAt[j][w] = now => heldAt'[j][w] = now
    <2>1. heldAt[j][w] \in Nat /\ heldAt[j][w] <= now /\ now \in Nat
      BY DEF CacheInv, TableInv
    <2>2. heldAt'[j][w] = heldAt[j][w] \/ heldAt'[j][w] = now
      BY <1>2, <1>3, <1>4
    <2>3. QED
      BY <2>1, <2>2
  <1>6. heldAt'[k][v] = now
    BY <1>2, <1>4
  <1>7. TableInv'
    <2>1. DOMAIN stored' = Keys /\ DOMAIN heldAt' = Keys /\ now' \in Nat /\ now' = now
      BY <1>1 DEF CacheInv, TableInv
    <2>2. \A j \in Keys : heldAt'[j] \in [Values(j) -> Nat]
      BY <1>2, <1>3, <1>4 DEF CacheInv, TableInv
    <2>3. \A j \in Keys : stored'[j] \in Values(j) /\ heldAt'[j][stored'[j]] = now
      BY <1>2, <1>3, <1>6 DEF CacheInv, TableInv
    <2>4. QED
      BY <2>1, <2>2, <2>3, <1>5 DEF TableInv
  <1>8. ASSUME NEW j \in Keys
        PROVE  Dated(j)'
    <2>1. SUFFICES ASSUME cache[j] # NoEntry
                   PROVE  cache[j].deadline <= heldAt'[j][cache[j].value] + CacheTTL
      BY DEF CacheInv, Dated
    <2>2. /\ cache[j].value \in Values(j) /\ cache[j].deadline \in Nat
          /\ cache[j].deadline <= heldAt[j][cache[j].value] + CacheTTL
      BY <2>1 DEF CacheInv, Dated
    <2> DEFINE w == cache[j].value
    <2>3. heldAt[j][w] \in Nat /\ heldAt'[j][w] \in Nat /\ CacheTTL \in Nat
      BY <2>2, <1>7, SettingsAssumption DEF CacheInv, TableInv
    <2>4. heldAt'[j][w] >= heldAt[j][w]
      BY <2>2, <1>5
    <2>5. QED
      BY <2>2, <2>3, <2>4
  <1>9. ASSUME NEW x \in Tasks, HoldsRecent(x), pc'[x] = pc[x]
        PROVE  HoldsRecent(x)'
    BY <1>9, <1>5, FollowingIsValue, GatesAssumption DEF HoldsRecent
  <1>10. QED
    BY <1>6, <1>7, <1>8, <1>9

\* A task that resumes, or whose set has committed, makes an entry that is as
\* recent as what it holds.
LEMMA CachesRecent ==
    ASSUME CacheInv, NEW k \in Keys, NEW v \in Values(k), heldAt[k][v] = now,
           Caches(k, v), UNCHANGED <<now, stored, loaded, heldAt>>
    PROVE  TableInv' /\ DOMAIN cache' = Keys /\ \A j \in Keys : Dated(j)'
  <1>1. now \in Nat /\ CacheTTL \in Nat /\ now' = now /\ heldAt' = heldAt /\ DOMAIN cache = Keys
    BY SettingsAssumption DEF CacheInv, TableInv
  <1>2. cache' = [cache EXCEPT ![k] = [value |-> v, deadline |-> now + CacheTTL]]
    BY DEF Caches
  <1>3. Dated(k)'
    BY <1>1, <1>2 DEF Dated
  <1>4. \A j \in Keys \ {k} : Dated(j)'
    BY <1>1, <1>2 DEF CacheInv, Dated
  <1>5. QED
    BY <1>1, <1>2, <1>3, <1>4 DEF CacheInv, TableInv

\* Nothing is cached at first.
LEMMA InitCacheInv == Init => CacheInv
  <1> SUFFICES ASSUME Init
               PROVE  CacheInv
    OBVIOUS
  <1>1. now \in Nat /\ now = CacheTTL
    BY SettingsAssumption DEF Init, SettingsInit
  <1>2. ASSUME NEW k \in Keys
        PROVE  Cycle[k][1] \in Values(k)
    <2>1. Cycle[k] \in Seq(Values(k)) /\ Len(Cycle[k]) > 0
      BY SettingsAssumption
    <2>2. 1 \in DOMAIN Cycle[k]
      BY <2>1
    <2>3. QED
      BY <2>2 DEF Values
  <1>3. TableInv
    BY <1>1, <1>2 DEF Init, SettingsInit, TableInv
  <1>4. DOMAIN cache = Keys /\ \A k \in Keys : Dated(k)
    BY DEF Init, SettingsInit, Dated
  <1>5. DOMAIN loaded = Tasks /\ pc \in [Tasks -> Places] /\ \A x \in Tasks : HoldsRecent(x)
    BY DEF Init, SettingsInit, HoldsRecent, Places
  <1>6. QED
    BY <1>3, <1>4, <1>5 DEF CacheInv

\* A step that leaves the table, the clock and the cache alone, and takes one task
\* where what it holds is recent.
LEMMA TaskMoves ==
    ASSUME CacheInv, NEW x \in Tasks, NEW l \in Places, Goes(x, l),
           UNCHANGED <<now, stored, heldAt>>,
           DOMAIN cache' = Keys, \A k \in Keys : Dated(k)',
           DOMAIN loaded' = Tasks, \A y \in Tasks \ {x} : loaded'[y] = loaded[y],
           HoldsRecent(x)'
    PROVE  CacheInv'
  <1>1. TableInv' /\ pc' \in [Tasks -> Places]
    BY DEF CacheInv, TableInv, Goes
  <1>2. \A y \in Tasks \ {x} : HoldsRecent(y)'
    BY DEF CacheInv, HoldsRecent, Goes
  <1>3. QED
    BY <1>1, <1>2 DEF CacheInv

\* Every step leaves the cache equal to the row, or a writer about to drop it.
LEMMA NextCacheInv == CacheInv /\ [Next]_vars => CacheInv'
  <1> SUFFICES ASSUME CacheInv, [Next]_vars
               PROVE  CacheInv'
    OBVIOUS
  <1> USE GatesAssumption
  <1>0. ASSUME NEW x \in Tasks
        PROVE  x \in DOMAIN pc /\ x \in DOMAIN loaded /\ Button[x] \in Keys /\ HoldsRecent(x)
    BY DEF CacheInv
  <1>a. ASSUME UNCHANGED <<now, stored, cache, heldAt>>
        PROVE  DOMAIN cache' = Keys /\ \A k \in Keys : Dated(k)'
    BY <1>a DEF CacheInv, Dated
  <1>1. CASE UNCHANGED vars
    BY <1>1 DEF vars, settingsVars, gateVars, CacheInv, TableInv, Dated, HoldsRecent
  <1>2. ASSUME NEW k \in Keys, WrittenOutside(k)
        PROVE  CacheInv'
    <2>1. Following(k, stored[k]) \in Values(k)
      BY FollowingIsValue DEF CacheInv, TableInv
    <2>2. /\ TableInv' /\ \A j \in Keys : Dated(j)'
          /\ \A x \in Tasks : HoldsRecent(x) /\ pc'[x] = pc[x] => HoldsRecent(x)'
      BY <1>2, <2>1, StoresTable DEF WrittenOutside
    <2>3. QED
      BY <1>2, <2>2 DEF WrittenOutside, CacheInv
  <1>3. CASE TimePasses
    <2>1. /\ now' = now + 1 /\ UNCHANGED <<stored, cache, loaded, pc>>
          /\ heldAt' = [k \in Keys |-> [heldAt[k] EXCEPT ![stored[k]] = now + 1]]
      BY <1>3 DEF TimePasses, Tick
    <2>2. ASSUME NEW k \in Keys
          PROVE  /\ stored[k] \in Values(k) /\ heldAt[k] \in [Values(k) -> Nat] /\ now \in Nat
                 /\ \A v \in Values(k) : heldAt[k][v] <= now
                 /\ heldAt'[k] = [heldAt[k] EXCEPT ![stored[k]] = now + 1]
      BY <2>1 DEF CacheInv, TableInv
    <2>3. ASSUME NEW k \in Keys, NEW v \in Values(k)
          PROVE  /\ heldAt'[k][v] \in Nat /\ heldAt'[k][v] <= now + 1
                 /\ heldAt'[k][v] >= heldAt[k][v] /\ heldAt[k][v] \in Nat
      <3>1. heldAt'[k][v] \in {heldAt[k][v], now + 1}
        <4>1. now + 1 \in Nat
          BY DEF CacheInv, TableInv
        <4>2. \A w \in Values(k) :
                  [heldAt[k] EXCEPT ![stored[k]] = now + 1][w] \in {heldAt[k][w], now + 1}
          BY <2>2, <4>1, Stamped
        <4>3. heldAt'[k] = [heldAt[k] EXCEPT ![stored[k]] = now + 1]
          BY <2>2
        <4>4. QED
          BY <4>2, <4>3, Zenon
      <3>2. heldAt[k][v] \in Nat /\ heldAt[k][v] <= now /\ now \in Nat
        BY <2>2
      <3>3. QED
        BY <3>1, <3>2
    <2>4. TableInv'
      <3>1. ASSUME NEW k \in Keys
            PROVE  heldAt'[k] \in [Values(k) -> Nat] /\ heldAt'[k][stored[k]] = now + 1
        <4>1. now + 1 \in Nat
          BY DEF CacheInv, TableInv
        <4>2. /\ [heldAt[k] EXCEPT ![stored[k]] = now + 1] \in [Values(k) -> Nat]
              /\ [heldAt[k] EXCEPT ![stored[k]] = now + 1][stored[k]] = now + 1
          <5>1. stored[k] \in Values(k) /\ heldAt[k] \in [Values(k) -> Nat]
            BY <2>2
          <5>2. QED
            BY <4>1, <5>1, Stamped, ZenonT(30)
        <4>3. heldAt'[k] = [heldAt[k] EXCEPT ![stored[k]] = now + 1]
          BY <2>2
        <4>4. QED
          BY <4>2, <4>3, Zenon
      <3>2. QED
        BY <2>1, <2>3, <3>1 DEF TableInv, CacheInv
    <2>5. ASSUME NEW k \in Keys
          PROVE  Dated(k)'
      <3> SUFFICES ASSUME cache[k] # NoEntry
                   PROVE  cache[k].deadline <= heldAt'[k][cache[k].value] + CacheTTL
        BY <2>1 DEF CacheInv, Dated
      <3>1. /\ cache[k].value \in Values(k) /\ cache[k].deadline \in Nat
            /\ cache[k].deadline <= heldAt[k][cache[k].value] + CacheTTL
        BY DEF CacheInv, Dated
      <3>2. /\ heldAt'[k][cache[k].value] \in Nat /\ heldAt[k][cache[k].value] \in Nat
            /\ heldAt'[k][cache[k].value] >= heldAt[k][cache[k].value]
        BY <2>3, <3>1
      <3>3. QED
        BY <3>1, <3>2, SettingsAssumption
    <2>6. \A x \in Tasks : HoldsRecent(x)'
      BY <1>3, <2>1 DEF TimePasses, Tick, HoldsRecent
    <2>7. QED
      BY <2>1, <2>4, <2>5, <2>6 DEF CacheInv
  <1>4. ASSUME NEW x \in Tasks
        PROVE  /\ (\E s \in Statuses : Arrives(x, s)) => CacheInv'
               /\ AsksTable(x) => CacheInv'
               /\ StepsLoading(x) => CacheInv'
               /\ PassesGates(x) => CacheInv'
    <2>1. ASSUME NEW l \in {"gate", "gateLoad", "stepLoad", "handler", "gone"}, Goes(x, l),
                 UNCHANGED settingsVars
          PROVE  CacheInv'
      <3>1. HoldsRecent(x)'
        BY <1>0, <2>1 DEF HoldsRecent, Goes
      <3>2. DOMAIN cache' = Keys /\ \A k \in Keys : Dated(k)'
        BY <1>a, <2>1 DEF settingsVars
      <3>3. l \in Places /\ DOMAIN loaded' = Tasks /\ loaded' = loaded
        BY <2>1 DEF settingsVars, Places, CacheInv
      <3>4. QED
        BY <2>1, <3>1, <3>2, <3>3, TaskMoves DEF settingsVars
    <2>2. QED
      BY <2>1 DEF Arrives, AsksTable, StepsLoading, PassesGates, Judged, Cancelled,
                        Throttled, LetIn
  <1>5. ASSUME NEW x \in Tasks, TableAnswered(x)
        PROVE  CacheInv'
    <2>1. loaded[x] \in Values(Maintenance) /\ heldAt[Maintenance][loaded[x]] = now
      BY <1>0, <1>5 DEF TableAnswered, HoldsRecent
    <2>2. TableInv' /\ DOMAIN cache' = Keys /\ \A j \in Keys : Dated(j)'
      BY <1>5, <2>1, CachesRecent DEF TableAnswered
    <2>3. PICK l \in {"handler", "gone"} : Goes(x, l)
      BY <1>5 DEF TableAnswered, Judged, Cancelled, Throttled, LetIn
    <2>4. HoldsRecent(x)'
      BY <1>0, <2>3 DEF HoldsRecent, Goes
    <2>5. UNCHANGED <<now, stored, heldAt, loaded>> /\ DOMAIN loaded' = Tasks /\ l \in Places
      BY <1>5 DEF TableAnswered, CacheInv, Places
    <2>6. QED
      BY <2>2, <2>3, <2>4, <2>5, TaskMoves
  <1>6. ASSUME NEW x \in Tasks, StepsCached(x)
        PROVE  CacheInv'
    <2>1. cache[Button[x]].value \in Values(Button[x])
      BY <1>0, <1>6 DEF StepsCached, Fresh, CacheInv, Dated
    <2>2. loaded' = [loaded EXCEPT ![x] = cache[Button[x]].value] /\ Goes(x, "write")
          /\ UNCHANGED <<now, stored, cache, heldAt>>
      BY <1>6 DEF StepsCached
    <2>3. HoldsRecent(x)'
      BY <1>0, <2>1, <2>2 DEF HoldsRecent, Goes
    <2>4. DOMAIN loaded' = Tasks /\ (\A y \in Tasks \ {x} : loaded'[y] = loaded[y])
      BY <2>2 DEF CacheInv
    <2>5. "write" \in Places
      BY DEF Places
    <2>6. QED
      BY <1>a, <2>2, <2>3, <2>4, <2>5, TaskMoves
  <1>7. ASSUME NEW x \in Tasks, TableReads(x)
        PROVE  CacheInv'
    <2>1. ASSUME NEW k \in Keys, NEW l \in Places, Loads(x, k), Goes(x, l),
                 \/ l = "gateLoaded" /\ k = Maintenance
                 \/ l = "stepLoaded" /\ k = Button[x]
          PROVE  CacheInv'
      <3>1. stored[k] \in Values(k) /\ heldAt[k][stored[k]] = now
        BY DEF CacheInv, TableInv
      <3>2. loaded' = [loaded EXCEPT ![x] = stored[k]] /\ UNCHANGED <<now, stored, cache, heldAt>>
        BY <2>1 DEF Loads
      <3>3. HoldsRecent(x)'
        BY <1>0, <2>1, <3>1, <3>2 DEF HoldsRecent, Goes
      <3>4. DOMAIN loaded' = Tasks /\ (\A y \in Tasks \ {x} : loaded'[y] = loaded[y])
        BY <3>2 DEF CacheInv
      <3>5. QED
        BY <1>a, <2>1, <3>2, <3>3, <3>4, TaskMoves
    <2>2. QED
      BY <1>0, <1>7, <2>1 DEF TableReads, Places
  <1>8. ASSUME NEW x \in Tasks, StepResumes(x) \/ Committed(x)
        PROVE  CacheInv'
    <2>1. PICK v \in Values(Button[x]), l \in {"write", "stepped"} :
              /\ heldAt[Button[x]][v] = now /\ Caches(Button[x], v) /\ Goes(x, l)
              /\ loaded[x] \in Values(Button[x])
      BY <1>0, <1>8, FollowingIsValue DEF StepResumes, Committed, HoldsRecent
    <2>2. UNCHANGED <<now, stored, heldAt, loaded>>
      BY <1>8 DEF StepResumes, Committed
    <2>3. DOMAIN cache' = Keys /\ \A j \in Keys : Dated(j)'
      BY <1>0, <2>1, <2>2, CachesRecent
    <2>4. HoldsRecent(x)'
      BY <1>0, <2>1, <2>2 DEF HoldsRecent, Goes
    <2>5. l \in Places /\ DOMAIN loaded' = Tasks
      BY <2>2 DEF Places, CacheInv
    <2>6. QED
      BY <2>1, <2>2, <2>3, <2>4, <2>5, TaskMoves
  <1>9. ASSUME NEW x \in Tasks, Commits(x)
        PROVE  CacheInv'
    <2> DEFINE k == Button[x]
               v == Following(k, loaded[x])
    <2>1. k \in Keys /\ loaded[x] \in Values(k) /\ v \in Values(k)
      BY <1>0, <1>9, FollowingIsValue DEF Commits, HoldsRecent
    <2>2. Stores(k, v) /\ Goes(x, "written") /\ UNCHANGED <<now, cache, loaded>>
      BY <1>9 DEF Commits
    <2>3. /\ TableInv' /\ heldAt'[k][v] = now /\ \A j \in Keys : Dated(j)'
          /\ \A y \in Tasks : HoldsRecent(y) /\ pc'[y] = pc[y] => HoldsRecent(y)'
      BY <2>1, <2>2, StoresTable
    <2>4. pc' = [pc EXCEPT ![x] = "written"] /\ pc' \in [Tasks -> Places]
      BY <2>2 DEF Goes, CacheInv, Places
    <2>5. HoldsRecent(x)'
      BY <1>0, <2>1, <2>2, <2>3, <2>4 DEF HoldsRecent
    <2>6. \A y \in Tasks \ {x} : HoldsRecent(y)'
      BY <1>0, <2>3, <2>4
    <2>7. QED
      BY <2>2, <2>3, <2>4, <2>5, <2>6 DEF CacheInv
  <1>10. ASSUME NEW x \in Tasks, Finishes(x)
         PROVE  CacheInv'
    <2>1. Goes(x, "gone") /\ loaded' = [loaded EXCEPT ![x] = NoEntry]
          /\ UNCHANGED <<now, stored, cache, heldAt>>
      BY <1>10 DEF Finishes
    <2>2. HoldsRecent(x)'
      BY <1>0, <2>1 DEF HoldsRecent, Goes
    <2>3. DOMAIN loaded' = Tasks /\ (\A y \in Tasks \ {x} : loaded'[y] = loaded[y])
      BY <2>1 DEF CacheInv
    <2>4. "gone" \in Places
      BY DEF Places
    <2>5. QED
      BY <1>a, <2>1, <2>2, <2>3, <2>4, TaskMoves
  <1>11. QED
    BY <1>1, <1>2, <1>3, <1>4, <1>5, <1>6, <1>7, <1>8, <1>9, <1>10 DEF Next

\* What the cache answers was in the table less than CACHE_TTL ago.
LEMMA CacheIsRecent == CacheInv => SettingIsRecent
  <1> SUFFICES ASSUME CacheInv, NEW k \in Keys, Fresh(k)
               PROVE  now - heldAt[k][cache[k].value] < CacheTTL
    BY DEF SettingIsRecent
  <1>1. /\ cache[k].value \in Values(k) /\ cache[k].deadline \in Nat
        /\ cache[k].deadline <= heldAt[k][cache[k].value] + CacheTTL
        /\ cache[k].deadline > now
    BY DEF Fresh, CacheInv, Dated
  <1>2. heldAt[k][cache[k].value] \in Nat /\ now \in Nat /\ CacheTTL \in Nat
    BY <1>1, SettingsAssumption DEF CacheInv, TableInv
  <1>3. QED
    BY <1>1, <1>2

\* Whoever is let in has been told that maintenance is off, by the table or by the
\* cache.
LEMMA JudgedOff ==
    ASSUME CacheInv, [Next]_vars, NEW x \in Tasks,
           pc[x] # "handler", pc'[x] = "handler", ~IsStaff(x)
    PROVE  now - heldAt[Maintenance][FALSE] < CacheTTL
  <1> USE GatesAssumption
  <1>0. pc \in [Tasks -> Places]
    BY DEF CacheInv
  <1>1. \A y \in Tasks, l \in Places : Goes(y, l) /\ y # x => pc'[x] = pc[x]
    BY <1>0 DEF Goes
  <1>2. \A l \in Places : Goes(x, l) => l = "handler"
    BY <1>0 DEF Goes
  <1>3. PassesGates(x) \/ TableAnswered(x)
    <2>1. ASSUME NEW y \in Tasks
          PROVE  /\ ~\E s \in Statuses : Arrives(y, s)
                 /\ ~AsksTable(y) /\ ~TableReads(y)
                 /\ ~StepsCached(y) /\ ~StepsLoading(y)
                 /\ ~StepResumes(y) /\ ~Commits(y)
                 /\ ~Committed(y) /\ ~Finishes(y)
      BY <1>1, <1>2 DEF Arrives, AsksTable, TableReads, StepsCached, StepsLoading,
                        StepResumes, Commits, Committed, Finishes, Places
    <2>2. ASSUME NEW y \in Tasks, PassesGates(y) \/ TableAnswered(y)
          PROVE  y = x
      BY <1>1, <2>2 DEF PassesGates, TableAnswered, Judged, Cancelled, Throttled, LetIn, Places
    <2>3. /\ ~UNCHANGED vars /\ ~TimePasses /\ ~\E k \in Keys : WrittenOutside(k)
      BY DEF vars, gateVars, TimePasses, WrittenOutside
    <2>4. QED
      BY <2>1, <2>2, <2>3 DEF Next
  <1>4. ASSUME NEW on \in BOOLEAN, Judged(x, on)
        PROVE  on = FALSE
    BY <1>2, <1>4 DEF Judged, Cancelled, Places
  <1>5. CASE PassesGates(x)
    <2>1. Fresh(Maintenance) /\ cache[Maintenance].value \in BOOLEAN
      BY <1>5 DEF PassesGates, Fresh, CacheInv, Dated
    <2>2. Judged(x, cache[Maintenance].value)
      <3>1. (~IsStaff(x) /\ cache[Maintenance].value) = cache[Maintenance].value
        BY <2>1
      <3>2. QED
        BY <1>5, <3>1 DEF PassesGates
    <2>3. cache[Maintenance].value = FALSE
      BY <1>4, <2>1, <2>2
    <2>4. QED
      BY <2>1, <2>3, CacheIsRecent DEF SettingIsRecent
  <1>6. CASE TableAnswered(x)
    <2>1. /\ loaded[x] \in BOOLEAN /\ heldAt[Maintenance][loaded[x]] = now
          /\ Judged(x, loaded[x])
      BY <1>6 DEF TableAnswered, CacheInv, HoldsRecent
    <2>2. loaded[x] = FALSE
      BY <1>4, <2>1
    <2>3. now \in Nat /\ CacheTTL \in Nat \ {0}
      BY SettingsAssumption DEF CacheInv, TableInv
    <2>4. heldAt[Maintenance][FALSE] = now
      BY <2>1, <2>2, Zenon
    <2>5. QED
      BY <2>3, <2>4
  <1>7. QED
    BY <1>3, <1>5, <1>6

\* What get answers from the cache was in the table less than CACHE_TTL ago, for
\* any settings and any number of tasks and other processes that write them
\* (settings_service.py:6).
THEOREM SettingIsRecentHolds == Spec => []SettingIsRecent
  BY InitCacheInv, NextCacheInv, CacheIsRecent, PTL DEF Spec

\* Past CACHE_TTL after maintenance was switched on no update of a user reaches a
\* handler (maintenance.py:29).
THEOREM MaintenanceIsKept == Spec => MaintenanceHolds
  <1>1. CacheInv /\ [Next]_vars =>
          [\A x \in Tasks :
             pc[x] # "handler" /\ pc'[x] = "handler" /\ ~IsStaff(x)
             => now - heldAt[Maintenance][FALSE] < CacheTTL]_vars
    BY JudgedOff
  <1>2. QED
    BY InitCacheInv, NextCacheInv, <1>1, PTL DEF Spec, MaintenanceHolds

-----------------------------------------------------------------------------
(* The rate.                                                               *)

\* The least-number principle, for a set instead of a predicate.
LEMMA LeastNatural ==
    ASSUME NEW S \in SUBSET Nat, S # {}
    PROVE  \E m \in S : \A n \in S : m <= n
  <1>1. PICK m \in S : \A n \in S : <<n, m>> \notin OpToRel(<, Nat)
    BY NatLessThanWellFounded, WFMin
  <1>2. ASSUME NEW n \in S
        PROVE  m <= n
    <2>1. <<n, m>> \notin OpToRel(<, Nat)
      BY <1>1
    <2>2. ~(n < m)
      BY <2>1 DEF OpToRel
    <2>3. QED
      BY <2>2
  <1>3. QED
    BY <1>2

\* w is what is left of s after its first m elements.
TailFrom(w, s, m) ==
    /\ m \in 0 .. Len(s) /\ Len(w) = Len(s) - m
    /\ \A i \in 1 .. Len(w) : w[i] = s[m + i]

\* What is left of a sequence after its first n elements.
LEMMA RestOf ==
    ASSUME NEW s \in Seq(Nat), NEW n \in 0 .. Len(s)
    PROVE  /\ SubSeq(s, n + 1, Len(s)) \in Seq(Nat)
           /\ Len(SubSeq(s, n + 1, Len(s))) = Len(s) - n
           /\ \A i \in 1 .. Len(s) - n : SubSeq(s, n + 1, Len(s))[i] = s[n + i]
  OBVIOUS

\* A tail of a tail is a tail.
LEMMA TailOfTail ==
    ASSUME NEW s \in Seq(Nat), NEW r \in Seq(Nat), NEW m \in Nat, TailFrom(r, s, m),
           NEW n \in 0 .. Len(r)
    PROVE  TailFrom(SubSeq(r, n + 1, Len(r)), s, m + n)
  <1> DEFINE w == SubSeq(r, n + 1, Len(r))
  <1>1. /\ Len(w) = Len(r) - n /\ \A i \in 1 .. Len(w) : w[i] = r[n + i]
    BY RestOf
  <1>2. Len(s) \in Nat /\ Len(r) \in Nat
    OBVIOUS
  <1> HIDE DEF w
  <1>3. m + n \in 0 .. Len(s) /\ Len(w) = Len(s) - (m + n)
    BY <1>1, <1>2 DEF TailFrom
  <1>4. ASSUME NEW i \in 1 .. Len(w)
        PROVE  w[i] = s[m + n + i]
    <2>1. n + i \in 1 .. Len(r) /\ m + (n + i) = m + n + i
      BY <1>1, <1>2
    <2>2. QED
      BY <1>1, <2>1 DEF TailFrom
  <1>5. QED
    BY <1>3, <1>4 DEF TailFrom, w

\* A tail stays one when both grow.
LEMMA TailAppended ==
    ASSUME NEW s \in Seq(Nat), NEW w \in Seq(Nat), NEW m \in Nat, TailFrom(w, s, m),
           NEW e \in Nat
    PROVE  TailFrom(Append(w, e), Append(s, e), m)
  <1>1. Len(s) \in Nat /\ Len(w) \in Nat /\ m <= Len(s) /\ Len(w) = Len(s) - m
    BY DEF TailFrom
  <1>2. /\ Len(Append(w, e)) = Len(w) + 1 /\ Append(w, e)[Len(w) + 1] = e
        /\ Len(Append(s, e)) = Len(s) + 1 /\ Append(s, e)[Len(s) + 1] = e
        /\ \A i \in 1 .. Len(w) : Append(w, e)[i] = w[i]
        /\ \A i \in 1 .. Len(s) : Append(s, e)[i] = s[i]
    OBVIOUS
  <1>3. ASSUME NEW i \in 1 .. Len(w)
        PROVE  Append(w, e)[i] = Append(s, e)[m + i]
    <2>1. m + i \in 1 .. Len(s)
      BY <1>1
    <2>2. QED
      BY <1>2, <2>1 DEF TailFrom
  <1>4. m + (Len(w) + 1) = Len(s) + 1
    BY <1>1
  <1>5. Append(w, e)[Len(w) + 1] = Append(s, e)[m + (Len(w) + 1)]
    BY <1>2, <1>4
  <1>6. ASSUME NEW i \in 1 .. Len(w) + 1
        PROVE  Append(w, e)[i] = Append(s, e)[m + i]
    <2>1. i \in 1 .. Len(w) \/ i = Len(w) + 1
      BY <1>1
    <2>2. CASE i = Len(w) + 1
      BY <2>2, <1>5, Zenon
    <2>3. CASE i \in 1 .. Len(w)
      BY <2>3, <1>3
    <2>4. QED
      BY <2>1, <2>2, <2>3, Zenon
  <1>7. m \in 0 .. Len(s) + 1 /\ Len(w) + 1 = Len(s) + 1 - m
    BY <1>1
  <1> DEFINE wider  == Append(w, e)
             longer == Append(s, e)
  <1>8. /\ Len(wider) = Len(w) + 1 /\ Len(longer) = Len(s) + 1
        /\ \A i \in 1 .. Len(w) + 1 : wider[i] = longer[m + i]
    BY <1>2, <1>6
  <1> HIDE DEF wider, longer
  <1>9. TailFrom(wider, longer, m)
    BY <1>7, <1>8 DEF TailFrom
  <1>10. QED
    BY <1>9 DEF wider, longer

\* The first n stamps of s are out of the window.
FirstOld(s, n, t) == \A i \in 1 .. n : t - s[i] > RateWindow

\* The deque of _recent is a tail of the stamps of all updates let in, and what it
\* misses of them is out of the window.
Pruned(w, h, t) == \E m \in Nat : TailFrom(w, h, m) /\ FirstOld(h, m, t)

\* Updates are let in in the order of their stamps.
InOrder(h, t) ==
    /\ \A i, j \in DOMAIN h : i <= j => h[i] <= h[j]
    /\ \A i \in DOMAIN h : h[i] <= t

Capped(h) ==
    \A i \in DOMAIN h : i + RateLimit \in DOMAIN h => h[i + RateLimit] - h[i] > RateWindow

RateInv ==
    /\ now \in Nat
    /\ recent \in [Accounts -> Seq(Nat)] /\ admitted \in [Accounts -> Seq(Nat)]
    /\ \A a \in Accounts :
          Pruned(recent[a], admitted[a], now) /\ InOrder(admitted[a], now) /\ Capped(admitted[a])

\* Nobody was admitted at first.
LEMMA InitRateInv == Init => RateInv
  <1> SUFFICES ASSUME Init
               PROVE  RateInv
    OBVIOUS
  <1>1. \A a \in Accounts : recent[a] = <<>> /\ admitted[a] = <<>>
    BY DEF Init
  <1>2. now \in Nat /\ recent \in [Accounts -> Seq(Nat)] /\ admitted \in [Accounts -> Seq(Nat)]
    BY SettingsAssumption DEF Init, SettingsInit
  <1>3. TailFrom(<<>>, <<>>, 0) /\ FirstOld(<<>>, 0, now) /\ InOrder(<<>>, now) /\ Capped(<<>>)
    BY DEF TailFrom, FirstOld, InOrder, Capped
  <1>4. Pruned(<<>>, <<>>, now)
    BY <1>3 DEF Pruned
  <1>5. QED
    BY <1>1, <1>2, <1>3, <1>4 DEF RateInv

\* The loop of _over_cap: what it leaves is the rest after some old stamps, and
\* begins with a young one, if it is not empty.
LEMMA LoopEnds ==
    ASSUME now \in Nat, NEW a \in Accounts, recent[a] \in Seq(Nat)
    PROVE  \E n \in 0 .. Len(recent[a]) :
              FirstOld(recent[a], n, now)
              /\ InWindow(a) = SubSeq(recent[a], n + 1, Len(recent[a]))
  <1> DEFINE stamps == recent[a]
             Ends(n) == /\ \A i \in 1 .. n : now - stamps[i] > RateWindow
                        /\ n < Len(stamps) => now - stamps[n + 1] <= RateWindow
             young == {n \in 0 .. Len(stamps) :
                         n < Len(stamps) => now - stamps[n + 1] <= RateWindow}
  <1>1. Len(stamps) \in Nat /\ \A i \in 1 .. Len(stamps) : stamps[i] \in Nat
    OBVIOUS
  <1>2. PICK m \in young : \A n \in young : m <= n
    <2>1. young \in SUBSET Nat /\ Len(stamps) \in young
      BY <1>1
    <2> HIDE DEF young
    <2>2. QED
      BY <2>1, LeastNatural
  <1>3. m \in 0 .. Len(stamps) /\ (m < Len(stamps) => now - stamps[m + 1] <= RateWindow)
    OBVIOUS
  <1>4. ASSUME NEW i \in 1 .. m
        PROVE  now - stamps[i] > RateWindow
    <2> DEFINE k == i - 1
    <2>1. k \in 0 .. Len(stamps) /\ k < Len(stamps) /\ k + 1 = i /\ ~(m <= k)
      BY <1>1, <1>3
    <2>2. k \notin young
      BY <1>2, <2>1
    <2> HIDE DEF k
    <2>3. ~(now - stamps[k + 1] <= RateWindow)
      BY <2>1, <2>2
    <2>4. stamps[i] \in Nat
      BY <1>1, <1>3
    <2>5. QED
      BY <2>1, <2>3, <2>4, GatesAssumption
  <1> DEFINE popped == CHOOSE n \in 0 .. Len(stamps) : Ends(n)
  <1>5. InWindow(a) = SubSeq(stamps, popped + 1, Len(stamps))
    BY DEF InWindow
  <1>6. Ends(m)
    BY <1>3, <1>4
  <1> HIDE DEF Ends
  <1>7. popped \in 0 .. Len(stamps) /\ Ends(popped)
    BY <1>3, <1>6
  <1>8. QED
    BY <1>5, <1>7 DEF Ends, FirstOld

\* So it is a tail of all the stamps still.
LEMMA WindowIsTail ==
    ASSUME RateInv, NEW a \in Accounts
    PROVE  InWindow(a) \in Seq(Nat) /\ Pruned(InWindow(a), admitted[a], now)
  <1>1. now \in Nat /\ recent[a] \in Seq(Nat) /\ admitted[a] \in Seq(Nat)
    BY DEF RateInv
  <1>2. PICK n \in 0 .. Len(recent[a]) :
            FirstOld(recent[a], n, now)
            /\ InWindow(a) = SubSeq(recent[a], n + 1, Len(recent[a]))
    BY <1>1, LoopEnds
  <1>3. PICK m \in Nat : TailFrom(recent[a], admitted[a], m) /\ FirstOld(admitted[a], m, now)
    BY DEF RateInv, Pruned
  <1>4. InWindow(a) \in Seq(Nat)
    BY <1>1, <1>2, RestOf
  <1>5. TailFrom(InWindow(a), admitted[a], m + n)
    BY <1>1, <1>2, <1>3, TailOfTail
  <1>6. ASSUME NEW i \in 1 .. m + n
        PROVE  now - admitted[a][i] > RateWindow
    <2>1. CASE i <= m
      BY <2>1, <1>3 DEF FirstOld
    <2>2. CASE i > m
      <3>1. i - m \in 1 .. n /\ m + (i - m) = i /\ i - m \in 1 .. Len(recent[a])
        BY <2>2, <1>1, <1>2
      <3>2. recent[a][i - m] = admitted[a][m + (i - m)]
        BY <1>3, <3>1 DEF TailFrom
      <3>3. QED
        BY <1>2, <3>1, <3>2 DEF FirstOld
    <2>3. QED
      BY <2>1, <2>2
  <1>7. m + n \in Nat
    BY <1>1, <1>2
  <1>8. QED
    BY <1>4, <1>5, <1>6, <1>7 DEF Pruned, FirstOld

\* One more stamp, now, while fewer than RateLimit are in the window.
LEMMA OneMoreStamp ==
    ASSUME NEW h \in Seq(Nat), NEW w \in Seq(Nat), Pruned(w, h, now), InOrder(h, now), Capped(h),
           Len(w) < RateLimit, now \in Nat
    PROVE  /\ Pruned(Append(w, now), Append(h, now), now)
           /\ InOrder(Append(h, now), now) /\ Capped(Append(h, now))
  <1> DEFINE g == Append(h, now)
  <1>1. /\ Len(h) \in Nat /\ Len(w) \in Nat /\ DOMAIN h = 1 .. Len(h)
        /\ DOMAIN g = 1 .. Len(h) + 1 /\ g[Len(h) + 1] = now
        /\ \A i \in 1 .. Len(h) : g[i] = h[i] /\ h[i] \in Nat
    OBVIOUS
  <1>2. RateWindow \in Nat /\ RateLimit \in Nat \ {0}
    BY GatesAssumption
  <1>3. PICK m \in Nat : TailFrom(w, h, m) /\ FirstOld(h, m, now)
    BY DEF Pruned
  <1>4. TailFrom(Append(w, now), g, m)
    BY <1>3, TailAppended
  <1> HIDE DEF g
  <1>5. m <= Len(h) /\ Len(w) = Len(h) - m
    BY <1>3 DEF TailFrom
  <1>6. FirstOld(g, m, now)
    BY <1>1, <1>3, <1>5 DEF FirstOld
  <1>7. InOrder(g, now)
    <2>1. \A i \in 1 .. Len(h) : g[i] <= now
      BY <1>1 DEF InOrder
    <2>2. \A i, j \in 1 .. Len(h) : i <= j => g[i] <= g[j]
      BY <1>1 DEF InOrder
    <2>3. \A i \in DOMAIN g : i \in 1 .. Len(h) \/ i = Len(h) + 1
      BY <1>1
    <2>4. \A i \in DOMAIN g : g[i] <= now
      BY <1>1, <2>1, <2>3
    <2>5. ASSUME NEW i \in DOMAIN g, NEW j \in DOMAIN g, i <= j
          PROVE  g[i] <= g[j]
      <3>1. CASE j = Len(h) + 1
        BY <1>1, <2>4, <3>1
      <3>2. CASE j \in 1 .. Len(h)
        BY <1>1, <2>2, <2>3, <2>5, <3>2
      <3>3. QED
        BY <2>3, <3>1, <3>2
    <2>6. QED
      BY <2>4, <2>5 DEF InOrder
  <1>8. ASSUME NEW i \in DOMAIN g, i + RateLimit \in DOMAIN g
        PROVE  g[i + RateLimit] - g[i] > RateWindow
    <2>1. i \in 1 .. Len(h) /\ (i + RateLimit \in 1 .. Len(h) \/ i + RateLimit = Len(h) + 1)
      BY <1>1, <1>2, <1>8
    <2>2. CASE i + RateLimit \in 1 .. Len(h)
      BY <1>1, <2>1, <2>2 DEF Capped
    <2>3. CASE i + RateLimit = Len(h) + 1
      <3>1. i \in 1 .. m
        BY <1>1, <1>2, <1>5, <2>1, <2>3
      <3>2. now - g[i] > RateWindow
        BY <1>6, <3>1 DEF FirstOld
      <3>3. QED
        BY <1>1, <2>3, <3>2
    <2>4. QED
      BY <2>1, <2>2, <2>3
  <1>9. QED
    BY <1>4, <1>6, <1>7, <1>8 DEF Pruned, Capped, g

\* The verdict of the throttle.
LEMMA JudgedRate ==
    ASSUME RateInv, pc \in [Tasks -> Places], NEW x \in Tasks, NEW on, Judged(x, on),
           now' = now
    PROVE  RateInv'
  <1> DEFINE a == From[x]
  <1>1. a \in Accounts /\ now \in Nat /\ recent \in [Accounts -> Seq(Nat)]
        /\ admitted \in [Accounts -> Seq(Nat)]
    BY DEF Accounts, RateInv
  <1>2. InWindow(a) \in Seq(Nat) /\ Pruned(InWindow(a), admitted[a], now)
    BY <1>1, WindowIsTail
  <1>3. CASE UNCHANGED <<recent, admitted>>
    BY <1>3 DEF RateInv, Pruned, FirstOld, InOrder
  <1>4. CASE recent' = [recent EXCEPT ![a] = InWindow(a)] /\ UNCHANGED admitted
    <2>1. recent'[a] = InWindow(a) /\ \A b \in Accounts \ {a} : recent'[b] = recent[b]
      BY <1>1, <1>4
    <2>2. recent' \in [Accounts -> Seq(Nat)]
      BY <1>1, <1>2, <1>4
    <2>3. \A b \in Accounts : Pruned(recent'[b], admitted[b], now)
      BY <1>2, <2>1 DEF RateInv
    <2>4. QED
      BY <1>4, <2>2, <2>3 DEF RateInv
  <1>5. CASE /\ recent' = [recent EXCEPT ![a] = Append(InWindow(a), now)]
             /\ admitted' = [admitted EXCEPT ![a] = Append(admitted[a], now)]
             /\ Len(InWindow(a)) < RateLimit
    <2> DEFINE w == Append(InWindow(a), now)
               h == Append(admitted[a], now)
    <2>1. admitted[a] \in Seq(Nat) /\ InOrder(admitted[a], now) /\ Capped(admitted[a])
      BY <1>1 DEF RateInv
    <2>2. w \in Seq(Nat) /\ h \in Seq(Nat)
      BY <1>1, <1>2, <2>1
    <2>3. Pruned(w, h, now) /\ InOrder(h, now) /\ Capped(h)
      BY <1>1, <1>2, <1>5, <2>1, OneMoreStamp
    <2> HIDE DEF w, h
    <2>4. /\ recent'[a] = w /\ admitted'[a] = h
          /\ \A b \in Accounts \ {a} : recent'[b] = recent[b] /\ admitted'[b] = admitted[b]
          /\ recent' \in [Accounts -> Seq(Nat)] /\ admitted' \in [Accounts -> Seq(Nat)]
      BY <1>1, <1>5, <2>2 DEF w, h
    <2>5. ASSUME NEW b \in Accounts
          PROVE  Pruned(recent'[b], admitted'[b], now') /\ InOrder(admitted'[b], now') /\ Capped(admitted'[b])
      BY <2>3, <2>4 DEF RateInv
    <2>6. QED
      BY <1>1, <2>4, <2>5 DEF RateInv
  <1>6. CASE Cancelled(x) \/ Throttled(x)
    <2>1. pc'[x] = "gone" /\ UNCHANGED admitted
      BY <1>6 DEF Cancelled, Throttled, Goes, Judged
    <2>2. UNCHANGED recent \/ recent' = [recent EXCEPT ![a] = InWindow(a)]
      BY <1>6 DEF Cancelled, Throttled
    <2>3. QED
      BY <2>1, <2>2, <1>3, <1>4
  <1>7. CASE LetIn(x)
    <2>1. pc'[x] = "handler"
      BY <1>7 DEF LetIn, Goes
    <2>2. CASE IsStaff(x)
      BY <1>3, <1>7, <2>1, <2>2 DEF LetIn, Judged
    <2>3. CASE ~IsStaff(x)
      <3>1. Len(InWindow(a)) \in Nat /\ RateLimit \in Nat
        BY <1>2, GatesAssumption
      <3>2. Len(InWindow(a)) < RateLimit
        BY <1>7, <2>3, <3>1 DEF LetIn, OverCap
      <3>3. QED
        BY <1>5, <1>7, <2>1, <2>3, <3>2 DEF LetIn, Judged
    <2>4. QED
      BY <2>2, <2>3
  <1>8. QED
    BY <1>6, <1>7 DEF Judged

\* Every step keeps the windows, and no window holds more than the limit.
LEMMA NextRateInv ==
    RateInv /\ pc \in [Tasks -> Places] /\ [Next]_vars => RateInv'
  <1> SUFFICES ASSUME RateInv, pc \in [Tasks -> Places], [Next]_vars
               PROVE  RateInv'
    OBVIOUS
  <1>1. CASE UNCHANGED <<recent, admitted>> /\ (now' = now \/ now' = now + 1)
    <2>1. now' \in Nat /\ now <= now'
      BY <1>1 DEF RateInv
    <2>2. ASSUME NEW a \in Accounts
          PROVE  Pruned(recent[a], admitted[a], now') /\ InOrder(admitted[a], now')
      <3>1. /\ Pruned(recent[a], admitted[a], now) /\ InOrder(admitted[a], now) /\ Capped(admitted[a])
            /\ admitted[a] \in Seq(Nat) /\ now \in Nat
        BY DEF RateInv
      <3>2. PICK m \in Nat : TailFrom(recent[a], admitted[a], m) /\ FirstOld(admitted[a], m, now)
        BY <3>1 DEF Pruned
      <3>3. \A i \in 1 .. m : admitted[a][i] \in Nat
        BY <3>1, <3>2 DEF TailFrom
      <3>4. \A i \in 1 .. m : now' - admitted[a][i] > RateWindow
        BY <2>1, <3>1, <3>2, <3>3, GatesAssumption DEF FirstOld
      <3>5. Pruned(recent[a], admitted[a], now')
        BY <3>2, <3>4 DEF Pruned, FirstOld
      <3>6. \A i \in DOMAIN admitted[a] : admitted[a][i] <= now'
        BY <2>1, <3>1 DEF InOrder
      <3>7. InOrder(admitted[a], now')
        BY <3>1, <3>6 DEF InOrder
      <3>8. QED
        BY <3>5, <3>7
    <2>3. QED
      BY <1>1, <2>1, <2>2 DEF RateInv
  <1>2. ASSUME NEW x \in Tasks, PassesGates(x)
        PROVE  RateInv'
    BY <1>2, JudgedRate DEF PassesGates, settingsVars
  <1>3. ASSUME NEW x \in Tasks, TableAnswered(x)
        PROVE  RateInv'
    BY <1>3, JudgedRate DEF TableAnswered
  <1>4. ASSUME NEW x \in Tasks,
               \/ \E s \in Statuses : Arrives(x, s)
               \/ AsksTable(x) \/ TableReads(x) \/ StepsCached(x) \/ StepsLoading(x)
               \/ StepResumes(x) \/ Commits(x) \/ Committed(x) \/ Finishes(x)
        PROVE  UNCHANGED <<recent, admitted, now>>
    BY <1>4 DEF Arrives, AsksTable, TableReads, StepsCached, StepsLoading, StepResumes,
                Commits, Committed, Finishes, Loads, StaysGated, settingsVars
  <1>5. ASSUME NEW k \in Keys, WrittenOutside(k)
        PROVE  UNCHANGED <<recent, admitted, now>>
    BY <1>5 DEF WrittenOutside
  <1>6. CASE TimePasses
    BY <1>1, <1>6 DEF TimePasses, Tick
  <1>7. CASE UNCHANGED vars
    BY <1>1, <1>7 DEF vars, settingsVars, gateVars
  <1>8. QED
    BY <1>1, <1>2, <1>3, <1>4, <1>5, <1>6, <1>7 DEF Next

\* No user but staff has more than RATE_LIMIT updates handled within RATE_WINDOW, however
\* _over_cap prunes the deque and the lock is released (throttle.py:31).
THEOREM RateIsCappedHolds == Spec => []RateIsCapped
  <1>1. CacheInv => pc \in [Tasks -> Places]
    BY DEF CacheInv
  <1>2. RateInv => RateIsCapped
    BY DEF RateInv, Capped, RateIsCapped
  <1>3. QED
    BY InitCacheInv, NextCacheInv, InitRateInv, NextRateInv, <1>1, <1>2, PTL DEF Spec

-----------------------------------------------------------------------------
(* Types.                                                                  *)

\* What the three invariants before do not say.
RestTyped ==
    user \in [Tasks -> Statuses] /\ slow \subseteq Accounts /\ outside \in Nat

\* Every step keeps the other types.
LEMMA NextRestTyped == RestTyped /\ [Next]_vars => RestTyped'
  <1> SUFFICES ASSUME RestTyped, [Next]_vars
               PROVE  RestTyped'
    OBVIOUS
  <1>1. ASSUME NEW x \in Tasks, NEW s \in Statuses, Arrives(x, s)
        PROVE  RestTyped'
    BY <1>1 DEF Arrives, RestTyped
  <1>2. ASSUME NEW x \in Tasks, PassesGates(x) \/ TableAnswered(x)
        PROVE  RestTyped'
    BY <1>2 DEF PassesGates, TableAnswered, Judged, RestTyped, Statuses
  <1>3. ASSUME NEW x \in Tasks,
               \/ AsksTable(x) \/ TableReads(x) \/ StepsCached(x) \/ StepsLoading(x)
               \/ StepResumes(x) \/ Commits(x) \/ Committed(x) \/ Finishes(x)
        PROVE  RestTyped'
    BY <1>3 DEF AsksTable, TableReads, StepsCached, StepsLoading, StepResumes, Commits,
                Committed, Finishes, StaysGated, RestTyped
  <1>4. ASSUME NEW k \in Keys, WrittenOutside(k)
        PROVE  RestTyped'
    BY <1>4 DEF WrittenOutside, RestTyped
  <1>5. CASE TimePasses
    BY <1>5 DEF TimePasses, RestTyped
  <1>6. CASE UNCHANGED vars
    BY <1>6 DEF vars, gateVars, RestTyped
  <1>7. QED
    BY <1>1, <1>2, <1>3, <1>4, <1>5, <1>6 DEF Next

\* Types: the gates, the throttle's tables and the settings cache.
THEOREM GatesTypeCorrect == Spec => []TypeOK
  <1>1. Init => RestTyped
    BY GatesAssumption DEF Init, RestTyped, Statuses
  <1>2. LockInv /\ CacheInv /\ RateInv /\ RestTyped => TypeOK
    <2> SUFFICES ASSUME LockInv, CacheInv, RateInv, RestTyped
                 PROVE  TypeOK
      OBVIOUS
    <2>1. ASSUME NEW k \in Keys
          PROVE  cache[k] \in Entry \cup {NoEntry}
      <3>1. CASE cache[k] # NoEntry
        <4>1. cache[k] \in [value : Values(k), deadline : Nat]
          BY <3>1 DEF CacheInv, Dated
        <4>2. Values(k) \subseteq UNION {Values(j) : j \in Keys}
          OBVIOUS
        <4>3. QED
          BY <4>1, <4>2 DEF Entry
      <3>2. QED
        BY <3>1
    <2>2. SettingsTypeOK
      BY <2>1 DEF CacheInv, TableInv, SettingsTypeOK
    <2>3. \A a \in Accounts : {recent[a], admitted[a]} \subseteq Seq(Nat)
      BY DEF RateInv
    <2>4. QED
      BY <2>2, <2>3 DEF LockInv, LockTyped, RestTyped, TypeOK
  <1>3. CacheInv => pc \in [Tasks -> Places]
    BY DEF CacheInv
  <1>4. QED
    BY InitLockInv, NextLockInv, InitCacheInv, NextCacheInv, InitRateInv, NextRateInv,
             NextRestTyped, <1>1, <1>2, <1>3, PTL DEF Spec
=============================================================================
