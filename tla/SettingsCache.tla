--------------------------- MODULE SettingsCache ---------------------------
(***************************************************************************)
(* SettingsService (app/services/settings_service.py): the settings table  *)
(* behind a cache with a time to live.  get and set are coroutines: what a *)
(* task has loaded is its own until it resumes and stores it.  Like        *)
(* PanelGateway this module has no Next; who calls the service composes    *)
(* its steps.  A key's values form a cycle, the order in which the buttons *)
(* of the settings screen step through them.                               *)
(***************************************************************************)
EXTENDS Naturals, Sequences

CONSTANTS
    Tasks,    \* coroutines that read or write settings
    Cycle,    \* key -> its values, in the order of its button
    CacheTTL, \* CACHE_TTL
    NoEntry   \* the key is not in the cache

Keys      == DOMAIN Cycle
Values(k) == {Cycle[k][i] : i \in DOMAIN Cycle[k]}

ASSUME SettingsAssumption ==
    /\ CacheTTL \in Nat \ {0}
    /\ \A k \in Keys : Cycle[k] \in Seq(Values(k)) /\ Len(Cycle[k]) > 0

VARIABLES
    now,    \* monotonic()
    stored, \* the settings table, defaults filled in
    cache,  \* self._cache
    loaded, \* what the task's last read of a setting returned
    heldAt  \* when a key last had a value in the table; for the properties

settingsVars == <<now, stored, cache, loaded, heldAt>>

Entry == [value : UNION {Values(k) : k \in Keys}, deadline : Nat]

SettingsTypeOK ==
    /\ now \in Nat
    /\ \A k \in Keys :
         /\ stored[k] \in Values(k)
         /\ cache[k] \in Entry \cup {NoEntry}
         /\ heldAt[k] \in [Values(k) -> Nat]
    /\ DOMAIN loaded = Tasks

SettingsInit ==
    /\ now    = CacheTTL
    /\ stored = [k \in Keys |-> Cycle[k][1]]
    /\ cache  = [k \in Keys |-> NoEntry]
    /\ loaded = [t \in Tasks |-> NoEntry]
    /\ heldAt = [k \in Keys |-> [v \in Values(k) |-> IF v = Cycle[k][1] THEN now ELSE 0]]

-----------------------------------------------------------------------------

\* Mutant: the deadline itself still counts as fresh.
FreshToTheEnd(k) == cache[k] # NoEntry /\ cache[k].deadline >= now

\* Mutant: an entry never expires.
FreshForEver(k) == cache[k] # NoEntry

\* get answers from the cache, without an await, until the deadline.
Fresh(k) == cache[k] # NoEntry /\ cache[k].deadline > now

\* Mutant: the entry gets no deadline.
CachesUndated(k, v) ==
    cache' = [cache EXCEPT ![k] = [value |-> v, deadline |-> NoEntry]]

Caches(k, v) ==
    cache' = [cache EXCEPT ![k] = [value |-> v, deadline |-> now + CacheTTL]]

\* The database answers _load.
Loads(t, k) ==
    /\ loaded' = [loaded EXCEPT ![t] = stored[k]]
    /\ UNCHANGED <<now, stored, cache, heldAt>>

\* A transaction gives the key a value.
Stores(k, v) ==
    /\ stored' = [stored EXCEPT ![k] = v]
    /\ heldAt' = [heldAt EXCEPT ![k][v] = now]

\* The value after v, for a button that steps through them.
Following(k, v) ==
    LET at == CHOOSE i \in DOMAIN Cycle[k] : Cycle[k][i] = v
    IN  Cycle[k][(at % Len(Cycle[k])) + 1]

\* A database call is short beside the clock's tick: Quick says that none of
\* the composition's tasks is inside one.
Tick(Quick) ==
    /\ Quick
    /\ now'    = now + 1
    /\ heldAt' = [k \in Keys |-> [heldAt[k] EXCEPT ![stored[k]] = now + 1]]
    /\ UNCHANGED <<stored, cache, loaded>>

-----------------------------------------------------------------------------

\* "Out-of-band writers are picked up within CACHE_TTL seconds" (settings_service
\* .py:6): what get answers from the cache was in the table less than that ago,
\* whoever loaded it and whatever was written meanwhile.
SettingIsRecent ==
    \A k \in Keys : Fresh(k) => now - heldAt[k][cache[k].value] < CacheTTL
=============================================================================
