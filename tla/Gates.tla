------------------------------- MODULE Gates -------------------------------
(***************************************************************************)
(* The way of an update to its handler: the middlewares Context,           *)
(* Maintenance, Access and Throttle (app/middlewares) over SettingsCache,  *)
(* and the owner's handlers that step a setting on.  telebot runs every    *)
(* update as a task of its own; the gates are one step but for the awaits  *)
(* of the row and of the setting.                                          *)
(***************************************************************************)
EXTENDS SettingsCache

CONSTANTS
    From,       \* update -> the account that sends it
    Staff,      \* accounts with a role (get_role caches it for good)
    Starts,     \* updates that are a /start
    Button,     \* update -> the setting it steps on, if it is staff's
    Maintenance,\* the key "maintenance_mode"
    LockTTL,    \* IN_FLIGHT_TTL
    RateWindow, \* RATE_WINDOW
    RateLimit,  \* RATE_LIMIT
    None,       \* no lock
    MaxNow,     \* bound: the clock
    MaxOutside  \* bound: writes of another process, the CLI's

Accounts == {From[x] : x \in Tasks}
Statuses == {"none", "pending", "approved", "rejected", "blocked"}

ASSUME GatesAssumption ==
    /\ DOMAIN From = Tasks /\ Starts \subseteq Tasks /\ Button \in [Tasks -> Keys]
    /\ Maintenance \in Keys /\ Values(Maintenance) = BOOLEAN
    /\ {LockTTL, RateLimit} \subseteq Nat \ {0}
    /\ None \notin Nat
    /\ RateWindow \in Nat /\ MaxOutside \in Nat /\ MaxNow \in Nat

VARIABLES
    pc,       \* where the update is
    user,     \* data["user"].status: the row Context read
    begun,    \* when its handler began
    inFlight, \* self._in_flight
    recent,   \* self._recent
    admitted, \* stamps of all updates let in but staff's; for the properties
    slow,     \* accounts with a handler that ran for LockTTL; for the properties
    outside   \* writes another process may still make

gateVars == <<pc, user, begun, inFlight, recent, admitted, slow, outside>>
vars     == <<settingsVars, gateVars>>

Places == {"new", "gate", "gateLoad", "gateLoaded", "handler", "stepLoad",
           "stepLoaded", "write", "written", "stepped", "gone"}

Handling == {"handler", "stepLoad", "stepLoaded", "write", "written", "stepped"}

\* The updates of account a whose handler is running.
Running(a) == {x \in Tasks : From[x] = a /\ pc[x] \in Handling}

TypeOK ==
    /\ SettingsTypeOK
    /\ pc       \in [Tasks -> Places]
    /\ user     \in [Tasks -> Statuses]
    /\ begun    \in [Tasks -> Nat]
    /\ inFlight \in [Accounts -> Nat \cup {None}]
    /\ \A a \in Accounts : {recent[a], admitted[a]} \subseteq Seq(Nat)
    /\ slow     \subseteq Accounts
    /\ outside  \in Nat

Init ==
    /\ SettingsInit
    /\ pc       = [x \in Tasks |-> "new"]
    /\ user     = [x \in Tasks |-> "none"]
    /\ begun    = [x \in Tasks |-> 0]
    /\ inFlight = [a \in Accounts |-> None]
    /\ recent   = [a \in Accounts |-> <<>>]
    /\ admitted = [a \in Accounts |-> <<>>]
    /\ slow     = {}
    /\ outside  = MaxOutside

Goes(x, l) == pc' = [pc EXCEPT ![x] = l]

-----------------------------------------------------------------------------
(* The verdicts of the gates on update x, as pure functions of the state.  *)

IsStaff(x) == From[x] \in Staff

\* AccessMiddleware: staff, then the ban, then any /start, then the approved.
Welcome(x) ==
    IsStaff(x) \/ (user[x] # "blocked" /\ (x \in Starts \/ user[x] = "approved"))

\* Mutant: the lock is taken for leaked one tick early.
StaleEarly(a) == inFlight[a] # None => now - inFlight[a] + 1 >= LockTTL

\* _is_in_flight: a lock of LockTTL or more is taken for leaked.
LockIsFree(a) == inFlight[a] # None => now - inFlight[a] >= LockTTL

\* What _over_cap leaves: the oldest stamps are popped while they are out of the window.
InWindow(a) ==
    LET stamps == recent[a]
        popped == CHOOSE n \in 0 .. Len(stamps) :
                     /\ \A i \in 1 .. n : now - stamps[i] > RateWindow
                     /\ n < Len(stamps) => now - stamps[n + 1] <= RateWindow
    IN  SubSeq(stamps, popped + 1, Len(stamps))

\* Mutant: one update too many.
OneMore(x) == ~IsStaff(x) /\ Len(InWindow(From[x])) > RateLimit

OverCap(x) == ~IsStaff(x) /\ Len(InWindow(From[x])) >= RateLimit

-----------------------------------------------------------------------------
(* The gates.                                                              *)

\* ContextMiddleware: the row, as the other handlers have left it, read once for
\* all that follows.
Arrives(x, s) ==
    /\ pc[x] = "new"
    /\ user' = [user EXCEPT ![x] = s]
    /\ Goes(x, "gate")
    /\ UNCHANGED <<settingsVars, begun, inFlight, recent, admitted, slow, outside>>

\* Mutant: the lock is taken before the gates that may cancel.
CancelledLocked(x) ==
    /\ inFlight' = [inFlight EXCEPT ![From[x]] = now]
    /\ Goes(x, "gone")
    /\ UNCHANGED recent

\* Maintenance or Access cancels the update; the throttle never sees it.
Cancelled(x) == Goes(x, "gone") /\ UNCHANGED <<inFlight, recent>>

\* Throttle cancels a duplicate, or one over the cap, whose window is pruned.
Throttled(x) ==
    /\ \/ ~LockIsFree(From[x]) /\ UNCHANGED <<inFlight, recent>>
       \/ /\ LockIsFree(From[x]) /\ OverCap(x)
          /\ inFlight' = [inFlight EXCEPT ![From[x]] = None]
          /\ recent' = [recent EXCEPT ![From[x]] = InWindow(From[x])]
    /\ Goes(x, "gone")

\* The update reaches its handler.
LetIn(x) ==
    LET a == From[x] IN
    /\ LockIsFree(a) /\ ~OverCap(x)
    /\ inFlight' = [inFlight EXCEPT ![a] = now]
    /\ recent'   = IF IsStaff(x) THEN recent
                   ELSE [recent EXCEPT ![a] = Append(InWindow(a), now)]
    /\ Goes(x, "handler")

\* Everything after the maintenance flag is known.
Judged(x, on) ==
    /\ IF (on /\ ~IsStaff(x)) \/ ~Welcome(x) THEN Cancelled(x) ELSE Throttled(x) \/ LetIn(x)
    /\ user'     = [user EXCEPT ![x] = "none"]
    /\ begun'    = [begun EXCEPT ![x] = IF pc'[x] = "handler" THEN now ELSE 0]
    /\ admitted' = IF pc'[x] = "handler" /\ ~IsStaff(x)
                   THEN [admitted EXCEPT ![From[x]] = Append(@, now)] ELSE admitted
    /\ UNCHANGED <<slow, outside>>

\* Staff do not look at the flag; others do, in the cache ...
PassesGates(x) ==
    /\ pc[x] = "gate" /\ (IsStaff(x) \/ Fresh(Maintenance))
    /\ Judged(x, ~IsStaff(x) /\ cache[Maintenance].value)
    /\ UNCHANGED settingsVars

\* ... or in the table ...
AsksTable(x) ==
    /\ pc[x] = "gate" /\ ~IsStaff(x) /\ ~Fresh(Maintenance)
    /\ Goes(x, "gateLoad")
    /\ UNCHANGED <<settingsVars, user, begun, inFlight, recent, admitted, slow, outside>>

\* ... and go on with what they read, which the cache now holds.
TableAnswered(x) ==
    /\ pc[x] = "gateLoaded"
    /\ Caches(Maintenance, loaded[x])
    /\ Judged(x, loaded[x])
    /\ UNCHANGED <<now, stored, loaded, heldAt>>

-----------------------------------------------------------------------------
(* Handlers.                                                               *)

StaysGated == UNCHANGED <<user, begun, inFlight, recent, admitted, slow, outside>>

\* _toggle, _access, /maintenance: the old value first, cached or loaded ...
StepsCached(x) ==
    LET k == Button[x] IN
    /\ pc[x] = "handler" /\ IsStaff(x) /\ Fresh(k)
    /\ loaded' = [loaded EXCEPT ![x] = cache[k].value]
    /\ Goes(x, "write")
    /\ UNCHANGED <<now, stored, cache, heldAt>> /\ StaysGated

StepsLoading(x) ==
    /\ pc[x] = "handler" /\ IsStaff(x) /\ ~Fresh(Button[x])
    /\ Goes(x, "stepLoad")
    /\ UNCHANGED settingsVars /\ StaysGated

\* The database answers either.
TableReads(x) ==
    /\ \/ pc[x] = "gateLoad" /\ Loads(x, Maintenance) /\ Goes(x, "gateLoaded")
       \/ pc[x] = "stepLoad" /\ Loads(x, Button[x]) /\ Goes(x, "stepLoaded")
    /\ StaysGated

StepResumes(x) ==
    /\ pc[x] = "stepLoaded"
    /\ Caches(Button[x], loaded[x])
    /\ Goes(x, "write")
    /\ UNCHANGED <<now, stored, loaded, heldAt>> /\ StaysGated

\* ... then the transaction of set ...
Commits(x) ==
    /\ pc[x] = "write"
    /\ Stores(Button[x], Following(Button[x], loaded[x]))
    /\ Goes(x, "written")
    /\ UNCHANGED <<now, cache, loaded>> /\ StaysGated

\* ... then its cache entry.
Committed(x) ==
    /\ pc[x] = "written"
    /\ Caches(Button[x], Following(Button[x], loaded[x]))
    /\ Goes(x, "stepped")
    /\ UNCHANGED <<now, stored, loaded, heldAt>> /\ StaysGated

\* The handler returns or raises: post_process pops the account's lock, whoever
\* set it.
Finishes(x) ==
    /\ pc[x] \in {"handler", "stepped"}
    /\ inFlight' = [inFlight EXCEPT ![From[x]] = None]
    /\ begun'    = [begun EXCEPT ![x] = 0]
    /\ loaded'   = [loaded EXCEPT ![x] = NoEntry]
    /\ Goes(x, "gone")
    /\ UNCHANGED <<now, stored, cache, heldAt, user, recent, admitted, slow, outside>>

-----------------------------------------------------------------------------
(* The surroundings.                                                       *)

\* Another process writes the table and knows nothing of the cache.
WrittenOutside(k) ==
    /\ outside > 0
    /\ outside' = outside - 1
    /\ Stores(k, Following(k, stored[k]))
    /\ UNCHANGED <<now, cache, loaded>>
    /\ UNCHANGED <<pc, user, begun, inFlight, recent, admitted, slow>>

TimePasses ==
    /\ now < MaxNow
    /\ Tick(\A x \in Tasks : pc[x] \in {"new", "handler", "stepped", "gone"})
    /\ slow' = slow \cup {a \in Accounts : \E x \in Running(a) : now + 1 - begun[x] >= LockTTL}
    /\ UNCHANGED <<pc, user, begun, inFlight, recent, admitted, outside>>

Next ==
    \/ \E x \in Tasks :
          \/ \E s \in Statuses : Arrives(x, s)
          \/ PassesGates(x) \/ AsksTable(x) \/ TableReads(x) \/ TableAnswered(x)
          \/ StepsCached(x) \/ StepsLoading(x) \/ StepResumes(x) \/ Commits(x) \/ Committed(x)
          \/ Finishes(x)
    \/ \E k \in Keys : WrittenOutside(k)
    \/ TimePasses

Spec == Init /\ [][Next]_vars

-----------------------------------------------------------------------------
(* Correctness.                                                            *)

\* "Drop duplicate in-flight updates" (throttle.py:39): two handlers of one
\* account run at once only if one of its handlers has taken LockTTL.
OneHandlerAtATime ==
    \A a \in Accounts : \A x, y \in Running(a) : x # y => a \in slow

\* "A lock is only ever taken on updates that reach a handler" (throttle.py:3):
\* no account is locked out by an update that is gone.
LockIsHeld == \A a \in Accounts : inFlight[a] # None => Running(a) # {}

\* No user but staff gets more than RateLimit updates handled in any window
\* (throttle.py:31), however the window is pruned and the lock released.
RateIsCapped ==
    \A a \in Accounts : \A i \in DOMAIN admitted[a] :
        i + RateLimit \in DOMAIN admitted[a]
        => admitted[a][i + RateLimit] - admitted[a][i] > RateWindow

\* "Cancel updates from non-staff while maintenance mode is on" (maintenance.py:29):
\* past CACHE_TTL after it was switched on, by whomever, nobody else gets in.
MaintenanceHolds ==
    [][\A x \in Tasks :
         pc[x] # "handler" /\ pc'[x] = "handler" /\ ~IsStaff(x)
         => now - heldAt[Maintenance][FALSE] < CacheTTL]_vars

\* "A toggle applies to the very next update" (maintenance.py:5): once every set
\* has returned, what the cache answers is what the table holds.
ToggleIsImmediate ==
    \A k \in Keys :
        /\ \A x \in Tasks : pc[x] # "written"
        /\ outside = MaxOutside /\ Fresh(k)
        => cache[k].value = stored[k]
=============================================================================
