--------------------------- MODULE GatewayClients ---------------------------
(***************************************************************************)
(* The gateway on its own: handlers that call any of its methods, in any   *)
(* order and concurrently, a bounded number of times.                      *)
(***************************************************************************)
EXTENDS PanelGateway

CONSTANTS
    Initial,    \* the panels the process can find when it starts
    Requests,   \* the write requests its handlers make
    Readers,    \* the tasks that call get_client
    MaxCalls,   \* bound: calls a task makes
    MaxNow      \* bound: days that pass

ASSUME ClientsAssumption ==
    /\ Initial \subseteq Snapshot
    /\ Requests \subseteq {r \in Request : r.kind \in Writes}
    /\ MaxCalls \in Nat /\ MaxNow \in Nat

VARIABLE calls  \* calls each task may still make
vars == <<panelVars, calls>>

TypeOK == PanelTypeOK /\ calls \in [Tasks -> Nat]

Init == /\ \E clients \in Initial : PanelInit(clients, 1)
        /\ calls = [t \in Tasks |-> MaxCalls]

Spend(t) == /\ stage[t] = "idle" /\ calls[t] > 0
            /\ calls' = [calls EXCEPT ![t] = @ - 1]

Reads(t)     == t \in Readers /\ Spend(t) /\ \E u \in Users : BeginGet(t, u)
WritesTo(t)  == Spend(t) /\ \E r \in Requests : BeginWrite(t, r)
Returns(t)   == stage[t] \in {"done", "failed"} /\ EndCall(t) /\ UNCHANGED calls

Tick == /\ now < MaxNow
        /\ now' = now + 1
        /\ UNCHANGED <<panel, cache, queue, request, stage, answer, object, late,
                       calls>>

Next == \/ \E t \in Tasks : Reads(t) \/ WritesTo(t) \/ Returns(t)
        \/ GatewayStep /\ UNCHANGED calls
        \/ Tick

\* The event loop runs every task that can run; the panel need not answer, but
\* wait_for then gives up.
Fairness ==
    \A t \in Tasks :
        /\ WF_vars(Resumes(t) /\ UNCHANGED calls)
        /\ WF_vars(RequestFails(t) /\ UNCHANGED calls)
        /\ WF_vars(Returns(t))

Spec     == Init /\ [][Next]_vars
FairSpec == Spec /\ Fairness

\* Every call is atomic (panel.py:264-271): seen from its callers, the gateway
\* with its lock, cache and re-reads is AtomicPanel.
Phase(t) ==
    CASE stage[t] \in {"idle", "done", "failed"} -> stage[t]
      [] stage[t] \in {"fetch", "wait", "read"}  -> "pending"
      [] stage[t] = "verify"                     -> "applied"
      [] stage[t] = "add"   -> IF answer[t] = Ack THEN "created" ELSE "pending"
      [] stage[t] = "write" -> IF answer[t] = Ack THEN "applied"
                               ELSE IF request[t].kind = "ensure_client"
                                    THEN "created" ELSE "pending"

Atomic == INSTANCE AtomicPanel WITH phase <- [t \in Tasks |-> Phase(t)]

CallsAreAtomic == Atomic!Spec

\* Granted days are kept: no call but a set_expiry_ms ever moves an expiry back,
\* although each sends a whole client, so "concurrent grants for the same user
\* add up instead of losing one" (subscriptions.py:5).
GrantsKept ==
    [][\A u \in Users :
         /\ panel[u] # NoClient /\ panel'[u] # NoClient
         /\ panel'[u].expiry < panel[u].expiry
         => \E t \in Tasks : /\ stage[t] = "write" /\ request[t].user = u
                            /\ request[t].kind = "set_expiry_ms"]_vars
=============================================================================
