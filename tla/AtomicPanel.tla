----------------------------- MODULE AtomicPanel -----------------------------
(***************************************************************************)
(* What PanelGateway promises its callers: between its start and its       *)
(* return every write call takes effect on the panel at most once, as one  *)
(* atomic read-modify-write of one client, and a call that returns         *)
(* normally has taken effect unless there was nothing to change.  A call   *)
(* that raises PanelError may or may not have.  ensure_client alone takes  *)
(* effect in two steps, and may stop between them.                         *)
(***************************************************************************)
EXTENDS PanelData

CONSTANTS Tasks, NoRequest

VARIABLES panel, request, phase, now
vars == <<panel, request, phase, now>>

Init == /\ panel   \in Snapshot
        /\ request = [t \in Tasks |-> NoRequest]
        /\ phase   = [t \in Tasks |-> "idle"]
        /\ now     \in Nat

Step(t, from, to) == phase[t] \in from /\ phase' = [phase EXCEPT ![t] = to]
Target(t)         == panel[request[t].user]
Becomes(t, c)     == panel' = [panel EXCEPT ![request[t].user] = c]

Begin(t) ==
    /\ Step(t, {"idle"}, "pending")
    /\ request'[t] \in Request
    /\ request' = [request EXCEPT ![t] = request'[t]]
    /\ UNCHANGED <<panel, now>>

\* The one atomic change of a mutation, a reset or a deletion; the clock a
\* grant counts from was read at some moment of the call.
TakesEffect(t) ==
    /\ Step(t, {"pending"}, "applied")
    /\ Target(t) # NoClient
    /\ \/ /\ request[t].kind \in Mutations
          /\ \E clock \in 0..now :
                /\ Changes(request[t], Target(t), clock)
                /\ Becomes(t, Applied(request[t], Target(t), clock))
       \/ request[t].kind = "reset_traffic" /\ UNCHANGED panel
       \/ request[t].kind = "delete_client" /\ Becomes(t, NoClient)
    /\ UNCHANGED <<request, now>>

\* The panel switches a new client on; only the second write switches it off.
Creates(t) ==
    /\ Step(t, {"pending"}, "created")
    /\ request[t].kind = "ensure_client" /\ Target(t) = NoClient
    /\ \E clock \in 0..now :
          Becomes(t, [NewClient(request[t], clock) EXCEPT !.enable = TRUE])
    /\ UNCHANGED <<request, now>>

SwitchesOff(t) ==
    /\ Step(t, {"created"}, "applied")
    /\ Becomes(t, [Target(t) EXCEPT !.enable = FALSE])
    /\ UNCHANGED <<request, now>>

\* A write call may return without an effect only if it had nothing to change.
ReturnsUnchanged(t) ==
    /\ Step(t, {"pending"}, "done")
    /\ \/ request[t].kind = "get_client"
       \/ /\ Target(t) # NoClient
          /\ \/ request[t].kind = "ensure_client"
             \/ request[t].kind = "grant_days"
                /\ IsUnlimited(Target(t).expiry, Target(t).enable)
    /\ UNCHANGED <<panel, request, now>>

Returns(t) == Step(t, {"applied"}, "done") /\ UNCHANGED <<panel, request, now>>

Raises(t) == /\ Step(t, {"pending", "created", "applied"}, "failed")
             /\ UNCHANGED <<panel, request, now>>

Ends(t) == /\ Step(t, {"done", "failed"}, "idle")
           /\ request' = [request EXCEPT ![t] = NoRequest]
           /\ UNCHANGED <<panel, now>>

\* A read answered from the cache starts and returns in one step.
Hit(t) == /\ Step(t, {"idle"}, "done")
          /\ request'[t] \in {r \in Request : r.kind = "get_client"}
          /\ request' = [request EXCEPT ![t] = request'[t]]
          /\ UNCHANGED <<panel, now>>

Tick == now' = now + 1 /\ UNCHANGED <<panel, request, phase>>

Next == \/ Tick
        \/ \E t \in Tasks :
              \/ Begin(t) \/ Hit(t) \/ TakesEffect(t) \/ Creates(t)
              \/ SwitchesOff(t) \/ ReturnsUnchanged(t) \/ Returns(t)
              \/ Raises(t) \/ Ends(t)

Spec == Init /\ [][Next]_vars
=============================================================================
