------------------------------ MODULE PanelData ------------------------------
(***************************************************************************)
(* The panel's clients and what each method of PanelGateway and            *)
(* SubscriptionService asks of one of them.                                *)
(***************************************************************************)
EXTENDS Expiry

CONSTANTS
    Users,     \* clients of the inbound, identified by email = str(tg_id)
    NoClient   \* the inbound has no client with that email

\* The client fields the gateway reads or writes.  A whole-object update
\* carries all of them.  total stands for total_gb and limit_ip, sub for sub_id.
Client   == [enable : BOOLEAN, expiry : Int, total : Nat, sub : Nat]
Snapshot == [Users -> Client \cup {NoClient}]

Mutations == {"set_enabled", "set_expiry_ms", "grant_days", "set_limits",
              "regenerate_sub_id"}
Writes    == Mutations \cup {"reset_traffic", "ensure_client", "delete_client"}
Request   == [kind : Writes \cup {"get_client"}, user : Users, arg : Nat]

ASSUME ClientAssumption == NoClient \notin Client

\* What apply() makes of the client it is given, for each caller of mutate.
\* A new sub_id is random: never the one the client had.
Applied(r, c, clock) ==
    CASE r.kind = "set_enabled"       -> [c EXCEPT !.enable = (r.arg = 1)]
      [] r.kind = "set_expiry_ms"     -> [c EXCEPT !.expiry = r.arg]
      [] r.kind = "set_limits"        -> [c EXCEPT !.total = r.arg]
      [] r.kind = "regenerate_sub_id" -> [c EXCEPT !.sub = @ + 1]
      [] r.kind = "grant_days"        ->
            [c EXCEPT !.expiry = CalculateExpiry(@, r.arg, clock, c.enable)]

\* apply() returns False for a grant to a perpetual client.
Changes(r, c, clock) ==
    r.kind = "grant_days" => Applied(r, c, clock).expiry # 0

\* The client ensure_client adds: already expired, disabled, with a sub_id.
NewClient(r, clock) ==
    [enable |-> FALSE, expiry |-> clock, total |-> 0, sub |-> r.arg]

\* verify() of each mutation: the changed field has the value that was written.
Persisted(r, sent, found) ==
    CASE r.kind = "set_enabled"                     -> found.enable = sent.enable
      [] r.kind \in {"set_expiry_ms", "grant_days"} -> found.expiry = sent.expiry
      [] r.kind = "set_limits"                      -> found.total = sent.total
      [] r.kind = "regenerate_sub_id"               -> found.sub = sent.sub

=============================================================================
