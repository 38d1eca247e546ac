------------------------------ MODULE MCGateway ------------------------------
(* Instances of GatewayClients for TLC. *)
EXTENDS GatewayClients, TLC

Live        == [enable |-> TRUE, expiry |-> 2, total |-> 1, sub |-> 1]
Perpetual   == [enable |-> TRUE, expiry |-> 0, total |-> 0, sub |-> 1]
Placeholder == [enable |-> FALSE, expiry |-> 0, total |-> 0, sub |-> 1]

\* Panels with every kind of client, and with none.
MCInitial == [Users -> {Live, Perpetual, Placeholder, NoClient}]
MCLive    == [Users -> {Live}]

Asks(kind, arg) == {[kind |-> kind, user |-> u, arg |-> arg] : u \in Users}

MCEveryWrite ==
    UNION {Asks("set_enabled", 0), Asks("set_expiry_ms", 3), Asks("grant_days", 1),
           Asks("set_limits", 2), Asks("regenerate_sub_id", 0),
           Asks("reset_traffic", 0), Asks("ensure_client", 3),
           Asks("delete_client", 0)}
MCGrantsAndFreezes ==
    UNION {Asks("set_enabled", 0), Asks("set_enabled", 1), Asks("grant_days", 1),
           Asks("grant_days", 2)}

MCSymmetry == Permutations(Tasks)
=============================================================================
