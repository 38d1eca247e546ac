----------------------------- MODULE MCPayments -----------------------------
(* Instances of Payments for TLC. *)
EXTENDS Payments

CONSTANTS u1, u2, r1, r2, e1, p1, p2

Live        == [enable |-> TRUE, expiry |-> 2, total |-> 0, sub |-> 1]
Endless     == [enable |-> TRUE, expiry |-> 0, total |-> 0, sub |-> 1]
Lapsed      == [enable |-> FALSE, expiry |-> 0, total |-> 0, sub |-> 1]
MCLive        == [u \in Users |-> Live]
MCMixed       == [u \in Users |-> IF u = u1 THEN Live ELSE Endless]
MCPlaceholder == [u \in Users |-> Lapsed]

MCOneDay    == [p \in Payments |-> 1]
MCOneOwner  == [p \in Payments |-> u1]
MCTwoOwners == [p \in Payments |-> IF p = p1 THEN u1 ELSE u2]

Asks(kind, arg) == {[kind |-> kind, user |-> u, arg |-> arg] : u \in Users}

MCNone   == {}
MCGrants == Asks("grant_days", 1)
MCDelete == Asks("delete_client", 0)
=============================================================================
