------------------------------ MODULE MCAccess ------------------------------
(* Instances of Access for TLC. *)
EXTENDS Access, FiniteSetsExt, TLC

CONSTANTS u1, r1, r2, b1, b2

Sub(enable, expiry) == [enable |-> enable, expiry |-> expiry, total |-> 0, sub |-> 1]
Live        == Sub(TRUE, 3)
Perpetual   == Sub(TRUE, 0)
Banned      == Sub(FALSE, 3)
Lapsed      == Sub(FALSE, 1)
Placeholder == Sub(FALSE, 0)

States(statuses, clients) ==
    [status : [Users -> statuses], panel : [Users -> clients]]

\* Strangers, who may ask for access; a request of somebody the panel knows already;
\* refusals, customers of every kind, and a ban that a crash cut short after its row.
MCAnybody ==
    States({"none", "rejected"}, {NoClient})
    \cup States({"pending"}, {Live})
    \cup States({"approved"}, {Live, Perpetual, Lapsed, Placeholder, NoClient})
    \cup States({"blocked"}, {Banned, Live, Lapsed, Placeholder, NoClient})
MCCustomers == States({"approved"}, {Live})
MCModes     == {"approval", "open", "invite_only"}
MCStaff     == Permutations(Reviewers) \cup Permutations(Banners)

\* Bound: four updates in all, of whichever accounts, one of them the user's own.
MCFew ==
    /\ FoldSet(LAMBDA t, n : n + MaxActs - acts[t], 0, Tasks) <= 4
    /\ \A u \in Users : acts[u] >= MaxActs - 1
=============================================================================
