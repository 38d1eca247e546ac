------------------------------- MODULE MCDesk -------------------------------
(* Instances of Desk for TLC, and what the pure screens beside it are checked for. *)
EXTENDS Desk, Lists, Standing, TLC

CONSTANTS a1, l1, l2, u1, u2, x1, x2, k1, k2, v1, v2, new, del

MCAlike == Permutations({u1, u2}) \cup Permutations({l1, l2})
             \cup Permutations({x1, x2}) \cup Permutations({k1, k2})

\* Bound: two texts, two tokens, or one of each.
MCBound == Cardinality(typed) + Cardinality({k \in Tokens : card[k] # NoCard}) <= 2

\* However long a list is, every row is on exactly one page; whatever page a button
\* asks for, an old one too, shows rows if there are any, and its own buttons lead to
\* the pages before and after it and to no other.
MCPagesCover ==
    \A total \in 0 .. 41 :
        /\ \A i \in 1 .. total :
              Cardinality({n \in 0 .. PageCount(total) - 1 : i \in Paginate(n, total).items}) = 1
        /\ \A n \in -1 .. 7 :
              LET p == Paginate(n, total) IN
              /\ total > 0 => p.items # {}
              /\ {AsksFor(p, b) : b \in NavRow(p)}
                    = {p.index - 1, p.index + 1} \cap (0 .. p.count - 1)

MCClients == [enable : BOOLEAN, expiry : {-1, 0} \cup 1 .. 14] \cup {NoClient}
MCRows    == [status : {"new", "pending", "approved", "rejected", "blocked"},
              bot_blocked : BOOLEAN, client : MCClients]
MCNow     == 3

\* The list, the card, the user's own dashboard and the broadcast call the same users
\* served and, but for the broadcast, the same ones about to expire.  The audience
\* "active" is the icons active and soon, not the first alone as broadcast.py:146 has
\* it; "soon" looks four days further than the icon, and at clients switched off too.
MCScreensAgree ==
    \A row \in MCRows :
        LET icon == StatusIcon(row, MCNow)
            line == StatusLine(row, MCNow)
        IN  /\ icon = "active" <=> line \in {"active", "unlimited"}
            /\ icon = "soon" <=> line = "expiring"
            /\ row.status = "approved" /\ row.client # NoClient =>
                  LET own == ProfileState(row.client, MCNow) IN
                  /\ icon = "active" <=> own \in {"active", "unlimited"}
                  /\ icon = "soon" <=> own = "expiring"
            /\ ~row.bot_blocked =>
                  /\ InAudience(row, "active", MCNow) <=> icon \in {"active", "soon"}
                  /\ icon = "soon" => InAudience(row, "soon", MCNow)

\* The filters of the list are disjoint, and hide only who is blocked or waits.
MCFiltersSplit ==
    LET found == {FilterRows(MCRows, key, MCNow) : key \in {"active", "soon", "blocked"}} IN
    /\ \A f, g \in found : f # g => f \cap g = {}
    /\ FilterRows(MCRows, "all", MCNow) = UNION found
          \cup {row \in MCRows : row.status \in {"blocked", "pending"}}

ASSUME MCScreens == MCPagesCover /\ MCScreensAgree /\ MCFiltersSplit
=============================================================================
