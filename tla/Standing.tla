------------------------------ MODULE Standing ------------------------------
(***************************************************************************)
(* What the screens make of one user: the icon of the users list, the line *)
(* of the card, the user's own dashboard and the audiences of a broadcast, *)
(* each of which judges for itself.  A row is what the users table says    *)
(* and the client on the panel, or NoClient, also when the panel does not  *)
(* answer.  Times are counted in days; the clock is positive.              *)
(***************************************************************************)
EXTENDS Integers

CONSTANT NoClient

ExpiringWindow == 3 \* EXPIRING_WINDOW_MS
SoonWindow     == 7 \* SOON_WINDOW_MS

\* status_icon.
StatusIcon(row, now) ==
    LET c == row.client IN
    IF row.status \in {"blocked", "pending"} THEN row.status
    ELSE IF row.status # "approved" \/ c = NoClient THEN "inactive"
    ELSE IF ~c.enable \/ (c.expiry # 0 /\ c.expiry <= now) THEN "inactive"
    ELSE IF c.expiry = 0 \/ c.expiry - now > ExpiringWindow THEN "active"
    ELSE "soon"

\* filter_rows: "blocked" is the filter of the rows that are not served.
FilterRows(rows, key, now) ==
    LET wanted == IF key = "blocked" THEN "inactive" ELSE key IN
    IF key \notin {"active", "blocked", "soon"} THEN rows
    ELSE {row \in rows : StatusIcon(row, now) = wanted}

\* _status_line of the card.
StatusLine(row, now) ==
    LET c == row.client IN
    IF row.status = "blocked" THEN "banned"
    ELSE IF row.status = "pending" THEN "pending"
    ELSE IF row.status # "approved" THEN "inactive"
    ELSE IF c = NoClient THEN "no client"
    ELSE IF ~c.enable THEN "frozen"
    ELSE IF c.expiry = 0 THEN "unlimited"
    ELSE IF c.expiry <= now THEN "expired"
    ELSE IF c.expiry - now <= ExpiringWindow THEN "expiring" ELSE "active"

\* profile_state, of a client that is there.
ProfileState(c, now) ==
    IF ~c.enable /\ c.expiry = 0 THEN "not activated"
    ELSE IF ~c.enable /\ c.expiry > now THEN "suspended"
    ELSE IF c.enable /\ c.expiry = 0 THEN "unlimited"
    ELSE IF c.expiry <= now THEN "expired"
    ELSE IF c.expiry - now <= ExpiringWindow THEN "expiring" ELSE "active"

\* _is_active and _expires_soon.
IsActive(c, now) == c # NoClient /\ c.enable /\ (c.expiry = 0 \/ c.expiry > now)

ExpiresSoon(c, now) == c # NoClient /\ c.expiry > now /\ c.expiry - now <= SoonWindow

\* audience_ids, of list_broadcast_ids: whether the row is among the recipients.
InAudience(row, key, now) ==
    /\ row.status = "approved" /\ ~row.bot_blocked
    /\ key = "active" => IsActive(row.client, now)
    /\ key = "soon" => ExpiresSoon(row.client, now)
=============================================================================
