---------------------------- MODULE LegacyImport ----------------------------
(***************************************************************************)
(* LegacyImporter.run (app/services/legacy_import.py): the panel's clients *)
(* and the old ban list become rows of users, one client after another,    *)
(* from one snapshot of the panel.  Each transaction and each panel write  *)
(* is a step; a panel write that fails is only logged.  A dry run changes  *)
(* nothing and is left out.                                                *)
(***************************************************************************)
EXTENDS Naturals, FiniteSets

CONSTANTS
    Users,    \* numeric emails
    Listed,   \* the ban list (BANNED_USERS_FILE)
    NoClient, \* no client on the panel
    Nobody    \* no client in hand

VARIABLES
    row,    \* users.status; "none": no row
    client, \* the panel: enable, and expiry "unset" (0), "past" or "future"
    bank,   \* settings.bank_details: "unset", "env" (BANK_ACCOUNT_DETAILS) or "own"
    step,   \* where the import is
    todo,   \* clients it has still to take
    hand,   \* the client it has in hand
    snap,   \* the panel as it listed it
    bans,   \* the ban list as it could read it
    clean   \* no panel write of the import failed; for the properties

stores     == <<row, client, bank>>
importVars == <<step, todo, hand, snap, bans, clean>>

Clients  == [enable : BOOLEAN, expiry : {"unset", "past", "future"}]
Statuses == {"none", "pending", "approved", "blocked"}

ImportTypeOK ==
    /\ row \in [Users -> Statuses]
    /\ client \in [Users -> Clients \cup {NoClient}]
    /\ bank \in {"unset", "env", "own"}
    /\ step \in {"off", "row", "pin", "disable"}
    /\ todo \subseteq Users
    /\ hand \in Users \cup {Nobody} /\ (hand = Nobody <=> step \in {"off", "row"})
    /\ snap \in [Users -> Clients \cup {NoClient}]
    /\ bans \subseteq Listed
    /\ clean \in BOOLEAN

ImportOff ==
    /\ step = "off" /\ todo = {} /\ hand = Nobody
    /\ snap = [u \in Users |-> NoClient] /\ bans = {} /\ clean = TRUE

\* _numeric_clients and _banned_ids: a list that cannot be read has no bans.
Lists ==
    /\ step' = "row"
    /\ todo' = {u \in Users : client[u] # NoClient}
    /\ snap' = client
    /\ bans' \in {Listed, {}}
    /\ clean' = TRUE
    /\ UNCHANGED hand

\* The process dies, or the import is over.
Drops ==
    /\ step' = "off" /\ todo' = {} /\ hand' = Nobody
    /\ snap' = [u \in Users |-> NoClient] /\ bans' = {} /\ clean' = TRUE

\* Mutant: a row that is there already is only refreshed.
NewRowsOnly(u) ==
    IF row[u] # "none" THEN row[u] ELSE IF u \in bans THEN "blocked" ELSE "approved"

\* What _upsert_user makes of the row.
Upserted(u) ==
    IF u \in bans THEN "blocked" ELSE IF row[u] = "none" THEN "approved" ELSE row[u]

Upsert ==
    /\ step = "row"
    /\ \E u \in todo :
          /\ row' = [row EXCEPT ![u] = Upserted(u)]
          /\ hand' = u /\ todo' = todo \ {u}
    /\ step' = "pin"
    /\ UNCHANGED <<client, bank, snap, bans, clean>>

\* A panel write on the client in hand, which may fail or have nothing to do.
Writes(due, changed) ==
    IF due THEN \/ client' = [client EXCEPT ![hand] = changed] /\ UNCHANGED clean
                \/ UNCHANGED client /\ clean' = FALSE
    ELSE UNCHANGED <<client, clean>>

\* Mutant: 0 is pinned whatever enable says.
Unset(c) == c.expiry = "unset"

\* 0 and disabled: never activated.
Placeholder(c) == c.expiry = "unset" /\ ~c.enable

\* _normalize_client.
Pin ==
    /\ step = "pin"
    /\ Writes(Placeholder(snap[hand]), [client[hand] EXCEPT !.expiry = "past"])
    /\ step' = "disable"
    /\ UNCHANGED <<row, bank, todo, hand, snap, bans>>

Disable ==
    /\ step = "disable"
    /\ Writes(hand \in bans /\ snap[hand].enable, [client[hand] EXCEPT !.enable = FALSE])
    /\ hand' = Nobody
    /\ step' = "row"
    /\ UNCHANGED <<row, bank, todo, snap, bans>>

\* _seed_bank_details, once every client has been taken; the import is over.
Seed ==
    /\ step = "row" /\ todo = {}
    /\ bank' = IF bank = "unset" THEN "env" ELSE bank
    /\ Drops
    /\ UNCHANGED <<row, client>>
=============================================================================
