------------------------------ MODULE Admission ------------------------------
(***************************************************************************)
(* How an account gets its row in users: the legacy import at startup      *)
(* (ensure_legacy_import, app/app.py) or from the command line (app/cli.py)*)
(* and /start with or without an invite (app/handlers/start.py), with bans *)
(* and crashes.  What one handler does on the panel is one step, which may *)
(* fail; its interleavings are the business of Access.                     *)
(***************************************************************************)
EXTENDS LegacyImport, Invites

CONSTANTS
    Initial,  \* the panel the old bot left
    Modes,    \* access modes the settings may hold
    MaxRuns,  \* bound: times a process is started
    MaxActs,  \* bound: acts of staff
    MaxToday  \* bound: days

ASSUME AdmissionAssumption ==
    /\ Listed \subseteq Users /\ Nobody \notin Users
    /\ Initial \in [Users -> Clients \cup {NoClient}]
    /\ Modes \subseteq {"open", "approval", "invite_only"}
    /\ MaxRuns \in Nat /\ MaxActs \in Nat /\ MaxToday \in Nat

VARIABLES
    proc,     \* "down", "boot" or "cli" while one of them imports, "up"
    runs,     \* processes started
    acts,     \* acts of staff
    pc,       \* where each account's /start is
    link,     \* the invite it has just redeemed
    admitted, \* the accounts an invite let in; for the properties
    whole,    \* listed accounts an import has taken; for the properties
    lifted,   \* accounts staff has unbanned since; for the properties
    settled   \* nothing but imports changed a store since a clean one; for the properties

handlers == <<pc, link, admitted>>
ghosts   == <<whole, lifted, settled>>
vars     == <<stores, importVars, inviteVars, today, proc, runs, acts, handlers, ghosts>>

TypeOK ==
    /\ ImportTypeOK /\ InvitesTypeOK
    /\ proc \in {"down", "boot", "cli", "up"}
    /\ (step = "off") <=> (proc \in {"down", "up"})
    /\ runs \in Nat /\ acts \in Nat
    /\ pc \in [Users -> {"idle", "start", "row", "client"}]
    /\ \A u \in Users : pc[u] # "idle" => proc = "up"
    /\ link \in [Users -> InviteIds \cup {NoInvite}]
    /\ admitted \in [InviteIds -> SUBSET Users]
    /\ whole \subseteq Users /\ lifted \subseteq Users /\ settled \in BOOLEAN

Init ==
    /\ row = [u \in Users |-> "none"] /\ client = Initial /\ bank = "unset"
    /\ ImportOff /\ InvitesInit
    /\ proc = "down" /\ runs = 0 /\ acts = 0
    /\ pc = [u \in Users |-> "idle"] /\ link = [u \in Users |-> NoInvite]
    /\ admitted = [i \in InviteIds |-> {}]
    /\ whole = {} /\ lifted = {} /\ settled = FALSE

-----------------------------------------------------------------------------
(* Processes.                                                              *)

Starts ==
    /\ proc = "down" /\ runs < MaxRuns
    /\ runs' = runs + 1
    /\ UNCHANGED <<stores, inviteVars, today, acts, handlers, ghosts>>

\* ensure_legacy_import lets the bot start: there are rows already, the panel does
\* not answer, or it has no customers ...
BootsAtOnce ==
    /\ Starts
    /\ proc' = "up" /\ UNCHANGED importVars

Unimported ==
    /\ \A u \in Users : row[u] = "none"
    /\ \E u \in Users : client[u] # NoClient

\* ... or it imports first, with AUTO_IMPORT_LEGACY ...
BootsImporting ==
    /\ Starts /\ Unimported
    /\ proc' = "boot" /\ Lists

\* ... or, without, it refuses to start.
BootFails ==
    /\ Starts /\ Unimported
    /\ UNCHANGED <<proc, importVars>>

\* python -m app.cli import-legacy, with the bot stopped.
Cli ==
    /\ Starts
    /\ proc' = "cli" /\ Lists

Importing == proc \in {"boot", "cli"}

ImportsRow ==
    /\ Importing
    /\ Upsert
    /\ whole'  = whole \cup (bans \cap {hand'})
    /\ lifted' = lifted \ (bans \cap {hand'})
    /\ UNCHANGED <<inviteVars, today, proc, runs, acts, handlers, settled>>

ImportsClient ==
    /\ Importing
    /\ Pin \/ Disable
    /\ UNCHANGED <<inviteVars, today, proc, runs, acts, handlers, ghosts>>

ImportEnds ==
    /\ Importing
    /\ Seed
    /\ proc' = IF proc = "boot" THEN "up" ELSE "down"
    /\ settled' = (settled \/ (clean /\ bans = Listed))
    /\ UNCHANGED <<inviteVars, today, runs, acts, handlers, whole, lifted>>

Stops ==
    /\ proc # "down"
    /\ proc' = "down" /\ Drops
    /\ pc' = [u \in Users |-> "idle"] /\ link' = [u \in Users |-> NoInvite]
    /\ UNCHANGED <<stores, inviteVars, today, runs, acts, admitted, ghosts>>

-----------------------------------------------------------------------------
(* /start.                                                                 *)

Up    == proc = "up" /\ UNCHANGED <<importVars, proc, runs>>
Works == Up /\ settled' = FALSE /\ UNCHANGED <<bank, acts, today, whole>>

Goes(u, l) == pc' = [pc EXCEPT ![u] = l]

\* The access middleware drops the updates of a blocked account.
Enter(u) ==
    /\ Works /\ pc[u] = "idle" /\ row[u] # "blocked"
    /\ Goes(u, "start")
    /\ UNCHANGED <<row, client, inviteVars, link, admitted, lifted>>

\* _redeem_invite, before the row is looked at.
Redeem(u, i) ==
    /\ Works /\ pc[u] = "start"
    /\ Consumed(i)
    /\ link' = [link EXCEPT ![u] = i]
    /\ Goes(u, "row")
    /\ UNCHANGED <<row, client, admitted, lifted>>

\* A link that is not redeemable, a row that is answered, or invite_only.
IsAnswered(u) ==
    /\ Works /\ pc[u] = "start"
    /\ Goes(u, "idle")
    /\ UNCHANGED <<row, client, inviteVars, link, admitted, lifted>>

\* Without a link: an approved account, or a new one in open mode.
StartsPlainly(u) ==
    /\ Works /\ pc[u] = "start"
    /\ row[u] = "approved" \/ (row[u] = "none" /\ "open" \in Modes)
    /\ Goes(u, "row")
    /\ UNCHANGED <<row, client, inviteVars, link, admitted, lifted>>

\* request_access: an existing row keeps its status.
RequestAccess(u) ==
    /\ Works /\ pc[u] = "start" /\ "approval" \in Modes /\ row[u] = "none"
    /\ row' = [row EXCEPT ![u] = "pending"]
    /\ Goes(u, "idle")
    /\ UNCHANGED <<client, inviteVars, link, admitted, lifted>>

\* approve: the row ...
SetRow(u) ==
    /\ Works /\ pc[u] = "row"
    /\ row' = [row EXCEPT ![u] = "approved"]
    /\ admitted' = [i \in InviteIds |->
                      IF i = link[u] THEN admitted[i] \cup {u} ELSE admitted[i]]
    /\ link' = [link EXCEPT ![u] = NoInvite]
    /\ Goes(u, "client")
    /\ UNCHANGED <<client, inviteVars, lifted>>

\* ... and the client, an existing one as it is; or a PanelError.
EnsureClient(u) ==
    /\ Works /\ pc[u] = "client"
    /\ client' \in {client,
                    [client EXCEPT ![u] = IF @ = NoClient
                                          THEN [enable |-> FALSE, expiry |-> "past"] ELSE @]}
    /\ Goes(u, "idle")
    /\ UNCHANGED <<row, inviteVars, link, admitted, lifted>>

-----------------------------------------------------------------------------
(* Staff.                                                                  *)

Acts      == Up /\ acts < MaxActs /\ acts' = acts + 1 /\ UNCHANGED today
ActsOnRow == Acts /\ settled' = FALSE /\ UNCHANGED <<bank, whole, handlers, inviteVars>>

\* decide_access accepts a pending request; approve, in one step.
Accept(u) ==
    /\ ActsOnRow /\ row[u] = "pending"
    /\ row' = [row EXCEPT ![u] = "approved"]
    /\ UNCHANGED <<client, lifted>>

Switched(u, on) == [client EXCEPT ![u] = IF @ = NoClient THEN @ ELSE [@ EXCEPT !.enable = on]]

\* ban: the row, then the panel if it answers.
Ban(u) ==
    /\ ActsOnRow /\ row[u] # "none"
    /\ row' = [row EXCEPT ![u] = "blocked"]
    /\ client' \in {client, Switched(u, FALSE)}
    /\ UNCHANGED lifted

\* unban: a client that has not expired is switched on again.
Unban(u) ==
    /\ ActsOnRow /\ row[u] = "blocked"
    /\ row' = [row EXCEPT ![u] = "approved"]
    /\ client' \in {client,
                    IF client[u] # NoClient /\ client[u].expiry = "future"
                    THEN Switched(u, TRUE) ELSE client}
    /\ lifted' = lifted \cup {u}

SetBank ==
    /\ Acts /\ bank # "own" /\ bank' = "own" /\ settled' = FALSE
    /\ UNCHANGED <<row, client, inviteVars, handlers, whole, lifted>>

MintInvite(i) ==
    /\ Acts
    /\ \E uses \in UsesOptions, days \in DaysOptions : Minted(i, uses, days)
    /\ UNCHANGED <<stores, handlers, ghosts>>

RevokeInvite(i) ==
    /\ Acts /\ Revoked(i)
    /\ UNCHANGED <<stores, handlers, ghosts>>

Tick ==
    /\ today < MaxToday /\ today' = today + 1
    /\ UNCHANGED <<stores, importVars, inviteVars, proc, runs, acts, handlers, ghosts>>

Next ==
    \/ BootsAtOnce \/ BootsImporting \/ BootFails \/ Cli
    \/ ImportsRow \/ ImportsClient \/ ImportEnds \/ Stops
    \/ \E u \in Users :
          \/ Enter(u) \/ IsAnswered(u) \/ StartsPlainly(u) \/ RequestAccess(u)
          \/ \E i \in InviteIds : Redeem(u, i)
          \/ SetRow(u) \/ EnsureClient(u)
          \/ Accept(u) \/ Ban(u) \/ Unban(u)
    \/ \E i \in InviteIds : MintInvite(i) \/ RevokeInvite(i)
    \/ SetBank \/ Tick

Spec == Init /\ [][Next]_vars

-----------------------------------------------------------------------------
(* Correctness.                                                            *)

\* "Banned legacy clients keep working" only while nothing is imported
\* (legacy_import.py:7): once an import has taken a listed account, whatever row it
\* had by then, it is blocked until staff unbans it, whatever links it opens.
LegacyBansHold == \A u \in whole \ lifted : row[u] = "blocked"

\* The guarded increment "is the whole race guard" (invites.py:123): an invite lets
\* in no more accounts than it has uses, and no more than the button said, through
\* repeated clicks, crashes between the use and the row, and old keyboards.
InviteHolds ==
    \A i \in InviteIds : invite[i] # NoInvite =>
        /\ Cardinality(admitted[i]) <= invite[i].uses
        /\ label[i].uses # 0 => invite[i].uses <= label[i].uses

\* An import leaves alone what others decided: it never unblocks nor revokes a row
\* but to block a listed account, it changes no client but a listed or a never-
\* activated one (a perpetual one stays so), nor the bank details staff has set.
ImportIsGentle ==
    [][Importing =>
        /\ \A u \in Users :
              /\ row[u] # "none" /\ row'[u] # row[u] => u \in Listed /\ row'[u] = "blocked"
              /\ client'[u] # client[u] =>
                    u \in Listed \/ (client[u].expiry = "unset" /\ ~client[u].enable)
        /\ bank = "own" => bank' = "own"]_vars

\* "It is idempotent (a second run changes nothing)" (legacy_import.py:17): after an
\* import that did all it had to, another one changes nothing, unless somebody else
\* changed something in between.
RerunChangesNothing == [][settled /\ Importing => UNCHANGED stores]_vars
=============================================================================
