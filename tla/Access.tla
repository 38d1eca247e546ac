------------------------------- MODULE Access -------------------------------
(***************************************************************************)
(* Who may use the bot: UserService (app/services/users.py), its table     *)
(* (app/db/repositories/users.py), /start, the review cards, /ban and      *)
(* /unban, on top of PanelGateway.  Approving, banning and unbanning all   *)
(* write users.status first and bring the panel into line afterwards.      *)
(* As in Payments, a task is an account and a transaction is one step.     *)
(***************************************************************************)
EXTENDS PanelGateway

CONSTANTS
    Reviewers,  \* admins who decide access requests
    Banners,    \* admins who ban and unban
    Modes,      \* values an admin may give access_mode
    Initial,    \* the rows and panels the bot can be started with
    NoUser,     \* the task is not handling an update
    MaxInvites, \* bound: uses of the invite link
    MaxActs     \* bound: updates each account sends

Statuses == {"none", "pending", "approved", "rejected", "blocked"}

\* What a task is about to do to its subject's access.
Jobs == {"none", "start", "invite", "accept", "ban", "unban", "probe"}

ASSUME AccessAssumption ==
    /\ Users \cup Reviewers \cup Banners \subseteq Tasks
    /\ Users \cap (Reviewers \cup Banners) = {}
    /\ Modes \subseteq {"approval", "open", "invite_only"}
    /\ Initial \subseteq [status : [Users -> Statuses], panel : Snapshot]
    /\ NoUser \notin Users
    /\ MaxInvites \in Nat /\ MaxActs \in Nat

VARIABLES
    status,  \* users.status; "none" is a user without a row
    uses,    \* max_uses - uses of the invite link
    pc,      \* where the task's handler is
    job,     \* what it is doing
    subject, \* the user it is about
    acts,    \* updates each account may still send
    warned,  \* users whose last ban or unban ended in a panel_error
    lastBan  \* how the last update about each user went, if a ban; for the properties

taskVars == <<pc, job, subject>>
rowVars  == <<status, uses, taskVars, acts, warned>>
vars     == <<panelVars, rowVars, lastBan>>

TypeOK ==
    /\ PanelTypeOK
    /\ status  \in [Users -> Statuses]
    /\ uses    \in Nat
    /\ pc      \in [Tasks -> {"idle", "start", "request", "row", "panel", "look", "write"}]
    /\ job     \in [Tasks -> Jobs]
    /\ subject \in [Tasks -> Users \cup {NoUser}]
    /\ acts    \in [Tasks -> Nat]
    /\ warned  \subseteq Users
    /\ lastBan \in [Users -> {"none", "running", "clean", "crossed"}]

Init ==
    /\ \E i \in Initial : status = i.status /\ PanelInit(i.panel, 2)
    /\ uses    = MaxInvites
    /\ pc      = [t \in Tasks |-> "idle"]
    /\ job     = [t \in Tasks |-> "none"]
    /\ subject = [t \in Tasks |-> NoUser]
    /\ acts    = [t \in Tasks |-> MaxActs]
    /\ warned  = {}
    /\ lastBan = [u \in Users |-> "none"]

-----------------------------------------------------------------------------
(* An update arrives; its handler goes on at l, or returns.                *)

\* A handler begins: alone with its subject, or across another's way.
Begins(u, j) ==
    lastBan' = [lastBan EXCEPT ![u] =
        IF \E t \in Tasks : subject[t] = u THEN "crossed"
        ELSE IF j = "ban" THEN "running" ELSE "none"]

Handles(t, u, j, l) ==
    /\ pc[t] = "idle" /\ acts[t] > 0
    /\ acts'    = [acts EXCEPT ![t] = @ - 1]
    /\ pc'      = [pc EXCEPT ![t] = l]
    /\ job'     = [job EXCEPT ![t] = j]
    /\ subject' = [subject EXCEPT ![t] = u]
    /\ Begins(u, j)

Goes(t, l) == pc' = [pc EXCEPT ![t] = l] /\ UNCHANGED <<job, subject>>

Leaves(t) ==
    /\ pc'      = [pc EXCEPT ![t] = "idle"]
    /\ job'     = [job EXCEPT ![t] = "none"]
    /\ subject' = [subject EXCEPT ![t] = NoUser]

\* Mutant: the UPDATE does not look at the status it moves from.
ClaimAny(u, to) == status[u] # "none" /\ status' = [status EXCEPT ![u] = to]

\* UPDATE ... WHERE status = 'pending': one reviewer wins (claim_pending).
Claim(u, to) == status[u] = "pending" /\ status' = [status EXCEPT ![u] = to]

-----------------------------------------------------------------------------
(* /start.                                                                 *)

\* AccessMiddleware drops a blocked user's update; any other may /start.
Start(u) ==
    /\ status[u] # "blocked"
    /\ Handles(u, u, "start", "start")
    /\ UNCHANGED <<panelVars, status, uses, warned>>

\* An inv_ payload is redeemed before the status is even read.
Redeem(u) ==
    /\ pc[u] = "start" /\ uses > 0
    /\ uses' = uses - 1
    /\ pc'   = [pc EXCEPT ![u] = "row"]
    /\ job'  = [job EXCEPT ![u] = "invite"]
    /\ UNCHANGED <<panelVars, status, subject, acts, warned, lastBan>>

\* Otherwise the status decides.
ReopensMenu(u) ==
    /\ pc[u] = "start" /\ status[u] = "approved"
    /\ Goes(u, "row")
    /\ UNCHANGED <<panelVars, status, uses, acts, warned, lastBan>>

IsAnswered(u) ==
    /\ pc[u] = "start" /\ status[u] \in {"pending", "rejected", "blocked"}
    /\ Leaves(u)
    /\ UNCHANGED <<panelVars, status, uses, acts, warned, lastBan>>

\* access_mode() is read for each new user.
StartsNew(u) == \E mode \in Modes :
    /\ pc[u] = "start" /\ status[u] = "none"
    /\ CASE mode = "open"        -> Goes(u, "row")
         [] mode = "approval"    -> Goes(u, "request")
         [] mode = "invite_only" -> Leaves(u)
    /\ UNCHANGED <<panelVars, status, uses, acts, warned, lastBan>>

\* request_access: an existing row keeps its status.
RequestAccess(u) ==
    /\ pc[u] = "request"
    /\ status' = IF status[u] = "none" THEN [status EXCEPT ![u] = "pending"] ELSE status
    /\ Leaves(u)
    /\ UNCHANGED <<panelVars, uses, acts, warned, lastBan>>

-----------------------------------------------------------------------------
(* Staff.                                                                  *)

\* decide_access: a refusal touches nothing but the row ...
Refuse(a, u) ==
    /\ pc[a] = "idle" /\ acts[a] > 0
    /\ acts' = [acts EXCEPT ![a] = @ - 1]
    /\ \E to \in {"rejected", "blocked"} : Claim(u, to)
    /\ UNCHANGED <<panelVars, uses, taskVars, warned, lastBan>>

\* ... and an acceptance goes on to approve().
Accept(a, u) ==
    /\ Claim(u, "approved")
    /\ Handles(a, u, "accept", "row")
    /\ UNCHANGED <<panelVars, uses, warned>>

\* /ban or the button of a user card; a user without a row is not found.
Ban(a, u) ==
    /\ status[u] # "none"
    /\ Handles(a, u, "ban", "row")
    /\ UNCHANGED <<panelVars, status, uses, warned>>

\* The button of a user card, or /unban of a user who is blocked.
Unban(a, u) ==
    /\ status[u] # "none"
    /\ Handles(a, u, "unban", "row")
    /\ UNCHANGED <<panelVars, status, uses, warned>>

\* /unban of anybody else first asks needs_panel_retry ...
UnbanProbes(a, u) ==
    /\ status[u] \notin {"none", "blocked"}
    /\ Handles(a, u, "probe", "look")
    /\ BeginGet(a, u)
    /\ UNCHANGED <<status, uses, warned>>

\* ... and goes on if the client is disabled or could not be read.
Probed(a) ==
    /\ pc[a] = "look" /\ job[a] = "probe" /\ stage[a] \in {"done", "failed"}
    /\ EndCall(a)
    /\ IF stage[a] = "failed" \/ (object[a] # NoClient /\ ~object[a].enable)
       THEN /\ pc'  = [pc EXCEPT ![a] = "row"]
            /\ job' = [job EXCEPT ![a] = "unban"]
            /\ UNCHANGED subject
       ELSE Leaves(a)
    /\ UNCHANGED <<status, uses, acts, warned, lastBan>>

-----------------------------------------------------------------------------
(* approve, ban and unban: the row first, whatever it says by now, then the *)
(* panel.                                                                   *)

SetRow(t) ==
    /\ pc[t] = "row"
    /\ status' = [status EXCEPT ![subject[t]] =
                      IF job[t] = "ban" THEN "blocked" ELSE "approved"]
    /\ warned' = warned \ {subject[t]}
    /\ Goes(t, "panel")
    /\ UNCHANGED <<panelVars, uses, acts, lastBan>>

\* get_client of approve, _client_present of ban, _traffic of unban.
Looks(t) ==
    /\ pc[t] = "panel"
    /\ BeginGet(t, subject[t])
    /\ Goes(t, "look")
    /\ UNCHANGED <<status, uses, acts, warned, lastBan>>

\* Mutant: 0 is taken for "for ever" whatever enable says.
UnexpiredOrUnset(c) == c.expiry > now \/ c.expiry = 0

\* Only a subscription that has not expired is switched on again; a perpetual
\* client, 0 and disabled by its ban, is not told from a placeholder.
Unexpired(c) == c.expiry > now

\* Mutant: a client that looks disabled needs no ban.
NeededIfOn(t) ==
    LET found == stage[t] = "done" /\ object[t] # NoClient
        Call(kind, arg) == [kind |-> kind, user |-> subject[t], arg |-> arg]
    IN  CASE job[t] \in {"start", "invite", "accept"} ->
                IF stage[t] = "done" /\ ~found THEN {Call("ensure_client", 1)} ELSE {}
          [] job[t] = "ban" ->
                IF (found /\ object[t].enable) \/ stage[t] = "failed"
                THEN {Call("set_enabled", 0)} ELSE {}
          [] job[t] = "unban" ->
                IF found /\ Unexpired(object[t]) THEN {Call("set_enabled", 1)} ELSE {}

\* What the panel still needs, given the look.  ban tries even after a failed one.
Needed(t) ==
    LET found == stage[t] = "done" /\ object[t] # NoClient
        Call(kind, arg) == [kind |-> kind, user |-> subject[t], arg |-> arg]
    IN  CASE job[t] \in {"start", "invite", "accept"} ->
                IF stage[t] = "done" /\ ~found THEN {Call("ensure_client", 1)} ELSE {}
          [] job[t] = "ban" ->
                IF found \/ stage[t] = "failed" THEN {Call("set_enabled", 0)} ELSE {}
          [] job[t] = "unban" ->
                IF found /\ Unexpired(object[t]) THEN {Call("set_enabled", 1)} ELSE {}

Looked(t) == /\ pc[t] = "look" /\ job[t] # "probe"
             /\ stage[t] \in {"done", "failed"}

WritesPanel(t) ==
    /\ Looked(t)
    /\ \E r \in Needed(t) : BeginWrite(t, r)
    /\ Goes(t, "write")
    /\ UNCHANGED <<status, uses, acts, warned, lastBan>>

\* A ban nobody crossed has been carried through, or ended in an error.
Concludes(t) ==
    lastBan' = IF job[t] = "ban" /\ lastBan[subject[t]] = "running"
               THEN [lastBan EXCEPT ![subject[t]] =
                        IF stage[t] = "failed" THEN "none" ELSE "clean"]
               ELSE lastBan

\* The end: a panel_error is reported to the admin, a PanelError to the user.
Returns(t) ==
    /\ \/ Looked(t) /\ Needed(t) = {}
       \/ pc[t] = "write" /\ stage[t] \in {"done", "failed"}
    /\ warned' = IF stage[t] = "failed" /\ job[t] \in {"ban", "unban"}
                 THEN warned \cup {subject[t]} ELSE warned
    /\ Concludes(t)
    /\ Leaves(t)
    /\ EndCall(t)
    /\ UNCHANGED <<status, uses, acts>>

\* A write wait_for gave up on that lands after all crosses whatever was done since.
Overtakes ==
    lastBan' = [u \in Users |->
        IF \E e \in late \ late' : e.user = u THEN "crossed" ELSE lastBan[u]]

Continues(t) ==
    Probed(t) \/ SetRow(t) \/ Looks(t) \/ WritesPanel(t) \/ Returns(t)

Next ==
    \/ \E u \in Users :
          \/ Start(u) \/ Redeem(u) \/ ReopensMenu(u) \/ IsAnswered(u)
          \/ StartsNew(u) \/ RequestAccess(u)
          \/ \E a \in Reviewers : Refuse(a, u) \/ Accept(a, u)
          \/ \E a \in Banners : Ban(a, u) \/ Unban(a, u) \/ UnbanProbes(a, u)
    \/ \E t \in Tasks : Continues(t)
    \/ GatewayStep /\ Overtakes /\ UNCHANGED rowVars

Spec == Init /\ [][Next]_vars

-----------------------------------------------------------------------------
(* Correctness.                                                            *)

\* Two reviewers cannot both decide a request: once it is rejected, no
\* acceptance still under way and no /start overturns it.  Only an invite, an
\* unban or a ban does (users_repo.claim_pending, users.py:211).
RejectionStands ==
    [][\A u \in Users :
         status[u] = "rejected" /\ status'[u] # "rejected"
         => \E t \in Tasks : /\ pc[t] = "row" /\ subject[t] = u
                            /\ job[t] \in {"invite", "ban", "unban"}]_vars

\* A ban that ran alone with its user and reported no error was carried out: until the
\* next update about him, or an abandoned write that lands late, the row says so and his
\* client is gone, off or, when the bot has just made it and not yet switched it off
\* again, expired.  Whatever failed before or meanwhile, half-made clients and a cache
\* that a lost write left wrong included (UserService.ban, users.py:251-278).
BanIsCarriedOut ==
    \A u \in Users :
        lastBan[u] = "clean"
        => /\ status[u] = "blocked"
           /\ panel[u] = NoClient \/ ~panel[u].enable \/ panel[u].expiry \in 1..now

\* "Blocking a user also disables the panel client" (users.py:8): when nobody is
\* at work on a blocked user, his client is off or the admin was told of an error.
BannedIsOff ==
    \A u \in Users :
        /\ status[u] = "blocked" /\ u \notin warned
        /\ \A t \in Tasks : subject[t] # u
        => panel[u] = NoClient \/ ~panel[u].enable

\* No ban, unban or approval turns a client into a perpetual one: "a never-
\* activated client stays disabled" (users.py:11-13).
NoneBecomesPerpetual ==
    [][\A u \in Users :
         panel'[u] # NoClient /\ IsUnlimited(panel'[u].expiry, panel'[u].enable)
         => panel[u] # NoClient /\ IsUnlimited(panel[u].expiry, panel[u].enable)]_vars

\* A ban is lifted by nothing but an unban: "an existing administrative state is
\* answered, never overwritten" (start.py:108).
BanStands ==
    [][\A u \in Users :
         status[u] = "blocked" /\ status'[u] # "blocked"
         => \E t \in Tasks : pc[t] = "row" /\ subject[t] = u /\ job[t] = "unban"]_vars
=============================================================================
