------------------------------ MODULE Payments ------------------------------
(***************************************************************************)
(* The payment flow: PaymentService (app/services/payments.py), its table  *)
(* (app/db/repositories/payments.py) and its handlers                      *)
(* (app/handlers/payment.py), on top of PanelGateway.  A task is a         *)
(* Telegram account: the throttle lets one update of it be handled at a    *)
(* time.  A database transaction is one step; between two of them, and at  *)
(* every panel request, other tasks run and the process may be killed.     *)
(***************************************************************************)
EXTENDS PanelGateway, FiniteSetsExt

CONSTANTS
    Payments,       \* ids of the rows that can be inserted
    Owner,          \* user_tg_id of each row
    Days,           \* days each row copies from its tariff
    Reviewers,      \* staff with PAYMENTS_REVIEW
    Editors,        \* staff with USERS_EDIT
    EditorRequests, \* what they ask of the panel from a user card
    InitialPanel,   \* the panel when the bot is first started
    NoPayment,      \* the task is not deciding a payment
    MaxEdits,       \* bound: panel edits by each editor
    MaxCrash,       \* bound: times the process dies
    MaxNow          \* bound: days that pass

ASSUME PaymentsAssumption ==
    /\ Owner \in [Payments -> Users]
    /\ Days \in [Payments -> Nat \ {0}]
    /\ Users \cup Reviewers \cup Editors \subseteq Tasks
    /\ EditorRequests \subseteq {r \in Request : r.kind \in Writes}
    /\ InitialPanel \in Snapshot
    /\ NoPayment \notin Payments
    /\ MaxEdits \in Nat /\ MaxCrash \in Nat /\ MaxNow \in Nat

VARIABLES
    status,   \* payments.status; "none" is a row not inserted yet
    target,   \* payments.expiry_after_ms; _apply reads NULL as 0
    applied,  \* payments.applied_at IS NOT NULL
    offered,  \* payments some card or alert shows a pay:retry button for
    pc,       \* where the task's handler is
    job,      \* the payment it is deciding
    row,      \* expiry_after_ms in the handler's own copy of the row
    seen,     \* the client its get_client returned
    edits,    \* panel edits each editor may still make
    manual,   \* ghost: days editors asked to grant to each user
    up,       \* the process is running
    crashes   \* times it has died

dbVars   == <<status, target, applied>>
taskVars == <<pc, job, row, seen>>
vars     == <<panelVars, dbVars, taskVars, offered, edits, manual, up, crashes>>

Pending == {"awaiting_proof", "submitted"}
Active  == Pending \cup {"created"}
Decided == {"approved", "declined", "cancelled", "expired"}
Applying == {"load", "get", "enable", "set", "finish"}

TypeOK ==
    /\ PanelTypeOK
    /\ status  \in [Payments -> Active \cup Decided \cup {"none"}]
    /\ target  \in [Payments -> Int]
    /\ applied \in [Payments -> BOOLEAN]
    /\ offered \subseteq Payments
    /\ pc      \in [Tasks -> Applying \cup {"idle", "card", "edit"}]
    /\ job     \in [Tasks -> Payments \cup {NoPayment}]
    /\ row     \in [Tasks -> Int]
    /\ seen    \in [Tasks -> Client \cup {NoClient}]
    /\ edits   \in [Tasks -> Nat]
    /\ manual  \in [Users -> Nat]
    /\ up      \in BOOLEAN
    /\ crashes \in Nat

Init ==
    /\ PanelInit(InitialPanel, 1)
    /\ status  = [p \in Payments |-> "none"]
    /\ target  = [p \in Payments |-> 0]
    /\ applied = [p \in Payments |-> FALSE]
    /\ offered = {}
    /\ pc      = [t \in Tasks |-> "idle"]
    /\ job     = [t \in Tasks |-> NoPayment]
    /\ row     = [t \in Tasks |-> 0]
    /\ seen    = [t \in Tasks |-> NoClient]
    /\ edits   = [t \in Tasks |-> MaxEdits]
    /\ manual  = [u \in Users |-> 0]
    /\ up      = TRUE
    /\ crashes = 0

\* Mutant: an account's updates are handled while an earlier one still is.
IdleOrBusy(t) == up

Idle(t) == up /\ pc[t] = "idle"

\* Mutant: the UPDATE does not look at the status it moves from.
ClaimAny(p, from, to) ==
    /\ status[p] # "none" \/ from = {"none"}
    /\ status' = [status EXCEPT ![p] = to]
    /\ UNCHANGED <<target, applied>>

\* payments_repo.claim: UPDATE ... WHERE id = :id AND status IN :from.
Claim(p, from, to) ==
    /\ status[p] \in from
    /\ status' = [status EXCEPT ![p] = to]
    /\ UNCHANGED <<target, applied>>

-----------------------------------------------------------------------------
(* The paying user.                                                        *)

\* pay:sel -- create inserts a row unless the user has an active one (the
\* partial unique index refuses a second one as well).
Select(u, p) ==
    /\ Idle(u) /\ Owner[p] = u
    /\ \A q \in Payments : Owner[q] = u => status[q] \notin Active
    /\ Claim(p, {"none"}, "created")
    /\ UNCHANGED <<panelVars, taskVars, offered, edits, manual, up, crashes>>

\* pay:done -- submit; rendering the review card then reads the panel.
Submit(u, p) ==
    /\ Idle(u) /\ Owner[p] = u
    /\ Claim(p, {"created"}, "awaiting_proof")
    /\ pc' = [pc EXCEPT ![u] = "card"]
    /\ BeginGet(u, u)
    /\ UNCHANGED <<job, row, seen, offered, edits, manual, up, crashes>>

\* A card is sent whether or not the panel could be read.
CardSent(t) ==
    /\ pc[t] = "card" /\ stage[t] \in {"done", "failed"}
    /\ pc' = [pc EXCEPT ![t] = "idle"]
    /\ EndCall(t)
    /\ UNCHANGED <<dbVars, job, row, seen, offered, edits, manual, up, crashes>>

\* attach_receipt promotes a pending payment once a file arrives.
AttachReceipt(u, p) ==
    /\ Idle(u) /\ Owner[p] = u
    /\ Claim(p, {"awaiting_proof"}, "submitted")
    /\ UNCHANGED <<panelVars, taskVars, offered, edits, manual, up, crashes>>

\* pay:cancel
Cancel(u, p) ==
    /\ Idle(u) /\ Owner[p] = u
    /\ Claim(p, Active, "cancelled")
    /\ UNCHANGED <<panelVars, taskVars, offered, edits, manual, up, crashes>>

-----------------------------------------------------------------------------
(* Deciding and applying.                                                  *)

\* The handler goes on at label l, or returns and forgets its locals.
Goes(a, l) == pc' = [pc EXCEPT ![a] = l]
Leaves(a)  == /\ Goes(a, "idle")
              /\ job'  = [job EXCEPT ![a] = NoPayment]
              /\ row'  = [row EXCEPT ![a] = 0]
              /\ seen' = [seen EXCEPT ![a] = NoClient]

\* Mutant: the copy of the row lacks expiry_after_ms.
StartsApplyAfresh(a, p) ==
    /\ Goes(a, "get")
    /\ job' = [job EXCEPT ![a] = p]
    /\ BeginGet(a, Owner[p])
    /\ UNCHANGED <<dbVars, row, seen, offered, edits, manual, up, crashes>>

\* The handler's copy of the row, and get_client, the first call of _apply.
StartsApply(a, p) ==
    /\ Goes(a, "get")
    /\ job' = [job EXCEPT ![a] = p]
    /\ row' = [row EXCEPT ![a] = target[p]]
    /\ BeginGet(a, Owner[p])
    /\ UNCHANGED <<dbVars, seen, offered, edits, manual, up, crashes>>

\* pay:no
Decline(a, p) ==
    /\ Idle(a)
    /\ Claim(p, Pending, "declined")
    /\ UNCHANGED <<panelVars, taskVars, offered, edits, manual, up, crashes>>

\* pay:ok -- approve claims the row, then reads it back (LoadRow).
Approve(a, p) ==
    /\ Idle(a)
    /\ Claim(p, Pending, "approved")
    /\ Goes(a, "load")
    /\ job' = [job EXCEPT ![a] = p]
    /\ UNCHANGED <<panelVars, row, seen, offered, edits, manual, up, crashes>>

LoadRow(a) == pc[a] = "load" /\ StartsApply(a, job[a])

\* pay:retry -- apply_approved; anything else than approved and unapplied is a
\* no-op.
Retry(a, p) ==
    /\ Idle(a) /\ p \in offered
    /\ status[p] = "approved" /\ ~applied[p]
    /\ StartsApply(a, p)

\* The client is known: enable it first.
Enable(a) ==
    /\ pc[a] = "get" /\ stage[a] = "done" /\ object[a] # NoClient
    /\ seen' = [seen EXCEPT ![a] = object[a]]
    /\ Goes(a, "enable")
    /\ BeginWrite(a, [kind |-> "set_enabled", user |-> Owner[job[a]], arg |-> 1])
    /\ UNCHANGED <<dbVars, job, row, offered, edits, manual, up, crashes>>

\* Mutant: a recorded target is taken for an applied one.
ReachedOnceRecorded(a) == row[a] # 0

\* The rest of _apply is decided from what get_client returned *before* the
\* client was enabled and from the handler's copy of the row.
Enabled(a) == pc[a] = "enable" /\ stage[a] = "done"
Perpetual(a) == IsUnlimited(seen[a].expiry, seen[a].enable)
Reached(a)   == row[a] # 0 /\ seen[a].expiry >= row[a]
RecordTarget(a, ms) == target' = [target EXCEPT ![job[a]] = ms]

\* Perpetual: the no-op window 0 is recorded, the expiry is not touched.
EnabledPerpetual(a) ==
    /\ Enabled(a) /\ Perpetual(a)
    /\ RecordTarget(a, 0)
    /\ Goes(a, "finish")
    /\ EndCall(a)
    /\ UNCHANGED <<status, applied, job, row, seen, offered, edits, manual, up, crashes>>

\* A previous attempt already reached the recorded target.
AlreadyReached(a) ==
    /\ Enabled(a) /\ ~Perpetual(a) /\ Reached(a)
    /\ Goes(a, "finish")
    /\ EndCall(a)
    /\ UNCHANGED <<dbVars, job, row, seen, offered, edits, manual, up, crashes>>

\* The target is recorded unless it already was, then written to the panel.
SetTarget(a) ==
    LET new == CalculateExpiry(seen[a].expiry, Days[job[a]], now, seen[a].enable)
        ms  == IF row[a] = 0 THEN new ELSE row[a]
    IN  /\ Enabled(a) /\ ~Perpetual(a) /\ ~Reached(a)
        /\ IF row[a] = 0 THEN RecordTarget(a, ms) ELSE UNCHANGED target
        /\ row' = [row EXCEPT ![a] = ms]
        /\ Goes(a, "set")
        /\ BeginWrite(a, [kind |-> "set_expiry_ms", user |-> Owner[job[a]], arg |-> ms])
        /\ UNCHANGED <<status, applied, job, seen, offered, edits, manual, up, crashes>>

TargetSet(a) ==
    /\ pc[a] = "set" /\ stage[a] = "done"
    /\ Goes(a, "finish")
    /\ EndCall(a)
    /\ UNCHANGED <<dbVars, job, row, seen, offered, edits, manual, up, crashes>>

\* _finish_applied
MarkApplied(a) ==
    /\ pc[a] = "finish"
    /\ applied' = [applied EXCEPT ![job[a]] = TRUE]
    /\ Leaves(a)
    /\ UNCHANGED <<panelVars, status, target, offered, edits, manual, up, crashes>>

\* Mutants: applied_at set in spite of the error; a client the panel does not
\* have is not an error.
ApplyFailsApplied(a) ==
    /\ pc[a] \in {"get", "enable", "set"} /\ stage[a] = "failed"
    /\ applied' = [applied EXCEPT ![job[a]] = TRUE]
    /\ Leaves(a)
    /\ EndCall(a)
    /\ UNCHANGED <<status, target, offered, edits, manual, up, crashes>>
ApplyFailsOnErrorOnly(a) ==
    /\ pc[a] \in {"get", "enable", "set"} /\ stage[a] = "failed"
    /\ offered' = offered \cup {job[a]}
    /\ Leaves(a)
    /\ EndCall(a)
    /\ UNCHANGED <<dbVars, edits, manual, up, crashes>>

\* Any PanelError: the row stays approved and unapplied, the cards get a retry
\* button (after a retry they still have it).
ApplyFails(a) ==
    /\ pc[a] \in {"get", "enable", "set"}
    /\ \/ stage[a] = "failed"
       \/ pc[a] = "get" /\ stage[a] = "done" /\ object[a] = NoClient
    /\ offered' = offered \cup {job[a]}
    /\ Leaves(a)
    /\ EndCall(a)
    /\ UNCHANGED <<dbVars, edits, manual, up, crashes>>

-----------------------------------------------------------------------------
(* Manual edits from a user card (app/handlers/admin/user_card.py).        *)

Edit(e) ==
    /\ Idle(e) /\ edits[e] > 0
    /\ edits' = [edits EXCEPT ![e] = @ - 1]
    /\ Goes(e, "edit")
    /\ \E r \in EditorRequests :
          /\ BeginWrite(e, r)
          /\ manual' = IF r.kind = "grant_days"
                       THEN [manual EXCEPT ![r.user] = @ + r.arg] ELSE manual
    /\ UNCHANGED <<dbVars, job, row, seen, offered, up, crashes>>

\* Done or not, the card is then rendered again, from an unlocked read.
Edited(e) ==
    /\ pc[e] = "edit" /\ stage[e] \in {"done", "failed"}
    /\ Goes(e, "card")
    /\ BeginGet(e, request[e].user)
    /\ UNCHANGED <<dbVars, job, row, seen, offered, edits, manual, up, crashes>>

-----------------------------------------------------------------------------
(* The process and the clock.                                              *)

Crash ==
    /\ up /\ crashes < MaxCrash
    /\ up' = FALSE /\ crashes' = crashes + 1
    /\ Reset
    /\ pc'   = [t \in Tasks |-> "idle"]
    /\ job'  = [t \in Tasks |-> NoPayment]
    /\ row'  = [t \in Tasks |-> 0]
    /\ seen' = [t \in Tasks |-> NoClient]
    /\ UNCHANGED <<dbVars, offered, edits, manual>>

\* expire_stale closes, one transaction each, pending rows older than a day (any
\* of them may be that old); it runs before polling starts, and may be cut short.
Expire(p) ==
    /\ ~up
    /\ Claim(p, Pending, "expired")
    /\ UNCHANGED <<panelVars, taskVars, offered, edits, manual, up, crashes>>

\* Mutant: startup alerts nobody.
RestartSilently ==
    /\ ~up /\ up' = TRUE
    /\ UNCHANGED <<panelVars, dbVars, taskVars, offered, edits, manual, crashes>>

\* reconcile_payments ends, before polling starts, with an alert and its retry
\* button for every approved and unapplied payment.
Restart ==
    /\ ~up /\ up' = TRUE
    /\ offered' = offered \cup {p \in Payments : status[p] = "approved" /\ ~applied[p]}
    /\ UNCHANGED <<panelVars, dbVars, taskVars, edits, manual, crashes>>

Tick ==
    /\ now < MaxNow
    /\ now' = now + 1
    /\ UNCHANGED <<panel, cache, queue, request, stage, answer, object, late,
                   dbVars, taskVars, offered, edits, manual, up, crashes>>

Handles(t) ==
    \/ CardSent(t) \/ LoadRow(t) \/ Enable(t) \/ EnabledPerpetual(t)
    \/ AlreadyReached(t) \/ SetTarget(t) \/ TargetSet(t) \/ MarkApplied(t)
    \/ ApplyFails(t) \/ Edited(t)

Next ==
    \/ \E p \in Payments :
          \/ \E u \in Users :
                \/ Select(u, p) \/ Submit(u, p) \/ AttachReceipt(u, p) \/ Cancel(u, p)
          \/ \E a \in Reviewers : Approve(a, p) \/ Decline(a, p) \/ Retry(a, p)
          \/ Expire(p)
    \/ \E e \in Editors : Edit(e)
    \/ \E t \in Tasks : Handles(t)
    \/ GatewayStep /\ UNCHANGED <<dbVars, taskVars, offered, edits, manual, up, crashes>>
    \/ Crash \/ Restart \/ Tick

Spec == Init /\ [][Next]_vars

\* The loop runs every handler that can go on, and a request that the panel
\* does not answer times out.  Nobody has to press a button or restart the bot.
Gateway(A) == A /\ UNCHANGED <<dbVars, taskVars, offered, edits, manual, up, crashes>>
Fairness ==
    \A t \in Tasks :
        /\ WF_vars(Handles(t))
        /\ WF_vars(Gateway(Resumes(t)))
        /\ WF_vars(Gateway(RequestFails(t)))
FairSpec == Spec /\ Fairness

-----------------------------------------------------------------------------
(* Correctness.                                                            *)

\* The payments table as admins and users see it: one decision per payment,
\* and applied only after an approval (payments.py:1-12).
Lifecycle == INSTANCE PaymentLifecycle
RowsFollowLifecycle == Lifecycle!Spec

\* An approved payment that has not reached the panel is never forgotten: a
\* handler is at work on it, or staff hold a retry button, or the process is
\* down and its startup will alert them.
Working(p) == \E a \in Tasks : pc[a] \in Applying /\ job[a] = p
NoOrphan ==
    \A p \in Payments :
        status[p] = "approved" /\ ~applied[p] => Working(p) \/ p \in offered \/ ~up

\* Days are never granted twice: nobody's expiry is later than what the approved
\* payments and the manual grants add up to (payments.py:8-12).
Paid(u) == MapThenSumSet(LAMBDA p : Days[p],
                         {p \in Payments : Owner[p] = u /\ status[p] = "approved"})
NoOverGrant ==
    \A u \in Users :
        panel[u] # NoClient /\ InitialPanel[u] # NoClient =>
            panel[u].expiry <= Max({InitialPanel[u].expiry, now}) + Paid(u) + manual[u]

\* The intended expiry, once recorded, is what every later attempt aims at.
TargetIsStable ==
    [][\A p \in Payments : target[p] # 0 => target'[p] = target[p]]_vars

\* A payment is marked applied only when the panel has reached its recorded
\* expiry: "compare the live expiry" (repositories/payments.py:229).
AppliedIsLive ==
    [][\A p \in Payments :
         ~applied[p] /\ applied'[p] /\ panel[Owner[p]] # NoClient
         => panel[Owner[p]].expiry >= target[p]]_vars

\* Nobody becomes perpetual by paying: a placeholder "gets a finite expiry
\* counted from now" (payments.py:389-391).
NobodyBecomesPerpetual ==
    \A u \in Users :
        panel[u] # NoClient /\ IsUnlimited(panel[u].expiry, panel[u].enable)
        => \/ InitialPanel[u] # NoClient
                 /\ IsUnlimited(InitialPanel[u].expiry, InitialPanel[u].enable)
           \/ \A p \in Payments : Owner[p] = u => ~applied[p]

\* Every approval ends: the payment is applied, or a retry is offered for it,
\* unless the process dies first.
ApprovalEnds ==
    \A p \in Payments : status[p] = "approved" ~> applied[p] \/ p \in offered \/ ~up

\* What was paid for and marked applied was delivered, neither less nor more: the
\* client's expiry has grown by the days of every applied payment ("extend it by
\* payment.days", payments.py:383), and a perpetual client was left alone
\* (payments.py:394), however many days later the retry came.
DaysDelivered ==
    /\ NoOverGrant
    /\ \A u \in Users :
          panel[u] # NoClient /\ InitialPanel[u] # NoClient =>
              IF IsUnlimited(InitialPanel[u].expiry, InitialPanel[u].enable)
              THEN IsUnlimited(panel[u].expiry, panel[u].enable)
              ELSE panel[u].expiry >= InitialPanel[u].expiry
                       + MapThenSumSet(LAMBDA p : Days[p],
                                       {p \in Payments : Owner[p] = u /\ applied[p]})
=============================================================================
