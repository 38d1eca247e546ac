------------------------------- MODULE Cards -------------------------------
(***************************************************************************)
(* The review cards of one payment: Notifier (app/services/notifier.py)    *)
(* and the table admin_cards, with the handlers that send and edit them    *)
(* (PaymentService, app/handlers/payment.py, app/handlers/admin/payments   *)
(* .py).  Every Telegram call and every transaction is a step, and may     *)
(* fail; a card's buttons work from the moment the message is sent, before *)
(* its copy is stored.  What the panel does is left to Payments: applying  *)
(* succeeds, fails with a PanelError or raises something else.             *)
(***************************************************************************)
EXTENDS Naturals, FiniteSets

CONSTANTS
    Staff,       \* reviewers, each with a chat of their own
    Payer,       \* the paying user's account
    Boot,        \* what runs before polling starts
    NoMessage,   \* no message
    MaxMessages, \* bound: messages a chat takes; more cannot be delivered
    MaxCrash     \* bound: times the process dies

ASSUME CardsAssumption ==
    /\ Payer \notin Staff /\ Boot \notin Staff \cup {Payer}
    /\ MaxMessages \in Nat \ {0} /\ MaxCrash \in Nat
    /\ NoMessage \notin Staff \X (1..MaxMessages)

Tasks    == Staff \cup {Payer, Boot}
Messages == Staff \X (1..MaxMessages)
Verdicts == {"approved", "declined", "cancelled", "expired"}
Statuses == {"created", "pending"} \cup Verdicts
Faces    == Verdicts \cup {"review", "retry"}

VARIABLES
    status,  \* payments.status; awaiting_proof and submitted are "pending"
    applied, \* payments.applied_at IS NOT NULL
    shows,   \* what each message shows
    copies,  \* admin_cards, a row by its first message: the message it points at
    pc,      \* where the task is
    face,    \* what it writes on the cards
    left,    \* the chats or copies it has still to reach
    held,    \* the message it has sent and not stored
    told,    \* verdicts the payer was sent
    up,      \* polling
    crashes,
    reached, \* its sync reached a copy (the list sync_card returns)
    unheard, \* the last offer of a retry reached nobody; for the properties
    excused, \* messages the last sync did not reach; for the properties
    torn     \* two syncs crossed, or the process died in a handler; for the properties

cardVars == <<shows, copies>>
taskVars == <<pc, face, left, held, reached>>
ghosts   == <<unheard, excused, torn>>
vars     == <<status, applied, cardVars, taskVars, told, up, crashes, ghosts>>

Idle(t)  == pc[t] = "idle"
Quiet    == up /\ \A t \in Tasks : Idle(t)
Stored   == {copies[m] : m \in Messages} \ {NoMessage}
Rows     == {m \in Messages : copies[m] # NoMessage}

TypeOK ==
    /\ status \in Statuses /\ applied \in BOOLEAN
    /\ shows \in [Messages -> Faces \cup {"unsent"}]
    /\ copies \in [Messages -> Messages \cup {NoMessage}]
    /\ \A m \in Stored : shows[m] # "unsent"
    /\ pc \in [Tasks -> {"idle", "fan", "store", "claim", "apply", "list", "sync", "point", "notify"}]
    /\ face \in [Tasks -> Faces]
    /\ \A t \in Tasks : left[t] \subseteq Staff \cup (Messages \X Messages)
    /\ held \in [Tasks -> Messages \cup {NoMessage}]
    /\ told \subseteq Verdicts
    /\ up \in BOOLEAN /\ crashes \in Nat
    /\ reached \in [Tasks -> BOOLEAN]
    /\ unheard \in BOOLEAN /\ torn \in BOOLEAN /\ excused \subseteq Messages

Init ==
    /\ status = "created" /\ applied = FALSE
    /\ shows  = [m \in Messages |-> "unsent"]
    /\ copies = [m \in Messages |-> NoMessage]
    /\ pc     = [t \in Tasks |-> "idle"]
    /\ face   = [t \in Tasks |-> "review"]
    /\ left   = [t \in Tasks |-> {}]
    /\ held   = [t \in Tasks |-> NoMessage]
    /\ told   = {} /\ up = TRUE /\ crashes = 0
    /\ reached = [t \in Tasks |-> FALSE]
    /\ unheard = FALSE /\ excused = {} /\ torn = FALSE

-----------------------------------------------------------------------------

Goes(t, l) == pc' = [pc EXCEPT ![t] = l]
Ends(t) ==
    /\ Goes(t, "idle")
    /\ face' = [face EXCEPT ![t] = "review"]
    /\ reached' = [reached EXCEPT ![t] = FALSE]

\* Mutant: the UPDATE moves a decided payment as well.
ClaimAny(from, to) == status \in from \cup Verdicts /\ status' = to

\* payments_repo.claim.
Claim(from, to) == status \in from /\ status' = to

\* The task's next message in chat c, if _deliver gets it through (a retried 429
\* is one delivery; a chat that takes no more is a failure).
Free(c) == {n \in 1..MaxMessages : shows[<<c, n>>] = "unsent"}
Sent(c) == <<c, CHOOSE n \in Free(c) : \A k \in Free(c) : n <= k>>

\* A task sets out to send the review card to the chats, or to sync the copies.
FansOut(t, chats) ==
    /\ Goes(t, "fan")
    /\ face' = [face EXCEPT ![t] = "review"]
    /\ left' = [left EXCEPT ![t] = chats]
    /\ UNCHANGED <<held, reached>>
Syncs(t, f) ==
    /\ Goes(t, "list")
    /\ face' = [face EXCEPT ![t] = f]
    /\ UNCHANGED <<left, held, reached>>

Keeps == UNCHANGED <<cardVars, told, up, crashes, ghosts>>

-----------------------------------------------------------------------------
(* Sending the card.                                                       *)

\* pay:done, and _send_review_card.
Submit ==
    /\ up /\ Idle(Payer)
    /\ Claim({"created"}, "pending")
    /\ FansOut(Payer, Staff)
    /\ Keeps /\ UNCHANGED applied

\* A row of the payments queue, however old the list: nothing looks at the status.
Open(r) ==
    /\ up /\ Idle(r) /\ status # "created"
    /\ FansOut(r, {r})
    /\ Keeps /\ UNCHANGED <<status, applied>>

\* send_card, one recipient: the message is there, its copy is not ...
Deliver(t, c) ==
    /\ pc[t] = "fan" /\ c \in left[t]
    /\ left' = [left EXCEPT ![t] = @ \ {c}]
    /\ \/ /\ Free(c) # {}
          /\ shows' = [shows EXCEPT ![Sent(c)] = "review"]
          /\ held'  = [held EXCEPT ![t] = Sent(c)]
          /\ Goes(t, "store")
       \/ UNCHANGED <<shows, held, pc>>
    /\ UNCHANGED <<status, applied, copies, face, reached, told, up, crashes, ghosts>>

\* ... until _store_card, whose errors are swallowed.  A decision made before that
\* does not find the copy.
Store(t) ==
    LET m == held[t] IN
    /\ pc[t] = "store"
    /\ copies' \in {copies, [copies EXCEPT ![m] = m]}
    /\ excused' = IF status # "pending" THEN excused \cup {m} ELSE excused
    /\ held' = [held EXCEPT ![t] = NoMessage]
    /\ Goes(t, "fan")
    /\ UNCHANGED <<status, applied, shows, face, left, reached, told, up, crashes, unheard, torn>>

FannedOut(t) ==
    /\ pc[t] = "fan" /\ left[t] = {}
    /\ Ends(t)
    /\ Keeps /\ UNCHANGED <<status, applied, left, held>>

-----------------------------------------------------------------------------
(* Deciding.                                                               *)

\* A button works on whatever message of the reviewer's chat shows it.
Holds(r, f) == \E n \in 1..MaxMessages : shows[<<r, n>>] = f

Approve(r) ==
    /\ up /\ Idle(r) /\ Holds(r, "review")
    /\ Claim({"pending"}, "approved")
    /\ Goes(r, "apply")
    /\ face' = [face EXCEPT ![r] = "review"]
    /\ Keeps /\ UNCHANGED <<applied, left, held, reached>>

Decline(r) ==
    /\ up /\ Idle(r) /\ Holds(r, "review")
    /\ Claim({"pending"}, "declined")
    /\ Syncs(r, "declined")
    /\ Keeps /\ UNCHANGED applied

\* apply_approved; face "retry" says that the task is a retry.
Retry(r) ==
    /\ up /\ Idle(r) /\ Holds(r, "retry")
    /\ status = "approved" /\ ~applied
    /\ Goes(r, "apply")
    /\ face' = [face EXCEPT ![r] = "retry"]
    /\ Keeps /\ UNCHANGED <<status, applied, left, held, reached>>

\* _finish_applied.
Applied(r) ==
    /\ pc[r] = "apply"
    /\ applied' = TRUE
    /\ Syncs(r, "approved")
    /\ Keeps /\ UNCHANGED status

\* Mutant: an approval that failed leaves the cards alone.
FailsSilently(r) == Ends(r) /\ UNCHANGED <<left, held>>

\* A PanelError: an approval gives every copy a retry button, a retry has it.
ApplyFailed(r) ==
    IF face[r] = "retry" THEN Ends(r) /\ UNCHANGED <<left, held>>
    ELSE Syncs(r, "retry")

ApplyFails(r) ==
    /\ pc[r] = "apply" /\ ApplyFailed(r)
    /\ Keeps /\ UNCHANGED <<status, applied>>

\* Any other exception: nothing is synced, whoever held a retry button still does.
ApplyRaises(r) ==
    /\ pc[r] = "apply"
    /\ Ends(r)
    /\ unheard' = (unheard \/ face[r] # "retry")
    /\ excused' = IF face[r] # "retry" THEN excused \cup Stored ELSE excused
    /\ UNCHANGED <<status, applied, cardVars, left, held, told, up, crashes, torn>>

\* Mutant: the cards of a cancelled payment are left as they are.
NeverFanned(fanned) == UNCHANGED taskVars

\* cancel, after its claim: a payment that was never fanned out has no cards.
AfterCancel(fanned) ==
    IF fanned THEN Syncs(Payer, "cancelled") ELSE UNCHANGED taskVars

\* pay:cancel.  The payer's other updates wait, so nothing moves the payment on
\* from created between cancel's read and its claim.
Cancel ==
    /\ up /\ Idle(Payer)
    /\ Claim({"created", "pending"}, "cancelled")
    /\ AfterCancel(status = "pending")
    /\ Keeps /\ UNCHANGED applied

-----------------------------------------------------------------------------
(* sync_card.                                                              *)

\* The copies are listed once.
List(t) ==
    /\ pc[t] = "list"
    /\ left' = [left EXCEPT ![t] = {<<m, copies[m]>> : m \in Rows}]
    /\ reached' = [reached EXCEPT ![t] = FALSE]
    /\ torn' = (torn \/ \E o \in Tasks \ {t} : pc[o] \in {"sync", "point"})
    /\ Goes(t, "sync")
    /\ UNCHANGED <<status, applied, cardVars, face, held, told, up, crashes, unheard, excused>>

Reaches(t) == reached' = [reached EXCEPT ![t] = TRUE]

\* A copy is edited in place ...
Edit(t, row) ==
    /\ pc[t] = "sync" /\ row \in left[t]
    /\ left' = [left EXCEPT ![t] = @ \ {row}]
    /\ shows' = [shows EXCEPT ![row[2]] = face[t]]
    /\ excused' = excused \ {row[2]}
    /\ Reaches(t)
    /\ UNCHANGED <<status, applied, copies, pc, face, held, told, up, crashes, unheard, torn>>

\* ... or, when that fails, sent again ...
Resend(t, row) ==
    LET c == row[2][1] IN
    /\ pc[t] = "sync" /\ row \in left[t] /\ Free(c) # {}
    /\ shows' = [shows EXCEPT ![Sent(c)] = face[t]]
    /\ held' = [held EXCEPT ![t] = Sent(c)]
    /\ left' = [left EXCEPT ![t] = (@ \ {row}) \cup {<<row[1], Sent(c)>>}]
    /\ Goes(t, "point")
    /\ UNCHANGED <<status, applied, copies, face, reached, told, up, crashes, ghosts>>

\* Mutant: the chat's id is stored for the message's.
PointsAtChat(row) == copies' = [copies EXCEPT ![row[1]] = row[2][1]]

\* set_message_id.
PointsAt(row) == copies' = [copies EXCEPT ![row[1]] = row[2]]

\* ... and its row pointed at the new message ...
Point(t) ==
    /\ pc[t] = "point"
    /\ \E row \in left[t] :
          /\ row[2] = held[t]
          /\ PointsAt(row)
          /\ left' = [left EXCEPT ![t] = @ \ {row}]
    /\ held' = [held EXCEPT ![t] = NoMessage]
    /\ Reaches(t)
    /\ Goes(t, "sync")
    /\ UNCHANGED <<status, applied, shows, face, told, up, crashes, ghosts>>

\* ... or passed over.
Skip(t, row) ==
    /\ pc[t] = "sync" /\ row \in left[t]
    /\ left' = [left EXCEPT ![t] = @ \ {row}]
    /\ excused' = excused \cup {row[2]}
    /\ UNCHANGED <<status, applied, cardVars, pc, face, held, reached, told, up, crashes,
                   unheard, torn>>

\* The sync returns: approve raises, the verdicts go on to the payer, but for his
\* own.
Synced(t) ==
    /\ pc[t] = "sync" /\ left[t] = {}
    /\ IF face[t] \in {"retry", "cancelled"} THEN Ends(t)
       ELSE Goes(t, "notify") /\ UNCHANGED <<face, reached>>
    /\ unheard' = IF face[t] = "retry" THEN ~reached[t] ELSE unheard
    /\ UNCHANGED <<status, applied, cardVars, left, held, told, up, crashes, excused, torn>>

\* safe_send to the payer.
Notify(t) ==
    /\ pc[t] = "notify"
    /\ told' \in {told, told \cup {face[t]}}
    /\ Ends(t)
    /\ UNCHANGED <<status, applied, cardVars, left, held, up, crashes, ghosts>>

-----------------------------------------------------------------------------
(* The process.                                                            *)

Crash ==
    /\ up /\ crashes < MaxCrash
    /\ up' = FALSE /\ crashes' = crashes + 1
    /\ torn' = (torn \/ ~Quiet)
    /\ pc' = [t \in Tasks |-> "idle"] /\ left' = [t \in Tasks |-> {}]
    /\ held' = [t \in Tasks |-> NoMessage]
    /\ face' = [t \in Tasks |-> "review"] /\ reached' = [t \in Tasks |-> FALSE]
    /\ UNCHANGED <<status, applied, cardVars, told, unheard, excused>>

\* expire_stale, which startup begins with, may find the payment a day old.
ExpireStale ==
    /\ ~up /\ Idle(Boot)
    /\ Claim({"pending"}, "expired")
    /\ Syncs(Boot, "expired")
    /\ Keeps /\ UNCHANGED applied

\* Nothing is stored for an alert.
Alerts(chats) ==
    shows' = [m \in Messages |->
                IF m[1] \in chats /\ m = Sent(m[1]) THEN "retry" ELSE shows[m]]

\* reconcile_payments: an alert with a retry button, to those it reaches; polling
\* starts.
Restart ==
    /\ ~up /\ Idle(Boot)
    /\ up' = TRUE
    /\ IF status = "approved" /\ ~applied
       THEN \E chats \in SUBSET {c \in Staff : Free(c) # {}} :
               Alerts(chats) /\ unheard' = (chats = {})
       ELSE UNCHANGED <<shows, unheard>>
    /\ UNCHANGED <<status, applied, copies, taskVars, told, crashes, excused, torn>>

Next ==
    \/ Submit \/ Cancel
    \/ \E r \in Staff :
          \/ Open(r) \/ Approve(r) \/ Decline(r) \/ Retry(r)
          \/ Applied(r) \/ ApplyFails(r) \/ ApplyRaises(r)
    \/ \E t \in Tasks :
          \/ \E c \in Staff : Deliver(t, c)
          \/ Store(t) \/ FannedOut(t) \/ List(t) \/ Point(t) \/ Synced(t) \/ Notify(t)
          \/ \E row \in left[t] : Edit(t, row) \/ Resend(t, row) \/ Skip(t, row)
    \/ Crash \/ ExpireStale \/ Restart

Spec == Init /\ [][Next]_vars

-----------------------------------------------------------------------------
(* Correctness.                                                            *)

\* What a card of the payment ought to show.
Due == CASE status \in {"created", "pending"} -> "review"
         [] status = "approved" /\ ~applied   -> "retry"
         [] OTHER                             -> status

\* "Every copy can later be edited in place" (admin_cards.py:3): when nobody is at
\* work, each stored copy shows what became of the payment, whoever decided, re-sent
\* or retried; but for the copies no sync could reach, or found too late, a failure
\* nobody was told of, two syncs that crossed and a crash in the middle of one.
CardsTellTheTruth ==
    Quiet /\ ~torn => \A m \in Stored \ excused : shows[m] = Due

\* An approved payment that is not applied leaves a retry button on somebody's
\* screen (payment.py:446), unless the last offer of one reached nobody: no later
\* card, edit or restart takes it away.
RetryIsHeld ==
    Quiet /\ status = "approved" /\ ~applied /\ ~unheard
        => \E r \in Staff : Holds(r, "retry")

\* The payer is never told what did not happen, nor two different things: the
\* notices are those of the one decision, and "approved" only of days he has.
ToldTheTruth ==
    told \subseteq {status} /\ ("approved" \in told => applied)
=============================================================================
