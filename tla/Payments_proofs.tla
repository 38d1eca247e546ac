--------------------------- MODULE Payments_proofs ---------------------------
(***************************************************************************)
(* The theorems about Payments.  The payment flow implements               *)
(* PaymentLifecycle, and its rows have what the lifecycle guarantees; no   *)
(* approved payment is forgotten; every gateway call it makes is type      *)
(* correct, loses no update and reports no success that is not one; the    *)
(* copy of a row that a handler decides from is current; the target        *)
(* recorded for a payment is never changed; and days are not granted       *)
(* twice.  The panel plays no part in the first two: their inductive       *)
(* invariant only says that a handler at work on a payment holds one that  *)
(* was approved, and approved rows never change.  The others follow every  *)
(* expiry through the panel, the cache, the calls and the copies that      *)
(* handlers hold, and the last counts days, with lemmas about sums over    *)
(* finite sets.                                                            *)
(***************************************************************************)
EXTENDS Payments, PanelGateway_proofs, FiniteSetTheorems, WellFoundedInduction

-----------------------------------------------------------------------------
(* The rows follow their lifecycle.                                        *)

\* The rows have their types, and whatever a handler applies was approved.
RowsInv ==
    /\ status  \in [Payments -> Active \cup Decided \cup {"none"}]
    /\ applied \in [Payments -> BOOLEAN]
    /\ pc      \in [Tasks -> Applying \cup {"idle", "card", "edit"}]
    /\ job     \in [Tasks -> Payments \cup {NoPayment}]
    /\ \A a \in Tasks :
          pc[a] \in Applying => job[a] \in Payments /\ status[job[a]] = "approved"

\* The table is empty at first, and no handler is at work.
LEMMA InitRows == ASSUME Init PROVE RowsInv /\ Lifecycle!Init
  BY DEF Init, RowsInv, Lifecycle!Init, Applying

\* The claims the program makes, as the lifecycle allows them.
AllowedClaim(p, from, to) ==
    \/ from = {"created"} /\ to = "awaiting_proof"
    \/ from = {"awaiting_proof"} /\ to = "submitted"
    \/ from = Pending /\ to \in {"approved", "declined", "expired"}
    \/ from = Active /\ to = "cancelled"

\* Such a claim is a step of the lifecycle, and no approved row is touched.
LEMMA ClaimRefines ==
    ASSUME RowsInv, NEW p \in Payments, NEW from, NEW to, AllowedClaim(p, from, to),
           Claim(p, from, to)
    PROVE  /\ Lifecycle!Next
           /\ status' \in [Payments -> Active \cup Decided \cup {"none"}]
           /\ \A q \in Payments : status[q] = "approved" => status'[q] = "approved"
  <1>1. Lifecycle!Moves(p, from, to)
    BY DEF Claim, Lifecycle!Moves
  <1>2. Lifecycle!Next
    BY <1>1 DEF AllowedClaim, Lifecycle!Next, Pending, Active, Lifecycle!Pending,
                Lifecycle!Active
  <1>3. QED
    BY <1>2 DEF RowsInv, Claim, AllowedClaim, Pending, Active, Decided

\* A claim by a handler that then stops, or that starts to apply the payment.
LEMMA ClaimStep ==
    ASSUME RowsInv, NEW p \in Payments, NEW from, NEW to, AllowedClaim(p, from, to),
           Claim(p, from, to), UNCHANGED job,
           \/ UNCHANGED pc
           \/ \E t \in Tasks : pc' = [pc EXCEPT ![t] = "card"]
    PROVE  RowsInv' /\ Lifecycle!Next
  <1>1. /\ Lifecycle!Next
        /\ status' \in [Payments -> Active \cup Decided \cup {"none"}]
        /\ \A q \in Payments : status[q] = "approved" => status'[q] = "approved"
    BY ClaimRefines
  <1>2. UNCHANGED applied
    BY DEF Claim
  <1>3. pc' \in [Tasks -> Applying \cup {"idle", "card", "edit"}]
        /\ \A a \in Tasks : pc'[a] \in Applying => pc[a] \in Applying
    BY DEF RowsInv, Applying
  <1>4. QED
    BY <1>1, <1>2, <1>3 DEF RowsInv

\* A step that leaves the rows alone, and starts no application of a payment
\* that was not approved.
LEMMA RowsKept ==
    ASSUME RowsInv, UNCHANGED <<status, applied>>,
           pc' \in [Tasks -> Applying \cup {"idle", "card", "edit"}],
           job' \in [Tasks -> Payments \cup {NoPayment}],
           \A a \in Tasks : pc'[a] \in Applying =>
              job'[a] \in Payments /\ status[job'[a]] = "approved"
    PROVE  RowsInv' /\ UNCHANGED Lifecycle!vars
  BY DEF RowsInv, Lifecycle!vars

\* The paying user's presses.
LEMMA UserStep ==
    ASSUME RowsInv, NEW u \in Users, NEW p \in Payments,
           Select(u, p) \/ Submit(u, p) \/ AttachReceipt(u, p) \/ Cancel(u, p)
    PROVE  RowsInv' /\ Lifecycle!Next
  <1>1. CASE Select(u, p)
    <2>1. Lifecycle!Insert(p)
      BY <1>1 DEF Select, Claim, Lifecycle!Insert, Lifecycle!Moves, Active,
                  Lifecycle!Active, Pending, Lifecycle!Pending
    <2>2. RowsInv'
      BY <1>1 DEF Select, Claim, RowsInv, Active, taskVars
    <2>3. QED
      BY <2>1, <2>2 DEF Lifecycle!Next
  <1>2. CASE Submit(u, p)
    <2>1. u \in Tasks
      BY PaymentsAssumption
    <2>2. QED
      BY <1>2, <2>1, ClaimStep DEF Submit, AllowedClaim
  <1>3. CASE AttachReceipt(u, p)
    BY <1>3, ClaimStep DEF AttachReceipt, AllowedClaim, taskVars
  <1>4. CASE Cancel(u, p)
    BY <1>4, ClaimStep DEF Cancel, AllowedClaim, taskVars
  <1>5. QED
    BY <1>1, <1>2, <1>3, <1>4

\* The reviewers' presses.
LEMMA ReviewerStep ==
    ASSUME RowsInv, NEW a \in Reviewers, NEW p \in Payments,
           Approve(a, p) \/ Decline(a, p) \/ Retry(a, p)
    PROVE  RowsInv' /\ (Lifecycle!Next \/ UNCHANGED Lifecycle!vars)
  <1>1. a \in Tasks
    BY PaymentsAssumption
  <1>2. CASE Approve(a, p)
    <2>1. /\ Lifecycle!Next
          /\ status' \in [Payments -> Active \cup Decided \cup {"none"}]
          /\ \A q \in Payments : status[q] = "approved" => status'[q] = "approved"
      BY <1>2, ClaimRefines DEF Approve, AllowedClaim
    <2>2. pc' = [pc EXCEPT ![a] = "load"] /\ job' = [job EXCEPT ![a] = p]
          /\ UNCHANGED applied
      BY <1>2 DEF Approve, Goes, Claim
    <2>3. status'[p] = "approved"
      BY <1>2 DEF Approve, Claim, RowsInv
    <2>4. QED
      BY <1>1, <2>1, <2>2, <2>3 DEF RowsInv, Applying
  <1>3. CASE Decline(a, p)
    BY <1>3, ClaimStep DEF Decline, AllowedClaim, taskVars
  <1>4. CASE Retry(a, p)
    <2>1. pc' = [pc EXCEPT ![a] = "get"] /\ job' = [job EXCEPT ![a] = p]
          /\ status[p] = "approved" /\ UNCHANGED <<status, applied>>
      BY <1>4 DEF Retry, StartsApply, Goes, dbVars
    <2>2. QED
      BY <1>1, <2>1, RowsKept DEF RowsInv, Applying
  <1>5. QED
    BY <1>2, <1>3, <1>4

\* A handler goes on: only MarkApplied changes a row, and an approved one.
LEMMA HandlerStep ==
    ASSUME RowsInv, NEW t \in Tasks, Handles(t)
    PROVE  RowsInv' /\ (Lifecycle!Next \/ UNCHANGED Lifecycle!vars)
  <1>1. CASE MarkApplied(t)
    <2>1. /\ pc[t] = "finish" /\ pc' = [pc EXCEPT ![t] = "idle"]
          /\ job' = [job EXCEPT ![t] = NoPayment]
          /\ applied' = [applied EXCEPT ![job[t]] = TRUE] /\ UNCHANGED status
      BY <1>1 DEF MarkApplied, Leaves, Goes
    <2>2. job[t] \in Payments /\ status[job[t]] = "approved"
      BY <2>1 DEF RowsInv, Applying
    <2>3. RowsInv'
      BY <2>1, <2>2 DEF RowsInv, Applying
    <2>4. CASE applied[job[t]]
      <3>1. applied' = applied
        BY <2>1, <2>2, <2>4 DEF RowsInv
      <3>2. QED
        BY <2>1, <2>3, <3>1 DEF Lifecycle!vars
    <2>5. CASE ~applied[job[t]]
      BY <2>1, <2>2, <2>3, <2>5 DEF Lifecycle!Next, Lifecycle!Apply
    <2>6. QED
      BY <2>4, <2>5
  <1>2. CASE CardSent(t) \/ Edited(t) \/ ApplyFails(t)
    <2>1. /\ \E l \in {"idle", "card"} : pc' = [pc EXCEPT ![t] = l]
          /\ UNCHANGED <<status, applied>>
          /\ (UNCHANGED job \/ job' = [job EXCEPT ![t] = NoPayment])
      BY <1>2 DEF CardSent, Edited, ApplyFails, Leaves, Goes, dbVars
    <2>2. QED
      BY <2>1, RowsKept DEF RowsInv, Applying
  <1>3. CASE LoadRow(t)
    <2>1. pc[t] = "load" /\ pc' = [pc EXCEPT ![t] = "get"]
          /\ job' = [job EXCEPT ![t] = job[t]] /\ UNCHANGED <<status, applied>>
      BY <1>3 DEF LoadRow, StartsApply, Goes, dbVars
    <2>2. QED
      BY <2>1, RowsKept DEF RowsInv, Applying
  <1>4. CASE Enable(t) \/ EnabledPerpetual(t) \/ AlreadyReached(t) \/ SetTarget(t)
             \/ TargetSet(t)
    <2>1. PICK l \in {"enable", "finish", "set"} :
             pc[t] \in Applying /\ pc' = [pc EXCEPT ![t] = l]
             /\ UNCHANGED <<status, applied, job>>
      BY <1>4 DEF Enable, EnabledPerpetual, AlreadyReached, SetTarget, TargetSet,
                  Enabled, Goes, dbVars, Applying
    <2>2. QED
      BY <2>1, RowsKept DEF RowsInv, Applying
  <1>5. QED
    BY <1>1, <1>2, <1>3, <1>4 DEF Handles

\* Every step maps to a step of the lifecycle or to a stutter.
LEMMA NextRefines ==
    ASSUME RowsInv, [Next]_vars
    PROVE  RowsInv' /\ (Lifecycle!Next \/ UNCHANGED Lifecycle!vars)
  <1>1. ASSUME NEW e \in Editors, Edit(e)
        PROVE  RowsInv' /\ (Lifecycle!Next \/ UNCHANGED Lifecycle!vars)
    <2>1. e \in Tasks /\ pc' = [pc EXCEPT ![e] = "edit"]
          /\ UNCHANGED <<status, applied, job>>
      BY <1>1, PaymentsAssumption DEF Edit, Goes, dbVars
    <2>2. QED
      BY <2>1, RowsKept DEF RowsInv, Applying
  <1>2. ASSUME NEW p \in Payments, Expire(p)
        PROVE  RowsInv' /\ (Lifecycle!Next \/ UNCHANGED Lifecycle!vars)
    BY <1>2, ClaimStep DEF Expire, AllowedClaim, taskVars
  <1>3. CASE Crash
    <2>1. pc' = [t \in Tasks |-> "idle"] /\ job' = [t \in Tasks |-> NoPayment]
          /\ UNCHANGED <<status, applied>>
      BY <1>3 DEF Crash, dbVars
    <2>2. QED
      BY <2>1, RowsKept DEF Applying
  <1>4. CASE \/ Restart \/ Tick \/ UNCHANGED vars
             \/ GatewayStep /\ UNCHANGED <<dbVars, taskVars, offered, edits, manual, up, crashes>>
    <2>1. UNCHANGED <<status, applied, pc, job>>
      BY <1>4 DEF Restart, Tick, vars, dbVars, taskVars
    <2>2. QED
      BY <2>1, RowsKept DEF RowsInv
  <1>5. ASSUME NEW p \in Payments, NEW u \in Users,
               Select(u, p) \/ Submit(u, p) \/ AttachReceipt(u, p) \/ Cancel(u, p)
        PROVE  RowsInv' /\ (Lifecycle!Next \/ UNCHANGED Lifecycle!vars)
    BY <1>5, UserStep
  <1>6. ASSUME NEW p \in Payments, NEW a \in Reviewers,
               Approve(a, p) \/ Decline(a, p) \/ Retry(a, p)
        PROVE  RowsInv' /\ (Lifecycle!Next \/ UNCHANGED Lifecycle!vars)
    BY <1>6, ReviewerStep
  <1>7. ASSUME NEW t \in Tasks, Handles(t)
        PROVE  RowsInv' /\ (Lifecycle!Next \/ UNCHANGED Lifecycle!vars)
    BY <1>7, HandlerStep
  <1>8. QED
    BY <1>1, <1>2, <1>3, <1>4, <1>5, <1>6, <1>7 DEF Next

\* Whoever presses what and whenever the process dies, the payments table
\* follows its lifecycle: one active payment per user, one decision per payment,
\* applied_at set once and only after an approval (payments.py:1-12).
THEOREM RowsAreCorrect == Spec => RowsFollowLifecycle
  <1>1. Init => RowsInv /\ Lifecycle!Init
    BY InitRows
  <1>2. RowsInv /\ [Next]_vars => RowsInv' /\ [Lifecycle!Next]_(Lifecycle!vars)
    BY NextRefines
  <1>3. QED
    BY <1>1, <1>2, PTL DEF Spec, RowsFollowLifecycle, Lifecycle!Spec

-----------------------------------------------------------------------------
(* What the lifecycle guarantees.                                          *)

\* The inductive invariant; each conjunct is preserved with the help of the types.
RowInv == Lifecycle!TypeOK /\ Lifecycle!AppliedIsApproved /\ Lifecycle!OneActivePerUser

\* No row has been inserted at first.
LEMMA InitRow == ASSUME Lifecycle!Init PROVE RowInv
  BY DEF Lifecycle!Init, RowInv, Lifecycle!TypeOK, Lifecycle!AppliedIsApproved,
         Lifecycle!OneActivePerUser, Lifecycle!Active, Lifecycle!Pending

\* A claim: the row was not approved before, and is active after only if it was.
LEMMA MovesRow ==
    ASSUME RowInv, NEW p \in Payments, NEW from, NEW to, Lifecycle!Moves(p, from, to),
           from \subseteq Lifecycle!Active, to \in Lifecycle!Active \cup Lifecycle!Decided
    PROVE  RowInv'
  BY DEF RowInv, Lifecycle!TypeOK, Lifecycle!AppliedIsApproved,
         Lifecycle!OneActivePerUser, Lifecycle!Moves, Lifecycle!Decided,
         Lifecycle!Active, Lifecycle!Pending

\* Every step of the lifecycle preserves it.
LEMMA NextRow == ASSUME RowInv, [Lifecycle!Next]_(Lifecycle!vars) PROVE RowInv'
  <1> USE DEF Lifecycle!Active, Lifecycle!Pending
  <1>1. ASSUME NEW p \in Payments, Lifecycle!Insert(p)
        PROVE  RowInv'
    BY <1>1 DEF RowInv, Lifecycle!TypeOK, Lifecycle!AppliedIsApproved,
                Lifecycle!OneActivePerUser, Lifecycle!Insert, Lifecycle!Moves,
                Lifecycle!Decided
  <1>2. ASSUME NEW p \in Payments, Lifecycle!Apply(p)
        PROVE  RowInv'
    BY <1>2 DEF RowInv, Lifecycle!TypeOK, Lifecycle!AppliedIsApproved,
                Lifecycle!OneActivePerUser, Lifecycle!Apply
  <1>3. CASE UNCHANGED Lifecycle!vars
    BY <1>3 DEF Lifecycle!vars, RowInv, Lifecycle!TypeOK, Lifecycle!AppliedIsApproved,
                Lifecycle!OneActivePerUser
  <1>4. ASSUME NEW p \in Payments,
               \/ Lifecycle!Moves(p, {"created"}, "awaiting_proof")
               \/ Lifecycle!Moves(p, {"awaiting_proof"}, "submitted")
               \/ Lifecycle!Moves(p, Lifecycle!Pending, "approved")
               \/ Lifecycle!Moves(p, Lifecycle!Pending, "declined")
               \/ Lifecycle!Moves(p, Lifecycle!Pending, "expired")
               \/ Lifecycle!Moves(p, Lifecycle!Active, "cancelled")
        PROVE  RowInv'
    BY <1>4, MovesRow DEF Lifecycle!Decided
  <1>5. QED
    BY <1>1, <1>2, <1>3, <1>4 DEF Lifecycle!Next

\* A step of the lifecycle leaves decided and applied rows as they are.
FinalStep == \A p \in Payments :
                /\ status[p] \in Lifecycle!Decided => status'[p] = status[p]
                /\ applied[p] => applied'[p]

\* Every step of the lifecycle keeps what is final.
LEMMA NextFinal ==
    ASSUME RowInv, Lifecycle!Next \/ UNCHANGED Lifecycle!vars
    PROVE  FinalStep
  <1>1. CASE Lifecycle!Next
    <2>1. PICK p \in Payments :
             \/ \E from, to : Lifecycle!Moves(p, from, to) /\ from \cap Lifecycle!Decided = {}
             \/ Lifecycle!Apply(p)
      BY <1>1 DEF Lifecycle!Next, Lifecycle!Insert, Lifecycle!Decided,
                  Lifecycle!Active, Lifecycle!Pending
    <2>2. QED
      BY <2>1 DEF FinalStep, RowInv, Lifecycle!TypeOK, Lifecycle!Moves, Lifecycle!Apply,
                  Lifecycle!Decided
  <1>2. CASE UNCHANGED Lifecycle!vars
    BY <1>2 DEF FinalStep, Lifecycle!vars
  <1>3. QED
    BY <1>1, <1>2

\* What the payment flow maintains about its rows.
LEMMA RowsHold ==
    /\ Init => RowsInv /\ RowInv
    /\ RowsInv /\ RowInv /\ [Next]_vars => RowsInv' /\ RowInv' /\ [FinalStep]_(Lifecycle!vars)
  BY InitRows, InitRow, NextRefines, NextRow, NextFinal

\* No payment that was declined, cancelled or expired is ever applied to the panel,
\* whatever is pressed and whenever the process dies (payments.py:1-12).
THEOREM OnlyApprovedApplied == Spec => []Lifecycle!AppliedIsApproved
  <1>1. RowInv => Lifecycle!AppliedIsApproved
    BY DEF RowInv
  <1>2. QED
    BY RowsHold, <1>1, PTL DEF Spec

\* A user has at most one open payment, whatever the interleaving (models.py:205).
THEOREM OneActive == Spec => []Lifecycle!OneActivePerUser
  <1>1. RowInv => Lifecycle!OneActivePerUser
    BY DEF RowInv
  <1>2. QED
    BY RowsHold, <1>1, PTL DEF Spec

\* Nothing the payment flow does changes a decided row or takes applied_at back.
THEOREM DecisionsAreFinal == Spec => Lifecycle!DecisionIsFinal
  <1>1. QED
    BY RowsHold, PTL DEF Spec, Lifecycle!DecisionIsFinal, FinalStep

-----------------------------------------------------------------------------
(* No approved payment is forgotten.                                       *)

\* A step that approves nothing, and after which every handler at work is still
\* at work on its payment, or that payment is applied or offered for a retry.
LEMMA OrphanKept ==
    ASSUME NoOrphan, UNCHANGED up, offered \subseteq offered',
           \A p \in Payments :
              /\ status'[p] = "approved" => status[p] = "approved"
              /\ applied[p] => applied'[p],
           \A a \in Tasks : pc[a] \in Applying =>
              \/ pc'[a] \in Applying /\ job'[a] = job[a]
              \/ job[a] \in offered'
              \/ applied'[job[a]]
    PROVE  NoOrphan'
  BY DEF NoOrphan, Working

\* A handler that leaves a payment has applied it or offers a retry.
LEMMA HandlerOrphan ==
    ASSUME RowsInv, NoOrphan, NEW t \in Tasks, Handles(t)
    PROVE  NoOrphan'
  <1>1. CASE MarkApplied(t)
    <2>1. /\ pc[t] \in Applying /\ pc' = [pc EXCEPT ![t] = "idle"]
          /\ job' = [job EXCEPT ![t] = NoPayment]
          /\ applied' = [applied EXCEPT ![job[t]] = TRUE]
          /\ UNCHANGED <<status, offered, up>>
      BY <1>1 DEF MarkApplied, Leaves, Goes, Applying
    <2>2. QED
      BY <2>1, OrphanKept DEF RowsInv
  <1>2. CASE ApplyFails(t)
    <2>1. /\ pc' = [pc EXCEPT ![t] = "idle"] /\ job' = [job EXCEPT ![t] = NoPayment]
          /\ offered' = offered \cup {job[t]}
          /\ UNCHANGED <<status, applied, up>>
      BY <1>2 DEF ApplyFails, Leaves, Goes, dbVars
    <2>2. QED
      BY <2>1, OrphanKept DEF RowsInv
  <1>3. CASE CardSent(t) \/ Edited(t)
    <2>1. /\ pc[t] \notin Applying
          /\ \E l \in {"idle", "card"} : pc' = [pc EXCEPT ![t] = l]
          /\ UNCHANGED <<status, applied, job, offered, up>>
      BY <1>3 DEF CardSent, Edited, Goes, dbVars, Applying
    <2>2. QED
      BY <2>1, OrphanKept DEF RowsInv
  <1>4. CASE LoadRow(t)
    <2>1. /\ pc' = [pc EXCEPT ![t] = "get"] /\ job' = [job EXCEPT ![t] = job[t]]
          /\ UNCHANGED <<status, applied, offered, up>>
      BY <1>4 DEF LoadRow, StartsApply, Goes, dbVars
    <2>2. QED
      BY <2>1, OrphanKept DEF RowsInv, Applying
  <1>5. CASE Enable(t) \/ EnabledPerpetual(t) \/ AlreadyReached(t) \/ SetTarget(t)
             \/ TargetSet(t)
    <2>1. PICK l \in {"enable", "finish", "set"} :
             pc' = [pc EXCEPT ![t] = l]
             /\ UNCHANGED <<status, applied, job, offered, up>>
      BY <1>5 DEF Enable, EnabledPerpetual, AlreadyReached, SetTarget, TargetSet,
                  Goes, dbVars
    <2>2. QED
      BY <2>1, OrphanKept DEF RowsInv, Applying
  <1>6. QED
    BY <1>1, <1>2, <1>3, <1>4, <1>5 DEF Handles

\* A press leaves the handlers at work alone; Approve starts one.
LEMMA PressOrphan ==
    ASSUME RowsInv, NoOrphan, NEW p \in Payments,
           \/ \E u \in Users : Select(u, p) \/ Submit(u, p) \/ AttachReceipt(u, p)
                              \/ Cancel(u, p)
           \/ \E a \in Reviewers : Approve(a, p) \/ Decline(a, p) \/ Retry(a, p)
           \/ Expire(p)
    PROVE  NoOrphan'
  <1>1. ASSUME NEW to, to # "approved", status' = [status EXCEPT ![p] = to],
               UNCHANGED <<applied, offered, job, up>>,
               \/ UNCHANGED pc
               \/ \E u \in Tasks : pc[u] = "idle" /\ pc' = [pc EXCEPT ![u] = "card"]
        PROVE  NoOrphan'
    BY <1>1, OrphanKept DEF RowsInv, Applying
  <1>2. ASSUME NEW u \in Users, Select(u, p) \/ AttachReceipt(u, p) \/ Cancel(u, p)
        PROVE  NoOrphan'
    BY <1>1, <1>2 DEF Select, AttachReceipt, Cancel, Claim, taskVars
  <1>3. ASSUME NEW u \in Users, Submit(u, p)
        PROVE  NoOrphan'
    BY <1>1, <1>3, PaymentsAssumption DEF Submit, Claim, Idle
  <1>4. ASSUME NEW a \in Reviewers, Decline(a, p)
        PROVE  NoOrphan'
    BY <1>1, <1>4 DEF Decline, Claim, taskVars
  <1>5. CASE Expire(p)
    BY <1>1, <1>5 DEF Expire, Claim, taskVars
  <1>6. ASSUME NEW a \in Reviewers, Approve(a, p)
        PROVE  NoOrphan'
    <2>1. /\ a \in Tasks /\ pc[a] = "idle"
          /\ pc' = [pc EXCEPT ![a] = "load"] /\ job' = [job EXCEPT ![a] = p]
          /\ status' = [status EXCEPT ![p] = "approved"]
          /\ UNCHANGED <<applied, offered, up>>
      BY <1>6, PaymentsAssumption DEF Approve, Idle, Goes, Claim
    <2>2. \A q \in Payments : q # p => status'[q] = status[q]
      BY <2>1 DEF RowsInv
    <2>3. pc'[a] \in Applying /\ job'[a] = p
          /\ \A b \in Tasks : pc[b] \in Applying => pc'[b] = pc[b] /\ job'[b] = job[b]
      BY <2>1 DEF RowsInv, Applying
    <2>4. QED
      BY <2>1, <2>2, <2>3 DEF NoOrphan, Working
  <1>7. ASSUME NEW a \in Reviewers, Retry(a, p)
        PROVE  NoOrphan'
    <2>1. /\ a \in Tasks /\ pc[a] = "idle" /\ pc' = [pc EXCEPT ![a] = "get"]
          /\ job' = [job EXCEPT ![a] = p] /\ UNCHANGED <<status, applied, offered, up>>
      BY <1>7, PaymentsAssumption DEF Retry, StartsApply, Idle, Goes, dbVars
    <2>2. QED
      BY <2>1, OrphanKept DEF RowsInv, Applying
  <1>8. QED
    BY <1>2, <1>3, <1>4, <1>5, <1>6, <1>7

\* Every step keeps it: a crash leaves it to the startup, which alerts.
LEMMA NextOrphan == ASSUME RowsInv, NoOrphan, [Next]_vars PROVE NoOrphan'
  <1>1. ASSUME NEW e \in Editors, Edit(e)
        PROVE  NoOrphan'
    <2>1. /\ e \in Tasks /\ pc[e] = "idle" /\ pc' = [pc EXCEPT ![e] = "edit"]
          /\ UNCHANGED <<status, applied, job, offered, up>>
      BY <1>1, PaymentsAssumption DEF Edit, Idle, Goes, dbVars
    <2>2. QED
      BY <2>1, OrphanKept DEF RowsInv, Applying
  <1>2. CASE Crash
    BY <1>2 DEF Crash, NoOrphan
  <1>3. CASE Restart
    <2>1. \A p \in Payments : status'[p] = "approved" /\ ~applied'[p] => p \in offered'
      BY <1>3 DEF Restart, dbVars
    <2>2. QED
      BY <2>1 DEF NoOrphan
  <1>4. CASE \/ Tick \/ UNCHANGED vars
             \/ GatewayStep /\ UNCHANGED <<dbVars, taskVars, offered, edits, manual, up, crashes>>
    <2>1. UNCHANGED <<status, applied, pc, job, offered, up>>
      BY <1>4 DEF Tick, vars, dbVars, taskVars
    <2>2. QED
      BY <2>1 DEF NoOrphan, Working
  <1>5. ASSUME NEW t \in Tasks, Handles(t)
        PROVE  NoOrphan'
    BY <1>5, HandlerOrphan
  <1>6. QED
    BY <1>1, <1>2, <1>3, <1>4, <1>5, PressOrphan DEF Next

\* However often the process dies and requests fail, an approved payment that
\* is not applied is being worked on, is offered for a retry, or waits for the
\* startup that will offer it (payments.py:140-171, handlers/payment.py:442).
THEOREM NoPaymentIsForgotten == Spec => []NoOrphan
  <1>1. Init => RowsInv /\ NoOrphan
    BY InitRows DEF Init, NoOrphan
  <1>2. RowsInv /\ NoOrphan /\ [Next]_vars => RowsInv' /\ NoOrphan'
    BY NextRefines, NextOrphan
  <1>3. QED
    BY <1>1, <1>2, PTL DEF Spec

-----------------------------------------------------------------------------
(* Types.  The inductive invariant ties the place of each handler to the   *)
(* stage of its gateway call, so that a handler starts a call only when it *)
(* is in none, and says that expiries written to the panel are never       *)
(* negative.                                                               *)

USE DEF InFlight, Locked, Stages

\* A handler is in a gateway call exactly while it waits for one, and what it
\* read before is there when it needs it.
HandlerInv(t) ==
    /\ pc[t] \in {"idle", "load", "finish"} <=> stage[t] = "idle"
    /\ pc[t] \in Applying => job[t] \in Payments
    /\ pc[t] \in {"enable", "set"} => seen[t] \in Client

\* Types, the gateway's lock, and the place of every handler.
IInv ==
    /\ TypeOK /\ LockInv
    /\ now > 0
    /\ target \in [Payments -> Nat] /\ row \in [Tasks -> Nat]
    /\ \A t \in Tasks : HandlerInv(t)

\* The part of the state that the gateway does not touch.
OwnTypeOK ==
    /\ status  \in [Payments -> Active \cup Decided \cup {"none"}]
    /\ target  \in [Payments -> Nat]
    /\ applied \in [Payments -> BOOLEAN]
    /\ offered \subseteq Payments
    /\ pc      \in [Tasks -> Applying \cup {"idle", "card", "edit"}]
    /\ job     \in [Tasks -> Payments \cup {NoPayment}]
    /\ row     \in [Tasks -> Nat]
    /\ seen    \in [Tasks -> Client \cup {NoClient}]
    /\ edits   \in [Tasks -> Nat]
    /\ manual  \in [Users -> Nat]
    /\ up      \in BOOLEAN
    /\ crashes \in Nat

\* The invariant in two halves, the gateway's and the handlers'.
LEMMA Halves ==
    IInv <=> /\ PanelTypeOK /\ LockInv /\ now > 0
             /\ OwnTypeOK
             /\ \A t \in Tasks : HandlerInv(t)
  BY DEF IInv, TypeOK, OwnTypeOK

\* The process starts with no handler at work.
LEMMA InitIInv == ASSUME Init PROVE IInv
  <1>1. PanelInit(InitialPanel, 1)
    BY DEF Init
  <1>2. PanelTypeOK /\ LockInv /\ now > 0
    BY <1>1, PaymentsAssumption, InitType, InitLock DEF PanelInit
  <1>3. OwnTypeOK
    BY PaymentsAssumption DEF Init, OwnTypeOK, Applying
  <1>4. \A t \in Tasks : HandlerInv(t)
    BY <1>1 DEF Init, PanelInit, HandlerInv, Applying
  <1>5. QED
    BY <1>2, <1>3, <1>4, Halves

\* Starting or ending a call preserves the gateway's half, and moves the stage
\* of that task alone.
LEMMA CallSteps ==
    ASSUME IInv, NEW t \in Tasks, stage[t] \in {"idle", "done", "failed"},
           \/ EndCall(t)
           \/ \E u \in Users : BeginGet(t, u)
           \/ \E r \in Request : r.kind \in Writes /\ BeginWrite(t, r)
    PROVE  /\ PanelTypeOK' /\ LockInv' /\ now' > 0
           /\ \A x \in Tasks : x # t => stage'[x] = stage[x]
           /\ stage'[t] = "idle" <=> EndCall(t)
  <1>1. PanelTypeOK /\ LockInv /\ now > 0 /\ stage \in [Tasks -> Stages]
    BY DEF IInv, TypeOK, PanelTypeOK
  <1>2. CASE EndCall(t)
    BY <1>1, <1>2, EndCallType, UnlockedCallsLock DEF EndCall
  <1>3. ASSUME NEW u \in Users, BeginGet(t, u)
        PROVE  /\ PanelTypeOK' /\ LockInv' /\ now' > 0
               /\ \A x \in Tasks : x # t => stage'[x] = stage[x]
               /\ stage'[t] # "idle"
    BY <1>1, <1>3, BeginGetType, UnlockedCallsLock DEF BeginGet
  <1>4. ASSUME NEW r \in Request, r.kind \in Writes, BeginWrite(t, r)
        PROVE  /\ PanelTypeOK' /\ LockInv' /\ now' > 0
               /\ \A x \in Tasks : x # t => stage'[x] = stage[x]
               /\ stage'[t] # "idle"
    <2>1. PanelTypeOK' /\ LockInv'
      BY <1>1, <1>4, BeginWriteType, BeginWriteLock
    <2>2. QED
      BY <1>1, <1>4, <2>1 DEF BeginWrite
  <1>5. stage'[t] # "idle" => ~EndCall(t)
    BY <1>1 DEF EndCall
  <1>6. QED
    BY <1>2, <1>3, <1>4, <1>5

\* What set_expiry is asked for is the recorded target, or a new one after now.
LEMMA TargetIsNat ==
    ASSUME IInv, NEW a \in Tasks, SetTarget(a)
    PROVE  /\ row'[a] \in Nat /\ row' = [row EXCEPT ![a] = row'[a]]
           /\ UNCHANGED target \/ target' = [target EXCEPT ![job[a]] = row'[a]]
           /\ BeginWrite(a, [kind |-> "set_expiry_ms", user |-> Owner[job[a]],
                             arg |-> row'[a]])
  <1> DEFINE new == CalculateExpiry(seen[a].expiry, Days[job[a]], now, seen[a].enable)
             ms  == IF row[a] = 0 THEN new ELSE row[a]
  <1>1. /\ pc[a] = "enable" /\ ~Perpetual(a)
        /\ row' = [row EXCEPT ![a] = ms]
        /\ IF row[a] = 0 THEN RecordTarget(a, ms) ELSE UNCHANGED target
        /\ BeginWrite(a, [kind |-> "set_expiry_ms", user |-> Owner[job[a]],
                          arg |-> ms])
    BY DEF SetTarget, Enabled
  <1>2. seen[a] \in Client /\ job[a] \in Payments /\ now \in Nat
    BY <1>1 DEF IInv, HandlerInv, Applying, TypeOK, PanelTypeOK
  <1>3. seen[a].expiry \in Int /\ Days[job[a]] \in Nat
    BY <1>2, PaymentsAssumption DEF Client
  <1>4. new \in Nat
    BY <1>1, <1>2, <1>3 DEF CalculateExpiry, Perpetual
  <1>5. ms \in Nat /\ row'[a] = ms
    BY <1>1, <1>4 DEF IInv
  <1>6. QED
    BY <1>1, <1>5 DEF RecordTarget

\* Each step of a handler that has started, first what it does to its own state.
LEMMA HandlesIInv ==
    ASSUME IInv, NEW t \in Tasks, Handles(t)
    PROVE  IInv'
  <1>1. /\ OwnTypeOK /\ HandlerInv(t) /\ stage \in [Tasks -> Stages]
        /\ PanelTypeOK /\ LockInv /\ now > 0
        /\ \A x \in Tasks : HandlerInv(x)
    BY Halves DEF PanelTypeOK
  <1>2. pc[t] \in Applying => Owner[job[t]] \in Users
    BY <1>1, PaymentsAssumption DEF HandlerInv
  <1>3. ASSUME OwnTypeOK', HandlerInv(t)', PanelTypeOK', LockInv', now' > 0,
               \A x \in Tasks : x # t => /\ stage'[x] = stage[x] /\ pc'[x] = pc[x]
                                         /\ job'[x] = job[x] /\ seen'[x] = seen[x]
        PROVE  IInv'
    <2>1. \A x \in Tasks : HandlerInv(x)'
      BY <1>1, <1>3 DEF HandlerInv
    <2>2. TypeOK'
      BY <1>3 DEF TypeOK, OwnTypeOK
    <2>3. QED
      BY <1>3, <2>1, <2>2 DEF IInv, OwnTypeOK
  <1>4. CASE CardSent(t) \/ ApplyFails(t)
    <2>1. /\ stage[t] \in {"done", "failed"} /\ EndCall(t)
          /\ pc' = [pc EXCEPT ![t] = "idle"]
          /\ UNCHANGED <<dbVars, edits, manual, up, crashes>>
          /\ \/ UNCHANGED <<job, row, seen, offered>>
             \/ /\ job' = [job EXCEPT ![t] = NoPayment] /\ row' = [row EXCEPT ![t] = 0]
                /\ seen' = [seen EXCEPT ![t] = NoClient]
                /\ job[t] \in Payments /\ offered' = offered \cup {job[t]}
      BY <1>1, <1>4 DEF CardSent, ApplyFails, Leaves, Goes, HandlerInv, Applying
    <2>2. OwnTypeOK'
      BY <1>1, <2>1 DEF OwnTypeOK, dbVars
    <2>3. QED
      BY <1>1, <1>3, <2>1, <2>2, CallSteps DEF OwnTypeOK, HandlerInv, Applying
  <1>5. CASE LoadRow(t)
    <2>1. /\ pc[t] = "load" /\ pc' = [pc EXCEPT ![t] = "get"]
          /\ job' = [job EXCEPT ![t] = job[t]] /\ row' = [row EXCEPT ![t] = target[job[t]]]
          /\ BeginGet(t, Owner[job[t]])
          /\ UNCHANGED <<dbVars, seen, offered, edits, manual, up, crashes>>
      BY <1>5 DEF LoadRow, StartsApply, Goes
    <2>2. stage[t] = "idle" /\ job[t] \in Payments /\ Owner[job[t]] \in Users
      BY <1>1, <1>2, <2>1 DEF HandlerInv, Applying
    <2>3. OwnTypeOK'
      BY <1>1, <2>1, <2>2 DEF OwnTypeOK, dbVars, Applying
    <2>4. ~EndCall(t)
      BY <1>1, <2>1, <2>2 DEF EndCall, BeginGet
    <2>5. QED
      BY <1>1, <1>3, <2>1, <2>2, <2>3, <2>4, CallSteps DEF OwnTypeOK, HandlerInv, Applying
  <1>6. CASE Enable(t)
    <2> DEFINE r == [kind |-> "set_enabled", user |-> Owner[job[t]], arg |-> 1]
    <2>1. /\ pc[t] = "get" /\ stage[t] = "done" /\ pc' = [pc EXCEPT ![t] = "enable"]
          /\ object[t] # NoClient /\ seen' = [seen EXCEPT ![t] = object[t]]
          /\ BeginWrite(t, r)
          /\ UNCHANGED <<dbVars, job, row, offered, edits, manual, up, crashes>>
      BY <1>6 DEF Enable, Goes
    <2>2. r \in Request /\ r.kind \in Writes
      BY <1>2, <2>1 DEF Request, Writes, Mutations, Applying
    <2>3. object[t] \in Client
      BY <1>1, <2>1 DEF PanelTypeOK
    <2>4. OwnTypeOK'
      BY <1>1, <2>1, <2>3 DEF OwnTypeOK, dbVars, Applying
    <2>5. ~EndCall(t)
      BY <1>1, <2>1 DEF EndCall, BeginWrite
    <2>6. QED
      BY <1>1, <1>3, <2>1, <2>2, <2>3, <2>4, <2>5, CallSteps DEF OwnTypeOK, HandlerInv, Applying
  <1>7. CASE EnabledPerpetual(t) \/ AlreadyReached(t) \/ TargetSet(t)
    <2>1. /\ pc[t] \in {"enable", "set"} /\ stage[t] = "done" /\ EndCall(t)
          /\ pc' = [pc EXCEPT ![t] = "finish"]
          /\ (UNCHANGED target \/ target' = [target EXCEPT ![job[t]] = 0])
          /\ UNCHANGED <<status, applied, job, row, seen, offered, edits, manual, up, crashes>>
      BY <1>7 DEF EnabledPerpetual, AlreadyReached, TargetSet, Enabled, RecordTarget,
                  Goes, dbVars
    <2>2. OwnTypeOK'
      BY <1>1, <2>1 DEF OwnTypeOK, Applying
    <2>3. QED
      BY <1>1, <1>3, <2>1, <2>2, CallSteps DEF OwnTypeOK, HandlerInv, Applying
  <1>8. CASE SetTarget(t)
    <2> DEFINE r == [kind |-> "set_expiry_ms", user |-> Owner[job[t]], arg |-> row'[t]]
    <2>1. /\ pc[t] = "enable" /\ stage[t] = "done" /\ pc' = [pc EXCEPT ![t] = "set"]
          /\ UNCHANGED <<status, applied, job, seen, offered, edits, manual, up, crashes>>
      BY <1>8 DEF SetTarget, Enabled, Goes
    <2>2. /\ row'[t] \in Nat /\ row' = [row EXCEPT ![t] = row'[t]]
          /\ UNCHANGED target \/ target' = [target EXCEPT ![job[t]] = row'[t]]
          /\ BeginWrite(t, r)
      BY <1>8, TargetIsNat
    <2>3. r \in Request /\ r.kind \in Writes
      BY <1>2, <2>1, <2>2 DEF Request, Writes, Mutations, Applying
    <2>4. OwnTypeOK'
      <3>1. target' \in [Payments -> Nat] /\ row' \in [Tasks -> Nat]
        BY <1>1, <2>2 DEF OwnTypeOK
      <3>2. QED
        BY <1>1, <2>1, <3>1 DEF OwnTypeOK, Applying
    <2>5. ~EndCall(t)
      BY <1>1, <2>1, <2>2 DEF EndCall, BeginWrite
    <2>6. QED
      BY <1>1, <1>3, <2>1, <2>2, <2>3, <2>4, <2>5, CallSteps DEF OwnTypeOK, HandlerInv, Applying
  <1>9. CASE MarkApplied(t)
    <2>1. /\ pc[t] = "finish" /\ pc' = [pc EXCEPT ![t] = "idle"]
          /\ job' = [job EXCEPT ![t] = NoPayment] /\ row' = [row EXCEPT ![t] = 0]
          /\ seen' = [seen EXCEPT ![t] = NoClient]
          /\ applied' = [applied EXCEPT ![job[t]] = TRUE]
          /\ UNCHANGED <<panelVars, status, target, offered, edits, manual, up, crashes>>
      BY <1>9 DEF MarkApplied, Leaves, Goes
    <2>2. OwnTypeOK'
      BY <1>1, <2>1 DEF OwnTypeOK
    <2>3. PanelTypeOK' /\ LockInv' /\ now' > 0
      BY <1>1, <2>1 DEF panelVars, PanelTypeOK, CallTypeOK, LockInv
    <2>4. QED
      BY <1>1, <1>3, <2>1, <2>2, <2>3 DEF panelVars, OwnTypeOK, HandlerInv, Applying
  <1>10. CASE Edited(t)
    <2>1. /\ pc[t] = "edit" /\ stage[t] \in {"done", "failed"}
          /\ pc' = [pc EXCEPT ![t] = "card"] /\ BeginGet(t, request[t].user)
          /\ UNCHANGED <<dbVars, job, row, seen, offered, edits, manual, up, crashes>>
      BY <1>10 DEF Edited, Goes
    <2>2. request[t].user \in Users
      BY <1>1, <2>1, CallHasRequest DEF Request
    <2>3. OwnTypeOK'
      BY <1>1, <2>1 DEF OwnTypeOK, dbVars
    <2>4. ~EndCall(t)
      BY <1>1, <2>1 DEF EndCall, BeginGet
    <2>5. QED
      BY <1>1, <1>3, <2>1, <2>2, <2>3, <2>4, CallSteps DEF OwnTypeOK, HandlerInv, Applying
  <1>11. QED
    BY <1>4, <1>5, <1>6, <1>7, <1>8, <1>9, <1>10 DEF Handles

\* Each press, if the handler it starts is in no call yet.
LEMMA PressIInv ==
    ASSUME IInv, NEW p \in Payments,
           \/ \E u \in Users : Select(u, p) \/ Submit(u, p) \/ AttachReceipt(u, p)
                              \/ Cancel(u, p)
           \/ \E a \in Reviewers : Approve(a, p) \/ Decline(a, p) \/ Retry(a, p)
           \/ Expire(p)
    PROVE  IInv'
  <1>1. /\ OwnTypeOK /\ PanelTypeOK /\ LockInv /\ now > 0
        /\ \A x \in Tasks : HandlerInv(x)
        /\ Owner[p] \in Users
    BY Halves, PaymentsAssumption
  <1>2. ASSUME UNCHANGED <<panelVars, taskVars, offered, edits, manual, up, crashes>>,
               NEW from, NEW to \in Active \cup Decided, Claim(p, from, to)
        PROVE  IInv'
    <2>1. OwnTypeOK'
      BY <1>1, <1>2 DEF OwnTypeOK, Claim, taskVars
    <2>2. PanelTypeOK' /\ LockInv' /\ now' > 0
      BY <1>1, <1>2 DEF panelVars, PanelTypeOK, CallTypeOK, LockInv
    <2>3. \A x \in Tasks : HandlerInv(x)'
      BY <1>1, <1>2 DEF HandlerInv, taskVars, panelVars
    <2>4. TypeOK'
      BY <2>1, <2>2 DEF TypeOK, OwnTypeOK
    <2>5. QED
      BY <2>1, <2>2, <2>3, <2>4 DEF IInv, OwnTypeOK
  <1>3. ASSUME NEW u \in Users, Select(u, p) \/ AttachReceipt(u, p) \/ Cancel(u, p)
        PROVE  IInv'
    BY <1>2, <1>3 DEF Select, AttachReceipt, Cancel, Active, Decided, Pending
  <1>4. ASSUME NEW a \in Reviewers, Decline(a, p)
        PROVE  IInv'
    BY <1>2, <1>4 DEF Decline, Decided
  <1>5. CASE Expire(p)
    BY <1>2, <1>5 DEF Expire, Active, Decided
  <1>6. ASSUME NEW a \in Reviewers, Approve(a, p)
        PROVE  IInv'
    <2>1. /\ a \in Tasks /\ pc[a] = "idle" /\ pc' = [pc EXCEPT ![a] = "load"]
          /\ job' = [job EXCEPT ![a] = p] /\ Claim(p, Pending, "approved")
          /\ UNCHANGED <<panelVars, row, seen, offered, edits, manual, up, crashes>>
      BY <1>6, PaymentsAssumption DEF Approve, Idle, Goes
    <2>2. OwnTypeOK'
      BY <1>1, <2>1 DEF OwnTypeOK, Claim, Decided, Applying
    <2>3. PanelTypeOK' /\ LockInv' /\ now' > 0
      BY <1>1, <2>1 DEF panelVars, PanelTypeOK, CallTypeOK, LockInv
    <2>4. \A x \in Tasks : HandlerInv(x)'
      BY <1>1, <2>1 DEF HandlerInv, panelVars, OwnTypeOK, Applying
    <2>5. TypeOK'
      BY <2>2, <2>3 DEF TypeOK, OwnTypeOK
    <2>6. QED
      BY <2>2, <2>3, <2>4, <2>5 DEF IInv, OwnTypeOK
  <1>7. ASSUME NEW t \in Tasks, pc[t] = "idle", NEW l \in {"card", "get"},
               pc' = [pc EXCEPT ![t] = l], BeginGet(t, Owner[p]), OwnTypeOK',
               UNCHANGED seen,
               \/ l = "card" /\ UNCHANGED job
               \/ l = "get" /\ job' = [job EXCEPT ![t] = p]
        PROVE  IInv'
    <2>1. stage[t] = "idle"
      BY <1>1, <1>7 DEF HandlerInv
    <2>2. ~EndCall(t)
      BY <1>1, <1>7, <2>1 DEF EndCall, BeginGet, PanelTypeOK
    <2>3. /\ PanelTypeOK' /\ LockInv' /\ now' > 0 /\ stage'[t] # "idle"
          /\ \A x \in Tasks : x # t => stage'[x] = stage[x]
      BY <1>1, <1>7, <2>1, <2>2, CallSteps
    <2>4. \A x \in Tasks : HandlerInv(x)'
      BY <1>1, <1>7, <2>3 DEF HandlerInv, OwnTypeOK, Applying
    <2>5. TypeOK'
      BY <1>7, <2>3 DEF TypeOK, OwnTypeOK
    <2>6. QED
      BY <1>7, <2>3, <2>4, <2>5 DEF IInv, OwnTypeOK
  <1>8. ASSUME NEW u \in Users, Submit(u, p)
        PROVE  IInv'
    <2>1. /\ u \in Tasks /\ pc[u] = "idle" /\ pc' = [pc EXCEPT ![u] = "card"]
          /\ BeginGet(u, Owner[p]) /\ Claim(p, {"created"}, "awaiting_proof")
          /\ UNCHANGED <<job, row, seen, offered, edits, manual, up, crashes>>
      BY <1>8, PaymentsAssumption DEF Submit, Idle
    <2>2. OwnTypeOK'
      BY <1>1, <2>1 DEF OwnTypeOK, Claim, Active, Pending
    <2>3. QED
      BY <1>7, <2>1, <2>2
  <1>9. ASSUME NEW a \in Reviewers, Retry(a, p)
        PROVE  IInv'
    <2>1. /\ a \in Tasks /\ pc[a] = "idle" /\ pc' = [pc EXCEPT ![a] = "get"]
          /\ job' = [job EXCEPT ![a] = p] /\ row' = [row EXCEPT ![a] = target[p]]
          /\ BeginGet(a, Owner[p])
          /\ UNCHANGED <<dbVars, seen, offered, edits, manual, up, crashes>>
      BY <1>9, PaymentsAssumption DEF Retry, StartsApply, Idle, Goes
    <2>2. OwnTypeOK'
      BY <1>1, <2>1 DEF OwnTypeOK, dbVars, Applying
    <2>3. QED
      BY <1>7, <2>1, <2>2
  <1>10. QED
    BY <1>3, <1>4, <1>5, <1>6, <1>8, <1>9

\* An editor starts a write of its own.
LEMMA EditIInv == ASSUME IInv, NEW e \in Editors, Edit(e) PROVE IInv'
  <1>1. /\ OwnTypeOK /\ PanelTypeOK /\ LockInv /\ now > 0
        /\ \A x \in Tasks : HandlerInv(x)
    BY Halves
  <1>2. PICK r \in EditorRequests :
           /\ BeginWrite(e, r)
           /\ manual' = IF r.kind = "grant_days"
                        THEN [manual EXCEPT ![r.user] = @ + r.arg] ELSE manual
    BY DEF Edit
  <1>3. /\ e \in Tasks /\ pc[e] = "idle" /\ pc' = [pc EXCEPT ![e] = "edit"]
        /\ edits[e] > 0 /\ edits' = [edits EXCEPT ![e] = @ - 1]
        /\ UNCHANGED <<dbVars, job, row, seen, offered, up, crashes>>
    BY PaymentsAssumption DEF Edit, Idle, Goes
  <1>4. r \in Request /\ r.kind \in Writes /\ r.user \in Users /\ r.arg \in Nat
    BY PaymentsAssumption DEF Request
  <1>5. stage[e] = "idle"
    BY <1>1, <1>3 DEF HandlerInv
  <1>6. ~EndCall(e)
    BY <1>1, <1>2, <1>5 DEF EndCall, BeginWrite, PanelTypeOK
  <1>7. /\ PanelTypeOK' /\ LockInv' /\ now' > 0 /\ stage'[e] # "idle"
        /\ \A x \in Tasks : x # e => stage'[x] = stage[x]
    BY <1>2, <1>3, <1>4, <1>5, <1>6, CallSteps
  <1>8. OwnTypeOK'
    <2>1. manual' \in [Users -> Nat] /\ edits' \in [Tasks -> Nat]
      BY <1>1, <1>2, <1>3, <1>4 DEF OwnTypeOK
    <2>2. QED
      BY <1>1, <1>3, <2>1 DEF OwnTypeOK, dbVars
  <1>9. \A x \in Tasks : HandlerInv(x)'
    BY <1>1, <1>3, <1>7 DEF HandlerInv, OwnTypeOK, Applying
  <1>10. TypeOK'
    BY <1>7, <1>8 DEF TypeOK, OwnTypeOK
  <1>11. QED
    BY <1>7, <1>8, <1>9, <1>10 DEF IInv, OwnTypeOK

\* A crash empties the memory of the process, not the panel.
LEMMA ResetType == ASSUME PanelTypeOK, Reset PROVE PanelTypeOK' /\ LockInv'
  <1>1. late' \subseteq Effect
    <2>1. ASSUME NEW x \in Tasks, Unanswered(x)
          PROVE  EffectOf(x) \in Effect
      BY <2>1, EffectType DEF Unanswered
    <2>2. QED
      BY <2>1 DEF Reset, PanelTypeOK
  <1>2. QED
    BY <1>1 DEF Reset, PanelTypeOK, CallTypeOK, LockInv

\* Every step preserves the invariant.
LEMMA NextIInv == ASSUME IInv, [Next]_vars PROVE IInv'
  <1>1. /\ OwnTypeOK /\ PanelTypeOK /\ LockInv /\ now > 0
        /\ \A x \in Tasks : HandlerInv(x)
    BY Halves
  <1>2. ASSUME OwnTypeOK', PanelTypeOK', LockInv', now' > 0,
               \A x \in Tasks : HandlerInv(x)'
        PROVE  IInv'
    <2>1. TypeOK'
      BY <1>2 DEF TypeOK, OwnTypeOK
    <2>2. QED
      BY <1>2, <2>1 DEF IInv, OwnTypeOK
  <1>3. CASE GatewayStep /\ UNCHANGED <<dbVars, taskVars, offered, edits, manual, up, crashes>>
    <2>1. PanelTypeOK' /\ LockInv'
      BY <1>1, <1>3, GatewayStepType, GatewayStepLock
    <2>2. now' = now
      BY <1>3 DEF GatewayStep, PanelAnswers, PanelCommits, Resumes, FetchResumes,
         Acquire, ClientMissing, NothingToWrite, MutationApplies, ClientRouteCalled,
         EnsureAdds, EnsureUpdates, WriteResumes, VerifyResumes, RequestFails,
         LateWriteLands, CacheExpires, Goto
    <2>3. \A x \in Tasks : HandlerInv(x)'
      BY <1>1, <1>3, GatewayStepStages DEF HandlerInv, taskVars
    <2>4. OwnTypeOK'
      BY <1>1, <1>3 DEF OwnTypeOK, dbVars, taskVars
    <2>5. QED
      BY <1>1, <1>2, <2>1, <2>2, <2>3, <2>4
  <1>4. CASE Crash
    <2>1. PanelTypeOK' /\ LockInv' /\ now' = now
      BY <1>1, <1>4, ResetType DEF Crash, Reset
    <2>2. OwnTypeOK'
      <3>1. /\ pc' = [t \in Tasks |-> "idle"] /\ job' = [t \in Tasks |-> NoPayment]
            /\ row' = [t \in Tasks |-> 0] /\ seen' = [t \in Tasks |-> NoClient]
            /\ UNCHANGED <<dbVars, offered, edits, manual>>
        BY <1>4 DEF Crash
      <3>2. up' \in BOOLEAN /\ crashes' \in Nat
        <4>1. up' = FALSE /\ crashes' = crashes + 1 /\ crashes \in Nat
          BY <1>1, <1>4, Zenon DEF Crash, OwnTypeOK
        <4>2. crashes' \in Nat
          BY <4>1
        <4>3. up' \in BOOLEAN
          BY <4>1, Zenon
        <4>4. QED
          BY <4>2, <4>3
      <3>3. /\ pc' \in [Tasks -> Applying \cup {"idle", "card", "edit"}]
            /\ job' \in [Tasks -> Payments \cup {NoPayment}]
            /\ row' \in [Tasks -> Nat] /\ seen' \in [Tasks -> Client \cup {NoClient}]
        BY <3>1
      <3>4. QED
        BY <1>1, <3>1, <3>2, <3>3 DEF OwnTypeOK, dbVars
    <2>3. \A x \in Tasks : HandlerInv(x)'
      BY <1>4 DEF Crash, Reset, HandlerInv, Applying
    <2>4. QED
      BY <1>1, <1>2, <2>1, <2>2, <2>3
  <1>5. CASE Restart \/ Tick \/ UNCHANGED vars
    <2>1. /\ UNCHANGED <<panel, cache, queue, request, stage, answer, object, late>>
          /\ UNCHANGED <<dbVars, taskVars, edits, manual, crashes>>
          /\ now' = now \/ now' = now + 1
      BY <1>5 DEF Restart, Tick, vars, panelVars
    <2>2. now' \in Nat /\ now' > 0
      BY <1>1, <2>1 DEF PanelTypeOK
    <2>3. offered' \subseteq Payments /\ up' \in BOOLEAN
      BY <1>1, <1>5 DEF Restart, Tick, vars, OwnTypeOK
    <2>4. PanelTypeOK' /\ LockInv'
      BY <1>1, <2>1, <2>2 DEF PanelTypeOK, CallTypeOK, LockInv
    <2>5. OwnTypeOK' /\ \A x \in Tasks : HandlerInv(x)'
      BY <1>1, <2>1, <2>3 DEF OwnTypeOK, HandlerInv, dbVars, taskVars
    <2>6. QED
      BY <1>2, <2>2, <2>4, <2>5
  <1>6. QED
    BY <1>3, <1>4, <1>5, HandlesIInv, PressIInv, EditIInv DEF Next

\* The payment flow, and every gateway call it makes, is type correct: no call
\* starts inside another, and only non-negative expiries reach the panel.
THEOREM PaymentsTypeCorrect == Spec => []TypeOK
  <1>1. IInv => TypeOK
    BY DEF IInv
  <1>2. QED
    BY InitIInv, NextIInv, <1>1, PTL DEF Spec

\* The gateway's lock still excludes when the payment flow and the editors share
\* it and the process dies and restarts (panel.py:131).
THEOREM PaymentsLockCorrect == Spec => []LockInv
  <1>1. IInv => LockInv
    BY DEF IInv
  <1>2. QED
    BY InitIInv, NextIInv, <1>1, PTL DEF Spec

-----------------------------------------------------------------------------
(* Sums over finite sets.                                                  *)

\* The sum of f over the finite set S (FiniteSetsExt computes Paid with it).
Total(f, S) == MapThenSumSet(LAMBDA x : f[x], S)

\* The element that the recursion takes first.
Chosen(s) == CHOOSE x \in s : TRUE

\* The recursion by which Total adds up f over the subsets of S in the family D.
AddsUp(f, D, g) ==
    /\ DOMAIN g = D
    /\ \A s \in D : g[s] = IF s = {} THEN 0 ELSE f[Chosen(s)] + g[s \ {Chosen(s)}]

\* Induction on the natural numbers, stated of a set of them: the theorems of the
\* library take an operator, and this one does not.
LEMMA NumberInduction ==
    ASSUME NEW N, 0 \in N, \A n \in Nat : n \in N => n + 1 \in N
    PROVE  Nat \subseteq N
  <1> DEFINE R == OpToRel(<, Nat)
             T == Nat \ N
  <1> SUFFICES ASSUME T # {}
               PROVE  FALSE
    OBVIOUS
  <1>1. IsWellFoundedOn(R, Nat)
    BY NatLessThanWellFounded
  <1>2. \A a, b \in Nat : a < b => <<a, b>> \in R
    BY DEF OpToRel
  <1> HIDE DEF R
  <1>3. PICK m \in T : \A y \in T : ~(<<y, m>> \in R)
    BY <1>1, WFMin
  <1>4. m # 0 /\ m - 1 \in Nat
    BY <1>3
  <1>5. m - 1 \in T
    BY <1>3, <1>4
  <1>6. <<m - 1, m>> \in R
    BY <1>2, <1>4
  <1>7. QED
    BY <1>3, <1>5, <1>6

\* Induction on the size of a finite set, likewise.
LEMMA SizeInduction ==
    ASSUME NEW S, IsFiniteSet(S), NEW F, {} \in F,
           \A T \in SUBSET S : \A x \in S \ T : T \in F => T \cup {x} \in F
    PROVE  S \in F
  <1> DEFINE N == {n \in Nat : \A T \in SUBSET S : Cardinality(T) = n => T \in F}
  <1>1. 0 \in N
    BY FS_Subset, FS_EmptySet
  <1>2. ASSUME NEW n \in Nat, n \in N
        PROVE  n + 1 \in N
    <2> SUFFICES ASSUME NEW T \in SUBSET S, Cardinality(T) = n + 1
                 PROVE  T \in F
      OBVIOUS
    <2>1. IsFiniteSet(T)
      BY FS_Subset
    <2>2. PICK x \in T : TRUE
      BY <2>1, FS_EmptySet
    <2>3. Cardinality(T \ {x}) = Cardinality(T) - 1
      BY <2>1, <2>2, FS_RemoveElement
    <2>4. T \ {x} \in F
      BY <1>2, <2>3, T \ {x} \in SUBSET S
    <2>5. (T \ {x}) \cup {x} = T
      BY <2>2
    <2>6. QED
      BY <2>2, <2>4, <2>5
  <1>3. Cardinality(S) \in N
    <2> HIDE DEF N
    <2>1. QED
      BY <1>1, <1>2, NumberInduction, FS_CardinalityType
  <1>4. QED
    BY <1>3

\* There is such a recursion.
LEMMA AddsUpExists ==
    ASSUME NEW S, IsFiniteSet(S), NEW f
    PROVE  \E g : AddsUp(f, SUBSET S, g)
  <1> DEFINE D(n) == {s \in SUBSET S : Cardinality(s) <= n}
             N == {n \in Nat : \E g : AddsUp(f, D(n), g)}
  <1>1. \A s \in SUBSET S : IsFiniteSet(s) /\ Cardinality(s) \in Nat
                           /\ (Cardinality(s) = 0 <=> s = {})
    BY FS_Subset, FS_EmptySet, FS_CardinalityType
  <1>2. 0 \in N
    <2> DEFINE g == [s \in D(0) |-> 0]
    <2>1. \A s \in D(0) : s = {}
      BY <1>1
    <2>2. AddsUp(f, D(0), g)
      BY <2>1 DEF AddsUp
    <2>3. QED
      BY <2>2
  <1>3. ASSUME NEW n \in Nat, n \in N
        PROVE  n + 1 \in N
    <2>1. PICK g : AddsUp(f, D(n), g)
      BY <1>3
    <2> DEFINE h == [s \in D(n + 1) |-> IF s = {} THEN 0 ELSE f[Chosen(s)] + g[s \ {Chosen(s)}]]
    <2>2. ASSUME NEW s \in D(n + 1), s # {}
          PROVE  s \ {Chosen(s)} \in D(n)
      <3>1. Chosen(s) \in s
        BY <2>2 DEF Chosen
      <3>2. Cardinality(s \ {Chosen(s)}) = Cardinality(s) - 1
        BY <1>1, <3>1, FS_RemoveElement
      <3>3. QED
        BY <1>1, <3>2
    <2>3. \A s \in D(n) : s \in D(n + 1) /\ h[s] = g[s]
      BY <1>1, <2>1 DEF AddsUp
    <2>4. AddsUp(f, D(n + 1), h)
      BY <2>2, <2>3 DEF AddsUp
    <2> HIDE DEF h
    <2>5. QED
      BY <2>4
  <1>4. Cardinality(S) \in N
    <2> HIDE DEF N
    <2>1. QED
      BY <1>2, <1>3, NumberInduction, FS_CardinalityType
  <1>5. D(Cardinality(S)) = SUBSET S
    BY FS_Subset, FS_CardinalityType
  <1>6. QED
    BY <1>4, <1>5

\* The sum that Total finds obeys it.
LEMMA TotalAddsUp ==
    ASSUME NEW S, IsFiniteSet(S), NEW f
    PROVE \E g : AddsUp(f, SUBSET S, g) /\ Total(f, S) = g[S]
  <1> DEFINE P(g) == g = [s \in SUBSET S |->
                            IF s = {} THEN 0 ELSE f[Chosen(s)] + g[s \ {Chosen(s)}]]
             h == CHOOSE g : P(g)
  <1>1. PICK g : AddsUp(f, SUBSET S, g)
    BY AddsUpExists
  <1> DEFINE g1 == [s \in SUBSET S |-> g[s]]
  <1>2. P(g1)
    BY <1>1 DEF AddsUp, Chosen
  <1>3. P(h)
    BY <1>2
  <1>4. AddsUp(f, SUBSET S, h)
    BY <1>3 DEF AddsUp
  <1>5. Total(f, S) = h[S]
    BY DEF Total, MapThenSumSet, MapThenFoldSet, Chosen
  <1>6. QED
    BY <1>4, <1>5

\* Any element can be added last.
AnyOrder(f, S, g) ==
    \A T \in SUBSET S : g[T] \in Nat /\ \A x \in T : g[T] = f[x] + g[T \ {x}]

\* In a sum of natural numbers it does not matter which was chosen.
LEMMA AnyLast ==
    ASSUME NEW S, IsFiniteSet(S), NEW f, \A x \in S : f[x] \in Nat, NEW g, AddsUp(f, SUBSET S, g)
    PROVE  AnyOrder(f, S, g)
  <1> DEFINE Q(T) == g[T] \in Nat /\ \A x \in T : g[T] = f[x] + g[T \ {x}]
             N == {n \in Nat : \A T \in SUBSET S : Cardinality(T) <= n => Q(T)}
  <1>1. \A s \in SUBSET S : IsFiniteSet(s) /\ Cardinality(s) \in Nat
                           /\ (Cardinality(s) = 0 <=> s = {})
    BY FS_Subset, FS_EmptySet, FS_CardinalityType
  <1>2. Q({})
    <2>1. {} \in SUBSET S
      OBVIOUS
    <2>2. g[{}] = 0
      BY <2>1 DEF AddsUp
    <2>3. QED
      BY <2>2
  <1>3. 0 \in N
    <2> HIDE DEF Q
    <2>1. \A T \in SUBSET S : Cardinality(T) <= 0 => T = {}
      BY <1>1
    <2>2. QED
      BY <1>2, <2>1
  <1>4. ASSUME NEW n \in Nat, \A T \in SUBSET S : Cardinality(T) <= n => Q(T),
               NEW T \in SUBSET S, T # {}, Cardinality(T) <= n + 1
        PROVE  Q(T)
    <2> DEFINE y == Chosen(T)
               A == T \ {y}
    <2>1. y \in T /\ g[T] = f[y] + g[A]
      BY <1>4 DEF Chosen, AddsUp
    <2> HIDE DEF y
    <2>2. ASSUME NEW s \in SUBSET T, s # T
          PROVE  Q(s)
      <3>1. IsFiniteSet(T) /\ Cardinality(T) \in Nat /\ Cardinality(s) \in Nat
        BY <1>1
      <3>2. Cardinality(s) < Cardinality(T)
        BY <2>2, <3>1, FS_Subset
      <3>3. Cardinality(s) <= n
        BY <1>4, <3>1, <3>2
      <3>4. QED
        BY <1>4, <3>3
    <2>3. A \in SUBSET T /\ A # T
      BY <2>1
    <2>4. g[A] \in Nat /\ f[y] \in Nat
      BY <2>1, <2>2, <2>3
    <2>5. ASSUME NEW x \in T, x # y
          PROVE  g[T] = f[x] + g[T \ {x}]
      <3> DEFINE B == T \ {x}
                 C == B \ {y}
      <3>1. A \ {x} = C /\ x \in A /\ y \in B
        BY <2>1, <2>5
      <3>2. B \in SUBSET T /\ B # T /\ C \in SUBSET T /\ C # T
        OBVIOUS
      <3>3. g[A] = f[x] + g[C]
        BY <2>2, <2>3, <3>1
      <3>4. g[B] = f[y] + g[C]
        BY <2>2, <3>1, <3>2
      <3>5. g[C] \in Nat /\ f[x] \in Nat
        BY <2>2, <3>2
      <3> HIDE DEF A, B, C
      <3>6. g[T] = f[x] + g[B]
        BY <2>1, <2>4, <3>3, <3>4, <3>5
      <3>7. QED
        BY <3>6 DEF B
    <2>6. g[T] \in Nat
      <3> HIDE DEF A
      <3>1. QED
        BY <2>1, <2>4
    <2>7. QED
      BY <2>1, <2>5, <2>6
  <1>5. ASSUME NEW n \in Nat, n \in N
        PROVE  n + 1 \in N
    <2> HIDE DEF Q
    <2>1. \A T \in SUBSET S : Cardinality(T) <= n => Q(T)
      BY <1>5
    <2>2. ASSUME NEW T \in SUBSET S, Cardinality(T) <= n + 1
          PROVE  Q(T)
      BY <1>2, <1>4, <2>1, <2>2
    <2>3. QED
      BY <2>2
  <1>6. Nat \subseteq N
    <2> HIDE DEF N
    <2>1. QED
      BY <1>3, <1>5, NumberInduction
  <1>7. \A T \in SUBSET S : Q(T)
    <2> HIDE DEF Q
    <2>1. QED
      BY <1>1, <1>6
  <1>8. QED
    BY <1>7 DEF AnyOrder

\* A sum of natural numbers is one, and any further element adds its own number.
LEMMA TotalAny ==
    ASSUME NEW S, IsFiniteSet(S), NEW f, \A x \in S : f[x] \in Nat, NEW T \in SUBSET S
    PROVE  /\ Total(f, T) \in Nat
           /\ \A x \in S \ T : Total(f, T \cup {x}) = Total(f, T) + f[x]
  <1> DEFINE F(g) == {U \in SUBSET S : Total(f, U) = g[U]}
  <1>1. PICK g : AddsUp(f, SUBSET S, g)
    BY AddsUpExists
  <1>2. \A U \in SUBSET S : g[U] \in Nat /\ \A x \in U : g[U] = f[x] + g[U \ {x}]
    <2>1. AnyOrder(f, S, g)
      BY <1>1, AnyLast
    <2>2. QED
      BY <2>1 DEF AnyOrder
  <1>3. ASSUME NEW U \in SUBSET S
        PROVE  Total(f, U) = g[U]
    <2>1. IsFiniteSet(U)
      BY FS_Subset
    <2>2. PICK h : AddsUp(f, SUBSET U, h) /\ Total(f, U) = h[U]
      BY <2>1, TotalAddsUp
    <2>3. \A V \in SUBSET U : h[V] \in Nat /\ \A x \in V : h[V] = f[x] + h[V \ {x}]
      <3>1. AnyOrder(f, U, h)
        BY <2>1, <2>2, AnyLast
      <3>2. QED
        BY <3>1 DEF AnyOrder
    <2> DEFINE E == {V \in SUBSET U : g[V] = h[V]}
    <2>4. {} \in E
      BY <1>1, <2>2 DEF AddsUp
    <2>5. ASSUME NEW V \in SUBSET U, NEW x \in U \ V, V \in E
          PROVE  V \cup {x} \in E
      <3> DEFINE W == V \cup {x}
      <3>1. W \ {x} = V /\ W \in SUBSET U /\ W \in SUBSET S /\ x \in W
        BY <2>5
      <3> HIDE DEF W
      <3>2. g[W] = f[x] + g[V] /\ h[W] = f[x] + h[V]
        BY <1>2, <2>3, <3>1
      <3>3. QED
        BY <2>5, <3>1, <3>2 DEF W
    <2>6. U \in E
      <3> HIDE DEF E
      <3>1. QED
        BY <2>1, <2>4, <2>5, SizeInduction
    <2>7. QED
      BY <2>2, <2>6
  <1>4. ASSUME NEW x \in S \ T
        PROVE  Total(f, T \cup {x}) = Total(f, T) + f[x]
    <2> DEFINE W == T \cup {x}
    <2>1. W \ {x} = T /\ W \in SUBSET S /\ x \in W
      OBVIOUS
    <2> HIDE DEF W
    <2>2. g[W] = f[x] + g[T] /\ g[T] \in Nat /\ f[x] \in Nat
      BY <1>2, <2>1
    <2>3. Total(f, W) = Total(f, T) + f[x]
      BY <1>3, <2>1, <2>2
    <2>4. QED
      BY <2>3 DEF W
  <1>5. QED
    BY <1>2, <1>3, <1>4

\* A sum over nothing is zero.
LEMMA TotalEmpty == ASSUME NEW f PROVE Total(f, {}) = 0
  <1>1. PICK g : AddsUp(f, SUBSET {}, g) /\ Total(f, {}) = g[{}]
    BY TotalAddsUp, FS_EmptySet
  <1>2. QED
    BY <1>1 DEF AddsUp

\* A sum over fewer elements is no larger.
LEMMA TotalMono ==
    ASSUME NEW S, IsFiniteSet(S), NEW f, \A x \in S : f[x] \in Nat, NEW T \in SUBSET S
    PROVE  Total(f, T) <= Total(f, S)
  <1> DEFINE F == {U \in SUBSET S : Total(f, T) <= Total(f, T \cup U)}
  <1>1. {} \in F
    <2>1. T \cup {} = T /\ Total(f, T) \in Nat
      BY TotalAny
    <2>2. QED
      BY <2>1
  <1>2. ASSUME NEW U \in SUBSET S, NEW x \in S \ U, U \in F
        PROVE  U \cup {x} \in F
    <2> DEFINE V == T \cup U
               W == T \cup (U \cup {x})
    <2>1. V \in SUBSET S /\ Total(f, T) \in Nat /\ Total(f, V) \in Nat /\ f[x] \in Nat
      BY TotalAny
    <2>2. W = V \/ (x \in S \ V /\ W = V \cup {x})
      OBVIOUS
    <2>3. Total(f, T) <= Total(f, V)
      BY <1>2
    <2> HIDE DEF V, W
    <2>4. Total(f, T) <= Total(f, W)
      BY <2>1, <2>2, <2>3, TotalAny
    <2>5. QED
      BY <2>4 DEF W
  <1>3. S \in F
    <2> HIDE DEF F
    <2>1. QED
      BY <1>1, <1>2, SizeInduction
  <1>4. T \cup S = S
    OBVIOUS
  <1>5. QED
    BY <1>3, <1>4

\* A sum of smaller numbers is no larger.
LEMMA TotalPointwise ==
    ASSUME NEW S, IsFiniteSet(S), NEW f, NEW g,
           \A x \in S : f[x] \in Nat /\ g[x] \in Nat /\ f[x] <= g[x]
    PROVE  Total(f, S) <= Total(g, S)
  <1> DEFINE F == {U \in SUBSET S : Total(f, U) <= Total(g, U)}
  <1>1. {} \in F
    BY TotalEmpty
  <1>2. ASSUME NEW U \in SUBSET S, NEW x \in S \ U, U \in F
        PROVE  U \cup {x} \in F
    <2>1. Total(f, U \cup {x}) = Total(f, U) + f[x] /\ Total(f, U) \in Nat
      BY TotalAny
    <2>2. Total(g, U \cup {x}) = Total(g, U) + g[x] /\ Total(g, U) \in Nat
      BY TotalAny
    <2>3. Total(f, U) <= Total(g, U) /\ f[x] \in Nat /\ g[x] \in Nat /\ f[x] <= g[x]
      BY <1>2
    <2>4. Total(f, U \cup {x}) <= Total(g, U \cup {x})
      BY <2>1, <2>2, <2>3
    <2>5. QED
      BY <2>4
  <1>3. S \in F
    <2> HIDE DEF F
    <2>1. QED
      BY <1>1, <1>2, SizeInduction
  <1>4. QED
    BY <1>3

\* When one number changes the sum changes by as much.
LEMMA TotalChange ==
    ASSUME NEW S, IsFiniteSet(S), NEW f, NEW g, NEW x \in S,
           \A y \in S : f[y] \in Nat /\ g[y] \in Nat /\ (y # x => g[y] = f[y])
    PROVE  Total(g, S) = Total(f, S) - f[x] + g[x]
  <1> DEFINE R == S \ {x}
  <1>1. R \in SUBSET S /\ x \in S \ R /\ R \cup {x} = S /\ IsFiniteSet(R)
    BY FS_Subset
  <1>2. \A y \in R : f[y] = g[y] /\ f[y] \in Nat /\ g[y] \in Nat
    OBVIOUS
  <1> HIDE DEF R
  <1>3. \A y \in R : f[y] <= g[y] /\ g[y] <= f[y]
    BY <1>2
  <1>4. Total(f, R) <= Total(g, R) /\ Total(g, R) <= Total(f, R)
    BY <1>1, <1>2, <1>3, TotalPointwise
  <1>5. Total(f, S) = Total(f, R) + f[x] /\ Total(f, R) \in Nat
    BY <1>1, TotalAny
  <1>6. Total(g, S) = Total(g, R) + g[x] /\ Total(g, R) \in Nat
    BY <1>1, TotalAny
  <1>7. f[x] \in Nat /\ g[x] \in Nat
    OBVIOUS
  <1>8. QED
    BY <1>4, <1>5, <1>6, <1>7

\* A sum of zeros is zero.
LEMMA TotalZero ==
    ASSUME NEW S, IsFiniteSet(S), NEW f, \A x \in S : f[x] = 0
    PROVE  Total(f, S) = 0
  <1> DEFINE F == {U \in SUBSET S : Total(f, U) = 0}
  <1>1. {} \in F
    BY TotalEmpty
  <1>2. ASSUME NEW U \in SUBSET S, NEW x \in S \ U, U \in F
        PROVE  U \cup {x} \in F
    <2>1. Total(f, U \cup {x}) = Total(f, U) + f[x]
      BY TotalAny
    <2>2. QED
      BY <1>2, <2>1
  <1>3. S \in F
    <2> HIDE DEF F
    <2>1. QED
      BY <1>1, <1>2, SizeInduction
  <1>4. QED
    BY <1>3

-----------------------------------------------------------------------------
(* Calls.  What each handler has asked of the gateway.                     *)

\* The requests of _apply, and who holds which: an applying handler has asked for its
\* payment's owner, an editor for what its card offers.
GetOf(u)       == [kind |-> "get_client", user |-> u, arg |-> 0]
EnableOf(u)    == [kind |-> "set_enabled", user |-> u, arg |-> 1]
ExpiryOf(u, m) == [kind |-> "set_expiry_ms", user |-> u, arg |-> m]

AsksInv(a) ==
    /\ pc[a] = "get"    => request[a] = GetOf(Owner[job[a]])
    /\ pc[a] = "enable" => request[a] = EnableOf(Owner[job[a]])
    /\ pc[a] = "set"    => request[a] = ExpiryOf(Owner[job[a]], row[a])
    /\ pc[a] = "card"   => request[a].kind = "get_client"
    /\ pc[a] = "edit"   => request[a] \in EditorRequests

\* The base that what follows rests on.
FlowInv == IInv /\ RowsInv /\ \A a \in Tasks : AsksInv(a)

\* The types of the handlers' own state, and who they are.
LEMMA HandlerTypes ==
    ASSUME FlowInv
    PROVE  /\ pc \in [Tasks -> Applying \cup {"idle", "card", "edit"}]
           /\ job \in [Tasks -> Payments \cup {NoPayment}]
           /\ row \in [Tasks -> Nat] /\ seen \in [Tasks -> Client \cup {NoClient}]
           /\ request \in [Tasks -> Request \cup {NoRequest}]
           /\ object \in [Tasks -> Client \cup {NoClient}]
           /\ target \in [Payments -> Nat]
           /\ Users \subseteq Tasks /\ Reviewers \subseteq Tasks /\ Editors \subseteq Tasks
           /\ \A p \in Payments : Owner[p] \in Users
           /\ \A a \in Tasks :
                 /\ HandlerInv(a) /\ AsksInv(a)
                 /\ pc[a] \in Applying => job[a] \in Payments /\ Owner[job[a]] \in Users
  BY Halves, PaymentsAssumption DEF FlowInv, OwnTypeOK, PanelTypeOK, HandlerInv

\* A handler that goes on asks for what its place says.
LEMMA HandlesAsks ==
    ASSUME FlowInv, NEW t \in Tasks, Handles(t), NEW x \in Tasks
    PROVE  AsksInv(x)'
  <1>1. /\ pc \in [Tasks -> Applying \cup {"idle", "card", "edit"}]
        /\ job \in [Tasks -> Payments \cup {NoPayment}]
        /\ row \in [Tasks -> Nat]
        /\ request \in [Tasks -> Request \cup {NoRequest}]
        /\ AsksInv(x) /\ HandlerInv(t)
    BY HandlerTypes
  <1>2. CASE x # t
    <2>1. \A y \in Tasks : y # t => /\ pc'[y] = pc[y] /\ row'[y] = row[y] /\ job'[y] = job[y]
                                    /\ request'[y] = request[y]
      BY <1>1 DEF Handles, CardSent, LoadRow, StartsApply, Enable, EnabledPerpetual,
         AlreadyReached, SetTarget, TargetSet, MarkApplied, ApplyFails, Edited, Leaves, Goes,
         BeginGet, BeginWrite, EndCall, panelVars
    <2>2. /\ pc'[x] = pc[x] /\ row'[x] = row[x] /\ job'[x] = job[x]
          /\ request'[x] = request[x] /\ AsksInv(x)
      BY <1>1, <1>2, <2>1
    <2>3. QED
      BY <2>2 DEF AsksInv
  <1>3. SUFFICES ASSUME x = t
         PROVE  AsksInv(t)'
    BY <1>2
  <1>4. ASSUME NEW l \in {"idle", "load", "finish"}, Goes(t, l)
        PROVE  AsksInv(t)'
    <2>1. pc'[t] = l
      BY <1>1, <1>4 DEF Goes
    <2>2. QED
      BY <2>1 DEF AsksInv
  <1>5. CASE LoadRow(t)
    BY <1>1, <1>5 DEF LoadRow, StartsApply, Goes, BeginGet, AsksInv, GetOf, HandlerInv, Applying
  <1>6. CASE Enable(t)
    BY <1>1, <1>6 DEF Enable, Goes, BeginWrite, AsksInv, EnableOf
  <1>7. CASE SetTarget(t)
    <2>1. /\ pc'[t] = "set" /\ job' = job
          /\ row'[t] \in Nat
          /\ BeginWrite(t, [kind |-> "set_expiry_ms", user |-> Owner[job[t]], arg |-> row'[t]])
      BY <1>1, <1>7, TargetIsNat DEF FlowInv, SetTarget, Goes
    <2>2. QED
      BY <1>1, <2>1 DEF BeginWrite, AsksInv, ExpiryOf
  <1>8. CASE Edited(t)
    BY <1>1, <1>8 DEF Edited, Goes, BeginGet, AsksInv
  <1>9. CASE \/ CardSent(t) \/ EnabledPerpetual(t) \/ AlreadyReached(t) \/ TargetSet(t)
             \/ MarkApplied(t) \/ ApplyFails(t)
    <2>1. \E l \in {"idle", "load", "finish"} : Goes(t, l)
      BY <1>9 DEF CardSent, EnabledPerpetual, AlreadyReached, TargetSet, MarkApplied,
         ApplyFails, Leaves, Goes
    <2>2. QED
      BY <1>4, <2>1
  <1>10. QED
    BY <1>5, <1>6, <1>7, <1>8, <1>9 DEF Handles

\* So does every other step.
LEMMA NextAsks ==
    ASSUME FlowInv, [Next]_vars, NEW x \in Tasks
    PROVE  AsksInv(x)'
  <1>1. /\ pc \in [Tasks -> Applying \cup {"idle", "card", "edit"}]
        /\ job \in [Tasks -> Payments \cup {NoPayment}]
        /\ row \in [Tasks -> Nat]
        /\ request \in [Tasks -> Request \cup {NoRequest}]
        /\ AsksInv(x)
        /\ Users \subseteq Tasks /\ Reviewers \subseteq Tasks /\ Editors \subseteq Tasks
    BY HandlerTypes
  <1>2. ASSUME UNCHANGED <<pc, row, job, request>>
        PROVE  AsksInv(x)'
    BY <1>1, <1>2 DEF AsksInv
  <1>3. ASSUME NEW p \in Payments, NEW u \in Users,
               Select(u, p) \/ Submit(u, p) \/ AttachReceipt(u, p) \/ Cancel(u, p)
        PROVE  AsksInv(x)'
    <2>1. CASE Submit(u, p)
      <3>1. /\ pc' = [pc EXCEPT ![u] = "card"] /\ UNCHANGED <<job, row>>
            /\ request' = [request EXCEPT ![u] = [kind |-> "get_client", user |-> u, arg |-> 0]]
        BY <2>1 DEF Submit, BeginGet
      <3>2. QED
        BY <1>1, <3>1 DEF AsksInv
    <2>2. CASE Select(u, p) \/ AttachReceipt(u, p) \/ Cancel(u, p)
      BY <1>2, <2>2 DEF Select, AttachReceipt, Cancel, panelVars, taskVars
    <2>3. QED
      BY <1>3, <2>1, <2>2
  <1>4. ASSUME NEW p \in Payments, NEW a \in Reviewers,
                Approve(a, p) \/ Decline(a, p) \/ Retry(a, p)
        PROVE  AsksInv(x)'
    <2>1. CASE Decline(a, p)
      BY <1>2, <2>1 DEF Decline, panelVars, taskVars
    <2>2. CASE Approve(a, p)
      <3>1. /\ pc' = [pc EXCEPT ![a] = "load"] /\ job' = [job EXCEPT ![a] = p]
            /\ UNCHANGED <<row, request>>
        BY <2>2 DEF Approve, Goes, panelVars
      <3>2. QED
        BY <1>1, <3>1 DEF AsksInv
    <2>3. CASE Retry(a, p)
      <3>1. /\ pc' = [pc EXCEPT ![a] = "get"] /\ job' = [job EXCEPT ![a] = p]
            /\ row' = [row EXCEPT ![a] = target[p]]
            /\ request' = [request EXCEPT ![a] = GetOf(Owner[p])]
        BY <2>3 DEF Retry, StartsApply, Goes, BeginGet, GetOf
      <3>2. QED
        BY <1>1, <3>1 DEF AsksInv
    <2>4. QED
      BY <1>4, <2>1, <2>2, <2>3
  <1>5. ASSUME NEW e \in Editors, Edit(e)
        PROVE  AsksInv(x)'
    <2>1. PICK r \in EditorRequests : request' = [request EXCEPT ![e] = r]
      BY <1>5 DEF Edit, BeginWrite
    <2>2. pc' = [pc EXCEPT ![e] = "edit"] /\ UNCHANGED <<job, row>>
      BY <1>5 DEF Edit, Goes
    <2>3. QED
      BY <1>1, <2>1, <2>2 DEF AsksInv
  <1>6. CASE Crash
    BY <1>6 DEF Crash, AsksInv
  <1>7. CASE (\E p \in Payments : Expire(p)) \/ Restart \/ Tick \/ UNCHANGED vars
    BY <1>2, <1>7 DEF Expire, Restart, Tick, vars, panelVars, taskVars
  <1>8. CASE GatewayStep /\ UNCHANGED <<dbVars, taskVars, offered, edits, manual, up, crashes>>
    BY <1>2, <1>8, GatewayStepKeepsRequests DEF taskVars
  <1>9. QED
    BY <1>3, <1>4, <1>5, <1>6, <1>7, <1>8, HandlesAsks DEF Next

\* The base holds at first.
LEMMA InitFlow == ASSUME Init PROVE FlowInv
  <1>1. \A a \in Tasks : AsksInv(a)
    BY DEF Init, AsksInv
  <1>2. QED
    BY <1>1, InitIInv, InitRows DEF FlowInv

\* Every step keeps the base.
LEMMA NextFlow == ASSUME FlowInv, [Next]_vars PROVE FlowInv'
  BY NextIInv, NextRefines, NextAsks DEF FlowInv

\* Who has asked for what, seen from the call.
LEMMA WhoAsks ==
    ASSUME FlowInv, NEW t \in Tasks, request[t] # NoRequest
    PROVE  /\ request[t] \in Request /\ request[t].user \in Users
           /\ \/ request[t].kind = "get_client"
              \/ request[t] \in EditorRequests /\ pc[t] = "edit"
              \/ pc[t] = "enable" /\ request[t] = EnableOf(Owner[job[t]])
              \/ pc[t] = "set" /\ request[t] = ExpiryOf(Owner[job[t]], row[t])
  <1>1. stage[t] # "idle" /\ request[t] \in Request
    BY Halves DEF FlowInv, PanelTypeOK, CallTypeOK
  <1>2. pc[t] \in {"get", "enable", "set", "card", "edit"}
    BY <1>1, HandlerTypes DEF HandlerInv, Applying
  <1>3. QED
    BY <1>1, <1>2, HandlerTypes DEF AsksInv, GetOf, Request

\* What each step does to the gateway's state.
LEMMA PanelSteps ==
    ASSUME FlowInv, [Next]_vars
    PROVE  \/ UNCHANGED <<panel, cache, request, answer, object, late, stage, queue>>
           \/ GatewayStep /\ UNCHANGED <<dbVars, taskVars>>
           \/ Crash
           \/ \E t \in Tasks :
                 /\ stage[t] \in {"idle", "done", "failed"}
                 /\ \/ EndCall(t)
                    \/ \E u \in Users : BeginGet(t, u)
                    \/ \E r \in Request : r.kind \in Writes /\ BeginWrite(t, r)
  <1> DEFINE Own(t) == /\ stage[t] \in {"idle", "done", "failed"}
                       /\ \/ EndCall(t)
                          \/ \E u \in Users : BeginGet(t, u)
                          \/ \E r \in Request : r.kind \in Writes /\ BeginWrite(t, r)
  <1>1. /\ Users \subseteq Tasks /\ Reviewers \subseteq Tasks /\ Editors \subseteq Tasks
        /\ \A p \in Payments : Owner[p] \in Users
        /\ \A a \in Tasks :
              /\ pc[a] \in {"idle", "load"} => stage[a] = "idle"
              /\ pc[a] \in Applying => job[a] \in Payments /\ Owner[job[a]] \in Users
    BY HandlerTypes DEF HandlerInv
  <1>2. ASSUME NEW t \in Tasks, Handles(t)
        PROVE  Own(t) \/ UNCHANGED panelVars
    <2>1. CASE \/ CardSent(t) \/ EnabledPerpetual(t) \/ AlreadyReached(t) \/ TargetSet(t)
               \/ ApplyFails(t)
      BY <2>1 DEF CardSent, EnabledPerpetual, AlreadyReached, TargetSet, ApplyFails, Enabled
    <2>2. CASE LoadRow(t)
      BY <1>1, <2>2 DEF LoadRow, StartsApply, Applying
    <2>3. CASE Enable(t)
      <3>1. EnableOf(Owner[job[t]]) \in Request /\ BeginWrite(t, EnableOf(Owner[job[t]]))
        BY <1>1, <2>3 DEF Enable, EnableOf, Request, Writes, Mutations, Applying
      <3>2. stage[t] = "done" /\ EnableOf(Owner[job[t]]).kind \in Writes
        BY <2>3 DEF Enable, EnableOf, Writes, Mutations
      <3>3. QED
        BY <3>1, <3>2
    <2>4. CASE SetTarget(t)
      <3> DEFINE r == [kind |-> "set_expiry_ms", user |-> Owner[job[t]], arg |-> row'[t]]
      <3>1. row'[t] \in Nat /\ BeginWrite(t, r)
        BY <2>4, TargetIsNat DEF FlowInv
      <3>2. r \in Request /\ r.kind \in Writes /\ stage[t] = "done"
        BY <1>1, <2>4, <3>1 DEF SetTarget, Enabled, Request, Writes, Mutations, Applying
      <3>3. QED
        BY <3>1, <3>2
    <2>5. CASE MarkApplied(t)
      BY <2>5 DEF MarkApplied
    <2>6. CASE Edited(t)
      <3>1. pc[t] = "edit" /\ BeginGet(t, request[t].user) /\ stage[t] \in {"done", "failed"}
        BY <2>6 DEF Edited
      <3>2. request[t].user \in Users
        BY <3>1, Halves, CallHasRequest DEF FlowInv, Request
      <3>3. QED
        BY <3>1, <3>2
    <2>7. QED
      BY <1>2, <2>1, <2>2, <2>3, <2>4, <2>5, <2>6 DEF Handles
  <1>3. ASSUME NEW p \in Payments, NEW u \in Users,
               Select(u, p) \/ Submit(u, p) \/ AttachReceipt(u, p) \/ Cancel(u, p)
        PROVE  Own(u) \/ UNCHANGED panelVars
    BY <1>1, <1>3 DEF Select, Submit, AttachReceipt, Cancel, Idle
  <1>4. ASSUME NEW p \in Payments, NEW a \in Reviewers,
                Approve(a, p) \/ Decline(a, p) \/ Retry(a, p)
        PROVE  Own(a) \/ UNCHANGED panelVars
    BY <1>1, <1>4 DEF Approve, Decline, Retry, StartsApply, Idle
  <1>5. ASSUME NEW e \in Editors, Edit(e)
        PROVE  Own(e)
    <2>1. PICK r \in EditorRequests : BeginWrite(e, r)
      BY <1>5 DEF Edit
    <2>2. r \in Request /\ r.kind \in Writes /\ stage[e] = "idle"
      BY <1>1, <1>5, PaymentsAssumption DEF Edit, Idle
    <2>3. QED
      BY <2>1, <2>2
  <1>6. ASSUME NEW p \in Payments, Expire(p)
        PROVE  UNCHANGED panelVars
    BY <1>6 DEF Expire
  <1> DEFINE Still == UNCHANGED <<panel, cache, request, answer, object, late, stage, queue>>
             Gate  == GatewayStep /\ UNCHANGED <<dbVars, taskVars>>
  <1>7. UNCHANGED panelVars => Still
    BY DEF panelVars
  <1>8. Restart \/ Tick \/ UNCHANGED vars => Still
    BY DEF Restart, Tick, vars, panelVars
  <1>9. GatewayStep /\ UNCHANGED <<dbVars, taskVars, offered, edits, manual, up, crashes>> => Gate
    OBVIOUS
  <1> HIDE DEF Own, Still, Gate
  <1>10. Next => Still \/ Gate \/ Crash \/ \E t \in Tasks : Own(t)
    BY <1>1, <1>2, <1>3, <1>4, <1>5, <1>6, <1>7, <1>8, <1>9 DEF Next
  <1>11. Still \/ Gate \/ Crash \/ \E t \in Tasks : Own(t)
    BY <1>8, <1>10
  <1>12. QED
    BY <1>11 DEF Own, Still, Gate

-----------------------------------------------------------------------------
(* Copies.  What a handler at work on a payment knows of its row.          *)

\* A handler that a step does not move; its call may go on all the same.
Kept(x) ==
    /\ pc'[x] = pc[x] /\ row'[x] = row[x] /\ job'[x] = job[x] /\ seen'[x] = seen[x]
    /\ request'[x] = request[x]
    /\ \/ GatewayStep
       \/ stage'[x] = stage[x] /\ object'[x] = object[x] /\ answer'[x] = answer[x]

\* A press that a handler begins with.
Starts(x) ==
    \/ \E p \in Payments : x \in Users /\ Submit(x, p)
    \/ \E p \in Payments : x \in Reviewers /\ (Approve(x, p) \/ Retry(x, p))
    \/ x \in Editors /\ Edit(x)

\* A step that is not a crash moves at most one handler.
LEMMA HandlerFrame ==
    ASSUME FlowInv, [Next]_vars, ~Crash, NEW x \in Tasks
    PROVE  Kept(x) \/ Handles(x) \/ Starts(x)
  <1>1. /\ pc \in [Tasks -> Applying \cup {"idle", "card", "edit"}]
        /\ job \in [Tasks -> Payments \cup {NoPayment}]
        /\ row \in [Tasks -> Nat] /\ seen \in [Tasks -> Client \cup {NoClient}]
        /\ request \in [Tasks -> Request \cup {NoRequest}]
        /\ object \in [Tasks -> Client \cup {NoClient}]
        /\ Users \subseteq Tasks /\ Reviewers \subseteq Tasks /\ Editors \subseteq Tasks
    BY HandlerTypes
  <1>2. stage \in [Tasks -> Stages]
    BY Halves DEF FlowInv, PanelTypeOK
  <1>3. ASSUME UNCHANGED <<pc, row, job, seen, request, stage, object, answer>>
        PROVE  Kept(x)
    BY <1>3 DEF Kept
  <1>4. ASSUME NEW t \in Tasks, Handles(t), x # t
        PROVE  Kept(x)
    <2>1. /\ \A y \in Tasks : y # t => /\ pc'[y] = pc[y] /\ row'[y] = row[y] /\ job'[y] = job[y]
                                       /\ seen'[y] = seen[y]
      BY <1>1, <1>4 DEF Handles, CardSent, LoadRow, StartsApply, Enable, EnabledPerpetual,
         AlreadyReached, SetTarget, TargetSet, MarkApplied, ApplyFails, Edited, Leaves, Goes
    <2>2. /\ answer' = answer
          /\ \A y \in Tasks : y # t => /\ request'[y] = request[y] /\ stage'[y] = stage[y]
                                       /\ object'[y] = object[y]
      BY <1>1, <1>2, <1>4 DEF Handles, CardSent, LoadRow, StartsApply, Enable, EnabledPerpetual,
         AlreadyReached, SetTarget, TargetSet, MarkApplied, ApplyFails, Edited,
         BeginGet, BeginWrite, EndCall, panelVars
    <2>3. QED
      BY <1>4, <2>1, <2>2 DEF Kept
  <1>5. ASSUME NEW p \in Payments, NEW u \in Users,
               Select(u, p) \/ Submit(u, p) \/ AttachReceipt(u, p) \/ Cancel(u, p)
        PROVE  Kept(x) \/ Starts(x)
    <2>1. CASE Submit(u, p)
      <3>1. CASE x = u
        BY <2>1, <3>1 DEF Starts
      <3>2. CASE x # u
        BY <1>1, <1>2, <2>1, <3>2 DEF Submit, BeginGet, Kept
      <3>3. QED
        BY <3>1, <3>2
    <2>2. CASE Select(u, p) \/ AttachReceipt(u, p) \/ Cancel(u, p)
      BY <1>3, <2>2 DEF Select, AttachReceipt, Cancel, panelVars, taskVars
    <2>3. QED
      BY <1>5, <2>1, <2>2
  <1>6. ASSUME NEW p \in Payments, NEW a \in Reviewers,
                Approve(a, p) \/ Decline(a, p) \/ Retry(a, p)
        PROVE  Kept(x) \/ Starts(x)
    <2>1. CASE Decline(a, p)
      BY <1>3, <2>1 DEF Decline, panelVars, taskVars
    <2>2. CASE x = a /\ ~Decline(a, p)
      BY <1>6, <2>2 DEF Starts
    <2>3. CASE x # a /\ Approve(a, p)
      BY <1>1, <1>2, <2>3 DEF Approve, Goes, panelVars, Kept
    <2>4. CASE x # a /\ Retry(a, p)
      BY <1>1, <1>2, <2>4 DEF Retry, StartsApply, Goes, BeginGet, Kept
    <2>5. QED
      BY <1>6, <2>1, <2>2, <2>3, <2>4
  <1>7. ASSUME NEW e \in Editors, Edit(e)
        PROVE  Kept(x) \/ Starts(x)
    <2>1. CASE x = e
      BY <1>7, <2>1 DEF Starts
    <2>2. CASE x # e
      BY <1>1, <1>2, <1>7, <2>2 DEF Edit, Goes, BeginWrite, Kept
    <2>3. QED
      BY <2>1, <2>2
  <1>8. CASE (\E p \in Payments : Expire(p)) \/ Restart \/ Tick \/ UNCHANGED vars
    BY <1>3, <1>8 DEF Expire, Restart, Tick, vars, panelVars, taskVars
  <1>9. CASE GatewayStep /\ UNCHANGED <<dbVars, taskVars, offered, edits, manual, up, crashes>>
    BY <1>9, GatewayStepKeepsRequests DEF taskVars, Kept
  <1>10. QED
    BY <1>4, <1>5, <1>6, <1>7, <1>8, <1>9 DEF Next

\* Who changes a recorded target, and to what.
LEMMA TargetSteps ==
    ASSUME FlowInv, [Next]_vars, target' # target
    PROVE  \E t \in Tasks :
              /\ pc[t] = "enable" /\ stage[t] = "done" /\ job[t] \in Payments
              /\ seen[t] \in Client /\ Handles(t)
              /\ \/ EnabledPerpetual(t) /\ target' = [target EXCEPT ![job[t]] = 0]
                 \/ /\ SetTarget(t) /\ row[t] = 0
                    /\ target' = [target EXCEPT ![job[t]] = row'[t]]
  <1>1. ASSUME NEW t \in Tasks, Handles(t)
        PROVE  \/ target' = target
               \/ EnabledPerpetual(t)
               \/ SetTarget(t) /\ row[t] = 0
    BY <1>1 DEF Handles, CardSent, LoadRow, StartsApply, Enable, AlreadyReached, SetTarget,
       TargetSet, MarkApplied, ApplyFails, Edited, dbVars
  <1>2. PICK t \in Tasks : Handles(t) /\ (EnabledPerpetual(t) \/ (SetTarget(t) /\ row[t] = 0))
    BY <1>1 DEF Next, Select, Submit, AttachReceipt, Cancel, Approve, Decline, Retry,
       StartsApply, Expire, Edit, Claim, Crash, Restart, Tick, vars, dbVars
  <1>3. pc[t] = "enable" /\ stage[t] = "done"
    BY <1>2 DEF EnabledPerpetual, SetTarget, Enabled
  <1>4. job[t] \in Payments /\ seen[t] \in Client
    BY <1>3, HandlerTypes DEF HandlerInv, Applying
  <1>5. CASE EnabledPerpetual(t)
    BY <1>2, <1>3, <1>4, <1>5 DEF EnabledPerpetual, RecordTarget
  <1>6. CASE SetTarget(t) /\ row[t] = 0
    <2>1. target' = [target EXCEPT ![job[t]] = row'[t]]
      BY <1>6, TargetIsNat DEF FlowInv, SetTarget, RecordTarget
    <2>2. QED
      BY <1>2, <1>3, <1>4, <1>6, <2>1
  <1>7. QED
    BY <1>2, <1>5, <1>6

\* Only MarkApplied marks a payment applied.
LEMMA AppliedSteps ==
    ASSUME FlowInv, [Next]_vars, applied' # applied
    PROVE  \E t \in Tasks :
              /\ MarkApplied(t) /\ pc[t] = "finish" /\ job[t] \in Payments
              /\ applied' = [applied EXCEPT ![job[t]] = TRUE]
  <1>1. ASSUME NEW t \in Tasks, Handles(t)
        PROVE  applied' = applied \/ MarkApplied(t)
    BY <1>1 DEF Handles, CardSent, LoadRow, StartsApply, Enable, EnabledPerpetual,
       AlreadyReached, SetTarget, TargetSet, ApplyFails, Edited, dbVars
  <1>2. PICK t \in Tasks : MarkApplied(t)
    BY <1>1 DEF Next, Select, Submit, AttachReceipt, Cancel, Approve, Decline, Retry,
       StartsApply, Expire, Edit, Claim, Crash, Restart, Tick, vars, dbVars
  <1>3. pc[t] = "finish"
    BY <1>2 DEF MarkApplied
  <1>4. job[t] \in Payments
    BY <1>3, HandlerTypes DEF Applying
  <1>5. QED
    BY <1>2, <1>3, <1>4 DEF MarkApplied

\* No two handlers apply the same payment at a time.
ApplyApart ==
    \A a, b \in Tasks :
        pc[a] \in Applying /\ pc[b] \in Applying /\ job[a] = job[b] => a = b

\* The handler's copy of the row has the recorded target, and the payment has not been
\* marked applied meanwhile.
CopyInv(a) ==
    /\ pc[a] \in {"get", "enable", "set"} => row[a] = target[job[a]]
    /\ pc[a] = "set"    => row[a] # 0
    /\ pc[a] \in Applying => ~applied[job[a]]

\* A new target lies after now, so it is not 0.
LEMMA TargetNotZero == ASSUME FlowInv, NEW a \in Tasks, SetTarget(a) PROVE row'[a] # 0
  <1> DEFINE new == CalculateExpiry(seen[a].expiry, Days[job[a]], now, seen[a].enable)
             ms  == IF row[a] = 0 THEN new ELSE row[a]
  <1>1. /\ pc[a] = "enable" /\ ~Perpetual(a) /\ row' = [row EXCEPT ![a] = ms]
    BY DEF SetTarget, Enabled
  <1>2. /\ seen[a].expiry \in Int /\ Days[job[a]] \in Nat \ {0} /\ now \in Nat /\ now > 0
        /\ row \in [Tasks -> Nat]
    <2>1. seen[a] \in Client /\ job[a] \in Payments
      BY <1>1, HandlerTypes DEF HandlerInv, Applying
    <2>2. QED
      BY <2>1, HandlerTypes, Halves, PaymentsAssumption DEF FlowInv, PanelTypeOK, Client
  <1>3. new # 0
    BY <1>1, <1>2 DEF CalculateExpiry, Perpetual
  <1> HIDE DEF new
  <1>4. QED
    BY <1>1, <1>2, <1>3

\* A payment that is started was not applied yet, and is started with its target.
LEMMA StartsCopy ==
    ASSUME FlowInv, RowInv, NEW x \in Tasks, Starts(x)
    PROVE  CopyInv(x)'
  <1>1. /\ pc \in [Tasks -> Applying \cup {"idle", "card", "edit"}]
        /\ job \in [Tasks -> Payments \cup {NoPayment}]
        /\ row \in [Tasks -> Nat]
    BY HandlerTypes
  <1>2. ASSUME pc'[x] \in {"card", "edit"}
        PROVE  CopyInv(x)'
    BY <1>2 DEF CopyInv, Applying
  <1>3. ASSUME NEW p \in Payments, Submit(x, p)
        PROVE  CopyInv(x)'
    BY <1>1, <1>2, <1>3 DEF Submit
  <1>4. CASE Edit(x)
    BY <1>1, <1>2, <1>4 DEF Edit, Goes
  <1>5. ASSUME NEW p \in Payments, Approve(x, p)
        PROVE  CopyInv(x)'
    <2>1. pc'[x] = "load" /\ job'[x] = p /\ applied' = applied /\ status[p] \in Pending
      BY <1>1, <1>5 DEF Approve, Claim, Goes
    <2>2. ~applied[p]
      BY <2>1 DEF RowInv, Lifecycle!AppliedIsApproved, Pending
    <2>3. QED
      BY <2>1, <2>2 DEF CopyInv
  <1>6. ASSUME NEW p \in Payments, Retry(x, p)
        PROVE  CopyInv(x)'
    BY <1>1, <1>6 DEF Retry, StartsApply, Goes, dbVars, CopyInv
  <1>7. QED
    BY <1>3, <1>4, <1>5, <1>6 DEF Starts

\* What a handler knows of its row stays true while it is the only one at work on it.
LEMMA NextCopy ==
    ASSUME FlowInv, RowInv, ApplyApart, \A a \in Tasks : CopyInv(a), [Next]_vars
    PROVE  \A a \in Tasks : CopyInv(a)'
  <1> SUFFICES ASSUME NEW x \in Tasks
               PROVE  CopyInv(x)'
    OBVIOUS
  <1>1. /\ pc \in [Tasks -> Applying \cup {"idle", "card", "edit"}]
        /\ job \in [Tasks -> Payments \cup {NoPayment}]
        /\ row \in [Tasks -> Nat]
        /\ target \in [Payments -> Nat]
        /\ applied \in [Payments -> BOOLEAN]
        /\ pc[x] \in Applying => job[x] \in Payments
        /\ CopyInv(x)
    BY HandlerTypes, Halves DEF FlowInv, OwnTypeOK
  <1>2. CASE Crash
    BY <1>2 DEF Crash, CopyInv, Applying
  <1>3. CASE Kept(x)
    <2>1. ASSUME pc[x] \in Applying
          PROVE  applied'[job[x]] = applied[job[x]]
      <3>1. CASE applied' # applied
        <4>1. PICK t \in Tasks : /\ MarkApplied(t) /\ pc[t] = "finish" /\ job[t] \in Payments
                                 /\ applied' = [applied EXCEPT ![job[t]] = TRUE]
          BY <3>1, AppliedSteps
        <4>2. pc'[t] # pc[t]
          BY <1>1, <4>1 DEF MarkApplied, Leaves, Goes
        <4>3. x # t
          BY <1>3, <4>2 DEF Kept
        <4>4. job[x] # job[t]
          BY <2>1, <4>1, <4>3 DEF ApplyApart, Applying
        <4>5. QED
          BY <1>1, <2>1, <4>1, <4>4
      <3>2. QED
        BY <3>1
    <2>2. ASSUME pc[x] \in Applying
          PROVE  target'[job[x]] = target[job[x]]
      <3>1. CASE target' # target
        <4>1. PICK t \in Tasks : /\ pc[t] = "enable" /\ job[t] \in Payments
                                 /\ EnabledPerpetual(t) \/ SetTarget(t)
                                 /\ \E m : target' = [target EXCEPT ![job[t]] = m]
          BY <3>1, TargetSteps
        <4>2. pc'[t] # pc[t]
          BY <1>1, <4>1 DEF EnabledPerpetual, SetTarget, Goes
        <4>3. x # t
          BY <1>3, <4>2 DEF Kept
        <4>4. job[x] # job[t]
          BY <2>2, <4>1, <4>3 DEF ApplyApart, Applying
        <4>5. QED
          BY <1>1, <2>2, <4>1, <4>4
      <3>2. QED
        BY <3>1
    <2>3. QED
      BY <1>1, <1>3, <2>1, <2>2 DEF Kept, CopyInv, Applying
  <1>4. CASE Handles(x)
    <2>1. CASE LoadRow(x)
      BY <1>1, <2>1 DEF LoadRow, StartsApply, Goes, dbVars, CopyInv, Applying
    <2>2. CASE Enable(x)
      BY <1>1, <2>2 DEF Enable, Goes, dbVars, CopyInv, Applying
    <2>3. CASE SetTarget(x)
      <3>1. /\ pc[x] = "enable" /\ pc'[x] = "set" /\ job' = job /\ applied' = applied
        BY <1>1, <2>3 DEF SetTarget, Enabled, Goes
      <3>2. row'[x] = target'[job[x]] /\ row'[x] # 0
        <4>1. row'[x] # 0
          BY <2>3, TargetNotZero
        <4>2. CASE row[x] = 0
          BY <1>1, <2>3, <3>1, <4>1, <4>2 DEF SetTarget, RecordTarget, Applying
        <4>3. CASE row[x] # 0
          BY <1>1, <2>3, <3>1, <4>1, <4>3 DEF SetTarget, CopyInv, Applying
        <4>4. QED
          BY <4>1, <4>2, <4>3
      <3>3. QED
        BY <1>1, <3>1, <3>2 DEF CopyInv, Applying
    <2>4. CASE EnabledPerpetual(x) \/ AlreadyReached(x) \/ TargetSet(x)
      <3>1. pc[x] \in Applying /\ pc'[x] = "finish" /\ job' = job /\ applied' = applied
        BY <1>1, <2>4 DEF EnabledPerpetual, AlreadyReached, TargetSet, Enabled, Goes, dbVars,
           Applying
      <3>2. QED
        BY <1>1, <3>1 DEF CopyInv
    <2>5. CASE CardSent(x) \/ MarkApplied(x) \/ ApplyFails(x) \/ Edited(x)
      <3>1. pc'[x] \in {"idle", "card"}
        BY <1>1, <2>5 DEF CardSent, MarkApplied, ApplyFails, Edited, Leaves, Goes
      <3>2. QED
        BY <3>1 DEF CopyInv, Applying
    <2>6. QED
      BY <1>4, <2>1, <2>2, <2>3, <2>4, <2>5 DEF Handles
  <1>5. QED
    BY <1>2, <1>3, <1>4, HandlerFrame, StartsCopy

\* While no two handlers apply the same payment at a time, the copy of a row that a
\* handler holds over its panel calls has the row's recorded target, none that it has
\* read or set being lost, and the payment it is about to apply was not applied
\* meanwhile: whatever requests fail, expire or crash (payments.py:297, 382-453).
THEOREM CopiesAreCurrent == Spec /\ []ApplyApart => [](\A a \in Tasks : CopyInv(a))
  <1> DEFINE Ours == FlowInv /\ RowInv /\ \A a \in Tasks : CopyInv(a)
  <1>1. Init => Ours
    BY InitFlow, InitRows, InitRow DEF Init, CopyInv, Applying
  <1>2. Ours /\ ApplyApart /\ [Next]_vars => Ours'
    BY NextFlow, NextCopy, NextRefines, NextRow DEF FlowInv
  <1>3. Ours => \A a \in Tasks : CopyInv(a)
    OBVIOUS
  <1> HIDE DEF Ours
  <1>4. QED
    BY <1>1, <1>2, <1>3, PTL DEF Spec

-----------------------------------------------------------------------------
(* Current reads.  When no abandoned write lands later, the payment flow's *)
(* calls read what the panel holds, lose no update and report no success   *)
(* that is not one, whoever else calls meanwhile.                          *)

\* The base, and what PanelGateway_proofs keeps of the gateway's own state.
Current == FlowInv /\ Quiet /\ ReadIsCurrent /\ NoLostUpdate

\* A step that leaves the gateway as it is, but for the clock.
LEMMA StillCurrent ==
    ASSUME FlowInv, Quiet, ReadIsCurrent, NoLostUpdate,
           UNCHANGED <<panel, request, answer, object, late, stage>>,
           now' = now \/ now' = now + 1
    PROVE  Quiet' /\ ReadIsCurrent' /\ NoLostUpdate'
  <1>1. now \in Nat
    BY Halves DEF FlowInv, PanelTypeOK
  <1>2. now' > 0
    BY <1>1 DEF Quiet
  <1>3. \A clock \in 0..now : clock \in 0..now'
    BY <1>1
  <1>4. QED
    BY <1>2, <1>3 DEF Quiet, ReadIsCurrent, NoLostUpdate

\* The clock goes on by a day at a time.
LEMMA NowSteps == ASSUME [Next]_vars PROVE now' = now \/ now' = now + 1
  <1>1. GatewayStep => now' = now
    BY DEF GatewayStep, PanelAnswers, PanelCommits, Resumes, FetchResumes,
       Acquire, ClientMissing, NothingToWrite, MutationApplies, ClientRouteCalled,
       EnsureAdds, EnsureUpdates, WriteResumes, VerifyResumes, RequestFails,
       LateWriteLands, CacheExpires, Goto
  <1>2. ASSUME NEW t \in Tasks, Handles(t)
        PROVE  now' = now
    BY <1>2 DEF Handles, CardSent, LoadRow, StartsApply, Enable, EnabledPerpetual,
       AlreadyReached, SetTarget, TargetSet, MarkApplied, ApplyFails, Edited,
       BeginGet, BeginWrite, EndCall, panelVars
  <1>3. QED
    BY <1>1, <1>2 DEF Next, Select, Submit, AttachReceipt, Cancel, Approve, Decline, Retry,
       StartsApply, Expire, Edit, BeginGet, BeginWrite, Crash, Reset, Restart, Tick, vars,
       panelVars

\* A call that is started or left has no read and no write under way.
LEMMA OwnCallCurrent ==
    ASSUME FlowInv, Quiet, ReadIsCurrent, NoLostUpdate, NEW t \in Tasks,
           stage[t] \in {"idle", "done", "failed"},
           \/ EndCall(t)
           \/ \E u \in Users : BeginGet(t, u)
           \/ \E r \in Request : r.kind \in Writes /\ BeginWrite(t, r)
    PROVE  Quiet' /\ ReadIsCurrent' /\ NoLostUpdate'
  <1>1. PanelTypeOK
    BY Halves DEF FlowInv
  <1>2. PICK s \in {"fetch", "done", "wait", "idle"} : \E r, c :
           /\ stage' = [stage EXCEPT ![t] = s] /\ request' = [request EXCEPT ![t] = r]
           /\ object' = [object EXCEPT ![t] = c]
           /\ UNCHANGED <<panel, answer, late, now>>
    BY DEF BeginGet, BeginWrite, EndCall
  <1>3. QED
    BY <1>1, <1>2 DEF Quiet, ReadIsCurrent, NoLostUpdate, PanelTypeOK

\* Every step keeps what was read current.
LEMMA NextCurrent ==
    ASSUME ~LateWrites, Current, [Next]_vars
    PROVE  Current'
  <1>1. /\ FlowInv /\ Quiet /\ ReadIsCurrent /\ NoLostUpdate /\ PanelTypeOK /\ LockInv
        /\ now \in Nat
    BY Halves DEF Current, FlowInv, PanelTypeOK
  <1>2. FlowInv'
    BY <1>1, NextFlow
  <1>3. CASE UNCHANGED <<panel, cache, request, answer, object, late, stage, queue>>
    BY <1>1, <1>2, <1>3, StillCurrent, NowSteps DEF Current
  <1>4. CASE GatewayStep
    BY <1>1, <1>2, <1>4, GatewayStepCurrent DEF Current
  <1>5. CASE Crash
    <2>1. /\ late' = {} /\ now' = now /\ \A t \in Tasks : stage'[t] = "idle"
      BY <1>1, <1>5 DEF Crash, Reset, Quiet
    <2>2. Quiet' /\ ReadIsCurrent' /\ NoLostUpdate'
      BY <1>1, <2>1 DEF Quiet, ReadIsCurrent, NoLostUpdate
    <2>3. QED
      BY <1>2, <2>2 DEF Current
  <1>6. ASSUME NEW t \in Tasks, stage[t] \in {"idle", "done", "failed"},
               \/ EndCall(t)
               \/ \E u \in Users : BeginGet(t, u)
               \/ \E r \in Request : r.kind \in Writes /\ BeginWrite(t, r)
        PROVE  Current'
    BY <1>1, <1>2, <1>6, OwnCallCurrent DEF Current
  <1>7. QED
    BY <1>1, <1>3, <1>4, <1>5, <1>6, PanelSteps

\* Nothing was read yet.
LEMMA InitCurrent == ASSUME Init PROVE Current
  <1>1. PanelInit(InitialPanel, 1)
    BY DEF Init
  <1>2. Quiet /\ ReadIsCurrent /\ NoLostUpdate
    BY <1>1 DEF PanelInit, Quiet, ReadIsCurrent, NoLostUpdate
  <1>3. QED
    BY <1>2, InitFlow DEF Current

\* Approvals, retries and editors share one lock, so whatever they and the panel do and
\* whenever the process dies, an object that is sent is the panel's present client with
\* one change: no approval undoes another's (panel.py:264).
THEOREM PaymentsLoseNoUpdate == ASSUME ~LateWrites PROVE Spec => []NoLostUpdate
  <1>1. Current => NoLostUpdate
    BY DEF Current
  <1>2. QED
    BY InitCurrent, NextCurrent, <1>1, PTL DEF Spec

\* A call that is left, started or lost in a crash reports no success.
LEMMA NextTruthful ==
    ASSUME Current, [Next]_vars, NEW t \in Tasks, stage[t] \in Locked, stage'[t] = "done"
    PROVE  Holds(request[t], object[t], panel[request[t].user])
  <1>1. FlowInv /\ PanelTypeOK /\ LockInv /\ Quiet /\ ReadIsCurrent
    BY Halves DEF Current, FlowInv
  <1>2. CASE GatewayStep
    BY <1>1, <1>2, GatewayStepTruthful
  <1>3. ASSUME NEW x \in Tasks, stage[x] \in {"idle", "done", "failed"},
               \/ EndCall(x)
               \/ \E u \in Users : BeginGet(x, u)
               \/ \E r \in Request : r.kind \in Writes /\ BeginWrite(x, r)
        PROVE  FALSE
    <2>1. stage'[t] = stage[t]
      BY <1>1, <1>3 DEF PanelTypeOK, BeginGet, BeginWrite, EndCall
    <2>2. QED
      BY <2>1
  <1>4. CASE Crash
    BY <1>4 DEF Crash, Reset
  <1>5. CASE UNCHANGED <<panel, cache, request, answer, object, late, stage, queue>>
    BY <1>5
  <1>6. QED
    BY <1>1, <1>2, <1>3, <1>4, <1>5, PanelSteps

\* Nor does the payment flow ever take a write for done that is not: "no silent success"
\* (panel.py:270).
THEOREM PaymentsSucceedTruly == ASSUME ~LateWrites PROVE Spec => NoSilentSuccess
  <1> DEFINE A == \A t \in Tasks :
                     stage[t] \in Locked /\ stage'[t] = "done"
                     => Holds(request[t], object[t], panel[request[t].user])
  <1>1. Current /\ [Next]_vars => [A]_panelVars
    BY NextTruthful
  <1>2. QED
    BY InitCurrent, NextCurrent, <1>1, PTL DEF Spec, NoSilentSuccess

-----------------------------------------------------------------------------
(* Expiries.  What holds of every expiry on the panel holds of every expiry *)
(* that was read from it, cached, sent to it or recorded as a target: D     *)
(* gives the expiries that are possible for the client of each user.  Along *)
(* with them goes what editors leave alone: the client of a Lasting user is *)
(* never gone, and that of an Endless one stays enabled as well.            *)

\* Nobody deletes the client that u has at first, and if it is perpetual nobody ends
\* that by hand.
Lasting == {u \in Users : /\ InitialPanel[u] # NoClient
                          /\ \A r \in EditorRequests : r.user = u => r.kind # "delete_client"}
Endless == {u \in Lasting : /\ IsUnlimited(InitialPanel[u].expiry, InitialPanel[u].enable)
                            /\ \A r \in EditorRequests : r.user = u =>
                                  /\ r.kind = "set_enabled" => r.arg = 1
                                  /\ r.kind = "set_expiry_ms" => r.arg = 0}

\* A client, a list, a call and an abandoned write with nothing but such expiries.
ClientIn(c, u, D) ==
    c # NoClient => c.expiry \in D[u] /\ (u \in Endless => c.enable)
ListIn(s, D) == \A u \in Users : ClientIn(s[u], u, D) /\ (u \in Lasting => s[u] # NoClient)
CallIn(r, o, a, D) ==
    /\ a \in Snapshot => ListIn(a, D)
    /\ r # NoRequest => /\ ClientIn(o, r.user, D)
                        /\ r.kind = "set_expiry_ms" => r.arg \in D[r.user]
CallsIn(t, D) == CallIn(request[t], object[t], answer[t], D)
EffectIn(e, D) == /\ ClientIn(e.client, e.user, D)
                  /\ e.kind = "delete" => e.user \notin Lasting

\* Everything the gateway and the panel hold.
PanelIn(D) ==
    /\ ListIn(panel, D)
    /\ cache # NoCache => ListIn(cache, D)
    /\ \A e \in late : EffectIn(e, D)
    /\ \A t \in Tasks : CallsIn(t, D)

\* A handler's copy of the row has the recorded target, and its copy of the client
\* an expiry it had.
HandlerIn(a, D) ==
    /\ pc[a] = "get" => /\ request[a] # NoRequest /\ request[a].user = Owner[job[a]]
                        /\ row[a] = target[job[a]]
    /\ pc[a] = "enable" => /\ row[a] = target[job[a]]
                           /\ ClientIn(seen[a], Owner[job[a]], D)

\* A recorded target is that of an approved payment, and possible for its owner.
TargetIn(p, D) ==
    target[p] # 0 => status[p] = "approved" /\ target[p] \in D[Owner[p]]

\* All of it together.
ExpiriesIn(D) ==
    /\ PanelIn(D)
    /\ \A p \in Payments : TargetIn(p, D)
    /\ \A a \in Tasks : HandlerIn(a, D)

\* What a grant and a new target add is possible as well.
Admits(E) ==
    /\ \A u \in Users \ Lasting : now \in E[u]
    /\ \A t \in Tasks :
          /\ MutationApplies(t) /\ request[t].kind = "grant_days"
             => Applied(request[t], Found(t), now).expiry \in E[request[t].user]
          /\ SetTarget(t) => row'[t] \in E[Owner[job[t]]]

\* No other client can become perpetual or a placeholder, and no perpetual one dated.
ZeroIsEndless(D) ==
    \A u \in Users : IF u \in Endless THEN D[u] \subseteq {0} ELSE 0 \notin D[u]

\* More expiries become possible.
LEMMA MoreExpiries ==
    ASSUME FlowInv, NEW D, NEW E, \A u \in Users : D[u] \subseteq E[u], ExpiriesIn(D)
    PROVE  ExpiriesIn(E)
  <1>1. /\ PanelTypeOK /\ panel \in Snapshot /\ late \subseteq Effect
        /\ cache \in Snapshot \cup {NoCache}
        /\ \A t \in Tasks : HandlerInv(t)
    BY Halves DEF FlowInv, PanelTypeOK
  <1>2. \A s : ListIn(s, D) => ListIn(s, E)
    BY DEF ListIn, ClientIn
  <1>3. \A e \in late : EffectIn(e, D) => EffectIn(e, E)
    BY <1>1 DEF Effect, EffectIn, ClientIn
  <1>4. ASSUME NEW t \in Tasks
        PROVE  CallsIn(t, E)
    <2>1. CallsIn(t, D)
      BY DEF ExpiriesIn, PanelIn
    <2>2. request[t] # NoRequest => request[t].user \in Users
      BY <1>1 DEF PanelTypeOK, Request
    <2>3. QED
      BY <1>2, <2>1, <2>2 DEF CallsIn, CallIn, ClientIn
  <1>5. PanelIn(E)
    BY <1>2, <1>3, <1>4 DEF ExpiriesIn, PanelIn
  <1>6. ASSUME NEW p \in Payments
        PROVE  TargetIn(p, E)
    <2>1. Owner[p] \in Users
      BY PaymentsAssumption
    <2>2. QED
      BY <2>1 DEF ExpiriesIn, TargetIn
  <1>7. ASSUME NEW a \in Tasks
        PROVE  HandlerIn(a, E)
    <2>1. pc[a] = "enable" => Owner[job[a]] \in Users
      BY <1>1, PaymentsAssumption DEF HandlerInv, Applying
    <2>2. HandlerIn(a, D)
      BY DEF ExpiriesIn
    <2>3. QED
      BY <2>1, <2>2 DEF HandlerIn, ClientIn
  <1>8. QED
    BY <1>5, <1>6, <1>7 DEF ExpiriesIn

\* One call goes on, with an expiry that is possible.
LEMMA OneCallIn ==
    ASSUME NEW D, PanelIn(D), NEW t \in Tasks, CallsIn(t, D)',
           ListIn(panel, D)', cache' # NoCache => cache' = cache \/ ListIn(cache, D)',
           \A e \in late' : e \in late \/ EffectIn(e, D),
           \A x \in Tasks : x # t => /\ request'[x] = request[x] /\ object'[x] = object[x]
                                     /\ answer'[x] = answer[x]
    PROVE  PanelIn(D)'
  <1>1. ASSUME NEW x \in Tasks
        PROVE  CallsIn(x, D)'
    <2>1. CASE x = t
      BY <2>1
    <2>2. CASE x # t
      BY <2>2 DEF PanelIn, CallsIn
    <2>3. QED
      BY <2>1, <2>2
  <1>2. cache' # NoCache => ListIn(cache, D)'
    BY DEF PanelIn, ListIn
  <1>3. \A e \in late' : EffectIn(e, D)
    BY DEF PanelIn
  <1>4. QED
    BY <1>1, <1>2, <1>3 DEF PanelIn

\* A write that lands leaves possible expiries.
LEMMA AfterIn ==
    ASSUME PanelTypeOK, NEW D, ListIn(panel, D), NEW e \in Effect, EffectIn(e, D)
    PROVE  ListIn(After(e), D)
  <1>1. /\ DOMAIN panel = Users /\ e.user \in Users /\ e.client \in Client
        /\ e.kind \in {"add", "update", "delete", "reset"}
    BY DEF PanelTypeOK, Effect, Snapshot
  <1>2. /\ [e.client EXCEPT !.enable = TRUE].expiry = e.client.expiry
        /\ [e.client EXCEPT !.enable = TRUE].enable
        /\ [e.client EXCEPT !.enable = TRUE] \in Client
    BY <1>1 DEF Client
  <1>3. ASSUME NEW u \in Users, u # e.user
        PROVE  After(e)[u] = panel[u]
    BY <1>1, <1>3 DEF After
  <1>4. ClientIn(After(e)[e.user], e.user, D) /\ (e.user \in Lasting => After(e)[e.user] # NoClient)
    <2>1. CASE e.kind = "add"
      BY <1>1, <1>2, <2>1, ClientAssumption DEF After, EffectIn, ClientIn
    <2>2. CASE e.kind = "update"
      BY <1>1, <2>2, ClientAssumption DEF After, EffectIn, ClientIn
    <2>3. CASE e.kind = "delete"
      BY <1>1, <2>3 DEF After, EffectIn, ClientIn
    <2>4. CASE e.kind = "reset"
      BY <1>1, <2>4 DEF After, ListIn
    <2>5. QED
      BY <1>1, <2>1, <2>2, <2>3, <2>4
  <1>5. QED
    BY <1>1, <1>3, <1>4 DEF ListIn

\* Nobody asks for the end of a client that is to last, or of one that is perpetual.
LEMMA NobodyEnds ==
    ASSUME FlowInv, NEW t \in Tasks, request[t] # NoRequest
    PROVE  /\ request[t].kind = "delete_client" => request[t].user \notin Lasting
           /\ request[t].kind = "set_enabled" /\ request[t].user \in Endless
              => request[t].arg = 1
  <1>1. PICK r : r = request[t]
    OBVIOUS
  <1>2. \/ r.kind = "get_client"
        \/ r \in EditorRequests
        \/ r.kind = "set_enabled" /\ r.arg = 1
        \/ r.kind = "set_expiry_ms"
    <2>1. \A u : EnableOf(u).kind = "set_enabled" /\ EnableOf(u).arg = 1
      BY DEF EnableOf
    <2>2. \A u, m : ExpiryOf(u, m).kind = "set_expiry_ms"
      BY DEF ExpiryOf
    <2>3. QED
      BY <1>1, <2>1, <2>2, WhoAsks
  <1>3. r \in EditorRequests /\ r.kind = "delete_client" => r.user \notin Lasting
    BY DEF Lasting
  <1>4. r \in EditorRequests /\ r.kind = "set_enabled" /\ r.user \in Endless => r.arg = 1
    BY DEF Endless
  <1>5. QED
    BY <1>1, <1>2, <1>3, <1>4

\* A write under way carries a client it may.
LEMMA SentIn ==
    ASSUME FlowInv, NEW D, PanelIn(D), NEW t \in Tasks, Unanswered(t)
    PROVE  EffectOf(t) \in Effect /\ EffectIn(EffectOf(t), D)
  <1>1. PanelTypeOK /\ EffectOf(t) \in Effect
    BY Halves, EffectType DEF FlowInv
  <1>2. object[t] \in Client /\ object[t] # NoClient /\ request[t] # NoRequest
    BY <1>1, ClientAssumption, CallHasRequest DEF Unanswered, PanelTypeOK, CallTypeOK
  <1>3. ClientIn(object[t], request[t].user, D)
    BY <1>2 DEF PanelIn, CallsIn, CallIn
  <1>4. /\ EffectOf(t).user = request[t].user /\ EffectOf(t).client = object[t]
        /\ EffectOf(t).kind = "delete" => request[t].kind = "delete_client"
    BY DEF EffectOf
  <1>5. request[t].kind = "delete_client" => request[t].user \notin Lasting
    BY <1>2, NobodyEnds
  <1>6. QED
    BY <1>1, <1>3, <1>4, <1>5 DEF EffectIn

\* What a read found.
LEMMA FoundIn ==
    ASSUME PanelTypeOK, NEW D, PanelIn(D), NEW t \in Tasks,
           stage[t] \in {"fetch", "read", "verify"}, answer[t] # NoAnswer
    PROVE  /\ ListIn(answer[t], D) /\ ClientIn(Found(t), request[t].user, D)
           /\ request[t] # NoRequest /\ request[t].user \in Users
  <1>1. answer[t] \in Snapshot
    BY AnswerIsSnapshot
  <1>2. request[t] # NoRequest /\ request[t].user \in Users
    BY CallHasRequest DEF Request
  <1>3. ListIn(answer[t], D)
    BY <1>1 DEF PanelIn, CallsIn, CallIn
  <1>4. QED
    BY <1>2, <1>3 DEF ListIn, Found

\* A task goes on with its call.
LEMMA GotoIn ==
    ASSUME PanelTypeOK, NEW D, PanelIn(D), NEW t \in Tasks, NEW s, NEW c, Goto(t, s, c),
           ClientIn(c, request[t].user, D),
           cache' # NoCache => cache' = cache \/ ListIn(cache, D)'
    PROVE  PanelIn(D)'
  <1>1. /\ object'[t] = c /\ answer'[t] = NoAnswer /\ answer'[t] \notin Snapshot
        /\ \A x \in Tasks : x # t => object'[x] = object[x] /\ answer'[x] = answer[x]
        /\ UNCHANGED <<panel, request, late>>
    BY PanelAssumption DEF Goto, PanelTypeOK
  <1>2. CallsIn(t, D)'
    BY <1>1 DEF PanelIn, CallsIn, CallIn
  <1>3. ListIn(panel, D)'
    BY <1>1 DEF PanelIn, ListIn
  <1>4. QED
    BY <1>1, <1>2, <1>3, OneCallIn

\* The expiry that a change leaves to a client.
LEMMA AppliedIn ==
    ASSUME FlowInv, NEW D, ZeroIsEndless(D), PanelIn(D), Admits(D),
           NEW t \in Tasks, MutationApplies(t)
    PROVE  /\ ClientIn(Applied(request[t], Found(t), now), request[t].user, D)
           /\ Applied(request[t], Found(t), now) # NoClient
  <1> DEFINE c == Applied(request[t], Found(t), now)
  <1>1. /\ ReadDone(t) /\ Found(t) # NoClient /\ request[t].kind \in Mutations
        /\ Changes(request[t], Found(t), now)
    BY DEF MutationApplies
  <1>2. /\ PanelTypeOK /\ request[t] \in Request /\ request[t] # NoRequest
        /\ request[t].user \in Users /\ Found(t) \in Client /\ now \in Nat
        /\ ClientIn(Found(t), request[t].user, D)
    BY <1>1, ReadDoneType, FoundIn, Halves DEF FlowInv, ReadDone, PanelTypeOK
  <1>3. /\ Found(t).expiry \in D[request[t].user]
        /\ request[t].user \in Endless => Found(t).enable
    BY <1>1, <1>2 DEF ClientIn
  <1>4. c \in Client /\ c # NoClient
    BY <1>1, <1>2, AppliedType, ClientAssumption
  <1>5. c.expiry \in D[request[t].user]
    <2>1. CASE request[t].kind = "grant_days"
      BY <2>1 DEF Admits
    <2>2. CASE request[t].kind = "set_expiry_ms"
      <3>1. request[t].arg \in D[request[t].user]
        BY <1>2, <2>2 DEF PanelIn, CallsIn, CallIn
      <3>2. QED
        BY <1>2, <2>2, <3>1 DEF Applied, Client
    <2>3. CASE request[t].kind \in {"set_enabled", "set_limits", "regenerate_sub_id"}
      BY <1>2, <1>3, <2>3 DEF Applied, Client
    <2>4. QED
      BY <1>1, <2>1, <2>2, <2>3 DEF Mutations
  <1>6. ASSUME request[t].user \in Endless
        PROVE  c.enable
    <2>1. Found(t).enable
      BY <1>3, <1>6
    <2>2. CASE request[t].kind = "set_enabled"
      <3>1. request[t].arg = 1
        BY <1>2, <1>6, <2>2, NobodyEnds
      <3>2. QED
        BY <1>2, <2>2, <3>1 DEF Applied, Client
    <2>3. CASE request[t].kind # "set_enabled"
      BY <1>1, <1>2, <2>1, <2>3 DEF Applied, Client, Mutations
    <2>4. QED
      BY <2>2, <2>3
  <1> HIDE DEF c
  <1>7. ClientIn(c, request[t].user, D)
    BY <1>5, <1>6 DEF ClientIn
  <1>8. QED
    BY <1>4, <1>7 DEF c

\* A call that goes on, whatever it read.
LEMMA ResumesIn ==
    ASSUME FlowInv, NEW D, ZeroIsEndless(D), PanelIn(D), Admits(D), NEW t \in Tasks, Resumes(t)
    PROVE  PanelIn(D)'
  <1>1. PanelTypeOK /\ LockInv /\ now \in Nat
    BY Halves DEF FlowInv, PanelTypeOK
  <1>2. CASE Acquire(t)
    BY <1>1, <1>2, GotoIn DEF Acquire, ClientIn
  <1>3. CASE EnsureUpdates(t) \/ WriteResumes(t)
    <2>1. /\ stage[t] # "idle" /\ \E s : Goto(t, s, object[t])
          /\ cache' = cache \/ cache' = NoCache
      BY <1>3 DEF EnsureUpdates, WriteResumes
    <2>2. ClientIn(object[t], request[t].user, D)
      BY <1>1, <2>1, CallHasRequest DEF PanelIn, CallsIn, CallIn
    <2>3. QED
      BY <1>1, <2>1, <2>2, GotoIn
  <1>4. ASSUME NEW s, NEW c, Goto(t, s, c), cache' = answer[t], answer[t] # NoAnswer,
               stage[t] \in {"fetch", "read", "verify"}, ClientIn(c, request[t].user, D)
        PROVE  PanelIn(D)'
    <2>1. ListIn(answer[t], D)
      BY <1>1, <1>4, FoundIn
    <2>2. ListIn(cache, D)'
      BY <1>4, <2>1 DEF ListIn
    <2>3. QED
      BY <1>1, <1>4, <2>2, GotoIn
  <1>5. CASE FetchResumes(t) \/ ClientMissing(t) \/ NothingToWrite(t) \/ ClientRouteCalled(t)
             \/ VerifyResumes(t)
    <2>1. /\ cache' = answer[t] /\ answer[t] # NoAnswer
          /\ stage[t] \in {"fetch", "read", "verify"}
          /\ \E s : Goto(t, s, Found(t)) \/ Goto(t, s, NoClient)
      BY <1>5 DEF FetchResumes, ClientMissing, NothingToWrite, ClientRouteCalled,
                  VerifyResumes, ReadDone, Found
    <2>2. ClientIn(Found(t), request[t].user, D) /\ ClientIn(NoClient, request[t].user, D)
      BY <1>1, <2>1, FoundIn DEF ClientIn
    <2>3. QED
      BY <1>4, <2>1, <2>2
  <1>6. CASE EnsureAdds(t)
    <2> DEFINE c == NewClient(request[t], now)
    <2>1. /\ cache' = answer[t] /\ answer[t] # NoAnswer /\ stage[t] = "read"
          /\ Goto(t, "add", c) /\ answer[t][request[t].user] = NoClient
      BY <1>6 DEF EnsureAdds, ReadDone, Found
    <2>2. ListIn(answer[t], D) /\ request[t].user \in Users
      BY <1>1, <2>1, FoundIn
    <2>3. request[t].user \notin Lasting
      BY <2>1, <2>2 DEF ListIn
    <2>4. c.expiry = now
      BY DEF NewClient
    <2>5. ClientIn(c, request[t].user, D)
      BY <2>2, <2>3, <2>4 DEF ClientIn, Admits, Endless
    <2> HIDE DEF c
    <2>6. QED
      BY <1>4, <2>1, <2>5
  <1>7. CASE MutationApplies(t)
    <2> DEFINE c == Applied(request[t], Found(t), now)
    <2>1. /\ cache' = [answer[t] EXCEPT ![request[t].user] = c] /\ answer[t] # NoAnswer
          /\ stage[t] = "read" /\ Goto(t, "write", c)
      BY <1>7 DEF MutationApplies, ReadDone
    <2>2. ClientIn(c, request[t].user, D) /\ c # NoClient
      BY <1>7, AppliedIn
    <2> HIDE DEF c
    <2>3. answer[t] \in Snapshot /\ ListIn(answer[t], D)
      BY <1>1, <2>1, AnswerIsSnapshot, FoundIn
    <2>4. ListIn(cache, D)'
      BY <2>1, <2>2, <2>3 DEF ListIn, Snapshot
    <2>5. QED
      BY <1>1, <2>1, <2>2, <2>4, GotoIn
  <1>8. QED
    BY <1>2, <1>3, <1>5, <1>6, <1>7 DEF Resumes

\* Every step of the gateway keeps the expiries possible.
LEMMA GatewayIn ==
    ASSUME FlowInv, NEW D, ZeroIsEndless(D), PanelIn(D), Admits(D), GatewayStep
    PROVE  PanelIn(D)'
  <1>1. PanelTypeOK /\ answer \in [Tasks -> Snapshot \cup {NoAnswer, Ack}]
        /\ object \in [Tasks -> Client \cup {NoClient}] /\ late \subseteq Effect
    BY Halves DEF FlowInv, PanelTypeOK
  <1>2. ASSUME NEW t \in Tasks, PanelAnswers(t)
        PROVE  PanelIn(D)'
    <2>1. /\ answer'[t] = panel
          /\ \A x \in Tasks : x # t => answer'[x] = answer[x]
          /\ UNCHANGED <<panel, cache, request, object, late>>
      BY <1>1, <1>2 DEF PanelAnswers
    <2>2. ListIn(panel, D)' /\ CallsIn(t, D)'
      BY <2>1 DEF PanelIn, CallsIn, CallIn, ListIn
    <2>3. QED
      BY <2>1, <2>2, OneCallIn
  <1>3. ASSUME NEW t \in Tasks, PanelCommits(t)
        PROVE  PanelIn(D)'
    <2>1. /\ panel' = After(EffectOf(t)) /\ answer'[t] = Ack /\ Ack \notin Snapshot
          /\ \A x \in Tasks : x # t => answer'[x] = answer[x]
          /\ UNCHANGED <<cache, request, object, late>>
      BY <1>1, <1>3, PanelAssumption DEF PanelCommits
    <2>2. ListIn(After(EffectOf(t)), D)
      BY <1>1, <1>3, SentIn, AfterIn DEF PanelCommits, PanelIn
    <2>3. ListIn(panel, D)'
      BY <2>1, <2>2 DEF ListIn
    <2>4. CallsIn(t, D)'
      BY <2>1 DEF PanelIn, CallsIn, CallIn
    <2>5. QED
      BY <2>1, <2>3, <2>4, OneCallIn
  <1>4. ASSUME NEW t \in Tasks, RequestFails(t)
        PROVE  PanelIn(D)'
    <2>1. /\ object'[t] = NoClient /\ answer'[t] = NoAnswer /\ NoAnswer \notin Snapshot
          /\ \A x \in Tasks : x # t => object'[x] = object[x] /\ answer'[x] = answer[x]
          /\ UNCHANGED <<panel, cache, request>>
          /\ late' = late \/ (Unanswered(t) /\ late' = late \cup {EffectOf(t)})
      BY <1>1, <1>4, PanelAssumption DEF RequestFails
    <2>2. \A e \in late' : e \in late \/ EffectIn(e, D)
      BY <1>1, <2>1, SentIn
    <2>3. ListIn(panel, D)' /\ CallsIn(t, D)'
      BY <2>1 DEF PanelIn, CallsIn, CallIn, ListIn, ClientIn
    <2>4. QED
      BY <2>1, <2>2, <2>3, OneCallIn
  <1>5. ASSUME NEW e \in late, LateWriteLands(e)
        PROVE  PanelIn(D)'
    <2>1. e \in Effect /\ EffectIn(e, D) /\ ListIn(panel, D)
      BY <1>1 DEF PanelIn
    <2>2. ListIn(After(e), D)
      BY <1>1, <2>1, AfterIn
    <2>3. ListIn(panel, D)' /\ late' \subseteq late
          /\ UNCHANGED <<cache, request, object, answer>>
      BY <1>5, <2>1, <2>2 DEF LateWriteLands, ListIn
    <2>4. QED
      BY <2>3 DEF PanelIn, CallsIn, ListIn
  <1>6. CASE CacheExpires
    BY <1>6 DEF CacheExpires, PanelIn, CallsIn, ListIn
  <1>7. QED
    BY <1>2, <1>3, <1>4, <1>5, <1>6, ResumesIn DEF GatewayStep

\* A task starts or leaves a call.
LEMMA OwnCallIn ==
    ASSUME FlowInv, NEW D, PanelIn(D), NEW t \in Tasks,
           \/ EndCall(t)
           \/ \E u \in Users : BeginGet(t, u)
           \/ \E r \in Request : /\ BeginWrite(t, r)
                                 /\ r.kind = "set_expiry_ms" => r.arg \in D[r.user]
    PROVE  PanelIn(D)'
  <1>1. /\ request \in [Tasks -> Request \cup {NoRequest}]
        /\ object \in [Tasks -> Client \cup {NoClient}]
    BY Halves DEF FlowInv, PanelTypeOK
  <1>2. /\ UNCHANGED <<panel, cache, answer, late>>
        /\ \A x \in Tasks : x # t => request'[x] = request[x] /\ object'[x] = object[x]
    BY <1>1 DEF EndCall, BeginGet, BeginWrite
  <1>3. CallsIn(t, D)'
    <2>1. answer'[t] \in Snapshot => ListIn(answer'[t], D)
      BY <1>2 DEF PanelIn, CallsIn, CallIn
    <2>2. CASE EndCall(t)
      BY <1>1, <2>1, <2>2 DEF EndCall, CallsIn, CallIn
    <2>3. ASSUME NEW u \in Users, BeginGet(t, u)
          PROVE  CallsIn(t, D)'
      <3>1. /\ request'[t] = [kind |-> "get_client", user |-> u, arg |-> 0]
            /\ object'[t] = NoClient \/ (cache # NoCache /\ object'[t] = cache[u])
        BY <1>1, <2>3 DEF BeginGet
      <3>2. cache # NoCache => ClientIn(cache[u], u, D)
        BY DEF PanelIn, ListIn
      <3>3. QED
        BY <2>1, <3>1, <3>2 DEF CallsIn, CallIn, ClientIn
    <2>4. ASSUME NEW r \in Request, BeginWrite(t, r),
                 r.kind = "set_expiry_ms" => r.arg \in D[r.user]
          PROVE  CallsIn(t, D)'
      <3>1. request'[t] = r /\ object'[t] = NoClient
        BY <1>1, <2>4 DEF BeginWrite
      <3>2. QED
        BY <2>1, <2>4, <3>1 DEF CallsIn, CallIn, ClientIn
    <2>5. QED
      BY <2>2, <2>3, <2>4
  <1>4. ListIn(panel, D)' /\ \A e \in late' : e \in late
    BY <1>2 DEF PanelIn, ListIn
  <1>5. QED
    BY <1>2, <1>3, <1>4, OneCallIn

\* The process dies: only the panel and what was sent to it remain.
LEMMA ResetIn ==
    ASSUME FlowInv, NEW D, PanelIn(D), Reset
    PROVE  PanelIn(D)'
  <1>1. PanelTypeOK
    BY Halves DEF FlowInv
  <1>2. \A e \in late' : EffectIn(e, D)
    BY <1>1, SentIn DEF Reset, PanelIn
  <1>3. \A t \in Tasks : CallsIn(t, D)'
    BY PanelAssumption DEF Reset, CallsIn, CallIn
  <1>4. ListIn(panel, D)' /\ cache' = NoCache
    BY DEF Reset, PanelIn, ListIn
  <1>5. QED
    BY <1>2, <1>3, <1>4 DEF PanelIn

\* What an editor sets an expiry to by hand is possible.
SetWithin(D) == \A r \in EditorRequests : r.kind = "set_expiry_ms" => r.arg \in D[r.user]

\* What each step does to the gateway's state.
LEMMA PanelStepsIn ==
    ASSUME FlowInv, NEW D, SetWithin(D), Admits(D), [Next]_vars
    PROVE  \/ UNCHANGED <<panel, cache, request, answer, object, late>>
           \/ GatewayStep \/ Reset
           \/ \E t \in Tasks :
                 \/ EndCall(t)
                 \/ \E u \in Users : BeginGet(t, u)
                 \/ \E r \in Request : /\ BeginWrite(t, r)
                                       /\ r.kind = "set_expiry_ms" => r.arg \in D[r.user]
  <1> DEFINE Own(t) == \/ EndCall(t)
                       \/ \E u \in Users : BeginGet(t, u)
                       \/ \E r \in Request : /\ BeginWrite(t, r)
                                             /\ r.kind = "set_expiry_ms" => r.arg \in D[r.user]
  <1>1. \A t \in Tasks : HandlerInv(t)
    BY Halves DEF FlowInv
  <1>2. Users \subseteq Tasks /\ Reviewers \subseteq Tasks /\ Editors \subseteq Tasks
        /\ \A p \in Payments : Owner[p] \in Users
    BY PaymentsAssumption
  <1>3. ASSUME NEW t \in Tasks, Handles(t)
        PROVE  Own(t) \/ UNCHANGED panelVars
    <2>1. pc[t] \in Applying => job[t] \in Payments /\ Owner[job[t]] \in Users
      BY <1>1, <1>2 DEF HandlerInv
    <2>2. CASE \/ CardSent(t) \/ EnabledPerpetual(t) \/ AlreadyReached(t) \/ TargetSet(t)
               \/ ApplyFails(t)
      BY <2>2 DEF CardSent, EnabledPerpetual, AlreadyReached, TargetSet, ApplyFails
    <2>3. CASE LoadRow(t)
      BY <2>1, <2>3 DEF LoadRow, StartsApply, Applying
    <2>4. CASE Enable(t)
      <3> DEFINE r == [kind |-> "set_enabled", user |-> Owner[job[t]], arg |-> 1]
      <3>1. r \in Request /\ r.kind # "set_expiry_ms" /\ BeginWrite(t, r)
        BY <2>1, <2>4 DEF Enable, Request, Writes, Mutations, Applying
      <3>2. QED
        BY <3>1
    <2>5. CASE SetTarget(t)
      <3> DEFINE r == [kind |-> "set_expiry_ms", user |-> Owner[job[t]], arg |-> row'[t]]
      <3>1. row'[t] \in Nat /\ BeginWrite(t, r)
        BY <2>5, TargetIsNat DEF FlowInv
      <3>2. r \in Request /\ r.arg \in D[r.user]
        BY <2>1, <2>5, <3>1 DEF SetTarget, Enabled, Request, Writes, Mutations, Applying, Admits
      <3>3. QED
        BY <3>1, <3>2
    <2>6. CASE MarkApplied(t)
      BY <2>6 DEF MarkApplied
    <2>7. CASE Edited(t)
      <3>1. pc[t] = "edit" /\ BeginGet(t, request[t].user)
        BY <2>7 DEF Edited
      <3>2. request[t].user \in Users
        BY <1>1, <3>1, Halves, CallHasRequest DEF FlowInv, HandlerInv, Request
      <3>3. QED
        BY <3>1, <3>2
    <2>8. QED
      BY <1>3, <2>2, <2>3, <2>4, <2>5, <2>6, <2>7 DEF Handles
  <1>4. ASSUME NEW p \in Payments, NEW u \in Users,
               Select(u, p) \/ Submit(u, p) \/ AttachReceipt(u, p) \/ Cancel(u, p)
        PROVE  Own(u) \/ UNCHANGED panelVars
    BY <1>4 DEF Select, Submit, AttachReceipt, Cancel
  <1>5. ASSUME NEW p \in Payments, NEW a \in Reviewers,
                Approve(a, p) \/ Decline(a, p) \/ Retry(a, p)
        PROVE  Own(a) \/ UNCHANGED panelVars
    BY <1>2, <1>5 DEF Approve, Decline, Retry, StartsApply
  <1>6. ASSUME NEW e \in Editors, Edit(e)
        PROVE  Own(e)
    <2>1. PICK r \in EditorRequests : BeginWrite(e, r)
      BY <1>6 DEF Edit
    <2>2. r \in Request /\ (r.kind = "set_expiry_ms" => r.arg \in D[r.user])
      BY PaymentsAssumption DEF SetWithin
    <2>3. QED
      BY <2>1, <2>2
  <1>7. ASSUME NEW p \in Payments, Expire(p)
        PROVE  UNCHANGED panelVars
    BY <1>7 DEF Expire
  <1> DEFINE Still == UNCHANGED <<panel, cache, request, answer, object, late>>
  <1>8. UNCHANGED panelVars => Still
    BY DEF panelVars
  <1>9. Restart \/ Tick \/ UNCHANGED vars => Still
    BY DEF Restart, Tick, vars, panelVars
  <1>10. Crash => Reset
    BY DEF Crash
  <1> HIDE DEF Own, Still
  <1>11. Next => Still \/ GatewayStep \/ Reset \/ \E t \in Tasks : Own(t)
    BY <1>2, <1>3, <1>4, <1>5, <1>6, <1>7, <1>8, <1>9, <1>10 DEF Next
  <1>12. Still \/ GatewayStep \/ Reset \/ \E t \in Tasks : Own(t)
    BY <1>9, <1>11
  <1>13. QED
    BY <1>12 DEF Own, Still

\* So the panel's side of the invariant survives every step.
LEMMA NextPanelIn ==
    ASSUME FlowInv, NEW D, SetWithin(D), ZeroIsEndless(D), PanelIn(D), Admits(D),
           [Next]_vars
    PROVE  PanelIn(D)'
  <1>1. CASE UNCHANGED <<panel, cache, request, answer, object, late>>
    BY <1>1 DEF PanelIn, CallsIn, ListIn
  <1>2. QED
    BY <1>1, PanelStepsIn, GatewayIn, ResetIn, OwnCallIn

\* Only SetTarget records a target, and only where there was none.
LEMMA TargetStepsIn ==
    ASSUME FlowInv, NEW D, ZeroIsEndless(D), ExpiriesIn(D), [Next]_vars, target' # target
    PROVE  \E t \in Tasks :
              /\ SetTarget(t) /\ job[t] \in Payments /\ target[job[t]] = 0
              /\ target' = [target EXCEPT ![job[t]] = row'[t]]
  <1>1. PICK t \in Tasks :
           /\ pc[t] = "enable" /\ job[t] \in Payments /\ seen[t] \in Client
           /\ \/ EnabledPerpetual(t) /\ target' = [target EXCEPT ![job[t]] = 0]
              \/ /\ SetTarget(t) /\ row[t] = 0
                 /\ target' = [target EXCEPT ![job[t]] = row'[t]]
    BY TargetSteps
  <1>2. /\ HandlerIn(t, D) /\ TargetIn(job[t], D) /\ target \in [Payments -> Nat]
        /\ Owner[job[t]] \in Users
    BY <1>1, HandlerTypes, PaymentsAssumption DEF ExpiriesIn
  <1>3. CASE EnabledPerpetual(t) /\ target' = [target EXCEPT ![job[t]] = 0]
    <2>1. seen[t].expiry = 0
      BY <1>3 DEF EnabledPerpetual, Perpetual, IsUnlimited
    <2>2. 0 \in D[Owner[job[t]]]
      BY <1>1, <1>2, <2>1, ClientAssumption DEF HandlerIn, ClientIn
    <2>3. D[Owner[job[t]]] \subseteq {0}
      BY <1>2, <2>2 DEF ZeroIsEndless
    <2>4. target[job[t]] = 0
      BY <1>2, <2>3 DEF TargetIn
    <2>5. QED
      BY <1>1, <1>2, <1>3, <2>4
  <1>4. CASE SetTarget(t) /\ row[t] = 0 /\ target' = [target EXCEPT ![job[t]] = row'[t]]
    BY <1>1, <1>2, <1>4 DEF HandlerIn
  <1>5. QED
    BY <1>1, <1>3, <1>4

\* What was approved stays so.
LEMMA ApprovedStays ==
    ASSUME FlowInv, [Next]_vars, NEW p \in Payments, status[p] = "approved"
    PROVE  status'[p] = "approved"
  <1>1. status \in [Payments -> Active \cup Decided \cup {"none"}]
    BY DEF FlowInv, RowsInv
  <1>2. CASE Lifecycle!Next
    <2>1. ASSUME NEW q \in Payments, NEW from, NEW to, "approved" \notin from,
                 Lifecycle!Moves(q, from, to)
          PROVE  status'[p] = "approved"
      BY <1>1, <2>1 DEF Lifecycle!Moves
    <2>2. ASSUME NEW q \in Payments, Lifecycle!Insert(q)
          PROVE  status'[p] = "approved"
      BY <2>1, <2>2 DEF Lifecycle!Insert
    <2>3. ASSUME NEW q \in Payments, Lifecycle!Apply(q)
          PROVE  status'[p] = "approved"
      BY <2>3 DEF Lifecycle!Apply
    <2>4. "approved" \notin Lifecycle!Pending /\ "approved" \notin Lifecycle!Active
      BY DEF Lifecycle!Pending, Lifecycle!Active
    <2>5. QED
      BY <1>2, <2>1, <2>2, <2>3, <2>4 DEF Lifecycle!Next
  <1>3. CASE UNCHANGED Lifecycle!vars
    BY <1>3 DEF Lifecycle!vars
  <1>4. QED
    BY <1>2, <1>3, NextRefines DEF FlowInv

\* The recorded targets survive every step.
LEMMA NextTargetIn ==
    ASSUME FlowInv, NEW D, ZeroIsEndless(D), ExpiriesIn(D), Admits(D), [Next]_vars,
           NEW p \in Payments
    PROVE  TargetIn(p, D)'
  <1>1. CASE target' = target
    BY <1>1, ApprovedStays DEF ExpiriesIn, TargetIn
  <1>2. CASE target' # target
    <2>1. PICK t \in Tasks :
             /\ SetTarget(t) /\ job[t] \in Payments
             /\ target' = [target EXCEPT ![job[t]] = row'[t]]
      BY <1>2, TargetStepsIn
    <2>2. status[job[t]] = "approved" /\ row'[t] \in D[Owner[job[t]]]
      BY <2>1 DEF SetTarget, Enabled, FlowInv, RowsInv, Applying, Admits
    <2>3. target \in [Payments -> Nat]
      BY DEF FlowInv, IInv
    <2>4. CASE p = job[t]
      BY <2>1, <2>2, <2>3, <2>4, ApprovedStays DEF TargetIn
    <2>5. CASE p # job[t]
      BY <2>1, <2>3, <2>5, ApprovedStays DEF ExpiriesIn, TargetIn
    <2>6. QED
      BY <2>4, <2>5
  <1>3. QED
    BY <1>1, <1>2

\* The handlers that a step does not move keep their copies.
LEMMA OthersIn ==
    ASSUME FlowInv, ApplyApart, NEW D, ExpiriesIn(D), NEW t \in Tasks,
           NEW x \in Tasks, x # t,
           pc'[x] = pc[x], row'[x] = row[x], job'[x] = job[x], seen'[x] = seen[x],
           request'[x] = request[x],
           \/ target' = target
           \/ pc[t] \in Applying /\ \E ms : target' = [target EXCEPT ![job[t]] = ms]
    PROVE  HandlerIn(x, D)'
  <1>1. HandlerIn(x, D)
    BY DEF ExpiriesIn
  <1>2. pc[x] \in {"get", "enable"} => job[x] \in Payments /\ target'[job[x]] = target[job[x]]
    BY DEF FlowInv, IInv, HandlerInv, ApplyApart, Applying
  <1>3. QED
    BY <1>1, <1>2 DEF HandlerIn

\* So do the copies of the handler that moves.
LEMMA HandlesIn ==
    ASSUME FlowInv, ApplyApart, NEW D, ExpiriesIn(D), NEW t \in Tasks, Handles(t),
           NEW x \in Tasks
    PROVE  HandlerIn(x, D)'
  <1>1. /\ pc \in [Tasks -> Applying \cup {"idle", "card", "edit"}]
        /\ job \in [Tasks -> Payments \cup {NoPayment}]
        /\ row \in [Tasks -> Nat] /\ seen \in [Tasks -> Client \cup {NoClient}]
        /\ request \in [Tasks -> Request \cup {NoRequest}]
        /\ object \in [Tasks -> Client \cup {NoClient}]
        /\ HandlerInv(t) /\ HandlerIn(t, D) /\ CallsIn(t, D)
    BY Halves DEF FlowInv, OwnTypeOK, PanelTypeOK, ExpiriesIn, PanelIn
  <1>2. ASSUME NEW l \in Applying \cup {"idle", "card", "edit"}, Goes(t, l),
               l \notin {"get", "enable"}
        PROVE  HandlerIn(t, D)'
    BY <1>1, <1>2 DEF Goes, HandlerIn
  <1>3. ASSUME LoadRow(t)
        PROVE  HandlerIn(t, D)'
    <2>1. /\ pc[t] = "load" /\ job' = [job EXCEPT ![t] = job[t]] /\ pc'[t] = "get"
          /\ row'[t] = target[job[t]] /\ target' = target
          /\ request'[t] = [kind |-> "get_client", user |-> Owner[job[t]], arg |-> 0]
      BY <1>1, <1>3 DEF LoadRow, StartsApply, Goes, BeginGet, dbVars
    <2>2. job'[t] = job[t] /\ Owner[job[t]] \in Users
      BY <1>1, <2>1, PaymentsAssumption DEF HandlerInv, Applying
    <2>3. request'[t] # NoRequest
      BY <2>1, <2>2, PanelAssumption DEF Request
    <2>4. QED
      BY <2>1, <2>2, <2>3 DEF HandlerIn
  <1>4. ASSUME Enable(t)
        PROVE  HandlerIn(t, D)'
    <2>1. /\ pc[t] = "get" /\ pc'[t] = "enable" /\ seen'[t] = object[t]
          /\ UNCHANGED <<job, row, target>>
      BY <1>1, <1>4 DEF Enable, Goes, dbVars
    <2>2. ClientIn(object[t], Owner[job[t]], D)
      BY <1>1, <2>1 DEF HandlerIn, CallsIn, CallIn
    <2>3. QED
      BY <1>1, <2>1, <2>2 DEF HandlerIn
  <1>5. ASSUME \/ CardSent(t) \/ EnabledPerpetual(t) \/ AlreadyReached(t) \/ SetTarget(t)
               \/ TargetSet(t) \/ MarkApplied(t) \/ ApplyFails(t) \/ Edited(t)
        PROVE  HandlerIn(t, D)'
    BY <1>2, <1>5 DEF CardSent, EnabledPerpetual, AlreadyReached, SetTarget, TargetSet,
       MarkApplied, ApplyFails, Edited, Leaves, Goes, Applying
  <1>6. HandlerIn(t, D)'
    BY <1>3, <1>4, <1>5 DEF Handles
  <1>7. \A y \in Tasks : y # t => /\ pc'[y] = pc[y] /\ row'[y] = row[y] /\ job'[y] = job[y]
                                  /\ seen'[y] = seen[y] /\ request'[y] = request[y]
    BY <1>1 DEF Handles, CardSent, LoadRow, StartsApply, Enable, EnabledPerpetual,
       AlreadyReached, SetTarget, TargetSet, MarkApplied, ApplyFails, Edited, Leaves, Goes,
       BeginGet, BeginWrite, EndCall, panelVars
  <1>8. \/ target' = target
        \/ pc[t] \in Applying /\ \E ms : target' = [target EXCEPT ![job[t]] = ms]
    BY DEF Handles, CardSent, LoadRow, StartsApply, Enable, EnabledPerpetual,
       AlreadyReached, SetTarget, TargetSet, MarkApplied, ApplyFails, Edited, Enabled,
       RecordTarget, dbVars, Applying
  <1>9. QED
    BY <1>6, <1>7, <1>8, OthersIn

\* Nobody's copies go stale.
LEMMA NextHandlerIn ==
    ASSUME FlowInv, ApplyApart, NEW D, ExpiriesIn(D), [Next]_vars, NEW x \in Tasks
    PROVE  HandlerIn(x, D)'
  <1>1. /\ pc \in [Tasks -> Applying \cup {"idle", "card", "edit"}]
        /\ job \in [Tasks -> Payments \cup {NoPayment}]
        /\ row \in [Tasks -> Nat] /\ seen \in [Tasks -> Client \cup {NoClient}]
        /\ request \in [Tasks -> Request \cup {NoRequest}]
        /\ \A a \in Tasks : HandlerInv(a)
        /\ HandlerIn(x, D)
        /\ Users \subseteq Tasks /\ Reviewers \subseteq Tasks /\ Editors \subseteq Tasks
    BY Halves, PaymentsAssumption DEF FlowInv, OwnTypeOK, PanelTypeOK, ExpiriesIn
  <1>2. ASSUME UNCHANGED <<pc, row, job, seen, request, target>>
        PROVE  HandlerIn(x, D)'
    BY <1>1, <1>2 DEF HandlerIn
  <1>3. ASSUME UNCHANGED <<row, job, seen, target>>, NEW t \in Tasks,
               NEW l \in {"card", "edit"}, pc' = [pc EXCEPT ![t] = l],
               \A y \in Tasks : y # t => request'[y] = request[y]
        PROVE  HandlerIn(x, D)'
    BY <1>1, <1>3 DEF HandlerIn
  <1>4. ASSUME NEW p \in Payments, NEW u \in Users,
               Select(u, p) \/ Submit(u, p) \/ AttachReceipt(u, p) \/ Cancel(u, p)
        PROVE  HandlerIn(x, D)'
    <2>1. CASE Submit(u, p)
      BY <1>1, <1>3, <2>1 DEF Submit, Claim, BeginGet
    <2>2. CASE Select(u, p) \/ AttachReceipt(u, p) \/ Cancel(u, p)
      BY <1>2, <2>2 DEF Select, AttachReceipt, Cancel, Claim, panelVars, taskVars
    <2>3. QED
      BY <1>4, <2>1, <2>2
  <1>5. ASSUME NEW p \in Payments, NEW a \in Reviewers,
                Approve(a, p) \/ Decline(a, p) \/ Retry(a, p)
        PROVE  HandlerIn(x, D)'
    <2>1. CASE Decline(a, p)
      BY <1>2, <2>1 DEF Decline, Claim, panelVars, taskVars
    <2>2. CASE Approve(a, p)
      <3>1. /\ a \in Tasks /\ pc' = [pc EXCEPT ![a] = "load"] /\ job' = [job EXCEPT ![a] = p]
            /\ UNCHANGED <<row, seen, request, target>>
        BY <1>1, <2>2 DEF Approve, Claim, Goes, panelVars
      <3>2. QED
        BY <1>1, <3>1 DEF HandlerIn
    <2>3. CASE Retry(a, p)
      <3>1. /\ a \in Tasks /\ pc' = [pc EXCEPT ![a] = "get"] /\ job' = [job EXCEPT ![a] = p]
            /\ row' = [row EXCEPT ![a] = target[p]] /\ UNCHANGED <<seen, target>>
            /\ request' = [request EXCEPT ![a] = [kind |-> "get_client", user |-> Owner[p],
                                                  arg |-> 0]]
        BY <1>1, <2>3 DEF Retry, StartsApply, Goes, BeginGet, dbVars
      <3>2. CASE x = a
        <4>1. [kind |-> "get_client", user |-> Owner[p], arg |-> 0] # NoRequest
          BY PanelAssumption, PaymentsAssumption DEF Request
        <4>2. QED
          BY <1>1, <3>1, <3>2, <4>1 DEF HandlerIn
      <3>3. CASE x # a
        BY <1>1, <3>1, <3>3 DEF HandlerIn
      <3>4. QED
        BY <3>2, <3>3
    <2>4. QED
      BY <1>5, <2>1, <2>2, <2>3
  <1>6. ASSUME NEW e \in Editors, Edit(e)
        PROVE  HandlerIn(x, D)'
    BY <1>1, <1>3, <1>6 DEF Edit, Goes, BeginWrite, dbVars
  <1>7. CASE Crash
    BY <1>7 DEF Crash, HandlerIn
  <1>8. CASE (\E p \in Payments : Expire(p)) \/ Restart \/ Tick \/ UNCHANGED vars
    BY <1>2, <1>8 DEF Expire, Claim, Restart, Tick, vars, panelVars, dbVars, taskVars
  <1>9. CASE GatewayStep /\ UNCHANGED <<dbVars, taskVars, offered, edits, manual, up, crashes>>
    BY <1>2, <1>9, GatewayStepKeepsRequests DEF dbVars, taskVars
  <1>10. QED
    BY <1>4, <1>5, <1>6, <1>7, <1>8, <1>9, HandlesIn DEF Next

\* Together.
LEMMA NextExpiriesIn ==
    ASSUME FlowInv, ApplyApart, NEW D, SetWithin(D), ZeroIsEndless(D), ExpiriesIn(D), Admits(D),
           [Next]_vars
    PROVE  ExpiriesIn(D)'
  <1>1. PanelIn(D)'
    BY NextPanelIn DEF ExpiriesIn
  <1>2. QED
    BY <1>1, NextTargetIn, NextHandlerIn DEF ExpiriesIn

\* What the panel holds at first is all there is.
LEMMA InitExpiriesIn ==
    ASSUME Init, NEW D, ListIn(InitialPanel, D)
    PROVE  ExpiriesIn(D)
  <1>1. PanelInit(InitialPanel, 1)
    BY DEF Init
  <1>2. PanelIn(D)
    BY <1>1, PanelAssumption DEF PanelInit, PanelIn, CallsIn, CallIn, ListIn, ClientIn
  <1>3. QED
    BY <1>2 DEF Init, ExpiriesIn, TargetIn, HandlerIn

-----------------------------------------------------------------------------
(* Recorded targets.                                                       *)

\* A client without an expiry date is perpetual, and no editor deletes it, disables it or
\* sets a date for it; a placeholder, and a client that becomes perpetual by hand, are
\* left to the runs.
DatedOrEndless ==
    \A u \in Users :
        InitialPanel[u] # NoClient /\ InitialPanel[u].expiry = 0 => u \in Endless

\* Editors take away nobody else's date.
NoZeroByHand ==
    \A r \in EditorRequests : r.kind = "set_expiry_ms" /\ r.arg = 0 => r.user \in Endless

\* All that the theorem needs of the expiries: whose is 0 and whose is not.
NotZero == [u \in Users |-> IF u \in Endless THEN {0} ELSE Int \ {0}]

\* What a dated client is extended to is a date, and a perpetual one is left alone.
LEMMA ExtendedType ==
    ASSUME FlowInv, NEW old \in Int, NEW days \in Nat, NEW en \in BOOLEAN
    PROVE  /\ CalculateExpiry(old, days, now, en) \in Int
           /\ old # 0 => CalculateExpiry(old, days, now, en) # 0
  <1>1. now \in Nat /\ now > 0
    BY Halves DEF FlowInv, PanelTypeOK
  <1>2. QED
    BY <1>1 DEF CalculateExpiry, IsUnlimited

\* Who has a change to apply, and to what.
LEMMA GrantIn ==
    ASSUME FlowInv, NEW D, ZeroIsEndless(D), PanelIn(D), NEW t \in Tasks, MutationApplies(t),
           request[t].kind = "grant_days"
    PROVE  /\ request[t].user \in Users \ Endless /\ request[t].arg \in Nat
           /\ Found(t) \in Client /\ Found(t).expiry \in D[request[t].user]
           /\ Applied(request[t], Found(t), now).expiry
                = CalculateExpiry(Found(t).expiry, request[t].arg, now, Found(t).enable)
  <1>1. ReadDone(t) /\ Found(t) # NoClient /\ Changes(request[t], Found(t), now)
    BY DEF MutationApplies
  <1>2. /\ request[t] \in Request /\ request[t].user \in Users /\ Found(t) \in Client
        /\ ClientIn(Found(t), request[t].user, D)
    BY <1>1, ReadDoneType, FoundIn, Halves DEF FlowInv, ReadDone
  <1>3. /\ Found(t).expiry \in D[request[t].user] /\ request[t].arg \in Nat
        /\ request[t].user \in Endless => Found(t).enable
    BY <1>1, <1>2 DEF ClientIn, Request
  <1>4. Applied(request[t], Found(t), now).expiry
          = CalculateExpiry(Found(t).expiry, request[t].arg, now, Found(t).enable)
    BY <1>2 DEF Applied, Client
  <1>5. ASSUME request[t].user \in Endless
        PROVE  FALSE
    <2>1. Found(t).expiry = 0 /\ Found(t).enable /\ now \in Nat
      BY <1>2, <1>3, <1>5, Halves DEF ZeroIsEndless, FlowInv, PanelTypeOK
    <2>2. CalculateExpiry(Found(t).expiry, request[t].arg, now, Found(t).enable) = 0
      BY <2>1 DEF CalculateExpiry, IsUnlimited
    <2>3. Applied(request[t], Found(t), now).expiry # 0
      BY <1>1 DEF Changes
    <2>4. QED
      BY <1>4, <2>2, <2>3
  <1>6. QED
    BY <1>2, <1>3, <1>4, <1>5

\* Whose target is set, and from what.
LEMMA SetTargetIn ==
    ASSUME FlowInv, NEW D, ZeroIsEndless(D), ExpiriesIn(D), NEW t \in Tasks, SetTarget(t)
    PROVE  /\ job[t] \in Payments /\ Owner[job[t]] \in Users \ Endless /\ Days[job[t]] \in Nat
           /\ seen[t] \in Client /\ seen[t].expiry \in D[Owner[job[t]]]
           /\ row[t] = target[job[t]]
           /\ row'[t] = IF row[t] = 0
                        THEN CalculateExpiry(seen[t].expiry, Days[job[t]], now, seen[t].enable)
                        ELSE row[t]
           /\ row[t] # 0 => row[t] \in D[Owner[job[t]]]
  <1>1. pc[t] = "enable" /\ ~Perpetual(t)
    BY DEF SetTarget, Enabled
  <1>2. /\ job[t] \in Payments /\ Owner[job[t]] \in Users /\ Days[job[t]] \in Nat
        /\ row \in [Tasks -> Nat] /\ seen[t] \in Client /\ seen[t] # NoClient
        /\ HandlerIn(t, D) /\ TargetIn(job[t], D)
    <2>1. job[t] \in Payments /\ seen[t] \in Client
      BY <1>1, HandlerTypes DEF HandlerInv, Applying
    <2>2. QED
      BY <2>1, HandlerTypes, ClientAssumption, PaymentsAssumption DEF ExpiriesIn
  <1>3. /\ seen[t].expiry \in D[Owner[job[t]]] /\ row[t] = target[job[t]]
        /\ Owner[job[t]] \in Endless => seen[t].enable
    BY <1>1, <1>2 DEF HandlerIn, ClientIn
  <1>4. row'[t] = IF row[t] = 0
                  THEN CalculateExpiry(seen[t].expiry, Days[job[t]], now, seen[t].enable)
                  ELSE row[t]
    BY <1>2 DEF SetTarget
  <1>5. Owner[job[t]] \notin Endless
    BY <1>1, <1>2, <1>3 DEF ZeroIsEndless, Perpetual, IsUnlimited
  <1>6. row[t] # 0 => row[t] \in D[Owner[job[t]]]
    BY <1>2, <1>3 DEF TargetIn
  <1>7. QED
    BY <1>2, <1>3, <1>4, <1>5, <1>6

\* A day counted from a dated client, or from now, is no end of time either.
LEMMA AdmitsNotZero ==
    ASSUME FlowInv, ExpiriesIn(NotZero)
    PROVE  Admits(NotZero) /\ ZeroIsEndless(NotZero)
  <1>1. ZeroIsEndless(NotZero) /\ now \in Nat /\ now > 0
    BY Halves DEF ZeroIsEndless, NotZero, FlowInv, PanelTypeOK
  <1>2. PICK D : D = NotZero
    OBVIOUS
  <1>3. \A u \in Users \ Endless : D[u] = Int \ {0}
    BY <1>2 DEF NotZero
  <1>4. ZeroIsEndless(D) /\ ExpiriesIn(D) /\ PanelIn(D)
    BY <1>1, <1>2 DEF ExpiriesIn
  <1>5. ASSUME NEW t \in Tasks, MutationApplies(t), request[t].kind = "grant_days"
        PROVE  Applied(request[t], Found(t), now).expiry \in D[request[t].user]
    <2>1. /\ request[t].user \in Users \ Endless /\ request[t].arg \in Nat
          /\ Found(t) \in Client /\ Found(t).expiry \in D[request[t].user]
          /\ Applied(request[t], Found(t), now).expiry
               = CalculateExpiry(Found(t).expiry, request[t].arg, now, Found(t).enable)
      BY <1>4, <1>5, GrantIn
    <2>2. Found(t).expiry \in Int \ {0} /\ Found(t).enable \in BOOLEAN
      BY <1>3, <2>1 DEF Client
    <2>3. QED
      BY <1>3, <2>1, <2>2, ExtendedType
  <1>6. ASSUME NEW t \in Tasks, SetTarget(t)
        PROVE  row'[t] \in D[Owner[job[t]]]
    <2>1. /\ Owner[job[t]] \in Users \ Endless /\ Days[job[t]] \in Nat
          /\ seen[t] \in Client /\ seen[t].expiry \in D[Owner[job[t]]]
          /\ row'[t] = IF row[t] = 0
                       THEN CalculateExpiry(seen[t].expiry, Days[job[t]], now, seen[t].enable)
                       ELSE row[t]
          /\ row[t] # 0 => row[t] \in D[Owner[job[t]]]
      BY <1>4, <1>6, SetTargetIn
    <2>2. seen[t].expiry \in Int \ {0} /\ seen[t].enable \in BOOLEAN
      BY <1>3, <2>1 DEF Client
    <2>3. CalculateExpiry(seen[t].expiry, Days[job[t]], now, seen[t].enable) \in Int \ {0}
      BY <2>1, <2>2, ExtendedType
    <2>4. QED
      BY <1>3, <2>1, <2>3
  <1>7. \A u \in Users \ Lasting : now \in D[u]
    BY <1>1, <1>3 DEF Endless
  <1>8. QED
    BY <1>1, <1>2, <1>5, <1>6, <1>7 DEF Admits

\* A recorded target is not changed by a step.
TargetStep == \A p \in Payments : target[p] # 0 => target'[p] = target[p]

\* While no two handlers apply the same payment, and nobody's client is made perpetual or
\* is no longer so, whatever fails, lands late or is restarted, the expiry recorded for a
\* payment is never changed: every later attempt aims at it (payments.py:399-404).
THEOREM TargetsAreStable ==
    ASSUME DatedOrEndless, NoZeroByHand
    PROVE  Spec /\ []ApplyApart => TargetIsStable
  <1> DEFINE Dated == FlowInv /\ ExpiriesIn(NotZero)
  <1>1. Init => Dated
    <2>1. ListIn(InitialPanel, NotZero)
      <3>1. ASSUME NEW u \in Users, InitialPanel[u] # NoClient
            PROVE  /\ InitialPanel[u].expiry \in NotZero[u]
                   /\ u \in Endless => InitialPanel[u].enable
        <4>1. InitialPanel[u].expiry \in Int
          BY <3>1, PaymentsAssumption DEF Snapshot, Client
        <4>2. QED
          BY <3>1, <4>1 DEF DatedOrEndless, NotZero, Endless, IsUnlimited
      <3>2. QED
        BY <3>1 DEF ListIn, ClientIn, Lasting
    <2>2. QED
      BY <2>1, InitFlow, InitExpiriesIn
  <1>2. SetWithin(NotZero)
    <2>1. ASSUME NEW r \in EditorRequests, r.kind = "set_expiry_ms"
          PROVE  r.arg \in NotZero[r.user]
      <3>1. r.arg \in Nat /\ r.user \in Users
        BY PaymentsAssumption DEF Request
      <3>2. r.arg = 0 <=> r.user \in Endless
        BY <2>1 DEF NoZeroByHand, Endless
      <3>3. QED
        BY <3>1, <3>2 DEF NotZero
    <2>2. QED
      BY <2>1 DEF SetWithin
  <1>3. Dated /\ ApplyApart /\ [Next]_vars => Dated'
    <2>1. ASSUME Dated, ApplyApart, [Next]_vars
          PROVE  ExpiriesIn(NotZero)'
      BY <1>2, <2>1, AdmitsNotZero, NextExpiriesIn
    <2>2. NotZero' = NotZero
      BY DEF NotZero
    <2>3. QED
      BY <2>1, NextFlow
  <1>4. Dated /\ [Next]_vars => TargetStep
    <2> SUFFICES ASSUME Dated, [Next]_vars, NEW p \in Payments, target[p] # 0
                 PROVE  target'[p] = target[p]
      BY DEF TargetStep
    <2>1. CASE target' = target
      BY <2>1
    <2>2. CASE target' # target
      BY <2>2, AdmitsNotZero, TargetStepsIn DEF FlowInv, IInv
    <2>3. QED
      BY <2>1, <2>2
  <1>5. Dated /\ [Next]_vars => [TargetStep]_vars
    BY <1>4
  <1> HIDE DEF Dated
  <1>6. QED
    BY <1>1, <1>3, <1>5, PTL DEF Spec, TargetIsStable, TargetStep

-----------------------------------------------------------------------------
(* Days.  Every day on a client was there at first, was recorded for one of *)
(* its payments, or was asked for by an editor whose request has been       *)
(* carried out: no expiry anywhere exceeds what these add up to.            *)

\* Days a grant that has not been computed yet will add.
AskedBy(t, u) ==
    IF stage[t] \in {"wait", "read"} /\ request[t].kind = "grant_days" /\ request[t].user = u
    THEN request[t].arg ELSE 0

\* What the calls in progress will add to u's client, all together.
Asked(u)   == [t \in Tasks |-> AskedBy(t, u)]
Waiting(u) == Total(Asked(u), Tasks)

\* Payments whose days were counted when their target was recorded.
Used(u) == {p \in Payments : Owner[p] = u /\ target[p] # 0}

\* How far u's expiry may go: from where it started or from now, by the days of the
\* recorded targets and by the grants that have been carried out.
Base(u) == IF InitialPanel[u] = NoClient THEN now ELSE Max({InitialPanel[u].expiry, now})
Room(u) == Base(u) + Total(Days, Used(u)) + manual[u] - Waiting(u)

\* An expiry of u's client that is within bounds: it is in the room, and no earlier than
\* that of a client that is to last.
Possible(e, u, room) ==
    /\ e \in Int /\ e <= room
    /\ e = 0 <=> u \in Endless
    /\ u \in Lasting => InitialPanel[u].expiry <= e

\* The inductive invariant: D bounds every expiry, and the room bounds D.
Within(D) == \A u \in Users : \A e \in D[u] : Possible(e, u, Room(u))
RoomInv ==
    /\ FlowInv
    /\ \A u \in Users : Waiting(u) <= manual[u]
    /\ \E D : Within(D) /\ ExpiriesIn(D)

\* No editor sets an expiry by hand: what is granted is all there is.
NoDatesByHand == \A r \in EditorRequests : r.kind # "set_expiry_ms"

\* The larger of two.
LEMMA LargerOfTwo ==
    ASSUME NEW a \in Int, NEW b \in Int
    PROVE  Max({a, b}) \in Int /\ Max({a, b}) >= a /\ Max({a, b}) >= b
           /\ Max({a, b}) \in {a, b}
  <1>1. \E x \in {a, b} : \A y \in {a, b} : x >= y
    OBVIOUS
  <1>2. QED
    BY <1>1 DEF Max

\* The base rises with the clock.
LEMMA BaseRises ==
    ASSUME FlowInv, FlowInv', now' >= now, NEW u \in Users
    PROVE  Base(u) \in Int /\ Base(u)' \in Int /\ Base(u)' >= Base(u)
           /\ Base(u) >= now /\ Base(u)' >= now'
  <1>1. now \in Nat /\ now' \in Nat
    BY Halves DEF FlowInv, IInv, TypeOK, PanelTypeOK
  <1>2. InitialPanel[u] # NoClient => InitialPanel[u].expiry \in Int
    BY PaymentsAssumption DEF Snapshot, Client
  <1>3. CASE InitialPanel[u] = NoClient
    BY <1>1, <1>3 DEF Base
  <1>4. CASE InitialPanel[u] # NoClient
    <2> DEFINE e == InitialPanel[u].expiry
    <2>1. e \in Int
      BY <1>2, <1>4
    <2>2. Base(u) = Max({e, now}) /\ Base(u)' = Max({e, now'})
      BY <1>4 DEF Base
    <2> HIDE DEF e
    <2>3. \A b \in Int : /\ Max({e, b}) \in Int /\ Max({e, b}) >= e /\ Max({e, b}) >= b
                         /\ Max({e, b}) \in {e, b}
      BY <2>1, LargerOfTwo
    <2>4. PICK m, n : m = Max({e, now}) /\ n = Max({e, now'})
      OBVIOUS
    <2>5. /\ m \in Int /\ m >= now /\ m \in {e, now}
          /\ n \in Int /\ n >= e /\ n >= now'
      BY <1>1, <2>3, <2>4
    <2>6. m \in Int /\ n \in Int /\ n >= m /\ m >= now /\ n >= now'
      BY <1>1, <2>1, <2>5
    <2>7. QED
      BY <2>2, <2>4, <2>6
  <1>5. QED
    BY <1>3, <1>4

\* What is waited for is a number of days for each task.
LEMMA AskedType ==
    ASSUME FlowInv, NEW u \in Users, NEW t \in Tasks
    PROVE  AskedBy(t, u) \in Nat
  <1>1. stage[t] # "idle" => request[t] \in Request
    BY CallHasRequest, Halves DEF FlowInv
  <1>2. QED
    BY <1>1 DEF AskedBy, Request

\* The same of the next state.
LEMMA AskedTypeNext ==
    ASSUME FlowInv', NEW u \in Users, NEW t \in Tasks
    PROVE  AskedBy(t, u)' \in Nat
  <1>1. PanelTypeOK'
    BY DEF FlowInv, IInv, TypeOK
  <1>2. stage'[t] # "idle" => request'[t] \in Request
    BY <1>1 DEF PanelTypeOK, CallTypeOK
  <1>3. QED
    BY <1>2 DEF AskedBy, Request

\* Nobody starts to wait for a grant except an editor, and its days are in manual: either
\* nobody asks, or e asks for r.
AsksNoMore == /\ manual' = manual
              /\ \A u \in Users, t \in Tasks : AskedBy(t, u)' <= AskedBy(t, u)
AsksFor(e, r) ==
    /\ r.kind = "grant_days" /\ manual' = [manual EXCEPT ![r.user] = @ + r.arg]
    /\ \A u \in Users, t \in Tasks :
          AskedBy(t, u)' = IF t = e /\ u = r.user THEN r.arg ELSE AskedBy(t, u)
    /\ AskedBy(e, r.user) = 0 /\ r.user \in Users /\ r.arg \in Nat

\* A call of the gateway gets past its read, and never back.
LEMMA PastTheRead ==
    ASSUME PanelTypeOK, GatewayStep, NEW t \in Tasks, stage'[t] \in {"wait", "read"}
    PROVE  stage[t] \in {"wait", "read"}
  <1>1. stage \in [Tasks -> Stages]
    BY DEF PanelTypeOK
  <1>2. ASSUME NEW x \in Tasks, NEW s \in {"add", "write", "verify", "done", "failed"},
               stage' = [stage EXCEPT ![x] = s]
        PROVE  stage[t] \in {"wait", "read"}
    BY <1>1, <1>2
  <1>3. ASSUME NEW x \in Tasks, Acquire(x)
        PROVE  stage[t] \in {"wait", "read"}
    BY <1>1, <1>3 DEF Acquire, Goto
  <1>4. ASSUME NEW x \in Tasks, Resumes(x), ~Acquire(x)
        PROVE  \E s \in {"add", "write", "verify", "done", "failed"} : stage' = [stage EXCEPT ![x] = s]
    BY <1>4 DEF Resumes, FetchResumes, ClientMissing, NothingToWrite, MutationApplies,
       ClientRouteCalled, EnsureAdds, EnsureUpdates, WriteResumes, VerifyResumes, Goto
  <1>5. ASSUME NEW x \in Tasks, RequestFails(x)
        PROVE  \E s \in {"failed"} : stage' = [stage EXCEPT ![x] = s]
    BY <1>5 DEF RequestFails
  <1>6. CASE UNCHANGED stage
    BY <1>6
  <1>7. QED
    BY <1>2, <1>3, <1>4, <1>5, <1>6 DEF GatewayStep, PanelAnswers, PanelCommits,
       LateWriteLands, CacheExpires

\* One task starts or leaves a call that grants nothing.
LEMMA OwnCallAsks ==
    ASSUME FlowInv, NEW t \in Tasks, manual' = manual, \A u \in Users : AskedBy(t, u)' = 0,
           \A x \in Tasks : x # t => request'[x] = request[x] /\ stage'[x] = stage[x]
    PROVE  AsksNoMore
  <1>1. ASSUME NEW u \in Users, NEW x \in Tasks
        PROVE  AskedBy(x, u)' <= AskedBy(x, u)
    <2>1. AskedBy(x, u) \in Nat
      BY AskedType
    <2>2. CASE x = t
      BY <2>1, <2>2
    <2>3. CASE x # t
      <3>1. AskedBy(x, u)' = AskedBy(x, u)
        BY <2>3 DEF AskedBy
      <3>2. QED
        BY <2>1, <3>1
    <2>4. QED
      BY <2>2, <2>3
  <1>2. QED
    BY <1>1 DEF AsksNoMore

\* Calls of the flow itself grant nothing.
LEMMA FlowAsks ==
    ASSUME FlowInv, NEW t \in Tasks, manual' = manual,
           \/ EndCall(t)
           \/ \E u \in Users : BeginGet(t, u)
           \/ \E r \in Request : BeginWrite(t, r) /\ r.kind # "grant_days"
    PROVE  AsksNoMore
  <1>1. request \in [Tasks -> Request \cup {NoRequest}] /\ stage \in [Tasks -> Stages]
    BY Halves DEF FlowInv, PanelTypeOK
  <1>2. \A x \in Tasks : x # t => request'[x] = request[x] /\ stage'[x] = stage[x]
    BY <1>1 DEF EndCall, BeginGet, BeginWrite
  <1>3. stage'[t] \notin {"wait", "read"} \/ request'[t].kind # "grant_days"
    BY <1>1 DEF EndCall, BeginGet, BeginWrite
  <1>4. \A u \in Users : AskedBy(t, u)' = 0
    BY <1>3 DEF AskedBy
  <1>5. QED
    BY <1>2, <1>4, OwnCallAsks

\* Only an editor's grant adds days to wait for.
LEMMA AskedSteps ==
    ASSUME FlowInv, [Next]_vars
    PROVE  AsksNoMore \/ \E e \in Editors, r \in EditorRequests : AsksFor(e, r)
  <1>1. /\ request \in [Tasks -> Request \cup {NoRequest}] /\ stage \in [Tasks -> Stages]
        /\ PanelTypeOK /\ manual \in [Users -> Nat]
        /\ \A a \in Tasks : HandlerInv(a)
        /\ \A u \in Users, t \in Tasks : AskedBy(t, u) \in Nat
        /\ Users \subseteq Tasks /\ Reviewers \subseteq Tasks /\ Editors \subseteq Tasks
        /\ \A p \in Payments : Owner[p] \in Users
    BY Halves, AskedType, PaymentsAssumption DEF FlowInv, OwnTypeOK, PanelTypeOK
  <1>2. ASSUME UNCHANGED <<request, stage, manual>>
        PROVE  AsksNoMore
    BY <1>1, <1>2 DEF AsksNoMore, AskedBy
  <1>3. ASSUME NEW t \in Tasks, Handles(t)
        PROVE  AsksNoMore
    <2>1. manual' = manual
      BY <1>3 DEF Handles, CardSent, LoadRow, StartsApply, Enable, EnabledPerpetual,
         AlreadyReached, SetTarget, TargetSet, MarkApplied, ApplyFails, Edited
    <2>2. pc[t] \in Applying => Owner[job[t]] \in Users
      BY <1>1 DEF HandlerInv
    <2>3. CASE \/ CardSent(t) \/ EnabledPerpetual(t) \/ AlreadyReached(t) \/ TargetSet(t)
               \/ ApplyFails(t)
      BY <2>1, <2>3, FlowAsks DEF CardSent, EnabledPerpetual, AlreadyReached, TargetSet,
         ApplyFails
    <2>4. CASE LoadRow(t)
      BY <2>1, <2>2, <2>4, FlowAsks DEF LoadRow, StartsApply, Applying
    <2>5. CASE Enable(t)
      <3> DEFINE r == [kind |-> "set_enabled", user |-> Owner[job[t]], arg |-> 1]
      <3>1. r \in Request /\ r.kind # "grant_days" /\ BeginWrite(t, r)
        BY <2>2, <2>5 DEF Enable, Request, Writes, Mutations, Applying
      <3> HIDE DEF r
      <3>2. QED
        BY <2>1, <3>1, FlowAsks
    <2>6. CASE SetTarget(t)
      <3> DEFINE r == [kind |-> "set_expiry_ms", user |-> Owner[job[t]], arg |-> row'[t]]
      <3>1. row'[t] \in Nat /\ BeginWrite(t, r)
        BY <2>6, TargetIsNat DEF FlowInv
      <3>2. r \in Request /\ r.kind # "grant_days"
        BY <2>2, <2>6, <3>1 DEF SetTarget, Enabled, Request, Writes, Mutations, Applying
      <3> HIDE DEF r
      <3>3. QED
        BY <2>1, <3>1, <3>2, FlowAsks
    <2>7. CASE MarkApplied(t)
      BY <1>2, <2>7 DEF MarkApplied, panelVars
    <2>8. CASE Edited(t)
      <3>1. pc[t] = "edit" /\ BeginGet(t, request[t].user)
        BY <2>8 DEF Edited
      <3>2. request[t].user \in Users
        BY <1>1, <3>1, CallHasRequest DEF HandlerInv, Request
      <3>3. QED
        BY <2>1, <3>1, <3>2, FlowAsks
    <2>9. QED
      BY <1>3, <2>3, <2>4, <2>5, <2>6, <2>7, <2>8 DEF Handles
  <1>4. ASSUME NEW p \in Payments, NEW u \in Users,
               Select(u, p) \/ Submit(u, p) \/ AttachReceipt(u, p) \/ Cancel(u, p)
        PROVE  AsksNoMore
    <2>1. CASE Submit(u, p)
      BY <1>1, <2>1, FlowAsks DEF Submit
    <2>2. QED
      BY <1>2, <1>4, <2>1 DEF Select, AttachReceipt, Cancel, panelVars
  <1>5. ASSUME NEW p \in Payments, NEW a \in Reviewers,
                Approve(a, p) \/ Decline(a, p) \/ Retry(a, p)
        PROVE  AsksNoMore
    <2>1. CASE Retry(a, p)
      BY <1>1, <2>1, FlowAsks DEF Retry, StartsApply
    <2>2. QED
      BY <1>2, <1>5, <2>1 DEF Approve, Decline, panelVars
  <1>6. ASSUME NEW e \in Editors, Edit(e)
        PROVE  AsksNoMore \/ \E r \in EditorRequests : AsksFor(e, r)
    <2>1. PICK r \in EditorRequests :
             /\ BeginWrite(e, r)
             /\ manual' = IF r.kind = "grant_days"
                          THEN [manual EXCEPT ![r.user] = @ + r.arg] ELSE manual
      BY <1>6 DEF Edit
    <2>2. e \in Tasks /\ stage[e] = "idle" /\ r \in Request /\ r.user \in Users /\ r.arg \in Nat
      BY <1>1, <1>6, PaymentsAssumption DEF Edit, Idle, HandlerInv, Request
    <2>3. CASE r.kind # "grant_days"
      BY <2>1, <2>2, <2>3, FlowAsks
    <2>4. CASE r.kind = "grant_days"
      <3>1. /\ request'[e] = r /\ stage'[e] = "wait"
            /\ \A x \in Tasks : x # e => request'[x] = request[x] /\ stage'[x] = stage[x]
        BY <1>1, <2>1, <2>2 DEF BeginWrite
      <3>2. ASSUME NEW u \in Users, NEW x \in Tasks
            PROVE  AskedBy(x, u)' = IF x = e /\ u = r.user THEN r.arg ELSE AskedBy(x, u)
        <4>1. CASE x = e
          BY <2>2, <2>4, <3>1, <4>1 DEF AskedBy
        <4>2. CASE x # e
          BY <3>1, <4>2 DEF AskedBy
        <4>3. QED
          BY <4>1, <4>2
      <3>3. AskedBy(e, r.user) = 0
        BY <2>2 DEF AskedBy
      <3>4. QED
        BY <2>1, <2>2, <2>4, <3>2, <3>3 DEF AsksFor
    <2>5. QED
      BY <2>3, <2>4
  <1>7. CASE Crash
    <2>1. manual' = manual /\ \A t \in Tasks : stage'[t] = "idle"
      BY <1>7 DEF Crash, Reset
    <2>2. \A u \in Users, t \in Tasks : AskedBy(t, u)' = 0
      BY <2>1 DEF AskedBy
    <2>3. QED
      BY <1>1, <2>1, <2>2 DEF AsksNoMore
  <1>8. CASE (\E p \in Payments : Expire(p)) \/ Restart \/ Tick \/ UNCHANGED vars
    BY <1>2, <1>8 DEF Expire, Restart, Tick, vars, panelVars
  <1>9. CASE GatewayStep /\ UNCHANGED <<dbVars, taskVars, offered, edits, manual, up, crashes>>
    <2>1. UNCHANGED <<request, manual>>
      BY <1>9, GatewayStepKeepsRequests
    <2>2. ASSUME NEW u \in Users, NEW t \in Tasks
          PROVE  AskedBy(t, u)' <= AskedBy(t, u)
      <3>1. stage'[t] \in {"wait", "read"} => stage[t] \in {"wait", "read"}
        BY <1>1, <1>9, PastTheRead
      <3>2. AskedBy(t, u)' = AskedBy(t, u) \/ AskedBy(t, u)' = 0
        BY <2>1, <3>1 DEF AskedBy
      <3>3. QED
        BY <1>1, <3>2
    <2>3. QED
      BY <2>1, <2>2 DEF AsksNoMore
  <1>10. QED
    BY <1>3, <1>4, <1>5, <1>6, <1>7, <1>8, <1>9 DEF Next

\* Who no longer waits for n days makes the total that much smaller.
LEMMA WaitingFalls ==
    ASSUME FlowInv, FlowInv', IsFiniteSet(Tasks), AsksNoMore, NEW u \in Users, NEW t \in Tasks,
           NEW n \in Nat, AskedBy(t, u)' + n <= AskedBy(t, u)
    PROVE  Waiting(u) \in Nat /\ Waiting(u)' \in Nat /\ Waiting(u)' + n <= Waiting(u)
  <1>1. PICK f, g : f = Asked(u) /\ g = Asked(u)'
    OBVIOUS
  <1>2. \A x \in Tasks : AskedBy(x, u) \in Nat /\ AskedBy(x, u)' \in Nat
    BY AskedType, AskedTypeNext
  <1>3. \A x \in Tasks : f[x] = AskedBy(x, u) /\ g[x] = AskedBy(x, u)' /\ g[x] <= f[x]
    BY <1>1 DEF Asked, AsksNoMore
  <1>4. Waiting(u) = Total(f, Tasks) /\ Waiting(u)' = Total(g, Tasks)
    BY <1>1 DEF Waiting
  <1> DEFINE h == [x \in Tasks |-> IF x = t THEN f[t] - n ELSE f[x]]
  <1>5. \A x \in Tasks : /\ f[x] \in Nat /\ g[x] \in Nat /\ h[x] \in Nat
                         /\ g[x] <= h[x] /\ (x # t => h[x] = f[x])
    BY <1>2, <1>3
  <1>6. h[t] = f[t] - n
    OBVIOUS
  <1> HIDE DEF h
  <1>7. Total(h, Tasks) = Total(f, Tasks) - f[t] + h[t]
    BY <1>5, TotalChange
  <1>8. Total(g, Tasks) <= Total(h, Tasks)
    BY <1>5, TotalPointwise
  <1>9. Total(f, Tasks) \in Nat /\ Total(g, Tasks) \in Nat /\ Total(h, Tasks) \in Nat
    BY <1>5, TotalAny
  <1>10. QED
    BY <1>4, <1>5, <1>6, <1>7, <1>8, <1>9

\* A grant an editor asks for makes it larger by its days.
LEMMA WaitingRises ==
    ASSUME FlowInv, FlowInv', IsFiniteSet(Tasks), NEW e \in Tasks, NEW r, AsksFor(e, r),
           NEW u \in Users
    PROVE  /\ Waiting(u) \in Nat /\ Waiting(u)' \in Nat
           /\ Waiting(u)' = Waiting(u) + (IF u = r.user THEN r.arg ELSE 0)
  <1>1. PICK f, g : f = Asked(u) /\ g = Asked(u)'
    OBVIOUS
  <1>2. \A x \in Tasks : AskedBy(x, u) \in Nat /\ AskedBy(x, u)' \in Nat
    BY AskedType, AskedTypeNext
  <1>3. \A x \in Tasks : f[x] = AskedBy(x, u) /\ g[x] = AskedBy(x, u)'
    BY <1>1 DEF Asked
  <1>4. Waiting(u) = Total(f, Tasks) /\ Waiting(u)' = Total(g, Tasks)
    BY <1>1 DEF Waiting
  <1>5. \A x \in Tasks : f[x] \in Nat /\ g[x] \in Nat /\ (x # e => g[x] = f[x])
    BY <1>2, <1>3 DEF AsksFor
  <1>6. g[e] = f[e] + (IF u = r.user THEN r.arg ELSE 0)
    BY <1>2, <1>3 DEF AsksFor
  <1>7. Total(g, Tasks) = Total(f, Tasks) - f[e] + g[e]
    BY <1>5, TotalChange
  <1>8. Total(f, Tasks) \in Nat /\ Total(g, Tasks) \in Nat
    BY <1>5, TotalAny
  <1>9. (IF u = r.user THEN r.arg ELSE 0) \in Nat
    BY DEF AsksFor
  <1>10. QED
    BY <1>4, <1>5, <1>6, <1>7, <1>8, <1>9

\* Days asked for and carried out never get fewer, and a grant carries out its own.
LEMMA CarriedOut ==
    ASSUME FlowInv, FlowInv', IsFiniteSet(Tasks), [Next]_vars, NEW u \in Users
    PROVE  /\ Waiting(u) \in Nat /\ Waiting(u)' \in Nat /\ manual[u] \in Nat /\ manual'[u] \in Nat
           /\ Waiting(u) <= manual[u] => Waiting(u)' <= manual'[u]
           /\ manual'[u] - Waiting(u)' >= manual[u] - Waiting(u)
           /\ \A t \in Tasks :
                 MutationApplies(t) /\ request[t].kind = "grant_days" /\ request[t].user = u
                 => manual'[u] - Waiting(u)' >= manual[u] - Waiting(u) + request[t].arg
  <1>1. /\ manual \in [Users -> Nat] /\ manual' \in [Users -> Nat]
        /\ Users \subseteq Tasks /\ Editors \subseteq Tasks
        /\ stage \in [Tasks -> Stages]
        /\ \A t \in Tasks : AskedBy(t, u) \in Nat /\ AskedBy(t, u)' \in Nat
    BY AskedType, AskedTypeNext, PaymentsAssumption DEF FlowInv, IInv, TypeOK, PanelTypeOK
  <1>2. ASSUME NEW t \in Tasks, MutationApplies(t), request[t].kind = "grant_days",
               request[t].user = u
        PROVE  /\ AskedBy(t, u)' = 0 /\ AskedBy(t, u) = request[t].arg
               /\ request[t].arg \in Nat
    <2>1. stage[t] = "read" /\ stage'[t] = "write"
      BY <1>1, <1>2 DEF MutationApplies, ReadDone, Goto
    <2>2. AskedBy(t, u)' = 0 /\ AskedBy(t, u) = request[t].arg
      BY <1>2, <2>1 DEF AskedBy
    <2>3. QED
      BY <1>1, <2>2
  <1>3. CASE AsksNoMore
    <2>1. AskedBy(u, u)' + 0 <= AskedBy(u, u) /\ u \in Tasks /\ manual' = manual
      BY <1>1, <1>3 DEF AsksNoMore
    <2>2. Waiting(u) \in Nat /\ Waiting(u)' \in Nat /\ Waiting(u)' + 0 <= Waiting(u)
      BY <1>3, <2>1, WaitingFalls
    <2>3. ASSUME NEW t \in Tasks, MutationApplies(t), request[t].kind = "grant_days",
                 request[t].user = u
          PROVE  Waiting(u)' + request[t].arg <= Waiting(u)
      <3>1. request[t].arg \in Nat /\ AskedBy(t, u)' + request[t].arg <= AskedBy(t, u)
        BY <1>2, <2>3
      <3>2. QED
        BY <1>3, <3>1, WaitingFalls
    <2>4. QED
      BY <1>1, <1>2, <2>1, <2>2, <2>3
  <1>4. ASSUME NEW e \in Editors, NEW r \in EditorRequests, AsksFor(e, r)
        PROVE  /\ Waiting(u) \in Nat /\ Waiting(u)' \in Nat
               /\ Waiting(u)' = Waiting(u) + (IF u = r.user THEN r.arg ELSE 0)
               /\ manual'[u] = manual[u] + (IF u = r.user THEN r.arg ELSE 0)
               /\ (IF u = r.user THEN r.arg ELSE 0) \in Nat
               /\ \A t \in Tasks :
                     MutationApplies(t) /\ request[t].kind = "grant_days" /\ request[t].user = u
                     => request[t].arg = 0
    <2>1. Waiting(u) \in Nat /\ Waiting(u)' \in Nat
          /\ Waiting(u)' = Waiting(u) + (IF u = r.user THEN r.arg ELSE 0)
      BY <1>1, <1>4, WaitingRises
    <2>2. /\ manual'[u] = manual[u] + (IF u = r.user THEN r.arg ELSE 0)
          /\ (IF u = r.user THEN r.arg ELSE 0) \in Nat
      BY <1>1, <1>4 DEF AsksFor
    <2>3. ASSUME NEW t \in Tasks, MutationApplies(t), request[t].kind = "grant_days",
                 request[t].user = u
          PROVE  request[t].arg = 0
      BY <1>2, <1>4, <2>3 DEF AsksFor
    <2>4. QED
      BY <2>1, <2>2, <2>3
  <1>5. CASE \E e \in Editors, r \in EditorRequests : AsksFor(e, r)
    <2>1. PICK n \in Nat :
             /\ Waiting(u) \in Nat /\ Waiting(u)' \in Nat
             /\ Waiting(u)' = Waiting(u) + n /\ manual'[u] = manual[u] + n
             /\ \A t \in Tasks :
                   MutationApplies(t) /\ request[t].kind = "grant_days" /\ request[t].user = u
                   => request[t].arg = 0
      BY <1>4, <1>5
    <2>2. QED
      BY <1>1, <2>1
  <1>6. QED
    BY <1>3, <1>5, AskedSteps

\* A new target makes a payment one of those whose days were counted.
LEMMA DaysCounted ==
    ASSUME FlowInv, FlowInv', IsFiniteSet(Payments), [Next]_vars, NEW D, ExpiriesIn(D),
           ZeroIsEndless(D), NEW u \in Users
    PROVE  /\ Total(Days, Used(u)) \in Nat /\ Total(Days, Used(u))' \in Nat
           /\ Total(Days, Used(u))' >= Total(Days, Used(u))
           /\ \A t \in Tasks :
                 SetTarget(t) /\ row[t] = 0 /\ Owner[job[t]] = u
                 => Total(Days, Used(u))' >= Total(Days, Used(u)) + Days[job[t]]
  <1>1. PICK A, B : A = Used(u) /\ B = Used(u)'
    OBVIOUS
  <1>2. A \in SUBSET Payments /\ B \in SUBSET Payments
    BY <1>1 DEF Used
  <1>3. Total(Days, Used(u)) = Total(Days, A) /\ Total(Days, Used(u))' = Total(Days, B)
    BY <1>1
  <1>4. IsFiniteSet(B) /\ \A p \in Payments : Days[p] \in Nat
    BY <1>2, FS_Subset, PaymentsAssumption
  <1>5. target \in [Payments -> Nat]
    BY HandlerTypes
  <1>6. ASSUME NEW t \in Tasks, SetTarget(t)
        PROVE  /\ row'[t] # 0 /\ job[t] \in Payments
               /\ row[t] = 0 => target[job[t]] = 0 /\ RecordTarget(t, row'[t])
    <2>1. row'[t] # 0 /\ job[t] \in Payments /\ row[t] = target[job[t]]
      BY <1>6, TargetNotZero, SetTargetIn
    <2>2. row[t] = 0 => RecordTarget(t, row'[t])
      BY <1>6, HandlerTypes DEF SetTarget
    <2>3. QED
      BY <2>1, <2>2
  <1>7. A \subseteq B
    <2>1. CASE target' = target
      BY <1>1, <2>1 DEF Used
    <2>2. CASE target' # target
      <3>1. PICK t \in Tasks : /\ SetTarget(t) /\ job[t] \in Payments /\ target[job[t]] = 0
                               /\ target' = [target EXCEPT ![job[t]] = row'[t]]
        BY <2>2, TargetStepsIn
      <3>2. QED
        BY <1>1, <1>5, <3>1 DEF Used
    <2>3. QED
      BY <2>1, <2>2
  <1>8. Total(Days, A) \in Nat /\ Total(Days, B) \in Nat /\ Total(Days, A) <= Total(Days, B)
    BY <1>2, <1>4, <1>7, TotalAny, TotalMono
  <1>9. ASSUME NEW t \in Tasks, SetTarget(t), row[t] = 0, Owner[job[t]] = u
        PROVE  Total(Days, B) = Total(Days, A) + Days[job[t]]
    <2>1. /\ target' = [target EXCEPT ![job[t]] = row'[t]] /\ row'[t] # 0
          /\ job[t] \in Payments /\ target[job[t]] = 0
      BY <1>6, <1>9 DEF RecordTarget
    <2>2. job[t] \in Payments \ A /\ B = A \cup {job[t]}
      BY <1>1, <1>5, <1>9, <2>1 DEF Used
    <2>3. Total(Days, A \cup {job[t]}) = Total(Days, A) + Days[job[t]]
      BY <1>2, <1>4, <2>2, TotalAny
    <2>4. QED
      BY <2>2, <2>3
  <1>10. QED
    BY <1>3, <1>4, <1>8, <1>9

\* Nobody's room shrinks, and what is added to a client is added to its room.
LEMMA RoomRises ==
    ASSUME FlowInv, FlowInv', IsFiniteSet(Tasks), IsFiniteSet(Payments), [Next]_vars,
           NEW D, ExpiriesIn(D), ZeroIsEndless(D), NEW u \in Users
    PROVE  /\ Room(u) \in Int /\ Room(u)' \in Int /\ Room(u)' >= Room(u)
           /\ Waiting(u) <= manual[u] => Room(u) >= now /\ Waiting(u)' <= manual'[u]
           /\ \A t \in Tasks :
                 /\ MutationApplies(t) /\ request[t].kind = "grant_days" /\ request[t].user = u
                    => Room(u)' >= Room(u) + request[t].arg
                 /\ SetTarget(t) /\ row[t] = 0 /\ Owner[job[t]] = u
                    => Room(u)' >= Room(u) + Days[job[t]]
  <1>1. now' >= now /\ now \in Nat /\ now' \in Nat
    <2>1. now \in Nat /\ now' \in Nat
      BY DEF FlowInv, IInv, TypeOK, PanelTypeOK
    <2>2. now' = now \/ now' = now + 1
      BY NowSteps
    <2>3. QED
      BY <2>1, <2>2
  <1>2. PICK b, c : b = Base(u) /\ c = Base(u)'
    OBVIOUS
  <1>3. b \in Int /\ c \in Int /\ c >= b /\ b >= now
    BY <1>1, <1>2, BaseRises
  <1>4. PICK i, j : i = Total(Days, Used(u)) /\ j = Total(Days, Used(u))'
    OBVIOUS
  <1>5. /\ i \in Nat /\ j \in Nat /\ j >= i
        /\ \A t \in Tasks : SetTarget(t) /\ row[t] = 0 /\ Owner[job[t]] = u
                            => j >= i + Days[job[t]]
    BY <1>4, DaysCounted
  <1>6. PICK v, w : v = Waiting(u) /\ w = Waiting(u)'
    OBVIOUS
  <1>7. /\ v \in Nat /\ w \in Nat /\ manual[u] \in Nat /\ manual'[u] \in Nat
        /\ v <= manual[u] => w <= manual'[u]
        /\ manual'[u] - w >= manual[u] - v
        /\ \A t \in Tasks :
              MutationApplies(t) /\ request[t].kind = "grant_days" /\ request[t].user = u
              => manual'[u] - w >= manual[u] - v + request[t].arg
    BY <1>6, CarriedOut
  <1>8. Room(u) = b + i + manual[u] - v /\ Room(u)' = c + j + manual'[u] - w
    BY <1>2, <1>4, <1>6 DEF Room
  <1>9. Room(u) \in Int /\ Room(u)' \in Int /\ Room(u)' >= Room(u)
    BY <1>3, <1>5, <1>7, <1>8
  <1>10. v <= manual[u] => Room(u) >= now /\ w <= manual'[u]
    BY <1>1, <1>3, <1>5, <1>7, <1>8
  <1>11. ASSUME NEW t \in Tasks, MutationApplies(t), request[t].kind = "grant_days",
                request[t].user = u
         PROVE  Room(u)' >= Room(u) + request[t].arg
    <2>1. manual'[u] - w >= manual[u] - v + request[t].arg
      BY <1>7, <1>11
    <2>2. request[t].arg \in Nat
      BY <1>11, ReadDoneType, Halves DEF MutationApplies, FlowInv, Request
    <2>3. QED
      BY <1>3, <1>5, <1>7, <1>8, <2>1, <2>2
  <1>12. ASSUME NEW t \in Tasks, SetTarget(t), row[t] = 0, Owner[job[t]] = u
         PROVE  Room(u)' >= Room(u) + Days[job[t]]
    <2>1. j >= i + Days[job[t]]
      BY <1>5, <1>12
    <2>2. Days[job[t]] \in Nat
      BY <1>12, PaymentsAssumption DEF FlowInv, IInv, HandlerInv, SetTarget, Enabled, Applying
    <2>3. QED
      BY <1>3, <1>5, <1>7, <1>8, <2>1, <2>2
  <1>13. QED
    BY <1>6, <1>9, <1>10, <1>11, <1>12

\* What is added to an expiry goes no further than what is added to the room.
LEMMA AddedWithin ==
    ASSUME FlowInv, NEW u \in Users \ Endless, NEW old, NEW m \in Int, Possible(old, u, m),
           NEW days \in Nat, NEW en \in BOOLEAN, NEW n \in Int, n >= m + days, now <= m
    PROVE  Possible(CalculateExpiry(old, days, now, en), u, n)
  <1>1. now \in Nat /\ now > 0
    BY Halves DEF FlowInv, PanelTypeOK
  <1>2. u \in Lasting => InitialPanel[u].expiry \in Int
    BY PaymentsAssumption DEF Lasting, Snapshot, Client
  <1>3. old \in Int /\ old <= m /\ old # 0 /\ (u \in Lasting => InitialPanel[u].expiry <= old)
    BY DEF Possible
  <1>4. /\ CalculateExpiry(old, days, now, en) \in Int
        /\ CalculateExpiry(old, days, now, en) # 0
        /\ CalculateExpiry(old, days, now, en) >= old
        /\ CalculateExpiry(old, days, now, en) <= n
    BY <1>1, <1>3 DEF CalculateExpiry, IsUnlimited
  <1>5. QED
    BY <1>2, <1>3, <1>4 DEF Possible

\* Every step leaves the expiries within the room.
LEMMA NextRoom ==
    ASSUME RoomInv, ApplyApart, NoDatesByHand, IsFiniteSet(Tasks), IsFiniteSet(Payments),
           [Next]_vars
    PROVE  RoomInv'
  <1>1. FlowInv /\ FlowInv'
    BY NextFlow DEF RoomInv
  <1>2. PICK D : Within(D) /\ ExpiriesIn(D)
    BY DEF RoomInv
  <1>3. ZeroIsEndless(D) /\ PanelIn(D)
    BY <1>2 DEF Within, Possible, ZeroIsEndless, ExpiriesIn
  <1>4. ASSUME NEW u \in Users
        PROVE  /\ Room(u) \in Int /\ Room(u)' \in Int /\ Room(u)' >= Room(u) /\ Room(u) >= now
               /\ Waiting(u)' <= manual'[u]
               /\ \A t \in Tasks :
                     /\ MutationApplies(t) /\ request[t].kind = "grant_days" /\ request[t].user = u
                        => Room(u)' >= Room(u) + request[t].arg
                     /\ SetTarget(t) /\ row[t] = 0 /\ Owner[job[t]] = u
                        => Room(u)' >= Room(u) + Days[job[t]]
    BY <1>1, <1>2, <1>3, RoomRises DEF RoomInv
  <1>5. PICK R : R = [u \in Users |-> Room(u)']
    OBVIOUS
  <1>6. PICK E : E = [u \in Users |-> {e \in Int : Possible(e, u, R[u])}]
    OBVIOUS
  <1>7. ASSUME NEW u \in Users, NEW e
        PROVE  e \in E[u] <=> Possible(e, u, R[u])
    BY <1>6 DEF Possible
  <1>8. ASSUME NEW u \in Users, NEW e \in D[u]
        PROVE  Possible(e, u, Room(u)) /\ e \in E[u]
    <2>1. Possible(e, u, Room(u)) /\ R[u] >= Room(u) /\ R[u] \in Int /\ Room(u) \in Int
      BY <1>2, <1>4, <1>5 DEF Within
    <2>2. Possible(e, u, R[u])
      BY <2>1 DEF Possible
    <2>3. QED
      BY <1>7, <2>1, <2>2
  <1>9. ExpiriesIn(E)
    BY <1>1, <1>2, <1>8, MoreExpiries
  <1>10. ASSUME NEW t \in Tasks, MutationApplies(t), request[t].kind = "grant_days"
         PROVE  Applied(request[t], Found(t), now).expiry \in E[request[t].user]
    <2> DEFINE u == request[t].user
               c == Found(t)
    <2>1. /\ u \in Users \ Endless /\ request[t].arg \in Nat /\ c \in Client /\ c.expiry \in D[u]
          /\ Applied(request[t], c, now).expiry
               = CalculateExpiry(c.expiry, request[t].arg, now, c.enable)
      BY <1>1, <1>3, <1>10, GrantIn
    <2>2. R[u] \in Int /\ Room(u) \in Int /\ R[u] >= Room(u) + request[t].arg /\ now <= Room(u)
      BY <1>1, <1>4, <1>5, <1>10, <2>1, Halves DEF FlowInv, PanelTypeOK
    <2>3. Possible(c.expiry, u, Room(u)) /\ c.enable \in BOOLEAN
      BY <1>8, <2>1 DEF Client
    <2>4. Possible(CalculateExpiry(c.expiry, request[t].arg, now, c.enable), u, R[u])
      BY <1>1, <2>1, <2>2, <2>3, AddedWithin
    <2>5. QED
      BY <1>7, <2>1, <2>4
  <1>11. ASSUME NEW t \in Tasks, SetTarget(t)
         PROVE  row'[t] \in E[Owner[job[t]]]
    <2> DEFINE u == Owner[job[t]]
               c == seen[t]
    <2>1. /\ u \in Users \ Endless /\ Days[job[t]] \in Nat /\ c \in Client /\ c.expiry \in D[u]
          /\ row'[t] = IF row[t] = 0 THEN CalculateExpiry(c.expiry, Days[job[t]], now, c.enable)
                                     ELSE row[t]
          /\ row[t] # 0 => row[t] \in D[u]
      BY <1>1, <1>2, <1>3, <1>11, SetTargetIn
    <2>2. CASE row[t] = 0
      <3>1. R[u] \in Int /\ Room(u) \in Int /\ R[u] >= Room(u) + Days[job[t]] /\ now <= Room(u)
        BY <1>1, <1>4, <1>5, <1>11, <2>1, <2>2, Halves DEF FlowInv, PanelTypeOK
      <3>2. Possible(c.expiry, u, Room(u)) /\ c.enable \in BOOLEAN
        BY <1>8, <2>1 DEF Client
      <3>3. Possible(CalculateExpiry(c.expiry, Days[job[t]], now, c.enable), u, R[u])
        BY <1>1, <2>1, <3>1, <3>2, AddedWithin
      <3>4. QED
        BY <1>7, <2>1, <2>2, <3>3
    <2>3. CASE row[t] # 0
      BY <1>8, <2>1, <2>3
    <2>4. QED
      BY <2>2, <2>3
  <1>12. ASSUME NEW u \in Users \ Lasting
         PROVE  now \in E[u]
    <2>1. now \in Nat /\ now > 0 /\ now <= R[u] /\ R[u] \in Int
      BY <1>1, <1>4, <1>5, Halves DEF FlowInv, PanelTypeOK
    <2>2. Possible(now, u, R[u])
      BY <2>1 DEF Possible, Endless
    <2>3. QED
      BY <1>7, <2>2
  <1>13. Admits(E) /\ ZeroIsEndless(E) /\ SetWithin(E)
    <2>1. ZeroIsEndless(E)
      BY <1>7 DEF ZeroIsEndless, Possible
    <2>2. QED
      BY <1>10, <1>11, <1>12, <2>1 DEF Admits, SetWithin, NoDatesByHand
  <1>14. ExpiriesIn(E)'
    BY <1>1, <1>9, <1>13, NextExpiriesIn
  <1>15. Within(E)'
    <2>1. ASSUME NEW u \in Users, NEW e \in E[u]
          PROVE  Possible(e, u, Room(u)')
      BY <1>5, <1>7, <2>1
    <2>2. QED
      BY <2>1 DEF Within, Possible
  <1>16. QED
    BY <1>1, <1>4, <1>14, <1>15 DEF RoomInv

\* At first nothing was asked for, and nothing is above where it started.
LEMMA InitRoom ==
    ASSUME Init, DatedOrEndless, IsFiniteSet(Tasks), IsFiniteSet(Payments)
    PROVE  RoomInv
  <1>1. FlowInv
    BY InitFlow
  <1>2. /\ PanelInit(InitialPanel, 1) /\ manual = [u \in Users |-> 0]
        /\ target = [p \in Payments |-> 0]
    BY DEF Init
  <1>3. ASSUME NEW u \in Users
        PROVE  Waiting(u) = 0 /\ manual[u] = 0
    <2>1. PICK f : f = Asked(u)
      OBVIOUS
    <2>2. \A t \in Tasks : f[t] = 0
      BY <1>2, <2>1 DEF PanelInit, Asked, AskedBy
    <2>3. \A t \in Tasks : f[t] \in Nat /\ 0 \in Nat
      BY <2>2
    <2>4. Total(f, Tasks) = 0
      BY <2>2, TotalZero
    <2>5. QED
      BY <1>2, <2>1, <2>4 DEF Waiting
  <1>4. ASSUME NEW u \in Users, InitialPanel[u] # NoClient
        PROVE  InitialPanel[u].expiry \in Int /\ InitialPanel[u].expiry <= Room(u)
    <2>1. Used(u) = {}
      BY <1>2 DEF Used
    <2>2. Room(u) = Base(u) + 0 + 0 - 0
      BY <1>3, <2>1, TotalEmpty DEF Room
    <2>3. InitialPanel[u].expiry \in Int /\ now \in Int
      BY <1>2, <1>4, PaymentsAssumption DEF Snapshot, Client, PanelInit
    <2>4. Base(u) \in Int /\ Base(u) >= InitialPanel[u].expiry
      BY <1>4, <2>3, LargerOfTwo DEF Base
    <2>5. QED
      BY <2>2, <2>3, <2>4
  <1>5. PICK D : D = [u \in Users |-> {e \in Int : Possible(e, u, Room(u))}]
    OBVIOUS
  <1>6. ListIn(InitialPanel, D)
    <2>1. ASSUME NEW u \in Users, InitialPanel[u] # NoClient
          PROVE  /\ InitialPanel[u].expiry \in D[u]
                 /\ u \in Endless => InitialPanel[u].enable
      BY <1>4, <1>5, <2>1 DEF DatedOrEndless, Possible, Endless, IsUnlimited
    <2>2. QED
      BY <2>1 DEF ListIn, ClientIn, Lasting
  <1>7. Within(D)
    BY <1>5 DEF Within
  <1>8. ExpiriesIn(D)
    BY <1>6, InitExpiriesIn
  <1>9. QED
    BY <1>1, <1>3, <1>7, <1>8 DEF RoomInv

\* Nobody is over-granted while the expiries are within the room.
LEMMA RoomSuffices ==
    ASSUME RoomInv, IsFiniteSet(Tasks), IsFiniteSet(Payments)
    PROVE  NoOverGrant
  <1> SUFFICES ASSUME NEW u \in Users, panel[u] # NoClient, InitialPanel[u] # NoClient
               PROVE  panel[u].expiry
                        <= Max({InitialPanel[u].expiry, now}) + Paid(u) + manual[u]
    BY DEF NoOverGrant
  <1>1. FlowInv /\ Waiting(u) <= manual[u]
    BY DEF RoomInv
  <1>2. panel[u].expiry \in Int /\ panel[u].expiry <= Room(u)
    BY DEF RoomInv, Within, Possible, ExpiriesIn, PanelIn, ListIn, ClientIn
  <1>3. PICK A, B : /\ A = Used(u)
                    /\ B = {p \in Payments : Owner[p] = u /\ status[p] = "approved"}
    OBVIOUS
  <1>4. A \subseteq B
    BY <1>3 DEF Used, RoomInv, ExpiriesIn, TargetIn
  <1>5. IsFiniteSet(B) /\ \A p \in B : Days[p] \in Nat
    BY <1>3, FS_Subset, PaymentsAssumption
  <1>6. Total(Days, A) \in Nat /\ Total(Days, B) \in Nat /\ Total(Days, A) <= Total(Days, B)
    BY <1>4, <1>5, TotalAny, TotalMono
  <1>7. Paid(u) = Total(Days, B)
    BY <1>3 DEF Paid, Total
  <1>8. PICK b : b = Max({InitialPanel[u].expiry, now})
    OBVIOUS
  <1>9. b \in Int
    <2>1. InitialPanel[u].expiry \in Int /\ now \in Int
      BY <1>1, Halves, PaymentsAssumption DEF FlowInv, PanelTypeOK, Snapshot, Client
    <2>2. QED
      BY <1>8, <2>1, LargerOfTwo
  <1>10. Room(u) = b + Total(Days, A) + manual[u] - Waiting(u)
    BY <1>3, <1>8 DEF Room, Base
  <1>11. Waiting(u) \in Nat /\ manual[u] \in Nat
    <2>1. PICK f : f = Asked(u)
      OBVIOUS
    <2>2. \A t \in Tasks : f[t] \in Nat
      BY <1>1, <2>1, AskedType DEF Asked
    <2>3. Total(f, Tasks) \in Nat
      BY <2>2, TotalAny
    <2>4. QED
      BY <1>1, <2>1, <2>3, Halves DEF Waiting, FlowInv, OwnTypeOK
  <1>12. QED
    BY <1>1, <1>2, <1>6, <1>7, <1>8, <1>9, <1>10, <1>11

\* While no two handlers apply the same payment at a time, whatever requests fail, land
\* late or are asked for by editors meanwhile, and wherever the process dies, days are
\* never granted twice (payments.py:8-12).
THEOREM DaysAreNotGrantedTwice ==
    ASSUME DatedOrEndless, NoDatesByHand, IsFiniteSet(Tasks), IsFiniteSet(Payments)
    PROVE  Spec /\ []ApplyApart => []NoOverGrant
  <1>1. Init => RoomInv
    BY InitRoom
  <1>2. RoomInv /\ ApplyApart /\ [Next]_vars => RoomInv'
    BY NextRoom
  <1>3. RoomInv => NoOverGrant
    BY RoomSuffices
  <1>4. QED
    BY <1>1, <1>2, <1>3, PTL DEF Spec

-----------------------------------------------------------------------------
(* One reviewer.                                                           *)

\* One reviewer, who handles one update at a time, is enough for that.
OneReviewer == \A a, b \in Reviewers : a = b

\* Only reviewers apply payments.
LEMMA ReviewersApply ==
    ASSUME FlowInv, \A a \in Tasks : pc[a] \in Applying => a \in Reviewers, [Next]_vars
    PROVE  \A a \in Tasks : pc'[a] \in Applying => a \in Reviewers
  <1>1. pc \in [Tasks -> Applying \cup {"idle", "card", "edit"}]
    BY DEF FlowInv, RowsInv
  <1>2. ASSUME NEW t, NEW l, pc' = [pc EXCEPT ![t] = l],
               l \in Applying => t \in Reviewers \/ pc[t] \in Applying
        PROVE  \A a \in Tasks : pc'[a] \in Applying => a \in Reviewers
    BY <1>1, <1>2
  <1>3. ASSUME NEW t \in Tasks, Handles(t)
        PROVE  \E l : /\ pc' = [pc EXCEPT ![t] = l]
                      /\ l \in Applying => pc[t] \in Applying
    BY <1>3 DEF Handles, CardSent, LoadRow, StartsApply, Enable, EnabledPerpetual,
       AlreadyReached, SetTarget, TargetSet, MarkApplied, ApplyFails, Edited, Enabled,
       Leaves, Goes, Applying
  <1>4. ASSUME NEW p \in Payments, NEW u \in Users, Submit(u, p)
        PROVE  pc' = [pc EXCEPT ![u] = "card"]
    BY <1>4 DEF Submit
  <1>5. ASSUME NEW p \in Payments, NEW a \in Reviewers, Approve(a, p) \/ Retry(a, p)
        PROVE  \E l : pc' = [pc EXCEPT ![a] = l]
    BY <1>5 DEF Approve, Retry, StartsApply, Goes
  <1>6. ASSUME NEW e \in Editors, Edit(e)
        PROVE  pc' = [pc EXCEPT ![e] = "edit"]
    BY <1>6 DEF Edit, Goes
  <1>7. CASE UNCHANGED pc
    BY <1>7
  <1>8. CASE Crash
    BY <1>8 DEF Crash, Applying
  <1>9. "card" \notin Applying /\ "edit" \notin Applying
    BY DEF Applying
  <1>10. QED
    BY <1>2, <1>3, <1>4, <1>5, <1>6, <1>7, <1>8, <1>9 DEF Next, Select, AttachReceipt,
       Cancel, Decline, Expire, Restart, Tick, vars, taskVars

\* With one reviewer no two handlers ever apply the same payment.
THEOREM OneReviewerIsEnough == ASSUME OneReviewer PROVE Spec => []ApplyApart
  <1> DEFINE Ours == FlowInv /\ \A a \in Tasks : pc[a] \in Applying => a \in Reviewers
  <1>1. Init => Ours
    BY InitFlow DEF Init, Applying
  <1>2. Ours /\ [Next]_vars => Ours'
    BY NextFlow, ReviewersApply
  <1>3. Ours => ApplyApart
    BY DEF OneReviewer, ApplyApart
  <1> HIDE DEF Ours
  <1>4. QED
    BY <1>1, <1>2, <1>3, PTL DEF Spec
=============================================================================
