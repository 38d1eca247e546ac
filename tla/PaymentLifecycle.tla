-------------------------- MODULE PaymentLifecycle --------------------------
(***************************************************************************)
(* The life of a row of the payments table, as the docstring of            *)
(* app/services/payments.py and the schema promise it: at most one active  *)
(* payment per user, exactly one decision per payment whoever presses what *)
(* and when, and applied_at set once, on an approved row.                  *)
(***************************************************************************)
CONSTANTS Payments, Owner

VARIABLES status, applied
vars == <<status, applied>>

Pending == {"awaiting_proof", "submitted"}
Active  == Pending \cup {"created"}
Decided == {"approved", "declined", "cancelled", "expired"}

TypeOK == /\ status  \in [Payments -> Active \cup Decided \cup {"none"}]
          /\ applied \in [Payments -> BOOLEAN]

Init == /\ status  = [p \in Payments |-> "none"]
        /\ applied = [p \in Payments |-> FALSE]

Moves(p, from, to) == /\ status[p] \in from
                      /\ status' = [status EXCEPT ![p] = to]
                      /\ UNCHANGED applied

Insert(p) ==
    /\ \A q \in Payments : Owner[q] = Owner[p] => status[q] \notin Active
    /\ Moves(p, {"none"}, "created")

Apply(p) == /\ status[p] = "approved" /\ ~applied[p]
            /\ applied' = [applied EXCEPT ![p] = TRUE]
            /\ UNCHANGED status

Next ==
    \E p \in Payments :
        \/ Insert(p)
        \/ Moves(p, {"created"}, "awaiting_proof")
        \/ Moves(p, {"awaiting_proof"}, "submitted")
        \/ Moves(p, Pending, "approved")
        \/ Moves(p, Pending, "declined")
        \/ Moves(p, Pending, "expired")
        \/ Moves(p, Active, "cancelled")
        \/ Apply(p)

Spec == Init /\ [][Next]_vars

\* Only an approved payment is ever applied.
AppliedIsApproved == \A p \in Payments : applied[p] => status[p] = "approved"

\* A user has at most one payment open (uq_payments_active_user, models.py:205).
OneActivePerUser ==
    \A p, q \in Payments :
        Owner[p] = Owner[q] /\ status[p] \in Active /\ status[q] \in Active => p = q

\* A decision is final, and so is its application.
DecisionIsFinal ==
    [][\A p \in Payments :
         /\ status[p] \in Decided => status'[p] = status[p]
         /\ applied[p] => applied'[p]]_vars
=============================================================================
