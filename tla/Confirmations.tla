--------------------------- MODULE Confirmations ---------------------------
(***************************************************************************)
(* The store behind the cf: buttons (app/callbacks.py, class               *)
(* Confirmations) and the dispatcher in front of it (handlers/confirm.py). *)
(* Both are free of awaits, so each press is one step.  Like PanelGateway  *)
(* this module has no Next.  A token's bearer is whoever it was minted for;*)
(* its card stays on the screen whatever becomes of the token.             *)
(***************************************************************************)
EXTENDS Naturals, FiniteSets

CONSTANTS
    Accounts, \* who may be asked to confirm
    Tokens,   \* bound: the tokens minted, never twice the same
    Actions,  \* what may be confirmed: a registered action with its arguments
    NoCard    \* no such entry, no such message

VARIABLES
    pending, \* self._pending: whose each live token is, and what it would run
    overdue, \* tokens with expires_at behind them
    card,    \* what the message with the token's buttons asks, and of whom, for good
    runs     \* how often the token's action was run; for the properties

confirmVars == <<pending, overdue, card, runs>>

Cards == [admin : Accounts, action : Actions]

ASSUME ConfirmAssumption == NoCard \notin Cards

ConfirmTypeOK ==
    /\ card    \in [Tokens -> Cards \cup {NoCard}]
    /\ pending \in [Tokens -> Cards \cup {NoCard}]
    /\ overdue \subseteq Tokens
    /\ runs \in [Tokens -> Nat]

ConfirmInit ==
    /\ pending = [t \in Tokens |-> NoCard]
    /\ card    = [t \in Tokens |-> NoCard]
    /\ runs    = [t \in Tokens |-> 0]
    /\ overdue = {}

-----------------------------------------------------------------------------

\* purge: every expired token, whoever's.
Purged == [t \in Tokens |-> IF t \in overdue THEN NoCard ELSE pending[t]]

\* Mutant: an admin's tokens share one entry, the newest.
CreatesOne(t, a, action) ==
    pending' = [x \in Tokens |->
        IF x = t \/ (Purged[x] # NoCard /\ Purged[x].admin = a)
        THEN [admin |-> a, action |-> action] ELSE Purged[x]]

\* create.
Creates(t, a, action) ==
    pending' = [Purged EXCEPT ![t] = [admin |-> a, action |-> action]]

\* A token is minted, and the message sent that carries it and shows what it is for.
Mint(t, a, action) ==
    /\ card[t] = NoCard
    /\ Creates(t, a, action)
    /\ card' = [card EXCEPT ![t] = [admin |-> a, action |-> action]]
    /\ UNCHANGED <<overdue, runs>>

\* peek tells nobody else of the token and consume gives it to nobody else.
Valid(t, a) == Purged[t] # NoCard /\ Purged[t].admin = a

\* Mutant: consume leaves the token.
ConsumesNothing(t) == pending' = Purged

\* consume.
Consumes(t) == pending' = [Purged EXCEPT ![t] = NoCard]

\* confirm_callback, the token still good: the action it holds is run.
Confirmed(t, a) ==
    /\ Valid(t, a)
    /\ Consumes(t)
    /\ runs' = [runs EXCEPT ![t] = @ + 1]
    /\ UNCHANGED <<overdue, card>>

\* The token is not good any more, or another's: "expired", and a purge.
Refused(t, a) ==
    /\ card[t] # NoCard /\ ~Valid(t, a)
    /\ pending' = Purged
    /\ UNCHANGED <<overdue, card, runs>>

\* cancel: no purge, and only for its owner.
Cancelled(t, a) ==
    /\ card[t] # NoCard
    /\ pending' = IF pending[t] # NoCard /\ pending[t].admin = a
                  THEN [pending EXCEPT ![t] = NoCard] ELSE pending
    /\ UNCHANGED <<overdue, card, runs>>

\* Time passes the token's expires_at.
Expires(t) ==
    /\ Purged[t] # NoCard
    /\ overdue' = overdue \cup {t}
    /\ UNCHANGED <<pending, card, runs>>

\* The process dies: the store is in memory, the messages are not.
Forgotten ==
    /\ pending' = [t \in Tokens |-> NoCard]
    /\ UNCHANGED <<overdue, card, runs>>
=============================================================================
