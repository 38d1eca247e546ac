------------------------------- MODULE Invites -------------------------------
(***************************************************************************)
(* Invite links: InviteService (app/services/invites.py) over the table    *)
(* invites, and the stateless wizard of app/handlers/admin/invites.py.  A  *)
(* token is its invite: only the hash is stored, and nobody guesses one.   *)
(* Each operation is one transaction.  A day is a unit of time.            *)
(***************************************************************************)
EXTENDS Integers

CONSTANTS
    InviteIds,   \* invites that may be minted
    UsesOptions, \* buttons of step 1; 0 is without end
    DaysOptions, \* buttons of step 2
    MaxUses,     \* bound: uses of an invite without end
    NoInvite     \* a row not inserted yet

DAY_ENCODE == 100

Rows   == [cap : Nat, ends : Nat, uses : Nat, revoked : BOOLEAN]
Labels == [uses : Nat, days : Nat]

ASSUME InvitesAssumption ==
    /\ NoInvite \notin InviteIds /\ NoInvite \notin Rows
    /\ UsesOptions \subseteq Nat /\ MaxUses \in Nat
    /\ DaysOptions \subseteq 1..(DAY_ENCODE - 1)

VARIABLES
    invite, \* invites: cap (max_uses, 0 for NULL), ends (expires_at), uses, revoked
    label,  \* what the admin picked for it on the buttons; for the properties
    today

inviteVars == <<invite, label>>

InvitesTypeOK ==
    /\ invite \in [InviteIds -> Rows \cup {NoInvite}]
    /\ label \in [InviteIds -> Labels]
    /\ today \in Nat

InvitesInit ==
    /\ invite = [i \in InviteIds |-> NoInvite]
    /\ label  = [i \in InviteIds |-> [uses |-> 0, days |-> 0]]
    /\ today  = 0

\* encode_days packs both answers of the wizard into the button's one integer.
Encoded(uses, days) == uses * DAY_ENCODE + days
DecodedUses(arg) == arg \div DAY_ENCODE

\* Mutant: what is left of a single-use answer.
DaysOfOneUse(arg) == arg - DAY_ENCODE

DecodedDays(arg) == arg % DAY_ENCODE

\* A button of step 2 is pressed: _create, and create.
Minted(i, uses, days) ==
    LET arg == Encoded(uses, days) IN
    /\ invite[i] = NoInvite
    /\ invite' = [invite EXCEPT ![i] =
                    [cap  |-> DecodedUses(arg), ends |-> today + DecodedDays(arg),
                     uses |-> 0, revoked |-> FALSE]]
    /\ label' = [label EXCEPT ![i] = [uses |-> uses, days |-> days]]

\* Mutant: the UPDATE is not guarded by the uses left.
UnendedOnly(i) ==
    invite[i] # NoInvite /\ ~invite[i].revoked /\ invite[i].ends > today

\* increment_use finds the row.
Redeemable(i) ==
    /\ invite[i] # NoInvite
    /\ ~invite[i].revoked
    /\ invite[i].ends > today
    /\ invite[i].cap # 0 => invite[i].uses < invite[i].cap

\* redeem: the guarded UPDATE and its commit.
Consumed(i) ==
    /\ Redeemable(i)
    /\ invite[i].cap = 0 => invite[i].uses < MaxUses
    /\ invite' = [invite EXCEPT ![i].uses = @ + 1]
    /\ UNCHANGED label

\* revoke, by a button of a list that may be old.
Revoked(i) ==
    /\ invite[i] # NoInvite /\ ~invite[i].revoked
    /\ invite' = [invite EXCEPT ![i].revoked = TRUE]
    /\ UNCHANGED label
=============================================================================
