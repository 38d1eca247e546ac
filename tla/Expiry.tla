------------------------------- MODULE Expiry -------------------------------
(***************************************************************************)
(* The pure date arithmetic of app/services/subscriptions.py.  Times are   *)
(* counted in days from an origin that lies before every reading of the    *)
(* clock, so a live clock is positive; 0 and negative values keep the      *)
(* special meanings the panel gives them.                                  *)
(***************************************************************************)
EXTENDS Integers

\* is_unlimited: 0 means "for ever" only for a client that is switched on.
\* An unknown (None) expiry is passed as a negative value: neither is perpetual.
IsUnlimited(expiry, enabled) == expiry = 0 /\ enabled

\* calculate_expiry_ms: a perpetual client is left alone, a placeholder
\* (0 and disabled) or "start on first use" (negative, None) counts from now,
\* a dated client is extended from the later of its expiry and now.
CalculateExpiry(old, days, now, enabled) ==
    CASE IsUnlimited(old, enabled) -> 0
      [] old > now                 -> old + days
      [] OTHER                     -> now + days

=============================================================================
