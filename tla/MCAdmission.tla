----------------------------- MODULE MCAdmission -----------------------------
(* Instances of Admission for TLC. *)
EXTENDS Admission

CONSTANTS banned, kept, new

\* The old bot's panel: a banned perpetual client, a client never activated or a
\* perpetual one, and a stranger.
MCPlaceholder ==
    [u \in Users |->
        CASE u = banned -> [enable |-> TRUE, expiry |-> "unset"]
          [] u = kept   -> [enable |-> FALSE, expiry |-> "unset"]
          [] u = new    -> NoClient]
MCPerpetual ==
    [u \in Users |->
        CASE u = banned -> [enable |-> TRUE, expiry |-> "future"]
          [] u = kept   -> [enable |-> TRUE, expiry |-> "unset"]
          [] u = new    -> NoClient]
=============================================================================
