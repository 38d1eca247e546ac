------------------------------ MODULE MCCards ------------------------------
(* Instances of Cards for TLC. *)
EXTENDS Cards, TLC

CONSTANTS r1, r2, payer, boot

MCStaff == Permutations({r1, r2})
=============================================================================
