------------------------------ MODULE MCGates ------------------------------
(* Instances of Gates for TLC. *)
EXTENDS Gates, TLC

CONSTANTS x1, x2, x3, y1, customer, owner

MCCycle    == [maintenance_mode |-> <<FALSE, TRUE>>]
MCFrom     == [x \in Tasks |-> IF x \in {y1} THEN owner ELSE customer]
MCButton   == [x \in Tasks |-> "maintenance_mode"]
MCAlike    == Permutations(Tasks \ {x1, y1})
=============================================================================
