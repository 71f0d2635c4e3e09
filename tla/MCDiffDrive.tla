---------------------------- MODULE MCDiffDrive ----------------------------
(* A small instance of DiffDrive for TLC: straight on, turn, and stop.     *)
EXTENDS DiffDrive

MCTwist == {[m \in Motor |-> 1], [m \in Motor |-> IF m = "left" THEN -1 ELSE 1],
            Standstill}
=============================================================================
