------------------------ MODULE MCEmergencyTimeouts ------------------------
(* A small instance of EmergencyTimeouts for TLC. *)
EXTENDS EmergencyTimeouts

\* a stop button without a delay, a bumper with one
MCConfigs  == {{"button"}, {"bumper"}}
MCDelay    == [i \in Input |-> IF i = "button" THEN 0 ELSE 3]
MCReasonOf == [i \in Input |-> IF i = "button" THEN "STOP" ELSE "COLLISION"]

\* a message that keeps alive, and one that clears what it can
MCMessage == {<<{}, {}>>, <<{}, Reason>>}
=============================================================================
