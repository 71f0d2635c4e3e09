-------------------------- MODULE MCEmergencyChain --------------------------
(* Small instances of EmergencyChain for TLC. *)
EXTENDS EmergencyChain

\* go straight on (speed_r_ is negated)
MCOneTwist == {[left |-> 1, right |-> -1]}

\* one message both keeps alive and releases the latch
MCHighLevelMessage == {<<{}, {"LATCH"}>>}
MCNoMessage == {}

\* a latched stop button
MCLatchedStop == {{}, {"STOP", "LATCH"}}
MCNoInput == {{}}

=============================================================================
