--------------------------- MODULE MCInputService ---------------------------
(* Small instances of InputService for TLC. *)
EXTENDS InputService

Gpio(l, inv, lift) == [driver |-> "gpio", line |-> l, invert |-> inv, lift |-> lift]
Simulated(inv, lift) == [driver |-> "simulated", line |-> NoLine, invert |-> inv, lift |-> lift]

\* two lift sensors of which one is low when active, and a third, simulated
Lifts == <<Gpio("A", FALSE, TRUE), Simulated(FALSE, TRUE), Gpio("B", TRUE, TRUE)>>

\* a stop button and a lift sensor that share a line, and another lift sensor
Shared == <<Gpio("A", FALSE, FALSE), Gpio("B", FALSE, TRUE), Gpio("A", TRUE, TRUE)>>

\* the third is too long for MaxInputs = 3
MCConfigs == {Lifts, Shared, Append(Shared, Simulated(TRUE, FALSE))}

=============================================================================
