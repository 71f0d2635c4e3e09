--------------------------- MODULE EmergencyStop ---------------------------
(***************************************************************************)
(* What the firmware promises about emergencies, without its threads,      *)
(* mutexes and events. The robot moves only from a moment without an       *)
(* emergency. When the emergency changes a stop is owed, and the debt ends *)
(* only with standing motors or without an emergency. EmergencyChain       *)
(* implements this specification.                                          *)
(***************************************************************************)
VARIABLES
  raised,   \* there is an emergency
  moving,   \* a motor has a duty, or was granted one
  owed      \* somebody is about to stop the motors

vars == <<raised, moving, owed>>

TypeOK == raised \in BOOLEAN /\ moving \in BOOLEAN /\ owed \in BOOLEAN

Init == raised \in BOOLEAN /\ moving = FALSE /\ owed = FALSE

\* Reasons come or go. Both are announced.
Change ==
  /\ raised' \in BOOLEAN
  /\ owed' = TRUE
  /\ UNCHANGED moving

\* A duty is granted
Move ==
  /\ ~raised
  /\ moving' = TRUE
  /\ UNCHANGED <<raised, owed>>

\* The motors stop: as they are told to, or because an emergency was noticed.
\* Only the first settles the debt.
Halt ==
  /\ moving' = FALSE
  /\ owed' \in {owed, FALSE}
  /\ UNCHANGED raised

\* There is nothing to stop, or no reason to stop any more
Settle ==
  /\ ~raised \/ ~moving
  /\ owed' = FALSE
  /\ UNCHANGED <<raised, moving>>

Next == Change \/ Move \/ Halt \/ Settle

Spec == Init /\ [][Next]_vars
=============================================================================
