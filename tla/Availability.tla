---------------------------- MODULE Availability ----------------------------
(***************************************************************************)
(* What the coordinator promises the entities of one charger: it is        *)
(* available from the moment a frame arrives until Timeout has passed      *)
(* without one, and not for a moment longer, for as long as the entry is   *)
(* loaded.  Neither timers nor transports are mentioned.                   *)
(***************************************************************************)
EXTENDS Integers

CONSTANT Timeout   \* silence after which the charger is unavailable

VARIABLES
  offered,     \* the entry is loaded: entities are there to look
  available,   \* what they are told
  quiet        \* time since the last frame; stops at Timeout + 1

avVars == <<offered, available, quiet>>

AvInit == offered = TRUE /\ available = FALSE /\ quiet = Timeout + 1

Hear ==
  /\ available' = offered
  /\ quiet' = 0
  /\ UNCHANGED offered

Lapse ==
  /\ available
  /\ quiet = Timeout
  /\ available' = FALSE
  /\ UNCHANGED <<offered, quiet>>

Pass ==
  /\ ~(available /\ quiet = Timeout)
  /\ quiet' = IF quiet <= Timeout THEN quiet + 1 ELSE quiet
  /\ UNCHANGED <<offered, available>>

Withdraw ==
  /\ offered' = FALSE
  /\ available' = FALSE
  /\ UNCHANGED quiet

AvNext == Hear \/ Lapse \/ Pass \/ Withdraw

AvSafety == AvInit /\ [][AvNext]_avVars
=============================================================================
