------------------------------ MODULE DoorDrive ------------------------------
(***************************************************************************)
(* What the door's actuator may be asked to do: it is stopped, opening or    *)
(* closing, and a motion in one direction is never turned into a motion in   *)
(* the other without a stop in between.                                     *)
(***************************************************************************)

VARIABLE motion

Init == motion = "stopped"

Start(direction) == motion = "stopped" /\ motion' = direction

Stop == motion # "stopped" /\ motion' = "stopped"

Next == Start("opening") \/ Start("closing") \/ Stop

Spec == Init /\ [][Next]_motion

=============================================================================
