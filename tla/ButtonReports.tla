---------------------------- MODULE ButtonReports ----------------------------
(***************************************************************************)
(* The three button fields of State, which ButtonReader::ReadState sets in   *)
(* every iteration and DoorMutator::MutateState reads.                       *)
(***************************************************************************)

Report(clicked, hold, released) ==
  [ButtonClicked |-> clicked, ButtonHold |-> hold, ButtonReleased |-> released]

NoReport == Report(FALSE, FALSE, FALSE)
Click == Report(TRUE, FALSE, TRUE)
Hold == Report(FALSE, TRUE, FALSE)
HoldEnd == Report(FALSE, TRUE, TRUE)

(* The reports ReadState can produce. *)
Reports == {NoReport, Click, Hold, HoldEnd}

=============================================================================
