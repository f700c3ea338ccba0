------------------------------- MODULE Gesture -------------------------------
(***************************************************************************)
(* What the reader of the button promises to the door, as a protocol of      *)
(* reports: a press is answered by one click, or by holds that begin after a *)
(* silence, never pause, and finish with one report of the hold's end.       *)
(***************************************************************************)
EXTENDS ButtonReports

VARIABLES phase, report

vars == <<phase, report>>

Init == phase = "up" /\ report = NoReport

Idle == phase = "up" /\ phase' = "up" /\ report' = NoReport

Press == phase = "up" /\ phase' = "down" /\ report' = NoReport

Wait == phase = "down" /\ phase' = "down" /\ report' = NoReport

HoldOn == phase \in {"down", "held"} /\ phase' = "held" /\ report' = Hold

EndClick == phase = "down" /\ phase' = "up" /\ report' = Click

EndHold == phase \in {"down", "held"} /\ phase' = "up" /\ report' = HoldEnd

Next == Idle \/ Press \/ Wait \/ HoldOn \/ EndClick \/ EndHold

Spec == Init /\ [][Next]_vars

=============================================================================
