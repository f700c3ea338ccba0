------------------------------ MODULE WallClock ------------------------------
(***************************************************************************)
(* What the GPS reader promises about state.Time to the handlers of one      *)
(* loop: unknown until the first fix, then a clock that advances by at most  *)
(* MaxStep seconds from call to call; from time to time it is stale, stands  *)
(* still, and the next fix may set it to any second.                         *)
(***************************************************************************)
EXTENDS Integers

CONSTANTS SecondsPerDay, MaxStep

VARIABLES Time, mode

vars == <<Time, mode>>

NoTime == -1

Times == 0 .. SecondsPerDay - 1

Init == Time = NoTime /\ mode = "unknown"

Advance ==
  /\ mode = "running"
  /\ \E k \in 0 .. MaxStep : Time' = (Time + k) % SecondsPerDay
  /\ UNCHANGED mode

GoStale == mode = "running" /\ mode' = "stale" /\ UNCHANGED Time

Fix == mode \in {"unknown", "stale"} /\ mode' = "running" /\ Time' \in Times

Next == Advance \/ GoStale \/ Fix

Spec == Init /\ [][Next]_vars

=============================================================================
