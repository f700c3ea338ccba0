------------------------------ MODULE MCTinyGps ------------------------------
(***************************************************************************)
(* Two codes of four bits for TinyGps, and the receiver that the second of    *)
(* them is for.                                                               *)
(***************************************************************************)
EXTENDS TinyGps

MCBits == 0 .. 3

MCTimes == {"t1", "t2", "t3"}

MCGarbled == {",", "?", "*", "\r", "$"}

(* t2 reads like a comma and t3 like nothing; the other texts differ. *)
MCCode ==
  [ t \in {",", "GPRMC", "GPGGA", "t1", "t2", "t3", "A", "V", "1", "0", "x", "?"} |->
      CASE t \in {",", "t2"} -> {0} [] t = "t3" -> {}
        [] t = "x" -> {1}
        [] t = "GPRMC" -> {2}       [] t = "GPGGA" -> {3}
        [] t = "t1" -> {0, 1}       [] t = "A" -> {0, 2}
        [] t = "V" -> {0, 3}        [] t = "1" -> {1, 2}
        [] t = "0" -> {1, 3}        [] t = "?" -> {2, 3} ]

(* The GPRMC sentence that tells t1 with a fix has the checksum 0. *)
MCCodeZero ==
  [MCCode EXCEPT !["t1"] = {1, 3}, !["GPRMC"] = {2, 3}, !["0"] = {0, 1}, !["?"] = {3}]

-----------------------------------------------------------------------------
(* The receiver is turned on after the controller: the first sentence comes whole. *)
WholeInit == TinyInit /\ rest = Line(sentence)

WholeSpec == WholeInit /\ [][TinyNext]_tinyVars

=============================================================================
