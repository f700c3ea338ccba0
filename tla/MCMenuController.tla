--------------------------- MODULE MCMenuController ---------------------------
(***************************************************************************)
(* A board on which every setting has been stored as 0.                       *)
(***************************************************************************)
EXTENDS MenuController

MCFirstEeprom == [a \in 0 .. 10 |-> 0]

=============================================================================
