------------------------------- MODULE MCGpsFeed -------------------------------
(***************************************************************************)
(* A sentence of four bytes for GpsFeed.  The texts of two times four seconds *)
(* apart have the same exclusive or, so their sentences collide.               *)
(***************************************************************************)
EXTENDS GpsFeed

MCBitsOf ==
  [ n \in 1 .. SentenceLength - 1 |->
      [ t \in Times |->
          CASE n = 1 -> {0}
            [] n = TimePlace -> {b \in {1, 2} : (t \div b) % 2 = 1}
            [] OTHER -> {0, 1} ] ]

=============================================================================
