--------------------------- MODULE MessageChannel ---------------------------
(***************************************************************************)
(* What a host on the network is promised: its messages arrive whole, once and *)
(* in order as long as it stays connected.  When the connection is cut, those  *)
(* under way are lost from some point on; a sysex torn by the cut swallows     *)
(* what comes after it, up to the next sysex, and takes its place.             *)
(***************************************************************************)
EXTENDS Sequences, Integers

CONSTANTS
  Messages,  \* what a host may send
  IsSysex(_),
  Torn,      \* a sysex whose end was lost
  Mixed,     \* what comes of it
  None

VARIABLES
  queue,
  got        \* what the receiver is called with just now, None while it waits

Init == queue = <<>> /\ got = None

Send ==
  /\ \E m \in Messages : queue' = Append(queue, m)
  /\ UNCHANGED got

Deliver ==
  /\ queue # <<>> /\ Head(queue) # Torn
  /\ got' = Head(queue)
  /\ queue' = Tail(queue)

Swallow ==
  /\ Len(queue) >= 2 /\ Head(queue) = Torn
  /\ IF IsSysex(queue[2])
       THEN got' = Mixed /\ queue' = Tail(Tail(queue))
       ELSE got' = None /\ queue' = <<Torn>> \o Tail(Tail(queue))

Waits == got' = None /\ UNCHANGED queue

Cut ==
  /\ \E k \in 0 .. Len(queue) :
       LET kept == SubSeq(queue, 1, k) IN
       \/ queue' = kept
       \/ /\ k < Len(queue) /\ (queue[k + 1] = Torn \/ IsSysex(queue[k + 1]))
          /\ queue' = Append(kept, Torn)
  /\ UNCHANGED got

Next == Send \/ Deliver \/ Swallow \/ Waits \/ Cut

Spec == Init /\ [][Next]_<<queue, got>>

=============================================================================
