---------------------------- MODULE ClientContext ----------------------------
(***************************************************************************)
(* ClientContext of libraries/ESP8266WiFi/src/include/ClientContext.h: one    *)
(* TCP connection on top of lwIP, as a record and the operations on it.  A     *)
(* byte of data is a number of one; pbufs are their tot_len, as lwIP keeps it   *)
(* in a chain: the bytes from each pbuf to the end of the chain.  What a sketch *)
(* and the network do with contexts is in WiFiTcp.                             *)
(***************************************************************************)
EXTENDS Integers, Sequences, FiniteSets, SequencesExt

(* _pcb: none, or the state of the protocol control block. *)
None == "none"
SYN_SENT == "SYN_SENT"
ESTABLISHED == "ESTABLISHED"

(* A context that is not allocated. *)
NoContext ==
  [live |-> FALSE, pcb |-> None, refcnt |-> 0, rx |-> <<>>, off |-> 0,
   unacked |-> 0, queued |-> 0, sendWaiting |-> 0, connectPending |-> 0]

(* The constructor, given the state of the connection: queued counts what
   tcp_write has taken and the peer has not acknowledged, unacked what the peer
   has sent and tcp_recved has not been told of. *)
NewContext(state) == [NoContext EXCEPT !.live = TRUE, !.pcb = state]

(* The bytes behind pbuf k, and in all. *)
After(rx, k) == IF k < Len(rx) THEN rx[k + 1] ELSE 0

TotLen(rx) == After(rx, 0)

getSize(c) == TotLen(c.rx) - c.off

(* tcp_recved: the window opens again, as long as there is a connection. *)
Recved(c, n) == IF c.pcb = None THEN c.unacked ELSE c.unacked - n

(* pbuf_cat: a pbuf of n bytes, and as many more from every pbuf before it. *)
pbuf_cat(rx, n) == [k \in 1 .. Len(rx) + 1 |-> After(rx, k - 1) + n]

(* Bug: the bytes already read of the first pbuf are not given back. *)
flushUnread(c) ==
  [c EXCEPT !.unacked = Recved(c, getSize(c)), !.rx = <<>>, !.off = 0]

flush(c) == [c EXCEPT !.unacked = Recved(c, TotLen(c.rx)), !.rx = <<>>, !.off = 0]

(* abort and close drop the control block with whatever is queued on it. *)
Dropped(c) == [c EXCEPT !.pcb = None, !.queued = 0, !.unacked = 0]

(* The pbufs whose last byte is among the n that are read next. *)
UsedUp(c, n) ==
  { k \in 1 .. Len(c.rx) : TotLen(c.rx) - After(c.rx, k) <= c.off + n }

(* read: _consume for every pbuf the n bytes reach into; a pbuf is given back
   to the window when its last byte has been read. *)
read(c, n) ==
  LET used == Cardinality(UsedUp(c, n))
      gone == TotLen(c.rx) - After(c.rx, used)
  IN  [c EXCEPT !.rx = SubSeq(c.rx, used + 1, Len(c.rx)),
                !.off = c.off + n - gone,
                !.unacked = Recved(c, gone)]

ref(c) == [c EXCEPT !.refcnt = c.refcnt + 1]

(* Bug: the count is decremented after it is tested. *)
unrefLate(c) ==
  IF c.refcnt = 0 THEN NoContext ELSE [c EXCEPT !.refcnt = c.refcnt - 1]

(* The last handle to go flushes, closes and deletes. *)
unref(c) ==
  IF c.refcnt = 1 THEN NoContext ELSE [c EXCEPT !.refcnt = c.refcnt - 1]

(* What wakes the sketch from a write: _sent and _poll, once per wait. *)
WakesWriter(c) == c.sendWaiting = 1

(* Bug: the wait is not ended by the callback that wakes the writer. *)
writeSomeFromCbAgain(c) == c

writeSomeFromCb(c) == IF WakesWriter(c) THEN [c EXCEPT !.sendWaiting = 0] ELSE c

(* What wakes it when the connection is lost. *)
NotifiesError(c) == c.connectPending = 1 \/ c.sendWaiting > 0

=============================================================================
