----------------------------- MODULE ServoPool ------------------------------
(***************************************************************************)
(* The servos of the Firmata sketches: servos[MAX_SERVOS], handed out to pins  *)
(* by servoPinMap and taken back through the stack detachedServos.  A pool is  *)
(* a record, attachServo and detachServo are operations on it.                 *)
(***************************************************************************)
EXTENDS Integers, Sequences

CONSTANTS
  TotalPins,  \* TOTAL_PINS of the board
  MaxServos   \* MAX_SERVOS of the board

ASSUME ServoPoolAssumption ==
  /\ TotalPins \in Nat \ {0}
  /\ MaxServos \in 0 .. 254

Pins == 0 .. TotalPins - 1

(* The value of servoPinMap for a pin without a servo. *)
NoServo == 255

(* map is servoPinMap, attached the servos whose attached() is true, detached
   the first detachedServoCount entries of detachedServos, count servoCount. *)
EmptyPool ==
  [map |-> [p \in Pins |-> NoServo], attached |-> {}, detached |-> <<>>, count |-> 0]

(* The condition both handlers test before they detach. *)
HasServo(s, pin) == s.map[pin] < MaxServos /\ s.map[pin] \in s.attached

(* Bug: the stack is not asked. *)
attachServoFresh(s, pin) ==
  IF s.count >= MaxServos THEN s
  ELSE [s EXCEPT !.map[pin] = s.count, !.attached = @ \cup {s.count}, !.count = s.count + 1]

(* A servo for a pin: the last one detached, else the next one that was never
   used; none once all have been used, whether or not some are on the stack. *)
attachServo(s, pin) ==
  LET top == Len(s.detached) IN
  IF s.count >= MaxServos THEN s
  ELSE IF top > 0
    THEN [s EXCEPT !.map[pin] = s.detached[top],
                   !.attached = @ \cup {s.detached[top]},
                   !.detached = SubSeq(s.detached, 1, top - 1)]
    ELSE [s EXCEPT !.map[pin] = s.count,
                   !.attached = @ \cup {s.count},
                   !.count = s.count + 1]

(* The servo of a pin is taken back.  Its index is never servoCount, so that the
   count is not decremented. *)
detachServo(s, pin) ==
  LET index == s.map[pin] IN
  [s EXCEPT !.map[pin] = NoServo,
            !.attached = @ \ {index},
            !.count = IF index = s.count /\ s.count > 0 THEN s.count - 1 ELSE s.count,
            !.detached = IF index # s.count /\ s.count > 0
                           THEN Append(s.detached, index) ELSE s.detached]

(* Every servo used since the last reset is either on one pin or once on the
   stack, and what a pin has is attached. *)
PoolOK(s) ==
  /\ s.count \in 0 .. MaxServos
  /\ \A p \in Pins : s.map[p] # NoServo => s.map[p] \in s.attached
  /\ \A p, q \in Pins : s.map[p] = s.map[q] /\ s.map[p] # NoServo => p = q
  /\ \A i, j \in 1 .. Len(s.detached) : s.detached[i] = s.detached[j] => i = j
  /\ \A p \in Pins, i \in 1 .. Len(s.detached) : s.map[p] # s.detached[i]
  /\ \A n \in 0 .. MaxServos :
       n < s.count <=> \/ \E p \in Pins : s.map[p] = n
                       \/ \E i \in 1 .. Len(s.detached) : s.detached[i] = n

(* No servo used since the last reset is on the stack. *)
AllOnPins(s) == \A n \in 0 .. s.count - 1 : \E p \in Pins : s.map[p] = n

=============================================================================
