--------------------------- MODULE FirmataProofs ----------------------------
(***************************************************************************)
(* The safety invariants of the Firmata sketches, for every number of pins,    *)
(* servos, ports and queries: first what attachServo and detachServo preserve  *)
(* of the pool of servos, then the messages and the loop.  After them the wire *)
(* and the parser, for every set of messages, buffer and loss: what comes      *)
(* whole is dispatched, and the streams of the network implement               *)
(* MessageChannel.                                                             *)
(***************************************************************************)
EXTENDS FirmataVariants, FirmataWire, FiniteSetTheorems, SequenceTheorems, TLAPS

Indexes == 0 .. MaxServos - 1

(* The pools of the sketches, typed. *)
Pools ==
  [map : [Pins -> Indexes \cup {NoServo}], attached : SUBSET (Indexes \cup {NoServo}),
   detached : Seq(Indexes), count : 0 .. MaxServos]

(* What holds of the pool between two messages. *)
PoolInv(s) == s \in Pools /\ PoolOK(s)

(* A freshly reset pool is in order, whatever is still attached to pins that the
   reset passed over. *)
LEMMA EmptyPoolInv ==
  ASSUME NEW left \in SUBSET (Indexes \cup {NoServo})
  PROVE  PoolInv([EmptyPool EXCEPT !.attached = left])
<1> DEFINE e == [map |-> [p \in Pins |-> NoServo], attached |-> left, detached |-> <<>>,
                 count |-> 0]
<1>1. [EmptyPool EXCEPT !.attached = left] = e
  BY DEF EmptyPool
<1>2. 0 \in 0 .. MaxServos
  BY ServoPoolAssumption
<1>3. [p \in Pins |-> NoServo] \in [Pins -> Indexes \cup {NoServo}]
  OBVIOUS
<1>4. <<>> \in Seq(Indexes) /\ Len(<<>>) = 0
  OBVIOUS
<1>5. e \in Pools
  BY <1>2, <1>3, <1>4 DEF Pools
<1>6. e.count = 0 /\ e.detached = <<>> /\ \A p \in Pins : e.map[p] = NoServo
  OBVIOUS
<1>7. PoolOK(e)
  BY <1>2, <1>4, <1>6, ServoPoolAssumption DEF PoolOK, NoServo
<1> QED
  BY <1>1, <1>5, <1>7 DEF PoolInv

(* A pin whose servo fails the test of the handlers has none. *)
LEMMA NoServoThere ==
  ASSUME NEW s, PoolInv(s), NEW p \in Pins
  PROVE  /\ HasServo(s, p) <=> s.map[p] # NoServo
         /\ s.map[p] = NoServo \/ s.map[p] \in 0 .. s.count - 1
<1>1. s.map[p] \in Indexes \cup {NoServo} /\ s.count \in 0 .. MaxServos
  BY DEF PoolInv, Pools
<1>2. s.map[p] # NoServo => s.map[p] \in s.attached
  BY DEF PoolInv, PoolOK
<1>3. \A n \in 0 .. MaxServos : (\E q \in Pins : s.map[q] = n) => n < s.count
  BY DEF PoolInv, PoolOK
<1>4. s.map[p] # NoServo => s.map[p] < s.count
  BY <1>1, <1>3, ServoPoolAssumption DEF Indexes
<1> QED
  BY <1>1, <1>2, <1>4, ServoPoolAssumption DEF HasServo, NoServo, Indexes

(* attachServo for a pin without a servo keeps the pool in order, and gives it
   to that pin alone. *)
LEMMA AttachInv ==
  ASSUME NEW s, PoolInv(s), NEW pin \in Pins, s.map[pin] = NoServo
  PROVE  /\ PoolInv(attachServo(s, pin))
         /\ \A q \in Pins \ {pin} : attachServo(s, pin).map[q] = s.map[q]
<1> DEFINE t == attachServo(s, pin)
           top == Len(s.detached)
<1>0. /\ s \in Pools /\ PoolOK(s)
      /\ s.map \in [Pins -> Indexes \cup {NoServo}]
      /\ s.attached \in SUBSET (Indexes \cup {NoServo})
      /\ s.detached \in Seq(Indexes) /\ s.count \in 0 .. MaxServos
      /\ MaxServos \in 0 .. 254 /\ top \in Nat
  BY ServoPoolAssumption DEF PoolInv, Pools
<1>a. s.count \in Nat /\ MaxServos \in Nat
  <2>1. s.count \in 0 .. MaxServos /\ MaxServos \in 0 .. 254
    BY <1>0
  <2> QED BY <2>1
<1>1. CASE s.count >= MaxServos
  BY <1>0, <1>1 DEF attachServo, PoolInv
<1>2. CASE s.count < MaxServos /\ top > 0
  <2> DEFINE index == s.detached[top]
  <2>1. index \in Indexes
    BY <1>0, <1>2
  <2>2. /\ SubSeq(s.detached, 1, top - 1) \in Seq(Indexes)
        /\ Len(SubSeq(s.detached, 1, top - 1)) = top - 1
        /\ \A i \in 1 .. top - 1 : SubSeq(s.detached, 1, top - 1)[i] = s.detached[i]
    <3>1. \A i \in 1 .. top - 1 : s.detached[i] \in Indexes
      BY <1>0
    <3> QED
      BY <1>0, <1>2, <3>1, SubSeqProperties
  <2>3. /\ t.map = [s.map EXCEPT ![pin] = index] /\ t.attached = s.attached \cup {index}
        /\ t.detached = SubSeq(s.detached, 1, top - 1) /\ t.count = s.count
        /\ t \in Pools
    <3>0. ~(s.count >= MaxServos)
      <4>1. s.count < MaxServos
        BY <1>2
      <4> QED BY <1>a, <4>1
    <3>1. t.map = [s.map EXCEPT ![pin] = index]
      BY <1>0, <1>2, <3>0 DEF attachServo, Pools
    <3>2. t.attached = s.attached \cup {index}
      BY <1>0, <1>2, <3>0 DEF attachServo, Pools
    <3>3. t.detached = SubSeq(s.detached, 1, top - 1)
      BY <1>0, <1>2, <3>0 DEF attachServo, Pools
    <3>4. t.count = s.count
      BY <1>0, <1>2, <3>0 DEF attachServo, Pools
    <3>5. t \in Pools
      BY <1>0, <1>2, <2>1, <2>2, <3>0 DEF attachServo, Pools
    <3> QED
      BY <3>1, <3>2, <3>3, <3>4, <3>5
  <2>4. t.map[pin] = index /\ \A q \in Pins \ {pin} : t.map[q] = s.map[q]
    BY <1>0, <2>3
  <2>5. \A q \in Pins : t.map[q] # NoServo => t.map[q] \in t.attached
    BY <1>0, <2>3, <2>4 DEF PoolOK
  <2>6. \A p, q \in Pins : t.map[p] = t.map[q] /\ t.map[p] # NoServo => p = q
    BY <1>0, <1>2, <2>4 DEF PoolOK
  <2>7. \A i, j \in 1 .. Len(t.detached) : t.detached[i] = t.detached[j] => i = j
    BY <1>0, <1>2, <2>2, <2>3 DEF PoolOK
  <2>8. \A p \in Pins, i \in 1 .. Len(t.detached) : t.map[p] # t.detached[i]
    BY <1>0, <1>2, <2>2, <2>3, <2>4 DEF PoolOK
  <2>9. ASSUME NEW n \in 0 .. MaxServos
        PROVE  n < t.count <=> \/ \E p \in Pins : t.map[p] = n
                               \/ \E i \in 1 .. Len(t.detached) : t.detached[i] = n
    <3>1. n < s.count <=> \/ \E p \in Pins : s.map[p] = n
                          \/ \E i \in 1 .. top : s.detached[i] = n
      BY <1>0 DEF PoolOK
    <3>2. (\E p \in Pins : t.map[p] = n) <=> n = index \/ \E p \in Pins : s.map[p] = n
      <4>1. n # NoServo
        BY <1>0 DEF NoServo
      <4> QED
        BY <4>1, <2>4
    <3>3. (\E i \in 1 .. Len(t.detached) : t.detached[i] = n)
            => \E i \in 1 .. top : s.detached[i] = n
      BY <1>0, <2>2, <2>3
    <3>4. (\E i \in 1 .. top : s.detached[i] = n)
            => n = index \/ \E i \in 1 .. Len(t.detached) : t.detached[i] = n
      BY <1>0, <1>2, <2>2, <2>3
    <3>5. n = index => \E i \in 1 .. top : s.detached[i] = n
      BY <1>0, <1>2
    <3> QED
      BY <3>1, <3>2, <3>3, <3>4, <3>5, <2>3
  <2>10. PoolOK(t)
    BY <1>0, <2>3, <2>5, <2>6, <2>7, <2>8, <2>9 DEF PoolOK
  <2> QED
    BY <2>3, <2>4, <2>10 DEF PoolInv
<1>3. CASE s.count < MaxServos /\ ~(top > 0)
  <2>1. s.count \in Indexes /\ s.count + 1 \in 0 .. MaxServos
    BY <1>3, ServoPoolAssumption DEF Indexes, PoolInv, Pools
  <2>3. /\ t.map = [s.map EXCEPT ![pin] = s.count] /\ t.attached = s.attached \cup {s.count}
        /\ t.detached = s.detached /\ t.count = s.count + 1
        /\ t \in Pools
    <3>0. ~(s.count >= MaxServos)
      <4>1. s.count < MaxServos
        BY <1>3
      <4> QED BY <1>a, <4>1
    <3>1. t.map = [s.map EXCEPT ![pin] = s.count]
      BY <1>0, <1>3, <3>0 DEF attachServo, Pools
    <3>2. t.attached = s.attached \cup {s.count}
      BY <1>0, <1>3, <3>0 DEF attachServo, Pools
    <3>3. t.detached = s.detached
      BY <1>0, <1>3, <3>0 DEF attachServo, Pools
    <3>4. t.count = s.count + 1
      BY <1>0, <1>3, <3>0 DEF attachServo, Pools
    <3>5. t \in Pools
      BY <1>0, <1>3, <2>1, <3>0 DEF attachServo, Pools
    <3> QED
      BY <3>1, <3>2, <3>3, <3>4, <3>5
  <2>4. t.map[pin] = s.count /\ \A q \in Pins \ {pin} : t.map[q] = s.map[q]
    BY <1>0, <2>3
  <2>5. \A q \in Pins : t.map[q] # NoServo => t.map[q] \in t.attached
    BY <1>0, <2>3, <2>4 DEF PoolOK
  <2>6. ASSUME NEW q \in Pins
        PROVE  s.map[q] # s.count
    <3>1. s.map[q] = NoServo \/ s.map[q] \in 0 .. s.count - 1
      BY NoServoThere
    <3>2. s.count <= 254
      <4>1. s.count \in 0 .. MaxServos /\ MaxServos \in 0 .. 254
        BY <1>0
      <4> QED BY <4>1
    <3> QED
      BY <1>a, <3>1, <3>2 DEF NoServo
  <2>7. \A p, q \in Pins : t.map[p] = t.map[q] /\ t.map[p] # NoServo => p = q
    BY <1>0, <2>4, <2>6 DEF PoolOK
  <2>8. ASSUME NEW n \in 0 .. MaxServos
        PROVE  n < t.count <=> \/ \E p \in Pins : t.map[p] = n
                               \/ \E i \in 1 .. Len(t.detached) : t.detached[i] = n
    <3>1. n < s.count <=> \E p \in Pins : s.map[p] = n
      BY <1>0, <1>3 DEF PoolOK
    <3>2. (\E p \in Pins : t.map[p] = n) <=> n = s.count \/ \E p \in Pins : s.map[p] = n
      BY <1>0, <2>4 DEF NoServo
    <3>3. n < t.count <=> n < s.count \/ n = s.count
      BY <1>0, <2>3
    <3>4. ~\E i \in 1 .. Len(t.detached) : t.detached[i] = n
      BY <1>0, <1>3, <2>3
    <3> QED
      BY <3>1, <3>2, <3>3, <3>4
  <2>9. PoolOK(t)
    BY <1>0, <1>3, <2>1, <2>3, <2>5, <2>7, <2>8 DEF PoolOK
  <2> QED
    BY <2>3, <2>4, <2>9 DEF PoolInv
<1> QED
  BY <1>0, <1>1, <1>2, <1>3

(* detachServo for a pin with a servo keeps the pool in order: its index goes on
   the stack, and the count is never what the pin had. *)
LEMMA DetachInv ==
  ASSUME NEW s, PoolInv(s), NEW pin \in Pins, s.map[pin] # NoServo
  PROVE  /\ PoolInv(detachServo(s, pin))
         /\ detachServo(s, pin).map[pin] = NoServo
         /\ detachServo(s, pin).count = s.count
         /\ \A q \in Pins \ {pin} : detachServo(s, pin).map[q] = s.map[q]
<1> DEFINE t == detachServo(s, pin)
           index == s.map[pin]
           top == Len(s.detached)
<1>0. /\ s \in Pools /\ PoolOK(s)
      /\ s.map \in [Pins -> Indexes \cup {NoServo}]
      /\ s.attached \in SUBSET (Indexes \cup {NoServo})
      /\ s.detached \in Seq(Indexes) /\ s.count \in 0 .. MaxServos
      /\ MaxServos \in 0 .. 254 /\ top \in Nat
      /\ index \in 0 .. s.count - 1 /\ index \in Indexes
  BY ServoPoolAssumption, NoServoThere DEF PoolInv, Pools
<1>2. /\ Append(s.detached, index) \in Seq(Indexes)
      /\ Len(Append(s.detached, index)) = top + 1
      /\ \A i \in 1 .. top : Append(s.detached, index)[i] = s.detached[i]
      /\ Append(s.detached, index)[top + 1] = index
  BY <1>0
<1>3. /\ t.map = [s.map EXCEPT ![pin] = NoServo] /\ t.attached = s.attached \ {index}
      /\ t.detached = Append(s.detached, index) /\ t.count = s.count
      /\ t \in Pools
  <2>0. index # s.count /\ s.count > 0
    BY <1>0
  <2>1. t.map = [s.map EXCEPT ![pin] = NoServo]
    BY <1>0, <2>0 DEF detachServo, Pools
  <2>2. t.attached = s.attached \ {index}
    BY <1>0, <2>0 DEF detachServo, Pools
  <2>3. t.detached = Append(s.detached, index)
    BY <1>0, <2>0 DEF detachServo, Pools
  <2>4. t.count = s.count
    BY <1>0, <2>0 DEF detachServo, Pools
  <2>5. t \in Pools
    BY <1>0, <1>2, <2>0 DEF detachServo, Pools
  <2> QED
    BY <2>1, <2>2, <2>3, <2>4, <2>5
<1>4. t.map[pin] = NoServo /\ \A q \in Pins \ {pin} : t.map[q] = s.map[q]
  BY <1>0, <1>3
<1>5. \A q \in Pins : t.map[q] # NoServo => t.map[q] # index
  BY <1>0, <1>4 DEF PoolOK
<1>6. \A q \in Pins : t.map[q] # NoServo => t.map[q] \in t.attached
  BY <1>0, <1>3, <1>4, <1>5 DEF PoolOK
<1>7. \A p, q \in Pins : t.map[p] = t.map[q] /\ t.map[p] # NoServo => p = q
  BY <1>0, <1>4 DEF PoolOK
<1>8. \A i, j \in 1 .. Len(t.detached) : t.detached[i] = t.detached[j] => i = j
  BY <1>0, <1>2, <1>3 DEF PoolOK
<1>9. \A p \in Pins, i \in 1 .. Len(t.detached) : t.map[p] # t.detached[i]
  <2>1. \A i \in 1 .. Len(t.detached) : t.detached[i] \in Indexes
    BY <1>2, <1>3
  <2>2. NoServo \notin Indexes
    BY <1>0 DEF Indexes, NoServo
  <2> QED
    BY <1>0, <1>2, <1>3, <1>4, <1>5, <2>1, <2>2 DEF PoolOK
<1>10. ASSUME NEW n \in 0 .. MaxServos
       PROVE  n < t.count <=> \/ \E p \in Pins : t.map[p] = n
                              \/ \E i \in 1 .. Len(t.detached) : t.detached[i] = n
  <2>1. n < s.count <=> \/ \E p \in Pins : s.map[p] = n
                        \/ \E i \in 1 .. top : s.detached[i] = n
    BY <1>0 DEF PoolOK
  <2>2. (\E p \in Pins : s.map[p] = n) => n = index \/ \E p \in Pins : t.map[p] = n
    BY <1>4
  <2>3. (\E p \in Pins : t.map[p] = n) => \E p \in Pins : s.map[p] = n
    <3>1. n # NoServo
      BY <1>0 DEF NoServo
    <3> QED
      BY <3>1, <1>4
  <2>4. (\E i \in 1 .. Len(t.detached) : t.detached[i] = n)
          <=> n = index \/ \E i \in 1 .. top : s.detached[i] = n
    <3>1. Len(t.detached) = top + 1 /\ t.detached[top + 1] = index
      BY <1>2, <1>3
    <3>2. \A i \in 1 .. top : t.detached[i] = s.detached[i]
      BY <1>2, <1>3
    <3>3. \A i \in 1 .. top + 1 : i \in 1 .. top \/ i = top + 1
      BY <1>0
    <3>4. top + 1 \in 1 .. top + 1 /\ \A i \in 1 .. top : i \in 1 .. top + 1
      BY <1>0
    <3> HIDE DEF t, index, top
    <3> QED
      BY <3>1, <3>2, <3>3, <3>4
  <2> QED
    BY <2>1, <2>2, <2>3, <2>4, <1>3
<1>11. PoolOK(t)
  BY <1>0, <1>3, <1>6, <1>7, <1>8, <1>9, <1>10 DEF PoolOK
<1> QED
  BY <1>3, <1>4, <1>11 DEF PoolInv

-----------------------------------------------------------------------------
(* The invariants hold of each other: which pin has which servo needs the modes,
   and every field of the board needs the types. *)
IInv ==
  /\ TypeOK /\ PoolInv(pool)
  /\ ServoOnItsPin /\ InputsNotDriven /\ BusHasItsPins /\ HostInStep

BoardTyped(b) == b \in Boards /\ Len(b.queries) <= MaxQueries

(* Between the boards b and c only pin p was asked to be m. *)
OnlyPin(b, c, s, p, m) ==
  /\ \A q \in Pins \ {p} : c.mode[q] = b.mode[q] /\ c.hw[q] = b.hw[q]
  /\ Capable(p, m) => c.mode[p] = m /\ c.hw[p] = Hardware(b.hw[p], m, Attaches(s, p))
  /\ ~Capable(p, m) => c.mode[p] = b.mode[p] /\ c.hw[p] = b.hw[p]
  /\ c.i2c = (b.i2c /\ ~LeavesBus(b, p, m))

(* What setPinModeCallback does to the board, field by field. *)
LEMMA BoardAfterFields ==
  ASSUME NEW b, BoardTyped(b), NEW s, NEW p \in Pins, NEW m \in Modes,
         ~Ignored(b, p), NEW c, c = BoardAfter(b, s, p, m)
  PROVE  BoardTyped(c) /\ OnlyPin(b, c, s, p, m)
<1> DEFINE base == IF LeavesBus(b, p, m) THEN BusOff(b) ELSE b
<1>0. b \in Boards /\ Len(b.queries) <= MaxQueries
  BY DEF BoardTyped
<1>1. /\ base \in Boards /\ Len(base.queries) <= MaxQueries
      /\ base.mode = b.mode /\ base.hw = b.hw /\ base.i2c = (b.i2c /\ ~LeavesBus(b, p, m))
  <2>1. CASE LeavesBus(b, p, m)
    <3>1. <<>> \in Seq(Devices) /\ Len(<<>>) = 0 /\ 0 <= MaxQueries
      BY FirmataSketchAssumption
    <3> QED
      BY <1>0, <2>1, <3>1 DEF Boards, BusOff
  <2>2. CASE ~LeavesBus(b, p, m)
    BY <1>0, <2>2 DEF Boards
  <2> QED
    BY <2>1, <2>2
<1>2. Hardware(b.hw[p], m, Attaches(s, p)) \in {"in", "pullup", "out"}
  BY <1>0 DEF Hardware, Boards
<1>3. c = [base EXCEPT
             !.analog = IF m = "ANALOG" THEN @ \cup ({p} \cap AnalogPins) ELSE @ \ {p},
             !.inputs = IF m \in {"INPUT", "PULLUP"} THEN @ \cup {p} ELSE @ \ {p},
             !.mode[p] = IF Capable(p, m) THEN m ELSE @,
             !.hw[p] = IF Capable(p, m) THEN Hardware(@, m, Attaches(s, p)) ELSE @]
  BY DEF BoardAfter
<1> HIDE DEF base
<1>4. c.mode = [base.mode EXCEPT ![p] = IF Capable(p, m) THEN m ELSE @]
  BY <1>1, <1>3 DEF Boards
<1>5. c.hw = [base.hw EXCEPT ![p] = IF Capable(p, m) THEN Hardware(@, m, Attaches(s, p)) ELSE @]
  BY <1>1, <1>3 DEF Boards
<1>6. c.i2c = base.i2c /\ c.queries = base.queries
  BY <1>1, <1>3 DEF Boards
<1>7. c \in Boards
  <2> DEFINE newAnalog == IF m = "ANALOG" THEN base.analog \cup ({p} \cap AnalogPins)
                                         ELSE base.analog \ {p}
             newInputs == IF m \in {"INPUT", "PULLUP"} THEN base.inputs \cup {p}
                                                      ELSE base.inputs \ {p}
             newMode == [base.mode EXCEPT ![p] = IF Capable(p, m) THEN m ELSE @]
             newHw == [base.hw EXCEPT ![p] =
                        IF Capable(p, m) THEN Hardware(@, m, Attaches(s, p)) ELSE @]
  <2>1. c = [base EXCEPT !.analog = newAnalog, !.inputs = newInputs,
                         !.mode = newMode, !.hw = newHw]
    BY <1>1, <1>3 DEF Boards
  <2>2. Hardware(base.hw[p], m, Attaches(s, p)) \in {"in", "pullup", "out"}
    BY <1>1, <1>2
  <2>3. newAnalog \in SUBSET AnalogPins
    BY <1>1 DEF Boards
  <2>4. newInputs \in SUBSET Pins
    BY <1>1 DEF Boards
  <2>5. newMode \in [Pins -> Modes \cup {"IGNORE"}]
    BY <1>1 DEF Boards
  <2>6. newHw \in [Pins -> {"in", "pullup", "out"}]
    BY <1>1, <2>2 DEF Boards
  <2>7. base.i2c \in BOOLEAN /\ base.queries \in Seq(Devices)
    BY <1>1 DEF Boards
  <2> HIDE DEF newAnalog, newInputs, newMode, newHw
  <2>8. c = [mode |-> newMode, hw |-> newHw, inputs |-> newInputs, analog |-> newAnalog,
             i2c |-> base.i2c, queries |-> base.queries]
    BY <1>1, <2>1 DEF Boards
  <2> QED
    BY <2>3, <2>4, <2>5, <2>6, <2>7, <2>8 DEF Boards
<1>8. base.mode \in [Pins -> Modes \cup {"IGNORE"}] /\ base.hw \in [Pins -> {"in", "pullup", "out"}]
  BY <1>1 DEF Boards
<1>9. \A q \in Pins \ {p} : c.mode[q] = b.mode[q] /\ c.hw[q] = b.hw[q]
  BY <1>1, <1>4, <1>5, <1>8
<1>10. Capable(p, m) => c.mode[p] = m /\ c.hw[p] = Hardware(b.hw[p], m, Attaches(s, p))
  BY <1>1, <1>4, <1>5, <1>8
<1>11. ~Capable(p, m) => c.mode[p] = b.mode[p] /\ c.hw[p] = b.hw[p]
  BY <1>1, <1>4, <1>5, <1>8
<1> QED
  BY <1>1, <1>6, <1>7, <1>9, <1>10, <1>11 DEF BoardTyped, OnlyPin

(* What setPinModeCallback does to the servos. *)
LEMMA PoolAfterInv ==
  ASSUME NEW b, NEW s, PoolInv(s), NEW p \in Pins, NEW m \in Modes
  PROVE  /\ PoolInv(PoolAfter(b, s, p, m))
         /\ \A q \in Pins \ {p} : PoolAfter(b, s, p, m).map[q] = s.map[q]
         /\ Ignored(b, p) => PoolAfter(b, s, p, m) = s
         /\ ~Ignored(b, p) /\ m # "SERVO" => PoolAfter(b, s, p, m).map[p] = NoServo
<1>1. CASE Ignored(b, p)
  BY <1>1 DEF PoolAfter
<1>2. CASE ~Ignored(b, p) /\ m = "SERVO"
  <2>1. CASE HasServo(s, p)
    BY <1>2, <2>1 DEF PoolAfter
  <2>2. CASE ~HasServo(s, p)
    BY <1>2, <2>2, NoServoThere, AttachInv DEF PoolAfter
  <2> QED
    BY <2>1, <2>2
<1>3. CASE ~Ignored(b, p) /\ m # "SERVO"
  <2>1. CASE HasServo(s, p)
    BY <1>3, <2>1, NoServoThere, DetachInv DEF PoolAfter
  <2>2. CASE ~HasServo(s, p)
    BY <1>3, <2>2, NoServoThere DEF PoolAfter
  <2> QED
    BY <2>1, <2>2
<1> QED
  BY <1>1, <1>2, <1>3

(* ServoOnItsPin and InputsNotDriven for one pin. *)
PinSafe(b, s, q) ==
  /\ s.map[q] # NoServo => b.mode[q] \in {"SERVO", "SERIAL", "IGNORE"}
  /\ b.mode[q] \in {"INPUT", "PULLUP", "ANALOG"} => b.hw[q] # "out"

Safe(b, s) == BoardTyped(b) /\ PoolInv(s) /\ \A q \in Pins : PinSafe(b, s, q)

(* setPinModeCallback makes its pin safe and leaves the others so; when it makes
   a servo, it does not matter how it found the pin. *)
LEMMA PinStep ==
  ASSUME NEW b, BoardTyped(b), NEW s, PoolInv(s), NEW p \in Pins, NEW m \in Modes,
         \A q \in Pins \ {p} : PinSafe(b, s, q), m # "SERVO" => PinSafe(b, s, p)
  PROVE  Safe(BoardAfter(b, s, p, m), PoolAfter(b, s, p, m))
<1> DEFINE t == PoolAfter(b, s, p, m)
<1>0. PICK c : c = BoardAfter(b, s, p, m)
  OBVIOUS
<1>1. CASE Ignored(b, p)
  <2>1. c = b /\ t.map = s.map /\ PoolInv(t)
    BY <1>0, <1>1, PoolAfterInv DEF BoardAfter
  <2>2. PinSafe(b, s, p)
    BY <1>1 DEF PinSafe, Ignored
  <2> QED
    BY <2>1, <2>2, <1>0 DEF Safe, PinSafe
<1>2. CASE ~Ignored(b, p)
  <2>1. /\ BoardTyped(c)
        /\ \A q \in Pins \ {p} : c.mode[q] = b.mode[q] /\ c.hw[q] = b.hw[q]
        /\ Capable(p, m) => c.mode[p] = m /\ c.hw[p] = Hardware(b.hw[p], m, Attaches(s, p))
        /\ ~Capable(p, m) => c.mode[p] = b.mode[p] /\ c.hw[p] = b.hw[p]
    <3>1. BoardTyped(c) /\ OnlyPin(b, c, s, p, m)
      BY <1>0, <1>2, BoardAfterFields
    <3> QED
      BY <3>1 DEF OnlyPin
  <2>2. /\ PoolInv(t) /\ \A q \in Pins \ {p} : t.map[q] = s.map[q]
        /\ m # "SERVO" => t.map[p] = NoServo
    BY <1>2, PoolAfterInv
  <2>3. ASSUME NEW q \in Pins \ {p}
        PROVE  PinSafe(c, t, q)
    <3>1. c.mode[q] = b.mode[q] /\ c.hw[q] = b.hw[q] /\ t.map[q] = s.map[q]
      BY <2>1, <2>2
    <3> QED
      BY <3>1 DEF PinSafe
  <2>4. PinSafe(c, t, p)
    <3>1. CASE m = "SERVO"
      <4>1. c.mode[p] = "SERVO"
        BY <2>1, <3>1 DEF Capable
      <4> QED
        BY <4>1 DEF PinSafe
    <3>2. CASE m # "SERVO" /\ Capable(p, m)
      <4>1. c.mode[p] = m /\ c.hw[p] = Hardware(b.hw[p], m, Attaches(s, p))
        BY <2>1, <3>2
      <4>2. m \in {"INPUT", "PULLUP", "ANALOG"} => c.hw[p] # "out"
        BY <4>1 DEF Hardware
      <4> QED
        BY <2>2, <3>2, <4>1, <4>2 DEF PinSafe
    <3>3. CASE m # "SERVO" /\ ~Capable(p, m)
      <4>1. c.mode[p] = b.mode[p] /\ c.hw[p] = b.hw[p]
        BY <2>1, <3>3
      <4> QED
        BY <2>2, <3>3, <4>1 DEF PinSafe
    <3> QED
      BY <3>1, <3>2, <3>3
  <2> QED
    BY <1>0, <2>1, <2>2, <2>3, <2>4 DEF Safe
<1> QED
  BY <1>1, <1>2

(* BusHasItsPins of a board. *)
BusSafe(b) ==
  b.i2c /\ ~serial => \A p \in {SDA, SCL} : b.mode[p] \in {"I2C", "IGNORE"}

(* A pin that leaves the bus takes the bus with it. *)
LEMMA BusStep ==
  ASSUME NEW b, BoardTyped(b), BusSafe(b), NEW s, NEW p \in Pins, NEW m \in Modes
  PROVE  BusSafe(BoardAfter(b, s, p, m))
<1>0. PICK c : c = BoardAfter(b, s, p, m)
  OBVIOUS
<1>1. CASE Ignored(b, p)
  BY <1>1 DEF BoardAfter
<1>2. CASE ~Ignored(b, p)
  <2>1. /\ \A q \in Pins \ {p} : c.mode[q] = b.mode[q]
        /\ Capable(p, m) => c.mode[p] = m
        /\ ~Capable(p, m) => c.mode[p] = b.mode[p]
        /\ c.i2c = (b.i2c /\ ~LeavesBus(b, p, m))
    <3>1. OnlyPin(b, c, s, p, m)
      BY <1>0, <1>2, BoardAfterFields
    <3> QED
      BY <3>1 DEF OnlyPin
  <2>2. SUFFICES ASSUME c.i2c, ~serial, NEW q \in {SDA, SCL}
                 PROVE  c.mode[q] \in {"I2C", "IGNORE"}
    BY <1>0 DEF BusSafe
  <2>3. b.i2c /\ ~LeavesBus(b, p, m) /\ b.mode[q] \in {"I2C", "IGNORE"} /\ q \in Pins
    BY <2>1, <2>2, FirmataSketchAssumption DEF BusSafe
  <2>4. CASE q # p
    BY <2>1, <2>3, <2>4
  <2>5. CASE q = p
    <3>1. b.mode[p] = "I2C"
      BY <1>2, <2>3, <2>5 DEF Ignored
    <3>2. m = "I2C"
      BY <2>3, <3>1 DEF LeavesBus
    <3> QED
      BY <2>1, <2>5, <3>1, <3>2
  <2> QED
    BY <2>4, <2>5
<1> QED
  BY <1>1, <1>2

-----------------------------------------------------------------------------
(* The invariant in terms of the board and the pool. *)
LEMMA InvParts ==
  ASSUME PoolInv(pool), BoardTyped(board)
  PROVE  (\A q \in Pins : PinSafe(board, pool, q)) <=> ServoOnItsPin /\ InputsNotDriven
BY NoServoThere DEF PinSafe, ServoOnItsPin, InputsNotDriven

(* The part of the invariant that the handlers of pins, servos and the bus can
   disturb. *)
BoardInv == Safe(board, pool) /\ BusSafe(board)

(* The part about the reports. *)
ReportInv ==
  /\ report \subseteq Ports /\ asked \subseteq report
  /\ previous \in [Ports -> SUBSET Pins] /\ host \in [Ports -> SUBSET Pins]
  /\ HostInStep

LEMMA IInvParts ==
  IInv <=> sketch \in Sketches /\ link \in BOOLEAN /\ BoardInv /\ ReportInv
<1>1. BusSafe(board) <=> BusHasItsPins
  BY DEF BusSafe, BusHasItsPins
<1>2. TypeOK <=> /\ sketch \in Sketches /\ link \in BOOLEAN /\ BoardTyped(board)
                 /\ report \subseteq Ports /\ asked \subseteq report
                 /\ previous \in [Ports -> SUBSET Pins] /\ host \in [Ports -> SUBSET Pins]
  BY DEF TypeOK, BoardTyped
<1> QED
  BY <1>1, <1>2, InvParts DEF IInv, BoardInv, ReportInv, Safe

(* The same of the next state. *)
LEMMA IInvPartsNext ==
  ASSUME sketch' \in Sketches, link' \in BOOLEAN, BoardInv', ReportInv'
  PROVE  IInv'
<1>1. PoolInv(pool') /\ BoardTyped(board') /\ \A q \in Pins : PinSafe(board', pool', q)
  BY DEF BoardInv, Safe, PoolInv, PoolOK, Pools, BoardTyped, PinSafe
<1>2. TypeOK'
  BY <1>1 DEF TypeOK, BoardTyped, ReportInv
<1>3. ServoOnItsPin' /\ InputsNotDriven'
  <2>1. \A q \in Pins : HasServo(pool', q) <=> pool'.map[q] # NoServo
    BY <1>1, NoServoThere
  <2> QED
    BY <1>1, <2>1 DEF PinSafe, ServoOnItsPin, InputsNotDriven, HasServo
<1>4. BusHasItsPins'
  BY DEF BoardInv, BusSafe, BusHasItsPins
<1>5. PoolInv(pool)'
  BY DEF BoardInv, Safe
<1> QED
  BY <1>2, <1>3, <1>4, <1>5 DEF IInv, ReportInv

(* SET_PIN_MODE *)
LEMMA SetPinModeInv ==
  ASSUME BoardInv, NEW p \in Pins, NEW m \in Modes, SetPinMode(p, m)
  PROVE  BoardInv'
<1>1. /\ board' = BoardAfter(board, pool, p, m) /\ pool' = PoolAfter(board, pool, p, m)
      /\ sketch' = sketch
  BY DEF SetPinMode
<1>2. Safe(BoardAfter(board, pool, p, m), PoolAfter(board, pool, p, m))
  BY PinStep DEF BoardInv, Safe
<1>3. BusSafe(BoardAfter(board, pool, p, m))
  BY BusStep DEF BoardInv, Safe
<1> QED
  BY <1>1, <1>2, <1>3 DEF BoardInv, Safe, BoardTyped, PinSafe, BusSafe, serial

(* SERVO_CONFIG: the servo of a pin changes hands before its mode is set. *)
LEMMA ServoConfigInv ==
  ASSUME BoardInv, NEW p \in Pins, ServoConfig(p)
  PROVE  BoardInv'
<1> DEFINE freed == IF HasServo(pool, p) THEN detachServo(pool, p) ELSE pool
           given == attachServo(freed, p)
           b == [board EXCEPT !.hw[p] = IF given = freed THEN @ ELSE "out"]
<1>1. /\ board' = BoardAfter(b, given, p, "SERVO") /\ pool' = PoolAfter(board, given, p, "SERVO")
      /\ sketch' = sketch
  BY DEF ServoConfig
<1>2. PoolInv(freed) /\ freed.map[p] = NoServo /\ \A q \in Pins \ {p} : freed.map[q] = pool.map[q]
  BY NoServoThere, DetachInv DEF BoardInv, Safe
<1>3. PoolInv(given) /\ \A q \in Pins \ {p} : given.map[q] = pool.map[q]
  <2> HIDE DEF freed
  <2> QED
    BY <1>2, AttachInv
<1>4. /\ BoardTyped(b) /\ b.mode = board.mode /\ b.i2c = board.i2c
      /\ \A q \in Pins \ {p} : b.hw[q] = board.hw[q]
  <2> HIDE DEF given, freed
  <2> QED
    BY DEF BoardInv, Safe, BoardTyped, Boards
<1> HIDE DEF freed, given, b
<1>5. \A q \in Pins \ {p} : PinSafe(b, given, q)
  BY <1>3, <1>4 DEF BoardInv, Safe, PinSafe
<1>6. BusSafe(b)
  BY <1>4 DEF BoardInv, BusSafe
<1>7. "SERVO" \in Modes
  BY DEF Modes
<1>8. PoolAfter(board, given, p, "SERVO") = PoolAfter(b, given, p, "SERVO")
  BY <1>4 DEF PoolAfter, Ignored
<1>9. Safe(BoardAfter(b, given, p, "SERVO"), PoolAfter(b, given, p, "SERVO"))
  BY <1>3, <1>4, <1>5, <1>7, PinStep
<1>10. BusSafe(BoardAfter(b, given, p, "SERVO"))
  BY <1>4, <1>6, <1>7, BusStep
<1> QED
  BY <1>1, <1>8, <1>9, <1>10 DEF BoardInv, Safe, BoardTyped, PinSafe, BusSafe, serial

(* I2C_CONFIG: both pins, one after the other. *)
LEMMA I2CConfigInv ==
  ASSUME BoardInv, I2CConfig
  PROVE  BoardInv'
<1> DEFINE first == IF SDA < SCL THEN SDA ELSE SCL
           second == IF SDA < SCL THEN SCL ELSE SDA
<1>1. /\ first \in Pins /\ second \in Pins /\ {first, second} = {SDA, SCL}
      /\ "I2C" \in Modes
  BY FirmataSketchAssumption DEF Modes
<1>2. PICK b, s, c : /\ b = BoardAfter(board, pool, first, "I2C")
                     /\ s = PoolAfter(board, pool, first, "I2C")
                     /\ c = BoardAfter(b, s, second, "I2C")
  OBVIOUS
<1>3. /\ board' = [c EXCEPT !.i2c = TRUE] /\ pool' = PoolAfter(b, s, second, "I2C")
      /\ sketch' = sketch
  BY <1>2 DEF I2CConfig
<1> HIDE DEF first, second
<1>4. Safe(b, s)
  BY <1>1, <1>2, PinStep DEF BoardInv, Safe
<1>5. Safe(c, pool')
  BY <1>1, <1>2, <1>3, <1>4, PinStep DEF Safe
<1>6. b.mode[first] \in {"I2C", "IGNORE"}
  <2>1. CASE Ignored(board, first)
    BY <1>2, <2>1 DEF BoardAfter, Ignored
  <2>2. CASE ~Ignored(board, first)
    <3>1. OnlyPin(board, b, pool, first, "I2C")
      BY <1>1, <1>2, <2>2, BoardAfterFields DEF BoardInv, Safe
    <3>2. Capable(first, "I2C")
      BY <1>1 DEF Capable
    <3> QED
      BY <3>1, <3>2 DEF OnlyPin
  <2> QED
    BY <2>1, <2>2
<1>7. c.mode[first] \in {"I2C", "IGNORE"} /\ c.mode[second] \in {"I2C", "IGNORE"}
  <2>1. CASE Ignored(b, second)
    BY <1>2, <1>6, <2>1 DEF BoardAfter, Ignored
  <2>2. CASE ~Ignored(b, second)
    <3>1. OnlyPin(b, c, s, second, "I2C")
      BY <1>1, <1>2, <1>4, <2>2, BoardAfterFields DEF Safe
    <3>2. Capable(second, "I2C")
      BY <1>1 DEF Capable
    <3> QED
      BY <1>1, <1>6, <3>1, <3>2 DEF OnlyPin
  <2> QED
    BY <2>1, <2>2
<1>8. BoardTyped(board') /\ board'.mode = c.mode /\ board'.hw = c.hw
  BY <1>3, <1>5 DEF Safe, BoardTyped, Boards
<1>9. \A q \in Pins : PinSafe(board', pool', q)
  BY <1>5, <1>8 DEF Safe, PinSafe
<1>10. \A q \in {SDA, SCL} : board'.mode[q] \in {"I2C", "IGNORE"}
  BY <1>1, <1>7, <1>8
<1> QED
  BY <1>5, <1>8, <1>9, <1>10 DEF BoardInv, Safe, BoardTyped, PinSafe, BusSafe

(* A handler that leaves the modes, the bus and the servos alone, and drives no
   pin. *)
LEMMA BoardFrame ==
  ASSUME BoardInv, pool' = pool, sketch' = sketch, BoardTyped(board'),
         board'.i2c = board.i2c, board'.mode = board.mode,
         \A q \in Pins : board'.hw[q] = board.hw[q] \/ board'.hw[q] # "out"
  PROVE  BoardInv'
<1>1. \A q \in Pins : PinSafe(board', pool', q)
  BY DEF BoardInv, Safe, PinSafe
<1> QED
  BY <1>1 DEF BoardInv, Safe, BoardTyped, PinSafe, BusSafe, serial

(* I2C_READ_CONTINUOUSLY *)
LEMMA ReadContinuouslyInv ==
  ASSUME BoardInv, NEW d \in Devices, ReadContinuously(d)
  PROVE  BoardInv'
<1>1. board \in Boards /\ Len(board.queries) < MaxQueries
  BY DEF ReadContinuously, BoardInv, Safe, BoardTyped
<1>2. /\ Append(board.queries, d) \in Seq(Devices)
      /\ Len(Append(board.queries, d)) <= MaxQueries
  BY <1>1, FirmataSketchAssumption DEF Boards
<1>3. board' = [board EXCEPT !.queries = Append(board.queries, d)]
  BY DEF ReadContinuously
<1>4. /\ BoardTyped(board') /\ board'.i2c = board.i2c /\ board'.mode = board.mode
      /\ board'.hw = board.hw
  BY <1>1, <1>2, <1>3 DEF BoardTyped, Boards
<1> QED
  BY <1>4, BoardFrame DEF ReadContinuously

(* I2C_STOP_READING, whichever query goes. *)
LEMMA StopReadingInv ==
  ASSUME BoardInv, NEW d, NEW unknown \in SUBSET Int,
         \A i \in unknown : Len(board.queries) > 1 => i \in DOMAIN board.queries,
         StopReading(d, unknown)
  PROVE  BoardInv'
<1> DEFINE q == board.queries
<1>1. board \in Boards /\ q \in Seq(Devices) /\ Len(q) <= MaxQueries /\ Len(q) \in Nat
  BY DEF BoardInv, Safe, BoardTyped, Boards
<1>2. PICK rest : /\ board' = [board EXCEPT !.queries = rest]
                  /\ rest \in Seq(Devices) /\ Len(rest) <= MaxQueries
  <2>1. PICK skip : /\ Len(q) > 1 => skip \in DOMAIN q
                    /\ board' = [board EXCEPT !.queries =
                                   IF Len(q) <= 1 THEN <<>> ELSE RemoveAt(q, skip)]
    BY DEF StopReading
  <2>2. CASE Len(q) <= 1
    <3>1. <<>> \in Seq(Devices) /\ Len(<<>>) <= MaxQueries
      BY FirmataSketchAssumption
    <3> QED
      BY <2>1, <2>2, <3>1
  <2>3. CASE Len(q) > 1
    <3>1. skip \in 1 .. Len(q)
      BY <1>1, <2>1, <2>3
    <3>2. /\ SubSeq(q, 1, skip - 1) \in Seq(Devices)
          /\ Len(SubSeq(q, 1, skip - 1)) = skip - 1
      BY <1>1, <3>1, SubSeqProperties
    <3>3. /\ SubSeq(q, skip + 1, Len(q)) \in Seq(Devices)
          /\ Len(SubSeq(q, skip + 1, Len(q))) = Len(q) - skip
      BY <1>1, <3>1, SubSeqProperties
    <3>4. PICK l, r : l = SubSeq(q, 1, skip - 1) /\ r = SubSeq(q, skip + 1, Len(q))
      OBVIOUS
    <3>5. RemoveAt(q, skip) = l \o r
      BY <3>4 DEF RemoveAt
    <3>6. l \in Seq(Devices) /\ r \in Seq(Devices) /\ Len(l) + Len(r) = Len(q) - 1
      <4>1. l \in Seq(Devices) /\ Len(l) = skip - 1
        BY <3>2, <3>4
      <4>2. r \in Seq(Devices) /\ Len(r) = Len(q) - skip
        BY <3>3, <3>4
      <4> QED
        BY <1>1, <3>1, <4>1, <4>2
    <3>7. l \o r \in Seq(Devices) /\ Len(l \o r) = Len(l) + Len(r)
      BY <3>6, ConcatProperties
    <3>8. Len(l \o r) <= MaxQueries
      BY <1>1, <3>6, <3>7, FirmataSketchAssumption
    <3>9. board' = [board EXCEPT !.queries = l \o r]
      <4>1. ~(Len(q) <= 1)
        BY <1>1, <2>3
      <4> QED
        BY <2>1, <3>5, <4>1
    <3> QED
      BY <3>7, <3>8, <3>9
  <2> QED
    BY <1>1, <2>2, <2>3
<1>3. /\ BoardTyped(board') /\ board'.i2c = board.i2c /\ board'.mode = board.mode
      /\ board'.hw = board.hw
  BY <1>1, <1>2 DEF BoardTyped, Boards
<1> QED
  BY <1>3, BoardFrame DEF StopReading

(* DIGITAL_MESSAGE *)
LEMMA DigitalWriteInv ==
  ASSUME BoardInv, NEW written, DigitalWrite(written)
  PROVE  BoardInv'
<1>1. board \in Boards /\ Len(board.queries) <= MaxQueries
  BY DEF BoardInv, Safe, BoardTyped
<1> DEFINE hw == [p \in Pins |-> IF p \in written /\ board.mode[p] = "INPUT"
                                THEN "pullup" ELSE board.hw[p]]
<1>2. hw \in [Pins -> {"in", "pullup", "out"}]
  BY <1>1 DEF Boards
<1>3. board' = [board EXCEPT !.hw = hw] /\ pool' = pool /\ sketch' = sketch
  BY DEF DigitalWrite
<1>4. \A p \in Pins : hw[p] = board.hw[p] \/ hw[p] # "out"
  OBVIOUS
<1> HIDE DEF hw
<1>5. /\ BoardTyped(board') /\ board'.i2c = board.i2c /\ board'.mode = board.mode
      /\ board'.hw = hw
  BY <1>1, <1>2, <1>3 DEF BoardTyped, Boards
<1> QED
  BY <1>3, <1>4, <1>5, BoardFrame

(* REPORT_ANALOG *)
LEMMA ReportAnalogInv ==
  ASSUME BoardInv, NEW p \in AnalogPins, ReportAnalog(p)
  PROVE  BoardInv'
<1>1. board \in Boards /\ Len(board.queries) <= MaxQueries
  BY DEF BoardInv, Safe, BoardTyped
<1>2. PICK a \in SUBSET AnalogPins : board' = [board EXCEPT !.analog = a]
  <2>1. board.analog \in SUBSET AnalogPins
    BY <1>1 DEF Boards
  <2> QED
    BY <2>1 DEF ReportAnalog
<1>3. /\ BoardTyped(board') /\ board'.i2c = board.i2c /\ board'.mode = board.mode
      /\ board'.hw = board.hw
  BY <1>1, <1>2 DEF BoardTyped, Boards
<1> QED
  BY <1>3, BoardFrame DEF ReportAnalog

(* SERIAL_CONFIG: only in the sketch whose serial ports may take the bus' pins. *)
LEMMA SerialConfigInv ==
  ASSUME BoardInv, NEW rx \in Pins, NEW tx \in Pins, SerialConfig(rx, tx)
  PROVE  BoardInv'
<1>1. board \in Boards /\ Len(board.queries) <= MaxQueries
  BY DEF BoardInv, Safe, BoardTyped
<1> DEFINE mode == [p \in Pins |-> IF p \in {rx, tx} /\ ~Ignored(board, p)
                                  THEN "SERIAL" ELSE board.mode[p]]
           hw == [board.hw EXCEPT ![rx] = "in"]
<1>2. mode \in [Pins -> Modes \cup {"IGNORE"}] /\ hw \in [Pins -> {"in", "pullup", "out"}]
  BY <1>1 DEF Boards, Modes
<1>3. board' = [board EXCEPT !.mode = mode, !.hw = hw] /\ pool' = pool /\ serial'
  BY DEF SerialConfig, serial
<1>4. /\ \A p \in Pins : mode[p] = board.mode[p] \/ mode[p] = "SERIAL"
      /\ \A p \in Pins : hw[p] = board.hw[p] \/ hw[p] # "out"
  BY <1>1 DEF Boards
<1> HIDE DEF mode, hw
<1>5. BoardTyped(board') /\ board'.mode = mode /\ board'.hw = hw
  BY <1>1, <1>2, <1>3 DEF BoardTyped, Boards
<1>6. ASSUME NEW p \in Pins
      PROVE  PinSafe(board', pool', p)
  BY <1>3, <1>4, <1>5 DEF BoardInv, Safe, PinSafe
<1> QED
  BY <1>3, <1>5, <1>6 DEF BoardInv, Safe, BoardTyped, PinSafe, BusSafe

(* systemResetCallback, from any typed board and any typed servos. *)
LEMMA ResetSafe ==
  ASSUME NEW b, BoardTyped(b), NEW s,
         s.attached \in SUBSET (Indexes \cup {NoServo})
  PROVE  Safe(AfterReset(b), PoolReset(b, s)) /\ ~AfterReset(b).i2c
<1>1. b \in Boards /\ Len(b.queries) <= MaxQueries
  BY DEF BoardTyped
<1> DEFINE mode == [p \in Pins |-> IF Ignored(b, p) THEN b.mode[p] ELSE DefaultMode(p)]
           hw == [p \in Pins |-> IF Ignored(b, p) THEN b.hw[p]
                                ELSE Hardware(b.hw[p], DefaultMode(p), FALSE)]
           queries == IF b.i2c THEN <<>> ELSE b.queries
           left == s.attached \ {s.map[p] : p \in {q \in Pins : ~Ignored(b, q)}}
<1>2. mode \in [Pins -> Modes \cup {"IGNORE"}]
  BY <1>1 DEF Boards, Modes, DefaultMode
<1>3. hw \in [Pins -> {"in", "pullup", "out"}]
  BY <1>1 DEF Boards, Hardware
<1>4. queries \in Seq(Devices) /\ Len(queries) <= MaxQueries
  <2>1. <<>> \in Seq(Devices) /\ Len(<<>>) <= MaxQueries
    BY FirmataSketchAssumption
  <2> QED
    BY <1>1, <2>1 DEF Boards
<1>5. \A p \in Pins : mode[p] \in {"INPUT", "PULLUP", "ANALOG"} => hw[p] # "out"
  BY DEF Ignored, DefaultMode, Hardware
<1>6. AfterReset(b) = [b EXCEPT !.mode = mode, !.hw = hw, !.inputs = {}, !.analog = {},
                                !.i2c = FALSE, !.queries = queries]
  BY DEF AfterReset
<1> HIDE DEF mode, hw, queries
<1>7. /\ BoardTyped(AfterReset(b)) /\ ~AfterReset(b).i2c
      /\ AfterReset(b).mode = mode /\ AfterReset(b).hw = hw
  BY <1>1, <1>2, <1>3, <1>4, <1>6 DEF BoardTyped, Boards
<1>8. PoolReset(b, s) = [EmptyPool EXCEPT !.attached = left] /\ left \in SUBSET (Indexes \cup {NoServo})
  BY DEF PoolReset
<1> HIDE DEF left
<1>9. PoolInv(PoolReset(b, s))
  BY <1>8, EmptyPoolInv
<1>10. \A p \in Pins : PoolReset(b, s).map[p] = NoServo
  BY <1>8 DEF EmptyPool
<1> QED
  BY <1>5, <1>7, <1>9, <1>10 DEF Safe, PinSafe

LEMMA SystemResetInv ==
  ASSUME BoardInv, SystemReset
  PROVE  BoardInv' /\ ReportInv'
<1>1. BoardTyped(board) /\ pool.attached \in SUBSET (Indexes \cup {NoServo})
  BY DEF BoardInv, Safe, PoolInv, Pools
<1>2. Safe(AfterReset(board), PoolReset(board, pool)) /\ ~AfterReset(board).i2c
  BY <1>1, ResetSafe
<1>3. board' = AfterReset(board) /\ pool' = PoolReset(board, pool)
  BY DEF SystemReset
<1>4. BoardInv'
  BY <1>2, <1>3 DEF BoardInv, Safe, BoardTyped, PinSafe, BusSafe
<1>5. ReportInv'
  BY DEF SystemReset, ReportInv, HostInStep
<1> QED
  BY <1>4, <1>5

-----------------------------------------------------------------------------
(* What is noted as sent and what is told are sets of pins, and the same ones
   whenever the report is forced or the host was in step. *)
LEMMA OutputPortFields ==
  ASSUME ReportInv, NEW t \in Ports, NEW high \in SUBSET Pins, NEW force \in BOOLEAN
  PROVE  /\ outputPort(t, high, force).previous \in SUBSET Pins
         /\ outputPort(t, high, force).told \in SUBSET Pins
         /\ force \/ t \in asked =>
              outputPort(t, high, force).previous = outputPort(t, high, force).told
<1>1. previous[t] \in SUBSET Pins /\ host[t] \in SUBSET Pins
  BY DEF ReportInv
<1>2. t \in asked => host[t] = previous[t]
  BY DEF ReportInv, HostInStep
<1> DEFINE masked == high \cap board.inputs
<1>3. masked \in SUBSET Pins
  OBVIOUS
<1>4. outputPort(t, high, force) =
        IF force \/ masked # previous[t]
          THEN [previous |-> masked, told |-> masked]
          ELSE [previous |-> previous[t], told |-> host[t]]
  BY DEF outputPort
<1> HIDE DEF masked
<1> QED
  BY <1>1, <1>2, <1>3, <1>4

(* REPORT_DIGITAL *)
LEMMA ReportDigitalInv ==
  ASSUME ReportInv, NEW t \in Ports, ReportDigital(t)
  PROVE  ReportInv'
<1>1. CASE /\ report' = report \ {t} /\ asked' = asked \ {t}
           /\ host' = [host EXCEPT ![t] = {}] /\ UNCHANGED previous
  BY <1>1 DEF ReportInv, HostInStep
<1>2. CASE \E high \in SUBSET PinsOf(t) :
             LET sent == outputPort(t, high, TRUE) IN
             /\ report' = report \cup {t}
             /\ asked' = asked \cup {t}
             /\ previous' = [previous EXCEPT ![t] = sent.previous]
             /\ host' = [host EXCEPT ![t] = sent.told]
  <2>1. PICK high, sent :
          /\ high \in SUBSET Pins
          /\ sent = outputPort(t, high, TRUE)
          /\ report' = report \cup {t} /\ asked' = asked \cup {t}
          /\ previous' = [previous EXCEPT ![t] = sent.previous]
          /\ host' = [host EXCEPT ![t] = sent.told]
    BY <1>2 DEF PinsOf
  <2>2. sent.previous \in SUBSET Pins /\ sent.told \in SUBSET Pins /\ sent.previous = sent.told
    BY <2>1, OutputPortFields
  <2> QED
    BY <2>1, <2>2 DEF ReportInv, HostInStep
<1> QED
  BY <1>1, <1>2 DEF ReportDigital

(* checkDigitalInputs *)
LEMMA CheckDigitalInputsInv ==
  ASSUME ReportInv, CheckDigitalInputs
  PROVE  ReportInv'
<1> DEFINE Sent(high) == [t \in Ports |-> outputPort(t, high \cap PinsOf(t), FALSE)]
<1>0. PICK high \in SUBSET Pins :
        /\ previous' = [t \in Ports |->
                           IF t \in report THEN Sent(high)[t].previous ELSE previous[t]]
        /\ host' = [t \in Ports |->
                       IF t \in report \cap asked THEN Sent(high)[t].told ELSE host[t]]
  BY Zenon DEF CheckDigitalInputs
<1> DEFINE sent == Sent(high)
<1>1. /\ high \in SUBSET Pins
      /\ sent = [t \in Ports |-> outputPort(t, high \cap PinsOf(t), FALSE)]
      /\ previous' = [t \in Ports |-> IF t \in report THEN sent[t].previous ELSE previous[t]]
      /\ host' = [t \in Ports |-> IF t \in report \cap asked THEN sent[t].told ELSE host[t]]
      /\ report' = report /\ asked' = asked
  BY <1>0 DEF CheckDigitalInputs
<1> HIDE DEF sent
<1>2. ASSUME NEW t \in Ports
      PROVE  /\ sent[t].previous \in SUBSET Pins /\ sent[t].told \in SUBSET Pins
             /\ t \in asked => sent[t].previous = sent[t].told
  <2>1. sent[t] = outputPort(t, high \cap PinsOf(t), FALSE)
    BY <1>1
  <2>2. high \cap PinsOf(t) \in SUBSET Pins
    BY <1>1
  <2> QED
    BY <2>1, <2>2, OutputPortFields
<1>3. \A t \in Ports : previous'[t] \in SUBSET Pins /\ host'[t] \in SUBSET Pins
  BY <1>1, <1>2 DEF ReportInv
<1>4. previous' \in [Ports -> SUBSET Pins] /\ host' \in [Ports -> SUBSET Pins]
  BY <1>1, <1>3
<1>5. ASSUME NEW t \in asked
      PROVE  host'[t] = previous'[t]
  BY <1>1, <1>2 DEF ReportInv
<1> QED
  BY <1>1, <1>4, <1>5 DEF ReportInv, HostInStep

-----------------------------------------------------------------------------
LEMMA InitInv == Init => IInv
<1> SUFFICES ASSUME Init
             PROVE  IInv
  OBVIOUS
<1>1. PICK ignored : board = AfterReset(Fresh(ignored))
  BY DEF Init
<1>2. BoardTyped(Fresh(ignored))
  <2>1. <<>> \in Seq(Devices) /\ Len(<<>>) <= MaxQueries
    BY FirmataSketchAssumption
  <2>2. /\ [p \in Pins |-> IF p \in ignored THEN "IGNORE" ELSE "INPUT"]
             \in [Pins -> Modes \cup {"IGNORE"}]
        /\ [p \in Pins |-> "in"] \in [Pins -> {"in", "pullup", "out"}]
    BY DEF Modes
  <2> QED
    BY <2>1, <2>2 DEF BoardTyped, Boards, Fresh
<1>3. EmptyPool = [EmptyPool EXCEPT !.attached = {}] /\ EmptyPool.attached = {}
  BY DEF EmptyPool
<1>4. PoolInv(EmptyPool) /\ \A p \in Pins : EmptyPool.map[p] = NoServo
  <2>1. PoolInv([EmptyPool EXCEPT !.attached = {}])
    BY EmptyPoolInv
  <2> QED
    BY <1>3, <2>1 DEF EmptyPool
<1>5. Safe(board, PoolReset(Fresh(ignored), EmptyPool)) /\ ~board.i2c
  BY <1>1, <1>2, <1>3, ResetSafe
<1>6. BoardInv
  <2>1. \A p \in Pins : PoolReset(Fresh(ignored), EmptyPool).map[p] = NoServo
    BY DEF PoolReset, EmptyPool
  <2>2. pool = EmptyPool
    BY DEF Init
  <2> QED
    BY <1>4, <1>5, <2>1, <2>2 DEF BoardInv, Safe, PinSafe, BusSafe
<1>7. ReportInv
  BY DEF Init, ReportInv, HostInStep
<1>8. sketch \in Sketches /\ link \in BOOLEAN
  BY DEF Init
<1> QED
  BY <1>6, <1>7, <1>8, IInvParts

(* What a message that is about the board leaves alone. *)
ReportsKept == UNCHANGED <<report, previous, asked, host>>

BoardKept == UNCHANGED <<sketch, board, pool>>

LEMMA BoardKeptInv ==
  ASSUME BoardInv, BoardKept
  PROVE  BoardInv'
<1>1. board' = board /\ pool' = pool /\ sketch' = sketch
  BY DEF BoardKept
<1> QED
  BY <1>1 DEF BoardInv, Safe, BoardTyped, PinSafe, BusSafe, serial

LEMMA ReportsKeptInv ==
  ASSUME ReportInv, ReportsKept
  PROVE  ReportInv'
BY DEF ReportsKept, ReportInv, HostInStep

LEMMA PinMessageInv ==
  ASSUME BoardInv, ReportInv, PinMessage
  PROVE  BoardInv' /\ ReportInv' /\ UNCHANGED <<sketch, link>>
<1>1. CASE \E p \in Pins, m \in Modes : SetPinMode(p, m)
  <2>1. PICK p \in Pins, m \in Modes : SetPinMode(p, m)
    BY <1>1
  <2>2. ReportsKept /\ UNCHANGED <<sketch, link>>
    BY <2>1 DEF SetPinMode, ReportsKept
  <2> QED
    BY <2>1, <2>2, SetPinModeInv, ReportsKeptInv
<1>2. CASE \E written \in SUBSET Pins : DigitalWrite(written)
  <2>1. PICK written : DigitalWrite(written)
    BY <1>2
  <2>2. ReportsKept /\ UNCHANGED <<sketch, link>>
    BY <2>1 DEF DigitalWrite, ReportsKept
  <2> QED
    BY <2>1, <2>2, DigitalWriteInv, ReportsKeptInv
<1>3. CASE \E p \in AnalogPins : ReportAnalog(p)
  <2>1. PICK p \in AnalogPins : ReportAnalog(p)
    BY <1>3
  <2>2. ReportsKept /\ UNCHANGED <<sketch, link>>
    BY <2>1 DEF ReportAnalog, ReportsKept
  <2> QED
    BY <2>1, <2>2, ReportAnalogInv, ReportsKeptInv
<1>4. CASE \E t \in Ports : ReportDigital(t)
  <2>1. PICK t \in Ports : ReportDigital(t)
    BY <1>4
  <2>2. BoardKept /\ UNCHANGED <<sketch, link>>
    BY <2>1 DEF ReportDigital, BoardKept
  <2> QED
    BY <2>1, <2>2, ReportDigitalInv, BoardKeptInv
<1> QED
  BY <1>1, <1>2, <1>3, <1>4 DEF PinMessage

LEMMA SysexInv ==
  ASSUME BoardInv, ReportInv, NEW unknown \in SUBSET Int,
         \A i \in unknown : Len(board.queries) > 1 => i \in DOMAIN board.queries,
         Sysex(unknown)
  PROVE  BoardInv' /\ ReportInv' /\ UNCHANGED <<sketch, link>>
<1>1. CASE \E p \in Pins : ServoConfig(p)
  <2>1. PICK p \in Pins : ServoConfig(p)
    BY <1>1
  <2>2. ReportsKept /\ UNCHANGED <<sketch, link>>
    BY <2>1 DEF ServoConfig, ReportsKept
  <2> QED
    BY <2>1, <2>2, ServoConfigInv, ReportsKeptInv
<1>2. CASE I2CConfig
  <2>1. ReportsKept /\ UNCHANGED <<sketch, link>>
    BY <1>2 DEF I2CConfig, ReportsKept
  <2> QED
    BY <1>2, <2>1, I2CConfigInv, ReportsKeptInv
<1>3. CASE \E d \in Devices : ReadContinuously(d)
  <2>1. PICK d \in Devices : ReadContinuously(d)
    BY <1>3
  <2>2. ReportsKept /\ UNCHANGED <<sketch, link>>
    BY <2>1 DEF ReadContinuously, ReportsKept
  <2> QED
    BY <2>1, <2>2, ReadContinuouslyInv, ReportsKeptInv
<1>4. CASE \E d \in Devices \cup {NeverRead} : StopReading(d, unknown)
  <2>1. PICK d : StopReading(d, unknown)
    BY <1>4
  <2>2. ReportsKept /\ UNCHANGED <<sketch, link>>
    BY <2>1 DEF StopReading, ReportsKept
  <2> QED
    BY <2>1, <2>2, StopReadingInv, ReportsKeptInv
<1> QED
  BY <1>1, <1>2, <1>3, <1>4 DEF Sysex

-----------------------------------------------------------------------------
(* Every sketch runs one of the shared handlers. *)
LEMMA SketchSteps ==
  ASSUME Next
  PROVE  \/ PinMessage
         \/ Sysex(SkipUnknown) \/ Sysex(DOMAIN board.queries)
         \/ SystemReset
         \/ CheckDigitalInputs /\ UNCHANGED <<sketch, link>>
         \/ \E rx, tx \in Pins : SerialConfig(rx, tx)
         \/ LinkChanges
<1>1. StandardPins \/ ChipKITPins \/ PlaygroundPins \/ PlusPins \/ EthernetPins \/ WiFiPins
        \/ BLEPins => PinMessage
  BY DEF StandardPins, ChipKITPins, PlaygroundPins, PlusPins, EthernetPins, WiFiPins, BLEPins
<1>2. StandardSysex \/ ChipKITSysex \/ PlusSysex \/ EthernetSysex \/ WiFiSysex \/ BLESysex
        => Sysex(SkipUnknown)
  BY DEF StandardSysex, ChipKITSysex, PlusSysex, EthernetSysex, WiFiSysex, BLESysex
<1>3. PlaygroundSysex => Sysex(DOMAIN board.queries)
  BY DEF PlaygroundSysex
<1>4. StandardReset \/ ChipKITReset \/ PlaygroundReset \/ PlusReset \/ EthernetReset
        \/ WiFiReset \/ BLEReset => SystemReset
  BY DEF StandardReset, ChipKITReset, PlaygroundReset, PlusReset, EthernetReset, WiFiReset, BLEReset
<1>5. StandardLoop \/ ChipKITLoop \/ PlaygroundLoop \/ PlusLoop \/ EthernetLoop
        \/ WiFiLoop \/ BLELoop => CheckDigitalInputs /\ UNCHANGED <<sketch, link>>
  BY DEF StandardLoop, ChipKITLoop, PlaygroundLoop, PlusLoop, EthernetLoop, WiFiLoop, BLELoop,
         CheckDigitalInputs
<1>6. (\E rx, tx \in Pins : rx # tx /\ SerialConfig(rx, tx))
        => \E rx, tx \in Pins : SerialConfig(rx, tx)
  OBVIOUS
<1> QED
  BY <1>1, <1>2, <1>3, <1>4, <1>5, <1>6 DEF Next

LEMMA StepInv == IInv /\ [Next]_sketchVars => IInv'
<1> SUFFICES ASSUME IInv, [Next]_sketchVars
             PROVE  IInv'
  OBVIOUS
<1>0. /\ sketch \in Sketches /\ link \in BOOLEAN /\ BoardInv /\ ReportInv
      /\ board.queries \in Seq(Devices)
  BY IInvParts DEF BoardInv, Safe, BoardTyped, Boards
<1> SUFFICES sketch' \in Sketches /\ link' \in BOOLEAN /\ BoardInv' /\ ReportInv'
  BY IInvPartsNext
<1>1. CASE PinMessage
  BY <1>0, <1>1, PinMessageInv
<1>2. CASE Sysex(SkipUnknown)
  <2>1. \A i \in SkipUnknown : Len(board.queries) > 1 => i \in DOMAIN board.queries
    BY <1>0 DEF SkipUnknown
  <2>2. SkipUnknown \in SUBSET Int
    BY DEF SkipUnknown
  <2> QED
    BY <1>0, <1>2, <2>1, <2>2, SysexInv
<1>3. CASE Sysex(DOMAIN board.queries)
  <2>1. DOMAIN board.queries \in SUBSET Int
    BY <1>0
  <2> QED
    BY <1>0, <1>3, <2>1, SysexInv
<1>4. CASE SystemReset
  <2>1. UNCHANGED <<sketch, link>>
    BY <1>4 DEF SystemReset
  <2> QED
    BY <1>0, <1>4, <2>1, SystemResetInv
<1>5. CASE CheckDigitalInputs /\ UNCHANGED <<sketch, link>>
  <2>1. BoardKept
    BY <1>5 DEF CheckDigitalInputs, BoardKept
  <2> QED
    BY <1>0, <1>5, <2>1, CheckDigitalInputsInv, BoardKeptInv
<1>6. CASE \E rx, tx \in Pins : SerialConfig(rx, tx)
  <2>1. PICK rx \in Pins, tx \in Pins : SerialConfig(rx, tx)
    BY <1>6
  <2>2. ReportsKept /\ UNCHANGED <<sketch, link>>
    BY <2>1 DEF SerialConfig, ReportsKept
  <2> QED
    BY <1>0, <2>1, <2>2, SerialConfigInv, ReportsKeptInv
<1>7. CASE LinkChanges
  <2>1. BoardKept /\ link' \in BOOLEAN /\ sketch' = sketch
    BY <1>0, <1>7 DEF LinkChanges, BoardKept
  <2>2. ReportInv'
    BY <1>0, <1>7 DEF LinkChanges, ReportInv, HostInStep
  <2> QED
    BY <1>0, <2>1, <2>2, BoardKeptInv
<1>8. CASE UNCHANGED sketchVars
  <2>1. BoardKept /\ ReportsKept /\ UNCHANGED <<sketch, link>>
    BY <1>8 DEF sketchVars, BoardKept, ReportsKept
  <2> QED
    BY <1>0, <2>1, BoardKeptInv, ReportsKeptInv
<1> QED
  BY <1>1, <1>2, <1>3, <1>4, <1>5, <1>6, <1>7, <1>8, SketchSteps

LEMMA Inductive == Spec => []IInv
BY InitInv, StepInv, PTL DEF Spec

(* The variables have their types; the table of continuous reads never holds
   more than I2C_MAX_QUERIES. *)
THEOREM SketchTyped == Spec => []TypeOK
<1>1. IInv => TypeOK
  BY DEF IInv
<1> QED
  BY <1>1, Inductive, PTL

(* A new index is taken only when every other is on a pin. *)
Raises(s, t) == t.count > s.count => AllOnPins(t)

(* attachServo either refuses, or the pin has a servo afterwards. *)
LEMMA AttachRaises ==
  ASSUME NEW s, PoolInv(s), NEW pin \in Pins, s.map[pin] = NoServo
  PROVE  /\ Raises(s, attachServo(s, pin))
         /\ attachServo(s, pin).map[pin] = NoServo => attachServo(s, pin) = s
<1> DEFINE t == attachServo(s, pin)
           top == Len(s.detached)
<1>1. /\ s.map \in [Pins -> Indexes \cup {NoServo}]
      /\ s.detached \in Seq(Indexes) /\ s.count \in 0 .. MaxServos
      /\ MaxServos \in 0 .. 254 /\ top \in Nat /\ s \in Pools
  BY ServoPoolAssumption DEF PoolInv, Pools
<1>2. CASE s.count >= MaxServos
  BY <1>1, <1>2 DEF attachServo, Raises
<1>3. CASE ~(s.count >= MaxServos) /\ top > 0
  <2>1. t.count = s.count /\ t.map[pin] = s.detached[top]
    BY <1>1, <1>3 DEF attachServo, Pools
  <2>2. s.detached[top] \in Indexes
    BY <1>1, <1>3
  <2> QED
    BY <1>1, <2>1, <2>2 DEF Raises, NoServo, Indexes
<1>4. CASE ~(s.count >= MaxServos) /\ ~(top > 0)
  <2>1. /\ t.detached = s.detached /\ t.count = s.count + 1 /\ t.map[pin] = s.count
    BY <1>1, <1>4 DEF attachServo, Pools
  <2>2. PoolOK(t)
    BY AttachInv DEF PoolInv
  <2>3. Len(t.detached) = 0 /\ t.count \in 0 .. MaxServos
    BY <1>1, <1>4, <2>1
  <2> HIDE DEF t
  <2>4. AllOnPins(t)
    BY <1>1, <2>2, <2>3 DEF PoolOK, AllOnPins
  <2> QED
    BY <1>1, <1>4, <2>1, <2>4 DEF Raises, NoServo, t
<1> QED
  BY <1>2, <1>3, <1>4

LEMMA PoolAfterRaises ==
  ASSUME NEW b, NEW s, PoolInv(s), NEW p \in Pins, NEW m \in Modes
  PROVE  /\ Raises(s, PoolAfter(b, s, p, m))
         /\ m # "SERVO" => PoolAfter(b, s, p, m).count = s.count
<1>0. s.count \in Nat
  BY ServoPoolAssumption DEF PoolInv, Pools
<1>1. PoolAfter(b, s, p, m) = s => PoolAfter(b, s, p, m).count = s.count
  OBVIOUS
<1>2. CASE PoolAfter(b, s, p, m) = s
  BY <1>0, <1>2 DEF Raises
<1>3. CASE PoolAfter(b, s, p, m) # s /\ m = "SERVO"
  BY <1>3, NoServoThere, AttachRaises DEF PoolAfter
<1>4. CASE PoolAfter(b, s, p, m) # s /\ m # "SERVO"
  <2>1. PoolAfter(b, s, p, m) = detachServo(s, p) /\ s.map[p] # NoServo
    BY <1>4, NoServoThere DEF PoolAfter
  <2> QED
    BY <1>0, <2>1, DetachInv DEF Raises
<1> QED
  BY <1>2, <1>3, <1>4

LEMMA ServoConfigRaises ==
  ASSUME PoolInv(pool), NEW p \in Pins, ServoConfig(p)
  PROVE  Raises(pool, pool')
<1> DEFINE freed == IF HasServo(pool, p) THEN detachServo(pool, p) ELSE pool
           given == attachServo(freed, p)
<1>1. PoolInv(freed) /\ freed.map[p] = NoServo /\ freed.count = pool.count
  BY NoServoThere, DetachInv
<1>2. pool' = PoolAfter(board, given, p, "SERVO")
  BY DEF ServoConfig
<1> HIDE DEF freed
<1>3. PoolInv(given) /\ Raises(freed, given) /\ (given.map[p] = NoServo => given = freed)
  BY <1>1, AttachInv, AttachRaises
<1>4. pool' = given
  <2>1. CASE given.map[p] = NoServo
    <3>1. attachServo(given, p) = given
      BY <1>3, <2>1
    <3> QED
      BY <1>2, <1>3, <3>1 DEF PoolAfter
  <2>2. CASE given.map[p] # NoServo
    BY <1>2, <1>3, <2>2, NoServoThere DEF PoolAfter
  <2> QED
    BY <2>1, <2>2
<1> QED
  BY <1>1, <1>3, <1>4 DEF Raises

LEMMA I2CConfigRaises ==
  ASSUME PoolInv(pool), I2CConfig
  PROVE  Raises(pool, pool')
<1> DEFINE first == IF SDA < SCL THEN SDA ELSE SCL
           second == IF SDA < SCL THEN SCL ELSE SDA
           b == BoardAfter(board, pool, first, "I2C")
           s == PoolAfter(board, pool, first, "I2C")
<1>1. first \in Pins /\ second \in Pins /\ "I2C" \in Modes /\ "I2C" # "SERVO"
  BY FirmataSketchAssumption DEF Modes
<1>2. pool' = PoolAfter(b, s, second, "I2C")
  BY DEF I2CConfig
<1>a. s = PoolAfter(board, pool, first, "I2C")
  OBVIOUS
<1> HIDE DEF first, second, b, s
<1>3. PoolInv(s) /\ s.count = pool.count
  <2>1. PoolInv(PoolAfter(board, pool, first, "I2C"))
    BY <1>1, PoolAfterInv
  <2>2. PoolAfter(board, pool, first, "I2C").count = pool.count
    BY <1>1, PoolAfterRaises
  <2> QED BY <1>a, <2>1, <2>2
<1>4. pool'.count = pool.count /\ pool.count \in Nat
  BY <1>1, <1>2, <1>3, PoolAfterRaises, ServoPoolAssumption DEF PoolInv, Pools
<1> QED
  BY <1>4 DEF Raises

(* The last disjunct: no other step touches the count, but for the reset. *)
LEMMA StepRaises == IInv /\ [Next]_sketchVars => Raises(pool, pool')
<1> SUFFICES ASSUME IInv, [Next]_sketchVars
             PROVE  Raises(pool, pool')
  OBVIOUS
<1>0. PoolInv(pool) /\ pool.count \in Nat
  BY ServoPoolAssumption DEF IInv, PoolInv, Pools
<1>1. pool' = pool => Raises(pool, pool')
  BY <1>0 DEF Raises
<1>2. PinMessage => Raises(pool, pool')
  BY <1>0, <1>1, PoolAfterRaises
     DEF PinMessage, SetPinMode, DigitalWrite, ReportAnalog, ReportDigital
<1>3. ASSUME NEW unknown, Sysex(unknown)
      PROVE  Raises(pool, pool')
  BY <1>0, <1>1, <1>3, ServoConfigRaises, I2CConfigRaises
     DEF Sysex, ReadContinuously, StopReading
<1>4. SystemReset => Raises(pool, pool')
  <2>1. SystemReset => pool'.count = 0
    BY DEF SystemReset, PoolReset, EmptyPool
  <2> QED
    BY <1>0, <2>1 DEF Raises
<1>5. CheckDigitalInputs \/ (\E rx, tx \in Pins : SerialConfig(rx, tx)) \/ LinkChanges
        \/ UNCHANGED sketchVars => pool' = pool
  BY DEF CheckDigitalInputs, SerialConfig, LinkChanges, sketchVars
<1> QED
  BY <1>1, <1>2, <1>3, <1>4, <1>5, SketchSteps

(* Whatever the host asks of the servos, each that was used is on one pin or once
   on the stack of detachedServos, and a new one is taken only when the stack is
   empty: MAX_SERVOS is reached only when that many pins have a servo together. *)
THEOREM SketchServosPartitioned == Spec => ServosPartitioned
<1>1. IInv => PoolOK(pool)
  BY DEF IInv, PoolInv
<1>2. IInv /\ [Next]_sketchVars => [pool'.count > pool.count => AllOnPins(pool')]_pool
  BY StepRaises DEF Raises
<1> QED
  BY <1>1, <1>2, Inductive, PTL DEF Spec, ServosPartitioned

(* setPinModeCallback, SERVO_CONFIG and the reset leave a servo only on a pin in
   servo mode, one of the serial ports' or one that is ignored. *)
THEOREM SketchServoOnItsPin == Spec => []ServoOnItsPin
<1>1. IInv => ServoOnItsPin
  BY DEF IInv
<1> QED
  BY <1>1, Inductive, PTL

(* A pin whose mode is an input is not driven. *)
THEOREM SketchInputsNotDriven == Spec => []InputsNotDriven
<1>1. IInv => InputsNotDriven
  BY DEF IInv
<1> QED
  BY <1>1, Inductive, PTL

(* No other mode takes a pin from the enabled I2C bus. *)
THEOREM SketchBusHasItsPins == Spec => []BusHasItsPins
<1>1. IInv => BusHasItsPins
  BY DEF IInv
<1> QED
  BY <1>1, Inductive, PTL

(* previousPINs is what the host that is connected was last told. *)
THEOREM SketchHostInStep == Spec => []HostInStep
<1>1. IInv => HostInStep
  BY DEF IInv
<1> QED
  BY <1>1, Inductive, PTL

----------------------------------------------------------------

-----------------------------------------------------------------------------
(* The parser and the wire: what the parser has of a message is determined by the
   bytes it took of it, whatever it was given before. *)

Parsers ==
  [executeMultiByteCommand : Nat, multiByteChannel : Nat, waitForData : 0 .. 2,
   parsingSysex : BOOLEAN, sysexBytesRead : 0 .. CountedTo,
   dataBuffer : [0 .. DataBytes - 1 -> Nat]]

(* How many bytes a message is, and the place of one of them. *)
Size(m) == Len(Marshal(m))

(* What the parser knows once it has the first k bytes of m, but not the last. *)
Midway(p, m, k) ==
  IF m.command = START_SYSEX
    THEN /\ p.parsingSysex
         /\ p.sysexBytesRead = k - 1
         /\ \A j \in 0 .. k - 2 : p.dataBuffer[j] = Marshal(m)[j + 2]
    ELSE /\ ~p.parsingSysex
         /\ p.waitForData = Size(m) - k
         /\ p.executeMultiByteCommand = m.command
         /\ m.command < START_SYSEX => p.multiByteChannel = m.channel
         /\ k = 2 => p.dataBuffer[1] = Marshal(m)[2]

Place(m, i) == [message |-> m, at |-> i, last |-> i = Size(m)]

Cells ==
  UNION {{[byte |-> Marshal(m)[i], place |-> Place(m, i)] : i \in 1 .. Size(m)} : m \in Messages}

(* What is on the wire and with the host are bytes of messages. *)
WireInv == wire \in Seq(Cells) /\ outgoing \in Seq(Cells)

(* The parser has what it is to have of the message it follows, or has just called
   the sketch with it. *)
FollowInv ==
  \/ follow = Nothing
  \/ \E m \in Messages : \E k \in 1 .. Size(m) :
       /\ follow = Place(m, k)
       /\ IF k = Size(m) THEN got = m ELSE Midway(parser, m, k)

ParserInv == WireInv /\ parser \in Parsers /\ FollowInv

LEMMA ParserNumbers ==
  /\ DataBytes \in Nat /\ DataBytes >= 2
  /\ CountedTo \in Nat /\ CountedTo > DataBytes
  BY FirmataParserAssumption

-----------------------------------------------------------------------------
(* What a host writes for each kind of message. *)
(* The loop of encodeByteStream, begun. *)
LEMMA FirstEncoded ==
  ASSUME NEW b \in 0 .. 255
  PROVE  EncodeByte([out |-> <<>>, cache |-> 0, bits |-> 0], b, 2)
           = [out |-> <<b % 128>>, cache |-> b \div 128, bits |-> 1]
<1> DEFINE acc == [out |-> <<>>, cache |-> 0, bits |-> 0]
<1>1. 2 ^ 7 = 128
  OBVIOUS
<1>2. acc.out = <<>> /\ acc.bits = 0 /\ Len(acc.out) = 0 /\ Append(acc.out, b % 128) = <<b % 128>>
  OBVIOUS
<1>3. 7 - acc.bits = 7 /\ acc.bits + 1 = 1
  BY <1>2
<1> HIDE DEF acc
<1>4. EncodeByte(acc, b, 2)
        = [out |-> Append(acc.out, b % 128), cache |-> b \div 128, bits |-> 1]
  BY <1>1, <1>2, <1>3 DEF EncodeByte
<1>5. EncodeByte(acc, b, 2) = [out |-> <<b % 128>>, cache |-> b \div 128, bits |-> 1]
  BY <1>2, <1>4
<1> QED
  BY <1>5 DEF acc

LEMMA OneByteEncoded ==
  ASSUME NEW b \in 0 .. 255
  PROVE  /\ encodeByteStream(<<b>>, 2) = <<b % 128, b \div 128>>
         /\ b % 128 \in 0 .. 127 /\ b \div 128 \in 0 .. 127
<1> DEFINE one == [out |-> <<b % 128>>, cache |-> b \div 128, bits |-> 1]
<1>1. b \div 128 \in 0 .. 1 /\ (b \div 128) % 2 = b \div 128 /\ 2 ^ 1 = 2
  OBVIOUS
<1>2. Len(<<b>>) = 1 /\ <<b>>[1] = b
  OBVIOUS
<1>3. EncodeByte([out |-> <<>>, cache |-> 0, bits |-> 0], <<b>>[1], 2) = one
  BY <1>2, FirstEncoded
<1>4. one.bits = 1 /\ one.cache = b \div 128 /\ Len(one.out) = 1 /\ one.out = <<b % 128>>
  OBVIOUS
<1> HIDE DEF one
<1>5. encodeByteStream(<<b>>, 2)
        = IF one.bits > 0 /\ Len(one.out) < 2
            THEN Append(one.out, one.cache % 2 ^ one.bits) ELSE one.out
  BY <1>2, <1>3, Zenon DEF encodeByteStream
<1>6. 2 ^ one.bits = 2
  BY <1>1, <1>4
<1>7. encodeByteStream(<<b>>, 2) = Append(one.out, b \div 128)
  BY <1>1, <1>4, <1>5, <1>6
<1>8. b % 128 \in 0 .. 127 /\ b \div 128 \in 0 .. 127
  OBVIOUS
<1> QED
  BY <1>4, <1>7, <1>8

LEMMA TwoGroups ==
  ASSUME NEW lo \in 0 .. 255, NEW hi \in 0 .. 63
  PROVE  /\ lo % 128 = (256 * hi + lo) % 128
         /\ (lo \div 128 + hi * 2) % 128 = (256 * hi + lo) \div 128
<1>1. lo % 128 \in 0 .. 127 /\ lo \div 128 \in 0 .. 1 /\ lo = 128 * (lo \div 128) + (lo % 128)
  OBVIOUS
<1> DEFINE q == lo \div 128
           r == lo % 128
<1>2. q \in Int /\ r \in 0 .. 127 /\ q + hi * 2 \in 0 .. 127 /\ 256 * hi + lo = 128 * (q + hi * 2) + r
  BY <1>1
<1> HIDE DEF q, r
<1> DEFINE n == q + hi * 2
<1>3. n \in 0 .. 127 /\ 256 * hi + lo = 128 * n + r
  BY <1>2
<1> HIDE DEF n
<1>4. (128 * n + r) % 128 = r /\ (128 * n + r) \div 128 = n /\ n % 128 = n
  BY <1>2, <1>3
<1> QED
  BY <1>3, <1>4 DEF n, q, r

LEMMA TwoBytesEncoded ==
  ASSUME NEW lo \in 0 .. 255, NEW hi \in 0 .. 63
  PROVE  encodeByteStream(<<lo, hi>>, 2) = <<(256 * hi + lo) % 128, (256 * hi + lo) \div 128>>
<1> DEFINE one == [out |-> <<lo % 128>>, cache |-> lo \div 128, bits |-> 1]
           two == EncodeByte(one, hi, 2)
           v == 256 * hi + lo
<1>1. lo % 128 = v % 128 /\ (lo \div 128 + hi * 2) % 128 = v \div 128
  BY TwoGroups
<1>2. 2 ^ 1 = 2
  OBVIOUS
<1>3. /\ one.bits = 1 /\ one.cache = lo \div 128 /\ Len(one.out) = 1 /\ one.out = <<lo % 128>>
      /\ 7 - one.bits = 6 /\ one.bits + 1 = 2
  OBVIOUS
<1>4. Len(<<lo, hi>>) = 2 /\ <<lo, hi>>[1] = lo /\ <<lo, hi>>[2] = hi
  OBVIOUS
<1>5. EncodeByte([out |-> <<>>, cache |-> 0, bits |-> 0], lo, 2) = one
  BY FirstEncoded
<1> HIDE DEF one, v
<1>6. two = [out |-> Append(one.out, (lo \div 128 + hi * 2) % 128),
             cache |-> hi \div 2 ^ 6, bits |-> 2]
  <2>1. one.cache + hi * 2 ^ one.bits = lo \div 128 + hi * 2
    BY <1>2, <1>3
  <2> QED BY <1>3, <2>1 DEF EncodeByte
<1>7. two.out = <<v % 128, v \div 128>> /\ Len(two.out) = 2
  BY <1>1, <1>3, <1>6
<1> HIDE DEF two
<1>8. encodeByteStream(<<lo, hi>>, 2)
         = IF two.bits > 0 /\ Len(two.out) < 2
             THEN Append(two.out, two.cache % 2 ^ two.bits) ELSE two.out
  <2>1. EncodeByte(one, <<lo, hi>>[2], 2) = two
    BY <1>4 DEF two
  <2>2. (Len(<<lo, hi>>) = 1) = FALSE
    BY <1>4
  <2>3. EncodeByte([out |-> <<>>, cache |-> 0, bits |-> 0], <<lo, hi>>[1], 2) = one
    BY <1>4, <1>5
  <2> QED BY <2>1, <2>2, <2>3, Zenon DEF encodeByteStream
<1>9. encodeByteStream(<<lo, hi>>, 2) = two.out
  BY <1>7, <1>8
<1> QED
  BY <1>7, <1>9 DEF v

(* The messages, by the way they are written. *)
LEMMA Joined1 ==
  ASSUME NEW a
  PROVE  <<a>> \o <<>> = <<a>>
<1>1. <<a>> \in Seq({a})
  OBVIOUS
<1> QED
  BY <1>1, ConcatEmptySeq

LEMMA Joined2 ==
  ASSUME NEW a, NEW b
  PROVE  <<a>> \o <<b>> = <<a,b>>
<1> DEFINE s == <<a>> \o <<b>>
           t == <<a, b>>
           S == {a, b}
<1>1. <<a>> \in Seq(S) /\ <<b>> \in Seq(S) /\ Len(<<a>>) = 1 /\ Len(<<b>>) = 1
  OBVIOUS
<1>2. s \in Seq(S) /\ Len(s) = 2 /\ s[1] = a /\ s[2] = b
  <2> HIDE DEF S
  <2>1. <<a>>[1] = a /\ <<b>>[1] = b
    OBVIOUS
  <2> QED BY <1>1, <2>1, ConcatProperties
<1>3. t \in Seq(S) /\ Len(t) = 2 /\ t[1] = a /\ t[2] = b
  OBVIOUS
<1> HIDE DEF s, t, S
<1>4. \A i \in 1 .. Len(s) : s[i] = t[i]
  BY <1>2, <1>3
<1> QED
  BY <1>2, <1>3, <1>4, SeqEqual DEF s, t

LEMMA Joined3 ==
  ASSUME NEW a, NEW b, NEW c
  PROVE  <<a>> \o <<b,c>> = <<a,b,c>>
<1> DEFINE s == <<a>> \o <<b, c>>
           t == <<a, b, c>>
           S == {a, b, c}
<1>1. <<a>> \in Seq(S) /\ <<b, c>> \in Seq(S) /\ Len(<<a>>) = 1 /\ Len(<<b, c>>) = 2
  OBVIOUS
<1>2. s \in Seq(S) /\ Len(s) = 3 /\ s[1] = a /\ s[2] = b /\ s[3] = c
  <2> HIDE DEF S
  <2>1. <<a>>[1] = a /\ <<b, c>>[1] = b /\ <<b, c>>[2] = c
    OBVIOUS
  <2> QED BY <1>1, <2>1, ConcatProperties
<1>3. t \in Seq(S) /\ Len(t) = 3 /\ t[1] = a /\ t[2] = b /\ t[3] = c
  OBVIOUS
<1> HIDE DEF s, t, S
<1>4. \A i \in 1 .. Len(s) : s[i] = t[i]
  BY <1>2, <1>3
<1> QED
  BY <1>2, <1>3, <1>4, SeqEqual DEF s, t

LEMMA HighByte ==
  ASSUME NEW q \in Int, NEW r \in Int, 0 <= r, r <= 255, 0 <= 256 * q + r, 256 * q + r <= 16383
  PROVE  0 <= q /\ q <= 63
OBVIOUS

LEMMA Halves ==
  ASSUME NEW v \in Bits14
  PROVE  /\ v % 256 \in 0 .. 255
         /\ v \div 256 \in 0 .. 63
         /\ 256 * (v \div 256) + (v % 256) = v
<1>0. v \in Int
  BY DEF Bits14
<1>1. PICK q \in Int, r \in Int : q = v \div 256 /\ r = v % 256
  <2>1. v \div 256 \in Int /\ v % 256 \in Int
    BY <1>0
  <2> QED BY <2>1
<1>2. v = 256 * (v \div 256) + (v % 256)
  BY <1>0
<1>3. 256 * q + r = v 
  BY <1>1, <1>2
<1>4. 0 <= v % 256 /\ v % 256 <= 255
  BY <1>0
<1>5. 0 <= r /\ r <= 255
  BY <1>1, <1>4
<1>6. 0 <= v /\ v <= 16383
  BY DEF Bits14
<1>7. 0 <= q /\ q <= 63
  BY <1>3, <1>5, <1>6, HighByte
<1>8. q \in 0 .. 63 /\ r \in 0 .. 255
  BY <1>5, <1>7
<1> QED
  BY <1>1, <1>2, <1>8

(* The two groups of seven bits of a value. *)
Low(v) == v % 128
High(v) == v \div 128

LEMMA SevenBits ==
  ASSUME NEW v \in Bits14
  PROVE  Low(v) \in Bits7 /\ High(v) \in Bits7 /\ High(v) * 128 + Low(v) = v
<1>0. v \in Int /\ 0 <= v /\ v <= 16383
  BY DEF Bits14
<1>1. PICK q \in Int, r \in Int : q = v \div 128 /\ r = v % 128
  <2>1. v \div 128 \in Int /\ v % 128 \in Int
    BY <1>0
  <2> QED BY <2>1
<1>2. v = (v \div 128) * 128 + (v % 128)
  BY <1>0
<1>3. q * 128 + r = v
  BY <1>1, <1>2
<1>4. 0 <= v % 128 /\ v % 128 <= 127
  BY <1>0
<1>5. 0 <= r /\ r <= 127
  BY <1>1, <1>4
<1>6. 0 <= q /\ q <= 127
  BY <1>0, <1>3, <1>5
<1>7. q \in Bits7 /\ r \in Bits7
  BY <1>5, <1>6 DEF Bits7
<1> QED
  BY <1>1, <1>3, <1>7 DEF Low, High

LEMMA CommandNumbers ==
  /\ Wide = {224, 144} /\ OneByte = {192, 208} /\ TwoBytes = {224, 144, 244, 245}
  /\ TwoBytes \ Wide = {244, 245}
  /\ SET_PIN_MODE = 244 /\ SET_DIGITAL_PIN_VALUE = 245
  /\ START_SYSEX = 240 /\ END_SYSEX = 247 /\ REPORT_VERSION = 249 /\ SYSTEM_RESET = 255
  /\ STRING_DATA = 113 /\ REPORT_FIRMWARE = 121
BY DEF Wide, OneByte, TwoBytes, ANALOG_MESSAGE, DIGITAL_MESSAGE, REPORT_ANALOG,
       REPORT_DIGITAL, SET_PIN_MODE, SET_DIGITAL_PIN_VALUE, START_SYSEX, END_SYSEX,
       REPORT_VERSION, SYSTEM_RESET, STRING_DATA, REPORT_FIRMWARE

LEMMA MessageFields ==
  ASSUME NEW command, NEW channel, NEW args
  PROVE  LET m == Message(command, channel, args) IN
         m.command = command /\ m.channel = channel /\ m.args = args
BY DEF Message

LEMMA WideWritten ==
  ASSUME NEW command \in Wide, NEW channel \in 0 .. 15, NEW v \in Bits14
  PROVE  Marshal(Message(command, channel, <<v>>)) = <<command + channel, Low(v), High(v)>>
<1> DEFINE m == Message(command, channel, <<v>>)
           lo == v % 256
           hi == v \div 256
<1>1. m.command = command /\ m.channel = channel /\ m.args[1] = v
  BY MessageFields
<1>2. lo \in 0 .. 255 /\ hi \in 0 .. 63 /\ 256 * hi + lo = v
  BY Halves
<1> HIDE DEF m
<1>3. Marshal(m) = <<command + channel>> \o encodeByteStream(<<lo, hi>>, 2)
  <2>1. m.command \in Wide /\ m.command # START_SYSEX
    BY <1>1, CommandNumbers
  <2>2. Marshal(m) = <<m.command + m.channel>>
                       \o encodeByteStream(<<m.args[1] % 256, m.args[1] \div 256>>, 2)
    BY <2>1, Zenon DEF Marshal
  <2> QED BY <1>1, <2>2
<1> HIDE DEF lo, hi
<1>4. encodeByteStream(<<lo, hi>>, 2) = <<(256 * hi + lo) % 128, (256 * hi + lo) \div 128>>
  BY <1>2, TwoBytesEncoded
<1>5. Marshal(m) = <<command + channel>> \o <<v % 128, v \div 128>>
  BY <1>2, <1>3, <1>4
<1>6. <<command + channel>> \o <<v % 128, v \div 128>>
        = <<command + channel, v % 128, v \div 128>>
  BY Joined3
<1> QED
  BY <1>5, <1>6 DEF m, Low, High

LEMMA PlainWritten ==
  ASSUME NEW command, command \notin Wide, command # START_SYSEX, NEW channel, NEW args
  PROVE  Marshal(Message(command, channel, args)) = <<command + channel>> \o args
<1> DEFINE m == Message(command, channel, args)
<1>1. m.command = command /\ m.channel = channel /\ m.args = args
  BY MessageFields
<1> HIDE DEF m
<1>2. Marshal(m) = <<command + channel>> \o args
  BY <1>1, Zenon DEF Marshal
<1> QED
  BY <1>2 DEF m

LEMMA OneByteWritten ==
  ASSUME NEW command \in OneByte, NEW channel \in 0 .. 15, NEW b \in Bits7
  PROVE  Marshal(Message(command, channel, <<b>>)) = <<command + channel, b>>
<1>1. command \in Int /\ command \notin Wide /\ command # START_SYSEX /\ channel \in Int
  BY CommandNumbers
<1>2. Marshal(Message(command, channel, <<b>>)) = <<command + channel>> \o <<b>>
  BY <1>1, PlainWritten
<1>3. <<command + channel>> \o <<b>> = <<command + channel, b>>
  BY Joined2
<1> QED
  BY <1>2, <1>3

LEMMA PinWritten ==
  ASSUME NEW command \in TwoBytes \ Wide, NEW b \in Bits7, NEW c \in Bits7
  PROVE  Marshal(Message(command, 0, <<b, c>>)) = <<command, b, c>>
<1>1. command \in Int /\ command \notin Wide /\ command # START_SYSEX /\ command + 0 = command
  BY CommandNumbers
<1>2. Marshal(Message(command, 0, <<b, c>>)) = <<command + 0>> \o <<b, c>>
  BY <1>1, PlainWritten
<1>3. <<command>> \o <<b, c>> = <<command, b, c>>
  BY Joined3
<1> QED
  BY <1>1, <1>2, <1>3

LEMMA BareWritten ==
  ASSUME NEW command \in {REPORT_VERSION, SYSTEM_RESET}
  PROVE  Marshal(Message(command, 0, <<>>)) = <<command>>
<1>1. command \in Int /\ command \notin Wide /\ command # START_SYSEX /\ command + 0 = command
  BY CommandNumbers
<1>2. Marshal(Message(command, 0, <<>>)) = <<command + 0>> \o <<>>
  BY <1>1, PlainWritten
<1>3. <<command>> \o <<>> = <<command>>
  BY Joined1
<1> QED
  BY <1>1, <1>2, <1>3

(* A query for the firmware, or a string that fits the buffer. *)
SysexArgs ==
  {<<REPORT_FIRMWARE>>} \cup
  {args \in Seq(0 .. 255) \ {<<>>} : args[1] = STRING_DATA /\ 2 * Len(args) - 1 <= DataBytes}

LEMMA SysexArgsTyped ==
  ASSUME NEW args \in SysexArgs
  PROVE  /\ args \in Seq(0 .. 255) /\ Len(args) \in Nat \ {0} /\ 2 * Len(args) - 1 <= DataBytes
         /\ args = <<REPORT_FIRMWARE>> \/ args[1] = STRING_DATA
         /\ args[1] \in {STRING_DATA, REPORT_FIRMWARE} /\ args[1] \in 0 .. 127
<1>0. STRING_DATA \in 0 .. 127 /\ REPORT_FIRMWARE \in 0 .. 127
  BY CommandNumbers
<1>1. CASE args = <<REPORT_FIRMWARE>>
  <2>1. args \in Seq(0 .. 255) /\ Len(args) = 1 /\ args[1] = REPORT_FIRMWARE
    BY <1>0, <1>1
  <2> QED BY <1>0, <1>1, <2>1, ParserNumbers
<1>2. CASE args \in Seq(0 .. 255) \ {<<>>} /\ args[1] = STRING_DATA
             /\ 2 * Len(args) - 1 <= DataBytes
  <2>1. Len(args) \in Nat \ {0}
    BY <1>2, EmptySeq
  <2> QED BY <1>0, <1>2, <2>1
<1> QED
  BY <1>1, <1>2 DEF SysexArgs

LEMMA MessageKinds ==
  ASSUME NEW m \in Messages
  PROVE  \/ \E command \in Wide, channel \in 0 .. 15, v \in Bits14 :
              m = Message(command, channel, <<v>>)
         \/ \E command \in OneByte, channel \in 0 .. 15, b \in Bits7 :
              m = Message(command, channel, <<b>>)
         \/ \E command \in TwoBytes \ Wide, b \in Bits7, c \in Bits7 :
              m = Message(command, 0, <<b, c>>)
         \/ \E command \in {REPORT_VERSION, SYSTEM_RESET} : m = Message(command, 0, <<>>)
         \/ \E args \in SysexArgs : m = Message(START_SYSEX, 0, args)
<1>1. Sendable(m)
  BY FirmataWireAssumption
<1>2. <<REPORT_FIRMWARE>> \in SysexArgs
  BY DEF SysexArgs
<1>3. (/\ m.args \in Seq(0 .. 255) \ {<<>>} /\ m.args[1] = STRING_DATA
       /\ 2 * Len(m.args) - 1 <= DataBytes)
        => m.args \in SysexArgs
  BY DEF SysexArgs
<1> QED
  BY <1>1, <1>2, <1>3, Zenon DEF Sendable

SysexBytes(args, bytes) ==
  /\ bytes \in Seq(0 .. 255) /\ Len(bytes) = 2 * Len(args) + 1
  /\ bytes[1] = START_SYSEX /\ bytes[2] = args[1] /\ bytes[Len(bytes)] = END_SYSEX
  /\ \A j \in 1 .. Len(args) - 1 : /\ bytes[2 * j + 1] = args[j + 1] % 128
                                   /\ bytes[2 * j + 2] = args[j + 1] \div 128
  /\ \A i \in 2 .. Len(bytes) - 1 : bytes[i] \in 0 .. 127

LEMMA SysexWritten ==
  ASSUME NEW args \in SysexArgs, NEW bytes, bytes = Marshal(Message(START_SYSEX, 0, args))
  PROVE  SysexBytes(args, bytes)
<1> DEFINE n == Len(args)
           Encoded(i) == encodeByteStream(<<args[1 + i]>>, 2)
           body == [i \in 1 .. 2 * (n - 1) |-> Encoded((i + 1) \div 2)[2 - (i % 2)]]
<1>3. args \in Seq(0 .. 255) /\ n \in Nat \ {0} /\ args[1] \in 0 .. 127
  BY SysexArgsTyped
<1>4. \A j \in 1 .. n - 1 : Encoded(j) = <<args[j + 1] % 128, args[j + 1] \div 128>>
                            /\ args[j + 1] % 128 \in 0 .. 127 /\ args[j + 1] \div 128 \in 0 .. 127
  <2> SUFFICES ASSUME NEW j \in 1 .. n - 1
               PROVE  Encoded(j) = <<args[j + 1] % 128, args[j + 1] \div 128>>
                      /\ args[j + 1] % 128 \in 0 .. 127 /\ args[j + 1] \div 128 \in 0 .. 127
    OBVIOUS
  <2>0. j + 1 \in 1 .. n /\ 1 + j = j + 1
    BY <1>3
  <2>1. args[j + 1] \in 0 .. 255 /\ 1 + j = j + 1
    BY <1>3, <2>0, ElementOfSeq
  <2> DEFINE b == args[j + 1]
  <2>2. encodeByteStream(<<b>>, 2) = <<b % 128, b \div 128>> /\ b % 128 \in 0 .. 127 /\ b \div 128 \in 0 .. 127
    <3> HIDE DEF b
    <3>1. b \in 0 .. 255
      BY <2>1 DEF b
    <3> QED BY <3>1, OneByteEncoded
  <2> QED BY <2>1, <2>2
<1> HIDE DEF Encoded
<1>5. \A i \in 1 .. 2 * (n - 1) : /\ (i + 1) \div 2 \in 1 .. n - 1 /\ 2 - (i % 2) \in 1 .. 2
                                  /\ body[i] \in 0 .. 127
  <2> SUFFICES ASSUME NEW i \in 1 .. 2 * (n - 1)
               PROVE  (i + 1) \div 2 \in 1 .. n - 1 /\ 2 - (i % 2) \in 1 .. 2 /\ body[i] \in 0 .. 127
    OBVIOUS
  <2>1. (i + 1) \div 2 \in 1 .. n - 1 /\ 2 - (i % 2) \in {1, 2}
    BY <1>3
  <2>2. body[i] = Encoded((i + 1) \div 2)[2 - (i % 2)]
    OBVIOUS
  <2> DEFINE j == (i + 1) \div 2
             k == 2 - (i % 2)
  <2>3. Encoded(j)[1] \in 0 .. 127 /\ Encoded(j)[2] \in 0 .. 127
    <3> HIDE DEF j
    <3>1. j \in 1 .. n - 1
      BY <2>1 DEF j
    <3> QED BY <1>4, <3>1
  <2>4. CASE k = 1
    BY <2>1, <2>2, <2>3, <2>4
  <2>5. CASE k = 2
    BY <2>1, <2>2, <2>3, <2>5
  <2> QED BY <2>1, <2>4, <2>5
<1>6. \A j \in 1 .. n - 1 : body[2 * j - 1] = args[j + 1] % 128 /\ body[2 * j] = args[j + 1] \div 128
  <2> SUFFICES ASSUME NEW j \in 1 .. n - 1
               PROVE  body[2 * j - 1] = args[j + 1] % 128 /\ body[2 * j] = args[j + 1] \div 128
    OBVIOUS
  <2>1. 2 * j - 1 \in 1 .. 2 * (n - 1) /\ 2 * j \in 1 .. 2 * (n - 1)
    BY <1>3
  <2>2. ((2 * j - 1) + 1) \div 2 = j /\ (2 * j + 1) \div 2 = j
        /\ 2 - ((2 * j - 1) % 2) = 1 /\ 2 - ((2 * j) % 2) = 2
    BY <1>3
  <2>3. body[2 * j - 1] = Encoded(j)[1] /\ body[2 * j] = Encoded(j)[2]
    BY <2>1, <2>2
  <2> QED BY <1>4, <2>3
<1> DEFINE head == <<START_SYSEX, args[1]>>
           s == head \o body
<1>7. body \in Seq(0 .. 127) /\ Len(body) = 2 * (n - 1)
  <2>1. 2 * (n - 1) \in Nat
    BY <1>3
  <2>2. body \in [1 .. 2 * (n - 1) -> 0 .. 127]
    BY <1>5
  <2> HIDE DEF body
  <2> DEFINE size == 2 * (n - 1)
  <2> HIDE DEF size
  <2>3. body \in Seq(0 .. 127) /\ Len(body) = size
    <3>1. size \in Nat /\ body \in [1 .. size -> 0 .. 127]
      BY <2>1, <2>2 DEF size
    <3> QED BY <3>1
  <2> QED BY <2>3 DEF size
<1>8. bytes = s \o <<END_SYSEX>>
  <2> DEFINE m == Message(START_SYSEX, 0, args)
  <2>1. m.command = START_SYSEX /\ m.args = args
    BY MessageFields
  <2>2. START_SYSEX \notin Wide
    BY CommandNumbers
  <2> HIDE DEF m
  <2>3. Marshal(m) = sendSysex(args)
    BY <2>1, <2>2, Zenon DEF Marshal
  <2>4. sendSysex(args) = s \o <<END_SYSEX>>
    BY Zenon DEF sendSysex, Encoded
  <2> QED BY <2>3, <2>4 DEF m
<1> HIDE DEF body
<1>9. head \in Seq(0 .. 255) /\ Len(head) = 2 /\ head[1] = START_SYSEX /\ head[2] = args[1]
  BY <1>3, CommandNumbers
<1> HIDE DEF head
<1>10. /\ s \in Seq(0 .. 255) /\ Len(s) = 2 * n /\ s[1] = START_SYSEX /\ s[2] = args[1]
       /\ \A i \in 1 .. 2 * (n - 1) : s[i + 2] = body[i] /\ s[i + 2] \in 0 .. 127
  <2>1. body \in Seq(0 .. 255)
    <3>1. 0 .. 127 \subseteq 0 .. 255
      OBVIOUS
    <3> QED BY <1>7, <3>1, SeqMonotonic
  <2>2. \A i \in 1 .. 2 * (n - 1) : body[i] \in 0 .. 127
    BY <1>7, ElementOfSeq
  <2>3. /\ s \in Seq(0 .. 255) /\ Len(s) = 2 + 2 * (n - 1)
        /\ \A i \in 1 .. 2 + 2 * (n - 1) : s[i] = IF i <= 2 THEN head[i] ELSE body[i - 2]
    <3>1. /\ s \in Seq(0 .. 255) /\ Len(s) = Len(head) + Len(body)
          /\ \A i \in 1 .. Len(head) + Len(body) :
               s[i] = IF i <= Len(head) THEN head[i] ELSE body[i - Len(head)]
      <4>1. PICK B : B = 0 .. 255
        OBVIOUS
      <4>2. head \in Seq(B) /\ body \in Seq(B)
        BY <1>9, <2>1, <4>1
      <4>3. PICK t : t = head \o body
        OBVIOUS
      <4>4. /\ t \in Seq(B) /\ Len(t) = Len(head) + Len(body)
            /\ \A i \in 1 .. Len(head) + Len(body) :
                 t[i] = IF i <= Len(head) THEN head[i] ELSE body[i - Len(head)]
        BY <4>2, <4>3, ConcatProperties
      <4> QED BY <4>1, <4>3, <4>4
    <3>2. Len(head) = 2 /\ Len(body) = 2 * (n - 1)
      BY <1>7, <1>9
    <3> HIDE DEF s
    <3> QED BY <3>1, <3>2
  <2>4. s[1] = head[1] /\ s[2] = head[2] /\ 2 + 2 * (n - 1) = 2 * n
    BY <1>3, <2>3
  <2>5. ASSUME NEW i \in 1 .. 2 * (n - 1)
        PROVE  s[i + 2] = body[i]
    <3>1. i + 2 \in 1 .. 2 + 2 * (n - 1) /\ ~(i + 2 <= 2) /\ (i + 2) - 2 = i
      BY <1>3
    <3> QED BY <2>3, <3>1
  <2> QED BY <1>9, <2>2, <2>3, <2>4, <2>5
<1> HIDE DEF s
<1>11. END_SYSEX \in 0 .. 255
  BY CommandNumbers
<1>12. /\ bytes \in Seq(0 .. 255) /\ Len(bytes) = 2 * n + 1 /\ bytes[2 * n + 1] = END_SYSEX
       /\ \A i \in 1 .. 2 * n : bytes[i] = s[i]
  <2>1. bytes = Append(s, END_SYSEX)
    BY <1>8, <1>10, <1>11, AppendIsConcat
  <2>2. /\ bytes \in Seq(0 .. 255) /\ Len(bytes) = Len(s) + 1 /\ bytes[Len(s) + 1] = END_SYSEX
        /\ \A i \in 1 .. Len(s) : bytes[i] = s[i]
    <3> DEFINE t == Append(s, END_SYSEX)
    <3>1. /\ t \in Seq(0 .. 255) /\ Len(t) = Len(s) + 1 /\ t[Len(s) + 1] = END_SYSEX
          /\ \A i \in 1 .. Len(s) : t[i] = s[i]
      BY <1>10, <1>11, AppendProperties
    <3>2. bytes = t
      BY <2>1
    <3> HIDE DEF t
    <3> QED BY <3>1, <3>2
  <2>3. Len(s) = 2 * n
    BY <1>10
  <2> QED BY <2>2, <2>3
<1>13. \A j \in 1 .. n - 1 : /\ bytes[2 * j + 1] = args[j + 1] % 128
                             /\ bytes[2 * j + 2] = args[j + 1] \div 128
  <2> SUFFICES ASSUME NEW j \in 1 .. n - 1
               PROVE  /\ bytes[2 * j + 1] = args[j + 1] % 128
                      /\ bytes[2 * j + 2] = args[j + 1] \div 128
    OBVIOUS
  <2>1. /\ 2 * j - 1 \in 1 .. 2 * (n - 1) /\ (2 * j - 1) + 2 = 2 * j + 1 /\ 2 * j + 1 \in 1 .. 2 * n
        /\ 2 * j \in 1 .. 2 * (n - 1) /\ 2 * j + 2 \in 1 .. 2 * n
    BY <1>3
  <2>2. s[(2 * j - 1) + 2] = body[2 * j - 1] /\ s[2 * j + 2] = body[2 * j]
    BY <1>10, <2>1
  <2> QED BY <1>6, <1>12, <2>1, <2>2
<1>14. bytes[1] = START_SYSEX /\ bytes[2] = args[1]
  BY <1>3, <1>10, <1>12
<1>15. \A i \in 2 .. 2 * n : bytes[i] \in 0 .. 127
  <2>0. SUFFICES ASSUME NEW i \in 3 .. 2 * n
                 PROVE  bytes[i] \in 0 .. 127
    <3>1. \A i \in 2 .. 2 * n : i = 2 \/ i \in 3 .. 2 * n
      BY <1>3
    <3> QED BY <1>3, <1>14, <3>1
  <2>1. i - 2 \in 1 .. 2 * (n - 1) /\ (i - 2) + 2 = i /\ i \in 1 .. 2 * n
    BY <1>3
  <2>2. s[(i - 2) + 2] \in 0 .. 127
    BY <1>10, <2>1
  <2> QED BY <1>12, <2>1, <2>2
<1> QED
  BY <1>3, <1>12, <1>13, <1>14, <1>15 DEF SysexBytes

-----------------------------------------------------------------------------
(* What the parser does with a byte, field by field. *)
HasBuffered(q, p, byte, pos) ==
  /\ q \in Parsers
  /\ q.executeMultiByteCommand = p.executeMultiByteCommand
  /\ q.multiByteChannel = p.multiByteChannel /\ q.waitForData = p.waitForData
  /\ q.parsingSysex = p.parsingSysex /\ q.sysexBytesRead = p.sysexBytesRead
  /\ pos < DataBytes => q.dataBuffer[pos] = byte
  /\ \A j \in 0 .. DataBytes - 1 : j # pos => q.dataBuffer[j] = p.dataBuffer[j]

LEMMA BufferedFields ==
  ASSUME NEW p \in Parsers, NEW byte \in Nat, NEW pos \in Nat
  PROVE  HasBuffered(Buffered(p, byte, pos), p, byte, pos)
<1> DEFINE q == Buffered(p, byte, pos)
<1>1. CASE pos < DataBytes
  <2>1. pos \in 0 .. DataBytes - 1 /\ p.dataBuffer \in [0 .. DataBytes - 1 -> Nat]
    BY <1>1, ParserNumbers DEF Parsers
  <2>2. q = [p EXCEPT !.dataBuffer = [p.dataBuffer EXCEPT ![pos] = byte]]
    BY <1>1 DEF Buffered
  <2>3. [p.dataBuffer EXCEPT ![pos] = byte] \in [0 .. DataBytes - 1 -> Nat]
    BY <2>1
  <2>4. q.dataBuffer = [p.dataBuffer EXCEPT ![pos] = byte]
    BY <2>2 DEF Parsers
  <2>5. q \in Parsers
    BY <2>2, <2>3 DEF Parsers
  <2>6. /\ q.executeMultiByteCommand = p.executeMultiByteCommand
        /\ q.multiByteChannel = p.multiByteChannel /\ q.waitForData = p.waitForData
        /\ q.parsingSysex = p.parsingSysex /\ q.sysexBytesRead = p.sysexBytesRead
    BY <2>2 DEF Parsers
  <2> HIDE DEF q
  <2>7. HasBuffered(q, p, byte, pos)
    BY <2>1, <2>4, <2>5, <2>6 DEF HasBuffered
  <2> QED BY <2>7 DEF q
<1>2. CASE ~(pos < DataBytes)
  <2>1. q = p
    BY <1>2 DEF Buffered
  <2> HIDE DEF q
  <2>2. HasBuffered(q, p, byte, pos)
    BY <1>2, <2>1, ParserNumbers DEF HasBuffered
  <2> QED BY <2>2 DEF q
<1> QED
  BY <1>1, <1>2

LEMMA DoneFields ==
  ASSUME NEW p \in Parsers, NEW q, q = Done(p)
  PROVE  /\ q \in Parsers
         /\ q.executeMultiByteCommand = p.executeMultiByteCommand
         /\ q.multiByteChannel = p.multiByteChannel /\ q.waitForData = p.waitForData
         /\ q.parsingSysex = p.parsingSysex
<1>1. EmptyBuffer \in [0 .. DataBytes - 1 -> Nat] /\ 0 \in 0 .. CountedTo
  BY ParserNumbers DEF EmptyBuffer
<1> QED
  BY <1>1 DEF Done, Parsers

LEMMA NewParserTyped == NewParser \in Parsers
<1>1. EmptyBuffer \in [0 .. DataBytes - 1 -> Nat] /\ 0 \in 0 .. CountedTo
  BY ParserNumbers DEF EmptyBuffer
<1> QED
  BY <1>1 DEF NewParser, Parsers

(* What DataByte makes of a parser that waits for data. *)
LEMMA DataByteFields ==
  ASSUME NEW p \in Parsers, p.waitForData > 0, NEW byte \in Nat,
         NEW r, r = DataByte(p, byte)
  PROVE  /\ r.parser \in Parsers
         /\ p.waitForData = 2 =>
              /\ r.parser.waitForData = 1 /\ r.parser.parsingSysex = p.parsingSysex
              /\ r.parser.executeMultiByteCommand = p.executeMultiByteCommand
              /\ r.parser.multiByteChannel = p.multiByteChannel
              /\ r.parser.dataBuffer[1] = byte
         /\ p.waitForData = 1 /\ p.executeMultiByteCommand # 0 =>
              \E q \in Parsers :
                /\ r.message = Dispatched(q)
                /\ q.executeMultiByteCommand = p.executeMultiByteCommand
                /\ q.multiByteChannel = p.multiByteChannel
                /\ q.dataBuffer[0] = byte /\ q.dataBuffer[1] = p.dataBuffer[1]
<1> DEFINE w == [p EXCEPT !.waitForData = p.waitForData - 1]
           q == Buffered(w, byte, p.waitForData - 1)
<1>1. p.waitForData \in {1, 2} /\ p.waitForData - 1 \in 0 .. 2
  BY DEF Parsers
<1>2. /\ w \in Parsers /\ w.waitForData = p.waitForData - 1
      /\ w.executeMultiByteCommand = p.executeMultiByteCommand
      /\ w.multiByteChannel = p.multiByteChannel /\ w.parsingSysex = p.parsingSysex
      /\ w.dataBuffer = p.dataBuffer
  BY <1>1 DEF Parsers
<1>3. r = IF q.waitForData = 0 /\ q.executeMultiByteCommand # 0
            THEN [parser |-> Done([q EXCEPT !.executeMultiByteCommand = 0]), message |-> Dispatched(q)]
            ELSE [parser |-> q, message |-> NoMessage]
  BY DEF DataByte
<1> HIDE DEF w
<1>4. /\ q \in Parsers
      /\ q.executeMultiByteCommand = p.executeMultiByteCommand
      /\ q.multiByteChannel = p.multiByteChannel /\ q.waitForData = p.waitForData - 1
      /\ q.parsingSysex = p.parsingSysex
      /\ p.waitForData - 1 < DataBytes => q.dataBuffer[p.waitForData - 1] = byte
      /\ \A j \in 0 .. DataBytes - 1 : j # p.waitForData - 1 => q.dataBuffer[j] = p.dataBuffer[j]
  <2>1. p.waitForData - 1 \in Nat
    BY <1>1
  <2> DEFINE pos == p.waitForData - 1
  <2> HIDE DEF pos
  <2>2. HasBuffered(Buffered(w, byte, pos), w, byte, pos)
    <3>1. pos \in Nat /\ w \in Parsers
      BY <1>2, <2>1 DEF pos
    <3> QED BY <3>1, BufferedFields
  <2>3. q = Buffered(w, byte, pos) /\ pos = p.waitForData - 1
    BY DEF pos
  <2> HIDE DEF q
  <2>4. HasBuffered(q, w, byte, pos)
    BY <2>2, <2>3
  <2> QED BY <1>2, <2>3, <2>4 DEF HasBuffered
<1> HIDE DEF q
<1>5. CASE p.waitForData = 2
  <2>1. r.parser = q
    BY <1>3, <1>4, <1>5
  <2>2. q.dataBuffer[1] = byte
    BY <1>4, <1>5, ParserNumbers
  <2> QED BY <1>4, <1>5, <2>1, <2>2
<1>6. CASE p.waitForData = 1
  <2>1. q.dataBuffer[0] = byte /\ q.dataBuffer[1] = p.dataBuffer[1] /\ q.waitForData = 0
    BY <1>4, <1>6, ParserNumbers
  <2>2. CASE p.executeMultiByteCommand # 0
    <3>1. r.parser = Done([q EXCEPT !.executeMultiByteCommand = 0]) /\ r.message = Dispatched(q)
      <4>1. q.waitForData = 0 /\ q.executeMultiByteCommand # 0
        BY <1>4, <2>1, <2>2
      <4>2. r = [parser |-> Done([q EXCEPT !.executeMultiByteCommand = 0]), message |-> Dispatched(q)]
        BY <1>3, <4>1, Zenon
      <4> QED BY <4>2
    <3>2. [q EXCEPT !.executeMultiByteCommand = 0] \in Parsers
      BY <1>4 DEF Parsers
    <3>3. r.parser \in Parsers
      BY <3>1, <3>2, DoneFields
    <3> QED BY <1>4, <1>6, <2>1, <3>1, <3>3
  <2>3. CASE p.executeMultiByteCommand = 0
    BY <1>3, <1>4, <1>6, <2>1, <2>3
  <2> QED BY <2>2, <2>3
<1> QED
  BY <1>1, <1>5, <1>6

(* What SysexByte makes of a parser in a sysex. *)
LEMMA SysexByteFields ==
  ASSUME NEW p \in Parsers, NEW byte \in Nat, NEW r, r = SysexByte(p, byte)
  PROVE  /\ r.parser \in Parsers
         /\ byte = END_SYSEX => r.message = processSysexMessage(p)
         /\ byte # END_SYSEX =>
              /\ r.parser.parsingSysex = p.parsingSysex
              /\ p.sysexBytesRead < CountedTo => r.parser.sysexBytesRead = p.sysexBytesRead + 1
              /\ p.sysexBytesRead < DataBytes => r.parser.dataBuffer[p.sysexBytesRead] = byte
              /\ \A j \in 0 .. DataBytes - 1 :
                   j # p.sysexBytesRead => r.parser.dataBuffer[j] = p.dataBuffer[j]
<1>0. p.sysexBytesRead \in 0 .. CountedTo
  BY DEF Parsers
<1>1. CASE byte = END_SYSEX
  <2>1. r = [parser |-> Done([p EXCEPT !.parsingSysex = FALSE]), message |-> processSysexMessage(p)]
    BY <1>1, Zenon DEF SysexByte
  <2>2. r.parser = Done([p EXCEPT !.parsingSysex = FALSE]) /\ r.message = processSysexMessage(p)
    BY <2>1
  <2>3. [p EXCEPT !.parsingSysex = FALSE] \in Parsers
    BY DEF Parsers
  <2>4. r.parser \in Parsers
    BY <2>2, <2>3, DoneFields
  <2> QED BY <1>1, <2>2, <2>4
<1>2. CASE byte # END_SYSEX
  <2> DEFINE pos == p.sysexBytesRead
             q == Buffered(p, byte, pos)
             count == IF pos < CountedTo THEN pos + 1 ELSE pos
  <2>1. pos \in Nat /\ pos \in 0 .. CountedTo /\ count \in 0 .. CountedTo
    BY <1>0, ParserNumbers
  <2> HIDE DEF pos
  <2>2. HasBuffered(q, p, byte, pos)
    BY <2>1, BufferedFields
  <2>3. r = [parser |-> [q EXCEPT !.sysexBytesRead = IF @ < CountedTo THEN @ + 1 ELSE @],
             message |-> NoMessage]
    BY <1>2 DEF SysexByte, pos
  <2> HIDE DEF q
  <2>4. q \in Parsers /\ q.sysexBytesRead = pos /\ q.parsingSysex = p.parsingSysex
    BY <2>2 DEF HasBuffered, pos
  <2>5. r.parser = [q EXCEPT !.sysexBytesRead = count]
    BY <2>3, <2>4
  <2> HIDE DEF count
  <2>6. /\ r.parser \in Parsers /\ r.parser.sysexBytesRead = count
        /\ r.parser.parsingSysex = p.parsingSysex /\ r.parser.dataBuffer = q.dataBuffer
    BY <2>1, <2>4, <2>5 DEF Parsers
  <2>7. /\ pos < DataBytes => r.parser.dataBuffer[pos] = byte
        /\ \A j \in 0 .. DataBytes - 1 : j # pos => r.parser.dataBuffer[j] = p.dataBuffer[j]
    BY <2>2, <2>6 DEF HasBuffered
  <2>8. pos < CountedTo => r.parser.sysexBytesRead = pos + 1
    BY <2>6 DEF count
  <2> QED BY <1>2, <2>6, <2>7, <2>8 DEF pos
<1> QED
  BY <1>1, <1>2

(* What CommandByte makes of any byte, and of the commands it knows. *)
CommandCases(r, q, command) ==
  /\ command \in TwoBytes =>
       r.parser = [q EXCEPT !.waitForData = 2, !.executeMultiByteCommand = command]
  /\ command \in OneByte =>
       r.parser = [q EXCEPT !.waitForData = 1, !.executeMultiByteCommand = command]
  /\ command = START_SYSEX => r.parser = [q EXCEPT !.parsingSysex = TRUE, !.sysexBytesRead = 0]
  /\ command = SYSTEM_RESET => r.parser = NewParser /\ r.message = Message(SYSTEM_RESET, 0, <<>>)
  /\ command = REPORT_VERSION => r.parser = q /\ r.message = Message(REPORT_VERSION, 0, <<>>)
  /\ command \notin TwoBytes \cup OneByte \cup {START_SYSEX, SYSTEM_RESET} => r.parser = q

LEMMA CommandByteCases ==
  ASSUME NEW p, NEW byte, NEW r, r = CommandByte(p, byte),
         NEW command, command = IF byte < START_SYSEX THEN byte - (byte % 16) ELSE byte,
         NEW q, q = IF byte < START_SYSEX THEN [p EXCEPT !.multiByteChannel = byte % 16] ELSE p
  PROVE  CommandCases(r, q, command)
<1>1. r = CASE command \in TwoBytes ->
                 [parser |-> [q EXCEPT !.waitForData = 2, !.executeMultiByteCommand = command],
                  message |-> NoMessage]
            [] command \in OneByte ->
                 [parser |-> [q EXCEPT !.waitForData = 1, !.executeMultiByteCommand = command],
                  message |-> NoMessage]
            [] command = START_SYSEX ->
                 [parser |-> [q EXCEPT !.parsingSysex = TRUE, !.sysexBytesRead = 0],
                  message |-> NoMessage]
            [] command = SYSTEM_RESET ->
                 [parser |-> NewParser, message |-> Message(SYSTEM_RESET, 0, <<>>)]
            [] command = REPORT_VERSION ->
                 [parser |-> q, message |-> Message(REPORT_VERSION, 0, <<>>)]
            [] OTHER -> [parser |-> q, message |-> NoMessage]
  <2> DEFINE c == IF byte < START_SYSEX THEN byte - (byte % 16) ELSE byte
             s == IF byte < START_SYSEX THEN [p EXCEPT !.multiByteChannel = byte % 16] ELSE p
  <2>1. r = CASE c \in TwoBytes ->
                   [parser |-> [s EXCEPT !.waitForData = 2, !.executeMultiByteCommand = c],
                    message |-> NoMessage]
              [] c \in OneByte ->
                   [parser |-> [s EXCEPT !.waitForData = 1, !.executeMultiByteCommand = c],
                    message |-> NoMessage]
              [] c = START_SYSEX ->
                   [parser |-> [s EXCEPT !.parsingSysex = TRUE, !.sysexBytesRead = 0],
                    message |-> NoMessage]
              [] c = SYSTEM_RESET ->
                   [parser |-> NewParser, message |-> Message(SYSTEM_RESET, 0, <<>>)]
              [] c = REPORT_VERSION ->
                   [parser |-> s, message |-> Message(REPORT_VERSION, 0, <<>>)]
              [] OTHER -> [parser |-> s, message |-> NoMessage]
    BY Zenon DEF CommandByte
  <2>2. c = command /\ s = q
    OBVIOUS
  <2> HIDE DEF c, s
  <2> QED BY <2>1, <2>2, Zenon
<1>2. CASE command \in TwoBytes
  <2>1. command \notin OneByte \cup {START_SYSEX, SYSTEM_RESET, REPORT_VERSION}
    BY <1>2, CommandNumbers
  <2> QED BY <1>1, <1>2, <2>1 DEF CommandCases
<1>3. CASE command \in OneByte
  <2>1. command \notin TwoBytes \cup {START_SYSEX, SYSTEM_RESET, REPORT_VERSION}
    BY <1>3, CommandNumbers
  <2> QED BY <1>1, <1>3, <2>1 DEF CommandCases
<1>4. CASE command \in {START_SYSEX, SYSTEM_RESET, REPORT_VERSION}
  <2>1. /\ command \notin TwoBytes \cup OneByte
        /\ START_SYSEX # SYSTEM_RESET /\ START_SYSEX # REPORT_VERSION /\ SYSTEM_RESET # REPORT_VERSION
    BY <1>4, CommandNumbers
  <2> QED BY <1>1, <1>4, <2>1 DEF CommandCases
<1>5. CASE command \notin TwoBytes \cup OneByte \cup {START_SYSEX, SYSTEM_RESET, REPORT_VERSION}
  BY <1>1, <1>5 DEF CommandCases
<1> QED
  BY <1>2, <1>3, <1>4, <1>5

LEMMA CommandByteTyped ==
  ASSUME NEW p \in Parsers, NEW byte \in 0 .. 255
  PROVE  CommandByte(p, byte).parser \in Parsers
<1>1. PICK command : command = IF byte < START_SYSEX THEN byte - (byte % 16) ELSE byte
  OBVIOUS
<1>2. PICK q : q = IF byte < START_SYSEX THEN [p EXCEPT !.multiByteChannel = byte % 16] ELSE p
  OBVIOUS
<1>3. PICK r : r = CommandByte(p, byte)
  OBVIOUS
<1>4. byte % 16 \in Nat /\ command \in Nat
  <2>1. byte \in Nat /\ byte % 16 \in Nat /\ byte - (byte % 16) \in Nat
    OBVIOUS
  <2> QED BY <1>1, <2>1
<1>5. q \in Parsers
  BY <1>2, <1>4 DEF Parsers
<1>6. \A n \in {1, 2} : [q EXCEPT !.waitForData = n, !.executeMultiByteCommand = command] \in Parsers
  <2>1. \A n \in {1, 2} : [q EXCEPT !.waitForData = n] \in Parsers
    BY <1>5 DEF Parsers
  <2>2. \A s \in Parsers : [s EXCEPT !.executeMultiByteCommand = command] \in Parsers
    BY <1>4 DEF Parsers
  <2>3. \A n : [q EXCEPT !.waitForData = n, !.executeMultiByteCommand = command]
                 = [[q EXCEPT !.waitForData = n] EXCEPT !.executeMultiByteCommand = command]
    OBVIOUS
  <2> QED BY <2>1, <2>2, <2>3
<1>7. [q EXCEPT !.parsingSysex = TRUE, !.sysexBytesRead = 0] \in Parsers
  <2>1. 0 \in 0 .. CountedTo
    BY ParserNumbers
  <2> QED BY <1>5, <2>1 DEF Parsers
<1>8. CommandCases(r, q, command)
  BY <1>1, <1>2, <1>3, CommandByteCases
<1>9. r.parser \in Parsers
  BY <1>5, <1>6, <1>7, <1>8, NewParserTyped DEF CommandCases
<1> QED
  BY <1>3, <1>9

HasCommand(q, p, command, channel) ==
  /\ q.waitForData = IF command \in TwoBytes THEN 2 ELSE 1
  /\ q.executeMultiByteCommand = command /\ q.parsingSysex = p.parsingSysex
  /\ command < START_SYSEX => q.multiByteChannel = channel

LEMMA CommandByteFields ==
  ASSUME NEW p \in Parsers, NEW command \in TwoBytes \cup OneByte, NEW channel \in 0 .. 15,
         command >= START_SYSEX => channel = 0,
         NEW q, q = CommandByte(p, command + channel).parser
  PROVE  HasCommand(q, p, command, channel)
<1> DEFINE byte == command + channel
<1>1. /\ command \in Int /\ (byte < START_SYSEX <=> command < START_SYSEX)
      /\ command < START_SYSEX => byte % 16 = channel
      /\ IF byte < START_SYSEX THEN byte - (byte % 16) = command ELSE byte = command
  BY CommandNumbers
<1>2. command = IF byte < START_SYSEX THEN byte - (byte % 16) ELSE byte
  BY <1>1
<1> HIDE DEF byte
<1>3. PICK base : base = IF byte < START_SYSEX THEN [p EXCEPT !.multiByteChannel = byte % 16] ELSE p
  OBVIOUS
<1>4. PICK r : r = CommandByte(p, byte)
  OBVIOUS
<1>5. /\ base.parsingSysex = p.parsingSysex
      /\ command < START_SYSEX => base.multiByteChannel = channel
      /\ base = [executeMultiByteCommand |-> base.executeMultiByteCommand,
                 multiByteChannel |-> base.multiByteChannel, waitForData |-> base.waitForData,
                 parsingSysex |-> base.parsingSysex, sysexBytesRead |-> base.sysexBytesRead,
                 dataBuffer |-> base.dataBuffer]
  BY <1>1, <1>3 DEF Parsers
<1>6. q = r.parser
  BY <1>4 DEF byte
<1>9. CommandCases(r, base, command)
  BY <1>2, <1>3, <1>4, CommandByteCases
<1>7. CASE command \in TwoBytes
  <2>1. q = [base EXCEPT !.waitForData = 2, !.executeMultiByteCommand = command]
    BY <1>6, <1>7, <1>9 DEF CommandCases
  <2> QED BY <1>5, <1>7, <2>1 DEF HasCommand
<1>8. CASE command \in OneByte
  <2>1. q = [base EXCEPT !.waitForData = 1, !.executeMultiByteCommand = command]
    BY <1>6, <1>8, <1>9 DEF CommandCases
  <2>2. command \notin TwoBytes
    BY <1>8, CommandNumbers
  <2> QED BY <1>5, <2>1, <2>2 DEF HasCommand
<1> QED
  BY <1>7, <1>8

LEMMA ParseTyped ==
  ASSUME NEW p \in Parsers, NEW byte \in 0 .. 255
  PROVE  parse(p, byte).parser \in Parsers
<1>1. byte \in Nat /\ p.parsingSysex \in BOOLEAN
  BY DEF Parsers
<1>2. CASE p.parsingSysex
  BY <1>1, <1>2, SysexByteFields DEF parse
<1>3. CASE ~p.parsingSysex /\ p.waitForData > 0 /\ byte < 128
  BY <1>1, <1>3, DataByteFields DEF parse
<1>4. CASE ~p.parsingSysex /\ ~(p.waitForData > 0 /\ byte < 128)
  BY <1>1, <1>4, CommandByteTyped DEF parse
<1> QED
  BY <1>1, <1>2, <1>3, <1>4

-----------------------------------------------------------------------------
(* Each kind of message, followed by the parser byte by byte. *)
Ready(p, m, i) == IF i = 1 THEN ~p.parsingSysex ELSE Midway(p, m, i - 1)

Follows(p, m, i) ==
  LET r == parse(p, Marshal(m)[i]) IN
  IF i = Size(m) THEN r.message = m ELSE Midway(r.parser, m, i)

(* Of a message that is no sysex, with its bytes. *)
Waiting(p, command, channel, bytes, k) ==
  /\ ~p.parsingSysex
  /\ p.waitForData = Len(bytes) - k
  /\ p.executeMultiByteCommand = command
  /\ command < START_SYSEX => p.multiByteChannel = channel
  /\ k = 2 => p.dataBuffer[1] = bytes[2]

LEMMA MidwayWaiting ==
  ASSUME NEW p, NEW k, NEW command, NEW channel, NEW args, command # START_SYSEX,
         NEW m, m = Message(command, channel, args)
  PROVE  Midway(p, m, k) <=> Waiting(p, command, channel, Marshal(m), k)
<1>1. m.command = command /\ m.channel = channel
  BY MessageFields
<1> QED
  BY <1>1 DEF Midway, Waiting, Size

LEMMA CommandFollowed ==
  ASSUME NEW p \in Parsers, ~p.parsingSysex,
         NEW command \in TwoBytes \cup OneByte, NEW channel \in 0 .. 15,
         command >= START_SYSEX => channel = 0,
         NEW bytes, bytes[1] = command + channel,
         Len(bytes) = IF command \in TwoBytes THEN 3 ELSE 2
  PROVE  Waiting(parse(p, bytes[1]).parser, command, channel, bytes, 1)
<1>1. bytes[1] \in 128 .. 255
  BY CommandNumbers
<1>2. parse(p, bytes[1]) = CommandByte(p, command + channel)
  BY <1>1 DEF parse
<1>3. PICK q : q = CommandByte(p, command + channel).parser
  OBVIOUS
<1>4. HasCommand(q, p, command, channel)
  BY <1>3, CommandByteFields
<1>5. q.waitForData = Len(bytes) - 1
  BY <1>4 DEF HasCommand
<1> QED
  BY <1>2, <1>3, <1>4, <1>5 DEF Waiting, HasCommand

LEMMA FirstDataFollowed ==
  ASSUME NEW p \in Parsers, NEW command \in TwoBytes, NEW channel,
         NEW bytes, Len(bytes) = 3, Waiting(p, command, channel, bytes, 1),
         bytes[2] \in Bits7
  PROVE  Waiting(parse(p, bytes[2]).parser, command, channel, bytes, 2)
<1>1. bytes[2] \in Nat /\ bytes[2] < 128
  BY DEF Bits7
<1>2. p.waitForData = 2 /\ ~p.parsingSysex
  BY DEF Waiting
<1>3. PICK r : r = DataByte(p, bytes[2])
  OBVIOUS
<1>4. parse(p, bytes[2]) = r
  BY <1>1, <1>2, <1>3 DEF parse
<1>5. /\ r.parser.waitForData = 1 /\ r.parser.parsingSysex = p.parsingSysex
      /\ r.parser.executeMultiByteCommand = p.executeMultiByteCommand
      /\ r.parser.multiByteChannel = p.multiByteChannel
      /\ r.parser.dataBuffer[1] = bytes[2]
  BY <1>1, <1>2, <1>3, DataByteFields
<1> QED
  BY <1>2, <1>4, <1>5 DEF Waiting

(* What Dispatched makes of the data bytes, first and last. *)
LastMessage(command, channel, first, last) ==
  Message(command, IF command \in {SET_PIN_MODE, SET_DIGITAL_PIN_VALUE} THEN 0 ELSE channel,
          IF command \in Wide THEN <<last * 128 + first>>
          ELSE IF command \in OneByte THEN <<last>> ELSE <<first, last>>)

LEMMA LastDataFollowed ==
  ASSUME NEW p \in Parsers, NEW command \in TwoBytes \cup OneByte, NEW channel, NEW byte \in Bits7,
         ~p.parsingSysex, p.waitForData = 1, p.executeMultiByteCommand = command,
         command < START_SYSEX => p.multiByteChannel = channel
  PROVE  parse(p, byte).message = LastMessage(command, channel, p.dataBuffer[1], byte)
<1>1. byte \in Nat /\ byte < 128
  BY DEF Bits7
<1>3. command # 0 /\ (command < START_SYSEX <=> command \notin {SET_PIN_MODE, SET_DIGITAL_PIN_VALUE})
  BY CommandNumbers
<1>4. PICK r : r = DataByte(p, byte)
  OBVIOUS
<1>5. parse(p, byte) = r
  BY <1>1, <1>4 DEF parse
<1>6. PICK q \in Parsers :
        /\ r.message = Dispatched(q)
        /\ q.executeMultiByteCommand = p.executeMultiByteCommand
        /\ q.multiByteChannel = p.multiByteChannel
        /\ q.dataBuffer[0] = byte /\ q.dataBuffer[1] = p.dataBuffer[1]
  BY <1>1, <1>3, <1>4, DataByteFields
<1>7. command \notin {SET_PIN_MODE, SET_DIGITAL_PIN_VALUE} => q.multiByteChannel = channel
  BY <1>3, <1>6
<1>8. Dispatched(q) =
        Message(command, IF command \in {SET_PIN_MODE, SET_DIGITAL_PIN_VALUE} THEN 0
                         ELSE q.multiByteChannel,
                IF command \in Wide THEN <<byte * 128 + q.dataBuffer[1]>>
                ELSE IF command \in OneByte THEN <<byte>> ELSE <<q.dataBuffer[1], byte>>)
  BY <1>6 DEF Dispatched
<1> QED
  BY <1>5, <1>6, <1>7, <1>8 DEF LastMessage

LEMMA WideFollowed ==
  ASSUME NEW p \in Parsers, NEW command \in Wide, NEW channel \in 0 .. 15, NEW v \in Bits14,
         NEW m, m = Message(command, channel, <<v>>), NEW i \in 1 .. Size(m), Ready(p, m, i)
  PROVE  Follows(p, m, i)
<1> DEFINE low == Low(v)
           high == High(v)
<1>1. PICK bytes : bytes = Marshal(m)
  OBVIOUS
<1>2. bytes = <<command + channel, low, high>>
  BY <1>1, WideWritten
<1>3. low \in Bits7 /\ high \in Bits7 /\ high * 128 + low = v
  BY SevenBits
<1> HIDE DEF low, high
<1>4. /\ Len(bytes) = 3 /\ Size(m) = 3 /\ bytes[1] = command + channel
      /\ bytes[2] = low /\ bytes[3] = high
  BY <1>1, <1>2 DEF Size
<1>5. /\ command \in TwoBytes /\ command # START_SYSEX /\ command < START_SYSEX
      /\ command \notin {SET_PIN_MODE, SET_DIGITAL_PIN_VALUE}
  BY CommandNumbers
<1>6. \A q, k : Midway(q, m, k) <=> Waiting(q, command, channel, bytes, k)
  BY <1>1, <1>5, MidwayWaiting
<1>7. CASE i = 1
  <2>1. Waiting(parse(p, bytes[1]).parser, command, channel, bytes, 1)
    <3>1. ~p.parsingSysex
      BY <1>7 DEF Ready
    <3> QED BY <1>4, <1>5, <3>1, CommandNumbers, CommandFollowed
  <2> QED BY <1>1, <1>4, <1>6, <1>7, <2>1 DEF Follows
<1>8. CASE i = 2
  <2>1. Waiting(p, command, channel, bytes, 1)
    BY <1>6, <1>8 DEF Ready
  <2>2. Waiting(parse(p, bytes[2]).parser, command, channel, bytes, 2)
    BY <1>3, <1>4, <1>5, <2>1, FirstDataFollowed
  <2> QED BY <1>1, <1>4, <1>6, <1>8, <2>2 DEF Follows
<1>9. CASE i = 3
  <2>1. Waiting(p, command, channel, bytes, 2)
    BY <1>6, <1>9 DEF Ready
  <2>2. parse(p, bytes[3]).message = Message(command, channel, <<high * 128 + low>>)
    <3>1. /\ ~p.parsingSysex /\ p.waitForData = 1 /\ p.executeMultiByteCommand = command
          /\ command < START_SYSEX => p.multiByteChannel = channel
          /\ p.dataBuffer[1] = bytes[2]
      BY <1>4, <2>1 DEF Waiting
    <3>2. bytes[3] \in Bits7 /\ command \in TwoBytes \cup OneByte
      BY <1>3, <1>4, <1>5
    <3>3. parse(p, bytes[3]).message = LastMessage(command, channel, p.dataBuffer[1], bytes[3])
      BY <3>1, <3>2, LastDataFollowed
    <3> QED BY <1>4, <1>5, <3>1, <3>3 DEF LastMessage
  <2> QED BY <1>1, <1>3, <1>4, <1>9, <2>2 DEF Follows
<1> QED
  BY <1>4, <1>7, <1>8, <1>9

LEMMA OneByteFollowed ==
  ASSUME NEW p \in Parsers, NEW command \in OneByte, NEW channel \in 0 .. 15, NEW b \in Bits7,
         NEW m, m = Message(command, channel, <<b>>), NEW i \in 1 .. Size(m), Ready(p, m, i)
  PROVE  Follows(p, m, i)
<1>1. PICK bytes : bytes = Marshal(m)
  OBVIOUS
<1>2. bytes = <<command + channel, b>>
  BY <1>1, OneByteWritten
<1>4. Len(bytes) = 2 /\ Size(m) = 2 /\ bytes[1] = command + channel /\ bytes[2] = b
  BY <1>1, <1>2 DEF Size
<1>5. /\ command \notin TwoBytes /\ command \notin Wide /\ command # START_SYSEX
      /\ command < START_SYSEX /\ command \notin {SET_PIN_MODE, SET_DIGITAL_PIN_VALUE}
  BY CommandNumbers
<1>6. \A q, k : Midway(q, m, k) <=> Waiting(q, command, channel, bytes, k)
  BY <1>1, <1>5, MidwayWaiting
<1>7. CASE i = 1
  <2>1. Waiting(parse(p, bytes[1]).parser, command, channel, bytes, 1)
    <3>1. ~p.parsingSysex
      BY <1>7 DEF Ready
    <3> QED BY <1>4, <1>5, <3>1, CommandNumbers, CommandFollowed
  <2> QED BY <1>1, <1>4, <1>6, <1>7, <2>1 DEF Follows
<1>8. CASE i = 2
  <2>1. Waiting(p, command, channel, bytes, 1)
    BY <1>6, <1>8 DEF Ready
  <2>2. parse(p, bytes[2]).message = Message(command, channel, <<b>>)
    <3>1. /\ ~p.parsingSysex /\ p.waitForData = 1 /\ p.executeMultiByteCommand = command
          /\ command < START_SYSEX => p.multiByteChannel = channel
      BY <1>4, <2>1 DEF Waiting
    <3>2. bytes[2] \in Bits7 /\ command \in TwoBytes \cup OneByte
      BY <1>4, <1>5
    <3>3. parse(p, bytes[2]).message = LastMessage(command, channel, p.dataBuffer[1], bytes[2])
      BY <3>1, <3>2, LastDataFollowed
    <3> QED BY <1>4, <1>5, <3>1, <3>3 DEF LastMessage
  <2> QED BY <1>1, <1>4, <1>8, <2>2 DEF Follows
<1> QED
  BY <1>4, <1>7, <1>8

LEMMA PinFollowed ==
  ASSUME NEW p \in Parsers, NEW command \in TwoBytes \ Wide, NEW b \in Bits7, NEW c \in Bits7,
         NEW m, m = Message(command, 0, <<b, c>>), NEW i \in 1 .. Size(m), Ready(p, m, i)
  PROVE  Follows(p, m, i)
<1>1. PICK bytes : bytes = Marshal(m)
  OBVIOUS
<1>2. bytes = <<command, b, c>>
  BY <1>1, PinWritten
<1>4. /\ Len(bytes) = 3 /\ Size(m) = 3 /\ bytes[1] = command /\ bytes[2] = b /\ bytes[3] = c
  BY <1>1, <1>2 DEF Size
<1>5. /\ command \in TwoBytes /\ command \notin Wide /\ command \notin OneByte
      /\ command # START_SYSEX /\ command + 0 = command
      /\ command \in {SET_PIN_MODE, SET_DIGITAL_PIN_VALUE}
  BY CommandNumbers
<1>6. \A q, k : Midway(q, m, k) <=> Waiting(q, command, 0, bytes, k)
  BY <1>1, <1>5, MidwayWaiting
<1>7. CASE i = 1
  <2>1. Waiting(parse(p, bytes[1]).parser, command, 0, bytes, 1)
    <3>1. ~p.parsingSysex /\ 0 \in 0 .. 15
      BY <1>7 DEF Ready
    <3> QED BY <1>4, <1>5, <3>1, CommandFollowed
  <2> QED BY <1>1, <1>4, <1>6, <1>7, <2>1 DEF Follows
<1>8. CASE i = 2
  <2>1. Waiting(p, command, 0, bytes, 1)
    BY <1>6, <1>8 DEF Ready
  <2>2. Waiting(parse(p, bytes[2]).parser, command, 0, bytes, 2)
    BY <1>4, <1>5, <2>1, FirstDataFollowed
  <2> QED BY <1>1, <1>4, <1>6, <1>8, <2>2 DEF Follows
<1>9. CASE i = 3
  <2>1. Waiting(p, command, 0, bytes, 2)
    BY <1>6, <1>9 DEF Ready
  <2>2. parse(p, bytes[3]).message = Message(command, 0, <<b, c>>)
    <3>1. /\ ~p.parsingSysex /\ p.waitForData = 1 /\ p.executeMultiByteCommand = command
          /\ command < START_SYSEX => p.multiByteChannel = 0
          /\ p.dataBuffer[1] = bytes[2]
      BY <1>4, <2>1 DEF Waiting
    <3>2. bytes[3] \in Bits7 /\ command \in TwoBytes \cup OneByte
      BY <1>4, <1>5
    <3>3. parse(p, bytes[3]).message = LastMessage(command, 0, p.dataBuffer[1], bytes[3])
      BY <3>1, <3>2, LastDataFollowed
    <3> QED BY <1>4, <1>5, <3>1, <3>3 DEF LastMessage
  <2> QED BY <1>1, <1>4, <1>9, <2>2 DEF Follows
<1> QED
  BY <1>4, <1>7, <1>8, <1>9

LEMMA BareFollowed ==
  ASSUME NEW p \in Parsers, NEW command \in {REPORT_VERSION, SYSTEM_RESET},
         NEW m, m = Message(command, 0, <<>>), NEW i \in 1 .. Size(m), Ready(p, m, i)
  PROVE  Follows(p, m, i)
<1>1. Marshal(m) = <<command>>
  BY BareWritten
<1>2. Size(m) = 1 /\ Marshal(m)[1] = command /\ i = 1
  <2>1. Len(<<command>>) = 1 /\ <<command>>[1] = command
    OBVIOUS
  <2>2. Size(m) = 1
    BY <1>1, <2>1 DEF Size
  <2> QED BY <1>1, <2>1, <2>2
<1>3. command \in {249, 255} /\ ~(command < 128) /\ ~(command < START_SYSEX)
  BY CommandNumbers
<1>4. PICK r : r = CommandByte(p, command)
  OBVIOUS
<1>5. parse(p, command) = r
  BY <1>2, <1>3, <1>4 DEF parse, Ready
<1>6. CommandCases(r, p, command)
  BY <1>3, <1>4, CommandByteCases
<1>7. r.message = m
  BY <1>6 DEF CommandCases
<1> QED
  BY <1>2, <1>5, <1>7 DEF Follows

(* The parser of a sysex with these bytes, k of them read. *)
Reading(p, bytes, k) ==
  /\ p.parsingSysex /\ p.sysexBytesRead = k - 1
  /\ \A j \in 0 .. k - 2 : p.dataBuffer[j] = bytes[j + 2]

LEMMA SysexBegun ==
  ASSUME NEW p \in Parsers, ~p.parsingSysex, NEW bytes
  PROVE  Reading(parse(p, START_SYSEX).parser, bytes, 1)
<1>1. START_SYSEX = 240 /\ ~(START_SYSEX < 128) /\ ~(START_SYSEX < START_SYSEX)
  BY CommandNumbers
<1>2. PICK r : r = CommandByte(p, START_SYSEX)
  OBVIOUS
<1>3. parse(p, START_SYSEX) = r
  BY <1>1, <1>2 DEF parse
<1>4. CommandCases(r, p, START_SYSEX)
  BY <1>1, <1>2, CommandByteCases
<1>5. r.parser = [p EXCEPT !.parsingSysex = TRUE, !.sysexBytesRead = 0]
  BY <1>4 DEF CommandCases
<1>6. r.parser.parsingSysex /\ r.parser.sysexBytesRead = 0
  BY <1>5 DEF Parsers
<1> QED
  BY <1>3, <1>6 DEF Reading

LEMMA SysexRead ==
  ASSUME NEW p \in Parsers, NEW bytes, NEW k \in Nat, k >= 1, k - 1 < DataBytes,
         Reading(p, bytes, k), bytes[k + 1] \in 0 .. 127
  PROVE  Reading(parse(p, bytes[k + 1]).parser, bytes, k + 1)
<1> DEFINE byte == bytes[k + 1]
<1>1. byte \in Nat /\ byte # END_SYSEX
  BY CommandNumbers
<1>2. p.parsingSysex /\ p.sysexBytesRead = k - 1 /\ k - 1 < CountedTo /\ k - 1 \in 0 .. DataBytes - 1
  BY ParserNumbers DEF Reading
<1>3. PICK r : r = SysexByte(p, byte)
  OBVIOUS
<1>4. parse(p, byte) = r
  BY <1>2, <1>3 DEF parse
<1>5. /\ r.parser.parsingSysex = p.parsingSysex
      /\ p.sysexBytesRead < CountedTo => r.parser.sysexBytesRead = p.sysexBytesRead + 1
      /\ p.sysexBytesRead < DataBytes => r.parser.dataBuffer[p.sysexBytesRead] = byte
      /\ \A j \in 0 .. DataBytes - 1 :
           j # p.sysexBytesRead => r.parser.dataBuffer[j] = p.dataBuffer[j]
  BY <1>1, <1>3, SysexByteFields
<1>6. r.parser.parsingSysex /\ r.parser.sysexBytesRead = (k + 1) - 1
  BY <1>2, <1>5
<1>7. ASSUME NEW j \in 0 .. (k + 1) - 2
      PROVE  r.parser.dataBuffer[j] = bytes[j + 2]
  <2>1. CASE j = k - 1
    <3>1. j + 2 = k + 1
      BY <2>1
    <3> QED BY <1>2, <1>5, <2>1, <3>1
  <2>2. CASE j # k - 1
    <3>1. j \in 0 .. k - 2 /\ j \in 0 .. DataBytes - 1
      BY <1>2, <2>2, ParserNumbers
    <3> QED BY <1>2, <1>5, <2>2, <3>1 DEF Reading
  <2> QED BY <2>1, <2>2
<1> QED
  BY <1>4, <1>6, <1>7 DEF Reading

LEMMA OneByteDecoded ==
  ASSUME NEW b \in 0 .. 255
  PROVE  (IF b % 128 < 128 /\ (b \div 128) % 2 = 1 THEN (b % 128) + 128 ELSE b % 128) = b
<1>1. PICK q \in Int, r \in Int : q = b \div 128 /\ r = b % 128
  <2>1. b \div 128 \in Int /\ b % 128 \in Int
    OBVIOUS
  <2> QED BY <2>1
<1>2. b = 128 * (b \div 128) + (b % 128) /\ 0 <= b % 128 /\ b % 128 <= 127
  OBVIOUS
<1>3. b = 128 * q + r /\ 0 <= r /\ r <= 127 /\ 0 <= b /\ b <= 255
  BY <1>1, <1>2
<1>4. q = 0 \/ q = 1
  BY <1>3
<1>5. (IF r < 128 /\ q % 2 = 1 THEN r + 128 ELSE r) = b
  BY <1>3, <1>4
<1> QED
  BY <1>1, <1>5

(* decodeByteStream gives the string back. *)
LEMMA TextDecoded ==
  ASSUME NEW p \in Parsers, NEW args \in SysexArgs, NEW bytes,
         bytes = Marshal(Message(START_SYSEX, 0, args)), Reading(p, bytes, 2 * Len(args)),
         NEW text, text = Decoded(p, 1, 2 * Len(args) - 2)
  PROVE  <<args[1]>> \o text = args
<1> DEFINE n == Len(args)
<1>1. args \in Seq(0 .. 255) /\ n \in Nat \ {0} /\ 2 * n - 1 <= DataBytes
  BY SysexArgsTyped
<1>2. \A j \in 1 .. n - 1 : bytes[2 * j + 1] = args[j + 1] % 128 /\ bytes[2 * j + 2] = args[j + 1] \div 128
  <2>1. SysexBytes(args, bytes)
    BY SysexWritten
  <2> QED BY <2>1 DEF SysexBytes
<1>3. ((2 * n - 2) + 1) \div 2 = n - 1
  BY <1>1
<1> DEFINE At(i) == IF i < DataBytes THEN p.dataBuffer[i] ELSE 0
           Byte(k) == IF At(1 + 2 * (k - 1)) < 128 /\ At(1 + 2 * (k - 1) + 1) % 2 = 1
                        THEN At(1 + 2 * (k - 1)) + 128 ELSE At(1 + 2 * (k - 1))
<1>4. text = [k \in 1 .. n - 1 |-> Byte(k)]
  BY <1>3 DEF Decoded
<1>5. ASSUME NEW k \in 1 .. n - 1
      PROVE  Byte(k) = args[k + 1] /\ args[k + 1] \in 0 .. 255
  <2>1. /\ 1 + 2 * (k - 1) \in 0 .. 2 * n - 2 /\ (1 + 2 * (k - 1)) + 2 = 2 * k + 1
        /\ 1 + 2 * (k - 1) + 1 \in 0 .. 2 * n - 2 /\ (1 + 2 * (k - 1) + 1) + 2 = 2 * k + 2
        /\ 1 + 2 * (k - 1) < DataBytes /\ 1 + 2 * (k - 1) + 1 < DataBytes
        /\ k + 1 \in 1 .. n
    BY <1>1, ParserNumbers
  <2>2. At(1 + 2 * (k - 1)) = bytes[2 * k + 1] /\ At(1 + 2 * (k - 1) + 1) = bytes[2 * k + 2]
    BY <2>1 DEF Reading
  <2>3. At(1 + 2 * (k - 1)) = args[k + 1] % 128 /\ At(1 + 2 * (k - 1) + 1) = args[k + 1] \div 128
    BY <1>2, <2>2
  <2>4. args[k + 1] \in 0 .. 255
    BY <1>1, <2>1, ElementOfSeq
  <2>5. (IF args[k + 1] % 128 < 128 /\ (args[k + 1] \div 128) % 2 = 1
           THEN (args[k + 1] % 128) + 128 ELSE args[k + 1] % 128) = args[k + 1]
    BY <2>4, OneByteDecoded
  <2> HIDE DEF At
  <2> QED BY <2>3, <2>4, <2>5
<1> HIDE DEF Byte
<1>6. text \in Seq(0 .. 255) /\ Len(text) = n - 1 /\ \A k \in 1 .. n - 1 : text[k] = args[k + 1]
  <2>0. PICK size \in Nat : size = n - 1
    <3>1. n - 1 \in Nat
      BY <1>1
    <3> QED BY <3>1
  <2>1. text \in [1 .. size -> 0 .. 255]
    BY <1>4, <1>5, <2>0
  <2>2. size = n - 1
    BY <2>0
  <2>3. text \in Seq(0 .. 255) /\ Len(text) = size
    BY <2>1
  <2> QED BY <1>4, <1>5, <2>2, <2>3
<1>7. <<args[1]>> \in Seq(0 .. 255) /\ Len(<<args[1]>>) = 1 /\ <<args[1]>>[1] = args[1]
  <2>1. args[1] \in 0 .. 127
    BY SysexArgsTyped
  <2>2. PICK b \in 0 .. 255 : b = args[1]
    BY <2>1
  <2> QED BY <2>2
<1> DEFINE s == <<args[1]>> \o text
<1>8. s \in Seq(0 .. 255) /\ Len(s) = 1 + (n - 1)
      /\ \A i \in 1 .. 1 + (n - 1) : s[i] = IF i <= 1 THEN args[1] ELSE text[i - 1]
  <2>1. /\ s \in Seq(0 .. 255) /\ Len(s) = Len(<<args[1]>>) + Len(text)
        /\ \A i \in 1 .. Len(<<args[1]>>) + Len(text) :
             s[i] = IF i <= Len(<<args[1]>>) THEN <<args[1]>>[i] ELSE text[i - Len(<<args[1]>>)]
    BY <1>6, <1>7, ConcatProperties
  <2> HIDE DEF s
  <2> QED BY <1>6, <1>7, <2>1
<1> HIDE DEF s
<1>9. Len(s) = Len(args) /\ \A i \in 1 .. Len(s) : s[i] = args[i]
  BY <1>1, <1>6, <1>8
<1>10. s = args
  BY <1>1, <1>8, <1>9, SeqEqual
<1> QED
  BY <1>10 DEF s

LEMMA SysexEnded ==
  ASSUME NEW p \in Parsers, NEW args \in SysexArgs, NEW bytes,
         bytes = Marshal(Message(START_SYSEX, 0, args)), Reading(p, bytes, 2 * Len(args))
  PROVE  parse(p, END_SYSEX).message = Message(START_SYSEX, 0, args)
<1> DEFINE n == Len(args)
<1>1. /\ n \in Nat \ {0}
      /\ args = <<REPORT_FIRMWARE>> \/ args[1] = STRING_DATA
  BY SysexArgsTyped
<1>2. PICK r : r = SysexByte(p, END_SYSEX)
  OBVIOUS
<1>3. parse(p, END_SYSEX) = r
  BY <1>2 DEF parse, Reading
<1>4. END_SYSEX \in Nat /\ STRING_DATA # REPORT_FIRMWARE
  BY CommandNumbers
<1>5. r.message = processSysexMessage(p)
  BY <1>2, <1>4, SysexByteFields
<1>6. p.dataBuffer[0] = args[1] /\ p.sysexBytesRead - 1 = 2 * n - 2
  <2>1. bytes[2] = args[1]
    <3>1. SysexBytes(args, bytes)
      BY SysexWritten
    <3> QED BY <3>1 DEF SysexBytes
  <2>2. 0 \in 0 .. 2 * n - 2 /\ 0 + 2 = 2
    <3>1. n \in Nat /\ n >= 1
      BY <1>1
    <3> HIDE DEF n
    <3> QED BY <3>1
  <2> QED BY <1>1, <2>1, <2>2 DEF Reading
<1>7. PICK text : text = Decoded(p, 1, 2 * n - 2)
  OBVIOUS
<1>8. PICK argv : argv = [i \in 1 .. p.sysexBytesRead - 1 |-> IF i < DataBytes THEN p.dataBuffer[i] ELSE 0]
  OBVIOUS
<1>9. processSysexMessage(p)
        = Message(START_SYSEX, 0,
            <<args[1]>> \o IF args[1] = STRING_DATA THEN text
                           ELSE IF args[1] = REPORT_FIRMWARE THEN <<>> ELSE argv)
  BY <1>6, <1>7, <1>8 DEF processSysexMessage
<1>10. CASE args = <<REPORT_FIRMWARE>>
  <2>1. args[1] = REPORT_FIRMWARE /\ args = <<args[1]>>
    BY <1>10
  <2>2. <<args[1]>> \o <<>> = <<args[1]>>
    BY Joined1
  <2>3. processSysexMessage(p) = Message(START_SYSEX, 0, <<args[1]>> \o <<>>)
    BY <1>4, <1>9, <2>1
  <2> QED BY <1>3, <1>5, <2>1, <2>2, <2>3
<1>11. CASE args[1] = STRING_DATA
  <2>1. <<args[1]>> \o text = args
    BY <1>7, TextDecoded
  <2>2. processSysexMessage(p) = Message(START_SYSEX, 0, <<args[1]>> \o text)
    BY <1>9, <1>11
  <2> QED BY <1>3, <1>5, <2>1, <2>2
<1> QED
  BY <1>1, <1>10, <1>11

LEMMA SysexFollowed ==
  ASSUME NEW p \in Parsers, NEW args \in SysexArgs,
         NEW m, m = Message(START_SYSEX, 0, args), NEW i \in 1 .. Size(m), Ready(p, m, i)
  PROVE  Follows(p, m, i)
<1> DEFINE n == Len(args)
<1>1. PICK bytes : bytes = Marshal(m)
  OBVIOUS
<1>2. /\ Len(bytes) = 2 * n + 1 /\ bytes[1] = START_SYSEX /\ bytes[Len(bytes)] = END_SYSEX
      /\ \A k \in 2 .. Len(bytes) - 1 : bytes[k] \in 0 .. 127
  <2>1. SysexBytes(args, bytes)
    BY <1>1, SysexWritten
  <2> QED BY <2>1 DEF SysexBytes
<1>3. n \in Nat \ {0} /\ 2 * n - 1 <= DataBytes /\ Size(m) = 2 * n + 1
  BY <1>1, <1>2, SysexArgsTyped DEF Size
<1>4. \A q, k : Midway(q, m, k) <=> Reading(q, bytes, k)
  <2>1. m.command = START_SYSEX
    BY MessageFields
  <2> QED BY <1>1, <2>1 DEF Midway, Reading
<1>5. CASE i = 1
  <2>1. Reading(parse(p, START_SYSEX).parser, bytes, 1)
    BY <1>5, SysexBegun DEF Ready
  <2>2. Size(m) # 1
    BY <1>3
  <2> QED BY <1>1, <1>2, <1>4, <1>5, <2>1, <2>2 DEF Follows
<1>6. CASE i \in 2 .. 2 * n
  <2>1. PICK k \in Nat : k = i - 1
    BY <1>6
  <2>2. Reading(p, bytes, k)
    BY <1>4, <1>6, <2>1 DEF Ready
  <2>3. k >= 1 /\ k - 1 < DataBytes /\ k + 1 = i /\ bytes[k + 1] \in 0 .. 127
    BY <1>2, <1>3, <1>6, <2>1, ParserNumbers
  <2>4. Reading(parse(p, bytes[k + 1]).parser, bytes, k + 1)
    BY <2>2, <2>3, SysexRead
  <2>5. i # Size(m)
    BY <1>3, <1>6
  <2> QED BY <1>1, <1>4, <2>3, <2>4, <2>5 DEF Follows
<1>7. CASE i = 2 * n + 1
  <2>1. i # 1 /\ i - 1 = 2 * n
    BY <1>3, <1>7
  <2>2. Reading(p, bytes, 2 * n)
    BY <1>4, <2>1 DEF Ready
  <2>3. parse(p, END_SYSEX).message = m
    BY <1>1, <2>2, SysexEnded
  <2> QED BY <1>1, <1>2, <1>3, <1>7, <2>3 DEF Follows
<1> QED
  BY <1>3, <1>5, <1>6, <1>7

(* One byte of a message read by a parser that has followed it so far. *)
LEMMA MessageFollowed ==
  ASSUME NEW p \in Parsers, NEW m \in Messages, NEW i \in 1 .. Size(m), Ready(p, m, i)
  PROVE  Follows(p, m, i)
BY MessageKinds, WideFollowed, OneByteFollowed, PinFollowed, BareFollowed, SysexFollowed

-----------------------------------------------------------------------------
(* What is written, under way and read are bytes of messages. *)
LEMMA MarshalTyped ==
  ASSUME NEW m \in Messages
  PROVE  Marshal(m) \in Seq(0 .. 255) /\ Size(m) \in Nat
<1> DEFINE Goal == Marshal(m) \in Seq(0 .. 255)
<1>1. ASSUME NEW command \in Wide, NEW channel \in 0 .. 15, NEW v \in Bits14,
             m = Message(command, channel, <<v>>)
      PROVE  Goal
  <2>1. command + channel \in 0 .. 255
    BY CommandNumbers
  <2>2. Low(v) \in 0 .. 255 /\ High(v) \in 0 .. 255
    BY SevenBits DEF Bits7
  <2>3. Marshal(m) = <<command + channel, Low(v), High(v)>>
    BY <1>1, WideWritten
  <2> QED BY <2>1, <2>2, <2>3
<1>2. ASSUME NEW command \in OneByte, NEW channel \in 0 .. 15, NEW b \in Bits7,
             m = Message(command, channel, <<b>>)
      PROVE  Goal
  <2>1. command + channel \in 0 .. 255 /\ b \in 0 .. 255
    BY CommandNumbers DEF Bits7
  <2>2. Marshal(m) = <<command + channel, b>>
    BY <1>2, OneByteWritten
  <2> QED BY <2>1, <2>2
<1>3. ASSUME NEW command \in TwoBytes \ Wide, NEW b \in Bits7, NEW c \in Bits7,
             m = Message(command, 0, <<b, c>>)
      PROVE  Goal
  <2>1. command \in 0 .. 255 /\ b \in 0 .. 255 /\ c \in 0 .. 255
    BY CommandNumbers DEF Bits7
  <2>2. Marshal(m) = <<command, b, c>>
    BY <1>3, PinWritten
  <2> QED BY <2>1, <2>2
<1>4. ASSUME NEW command \in {REPORT_VERSION, SYSTEM_RESET}, m = Message(command, 0, <<>>)
      PROVE  Goal
  <2>1. command \in 0 .. 255
    BY CommandNumbers
  <2>2. Marshal(m) = <<command>>
    BY <1>4, BareWritten
  <2> QED BY <2>1, <2>2
<1>5. ASSUME NEW args \in SysexArgs, m = Message(START_SYSEX, 0, args)
      PROVE  Goal
  <2>1. SysexBytes(args, Marshal(m))
    BY <1>5, SysexWritten
  <2> QED BY <2>1 DEF SysexBytes
<1>6. Goal
  <2> HIDE DEF Goal
  <2> QED BY <1>1, <1>2, <1>3, <1>4, <1>5, MessageKinds
<1> QED
  BY <1>6, LenProperties DEF Size

Cell(m, i) == [byte |-> Marshal(m)[i], place |-> Place(m, i)]

LEMMA CellIs ==
  ASSUME NEW b \in Cells
  PROVE  \E m \in Messages : \E i \in 1 .. Size(m) : b = Cell(m, i)
BY DEF Cells, Cell

LEMMA WrittenTyped ==
  ASSUME NEW m \in Messages
  PROVE  Written[m] \in Seq(Cells)
<1>1. Marshal(m) \in Seq(0 .. 255) /\ Size(m) \in Nat /\ DOMAIN Marshal(m) = 1 .. Size(m)
  BY MarshalTyped, LenProperties DEF Size
<1>2. PICK size \in Nat : size = Size(m)
  BY <1>1
<1>3. Written[m] = [i \in 1 .. size |-> Cell(m, i)]
  BY <1>1, <1>2 DEF Written, Cell, Place, Size
<1>4. \A i \in 1 .. size : Cell(m, i) \in Cells
  BY <1>2 DEF Cells, Cell
<1>5. Written[m] \in [1 .. size -> Cells]
  BY <1>3, <1>4
<1> QED
  BY <1>5

LEMMA PrefixTyped ==
  ASSUME NEW s \in Seq(Cells), NEW t \in Prefixes(s)
  PROVE  t \in Seq(Cells)
<1>1. PICK n \in 0 .. Len(s) : t = SubSeq(s, 1, n)
  BY DEF Prefixes
<1>2. \A i \in 1 .. n : s[i] \in Cells
  BY ElementOfSeq
<1>3. n \in Int
  BY LenProperties
<1> QED
  BY <1>1, <1>2, <1>3, SubSeqProperties

(* The invariant of the wire. *)
LEMMA WireInvInit == WireInit => ParserInv
BY NewParserTyped, EmptySeq DEF WireInit, ParserInv, WireInv, FollowInv

(* The parser follows what it reads, and only that moves it. *)
LEMMA ProcessInputInv ==
  ASSUME ParserInv, ProcessInput
  PROVE  ParserInv'
<1> DEFINE b == Head(wire)
           result == parse(parser, b.byte)
<1>1. wire \in Seq(Cells) /\ wire # <<>> /\ parser \in Parsers /\ FollowInv
  BY DEF ParserInv, WireInv, ProcessInput
<1>2. /\ parser' = result.parser /\ follow' = Followed(b.place)
      /\ got' = (IF result.message = NoMessage \/ follow'.last THEN result.message ELSE Mangled)
      /\ wire' = Tail(wire) /\ outgoing' = outgoing
  BY DEF ProcessInput
<1>3. b \in Cells /\ Tail(wire) \in Seq(Cells)
  BY <1>1, HeadTailProperties
<1>4. PICK m \in Messages : \E i \in 1 .. Size(m) : b = Cell(m, i)
  BY <1>3, CellIs
<1>5. PICK i \in 1 .. Size(m) : b = Cell(m, i)
  BY <1>4
<1>6. b.byte = Marshal(m)[i] /\ b.place = Place(m, i)
  BY <1>5 DEF Cell
<1> HIDE DEF b
<1>7. Size(m) \in Nat /\ i \in Nat /\ i >= 1 /\ b.byte \in 0 .. 255
  <2>1. Marshal(m) \in Seq(0 .. 255) /\ Size(m) \in Nat
    BY MarshalTyped
  <2>2. Marshal(m)[i] \in 0 .. 255
    BY <2>1, ElementOfSeq DEF Size
  <2> QED BY <1>6, <2>1, <2>2
<1>8. parser' \in Parsers
  BY <1>1, <1>2, <1>7, ParseTyped
<1>9. FollowInv'
  <2>1. CASE follow' = Nothing
    <3>1. Nothing' = Nothing
      BY DEF Nothing, NoMessage, Message
    <3> QED BY <2>1, <3>1 DEF FollowInv
  <2>2. CASE follow' # Nothing
    <3>1. /\ follow' = Place(m, i)
          /\ IF i = 1 THEN ~parser.parsingSysex ELSE follow.message = m /\ follow.at = i - 1
      BY <1>2, <1>6, <2>2 DEF Followed, Place
    <3>2. Ready(parser, m, i)
      <4>1. CASE i = 1
        BY <3>1, <4>1 DEF Ready
      <4>2. CASE i # 1
        <5>1. follow.message = m /\ follow.at = i - 1 /\ i - 1 # 0
          BY <1>7, <3>1, <4>2
        <5>2. follow # Nothing
          BY <5>1 DEF Nothing
        <5>3. PICK n \in Messages : \E k \in 1 .. Size(n) :
                follow = Place(n, k) /\ IF k = Size(n) THEN got = n ELSE Midway(parser, n, k)
          BY <1>1, <5>2 DEF FollowInv
        <5>4. PICK k \in 1 .. Size(n) :
                follow = Place(n, k) /\ IF k = Size(n) THEN got = n ELSE Midway(parser, n, k)
          BY <5>3
        <5>5. n = m /\ k = i - 1
          BY <5>1, <5>4 DEF Place
        <5>6. k # Size(n)
          BY <1>7, <5>5
        <5> QED BY <4>2, <5>4, <5>5, <5>6 DEF Ready
      <4> QED BY <4>1, <4>2
    <3>3. Follows(parser, m, i)
      BY <1>1, <3>2, MessageFollowed
    <3>4. IF i = Size(m) THEN got' = m ELSE Midway(parser', m, i)
      <4>1. follow'.last = (i = Size(m))
        BY <3>1 DEF Place
      <4> QED BY <1>2, <1>6, <3>3, <4>1 DEF Follows
    <3> QED BY <3>1, <3>4 DEF FollowInv, Midway, Size, Place
  <2> QED BY <2>1, <2>2
<1> QED
  BY <1>1, <1>2, <1>3, <1>8, <1>9 DEF ParserInv, WireInv

LEMMA WireStep == ParserInv /\ [WireNext]_vars => ParserInv'
<1> SUFFICES ASSUME ParserInv, [WireNext]_vars
             PROVE  ParserInv'
  OBVIOUS
<1>1. wire \in Seq(Cells) /\ outgoing \in Seq(Cells) /\ parser \in Parsers /\ FollowInv
  BY DEF ParserInv, WireInv
<1>2. ASSUME UNCHANGED <<parser, follow, got>>, wire' \in Seq(Cells), outgoing' \in Seq(Cells)
      PROVE  ParserInv'
  BY <1>1, <1>2 DEF ParserInv, WireInv, FollowInv, Midway, Size, Place
<1>3. <<>> \in Seq(Cells)
  BY EmptySeq
<1>4. CASE Sends
  BY <1>1, <1>2, <1>4, WrittenTyped DEF Sends
<1>5. CASE Writes
  <2>1. /\ Head(outgoing) \in Cells /\ Tail(outgoing) \in Seq(Cells)
        /\ Append(wire, Head(outgoing)) \in Seq(Cells)
    BY <1>1, <1>5, HeadTailProperties, AppendProperties DEF Writes
  <2>2. UNCHANGED <<parser, follow, got>> /\ wire' \in Seq(Cells) /\ outgoing' \in Seq(Cells)
    BY <1>1, <1>3, <1>5, <2>1 DEF Writes
  <2> QED BY <1>2, <2>2
<1>6. CASE Goes
  <2>1. UNCHANGED <<parser, follow, got>> /\ wire' \in Seq(Cells) /\ outgoing' \in Seq(Cells)
    BY <1>1, <1>3, <1>6, PrefixTyped DEF Goes
  <2> QED BY <1>2, <2>1
<1>7. CASE Comes \/ Maintain \/ IntervalPasses
  <2>1. UNCHANGED <<parser, follow, got, wire, outgoing>>
    BY <1>7 DEF Comes, Maintain, IntervalPasses
  <2> QED BY <1>1, <1>2, <2>1
<1>8. CASE AddressChanges
  BY <1>2, <1>3, <1>8 DEF AddressChanges
<1>9. CASE ProcessInput
  BY <1>9, ProcessInputInv
<1>10. CASE UNCHANGED vars
  <2>1. UNCHANGED <<parser, follow, got, wire, outgoing>>
    BY <1>10 DEF vars
  <2> QED BY <1>1, <1>2, <2>1
<1> QED
  BY <1>4, <1>5, <1>6, <1>7, <1>8, <1>9, <1>10 DEF WireNext

(* Whatever the streams lost and however often their connection changed, a message
   of which every byte comes calls the sketch as the host meant it. *)
THEOREM IntactMessageDispatched == WireSpec => []IntactIsDispatched
<1>1. ParserInv => IntactIsDispatched
  <2> SUFFICES ASSUME FollowInv, follow.last
               PROVE  got = follow.message
    BY DEF ParserInv, IntactIsDispatched
  <2>1. follow # Nothing
    BY DEF Nothing
  <2>2. PICK m \in Messages : \E k \in 1 .. Size(m) :
          follow = Place(m, k) /\ IF k = Size(m) THEN got = m ELSE Midway(parser, m, k)
    BY <2>1 DEF FollowInv
  <2>3. PICK k \in 1 .. Size(m) :
          follow = Place(m, k) /\ IF k = Size(m) THEN got = m ELSE Midway(parser, m, k)
    BY <2>2
  <2>4. follow.message = m /\ (follow.last <=> k = Size(m))
    BY <2>3 DEF Place
  <2> QED BY <2>3, <2>4
<1> QED
  BY <1>1, WireInvInit, WireStep, PTL DEF WireSpec

-----------------------------------------------------------------------------
(* The refinement: which messages are under way.  An end has as many ends up to it
   as there are messages before it and itself. *)
Rank(s, i) == Cardinality({j \in Ends(s) : j <= i})

LEMMA EndsFinite ==
  ASSUME NEW s \in Seq(Cells)
  PROVE  /\ Ends(s) \subseteq 1 .. Len(s) /\ IsFiniteSet(Ends(s)) /\ Cardinality(Ends(s)) \in Nat
         /\ DOMAIN s = 1 .. Len(s) /\ Len(s) \in Nat
         /\ Rank(s, 0) = 0 /\ Rank(s, Len(s)) = Cardinality(Ends(s))
<1>1. DOMAIN s = 1 .. Len(s) /\ Len(s) \in Nat
  BY LenProperties
<1>2. Ends(s) \subseteq 1 .. Len(s)
  BY <1>1 DEF Ends
<1>3. IsFiniteSet(Ends(s))
  <2>1. IsFiniteSet(1 .. Len(s))
    BY <1>1, FS_Interval
  <2>2. Ends(s) \in SUBSET (1 .. Len(s))
    BY <1>2
  <2> QED BY <2>1, <2>2, FS_Subset
<1>4. {j \in Ends(s) : j <= 0} = {} /\ {j \in Ends(s) : j <= Len(s)} = Ends(s)
  BY <1>1, <1>2
<1>5. Rank(s, 0) = 0 /\ Rank(s, Len(s)) = Cardinality(Ends(s))
  BY <1>4, FS_EmptySet DEF Rank
<1>6. Cardinality(Ends(s)) \in Nat
  BY <1>3, FS_CardinalityType
<1> QED
  BY <1>1, <1>2, <1>3, <1>5, <1>6

LEMMA RankGrows ==
  ASSUME NEW s \in Seq(Cells), NEW i \in Nat
  PROVE  /\ Rank(s, i) \in 0 .. Cardinality(Ends(s))
         /\ \A j \in Nat : i <= j => Rank(s, i) <= Rank(s, j)
         /\ \A j \in Ends(s) : i < j => Rank(s, i) < Rank(s, j)
<1> DEFINE UpTo(j) == {l \in Ends(s) : l <= j}
<1>1. Ends(s) \subseteq Nat /\ IsFiniteSet(Ends(s)) /\ Cardinality(Ends(s)) \in Nat
  BY EndsFinite
<1>2. ASSUME NEW j \in Nat
      PROVE  IsFiniteSet(UpTo(j)) /\ Cardinality(UpTo(j)) \in 0 .. Cardinality(Ends(s))
  <2>1. UpTo(j) \in SUBSET Ends(s)
    OBVIOUS
  <2>2. /\ IsFiniteSet(UpTo(j)) /\ Cardinality(UpTo(j)) <= Cardinality(Ends(s))
    BY <1>1, <2>1, FS_Subset
  <2>3. Cardinality(UpTo(j)) \in Nat
    BY <2>2, FS_CardinalityType
  <2> QED BY <1>1, <2>2, <2>3
<1>3. ASSUME NEW j \in Nat, i <= j
      PROVE  /\ Cardinality(UpTo(i)) <= Cardinality(UpTo(j))
             /\ UpTo(i) # UpTo(j) => Cardinality(UpTo(i)) < Cardinality(UpTo(j))
  <2>1. UpTo(i) \in SUBSET UpTo(j)
    BY <1>1, <1>3
  <2> HIDE DEF UpTo
  <2>2. IsFiniteSet(UpTo(j)) /\ Cardinality(UpTo(i)) \in Nat /\ Cardinality(UpTo(j)) \in Nat
    BY <1>1, <1>2, <1>3
  <2>3. PICK S, T : S = UpTo(i) /\ T = UpTo(j)
    OBVIOUS
  <2>4. S \in SUBSET T /\ IsFiniteSet(T) /\ Cardinality(S) \in Nat /\ Cardinality(T) \in Nat
    BY <2>1, <2>2, <2>3
  <2>5. Cardinality(S) <= Cardinality(T) /\ (Cardinality(T) = Cardinality(S) => T = S)
    BY <2>4, FS_Subset
  <2>6. S # T => Cardinality(S) < Cardinality(T)
    BY <2>4, <2>5
  <2> QED BY <2>3, <2>5, <2>6
<1>4. ASSUME NEW j \in Ends(s), i < j
      PROVE  UpTo(i) # UpTo(j) /\ j \in Nat /\ i <= j
  <2>1. j \in UpTo(j) /\ j \notin UpTo(i) /\ j \in Nat
    BY <1>1, <1>4
  <2> QED BY <1>4, <2>1
<1>5. \A j : Rank(s, j) = Cardinality(UpTo(j))
  BY DEF Rank
<1> HIDE DEF UpTo
<1>6. \A j \in Nat : i <= j => Rank(s, i) <= Rank(s, j)
  BY <1>3, <1>5
<1>7. \A j \in Ends(s) : i < j => Rank(s, i) < Rank(s, j)
  BY <1>3, <1>4, <1>5
<1> QED
  BY <1>2, <1>5, <1>6, <1>7

LEMMA EndRanked ==
  ASSUME NEW s \in Seq(Cells)
  PROVE  /\ \A i \in Ends(s) : Rank(s, i) \in 1 .. Cardinality(Ends(s)) /\ End(s, Rank(s, i)) = i
         /\ \A n \in 1 .. Cardinality(Ends(s)) : End(s, n) \in Ends(s) /\ Rank(s, End(s, n)) = n
<1> DEFINE E == Ends(s)
           N == Cardinality(E)
           f == [i \in E |-> Rank(s, i)]
<1>1. E \subseteq 1 .. Len(s) /\ IsFiniteSet(E) /\ N \in Nat /\ Rank(s, 0) = 0 /\ Len(s) \in Nat
  BY EndsFinite
<1>2. \A i \in E : i \in Nat /\ 0 < i
  BY <1>1
<1>3. \A i \in E : Rank(s, i) \in 1 .. N
  <2>1. ASSUME NEW i \in E
        PROVE  Rank(s, i) \in 1 .. N
    <3>1. i \in Nat /\ 0 < i
      BY <1>2
    <3>2. Rank(s, i) \in 0 .. N
      BY <3>1, RankGrows
    <3>3. Rank(s, 0) < Rank(s, i)
      BY <3>1, RankGrows
    <3> QED BY <1>1, <3>2, <3>3
  <2> QED BY <2>1
<1>4. \A i \in E, j \in E : i < j => Rank(s, i) < Rank(s, j)
  BY <1>2, RankGrows
<1>5. \A i \in E, j \in E : Rank(s, i) = Rank(s, j) => i = j
  <2>1. \A i \in E, j \in E : Rank(s, i) \in Int /\ Rank(s, j) \in Int
    BY <1>3
  <2> QED BY <1>2, <1>4, <2>1
<1>6. f \in Injection(E, 1 .. N)
  BY <1>3, <1>5 DEF Injection, IsInjective
<1>7. IsFiniteSet(1 .. N) /\ Cardinality(1 .. N) = N
  BY <1>1, FS_Interval
<1>8. f \in Surjection(E, 1 .. N)
  <2> HIDE DEF E, f
  <2>1. Cardinality(E) = Cardinality(1 .. N)
    BY <1>7
  <2>2. Cardinality(E) = Cardinality(1 .. N) <=> f \in Surjection(E, 1 .. N)
    BY <1>6, <1>7, FS_Injection
  <2> QED BY <2>1, <2>2
<1>9. \A n \in 1 .. N : \E i \in E : Rank(s, i) = n
  BY <1>8 DEF Surjection
<1>10. \A n : End(s, n) = CHOOSE i \in E : Rank(s, i) = n
  BY DEF End, Rank
<1> HIDE DEF E, N
<1>11. \A n \in 1 .. N : End(s, n) \in E /\ Rank(s, End(s, n)) = n
  BY <1>9, <1>10
<1>12. \A i \in E : End(s, Rank(s, i)) = i
  BY <1>3, <1>5, <1>11
<1> QED
  BY <1>3, <1>11, <1>12 DEF E, N

(* The messages whose last byte is there, the one of an end at its rank. *)
LEMMA CompleteFields ==
  ASSUME NEW s \in Seq(Cells)
  PROVE  /\ Complete(s) \in Seq(Messages) /\ Len(Complete(s)) = Cardinality(Ends(s))
         /\ \A i \in Ends(s) : Complete(s)[Rank(s, i)] = s[i].place.message
<1>1. PICK N \in Nat : N = Cardinality(Ends(s))
  BY EndsFinite
<1>2. \A i \in 1 .. Len(s) : s[i].place.message \in Messages
  <2>1. ASSUME NEW i \in 1 .. Len(s)
        PROVE  s[i].place.message \in Messages
    <3>1. s[i] \in Cells
      BY ElementOfSeq
    <3>2. PICK m \in Messages : \E k \in 1 .. Size(m) : s[i] = Cell(m, k)
      BY <3>1, CellIs
    <3>3. PICK k \in 1 .. Size(m) : s[i] = Cell(m, k)
      BY <3>2
    <3> QED BY <3>3 DEF Cell, Place
  <2> QED BY <2>1
<1>3. Complete(s) = [n \in 1 .. N |-> s[End(s, n)].place.message]
  BY <1>1 DEF Complete
<1>4. \A n \in 1 .. N : s[End(s, n)].place.message \in Messages
  BY <1>1, <1>2, EndRanked, EndsFinite
<1>5. Complete(s) \in [1 .. N -> Messages]
  BY <1>3, <1>4
<1>6. Complete(s) \in Seq(Messages) /\ Len(Complete(s)) = N
  BY <1>5
<1>7. \A i \in Ends(s) : Complete(s)[Rank(s, i)] = s[i].place.message
  BY <1>1, <1>3, EndRanked
<1> QED
  BY <1>1, <1>6, <1>7

LEMMA CompleteIs ==
  ASSUME NEW s \in Seq(Cells), NEW q \in Seq(Messages), Len(q) = Cardinality(Ends(s)),
         \A i \in Ends(s) : q[Rank(s, i)] = s[i].place.message
  PROVE  Complete(s) = q
<1>1. Complete(s) \in Seq(Messages) /\ Len(Complete(s)) = Cardinality(Ends(s))
  BY CompleteFields
<1>2. \A n \in 1 .. Len(Complete(s)) : Complete(s)[n] = q[n]
  <2>1. ASSUME NEW n \in 1 .. Cardinality(Ends(s))
        PROVE  Complete(s)[n] = q[n]
    <3>1. End(s, n) \in Ends(s) /\ Rank(s, End(s, n)) = n
      BY EndRanked
    <3> QED BY <3>1, CompleteFields
  <2> QED BY <1>1, <2>1
<1> QED
  BY <1>1, <1>2, SeqEqual

LEMMA CompleteOfNone == Complete(<<>>) = <<>> /\ Ends(<<>>) = {}
<1>1. <<>> \in Seq(Cells) /\ <<>> \in Seq(Messages) /\ Len(<<>>) = 0
  OBVIOUS
<1>2. Ends(<<>>) = {}
  <2>1. Ends(<<>>) \subseteq 1 .. Len(<<>>)
    BY <1>1, EndsFinite
  <2>2. Ends(<<>>) \subseteq 1 .. 0
    BY <1>1, <2>1
  <2> QED BY <2>2
<1>3. Cardinality(Ends(<<>>)) = 0
  BY <1>2, FS_EmptySet
<1> QED
  BY <1>1, <1>2, <1>3, CompleteIs

LEMMA RankOfTail ==
  ASSUME NEW s \in Seq(Cells), s # <<>>, NEW t, t = Tail(s), NEW i \in 0 .. Len(t)
  PROVE  Rank(s, i + 1) = Rank(t, i) + (IF 1 \in Ends(s) THEN 1 ELSE 0)
<1> DEFINE S == {j \in Ends(s) : j <= i + 1}
           T == {j \in Ends(t) : j <= i}
<1>1. t \in Seq(Cells) /\ Len(t) = Len(s) - 1 /\ Len(s) \in Nat /\ \A j \in 1 .. Len(t) : t[j] = s[j + 1]
  BY HeadTailProperties, LenProperties
<1>2. /\ Ends(s) \subseteq 1 .. Len(s) /\ IsFiniteSet(Ends(s)) /\ DOMAIN s = 1 .. Len(s)
      /\ Ends(t) \subseteq 1 .. Len(t) /\ IsFiniteSet(Ends(t)) /\ DOMAIN t = 1 .. Len(t)
  BY <1>1, EndsFinite
<1>3. \A j \in 1 .. Len(t) : j \in Ends(t) <=> j + 1 \in Ends(s)
  BY <1>1, <1>2 DEF Ends
<1>4. IsFiniteSet(S) /\ IsFiniteSet(T)
  <2>1. S \in SUBSET Ends(s) /\ T \in SUBSET Ends(t)
    OBVIOUS
  <2> HIDE DEF S, T
  <2> QED BY <1>2, <2>1, FS_Subset
<1> DEFINE f == [j \in T |-> j + 1]
<1>5. f \in Bijection(T, S \ {1})
  <2>1. \A j \in T : j \in 1 .. Len(t) /\ j + 1 \in S \ {1}
    BY <1>2, <1>3
  <2>2. \A j \in S \ {1} : j - 1 \in T /\ (j - 1) + 1 = j
    <3>1. \A j \in S \ {1} : j - 1 \in 1 .. Len(t) /\ (j - 1) + 1 = j /\ j - 1 <= i
      BY <1>1, <1>2
    <3> QED BY <1>3, <3>1
  <2> HIDE DEF S, T
  <2>3. f \in [T -> S \ {1}]
    BY <2>1
  <2>4. \A j \in T, k \in T : f[j] = f[k] => j = k
    BY <2>1
  <2>5. \A k \in S \ {1} : \E j \in T : f[j] = k
    BY <2>2
  <2> QED BY <2>3, <2>4, <2>5 DEF Bijection, Injection, IsInjective, Surjection
<1>6. 1 \in S <=> 1 \in Ends(s)
  BY <1>1
<1>7. Rank(s, i + 1) = Cardinality(S) /\ Rank(t, i) = Cardinality(T)
  BY DEF Rank
<1> HIDE DEF S, T, f
<1>8. Cardinality(S \ {1}) = Cardinality(T)
  BY <1>4, <1>5, FS_Bijection DEF ExistsBijection
<1>9. Cardinality(S \ {1}) = (IF 1 \in S THEN Cardinality(S) - 1 ELSE Cardinality(S))
  BY <1>4, FS_RemoveElement
<1>10. Cardinality(S) \in Nat
  BY <1>4, FS_CardinalityType
<1> QED
  BY <1>6, <1>7, <1>8, <1>9, <1>10

(* A byte that is read takes its message away if it is the last one. *)
LEMMA CompleteOfTail ==
  ASSUME NEW s \in Seq(Cells), s # <<>>
  PROVE  /\ ~s[1].place.last => Complete(Tail(s)) = Complete(s)
         /\ s[1].place.last =>
              /\ Complete(s) # <<>> /\ Complete(s)[1] = s[1].place.message
              /\ Complete(Tail(s)) = Tail(Complete(s))
<1>1. PICK t : t = Tail(s)
  OBVIOUS
<1>2. t \in Seq(Cells) /\ Len(t) = Len(s) - 1 /\ \A j \in 1 .. Len(t) : t[j] = s[j + 1]
  BY <1>1, HeadTailProperties
<1>3. /\ Ends(t) \subseteq 1 .. Len(t) /\ Rank(s, Len(s)) = Cardinality(Ends(s))
      /\ Rank(t, Len(t)) = Cardinality(Ends(t)) /\ Cardinality(Ends(t)) \in Nat
      /\ DOMAIN s = 1 .. Len(s) /\ DOMAIN t = 1 .. Len(t) /\ Len(s) \in Nat /\ Len(t) \in Nat
  BY <1>2, EndsFinite
<1>4. \A i \in 0 .. Len(t) : Rank(s, i + 1) = Rank(t, i) + (IF 1 \in Ends(s) THEN 1 ELSE 0)
  BY <1>1, RankOfTail
<1>5. 1 \in Ends(s) <=> s[1].place.last
  <2>1. 1 \in 1 .. Len(s)
    BY <1>2, <1>3
  <2> QED BY <1>3, <2>1 DEF Ends
<1>6. Cardinality(Ends(s)) = Cardinality(Ends(t)) + (IF 1 \in Ends(s) THEN 1 ELSE 0)
  <2>1. Len(t) \in 0 .. Len(t) /\ Len(t) + 1 = Len(s)
    BY <1>2, <1>3
  <2> QED BY <1>3, <1>4, <2>1
<1>7. ASSUME NEW i \in Ends(t)
      PROVE  i \in 0 .. Len(t) /\ i + 1 \in Ends(s) /\ s[i + 1].place.message = t[i].place.message
             /\ Rank(t, i) \in 1 .. Cardinality(Ends(t))
  <2>1. i \in 1 .. Len(t) /\ i + 1 \in 1 .. Len(s) /\ t[i] = s[i + 1]
    BY <1>2, <1>3
  <2>2. i + 1 \in Ends(s)
    BY <1>3, <2>1 DEF Ends
  <2> QED BY <1>2, <2>1, <2>2, EndRanked
<1>8. /\ Complete(s) \in Seq(Messages) /\ Len(Complete(s)) = Cardinality(Ends(s))
      /\ \A i \in Ends(s) : Complete(s)[Rank(s, i)] = s[i].place.message
  BY CompleteFields
<1>9. CASE ~s[1].place.last
  <2>1. Len(Complete(s)) = Cardinality(Ends(t))
    BY <1>3, <1>5, <1>6, <1>8, <1>9
  <2>2. ASSUME NEW i \in Ends(t)
        PROVE  Complete(s)[Rank(t, i)] = t[i].place.message
    <3>1. Rank(s, i + 1) = Rank(t, i)
      BY <1>4, <1>5, <1>7, <1>9
    <3> QED BY <1>7, <1>8, <3>1
  <2>3. Complete(t) = Complete(s)
    BY <1>2, <1>8, <2>1, <2>2, CompleteIs
  <2> QED BY <1>1, <1>9, <2>3
<1>10. CASE s[1].place.last
  <2>1. Len(Complete(s)) = Cardinality(Ends(t)) + 1 /\ Complete(s) # <<>>
    <3>1. Len(Complete(s)) = Cardinality(Ends(t)) + 1
      BY <1>3, <1>5, <1>6, <1>8, <1>10
    <3> QED BY <1>3, <1>8, <3>1, EmptySeq
  <2>2. Complete(s)[1] = s[1].place.message
    <3>1. Rank(s, 0 + 1) = Rank(t, 0) + 1 /\ Rank(t, 0) = 0
      BY <1>2, <1>3, <1>4, <1>5, <1>10, EndsFinite
    <3>2. Rank(s, 1) = 1
      BY <3>1
    <3> QED BY <1>5, <1>8, <1>10, <3>2
  <2>3. PICK q : q = Tail(Complete(s))
    OBVIOUS
  <2>4. q \in Seq(Messages) /\ Len(q) = Cardinality(Ends(t))
        /\ \A n \in 1 .. Cardinality(Ends(t)) : q[n] = Complete(s)[n + 1]
    <3>1. q \in Seq(Messages) /\ Len(q) = Len(Complete(s)) - 1
          /\ \A n \in 1 .. Len(q) : q[n] = Complete(s)[n + 1]
      BY <1>8, <2>1, <2>3, HeadTailProperties
    <3>2. Len(q) = Cardinality(Ends(t))
      BY <1>3, <2>1, <3>1
    <3> QED BY <3>1, <3>2
  <2>5. ASSUME NEW i \in Ends(t)
        PROVE  q[Rank(t, i)] = t[i].place.message
    <3>1. Rank(s, i + 1) = Rank(t, i) + 1
      BY <1>4, <1>5, <1>7, <1>10
    <3>2. q[Rank(t, i)] = Complete(s)[Rank(t, i) + 1]
      BY <1>7, <2>4
    <3> QED BY <1>7, <1>8, <3>1, <3>2
  <2>6. Complete(t) = q
    BY <1>2, <2>4, <2>5, CompleteIs
  <2> QED BY <1>1, <1>10, <2>1, <2>2, <2>3, <2>6
<1> QED
  BY <1>9, <1>10

(* What tells the bytes of a message apart: only a sysex has the byte that begins it
   and the one that ends it, and only there; a command is no data byte. *)
BytesTold(m) ==
  /\ Size(m) \in Nat \ {0} /\ m.command \in 1 .. 255
  /\ \A i \in 1 .. Size(m) :
       /\ Marshal(m)[i] \in 0 .. 255
       /\ Marshal(m)[i] = START_SYSEX <=> IsSysex(m) /\ i = 1
       /\ Marshal(m)[i] = END_SYSEX <=> IsSysex(m) /\ i = Size(m)
       /\ Marshal(m)[i] >= 128 <=> i = 1 \/ (IsSysex(m) /\ i = Size(m))
  /\ Marshal(m)[1] \in {REPORT_VERSION, SYSTEM_RESET} => Size(m) = 1
  /\ IsSysex(m) \/ Size(m) <= 3

LEMMA MessageBytes ==
  ASSUME NEW m \in Messages
  PROVE  BytesTold(m)
<1>0. END_SYSEX = 247 /\ START_SYSEX = 240 /\ REPORT_VERSION = 249 /\ SYSTEM_RESET = 255
  BY CommandNumbers
<1>1. ASSUME NEW command \in Wide, NEW channel \in 0 .. 15, NEW v \in Bits14,
             m = Message(command, channel, <<v>>)
      PROVE  BytesTold(m)
  <2>1. command \in 1 .. 239 /\ command + channel \in 128 .. 239 /\ m.command = command
    BY <1>1, CommandNumbers, MessageFields
  <2>2. PICK b, c : b = Low(v) /\ c = High(v)
    OBVIOUS
  <2>3. b \in 0 .. 127 /\ c \in 0 .. 127
    BY <2>2, SevenBits DEF Bits7
  <2>4. Marshal(m) = <<command + channel, b, c>>
    BY <1>1, <2>2, WideWritten
  <2>5. Size(m) = 3 /\ Marshal(m)[1] = command + channel /\ Marshal(m)[2] = b /\ Marshal(m)[3] = c
    BY <2>4 DEF Size
  <2> QED BY <1>0, <2>1, <2>3, <2>5 DEF BytesTold, IsSysex
<1>2. ASSUME NEW command \in OneByte, NEW channel \in 0 .. 15, NEW b \in Bits7,
             m = Message(command, channel, <<b>>)
      PROVE  BytesTold(m)
  <2>1. /\ command \in 1 .. 239 /\ command + channel \in 128 .. 239 /\ m.command = command
        /\ b \in 0 .. 127
    BY <1>2, CommandNumbers, MessageFields DEF Bits7
  <2>2. Marshal(m) = <<command + channel, b>>
    BY <1>2, OneByteWritten
  <2>3. Size(m) = 2 /\ Marshal(m)[1] = command + channel /\ Marshal(m)[2] = b
    BY <2>2 DEF Size
  <2> QED BY <1>0, <2>1, <2>3 DEF BytesTold, IsSysex
<1>3. ASSUME NEW command \in TwoBytes \ Wide, NEW b \in Bits7, NEW c \in Bits7,
             m = Message(command, 0, <<b, c>>)
      PROVE  BytesTold(m)
  <2>1. command \in {244, 245} /\ m.command = command /\ b \in 0 .. 127 /\ c \in 0 .. 127
    BY <1>3, CommandNumbers, MessageFields DEF Bits7
  <2>2. Marshal(m) = <<command, b, c>>
    BY <1>3, PinWritten
  <2>3. Size(m) = 3 /\ Marshal(m)[1] = command /\ Marshal(m)[2] = b /\ Marshal(m)[3] = c
    BY <2>2 DEF Size
  <2> QED BY <1>0, <2>1, <2>3 DEF BytesTold, IsSysex
<1>4. ASSUME NEW command \in {REPORT_VERSION, SYSTEM_RESET}, m = Message(command, 0, <<>>)
      PROVE  BytesTold(m)
  <2>1. command \in {249, 255} /\ m.command = command
    BY <1>4, CommandNumbers, MessageFields
  <2>2. Marshal(m) = <<command>>
    BY <1>4, BareWritten
  <2>3. Size(m) = 1 /\ Marshal(m)[1] = command
    <3>1. Len(<<command>>) = 1 /\ <<command>>[1] = command
      OBVIOUS
    <3> QED BY <2>2, <3>1 DEF Size
  <2> QED BY <1>0, <2>1, <2>3 DEF BytesTold, IsSysex
<1>5. ASSUME NEW args \in SysexArgs, m = Message(START_SYSEX, 0, args)
      PROVE  BytesTold(m)
  <2>1. m.command = 240 /\ IsSysex(m)
    BY <1>0, <1>5, MessageFields DEF IsSysex
  <2>2. PICK bytes : bytes = Marshal(m)
    OBVIOUS
  <2>3. /\ Len(bytes) = 2 * Len(args) + 1 /\ bytes[1] = START_SYSEX
        /\ bytes[Len(bytes)] = END_SYSEX
        /\ \A k \in 2 .. Len(bytes) - 1 : bytes[k] \in 0 .. 127
    <3>1. SysexBytes(args, bytes)
      BY <1>5, <2>2, SysexWritten
    <3> QED BY <3>1 DEF SysexBytes
  <2>4. PICK n \in Nat : n = Len(args) /\ n # 0
    BY SysexArgsTyped
  <2>5. PICK size \in Nat : size = 2 * n + 1
    OBVIOUS
  <2>6. Len(bytes) = size /\ Size(m) = size /\ size >= 3
    BY <2>2, <2>3, <2>4, <2>5 DEF Size
  <2>7. /\ bytes[1] = 240 /\ bytes[size] = 247
        /\ \A k \in 2 .. size - 1 : bytes[k] \in 0 .. 127
    BY <1>0, <2>3, <2>6
  <2>8. ASSUME NEW i \in 1 .. size
        PROVE  /\ bytes[i] \in 0 .. 255 /\ (bytes[i] = 240 <=> i = 1) /\ (bytes[i] = 247 <=> i = size)
               /\ (bytes[i] >= 128 <=> i = 1 \/ i = size)
    <3>1. i = 1 \/ i \in 2 .. size - 1 \/ i = size
      OBVIOUS
    <3>2. CASE i = 1
      BY <2>6, <2>7, <3>2
    <3>3. CASE i \in 2 .. size - 1
      <4>1. bytes[i] \in 0 .. 127 /\ i # 1 /\ i # size
        BY <2>7, <3>3
      <4> QED BY <4>1
    <3>4. CASE i = size
      BY <2>6, <2>7, <3>4
    <3> QED BY <3>1, <3>2, <3>3, <3>4
  <2>9. Marshal(m)[1] \notin {REPORT_VERSION, SYSTEM_RESET}
    BY <1>0, <2>2, <2>7
  <2> QED BY <1>0, <2>1, <2>2, <2>6, <2>8, <2>9 DEF BytesTold
<1> QED
  BY <1>1, <1>2, <1>3, <1>4, <1>5, MessageKinds

LEMMA CellFields ==
  ASSUME NEW b \in Cells
  PROVE  \E m \in Messages : \E i \in 1 .. Size(m) :
           /\ b = Cell(m, i) /\ b.byte = Marshal(m)[i] /\ b.place = Place(m, i)
           /\ b.place.message = m /\ b.place.at = i /\ (b.place.last <=> i = Size(m))
<1>1. PICK m \in Messages : \E i \in 1 .. Size(m) : b = Cell(m, i)
  BY CellIs
<1>2. PICK i \in 1 .. Size(m) : b = Cell(m, i)
  BY <1>1
<1>3. /\ b.byte = Marshal(m)[i] /\ b.place = Place(m, i)
      /\ b.place.message = m /\ b.place.at = i /\ (b.place.last <=> i = Size(m))
  BY <1>2 DEF Cell, Place
<1> QED
  BY <1>2, <1>3

LEMMA WrittenFields ==
  ASSUME NEW m \in Messages
  PROVE  /\ Written[m] \in Seq(Cells) /\ Len(Written[m]) = Size(m) /\ Size(m) \in Nat \ {0}
         /\ \A i \in 1 .. Size(m) : Written[m][i] = Cell(m, i)
<1>1. Marshal(m) \in Seq(0 .. 255) /\ Size(m) \in Nat \ {0} /\ DOMAIN Marshal(m) = 1 .. Size(m)
  BY MarshalTyped, MessageBytes, LenProperties DEF Size, BytesTold
<1>2. PICK size \in Nat : size = Size(m)
  BY <1>1
<1>3. Written[m] = [i \in 1 .. size |-> Cell(m, i)]
  BY <1>1, <1>2 DEF Written, Cell, Place, Size
<1>4. \A i \in 1 .. size : Cell(m, i) \in Cells
  BY <1>2 DEF Cells, Cell
<1>5. Written[m] \in [1 .. size -> Cells]
  BY <1>3, <1>4
<1>6. Len(Written[m]) = size
  BY <1>5
<1> QED
  BY <1>1, <1>2, <1>3, <1>6, WrittenTyped

LEMMA CompleteOfSent ==
  ASSUME NEW s \in Seq(Cells), NEW m \in Messages
  PROVE  Complete(s \o Written[m]) = Append(Complete(s), m)
<1>1. PICK w \in Seq(Cells) : w = Written[m]
  BY WrittenFields
<1>2. PICK size \in Nat \ {0} : size = Size(m)
  BY WrittenFields
<1>3. Len(w) = size /\ \A i \in 1 .. size : w[i].place.message = m /\ (w[i].place.last <=> i = size)
  <2>1. Len(w) = size /\ \A i \in 1 .. size : w[i] = Cell(m, i)
    BY <1>1, <1>2, WrittenFields
  <2>2. \A i : Cell(m, i).place.message = m /\ (Cell(m, i).place.last <=> i = size)
    BY <1>2 DEF Cell, Place
  <2> QED BY <2>1, <2>2
<1>4. PICK n \in Nat : n = Len(s)
  BY LenProperties
<1>5. PICK t : t = s \o w
  OBVIOUS
<1>6. t \in Seq(Cells) /\ Len(t) = n + size
      /\ \A i \in 1 .. n + size : t[i] = IF i <= n THEN s[i] ELSE w[i - n]
  <2>1. /\ t \in Seq(Cells) /\ Len(t) = Len(s) + Len(w)
        /\ \A i \in 1 .. Len(s) + Len(w) : t[i] = IF i <= Len(s) THEN s[i] ELSE w[i - Len(s)]
    BY <1>5, ConcatProperties
  <2>2. Len(w) = size
    BY <1>3
  <2> QED BY <1>4, <2>1, <2>2
<1>7. /\ Ends(s) \subseteq 1 .. n /\ IsFiniteSet(Ends(s)) /\ DOMAIN s = 1 .. n
      /\ DOMAIN t = 1 .. n + size
  BY <1>4, <1>6, EndsFinite
<1>8. Ends(t) = Ends(s) \cup {n + size}
  <2>1. \A i \in 1 .. n : t[i] = s[i] /\ i \in 1 .. n + size
    BY <1>6
  <2>2. \A i \in 1 .. n + size : i \notin 1 .. n => i - n \in 1 .. size /\ t[i] = w[i - n]
    BY <1>6
  <2>3. \A i \in 1 .. n + size : i \notin 1 .. n => (t[i].place.last <=> i = n + size)
    <3>1. \A i \in 1 .. n + size : (i - n = size) <=> (i = n + size)
      OBVIOUS
    <3> QED BY <1>3, <2>2, <3>1
  <2>4. n + size \in 1 .. n + size /\ n + size \notin 1 .. n
    OBVIOUS
  <2> QED BY <1>7, <2>1, <2>3, <2>4 DEF Ends
<1>9. t[n + size].place.message = m
  <2>1. n + size \in 1 .. n + size /\ ~(n + size <= n) /\ (n + size) - n = size /\ size \in 1 .. size
    OBVIOUS
  <2> QED BY <1>3, <1>6, <2>1
<1>10. n + size \notin Ends(s)
  BY <1>7
<1>11. Cardinality(Ends(t)) = Cardinality(Ends(s)) + 1
  BY <1>7, <1>8, <1>10, FS_AddElement
<1>12. \A i \in Ends(s) : Rank(t, i) = Rank(s, i) /\ i \in 1 .. n
  <2>1. ASSUME NEW i \in Ends(s)
        PROVE  {j \in Ends(t) : j <= i} = {j \in Ends(s) : j <= i}
    BY <1>7, <1>8
  <2> QED BY <1>7, <2>1 DEF Rank
<1>13. Rank(t, n + size) = Cardinality(Ends(s)) + 1
  BY <1>6, <1>11, EndsFinite
<1>14. /\ Complete(s) \in Seq(Messages) /\ Len(Complete(s)) = Cardinality(Ends(s))
       /\ \A i \in Ends(s) : Complete(s)[Rank(s, i)] = s[i].place.message
  BY CompleteFields
<1>15. PICK q : q = Append(Complete(s), m)
  OBVIOUS
<1>16. /\ q \in Seq(Messages) /\ Len(q) = Cardinality(Ends(s)) + 1
       /\ q[Cardinality(Ends(s)) + 1] = m
       /\ \A k \in 1 .. Cardinality(Ends(s)) : q[k] = Complete(s)[k]
  BY <1>14, <1>15, AppendProperties
<1>17. ASSUME NEW i \in Ends(t)
       PROVE  q[Rank(t, i)] = t[i].place.message
  <2>1. CASE i = n + size
    BY <1>9, <1>13, <1>16, <2>1
  <2>2. CASE i # n + size
    <3>1. i \in Ends(s)
      BY <1>8, <2>2
    <3>2. Rank(s, i) \in 1 .. Cardinality(Ends(s))
      BY <3>1, EndRanked
    <3>3. t[i] = s[i]
      BY <1>6, <1>12, <3>1
    <3> QED BY <1>12, <1>14, <1>16, <3>1, <3>2, <3>3
  <2> QED BY <2>1, <2>2
<1>18. Complete(t) = q
  BY <1>6, <1>11, <1>16, <1>17, CompleteIs
<1> QED
  BY <1>1, <1>5, <1>15, <1>18

LEMMA CompleteOfPrefix ==
  ASSUME NEW s \in Seq(Cells), NEW n \in 0 .. Len(s)
  PROVE  /\ SubSeq(s, 1, n) \in Seq(Cells) /\ Len(SubSeq(s, 1, n)) = n
         /\ \A i \in 1 .. n : SubSeq(s, 1, n)[i] = s[i]
         /\ Rank(s, n) \in 0 .. Len(Complete(s))
         /\ Complete(SubSeq(s, 1, n)) = SubSeq(Complete(s), 1, Rank(s, n))
<1>1. PICK t : t = SubSeq(s, 1, n)
  OBVIOUS
<1>2. Len(s) \in Nat /\ n \in Nat /\ n <= Len(s) /\ \A i \in 1 .. n : s[i] \in Cells
  BY LenProperties, ElementOfSeq
<1>3. t \in Seq(Cells) /\ Len(t) = n /\ \A i \in 1 .. n : t[i] = s[i]
  <2>1. /\ t \in Seq(Cells) /\ Len(t) = (IF 1 <= n THEN n - 1 + 1 ELSE 0)
        /\ \A i \in 1 .. n - 1 + 1 : t[i] = s[1 + i - 1]
    BY <1>1, <1>2, SubSeqProperties
  <2>2. n - 1 + 1 = n /\ (IF 1 <= n THEN n - 1 + 1 ELSE 0) = n /\ \A i \in 1 .. n : 1 + i - 1 = i
    BY <1>2
  <2> QED BY <2>1, <2>2
<1>4. Ends(t) = {j \in Ends(s) : j <= n}
  <2>1. DOMAIN t = 1 .. n /\ DOMAIN s = 1 .. Len(s)
    BY <1>3, EndsFinite
  <2>2. \A j \in 1 .. Len(s) : j <= n <=> j \in 1 .. n
    BY <1>2
  <2>3. \A j \in 1 .. n : j \in 1 .. Len(s)
    BY <1>2
  <2> QED BY <1>3, <2>1, <2>2, <2>3 DEF Ends
<1>5. Cardinality(Ends(t)) = Rank(s, n)
  BY <1>4 DEF Rank
<1>6. \A i \in Ends(t) : Rank(t, i) = Rank(s, i) /\ i \in Ends(s) /\ i \in 1 .. n
  <2>1. ASSUME NEW i \in Ends(t)
        PROVE  {j \in Ends(t) : j <= i} = {j \in Ends(s) : j <= i} /\ i \in 1 .. n
    <3>1. i \in 1 .. n /\ Ends(s) \subseteq Nat
      BY <1>3, EndsFinite
    <3> QED BY <1>2, <1>4, <3>1
  <2> QED BY <1>4, <2>1 DEF Rank
<1>7. /\ Complete(s) \in Seq(Messages) /\ Len(Complete(s)) = Cardinality(Ends(s))
      /\ \A i \in Ends(s) : Complete(s)[Rank(s, i)] = s[i].place.message
  BY CompleteFields
<1>8. PICK k \in 0 .. Len(Complete(s)) : k = Rank(s, n)
  BY <1>2, <1>7, RankGrows
<1>9. PICK q : q = SubSeq(Complete(s), 1, k)
  OBVIOUS
<1>10. q \in Seq(Messages) /\ Len(q) = k /\ \A i \in 1 .. k : q[i] = Complete(s)[i]
  <2>0. Len(Complete(s)) \in Nat /\ k \in Nat /\ k <= Len(Complete(s))
        /\ \A i \in 1 .. k : Complete(s)[i] \in Messages
    BY <1>7, <1>8, LenProperties, ElementOfSeq
  <2>1. /\ q \in Seq(Messages) /\ Len(q) = (IF 1 <= k THEN k - 1 + 1 ELSE 0)
        /\ \A i \in 1 .. k - 1 + 1 : q[i] = Complete(s)[1 + i - 1]
    <3>1. PICK c : c = Complete(s)
      OBVIOUS
    <3>2. k \in Int /\ 1 \in Int /\ \A i \in 1 .. k : c[i] \in Messages
      BY <2>0, <3>1
    <3> QED BY <1>9, <3>1, <3>2, SubSeqProperties
  <2>2. k - 1 + 1 = k /\ (IF 1 <= k THEN k - 1 + 1 ELSE 0) = k /\ \A i \in 1 .. k : 1 + i - 1 = i
    BY <2>0
  <2> QED BY <2>1, <2>2
<1>11. ASSUME NEW i \in Ends(t)
       PROVE  q[Rank(t, i)] = t[i].place.message
  <2>1. Rank(t, i) \in 1 .. k
    BY <1>3, <1>5, <1>8, EndRanked
  <2> QED BY <1>3, <1>6, <1>7, <1>10, <2>1
<1>12. Complete(t) = q
  BY <1>3, <1>5, <1>8, <1>10, <1>11, CompleteIs
<1> QED
  BY <1>1, <1>3, <1>8, <1>9, <1>12

-----------------------------------------------------------------------------
(* The bytes under way are those of one message after the other. *)
Chained(s) ==
  /\ \A i, j \in DOMAIN s :
       i <= j /\ (\A l \in i .. j - 1 : ~s[l].place.last)
         => s[j].place.message = s[i].place.message /\ s[j].place.at = s[i].place.at + (j - i)
  /\ \A i \in DOMAIN s : i + 1 \in DOMAIN s /\ s[i].place.last => s[i + 1].place.at = 1

LEMMA NoneChained == Chained(<<>>)
BY DEF Chained

LEMMA PrefixChained ==
  ASSUME NEW s \in Seq(Cells), Chained(s), NEW n \in 0 .. Len(s)
  PROVE  Chained(SubSeq(s, 1, n))
<1>1. PICK t : t = SubSeq(s, 1, n)
  OBVIOUS
<1>2. t \in Seq(Cells) /\ Len(t) = n /\ \A i \in 1 .. n : t[i] = s[i]
  BY <1>1, CompleteOfPrefix
<1>3. DOMAIN t = 1 .. n /\ DOMAIN s = 1 .. Len(s) /\ Len(s) \in Nat
  BY <1>2, LenProperties
<1>4. \A i \in 1 .. n : i \in 1 .. Len(s)
  BY <1>3
<1>5. ASSUME NEW i \in 1 .. n, NEW j \in 1 .. n, i <= j, \A l \in i .. j - 1 : ~t[l].place.last
      PROVE  t[j].place.message = t[i].place.message /\ t[j].place.at = t[i].place.at + (j - i)
  <2>1. \A l \in i .. j - 1 : l \in 1 .. n
    OBVIOUS
  <2>2. \A l \in i .. j - 1 : ~s[l].place.last
    BY <1>2, <1>5, <2>1
  <2>3. s[j].place.message = s[i].place.message /\ s[j].place.at = s[i].place.at + (j - i)
    BY <1>3, <1>4, <1>5, <2>2 DEF Chained
  <2> QED BY <1>2, <2>3
<1>6. \A i \in 1 .. n : i + 1 \in 1 .. n /\ t[i].place.last => t[i + 1].place.at = 1
  BY <1>2, <1>3, <1>4 DEF Chained
<1> QED
  BY <1>1, <1>3, <1>5, <1>6 DEF Chained

LEMMA TailChained ==
  ASSUME NEW s \in Seq(Cells), s # <<>>, Chained(s)
  PROVE  Chained(Tail(s))
<1>1. PICK t : t = Tail(s)
  OBVIOUS
<1>2. t \in Seq(Cells) /\ Len(t) = Len(s) - 1 /\ \A i \in 1 .. Len(t) : t[i] = s[i + 1]
  BY <1>1, HeadTailProperties
<1>3. DOMAIN t = 1 .. Len(t) /\ DOMAIN s = 1 .. Len(s) /\ Len(s) \in Nat /\ Len(t) \in Nat
  BY <1>2, LenProperties
<1>4. \A i \in 1 .. Len(t) : i + 1 \in 1 .. Len(s)
  BY <1>2, <1>3
<1>5. ASSUME NEW i \in 1 .. Len(t), NEW j \in 1 .. Len(t), i <= j, \A l \in i .. j - 1 : ~t[l].place.last
      PROVE  t[j].place.message = t[i].place.message /\ t[j].place.at = t[i].place.at + (j - i)
  <2>1. \A l \in i + 1 .. (j + 1) - 1 : l - 1 \in i .. j - 1 /\ l - 1 \in 1 .. Len(t) /\ (l - 1) + 1 = l
    BY <1>3
  <2>2. \A l \in i + 1 .. (j + 1) - 1 : ~s[l].place.last
    BY <1>2, <1>5, <2>1
  <2>3. i + 1 <= j + 1 /\ (j + 1) - (i + 1) = j - i
    BY <1>5
  <2>4. s[j + 1].place.message = s[i + 1].place.message
        /\ s[j + 1].place.at = s[i + 1].place.at + ((j + 1) - (i + 1))
    BY <1>3, <1>4, <2>2, <2>3 DEF Chained
  <2> QED BY <1>2, <2>3, <2>4
<1>6. \A i \in 1 .. Len(t) : i + 1 \in 1 .. Len(t) /\ t[i].place.last => t[i + 1].place.at = 1
  BY <1>2, <1>3, <1>4 DEF Chained
<1> QED
  BY <1>1, <1>3, <1>5, <1>6 DEF Chained

LEMMA SentChained ==
  ASSUME NEW s \in Seq(Cells), Chained(s), s = <<>> \/ s[Len(s)].place.last, NEW m \in Messages
  PROVE  /\ Chained(s \o Written[m]) /\ s \o Written[m] \in Seq(Cells)
         /\ s \o Written[m] # <<>> /\ (s \o Written[m])[Len(s \o Written[m])].place.last
         /\ (s \o Written[m])[1] = IF s = <<>> THEN Cell(m, 1) ELSE s[1]
<1>1. PICK w \in Seq(Cells) : w = Written[m]
  BY WrittenFields
<1>2. PICK size \in Nat \ {0} : size = Size(m)
  BY WrittenFields
<1>3. Len(w) = size /\ \A i \in 1 .. size : w[i] = Cell(m, i)
  BY <1>1, <1>2, WrittenFields
<1>4. PICK n \in Nat : n = Len(s)
  BY LenProperties
<1>5. PICK t : t = s \o w
  OBVIOUS
<1>6. t \in Seq(Cells) /\ Len(t) = n + size
      /\ (\A i \in 1 .. n : t[i] = s[i]) /\ (\A i \in n + 1 .. n + size : t[i] = Cell(m, i - n))
  <2>1. /\ t \in Seq(Cells) /\ Len(t) = Len(s) + Len(w)
        /\ \A i \in 1 .. Len(s) + Len(w) : t[i] = IF i <= Len(s) THEN s[i] ELSE w[i - Len(s)]
    BY <1>5, ConcatProperties
  <2>2. Len(t) = n + size /\ \A i \in 1 .. n + size : t[i] = IF i <= n THEN s[i] ELSE w[i - n]
    BY <1>3, <1>4, <2>1
  <2>3. \A i \in 1 .. n : i \in 1 .. n + size /\ i <= n
    OBVIOUS
  <2>4. \A i \in n + 1 .. n + size : i \in 1 .. n + size /\ ~(i <= n) /\ i - n \in 1 .. size
    OBVIOUS
  <2> QED BY <1>3, <2>1, <2>2, <2>3, <2>4
<1>7. DOMAIN t = 1 .. n + size /\ DOMAIN s = 1 .. n
  BY <1>4, <1>6, LenProperties
<1>8. \A i : Cell(m, i).place.message = m /\ Cell(m, i).place.at = i /\ (Cell(m, i).place.last <=> i = size)
  BY <1>2 DEF Cell, Place
<1>9. n # 0 => t[n].place.last
  <2>1. n # 0 => s # <<>> /\ n \in 1 .. n
    BY <1>4
  <2> QED BY <1>4, <1>6, <2>1
<1>10. ASSUME NEW i \in 1 .. n + size, NEW j \in 1 .. n + size, i <= j,
              \A l \in i .. j - 1 : ~t[l].place.last
       PROVE  t[j].place.message = t[i].place.message /\ t[j].place.at = t[i].place.at + (j - i)
  <2>1. CASE j <= n
    <3>1. i \in 1 .. n /\ j \in 1 .. n /\ \A l \in i .. j - 1 : l \in 1 .. n
      BY <1>10, <2>1
    <3>2. \A l \in i .. j - 1 : ~s[l].place.last
      BY <1>6, <1>10, <3>1
    <3>3. s[j].place.message = s[i].place.message /\ s[j].place.at = s[i].place.at + (j - i)
      BY <1>7, <1>10, <3>1, <3>2 DEF Chained
    <3> QED BY <1>6, <3>1, <3>3
  <2>2. CASE i > n
    <3>1. i \in n + 1 .. n + size /\ j \in n + 1 .. n + size /\ j - n = (i - n) + (j - i)
      BY <1>10, <2>2
    <3> QED BY <1>6, <1>8, <3>1
  <2>3. CASE i <= n /\ j > n
    <3>1. n # 0 /\ n \in i .. j - 1
      BY <2>3
    <3> QED BY <1>9, <1>10, <3>1
  <2> QED BY <2>1, <2>2, <2>3
<1>11. ASSUME NEW i \in 1 .. n + size, i + 1 \in 1 .. n + size, t[i].place.last
       PROVE  t[i + 1].place.at = 1
  <2>1. CASE i < n
    <3>1. i \in 1 .. n /\ i + 1 \in 1 .. n
      BY <2>1
    <3> QED BY <1>6, <1>7, <1>11, <3>1 DEF Chained
  <2>2. CASE i = n
    <3>1. i + 1 \in n + 1 .. n + size /\ (i + 1) - n = 1
      BY <2>2
    <3> QED BY <1>6, <1>8, <3>1
  <2>3. CASE i > n
    <3>1. i \in n + 1 .. n + size /\ i - n # size
      BY <1>11, <2>3
    <3> QED BY <1>6, <1>8, <1>11, <3>1
  <2> QED BY <2>1, <2>2, <2>3
<1>12. Chained(t)
  BY <1>7, <1>10, <1>11 DEF Chained
<1>13. t # <<>> /\ t[n + size].place.last
  <2>1. n + size \in n + 1 .. n + size /\ (n + size) - n = size /\ n + size # 0
    OBVIOUS
  <2> QED BY <1>6, <1>8, <2>1
<1>14. t[1] = IF s = <<>> THEN Cell(m, 1) ELSE s[1]
  <2>1. CASE s = <<>>
    <3>1. n = 0 /\ 1 \in n + 1 .. n + size /\ 1 - n = 1
      BY <1>4, <2>1
    <3> QED BY <1>6, <2>1, <3>1
  <2>2. CASE s # <<>>
    <3>1. 1 \in 1 .. n
      BY <1>4, <2>2, EmptySeq
    <3> QED BY <1>6, <2>2, <3>1
  <2> QED BY <2>1, <2>2
<1> QED
  BY <1>1, <1>5, <1>6, <1>12, <1>13, <1>14

(* A byte belongs to the next of the messages that are complete, if there is one,
   and else to the one torn at the end. *)
LEMMA NextComplete ==
  ASSUME NEW s \in Seq(Cells), Chained(s), NEW j \in 1 .. Len(s)
  PROVE  /\ Rank(s, j - 1) \in 0 .. Len(Complete(s))
         /\ Rank(s, j - 1) < Len(Complete(s)) => Complete(s)[Rank(s, j - 1) + 1] = s[j].place.message
         /\ Rank(s, j - 1) = Len(Complete(s)) =>
              s[Len(s)].place.message = s[j].place.message /\ ~s[Len(s)].place.last
<1>1. PICK N \in Nat : N = Cardinality(Ends(s))
  BY EndsFinite
<1>2. /\ Len(Complete(s)) = N
      /\ \A i \in Ends(s) : Complete(s)[Rank(s, i)] = s[i].place.message
  BY <1>1, CompleteFields
<1>3. DOMAIN s = 1 .. Len(s) /\ Len(s) \in Nat /\ j - 1 \in Nat /\ Ends(s) \subseteq 1 .. Len(s)
  BY EndsFinite
<1>4. PICK k \in 0 .. N : k = Rank(s, j - 1)
  BY <1>1, <1>3, RankGrows
<1>5. ASSUME NEW l \in Ends(s), j - 1 < l
      PROVE  k < Rank(s, l) /\ Rank(s, l) \in 1 .. N
  <2>1. Rank(s, l) \in 1 .. N
    BY <1>1, EndRanked
  <2> QED BY <1>3, <1>4, <1>5, <2>1, RankGrows
<1>6. ASSUME k < N
      PROVE  Complete(s)[k + 1] = s[j].place.message
  <2>1. k + 1 \in 1 .. N
    BY <1>6
  <2>2. PICK e : e \in Ends(s) /\ Rank(s, e) = k + 1
    BY <1>1, <2>1, EndRanked
  <2>3. e \in 1 .. Len(s) /\ e \in Nat
    BY <1>3, <2>2
  <2>4. j - 1 < e
    <3>1. SUFFICES ASSUME e <= j - 1 PROVE FALSE
      BY <1>3, <2>3
    <3>2. Rank(s, e) <= Rank(s, j - 1)
      BY <1>3, <2>3, <3>1, RankGrows
    <3> QED BY <1>4, <2>2, <3>2
  <2>5. ASSUME NEW l \in j .. e - 1
        PROVE  ~s[l].place.last
    <3>1. l \in 1 .. Len(s) /\ j - 1 < l /\ l < e /\ l \in Nat
      BY <1>3, <2>3
    <3>2. SUFFICES ASSUME l \in Ends(s) PROVE FALSE
      BY <1>3, <3>1 DEF Ends
    <3>3. k < Rank(s, l) /\ Rank(s, l) \in 1 .. N
      BY <1>5, <3>1, <3>2
    <3>4. Rank(s, l) < Rank(s, e)
      BY <2>2, <3>1, RankGrows
    <3> QED BY <2>2, <3>3, <3>4
  <2>6. j <= e
    BY <2>3, <2>4
  <2>7. s[e].place.message = s[j].place.message
    BY <1>3, <2>3, <2>5, <2>6 DEF Chained
  <2> QED BY <1>2, <2>2, <2>7
<1>7. ASSUME k = N
      PROVE  s[Len(s)].place.message = s[j].place.message /\ ~s[Len(s)].place.last
  <2>1. ASSUME NEW l \in j .. Len(s)
        PROVE  ~s[l].place.last
    <3>1. l \in 1 .. Len(s) /\ j - 1 < l
      BY <1>3
    <3>2. SUFFICES ASSUME l \in Ends(s) PROVE FALSE
      BY <1>3, <3>1 DEF Ends
    <3>3. k < Rank(s, l) /\ Rank(s, l) \in 1 .. N
      BY <1>5, <3>1, <3>2
    <3> QED BY <1>7, <3>3
  <2>2. j <= Len(s) /\ Len(s) \in 1 .. Len(s) /\ Len(s) \in j .. Len(s)
        /\ \A l \in j .. Len(s) - 1 : l \in j .. Len(s)
    BY <1>3
  <2>3. s[Len(s)].place.message = s[j].place.message
    BY <1>3, <2>1, <2>2 DEF Chained
  <2> QED BY <2>1, <2>2, <2>3
<1> QED
  BY <1>2, <1>4, <1>6, <1>7

-----------------------------------------------------------------------------
(* The queue of MessageChannel: what is under way, between a sysex torn before it
   and one torn behind it. *)
Torn(x) == IF x = 1 THEN <<Nothing>> ELSE <<>>

Between(x, q, z) == Torn(x) \o q \o Torn(z)

Entries == Messages \cup {Nothing}

LEMMA TornFields ==
  ASSUME NEW z \in 0 .. 1
  PROVE  /\ Torn(z) \in Seq(Entries) /\ Len(Torn(z)) = z
         /\ \A i \in 1 .. z : Torn(z)[i] = Nothing
<1>1. Nothing \in Entries
  BY DEF Entries
<1>2. <<Nothing>> \in Seq(Entries) /\ Len(<<Nothing>>) = 1 /\ <<Nothing>>[1] = Nothing
      /\ <<>> \in Seq(Entries) /\ Len(<<>>) = 0
  BY <1>1
<1> QED
  BY <1>2 DEF Torn

LEMMA BetweenFields ==
  ASSUME NEW x \in 0 .. 1, NEW z \in 0 .. 1, NEW q \in Seq(Messages)
  PROVE  /\ Between(x, q, z) \in Seq(Entries) /\ Len(q) \in Nat
         /\ Len(Between(x, q, z)) = x + Len(q) + z
         /\ \A i \in 1 .. x : Between(x, q, z)[i] = Nothing
         /\ \A i \in 1 .. Len(q) : Between(x, q, z)[x + i] = q[i]
         /\ \A i \in 1 .. z : Between(x, q, z)[x + Len(q) + i] = Nothing
<1>1. /\ Torn(x) \in Seq(Entries) /\ Len(Torn(x)) = x /\ x \in 0 .. 1
      /\ \A i \in 1 .. x : Torn(x)[i] = Nothing
  BY TornFields
<1>2. /\ Torn(z) \in Seq(Entries) /\ Len(Torn(z)) = z /\ z \in 0 .. 1
      /\ \A i \in 1 .. z : Torn(z)[i] = Nothing
  BY TornFields
<1>3. q \in Seq(Entries) /\ Len(q) \in Nat
  <2>1. Messages \subseteq Entries
    BY DEF Entries
  <2> QED BY <2>1, SeqMonotonic, LenProperties
<1>4. PICK t : t = Torn(x) \o q
  OBVIOUS
<1>5. /\ t \in Seq(Entries) /\ Len(t) = x + Len(q)
      /\ \A i \in 1 .. x + Len(q) : t[i] = IF i <= x THEN Torn(x)[i] ELSE q[i - x]
  BY <1>1, <1>3, <1>4, ConcatProperties
<1>6. PICK u : u = t \o Torn(z)
  OBVIOUS
<1>7. /\ u \in Seq(Entries) /\ Len(u) = x + Len(q) + z
      /\ \A i \in 1 .. x + Len(q) + z :
           u[i] = IF i <= x + Len(q) THEN t[i] ELSE Torn(z)[i - (x + Len(q))]
  <2>1. /\ u \in Seq(Entries) /\ Len(u) = Len(t) + Len(Torn(z))
        /\ \A i \in 1 .. Len(t) + Len(Torn(z)) :
             u[i] = IF i <= Len(t) THEN t[i] ELSE Torn(z)[i - Len(t)]
    BY <1>2, <1>5, <1>6, ConcatProperties
  <2> QED BY <1>2, <1>5, <2>1
<1>8. u = Between(x, q, z)
  BY <1>4, <1>6 DEF Between
<1>9. PICK n : n = Len(q)
  OBVIOUS
<1>10. x \in Nat /\ n \in Nat /\ z \in Nat
  BY <1>3, <1>9
<1>11. \A i \in 1 .. x : i \in 1 .. x + n + z /\ i \in 1 .. x + n /\ i <= x /\ i <= x + n
  BY <1>10
<1>12. \A i \in 1 .. n : x + i \in 1 .. x + n + z /\ x + i \in 1 .. x + n
         /\ ~(x + i <= x) /\ x + i <= x + n /\ (x + i) - x = i
  BY <1>10
<1>13. \A i \in 1 .. z : x + n + i \in 1 .. x + n + z /\ ~(x + n + i <= x + n)
         /\ (x + n + i) - (x + n) = i
  BY <1>10
<1>14. \A i \in 1 .. x : u[i] = Nothing
  BY <1>1, <1>5, <1>7, <1>9, <1>11
<1>15. \A i \in 1 .. Len(q) : u[x + i] = q[i]
  BY <1>5, <1>7, <1>9, <1>12
<1>16. \A i \in 1 .. z : u[x + Len(q) + i] = Nothing
  BY <1>2, <1>7, <1>9, <1>13
<1> QED
  BY <1>1, <1>2, <1>3, <1>7, <1>8, <1>14, <1>15, <1>16

(* Another sequence of the same entries is the same queue. *)
LEMMA BetweenIs ==
  ASSUME NEW x \in 0 .. 1, NEW z \in 0 .. 1, NEW q \in Seq(Messages),
         NEW t \in Seq(Entries), Len(t) = x + Len(q) + z,
         \A i \in 1 .. x : t[i] = Nothing,
         \A i \in 1 .. Len(q) : t[x + i] = q[i],
         \A i \in 1 .. z : t[x + Len(q) + i] = Nothing
  PROVE  t = Between(x, q, z)
<1>1. PICK u : u = Between(x, q, z)
  OBVIOUS
<1>2. /\ u \in Seq(Entries) /\ Len(q) \in Nat
      /\ Len(u) = x + Len(q) + z
      /\ \A i \in 1 .. x : u[i] = Nothing
      /\ \A i \in 1 .. Len(q) : u[x + i] = q[i]
      /\ \A i \in 1 .. z : u[x + Len(q) + i] = Nothing
  BY <1>1, BetweenFields
<1>3. PICK n \in Nat : n = Len(q)
  BY <1>2
<1>4. ASSUME NEW i \in 1 .. x + n + z
      PROVE  t[i] = u[i]
  <2>1. CASE i <= x
    <3>1. i \in 1 .. x
      BY <2>1
    <3> QED BY <1>2, <1>3, <3>1
  <2>2. CASE x < i /\ i <= x + n
    <3>1. i - x \in 1 .. n /\ x + (i - x) = i
      BY <2>2
    <3> QED BY <1>2, <1>3, <3>1
  <2>3. CASE x + n < i
    <3>1. i - (x + n) \in 1 .. z /\ x + n + (i - (x + n)) = i
      BY <2>3
    <3>2. t[x + n + (i - (x + n))] = Nothing /\ u[x + n + (i - (x + n))] = Nothing
      BY <1>2, <1>3, <3>1
    <3> QED BY <3>1, <3>2
  <2> QED BY <2>1, <2>2, <2>3
<1>5. t = u
  BY <1>2, <1>3, <1>4, SeqEqual
<1> QED
  BY <1>1, <1>5

LEMMA MessageIsEntry ==
  ASSUME NEW m \in Messages
  PROVE  m \in Entries /\ m # Nothing /\ m # NoMessage
<1>1. m.command # 0
  BY MessageBytes DEF BytesTold
<1>2. NoMessage.command = 0
  BY DEF NoMessage, Message
<1>3. "command" \in DOMAIN m
  BY MessageKinds DEF Message
<1>4. "command" \notin DOMAIN Nothing
  BY DEF Nothing
<1> QED
  BY <1>1, <1>2, <1>3, <1>4 DEF Entries

(* What the steps of MessageChannel make of such a queue. *)
LEMMA BetweenSent ==
  ASSUME NEW x \in 0 .. 1, NEW q \in Seq(Messages), NEW m \in Messages
  PROVE  Between(x, Append(q, m), 0) = Append(Between(x, q, 0), m)
<1>1. PICK p : p = Append(q, m)
  OBVIOUS
<1>2. p \in Seq(Messages) /\ Len(p) = Len(q) + 1 /\ p[Len(q) + 1] = m
      /\ \A i \in 1 .. Len(q) : p[i] = q[i]
  BY <1>1, AppendProperties
<1>3. PICK u : u = Between(x, q, 0)
  OBVIOUS
<1>4. /\ u \in Seq(Entries) /\ Len(q) \in Nat /\ Len(u) = x + Len(q) /\ x \in 0 .. 1
      /\ \A i \in 1 .. x : u[i] = Nothing
      /\ \A i \in 1 .. Len(q) : u[x + i] = q[i]
  BY <1>3, BetweenFields
<1>5. PICK t : t = Append(u, m)
  OBVIOUS
<1>6. t \in Seq(Entries) /\ Len(t) = Len(u) + 1 /\ t[Len(u) + 1] = m /\ \A i \in 1 .. Len(u) : t[i] = u[i]
  BY <1>4, <1>5, MessageIsEntry, AppendProperties
<1>7. PICK n \in Nat : n = Len(q)
  BY <1>4
<1>8. 1 .. 0 = {}
  OBVIOUS
<1>9. \A i \in 1 .. x : t[i] = Nothing
  <2>1. \A i \in 1 .. x : i \in 1 .. x + n
    OBVIOUS
  <2> QED BY <1>4, <1>6, <1>7, <2>1
<1>10. \A i \in 1 .. n + 1 : t[x + i] = p[i]
  <2>1. ASSUME NEW i \in 1 .. n + 1
        PROVE  t[x + i] = p[i]
    <3>1. CASE i = n + 1
      <4>1. x + i = (x + n) + 1
        BY <3>1
      <4> QED BY <1>2, <1>4, <1>6, <1>7, <3>1, <4>1
    <3>2. CASE i # n + 1
      <4>1. i \in 1 .. n /\ x + i \in 1 .. x + n
        BY <3>2
      <4> QED BY <1>2, <1>4, <1>6, <1>7, <4>1
    <3> QED BY <3>1, <3>2
  <2> QED BY <2>1
<1>11. Len(t) = x + Len(p) + 0
  BY <1>2, <1>4, <1>6, <1>7, <1>8
<1>12. t = Between(x, p, 0)
  BY <1>2, <1>6, <1>7, <1>8, <1>9, <1>10, <1>11, BetweenIs
<1> QED
  BY <1>1, <1>3, <1>5, <1>12

(* One more or less at its front. *)
LEMMA BetweenDelivered ==
  ASSUME NEW z \in 0 .. 1, NEW q \in Seq(Messages), q # <<>>
  PROVE  /\ Between(0, q, z) # <<>> /\ Head(Between(0, q, z)) = q[1]
         /\ Tail(Between(0, q, z)) = Between(0, Tail(q), z)
<1>1. PICK p : p = Tail(q)
  OBVIOUS
<1>2. p \in Seq(Messages) /\ Len(p) = Len(q) - 1 /\ (\A i \in 1 .. Len(p) : p[i] = q[i + 1])
      /\ Len(p) \in Nat
  BY <1>1, HeadTailProperties, LenProperties
<1>3. 1 .. 0 = {}
  OBVIOUS
<1>4. PICK u : u = Between(0, q, z)
  OBVIOUS
<1>5. /\ u \in Seq(Entries) /\ Len(q) \in Nat /\ Len(u) = Len(q) + z /\ z \in 0 .. 1
      /\ \A i \in 1 .. Len(q) : u[0 + i] = q[i]
      /\ \A i \in 1 .. z : u[0 + Len(q) + i] = Nothing
  BY <1>3, <1>4, BetweenFields
<1>6. PICK n \in Nat : n = Len(p)
  BY <1>2, <1>5
<1>7. Len(q) = n + 1 /\ Len(u) = (n + 1) + z
  BY <1>2, <1>5, <1>6
<1>8. (\A i \in 1 .. n + 1 : u[i] = q[i]) /\ \A i \in 1 .. z : u[(n + 1) + i] = Nothing
  <2>1. \A i \in 1 .. n + 1 : 0 + i = i
    OBVIOUS
  <2>2. \A i \in 1 .. z : 0 + (n + 1) + i = (n + 1) + i
    OBVIOUS
  <2> QED BY <1>3, <1>5, <1>6, <1>7, <2>1, <2>2
<1>9. u # <<>>
  BY <1>5, <1>7
<1>10. Head(u) = q[1]
  BY <1>5, <1>8, <1>9, <1>7
<1>11. PICK t : t = Tail(u)
  OBVIOUS
<1>12. t \in Seq(Entries) /\ Len(t) = n + z /\ \A i \in 1 .. n + z : t[i] = u[i + 1]
  <2>1. t \in Seq(Entries) /\ Len(t) = Len(u) - 1 /\ \A i \in 1 .. Len(t) : t[i] = u[i + 1]
    BY <1>5, <1>9, <1>11, HeadTailProperties
  <2>2. Len(t) = n + z
    BY <1>7, <2>1
  <2> QED BY <2>1, <2>2
<1>13. \A i \in 1 .. n : t[0 + i] = p[i]
  <2>1. \A i \in 1 .. n : 0 + i = i /\ i \in 1 .. n + z /\ i + 1 \in 1 .. n + 1
    OBVIOUS
  <2> QED BY <1>2, <1>6, <1>8, <1>12, <2>1
<1>14. \A i \in 1 .. z : t[0 + n + i] = Nothing
  <2>1. \A i \in 1 .. z : 0 + n + i = n + i /\ n + i \in 1 .. n + z /\ (n + i) + 1 = (n + 1) + i
    OBVIOUS
  <2> QED BY <1>8, <1>12, <2>1
<1>15. Len(t) = 0 + Len(p) + z /\ \A i \in 1 .. z : t[0 + Len(p) + i] = Nothing
  BY <1>6, <1>12, <1>14
<1>16. (\A i \in 1 .. 0 : t[i] = Nothing) /\ (\A i \in 1 .. Len(p) : t[0 + i] = p[i]) /\ 0 \in 0 .. 1
  BY <1>3, <1>6, <1>13
<1>17. t = Between(0, p, z)
  BY <1>2, <1>12, <1>15, <1>16, BetweenIs
<1> QED
  BY <1>1, <1>4, <1>9, <1>10, <1>11, <1>17

LEMMA BetweenTorn ==
  ASSUME NEW z \in 0 .. 1, NEW q \in Seq(Messages)
  PROVE  /\ Between(1, q, z) = <<Nothing>> \o Between(0, q, z)
         /\ Between(1, q, z) # <<>> /\ Head(Between(1, q, z)) = Nothing
         /\ Tail(Between(1, q, z)) = Between(0, q, z)
         /\ q # <<>> => Len(Between(1, q, z)) >= 2 /\ Between(1, q, z)[2] = q[1]
<1>1. Torn(1) = <<Nothing>> /\ Torn(0) = <<>>
  BY DEF Torn
<1>2. /\ Torn(1) \in Seq(Entries) /\ Torn(z) \in Seq(Entries) /\ q \in Seq(Entries)
  <2>1. Messages \subseteq Entries
    BY DEF Entries
  <2> QED BY <2>1, TornFields, SeqMonotonic
<1>3. Between(0, q, z) = q \o Torn(z)
  BY <1>1, <1>2, ConcatEmptySeq DEF Between
<1>4. Between(1, q, z) = <<Nothing>> \o Between(0, q, z)
  <2>1. (Torn(1) \o q) \o Torn(z) = Torn(1) \o (q \o Torn(z))
    BY <1>2, ConcatAssociative
  <2> QED BY <1>1, <1>3, <2>1 DEF Between
<1>5. PICK u : u = Between(1, q, z)
  OBVIOUS
<1>6. /\ u \in Seq(Entries) /\ Len(q) \in Nat /\ Len(u) = 1 + Len(q) + z /\ z \in 0 .. 1
      /\ u[1] = Nothing
      /\ \A i \in 1 .. Len(q) : u[1 + i] = q[i]
  <2>1. 1 \in 1 .. 1
    OBVIOUS
  <2> QED BY <1>5, <2>1, BetweenFields
<1>7. u # <<>> /\ Head(u) = Nothing
  <2>1. Len(u) # 0
    BY <1>6
  <2> QED BY <1>6, <2>1
<1>8. q # <<>> => Len(u) >= 2 /\ u[2] = q[1]
  <2>1. ASSUME q # <<>>
        PROVE  Len(u) >= 2 /\ u[2] = q[1]
    <3>1. Len(q) \in Nat \ {0}
      BY <2>1, EmptySeq
    <3>2. 1 \in 1 .. Len(q) /\ 1 + 1 = 2
      BY <1>6, <3>1
    <3> QED BY <1>6, <3>1, <3>2
  <2> QED BY <2>1
<1>9. Tail(u) = Between(0, q, z)
  <2>1. PICK r : r = Between(0, q, z)
    OBVIOUS
  <2>2. r \in Seq(Entries)
    BY <2>1, BetweenFields
  <2>3. u = <<Nothing>> \o r /\ Nothing \in Entries
    BY <1>4, <1>5, <2>1 DEF Entries
  <2>4. Tail(u) = r
    <3>1. <<Nothing>> \in Seq(Entries) /\ Len(<<Nothing>>) = 1
      BY <2>3
    <3>2. Len(u) = 1 + Len(r) /\ \A i \in 1 .. 1 + Len(r) : u[i] = IF i <= 1 THEN <<Nothing>>[i] ELSE r[i - 1]
      BY <2>2, <2>3, <3>1, ConcatProperties
    <3>3. PICK t : t = Tail(u)
      OBVIOUS
    <3>4. t \in Seq(Entries) /\ Len(t) = Len(u) - 1 /\ \A i \in 1 .. Len(t) : t[i] = u[i + 1]
      BY <1>6, <1>7, <3>3, HeadTailProperties
    <3>5. PICK n \in Nat : n = Len(r)
      BY <2>2, LenProperties
    <3>6. Len(t) = n /\ \A i \in 1 .. n : i + 1 \in 1 .. 1 + n /\ ~(i + 1 <= 1) /\ (i + 1) - 1 = i
      BY <3>2, <3>4, <3>5
    <3>7. \A i \in 1 .. Len(t) : t[i] = r[i]
      BY <3>2, <3>4, <3>5, <3>6
    <3>8. t = r
      BY <2>2, <3>4, <3>5, <3>6, <3>7, SeqEqual
    <3> QED BY <3>3, <3>8
  <2> QED BY <2>1, <2>4
<1> QED
  BY <1>4, <1>5, <1>7, <1>8, <1>9

LEMMA BetweenEmpty == Between(1, <<>>, 0) = Between(0, <<>>, 1)
<1>1. <<Nothing>> \o <<>> = <<Nothing>> /\ <<>> \o <<Nothing>> = <<Nothing>>
      /\ <<>> \o <<>> = <<>>
  <2>1. <<Nothing>> \in Seq({Nothing}) /\ <<>> \in Seq({Nothing})
    OBVIOUS
  <2> QED BY <2>1, ConcatEmptySeq
<1> QED
  BY <1>1 DEF Between, Torn

(* Cut after the first k messages: nothing is left of what was behind them, or a
   sysex torn there. *)
CutAt(x, q, k, u) ==
  /\ x + k \in 0 .. Len(u) /\ SubSeq(q, 1, k) \in Seq(Messages)
  /\ Between(x, SubSeq(q, 1, k), 0) = SubSeq(u, 1, x + k)
  /\ Between(x, SubSeq(q, 1, k), 1) = Append(SubSeq(u, 1, x + k), Nothing)
  /\ k < Len(q) => x + k < Len(u) /\ u[x + k + 1] = q[k + 1]

LEMMA BetweenCut ==
  ASSUME NEW x \in 0 .. 1, NEW z \in 0 .. 1, NEW q \in Seq(Messages), NEW k \in 0 .. Len(q),
         NEW u, u = Between(x, q, z)
  PROVE  CutAt(x, q, k, u)
<1>1. /\ u \in Seq(Entries) /\ Len(q) \in Nat /\ Len(u) = x + Len(q) + z
      /\ \A i \in 1 .. x : u[i] = Nothing
      /\ \A i \in 1 .. Len(q) : u[x + i] = q[i]
  <2>1. PICK t : t = Between(x, q, z)
    OBVIOUS
  <2>2. /\ t \in Seq(Entries) /\ Len(q) \in Nat /\ Len(t) = x + Len(q) + z
        /\ \A i \in 1 .. x : t[i] = Nothing
        /\ \A i \in 1 .. Len(q) : t[x + i] = q[i]
    BY <2>1, BetweenFields
  <2> QED BY <2>1, <2>2
<1>2. PICK p : p = SubSeq(q, 1, k)
  OBVIOUS
<1>3. p \in Seq(Messages) /\ Len(p) = k /\ \A i \in 1 .. k : p[i] = q[i]
  <2>1. \A i \in 1 .. k : i \in 1 .. Len(q)
    BY <1>1
  <2>2. 1 \in Int /\ k \in Nat /\ \A i \in 1 .. k : q[i] \in Messages
    BY <1>1, <2>1, ElementOfSeq
  <2>3. /\ p \in Seq(Messages) /\ Len(p) = (IF 1 <= k THEN k - 1 + 1 ELSE 0)
        /\ \A i \in 1 .. k - 1 + 1 : p[i] = q[1 + i - 1]
    BY <1>2, <2>2, SubSeqProperties
  <2>4. k - 1 + 1 = k /\ (IF 1 <= k THEN k - 1 + 1 ELSE 0) = k /\ \A i \in 1 .. k : 1 + i - 1 = i
    BY <2>2
  <2> QED BY <2>3, <2>4
<1>4. x + k \in 0 .. Len(u) /\ x + k \in Nat /\ k \in Nat
  BY <1>1
<1>5. PICK t : t = SubSeq(u, 1, x + k)
  OBVIOUS
<1>6. t \in Seq(Entries) /\ Len(t) = x + k /\ \A i \in 1 .. x + k : t[i] = u[i]
  <2>0. PICK n \in Nat : n = x + k
    BY <1>4
  <2>1. \A i \in 1 .. n : i \in 1 .. Len(u)
    BY <1>1, <1>4, <2>0
  <2>2. 1 \in Int /\ \A i \in 1 .. n : u[i] \in Entries
    BY <1>1, <2>1, ElementOfSeq
  <2>3. /\ t \in Seq(Entries) /\ Len(t) = (IF 1 <= n THEN n - 1 + 1 ELSE 0)
        /\ \A i \in 1 .. n - 1 + 1 : t[i] = u[1 + i - 1]
    BY <1>5, <2>0, <2>2, SubSeqProperties
  <2>4. n - 1 + 1 = n /\ (IF 1 <= n THEN n - 1 + 1 ELSE 0) = n /\ \A i \in 1 .. n : 1 + i - 1 = i
    OBVIOUS
  <2> QED BY <2>0, <2>3, <2>4
<1>7. /\ \A i \in 1 .. x : t[i] = Nothing
      /\ \A i \in 1 .. Len(p) : t[x + i] = p[i]
  <2>1. \A i \in 1 .. x : i \in 1 .. x + k
    BY <1>4
  <2>2. \A i \in 1 .. k : x + i \in 1 .. x + k /\ i \in 1 .. Len(q)
    BY <1>1, <1>4
  <2> QED BY <1>1, <1>3, <1>6, <2>1, <2>2
<1>8. t = Between(x, p, 0)
  <2>1. 0 \in 0 .. 1 /\ Len(t) = x + Len(p) + 0 /\ \A i \in 1 .. 0 : t[x + Len(p) + i] = Nothing
    BY <1>3, <1>4, <1>6
  <2> QED BY <1>3, <1>6, <1>7, <2>1, BetweenIs
<1>9. Append(t, Nothing) = Between(x, p, 1)
  <2>1. PICK v : v = Append(t, Nothing)
    OBVIOUS
  <2>2. Nothing \in Entries
    BY DEF Entries
  <2>3. v \in Seq(Entries) /\ Len(v) = x + k + 1 /\ v[x + k + 1] = Nothing
        /\ \A i \in 1 .. x + k : v[i] = t[i]
    BY <1>6, <2>1, <2>2, AppendProperties
  <2>4. \A i \in 1 .. x : v[i] = Nothing
    <3>1. \A i \in 1 .. x : i \in 1 .. x + k
      BY <1>4
    <3> QED BY <1>7, <2>3, <3>1
  <2>5. \A i \in 1 .. Len(p) : v[x + i] = p[i]
    <3>1. \A i \in 1 .. k : x + i \in 1 .. x + k
      BY <1>4
    <3> QED BY <1>3, <1>7, <2>3, <3>1
  <2>6. 1 \in 0 .. 1 /\ Len(v) = x + Len(p) + 1 /\ \A i \in 1 .. 1 : v[x + Len(p) + i] = Nothing
    BY <1>3, <2>3
  <2>7. v = Between(x, p, 1)
    BY <1>3, <2>3, <2>4, <2>5, <2>6, BetweenIs
  <2> QED BY <2>1, <2>7
<1>10. k < Len(q) => x + k < Len(u) /\ u[x + k + 1] = q[k + 1]
  <2>1. ASSUME k < Len(q)
        PROVE  x + k < Len(u) /\ u[x + k + 1] = q[k + 1]
    <3>1. k + 1 \in 1 .. Len(q) /\ x + (k + 1) = x + k + 1 /\ x + k < Len(u)
      BY <1>1, <1>4, <2>1
    <3>2. u[x + (k + 1)] = q[k + 1]
      BY <1>1, <3>1
    <3> QED BY <3>1, <3>2
  <2> QED BY <2>1
<1> QED
  BY <1>1, <1>2, <1>3, <1>4, <1>5, <1>8, <1>9, <1>10 DEF CutAt

-----------------------------------------------------------------------------
(* When the parser says something, and when it is in a sysex. *)
LEMMA SysexByteRead ==
  ASSUME NEW p \in Parsers, p.parsingSysex, NEW byte \in 0 .. 255, NEW r, r = parse(p, byte)
  PROVE  /\ byte # END_SYSEX => r.message = NoMessage /\ r.parser.parsingSysex
         /\ byte = END_SYSEX => r.message # NoMessage /\ ~r.parser.parsingSysex
<1>1. r = SysexByte(p, byte)
  BY DEF parse
<1>2. CASE byte = END_SYSEX
  <2>1. r = [parser |-> Done([p EXCEPT !.parsingSysex = FALSE]), message |-> processSysexMessage(p)]
    BY <1>1, <1>2, Zenon DEF SysexByte
  <2>2. PICK q : q = [p EXCEPT !.parsingSysex = FALSE]
    OBVIOUS
  <2>3. q \in Parsers /\ q.parsingSysex = FALSE
    BY <2>2 DEF Parsers
  <2>4. r.parser = Done(q) /\ r.message = processSysexMessage(p)
    BY <2>1, <2>2
  <2>5. ~r.parser.parsingSysex
    BY <2>3, <2>4, DoneFields
  <2>6. PICK args : processSysexMessage(p) = Message(START_SYSEX, 0, args)
    BY DEF processSysexMessage
  <2>7. r.message.command = START_SYSEX /\ NoMessage.command = 0
    BY <2>4, <2>6 DEF Message, NoMessage
  <2> QED BY <1>2, <2>5, <2>7, CommandNumbers
<1>3. CASE byte # END_SYSEX
  <2>1. r.message = NoMessage
    BY <1>1, <1>3 DEF SysexByte
  <2>2. r.parser.parsingSysex = p.parsingSysex
    <3>1. byte \in Nat
      OBVIOUS
    <3> QED BY <1>1, <1>3, <3>1, SysexByteFields
  <2> QED BY <1>3, <2>1, <2>2
<1> QED
  BY <1>2, <1>3

LEMMA PlainByteRead ==
  ASSUME NEW p \in Parsers, ~p.parsingSysex, NEW byte \in 0 .. 255, byte # START_SYSEX,
         NEW r, r = parse(p, byte)
  PROVE  ~r.parser.parsingSysex
<1>1. CASE p.waitForData > 0 /\ byte < 128
  <2>1. r = DataByte(p, byte)
    BY <1>1 DEF parse
  <2>2. PICK w : w = [p EXCEPT !.waitForData = p.waitForData - 1]
    OBVIOUS
  <2>3. p.waitForData - 1 \in 0 .. 2
    BY <1>1 DEF Parsers
  <2>4. w \in Parsers /\ w.parsingSysex = p.parsingSysex
    BY <2>2, <2>3 DEF Parsers
  <2>5. PICK pos \in Nat : pos = p.waitForData - 1
    BY <2>3
  <2>6. PICK q : q = Buffered(w, byte, pos)
    OBVIOUS
  <2>7. HasBuffered(q, w, byte, pos)
    BY <2>4, <2>6, BufferedFields
  <2>8. q \in Parsers /\ q.parsingSysex = p.parsingSysex
    BY <2>4, <2>7 DEF HasBuffered
  <2>9. PICK d : d = [q EXCEPT !.executeMultiByteCommand = 0]
    OBVIOUS
  <2>10. d \in Parsers /\ d.parsingSysex = p.parsingSysex
    BY <2>8, <2>9 DEF Parsers
  <2>11. r.parser = Done(d) \/ r.parser = q
    BY <2>1, <2>2, <2>5, <2>6, <2>9 DEF DataByte
  <2>12. Done(d).parsingSysex = p.parsingSysex
    BY <2>10, DoneFields
  <2> QED BY <2>8, <2>11, <2>12
<1>2. CASE ~(p.waitForData > 0 /\ byte < 128)
  <2>1. r = CommandByte(p, byte)
    BY <1>2 DEF parse
  <2>2. PICK command : command = IF byte < START_SYSEX THEN byte - (byte % 16) ELSE byte
    OBVIOUS
  <2>3. PICK q : q = IF byte < START_SYSEX THEN [p EXCEPT !.multiByteChannel = byte % 16] ELSE p
    OBVIOUS
  <2>4. CommandCases(r, q, command)
    BY <2>1, <2>2, <2>3, CommandByteCases
  <2>5. byte % 16 \in Nat /\ command \in Nat
    <3>1. byte \in Nat /\ byte % 16 \in Nat /\ byte - (byte % 16) \in Nat
      OBVIOUS
    <3> QED BY <2>2, <3>1
  <2>6. q \in Parsers /\ ~q.parsingSysex
    BY <2>3, <2>5 DEF Parsers
  <2>7. command # START_SYSEX
    <3>1. byte < START_SYSEX => byte - (byte % 16) < START_SYSEX
      BY CommandNumbers
    <3> QED BY <2>2, <3>1, CommandNumbers
  <2>8. ~[q EXCEPT !.waitForData = 2, !.executeMultiByteCommand = command].parsingSysex
        /\ ~[q EXCEPT !.waitForData = 1, !.executeMultiByteCommand = command].parsingSysex
    BY <2>6 DEF Parsers
  <2>9. ~NewParser.parsingSysex
    BY DEF NewParser
  <2>10. r.parser \in {q, NewParser, [q EXCEPT !.waitForData = 2, !.executeMultiByteCommand = command],
                       [q EXCEPT !.waitForData = 1, !.executeMultiByteCommand = command]}
    BY <2>4, <2>7 DEF CommandCases
  <2> QED BY <2>6, <2>8, <2>9, <2>10
<1> QED
  BY <1>1, <1>2

LEMMA CommandSaysNothing ==
  ASSUME NEW p, NEW byte \in 0 .. 255, byte \notin {REPORT_VERSION, SYSTEM_RESET}
  PROVE  CommandByte(p, byte).message = NoMessage
<1>1. PICK command : command = IF byte < START_SYSEX THEN byte - (byte % 16) ELSE byte
  OBVIOUS
<1>2. command \notin {REPORT_VERSION, SYSTEM_RESET}
  <2>1. byte < START_SYSEX => byte - (byte % 16) < START_SYSEX
    BY CommandNumbers
  <2> QED BY <1>1, <2>1, CommandNumbers
<1> QED
  BY <1>1, <1>2 DEF CommandByte

(* Nothing is said in the midst of a message, and at its end there is no sysex. *)
LEMMA MessageRead ==
  ASSUME NEW p \in Parsers, NEW m \in Messages, NEW i \in 1 .. Size(m), Ready(p, m, i),
         NEW r, r = parse(p, Marshal(m)[i])
  PROVE  /\ i # Size(m) => r.message = NoMessage /\ (r.parser.parsingSysex <=> IsSysex(m))
         /\ i = Size(m) => r.message = m /\ ~r.parser.parsingSysex
<1>1. BytesTold(m)
  BY MessageBytes
<1>2. PICK byte \in 0 .. 255 : byte = Marshal(m)[i]
  BY <1>1 DEF BytesTold
<1>3. Follows(p, m, i)
  BY MessageFollowed
<1>4. PICK size \in Nat \ {0} : size = Size(m)
  BY <1>1 DEF BytesTold
<1>5. /\ byte = START_SYSEX <=> IsSysex(m) /\ i = 1
      /\ byte = END_SYSEX <=> IsSysex(m) /\ i = size
      /\ byte >= 128 <=> i = 1 \/ (IsSysex(m) /\ i = size)
      /\ IsSysex(m) \/ size <= 3
  BY <1>1, <1>2, <1>4 DEF BytesTold
<1>6. i # 1 => (p.parsingSysex <=> IsSysex(m)) /\ (~IsSysex(m) => p.waitForData = size - (i - 1))
  <2>1. ASSUME i # 1
        PROVE  Midway(p, m, i - 1)
    BY <2>1 DEF Ready
  <2>2. p.parsingSysex \in BOOLEAN
    BY DEF Parsers
  <2> QED BY <1>4, <2>1, <2>2 DEF Midway, IsSysex
<1>7. i = 1 => ~p.parsingSysex
  BY DEF Ready
<1>8. p.parsingSysex <=> IsSysex(m) /\ i # 1
  BY <1>6, <1>7
<1>9. ASSUME i # size
      PROVE  r.message = NoMessage /\ (r.parser.parsingSysex <=> IsSysex(m))
  <2>1. r.parser.parsingSysex <=> IsSysex(m)
    <3>1. Midway(r.parser, m, i)
      BY <1>3, <1>4, <1>9 DEF Follows
    <3>2. r.parser \in Parsers
      BY <1>2, ParseTyped
    <3>3. r.parser.parsingSysex \in BOOLEAN
      BY <3>2 DEF Parsers
    <3> QED BY <3>1, <3>3 DEF Midway, IsSysex
  <2>2. CASE p.parsingSysex
    <3>1. r = parse(p, byte)
      BY <1>2
    <3>2. r.message = NoMessage
      BY <1>5, <1>9, <2>2, <3>1, SysexByteRead
    <3> QED BY <2>1, <3>2
  <2>3. CASE ~p.parsingSysex /\ i = 1
    <3>1. byte \notin {REPORT_VERSION, SYSTEM_RESET}
      BY <1>1, <1>2, <1>4, <1>9, <2>3 DEF BytesTold
    <3>2. r = CommandByte(p, byte)
      BY <1>2, <1>5, <2>3 DEF parse
    <3> QED BY <2>1, <3>1, <3>2, CommandSaysNothing
  <2>4. CASE ~p.parsingSysex /\ i # 1
    <3>1. ~IsSysex(m) /\ size <= 3 /\ i \in 1 .. size
      BY <1>4, <1>5, <1>8, <2>4
    <3>2. i = 2 /\ size = 3
      BY <1>9, <2>4, <3>1
    <3>3. p.waitForData = 2 /\ byte < 128
      BY <1>5, <1>6, <3>1, <3>2
    <3>4. r = DataByte(p, byte)
      BY <1>2, <2>4, <3>3 DEF parse
    <3>5. r.message = NoMessage
      <4>1. PICK w : w = [p EXCEPT !.waitForData = p.waitForData - 1]
        OBVIOUS
      <4>2. w \in Parsers /\ w.waitForData = 1
        BY <3>3, <4>1 DEF Parsers
      <4>3. PICK pos \in Nat : pos = p.waitForData - 1
        BY <3>3
      <4>4. PICK q : q = Buffered(w, byte, pos)
        OBVIOUS
      <4>5. HasBuffered(q, w, byte, pos)
        BY <4>2, <4>4, BufferedFields
      <4>6. q.waitForData # 0
        BY <4>2, <4>5 DEF HasBuffered
      <4> QED BY <3>4, <4>1, <4>3, <4>4, <4>6 DEF DataByte
    <3> QED BY <2>1, <3>5
  <2> QED BY <2>2, <2>3, <2>4
<1>10. ASSUME i = size
       PROVE  r.message = m /\ ~r.parser.parsingSysex
  <2>1. r.message = m
    BY <1>3, <1>4, <1>10 DEF Follows
  <2>2. CASE p.parsingSysex
    <3>1. r = parse(p, byte) /\ byte = END_SYSEX
      BY <1>2, <1>5, <1>8, <1>10, <2>2
    <3>2. ~r.parser.parsingSysex
      BY <2>2, <3>1, SysexByteRead
    <3> QED BY <2>1, <3>2
  <2>3. CASE ~p.parsingSysex
    <3>1. byte # START_SYSEX
      <4>1. SUFFICES ASSUME byte = START_SYSEX PROVE FALSE
        OBVIOUS
      <4>2. IsSysex(m) /\ i = 1
        BY <1>5, <4>1
      <4>3. byte = END_SYSEX
        BY <1>5, <1>10, <4>2
      <4>4. START_SYSEX # END_SYSEX
        BY CommandNumbers
      <4> QED BY <4>1, <4>3, <4>4
    <3> QED BY <1>2, <2>1, <2>3, <3>1, PlainByteRead
  <2> QED BY <2>2, <2>3
<1> QED
  BY <1>4, <1>9, <1>10

LEMMA NothingFields == Nothing.message = NoMessage /\ Nothing.at = 0 /\ Nothing.last = FALSE
BY DEF Nothing

(* What is promised, said of any parser, any message it follows and any bytes. *)
Astray(p, f, s) == p.parsingSysex /\ (f = Nothing \/ s = <<>> \/ s[1].place.at = 1)

EndsTorn(s) == s # <<>> /\ IsSysex(s[Len(s)].place.message) /\ ~s[Len(s)].place.last

NoSysex(q) == \A i \in DOMAIN q : ~IsSysex(q[i])

LosesTail(p, f, s) == EndsTorn(s) /\ ~(Astray(p, f, s) /\ NoSysex(Complete(s)))

Queue(p, f, s) ==
  Between(IF Astray(p, f, s) THEN 1 ELSE 0, Complete(s), IF LosesTail(p, f, s) THEN 1 ELSE 0)

LEMMA QueueIs ==
  ASSUME NEW p, NEW f, NEW s, NEW x \in 0 .. 1, NEW z \in 0 .. 1,
         x = 1 <=> Astray(p, f, s), z = 1 <=> LosesTail(p, f, s)
  PROVE  Queue(p, f, s) = Between(x, Complete(s), z)
<1>1. x = (IF Astray(p, f, s) THEN 1 ELSE 0)
  OBVIOUS
<1>2. z = (IF LosesTail(p, f, s) THEN 1 ELSE 0)
  OBVIOUS
<1> QED
  BY <1>1, <1>2 DEF Queue

LEMMA QueueParts ==
  ASSUME NEW p, NEW f, NEW s
  PROVE  \E x \in 0 .. 1, z \in 0 .. 1 :
           /\ x = 1 <=> Astray(p, f, s)
           /\ z = 1 <=> LosesTail(p, f, s)
           /\ Queue(p, f, s) = Between(x, Complete(s), z)
<1>1. PICK x \in 0 .. 1 : x = IF Astray(p, f, s) THEN 1 ELSE 0
  OBVIOUS
<1>2. PICK z \in 0 .. 1 : z = IF LosesTail(p, f, s) THEN 1 ELSE 0
  OBVIOUS
<1>3. (x = 1 <=> Astray(p, f, s)) /\ (z = 1 <=> LosesTail(p, f, s))
  BY <1>1, <1>2
<1>4. Queue(p, f, s) = Between(x, Complete(s), z)
  BY <1>1, <1>2 DEF Queue
<1> QED
  BY <1>3, <1>4

(* A message that is sent comes last in the queue. *)
LEMMA QueueSent ==
  ASSUME NEW p, NEW f, NEW s \in Seq(Cells), Chained(s), s = <<>> \/ s[Len(s)].place.last,
         NEW m \in Messages
  PROVE  Queue(p, f, s \o Written[m]) = Append(Queue(p, f, s), m)
<1>1. PICK t : t = s \o Written[m]
  OBVIOUS
<1>2. t # <<>> /\ t[Len(t)].place.last /\ t[1] = IF s = <<>> THEN Cell(m, 1) ELSE s[1]
  BY <1>1, SentChained
<1>3. Astray(p, f, t) <=> Astray(p, f, s)
  <2>1. Cell(m, 1).place.at = 1
    BY DEF Cell, Place
  <2> QED BY <1>2, <2>1 DEF Astray
<1>4. ~LosesTail(p, f, t) /\ ~LosesTail(p, f, s)
  BY <1>2 DEF LosesTail, EndsTorn
<1>5. PICK x \in 0 .. 1 : x = IF Astray(p, f, s) THEN 1 ELSE 0
  OBVIOUS
<1>6. (x = 1 <=> Astray(p, f, s)) /\ (x = 1 <=> Astray(p, f, t))
  BY <1>3, <1>5
<1>7. Queue(p, f, s) = Between(x, Complete(s), 0) /\ Queue(p, f, t) = Between(x, Complete(t), 0)
  BY <1>4, <1>6, QueueIs
<1>8. Complete(t) = Append(Complete(s), m) /\ Complete(s) \in Seq(Messages)
  BY <1>1, CompleteOfSent, CompleteFields
<1> QED
  BY <1>1, <1>7, <1>8, BetweenSent

(* When the connection is cut, what is left is a part of what was there, and what is
   left of a sysex comes after it. *)
IsCut(u, v) ==
  \E k \in 0 .. Len(u) :
    \/ v = SubSeq(u, 1, k)
    \/ /\ k < Len(u) /\ (u[k + 1] = Nothing \/ IsSysex(u[k + 1]))
       /\ v = Append(SubSeq(u, 1, k), Nothing)

LEMMA WholeIsCut ==
  ASSUME NEW x \in 0 .. 1, NEW z \in 0 .. 1, NEW q \in Seq(Messages)
  PROVE  IsCut(Between(x, q, z), Between(x, q, z))
<1>1. PICK u : u = Between(x, q, z)
  OBVIOUS
<1>2. u \in Seq(Entries)
  BY <1>1, BetweenFields
<1>3. Len(u) \in 0 .. Len(u) /\ u = SubSeq(u, 1, Len(u))
  <2>1. Len(u) \in Nat
    BY <1>2, LenProperties
  <2>2. SubSeq(u, 1, Len(u)) \in Seq(Entries) /\ Len(SubSeq(u, 1, Len(u))) = Len(u)
        /\ \A i \in 1 .. Len(u) : SubSeq(u, 1, Len(u))[i] = u[i]
    BY <1>2, <2>1
  <2>3. u = SubSeq(u, 1, Len(u))
    BY <1>2, <2>2, SeqEqual
  <2> QED BY <2>1, <2>3
<1> QED
  BY <1>1, <1>3 DEF IsCut

LEMMA QueueCut ==
  ASSUME NEW p, NEW f, NEW s \in Seq(Cells), Chained(s), NEW n \in 0 .. Len(s),
         p.parsingSysex \in BOOLEAN,
         s # <<>> /\ p.parsingSysex /\ ~Astray(p, f, s) => IsSysex(s[1].place.message)
  PROVE  IsCut(Queue(p, f, s), Queue(p, f, SubSeq(s, 1, n)))
<1>1. PICK t : t = SubSeq(s, 1, n)
  OBVIOUS
<1>2. PICK q, k : q = Complete(s) /\ k = Rank(s, n)
  OBVIOUS
<1>3. /\ t \in Seq(Cells) /\ Len(t) = n /\ \A i \in 1 .. n : t[i] = s[i]
      /\ k \in 0 .. Len(q) /\ Complete(t) = SubSeq(q, 1, k)
  BY <1>1, <1>2, CompleteOfPrefix
<1>4. q \in Seq(Messages) /\ Len(q) \in Nat /\ Len(s) \in Nat /\ DOMAIN s = 1 .. Len(s)
  BY <1>2, CompleteFields, LenProperties, EndsFinite
<1>5. PICK x \in 0 .. 1, z \in 0 .. 1 :
        /\ x = 1 <=> Astray(p, f, s)
        /\ z = 1 <=> LosesTail(p, f, s)
        /\ Queue(p, f, s) = Between(x, q, z)
  BY <1>2, QueueParts
<1>6. PICK u : u = Between(x, q, z)
  OBVIOUS
<1>7. CutAt(x, q, k, u)
  BY <1>3, <1>4, <1>6, BetweenCut
<1>8. k = Len(q) => SubSeq(q, 1, k) = q
  <2>1. ASSUME k = Len(q)
        PROVE  SubSeq(q, 1, k) = q
    <3>1. SubSeq(q, 1, k) \in Seq(Messages) /\ Len(SubSeq(q, 1, k)) = Len(q)
          /\ \A i \in 1 .. Len(q) : SubSeq(q, 1, k)[i] = q[i]
      BY <1>4, <2>1
    <3> QED BY <1>4, <3>1, SeqEqual
  <2> QED BY <2>1
<1>9. IsCut(u, Between(x, SubSeq(q, 1, k), 0))
  BY <1>7 DEF IsCut, CutAt
<1>10. k < Len(q) /\ IsSysex(q[k + 1]) => IsCut(u, Between(x, SubSeq(q, 1, k), 1))
  BY <1>7 DEF IsCut, CutAt
<1>11. IsCut(u, u)
  BY <1>4, <1>6, WholeIsCut
<1>12. CASE n = Len(s)
  <2>1. t = s
    BY <1>3, <1>12, SeqEqual
  <2> QED BY <1>1, <1>5, <1>6, <1>11, <2>1
<1>13. CASE n = 0 /\ n # Len(s)
  <2>1. t = <<>> /\ k = 0 /\ s # <<>> /\ 1 \in 1 .. Len(s) /\ Rank(s, 1 - 1) = 0
    <3>1. t = <<>>
      BY <1>3, <1>13, EmptySeq
    <3>2. k = 0 /\ Rank(s, 1 - 1) = 0
      <4>1. Rank(s, 0) = 0 /\ 1 - 1 = 0
        BY EndsFinite
      <4> QED BY <1>2, <1>13, <4>1
    <3>3. s # <<>> /\ 1 \in 1 .. Len(s)
      BY <1>4, <1>13, EmptySeq
    <3> QED BY <3>1, <3>2, <3>3
  <2>2. ~LosesTail(p, f, t)
    BY <2>1 DEF LosesTail, EndsTorn
  <2>3. Complete(t) = <<>> /\ SubSeq(q, 1, k) = <<>>
    BY <1>3, <2>1, CompleteOfNone
  <2>4. Astray(p, f, t) <=> p.parsingSysex
    BY <2>1 DEF Astray
  <2>5. CASE x = 1 \/ ~p.parsingSysex
    <3>1. x = 1 <=> Astray(p, f, t)
      BY <1>5, <2>4, <2>5 DEF Astray
    <3>2. 0 = 1 <=> LosesTail(p, f, t)
      BY <2>2
    <3>3. Queue(p, f, t) = Between(x, Complete(t), 0)
      BY <3>1, <3>2, QueueIs
    <3> QED BY <1>1, <1>3, <1>5, <1>6, <1>9, <3>3
  <2>6. CASE x = 0 /\ p.parsingSysex
    <3>1. ~Astray(p, f, s) /\ IsSysex(s[1].place.message)
      BY <1>5, <2>1, <2>6
    <3>2. Queue(p, f, t) = Between(1, <<>>, 0)
      <4>1. (1 = 1 <=> Astray(p, f, t)) /\ (0 = 1 <=> LosesTail(p, f, t))
        BY <2>2, <2>4, <2>6
      <4> QED BY <2>3, <4>1, QueueIs
    <3>3. Queue(p, f, t) = Between(x, SubSeq(q, 1, k), 1)
      BY <2>3, <2>6, <3>2, BetweenEmpty
    <3>4. CASE k < Len(q)
      <4>1. q[k + 1] = s[1].place.message
        BY <1>2, <2>1, <3>4, NextComplete
      <4> QED BY <1>1, <1>5, <1>6, <1>10, <3>1, <3>3, <3>4, <4>1
    <3>5. CASE ~(k < Len(q))
      <4>1. k = Len(q)
        BY <1>3, <1>4, <3>5
      <4>2. s[Len(s)].place.message = s[1].place.message /\ ~s[Len(s)].place.last
        BY <1>2, <2>1, <4>1, NextComplete
      <4>3. z = 1
        BY <1>5, <2>1, <3>1, <4>2 DEF LosesTail, EndsTorn
      <4> QED BY <1>1, <1>5, <1>6, <1>8, <1>11, <3>3, <4>1, <4>3
    <3> QED BY <3>4, <3>5
  <2> QED BY <2>5, <2>6
<1>14. CASE n # 0 /\ n # Len(s)
  <2>1. /\ t # <<>> /\ s # <<>> /\ t[1] = s[1] /\ t[n] = s[n]
        /\ n \in 1 .. Len(s) /\ n + 1 \in 1 .. Len(s) /\ (n + 1) - 1 = n
    <3>1. n \in 1 .. Len(s) /\ n + 1 \in 1 .. Len(s) /\ (n + 1) - 1 = n /\ 1 \in 1 .. n /\ n \in 1 .. n
      <4>1. PICK N \in Nat : N = Len(s)
        BY <1>4
      <4>2. n \in 0 .. N /\ n # 0 /\ n # N
        BY <1>14, <4>1
      <4> QED BY <4>1, <4>2
    <3>2. t # <<>> /\ s # <<>>
      BY <1>3, <1>14, <3>1, EmptySeq
    <3> QED BY <1>3, <3>1, <3>2
  <2>2. x = 1 <=> Astray(p, f, t)
    BY <1>5, <2>1 DEF Astray
  <2>3. CASE ~LosesTail(p, f, t)
    <3>1. 0 = 1 <=> LosesTail(p, f, t)
      BY <2>3
    <3>2. Queue(p, f, t) = Between(x, Complete(t), 0)
      BY <2>2, <3>1, QueueIs
    <3> QED BY <1>1, <1>3, <1>5, <1>6, <1>9, <3>2
  <2>4. CASE LosesTail(p, f, t)
    <3>1. Queue(p, f, t) = Between(x, Complete(t), 1)
      <4>1. 1 = 1 <=> LosesTail(p, f, t)
        BY <2>4
      <4> QED BY <2>2, <4>1, QueueIs
    <3>2. IsSysex(s[n].place.message) /\ ~s[n].place.last
      BY <1>3, <2>1, <2>4 DEF LosesTail, EndsTorn
    <3>3. s[n + 1].place.message = s[n].place.message
      <4>1. n <= n + 1 /\ \A l \in n .. (n + 1) - 1 : l = n
        BY <2>1
      <4> QED BY <1>4, <2>1, <3>2, <4>1 DEF Chained
    <3>4. CASE k < Len(q)
      <4>1. q[k + 1] = s[n + 1].place.message
        BY <1>2, <2>1, <3>4, NextComplete
      <4> QED BY <1>1, <1>3, <1>5, <1>6, <1>10, <3>1, <3>2, <3>3, <3>4, <4>1
    <3>5. CASE ~(k < Len(q))
      <4>1. k = Len(q)
        BY <1>3, <1>4, <3>5
      <4>2. s[Len(s)].place.message = s[n + 1].place.message /\ ~s[Len(s)].place.last
        BY <1>2, <2>1, <4>1, NextComplete
      <4>3. EndsTorn(s)
        BY <2>1, <3>2, <3>3, <4>2 DEF EndsTorn
      <4>4. Complete(t) = Complete(s)
        BY <1>2, <1>3, <1>8, <4>1
      <4>5. z = 1
        BY <1>5, <2>2, <2>4, <4>3, <4>4 DEF LosesTail
      <4> QED BY <1>1, <1>2, <1>5, <1>6, <1>11, <3>1, <4>4, <4>5
    <3> QED BY <3>4, <3>5
  <2> QED BY <2>3, <2>4
<1> QED
  BY <1>12, <1>13, <1>14

-----------------------------------------------------------------------------
(* The first byte under way begins a message, goes on with the one the parser follows
   or belongs to one of which the parser lost the beginning in a sysex. *)
InStep(p, f, s) ==
  s # <<>> /\ s[1].place.at # 1 =>
    \/ p.parsingSysex /\ f = Nothing
    \/ /\ f # Nothing /\ ~f.last
       /\ s[1].place.message = f.message /\ s[1].place.at = f.at + 1

Following(p, f) ==
  f # Nothing =>
    \E m \in Messages : \E k \in 1 .. Size(m) : f = Place(m, k) /\ (k # Size(m) => Midway(p, m, k))

(* What the parser makes of the i-th byte of m: it takes it for the message, or it is
   astray and takes it for data, up to the end of the next sysex. *)
Heard(lost0, m, i, p, f, said) ==
  IF lost0
    THEN /\ f = Nothing
         /\ IF IsSysex(m) /\ i = Size(m) THEN said = Mangled /\ ~p.parsingSysex
            ELSE said = NoMessage /\ p.parsingSysex
    ELSE /\ f = Place(m, i)
         /\ IF i = Size(m) THEN said = m /\ ~p.parsingSysex
            ELSE said = NoMessage /\ (p.parsingSysex <=> IsSysex(m))

LEMMA ByteHeard ==
  ASSUME NEW p \in Parsers, NEW f, NEW s \in Seq(Cells), s # <<>>,
         NEW m \in Messages, NEW i \in 1 .. Size(m), s[1] = Cell(m, i),
         InStep(p, f, s), Following(p, f),
         NEW r, r = parse(p, Marshal(m)[i]),
         NEW h, h = (IF IF i = 1 THEN ~p.parsingSysex ELSE f.message = m /\ f.at = i - 1
                       THEN Place(m, i) ELSE Nothing),
         NEW said, said = (IF r.message = NoMessage \/ h.last THEN r.message ELSE Mangled)
  PROVE  Heard(Astray(p, f, s), m, i, r.parser, h, said)
<1>1. s[1].place.message = m /\ s[1].place.at = i /\ Place(m, i).last = (i = Size(m))
  BY DEF Cell, Place
<1>2. BytesTold(m) /\ m # NoMessage
  BY MessageBytes, MessageIsEntry
<1>3. PICK byte \in 0 .. 255 : byte = Marshal(m)[i]
  BY <1>2 DEF BytesTold
<1>4. byte = END_SYSEX <=> IsSysex(m) /\ i = Size(m)
  BY <1>2, <1>3 DEF BytesTold
<1>5. CASE Astray(p, f, s)
  <2>1. p.parsingSysex /\ (f = Nothing \/ i = 1)
    BY <1>1, <1>5 DEF Astray
  <2>2. h = Nothing
    <3>1. f = Nothing => f.message # m
      BY <1>2, NothingFields
    <3> QED BY <2>1, <3>1
  <2>3. /\ byte # END_SYSEX => r.message = NoMessage /\ r.parser.parsingSysex
        /\ byte = END_SYSEX => r.message # NoMessage /\ ~r.parser.parsingSysex
    <3>1. r = parse(p, byte)
      BY <1>3
    <3> QED BY <2>1, <3>1, SysexByteRead
  <2>4. h.last = FALSE
    BY <2>2, NothingFields
  <2> QED BY <1>4, <1>5, <2>2, <2>3, <2>4 DEF Heard
<1>6. CASE ~Astray(p, f, s)
  <2>1. i = 1 => ~p.parsingSysex
    BY <1>1, <1>6 DEF Astray
  <2>2. i # 1 => f # Nothing /\ ~f.last /\ f.message = m /\ i = f.at + 1
    BY <1>1, <1>6 DEF Astray, InStep
  <2>3. i # 1 => f.at = i - 1 /\ Midway(p, m, i - 1)
    <3>1. SUFFICES ASSUME i # 1
                   PROVE  f.at = i - 1 /\ Midway(p, m, i - 1)
      OBVIOUS
    <3>2. PICK n \in Messages : \E k \in 1 .. Size(n) :
            f = Place(n, k) /\ (k # Size(n) => Midway(p, n, k))
      BY <2>2, <3>1 DEF Following
    <3>3. PICK k \in 1 .. Size(n) : f = Place(n, k) /\ (k # Size(n) => Midway(p, n, k))
      BY <3>2
    <3>4. n = m /\ f.at = k /\ k # Size(n) /\ i = k + 1
      BY <2>2, <3>1, <3>3 DEF Place
    <3>5. k = i - 1
      BY <3>4
    <3> QED BY <3>3, <3>4, <3>5
  <2>4. Ready(p, m, i)
    BY <2>1, <2>3 DEF Ready
  <2>5. /\ i # Size(m) => r.message = NoMessage /\ (r.parser.parsingSysex <=> IsSysex(m))
        /\ i = Size(m) => r.message = m /\ ~r.parser.parsingSysex
    BY <2>4, MessageRead
  <2>6. h = Place(m, i) /\ h.last = (i = Size(m))
    BY <1>1, <2>1, <2>2, <2>3
  <2> QED BY <1>6, <2>5, <2>6 DEF Heard
<1> QED
  BY <1>5, <1>6

(* The parser stays in step with what is under way. *)
LEMMA HeardInStep ==
  ASSUME NEW s \in Seq(Cells), s # <<>>, Chained(s), NEW m \in Messages, NEW i \in 1 .. Size(m),
         s[1] = Cell(m, i), NEW p, NEW f, NEW said, NEW astray, Heard(astray, m, i, p, f, said)
  PROVE  InStep(p, f, Tail(s)) /\ (f.last => ~p.parsingSysex)
<1>1. PICK t : t = Tail(s)
  OBVIOUS
<1>2. /\ t \in Seq(Cells) /\ Len(t) = Len(s) - 1 /\ \A j \in 1 .. Len(t) : t[j] = s[j + 1]
      /\ DOMAIN s = 1 .. Len(s) /\ Len(s) \in Nat
  BY <1>1, HeadTailProperties, EndsFinite
<1>3. /\ s[1].place.message = m /\ s[1].place.at = i /\ s[1].place.last = (i = Size(m))
      /\ Place(m, i).message = m /\ Place(m, i).at = i /\ Place(m, i).last = (i = Size(m))
  BY DEF Cell, Place
<1>4. f.last => ~p.parsingSysex
  BY <1>3, NothingFields DEF Heard
<1>5. ASSUME t # <<>>, t[1].place.at # 1
      PROVE  \/ p.parsingSysex /\ f = Nothing
             \/ /\ f # Nothing /\ ~f.last
                /\ t[1].place.message = f.message /\ t[1].place.at = f.at + 1
  <2>1. t[1] = s[2] /\ 1 \in DOMAIN s /\ 2 \in DOMAIN s /\ 1 + 1 = 2
    <3>1. Len(t) \in Nat \ {0}
      BY <1>2, <1>5, EmptySeq
    <3>2. 1 \in 1 .. Len(t) /\ 1 + 1 = 2 /\ 1 \in 1 .. Len(s) /\ 2 \in 1 .. Len(s)
      BY <1>2, <3>1
    <3> QED BY <1>2, <3>2
  <2>2. ~s[1].place.last
    BY <1>5, <2>1 DEF Chained
  <2>3. s[2].place.message = m /\ s[2].place.at = i + 1
    <3>1. 1 <= 2 /\ (\A l \in 1 .. 2 - 1 : l = 1) /\ 2 - 1 = 1
      OBVIOUS
    <3>2. s[2].place.message = s[1].place.message /\ s[2].place.at = s[1].place.at + (2 - 1)
      BY <2>1, <2>2, <3>1 DEF Chained
    <3> QED BY <1>3, <3>1, <3>2
  <2>4. i # Size(m)
    BY <1>3, <2>2
  <2>5. CASE astray
    BY <2>4, <2>5 DEF Heard
  <2>6. CASE ~astray
    <3>1. f = Place(m, i) /\ f # Nothing
      BY <1>3, <2>6, MessageIsEntry, NothingFields DEF Heard
    <3> QED BY <1>3, <2>1, <2>3, <2>4, <3>1
  <2> QED BY <2>5, <2>6
<1> QED
  BY <1>1, <1>4, <1>5 DEF InStep

(* What the reader does of the channel. *)
IsRead(u, v, said) ==
  \/ u # <<>> /\ Head(u) # Nothing /\ said = Head(u) /\ v = Tail(u)
  \/ /\ Len(u) >= 2 /\ Head(u) = Nothing
     /\ IF IsSysex(u[2]) THEN said = Mangled /\ v = Tail(Tail(u))
        ELSE said = NoMessage /\ v = <<Nothing>> \o Tail(Tail(u))
  \/ said = NoMessage /\ v = u

(* A byte that is read leaves the tail as it was, unless it was the last there. *)
LEMMA TailKept ==
  ASSUME NEW s \in Seq(Cells), s # <<>>
  PROVE  Tail(s) # <<>> \/ s[1].place.last => (EndsTorn(Tail(s)) <=> EndsTorn(s))
<1>1. PICK t : t = Tail(s)
  OBVIOUS
<1>2. /\ t \in Seq(Cells) /\ Len(t) = Len(s) - 1 /\ \A j \in 1 .. Len(t) : t[j] = s[j + 1]
      /\ Len(s) \in Nat
  BY <1>1, HeadTailProperties, LenProperties
<1>3. ASSUME t # <<>>
      PROVE  EndsTorn(t) <=> EndsTorn(s)
  <2>1. Len(t) \in 1 .. Len(t) /\ Len(t) + 1 = Len(s)
    <3>1. Len(t) \in Nat \ {0}
      BY <1>2, <1>3, EmptySeq
    <3> QED BY <1>2, <3>1
  <2>2. t[Len(t)] = s[Len(s)]
    BY <1>2, <2>1
  <2> QED BY <1>3, <2>2 DEF EndsTorn
<1>4. ASSUME t = <<>>, s[1].place.last
      PROVE  ~EndsTorn(t) /\ ~EndsTorn(s)
  <2>1. Len(s) = 1
    BY <1>2, <1>4, EmptySeq
  <2> QED BY <1>4, <2>1 DEF EndsTorn
<1> QED
  BY <1>1, <1>3, <1>4

LEMMA QueueRead ==
  ASSUME NEW s \in Seq(Cells), s # <<>>, Chained(s),
         NEW m \in Messages, NEW i \in 1 .. Size(m), s[1] = Cell(m, i),
         NEW p, NEW f, NEW p2, NEW f2, NEW said,
         Heard(Astray(p, f, s), m, i, p2, f2, said)
  PROVE  IsRead(Queue(p, f, s), Queue(p2, f2, Tail(s)), said)
<1>1. PICK t, q : t = Tail(s) /\ q = Complete(s)
  OBVIOUS
<1>2. /\ t \in Seq(Cells) /\ Len(t) = Len(s) - 1 /\ \A j \in 1 .. Len(t) : t[j] = s[j + 1]
      /\ DOMAIN s = 1 .. Len(s) /\ Len(s) \in Nat /\ q \in Seq(Messages)
  BY <1>1, HeadTailProperties, EndsFinite, CompleteFields
<1>3. s[1].place.message = m /\ s[1].place.at = i /\ s[1].place.last = (i = Size(m))
  BY DEF Cell, Place
<1>4. /\ i # Size(m) => Complete(t) = q
      /\ i = Size(m) => q # <<>> /\ q[1] = m /\ Complete(t) = Tail(q)
  BY <1>1, <1>3, CompleteOfTail
<1>5. PICK x \in 0 .. 1, z \in 0 .. 1 :
        /\ x = 1 <=> Astray(p, f, s)
        /\ z = 1 <=> LosesTail(p, f, s)
        /\ Queue(p, f, s) = Between(x, q, z)
  BY <1>1, QueueParts
<1>6. t # <<>> \/ i = Size(m) => (EndsTorn(t) <=> EndsTorn(s))
  BY <1>1, <1>3, TailKept
<1>7. f2 = Nothing /\ p2.parsingSysex => Astray(p2, f2, t)
  BY DEF Astray
<1>8. ~p2.parsingSysex => ~Astray(p2, f2, t)
  BY DEF Astray
<1>9. DOMAIN q = 1 .. Len(q) /\ Len(q) \in Nat
  BY <1>2, LenProperties
<1>10. CASE Astray(p, f, s) /\ i = Size(m) /\ IsSysex(m)
  <2>1. said = Mangled /\ ~Astray(p2, f2, t) /\ x = 1
    BY <1>5, <1>8, <1>10 DEF Heard
  <2>2. ~NoSysex(q)
    <3>1. 1 \in DOMAIN q
      <4>1. Len(q) \in Nat \ {0}
        BY <1>2, <1>4, <1>10, EmptySeq
      <4> QED BY <1>9, <4>1
    <3> QED BY <1>4, <1>10, <3>1 DEF NoSysex
  <2>3. z = 1 <=> LosesTail(p2, f2, t)
    BY <1>1, <1>5, <1>6, <1>10, <2>1, <2>2 DEF LosesTail
  <2>4. Queue(p2, f2, t) = Between(0, Tail(q), z)
    <3>1. 0 = 1 <=> Astray(p2, f2, t)
      BY <2>1
    <3>2. Queue(p2, f2, t) = Between(0, Complete(t), z)
      BY <2>3, <3>1, QueueIs
    <3> QED BY <1>4, <1>10, <3>2
  <2>5. PICK u : u = Between(1, q, z)
    OBVIOUS
  <2>6. Head(u) = Nothing /\ Tail(u) = Between(0, q, z) /\ Len(u) >= 2 /\ u[2] = m
    BY <1>2, <1>4, <1>10, <2>5, BetweenTorn
  <2>7. Tail(Tail(u)) = Between(0, Tail(q), z)
    BY <1>2, <1>4, <1>10, <2>6, BetweenDelivered
  <2> QED BY <1>1, <1>5, <1>10, <2>1, <2>4, <2>5, <2>6, <2>7 DEF IsRead
<1>11. CASE Astray(p, f, s) /\ i = Size(m) /\ ~IsSysex(m)
  <2>1. said = NoMessage /\ Astray(p2, f2, t) /\ x = 1
    BY <1>5, <1>7, <1>11 DEF Heard
  <2>2. PICK r : r = Tail(q)
    OBVIOUS
  <2>3. r \in Seq(Messages) /\ Len(r) = Len(q) - 1 /\ \A j \in 1 .. Len(r) : r[j] = q[j + 1]
    BY <1>2, <1>4, <1>11, <2>2, HeadTailProperties
  <2>4. NoSysex(r) <=> NoSysex(q)
    <3>1. DOMAIN r = 1 .. Len(r) /\ Len(r) \in Nat
      BY <2>3, LenProperties
    <3>2. ASSUME NoSysex(q)
          PROVE  NoSysex(r)
      <4>1. \A j \in 1 .. Len(r) : j + 1 \in 1 .. Len(q)
        BY <1>9, <2>3, <3>1
      <4> QED BY <1>9, <2>3, <3>1, <3>2, <4>1 DEF NoSysex
    <3>3. ASSUME NoSysex(r)
          PROVE  NoSysex(q)
      <4>1. ASSUME NEW j \in 1 .. Len(q)
            PROVE  ~IsSysex(q[j])
        <5>1. CASE j = 1
          BY <1>4, <1>11, <5>1
        <5>2. CASE j # 1
          <6>1. j - 1 \in 1 .. Len(r) /\ (j - 1) + 1 = j
            BY <1>9, <2>3, <5>2
          <6>2. r[j - 1] = q[j]
            BY <2>3, <6>1
          <6> QED BY <3>1, <3>3, <6>1, <6>2 DEF NoSysex
        <5> QED BY <5>1, <5>2
      <4> QED BY <1>9, <4>1 DEF NoSysex
    <3> QED BY <3>2, <3>3
  <2>5. z = 1 <=> LosesTail(p2, f2, t)
    BY <1>1, <1>4, <1>5, <1>6, <1>11, <2>1, <2>2, <2>4 DEF LosesTail
  <2>6. Queue(p2, f2, t) = Between(1, r, z)
    <3>1. 1 = 1 <=> Astray(p2, f2, t)
      BY <2>1
    <3>2. Queue(p2, f2, t) = Between(1, Complete(t), z)
      BY <2>5, <3>1, QueueIs
    <3> QED BY <1>4, <1>11, <2>2, <3>2
  <2>7. PICK u : u = Between(1, q, z)
    OBVIOUS
  <2>8. Head(u) = Nothing /\ Tail(u) = Between(0, q, z) /\ Len(u) >= 2 /\ u[2] = m
    BY <1>2, <1>4, <1>11, <2>7, BetweenTorn
  <2>9. Tail(Tail(u)) = Between(0, r, z)
    BY <1>2, <1>4, <1>11, <2>2, <2>8, BetweenDelivered
  <2>10. Between(1, r, z) = <<Nothing>> \o Tail(Tail(u))
    BY <2>3, <2>9, BetweenTorn
  <2> QED BY <1>1, <1>5, <1>11, <2>1, <2>6, <2>7, <2>8, <2>10 DEF IsRead
<1>12. CASE Astray(p, f, s) /\ i # Size(m)
  <2>1. said = NoMessage /\ Astray(p2, f2, t) /\ x = 1
    BY <1>5, <1>7, <1>12 DEF Heard
  <2>2. t = <<>> => NoSysex(q)
    <3>1. t = <<>> => q = <<>>
      BY <1>4, <1>12, CompleteOfNone
    <3>2. NoSysex(<<>>)
      BY DEF NoSysex
    <3> QED BY <3>1, <3>2
  <2>3. z = 1 <=> LosesTail(p2, f2, t)
    BY <1>1, <1>4, <1>5, <1>6, <1>12, <2>1, <2>2 DEF LosesTail
  <2>4. Queue(p2, f2, t) = Between(1, Complete(t), z)
    <3>1. 1 = 1 <=> Astray(p2, f2, t)
      BY <2>1
    <3> QED BY <2>3, <3>1, QueueIs
  <2> QED BY <1>1, <1>4, <1>5, <1>12, <2>1, <2>4 DEF IsRead
<1>13. CASE ~Astray(p, f, s) /\ i = Size(m)
  <2>1. said = m /\ ~Astray(p2, f2, t) /\ x = 0
    BY <1>5, <1>8, <1>13 DEF Heard
  <2>2. z = 1 <=> LosesTail(p2, f2, t)
    BY <1>5, <1>6, <1>13, <2>1 DEF LosesTail
  <2>3. Queue(p2, f2, t) = Between(0, Tail(q), z)
    <3>1. 0 = 1 <=> Astray(p2, f2, t)
      BY <2>1
    <3>2. Queue(p2, f2, t) = Between(0, Complete(t), z)
      BY <2>2, <3>1, QueueIs
    <3> QED BY <1>4, <1>13, <3>2
  <2>4. PICK u : u = Between(0, q, z)
    OBVIOUS
  <2>5. u # <<>> /\ Head(u) = m /\ Tail(u) = Between(0, Tail(q), z)
    BY <1>2, <1>4, <1>13, <2>4, BetweenDelivered
  <2>6. m # Nothing
    BY MessageIsEntry
  <2> QED BY <1>1, <1>5, <2>1, <2>3, <2>4, <2>5, <2>6 DEF IsRead
<1>14. CASE ~Astray(p, f, s) /\ i # Size(m)
  <2>1. /\ said = NoMessage /\ (p2.parsingSysex <=> IsSysex(m))
        /\ f2 = Place(m, i) /\ f2 # Nothing /\ x = 0
    <3>1. Place(m, i) # Nothing
      BY MessageIsEntry, NothingFields DEF Place
    <3> QED BY <1>5, <1>14, <3>1 DEF Heard
  <2>2. CASE t # <<>>
    <3>1. t[1].place.at = i + 1
      <4>1. t[1] = s[2] /\ 1 \in DOMAIN s /\ 2 \in DOMAIN s
        <5>1. Len(t) \in Nat \ {0}
          BY <1>2, <2>2, EmptySeq
        <5>2. 1 \in 1 .. Len(t) /\ 1 + 1 = 2 /\ 1 \in 1 .. Len(s) /\ 2 \in 1 .. Len(s)
          BY <1>2, <5>1
        <5> QED BY <1>2, <5>2
      <4>2. 1 <= 2 /\ (\A l \in 1 .. 2 - 1 : l = 1) /\ 2 - 1 = 1
        OBVIOUS
      <4>3. s[2].place.at = s[1].place.at + (2 - 1)
        BY <1>3, <1>14, <4>1, <4>2 DEF Chained
      <4> QED BY <1>3, <4>1, <4>2, <4>3
    <3>2. i + 1 # 1
      OBVIOUS
    <3>3. ~Astray(p2, f2, t)
      BY <2>1, <2>2, <3>1, <3>2 DEF Astray
    <3>4. z = 1 <=> LosesTail(p2, f2, t)
      BY <1>5, <1>6, <1>14, <2>2, <3>3 DEF LosesTail
    <3>5. Queue(p2, f2, t) = Between(0, Complete(t), z)
      <4>1. 0 = 1 <=> Astray(p2, f2, t)
        BY <3>3
      <4> QED BY <3>4, <4>1, QueueIs
    <3> QED BY <1>1, <1>4, <1>5, <1>14, <2>1, <3>5 DEF IsRead
  <2>3. CASE t = <<>>
    <3>1. q = <<>> /\ Complete(t) = <<>>
      BY <1>4, <1>14, <2>3, CompleteOfNone
    <3>2. Len(s) = 1
      BY <1>2, <2>3, EmptySeq
    <3>3. EndsTorn(s) <=> IsSysex(m)
      BY <1>3, <1>14, <3>2 DEF EndsTorn
    <3>4. z = 1 <=> IsSysex(m)
      BY <1>5, <1>14, <3>3 DEF LosesTail
    <3>5. ~LosesTail(p2, f2, t)
      BY <2>3 DEF LosesTail, EndsTorn
    <3>6. Astray(p2, f2, t) <=> IsSysex(m)
      BY <2>1, <2>3 DEF Astray
    <3>7. Queue(p2, f2, t) = Between(z, <<>>, 0)
      <4>1. (z = 1 <=> Astray(p2, f2, t)) /\ (0 = 1 <=> LosesTail(p2, f2, t))
        BY <3>4, <3>5, <3>6
      <4> QED BY <3>1, <4>1, QueueIs
    <3>8. Between(z, <<>>, 0) = Between(0, <<>>, z)
      <4>1. z = 0 \/ z = 1
        OBVIOUS
      <4> QED BY <4>1, BetweenEmpty
    <3> QED BY <1>1, <1>5, <2>1, <3>1, <3>7, <3>8 DEF IsRead
  <2> QED BY <2>2, <2>3
<1> QED
  BY <1>10, <1>11, <1>12, <1>13, <1>14

-----------------------------------------------------------------------------
(* The streams of the network: nothing is under way without a connection, a host
   that is connected has written its messages whole, and the parser goes on where it
   was, unless it is in a sysex of which the end was lost. *)
NetworkInv ==
  /\ conn \in {"none", "open", "closed"}
  /\ conn # "open" => outgoing = <<>>
  /\ conn = "none" => wire = <<>>
  /\ Chained(Rest)
  /\ conn = "open" => Rest = <<>> \/ Rest[Len(Rest)].place.last
  /\ follow.last => ~parser.parsingSysex
  /\ InStep(parser, follow, Rest)

ChannelInv == ParserInv /\ (kind \in Network => NetworkInv)

LEMMA RestTyped ==
  ASSUME ParserInv
  PROVE  Rest \in Seq(Cells) /\ wire \in Seq(Cells) /\ outgoing \in Seq(Cells)
<1>1. wire \in Seq(Cells) /\ outgoing \in Seq(Cells)
  BY DEF ParserInv, WireInv
<1> QED
  BY <1>1, ConcatProperties DEF Rest

(* What is written leaves the host for the wire, in order. *)
LEMMA RestMoved ==
  ASSUME NEW w \in Seq(Cells), NEW o \in Seq(Cells), o # <<>>
  PROVE  Append(w, Head(o)) \o Tail(o) = w \o o
<1>1. Head(o) \in Cells /\ Tail(o) \in Seq(Cells)
  BY HeadTailProperties
<1>2. Append(w, Head(o)) = w \o <<Head(o)>> /\ <<Head(o)>> \in Seq(Cells)
  BY <1>1, AppendIsConcat
<1>3. (w \o <<Head(o)>>) \o Tail(o) = w \o (<<Head(o)>> \o Tail(o))
  BY <1>1, <1>2, ConcatAssociative
<1>4. <<Head(o)>> \o Tail(o) = o
  <2>1. PICK h, t : h = Head(o) /\ t = Tail(o)
    OBVIOUS
  <2>2. Len(t) = Len(o) - 1 /\ Len(o) \in Nat \ {0} /\ \A i \in 1 .. Len(t) : t[i] = o[i + 1]
    BY <2>1, HeadTailProperties, EmptySeq
  <2>3. h = o[1] /\ <<h>> \in Seq(Cells) /\ Len(<<h>>) = 1 /\ <<h>>[1] = h
    BY <1>1, <2>1, <2>2
  <2>4. PICK u : u = <<h>> \o t
    OBVIOUS
  <2>5. /\ u \in Seq(Cells) /\ Len(u) = 1 + Len(t)
        /\ \A i \in 1 .. 1 + Len(t) : u[i] = IF i <= 1 THEN <<h>>[i] ELSE t[i - 1]
    BY <1>1, <2>1, <2>3, <2>4, ConcatProperties
  <2>6. ASSUME NEW i \in 1 .. Len(o)
        PROVE  u[i] = o[i]
    <3>1. i \in 1 .. 1 + Len(t)
      BY <2>2
    <3>2. CASE i = 1
      BY <2>3, <2>5, <3>1, <3>2
    <3>3. CASE i # 1
      <4>1. ~(i <= 1) /\ i - 1 \in 1 .. Len(t) /\ (i - 1) + 1 = i
        BY <2>2, <3>3
      <4> QED BY <2>2, <2>5, <3>1, <4>1
    <3> QED BY <3>2, <3>3
  <2>7. Len(u) = Len(o)
    BY <2>2, <2>5
  <2>8. u = o
    BY <2>5, <2>6, <2>7, SeqEqual
  <2> QED BY <2>1, <2>4, <2>8
<1> QED
  BY <1>2, <1>3, <1>4

LEMMA ReadFirst ==
  ASSUME NEW w \in Seq(Cells), NEW o \in Seq(Cells), w # <<>>
  PROVE  w \o o # <<>> /\ Tail(w) \o o = Tail(w \o o) /\ Head(w) = (w \o o)[1]
<1>1. PICK s : s = w \o o
  OBVIOUS
<1>2. s \in Seq(Cells) /\ Len(s) = Len(w) + Len(o)
      /\ \A i \in 1 .. Len(w) + Len(o) : s[i] = IF i <= Len(w) THEN w[i] ELSE o[i - Len(w)]
  BY <1>1, ConcatProperties
<1>3. Len(w) \in Nat \ {0} /\ Len(o) \in Nat
  BY EmptySeq, LenProperties
<1>4. s # <<>> /\ s[1] = w[1] /\ Head(w) = w[1]
  <2>1. 1 \in 1 .. Len(w) + Len(o) /\ 1 <= Len(w) /\ Len(s) # 0
    BY <1>2, <1>3
  <2> QED BY <1>2, <2>1
<1>5. PICK t, r : t = Tail(w) /\ r = Tail(s)
  OBVIOUS
<1>6. t \in Seq(Cells) /\ Len(t) = Len(w) - 1 /\ \A i \in 1 .. Len(t) : t[i] = w[i + 1]
  BY <1>5, HeadTailProperties
<1>7. r \in Seq(Cells) /\ Len(r) = Len(s) - 1 /\ \A i \in 1 .. Len(r) : r[i] = s[i + 1]
  BY <1>2, <1>4, <1>5, HeadTailProperties
<1>8. PICK u : u = t \o o
  OBVIOUS
<1>9. u \in Seq(Cells) /\ Len(u) = Len(t) + Len(o)
      /\ \A i \in 1 .. Len(t) + Len(o) : u[i] = IF i <= Len(t) THEN t[i] ELSE o[i - Len(t)]
  BY <1>6, <1>8, ConcatProperties
<1>10. Len(u) = Len(r)
  BY <1>2, <1>3, <1>6, <1>7, <1>9
<1>11. PICK n \in Nat : n = Len(t)
  BY <1>6, LenProperties
<1>12. ASSUME NEW i \in 1 .. Len(r)
       PROVE  u[i] = r[i]
  <2>1. /\ i \in 1 .. n + Len(o) /\ i + 1 \in 1 .. Len(w) + Len(o) /\ Len(w) = n + 1
        /\ i \in Nat
    BY <1>2, <1>3, <1>6, <1>7, <1>11
  <2>2. CASE i <= n
    <3>1. i \in 1 .. n /\ i + 1 <= Len(w)
      BY <2>1, <2>2
    <3> QED BY <1>2, <1>6, <1>7, <1>9, <1>11, <2>1, <2>2, <3>1
  <2>3. CASE ~(i <= n)
    <3>1. ~(i + 1 <= Len(w)) /\ (i + 1) - Len(w) = i - n
      BY <2>1, <2>3
    <3> QED BY <1>2, <1>7, <1>9, <1>11, <2>1, <2>3, <3>1
  <2> QED BY <2>2, <2>3
<1>13. u = r
  BY <1>7, <1>9, <1>10, <1>12, SeqEqual
<1> QED
  BY <1>1, <1>4, <1>5, <1>8, <1>13

LEMMA ChannelInit == WireInit => ChannelInv
<1> SUFFICES ASSUME WireInit
             PROVE  ChannelInv
  OBVIOUS
<1>1. ParserInv
  BY WireInvInit
<1>2. wire = <<>> /\ outgoing = <<>> /\ follow = Nothing
  BY DEF WireInit
<1>3. Rest = <<>>
  <2>1. <<>> \in Seq(Cells)
    OBVIOUS
  <2> QED BY <1>2, <2>1, ConcatEmptySeq DEF Rest
<1>4. conn \in {"none", "open", "closed"}
  BY DEF WireInit
<1>5. NetworkInv
  BY <1>2, <1>3, <1>4, NoneChained, NothingFields DEF NetworkInv, InStep
<1> QED
  BY <1>1, <1>5 DEF ChannelInv

LEMMA PromisedIs ==
  ParserInv => Promised = IF kind \in Network THEN Queue(parser, follow, Rest) ELSE <<>>
<1> SUFFICES ASSUME ParserInv
             PROVE  Promised = IF kind \in Network THEN Queue(parser, follow, Rest) ELSE <<>>
  OBVIOUS
<1>1. PICK s \in Seq(Cells) : s = Rest
  BY RestTyped
<1>2. s # <<>> => Head(s) = s[1] /\ Last(s) = s[Len(s)]
  BY DEF Last
<1>3. InTorn <=> Astray(parser, follow, Rest)
  <2>1. Rest # <<>> => Head(Rest) = Rest[1]
    BY <1>1, <1>2
  <2>2. ASSUME InTorn
        PROVE  Astray(parser, follow, Rest)
    BY <2>1, <2>2 DEF InTorn, Astray
  <2>3. ASSUME Astray(parser, follow, Rest)
        PROVE  InTorn
    BY <2>1, <2>3 DEF InTorn, Astray
  <2> QED BY <2>2, <2>3
<1>4. TornTail <=> EndsTorn(Rest)
  <2>1. CASE s = <<>>
    BY <1>1, <2>1 DEF TornTail, EndsTorn
  <2>2. CASE s # <<>>
    <3>1. Last(Rest) = Rest[Len(Rest)] /\ Rest # <<>>
      BY <1>1, <1>2, <2>2
    <3> QED BY <3>1 DEF TornTail, EndsTorn
  <2> QED BY <2>1, <2>2
<1>5. Swallowed <=> InTorn /\ NoSysex(Complete(Rest))
  BY DEF Swallowed, NoSysex, UnderWay
<1>6. TornTail /\ ~Swallowed <=> LosesTail(parser, follow, Rest)
  BY <1>3, <1>4, <1>5 DEF LosesTail
<1>7. ASSUME kind \in Network
      PROVE  Promised = Queue(parser, follow, Rest)
  <2>1. PICK x \in 0 .. 1, z \in 0 .. 1 :
          /\ x = 1 <=> Astray(parser, follow, Rest)
          /\ z = 1 <=> LosesTail(parser, follow, Rest)
          /\ Queue(parser, follow, Rest) = Between(x, Complete(Rest), z)
    BY QueueParts
  <2>2. Torn(x) = (IF InTorn THEN <<Nothing>> ELSE <<>>)
    BY <1>3, <2>1 DEF Torn
  <2>3. Torn(z) = (IF TornTail /\ ~Swallowed THEN <<Nothing>> ELSE <<>>)
    BY <1>6, <2>1 DEF Torn
  <2> QED BY <1>7, <2>1, <2>2, <2>3 DEF Promised, UnderWay, Between
<1>8. ASSUME kind \notin Network
      PROVE  Promised = <<>>
  BY <1>8 DEF Promised
<1> QED
  BY <1>7, <1>8

LEMMA ChannelFacts ==
  ASSUME ChannelInv, kind \in Network
  PROVE  /\ Rest \in Seq(Cells) /\ Chained(Rest) /\ InStep(parser, follow, Rest)
         /\ Following(parser, follow) /\ parser \in Parsers /\ parser.parsingSysex \in BOOLEAN
         /\ Rest # <<>> /\ parser.parsingSysex /\ ~Astray(parser, follow, Rest)
              => IsSysex(Rest[1].place.message)
<1>1. ParserInv /\ NetworkInv /\ Rest \in Seq(Cells)
  BY RestTyped DEF ChannelInv
<1>2. parser \in Parsers /\ FollowInv
  BY <1>1 DEF ParserInv
<1>3. Following(parser, follow)
  BY <1>2 DEF FollowInv, Following
<1>4. parser.parsingSysex \in BOOLEAN
  BY <1>2 DEF Parsers
<1>5. ASSUME Rest # <<>>, parser.parsingSysex, ~Astray(parser, follow, Rest)
      PROVE  IsSysex(Rest[1].place.message)
  <2>1. Rest[1].place.at # 1 /\ follow # Nothing
    BY <1>5 DEF Astray
  <2>2. ~follow.last /\ Rest[1].place.message = follow.message
    BY <1>1, <1>5, <2>1 DEF NetworkInv, InStep
  <2>3. PICK m \in Messages : \E k \in 1 .. Size(m) :
          follow = Place(m, k) /\ (k # Size(m) => Midway(parser, m, k))
    BY <1>3, <2>1 DEF Following
  <2>4. PICK k \in 1 .. Size(m) : follow = Place(m, k) /\ (k # Size(m) => Midway(parser, m, k))
    BY <2>3
  <2>5. follow.message = m /\ Midway(parser, m, k)
    BY <2>2, <2>4 DEF Place
  <2>6. m.command = START_SYSEX
    BY <1>5, <2>5 DEF Midway
  <2> QED BY <2>2, <2>5, <2>6 DEF IsSysex
<1> QED
  BY <1>1, <1>2, <1>3, <1>4, <1>5 DEF NetworkInv

(* Cutting the connection off after n bytes. *)
LEMMA CutStep ==
  ASSUME ChannelInv, kind \in Network, UNCHANGED <<kind, parser, follow, got>>, ParserInv',
         NEW n \in 0 .. Len(Rest), Rest' = SubSeq(Rest, 1, n)
  PROVE  Channel!Next /\ Chained(Rest') /\ InStep(parser', follow', Rest')
<1>1. PICK s \in Seq(Cells) : s = Rest
  BY ChannelFacts
<1>2. PICK t : t = SubSeq(s, 1, n)
  OBVIOUS
<1>3. /\ Chained(s) /\ InStep(parser, follow, s) /\ parser.parsingSysex \in BOOLEAN
      /\ s # <<>> /\ parser.parsingSysex /\ ~Astray(parser, follow, s) => IsSysex(s[1].place.message)
  BY <1>1, ChannelFacts
<1>4. n \in 0 .. Len(s) /\ Rest' = t
  BY <1>1, <1>2
<1>5. IsCut(Queue(parser, follow, s), Queue(parser, follow, t))
  BY <1>2, <1>3, <1>4, QueueCut
<1>6. Promised = Queue(parser, follow, s)
  BY <1>1, PromisedIs DEF ChannelInv
<1>7. Promised' = Queue(parser, follow, t)
  <2>1. (ParserInv => Promised = IF kind \in Network THEN Queue(parser, follow, Rest) ELSE <<>>)'
    BY PromisedIs, PTL
  <2>2. Queue(parser', follow', Rest') = Queue(parser, follow, t)
    BY <1>4
  <2>3. kind' \in Network
    OBVIOUS
  <2>4. Network' = Network
    BY DEF Network
  <2> QED BY <2>1, <2>2, <2>3, <2>4
<1>8. Told' = Told
  BY DEF Told, Network, NoMessage, Message
<1>9. Channel!Cut
  BY <1>5, <1>6, <1>7, <1>8 DEF IsCut, Channel!Cut
<1>10. Chained(t)
  BY <1>2, <1>3, <1>4, PrefixChained
<1>11. InStep(parser, follow, t)
  <2>1. Len(t) = n /\ \A i \in 1 .. n : t[i] = s[i]
    BY <1>2, <1>4, CompleteOfPrefix
  <2>2. t # <<>> => s # <<>> /\ t[1] = s[1]
    <3>1. SUFFICES ASSUME t # <<>>
                   PROVE  s # <<>> /\ t[1] = s[1]
      OBVIOUS
    <3>2. t \in Seq(Cells)
      BY <1>2, <1>4, CompleteOfPrefix
    <3>3. n # 0
      BY <2>1, <3>1, <3>2, EmptySeq
    <3>4. Len(s) \in Nat
      BY LenProperties
    <3>5. 1 \in 1 .. n /\ Len(s) # 0
      BY <1>4, <3>3, <3>4
    <3> QED BY <2>1, <3>5, EmptySeq
  <2> QED BY <1>3, <2>2 DEF InStep
<1> QED
  BY <1>4, <1>9, <1>10, <1>11 DEF Channel!Next

(* A step that leaves the parser and the bytes under way alone. *)
LEMMA QuietStep ==
  ASSUME ChannelInv, kind \in Network, UNCHANGED <<kind, parser, follow, got>>, ParserInv',
         Rest' = Rest
  PROVE  UNCHANGED <<Promised, Told>> /\ Chained(Rest') /\ InStep(parser', follow', Rest')
<1>1. Promised = Queue(parser, follow, Rest)
  BY PromisedIs DEF ChannelInv
<1>2. Promised' = Queue(parser, follow, Rest)
  <2>1. (ParserInv => Promised = IF kind \in Network THEN Queue(parser, follow, Rest) ELSE <<>>)'
    BY PromisedIs, PTL
  <2>2. Queue(parser', follow', Rest') = Queue(parser, follow, Rest)
    OBVIOUS
  <2>3. kind' \in Network /\ Network' = Network
    BY DEF Network
  <2> QED BY <2>1, <2>2, <2>3
<1>3. Told' = Told
  BY DEF Told, Network, NoMessage, Message
<1>4. Chained(Rest) /\ InStep(parser, follow, Rest)
  BY ChannelFacts
<1> QED
  BY <1>1, <1>2, <1>3, <1>4

LEMMA SendStep ==
  ASSUME ChannelInv, kind \in Network, ParserInv', Sends
  PROVE  NetworkInv' /\ Channel!Next
<1>1. /\ UNCHANGED <<kind, conn, parser, follow, got, wire>>
      /\ conn = "open" /\ outgoing = <<>>
  BY DEF Sends
<1>2. PICK m \in Messages : outgoing' = Written[m]
  BY DEF Sends
<1>3. PICK s \in Seq(Cells) : s = Rest
  BY ChannelFacts
<1>4. wire = s /\ Rest' = s \o Written[m]
  <2>1. wire \in Seq(Cells)
    BY RestTyped DEF ChannelInv
  <2>2. wire \o <<>> = wire
    BY <2>1, ConcatEmptySeq
  <2> QED BY <1>1, <1>2, <1>3, <2>2 DEF Rest
<1>5. PICK t : t = s \o Written[m]
  OBVIOUS
<1>6. /\ Chained(s) /\ InStep(parser, follow, s) /\ NetworkInv
      /\ s = <<>> \/ s[Len(s)].place.last
  <2>1. NetworkInv
    BY DEF ChannelInv
  <2>2. Rest = <<>> \/ Rest[Len(Rest)].place.last
    BY <1>1, <2>1 DEF NetworkInv
  <2> QED BY <1>3, <2>1, <2>2, ChannelFacts
<1>7. /\ Chained(t) /\ t # <<>> /\ t[Len(t)].place.last
      /\ t[1] = IF s = <<>> THEN Cell(m, 1) ELSE s[1]
  BY <1>5, <1>6, SentChained
<1>8. InStep(parser, follow, t)
  <2>1. Cell(m, 1).place.at = 1
    BY DEF Cell, Place
  <2> QED BY <1>6, <1>7, <2>1 DEF InStep
<1>9. Rest' = t
  BY <1>4, <1>5
<1>10. NetworkInv'
  <2>1. follow.last => ~parser.parsingSysex
    BY <1>6 DEF NetworkInv
  <2>2. (conn = "open" => Rest = <<>> \/ Rest[Len(Rest)].place.last)'
    BY <1>7, <1>9
  <2>3. Chained(Rest') /\ InStep(parser', follow', Rest')
    BY <1>1, <1>7, <1>8, <1>9
  <2>4. (conn \in {"none", "open", "closed"})' /\ (conn # "open" => outgoing = <<>>)'
        /\ (conn = "none" => wire = <<>>)'
    BY <1>1
  <2> QED BY <1>1, <2>1, <2>2, <2>3, <2>4 DEF NetworkInv
<1>11. Promised' = Append(Promised, m)
  <2>1. Promised = Queue(parser, follow, s)
    BY <1>3, PromisedIs DEF ChannelInv
  <2>2. (ParserInv => Promised = IF kind \in Network THEN Queue(parser, follow, Rest) ELSE <<>>)'
    BY PromisedIs, PTL
  <2>3. Queue(parser', follow', Rest') = Queue(parser, follow, t)
    BY <1>1, <1>9
  <2>4. kind' \in Network /\ Network' = Network
    BY <1>1 DEF Network
  <2>5. Queue(parser, follow, t) = Append(Queue(parser, follow, s), m)
    BY <1>5, <1>6, QueueSent
  <2> QED BY <2>1, <2>2, <2>3, <2>4, <2>5
<1>12. Told' = Told
  BY <1>1 DEF Told, Network, NoMessage, Message
<1>13. Channel!Send
  BY <1>11, <1>12 DEF Channel!Send
<1> QED
  BY <1>10, <1>13 DEF Channel!Next

LEMMA ReadStep ==
  ASSUME ChannelInv, kind \in Network, ParserInv', ProcessInput
  PROVE  NetworkInv' /\ Channel!Next
<1>1. /\ UNCHANGED <<kind, conn, outgoing>> /\ wire # <<>> /\ wire' = Tail(wire)
      /\ parser' = parse(parser, Head(wire).byte).parser
      /\ follow' = Followed(Head(wire).place)
      /\ got' = (IF parse(parser, Head(wire).byte).message = NoMessage \/ follow'.last
                   THEN parse(parser, Head(wire).byte).message ELSE Mangled)
  BY DEF ProcessInput
<1>2. wire \in Seq(Cells) /\ outgoing \in Seq(Cells)
  BY RestTyped DEF ChannelInv
<1>3. PICK s : s = Rest
  OBVIOUS
<1>4. s # <<>> /\ Rest' = Tail(s) /\ Head(wire) = s[1]
  <2>1. Rest' = Tail(wire) \o outgoing
    BY <1>1 DEF Rest
  <2>2. wire \o outgoing # <<>> /\ Tail(wire) \o outgoing = Tail(wire \o outgoing)
        /\ Head(wire) = (wire \o outgoing)[1]
    BY <1>1, <1>2, ReadFirst
  <2> QED BY <1>3, <2>1, <2>2 DEF Rest
<1>5. /\ s \in Seq(Cells) /\ Chained(s) /\ InStep(parser, follow, s) /\ Following(parser, follow)
      /\ parser \in Parsers
  BY <1>3, ChannelFacts
<1>6. s[1] \in Cells
  BY <1>4, <1>5, EmptySeq, ElementOfSeq
<1>7. PICK m \in Messages : \E k \in 1 .. Size(m) : s[1] = Cell(m, k)
  BY <1>6, CellIs
<1>8. PICK i \in 1 .. Size(m) : s[1] = Cell(m, i)
  BY <1>7
<1>9. Head(wire).byte = Marshal(m)[i] /\ Head(wire).place = Place(m, i)
  BY <1>4, <1>8 DEF Cell
<1>10. PICK r : r = parse(parser, Marshal(m)[i])
  OBVIOUS
<1>11. PICK h : h = IF IF i = 1 THEN ~parser.parsingSysex ELSE follow.message = m /\ follow.at = i - 1
                      THEN Place(m, i) ELSE Nothing
  OBVIOUS
<1>12. PICK said : said = IF r.message = NoMessage \/ h.last THEN r.message ELSE Mangled
  OBVIOUS
<1>13. parser' = r.parser /\ follow' = h /\ got' = said
  <2>1. Followed(Place(m, i)) = h
    <3>1. Place(m, i).at = i /\ Place(m, i).message = m
      BY DEF Place
    <3> QED BY <1>11, <3>1 DEF Followed
  <2> QED BY <1>1, <1>9, <1>10, <1>12, <2>1
<1>15. Heard(Astray(parser, follow, s), m, i, r.parser, h, said)
  BY <1>4, <1>5, <1>8, <1>10, <1>11, <1>12, ByteHeard
<1>16. IsRead(Queue(parser, follow, s), Queue(r.parser, h, Tail(s)), said)
  BY <1>4, <1>5, <1>8, <1>15, QueueRead
<1>17. Promised = Queue(parser, follow, s)
  BY <1>3, PromisedIs DEF ChannelInv
<1>18. Promised' = Queue(r.parser, h, Tail(s))
  <2>1. (ParserInv => Promised = IF kind \in Network THEN Queue(parser, follow, Rest) ELSE <<>>)'
    BY PromisedIs, PTL
  <2>2. Queue(parser', follow', Rest') = Queue(r.parser, h, Tail(s))
    BY <1>4, <1>13
  <2>3. kind' \in Network /\ Network' = Network
    BY <1>1 DEF Network
  <2> QED BY <2>1, <2>2, <2>3
<1>19. Told' = said
  <2>1. kind' \in Network /\ Network' = Network
    BY <1>1 DEF Network
  <2> QED BY <1>13, <2>1 DEF Told
<1>20. Channel!Next
  <2>1. IsRead(Promised, Promised', Told')
    BY <1>16, <1>17, <1>18, <1>19
  <2>2. Channel!Deliver \/ Channel!Swallow \/ Channel!Waits
    BY <2>1 DEF IsRead, Channel!Deliver, Channel!Swallow, Channel!Waits
  <2> QED BY <2>2 DEF Channel!Next
<1>21. NetworkInv'
  <2>1. NetworkInv
    BY DEF ChannelInv
  <2>2. InStep(r.parser, h, Tail(s)) /\ (h.last => ~r.parser.parsingSysex)
    BY <1>4, <1>5, <1>8, <1>15, HeardInStep
  <2>3. Chained(Tail(s))
    BY <1>4, <1>5, TailChained
  <2>4. conn = "open" => Tail(s) = <<>> \/ Tail(s)[Len(Tail(s))].place.last
    <3>1. SUFFICES ASSUME conn = "open", Tail(s) # <<>>
                   PROVE  Tail(s)[Len(Tail(s))].place.last
      OBVIOUS
    <3>2. s[Len(s)].place.last
      BY <1>3, <1>4, <2>1, <3>1 DEF NetworkInv
    <3>3. PICK t : t = Tail(s)
      OBVIOUS
    <3>4. t \in Seq(Cells) /\ Len(t) = Len(s) - 1 /\ \A j \in 1 .. Len(t) : t[j] = s[j + 1]
      BY <1>4, <1>5, <3>3, HeadTailProperties
    <3>5. Len(t) \in Nat \ {0} /\ Len(s) \in Nat
      BY <1>5, <3>1, <3>3, <3>4, EmptySeq, LenProperties
    <3>6. Len(t) \in 1 .. Len(t) /\ Len(t) + 1 = Len(s)
      BY <3>4, <3>5
    <3>7. t[Len(t)] = s[Len(s)]
      BY <3>4, <3>6
    <3> QED BY <3>2, <3>3, <3>7
  <2>5. Chained(Rest') /\ InStep(parser', follow', Rest') /\ (follow'.last => ~parser'.parsingSysex)
    BY <1>4, <1>13, <2>2, <2>3
  <2>6. conn' = "open" => Rest' = <<>> \/ Rest'[Len(Rest')].place.last
    BY <1>1, <1>4, <2>4
  <2>7. /\ conn' \in {"none", "open", "closed"} /\ (conn' # "open" => outgoing' = <<>>)
        /\ (conn' = "none" => wire' = <<>>)
    BY <1>1, <2>1 DEF NetworkInv
  <2> QED BY <2>5, <2>6, <2>7 DEF NetworkInv
<1> QED
  BY <1>20, <1>21

(* What is lost when a host goes is the end of what it wrote and all it had to. *)
LEMMA PrefixOfWhole ==
  ASSUME NEW w \in Seq(Cells), NEW o \in Seq(Cells), NEW n \in 0 .. Len(w)
  PROVE  n \in 0 .. Len(w \o o) /\ SubSeq(w \o o, 1, n) = SubSeq(w, 1, n)
<1>1. PICK s : s = w \o o
  OBVIOUS
<1>2. s \in Seq(Cells) /\ Len(s) = Len(w) + Len(o)
      /\ \A i \in 1 .. Len(w) + Len(o) : s[i] = IF i <= Len(w) THEN w[i] ELSE o[i - Len(w)]
  BY <1>1, ConcatProperties
<1>3. n \in 0 .. Len(s) /\ Len(w) \in Nat /\ Len(o) \in Nat
  <2>1. Len(w) \in Nat /\ Len(o) \in Nat
    BY LenProperties
  <2> QED BY <1>2, <2>1
<1>4. PICK t, v : t = SubSeq(w, 1, n) /\ v = SubSeq(s, 1, n)
  OBVIOUS
<1>5. t \in Seq(Cells) /\ Len(t) = n /\ \A i \in 1 .. n : t[i] = w[i]
  BY <1>4, CompleteOfPrefix
<1>6. v \in Seq(Cells) /\ Len(v) = n /\ \A i \in 1 .. n : v[i] = s[i]
  BY <1>2, <1>3, <1>4, CompleteOfPrefix
<1>7. \A i \in 1 .. n : s[i] = w[i]
  <2>1. \A i \in 1 .. n : i \in 1 .. Len(w) + Len(o) /\ i <= Len(w)
    BY <1>3
  <2> QED BY <1>2, <2>1
<1>8. t = v
  BY <1>5, <1>6, <1>7, SeqEqual
<1> QED
  BY <1>1, <1>3, <1>4, <1>8

LEMMA GoesStep ==
  ASSUME ChannelInv, kind \in Network, ParserInv', Goes
  PROVE  NetworkInv' /\ (Channel!Next \/ UNCHANGED <<Promised, Told>>)
<1>1. /\ UNCHANGED <<kind, parser, follow, got>>
      /\ NetworkInv /\ wire \in Seq(Cells) /\ outgoing \in Seq(Cells)
  BY RestTyped DEF Goes, ChannelInv
<1>2. follow.last => ~parser.parsingSysex
  BY <1>1 DEF NetworkInv
<1>3. CASE conn # "open"
  <2>1. UNCHANGED <<conn, outgoing, wire>>
    BY <1>3 DEF Goes
  <2>2. Rest' = Rest
    BY <2>1 DEF Rest
  <2>3. UNCHANGED <<Promised, Told>> /\ Chained(Rest') /\ InStep(parser', follow', Rest')
    BY <1>1, <2>2, QuietStep
  <2> QED BY <1>1, <1>3, <2>1, <2>3 DEF NetworkInv
<1>4. CASE conn = "open"
  <2>1. kind # "BLE" /\ outgoing' = <<>> /\ conn' = "closed" /\ wire' \in Prefixes(wire)
    <3>1. kind # "BLE"
      BY DEF Network
    <3> QED BY <1>4, <3>1 DEF Goes
  <2>2. PICK n \in 0 .. Len(wire) : wire' = SubSeq(wire, 1, n)
    BY <2>1 DEF Prefixes
  <2>3. wire' \in Seq(Cells)
    BY DEF ParserInv, WireInv
  <2>4. Rest' = wire'
    <3>1. wire' \o <<>> = wire'
      BY <2>3, ConcatEmptySeq
    <3> QED BY <2>1, <3>1 DEF Rest
  <2>5. n \in 0 .. Len(Rest) /\ Rest' = SubSeq(Rest, 1, n)
    BY <1>1, <2>2, <2>4, PrefixOfWhole DEF Rest
  <2>6. Channel!Next /\ Chained(Rest') /\ InStep(parser', follow', Rest')
    BY <1>1, <2>5, CutStep
  <2> QED BY <1>1, <1>2, <2>1, <2>6 DEF NetworkInv
<1> QED
  BY <1>3, <1>4

LEMMA AddressStep ==
  ASSUME ChannelInv, kind \in Network, ParserInv', AddressChanges
  PROVE  NetworkInv' /\ Channel!Next
<1>1. /\ UNCHANGED <<kind, parser, follow, got>> /\ NetworkInv
      /\ conn' = "none" /\ outgoing' = <<>> /\ wire' = <<>>
  BY DEF AddressChanges, ChannelInv
<1>2. follow.last => ~parser.parsingSysex
  BY <1>1 DEF NetworkInv
<1>3. Rest' = <<>>
  <2>1. <<>> \in Seq(Cells)
    OBVIOUS
  <2> QED BY <1>1, <2>1, ConcatEmptySeq DEF Rest
<1>4. 0 \in 0 .. Len(Rest) /\ Rest' = SubSeq(Rest, 1, 0)
  <2>1. Rest \in Seq(Cells)
    BY ChannelFacts
  <2>2. PICK s \in Seq(Cells) : s = Rest
    BY <2>1
  <2>3. 0 \in 0 .. Len(s)
    <3>1. Len(s) \in Nat
      BY LenProperties
    <3> QED BY <3>1
  <2>4. SubSeq(s, 1, 0) \in Seq(Cells) /\ Len(SubSeq(s, 1, 0)) = 0
    BY <2>3, CompleteOfPrefix
  <2>5. SubSeq(s, 1, 0) = <<>>
    BY <2>4, EmptySeq
  <2> QED BY <1>3, <2>2, <2>3, <2>5
<1>5. Channel!Next /\ Chained(Rest') /\ InStep(parser', follow', Rest')
  BY <1>1, <1>4, CutStep
<1> QED
  BY <1>1, <1>2, <1>5 DEF NetworkInv

LEMMA StreamStep ==
  ASSUME ChannelInv, kind \in Network, ParserInv',
         Writes \/ Comes \/ Maintain \/ IntervalPasses \/ UNCHANGED vars
  PROVE  NetworkInv' /\ UNCHANGED <<Promised, Told>>
<1>1. NetworkInv /\ wire \in Seq(Cells) /\ outgoing \in Seq(Cells)
  BY RestTyped DEF ChannelInv
<1>2. ASSUME UNCHANGED <<kind, parser, follow, got>>, Rest' = Rest,
             conn' \in {"none", "open", "closed"},
             conn' # "open" => outgoing' = <<>>, conn' = "none" => wire' = <<>>,
             conn' = "open" => Rest = <<>> \/ Rest[Len(Rest)].place.last
      PROVE  NetworkInv' /\ UNCHANGED <<Promised, Told>>
  <2>1. UNCHANGED <<Promised, Told>> /\ Chained(Rest') /\ InStep(parser', follow', Rest')
    BY <1>2, QuietStep
  <2>2. follow.last => ~parser.parsingSysex
    BY <1>1 DEF NetworkInv
  <2> QED BY <1>2, <2>1, <2>2 DEF NetworkInv
<1>3. CASE Writes
  <2>1. /\ UNCHANGED <<kind, parser, follow, got, conn>> /\ conn = "open" /\ outgoing # <<>>
        /\ wire' = Append(wire, Head(outgoing)) /\ outgoing' = Tail(outgoing)
    BY <1>3 DEF Writes
  <2>2. Rest' = Rest
    BY <1>1, <2>1, RestMoved DEF Rest
  <2> QED BY <1>1, <1>2, <2>1, <2>2 DEF NetworkInv
<1>4. CASE Comes
  <2>1. UNCHANGED <<kind, parser, follow, got, wire, outgoing, conn>>
    BY <1>4 DEF Comes, Network
  <2>2. Rest' = Rest
    BY <2>1 DEF Rest
  <2> QED BY <1>1, <1>2, <2>1, <2>2 DEF NetworkInv
<1>5. CASE Maintain
  <2>1. UNCHANGED <<kind, parser, follow, got, wire, outgoing>> /\ conn # "open"
        /\ (conn = "closed" => wire = <<>>)
    BY <1>5 DEF Maintain, Alive
  <2>2. wire = <<>> /\ outgoing = <<>>
    BY <1>1, <2>1 DEF NetworkInv
  <2>3. Rest' = Rest /\ Rest = <<>>
    <3>1. <<>> \in Seq(Cells)
      OBVIOUS
    <3> QED BY <2>1, <2>2, <3>1, ConcatEmptySeq DEF Rest
  <2>4. conn' \in {"none", "open", "closed"}
    <3>1. conn' \in {conn, "none", "open"}
      BY <1>5 DEF Maintain, ClientMaintains, ServerMaintains
    <3> QED BY <1>1, <3>1 DEF NetworkInv
  <2> QED BY <1>2, <2>1, <2>2, <2>3, <2>4
<1>6. CASE IntervalPasses
  <2>1. UNCHANGED <<kind, parser, follow, got, wire, outgoing, conn>>
    BY <1>6 DEF IntervalPasses
  <2>2. Rest' = Rest
    BY <2>1 DEF Rest
  <2> QED BY <1>1, <1>2, <2>1, <2>2 DEF NetworkInv
<1>7. CASE UNCHANGED vars
  <2>1. UNCHANGED <<kind, parser, follow, got, wire, outgoing, conn>>
    BY <1>7 DEF vars
  <2>2. Rest' = Rest
    BY <2>1 DEF Rest
  <2> QED BY <1>1, <1>2, <2>1, <2>2 DEF NetworkInv
<1> QED
  BY <1>3, <1>4, <1>5, <1>6, <1>7

LEMMA ChannelStep ==
  ChannelInv /\ [WireNext]_vars => ChannelInv' /\ [Channel!Next]_<<Promised, Told>>
<1> SUFFICES ASSUME ChannelInv, [WireNext]_vars
             PROVE  ChannelInv' /\ [Channel!Next]_<<Promised, Told>>
  OBVIOUS
<1>1. ParserInv'
  BY WireStep DEF ChannelInv
<1>2. kind' = kind
  BY DEF WireNext, Sends, Writes, Comes, Goes, Maintain, IntervalPasses, AddressChanges,
         ProcessInput, vars
<1>3. CASE kind \in Network
  <2>1. NetworkInv' /\ (Channel!Next \/ UNCHANGED <<Promised, Told>>)
    <3>1. CASE Sends
      BY <1>1, <1>3, <3>1, SendStep
    <3>2. CASE Goes
      BY <1>1, <1>3, <3>2, GoesStep
    <3>3. CASE AddressChanges
      BY <1>1, <1>3, <3>3, AddressStep
    <3>4. CASE ProcessInput
      BY <1>1, <1>3, <3>4, ReadStep
    <3>5. CASE Writes \/ Comes \/ Maintain \/ IntervalPasses \/ UNCHANGED vars
      BY <1>1, <1>3, <3>5, StreamStep
    <3> QED BY <3>1, <3>2, <3>3, <3>4, <3>5 DEF WireNext
  <2> QED BY <1>1, <2>1 DEF ChannelInv
<1>4. CASE kind \notin Network
  <2>1. Promised = <<>> /\ Told = NoMessage
    BY <1>4 DEF Promised, Told
  <2>2. kind' \notin Network' /\ Network' = Network /\ NoMessage' = NoMessage
    BY <1>2, <1>4 DEF Network, NoMessage, Message
  <2>3. Promised' = <<>> /\ Told' = NoMessage
    BY <2>2 DEF Promised, Told
  <2> QED BY <1>1, <2>1, <2>2, <2>3 DEF ChannelInv
<1> QED
  BY <1>3, <1>4

LEMMA ChannelBegins == WireInit => Channel!Init
<1> SUFFICES ASSUME WireInit
             PROVE  Channel!Init
  OBVIOUS
<1>1. Told = NoMessage
  BY DEF WireInit, Told
<1>2. Promised = <<>>
  <2>1. ParserInv
    BY WireInvInit
  <2>2. wire = <<>> /\ outgoing = <<>> /\ ~parser.parsingSysex
    BY DEF WireInit, NewParser
  <2>3. Rest = <<>>
    <3>1. <<>> \in Seq(Cells)
      OBVIOUS
    <3> QED BY <2>2, <3>1, ConcatEmptySeq DEF Rest
  <2>4. ~Astray(parser, follow, Rest) /\ ~LosesTail(parser, follow, Rest)
    BY <2>2, <2>3 DEF Astray, LosesTail, EndsTorn
  <2>5. Queue(parser, follow, Rest) = Between(0, <<>>, 0)
    <3>1. (0 = 1 <=> Astray(parser, follow, Rest)) /\ (0 = 1 <=> LosesTail(parser, follow, Rest))
      BY <2>4
    <3>2. Queue(parser, follow, Rest) = Between(0, Complete(Rest), 0)
      BY <3>1, QueueIs
    <3> QED BY <2>3, <3>2, CompleteOfNone
  <2>6. Between(0, <<>>, 0) = <<>>
    <3>1. PICK q \in Seq(Messages), z \in 0 .. 1 : q = <<>> /\ Len(q) = 0 /\ z = 0
      <4>1. <<>> \in Seq(Messages) /\ Len(<<>>) = 0
        OBVIOUS
      <4>2. 0 \in 0 .. 1
        OBVIOUS
      <4> QED BY <4>1, <4>2, Zenon
    <3>2. PICK u : u = Between(z, q, z)
      OBVIOUS
    <3>3. u \in Seq(Entries) /\ Len(u) = z + Len(q) + z
      BY <3>2, BetweenFields
    <3>4. Len(u) = 0
      BY <3>1, <3>3
    <3>5. u = <<>>
      BY <3>3, <3>4, EmptySeq
    <3> QED BY <3>1, <3>2, <3>5
  <2> QED BY <2>1, <2>5, <2>6, PromisedIs
<1> QED
  BY <1>1, <1>2 DEF Channel!Init

(* The network streams and the parser implement MessageChannel, whatever the messages,
   the window and the moments at which connections end: what a host sends comes whole,
   once and in order, what is under way is lost from some point on when the connection
   is cut, and a sysex that is torn then swallows no more than what comes before the
   end of the next one. *)
THEOREM WireIsChannel == WireSpec => ChannelSpec
<1>1. WireInit => ChannelInv /\ Channel!Init
  BY ChannelInit, ChannelBegins
<1> QED
  BY <1>1, ChannelStep, PTL DEF WireSpec, ChannelSpec, Channel!Spec

=============================================================================
