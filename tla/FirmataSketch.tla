--------------------------- MODULE FirmataSketch ----------------------------
(***************************************************************************)
(* The Firmata sketches of libraries/Firmata/examples: what the host's         *)
(* messages do to the pins, the servos, the I2C bus and the reports.  The      *)
(* handlers are those of StandardFirmata; which sketch repeats them, and what  *)
(* it does differently, is in FirmataVariants.  The levels of output pins and  *)
(* the numbers reported are left out.                                          *)
(***************************************************************************)
EXTENDS ServoPool, FiniteSets, SequencesExt

CONSTANTS
  PortWidth,   \* pins per port, 8 in the code
  AnalogPins, PwmPins,   \* IS_PIN_ANALOG, IS_PIN_PWM; every pin is IS_PIN_DIGITAL
  SDA, SCL,    \* the pins for which IS_PIN_I2C
  Devices,     \* addresses on the bus that the host may ask to be read
  MaxQueries   \* I2C_MAX_QUERIES

ASSUME FirmataSketchAssumption ==
  /\ PortWidth \in Nat \ {0} /\ MaxQueries \in Nat \ {0}
  /\ AnalogPins \cup PwmPins \cup {SDA, SCL} \subseteq Pins /\ SDA # SCL

VARIABLES
  sketch,  \* the sketch that was uploaded
  link,    \* the host is connected
  board,   \* mode: pinConfig; hw: pinMode() of the core; inputs: the pins of
           \* portConfigInputs; analog: analogInputsToReport; i2c: isI2CEnabled;
           \* queries: the addresses in query[0 .. queryIndex]
  pool,    \* the servos
  report,  \* the ports of reportPINs
  previous,\* previousPINs: per port the pins reported high
  asked,   \* the ports the host asked for since it connected
  host     \* per port asked for, the pins the host was last told are high

sketchVars == <<sketch, link, board, pool, report, previous, asked, host>>

Ports == {p \div PortWidth : p \in Pins}

Modes == {"INPUT", "PULLUP", "OUTPUT", "PWM", "ANALOG", "SERVO", "I2C", "SERIAL"}

Boards ==
  [mode : [Pins -> Modes \cup {"IGNORE"}], hw : [Pins -> {"in", "pullup", "out"}],
   inputs : SUBSET Pins, analog : SUBSET AnalogPins, i2c : BOOLEAN, queries : Seq(Devices)]

(* FIRMATA_SERIAL_FEATURE: only StandardFirmataPlus includes SerialFirmata. *)
serial == sketch = "Plus"

(* The modes in which the switch of setPinModeCallback finds the pin capable. *)
Capable(p, m) ==
  /\ m = "PWM" => p \in PwmPins
  /\ m = "ANALOG" => p \in AnalogPins
  /\ m = "I2C" => p \in {SDA, SCL}
  /\ m = "SERIAL" => serial

-----------------------------------------------------------------------------
(* setPinModeCallback *)

Ignored(b, p) == b.mode[p] = "IGNORE"

Attaches(s, p) == ~HasServo(s, p) /\ s.count < MaxServos

(* Bug: a pin that stops driving is left an output. *)
HardwareKeeps(hw, m, attaches) ==
  CASE m = "ANALOG" -> "in"
    [] m = "PULLUP" -> "pullup"
    [] m \in {"OUTPUT", "PWM"} \/ (m = "SERVO" /\ attaches) -> "out"
    [] OTHER -> hw

(* What the switch does with the hardware; Servo.attach makes the pin an output. *)
Hardware(hw, m, attaches) ==
  CASE m \in {"INPUT", "ANALOG"} -> "in"
    [] m = "PULLUP" -> "pullup"
    [] m \in {"OUTPUT", "PWM"} \/ (m = "SERVO" /\ attaches) -> "out"
    [] OTHER -> hw

(* Bug: the servo of a pin is not given back. *)
PoolAfterKeeps(b, s, p, m) ==
  IF m = "SERVO" /\ ~Ignored(b, p) /\ ~HasServo(s, p) THEN attachServo(s, p) ELSE s

(* The servos after pin p was asked to be m. *)
PoolAfter(b, s, p, m) ==
  IF Ignored(b, p) THEN s
  ELSE IF m = "SERVO" THEN IF HasServo(s, p) THEN s ELSE attachServo(s, p)
  ELSE IF HasServo(s, p) THEN detachServo(s, p) ELSE s

(* Bug: I2C goes on when one of its pins is used for something else. *)
LeavesBusNever(b, p, m) == FALSE

LeavesBus(b, p, m) == b.mode[p] = "I2C" /\ b.i2c /\ m # "I2C"

(* disableI2CPins *)
BusOff(b) == [b EXCEPT !.i2c = FALSE, !.queries = <<>>]

(* Everything else after pin p was asked to be m: a pin that leaves the bus
   disables it, and a pin that cannot be m keeps its mode all the same. *)
BoardAfter(b, s, p, m) ==
  IF Ignored(b, p) THEN b
  ELSE [(IF LeavesBus(b, p, m) THEN BusOff(b) ELSE b) EXCEPT
          !.analog = IF m = "ANALOG" THEN @ \cup ({p} \cap AnalogPins) ELSE @ \ {p},
          !.inputs = IF m \in {"INPUT", "PULLUP"} THEN @ \cup {p} ELSE @ \ {p},
          !.mode[p] = IF Capable(p, m) THEN m ELSE @,
          !.hw[p] = IF Capable(p, m) THEN Hardware(@, m, Attaches(s, p)) ELSE @]

SetPinMode(p, m) ==
  /\ board' = BoardAfter(board, pool, p, m)
  /\ pool' = PoolAfter(board, pool, p, m)
  /\ UNCHANGED <<sketch, link, report, previous, asked, host>>

-----------------------------------------------------------------------------
(* The other messages. *)

(* SERVO_CONFIG: detach, attach with the new pulses, and the mode. *)
ServoConfig(p) ==
  LET freed == IF HasServo(pool, p) THEN detachServo(pool, p) ELSE pool
      given == attachServo(freed, p)
  IN  /\ pool' = PoolAfter(board, given, p, "SERVO")
      /\ board' = BoardAfter([board EXCEPT !.hw[p] = IF given = freed THEN @ ELSE "out"],
                             given, p, "SERVO")
      /\ UNCHANGED <<sketch, link, report, previous, asked, host>>

(* I2C_CONFIG: enableI2CPins, the pin with the smaller number first. *)
I2CConfig ==
  /\ ~board.i2c
  /\ LET first == IF SDA < SCL THEN SDA ELSE SCL
         second == IF SDA < SCL THEN SCL ELSE SDA
         b == BoardAfter(board, pool, first, "I2C")
         s == PoolAfter(board, pool, first, "I2C")
     IN  /\ board' = [BoardAfter(b, s, second, "I2C") EXCEPT !.i2c = TRUE]
         /\ pool' = PoolAfter(b, s, second, "I2C")
  /\ UNCHANGED <<sketch, link, report, previous, asked, host>>

(* Bug: the limit is tested one too late. *)
ReadContinuouslyOneMore(d) ==
  /\ Len(board.queries) <= MaxQueries
  /\ board' = [board EXCEPT !.queries = Append(@, d)]
  /\ UNCHANGED <<sketch, link, pool, report, previous, asked, host>>

(* I2C_READ_CONTINUOUSLY, which does not ask whether the bus is enabled. *)
ReadContinuously(d) ==
  /\ Len(board.queries) < MaxQueries
  /\ board' = [board EXCEPT !.queries = Append(@, d)]
  /\ UNCHANGED <<sketch, link, pool, report, previous, asked, host>>

(* The query that goes when a device without one is to stop: the first. *)
SkipUnknown == {1}

(* I2C_STOP_READING: the only query whatever the device is; else the first of the
   device, or one of unknown when it has none. *)
StopReading(d, unknown) ==
  LET found == {i \in DOMAIN board.queries :
                  board.queries[i] = d /\ \A j \in 1 .. i - 1 : board.queries[j] # d}
  IN
  /\ \E skip \in IF found = {} THEN unknown ELSE found :
       board' = [board EXCEPT !.queries =
                  IF Len(@) <= 1 THEN <<>> ELSE RemoveAt(@, skip)]
  /\ UNCHANGED <<sketch, link, pool, report, previous, asked, host>>

(* DIGITAL_MESSAGE: an input that is written high gets its pull-up. *)
DigitalWrite(written) ==
  /\ board' = [board EXCEPT !.hw =
       [p \in Pins |-> IF p \in written /\ board.mode[p] = "INPUT" THEN "pullup" ELSE @[p]]]
  /\ UNCHANGED <<sketch, link, pool, report, previous, asked, host>>

(* REPORT_ANALOG *)
ReportAnalog(p) ==
  /\ \E on \in BOOLEAN :
       board' = [board EXCEPT !.analog = IF on THEN @ \cup {p} ELSE @ \ {p}]
  /\ UNCHANGED <<sketch, link, pool, report, previous, asked, host>>

PinsOf(port) == {p \in Pins : p \div PortWidth = port}

(* outputPort: only the inputs count, and what is not news is sent only if forced. *)
outputPort(t, high, force) ==
  LET masked == high \cap board.inputs IN
  IF force \/ masked # previous[t]
    THEN [previous |-> masked, told |-> masked]
    ELSE [previous |-> previous[t], told |-> host[t]]

(* Bug: a report that is turned on is sent only if it is news. *)
ReportDigitalUnforced(t) ==
  /\ \/ /\ report' = report \ {t}
        /\ asked' = asked \ {t}
        /\ host' = [host EXCEPT ![t] = {}]
        /\ UNCHANGED previous
     \/ \E high \in SUBSET PinsOf(t) :
          LET sent == outputPort(t, high, FALSE) IN
          /\ report' = report \cup {t}
          /\ asked' = asked \cup {t}
          /\ previous' = [previous EXCEPT ![t] = sent.previous]
          /\ host' = [host EXCEPT ![t] = sent.told]
  /\ UNCHANGED <<sketch, link, board, pool>>

(* REPORT_DIGITAL: turned on, the port is sent at once, changed or not. *)
ReportDigital(t) ==
  /\ \/ /\ report' = report \ {t}
        /\ asked' = asked \ {t}
        /\ host' = [host EXCEPT ![t] = {}]
        /\ UNCHANGED previous
     \/ \E high \in SUBSET PinsOf(t) :
          LET sent == outputPort(t, high, TRUE) IN
          /\ report' = report \cup {t}
          /\ asked' = asked \cup {t}
          /\ previous' = [previous EXCEPT ![t] = sent.previous]
          /\ host' = [host EXCEPT ![t] = sent.told]
  /\ UNCHANGED <<sketch, link, board, pool>>

(* checkDigitalInputs in loop: what is sent to nobody is noted all the same. *)
CheckDigitalInputs ==
  /\ \E high \in SUBSET Pins :
       LET sent == [t \in Ports |-> outputPort(t, high \cap PinsOf(t), FALSE)] IN
       /\ previous' = [t \in Ports |-> IF t \in report THEN sent[t].previous ELSE previous[t]]
       /\ host' = [t \in Ports |-> IF t \in report \cap asked THEN sent[t].told ELSE host[t]]
  /\ UNCHANGED <<sketch, link, board, pool, report, asked>>

-----------------------------------------------------------------------------
(* systemResetCallback: setPinModeCallback for every pin, none of which is on the
   bus any more, and the servos forgotten, those of pins that are ignored with
   their output still running. *)

DefaultMode(p) == IF p \in AnalogPins THEN "ANALOG" ELSE "OUTPUT"

AfterReset(b) ==
  [b EXCEPT
    !.mode = [p \in Pins |-> IF Ignored(b, p) THEN @[p] ELSE DefaultMode(p)],
    !.hw = [p \in Pins |-> IF Ignored(b, p) THEN @[p]
                          ELSE Hardware(@[p], DefaultMode(p), FALSE)],
    !.inputs = {}, !.analog = {}, !.i2c = FALSE,
    !.queries = IF b.i2c THEN <<>> ELSE @]

PoolReset(b, s) ==
  [EmptyPool EXCEPT
    !.attached = s.attached \ {s.map[p] : p \in {q \in Pins : ~Ignored(b, q)}}]

SystemReset ==
  /\ board' = AfterReset(board)
  /\ pool' = PoolReset(board, pool)
  /\ report' = {}
  /\ previous' = [t \in Ports |-> {}]
  /\ asked' = {}
  /\ host' = [t \in Ports |-> {}]
  /\ UNCHANGED <<sketch, link>>

(* setup: the pins of a shield are marked before the first reset. *)
Fresh(ignored) ==
  [mode |-> [p \in Pins |-> IF p \in ignored THEN "IGNORE" ELSE "INPUT"],
   hw |-> [p \in Pins |-> "in"], inputs |-> {}, analog |-> {}, i2c |-> FALSE,
   queries |-> <<>>]

=============================================================================
