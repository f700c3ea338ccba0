-------------------------- MODULE FirmataVariants ---------------------------
(***************************************************************************)
(* The sketches that repeat StandardFirmata's handlers: over the serial port,  *)
(* over Bluetooth, Ethernet or WiFi, on a chipKIT, with serial ports of their  *)
(* own (Plus), and on the Circuit Playground.  Each takes the messages of its  *)
(* host in any order and runs its loop; a host on the air or a network may go  *)
(* away and come back.                                                         *)
(***************************************************************************)
EXTENDS FirmataSketch

CONSTANTS
  IgnorePins,  \* the pins the shield or the board needs for itself
  NeverRead    \* an address the host may ask to be stopped, but not to be read

ASSUME FirmataVariantsAssumption == IgnorePins \subseteq Pins

Wireless == {"BLE", "Ethernet", "WiFi"}

Sketches == Wireless \cup {"Standard", "Plus", "ChipKIT", "Playground"}

(* The sketches whose setup calls setPinMode(PIN_MODE_IGNORE). *)
Ignoring == Wireless \cup {"Playground"}

Init ==
  /\ sketch \in Sketches
  /\ link = (sketch \notin Wireless)
  /\ board = AfterReset(Fresh(IF sketch \in Ignoring THEN IgnorePins ELSE {}))
  /\ pool = EmptyPool
  /\ report = {}
  /\ previous = [t \in Ports |-> {}]
  /\ asked = {}
  /\ host = [t \in Ports |-> {}]

-----------------------------------------------------------------------------
(* The messages, by the callback they are attached to. *)

PinMessage ==
  \/ \E p \in Pins, m \in Modes : SetPinMode(p, m)
  \/ \E written \in SUBSET Pins : DigitalWrite(written)
  \/ \E p \in AnalogPins : ReportAnalog(p)
  \/ \E t \in Ports : ReportDigital(t)

Sysex(unknown) ==
  \/ \E p \in Pins : ServoConfig(p)
  \/ I2CConfig
  \/ \E d \in Devices : ReadContinuously(d)
  \/ \E d \in Devices \cup {NeverRead} : StopReading(d, unknown)

StandardPins == sketch = "Standard" /\ PinMessage
StandardSysex == sketch = "Standard" /\ Sysex(SkipUnknown)
StandardReset == sketch = "Standard" /\ SystemReset
StandardLoop == sketch = "Standard" /\ CheckDigitalInputs

ChipKITPins == sketch = "ChipKIT" /\ PinMessage
ChipKITSysex == sketch = "ChipKIT" /\ Sysex(SkipUnknown)
ChipKITReset == sketch = "ChipKIT" /\ SystemReset
ChipKITLoop == sketch = "ChipKIT" /\ CheckDigitalInputs

(* The Circuit Playground's copy does not set the index of the query that goes:
   it is whatever was on the stack, and past the last it removes the last. *)
PlaygroundSysex == sketch = "Playground" /\ Sysex(DOMAIN board.queries)
PlaygroundPins == sketch = "Playground" /\ PinMessage
PlaygroundReset == sketch = "Playground" /\ SystemReset
PlaygroundLoop == sketch = "Playground" /\ CheckDigitalInputs

(* SERIAL_CONFIG of SerialFirmata, a hardware port: its pins are taken without
   going through setPinModeCallback. *)
SerialConfig(rx, tx) ==
  /\ sketch = "Plus"
  /\ board' = [board EXCEPT
       !.mode = [p \in Pins |-> IF p \in {rx, tx} /\ ~Ignored(board, p) THEN "SERIAL" ELSE @[p]],
       !.hw[rx] = "in"]
  /\ UNCHANGED <<sketch, link, pool, report, previous, asked, host>>

PlusPins == sketch = "Plus" /\ PinMessage
PlusSysex == sketch = "Plus" /\ Sysex(SkipUnknown)
PlusReset == sketch = "Plus" /\ SystemReset
PlusLoop == sketch = "Plus" /\ CheckDigitalInputs

EthernetPins == sketch = "Ethernet" /\ link /\ PinMessage
EthernetSysex == sketch = "Ethernet" /\ link /\ Sysex(SkipUnknown)
EthernetReset == sketch = "Ethernet" /\ link /\ SystemReset
EthernetLoop == sketch = "Ethernet" /\ CheckDigitalInputs

WiFiPins == sketch = "WiFi" /\ link /\ PinMessage
WiFiSysex == sketch = "WiFi" /\ link /\ Sysex(SkipUnknown)
WiFiReset == sketch = "WiFi" /\ link /\ SystemReset
WiFiLoop == sketch = "WiFi" /\ CheckDigitalInputs

BLEPins == sketch = "BLE" /\ link /\ PinMessage
BLESysex == sketch = "BLE" /\ link /\ Sysex(SkipUnknown)
BLEReset == sketch = "BLE" /\ link /\ SystemReset
(* Without a host the loop returns at once. *)
BLELoop == sketch = "BLE" /\ link /\ CheckDigitalInputs

(* The host goes, and comes back knowing nothing; the sketch resets nothing. *)
LinkChanges ==
  /\ sketch \in Wireless
  /\ link' = ~link
  /\ asked' = {}
  /\ host' = [t \in Ports |-> {}]
  /\ UNCHANGED <<sketch, board, pool, report, previous>>

Next ==
  \/ StandardPins \/ StandardSysex \/ StandardReset \/ StandardLoop
  \/ ChipKITPins \/ ChipKITSysex \/ ChipKITReset \/ ChipKITLoop
  \/ PlaygroundPins \/ PlaygroundSysex \/ PlaygroundReset \/ PlaygroundLoop
  \/ PlusPins \/ PlusSysex \/ PlusReset \/ PlusLoop
  \/ \E rx, tx \in Pins : rx # tx /\ SerialConfig(rx, tx)
  \/ EthernetPins \/ EthernetSysex \/ EthernetReset \/ EthernetLoop
  \/ WiFiPins \/ WiFiSysex \/ WiFiReset \/ WiFiLoop
  \/ BLEPins \/ BLESysex \/ BLEReset \/ BLELoop
  \/ LinkChanges

Spec == Init /\ [][Next]_sketchVars

-----------------------------------------------------------------------------
(* The variables have their types, and the table of queries never overflows. *)
TypeOK ==
  /\ sketch \in Sketches /\ link \in BOOLEAN
  /\ board \in Boards /\ Len(board.queries) <= MaxQueries
  /\ report \subseteq Ports /\ asked \subseteq report
  /\ previous \in [Ports -> SUBSET Pins] /\ host \in [Ports -> SUBSET Pins]

(* However pins are set, configured, ignored and reset, no two pins share a
   servo, a servo is either on a pin or once on the stack, and one that was never
   used is taken only when all the others are on pins at once.  So a sketch runs
   out of servos only after MAX_SERVOS pins had one together; from then until a
   reset nothing on the stack is handed out again, against the comment in
   attachServo. *)
ServosPartitioned ==
  /\ []PoolOK(pool)
  /\ [][pool'.count > pool.count => AllOnPins(pool')]_pool

(* A pin that has a servo is in servo mode, unless the serial feature took the
   pin or it is one that is ignored: no other mode leaves pulses on its pin. *)
ServoOnItsPin ==
  \A p \in Pins : HasServo(pool, p) => board.mode[p] \in {"SERVO", "SERIAL", "IGNORE"}

(* A pin whose mode is an input is not driven by the board, whatever modes it
   was asked for that it cannot be. *)
InputsNotDriven ==
  \A p \in Pins : board.mode[p] \in {"INPUT", "PULLUP", "ANALOG"} => board.hw[p] # "out"

(* While I2C is enabled its pins are used for nothing else, unless the serial
   feature is there to take one without disabling it. *)
BusHasItsPins ==
  board.i2c /\ ~serial => \A p \in {SDA, SCL} : board.mode[p] \in {"I2C", "IGNORE"}

(* What the host was last told of a port it has asked for since it connected is
   what the board compares the next reading with: no change is held back as
   already told to a host that came back. *)
HostInStep == \A t \in asked : host[t] = previous[t]

=============================================================================
