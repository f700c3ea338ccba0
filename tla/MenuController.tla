---------------------------- MODULE MenuController ----------------------------
(***************************************************************************)
(* The previous program of the controller, HenHouseController.inoDERP: a menu *)
(* moved through with a joystick, whose items are settings kept in EEPROM and *)
(* the piston.  loop() makes one pass after another; in each the stick is in   *)
(* one of five positions.  The board may be reset at any time, also between    *)
(* the two bytes of a time that is being saved.                               *)
(***************************************************************************)
EXTENDS ControlPiston, Sequences

CONSTANTS
  MinutesPerHour, \* 60 in the code
  HoursPerDay,    \* 24 in the code
  STEP,           \* minutes per push, 10 in the code
  ByteSize,       \* 256
  FirstEeprom     \* the bytes the settings have when the program first starts

ASSUME MenuAssumption ==
  /\ {MinutesPerHour, HoursPerDay, STEP} \subseteq Nat \ {0}
  /\ MinutesPerHour <= ByteSize /\ HoursPerDay <= ByteSize
  /\ STEP <= MinutesPerHour * HoursPerDay
  /\ ByteSize \in Nat /\ ByteSize > 2 \* a state counts to three at most

VARIABLES
  posX, posY, \* the cursor: the item, and whether it is being edited
  stickState, \* of the last pass
  value,      \* the value in memory of each setting
  eeprom      \* the byte at each address

menu == <<posX, posY, stickState>>
allVars == <<vars, menu, value, eeprom>>

Sticks == {"IDLE", "MOVEUP", "MOVEDOWN", "MOVELEFT", "MOVERIGHT"}

StoredState(address, count) ==
  [class |-> "StoredState", address |-> address, count |-> count]

StoredTime(address) == [class |-> "StoredTime", address |-> address]

Action == [class |-> "Action"]

Piston == [class |-> "ControlPiston"]

(* Bug: a time that begins in the second byte of the one before. *)
mainListOverlapping ==
  << Action, Piston, StoredState(0, 2), StoredState(1, 2), StoredTime(2),
     StoredTime(3), Action, StoredState(6, 3), StoredTime(7), StoredTime(9) >>

mainList ==
  << Action, Piston, StoredState(0, 2), StoredState(1, 2), StoredTime(2),
     StoredTime(4), Action, StoredState(6, 3), StoredTime(7), StoredTime(9) >>

(* What ctrl is told the size of the list is; the last item is never reached. *)
size == 9

Stored(class) == { i \in DOMAIN mainList : mainList[i].class = class }

Settings == Stored("StoredState") \cup Stored("StoredTime")

Addresses == 0 .. 10

(* Items are counted from 0. *)
Selected == posX + 1

-----------------------------------------------------------------------------
MinutesPerDay == MinutesPerHour * HoursPerDay

(* The constructors of StoredState and StoredTime. *)
Load(bytes, i) ==
  LET a == mainList[i].address
  IN IF mainList[i].class = "StoredState"
       THEN bytes[a]
       ELSE bytes[a] * MinutesPerHour + bytes[a + 1]

LoadAll(bytes) == [i \in Settings |-> Load(bytes, i)]

(* Bytes that saves of the program may have left. *)
InRange(bytes) ==
  /\ bytes \in [Addresses -> 0 .. ByteSize - 1]
  /\ \A i \in Stored("StoredState") : bytes[mainList[i].address] < mainList[i].count
  /\ \A i \in Stored("StoredTime") :
       /\ bytes[mainList[i].address] < HoursPerDay
       /\ bytes[mainList[i].address + 1] < MinutesPerHour

(* The program has run on this board before. *)
ASSUME FirstEepromAssumption == InRange(FirstEeprom)

(* Update writes one byte, or the hour and then the minute. *)
SaveFirst(i) ==
  [eeprom EXCEPT ![mainList[i].address] =
     IF mainList[i].class = "StoredState"
       THEN value[i]
       ELSE (value[i] \div MinutesPerHour) % ByteSize]

Save(i) ==
  IF mainList[i].class = "StoredState"
    THEN SaveFirst(i)
    ELSE [SaveFirst(i) EXCEPT ![mainList[i].address + 1] = value[i] % MinutesPerHour]

Later(t) == IF t + STEP >= MinutesPerDay THEN (t + STEP) % MinutesPerDay ELSE t + STEP

(* Bug: the day is not wrapped at its beginning. *)
EarlierUnwrapped(t) == t - STEP

Earlier(t) == IF t - STEP < 0 THEN t - STEP + MinutesPerDay ELSE t - STEP

(* The state is a byte, so the one before 0 is ByteSize - 1, which for a count of
   three is 0 again. *)
Modulo(b, count) == IF b >= count THEN b % count ELSE b

Increase(i) ==
  IF mainList[i].class = "StoredTime"
    THEN Later(value[i])
    ELSE Modulo((value[i] + 1) % ByteSize, mainList[i].count)

Decrease(i) ==
  IF mainList[i].class = "StoredTime"
    THEN Earlier(value[i])
    ELSE Modulo((value[i] - 1) % ByteSize, mainList[i].count)

-----------------------------------------------------------------------------
(* A pass, by what the position of the stick does in the menu. *)

(* The cursor moves over the list. *)
Move ==
  /\ posY = 0 /\ stickState' # "MOVERIGHT"
  /\ posX' = CASE stickState' = "MOVEDOWN" /\ posX < size - 1 -> posX + 1
               [] stickState' = "MOVEUP" /\ posX > 0 -> posX - 1
               [] OTHER -> posX
  /\ UNCHANGED <<posY, piston, value, eeprom>>

(* Loop of the selected item; only the piston has one. *)
Serve ==
  /\ piston' = IF mainList[Selected] = Piston THEN Loop(piston, millis) ELSE piston
  /\ UNCHANGED <<posX, value, eeprom>>

(* To the right the item is entered, and served in the same pass. *)
Enter == posY = 0 /\ stickState' = "MOVERIGHT" /\ posY' = 1 /\ Serve

Dwell == posY = 1 /\ stickState' \in {"IDLE", "MOVERIGHT"} /\ posY' = 1 /\ Serve

(* Down increases, up decreases; the piston is pushed one way or the other. *)
Edit ==
  /\ posY = 1 /\ stickState' \in {"MOVEDOWN", "MOVEUP"}
  /\ value' = [i \in Settings |->
       IF i # Selected THEN value[i]
       ELSE IF stickState' = "MOVEDOWN" THEN Increase(i) ELSE Decrease(i)]
  /\ piston' = IF mainList[Selected] = Piston
                 THEN movePiston(piston, IF stickState' = "MOVEDOWN" THEN 1 ELSE -1)
                 ELSE piston
  /\ UNCHANGED <<posX, posY, eeprom>>

(* Bug: the settings are only kept in memory. *)
LeaveUnsaved ==
  /\ posY = 1 /\ stickState' = "MOVELEFT"
  /\ posY' = 0
  /\ UNCHANGED <<posX, piston, value, eeprom>>

(* To the left the item is saved and left. *)
Leave ==
  /\ posY = 1 /\ stickState' = "MOVELEFT"
  /\ eeprom' = IF Selected \in Settings THEN Save(Selected) ELSE eeprom
  /\ posY' = 0
  /\ UNCHANGED <<posX, piston, value>>

Pass ==
  /\ stickState' \in Sticks
  /\ Move \/ Enter \/ Dwell \/ Edit \/ Leave
  /\ UNCHANGED millis

Wait == Tick /\ UNCHANGED <<menu, value, eeprom>>

(* The program starts with what EEPROM holds. *)
Start(bytes) ==
  /\ eeprom' = bytes
  /\ value' = LoadAll(bytes)
  /\ posX' = 0 /\ posY' = 0 /\ stickState' = "IDLE"
  /\ millis' = 0 /\ piston' = PistonInit

Reset == Start(eeprom)

ResetInSave == posY = 1 /\ Selected \in Stored("StoredTime") /\ Start(SaveFirst(Selected))

MenuInit ==
  /\ Init
  /\ posX = 0 /\ posY = 0 /\ stickState = "IDLE"
  /\ eeprom = FirstEeprom
  /\ value = LoadAll(FirstEeprom)

MenuNext == Pass \/ Wait \/ Reset \/ ResetInSave

MenuSpec == MenuInit /\ [][MenuNext]_allVars

-----------------------------------------------------------------------------
(* The cursor stays in the list, a state stays below its count and a time within
   the day, also when a reset has put together the hour of one save and the
   minute of another. *)
TypeOK ==
  /\ posX \in 0 .. size - 1 /\ posY \in {0, 1} /\ stickState \in Sticks
  /\ \A i \in Stored("StoredState") : value[i] \in 0 .. mainList[i].count - 1
  /\ \A i \in Stored("StoredTime") : value[i] \in 0 .. MinutesPerDay - 1
  /\ InRange(eeprom)

(* What a reset brings back is what the menu shows: every setting but the one
   being edited is in EEPROM as it is in memory, no save having touched the bytes
   of another. *)
SurvivesReset ==
  \A i \in Settings : posY = 0 \/ i # Selected => Load(eeprom, i) = value[i]

(* While the piston is selected the motor runs exactly when the last pass found
   the stick pushed, and in the direction of that push. *)
MotorFollowsStick ==
  posY = 1 /\ mainList[Selected] = Piston =>
    /\ piston.pwmPin # "off" <=> stickState \in {"MOVEDOWN", "MOVEUP"}
    /\ stickState = "MOVEDOWN" => piston.openPin = HIGH /\ piston.closePin = LOW
    /\ stickState = "MOVEUP" => piston.openPin = LOW /\ piston.closePin = HIGH

=============================================================================
