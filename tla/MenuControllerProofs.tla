------------------------- MODULE MenuControllerProofs -------------------------
(***************************************************************************)
(* The previous program, for every clock, trigger and hold time, every length *)
(* of the hour and the day, every step of a time and every content of EEPROM  *)
(* the program may have left: the piston's hold is dead code, the settings     *)
(* stay in range, the menu shows what a reset would bring back, and the motor  *)
(* follows the stick.                                                         *)
(***************************************************************************)
EXTENDS MenuController, TLAPS

-----------------------------------------------------------------------------
(* The piston. *)

Pistons ==
  [ isHolding: BOOLEAN, isOpening: BOOLEAN, time: Readings,
    timeStarted: Readings, timeHeld: Readings, holdTimeStart: Readings,
    lastState: {-1, 0, 1}, openPin: {LOW, HIGH}, closePin: {LOW, HIGH},
    pwmPin: Speeds ]

(* HoldNeverEngages is not inductive: between two pauses the push is dated with
   the same reading, or with none. *)
PistonInv ==
  /\ piston \in Pistons
  /\ millis \in Readings
  /\ ~piston.isHolding /\ piston.timeHeld = 0 /\ piston.pwmPin # "full"
  /\ piston.timeStarted \in {0, piston.time}

(* A new piston. *)
LEMMA NewPiston == millis = 0 /\ piston = PistonInit => PistonInv
  BY PistonAssumption DEF PistonInv, PistonInit, Pistons, Speeds, Readings, LOW, HIGH

(* A push dates itself with the field time and so lasts no time. *)
LEMMA ElapsedPiston ==
  ASSUME PistonInv
  PROVE  setTimeElapsed(piston)
           = [piston EXCEPT !.timeStarted = piston.time, !.timeHeld = 0]
<1>1. (piston.time - piston.time) % ClockWidth = 0
  BY PistonAssumption DEF PistonInv, Pistons, Readings
<1>2. (IF piston.timeStarted = 0 THEN piston.time ELSE piston.timeStarted)
        = piston.time
  BY DEF PistonInv
<1> QED
  BY <1>1, <1>2 DEF setTimeElapsed

(* A push drives the motor one way or the other, and does nothing else. *)
LEMMA PushPiston ==
  ASSUME PistonInv, NEW state \in {-1, 1},
         piston' = movePiston(piston, state), UNCHANGED millis
  PROVE  /\ PistonInv'
         /\ piston'.pwmPin = "pushed"
         /\ state = 1 => piston'.openPin = HIGH /\ piston'.closePin = LOW
         /\ state = -1 => piston'.openPin = LOW /\ piston'.closePin = HIGH
<1> DEFINE q == Drive(setTimeElapsed(piston), state)
<1>1. q = [piston EXCEPT !.timeStarted = piston.time, !.timeHeld = 0,
             !.lastState = state, !.pwmPin = "pushed",
             !.openPin = IF state > 0 THEN HIGH ELSE LOW,
             !.closePin = IF state > 0 THEN LOW ELSE HIGH]
  BY ElapsedPiston DEF Drive, PistonInv, Pistons
<1>2. q.timeHeld = 0
  BY <1>1 DEF PistonInv, Pistons
<1>3. piston' = q
  BY <1>2, PistonAssumption DEF movePiston
<1>4. q \in Pistons
  BY <1>1, PistonAssumption DEF PistonInv, Pistons, Readings, Speeds, LOW, HIGH
<1>5. /\ ~q.isHolding /\ q.pwmPin = "pushed" /\ q.timeStarted = q.time
      /\ q.openPin = IF state > 0 THEN HIGH ELSE LOW
      /\ q.closePin = IF state > 0 THEN LOW ELSE HIGH
  BY <1>1 DEF PistonInv, Pistons
<1>6. PistonInv'
  BY <1>2, <1>3, <1>4, <1>5 DEF PistonInv
<1> QED
  BY <1>3, <1>5, <1>6

(* A pause stops the motor. *)
LEMMA PausePiston ==
  ASSUME PistonInv, piston' = Loop(piston, millis), UNCHANGED millis
  PROVE  PistonInv' /\ piston'.pwmPin = "off"
<1>1. piston' = [piston EXCEPT !.time = millis, !.pwmPin = "off",
                               !.timeHeld = 0, !.timeStarted = 0]
  BY DEF Loop, resetTime, PistonInv, Pistons
<1>2. piston' \in Pistons
  BY <1>1, PistonAssumption DEF PistonInv, Pistons, Readings, Speeds
<1>3. /\ ~piston'.isHolding /\ piston'.timeHeld = 0 /\ piston'.pwmPin = "off"
      /\ piston'.timeStarted = 0
  BY <1>1 DEF PistonInv, Pistons
<1> QED
  BY <1>2, <1>3 DEF PistonInv

(* The clock moves on, or nothing does. *)
LEMMA TickPiston == PistonInv /\ (Tick \/ UNCHANGED vars) => PistonInv'
  BY DEF PistonInv, Tick, vars

LEMMA NextPiston == PistonInv /\ [Next]_vars => PistonInv'
  BY PushPiston, PausePiston, TickPiston DEF Next, Push, Pause

(* However long the stick is pushed, no hold begins. *)
THEOREM HoldIsDead == Spec => []HoldNeverEngages
<1>1. PistonInv => HoldNeverEngages
  BY DEF PistonInv, HoldNeverEngages
<1>2. Init => PistonInv
  BY NewPiston DEF Init
<1> QED
  BY <1>1, <1>2, NextPiston, PTL DEF Spec

-----------------------------------------------------------------------------
(* The list of settings. *)

States == {3, 4, 8}
Clocks == {5, 6, 9, 10}

LEMMA Items ==
  /\ Stored("StoredState") = States /\ Stored("StoredTime") = Clocks
  /\ Settings = States \cup Clocks
  /\ \A i \in 1 .. 10 : mainList[i] = Piston <=> i = 2
<1>1. DOMAIN mainList = 1 .. 10
  BY DEF mainList
<1>2. \A i \in 1 .. 10 : mainList[i].class = "StoredState" <=> i \in States
  BY DEF mainList, Action, Piston, StoredState, StoredTime, States
<1>3. \A i \in 1 .. 10 : mainList[i].class = "StoredTime" <=> i \in Clocks
  BY DEF mainList, Action, Piston, StoredState, StoredTime, Clocks
<1>4. \A i \in 1 .. 10 : mainList[i].class = "ControlPiston" <=> i = 2
  BY DEF mainList, Action, Piston, StoredState, StoredTime
<1>5. \A i \in 1 .. 10 : mainList[i] = Piston <=> i = 2
  <2>1. Piston.class = "ControlPiston" /\ mainList[2] = Piston
    BY DEF Piston, mainList
  <2> QED
    BY <1>4, <2>1
<1>6. States \subseteq 1 .. 10 /\ Clocks \subseteq 1 .. 10
  BY DEF States, Clocks
<1>7. Stored("StoredState") = States
  BY <1>1, <1>2, <1>6 DEF Stored
<1>8. Stored("StoredTime") = Clocks
  BY <1>1, <1>3, <1>6 DEF Stored
<1> QED
  BY <1>5, <1>7, <1>8 DEF Settings

(* Where each setting is kept. *)
LEMMA Layout ==
  /\ mainList[3].address = 0 /\ mainList[4].address = 1 /\ mainList[8].address = 6
  /\ mainList[5].address = 2 /\ mainList[6].address = 4
  /\ mainList[9].address = 7 /\ mainList[10].address = 9
  /\ mainList[3].count = 2 /\ mainList[4].count = 2 /\ mainList[8].count = 3
  BY DEF mainList, StoredState, StoredTime

(* The bytes of a setting. *)
Address(i) == mainList[i].address
Cells(i) == IF i \in States THEN {Address(i)} ELSE {Address(i), Address(i) + 1}

(* No two settings share a byte. *)
LEMMA Apart ==
  /\ \A i \in Settings : Address(i) \in Addresses /\ Cells(i) \subseteq Addresses
  /\ \A i, j \in Settings : i # j => Cells(i) \cap Cells(j) = {}
<1>1. /\ Cells(3) = {0} /\ Cells(4) = {1} /\ Cells(8) = {6}
      /\ Cells(5) = {2, 3} /\ Cells(6) = {4, 5}
      /\ Cells(9) = {7, 8} /\ Cells(10) = {9, 10}
  BY Layout DEF Cells, Address, States
<1>2. \A i \in Settings : Address(i) \in Cells(i)
  BY DEF Cells
<1>3. Settings = {3, 4, 5, 6, 8, 9, 10}
  BY Items DEF States, Clocks
<1>4. \A i \in Settings : Cells(i) \subseteq Addresses
  BY <1>1, <1>3 DEF Addresses
<1>5. \A i, j \in Settings : i # j => Cells(i) \cap Cells(j) = {}
  <2> SUFFICES ASSUME NEW i \in Settings, NEW j \in Settings, i # j,
                      NEW a \in Cells(i) \cap Cells(j)
               PROVE  FALSE
    OBVIOUS
  <2>1. CASE i \in {3, 4, 8}
    BY <2>1, <1>1, <1>3
  <2>2. CASE i \in {5, 6}
    BY <2>2, <1>1, <1>3
  <2>3. CASE i \in {9, 10}
    BY <2>3, <1>1, <1>3
  <2> QED
    BY <2>1, <2>2, <2>3, <1>3
<1> QED
  BY <1>2, <1>4, <1>5

(* A state counts to two or three, and its number fits a byte. *)
LEMMA Counts ==
  \A i \in States : mainList[i].count \in Nat \ {0} /\ mainList[i].count <= ByteSize
  BY Layout, MenuAssumption DEF States

-----------------------------------------------------------------------------
(* The two bytes of a time. *)

LEMMA Units ==
  /\ MinutesPerHour \in Nat \ {0} /\ HoursPerDay \in Nat \ {0} /\ STEP \in Nat \ {0}
  /\ ByteSize \in Nat \ {0} /\ MinutesPerHour <= ByteSize /\ HoursPerDay <= ByteSize
  /\ MinutesPerDay \in Nat \ {0} /\ STEP <= MinutesPerDay
<1>1. /\ MinutesPerHour \in Nat \ {0} /\ HoursPerDay \in Nat \ {0} /\ STEP \in Nat \ {0}
      /\ ByteSize \in Nat \ {0} /\ MinutesPerHour <= ByteSize /\ HoursPerDay <= ByteSize
      /\ STEP <= MinutesPerDay
  BY MenuAssumption DEF MinutesPerDay
<1>2. MinutesPerDay \in Nat
  BY <1>1 DEF MinutesPerDay
<1> QED
  BY <1>1, <1>2

(* An hour and a minute are a time of the day. *)
LEMMA Joined ==
  ASSUME NEW h \in Nat, NEW m \in Nat, h < HoursPerDay, m < MinutesPerHour
  PROVE  h * MinutesPerHour + m \in 0 .. MinutesPerDay - 1
<1>1. h + 1 <= HoursPerDay
  BY Units
<1>2. (h + 1) * MinutesPerHour <= HoursPerDay * MinutesPerHour
  BY <1>1, Units
<1>3. (h + 1) * MinutesPerHour = h * MinutesPerHour + MinutesPerHour
  BY Units
<1>4. h * MinutesPerHour \in Nat
  BY Units
<1>5. HoursPerDay * MinutesPerHour = MinutesPerDay
  BY Units DEF MinutesPerDay
<1> QED
  BY <1>2, <1>3, <1>4, <1>5, Units

(* A time of the day is an hour, which fits a byte, and a minute. *)
LEMMA Taken ==
  ASSUME NEW t \in 0 .. MinutesPerDay - 1
  PROVE  /\ (t \div MinutesPerHour) % ByteSize \in 0 .. HoursPerDay - 1
         /\ t % MinutesPerHour \in 0 .. MinutesPerHour - 1
         /\ ((t \div MinutesPerHour) % ByteSize) * MinutesPerHour + (t % MinutesPerHour) = t
<1> DEFINE h == t \div MinutesPerHour
           m == t % MinutesPerHour
<1>1. t \in Nat /\ h \in Int /\ m \in 0 .. MinutesPerHour - 1
  BY Units
<1>2. t = h * MinutesPerHour + m
  BY Units
<1>3. h \in Nat
  BY Units
<1>4. h < HoursPerDay
  <2> HIDE DEF h, m
  <2> SUFFICES ASSUME h >= HoursPerDay PROVE FALSE
    BY <1>3, Units
  <2>1. h * MinutesPerHour >= HoursPerDay * MinutesPerHour
    BY <1>3, Units
  <2>2. HoursPerDay * MinutesPerHour = MinutesPerDay
    BY Units DEF MinutesPerDay
  <2>3. h * MinutesPerHour \in Nat
    BY <1>3, Units
  <2> QED
    BY <2>1, <2>2, <2>3, <1>1, <1>2, Units
<1>5. h % ByteSize = h
  <2> HIDE DEF h
  <2> QED
    BY <1>3, <1>4, Units
<1>6. h \in 0 .. HoursPerDay - 1
  BY <1>3, <1>4, Units
<1> HIDE DEF h, m
<1>7. h % ByteSize \in 0 .. HoursPerDay - 1 /\ (h % ByteSize) * MinutesPerHour + m = t
  BY <1>2, <1>5, <1>6
<1> QED
  BY <1>1, <1>7 DEF h, m

-----------------------------------------------------------------------------
(* What EEPROM holds and what memory holds. *)

ValuesOK(v) ==
  /\ v \in [Settings -> Nat]
  /\ \A i \in States : v[i] < mainList[i].count
  /\ \A i \in Clocks : v[i] < MinutesPerDay

(* Bytes in range, item by item. *)
LEMMA RangeOf ==
  ASSUME NEW bytes
  PROVE  InRange(bytes) <=>
           /\ bytes \in [Addresses -> 0 .. ByteSize - 1]
           /\ \A i \in States : bytes[Address(i)] < mainList[i].count
           /\ \A i \in Clocks : /\ bytes[Address(i)] < HoursPerDay
                                /\ bytes[Address(i) + 1] < MinutesPerHour
  BY Items DEF InRange, Address

(* The bytes of a setting are bytes. *)
LEMMA BytesOf ==
  ASSUME NEW bytes, InRange(bytes), NEW i \in Settings
  PROVE  /\ bytes[Address(i)] \in Nat
         /\ i \in Clocks => bytes[Address(i) + 1] \in Nat
<1>1. \A a \in Addresses : bytes[a] \in Nat
  BY RangeOf, Units
<1>2. Cells(i) \subseteq Addresses /\ Address(i) \in Addresses
  BY Apart
<1>3. i \in Clocks => Address(i) + 1 \in Cells(i)
  BY DEF Cells, Clocks, States
<1> QED
  BY <1>1, <1>2, <1>3

(* What is loaded of a state and of a time. *)
LEMMA LoadOf ==
  ASSUME NEW bytes
  PROVE  /\ \A i \in States : Load(bytes, i) = bytes[Address(i)]
         /\ \A i \in Clocks :
              Load(bytes, i) = bytes[Address(i)] * MinutesPerHour + bytes[Address(i) + 1]
<1>1. /\ \A i \in States : mainList[i].class = "StoredState"
      /\ \A i \in Clocks : mainList[i].class # "StoredState"
  BY Items DEF Stored
<1> QED
  BY <1>1 DEF Load, Address

(* A reset loads settings that are in range. *)
LEMMA LoadedOK ==
  ASSUME NEW bytes, InRange(bytes)
  PROVE  ValuesOK(LoadAll(bytes))
<1>1. States \subseteq Settings /\ Clocks \subseteq Settings /\ Settings = States \cup Clocks
  BY Items
<1>2. ASSUME NEW i \in States
      PROVE  Load(bytes, i) \in Nat /\ Load(bytes, i) < mainList[i].count
  BY <1>1, LoadOf, BytesOf, RangeOf
<1>3. ASSUME NEW i \in Clocks
      PROVE  Load(bytes, i) \in Nat /\ Load(bytes, i) < MinutesPerDay
  <2>1. /\ bytes[Address(i)] \in Nat /\ bytes[Address(i) + 1] \in Nat
        /\ bytes[Address(i)] < HoursPerDay /\ bytes[Address(i) + 1] < MinutesPerHour
    BY <1>1, BytesOf, RangeOf
  <2>2. Load(bytes, i) = bytes[Address(i)] * MinutesPerHour + bytes[Address(i) + 1]
    BY LoadOf
  <2>3. Load(bytes, i) \in 0 .. MinutesPerDay - 1
    BY <2>1, <2>2, Joined
  <2> QED
    BY <2>3, Units
<1>4. LoadAll(bytes) = [i \in Settings |-> Load(bytes, i)]
  BY DEF LoadAll
<1> QED
  BY <1>1, <1>2, <1>3, <1>4 DEF ValuesOK

(* The bytes a setting is loaded from are its own. *)
LEMMA LoadOwn ==
  ASSUME NEW old, NEW new, NEW i \in Settings,
         \A a \in Cells(i) : new[a] = old[a]
  PROVE  Load(new, i) = Load(old, i)
<1>1. CASE i \in States
  BY <1>1, LoadOf DEF Cells
<1>2. CASE i \in Clocks
  BY <1>2, LoadOf DEF Cells, Clocks, States
<1> QED
  BY <1>1, <1>2, Items

(* A save, whole or cut short, writes in the bytes of the setting alone and
   leaves every byte in range. *)
LEMMA SavedFirst ==
  ASSUME InRange(eeprom), ValuesOK(value), NEW i \in Settings
  PROVE  /\ InRange(SaveFirst(i))
         /\ \A a \in Addresses \ {Address(i)} : SaveFirst(i)[a] = eeprom[a]
         /\ i \in States => SaveFirst(i)[Address(i)] = value[i]
         /\ i \in Clocks =>
              SaveFirst(i)[Address(i)] = (value[i] \div MinutesPerHour) % ByteSize
<1> DEFINE b == IF i \in States THEN value[i] ELSE (value[i] \div MinutesPerHour) % ByteSize
           new == SaveFirst(i)
<1>1. Settings = States \cup Clocks /\ States \cap Clocks = {}
  BY Items DEF States, Clocks
<1>2. i \in States <=> mainList[i].class = "StoredState"
  BY <1>1, Items DEF Stored, States, Clocks
<1>3. new = [eeprom EXCEPT ![Address(i)] = b]
  BY <1>2 DEF SaveFirst, Address
<1>4. eeprom \in [Addresses -> 0 .. ByteSize - 1] /\ Address(i) \in Addresses
  BY RangeOf, Apart
<1>5. i \in States => b \in Nat /\ b < mainList[i].count /\ b < ByteSize
  <2>1. i \in States => b = value[i] /\ value[i] \in Nat /\ value[i] < mainList[i].count
    BY DEF ValuesOK
  <2> QED
    BY <2>1, Counts, Units
<1>6. i \in Clocks => b \in Nat /\ b < HoursPerDay /\ b < ByteSize
  <2> SUFFICES ASSUME i \in Clocks PROVE b \in Nat /\ b < HoursPerDay /\ b < ByteSize
    OBVIOUS
  <2>1. b = (value[i] \div MinutesPerHour) % ByteSize
    BY <1>1
  <2>2. value[i] \in 0 .. MinutesPerDay - 1
    BY Units DEF ValuesOK
  <2>3. b \in 0 .. HoursPerDay - 1
    BY <2>1, <2>2, Taken
  <2> QED
    BY <2>3, Units
<1>7. b \in 0 .. ByteSize - 1
  BY <1>1, <1>5, <1>6, Units
<1> HIDE DEF b, new
<1>8. new \in [Addresses -> 0 .. ByteSize - 1]
  BY <1>3, <1>4, <1>7
<1>9. new[Address(i)] = b /\ \A a \in Addresses \ {Address(i)} : new[a] = eeprom[a]
  BY <1>3, <1>4
<1>10. ASSUME NEW j \in Settings, NEW a \in Cells(j), a # Address(i)
       PROVE  new[a] = eeprom[a]
  BY <1>9, <1>10, Apart
<1>11. ASSUME NEW j \in States PROVE new[Address(j)] < mainList[j].count
  <2>1. CASE j = i
    BY <2>1, <1>5, <1>9
  <2>2. CASE j # i
    <3>1. Address(j) # Address(i)
      BY <2>2, <1>1, Apart DEF Cells
    <3> QED
      BY <3>1, <1>1, <1>10, RangeOf DEF Cells
  <2> QED
    BY <2>1, <2>2
<1>12. ASSUME NEW j \in Clocks
       PROVE  new[Address(j)] < HoursPerDay /\ new[Address(j) + 1] < MinutesPerHour
  <2>1. Cells(j) = {Address(j), Address(j) + 1} /\ Address(j) + 1 # Address(j)
    BY <1>1, Apart DEF Cells, Addresses
  <2>2. Address(j) + 1 # Address(i)
    <3>1. j = i \/ Address(i) \notin Cells(j)
      BY <1>1, Apart DEF Cells
    <3> QED
      BY <2>1, <3>1
  <2>3. new[Address(j) + 1] < MinutesPerHour
    BY <2>1, <2>2, <1>1, <1>10, RangeOf
  <2>4. CASE j = i
    BY <2>4, <2>3, <1>6, <1>9
  <2>5. CASE j # i
    <3>1. Address(j) # Address(i)
      BY <2>5, <1>1, Apart DEF Cells
    <3> QED
      BY <3>1, <2>1, <2>3, <1>1, <1>10, RangeOf
  <2> QED
    BY <2>4, <2>5
<1>13. InRange(new)
  BY <1>8, <1>11, <1>12, RangeOf
<1> QED
  BY <1>1, <1>9, <1>13 DEF b, new

(* What has been saved is what will be loaded, and nothing else has changed. *)
LEMMA Saved ==
  ASSUME InRange(eeprom), ValuesOK(value), NEW i \in Settings
  PROVE  /\ InRange(Save(i))
         /\ Load(Save(i), i) = value[i]
         /\ \A j \in Settings \ {i} : Load(Save(i), j) = Load(eeprom, j)
<1> DEFINE first == SaveFirst(i)
           new == Save(i)
           m == value[i] % MinutesPerHour
<1>1. Settings = States \cup Clocks /\ States \cap Clocks = {}
  BY Items DEF States, Clocks
<1>2. i \in States <=> mainList[i].class = "StoredState"
  BY <1>1, Items DEF Stored, States, Clocks
<1>3. /\ InRange(first)
      /\ \A a \in Addresses \ {Address(i)} : first[a] = eeprom[a]
  BY SavedFirst
<1>4. \A j \in Settings : Cells(j) \subseteq Addresses
  BY Apart
<1>5. CASE i \in States
  <2>1. new = first
    BY <1>2, <1>5 DEF Save
  <2>2. Load(new, i) = value[i]
    BY <2>1, <1>5, SavedFirst, LoadOf
  <2>3. ASSUME NEW j \in Settings \ {i} PROVE Load(new, j) = Load(eeprom, j)
    <3>1. \A a \in Cells(j) : new[a] = eeprom[a]
      BY <2>1, <1>3, <1>4, <1>5, Apart DEF Cells
    <3> QED
      BY <3>1, LoadOwn
  <2> QED
    BY <2>1, <2>2, <2>3, <1>3
<1>6. CASE i \in Clocks
  <2>1. i \notin States /\ Cells(i) = {Address(i), Address(i) + 1}
    BY <1>1, <1>6 DEF Cells
  <2>2. new = [first EXCEPT ![Address(i) + 1] = m]
    BY <2>1, <1>2 DEF Save, Address
  <2>3. Address(i) \in Addresses /\ Address(i) + 1 \in Addresses /\ Address(i) + 1 # Address(i)
    BY <2>1, <1>4, Apart DEF Addresses
  <2>4. value[i] \in 0 .. MinutesPerDay - 1
    BY <1>6, <1>1, Units DEF ValuesOK
  <2>5. m \in Nat /\ m < MinutesPerHour /\ m < ByteSize
    <3>1. m \in 0 .. MinutesPerHour - 1
      BY <2>4, Taken DEF m
    <3> HIDE DEF m
    <3> QED
      BY <3>1, Units
  <2> HIDE DEF new, first
  <2>6. first \in [Addresses -> 0 .. ByteSize - 1]
    BY <1>3, RangeOf
  <2>7. /\ new \in [Addresses -> 0 .. ByteSize - 1] /\ new[Address(i) + 1] = m
        /\ \A a \in Addresses \ {Address(i) + 1} : new[a] = first[a]
    <3> HIDE DEF m
    <3> QED
      BY <2>2, <2>3, <2>5, <2>6, Units
  <2>8. new[Address(i)] = (value[i] \div MinutesPerHour) % ByteSize
    BY <2>3, <2>7, <1>6, SavedFirst DEF first
  <2>9. Load(new, i) = value[i]
    <3>1. Load(new, i) = new[Address(i)] * MinutesPerHour + new[Address(i) + 1]
      BY <1>6, LoadOf
    <3>2. ((value[i] \div MinutesPerHour) % ByteSize) * MinutesPerHour + m = value[i]
      BY <2>4, Taken DEF m
    <3> HIDE DEF m
    <3> QED
      BY <3>1, <3>2, <2>7, <2>8
  <2>10. ASSUME NEW j \in Settings \ {i}, NEW a \in Cells(j)
         PROVE  new[a] = first[a] /\ new[a] = eeprom[a]
    <3>1. a \in Addresses /\ a # Address(i) /\ a # Address(i) + 1
      BY <2>1, <1>4, Apart
    <3> QED
      BY <3>1, <2>7, <1>3 DEF first
  <2>11. ASSUME NEW j \in Settings \ {i} PROVE Load(new, j) = Load(eeprom, j)
    BY <2>10, LoadOwn
  <2>12. \A j \in States : new[Address(j)] < mainList[j].count
    <3> SUFFICES ASSUME NEW j \in States PROVE new[Address(j)] < mainList[j].count
      OBVIOUS
    <3>1. j \in Settings \ {i} /\ Address(j) \in Cells(j)
      BY <2>1, <1>1 DEF Cells
    <3> QED
      BY <3>1, <2>10, <1>3, RangeOf DEF first
  <2>13. \A j \in Clocks : new[Address(j)] < HoursPerDay /\ new[Address(j) + 1] < MinutesPerHour
    <3> SUFFICES ASSUME NEW j \in Clocks
                 PROVE  new[Address(j)] < HoursPerDay /\ new[Address(j) + 1] < MinutesPerHour
      OBVIOUS
    <3>1. first[Address(j)] < HoursPerDay /\ first[Address(j) + 1] < MinutesPerHour
      BY <1>3, RangeOf DEF first
    <3>2. CASE j = i
      BY <3>1, <3>2, <2>3, <2>5, <2>7
    <3>3. CASE j # i
      <4>1. j \in Settings \ {i} /\ Address(j) \in Cells(j) /\ Address(j) + 1 \in Cells(j)
        BY <3>3, <1>1 DEF Cells
      <4> QED
        BY <4>1, <3>1, <2>10
    <3> QED
      BY <3>2, <3>3
  <2>14. InRange(new)
    BY <2>7, <2>12, <2>13, RangeOf
  <2> QED
    BY <2>9, <2>11, <2>14 DEF new
<1> QED
  BY <1>1, <1>5, <1>6

-----------------------------------------------------------------------------
(* Pushes change a setting within its range. *)

LEMMA EditedClock ==
  ASSUME NEW t \in 0 .. MinutesPerDay - 1
  PROVE  Later(t) \in 0 .. MinutesPerDay - 1 /\ Earlier(t) \in 0 .. MinutesPerDay - 1
  BY Units DEF Later, Earlier

LEMMA EditedState ==
  ASSUME NEW v \in Int, NEW count \in Nat \ {0}
  PROVE  Modulo(v % ByteSize, count) \in 0 .. count - 1
<1>1. v % ByteSize \in 0 .. ByteSize - 1
  BY Units
<1> DEFINE b == v % ByteSize
<1> HIDE DEF b
<1>2. b \in Nat
  BY <1>1, Units DEF b
<1>3. Modulo(b, count) \in 0 .. count - 1
  BY <1>2 DEF Modulo
<1> QED
  BY <1>3 DEF b

LEMMA Edited ==
  ASSUME ValuesOK(value), NEW i \in Settings
  PROVE  /\ i \in States => /\ Increase(i) \in 0 .. mainList[i].count - 1
                            /\ Decrease(i) \in 0 .. mainList[i].count - 1
         /\ i \in Clocks => /\ Increase(i) \in 0 .. MinutesPerDay - 1
                            /\ Decrease(i) \in 0 .. MinutesPerDay - 1
<1>1. Settings = States \cup Clocks /\ States \cap Clocks = {}
  BY Items DEF States, Clocks
<1>2. i \in Clocks <=> mainList[i].class = "StoredTime"
  BY <1>1, Items DEF Stored, States, Clocks
<1>3. value[i] \in Nat
  BY DEF ValuesOK
<1>4. CASE i \in Clocks
  <2>1. Increase(i) = Later(value[i]) /\ Decrease(i) = Earlier(value[i])
    BY <1>2, <1>4 DEF Increase, Decrease
  <2>2. value[i] \in 0 .. MinutesPerDay - 1
    BY <1>3, <1>4, Units DEF ValuesOK
  <2> QED
    BY <2>1, <2>2, <1>1, <1>4, EditedClock
<1>5. CASE i \in States
  <2>1. /\ Increase(i) = Modulo((value[i] + 1) % ByteSize, mainList[i].count)
        /\ Decrease(i) = Modulo((value[i] - 1) % ByteSize, mainList[i].count)
    BY <1>1, <1>2, <1>5 DEF Increase, Decrease
  <2>2. mainList[i].count \in Nat \ {0}
    BY <1>5, Counts
  <2>3. value[i] + 1 \in Int /\ value[i] - 1 \in Int
    BY <1>3
  <2>4. /\ Increase(i) \in 0 .. mainList[i].count - 1
        /\ Decrease(i) \in 0 .. mainList[i].count - 1
    BY <2>1, <2>2, <2>3, EditedState
  <2> QED
    BY <2>4, <1>1, <1>5
<1> QED
  BY <1>1, <1>4, <1>5

-----------------------------------------------------------------------------
(* The three properties together, with the piston's invariant, are inductive. *)

CursorOK == posX \in 0 .. size - 1 /\ posY \in {0, 1} /\ stickState \in Sticks

MenuInv ==
  /\ PistonInv /\ CursorOK
  /\ ValuesOK(value) /\ InRange(eeprom)
  /\ SurvivesReset
  /\ MotorFollowsStick

(* The item served, edited or left: the piston is the second of the list. *)
LEMMA SelectedItem ==
  ASSUME CursorOK
  PROVE  Selected \in 1 .. 10 /\ (mainList[Selected] = Piston <=> posX = 1)
<1>1. Selected \in 1 .. 10 /\ (Selected = 2 <=> posX = 1)
  BY DEF CursorOK, Selected, size
<1> QED
  BY <1>1, Items

(* A program that starts with bytes in range shows what they say. *)
LEMMA Started ==
  ASSUME NEW bytes, InRange(bytes), Start(bytes)
  PROVE  MenuInv'
<1>1. /\ eeprom' = bytes /\ value' = LoadAll(bytes)
      /\ posX' = 0 /\ posY' = 0 /\ stickState' = "IDLE"
      /\ millis' = 0 /\ piston' = PistonInit
  BY DEF Start
<1>2. PistonInv'
  BY <1>1, PistonAssumption DEF PistonInv, PistonInit, Pistons, Speeds, Readings, LOW, HIGH
<1>3. CursorOK'
  BY <1>1 DEF CursorOK, size, Sticks
<1>4. ValuesOK(value') /\ InRange(eeprom')
  BY <1>1, LoadedOK
<1>5. SurvivesReset'
  BY <1>1 DEF SurvivesReset, LoadAll
<1>6. MotorFollowsStick'
  BY <1>1 DEF MotorFollowsStick
<1> QED
  BY <1>2, <1>3, <1>4, <1>5, <1>6 DEF MenuInv

LEMMA InitMenu == MenuInit => MenuInv
<1> SUFFICES ASSUME MenuInit PROVE MenuInv
  OBVIOUS
<1>1. /\ eeprom = FirstEeprom /\ value = LoadAll(FirstEeprom)
      /\ posX = 0 /\ posY = 0 /\ stickState = "IDLE"
  BY DEF MenuInit
<1>2. PistonInv
  BY NewPiston DEF MenuInit, Init
<1>3. CursorOK
  BY <1>1 DEF CursorOK, size, Sticks
<1>4. ValuesOK(value) /\ InRange(eeprom)
  BY <1>1, LoadedOK, FirstEepromAssumption
<1>5. SurvivesReset
  BY <1>1 DEF SurvivesReset, LoadAll
<1>6. MotorFollowsStick
  BY <1>1 DEF MotorFollowsStick
<1> QED
  BY <1>2, <1>3, <1>4, <1>5, <1>6 DEF MenuInv

(* The cursor moves over the list: nothing is edited and the motor is as it was. *)
LEMMA MoveStep == MenuInv /\ stickState' \in Sticks /\ Move /\ UNCHANGED millis => MenuInv'
<1> SUFFICES ASSUME MenuInv, stickState' \in Sticks, Move, UNCHANGED millis PROVE MenuInv'
  OBVIOUS
<1>1. posY = 0 /\ posY' = 0 /\ UNCHANGED <<piston, value, eeprom>>
  BY DEF Move
<1>2. posX' \in 0 .. size - 1
  BY DEF Move, MenuInv, CursorOK, size
<1>3. PistonInv' /\ ValuesOK(value') /\ InRange(eeprom')
  BY <1>1 DEF MenuInv, PistonInv
<1>4. SurvivesReset'
  BY <1>1 DEF MenuInv, SurvivesReset
<1>5. MotorFollowsStick'
  BY <1>1 DEF MotorFollowsStick
<1> QED
  BY <1>1, <1>2, <1>3, <1>4, <1>5 DEF MenuInv, CursorOK

(* An item that is entered or dwelt on is served: the piston's motor stops. *)
LEMMA ServeStep ==
  ASSUME MenuInv, Serve, posY' = 1, stickState' \in {"IDLE", "MOVERIGHT"}, UNCHANGED millis
  PROVE  MenuInv'
<1>1. UNCHANGED <<posX, value, eeprom, millis>>
  BY DEF Serve
<1>2. mainList[Selected] = Piston <=> posX = 1
  BY SelectedItem DEF MenuInv
<1>3. PistonInv' /\ (posX = 1 => piston'.pwmPin = "off")
  <2>1. CASE posX = 1
    BY <2>1, <1>2, PausePiston DEF MenuInv, Serve
  <2>2. CASE posX # 1
    BY <2>2, <1>2 DEF MenuInv, PistonInv, Serve
  <2> QED
    BY <2>1, <2>2
<1>4. CursorOK'
  BY <1>1 DEF MenuInv, CursorOK, Sticks
<1>5. ValuesOK(value') /\ InRange(eeprom')
  BY <1>1 DEF MenuInv
<1>6. SurvivesReset'
  BY <1>1 DEF MenuInv, SurvivesReset, CursorOK, Selected
<1>7. (mainList[Selected] = Piston)' <=> posX = 1
  BY <1>1, <1>2 DEF Selected
<1>8. MotorFollowsStick'
  BY <1>3, <1>7 DEF MotorFollowsStick
<1> QED
  BY <1>3, <1>4, <1>5, <1>6, <1>8 DEF MenuInv

(* A push edits the selected setting in memory, or moves the piston. *)
LEMMA EditStep ==
  ASSUME MenuInv, Edit, UNCHANGED millis
  PROVE  MenuInv'
<1> DEFINE new(i) == IF stickState' = "MOVEDOWN" THEN Increase(i) ELSE Decrease(i)
<1>1. /\ posY = 1 /\ stickState' \in {"MOVEDOWN", "MOVEUP"}
      /\ UNCHANGED <<posX, posY, eeprom, millis>>
  BY DEF Edit
<1>2. value' = [i \in Settings |-> IF i # Selected THEN value[i] ELSE new(i)]
  BY DEF Edit
<1>3. ValuesOK(value)
  BY DEF MenuInv
<1>4. ValuesOK(value')
  <2>1. States \subseteq Settings /\ Clocks \subseteq Settings /\ Settings = States \cup Clocks
    BY Items
  <2>2. ASSUME NEW i \in States PROVE value'[i] \in Nat /\ value'[i] < mainList[i].count
    <3>1. new(i) \in 0 .. mainList[i].count - 1 /\ mainList[i].count \in Nat
      BY <2>1, <1>3, Edited, Counts
    <3>2. value[i] \in Nat /\ value[i] < mainList[i].count
      BY <2>1, <1>3 DEF ValuesOK
    <3>3. value'[i] \in {value[i], new(i)}
      BY <2>1, <1>2
    <3> HIDE DEF new
    <3> QED
      BY <3>1, <3>2, <3>3
  <2>3. ASSUME NEW i \in Clocks PROVE value'[i] \in Nat /\ value'[i] < MinutesPerDay
    <3>1. new(i) \in 0 .. MinutesPerDay - 1
      BY <2>1, <1>3, Edited
    <3>2. value[i] \in Nat /\ value[i] < MinutesPerDay
      BY <2>1, <1>3 DEF ValuesOK
    <3>3. value'[i] \in {value[i], new(i)}
      BY <2>1, <1>2
    <3> HIDE DEF new
    <3> QED
      BY <3>1, <3>2, <3>3, Units
  <2>4. value' = [i \in Settings |-> value'[i]]
    BY <1>2
  <2> QED
    BY <2>1, <2>2, <2>3, <2>4 DEF ValuesOK
<1>5. SurvivesReset'
  BY <1>1, <1>2 DEF MenuInv, SurvivesReset, Selected
<1>6. mainList[Selected] = Piston <=> posX = 1
  BY SelectedItem DEF MenuInv
<1>7. PistonInv' /\ MotorFollowsStick'
  <2>1. CASE posX = 1
    <3> DEFINE state == IF stickState' = "MOVEDOWN" THEN 1 ELSE -1
    <3>1. piston' = movePiston(piston, state) /\ state \in {-1, 1}
      BY <1>6, <2>1 DEF Edit
    <3>2. /\ PistonInv' /\ piston'.pwmPin = "pushed"
          /\ state = 1 => piston'.openPin = HIGH /\ piston'.closePin = LOW
          /\ state = -1 => piston'.openPin = LOW /\ piston'.closePin = HIGH
      <4> HIDE DEF state
      <4> QED
        BY <3>1, <1>1, PushPiston DEF MenuInv
    <3>3. MotorFollowsStick'
      BY <1>1, <3>2 DEF MotorFollowsStick
    <3> QED
      BY <3>2, <3>3
  <2>2. CASE posX # 1
    <3>1. UNCHANGED piston
      BY <1>6, <2>2 DEF Edit
    <3>2. ~(mainList[Selected] = Piston)'
      BY <1>1, <1>6, <2>2 DEF Selected
    <3> QED
      BY <3>1, <3>2, <1>1 DEF MenuInv, PistonInv, MotorFollowsStick
  <2> QED
    BY <2>1, <2>2
<1> QED
  BY <1>1, <1>4, <1>5, <1>7 DEF MenuInv, CursorOK, Sticks

(* An item that is left has been saved. *)
LEMMA LeaveStep ==
  ASSUME MenuInv, Leave, UNCHANGED millis
  PROVE  MenuInv'
<1>1. /\ posY = 1 /\ posY' = 0 /\ stickState' = "MOVELEFT"
      /\ UNCHANGED <<posX, piston, value, millis>>
      /\ eeprom' = IF Selected \in Settings THEN Save(Selected) ELSE eeprom
  BY DEF Leave
<1>2. InRange(eeprom) /\ ValuesOK(value)
  BY DEF MenuInv
<1>3. \A i \in Settings : i # Selected => Load(eeprom, i) = value[i]
  BY <1>1 DEF MenuInv, SurvivesReset
<1>4. InRange(eeprom') /\ \A i \in Settings : Load(eeprom', i) = value[i]
  <2>1. CASE Selected \in Settings
    BY <2>1, <1>1, <1>2, <1>3, Saved
  <2>2. CASE Selected \notin Settings
    BY <2>2, <1>1, <1>2, <1>3
  <2> QED
    BY <2>1, <2>2
<1>5. SurvivesReset'
  BY <1>1, <1>4 DEF SurvivesReset, Load
<1>6. CursorOK' /\ PistonInv' /\ MotorFollowsStick'
  BY <1>1 DEF MenuInv, CursorOK, PistonInv, MotorFollowsStick, Sticks
<1> QED
  BY <1>1, <1>2, <1>4, <1>5, <1>6 DEF MenuInv

(* Every step keeps the invariant, a reset in the middle of a save too. *)
LEMMA NextMenu == MenuInv /\ [MenuNext]_allVars => MenuInv'
<1> SUFFICES ASSUME MenuInv, [MenuNext]_allVars PROVE MenuInv'
  OBVIOUS
<1>1. CASE Pass
  <2>1. stickState' \in Sticks /\ UNCHANGED millis
    BY <1>1 DEF Pass
  <2>2. CASE Move
    BY <2>1, <2>2, MoveStep
  <2>3. CASE Enter
    BY <2>1, <2>3, ServeStep DEF Enter
  <2>4. CASE Dwell
    BY <2>1, <2>4, ServeStep DEF Dwell
  <2>5. CASE Edit
    BY <2>1, <2>5, EditStep
  <2>6. CASE Leave
    BY <2>1, <2>6, LeaveStep
  <2> QED
    BY <1>1, <2>2, <2>3, <2>4, <2>5, <2>6 DEF Pass
<1>2. CASE Wait \/ UNCHANGED allVars
  <2>1. UNCHANGED <<posX, posY, stickState, value, eeprom, piston>>
    BY <1>2 DEF Wait, Tick, allVars, menu, vars
  <2>2. PistonInv'
    BY <1>2, TickPiston DEF MenuInv, Wait, allVars
  <2> QED
    BY <2>1, <2>2 DEF MenuInv, CursorOK, SurvivesReset, MotorFollowsStick, Selected
<1>3. CASE Reset
  BY <1>3, Started DEF Reset, MenuInv
<1>4. CASE ResetInSave
  <2>1. Selected \in Settings
    BY <1>4 DEF ResetInSave, Settings
  <2>2. InRange(SaveFirst(Selected))
    BY <2>1, SavedFirst DEF MenuInv
  <2> QED
    BY <2>2, <1>4, Started DEF ResetInSave
<1> QED
  BY <1>1, <1>2, <1>3, <1>4 DEF MenuNext

(* The invariant holds of every behaviour. *)
LEMMA MenuSpecInv == MenuSpec => []MenuInv
  BY InitMenu, NextMenu, PTL DEF MenuSpec

(* Settings, cursor and EEPROM stay in range, whenever the board is reset. *)
THEOREM MenuTyped == MenuSpec => []TypeOK
<1>1. MenuInv => TypeOK
  <2> SUFFICES ASSUME MenuInv PROVE TypeOK
    OBVIOUS
  <2>1. \A i \in Stored("StoredState") : value[i] \in 0 .. mainList[i].count - 1
    BY Items, Counts DEF MenuInv, ValuesOK
  <2>2. \A i \in Stored("StoredTime") : value[i] \in 0 .. MinutesPerDay - 1
    BY Items, Units DEF MenuInv, ValuesOK
  <2> QED
    BY <2>1, <2>2 DEF TypeOK, MenuInv, CursorOK
<1> QED
  BY <1>1, MenuSpecInv, PTL

(* A reset brings back every setting but the one being edited. *)
THEOREM SettingsSurviveReset == MenuSpec => []SurvivesReset
<1>1. MenuInv => SurvivesReset
  BY DEF MenuInv
<1> QED
  BY <1>1, MenuSpecInv, PTL

(* The motor of the selected piston follows the stick. *)
THEOREM PistonFollowsStick == MenuSpec => []MotorFollowsStick
<1>1. MenuInv => MotorFollowsStick
  BY DEF MenuInv
<1> QED
  BY <1>1, MenuSpecInv, PTL

(* Nor does a hold begin under the menu, whatever is selected and reset. *)
THEOREM HoldIsDeadInMenu == MenuSpec => []HoldNeverEngages
<1>1. MenuInv => HoldNeverEngages
  BY DEF MenuInv, PistonInv, HoldNeverEngages
<1> QED
  BY <1>1, MenuSpecInv, PTL

=============================================================================
