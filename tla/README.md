# Verification of the hen house controller

TLA+ models of the programs in this repository, TLC runs over small instances
of them, and TLAPS proofs for every instance. `PROJECT.json` is the index: which
definition translates which lines (`map`), what each run checks (`runs`), what can
go wrong where (`hazards`), and for each property a plausible bug that breaks it
(`mutants`; the operators they use are marked "Bug:" in the modules).

    tlc -config DoorMutator.cfg DoorMutator      # one run
    tlapm DoorMutatorProofs.tla                  # one set of proofs

## The system

An Arduino Uno drives the door of a hen house, its heater and its lamp. The
program is `HenHouseController.ino`: `loop()` calls `Applictaion::Loop` for ever,
which hands a record `State` by value through a list of *readers*, which fill in
what is known of the world, and then a list of *mutators*, which drive pins
and fill in what they did. There are no interrupts of the program's own and
no threads: the concurrency is that of the loop with the clock `millis()`, the
user's finger, the GPS receiver, the door itself and the power supply.

| Part | State it keeps | Operation, and whom it talks to |
|---|---|---|
| `Applictaion` (`HenHouseController.ino`) | `State`, the lists, `_lastReport` | `Loop`: readers, mutators, a report every six seconds |
| `GpsReader` | `_gpsTime`, `_gpsMillis`, parser, port | `ReadState` sets `Time`; reads one byte of the serial port per call, and only while it wants a fix |
| `TinyGPS` (vendored) | parity, term, sentence type, pending and committed fields | `encode(c)`, called by `GpsReader` for each byte |
| `ButtonReader` | `lastState`, `downTime` | `ReadState` sets `ButtonClicked/Hold/Released` |
| `ThermoReader` | none | `ReadState` sets `Heat` from the ADC |
| `DoorMutator` | `DoorState`, `DoorActivationTime` in `State`; three pins | `MutateState` reads `Time` and the button |
| `HeaterMutator` | `HeaterOn`, `HeaterChangedTime` in `State`; a relay | `MutateState` reads `Heat` and `millis()` |
| `LightMutator` | `LightsOn` in `State`; a relay | `MutateState` reads `Time` |
| `Logger` | a time | writes text to the serial port |
| `InternetReader` | none | not instantiated |
| Previous program (`HenHouseController.inoDERP`) | menu cursor, settings in memory and EEPROM, piston | `loop()`: one stick position per pass |
| `FGF7FAAILGVEEDM.ino` | none | copies bytes between two ports |
| Firmata sketches (`libraries/Firmata/examples`, Circuit Playground) | modes and levels of the pins, servos, queries on the I2C bus, what is to be reported | one handler per message of the host, `loop()` reads the pins and reports |
| Firmata protocol (`FirmataMarshaller`, `FirmataParser`, the streams in `utility/`) | parser, receive buffer, the connection | `processInput` takes a byte of the stream and calls the sketch |
| ESP8266WiFi, TCP (`WiFiClient`, `WiFiServer`, `ClientContext`) | connections, counted handles, the list of unclaimed ones | calls of the sketch that wait, callbacks of lwIP, the event of the station |
| other libraries (display, rest of ESP8266WiFi, Circuit Playground's sensors, Tempo) | | vendored, not used by the controller |

What is hard about it:

- **Time is not monotonic.** `State.Time` is -1 until the first fix, then runs, stands
  still when the fix is six hours old, and jumps, back too, at the next. It wraps at
  midnight; `millis()` wraps every 49.7 days. Every duration in the program is a
  difference of two readings of one of the two.
- **One handler, many writers.** `DoorMutator::MutateState` is five blocks in a row, each
  of which may change the state that the next one tests: click, manual timeout, hold,
  missing fix, schedule.
- **The program does not see the door.** It knows where the door is from how long it
  drove it. A reset, a click or hold in the middle of a motion, a clock that jumps or
  the end of the period make the record and the door disagree.
- **Resets.** Nothing but the previous program's settings survives one, and a setting of
  two bytes can be torn by one.
- **A noisy serial line** under a parser whose state survives the end of a sentence, behind
  a port that is not read for six hours and keeps the oldest bytes.
- **Messages in any order** (Firmata): every handler changes modes, servos, bus and reports
  that other handlers tested before, and a host may go and be followed by another in
  the middle of a message.
- **Callbacks in the middle of calls** (WiFi): whatever a call of the sketch has read may have
  changed when it goes on after `delay`, `yield` or `esp_yield`.

What makes each part correct is stated by the properties below.

## The modules

### Door: `DoorMutator`, `DoorDrive`, `DoorMutatorProofs`

`Mutate(door, t, b)` is one call: the composition, in the order of the source, of one
operator per block (`Rebase`, `OnClick`, `OnManualTimeout`, `OnHold`, `OnSchedule`) on a record
of the two fields of `State` and the three pins. A call is one atomic step, because
nothing interrupts it. `Next` gives each call any report `ButtonReader` can produce and any
second of the day: a fix may set the clock to anything, so nothing more is assumed of
it. `-1` is only possible before the first fix. `override` is a history variable: which manual
positions the schedule still has to respect.

- `MotorMatchesState`: the pins agree with the recorded state. The one exception, an
  automatic motion that a release of the button has stopped without changing its
  state, is in the formula.
- `ElapsedInRange`: the duration the timeouts compare is between 0 and two days.
- `OverrideRespected`: the schedule does not undo a manual position within the period it
  was set in.
- `DriveSpec`: the pins implement `DoorDrive`, a motor never reversed without a stop.

Run `door`: a day of 10 seconds, an open period from 2 to 8 and an activation of 2, so
that motions that span midnight, the beginning and the end of the period all occur,
in both directions, with every clock value next.

### Button: `ButtonReader`, `ButtonReports`, `Gesture`, `ButtonReaderProofs`

The reader with the contact it samples. Each path of `ReadState` is an action; `Toggle`
moves the contact, `Tick` the wrapping clock. The loop runs at least once in `LoopPeriod` ticks
and the contact keeps a position for `MinStable`.

- `GestureSpec`: however the contact bounces, the reports follow the protocol `Gesture`: a hold, once
  reported, is reported in every iteration until its end is, and a click never follows a
  hold.
- `EveryPressReportedOnce`, `HoldInTime`, `ClassifiedRight`: no press is lost, doubled or merged, a hold is
  reported in time, and the report at the end tells how long the user pressed to
  within a loop, as long as the contact has been stable. They need that: the code does
  not debounce.

Run `button` has both: a contact that may bounce at any time, and a flag that tells
whether it has been stable for `MinStable`, longer than a loop, at each change so far.

`ClockWidth` is a little more than the longest press, so that the clock wraps at every
point of a press.

### Clock: `GpsReader`, `GpsFeed`, `WallClock`, `GpsReaderProofs`

Three levels. `WallClock` is what the handlers may rely on. `GpsReader` is `ReadState` with its three
outcomes `Fix`, `Wait`, `Run`, and takes it for granted that a sentence tells a time at most
`SentenceAge` old. `GpsFeed` is where that comes from: a receiver that sends a sentence byte by byte,
the port of the software serial library, which drops what it has no room for, and the
parser, which gets a byte per call and none while the clock runs. At a refresh the port
holds the bytes that followed the last fix, and the sentence they begin is continued by
fresh ones. A byte is its place in the sentence and the time the sentence tells. The parser is the part of
`TinyGps` that matters here: it knows a term by its number since the `$`, keeps the time and whether there is
a fix, and compares the exclusive or of the bytes with the checksum (`Encode`). Nothing else tells it that a
sentence is made of two, and an exclusive or of eight bits takes one of 256 such sentences: `Collides` says when.
Simplified: the bytes that the port drops end at a term, so that the texts heard are whole; another text in the
place of the time reads like some time of day; terms after the last known one fill no field. `realTime` is the
true time of day, `source` and `spliced` are history: whether the bytes of the last fix were those of one sentence.

- `WholeFixShowsTrueTime`: while it runs on a fix that came of one whole sentence, the clock shows the true second,
  or one at most `MaxLag` earlier (`ShowsTrueTime`), across midnight and across the wrap of `millis()`, and
  however many collisions there were before. `MaxLag` is the age of the sentence and two roundings to a second.
- `ReaderSpec`: receiver, port and parser implement what `GpsReader` takes for granted, but for one step, `TakesSplice`:
  what the port has kept over the hours sets the clock only when the bytes of two sentences collide.
- `ClockSpec`: the reader implements `WallClock`, which is all the composition uses of it, collisions included:
  `WallClock` lets a fix tell any time.
- `KeepsResyncing`: fixes are wanted again and again and each want ends, however the head of
  a sentence in the port spoils the first ones.

Run `gps`: a port of three bytes and sentences of four. `FeedAssumption` has `PortSize < SentenceLength`, and
needs it: a port that holds a whole sentence gives the clock the time of six hours
ago at every refresh. In the code it is close: the library keeps 63 bytes, and a GPRMC
sentence with five decimals and no course is 67. A loop runs at least as often as bytes
come (`LoopPeriod = 1`), or the port would lose part of every sentence and there would be
no fix at all. The refresh comes after 12 ms, the receiver may be silent until 14 after a fix,
and `LongestOutage = 27` is never reached; a day has 18 ms and a turn of the clock 28, so that
midnight and wrap meet at every distance. The bits of `MCGpsFeed` make the sentences of two times four seconds apart
collide, so that the run has fixes made of two sentences and fixes after them (871,472 states).

`LongestOutage` stays below the turn of `millis()`: after an outage of 49.7 days the code takes the
old fix for a fresh one.

### Parser: `TinyGps`, `MCTinyGps`, proofs in `GpsReaderProofs`

`TinyGPS::encode` at the end of a line that loses bytes, garbles them, and is first heard
in the middle of a sentence. A byte is a set of bits and parity is symmetric
difference, so checksums are computed, and collide, as they do in the code. The receiver's
own checksum is said without recursion (`Parity`: the bits an odd number of bytes have), the
parser's is the fold that the code makes.
The text of a term is one byte with the exclusive or of the characters it stands for, which may be that of another text, that of the
comma, or 0; its digits, and with them the conversions, are left out. A damaged character changes the exclusive or of its text;
a mark in the place of a character takes the place of the whole text.

- `TellsTimeSent`: one damaged byte after the `$` makes the parser report a time that was not sent only if it
  became a `*` that hides from the exclusive or bytes that cancel (`unseen`, `Cancels`): in `,083559.00`, comma and time do, see
  "Seen while modelling". (Two damaged bytes may cancel out in any exclusive or.)
- `GoodSentenceAccepted`: a sentence with a fix that arrives undamaged is reported, whatever came
  before it: no state survives a `$`.

Run `tinygps`: both sentence types, three times, of which one reads like a comma and one like nothing, with and
without a fix, one damaged byte in the history; a garbled byte may become a `,`, `*`, `$`, end of line or another
text (1,809,092 states). Run `tinygps_zero` is a finding, see below: its code (`MCCodeZero`) gives the GPRMC sentence
that tells t1 with a fix the checksum 0, and its receiver is turned on after the controller (`WholeSpec`), so that the first
sentence is a whole one.

### Heater and lamp: `HeaterMutator`, `LightMutator`, `Relays`, `RelaysProofs`

`HeaterMutator` is the thermostat with its lockout: `Heat` is any member of `Heats` in each iteration,
the clock wraps, `Switch` reads the clock a second time, up to `ReadGap` after the first. `LightMutator` is
the lamp. `Relays` puts the two, which share no field, into one loop with one `Reset`, which may come
at any time.

- `RelaysTypeOK`: types, and the state tells what the heater's relay does.
- `NoRapidChange`: the relay never moves again within the lockout, except that a reset
  opens it; after a reset too it does not close within the lockout.
- `HeatAnswered`: a temperature that stays outside the dead band is answered for good, wherever
  the clock wraps in the lockout, once resets have ended.
- `FollowsSchedule`: one formula, the way around the dial, for what the code says with two
  comparisons, for periods within a day and across midnight. It leaves the two
  switching seconds open: the code counts them in across midnight and out within a day.

Run `relays`: `ClockWidth = 11` with a lockout of 3 lets every pair of readings of a lockout
straddle the wrap; the schedule spans midnight, as the controller's does.

### Composition: `HenHouse`, `HenHouseProofs`

One iteration of the loop as far as it concerns the door: `WallClock` for the clock,
`Gesture` for the button (what the two readers were shown to implement), `DoorMutator`'s own
`Mutate`, and the door itself, `position`, which moves with the pins for the `k` seconds between
two iterations. Heater and lamp share no field with the door. `flaws` records what
disturbed the last motion: a hold; a clock that stood still or was set; and what cut it
short, a click, the end of its period or a reset.

- `RestIsReal`: a door recorded as resting open or closed is at that end, unless one of these
  occurred. The list is complete, and each entry is needed: the code really does lose the
  door in each of these ways.
- `MotorTimely`: with a running clock and no hold, the motor is never on for longer than the
  activation duration plus the iteration that notices it.
- `DailyCycle`: whatever happened before, once the button is left alone and the board is not reset, the door is really opened and really
  closed every day. The flaws heal. The clock goes on stopping every `RefreshAfter` seconds, as the code makes it, in the
  middle of a motion too. What is asked is that a wait ends within `LongestWait` (`WaitsEnd`) and that the fix which
  ends it is right, when the clock may have drifted by `Drift` seconds either way (`FixIsRight`). A fix made of two
  sentences (`TakesSplice` above) is not right, and outside the property until the next.

Run `henhouse`: a day of 13 seconds, a period from 2 to 9, a motion of 2, an iteration at least every second, a fix
good for 4 seconds, waits of 1 and a drift of 1, resets at any time (454,499 states). `HenHouseAssumption` says what of this the safety
properties need, `DailyAssumption` what `DailyCycle` needs, and TLC has counterexamples without it: a fix good for less than a motion stops
the clock in each of them; a fix that skips forward in a motion ends it early, which leaves the door short of its end unless
the activation duration has that much to spare (`Travel + MaxStep + Drift`); and a period too short for a wait and a motion records the
wrong end. In the code the refresh is 6 hours, the duration seconds and the periods hours. That the
travel is shorter than the duration is a matter of the door: with nothing to spare, the refresh in the wrong second leaves it ajar.

### Previous program: `ControlPiston`, `MenuController`, `MenuControllerProofs`, `MCMenuController`

`MenuController` is `HenHouseController.inoDERP`: a pass is `Move`, `Enter`, `Dwell`, `Edit` or `Leave`, by
the position of the stick; the settings are a value in memory and bytes in EEPROM.
`ResetInSave` is a reset between the two bytes of a time.

- `TypeOK`: a setting stays in range through edits and torn saves.
- `SurvivesReset`: what EEPROM holds is what the menu shows, for every setting not being
  edited; no save touches the bytes of another setting.
- `MotorFollowsStick`: while the piston is selected the motor runs exactly when the stick is pushed.
  (When the stick goes from a push straight to the left, the item is left with the motor on,
  and nothing stops it: see the hazards.)
- `HoldNeverEngages` (defined in `ControlPiston`, whose theorem has it for every trigger time): the
  hold that a long push should start never starts, because the push is timed with a
  reading that only a pause renews. `TRIGGER_TIME` and `HOLD_TIME` are dead.

Run `menu`: two hours of two minutes, so that each of the two bytes of a time takes part in
every carry and wrap; bytes of four values; a clock that may show anything at any pass.

### Firmata, the sketches: `ServoPool`, `FirmataSketch`, `FirmataVariants`, `FirmataProofs`

`FirmataSketch` has the handlers of `StandardFirmata`, one operator per message: pin modes, servos, I2C
configuration and continuous reads, reports, the reset. `ServoPool` is the table of servos with the
stack of detached ones. `FirmataVariants` says which sketch repeats which handler and how it differs
(`chipKIT`, `Plus` with its serial ports, `Ethernet`, `WiFi`, `BLE`, `Playground`); each step belongs to one sketch,
so a run covers all seven. `link` is the presence of a host over a network or the air; `asked` and `host`
are history: what the present host has asked for and was told.

- `ServosPartitioned`: no two pins share a servo; each that was used since the reset is on a pin or once on the stack; a new one is taken
  only when all the used ones are on pins at once. So a sketch runs out only after `MAX_SERVOS` pins had one together. It does not
  say that the stack is always used: once all were handed out, what comes back waits there until a reset, see "Seen while modelling".
- `ServoOnItsPin`, `InputsNotDriven`, `BusHasItsPins`: mode, servo, bus and hardware of a pin agree, whatever
  order of modes led there.
- `HostInStep`: what the board compares the next reading with is what this host was told.
- `TypeOK`: with it the table of continuous reads keeps its bound, also on the Circuit Playground,
  where the index of the read to stop is uninitialized when there is none.

Run `firmata`: two pins, two servos, a port, two queries, an address that is never read and one
pin that may be set aside. Two of each let every handler meet a table that is
full, one that has a gap, and one whose gap was filled again; the proofs have the rest.

### Firmata, the wire: `FirmataParser`, `FirmataWire`, `MessageChannel`, `MCFirmataWire`, `FirmataProofs`

A host writes messages byte by byte, over a serial port or Bluetooth, whose buffers lose
bytes when the sketch is slow, or over one of the network streams, whose connection ends
and is made again (`EthernetClientStream`, `EthernetServerStream`, `WiFiClientStream`, `WiFiServerStream` behave alike here). The parser is
told of none of it.

- `IntactIsDispatched`: whatever was lost before, a message of which every byte comes, and whose
  first byte is not taken for data of a sysex, calls the sketch as it was meant.
- `ChannelSpec`: over a network the whole implements `MessageChannel`: whole messages, once, in order, as
  long as the connection stands; after a cut, a torn sysex may swallow what follows.
- `HostServed`: no stream is stuck with a connection that has ended.
  For the Ethernet server it assumes that the library's `available()` returns a host that has not sent anything yet; that library is not in the repository.

Run `firmata_wire`: four messages, one of each shape (channel, port, reset, sysex), in any order; a
parser buffer of three, a window of two, a ring of three, two losses. That is a sysex that overflows the buffer, a loss inside it and one in what follows.

### ESP8266WiFi, TCP: `ClientContext`, `WiFiTcp`, `WiFiTcpProofs`

`ClientContext` is a connection as a record and its operations; `WiFiTcp` the sketch's calls, cut where the code
yields, with lwIP's callbacks and the station event in between, and only there.

The code itself uses freed memory in two ways, and the model has both. An assignment of the only handle on a connection to
itself deletes the context and then counts it (`Assign`): nothing is known of the program from there on, the state `Undefined`, where only `Gone`
is possible. The station event aborts and frees the connection that the sketch is waiting in (`StationDisconnected`): the call becomes
a `Stray` one, which goes on from its wait in the freed context (`StrayGoesOn`) and so to `Undefined`, unless it is a write that nothing wakes any more.

- `RefsMatch`: a connection is counted once per handle and freed by the last, and the context a call waits in is one of those, up to
  `Undefined`; and nothing leads there but the two ways above.
- `WindowAccounted`: the receive window is given back exactly as far as data was read.
- `AssertionsHold`: the two assertions of the code on waits (`ClientContext.h:345` and `:491`: no other write waits,
  a connect does). Of the other two there, `_datasource == nullptr` (`:344`) and `pcb == _pcb` (`:490`) hold by the shape of the model, which says nothing;
  and that a stream delivers what it promised (`DataSource.h:72`) is up to the stream.
- `SentInOrder`: the pieces of a write reach `tcp_write` in the order of the source and none twice; one that is missing among them was refused
  by `tcp_write`, and is skipped: what follows goes on without it; the count returned is what was taken. A stream is not read
  ahead, unless the connection ends while it yields in the reading, and the send buffer is never given more than it holds though its room was asked before.
- `CallsReturn`: every call returns, unless the station event strikes while the sketch is in it.

Run `wifi_tcp`: two handles, two contexts, segments of one or two, a window of two, a send buffer of
one: every wait, a read that ends inside a segment, a copy over the last handle, and a self-assignment (325,782 states).

## Fairness

The Arduino core calls `loop()` for ever and clocks count: `WF(Loop)` and `WF(Wait)` in `relays`; `WF` on seconds
that pass in `henhouse`, on the steps of the system as a whole in `gps`, on `Maintain`, `ProcessInput` and
`IntervalPasses` in `firmata_wire`, on the sketch's going on, on timeouts and lwIP's timer in `wifi_tcp`. `gps` also assumes that
the receiver, when it is silent, sends again: an assumption on the sky. Nothing is
assumed of users, hosts, peers and access points. Resets stay in the fair specifications:
`DailyCycle` and `HeatAnswered` speak of a board that from some time on is not reset; `DailyCycle` states in its premise, too, what it asks of the receiver.

## Proofs

All are for every value of the constants under the named assumptions of the module, which
ask for little more than that they are numbers of the right sign.

- `DoorMutatorProofs`. `TypeCorrect`, `MotorSafe`, `ElapsedSafe` share the invariant `IInv`. The properties are
  not inductive: within a call they fail between blocks, and across calls they need that
  the activation time is of today or yesterday and, for a moving door, not in the
  future. `DoorInv` is what holds of the record between calls, `CallInv` what holds inside one after
  `Rebase`; there is one lemma per block and `MutateInv` chains them. `OverrideSafe` adds
  `OverrideInv`, which says in which states the door is while a manual position has to be
  respected. `DriveImplemented` uses the same pipeline with the relation `Coasts` between a record
  before and after a block: once a block has stopped the motor no later one of the same
  call starts it the other way.
- `ButtonReaderProofs`. `GestureImplemented`: the refinement `Spec => Gesture!Spec`. The invariant ties the wrapping
  difference of readings to `age`, the true age of the press (`ElapsedTick` is the step of the
  clock across its wrap); without it a hold could turn back into a click. `HoldComes`,
  `PressesReported`, `PressesClassified` add `PressInv` (what the reader still owes the press: how far
  the age it measures may be from how long the contact has been there) and `SteadyInv` (the reader
  is at most one move behind a steady contact, so what it times is the press that is
  owed); the last two assume `MinStable > LoopPeriod`.
- `GpsReaderProofs`. `ClockImplemented`: the refinement `Spec => ClockSpec`, and `TimeShown`: `ShowsTrueTime` without a speed-up. `Inv` ties
  the wrapping difference to the true time since the fix, `TrueInv` says which true moment
  the fix told; the rest is arithmetic of `\div` and `%`, stated as lemmas first because the
  solvers only know them for a divisor at a time. `MaxLag` came out of the proof: a smaller
  bound holds for small constants only.
- `RelaysProofs`. `RelaysTyped`, `RelaysLocked`, `RelaysSchedule`. `LockoutInv` is what makes the lockout inductive: as long as
  it lasts in real time, the wrapping difference does not exceed it.
  `ScheduleSafe`: `LightOnAround` reduces both comparisons of the lamp's code to the arc of the dial;
  the rest is one step.
- `FirmataProofs`, the sketches. The six properties of run `firmata` for every board. `PoolInv` is the types
  and `PoolOK`: each servo handed out is on one pin or once on the stack. `Raises` is the step that takes a
  new one, for the other half of `ServosPartitioned`. The
  invariant of the sketch splits into `BoardInv` and `ReportInv`, which no handler but the reset
  changes together, so each handler has one lemma for the half it touches; `OnlyPin` says
  what a change of mode leaves alone.
- `FirmataProofs`, the wire. `IntactMessageDispatched`, for every set of messages, buffer, window and number of
  losses. The property speaks of the last byte of a message, so the invariant must say what
  the parser holds in the middle of it: `Midway` does, for each kind of message, as a function of how many
  of its bytes have come, and `FollowInv` says that the parser is midway of the message the
  history follows. Each marshalling function has a lemma for what it writes and one for how
  the parser follows that. `FirmataWireAssumption` says that arguments have the types the
  marshaller gives them and that a sysex fits the buffer.
- `FirmataProofs`, the channel. `WireIsChannel`: `WireSpec => ChannelSpec`. What the host is still promised is
  `Queue` of the parser, the message it follows and the bytes under way: the messages whose last byte is
  among those, after a torn sysex that the parser is in and before one that the host's last connection left behind.
  `Complete` gives these messages by rank instead of by a filter, so that what a byte more, a byte less and a
  prefix do to it are lemmas (`CompleteOfTail`, `CompleteOfSent`, `CompleteOfPrefix`).
  `ChannelInv` is `ParserInv` of the wire with `NetworkInv`: no network loses single bytes, so bytes next to each
  other follow each other in a message (`Chained`), and the parser is midway of the message of the next one
  unless it is in a torn sysex. `ByteHeard` says what one byte makes the parser say in each case; `QueueSent`,
  `QueueRead` and `QueueCut` turn it into `Send`, into `Deliver`, `Swallow` or a wait, and into `Cut`.
- `GpsReaderProofs`, the feed. `ReaderImplemented`: `FeedSpec => ReaderSpec`, `FedClockShowsTime`: `FeedSpec => []WholeFixShowsTrueTime`, and
  `FedClockImplemented`: `FeedSpec => ClockSpec`, for any bits of the bytes: nothing is assumed of the checksum, every collision is a step
  of the proof. `FeedInv` bounds the age of every byte that can still complete the sentence heard, and says what the parser
  holds of it: the port is shorter than a sentence, so its first byte was read before its last one came,
  hence after the port was emptied.
- `GpsReaderProofs`, the parser. `TermsFit` and `SentenceAccepted`, for every code of the texts, size of the term and
  number of damaged bytes. `InBody` and `InChecksum` give every field of the parser, but what is left over
  in `new` and `kept`, from the number of bytes since the `$`; that they hold from
  the `$` on is what makes it irrelevant what came before. `OddNext` carries the parity from byte to byte.
- `GpsReaderProofs`, damage. `TimeSentTold`, for any byte lost or garbled anywhere after the `$`. `Truthful` is what a
  sentence undamaged so far has stored: the time before the verdict, the verdict only where there is a fix. `Hurt` is what
  one damaged byte can make of it. In the body the parity is `Off`, and stays so to the checksum; or the byte
  became a `*` (`Starred`: a term is compared that is no checksum, which may match, but what is committed is right, and if
  nothing is the parity is off); or it became a `$` (`Mute`: a sentence of the wrong name or with its fields
  out of place, whose verdict never finds its `A`). Then the end of the line, `Ended`. `unseen` is
  where the step fails and why it is in the property: bytes that cancel behind a `*`. The texts may have any bits;
  `TextAssumption` says only that no time reads like the name of a sentence.
- `MenuControllerProofs`. `HoldIsDead` (in the menu: `HoldIsDeadInMenu`): the start of a push is always the reading in the
  field or none. `MenuTyped`, `SettingsSurviveReset`, `PistonFollowsStick` share `MenuInv`, for every list of items whose bytes do not
  overlap, also across `ResetInSave`; what is in EEPROM during an edit is the setting as it
  was or, torn, one in range.
- `HenHouseProofs`. `MotorIsTimely` and `RestingDoorIsReal`, for every schedule and travel within `HenHouseAssumption`. `IInv` adds to
  the types `Timely` (how long the motor has been on against what the clock says of it) and `Progress` (how
  far the door has come, as long as no flaw is recorded). The five blocks of the handler are taken
  together as `CallAtRest` and `CallInMotion`; then there is a lemma for a flaw, for the time that passes,
  for a door at rest and for one in motion.
- `WiFiTcpProofs`. `ConnectionsCounted`, `WindowsAccounted`, `AssertionsSafe`, `WritesInOrder`, for any number of handles and contexts and any
  sizes. `IInv` is `Working` or `Struck`. `Working` is the conjunction of `TypeInv`, `ContextsOK` (what holds of a context whoever has it), `Counted`,
  `CallOK` (what a call that waits may still rely on when it goes on), `Ordered` and `RoundOK` (how far a write has come in its source) and
  `WaitsOK`; `Struck` is what is left of it after one of the two steps into freed memory. There is one
  lemma per call, per callback and per way to go on after a wait; `AssignStep` and `StrayGoesOnStep` are the two that may
  end in `Struck`, which is the other half of `RefsMatch`.

## Only model-checked

- Liveness, since fairness is out of the prover's reach: `KeepsResyncing`, `HeatAnswered`, `DailyCycle`, `CallsReturn`, `HostServed`.

Every other property of a passing run is a theorem. The type invariants of door and
button are proved and not among the runs.

## Findings

- `henhouse_nofix`, `StopsAfterDuration`: a manual motion is timed with `State.Time`. Before the first fix, and
  while the reader waits for the next, that clock stands still, so a click starts a motor
  that nothing but another click stops. The comment in `MutateState` says "Stop the door after the
  actionvationDuration."
- `tinygps_zero`, `ReportsOnlyValidated`: the end of a sentence resets nothing; only `$` does. If a valid sentence has the
  checksum 00 and the `$` of the next is lost, the next is taken for a continuation of the
  first, passes the checksum, and is reported though its status is V. The comment says
  "Returns true if new sentence has just passed checksum test and is validated".

## Seen while modelling, without a run

- A SYSTEM_RESET byte inside a sysex that is not ended is data, though a comment in
  `FirmataMarshaller.cpp` says it resets the parsing buffer.
- `FirmataMarshaller::setSamplingInterval` encodes the bytes separately, `StandardFirmata` reads
  `argv[0] + (argv[1] << 7)`; `sendExtendedAnalog` writes as many seven-bit
  bytes as the value has bytes and so drops its highest bits.
- `WiFiServerStream::stop` makes no call for the host that leaves when the station event has already
  taken its client away.
- The piston of the previous program is left running when its item is left with the stick
  straight from a push to the left.
- The menu is told of nine items and the list has ten.
- The clock may be hours off for six hours. At a refresh the port holds the head of a sentence of six hours ago, the parser takes it
  and the tail of a fresh one for one sentence, and if their exclusive or is the checksum (`TinyGPS.cpp:171`, one of 256), it
  commits the old time. In the run: the head tells second 1, the tail is of second 5.
- `TinyGPS` commits the time of an earlier sentence when the first comma of `,083559.00` is garbled to a `*`: what follows is
  then a checksum term and no time, comma and text have the same exclusive or (0x2C) and are missed together,
  and the checksum at the end, which is right, commits `_new_time` as it is.
- Once `MAX_SERVOS` servos were handed out, `attachServo` refuses every further one, those on the stack included (`StandardFirmata.ino:125`), against the comments
  "reuse indexes of detached servos until all have been reallocated" at line 126 and "because we want to reuse their indexes" at 152.
  With two servos: SERVO on pin 0, SERVO on pin 1, INPUT on pin 0, SERVO on pin 0: "Max servos attached".
- `WiFiClient::operator=` (`WiFiClient.cpp:82`) has no test for self-assignment: the only handle on a connection deletes its context and
  then counts it.
- The station event (`ESP8266WiFiGeneric.cpp:224`) stops every client, and with the last handle frees the context of the call that
  the sketch is in, which goes on there (`ClientContext.h:130`).

## Hazards no property covers

- An outage of 49.7 days (`GpsReader.cpp:22`) makes the old fix look fresh: outside every bound here.
- An ADC reading of 0 divides by zero in `ThermoReader.cpp:5`.
- `HEATER_PIN` is 11, which `GpsReader.cpp:16` hands to the software serial port for transmission. What the
  library leaves on it is not in the repository.
- `setup` assigns a temporary `Applictaion`, whose handlers keep a pointer to its `Logger`. `Logger` has no
  fields, so nothing is read through it.
- A blank EEPROM (`HenHouseController.inoDERP:145`): undefined from the first display on.
- An empty term of a sentence leaves the previous sentence's time pending (`TinyGPS.cpp:224`): the
  receiver modelled fills every field.
- A pin in servo mode that got no servo is written through `servos[255]` (`StandardFirmata.ino:386`):
  the state is reachable in the model, the write is left out.

## Not modelled

`Logger` (output only), `InternetReader` (not instantiated), `ThermoReader`'s conversion (floating point; its
result is arbitrary in the heater's model), the display of the previous program, the ESP8266
bridge (no state), statistics, positions and conversions of `TinyGPS`, `TimeFactor` other than 1 in the
composition. Of Firmata: values written and reported, one-shot I2C transfers, capability queries,
the serial ports' data. Of ESP8266WiFi: calls into the closed SDK (station, access point, scan), UDP
and TLS, which no sketch here uses. Drivers of the display, of the Circuit Playground and the
sound data: registers and tables, without a protocol of their own.

The map covers about a tenth of the lines in the repository. The rest is, for the larger part,
what a model would not say anything new about: the Firmata sketches repeat one another
nearly line by line and each handler is mapped where it is first defined; `Boards.h` and
`CP_Boards.h` are tables of pins; `coin.h`, `trek.h` and the speech examples are data; and the vendored drivers
write registers. The hen house itself is covered but for text output and floating point.

## Plan

Done, in this order: door, button, lamp, heater, clock, composition, parser, previous
program; then TCP, the Firmata sketches and their proofs, the Firmata wire, the proofs of
relays, clock and button, the receiver's port; then the proofs of feed, composition, menu,
TCP, Firmata wire and parser, of the channel and of the damaged sentence. Every safety property
of a passing run is proved. Left:

1. The values of output pins and analog messages in `FirmataSketch`, which is where a pin without
   a servo matters.
2. `WiFiUdp` and its context, should a sketch use it.
