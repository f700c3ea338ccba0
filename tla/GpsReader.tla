------------------------------ MODULE GpsReader ------------------------------
(***************************************************************************)
(* GpsReader::ReadState of libraries/HenHouseLib/GpsReader.cpp: the second of *)
(* the day, from a GPS sentence every quarter of a day and from the wrapping  *)
(* clock millis() in between.  Each call finds no byte, a byte that completes *)
(* no sentence, or the byte that completes one, whose time may be SentenceAge *)
(* old: GpsFeed has the receiver, the port and the parser that make it so.    *)
(***************************************************************************)
EXTENDS Integers

CONSTANTS
  ClockWidth,    \* millis() counts modulo this, 2^32 in the code
  MsPerSecond,   \* 1000 in the code
  SecondsPerDay, \* 86400 in the code
  RefreshAfter,  \* 86400000 * 0.25 in the code
  TimeFactor,    \* speed-up of the clock, 1 in production
  LoopPeriod,    \* the longest time between two calls, in ms
  SentenceAge,   \* the most a sentence lags behind the time it tells, in ms
  LongestOutage  \* bound: the next fix comes within this time, in ms

ASSUME GpsAssumption ==
  /\ {MsPerSecond, SecondsPerDay, TimeFactor, LoopPeriod} \subseteq Nat \ {0}
  /\ {ClockWidth, RefreshAfter, SentenceAge, LongestOutage} \subseteq Nat
  /\ TimeFactor <= MsPerSecond     \* or 1000 / TimeFactor divides by zero
  /\ RefreshAfter < LongestOutage
  /\ LongestOutage < ClockWidth    \* or an outage outlives the clock

VARIABLES
  millis,             \* what millis() returns
  gpsTime, gpsMillis, \* _gpsTime and _gpsMillis
  Time,               \* state.Time after the last call
  realTime,           \* the true time of day, in ms
  sinceFix,           \* ticks since the last fix
  sinceCall           \* ticks since the last call

vars == <<millis, gpsTime, gpsMillis, Time, realTime, sinceFix, sinceCall>>

NoTime == -1

Times == 0 .. SecondsPerDay - 1

MsPerDay == SecondsPerDay * MsPerSecond

Init ==
  /\ millis = 0
  /\ gpsTime = NoTime
  /\ gpsMillis = ClockWidth - 1 \* -1 in the unsigned type
  /\ Time = NoTime
  /\ realTime \in 0 .. MsPerDay - 1
  /\ sinceFix = 0
  /\ sinceCall = 0

(* Bug: the difference of the two readings without the wrap. *)
ElapsedSigned == millis - gpsMillis

Elapsed == (millis - gpsMillis) % ClockWidth

shouldUpdateGpsTime == Elapsed > RefreshAfter

Awaiting == gpsTime = NoTime \/ shouldUpdateGpsTime

(* Bug: the elapsed time in the wrong unit. *)
FreeRunningInMs == (gpsTime + Elapsed) % SecondsPerDay

(* The time shown between two fixes. *)
FreeRunning ==
  (gpsTime + Elapsed \div (MsPerSecond \div TimeFactor)) % SecondsPerDay

(* The seconds of the day a sentence may tell. *)
Told ==
  { ((realTime - a) % MsPerDay) \div MsPerSecond : a \in 0 .. SentenceAge }

-----------------------------------------------------------------------------
(* Bug: a fix that does not note when it came. *)
SetTimeUntimed(t) ==
  /\ Awaiting
  /\ gpsTime' = t
  /\ Time' = t
  /\ sinceFix' = 0
  /\ UNCHANGED gpsMillis

(* A byte completes a sentence that tells t and a fix was wanted. *)
SetTime(t) ==
  /\ Awaiting
  /\ gpsTime' = t
  /\ gpsMillis' = millis
  /\ Time' = t
  /\ sinceFix' = 0

Fix == \E t \in Told : SetTime(t)

(* No byte, or one that completes no sentence: the time stands still. *)
Wait ==
  /\ Awaiting
  /\ UNCHANGED <<gpsTime, gpsMillis, Time, sinceFix>>

Run ==
  /\ ~Awaiting
  /\ Time' = FreeRunning
  /\ UNCHANGED <<gpsTime, gpsMillis, sinceFix>>

ReadState ==
  /\ Fix \/ Wait \/ Run
  /\ sinceCall' = 0
  /\ UNCHANGED <<millis, realTime>>

(* A millisecond passes; the loop is never late, and after a first fix no outage
   is too long. *)
Tick ==
  /\ sinceCall < LoopPeriod
  /\ gpsTime # NoTime => sinceFix < LongestOutage
  /\ millis' = (millis + 1) % ClockWidth
  /\ realTime' = (realTime + 1) % MsPerDay
  /\ sinceFix' = IF gpsTime = NoTime THEN 0 ELSE sinceFix + 1
  /\ sinceCall' = sinceCall + 1
  /\ UNCHANGED <<gpsTime, gpsMillis, Time>>

Next == ReadState \/ Tick

Spec == Init /\ [][Next]_vars

-----------------------------------------------------------------------------
(* How far, around the dial, the time shown is behind the true second. *)
Lag == (realTime \div MsPerSecond - Time) % SecondsPerDay

(* The sentence is old, and the time of the fix and the time since it are each
   rounded down to a second. *)
MaxLag == (SentenceAge + 2 * (MsPerSecond - 1)) \div MsPerSecond

(* A call that does not wait for a fix shows a time that is never ahead of the
   true one and at most MaxLag behind, across midnight and across the wrap of
   millis().  Only with TimeFactor = 1: a faster clock is meant to run ahead. *)
ShowsTrueTime ==
  Time # NoTime /\ sinceCall = 0 /\ ~Awaiting => Lag <= MaxLag

(* The mode of the clock the reader shows. *)
Mode ==
  CASE gpsTime = NoTime -> "unknown"
    [] gpsTime # NoTime /\ shouldUpdateGpsTime -> "stale"
    [] OTHER -> "running"

Clock == INSTANCE WallClock
  WITH mode <- Mode,
       MaxStep <- LoopPeriod \div (MsPerSecond \div TimeFactor) + 1

(* The reader implements the clock of WallClock: from call to call the time shown
   moves by at most MaxStep seconds, and jumps only with a fix that ends a wait. *)
ClockSpec == Clock!Spec

(* The clock keeps asking for a fix, and every time it gets one it runs again. *)
KeepsResyncing == []<>Awaiting /\ []<>(~Awaiting)

=============================================================================
