---------------------------- MODULE GpsReaderProofs ----------------------------
(***************************************************************************)
(* The clock of the GPS reader, for every width of millis(), length of the     *)
(* day, refresh period, speed-up and loop period: it implements WallClock, and  *)
(* without a speed-up it is never more than MaxLag behind the true time.        *)
(* And what GpsReader assumes of a sentence is what the receiver, the port and  *)
(* the parser of GpsFeed make of it, but where the checksum takes one spliced   *)
(* from two; only the theorems on GpsFeed use FeedAssumption.                   *)
(* Last, the parser itself, byte by byte: the theorems about TinyGps use only   *)
(* TinyGpsAssumption and TextAssumption.                                       *)
(***************************************************************************)
EXTENDS GpsFeed, TinyGps, FiniteSetTheorems, SequenceTheorems, TLAPS

Readings == 0 .. ClockWidth - 1

-----------------------------------------------------------------------------
(* Division and remainder by a positive number. *)

LEMMA DivMod ==
  ASSUME NEW a \in Int, NEW d \in Nat \ {0}
  PROVE  /\ a \div d \in Int /\ a % d \in 0 .. d - 1
         /\ a % d = a - d * (a \div d)
<1>1. a \div d \in Int /\ a % d \in 0 .. d - 1
  OBVIOUS
<1>2. a % d = a - d * (a \div d)
  OBVIOUS
<1> QED
  BY <1>1, <1>2

LEMMA DivModUnique ==
  ASSUME NEW q \in Int, NEW d \in Nat \ {0}, NEW r \in 0 .. d - 1
  PROVE  (d * q + r) \div d = q /\ (d * q + r) % d = r
<1>1. (d * q + r) % d = r
  OBVIOUS
<1>2. (d * q + r) \div d = q
  OBVIOUS
<1> QED
  BY <1>1, <1>2

(* A whole number of turns does not show on the dial. *)
LEMMA Turns ==
  ASSUME NEW x \in Int, NEW q \in Int, NEW d \in Nat \ {0}
  PROVE  (d * q + x) % d = x % d
<1> DEFINE p == x \div d
           r == x % d
<1>1. p \in Int /\ r \in 0 .. d - 1 /\ x = d * p + r
  BY DivMod
<1> HIDE DEF p, r
<1>2. d * (q + p) = d * q + d * p /\ d * q \in Int /\ d * p \in Int
  BY <1>1
<1>3. d * q + x = d * (q + p) + r
  BY <1>1, <1>2
<1>4. (d * (q + p) + r) % d = r
  BY <1>1, DivModUnique
<1> QED
  BY <1>3, <1>4 DEF r

LEMMA ModAdd ==
  ASSUME NEW x \in Int, NEW k \in Int, NEW d \in Nat \ {0}
  PROVE  ((x % d) + k) % d = (x + k) % d
<1> DEFINE p == x \div d
           r == x % d
<1>1. p \in Int /\ r \in 0 .. d - 1 /\ x = d * p + r
  BY DivMod
<1> HIDE DEF p, r
<1>2. d * p \in Int
  BY <1>1
<1>3. x + k = d * p + (r + k)
  BY <1>1, <1>2
<1>4. (d * p + (r + k)) % d = (r + k) % d
  <2> DEFINE y == r + k
  <2>1. y \in Int
    BY <1>1
  <2> HIDE DEF y
  <2>2. (d * p + y) % d = y % d
    BY <1>1, <2>1, Turns
  <2> QED BY <2>2 DEF y
<1> QED
  BY <1>3, <1>4 DEF r

LEMMA ModSub ==
  ASSUME NEW x \in Int, NEW k \in Int, NEW d \in Nat \ {0}
  PROVE  (k - (x % d)) % d = (k - x) % d
<1> DEFINE p == x \div d
           r == x % d
<1>1. p \in Int /\ r \in 0 .. d - 1 /\ x = d * p + r
  BY DivMod
<1> HIDE DEF p, r
<1>2. d * p \in Int
  BY <1>1
<1>3. k - r = d * p + (k - x)
  BY <1>1, <1>2
<1>4. (d * p + (k - x)) % d = (k - x) % d
  <2> DEFINE y == k - x
  <2>1. y \in Int
    BY <1>1
  <2> HIDE DEF y
  <2>2. (d * p + y) % d = y % d
    BY <1>1, <2>1, Turns
  <2> QED BY <2>2 DEF y
<1> QED
  BY <1>3, <1>4 DEF r

LEMMA ModAtMost ==
  ASSUME NEW x \in Nat, NEW d \in Nat \ {0}
  PROVE  x % d <= x
<1> DEFINE p == x \div d
           r == x % d
<1>1. p \in Int /\ r \in 0 .. d - 1 /\ x = d * p + r
  BY DivMod
<1> HIDE DEF p, r
<1>2. p >= 0
  BY <1>1
<1>3. d * p >= 0
  BY <1>1, <1>2
<1>4. d * p \in Int
  BY <1>1
<1> QED
  BY <1>1, <1>3, <1>4 DEF r

(* What is divided grows by n, the quotient by about n \div d. *)
LEMMA DivGrows ==
  ASSUME NEW a \in Nat, NEW n \in Nat, NEW d \in Nat \ {0}
  PROVE  (a + n) \div d - a \div d \in 0 .. n \div d + 1
  OBVIOUS

LEMMA DivMonotone ==
  ASSUME NEW a \in Nat, NEW b \in Nat, NEW d \in Nat \ {0}, a <= b
  PROVE  a \div d \in Nat /\ a \div d <= b \div d
<1>1. \A c \in Nat : c \div d \in Nat
  OBVIOUS
<1>2. (a + (b - a)) \div d - a \div d \in 0 .. (b - a) \div d + 1
  BY DivGrows
<1>3. a + (b - a) = b
  OBVIOUS
<1> QED
  BY <1>1, <1>2, <1>3

(* The second of the day, from the milliseconds of all days. *)
LEMMA SecondOfDay ==
  ASSUME NEW b \in Int, NEW s \in Nat \ {0}, NEW m \in Nat \ {0}
  PROVE  (b % (s * m)) \div m = (b \div m) % s
<1> DEFINE q == b \div m
           t == b % m
           p == q \div s
           u == q % s
<1>1. q \in Int /\ t \in 0 .. m - 1 /\ b = m * q + t
  BY DivMod
<1>2. p \in Int /\ u \in 0 .. s - 1 /\ q = s * p + u
  BY <1>1, DivMod
<1> HIDE DEF q, t, p, u
<1>3. s * m \in Nat \ {0}
  OBVIOUS
<1>4. b = (s * m) * p + (m * u + t)
  <2>1. m * (s * p + u) = (s * m) * p + m * u
    BY <1>2
  <2>2. (s * m) * p \in Int /\ m * u \in Int
    BY <1>2, <1>3
  <2> QED BY <1>1, <1>2, <2>1, <2>2
<1>5. m * u + t \in 0 .. s * m - 1
  <2>1. m * u \in Int /\ m * u >= 0
    BY <1>2
  <2>2. m * u <= m * (s - 1)
    BY <1>2
  <2>3. m * (s - 1) = s * m - m
    OBVIOUS
  <2> QED BY <1>1, <1>3, <2>1, <2>2, <2>3
<1>6. b % (s * m) = m * u + t
  BY <1>2, <1>3, <1>4, <1>5, DivModUnique
<1>7. (m * u + t) \div m = u
  BY <1>1, <1>2, DivModUnique
<1> QED
  BY <1>6, <1>7 DEF u, q

-----------------------------------------------------------------------------
(* Milliseconds of millis() to a second shown. *)
Pace == MsPerSecond \div TimeFactor

LEMMA Numbers ==
  /\ ClockWidth \in Nat /\ RefreshAfter \in Nat /\ SentenceAge \in Nat
  /\ LongestOutage \in Nat /\ LoopPeriod \in Nat \ {0}
  /\ MsPerSecond \in Nat \ {0} /\ SecondsPerDay \in Nat \ {0} /\ TimeFactor \in Nat \ {0}
  /\ LongestOutage < ClockWidth
  BY GpsAssumption

LEMMA PacePositive == Pace \in Nat \ {0}
<1>1. Pace \in Int /\ MsPerSecond % TimeFactor = MsPerSecond - TimeFactor * Pace
      /\ MsPerSecond % TimeFactor < TimeFactor
  BY Numbers, DivMod DEF Pace
<1>2. MsPerSecond \in Nat /\ TimeFactor \in Nat /\ 0 < TimeFactor /\ TimeFactor <= MsPerSecond
  BY GpsAssumption
<1>3. CASE Pace <= 0
  <2>1. TimeFactor * Pace <= 0 /\ TimeFactor * Pace \in Int
    BY <1>1, <1>2, <1>3
  <2> QED BY <1>1, <1>2, <2>1
<1> QED
  BY <1>1, <1>3

LEMMA DayPositive == MsPerDay \in Nat \ {0}
  BY Numbers DEF MsPerDay

(* The difference of the readings is the time since the fix, and the time shown
   was right, by that, at the last call. *)
Inv ==
  /\ millis \in Readings /\ gpsMillis \in Readings
  /\ gpsTime \in Times \cup {NoTime}
  /\ Time = NoTime <=> gpsTime = NoTime
  /\ sinceFix \in 0 .. LongestOutage /\ sinceCall \in 0 .. LoopPeriod
  /\ gpsTime # NoTime => Elapsed = sinceFix /\ sinceCall <= sinceFix
  /\ ~Awaiting => Time = (gpsTime + (sinceFix - sinceCall) \div Pace) % SecondsPerDay

RealInv == realTime \in 0 .. MsPerDay - 1

(* The sentence of the last fix told a time that was right when it was sent. *)
TrueInv ==
  /\ RealInv
  /\ gpsTime # NoTime =>
       \E b \in Int, a \in 0 .. SentenceAge :
         /\ realTime = b % MsPerDay
         /\ gpsTime = ((b - sinceFix - a) % MsPerDay) \div MsPerSecond

LEMMA ElapsedTick ==
  ASSUME NEW a \in Readings, NEW b \in Readings, NEW n \in Nat,
         (a - b) % ClockWidth = n, n + 1 < ClockWidth
  PROVE  /\ (a + 1) % ClockWidth \in Readings
         /\ (((a + 1) % ClockWidth) - b) % ClockWidth = n + 1
<1> DEFINE w == ClockWidth
<1>1. w \in Nat \ {0}
  BY Numbers DEF Readings
<1>2. (a + 1) % w \in Readings
  BY <1>1, DivMod DEF Readings
<1> DEFINE next == ((a + 1) % w)
<1>3. next = IF a = w - 1 THEN 0 ELSE a + 1
  BY Numbers DEF Readings
<1>4. n = IF a >= b THEN a - b ELSE a - b + w
  BY Numbers DEF Readings
<1> HIDE DEF next
<1>5. (next - b) % w = IF next >= b THEN next - b ELSE next - b + w
  BY <1>2, Numbers DEF Readings, next
<1>6. (next - b) % w = n + 1
  BY <1>3, <1>4, <1>5, Numbers DEF Readings
<1> QED
  BY <1>2, <1>6 DEF next

(* What a sentence tells is a second of the day. *)
LEMMA ToldIsTime ==
  ASSUME NEW b \in Int
  PROVE  (b % MsPerDay) \div MsPerSecond \in Times
<1>1. (b % MsPerDay) \div MsPerSecond = (b \div MsPerSecond) % SecondsPerDay
  BY SecondOfDay, Numbers DEF MsPerDay
<1>2. b \div MsPerSecond \in Int
  BY DivMod, Numbers
<1>3. (b \div MsPerSecond) % SecondsPerDay \in 0 .. SecondsPerDay - 1
  BY <1>2, DivMod, Numbers
<1> QED
  BY <1>1, <1>3 DEF Times

(* The start. *)
LEMMA InitInv == Init => Inv /\ TrueInv
<1> SUFFICES ASSUME Init PROVE Inv /\ TrueInv
  OBVIOUS
<1>1. Awaiting
  BY DEF Init, Awaiting
<1>2. Inv
  BY <1>1, Numbers DEF Init, Inv, Readings, NoTime
<1>3. TrueInv
  BY DEF Init, TrueInv, RealInv
<1> QED
  BY <1>2, <1>3

(* A fix is a second of the day and is no time ago. *)
LEMMA SetStep ==
  ASSUME Inv, NEW t \in Times, SetTime(t), sinceCall' = 0, millis' = millis
  PROVE  gpsTime' = t /\ Time' = t /\ Elapsed' = 0 /\ ~Awaiting' /\ Inv'
<1>1. /\ gpsTime' = t /\ Time' = t /\ gpsMillis' = millis /\ sinceFix' = 0
      /\ millis' = millis /\ sinceCall' = 0
  BY DEF SetTime
<1>2. gpsTime' # NoTime /\ gpsTime' \in Nat /\ gpsTime' < SecondsPerDay
  BY <1>1, Numbers DEF Times, NoTime
<1>3. Elapsed' = 0
  BY <1>1, Numbers DEF Elapsed, Inv, Readings
<1>4. ~Awaiting'
  BY <1>2, <1>3, Numbers DEF Awaiting, shouldUpdateGpsTime
<1>5. (gpsTime' + (sinceFix' - sinceCall') \div Pace) % SecondsPerDay = gpsTime'
  <2>1. (sinceFix' - sinceCall') \div Pace = 0
    BY <1>1, PacePositive
  <2> QED BY <2>1, <1>2, Numbers
<1>6. Inv'
  BY <1>1, <1>2, <1>3, <1>5, Numbers DEF Inv
<1> QED
  BY <1>1, <1>3, <1>4, <1>6

LEMMA FixStep ==
  ASSUME Inv, RealInv, ReadState, Fix
  PROVE  /\ gpsTime' \in Times /\ Time' = gpsTime' /\ ~Awaiting'
         /\ Inv' /\ TrueInv'
<1>1. PICK t \in Told : SetTime(t)
  BY DEF Fix
<1>2. PICK a \in 0 .. SentenceAge : t = ((realTime - a) % MsPerDay) \div MsPerSecond
  BY DEF Told
<1>3. realTime \in Int /\ realTime - a \in Int
  BY Numbers DEF RealInv
<1>4. t \in Times
  BY <1>2, <1>3, ToldIsTime
<1>5. sinceCall' = 0 /\ millis' = millis /\ realTime' = realTime
  BY DEF ReadState
<1>6. gpsTime' = t /\ Time' = t /\ ~Awaiting' /\ Inv'
  BY <1>1, <1>4, <1>5, SetStep
<1>7. TrueInv'
  <2>1. realTime % MsPerDay = realTime
    BY DayPositive DEF RealInv
  <2>2. realTime' = realTime % MsPerDay
    BY <1>5, <2>1
  <2>3. sinceFix' = 0 /\ realTime - sinceFix' - a = realTime - a
    BY <1>1, <1>3 DEF SetTime
  <2> QED BY <1>2, <1>3, <1>5, <1>6, <2>2, <2>3 DEF TrueInv, RealInv
<1> QED
  BY <1>4, <1>6, <1>7

LEMMA RunInv ==
  ASSUME Inv, ReadState, Run
  PROVE  Inv'
<1>1. /\ UNCHANGED <<millis, gpsTime, gpsMillis, sinceFix>> /\ sinceCall' = 0
      /\ Time' = FreeRunning /\ gpsTime # NoTime
  BY DEF Run, ReadState, Awaiting
<1>2. Elapsed = sinceFix /\ Elapsed' = Elapsed /\ sinceFix' - sinceCall' = sinceFix
  BY <1>1 DEF Inv, Elapsed
<1>3. Time' = (gpsTime + sinceFix \div Pace) % SecondsPerDay
  BY <1>1, <1>2 DEF FreeRunning, Pace
<1>4. Time' # NoTime
  <2>1. gpsTime + sinceFix \div Pace \in Int
    BY <1>1, DivMod, PacePositive DEF Inv, Times
  <2> QED BY <1>3, <2>1, DivMod, Numbers DEF NoTime
<1>5. Awaiting' <=> Awaiting
  BY <1>1, <1>2 DEF Awaiting, shouldUpdateGpsTime
<1> QED
  BY <1>1, <1>2, <1>3, <1>4, Numbers DEF Inv

LEMMA WaitInv ==
  ASSUME Inv, ReadState, Wait
  PROVE  Inv' /\ Awaiting'
<1>1. UNCHANGED <<millis, gpsTime, gpsMillis, Time, sinceFix>> /\ sinceCall' = 0 /\ Awaiting
  BY DEF Wait, ReadState
<1>2. Elapsed' = Elapsed
  BY <1>1 DEF Elapsed
<1>3. Awaiting'
  BY <1>1, <1>2 DEF Awaiting, shouldUpdateGpsTime
<1> QED
  BY <1>1, <1>2, <1>3, Numbers DEF Inv

LEMMA TickInv ==
  ASSUME Inv, Tick
  PROVE  /\ Inv' /\ (gpsTime # NoTime => Elapsed' = Elapsed + 1)
<1>1. /\ millis' = (millis + 1) % ClockWidth
      /\ sinceFix' = IF gpsTime = NoTime THEN 0 ELSE sinceFix + 1
      /\ sinceCall < LoopPeriod /\ sinceCall' = sinceCall + 1
      /\ gpsTime # NoTime => sinceFix < LongestOutage
      /\ UNCHANGED <<gpsTime, gpsMillis, Time>>
  BY DEF Tick
<1>2. /\ millis \in Readings /\ gpsMillis \in Readings /\ sinceFix \in 0 .. LongestOutage
      /\ sinceCall \in 0 .. LoopPeriod
  BY DEF Inv
<1>3. millis' \in Readings
  BY <1>1, <1>2, DivMod, Numbers DEF Readings
<1>4. ASSUME gpsTime # NoTime
      PROVE  Elapsed = sinceFix /\ Elapsed' = sinceFix + 1 /\ sinceFix' = sinceFix + 1
  <2>1. Elapsed = sinceFix /\ sinceFix + 1 < ClockWidth
    BY <1>1, <1>2, <1>4, Numbers DEF Inv
  <2>2. (((millis + 1) % ClockWidth) - gpsMillis) % ClockWidth = sinceFix + 1
    BY <1>2, <2>1, ElapsedTick DEF Elapsed
  <2> QED BY <1>1, <1>4, <2>1, <2>2 DEF Elapsed
<1>5. sinceFix' \in 0 .. LongestOutage /\ sinceCall' \in 0 .. LoopPeriod
  BY <1>1, <1>2, Numbers
<1>6. gpsTime # NoTime => sinceCall' <= sinceFix' /\ sinceFix' - sinceCall' = sinceFix - sinceCall
  BY <1>1, <1>2 DEF Inv
<1>7. ~Awaiting' => ~Awaiting
  BY <1>1, <1>2, <1>4, Numbers DEF Awaiting, shouldUpdateGpsTime
<1>8. ~Awaiting' => gpsTime # NoTime
  BY <1>1 DEF Awaiting
<1> QED
  BY <1>1, <1>2, <1>3, <1>4, <1>5, <1>6, <1>7, <1>8 DEF Inv

(* The last fix is one tick longer ago, and so is the moment it told. *)
LEMMA TickTrueInv ==
  ASSUME Inv, TrueInv, Tick
  PROVE  TrueInv'
<1>1. /\ realTime' = (realTime + 1) % MsPerDay /\ gpsTime' = gpsTime
      /\ sinceFix' = IF gpsTime = NoTime THEN 0 ELSE sinceFix + 1
  BY DEF Tick
<1>2. realTime \in Int /\ MsPerDay \in Nat \ {0} /\ sinceFix \in Int
  BY DayPositive DEF TrueInv, RealInv, Inv
<1>3. realTime' \in 0 .. MsPerDay - 1
  BY <1>1, <1>2, DivMod
<1>4. ASSUME gpsTime # NoTime
      PROVE  \E b \in Int, a \in 0 .. SentenceAge :
               /\ realTime' = b % MsPerDay
               /\ gpsTime' = ((b - sinceFix' - a) % MsPerDay) \div MsPerSecond
  <2>1. PICK b \in Int, a \in 0 .. SentenceAge :
          /\ realTime = b % MsPerDay
          /\ gpsTime = ((b - sinceFix - a) % MsPerDay) \div MsPerSecond
    BY <1>4 DEF TrueInv
  <2>2. realTime' = (b + 1) % MsPerDay
    <3> DEFINE k == 1
    <3>1. k \in Int
      OBVIOUS
    <3> HIDE DEF k
    <3>2. ((b % MsPerDay) + k) % MsPerDay = (b + k) % MsPerDay
      BY <1>2, <3>1, ModAdd
    <3> QED BY <1>1, <2>1, <3>2 DEF k
  <2>3. ((b + 1) - sinceFix') - a = b - sinceFix - a
    BY <1>1, <1>2, <1>4, Numbers
  <2>4. gpsTime' = ((((b + 1) - sinceFix') - a) % MsPerDay) \div MsPerSecond
    BY <1>1, <2>1, <2>3
  <2> DEFINE c == b + 1
  <2>5. c \in Int
    OBVIOUS
  <2>6. realTime' = c % MsPerDay
    BY <2>2
  <2>7. gpsTime' = ((c - sinceFix' - a) % MsPerDay) \div MsPerSecond
    BY <2>4
  <2> HIDE DEF c
  <2> QED BY <2>5, <2>6, <2>7
<1> QED
  BY <1>1, <1>3, <1>4 DEF TrueInv, RealInv

LEMMA NextInv ==
  ASSUME Inv, RealInv, [Next]_vars
  PROVE  Inv' /\ RealInv' /\ (TrueInv => TrueInv')
<1>1. CASE ReadState /\ Fix
  BY <1>1, FixStep DEF TrueInv
<1>2. CASE ReadState /\ (Run \/ Wait)
  <2>1. Inv'
    BY <1>2, RunInv, WaitInv
  <2>2. UNCHANGED <<gpsTime, sinceFix, realTime>>
    BY <1>2 DEF ReadState, Run, Wait
  <2> QED BY <2>1, <2>2 DEF TrueInv, RealInv
<1>3. CASE Tick
  <2>1. RealInv'
    <3>1. realTime' = (realTime + 1) % MsPerDay /\ realTime + 1 \in Int
      BY <1>3 DEF Tick, RealInv
    <3> QED BY <3>1, DayPositive, DivMod DEF RealInv, MsPerDay
  <2> QED BY <1>3, <2>1, TickInv, TickTrueInv
<1>4. CASE UNCHANGED vars
  <2>1. UNCHANGED <<Elapsed, Awaiting>>
    BY <1>4 DEF vars, Elapsed, Awaiting, shouldUpdateGpsTime
  <2> QED BY <1>4, <2>1 DEF vars, Inv, TrueInv, RealInv
<1> QED
  BY <1>1, <1>2, <1>3, <1>4 DEF Next, ReadState

LEMMA Inductive == Spec => [](Inv /\ TrueInv)
<1>1. Inv /\ TrueInv /\ [Next]_vars => (Inv /\ TrueInv)'
  BY NextInv DEF TrueInv
<1> QED
  BY <1>1, InitInv, PTL DEF Spec

-----------------------------------------------------------------------------
(* From call to call the time shown moves by what has passed since the last. *)
LEMMA RunAdvances ==
  ASSUME Inv, ReadState, Run
  PROVE  \E k \in 0 .. LoopPeriod \div Pace + 1 : Time' = (Time + k) % SecondsPerDay
<1> DEFINE before == sinceFix - sinceCall
           k == (before + sinceCall) \div Pace - before \div Pace
<1>1. /\ Elapsed = sinceFix /\ sinceCall <= sinceFix /\ sinceFix \in Nat /\ sinceCall \in Nat
      /\ sinceCall <= LoopPeriod /\ gpsTime \in Int
      /\ Time = (gpsTime + before \div Pace) % SecondsPerDay
  BY DEF Inv, Run, Awaiting, Times
<1>2. Time' = (gpsTime + sinceFix \div Pace) % SecondsPerDay
  BY <1>1 DEF Run, FreeRunning, Pace
<1>3. before \in Nat /\ before + sinceCall = sinceFix
  BY <1>1
<1>4. before \div Pace \in Int /\ sinceFix \div Pace \in Int /\ k \in Int
  BY <1>1, <1>3, DivMod, PacePositive
<1>5. k \in 0 .. sinceCall \div Pace + 1
  BY <1>1, <1>3, PacePositive, DivGrows
<1>6. sinceCall \div Pace \in Nat /\ sinceCall \div Pace <= LoopPeriod \div Pace
      /\ LoopPeriod \div Pace \in Nat
  <2>1. LoopPeriod \in Nat
    BY Numbers
  <2>2. LoopPeriod <= LoopPeriod
    BY <2>1
  <2> QED BY <1>1, <2>1, <2>2, PacePositive, DivMonotone
<1>7. k \in 0 .. LoopPeriod \div Pace + 1
  BY <1>5, <1>6
<1>8. gpsTime + before \div Pace + k = gpsTime + sinceFix \div Pace
  BY <1>1, <1>3, <1>4
<1>9. (((gpsTime + before \div Pace) % SecondsPerDay) + k) % SecondsPerDay
        = (gpsTime + before \div Pace + k) % SecondsPerDay
  <2> DEFINE x == gpsTime + before \div Pace
  <2>1. x \in Int
    BY <1>1, <1>4
  <2> HIDE DEF x, k
  <2>2. ((x % SecondsPerDay) + k) % SecondsPerDay = (x + k) % SecondsPerDay
    BY <1>4, <2>1, Numbers, ModAdd
  <2> QED BY <2>2 DEF x
<1>10. Time' = (Time + k) % SecondsPerDay
  BY <1>1, <1>2, <1>8, <1>9
<1> QED
  BY <1>7, <1>10

LEMMA StepClock ==
  ASSUME Inv, RealInv, [Next]_vars
  PROVE  [Clock!Next]_(Clock!vars)
<1> USE DEF Clock!Next, Clock!vars
<1>1. CASE ReadState /\ Fix
  <2>1. gpsTime' \in Times /\ Time' = gpsTime' /\ ~Awaiting' /\ Awaiting
    BY <1>1, FixStep DEF Fix, SetTime
  <2>2. Mode' = "running" /\ Mode \in {"unknown", "stale"}
    BY <2>1 DEF Mode, Awaiting
  <2> QED BY <2>1, <2>2 DEF Clock!Fix, Clock!Times, Times
<1>2. CASE ReadState /\ Run
  <2>1. UNCHANGED <<millis, gpsTime, gpsMillis>> /\ ~Awaiting
    BY <1>2 DEF ReadState, Run
  <2>2. Mode = "running" /\ Mode' = Mode
    BY <2>1 DEF Mode, Awaiting, shouldUpdateGpsTime, Elapsed
  <2> QED BY <1>2, <2>2, RunAdvances DEF Clock!Advance, Pace
<1>3. CASE ReadState /\ Wait
  <2>1. UNCHANGED <<millis, gpsTime, gpsMillis, Time>>
    BY <1>3 DEF ReadState, Wait
  <2> QED BY <2>1 DEF Mode, shouldUpdateGpsTime, Elapsed
<1>4. CASE Tick
  <2>1. UNCHANGED <<gpsTime, Time>> /\ (gpsTime # NoTime => Elapsed' = Elapsed + 1)
    BY <1>4, TickInv DEF Tick
  <2>2. gpsTime # NoTime => Elapsed \in Nat
    BY Numbers DEF Inv
  <2>3. shouldUpdateGpsTime /\ gpsTime # NoTime => shouldUpdateGpsTime'
    BY <2>1, <2>2, Numbers DEF shouldUpdateGpsTime
  <2>4. Mode' = Mode \/ (Mode = "running" /\ Mode' = "stale")
    BY <2>1, <2>3 DEF Mode
  <2> QED BY <2>1, <2>4 DEF Clock!GoStale
<1>5. CASE UNCHANGED vars
  BY <1>5 DEF vars, Mode, shouldUpdateGpsTime, Elapsed
<1> QED
  BY <1>1, <1>2, <1>3, <1>4, <1>5 DEF Next, ReadState

(* However the receiver behaves and wherever millis() wraps, the time shown is
   unknown, stands still, or advances by what a loop may take; it jumps only with
   a fix. *)
THEOREM ClockImplemented == Spec => ClockSpec
<1>1. Init => Clock!Init
  BY DEF Init, Clock!Init, Mode, NoTime, Clock!NoTime
<1>2. Inv /\ TrueInv /\ [Next]_vars => [Clock!Next]_(Clock!vars)
  BY StepClock DEF TrueInv
<1> QED
  BY <1>1, <1>2, Inductive, PTL DEF Spec, ClockSpec, Clock!Spec

-----------------------------------------------------------------------------
(* Seconds are lost by rounding down at most twice. *)
LEMMA SumOfSeconds ==
  ASSUME NEW x \in Int, NEW n \in Nat, NEW a \in 0 .. SentenceAge
  PROVE  (x + n + a) \div MsPerSecond - x \div MsPerSecond - n \div MsPerSecond \in 0 .. MaxLag
<1> DEFINE m == MsPerSecond
           p == x \div m
           q == n \div m
           t == x % m
           v == n % m
<1>1. m \in Nat \ {0} /\ SentenceAge \in Nat
  BY Numbers
<1>2. p \in Int /\ t \in 0 .. m - 1 /\ t = x - m * p
  BY <1>1, DivMod
<1>3. q \in Int /\ v \in 0 .. m - 1 /\ v = n - m * q
  <2>1. n \in Int
    OBVIOUS
  <2> QED BY <1>1, <2>1, DivMod
<1> HIDE DEF p, q, t, v, m
<1> DEFINE left == t + v + a
           u == left \div m
           w == left % m
<1>4. left \in Nat /\ left <= SentenceAge + 2 * (m - 1)
  BY <1>1, <1>2, <1>3
<1> HIDE DEF left
<1>5. u \in Int /\ w \in 0 .. m - 1 /\ w = left - m * u
  <2>1. left \in Int
    BY <1>4
  <2> QED BY <1>1, <2>1, DivMod
<1>6. u \in Nat /\ u <= MaxLag
  <2>1. SentenceAge + 2 * (m - 1) \in Nat
    BY <1>1
  <2> QED BY <1>1, <1>4, <2>1, DivMonotone DEF MaxLag, m
<1> HIDE DEF u, w
<1>7. x + n + a = m * (p + q + u) + w
  <2>1. /\ m * (p + q + u) = m * p + m * q + m * u
        /\ m * p \in Int /\ m * q \in Int /\ m * u \in Int
    BY <1>1, <1>2, <1>3, <1>5
  <2> QED BY <1>2, <1>3, <1>4, <1>5, <2>1 DEF left
<1>8. (x + n + a) \div m = p + q + u
  <2> DEFINE k == p + q + u
  <2>1. k \in Int
    BY <1>2, <1>3, <1>5
  <2> HIDE DEF k
  <2>2. (m * k + w) \div m = k
    BY <1>1, <1>5, <2>1, DivModUnique
  <2> QED BY <1>7, <2>2 DEF k
<1>9. ((p + q + u) - p) - q = u
  BY <1>2, <1>3, <1>5
<1>10. (x + n + a) \div m - p - q = u
  BY <1>8, <1>9, Zenon
<1>11. (x + n + a) \div m - p - q \in 0 .. MaxLag
  <2>1. MaxLag \in Int
    <3>1. SentenceAge + 2 * (m - 1) \in Int
      BY <1>1
    <3> QED BY <1>1, <3>1, DivMod DEF MaxLag, m
  <2> QED BY <1>6, <1>10, <2>1
<1> QED
  BY <1>11 DEF p, q, m

(* A call that does not wait for a fix shows, on a clock that is not sped up, a
   time at most MaxLag behind the true one. *)
LEMMA LagBounded ==
  ASSUME TimeFactor = 1, Inv, TrueInv
  PROVE  ShowsTrueTime
<1> SUFFICES ASSUME sinceCall = 0, ~Awaiting PROVE Lag <= MaxLag
  BY DEF ShowsTrueTime
<1> DEFINE m == MsPerSecond
           S == SecondsPerDay
<1>1. m \in Nat \ {0} /\ S \in Nat \ {0} /\ sinceFix \in Nat /\ Pace = m
  BY Numbers DEF Inv, Pace
<1>2. PICK b \in Int, a \in 0 .. SentenceAge :
        /\ realTime = b % MsPerDay
        /\ gpsTime = ((b - sinceFix - a) % MsPerDay) \div m
  BY DEF TrueInv, Awaiting
<1> DEFINE x == b - sinceFix - a
           X == x \div m
           N == sinceFix \div m
           B == b \div m
<1>3. x \in Int /\ x + sinceFix + a = b /\ a \in Nat
  BY <1>1, Numbers
<1>4. X \in Int /\ N \in Int /\ B \in Int
  BY <1>1, <1>3, DivMod
<1>5. gpsTime = X % S
  BY <1>1, <1>2, <1>3, SecondOfDay DEF MsPerDay
<1>6. realTime \div m = B % S
  BY <1>1, <1>2, SecondOfDay DEF MsPerDay
<1>7. Time = ((X % S) + N) % S
  <2>1. sinceFix - sinceCall = sinceFix
    BY <1>1
  <2> QED BY <1>1, <1>5, <2>1 DEF Inv
<1>8. B - X - N \in 0 .. MaxLag
  BY <1>1, <1>3, SumOfSeconds
<1> HIDE DEF X, N, B, m, S
<1>9. Time = (X + N) % S
  BY <1>1, <1>4, <1>7, ModAdd
<1>10. ((B % S) - Time) % S = ((B % S) - (X + N)) % S
  <2>1. X + N \in Int /\ B % S \in Int
    BY <1>1, <1>4, DivMod
  <2> DEFINE y == X + N
             c == B % S
  <2> HIDE DEF y, c
  <2>2. (c - (y % S)) % S = (c - y) % S
    BY <1>1, <2>1, ModSub DEF y, c
  <2>3. Time = y % S
    BY <1>9 DEF y
  <2>4. (c - Time) % S = (c - y) % S
    BY <2>2, <2>3, Zenon
  <2> QED BY <2>4 DEF y, c
<1>11. ((B % S) - (X + N)) % S = (B - (X + N)) % S
  <2> DEFINE y == -(X + N)
  <2>1. y \in Int
    BY <1>4
  <2>2. ((B % S) + y) % S = (B + y) % S
    BY <1>1, <1>4, <2>1, ModAdd
  <2>3. B % S \in Int
    BY <1>1, <1>4, DivMod
  <2>4. (B % S) + y = (B % S) - (X + N) /\ B + y = B - (X + N)
    BY <1>4, <2>3
  <2> QED BY <2>2, <2>4
<1>12. B - (X + N) = B - X - N /\ B - X - N \in Nat
  BY <1>4, <1>8
<1>13. (B - X - N) % S <= B - X - N
  BY <1>1, <1>12, ModAtMost
<1>14. Lag <= B - X - N
  BY <1>6, <1>10, <1>11, <1>12, <1>13 DEF Lag, m, S
<1>15. B - X - N <= MaxLag /\ MaxLag \in Int
  <2>1. SentenceAge + 2 * (MsPerSecond - 1) \in Int
    BY Numbers
  <2>2. MaxLag \in Int
    BY <2>1, Numbers, DivMod DEF MaxLag
  <2> QED BY <1>8, <2>2
<1>16. Lag \in Int
  <2>1. Lag = (B - X - N) % S
    BY <1>6, <1>10, <1>11, <1>12 DEF Lag, m, S
  <2>2. B - X - N \in Int
    BY <1>12
  <2> QED BY <1>1, <2>1, <2>2, DivMod
<1> QED
  BY <1>12, <1>14, <1>15, <1>16

(* The reader's clock is never ahead of the true time, nor more behind it than
   the sentence and two roundings make. *)
THEOREM TimeShown == TimeFactor = 1 => (Spec => []ShowsTrueTime)
<1> SUFFICES ASSUME TimeFactor = 1 PROVE Spec => []ShowsTrueTime
  OBVIOUS
<1>1. Inv /\ TrueInv => ShowsTrueTime
  BY LagBounded
<1> QED
  BY <1>1, Inductive, PTL

-----------------------------------------------------------------------------
(* GpsFeed implements GpsReader. *)

(* The second of the day it was a ms ago. *)
TimeAgo(a) == ((realTime - a) % MsPerDay) \div MsPerSecond

(* The most a last byte at place i of the port may be late: it was received when
   its sentence was complete, with PortSize - i calls behind it at the most. *)
Late(i) == SentenceLength + (PortSize - i) * LoopPeriod + sinceCall

LineInv ==
  /\ sending \in Bytes \cup {None}
  /\ sending.n < SentenceLength
  /\ sending # None => sending.time = TimeAgo(sending.n)

PortInv ==
  /\ port \in Seq(Bytes)
  /\ Len(port) <= PortSize

(* A sentence is only heard in part while a fix is awaited. *)
SourceInv ==
  /\ source \in Bytes \cup {None}
  /\ source.n < SentenceLength
  /\ source # None => Awaiting

(* The parser is at the place of the sentence that is whole so far, and has taken
   its time; a sentence that may be accepted has told some time. *)
ParserInv ==
  /\ heard = [n |-> heard.n, time |-> heard.time, good |-> heard.good, parity |-> heard.parity]
  /\ heard.n \in 1 .. SentenceLength
  /\ source # None =>
       heard.n = source.n /\ (source.n >= TimePlace => heard.time = source.time)
  /\ heard.good \/ heard.n \in TimePlace .. SentenceLength - 1 => heard.time \in Times

(* A last byte that may complete the sentence heard so far is not old: the first
   byte of that sentence has been read, so the last came when calls read bytes. *)
EndsFresh ==
  \A i \in 1 .. Len(port) :
    /\ source # None
    /\ port[i].n = SentenceLength
    /\ source.n + i = SentenceLength
    => \E a \in 0 .. Late(i) : port[i].time = TimeAgo(a)

FeedInv == LineInv /\ PortInv /\ SourceInv /\ ParserInv /\ EndsFresh

LEMMA FeedNumbers ==
  /\ TimePlace \in 2 .. SentenceLength - 2
  /\ SentenceLength \in Nat \ {0} /\ PortSize \in Nat \ {0} /\ PortSize < SentenceLength
  /\ LoopPeriod \in Nat \ {0} /\ PortSize * LoopPeriod \in Nat
  /\ SentenceLength + PortSize * LoopPeriod <= SentenceAge
  BY FeedAssumption, Numbers

(* The first byte read later has one call more to wait. *)
LEMMA LateShifts ==
  ASSUME NEW i \in Int
  PROVE  /\ (PortSize - i) * LoopPeriod \in Int
         /\ (PortSize - (i - 1)) * LoopPeriod = (PortSize - i) * LoopPeriod + LoopPeriod
<1> DEFINE k == PortSize - i
<1>1. k \in Int /\ PortSize - (i - 1) = k + 1 /\ LoopPeriod \in Int
  BY FeedNumbers
<1> HIDE DEF k
<1>2. (k + 1) * LoopPeriod = k * LoopPeriod + LoopPeriod /\ k * LoopPeriod \in Int
  BY <1>1
<1> QED
  BY <1>1, <1>2 DEF k

LEMMA TimeAgoIsTime ==
  ASSUME RealInv, NEW a \in Int
  PROVE  TimeAgo(a) \in Times
<1>1. realTime - a \in Int
  BY DEF RealInv
<1> QED
  BY <1>1, ToldIsTime DEF TimeAgo

LEMMA TimeAgoTick ==
  ASSUME RealInv, Tick, NEW a \in Int
  PROVE  TimeAgo(a)' = TimeAgo(a - 1)
<1> DEFINE x == realTime + 1
           k == -a
<1>1. x \in Int /\ k \in Int /\ realTime' = x % MsPerDay
  BY DEF RealInv, Tick
<1>2. x + k = realTime - (a - 1)
  BY DEF RealInv
<1> HIDE DEF x, k
<1>3. ((x % MsPerDay) + k) % MsPerDay = (x + k) % MsPerDay
  BY <1>1, DayPositive, ModAdd
<1>4. realTime' + k = realTime' - a
  <2>1. realTime' \in Int
    BY <1>1, DayPositive, DivMod
  <2> QED BY <2>1 DEF k
<1>5. (realTime' - a) % MsPerDay = (realTime - (a - 1)) % MsPerDay
  BY <1>1, <1>2, <1>3, <1>4
<1>6. TimeAgo(a)' = ((realTime' - a) % MsPerDay) \div MsPerSecond
  BY DEF TimeAgo, MsPerDay
<1>7. TimeAgo(a - 1) = ((realTime - (a - 1)) % MsPerDay) \div MsPerSecond
  BY DEF TimeAgo
<1> QED
  BY <1>5, <1>6, <1>7

LEMMA BytesFields ==
  /\ \A b \in Bytes : b.n \in 1 .. SentenceLength /\ b.time \in Times
                      /\ b.n \in Nat /\ b # None /\ b = [n |-> b.n, time |-> b.time]
  /\ \A n \in 1 .. SentenceLength, t \in Times : [n |-> n, time |-> t] \in Bytes
  /\ None.n = 0
<1>1. \A b \in Bytes : b.n \in 1 .. SentenceLength /\ b.time \in Times
                       /\ b = [n |-> b.n, time |-> b.time]
  BY DEF Bytes
<1>2. \A b \in Bytes : b.n \in Nat /\ b.n # 0
  BY <1>1, FeedNumbers
<1>3. None.n = 0
  BY DEF None
<1>4. \A n \in 1 .. SentenceLength, t \in Times : [n |-> n, time |-> t] \in Bytes
  BY DEF Bytes
<1> QED
  BY <1>1, <1>2, <1>3, <1>4

LEMMA FeedInitInv == FeedInit => FeedInv
<1> SUFFICES ASSUME FeedInit PROVE FeedInv
  OBVIOUS
<1>1. sending = None /\ source = None /\ port = <<>>
  BY DEF FeedInit
<1>4. ParserInv
  <2>1. PICK n \in {1, SentenceLength} :
          heard = [n |-> n, time |-> NoTime, good |-> FALSE, parity |-> {}]
    BY DEF FeedInit
  <2> QED BY <1>1, <2>1, FeedNumbers DEF ParserInv
<1>2. None.n < SentenceLength
  BY BytesFields, FeedNumbers
<1>3. port \in Seq(Bytes) /\ Len(port) = 0
  BY <1>1
<1> QED
  BY <1>1, <1>2, <1>3, <1>4, FeedNumbers DEF FeedInv, LineInv, PortInv, SourceInv, EndsFresh

(* The last byte of a whole sentence is not too old. *)
LEMMA AcceptedIsTold ==
  ASSUME Inv, FeedInv, port # <<>>, Encode(Head(port)), Follows(Head(port))
  PROVE  heard.time \in Told
<1> DEFINE b == Head(port)
<1>1. /\ port \in Seq(Bytes) /\ Len(port) \in Nat \ {0} /\ b = port[1] /\ 1 \in 1 .. Len(port)
  BY DEF FeedInv, PortInv
<1>2. b.n = SentenceLength /\ source.n > 0 /\ b.n = source.n + 1 /\ b.time = source.time
  BY DEF Encode, Follows
<1>3. source # None
  BY <1>2, BytesFields
<1>8. source.n \in Nat
  BY <1>3, BytesFields DEF FeedInv, SourceInv
<1>9. heard.time = b.time
  BY <1>2, <1>3, <1>8, FeedNumbers DEF FeedInv, ParserInv
<1>4. \E a \in 0 .. Late(1) : port[1].time = TimeAgo(a)
  BY <1>1, <1>2, <1>3, <1>8 DEF FeedInv, EndsFresh
<1>5. PICK a \in 0 .. Late(1) : heard.time = TimeAgo(a)
  BY <1>1, <1>4, <1>9
<1>6. Late(1) <= SentenceAge /\ Late(1) \in Int
  <2>1. (PortSize - 1) * LoopPeriod \in Int
    BY LateShifts
  <2>2. (PortSize - (1 - 1)) * LoopPeriod = (PortSize - 1) * LoopPeriod + LoopPeriod
    BY LateShifts
  <2>3. PortSize - (1 - 1) = PortSize
    BY FeedNumbers
  <2>4. (PortSize - 1) * LoopPeriod = PortSize * LoopPeriod - LoopPeriod
    BY <2>1, <2>2, <2>3, FeedNumbers
  <2>5. sinceCall \in Int /\ sinceCall <= LoopPeriod
    BY Numbers DEF Inv
  <2> QED BY <2>1, <2>4, <2>5, FeedNumbers, Numbers DEF Late
<1>7. a \in 0 .. SentenceAge
  BY <1>6, Numbers
<1> QED
  BY <1>5, <1>7 DEF Told, TimeAgo

(* Each call is one of the reader, or takes a splice. *)
LEMMA CallSteps ==
  ASSUME Inv, FeedInv, Call
  PROVE  \/ ReadState /\ (Fix \/ UNCHANGED spliced)
         \/ TakesSplice /\ spliced'
<1>1. sinceCall' = 0 /\ UNCHANGED <<millis, realTime>>
  BY DEF Call
<1>2. CASE ReadByte /\ Encode(Head(port)) /\ Follows(Head(port))
  <2>1. SetTime(heard.time) /\ heard.time \in Told
    BY <1>2, AcceptedIsTold DEF ReadByte
  <2> QED BY <1>1, <2>1 DEF ReadState, Fix
<1>3. CASE ReadByte /\ Encode(Head(port)) /\ ~Follows(Head(port))
  <2>1. SetTime(heard.time) /\ spliced' /\ port # <<>>
    BY <1>3 DEF ReadByte
  <2>2. heard.time \in Times /\ Collides
    BY <1>3, <2>1 DEF Encode, FeedInv, ParserInv, Collides
  <2> QED BY <1>1, <2>1, <2>2 DEF TakesSplice
<1>4. CASE ReadByte /\ ~Encode(Head(port))
  BY <1>1, <1>4 DEF ReadByte, ReadState
<1>5. CASE ReadNothing \/ RunOn
  BY <1>1, <1>5 DEF ReadState, ReadNothing, RunOn
<1> QED
  BY <1>2, <1>3, <1>4, <1>5 DEF Call

LEMMA SpliceInv ==
  ASSUME Inv, RealInv, TakesSplice
  PROVE  Inv' /\ RealInv' /\ [Clock!Next]_(Clock!vars)
<1>1. PICK t \in Times : SetTime(t)
  BY DEF TakesSplice
<1>2. sinceCall' = 0 /\ millis' = millis /\ realTime' = realTime
  BY DEF TakesSplice
<1>3. gpsTime' = t /\ Time' = t /\ ~Awaiting' /\ Inv' /\ Awaiting
  BY <1>1, <1>2, SetStep DEF SetTime
<1>4. Mode' = "running" /\ Mode \in {"unknown", "stale"}
  BY <1>3 DEF Mode, Awaiting
<1>5. Clock!Fix
  BY <1>3, <1>4 DEF Clock!Fix, Clock!Times, Times
<1> QED
  BY <1>2, <1>3, <1>5 DEF RealInv, MsPerDay, Clock!Next

LEMMA PassIsTick == Pass => Tick
  BY DEF Pass

(* The parser stays at the place of a sentence that is whole so far. *)
LEMMA TracedIs ==
  ASSUME NEW b \in Bytes, source' = Traced(b)
  PROVE  \/ source' = None
         \/ source' = b /\ b.n < SentenceLength /\ (b.n = 1 \/ Follows(b))
  BY FeedNumbers DEF Traced

LEMMA ParsedInv ==
  ASSUME ParserInv, SourceInv, NEW b \in Bytes, heard' \in Parsed(b), source' = Traced(b)
  PROVE  ParserInv'
<1>1. /\ b.n \in 1 .. SentenceLength /\ b.time \in Times /\ TimePlace \in 2 .. SentenceLength - 2
      /\ SentenceLength \in Nat
  BY BytesFields, FeedNumbers
<1>2. /\ heard = [n |-> heard.n, time |-> heard.time, good |-> heard.good, parity |-> heard.parity]
      /\ heard.n \in 1 .. SentenceLength
  BY DEF ParserInv
<1>3. CASE b.n = 1
  <2>1. heard' = [n |-> 1, time |-> heard.time, good |-> FALSE, parity |-> BitsOf[1][b.time]]
    <3>1. heard' = HeardFirst(b)
      BY <1>1, <1>3 DEF Parsed
    <3> DEFINE p == BitsOf[1][b.time]
    <3>2. HeardFirst(b) = [heard EXCEPT !.n = 1, !.good = FALSE, !.parity = p]
      BY DEF HeardFirst
    <3> HIDE DEF p
    <3>3. HeardFirst(b) = [n |-> 1, time |-> heard.time, good |-> FALSE, parity |-> p]
      BY <1>2, <3>2
    <3> QED BY <3>1, <3>3 DEF p
  <2>2. source' = b
    BY <1>3 DEF Traced
  <2> QED BY <1>1, <1>3, <2>1, <2>2 DEF ParserInv
<1>4. CASE b.n = SentenceLength
  <2>1. heard' = [n |-> SentenceLength, time |-> heard.time, good |-> heard.good, parity |-> heard.parity]
    BY <1>1, <1>2, <1>4 DEF Parsed
  <2>2. source' = None
    BY <1>1, <1>4 DEF Traced
  <2> QED BY <1>1, <2>1, <2>2 DEF ParserInv
<1>5. CASE b.n # 1 /\ b.n # SentenceLength
  <2> DEFINE n == IF heard.n < SentenceLength THEN heard.n + 1 ELSE heard.n
             told == IF b.n = TimePlace THEN {b.time} ELSE Times
             good == IF n = TimePlace + 1 THEN b.n = n ELSE heard.good
             parity == SymDiff(heard.parity, BitsOf[b.n][b.time])
  <2>1. PICK t \in IF n = TimePlace THEN told ELSE {heard.time} :
          heard' = [n |-> n, time |-> t, good |-> good, parity |-> parity]
    BY <1>5 DEF Parsed, HeardTerm
  <2>2. n \in 1 .. SentenceLength
    BY <1>1, <1>2
  <2>3. good \/ n \in TimePlace .. SentenceLength - 1 => t \in Times
    <3>1. CASE n = TimePlace
      BY <1>1, <2>1, <3>1
    <3>2. CASE n # TimePlace
      <4>1. t = heard.time
        BY <2>1, <3>2
      <4>2. n \in TimePlace .. SentenceLength - 1 => heard.n \in TimePlace .. SentenceLength - 1
        BY <1>1, <1>2, <3>2
      <4>3. n = TimePlace + 1 => n \in TimePlace .. SentenceLength - 1
        BY <1>1
      <4> QED BY <4>1, <4>2, <4>3 DEF ParserInv
    <3> QED BY <3>1, <3>2
  <2>4. ASSUME source' # None
        PROVE  n = source'.n /\ (source'.n >= TimePlace => t = source'.time)
    <3>1. source' = b /\ b.n < SentenceLength /\ Follows(b)
      BY <1>5, <2>4, TracedIs
    <3>2. source # None /\ source.n > 0 /\ b.n = source.n + 1 /\ b.time = source.time
      BY <3>1, BytesFields DEF Follows
    <3>3. heard.n = source.n /\ (source.n >= TimePlace => heard.time = source.time)
      BY <3>2 DEF ParserInv
    <3>4. n = b.n
      BY <1>1, <1>2, <3>1, <3>2, <3>3
    <3>5. CASE n = TimePlace
      BY <2>1, <3>1, <3>4, <3>5
    <3>6. CASE n # TimePlace
      BY <1>1, <1>2, <2>1, <3>1, <3>2, <3>3, <3>4, <3>6
    <3> QED BY <3>1, <3>4, <3>5, <3>6
  <2> HIDE DEF n, told, good, parity
  <2> QED BY <2>1, <2>2, <2>3, <2>4 DEF ParserInv
<1> QED
  BY <1>3, <1>4, <1>5

(* A byte read leaves the others one place nearer; a sentence that begins with it
   cannot be complete with what the port holds. *)
LEMMA ReadByteFeedInv ==
  ASSUME Inv, RealInv, FeedInv, Call, ReadByte
  PROVE  FeedInv'
<1> DEFINE b == Head(port)
<1>1. /\ Awaiting /\ port # <<>> /\ port' = Tail(port) /\ source' = Traced(b)
      /\ heard' \in Parsed(b) /\ sinceCall' = 0 /\ UNCHANGED <<millis, realTime, sending>>
  BY DEF Call, ReadByte
<1>2. /\ port \in Seq(Bytes) /\ Len(port) <= PortSize /\ Len(port) \in Nat \ {0}
      /\ b = port[1] /\ b \in Bytes
  BY <1>1 DEF FeedInv, PortInv
<1>3. /\ port' \in Seq(Bytes) /\ Len(port') = Len(port) - 1
      /\ \A i \in 1 .. Len(port') : port'[i] = port[i + 1] /\ i + 1 \in 1 .. Len(port)
  BY <1>1, <1>2
<1>4. \A a : TimeAgo(a)' = TimeAgo(a)
  BY <1>1 DEF TimeAgo, MsPerDay
<1>5. LineInv'
  BY <1>1, <1>4 DEF FeedInv, LineInv
<1>6. PortInv'
  BY <1>2, <1>3, FeedNumbers DEF PortInv
<1>7. ParserInv'
  BY <1>1, <1>2, ParsedInv DEF FeedInv
<1>8. ASSUME source' # None
      PROVE  /\ source' \in Bytes /\ source'.n < SentenceLength
             /\ source'.n = 1 \/ (source # None /\ source'.n = source.n + 1)
             /\ ~Encode(b)
  <2>1. source' = b /\ b.n < SentenceLength /\ (b.n = 1 \/ Follows(b))
    BY <1>1, <1>2, <1>8, TracedIs
  <2>2. Follows(b) => source # None /\ b.n = source.n + 1
    BY BytesFields DEF Follows
  <2> QED BY <1>2, <2>1, <2>2, FeedNumbers DEF Encode
<1>9. SourceInv'
  <2>1. CASE source' = None
    BY <2>1, BytesFields, FeedNumbers DEF SourceInv
  <2>2. CASE source' # None
    <3>1. Wait
      BY <1>8, <2>2 DEF ReadByte
    <3>2. ReadState
      BY <1>1, <3>1 DEF ReadState
    <3>3. Awaiting'
      BY <3>1, <3>2, WaitInv
    <3> QED BY <1>8, <2>2, <3>3 DEF SourceInv
  <2> QED BY <2>1, <2>2
<1>10. EndsFresh'
  <2> SUFFICES ASSUME NEW i \in 1 .. Len(port'), source' # None,
                      port'[i].n = SentenceLength, source'.n + i = SentenceLength
               PROVE  \E a \in 0 .. Late(i)' : port'[i].time = TimeAgo(a)'
    BY DEF EndsFresh
  <2>1. i \in Nat /\ i + 1 \in 1 .. Len(port) /\ port'[i] = port[i + 1] /\ i < PortSize
    BY <1>2, <1>3, FeedNumbers
  <2>2. source'.n # 1
    BY <2>1, FeedNumbers
  <2>3. source # None /\ source'.n = source.n + 1
    BY <1>8, <2>2
  <2>4. source.n \in Nat
    BY <2>3, BytesFields DEF FeedInv, SourceInv
  <2>5. source.n + (i + 1) = SentenceLength
    BY <2>1, <2>3, <2>4
  <2> DEFINE j == i + 1
  <2>6. j \in 1 .. Len(port) /\ source.n + j = SentenceLength /\ port[j].n = SentenceLength
    BY <2>1, <2>5
  <2>7. \E a \in 0 .. Late(j) : port[j].time = TimeAgo(a)
    <3> HIDE DEF j
    <3> QED BY <2>3, <2>6 DEF FeedInv, EndsFresh
  <2>8. PICK a \in 0 .. Late(j) : port[j].time = TimeAgo(a)
    BY <2>7
  <2>9. Late(j) <= Late(i)' /\ Late(j) \in Int /\ Late(i)' \in Int
    <3>1. j \in Int /\ i \in Int /\ j - 1 = i
      BY <2>1
    <3>2. (PortSize - (j - 1)) * LoopPeriod = (PortSize - j) * LoopPeriod + LoopPeriod
          /\ (PortSize - j) * LoopPeriod \in Int
      <4> HIDE DEF j
      <4> QED BY <3>1, LateShifts
    <3> DEFINE y == (PortSize - j) * LoopPeriod
    <3>3. (PortSize - i) * LoopPeriod = y + LoopPeriod /\ y \in Int
      BY <3>1, <3>2
    <3>4. sinceCall \in Int /\ sinceCall <= LoopPeriod
      BY Numbers DEF Inv
    <3>5. Late(j) = SentenceLength + y + sinceCall
      BY DEF Late
    <3>6. Late(i)' = SentenceLength + (PortSize - i) * LoopPeriod + 0
      BY <1>1 DEF Late
    <3> HIDE DEF y, j
    <3> QED BY <3>3, <3>4, <3>5, <3>6, FeedNumbers
  <2> HIDE DEF j
  <2>10. a \in 0 .. Late(i)'
    BY <2>9
  <2> QED BY <1>4, <2>1, <2>8, <2>10 DEF j
<1> QED
  BY <1>5, <1>6, <1>7, <1>9, <1>10 DEF FeedInv

LEMMA IdleCallFeedInv ==
  ASSUME Inv, RealInv, FeedInv, Call, ReadNothing \/ RunOn
  PROVE  FeedInv'
<1>1. /\ UNCHANGED <<port, heard, source, sending, realTime>>
      /\ ReadState
  BY DEF Call, ReadNothing, RunOn, ReadState
<1>2. \A a : TimeAgo(a)' = TimeAgo(a)
  BY <1>1 DEF TimeAgo, MsPerDay
<1>3. LineInv' /\ PortInv' /\ ParserInv'
  BY <1>1, <1>2 DEF FeedInv, LineInv, PortInv, ParserInv
<1>4. CASE ReadNothing
  <2>1. port' = <<>> /\ Len(port') = 0 /\ Awaiting'
    BY <1>1, <1>4, WaitInv DEF ReadNothing
  <2>2. SourceInv'
    BY <1>1, <2>1 DEF FeedInv, SourceInv
  <2>3. EndsFresh'
    BY <2>1 DEF EndsFresh
  <2> QED BY <1>3, <2>2, <2>3 DEF FeedInv
<1>5. CASE RunOn
  <2>1. source = None /\ source' = None
    BY <1>1, <1>5 DEF RunOn, Run, FeedInv, SourceInv
  <2> QED BY <1>3, <2>1, BytesFields, FeedNumbers DEF FeedInv, SourceInv, EndsFresh
<1> QED
  BY <1>4, <1>5

(* The wait for a fix outlasts a tick. *)
LEMMA TickAwaits ==
  ASSUME Inv, Tick, Awaiting
  PROVE  Awaiting'
<1>1. gpsTime' = gpsTime /\ (gpsTime # NoTime => Elapsed' = Elapsed + 1 /\ Elapsed \in Int)
  BY TickInv, Numbers DEF Tick, Inv
<1> QED
  BY <1>1, Numbers DEF Awaiting, shouldUpdateGpsTime

(* A byte may be later by the tick that makes it older. *)
LEMMA LateTick ==
  ASSUME Inv, Tick, NEW i \in Int
  PROVE  /\ Late(i)' = Late(i) + 1 /\ Late(i) \in Int
         /\ i <= PortSize => SentenceLength \in 0 .. Late(i)'
<1> DEFINE y == (PortSize - i) * LoopPeriod
<1>1. y \in Int
  BY LateShifts
<1>2. sinceCall \in Nat /\ sinceCall' = sinceCall + 1
  BY Numbers DEF Inv, Tick
<1>3. Late(i) = SentenceLength + y + sinceCall /\ Late(i)' = SentenceLength + y + sinceCall'
  BY DEF Late
<1>4. i <= PortSize => y >= 0
  <2> DEFINE k == PortSize - i
  <2>1. (i <= PortSize => k \in Nat) /\ LoopPeriod \in Nat
    BY FeedNumbers
  <2> HIDE DEF k
  <2>2. k \in Nat => k * LoopPeriod >= 0
    BY <2>1
  <2> QED BY <2>1, <2>2 DEF k
<1> HIDE DEF y
<1> QED
  BY <1>1, <1>2, <1>3, <1>4, FeedNumbers

LEMMA StillLate ==
  ASSUME Inv, RealInv, Tick, NEW i \in Int, NEW a \in 0 .. Late(i)
  PROVE  \E c \in 0 .. Late(i)' : TimeAgo(c)' = TimeAgo(a)
<1> DEFINE c == a + 1
<1>1. Late(i)' = Late(i) + 1 /\ Late(i) \in Int
  BY LateTick
<1>2. c \in 0 .. Late(i)' /\ c \in Int /\ c - 1 = a
  BY <1>1
<1> HIDE DEF c
<1>3. TimeAgo(c)' = TimeAgo(c - 1)
  BY <1>2, TimeAgoTick
<1>4. TimeAgo(c)' = TimeAgo(a)
  BY <1>2, <1>3
<1> QED
  BY <1>2, <1>4

(* A byte the port keeps its place for. *)
LEMMA KeptFresh ==
  ASSUME Inv, RealInv, FeedInv, Tick, UNCHANGED source, NEW i \in 1 .. Len(port),
         source # None, port[i].n = SentenceLength, source.n + i = SentenceLength
  PROVE  \E c \in 0 .. Late(i)' : port[i].time = TimeAgo(c)'
<1>1. PICK a \in 0 .. Late(i) : port[i].time = TimeAgo(a)
  BY DEF FeedInv, EndsFresh
<1>2. i \in Int
  OBVIOUS
<1>3. PICK c \in 0 .. Late(i)' : TimeAgo(c)' = TimeAgo(a)
  BY <1>2, StillLate
<1> QED
  BY <1>1, <1>3

(* The byte put on the line tells the time of its sentence's first. *)
LEMMA PutFeedInv ==
  ASSUME Inv, RealInv, FeedInv, Tick, UNCHANGED <<heard, source>>,
         NEW b \in Bytes, Put(b), b.time = TimeAgo(b.n)'
  PROVE  FeedInv'
<1>1. /\ sending' = IF b.n = SentenceLength THEN None ELSE b
      /\ port' = IF Len(port) < PortSize THEN Append(port, b) ELSE port
  BY DEF Put
<1>2. port \in Seq(Bytes) /\ Len(port) <= PortSize /\ Len(port) \in Nat
  BY DEF FeedInv, PortInv
<1>3. b.n \in 1 .. SentenceLength /\ b.n \in Nat /\ b # None
  BY BytesFields
<1>4. LineInv'
  BY <1>1, <1>3, BytesFields, FeedNumbers DEF LineInv
<1>5. /\ port' \in Seq(Bytes) /\ Len(port') <= PortSize
      /\ \A i \in 1 .. Len(port') : \/ i \in 1 .. Len(port) /\ port'[i] = port[i]
                                    \/ i \in 1 .. PortSize /\ port'[i] = b
  BY <1>1, <1>2, FeedNumbers
<1>6. SourceInv' /\ ParserInv'
  BY TickAwaits DEF FeedInv, SourceInv, ParserInv
<1>7. EndsFresh'
  <2> SUFFICES ASSUME NEW i \in 1 .. Len(port'), source' # None,
                      port'[i].n = SentenceLength, source'.n + i = SentenceLength
               PROVE  \E a \in 0 .. Late(i)' : port'[i].time = TimeAgo(a)'
    BY DEF EndsFresh
  <2>1. CASE i \in 1 .. Len(port) /\ port'[i] = port[i]
    BY <2>1, KeptFresh
  <2>2. CASE i \in 1 .. PortSize /\ port'[i] = b
    <3>1. i \in Int /\ i <= PortSize /\ b.n = SentenceLength
      BY <2>2, FeedNumbers
    <3>2. b.n \in 0 .. Late(i)'
      BY <3>1, LateTick
    <3> QED BY <2>2, <3>2
  <2> QED BY <1>5, <2>1, <2>2
<1> QED
  BY <1>4, <1>5, <1>6, <1>7 DEF FeedInv, PortInv

(* The first byte tells the moment it was begun, the next ones the same. *)
LEMMA BeginPuts ==
  ASSUME RealInv, Tick, Begin
  PROVE  \E b \in Bytes : Put(b) /\ b.time = TimeAgo(b.n)'
<1>1. First.n = 1 /\ First.time = realTime \div MsPerSecond /\ Put(First)
  BY DEF First, Begin
<1>2. TimeAgo(0) = realTime \div MsPerSecond
  BY DayPositive DEF TimeAgo, RealInv
<1>3. First \in Bytes
  <2>1. TimeAgo(0) \in Times
    BY TimeAgoIsTime
  <2>2. 1 \in 1 .. SentenceLength
    BY FeedNumbers
  <2> QED BY <1>2, <2>1, <2>2, BytesFields DEF First
<1>4. PICK b \in Bytes : Put(b) /\ b.n = 1 /\ b.time = TimeAgo(0)
  BY <1>1, <1>2, <1>3
<1>5. TimeAgo(1)' = TimeAgo(0)
  <2>1. TimeAgo(1)' = TimeAgo(1 - 1)
    BY TimeAgoTick
  <2> QED BY <2>1
<1>6. TimeAgo(b.n)' = TimeAgo(1)'
  BY <1>4
<1> QED
  BY <1>4, <1>5, <1>6

LEMMA ContinuePuts ==
  ASSUME RealInv, FeedInv, Tick, Continue
  PROVE  \E b \in Bytes : Put(b) /\ b.time = TimeAgo(b.n)'
<1> DEFINE next == [sending EXCEPT !.n = @ + 1]
<1>1. /\ sending # None /\ sending \in Bytes /\ sending.n < SentenceLength
      /\ sending.time = TimeAgo(sending.n) /\ Put(next)
  BY DEF Continue, FeedInv, LineInv
<1>2. sending = [n |-> sending.n, time |-> sending.time] /\ sending.time \in Times
      /\ sending.n \in Nat
  BY <1>1, BytesFields
<1>3. next = [n |-> sending.n + 1, time |-> sending.time]
  BY <1>2
<1>4. sending.n + 1 \in 1 .. SentenceLength
  BY <1>1, <1>2, FeedNumbers
<1>5. next \in Bytes /\ next.n = sending.n + 1 /\ next.time = sending.time
  BY <1>2, <1>3, <1>4, BytesFields
<1> HIDE DEF next
<1>6. PICK b \in Bytes : Put(b) /\ b.n = sending.n + 1 /\ b.time = TimeAgo(sending.n)
  BY <1>1, <1>5
<1>7. b.n \in Int /\ b.n - 1 = sending.n
  BY <1>2, <1>6
<1>8. TimeAgo(b.n)' = TimeAgo(b.n - 1)
  BY <1>7, TimeAgoTick
<1> QED
  BY <1>6, <1>7, <1>8

LEMMA PassFeedInv ==
  ASSUME Inv, RealInv, FeedInv, Pass
  PROVE  FeedInv'
<1>1. Tick /\ UNCHANGED <<heard, source>>
  BY DEF Pass
<1>2. CASE Begin \/ Continue
  <2>1. PICK b \in Bytes : Put(b) /\ b.time = TimeAgo(b.n)'
    BY <1>1, <1>2, BeginPuts, ContinuePuts
  <2> QED BY <1>1, <2>1, PutFeedInv
<1>3. CASE Silence
  <2>1. UNCHANGED <<sending, port, heard, source>> /\ sending = None
    BY <1>1, <1>3 DEF Silence
  <2>2. LineInv' /\ PortInv' /\ ParserInv'
    BY <2>1 DEF FeedInv, LineInv, PortInv, ParserInv
  <2>3. SourceInv'
    BY <1>1, <2>1, TickAwaits DEF FeedInv, SourceInv
  <2>4. EndsFresh'
    <3> SUFFICES ASSUME NEW i \in 1 .. Len(port), source # None,
                        port[i].n = SentenceLength, source.n + i = SentenceLength
                 PROVE  \E a \in 0 .. Late(i)' : port[i].time = TimeAgo(a)'
      BY <2>1 DEF EndsFresh
    <3> QED BY <1>1, KeptFresh
  <2> QED BY <2>2, <2>3, <2>4 DEF FeedInv
<1> QED
  BY <1>1, <1>2, <1>3 DEF Pass

(* While the last fix came of a whole sentence, what it told was right. *)
FedInv == Inv /\ RealInv /\ FeedInv /\ (~spliced => TrueInv)

LEMMA FeedNextInv ==
  ASSUME FedInv, [FeedNext]_feedVars
  PROVE  FedInv' /\ ([Next]_vars \/ TakesSplice)
<1> USE DEF FedInv
<1>1. CASE Call
  <2>1. FeedInv'
    BY <1>1, ReadByteFeedInv, IdleCallFeedInv DEF Call
  <2>2. CASE ReadState /\ (Fix \/ UNCHANGED spliced)
    <3>1. Next
      BY <2>2 DEF Next
    <3>2. Fix => TrueInv'
      BY <2>2, FixStep
    <3> QED BY <2>1, <2>2, <3>1, <3>2, NextInv
  <2>3. CASE TakesSplice /\ spliced'
    BY <2>1, <2>3, SpliceInv
  <2> QED BY <1>1, <2>2, <2>3, CallSteps
<1>2. CASE Pass
  <2>1. Next /\ UNCHANGED spliced
    BY <1>2, PassIsTick DEF Next, Pass
  <2> QED BY <1>2, <2>1, PassFeedInv, NextInv
<1>3. CASE UNCHANGED feedVars
  <2>1. UNCHANGED vars /\ UNCHANGED <<sending, port, heard, source, spliced>>
    BY <1>3 DEF feedVars
  <2>2. Inv' /\ RealInv' /\ (~spliced' => TrueInv')
    BY <2>1, NextInv
  <2>3. \A a, i : TimeAgo(a)' = TimeAgo(a) /\ Late(i)' = Late(i)
    BY <2>1 DEF vars, TimeAgo, Late, MsPerDay
  <2>4. Awaiting' <=> Awaiting
    BY <2>1 DEF vars, Awaiting, shouldUpdateGpsTime, Elapsed
  <2>5. LineInv' /\ PortInv' /\ SourceInv' /\ ParserInv'
    BY <2>1, <2>3, <2>4 DEF FeedInv, LineInv, PortInv, SourceInv, ParserInv
  <2>6. EndsFresh'
    BY <2>1, <2>3 DEF FeedInv, EndsFresh
  <2> QED BY <2>1, <2>2, <2>5, <2>6 DEF FeedInv
<1> QED
  BY <1>1, <1>2, <1>3 DEF FeedNext

LEMMA FeedInductive == FeedSpec => []FedInv
<1>1. FeedInit => FedInv
  BY InitInv, FeedInitInv DEF FeedInit, FedInv, TrueInv
<1>2. FedInv /\ [FeedNext]_feedVars => FedInv'
  BY FeedNextInv
<1> QED
  BY <1>1, <1>2, PTL DEF FeedSpec

(* Whatever the port has kept over the hours, and whichever bytes it dropped, no
   sentence is accepted that GpsReader does not expect, unless the checksum of its
   last byte is the exclusive or of bytes that are of another one too. *)
THEOREM ReaderImplemented == FeedSpec => ReaderSpec
<1>1. FeedInit => Init
  BY DEF FeedInit
<1>2. FedInv /\ [FeedNext]_feedVars => [Next \/ TakesSplice]_vars
  BY FeedNextInv
<1> QED
  BY <1>1, <1>2, FeedInductive, PTL DEF FeedSpec, ReaderSpec

(* What follows for the clock, from the receiver's bytes on: right on a fix that
   came of a whole sentence, however many came of collisions before it. *)
THEOREM FedClockShowsTime == TimeFactor = 1 => (FeedSpec => []WholeFixShowsTrueTime)
<1> SUFFICES ASSUME TimeFactor = 1 PROVE FeedSpec => []WholeFixShowsTrueTime
  OBVIOUS
<1>1. FedInv => WholeFixShowsTrueTime
  BY LagBounded DEF FedInv, WholeFixShowsTrueTime
<1> QED
  BY <1>1, FeedInductive, PTL

(* Collisions or not, the time shown is that of a WallClock: a splice jumps only
   where a fix was awaited. *)
THEOREM FedClockImplemented == FeedSpec => ClockSpec
<1>1. FeedInit => Clock!Init
  BY DEF FeedInit, Init, Clock!Init, Mode, NoTime, Clock!NoTime
<1>2. FedInv /\ [FeedNext]_feedVars => [Clock!Next]_(Clock!vars)
  BY FeedNextInv, StepClock, SpliceInv DEF FedInv
<1> QED
  BY <1>1, <1>2, FeedInductive, PTL DEF FeedSpec, ClockSpec, Clock!Spec

-----------------------------------------------------------------------------
(* The parser of TinyGps, at the end of a line that damages bytes.  An undamaged
   sentence takes it, from the "$" on, through the same states whatever it was
   in before: after j bytes of the body it holds the parity of those, counts the
   commas in term_number and has in its term the text not yet ended. *)
Chars == [t : DOMAIN Code \cup Marks \cup {"sum"}, bits : SUBSET Bits]

Terms == {s \in Seq(Chars) : Len(s) <= TermSize}

Types == {"GPRMC", "GPGGA", "Other"}

TinyFields ==
  [parity : SUBSET Bits, is_checksum_term : BOOLEAN, term : Terms,
   sentence_type : Types, term_number : 0 .. 255, data_good : BOOLEAN,
   new : [Stored -> Terms], kept : [Stored -> Terms]]

(* Texts are texts, and no byte that they put in the body of a sentence is a
   mark; only a comma is a comma. *)
LEMMA TextIs ==
  ASSUME NEW s \in Sentence, NEW field
  PROVE  Text(s, field) \in DOMAIN Code \ {","}
<1>1. s.time \in TimesTold
  BY DEF Sentence
<1> QED
  BY <1>1, TinyGpsAssumption DEF Text

LEMMA BytesAreChars ==
  /\ \A t \in DOMAIN Code : Byte(t) \in Chars /\ Byte(t).t = t
  /\ \A t \in Marks : Mark(t) \in Chars /\ Mark(t).t = t /\ Mark(t).bits = {}
  /\ \A S \in SUBSET Bits : Digits(S) \in Chars /\ Digits(S).t = "sum" /\ Digits(S).bits = S
  BY TinyGpsAssumption DEF Chars, Byte, Mark, Digits, Marks

(* A sequence of a known length is used as the function that it is. *)
IsJoined(h, f, g, m, n, S) ==
  /\ h \in [1 .. m + n -> S]
  /\ \A i \in 1 .. m : h[i] = f[i]
  /\ \A i \in 1 .. n : h[m + i] = g[i]

LEMMA Joined ==
  ASSUME NEW S, NEW m \in Nat, NEW n \in Nat,
         NEW f \in [1 .. m -> S], NEW g \in [1 .. n -> S]
  PROVE  IsJoined(f \o g, f, g, m, n, S)
<1>1. f \in Seq(S) /\ Len(f) = m /\ g \in Seq(S) /\ Len(g) = n
  BY IsASeq, LenProperties
<1> DEFINE h == f \o g
<1>2. /\ h \in Seq(S) /\ Len(h) = m + n
      /\ \A i \in 1 .. m + n : h[i] = IF i <= m THEN f[i] ELSE g[i - m]
  BY <1>1, ConcatProperties
<1> HIDE DEF h
<1>3. h \in [1 .. m + n -> S]
  BY <1>2, LenProperties
<1>4. \A i \in 1 .. m : h[i] = f[i]
  BY <1>2
<1>5. \A i \in 1 .. n : h[m + i] = g[i]
  <2> TAKE i \in 1 .. n
  <2>1. m + i \in 1 .. m + n /\ ~(m + i <= m) /\ (m + i) - m = i
    OBVIOUS
  <2> QED BY <1>2, <2>1
<1> QED
  BY <1>3, <1>4, <1>5 DEF h, IsJoined

(* The body of a sentence: its name, and nine fields after nine commas. *)
IsBody(b, s) ==
  /\ b \in [1 .. 19 -> Chars]
  /\ b[1] = Byte(s.type)
  /\ \A i \in 1 .. 9 : b[2 * i] = Byte(",") /\ b[2 * i + 1] = Byte(Text(s, Layout[s.type][i]))

LEMMA BodyIs ==
  ASSUME NEW s \in Sentence
  PROVE  IsBody(Body(s), s)
<1> DEFINE row == Layout[s.type]
           fields == [i \in 1 .. 18 |->
                        IF i % 2 = 1 THEN Byte(",") ELSE Byte(Text(s, row[i \div 2]))]
           name == <<Byte(s.type)>>
<1>1. s.type \in {"GPRMC", "GPGGA"}
  BY DEF Sentence
<1>2. Len(row) = 9
  BY <1>1 DEF Layout
<1>3. Body(s) = name \o fields
  BY <1>2 DEF Body
<1>4. fields \in [1 .. 18 -> Chars]
  <2> HIDE DEF row
  <2>1. Byte(",") \in Chars
    BY BytesAreChars, TinyGpsAssumption
  <2>2. \A i \in 1 .. 18 : Byte(Text(s, row[i \div 2])) \in Chars
    BY TextIs, BytesAreChars
  <2> QED BY <2>1, <2>2
<1>5. name \in [1 .. 1 -> Chars] /\ name[1] = Byte(s.type)
  <2>1. Byte(s.type) \in Chars
    BY <1>1, BytesAreChars, TinyGpsAssumption
  <2> QED BY <2>1
<1>6. \A i \in 1 .. 9 : fields[2 * i - 1] = Byte(",") /\ fields[2 * i] = Byte(Text(s, row[i]))
  <2> TAKE i \in 1 .. 9
  <2>1. 2 * i - 1 \in 1 .. 18 /\ 2 * i \in 1 .. 18 /\ (2 * i - 1) % 2 = 1
        /\ ~((2 * i) % 2 = 1) /\ (2 * i) \div 2 = i
    OBVIOUS
  <2> HIDE DEF row
  <2>2. \A h \in 1 .. 18 : fields[h] = IF h % 2 = 1 THEN Byte(",") ELSE Byte(Text(s, row[h \div 2]))
    OBVIOUS
  <2> HIDE DEF fields
  <2>3. ASSUME NEW h \in 1 .. 18, ~(h % 2 = 1)
        PROVE  fields[h] = Byte(Text(s, row[h \div 2]))
    BY <2>2, <2>3
  <2>4. ASSUME NEW h \in 1 .. 18, h % 2 = 1
        PROVE  fields[h] = Byte(",")
    BY <2>2, <2>4
  <2> QED BY <2>1, <2>3, <2>4
<1> HIDE DEF row, fields, name
<1>7. /\ Body(s) \in [1 .. 1 + 18 -> Chars] /\ Body(s)[1] = name[1]
      /\ \A i \in 1 .. 18 : Body(s)[1 + i] = fields[i]
  <2>1. IsJoined(Body(s), name, fields, 1, 18, Chars)
    BY <1>3, <1>4, <1>5, Joined
  <2> QED BY <2>1 DEF IsJoined
<1>8. \A i \in 1 .. 9 : Body(s)[2 * i] = Byte(",") /\ Body(s)[2 * i + 1] = Byte(Text(s, row[i]))
  <2> TAKE i \in 1 .. 9
  <2>1. 2 * i - 1 \in 1 .. 18 /\ 2 * i \in 1 .. 18 /\ 1 + (2 * i - 1) = 2 * i
        /\ 1 + 2 * i = 2 * i + 1
    OBVIOUS
  <2>2. Body(s)[1 + (2 * i - 1)] = fields[2 * i - 1] /\ Body(s)[1 + 2 * i] = fields[2 * i]
    BY <2>1, <1>7
  <2> QED BY <2>1, <2>2, <1>6
<1>9. 1 + 18 = 19
  OBVIOUS
<1> QED
  BY <1>5, <1>7, <1>8, <1>9 DEF IsBody, row

(* The bits that an odd number of the first j bytes of the body have. *)
Odd(s, j) ==
  {bit \in Bits : Cardinality({i \in 1 .. j : bit \in Body(s)[i].bits}) % 2 = 1}

LEMMA OddNone ==
  ASSUME NEW s
  PROVE  Odd(s, 0) = {}
<1>1. \A bit : {i \in 1 .. 0 : bit \in Body(s)[i].bits} = {}
  OBVIOUS
<1>2. Cardinality({}) = 0
  BY FS_EmptySet
<1> QED
  BY <1>1, <1>2 DEF Odd

LEMMA OddNext ==
  ASSUME NEW s \in Sentence, NEW j \in 0 .. 18
  PROVE  Odd(s, j + 1) = SymDiff(Odd(s, j), Body(s)[j + 1].bits)
<1> DEFINE b == Body(s)
           Having(bit, n) == {i \in 1 .. n : bit \in b[i].bits}
<1>1. b[j + 1].bits \subseteq Bits
  <2>1. b \in [1 .. 19 -> Chars]
    BY BodyIs DEF IsBody
  <2> HIDE DEF b
  <2>2. b[j + 1] \in Chars
    BY <2>1
  <2> QED BY <2>2 DEF Chars
<1> HIDE DEF b
<1>2. ASSUME NEW bit \in Bits
      PROVE  /\ Cardinality(Having(bit, j)) \in Nat
             /\ Cardinality(Having(bit, j + 1)) =
                  IF bit \in b[j + 1].bits THEN Cardinality(Having(bit, j)) + 1
                                           ELSE Cardinality(Having(bit, j))
  <2>1. IsFiniteSet(Having(bit, j))
    <3>1. IsFiniteSet(1 .. j)
      BY FS_Interval
    <3> QED BY <3>1, FS_Subset
  <2>2. j + 1 \notin Having(bit, j)
    OBVIOUS
  <2>3. Having(bit, j + 1) = IF bit \in b[j + 1].bits THEN Having(bit, j) \cup {j + 1}
                                                     ELSE Having(bit, j)
    OBVIOUS
  <2> HIDE DEF Having
  <2> QED BY <2>1, <2>2, <2>3, FS_AddElement, FS_CardinalityType
<1>3. \A n \in Nat : (n + 1) % 2 = 1 <=> ~(n % 2 = 1)
  OBVIOUS
<1>4. \A bit \in Bits : bit \in Odd(s, j + 1) <=>
        (bit \in Odd(s, j) <=> bit \notin b[j + 1].bits)
  <2> TAKE bit \in Bits
  <2>1. bit \in Odd(s, j) <=> Cardinality(Having(bit, j)) % 2 = 1
    BY DEF Odd, b
  <2>2. bit \in Odd(s, j + 1) <=> Cardinality(Having(bit, j + 1)) % 2 = 1
    BY DEF Odd, b
  <2> HIDE DEF Having
  <2> QED BY <1>2, <1>3, <2>1, <2>2
<1>5. Odd(s, j) \subseteq Bits /\ Odd(s, j + 1) \subseteq Bits
  BY DEF Odd
<1> QED
  BY <1>1, <1>4, <1>5 DEF SymDiff, b

LEMMA OddAll ==
  ASSUME NEW s \in Sentence
  PROVE  Parity(Body(s)) = Odd(s, 19)
<1>1. DOMAIN Body(s) = 1 .. 19
  <2>1. Body(s) \in [1 .. 19 -> Chars]
    BY BodyIs DEF IsBody
  <2> QED BY <2>1
<1> QED
  BY <1>1 DEF Parity, Odd

(* The whole line of a sentence. *)
IsLine(l, s) ==
  /\ l \in [1 .. 24 -> Chars]
  /\ l[1] = Mark("$")
  /\ \A i \in 1 .. 19 : l[1 + i] = Body(s)[i]
  /\ l[21] = Mark("*") /\ l[22] = Digits(Odd(s, 19))
  /\ l[23] = Mark("\r") /\ l[24] = Mark("\r")

LEMMA LineIs ==
  ASSUME NEW s \in Sentence
  PROVE  IsLine(Line(s), s)
<1> DEFINE b == Body(s)
           head == <<Mark("$")>>
           tail == <<Mark("*"), Digits(Parity(b)), Mark("\r"), Mark("\r")>>
           front == head \o b
<1>1. b \in [1 .. 19 -> Chars]
  BY BodyIs DEF IsBody
<1>2. /\ Mark("$") \in Chars /\ Mark("*") \in Chars /\ Mark("\r") \in Chars
      /\ Digits(Parity(b)) \in Chars
  BY BytesAreChars DEF Marks, Parity
<1>3. head \in [1 .. 1 -> Chars] /\ head[1] = Mark("$")
  BY <1>2
<1>4. tail \in [1 .. 4 -> Chars] /\ tail[1] = Mark("*")
      /\ tail[2] = Digits(Odd(s, 19)) /\ tail[3] = Mark("\r") /\ tail[4] = Mark("\r")
  <2>1. Parity(b) = Odd(s, 19)
    BY OddAll
  <2> HIDE DEF b
  <2> QED BY <1>2, <2>1
<1>5. Line(s) = front \o tail
  BY DEF Line
<1> HIDE DEF head, tail, b
<1>6. /\ front \in [1 .. 1 + 19 -> Chars] /\ front[1] = Mark("$")
      /\ \A i \in 1 .. 19 : front[1 + i] = b[i]
  <2>1. IsJoined(front, head, b, 1, 19, Chars)
    BY <1>1, <1>3, Joined
  <2> HIDE DEF front
  <2> QED BY <1>3, <2>1 DEF IsJoined
<1> HIDE DEF front
<1>7. /\ 1 + 19 = 20 /\ 20 + 4 = 24
      /\ 20 + 1 = 21 /\ 20 + 2 = 22 /\ 20 + 3 = 23 /\ 20 + 4 = 24
  OBVIOUS
<1>8. /\ Line(s) \in [1 .. 20 + 4 -> Chars]
      /\ \A i \in 1 .. 20 : Line(s)[i] = front[i]
      /\ \A i \in 1 .. 4 : Line(s)[20 + i] = tail[i]
  <2>1. front \in [1 .. 20 -> Chars]
    BY <1>6, <1>7
  <2>2. IsJoined(Line(s), front, tail, 20, 4, Chars)
    BY <1>4, <1>5, <2>1, Joined
  <2> QED BY <2>2 DEF IsJoined
<1>9. Line(s)[1] = Mark("$") /\ \A i \in 1 .. 19 : Line(s)[1 + i] = b[i]
  <2>1. 1 \in 1 .. 20 /\ \A i \in 1 .. 19 : 1 + i \in 1 .. 20
    OBVIOUS
  <2> QED BY <1>6, <1>8, <2>1
<1>10. /\ Line(s)[21] = tail[1] /\ Line(s)[22] = tail[2]
       /\ Line(s)[23] = tail[3] /\ Line(s)[24] = tail[4]
  <2>1. 1 \in 1 .. 4 /\ 2 \in 1 .. 4 /\ 3 \in 1 .. 4 /\ 4 \in 1 .. 4
    OBVIOUS
  <2>2. /\ Line(s)[20 + 1] = tail[1] /\ Line(s)[20 + 2] = tail[2]
        /\ Line(s)[20 + 3] = tail[3] /\ Line(s)[20 + 4] = tail[4]
    BY <1>8, <2>1
  <2> QED BY <1>7, <2>2
<1> QED
  BY <1>4, <1>7, <1>8, <1>9, <1>10 DEF IsLine, b

(* Only its first byte begins a sentence. *)
LEMMA OneDollar ==
  ASSUME NEW s \in Sentence, NEW i \in 2 .. 24
  PROVE  Line(s)[i].t # "$"
<1>1. IsLine(Line(s), s) /\ IsBody(Body(s), s)
  BY LineIs, BodyIs
<1>2. CASE i > 20
  <2>1. Odd(s, 19) \in SUBSET Bits
    BY DEF Odd
  <2>2. /\ Line(s)[21].t = "*" /\ Line(s)[22].t = "sum"
        /\ Line(s)[23].t = "\r" /\ Line(s)[24].t = "\r"
    BY <1>1, <2>1, BytesAreChars DEF IsLine, Marks
  <2> QED BY <1>2, <2>2
<1>3. CASE i <= 20
  <2> DEFINE j == i - 1
  <2>1. j \in 1 .. 19 /\ i = 1 + j
    BY <1>3
  <2> HIDE DEF j
  <2>2. Line(s)[i] = Body(s)[j]
    BY <1>1, <2>1 DEF IsLine
  <2>3. \E t \in DOMAIN Code : Body(s)[j] = Byte(t)
    <3>1. CASE j = 1
      BY <1>1, <3>1, TinyGpsAssumption DEF IsBody, Sentence
    <3>2. CASE j # 1
      <4>1. PICK h \in 1 .. 9 : j = 2 * h \/ j = 2 * h + 1
        <5>1. j \div 2 \in 1 .. 9 /\ (j = 2 * (j \div 2) \/ j = 2 * (j \div 2) + 1)
          BY <2>1, <3>2
        <5> QED BY <5>1
      <4> QED BY <1>1, <4>1, TextIs, TinyGpsAssumption DEF IsBody
    <3> QED BY <3>1, <3>2
  <2>4. Line(s)[i].t \in DOMAIN Code
    BY <2>2, <2>3, BytesAreChars
  <2> QED BY <2>4, TinyGpsAssumption
<1> QED
  BY <1>2, <1>3

-----------------------------------------------------------------------------
(* The term that says whether a sentence has a fix. *)
Judged(type) == IF type = "GPRMC" THEN 2 ELSE 6

HasFix(type) == Byte(IF type = "GPRMC" THEN "A" ELSE "1")

LEMMA HasFixIs ==
  ASSUME NEW type
  PROVE  HasFix(type) \in Chars /\ HasFix(type).t = IF type = "GPRMC" THEN "A" ELSE "1"
  BY BytesAreChars, TinyGpsAssumption DEF HasFix

(* The next term judges the sentence; it does not. *)
Known(g) == g.sentence_type \in {"GPRMC", "GPGGA"} /\ g.term_number \in 1 .. 9

Judging(g) == Known(g) /\ g.term_number = Judged(g.sentence_type)

Plain(g) == g.term_number = 0 \/ (Known(g) /\ g.term_number # Judged(g.sentence_type))

(* What a term that is not a checksum does to the fields. *)
IsOrdinary(h, g) ==
  /\ h \in TinyFields
  /\ h.parity = g.parity /\ h.term_number = g.term_number
  /\ h.is_checksum_term = g.is_checksum_term
  /\ h.sentence_type = IF g.term_number = 0 THEN TypeOf(g.term) ELSE g.sentence_type
  /\ Plain(g) => h.data_good = g.data_good
  /\ Judging(g) /\ g.term = <<HasFix(g.sentence_type)>> => h.data_good = TRUE

LEMMA StoredAre ==
  /\ "validity" \notin Stored /\ "quality" \notin Stored /\ "none" \notin Stored
  BY DEF Stored, Committed

LEMMA RoomForOne == TermSize \in Nat /\ 1 <= TermSize
<1>1. TermSize \in Nat \ {0}
  BY TinyGpsAssumption, Zenon
<1> QED
  BY <1>1

LEMMA EmptyTerm == <<>> \in Terms
<1>1. <<>> \in Seq(Chars) /\ Len(<<>>) = 0
  BY EmptySeq
<1> QED
  BY <1>1, RoomForOne DEF Terms

LEMMA TermHead ==
  ASSUME NEW s \in Terms, s # <<>>
  PROVE  s[1] \in Chars
  BY DEF Terms

LEMMA OneByteTerm ==
  ASSUME NEW c \in Chars
  PROVE  <<c>> \in Terms /\ <<c>> # <<>> /\ <<c>>[1] = c
<1>1. <<c>> \in Seq(Chars) /\ Len(<<c>>) = 1 /\ <<c>>[1] = c
  OBVIOUS
<1>2. <<c>> # <<>>
  BY <1>1
<1> DEFINE s == <<c>>
<1> HIDE DEF s
<1>3. s \in Terms
  BY <1>1, RoomForOne DEF Terms, s
<1> QED
  BY <1>1, <1>2, <1>3 DEF s

LEMMA JudgedField ==
  ASSUME NEW type \in {"GPRMC", "GPGGA"}, NEW n \in 1 .. 9
  PROVE  /\ Row(type, n) = type /\ n % 32 = n /\ n \in DOMAIN Layout[type]
         /\ n = Judged(type) => Layout[type][n] = IF type = "GPRMC" THEN "validity" ELSE "quality"
         /\ n # Judged(type) => Layout[type][n] \notin {"validity", "quality"}
<1>1. n % 32 = n
  OBVIOUS
<1>2. Row(type, n) = type
  BY DEF Row
<1>3. n = 1 \/ n = 2 \/ n = 3 \/ n = 4 \/ n = 5 \/ n = 6 \/ n = 7 \/ n = 8 \/ n = 9
  OBVIOUS
<1>4. CASE type = "GPRMC"
  BY <1>1, <1>2, <1>3, <1>4 DEF Judged, Layout
<1>5. CASE type = "GPGGA"
  BY <1>1, <1>2, <1>3, <1>5 DEF Judged, Layout
<1> QED
  BY <1>4, <1>5

LEMMA OrdinaryTermIs ==
  ASSUME NEW g \in TinyFields
  PROVE  IsOrdinary(OrdinaryTerm(g), g)
<1> SUFFICES ASSUME NEW h, h = OrdinaryTerm(g)
             PROVE  IsOrdinary(h, g)
  OBVIOUS
<1> DEFINE row == Layout[Row(g.sentence_type, g.term_number)]
           n == g.term_number % 32
           field == IF g.term # <<>> /\ n \in DOMAIN row THEN row[n] ELSE "none"
<1>1. CASE g.term_number = 0
  <2>1. h = [g EXCEPT !.sentence_type = TypeOf(g.term)]
    BY <1>1 DEF OrdinaryTerm
  <2>2. TypeOf(g.term) \in Types
    BY DEF TypeOf, Types
  <2>3. h \in TinyFields
    BY <2>1, <2>2 DEF TinyFields
  <2>4. /\ h.parity = g.parity /\ h.term_number = g.term_number
        /\ h.is_checksum_term = g.is_checksum_term /\ h.data_good = g.data_good
        /\ h.sentence_type = TypeOf(g.term)
    BY <2>1 DEF TinyFields
  <2> QED BY <1>1, <2>3, <2>4 DEF IsOrdinary, Judging, Known
<1>2. CASE g.term_number # 0
  <2>1. h = CASE field \in Stored -> [g EXCEPT !.new[field] = g.term]
              [] field = "validity" -> [g EXCEPT !.data_good = (g.term[1].t = "A")]
              [] field = "quality" -> [g EXCEPT !.data_good = (g.term[1].t # "0")]
              [] OTHER -> g
    BY <1>2 DEF OrdinaryTerm
  <2>2. /\ Judging(g) /\ g.term # <<>> =>
             field = IF g.sentence_type = "GPRMC" THEN "validity" ELSE "quality"
        /\ Plain(g) => field \notin {"validity", "quality"}
    BY <1>2, JudgedField DEF Judging, Plain, Known
  <2>3. /\ <<HasFix(g.sentence_type)>> # <<>>
        /\ <<HasFix(g.sentence_type)>>[1].t = IF g.sentence_type = "GPRMC" THEN "A" ELSE "1"
    BY HasFixIs, OneByteTerm
  <2> HIDE DEF field
  <2>4. CASE field \in Stored
    <3>1. h = [g EXCEPT !.new[field] = g.term]
      BY <2>1, <2>4, StoredAre
    <3>2. h \in TinyFields
      BY <2>4, <3>1 DEF TinyFields
    <3>3. Judging(g) => g.term = <<>>
      BY <2>2, <2>4, StoredAre
    <3>4. /\ h.parity = g.parity /\ h.term_number = g.term_number
          /\ h.is_checksum_term = g.is_checksum_term
          /\ h.sentence_type = g.sentence_type /\ h.data_good = g.data_good
      BY <3>1 DEF TinyFields
    <3> QED BY <1>2, <2>3, <3>2, <3>3, <3>4 DEF IsOrdinary
  <2>5. CASE field = "validity"
    <3>1. h = [g EXCEPT !.data_good = (g.term[1].t = "A")]
      BY <2>1, <2>5, StoredAre
    <3>2. h \in TinyFields
      BY <3>1 DEF TinyFields
    <3>3. /\ h.parity = g.parity /\ h.term_number = g.term_number
          /\ h.is_checksum_term = g.is_checksum_term
          /\ h.sentence_type = g.sentence_type
      BY <3>1 DEF TinyFields
    <3>4. h.data_good <=> (g.term[1].t = "A")
      BY <3>1 DEF TinyFields
    <3> QED BY <1>2, <2>2, <2>5, <2>3, <3>2, <3>3, <3>4 DEF IsOrdinary
  <2>6. CASE field = "quality"
    <3>1. h = [g EXCEPT !.data_good = (g.term[1].t # "0")]
      BY <2>1, <2>6, StoredAre
    <3>2. h \in TinyFields
      BY <3>1 DEF TinyFields
    <3>3. /\ h.parity = g.parity /\ h.term_number = g.term_number
          /\ h.is_checksum_term = g.is_checksum_term
          /\ h.sentence_type = g.sentence_type
      BY <3>1 DEF TinyFields
    <3>4. h.data_good <=> (g.term[1].t # "0")
      BY <3>1 DEF TinyFields
    <3> QED BY <1>2, <2>2, <2>6, <2>3, <3>2, <3>3, <3>4 DEF IsOrdinary
  <2>7. CASE field \notin Stored \cup {"validity", "quality"}
    <3>1. h = g
      BY <2>1, <2>7
    <3> QED BY <1>2, <2>2, <2>7, <2>3, <3>1 DEF IsOrdinary
  <2> QED BY <2>4, <2>5, <2>6, <2>7
<1> QED
  BY <1>1, <1>2

(* What encode makes of each kind of byte. *)
Typed(o) == o[1] \in TinyFields /\ o[2] \in BOOLEAN

WithParity(p, g, c) ==
  /\ p \in TinyFields /\ p.parity = SymDiff(g.parity, c.bits)
  /\ p.term = g.term /\ p.term_number = g.term_number
  /\ p.is_checksum_term = g.is_checksum_term
  /\ p.sentence_type = g.sentence_type /\ p.data_good = g.data_good
  /\ p.new = g.new

LEMMA FieldsParity ==
  ASSUME NEW g \in TinyFields, NEW c \in Chars
  PROVE  WithParity([g EXCEPT !.parity = Xor(g.parity, c)], g, c)
<1>1. SymDiff(g.parity, c.bits) \in SUBSET Bits
  BY DEF SymDiff, TinyFields, Chars
<1> QED
  BY <1>1 DEF TinyFields, Xor, WithParity

LEMMA CommitTyped ==
  ASSUME NEW g \in TinyFields
  PROVE  Commit(g) \in TinyFields
<1>1. [f \in Stored |-> IF f \in Committed[g.sentence_type] THEN g.new[f] ELSE g.kept[f]]
        \in [Stored -> Terms]
  BY DEF TinyFields
<1> QED
  BY <1>1 DEF Commit, TinyFields

LEMMA TermCompleteTyped ==
  ASSUME NEW g \in TinyFields, NEW r \in TermComplete(g)
  PROVE  Typed(r)
<1>1. CASE g.is_checksum_term
  <2>1. r = <<Commit(g), TRUE>> \/ r = <<g, FALSE>>
    BY <1>1 DEF TermComplete
  <2>2. CASE r = <<Commit(g), TRUE>>
    BY <2>2, CommitTyped DEF Typed
  <2>3. CASE r = <<g, FALSE>>
    BY <2>3 DEF Typed
  <2> QED BY <2>1, <2>2, <2>3
<1>2. CASE ~g.is_checksum_term
  <2>1. r = <<OrdinaryTerm(g), FALSE>>
    BY <1>2 DEF TermComplete
  <2> QED BY <2>1, OrdinaryTermIs DEF Typed, IsOrdinary
<1> QED
  BY <1>1, <1>2

(* A terminator lets the term be judged and goes to the next one. *)
NextTermIs(h, r, c) ==
  h = [r EXCEPT !.term_number = (r.term_number + 1) % 256,
                !.term = <<>>,
                !.is_checksum_term = (c.t = "*")]

TermOver(h, r, c) ==
  /\ h \in TinyFields /\ h.term_number = (r.term_number + 1) % 256
  /\ h.term = <<>> /\ (h.is_checksum_term <=> c.t = "*")
  /\ h.parity = r.parity /\ h.sentence_type = r.sentence_type
  /\ h.data_good = r.data_good /\ h.new = r.new /\ h.kept = r.kept

LEMMA NextTerm ==
  ASSUME NEW r \in TinyFields, NEW c, NEW h, NextTermIs(h, r, c)
  PROVE  TermOver(h, r, c)
<1>1. (r.term_number + 1) % 256 \in 0 .. 255
  BY DEF TinyFields
<1>2. ASSUME NEW n \in 0 .. 255, NEW end \in BOOLEAN
      PROVE  [r EXCEPT !.term_number = n, !.term = <<>>, !.is_checksum_term = end] \in TinyFields
  <2>1. PICK empty \in Terms : empty = <<>>
    BY EmptyTerm
  <2>2. [r EXCEPT !.term_number = n, !.term = empty, !.is_checksum_term = end] \in TinyFields
    BY DEF TinyFields
  <2> QED BY <2>1, <2>2
<1>3. h \in TinyFields
  <2>1. (c.t = "*") \in BOOLEAN
    OBVIOUS
  <2> QED BY <1>1, <1>2, <2>1 DEF NextTermIs
<1>4. /\ h.term_number = (r.term_number + 1) % 256 /\ h.term = <<>>
      /\ h.parity = r.parity /\ h.sentence_type = r.sentence_type
  BY DEF TinyFields, NextTermIs
<1>5. h.is_checksum_term <=> c.t = "*"
  BY DEF TinyFields, NextTermIs
<1>6. h.data_good = r.data_good /\ h.new = r.new /\ h.kept = r.kept
  BY DEF TinyFields, NextTermIs
<1> QED
  BY <1>3, <1>4, <1>5, <1>6 DEF TermOver

LEMMA TerminateIs ==
  ASSUME NEW g \in TinyFields, NEW c \in Chars, NEW o \in Terminate(g, c)
  PROVE  \E p \in TinyFields : \E r \in TermComplete(p) :
           /\ WithParity(p, g, c)
           /\ NextTermIs(o[1], r[1], c) /\ o[2] = r[2]
<1> DEFINE p == [g EXCEPT !.parity = Xor(g.parity, c)]
<1>1. WithParity(p, g, c) /\ p \in TinyFields
  BY FieldsParity DEF WithParity
<1>2. PICK r \in TermComplete(p) :
        o = << [r[1] EXCEPT !.term_number = (r[1].term_number + 1) % 256,
                            !.term = <<>>,
                            !.is_checksum_term = (c.t = "*")],
               r[2] >>
  BY DEF Terminate
<1>3. NextTermIs(o[1], r[1], c) /\ o[2] = r[2]
  BY <1>2 DEF NextTermIs
<1> HIDE DEF p
<1> QED
  BY <1>1, <1>2, <1>3

LEMMA ExtendIs ==
  ASSUME NEW g \in TinyFields, NEW c \in Chars
  PROVE  LET h == Extend(g, c)
         IN /\ h \in TinyFields
            /\ g.term = <<>> => h.term = <<c>>
            /\ h.parity = IF g.is_checksum_term THEN g.parity ELSE SymDiff(g.parity, c.bits)
            /\ h.is_checksum_term = g.is_checksum_term /\ h.term_number = g.term_number
            /\ h.sentence_type = g.sentence_type /\ h.data_good = g.data_good
            /\ h.new = g.new
<1> DEFINE term == IF Len(g.term) < TermSize THEN Append(g.term, c) ELSE g.term
           parity == IF g.is_checksum_term THEN g.parity ELSE Xor(g.parity, c)
<1>1. term \in Terms
  <2>1. g.term \in Seq(Chars) /\ Len(g.term) <= TermSize
    BY DEF TinyFields, Terms
  <2>2. Append(g.term, c) \in Seq(Chars) /\ Len(Append(g.term, c)) = Len(g.term) + 1
    BY <2>1, AppendProperties
  <2> QED BY <2>1, <2>2, RoomForOne DEF Terms
<1>2. g.term = <<>> => term = <<c>>
  <2>1. Len(<<>>) = 0 /\ Append(<<>>, c) = <<c>>
    OBVIOUS
  <2> QED BY <2>1, RoomForOne
<1>3. parity \in SUBSET Bits /\ parity = IF g.is_checksum_term THEN g.parity ELSE SymDiff(g.parity, c.bits)
  BY DEF TinyFields, Chars, SymDiff, Xor
<1>4. Extend(g, c) = [g EXCEPT !.term = term, !.parity = parity]
  BY DEF Extend
<1> HIDE DEF term, parity
<1> QED
  BY <1>1, <1>2, <1>3, <1>4 DEF TinyFields

LEMMA BeginIs ==
  ASSUME NEW g \in TinyFields
  PROVE  LET h == BeginSentence(g)
         IN /\ h \in TinyFields
            /\ h.parity = {} /\ h.term = <<>> /\ h.term_number = 0
            /\ ~h.is_checksum_term /\ ~h.data_good
<1> SUFFICES ASSUME NEW h, h = BeginSentence(g)
             PROVE  /\ h \in TinyFields
                    /\ h.parity = {} /\ h.term = <<>> /\ h.term_number = 0
                    /\ ~h.is_checksum_term /\ ~h.data_good
  OBVIOUS
<1>1. h \in TinyFields
  <2>1. ASSUME NEW empty \in Terms, NEW none \in SUBSET Bits, NEW type \in Types,
               NEW zero \in 0 .. 255, NEW no \in BOOLEAN
        PROVE  [g EXCEPT !.term_number = zero, !.term = empty, !.parity = none,
                         !.sentence_type = type, !.is_checksum_term = no,
                         !.data_good = no] \in TinyFields
    BY DEF TinyFields
  <2>2. "Other" \in Types /\ {} \in SUBSET Bits /\ 0 \in 0 .. 255 /\ FALSE \in BOOLEAN
    BY DEF Types
  <2> QED BY <2>1, <2>2, EmptyTerm DEF BeginSentence
<1>2. h.parity = {} /\ h.term = <<>> /\ h.term_number = 0
  BY DEF BeginSentence, TinyFields
<1>3. ~h.is_checksum_term /\ ~h.data_good
  BY DEF BeginSentence, TinyFields
<1> QED
  BY <1>1, <1>2, <1>3

LEMMA OutcomesTyped ==
  ASSUME NEW g \in TinyFields, NEW c \in Chars, NEW o \in Outcomes(g, c)
  PROVE  Typed(o)
<1>1. CASE c.t \in {",", "*", "\r"}
  <2>1. o \in Terminate(g, c)
    BY <1>1 DEF Outcomes
  <2>2. PICK p \in TinyFields : \E r \in TermComplete(p) : NextTermIs(o[1], r[1], c) /\ o[2] = r[2]
    BY <2>1, TerminateIs
  <2>3. PICK r \in TermComplete(p) : NextTermIs(o[1], r[1], c) /\ o[2] = r[2]
    BY <2>2
  <2>4. r[1] \in TinyFields /\ r[2] \in BOOLEAN
    BY TermCompleteTyped DEF Typed
  <2> QED BY <2>3, <2>4, NextTerm DEF Typed, TermOver
<1>2. CASE c.t = "$"
  <2>1. o = <<BeginSentence(g), FALSE>>
    BY <1>2 DEF Outcomes
  <2> QED BY <2>1, BeginIs DEF Typed
<1>3. CASE c.t \notin {",", "*", "\r", "$"}
  <2>1. o = <<Extend(g, c), FALSE>>
    BY <1>3 DEF Outcomes
  <2> QED BY <2>1, ExtendIs DEF Typed
<1> QED
  BY <1>1, <1>2, <1>3

-----------------------------------------------------------------------------
(* The parser in step with a sentence: after j bytes of its body, and after the
   "*" and the digits. *)
InBody(g, s, j) ==
  /\ ~g.is_checksum_term
  /\ g.parity = Odd(s, j) /\ g.term_number = j \div 2
  /\ g.term = IF j % 2 = 1 THEN <<Body(s)[j]>> ELSE <<>>
  /\ 2 <= j => g.sentence_type = s.type
  /\ s.fix /\ 2 * Judged(s.type) + 1 < j => g.data_good = TRUE

InChecksum(g, s, term) ==
  /\ g.is_checksum_term /\ g.parity = Odd(s, 19) /\ g.term = term
  /\ s.fix => g.data_good = TRUE

(* After k bytes of its line. *)
InStep(g, v, s, k) ==
  /\ \A j \in 0 .. 19 : k = j + 1 => InBody(g, s, j)
  /\ k = 21 => InChecksum(g, s, <<>>)
  /\ k = 22 => InChecksum(g, s, <<Digits(Odd(s, 19))>>)
  /\ k = 23 /\ s.fix => v

(* What the bytes of the body are. *)
LEMMA BodyTexts ==
  ASSUME NEW s \in Sentence, NEW j \in 1 .. 19, j % 2 = 1
  PROVE  \E t \in DOMAIN Code \ {","} : Body(s)[j] = Byte(t)
<1>1. IsBody(Body(s), s)
  BY BodyIs
<1>2. CASE j = 1
  <2>1. s.type \in DOMAIN Code \ {","}
    BY TinyGpsAssumption DEF Sentence
  <2> QED BY <1>1, <1>2, <2>1 DEF IsBody
<1>3. CASE j # 1
  <2>1. j \div 2 \in 1 .. 9 /\ j = 2 * (j \div 2) + 1
    BY <1>3
  <2> QED BY <1>1, <2>1, TextIs DEF IsBody
<1> QED
  BY <1>2, <1>3

LEMMA BodyCommas ==
  ASSUME NEW s \in Sentence, NEW j \in 1 .. 19, ~(j % 2 = 1)
  PROVE  Body(s)[j] = Byte(",")
<1>1. IsBody(Body(s), s)
  BY BodyIs
<1>2. j \div 2 \in 1 .. 9 /\ j = 2 * (j \div 2)
  OBVIOUS
<1> QED
  BY <1>1, <1>2 DEF IsBody

LEMMA JudgedIs ==
  ASSUME NEW type
  PROVE  Judged(type) \in {2, 6} /\ 2 * Judged(type) + 1 \in {5, 13}
  BY DEF Judged

(* The field that judges a sentence with a fix says that it has one. *)
LEMMA BodyJudged ==
  ASSUME NEW s \in Sentence, s.fix
  PROVE  Body(s)[2 * Judged(s.type) + 1] = HasFix(s.type)
<1>1. s.type \in {"GPRMC", "GPGGA"}
  BY DEF Sentence
<1>2. Judged(s.type) \in 1 .. 9
  BY DEF Judged
<1>3. Body(s)[2 * Judged(s.type) + 1] = Byte(Text(s, Layout[s.type][Judged(s.type)]))
  BY <1>2, BodyIs DEF IsBody
<1>4. Layout[s.type][Judged(s.type)] = IF s.type = "GPRMC" THEN "validity" ELSE "quality"
  BY <1>1, <1>2, JudgedField
<1>5. Text(s, Layout[s.type][Judged(s.type)]) = IF s.type = "GPRMC" THEN "A" ELSE "1"
  BY <1>1, <1>4 DEF Text
<1> QED
  BY <1>3, <1>5 DEF HasFix

LEMMA TypeOfName ==
  ASSUME NEW s \in Sentence
  PROVE  TypeOf(<<Byte(s.type)>>) = s.type
<1>1. s.type \in {"GPRMC", "GPGGA"}
  BY DEF Sentence
<1>2. \A t \in DOMAIN Code : Byte(t) \in Chars /\ Byte(t).t = t
  BY BytesAreChars
<1>3. "GPRMC" \in DOMAIN Code /\ "GPGGA" \in DOMAIN Code
  BY TinyGpsAssumption
<1>4. <<Byte("GPGGA")>> # <<>> /\ <<Byte("GPGGA")>> # <<Byte("GPRMC")>>
  <2>1. Byte("GPGGA") # Byte("GPRMC")
    BY <1>2, <1>3
  <2> HIDE DEF Byte
  <2>2. <<Byte("GPGGA")>>[1] = Byte("GPGGA") /\ <<Byte("GPRMC")>>[1] = Byte("GPRMC")
    OBVIOUS
  <2> QED BY <1>2, <1>3, <2>1, <2>2, OneByteTerm
<1>5. TypeOf(<<Byte("GPRMC")>>) = "GPRMC"
  BY <1>4 DEF TypeOf
<1>6. TypeOf(<<Byte("GPGGA")>>) = "GPGGA"
  BY <1>4 DEF TypeOf
<1> QED
  BY <1>1, <1>5, <1>6

LEMMA EvenSteps ==
  ASSUME NEW j \in 0 .. 18, ~(j % 2 = 1)
  PROVE  /\ j + 1 \in 1 .. 19 /\ (j + 1) % 2 = 1 /\ (j + 1) \div 2 = j \div 2
         /\ 2 <= j + 1 => 2 <= j
         /\ \A n \in {5, 13} : n < j + 1 => n < j
<1>1. j + 1 \in 1 .. 19 /\ (j + 1) % 2 = 1 /\ (j + 1) \div 2 = j \div 2
  OBVIOUS
<1>2. j # 1 /\ j # 5 /\ j # 13
  OBVIOUS
<1> QED
  BY <1>1, <1>2

(* A text joins the empty term. *)
LEMMA TextStep ==
  ASSUME NEW g \in TinyFields, NEW s \in Sentence, NEW j \in 0 .. 18, ~(j % 2 = 1),
         InBody(g, s, j), NEW o \in Outcomes(g, Body(s)[j + 1])
  PROVE  InBody(o[1], s, j + 1)
<1> DEFINE c == Body(s)[j + 1]
<1>1. /\ j + 1 \in 1 .. 19 /\ (j + 1) % 2 = 1 /\ (j + 1) \div 2 = j \div 2
      /\ 2 <= j + 1 => 2 <= j
      /\ \A n \in {5, 13} : n < j + 1 => n < j
  BY EvenSteps
<1>2. PICK t \in DOMAIN Code \ {","} : c = Byte(t)
  BY <1>1, BodyTexts
<1> HIDE DEF c
<1>3. c \in Chars /\ c.t \notin {",", "*", "\r", "$"}
  <2>1. c \in Chars /\ c.t = t
    BY <1>2, BytesAreChars
  <2>2. t \notin {"*", "\r", "$"}
    BY TinyGpsAssumption
  <2> QED BY <2>1, <2>2
<1>4. o = <<Extend(g, c), FALSE>>
  BY <1>3 DEF Outcomes, c
<1>5. Odd(s, j + 1) = SymDiff(Odd(s, j), c.bits)
  BY OddNext DEF c
<1>6. /\ o[1].term = <<c>> /\ o[1].parity = SymDiff(Odd(s, j), c.bits)
      /\ o[1].is_checksum_term = g.is_checksum_term /\ o[1].term_number = g.term_number
      /\ o[1].sentence_type = g.sentence_type /\ o[1].data_good = g.data_good
  BY <1>3, <1>4, ExtendIs DEF InBody
<1>7. 2 * Judged(s.type) + 1 < j + 1 => 2 * Judged(s.type) + 1 < j
  BY <1>1, JudgedIs
<1> QED
  BY <1>1, <1>5, <1>6, <1>7 DEF InBody, c

(* A terminator after a term that is not a checksum. *)
IsEnded(h, g, c) ==
  /\ h.parity = SymDiff(g.parity, c.bits) /\ h.term = <<>>
  /\ h.term_number = (g.term_number + 1) % 256
  /\ h.is_checksum_term <=> c.t = "*"
  /\ h.sentence_type = IF g.term_number = 0 THEN TypeOf(g.term) ELSE g.sentence_type
  /\ Plain(g) => h.data_good = g.data_good
  /\ Judging(g) /\ g.term = <<HasFix(g.sentence_type)>> => h.data_good = TRUE

LEMMA OrdinaryEnd ==
  ASSUME NEW g \in TinyFields, ~g.is_checksum_term,
         NEW c \in Chars, c.t \in {",", "*", "\r"}, NEW o \in Outcomes(g, c)
  PROVE  IsEnded(o[1], g, c)
<1>1. o \in Terminate(g, c)
  BY DEF Outcomes
<1>2. PICK p \in TinyFields :
        \E r \in TermComplete(p) : /\ WithParity(p, g, c)
                                   /\ NextTermIs(o[1], r[1], c) /\ o[2] = r[2]
  BY <1>1, TerminateIs
<1>3. PICK r \in TermComplete(p) : NextTermIs(o[1], r[1], c)
  BY <1>2
<1>4. /\ p.parity = SymDiff(g.parity, c.bits)
      /\ p.term = g.term /\ p.term_number = g.term_number
      /\ p.is_checksum_term = g.is_checksum_term
      /\ p.sentence_type = g.sentence_type /\ p.data_good = g.data_good
  BY <1>2 DEF WithParity
<1>5. r[1] = OrdinaryTerm(p)
  <2>1. ~p.is_checksum_term
    BY <1>4
  <2>2. r = <<OrdinaryTerm(p), FALSE>>
    BY <2>1 DEF TermComplete
  <2> QED BY <2>2
<1>6. IsOrdinary(r[1], p)
  BY <1>5, OrdinaryTermIs
<1>7. /\ o[1].term_number = (r[1].term_number + 1) % 256
      /\ o[1].term = <<>> /\ (o[1].is_checksum_term <=> c.t = "*")
      /\ o[1].parity = r[1].parity /\ o[1].sentence_type = r[1].sentence_type
      /\ o[1].data_good = r[1].data_good
  <2>1. r[1] \in TinyFields
    BY <1>6 DEF IsOrdinary
  <2>2. TermOver(o[1], r[1], c)
    BY <1>3, <2>1, NextTerm
  <2> QED BY <2>2 DEF TermOver
<1>8. (Plain(p) <=> Plain(g)) /\ (Judging(p) <=> Judging(g))
  BY <1>4 DEF Plain, Judging, Known
<1>9. /\ r[1].parity = p.parity /\ r[1].term_number = p.term_number
      /\ r[1].sentence_type = IF p.term_number = 0 THEN TypeOf(p.term) ELSE p.sentence_type
      /\ Plain(p) => r[1].data_good = p.data_good
      /\ Judging(p) /\ p.term = <<HasFix(p.sentence_type)>> => r[1].data_good = TRUE
  BY <1>6 DEF IsOrdinary
<1> DEFINE h == o[1]
           f == r[1]
<1>10. /\ h.parity = SymDiff(g.parity, c.bits) /\ h.term = <<>>
       /\ h.term_number = (g.term_number + 1) % 256
       /\ h.sentence_type = IF g.term_number = 0 THEN TypeOf(g.term) ELSE g.sentence_type
  <2>1. h.parity = SymDiff(g.parity, c.bits) /\ h.term = <<>>
    BY <1>4, <1>7, <1>9
  <2>2. h.term_number = (g.term_number + 1) % 256
    <3>1. f.term_number = g.term_number /\ h.term_number = (f.term_number + 1) % 256
      BY <1>4, <1>7, <1>9
    <3> HIDE DEF h, f
    <3> QED BY <3>1
  <2>3. h.sentence_type = IF g.term_number = 0 THEN TypeOf(g.term) ELSE g.sentence_type
    BY <1>4, <1>7, <1>9
  <2> QED BY <2>1, <2>2, <2>3
<1>11. h.is_checksum_term <=> c.t = "*"
  BY <1>7
<1>12. Plain(g) => h.data_good = g.data_good
  BY <1>4, <1>7, <1>8, <1>9
<1>13. Judging(g) /\ g.term = <<HasFix(g.sentence_type)>> => h.data_good = TRUE
  BY <1>4, <1>7, <1>8, <1>9
<1> HIDE DEF h
<1>14. IsEnded(h, g, c)
  BY <1>10, <1>11, <1>12, <1>13 DEF IsEnded
<1> QED
  BY <1>14 DEF h

LEMMA OddSteps ==
  ASSUME NEW j \in 0 .. 18, j % 2 = 1
  PROVE  /\ j + 1 \in 1 .. 19 /\ ~((j + 1) % 2 = 1)
         /\ (j \div 2 + 1) % 256 = (j + 1) \div 2 /\ j \div 2 \in 0 .. 8
         /\ j \div 2 = 0 <=> j = 1
         /\ j = 1 \/ 2 <= j
         /\ \A n \in {2, 6} : 2 * n + 1 < j + 1 => j = 2 * n + 1 \/ 2 * n + 1 < j
         /\ \A n \in {2, 6} : j = 2 * n + 1 <=> j \div 2 = n
<1>1. PICK q \in 0 .. 8 : j = 2 * q + 1
  <2>1. j \div 2 \in 0 .. 8 /\ j = 2 * (j \div 2) + 1
    OBVIOUS
  <2> QED BY <2>1
<1>2. j \div 2 = q /\ (j + 1) \div 2 = q + 1 /\ (q + 1) % 256 = q + 1
  BY <1>1
<1>3. j + 1 \in 1 .. 19 /\ ~((j + 1) % 2 = 1)
  BY <1>1
<1> QED
  BY <1>1, <1>2, <1>3

(* A comma ends the term, and what it says of the fix is heeded. *)
LEMMA CommaStep ==
  ASSUME NEW g \in TinyFields, NEW s \in Sentence, NEW j \in 0 .. 18, j % 2 = 1,
         InBody(g, s, j), NEW o \in Outcomes(g, Body(s)[j + 1])
  PROVE  InBody(o[1], s, j + 1)
<1> DEFINE c == Body(s)[j + 1]
           h == o[1]
<1>1. /\ j + 1 \in 1 .. 19 /\ ~((j + 1) % 2 = 1)
      /\ (j \div 2 + 1) % 256 = (j + 1) \div 2 /\ j \div 2 \in 0 .. 8
      /\ j \div 2 = 0 <=> j = 1
      /\ j = 1 \/ 2 <= j
      /\ \A n \in {2, 6} : 2 * n + 1 < j + 1 => j = 2 * n + 1 \/ 2 * n + 1 < j
      /\ \A n \in {2, 6} : j = 2 * n + 1 <=> j \div 2 = n
  BY OddSteps
<1>2. c = Byte(",")
  BY <1>1, BodyCommas
<1> HIDE DEF c
<1>3. c \in Chars /\ c.t = ","
  BY <1>2, BytesAreChars, TinyGpsAssumption
<1>4. /\ ~g.is_checksum_term /\ g.parity = Odd(s, j) /\ g.term_number = j \div 2
      /\ g.term = <<Body(s)[j]>>
      /\ 2 <= j => g.sentence_type = s.type
      /\ s.fix /\ 2 * Judged(s.type) + 1 < j => g.data_good = TRUE
  BY DEF InBody
<1>5. IsEnded(h, g, c)
  BY <1>3, <1>4, OrdinaryEnd DEF c
<1>6. Odd(s, j + 1) = SymDiff(Odd(s, j), c.bits)
  BY OddNext DEF c
<1> HIDE DEF h
<1>7. s.type \in {"GPRMC", "GPGGA"}
  BY DEF Sentence
<1>8. h.sentence_type = s.type
  <2>1. CASE j = 1
    <3>1. Body(s)[1] = Byte(s.type)
      BY BodyIs DEF IsBody
    <3> QED BY <1>1, <1>4, <1>5, <2>1, <3>1, TypeOfName DEF IsEnded
  <2>2. CASE j # 1
    BY <1>1, <1>4, <1>5, <2>2 DEF IsEnded
  <2> QED BY <2>1, <2>2
<1>9. ASSUME s.fix, 2 * Judged(s.type) + 1 < j + 1
      PROVE  h.data_good = TRUE
  <2>1. Judged(s.type) \in {2, 6}
    BY JudgedIs
  <2>2. j # 1 /\ 2 <= j
    BY <1>1, <1>9, <2>1
  <2>3. Known(g) /\ g.sentence_type = s.type
    BY <1>1, <1>4, <1>7, <2>2 DEF Known
  <2>4. CASE j = 2 * Judged(s.type) + 1
    <3>1. Judging(g)
      BY <1>1, <1>4, <2>1, <2>3, <2>4 DEF Judging
    <3>2. g.term = <<HasFix(g.sentence_type)>>
      BY <1>4, <1>9, <2>3, <2>4, BodyJudged
    <3> QED BY <1>5, <3>1, <3>2 DEF IsEnded
  <2>5. CASE j # 2 * Judged(s.type) + 1
    <3>1. Plain(g)
      BY <1>1, <1>4, <2>1, <2>3, <2>5 DEF Plain
    <3>2. 2 * Judged(s.type) + 1 < j
      BY <1>1, <1>9, <2>1, <2>5
    <3>3. g.data_good = TRUE
      BY <1>4, <1>9, <3>2
    <3> QED BY <1>5, <3>1, <3>3 DEF IsEnded
  <2> QED BY <2>4, <2>5
<1>10. h.parity = Odd(s, j + 1) /\ h.term = <<>> /\ h.term_number = (j + 1) \div 2
       /\ ~h.is_checksum_term
  <2>1. h.parity = SymDiff(g.parity, c.bits) /\ h.term = <<>>
    BY <1>5 DEF IsEnded
  <2>2. h.term_number = (g.term_number + 1) % 256
    BY <1>5 DEF IsEnded
  <2>3. h.is_checksum_term <=> c.t = "*"
    BY <1>5 DEF IsEnded
  <2>4. h.term_number = (j + 1) \div 2
    BY <1>1, <1>4, <2>2
  <2> QED BY <1>3, <1>4, <1>6, <2>1, <2>3, <2>4
<1> QED
  BY <1>1, <1>8, <1>9, <1>10 DEF InBody, h

LEMMA StarStep ==
  ASSUME NEW g \in TinyFields, NEW s \in Sentence,
         InBody(g, s, 19), NEW o \in Outcomes(g, Mark("*"))
  PROVE  InChecksum(o[1], s, <<>>)
<1> DEFINE c == Mark("*")
           h == o[1]
<1>1. c \in Chars /\ c.t = "*" /\ c.bits = {}
  BY BytesAreChars DEF Marks
<1>2. /\ ~g.is_checksum_term /\ g.parity = Odd(s, 19) /\ g.term_number = 9
      /\ g.sentence_type = s.type
      /\ s.fix /\ 2 * Judged(s.type) + 1 < 19 => g.data_good = TRUE
  <2>1. 19 \div 2 = 9 /\ 2 <= 19
    OBVIOUS
  <2> QED BY <2>1 DEF InBody
<1>3. IsEnded(h, g, c)
  BY <1>1, <1>2, OrdinaryEnd
<1> HIDE DEF c, h
<1>4. Judged(s.type) \in {2, 6} /\ 2 * Judged(s.type) + 1 < 19
  BY JudgedIs
<1>5. s.type \in {"GPRMC", "GPGGA"}
  BY DEF Sentence
<1>6. Plain(g)
  BY <1>2, <1>4, <1>5 DEF Plain, Known
<1>7. h.parity = Odd(s, 19)
  BY <1>1, <1>2, <1>3 DEF IsEnded, SymDiff
<1>8. h.is_checksum_term /\ h.term = <<>>
  BY <1>1, <1>3 DEF IsEnded
<1>9. s.fix => h.data_good = TRUE
  BY <1>2, <1>3, <1>4, <1>6 DEF IsEnded
<1> QED
  BY <1>7, <1>8, <1>9 DEF InChecksum, h

LEMMA DigitsStep ==
  ASSUME NEW g \in TinyFields, NEW s \in Sentence,
         InChecksum(g, s, <<>>), NEW o \in Outcomes(g, Digits(Odd(s, 19)))
  PROVE  InChecksum(o[1], s, <<Digits(Odd(s, 19))>>)
<1> DEFINE c == Digits(Odd(s, 19))
           h == o[1]
<1>1. c \in Chars /\ c.t = "sum"
  <2>1. Odd(s, 19) \in SUBSET Bits
    BY DEF Odd
  <2> QED BY <2>1, BytesAreChars
<1> HIDE DEF c
<1>2. o = <<Extend(g, c), FALSE>>
  BY <1>1 DEF Outcomes, c
<1>3. /\ h.term = <<c>> /\ h.parity = g.parity
      /\ h.is_checksum_term = g.is_checksum_term /\ h.data_good = g.data_good
  BY <1>1, <1>2, ExtendIs DEF InChecksum
<1> HIDE DEF h
<1> QED
  BY <1>3 DEF InChecksum, c, h

LEMMA EndStep ==
  ASSUME NEW g \in TinyFields, NEW s \in Sentence, s.fix,
         InChecksum(g, s, <<Digits(Odd(s, 19))>>), NEW o \in Outcomes(g, Mark("\r"))
  PROVE  o[2] = TRUE
<1> DEFINE c == Mark("\r")
           d == Digits(Odd(s, 19))
<1>1. c \in Chars /\ c.t = "\r" /\ c.bits = {}
  BY BytesAreChars DEF Marks
<1>2. d.t = "sum" /\ d.bits = Odd(s, 19) /\ d \in Chars
  <2>1. Odd(s, 19) \in SUBSET Bits
    BY DEF Odd
  <2> QED BY <2>1, BytesAreChars
<1>3. g.is_checksum_term /\ g.parity = Odd(s, 19) /\ g.term = <<d>> /\ g.data_good = TRUE
  BY DEF InChecksum
<1> HIDE DEF d, c
<1>4. o \in Terminate(g, c)
  BY <1>1 DEF Outcomes, c
<1>5. PICK p \in TinyFields :
        \E r \in TermComplete(p) : /\ WithParity(p, g, c)
                                   /\ NextTermIs(o[1], r[1], c) /\ o[2] = r[2]
  BY <1>1, <1>4, TerminateIs
<1>6. PICK r \in TermComplete(p) : o[2] = r[2]
  BY <1>5
<1>7. WithParity(p, g, c)
  BY <1>5
<1>8. /\ p.parity = SymDiff(g.parity, c.bits) /\ p.term = g.term
      /\ p.is_checksum_term = g.is_checksum_term /\ p.data_good = g.data_good
  BY <1>7 DEF WithParity
<1>9. p.parity = Odd(s, 19)
  BY <1>1, <1>3, <1>8 DEF SymDiff
<1>10. Checksums(p.term) = {Odd(s, 19)}
  <2>1. p.term # <<>> /\ p.term[1] = d
    BY <1>2, <1>3, <1>8, OneByteTerm
  <2> QED BY <1>2, <2>1 DEF Checksums
<1>11. r = <<Commit(p), TRUE>>
  BY <1>3, <1>6, <1>8, <1>9, <1>10 DEF TermComplete
<1> QED
  BY <1>6, <1>11

(* One byte of the line after another keeps the parser in step. *)
LEMMA ByteStep ==
  ASSUME NEW g \in TinyFields, NEW v, NEW s \in Sentence, NEW k \in 1 .. 23,
         InStep(g, v, s, k), NEW o \in Outcomes(g, Line(s)[k + 1])
  PROVE  InStep(o[1], o[2], s, k + 1)
<1>1. IsLine(Line(s), s)
  BY LineIs
<1>2. CASE k <= 19
  <2> DEFINE j == k - 1
  <2>1. j \in 0 .. 18 /\ k = j + 1 /\ k \in 1 .. 19 /\ k + 1 = 1 + k
    BY <1>2
  <2>2. Line(s)[k + 1] = Body(s)[j + 1]
    <3>1. Line(s)[1 + k] = Body(s)[k]
      BY <1>1, <2>1 DEF IsLine
    <3> QED BY <2>1, <3>1
  <2>3. InBody(g, s, j)
    BY <2>1 DEF InStep
  <2> HIDE DEF j
  <2>4. o \in Outcomes(g, Body(s)[j + 1])
    BY <2>2
  <2>5. InBody(o[1], s, j + 1)
    BY <2>1, <2>3, <2>4, TextStep, CommaStep
  <2>6. InBody(o[1], s, k)
    BY <2>1, <2>5
  <2>7. k + 1 # 21 /\ k + 1 # 22 /\ k + 1 # 23 /\ \A i \in 0 .. 19 : k + 1 = i + 1 => i = k
    BY <2>1
  <2> QED BY <2>6, <2>7 DEF InStep
<1>3. CASE k = 20
  <2>1. InBody(g, s, 19)
    BY <1>3 DEF InStep
  <2>2. o \in Outcomes(g, Mark("*"))
    BY <1>1, <1>3 DEF IsLine
  <2>3. InChecksum(o[1], s, <<>>)
    BY <2>1, <2>2, StarStep
  <2> QED BY <1>3, <2>3 DEF InStep
<1>4. CASE k = 21
  <2>1. InChecksum(g, s, <<>>)
    BY <1>4 DEF InStep
  <2>2. o \in Outcomes(g, Digits(Odd(s, 19)))
    BY <1>1, <1>4 DEF IsLine
  <2>3. InChecksum(o[1], s, <<Digits(Odd(s, 19))>>)
    BY <2>1, <2>2, DigitsStep
  <2> QED BY <1>4, <2>3 DEF InStep
<1>5. CASE k = 22
  <2>1. InChecksum(g, s, <<Digits(Odd(s, 19))>>)
    BY <1>5 DEF InStep
  <2>2. o \in Outcomes(g, Mark("\r"))
    BY <1>1, <1>5 DEF IsLine
  <2>3. s.fix => o[2] = TRUE
    BY <2>1, <2>2, EndStep
  <2> QED BY <1>5, <2>3 DEF InStep
<1>6. CASE k = 23
  BY <1>6 DEF InStep
<1>7. k <= 19 \/ k = 20 \/ k = 21 \/ k = 22 \/ k = 23
  OBVIOUS
<1> QED
  BY <1>2, <1>3, <1>4, <1>5, <1>6, <1>7

LEMMA DollarStep ==
  ASSUME NEW g \in TinyFields, NEW s \in Sentence, NEW o \in Outcomes(g, Mark("$"))
  PROVE  InStep(o[1], o[2], s, 1)
<1>1. Mark("$").t = "$"
  BY BytesAreChars DEF Marks
<1>2. o = <<BeginSentence(g), FALSE>>
  BY <1>1 DEF Outcomes
<1>3. o[1].parity = {} /\ o[1].term = <<>> /\ o[1].term_number = 0 /\ ~o[1].is_checksum_term
  BY <1>2, BeginIs
<1>4. InBody(o[1], s, 0)
  <2>1. Odd(s, 0) = {}
    BY OddNone
  <2>2. 0 \div 2 = 0 /\ ~(0 % 2 = 1) /\ ~(2 <= 0)
    OBVIOUS
  <2>3. ~(2 * Judged(s.type) + 1 < 0)
    BY JudgedIs
  <2> QED BY <1>3, <2>1, <2>2, <2>3 DEF InBody
<1> QED
  BY <1>4 DEF InStep

(* What is left of a line. *)
IsRest(r, s, n) ==
  /\ n \in 0 .. 24
  /\ r \in Seq(Chars) /\ Len(r) = n
  /\ \A i \in 1 .. n : r[i] = Line(s)[24 - n + i]

LEMMA FunctionIsSeq ==
  ASSUME NEW S, NEW n \in Nat, NEW f \in [1 .. n -> S]
  PROVE  f \in Seq(S) /\ Len(f) = n
  BY IsASeq, LenProperties

LEMMA LineSeq ==
  ASSUME NEW s \in Sentence
  PROVE  Line(s) \in Seq(Chars) /\ Len(Line(s)) = 24
<1>1. Line(s) \in [1 .. 24 -> Chars]
  BY LineIs DEF IsLine
<1> QED
  BY <1>1, FunctionIsSeq

LEMMA RestOfLine ==
  ASSUME NEW s \in Sentence, NEW start \in 1 .. 24
  PROVE  IsRest(SubSeq(Line(s), start, 24), s, 25 - start)
<1> DEFINE r == SubSeq(Line(s), start, 24)
           n == 25 - start
<1>1. Line(s) \in Seq(Chars) /\ Len(Line(s)) = 24
  BY LineSeq
<1>2. /\ r \in Seq(Chars)
      /\ Len(r) = IF start <= 24 THEN 24 - start + 1 ELSE 0
      /\ \A i \in 1 .. 24 - start + 1 : r[i] = Line(s)[start + i - 1]
  <2>1. \A i \in start .. 24 : Line(s)[i] \in Chars
    BY LineIs DEF IsLine
  <2> QED BY <2>1, SubSeqProperties
<1> HIDE DEF r
<1>3. Len(r) = n /\ n \in 0 .. 24 /\ 24 - start + 1 = n
  BY <1>2
<1>4. \A i \in 1 .. n : r[i] = Line(s)[24 - n + i]
  <2> TAKE i \in 1 .. n
  <2>1. start + i - 1 = 24 - n + i
    OBVIOUS
  <2> QED BY <1>2, <1>3, <2>1
<1> QED
  BY <1>2, <1>3, <1>4 DEF IsRest, r

LEMMA WholeLine ==
  ASSUME NEW s \in Sentence
  PROVE  IsRest(Line(s), s, 24)
<1>1. Line(s) \in Seq(Chars) /\ Len(Line(s)) = 24
  BY LineSeq
<1>2. \A i \in 1 .. 24 : 24 - 24 + i = i
  OBVIOUS
<1> QED
  BY <1>1, <1>2 DEF IsRest

LEMMA RestNext ==
  ASSUME NEW s \in Sentence, NEW r, NEW n, IsRest(r, s, n), r # <<>>
  PROVE  /\ n \in 1 .. 24 /\ Head(r) \in Chars /\ Head(r) = Line(s)[(24 - n) + 1]
         /\ IsRest(Tail(r), s, n - 1)
<1>1. /\ n \in 0 .. 24 /\ r \in Seq(Chars) /\ Len(r) = n
      /\ \A i \in 1 .. n : r[i] = Line(s)[24 - n + i]
  BY DEF IsRest
<1>2. n \in 1 .. 24
  BY <1>1
<1>3. /\ Head(r) \in Chars /\ Head(r) = r[1] /\ Tail(r) \in Seq(Chars)
      /\ Len(Tail(r)) = n - 1 /\ \A i \in 1 .. n - 1 : Tail(r)[i] = r[i + 1]
  BY <1>1, <1>2
<1>4. Head(r) = Line(s)[(24 - n) + 1]
  BY <1>1, <1>2, <1>3
<1>5. \A i \in 1 .. n - 1 : Tail(r)[i] = Line(s)[24 - (n - 1) + i]
  <2> TAKE i \in 1 .. n - 1
  <2>1. i + 1 \in 1 .. n /\ 24 - n + (i + 1) = 24 - (n - 1) + i
    BY <1>2
  <2> QED BY <1>1, <1>3, <2>1
<1> QED
  BY <1>2, <1>3, <1>4, <1>5 DEF IsRest

-----------------------------------------------------------------------------
(* What the sentence tells, told by the parser: what it would commit is right, what
   it reports is. *)
TimeOf(s) == <<Byte(s.time)>>

Right(g, s) ==
  g.data_good => s.fix /\ g.new.time = TimeOf(s) /\ g.sentence_type \in {"GPRMC", "GPGGA"}

TellsRight(g, v, s) == v => s.fix /\ g.kept.time = TimeOf(s)

(* What an ordinary term does to the time and to the verdict. *)
Verdict(type, t) == IF type = "GPRMC" THEN t = "A" ELSE t # "0"

Heeds(h, g) ==
  /\ g.term = <<>> \/ g.term_number = 0 \/ (g.sentence_type = "Other" /\ g.term_number < 10) =>
       h.new = g.new /\ h.data_good = g.data_good
  /\ Known(g) /\ g.term # <<>> =>
       /\ h.new.time = IF g.term_number = 1 THEN g.term ELSE g.new.time
       /\ g.term_number # Judged(g.sentence_type) => h.data_good = g.data_good
       /\ g.term_number = Judged(g.sentence_type) =>
            (h.data_good <=> Verdict(g.sentence_type, g.term[1].t))

LEMMA TimeField ==
  ASSUME NEW type \in {"GPRMC", "GPGGA"}, NEW n \in 1 .. 9
  PROVE  /\ Layout[type][n] = "time" <=> n = 1
         /\ 3 <= n => Layout[type][n] \notin {"time", "validity"}
<1>1. n = 1 \/ n = 2 \/ n = 3 \/ n = 4 \/ n = 5 \/ n = 6 \/ n = 7 \/ n = 8 \/ n = 9
  OBVIOUS
<1>2. CASE type = "GPRMC"
  BY <1>1, <1>2 DEF Layout
<1>3. CASE type = "GPGGA"
  BY <1>1, <1>3 DEF Layout
<1> QED
  BY <1>2, <1>3

LEMMA OrdinaryHeeds ==
  ASSUME NEW g \in TinyFields
  PROVE  Heeds(OrdinaryTerm(g), g)
<1> SUFFICES ASSUME NEW h, h = OrdinaryTerm(g)
             PROVE  Heeds(h, g)
  OBVIOUS
<1> DEFINE row == Layout[Row(g.sentence_type, g.term_number)]
           n == g.term_number % 32
           field == IF g.term # <<>> /\ n \in DOMAIN row THEN row[n] ELSE "none"
<1>1. CASE g.term_number = 0
  <2>1. h = [g EXCEPT !.sentence_type = TypeOf(g.term)]
    BY <1>1 DEF OrdinaryTerm
  <2>2. h.new = g.new /\ h.data_good = g.data_good
    BY <2>1 DEF TinyFields
  <2> QED BY <1>1, <2>2 DEF Heeds, Known
<1>2. CASE g.term_number # 0
  <2>1. h = CASE field \in Stored -> [g EXCEPT !.new[field] = g.term]
              [] field = "validity" -> [g EXCEPT !.data_good = (g.term[1].t = "A")]
              [] field = "quality" -> [g EXCEPT !.data_good = (g.term[1].t # "0")]
              [] OTHER -> g
    BY <1>2 DEF OrdinaryTerm
  <2>2. ASSUME g.term = <<>> \/ (g.sentence_type = "Other" /\ g.term_number < 10)
        PROVE  h = g
    <3>1. field = "none"
      <4>1. CASE g.term = <<>>
        BY <4>1
      <4>2. CASE g.sentence_type = "Other"
        <5>1. Row(g.sentence_type, g.term_number) = "Other"
          BY <4>2 DEF Row
        <5>2. Layout["Other"] = <<>> /\ DOMAIN <<>> = {}
          BY DEF Layout
        <5> QED BY <5>1, <5>2
      <4> QED BY <2>2, <4>1, <4>2
    <3> HIDE DEF field
    <3> QED BY <2>1, <3>1, StoredAre
  <2>3. ASSUME Known(g), g.term # <<>>
        PROVE  /\ field = Layout[g.sentence_type][g.term_number]
               /\ g.sentence_type \in {"GPRMC", "GPGGA"} /\ g.term_number \in 1 .. 9
    <3>1. g.sentence_type \in {"GPRMC", "GPGGA"} /\ g.term_number \in 1 .. 9
      BY <2>3 DEF Known
    <3>2. /\ Row(g.sentence_type, g.term_number) = g.sentence_type
          /\ n = g.term_number /\ g.term_number \in DOMAIN Layout[g.sentence_type]
      BY <3>1, JudgedField
    <3> QED BY <2>3, <3>1, <3>2
  <2>4. g.new \in [Stored -> Terms] /\ "time" \in Stored
    BY DEF TinyFields, Stored, Committed
  <2> HIDE DEF field
  <2>5. ASSUME Known(g), g.term # <<>>
        PROVE  /\ h.new.time = IF g.term_number = 1 THEN g.term ELSE g.new.time
               /\ g.term_number # Judged(g.sentence_type) => h.data_good = g.data_good
               /\ g.term_number = Judged(g.sentence_type) =>
                    (h.data_good <=> Verdict(g.sentence_type, g.term[1].t))
    <3>1. /\ field = "time" <=> g.term_number = 1
          /\ g.term_number # Judged(g.sentence_type) => field \notin {"validity", "quality"}
          /\ g.term_number = Judged(g.sentence_type) =>
               field = IF g.sentence_type = "GPRMC" THEN "validity" ELSE "quality"
      BY <2>3, <2>5, TimeField, JudgedField
    <3>2. CASE field \in Stored
      <4>1. h = [g EXCEPT !.new[field] = g.term]
        BY <2>1, <3>2, StoredAre
      <4>2. h.data_good = g.data_good /\ h.new = [g.new EXCEPT ![field] = g.term]
        BY <4>1 DEF TinyFields
      <4>3. h.new.time = IF field = "time" THEN g.term ELSE g.new.time
        BY <2>4, <4>2
      <4>4. g.term_number # Judged(g.sentence_type)
        BY <3>1, <3>2, StoredAre
      <4> QED BY <3>1, <4>2, <4>3, <4>4
    <3>3. CASE field = "validity"
      <4>1. h = [g EXCEPT !.data_good = (g.term[1].t = "A")]
        BY <2>1, <3>3, StoredAre
      <4>2. h.new = g.new /\ (h.data_good <=> (g.term[1].t = "A"))
        BY <4>1 DEF TinyFields
      <4>3. g.term_number = Judged(g.sentence_type) /\ g.sentence_type = "GPRMC"
            /\ g.term_number # 1
        BY <3>1, <3>3
      <4> QED BY <4>2, <4>3 DEF Verdict
    <3>4. CASE field = "quality"
      <4>1. h = [g EXCEPT !.data_good = (g.term[1].t # "0")]
        BY <2>1, <3>4, StoredAre
      <4>2. h.new = g.new /\ (h.data_good <=> (g.term[1].t # "0"))
        BY <4>1 DEF TinyFields
      <4>3. g.term_number = Judged(g.sentence_type) /\ g.sentence_type # "GPRMC"
            /\ g.term_number # 1
        BY <3>1, <3>4
      <4> QED BY <4>2, <4>3 DEF Verdict
    <3>5. CASE field \notin Stored \cup {"validity", "quality"}
      <4>1. h = g
        BY <2>1, <3>5
      <4>2. g.term_number # 1 /\ g.term_number # Judged(g.sentence_type)
        BY <2>4, <3>1, <3>5
      <4> QED BY <4>1, <4>2
    <3> QED BY <3>2, <3>3, <3>4, <3>5
  <2> QED BY <1>2, <2>2, <2>5 DEF Heeds
<1> QED
  BY <1>1, <1>2

(* A terminator after an ordinary term reports nothing. *)
LEMMA EndHeeds ==
  ASSUME NEW g \in TinyFields, ~g.is_checksum_term,
         NEW c \in Chars, c.t \in {",", "*", "\r"}, NEW o \in Outcomes(g, c)
  PROVE  Heeds(o[1], g) /\ o[2] = FALSE
<1>1. o \in Terminate(g, c)
  BY DEF Outcomes
<1>2. PICK p \in TinyFields :
        \E r \in TermComplete(p) : /\ WithParity(p, g, c)
                                   /\ NextTermIs(o[1], r[1], c) /\ o[2] = r[2]
  BY <1>1, TerminateIs
<1>3. PICK r \in TermComplete(p) : NextTermIs(o[1], r[1], c) /\ o[2] = r[2]
  BY <1>2
<1>4. /\ p.term = g.term /\ p.term_number = g.term_number
      /\ p.is_checksum_term = g.is_checksum_term
      /\ p.sentence_type = g.sentence_type /\ p.data_good = g.data_good /\ p.new = g.new
  BY <1>2 DEF WithParity
<1>5. r = <<OrdinaryTerm(p), FALSE>>
  BY <1>4 DEF TermComplete
<1>6. r[1] = OrdinaryTerm(p) /\ o[2] = FALSE
  BY <1>3, <1>5
<1>7. Heeds(r[1], p) /\ r[1] \in TinyFields
  BY <1>6, OrdinaryHeeds, OrdinaryTermIs DEF IsOrdinary
<1>8. o[1].new = r[1].new /\ o[1].data_good = r[1].data_good
  <2>1. TermOver(o[1], r[1], c)
    BY <1>3, <1>7, NextTerm
  <2> QED BY <2>1 DEF TermOver
<1>9. Known(p) <=> Known(g)
  BY <1>4 DEF Known
<1> QED
  BY <1>4, <1>6, <1>7, <1>8, <1>9 DEF Heeds

(* A terminator after a checksum: what is reported is what was gathered. *)
IsChecked(h, v, g, c) ==
  /\ h.parity = SymDiff(g.parity, c.bits) /\ h.term = <<>>
  /\ h.is_checksum_term <=> c.t = "*"
  /\ v => h.parity \in Checksums(g.term)
  /\ \A s : Right(g, s) => Right(h, s) /\ TellsRight(h, v, s)

LEMMA ChecksumEnd ==
  ASSUME NEW g \in TinyFields, g.is_checksum_term,
         NEW c \in Chars, c.t \in {",", "*", "\r"}, NEW o \in Outcomes(g, c)
  PROVE  IsChecked(o[1], o[2], g, c)
<1>1. o \in Terminate(g, c)
  BY DEF Outcomes
<1>2. PICK p \in TinyFields :
        \E r \in TermComplete(p) : /\ WithParity(p, g, c)
                                   /\ NextTermIs(o[1], r[1], c) /\ o[2] = r[2]
  BY <1>1, TerminateIs
<1>3. PICK r \in TermComplete(p) : NextTermIs(o[1], r[1], c) /\ o[2] = r[2]
  BY <1>2
<1>4. /\ p.parity = SymDiff(g.parity, c.bits)
      /\ p.term = g.term /\ p.is_checksum_term = g.is_checksum_term
      /\ p.sentence_type = g.sentence_type /\ p.data_good = g.data_good /\ p.new = g.new
  BY <1>2 DEF WithParity
<1>5. \/ r = <<Commit(p), TRUE>> /\ p.data_good /\ p.parity \in Checksums(p.term)
      \/ r = <<p, FALSE>>
  <2>1. PICK checksum \in Checksums(p.term) :
          r = IF checksum = p.parity /\ p.data_good THEN <<Commit(p), TRUE>> ELSE <<p, FALSE>>
    BY <1>4 DEF TermComplete
  <2> QED BY <2>1
<1>6. o[2] => r = <<Commit(p), TRUE>> /\ p.data_good /\ p.parity \in Checksums(p.term)
  <2>1. CASE r = <<p, FALSE>>
    <3>1. r[2] = FALSE
      BY <2>1
    <3> QED BY <1>3, <3>1
  <2> QED BY <1>5, <2>1
<1>7. /\ r[1] \in TinyFields /\ r[1].parity = p.parity /\ r[1].new = p.new
      /\ r[1].sentence_type = p.sentence_type /\ r[1].data_good = p.data_good
  <2>1. CASE r = <<p, FALSE>>
    BY <2>1
  <2>2. CASE r = <<Commit(p), TRUE>>
    <3>1. Commit(p) \in TinyFields
      BY CommitTyped
    <3>2. /\ Commit(p).parity = p.parity /\ Commit(p).new = p.new
          /\ Commit(p).sentence_type = p.sentence_type /\ Commit(p).data_good = p.data_good
      BY DEF Commit, TinyFields
    <3> QED BY <2>2, <3>1, <3>2
  <2> QED BY <1>5, <2>1, <2>2
<1>8. TermOver(o[1], r[1], c)
  BY <1>3, <1>7, NextTerm
<1> DEFINE h == o[1]
<1>9. /\ h.parity = SymDiff(g.parity, c.bits) /\ h.term = <<>>
      /\ h.is_checksum_term <=> c.t = "*"
      /\ h.new = g.new /\ h.sentence_type = g.sentence_type /\ h.data_good = g.data_good
      /\ h.kept = r[1].kept
  BY <1>4, <1>7, <1>8 DEF TermOver
<1>10. o[2] => h.data_good /\ h.parity \in Checksums(g.term)
  BY <1>4, <1>9, <1>6
<1>11. o[2] /\ h.sentence_type \in {"GPRMC", "GPGGA"} => h.kept.time = g.new.time
  <2> SUFFICES ASSUME o[2], h.sentence_type \in {"GPRMC", "GPGGA"}
               PROVE  h.kept.time = g.new.time
    OBVIOUS
  <2>1. r = <<Commit(p), TRUE>>
    BY <1>6
  <2>2. Commit(p).kept = [f \in Stored |-> IF f \in Committed[p.sentence_type] THEN p.new[f] ELSE p.kept[f]]
    BY DEF Commit, TinyFields
  <2>3. "time" \in Stored /\ "time" \in Committed[p.sentence_type]
    <3>1. p.sentence_type = "GPRMC" \/ p.sentence_type = "GPGGA"
      BY <1>4, <1>9
    <3>2. "time" \in Committed["GPRMC"] /\ "time" \in Committed["GPGGA"]
      BY DEF Committed
    <3> QED BY <3>1, <3>2 DEF Stored
  <2>4. Commit(p).kept.time = p.new.time
    BY <2>2, <2>3
  <2> QED BY <1>4, <1>9, <2>1, <2>4
<1> HIDE DEF h
<1>12. \A s : Right(g, s) => Right(h, s) /\ TellsRight(h, o[2], s)
  BY <1>9, <1>10, <1>11 DEF Right, TellsRight
<1>13. o[2] => h.parity \in Checksums(g.term)
  BY <1>10
<1>14. IsChecked(h, o[2], g, c)
  BY <1>9, <1>12, <1>13 DEF IsChecked
<1> QED
  BY <1>14 DEF h

(* What the bytes of a body say. *)
LEMMA LaterTexts ==
  ASSUME NEW s \in Sentence, NEW j \in 3 .. 19, j % 2 = 1
  PROVE  \E t \in DOMAIN Code \ {","} : /\ Body(s)[j] = Byte(t)
                                        /\ t \notin {"GPRMC", "GPGGA"}
                                        /\ 7 <= j => t # "A"
<1> DEFINE n == j \div 2
           field == Layout[s.type][n]
           t == Text(s, field)
<1>1. n \in 1 .. 9 /\ j = 2 * n + 1 /\ (7 <= j => 3 <= n)
  OBVIOUS
<1>2. s.type \in {"GPRMC", "GPGGA"} /\ s.time \in TimesTold
  BY DEF Sentence
<1> HIDE DEF n
<1>3. 3 <= n => field \notin {"time", "validity"}
  BY <1>1, <1>2, TimeField
<1>4. Body(s)[j] = Byte(t) /\ t \in DOMAIN Code \ {","}
  BY <1>1, BodyIs, TextIs DEF IsBody
<1> HIDE DEF field
<1>5. t \notin {"GPRMC", "GPGGA"}
  BY <1>2, TextAssumption DEF Text
<1>6. 3 <= n => t # "A"
  BY <1>3 DEF Text
<1> QED
  BY <1>1, <1>4, <1>5, <1>6

LEMMA TimeByte ==
  ASSUME NEW s \in Sentence
  PROVE  Body(s)[3] = Byte(s.time)
<1>1. s.type \in {"GPRMC", "GPGGA"}
  BY DEF Sentence
<1>2. Body(s)[2 * 1 + 1] = Byte(Text(s, Layout[s.type][1]))
  <2>1. 1 \in 1 .. 9
    OBVIOUS
  <2> QED BY <2>1, BodyIs DEF IsBody
<1>3. Layout[s.type][1] = "time"
  <2>1. 1 \in 1 .. 9
    OBVIOUS
  <2> QED BY <1>1, <2>1, TimeField
<1>4. Text(s, "time") = s.time /\ 2 * 1 + 1 = 3
  BY DEF Text
<1> QED
  BY <1>2, <1>3, <1>4

(* The field that judges a sentence finds a fix only where there is one. *)
LEMMA NoFixSaysSo ==
  ASSUME NEW s \in Sentence, Verdict(s.type, Body(s)[2 * Judged(s.type) + 1].t)
  PROVE  s.fix
<1>1. s.type \in {"GPRMC", "GPGGA"}
  BY DEF Sentence
<1>2. Judged(s.type) \in 1 .. 9
  BY DEF Judged
<1>3. Body(s)[2 * Judged(s.type) + 1] = Byte(Text(s, Layout[s.type][Judged(s.type)]))
  BY <1>2, BodyIs DEF IsBody
<1>4. Layout[s.type][Judged(s.type)] = IF s.type = "GPRMC" THEN "validity" ELSE "quality"
  BY <1>1, <1>2, JudgedField
<1>5. ~s.fix => Text(s, Layout[s.type][Judged(s.type)]) = IF s.type = "GPRMC" THEN "V" ELSE "0"
  BY <1>1, <1>4 DEF Text
<1>6. ~s.fix => Body(s)[2 * Judged(s.type) + 1].t = IF s.type = "GPRMC" THEN "V" ELSE "0"
  <2>1. Byte("V").t = "V" /\ Byte("0").t = "0"
    BY DEF Byte
  <2> QED BY <1>3, <1>5, <2>1
<1> QED
  BY <1>1, <1>6 DEF Verdict

(* The exclusive or is one. *)
LEMMA XorFacts ==
  ASSUME NEW P, NEW Q, NEW R
  PROVE  /\ SymDiff(P, Q) = SymDiff(P, R) => Q = R
         /\ SymDiff(P, Q) = P => Q = {}
         /\ SymDiff(P, {}) = P
         /\ SymDiff(SymDiff(P, Q), R) = P => Q = R
  BY DEF SymDiff

LEMMA XorKeeps ==
  ASSUME NEW P, NEW Q, NEW R, P # Q
  PROVE  SymDiff(P, R) # SymDiff(Q, R)
  BY DEF SymDiff

-----------------------------------------------------------------------------
(* A sentence of which every byte came: besides what InStep says, the verdict is not
   pronounced before its field, and the time is there before the verdict. *)
Truthful(g, s, j) ==
  /\ Right(g, s)
  /\ 4 <= j => g.new.time = TimeOf(s)
  /\ j <= 2 * Judged(s.type) + 1 => ~g.data_good

Whole(g, s, k) ==
  /\ \A j \in 0 .. 19 : k = j + 1 => Truthful(g, s, j)
  /\ k \in {21, 22} => Right(g, s)
  /\ k = 23 => ~g.is_checksum_term

(* A sentence of which one byte was lost or garbled.  After j bytes of the body the
   parity is wrong, or the damaged byte has become a "*" or a "$"; at the end the
   checksum does not match, or what is committed is right, or there is none. *)
Off(g, s, j) == ~g.is_checksum_term /\ g.parity # Odd(s, j)

Starred(g, s, j) ==
  /\ g.is_checksum_term /\ Right(g, s)
  /\ g.parity # Odd(s, IF j % 2 = 1 THEN j ELSE j + 1)

Mute(g, s, j) ==
  /\ ~g.is_checksum_term /\ ~g.data_good
  /\ 2 <= j /\ g.term_number <= j \div 2 - 1
  /\ g.term = <<>> \/ (j % 2 = 1 /\ g.term = <<Body(s)[j]>>)
  /\ g.term_number # 0 => g.sentence_type # "GPGGA"

Mismatch(g, s, k) ==
  /\ k < 23 /\ g.parity # Odd(s, 19)
  /\ g.term = IF k = 21 THEN <<>> ELSE <<Digits(Odd(s, 19))>>

Ended(g, s, k) ==
  k = 24 \/ ~g.is_checksum_term \/ Right(g, s) \/ Mismatch(g, s, k)

Hurt(g, s, k) ==
  /\ 2 <= k
  /\ \A j \in 1 .. 19 : k = j + 1 => Off(g, s, j) \/ Starred(g, s, j) \/ Mute(g, s, j)
  /\ 21 <= k => Ended(g, s, k)

EndsTerm(c) == c.t \in {",", "*", "\r"}

(* The next text of an undamaged sentence, and the end of one. *)
LEMMA TruthfulText ==
  ASSUME NEW g \in TinyFields, NEW s \in Sentence, NEW j \in 0 .. 18, ~(j % 2 = 1),
         InBody(g, s, j), Truthful(g, s, j), NEW o \in Outcomes(g, Body(s)[j + 1])
  PROVE  Truthful(o[1], s, j + 1) /\ o[2] = FALSE
<1> DEFINE c == Body(s)[j + 1]
<1>1. /\ j + 1 \in 1 .. 19 /\ (j + 1) % 2 = 1
      /\ 4 <= j + 1 => 4 <= j
      /\ \A n \in {5, 13} : j + 1 <= n => j <= n
  OBVIOUS
<1>2. PICK t \in DOMAIN Code \ {","} : c = Byte(t)
  BY <1>1, BodyTexts
<1> HIDE DEF c
<1>3. c \in Chars /\ c.t \notin {",", "*", "\r", "$"}
  <2>1. c \in Chars /\ c.t = t
    BY <1>2, BytesAreChars
  <2>2. t \notin {"*", "\r", "$"}
    BY TinyGpsAssumption
  <2> QED BY <2>1, <2>2
<1>4. o = <<Extend(g, c), FALSE>>
  BY <1>3 DEF Outcomes, c
<1>5. /\ o[1].new = g.new /\ o[1].sentence_type = g.sentence_type
      /\ o[1].data_good = g.data_good /\ o[2] = FALSE
  BY <1>3, <1>4, ExtendIs
<1>6. 2 * Judged(s.type) + 1 \in {5, 13}
  BY JudgedIs
<1> QED
  BY <1>1, <1>5, <1>6 DEF Truthful, Right

LEMMA TruthfulEnd ==
  ASSUME NEW g \in TinyFields, NEW s \in Sentence, NEW j \in 1 .. 19, j % 2 = 1,
         InBody(g, s, j), Truthful(g, s, j),
         NEW c \in Chars, EndsTerm(c), NEW o \in Outcomes(g, c)
  PROVE  Truthful(o[1], s, j + 1) /\ o[2] = FALSE
<1> DEFINE h == o[1]
<1>1. PICK n \in 0 .. 9 : j = 2 * n + 1 /\ j \div 2 = n
  <2>1. j \div 2 \in 0 .. 9 /\ j = 2 * (j \div 2) + 1
    OBVIOUS
  <2> QED BY <2>1
<1>2. /\ ~g.is_checksum_term /\ g.term_number = n /\ g.term = <<Body(s)[j]>>
      /\ 2 <= j => g.sentence_type = s.type
  BY <1>1 DEF InBody
<1>3. Heeds(h, g) /\ IsEnded(h, g, c) /\ o[2] = FALSE
  BY <1>2, EndHeeds, OrdinaryEnd DEF EndsTerm
<1>4. /\ s.type \in {"GPRMC", "GPGGA"} /\ Judged(s.type) \in {2, 6}
  BY JudgedIs DEF Sentence
<1> DEFINE verdict == Judged(s.type)
<1> HIDE DEF h, verdict
<1>5. /\ Right(g, s) /\ (4 <= j => g.new.time = TimeOf(s))
      /\ (j <= 2 * verdict + 1 => ~g.data_good)
  BY DEF Truthful, verdict
<1>6. verdict \in {2, 6}
  BY <1>4 DEF verdict
<1>7. CASE n = 0
  <2>1. ~g.data_good
    BY <1>1, <1>5, <1>6, <1>7
  <2>2. ~h.data_good
    BY <1>2, <1>3, <1>7, <2>1 DEF Heeds
  <2>3. ~(4 <= j + 1)
    BY <1>1, <1>7
  <2> QED BY <1>3, <2>2, <2>3 DEF Truthful, Right, h
<1>8. CASE n # 0
  <2>1. n \in 1 .. 9 /\ 2 <= j
    BY <1>1, <1>8
  <2>2. Known(g) /\ g.sentence_type = s.type
    BY <1>2, <1>4, <2>1 DEF Known
  <2>3. Body(s)[j] \in Chars
    BY BodyIs DEF IsBody
  <2>4. g.term # <<>> /\ g.term[1] = Body(s)[j]
    BY <1>2, <2>3, OneByteTerm
  <2>5. /\ h.new.time = IF n = 1 THEN <<Body(s)[j]>> ELSE g.new.time
        /\ n # verdict => h.data_good = g.data_good
        /\ n = verdict => (h.data_good <=> Verdict(s.type, Body(s)[j].t))
    BY <1>2, <1>3, <2>2, <2>4 DEF Heeds, verdict
  <2>6. h.new.time = TimeOf(s)
    <3>1. CASE n = 1
      <4>1. j = 3
        BY <1>1, <3>1
      <4> QED BY <2>5, <3>1, <4>1, TimeByte DEF TimeOf
    <3>2. CASE n # 1
      <4>1. 4 <= j
        BY <1>1, <2>1, <3>2
      <4> QED BY <1>5, <2>5, <3>2, <4>1
    <3> QED BY <3>1, <3>2
  <2>7. h.data_good => s.fix
    <3>1. CASE n = verdict
      <4>1. Body(s)[j] = Body(s)[2 * Judged(s.type) + 1]
        BY <1>1, <3>1 DEF verdict
      <4> QED BY <2>5, <3>1, <4>1, NoFixSaysSo
    <3>2. CASE n # verdict
      BY <1>5, <2>5, <3>2 DEF Right
    <3> QED BY <3>1, <3>2
  <2>8. h.sentence_type = s.type
    <3>1. g.term_number # 0
      BY <1>2, <2>1
    <3>2. h.sentence_type = g.sentence_type
      BY <1>3, <3>1 DEF IsEnded
    <3> QED BY <2>2, <3>2
  <2>9. j + 1 <= 2 * verdict + 1 => ~h.data_good
    <3> SUFFICES ASSUME j + 1 <= 2 * verdict + 1 PROVE ~h.data_good
      OBVIOUS
    <3>1. n # verdict /\ j <= 2 * verdict + 1
      BY <1>1, <1>6
    <3> QED BY <1>5, <2>5, <3>1
  <2> QED BY <1>3, <1>4, <2>6, <2>7, <2>8, <2>9 DEF Truthful, Right, h, verdict
<1> QED
  BY <1>7, <1>8

-----------------------------------------------------------------------------
(* One byte: a text, the comma, the three marks. *)
IsText(c) == c.t \notin {",", "*", "\r", "$"}

Star == Mark("*")

Return == Mark("\r")

Dollar == Mark("$")

LEMMA MarksAre ==
  /\ Star \in Chars /\ EndsTerm(Star) /\ Star.bits = {}
  /\ Return \in Chars /\ EndsTerm(Return) /\ Return.bits = {}
  /\ Dollar \in Chars
<1>1. \A t \in {"*", "\r", "$"} : Mark(t) \in Chars /\ Mark(t).t = t /\ Mark(t).bits = {}
  BY BytesAreChars DEF Marks
<1> QED
  BY <1>1 DEF EndsTerm, Star, Return, Dollar

LEMMA TextsAre ==
  ASSUME NEW t \in DOMAIN Code
  PROVE  /\ Byte(t) \in Chars /\ (IsText(Byte(t)) \/ EndsTerm(Byte(t)))
         /\ t # "," => IsText(Byte(t))
         /\ t = "," => EndsTerm(Byte(t))
<1>1. Byte(t) \in Chars /\ Byte(t).t = t
  BY BytesAreChars
<1>2. t \notin {"*", "\r", "$"}
  BY TinyGpsAssumption
<1> QED
  BY <1>1, <1>2 DEF IsText, EndsTerm

(* A text joins the term and says nothing. *)
IsLonger(h, v, g, c) ==
  /\ g.term = <<>> => h.term = <<c>>
  /\ h.parity = IF g.is_checksum_term THEN g.parity ELSE SymDiff(g.parity, c.bits)
  /\ h.is_checksum_term = g.is_checksum_term /\ h.term_number = g.term_number
  /\ h.sentence_type = g.sentence_type /\ h.data_good = g.data_good
  /\ v = FALSE
  /\ \A s : Right(g, s) => Right(h, s)

LEMMA TextJoins ==
  ASSUME NEW g \in TinyFields, NEW c \in Chars, IsText(c), NEW o \in Outcomes(g, c)
  PROVE  IsLonger(o[1], o[2], g, c)
<1>1. o = <<Extend(g, c), FALSE>>
  BY DEF Outcomes, IsText
<1>2. o[1] = Extend(g, c) /\ o[2] = FALSE
  BY <1>1
<1> QED
  BY <1>2, ExtendIs DEF Right, IsLonger

LEMMA EndsAre ==
  ASSUME NEW g \in TinyFields, NEW c \in Chars, EndsTerm(c), NEW o \in Outcomes(g, c)
  PROVE  /\ o[1].parity = SymDiff(g.parity, c.bits) /\ o[1].term = <<>>
         /\ ~g.is_checksum_term => Heeds(o[1], g) /\ IsEnded(o[1], g, c) /\ o[2] = FALSE
         /\ g.is_checksum_term => IsChecked(o[1], o[2], g, c)
<1>1. c.t \in {",", "*", "\r"}
  BY DEF EndsTerm
<1>2. ~g.is_checksum_term => Heeds(o[1], g) /\ IsEnded(o[1], g, c) /\ o[2] = FALSE
  BY <1>1, EndHeeds, OrdinaryEnd
<1>3. g.is_checksum_term => IsChecked(o[1], o[2], g, c)
  BY <1>1, ChecksumEnd
<1>4. g.is_checksum_term \in BOOLEAN
  BY DEF TinyFields
<1> QED
  BY <1>2, <1>3, <1>4 DEF IsEnded, IsChecked

LEMMA ChecksumAfter ==
  /\ \A h, g, v : /\ IsEnded(h, g, Star) \/ IsChecked(h, v, g, Star) => h.is_checksum_term
                  /\ IsEnded(h, g, Return) \/ IsChecked(h, v, g, Return) => ~h.is_checksum_term
                  /\ \A t \in DOMAIN Code : IsEnded(h, g, Byte(t)) \/ IsChecked(h, v, g, Byte(t))
                                              => ~h.is_checksum_term
<1>1. Star.t = "*" /\ Return.t = "\r"
  BY BytesAreChars DEF Marks, Star, Return
<1>2. \A t \in DOMAIN Code : Byte(t).t # "*"
  BY BytesAreChars, TinyGpsAssumption
<1> QED
  BY <1>1, <1>2 DEF IsEnded, IsChecked

LEMMA DollarBegins ==
  ASSUME NEW g \in TinyFields, NEW o \in Outcomes(g, Dollar)
  PROVE  /\ o[1].parity = {} /\ o[1].term = <<>> /\ o[1].term_number = 0
         /\ ~o[1].is_checksum_term /\ ~o[1].data_good /\ o[2] = FALSE
<1>1. Dollar.t = "$"
  BY BytesAreChars DEF Marks, Dollar
<1>2. o = <<BeginSentence(g), FALSE>>
  BY <1>1 DEF Outcomes
<1>3. o[1] = BeginSentence(g) /\ o[2] = FALSE
  BY <1>2
<1> QED
  BY <1>3, BeginIs

(* The bytes that the line may bring instead of another. *)
Spoilt(t) == IF t \in Marks THEN Mark(t) ELSE Byte(t)

LEMMA SpoiltIs ==
  ASSUME NEW t \in DOMAIN Code \cup Marks
  PROVE  /\ Spoilt(t) \in Chars
         /\ \/ t \in DOMAIN Code /\ Spoilt(t) = Byte(t)
            \/ Spoilt(t) = Return
            \/ Spoilt(t) = Dollar
            \/ Spoilt(t) = Star /\ t = "*"
<1>1. CASE t \in Marks
  <2>1. t = "$" \/ t = "*" \/ t = "\r"
    BY <1>1 DEF Marks
  <2>2. Spoilt(t) = Mark(t)
    BY <1>1 DEF Spoilt
  <2> QED BY <2>1, <2>2, MarksAre DEF Star, Return, Dollar
<1>2. CASE t \notin Marks
  BY <1>2, TextsAre DEF Spoilt
<1> QED
  BY <1>1, <1>2

(* Outside a checksum term a text or a comma shows in the parity and reports nothing. *)
LEMMA ByteAbsorbed ==
  ASSUME NEW g \in TinyFields, ~g.is_checksum_term, NEW t \in DOMAIN Code,
         NEW o \in Outcomes(g, Byte(t))
  PROVE  /\ o[1].parity = SymDiff(g.parity, Byte(t).bits) /\ ~o[1].is_checksum_term
         /\ o[2] = FALSE
<1> DEFINE c == Byte(t)
<1>1. c \in Chars /\ (IsText(c) \/ EndsTerm(c))
  BY TextsAre
<1>2. CASE IsText(c)
  <2> HIDE DEF c
  <2>1. o \in Outcomes(g, c)
    BY DEF c
  <2>2. o[1].parity = SymDiff(g.parity, c.bits) /\ ~o[1].is_checksum_term /\ o[2] = FALSE
    <3>1. IsLonger(o[1], o[2], g, c)
      BY <1>1, <1>2, <2>1, TextJoins
    <3> QED BY <3>1 DEF IsLonger
  <2> QED BY <2>2 DEF c
<1>3. CASE EndsTerm(c)
  <2>1. o[1].parity = SymDiff(g.parity, c.bits) /\ IsEnded(o[1], g, c) /\ o[2] = FALSE
    BY <1>1, <1>3, EndsAre
  <2> QED BY <2>1, ChecksumAfter
<1> QED
  BY <1>1, <1>2, <1>3

LEMMA Quiet ==
  ASSUME NEW g \in TinyFields, ~g.is_checksum_term, NEW t \in DOMAIN Code \cup Marks,
         NEW o \in Outcomes(g, Spoilt(t))
  PROVE  o[2] = FALSE /\ (Spoilt(t) # Star => ~o[1].is_checksum_term)
<1>1. CASE t \in DOMAIN Code /\ Spoilt(t) = Byte(t)
  <2>1. o \in Outcomes(g, Byte(t))
    BY <1>1
  <2> QED BY <1>1, <2>1, ByteAbsorbed
<1>2. CASE Spoilt(t) = Dollar
  <2>1. o \in Outcomes(g, Dollar)
    BY <1>2
  <2> QED BY <2>1, DollarBegins
<1>3. CASE Spoilt(t) = Return
  <2>1. o \in Outcomes(g, Return)
    BY <1>3
  <2>2. IsEnded(o[1], g, Return) /\ o[2] = FALSE
    BY <2>1, MarksAre, EndsAre
  <2> QED BY <2>2, ChecksumAfter
<1>4. CASE Spoilt(t) = Star
  <2>1. o \in Outcomes(g, Star)
    BY <1>4
  <2> QED BY <1>4, <2>1, MarksAre, EndsAre
<1> QED
  BY <1>1, <1>2, <1>3, <1>4, SpoiltIs

LEMMA KeepsRight ==
  ASSUME NEW g \in TinyFields, g.is_checksum_term, NEW s, Right(g, s),
         NEW t \in DOMAIN Code \cup Marks, NEW o \in Outcomes(g, Spoilt(t))
  PROVE  /\ TellsRight(o[1], o[2], s)
         /\ ~o[1].is_checksum_term \/ Right(o[1], s)
<1> DEFINE c == Spoilt(t)
<1>1. c \in Chars /\ (IsText(c) \/ EndsTerm(c) \/ c = Dollar)
  BY SpoiltIs, TextsAre, MarksAre
<1> HIDE DEF c
<1>2. o \in Outcomes(g, c)
  BY DEF c
<1>3. CASE IsText(c)
  <2>1. o[2] = FALSE /\ Right(o[1], s)
    <3>1. IsLonger(o[1], o[2], g, c)
      BY <1>1, <1>2, <1>3, TextJoins
    <3> QED BY <3>1 DEF IsLonger
  <2> QED BY <2>1 DEF TellsRight
<1>4. CASE EndsTerm(c)
  <2>1. IsChecked(o[1], o[2], g, c)
    BY <1>1, <1>2, <1>4, EndsAre
  <2> QED BY <2>1 DEF IsChecked
<1>5. CASE c = Dollar
  BY <1>2, <1>5, DollarBegins DEF TellsRight
<1> QED
  BY <1>1, <1>3, <1>4, <1>5

-----------------------------------------------------------------------------
(* The damage, in the body: the parity is off, or what came was a "*" or a "$". *)
Strays(g, s, j) == Off(g, s, j) \/ Starred(g, s, j) \/ Mute(g, s, j)

LEMMA BodyByte ==
  ASSUME NEW s \in Sentence, NEW j \in 1 .. 19
  PROVE  \E u \in DOMAIN Code : Body(s)[j] = Byte(u)
<1>1. CASE j % 2 = 1
  BY <1>1, BodyTexts
<1>2. CASE ~(j % 2 = 1)
  BY <1>2, BodyCommas, TinyGpsAssumption
<1> QED
  BY <1>1, <1>2

LEMMA OddChanges ==
  ASSUME NEW s \in Sentence, NEW j \in 0 .. 18
  PROVE  /\ Body(s)[j + 1].bits # {} => Odd(s, j + 1) # Odd(s, j)
         /\ \A S : S # Body(s)[j + 1].bits => SymDiff(Odd(s, j), S) # Odd(s, j + 1)
         /\ j <= 17 /\ Body(s)[j + 1].bits # Body(s)[j + 2].bits => Odd(s, j + 2) # Odd(s, j)
<1>1. Odd(s, j + 1) = SymDiff(Odd(s, j), Body(s)[j + 1].bits)
  BY OddNext
<1>2. Body(s)[j + 1].bits # {} => Odd(s, j + 1) # Odd(s, j)
  BY <1>1, XorFacts
<1>3. \A S : S # Body(s)[j + 1].bits => SymDiff(Odd(s, j), S) # Odd(s, j + 1)
  BY <1>1, XorFacts
<1>4. ASSUME j <= 17, Body(s)[j + 1].bits # Body(s)[j + 2].bits
      PROVE  Odd(s, j + 2) # Odd(s, j)
  <2>1. j + 1 \in 0 .. 18 /\ (j + 1) + 1 = j + 2
    BY <1>4
  <2>2. Odd(s, (j + 1) + 1) = SymDiff(Odd(s, j + 1), Body(s)[(j + 1) + 1].bits)
    BY <2>1, OddNext
  <2>3. Odd(s, j + 2)
          = SymDiff(SymDiff(Odd(s, j), Body(s)[j + 1].bits), Body(s)[j + 2].bits)
    BY <1>1, <2>1, <2>2
  <2> QED BY <1>4, <2>3, XorFacts
<1> QED
  BY <1>2, <1>3, <1>4

(* A byte that the line brings for another shows in the parity, or hides there what
   does not cancel. *)
IsStar(t) == t = "*"

Shows(t, head, next) ==
  IF IsStar(t) THEN ~Cancels(head, next) ELSE t = "$" \/ Spoilt(t).bits # head.bits

LEMMA StarKeepsRight ==
  ASSUME NEW g \in TinyFields, NEW s \in Sentence, NEW j \in 0 .. 18,
         InBody(g, s, j), Truthful(g, s, j), NEW o \in Outcomes(g, Star)
  PROVE  Right(o[1], s)
<1>1. CASE j % 2 = 1
  <2>1. j \in 1 .. 19
    BY <1>1
  <2> QED BY <1>1, <2>1, MarksAre, TruthfulEnd DEF Truthful
<1>2. CASE ~(j % 2 = 1)
  <2>1. g.term = <<>> /\ ~g.is_checksum_term /\ g.term_number = j \div 2
    BY <1>2 DEF InBody
  <2>2. IsEnded(o[1], g, Star) /\ Heeds(o[1], g)
    BY <2>1, MarksAre, EndsAre
  <2>3. o[1].new = g.new /\ o[1].data_good = g.data_good
    BY <2>1, <2>2 DEF Heeds
  <2>4. CASE j = 0
    <3>1. ~g.data_good
      <4>1. 0 <= 2 * Judged(s.type) + 1
        BY JudgedIs
      <4> QED BY <2>4, <4>1 DEF Truthful
    <3> QED BY <2>3, <3>1 DEF Right
  <2>5. CASE j # 0
    <3>1. g.term_number # 0
      BY <1>2, <2>1, <2>5
    <3>2. o[1].sentence_type = g.sentence_type
      BY <2>2, <3>1 DEF IsEnded
    <3> QED BY <2>3, <3>2 DEF Truthful, Right
  <2> QED BY <2>4, <2>5
<1> QED
  BY <1>1, <1>2

LEMMA PlainShows ==
  ASSUME NEW t \in DOMAIN Code \cup Marks, NEW head, NEW next, Shows(t, head, next),
         (t \in DOMAIN Code /\ Spoilt(t) = Byte(t)) \/ Spoilt(t) = Return
  PROVE  Spoilt(t).bits # head.bits
<1>1. t # "*" /\ t # "$"
  <2>1. CASE Spoilt(t) = Return
    <3>1. Spoilt(t).t = "\r"
      BY <2>1, BytesAreChars DEF Return, Marks
    <3>2. t \in Marks => Spoilt(t).t = t
      BY BytesAreChars DEF Spoilt
    <3> QED BY <3>1, <3>2 DEF Marks
  <2>2. CASE t \in DOMAIN Code
    BY <2>2, TinyGpsAssumption
  <2> QED BY <2>1, <2>2
<1> QED
  BY <1>1 DEF Shows, IsStar

LEMMA StarShows ==
  ASSUME NEW t \in DOMAIN Code \cup Marks, NEW head, NEW next, Shows(t, head, next),
         Spoilt(t) = Star
  PROVE  ~Cancels(head, next)
<1>1. Star.t = "*"
  BY BytesAreChars DEF Star, Marks
<1>2. Spoilt(t).t = t
  BY BytesAreChars DEF Spoilt
<1> QED
  BY <1>1, <1>2 DEF Shows, IsStar

LEMMA NameShows ==
  ASSUME NEW s \in Sentence
  PROVE  Body(s)[0 + 1].bits # {}
<1>1. Body(s)[1] = Byte(s.type) /\ s.type \in {"GPRMC", "GPGGA"}
  BY BodyIs DEF IsBody, Sentence
<1>2. Code["GPRMC"] # {} /\ Code["GPGGA"] # {}
  BY TinyGpsAssumption
<1>3. Byte(s.type).bits # {}
  BY <1>1, <1>2 DEF Byte
<1>4. 0 + 1 = 1
  OBVIOUS
<1> QED
  BY <1>1, <1>3, <1>4

LEMMA BodyGarbled ==
  ASSUME NEW g \in TinyFields, NEW s \in Sentence, NEW j \in 0 .. 18,
         InBody(g, s, j), Truthful(g, s, j),
         NEW t \in DOMAIN Code \cup Marks, NEW next, j <= 17 => next = Body(s)[j + 2],
         Shows(t, Body(s)[j + 1], next), NEW o \in Outcomes(g, Spoilt(t))
  PROVE  Strays(o[1], s, j + 1)
<1>1. ~g.is_checksum_term /\ g.parity = Odd(s, j)
  BY DEF InBody
<1>2. CASE t \in DOMAIN Code /\ Spoilt(t) = Byte(t)
  <2>1. o \in Outcomes(g, Byte(t)) /\ Byte(t).bits # Body(s)[j + 1].bits
    BY <1>2, PlainShows
  <2>2. o[1].parity = SymDiff(Odd(s, j), Byte(t).bits) /\ ~o[1].is_checksum_term
    BY <1>1, <1>2, <2>1, ByteAbsorbed
  <2> QED BY <2>1, <2>2, OddChanges DEF Strays, Off
<1>3. CASE Spoilt(t) = Return
  <2>1. o \in Outcomes(g, Return)
    BY <1>3
  <2>2. o[1].parity = SymDiff(Odd(s, j), {}) /\ IsEnded(o[1], g, Return)
    BY <1>1, <2>1, MarksAre, EndsAre
  <2>3. ~o[1].is_checksum_term
    BY <2>2, ChecksumAfter
  <2>4. Body(s)[j + 1].bits # {}
    BY <1>3, PlainShows, MarksAre
  <2> QED BY <2>2, <2>3, <2>4, OddChanges DEF Strays, Off
<1>4. CASE Spoilt(t) = Dollar
  <2>1. o \in Outcomes(g, Dollar)
    BY <1>4
  <2>2. /\ o[1].parity = {} /\ o[1].term = <<>> /\ o[1].term_number = 0
        /\ ~o[1].is_checksum_term /\ ~o[1].data_good
    BY <2>1, DollarBegins
  <2>3. CASE j = 0
    <3>1. o[1].parity = Odd(s, 0)
      BY <2>2, OddNone
    <3>2. Body(s)[j + 1].bits # {}
      BY <2>3, NameShows
    <3> QED BY <2>2, <2>3, <3>1, <3>2, OddChanges DEF Strays, Off
  <2>4. CASE j # 0
    <3>1. 2 <= j + 1 /\ 0 <= (j + 1) \div 2 - 1
      BY <2>4
    <3> QED BY <2>2, <3>1 DEF Strays, Mute
  <2> QED BY <2>3, <2>4
<1>5. CASE Spoilt(t) = Star
  <2>1. o \in Outcomes(g, Star)
    BY <1>5
  <2>2. o[1].parity = SymDiff(Odd(s, j), {}) /\ IsEnded(o[1], g, Star)
    BY <1>1, <2>1, MarksAre, EndsAre
  <2>3. o[1].is_checksum_term /\ o[1].parity = Odd(s, j)
    BY <2>2, ChecksumAfter, XorFacts
  <2>4. Right(o[1], s)
    BY <2>1, StarKeepsRight
  <2>5. Odd(s, j) # Odd(s, IF (j + 1) % 2 = 1 THEN j + 1 ELSE (j + 1) + 1)
    <3>1. ~Cancels(Body(s)[j + 1], next)
      BY <1>5, StarShows
    <3>2. CASE (j + 1) % 2 = 1
      <4>1. j + 1 \in 1 .. 19
        OBVIOUS
      <4>2. Body(s)[j + 1].t # ","
        <5>1. PICK u \in DOMAIN Code \ {","} : Body(s)[j + 1] = Byte(u)
          BY <3>2, <4>1, BodyTexts
        <5> QED BY <5>1, BytesAreChars
      <4>3. Body(s)[j + 1].bits # {}
        BY <3>1, <4>2 DEF Cancels
      <4>4. Odd(s, j + 1) # Odd(s, j)
        BY <4>3, OddChanges
      <4> QED BY <3>2, <4>4
    <3>3. CASE ~((j + 1) % 2 = 1)
      <4>1. j <= 17 /\ (j + 1) + 1 = j + 2 /\ j + 1 \in 1 .. 19
        BY <3>3
      <4>2. Body(s)[j + 1].t = ","
        <5>1. Body(s)[j + 1] = Byte(",") /\ "," \in DOMAIN Code
          BY <3>3, <4>1, BodyCommas, TinyGpsAssumption
        <5> QED BY <5>1, BytesAreChars
      <4>3. Body(s)[j + 1].bits # Body(s)[j + 2].bits
        BY <3>1, <4>1, <4>2 DEF Cancels
      <4>4. Odd(s, j + 2) # Odd(s, j)
        BY <4>1, <4>3, OddChanges
      <4> QED BY <3>3, <4>1, <4>4
    <3> QED BY <3>2, <3>3
  <2> QED BY <2>3, <2>4, <2>5 DEF Strays, Starred
<1> QED
  BY <1>2, <1>3, <1>4, <1>5, SpoiltIs

LEMMA BodyLost ==
  ASSUME NEW g, NEW s \in Sentence, NEW j \in 0 .. 18, InBody(g, s, j),
         Body(s)[j + 1].bits # {}
  PROVE  Strays(g, s, j + 1)
<1> QED
  BY OddChanges DEF InBody, Strays, Off

-----------------------------------------------------------------------------
(* What comes after the damage, in the body. *)
LEMMA OffStep ==
  ASSUME NEW g \in TinyFields, NEW s \in Sentence, NEW j \in 1 .. 18, Off(g, s, j),
         NEW o \in Outcomes(g, Body(s)[j + 1])
  PROVE  Off(o[1], s, j + 1) /\ o[2] = FALSE
<1>1. PICK u \in DOMAIN Code : Body(s)[j + 1] = Byte(u)
  <2>1. j + 1 \in 1 .. 19
    OBVIOUS
  <2> QED BY <2>1, BodyByte
<1>2. /\ o[1].parity = SymDiff(g.parity, Byte(u).bits) /\ ~o[1].is_checksum_term
      /\ o[2] = FALSE
  BY <1>1, ByteAbsorbed DEF Off
<1>3. Odd(s, j + 1) = SymDiff(Odd(s, j), Byte(u).bits)
  <2>1. j \in 0 .. 18
    OBVIOUS
  <2> QED BY <1>1, <2>1, OddNext
<1>4. g.parity # Odd(s, j)
  BY DEF Off
<1> QED
  BY <1>2, <1>3, <1>4, XorKeeps DEF Off

LEMMA StarredStep ==
  ASSUME NEW g \in TinyFields, NEW s \in Sentence, NEW j \in 1 .. 18, Starred(g, s, j),
         NEW o \in Outcomes(g, Body(s)[j + 1])
  PROVE  Strays(o[1], s, j + 1) /\ TellsRight(o[1], o[2], s)
<1>1. j + 1 \in 1 .. 19 /\ (j % 2 = 1 <=> ~((j + 1) % 2 = 1)) /\ j \in 0 .. 18
  OBVIOUS
<1>2. g.is_checksum_term /\ Right(g, s)
  BY DEF Starred
<1>3. CASE j % 2 = 1
  <2>1. Body(s)[j + 1] = Byte(",") /\ "," \in DOMAIN Code
    BY <1>1, <1>3, BodyCommas, TinyGpsAssumption
  <2>2. EndsTerm(Byte(",")) /\ Byte(",") \in Chars
    BY <2>1, TextsAre
  <2>3. /\ o[1].parity = SymDiff(g.parity, Byte(",").bits)
        /\ IsChecked(o[1], o[2], g, Byte(","))
    BY <1>2, <2>1, <2>2, EndsAre
  <2>4. ~o[1].is_checksum_term
    BY <2>1, <2>3, ChecksumAfter
  <2>5. TellsRight(o[1], o[2], s)
    BY <1>2, <2>3 DEF IsChecked
  <2>6. Odd(s, j + 1) = SymDiff(Odd(s, j), Byte(",").bits) /\ g.parity # Odd(s, j)
    BY <1>1, <1>3, <2>1, OddNext DEF Starred
  <2>7. SymDiff(g.parity, Byte(",").bits) # SymDiff(Odd(s, j), Byte(",").bits)
    BY <2>6, XorKeeps
  <2>8. Off(o[1], s, j + 1)
    BY <2>3, <2>4, <2>6, <2>7 DEF Off
  <2> QED BY <2>5, <2>8 DEF Strays
<1>4. CASE ~(j % 2 = 1)
  <2>1. PICK u \in DOMAIN Code \ {","} : Body(s)[j + 1] = Byte(u)
    BY <1>1, <1>4, BodyTexts
  <2>2. IsText(Byte(u)) /\ Byte(u) \in Chars
    BY TextsAre
  <2>3. IsLonger(o[1], o[2], g, Byte(u))
    BY <2>1, <2>2, TextJoins
  <2>4. /\ o[1].parity = g.parity /\ o[1].is_checksum_term /\ o[2] = FALSE
        /\ Right(o[1], s)
    BY <1>2, <2>3 DEF IsLonger
  <2>5. g.parity # Odd(s, j + 1)
    BY <1>4 DEF Starred
  <2> QED BY <1>1, <1>4, <2>4, <2>5 DEF Strays, Starred, TellsRight
<1> QED
  BY <1>3, <1>4

LEMMA NoSuchName ==
  ASSUME NEW s \in Sentence, NEW j \in 3 .. 19, j % 2 = 1
  PROVE  TypeOf(<<>>) # "GPGGA" /\ TypeOf(<<Body(s)[j]>>) # "GPGGA"
<1>1. TypeOf(<<>>) = "GPRMC"
  BY DEF TypeOf
<1>2. PICK t \in DOMAIN Code : Body(s)[j] = Byte(t) /\ t # "GPGGA"
  BY LaterTexts
<1>3. Byte(t) # Byte("GPGGA")
  BY <1>2 DEF Byte
<1>4. <<Byte(t)>> # <<Byte("GPGGA")>>
  <2> DEFINE b == Byte(t)
             d == Byte("GPGGA")
  <2> HIDE DEF b, d
  <2>1. b # d
    BY <1>3 DEF b, d
  <2>2. <<b>>[1] = b /\ <<d>>[1] = d
    OBVIOUS
  <2>3. <<b>> # <<d>>
    BY <2>1, <2>2
  <2> QED BY <2>3 DEF b, d
<1>5. TypeOf(<<Byte(t)>>) # "GPGGA"
  BY <1>4 DEF TypeOf
<1> QED
  BY <1>1, <1>2, <1>5

(* The end of a term after a "$" in the wrong place: the verdict needs "A" as the
   second field, which is past by then. *)
LEMMA MuteEnd ==
  ASSUME NEW g \in TinyFields, NEW s \in Sentence, NEW j \in 3 .. 19, j % 2 = 1,
         Mute(g, s, j), NEW c \in Chars, EndsTerm(c), NEW o \in Outcomes(g, c)
  PROVE  /\ ~o[1].data_good /\ o[1].term = <<>> /\ o[2] = FALSE
         /\ o[1].term_number = g.term_number + 1 /\ o[1].sentence_type # "GPGGA"
<1> DEFINE h == o[1]
           n == g.term_number
<1>1. /\ ~g.is_checksum_term /\ ~g.data_good /\ n <= j \div 2 - 1
      /\ g.term = <<>> \/ g.term = <<Body(s)[j]>>
      /\ n # 0 => g.sentence_type # "GPGGA"
  BY DEF Mute
<1>2. Heeds(h, g) /\ IsEnded(h, g, c) /\ o[2] = FALSE /\ h.term = <<>>
  BY <1>1, EndsAre
<1>3. n \in 0 .. 8 /\ (n = 2 => 7 <= j)
  <2>1. n \in 0 .. 255
    BY DEF TinyFields
  <2> HIDE DEF n
  <2>2. n <= j \div 2 - 1
    BY <1>1
  <2> QED BY <2>1, <2>2
<1>4. Body(s)[j] \in Chars
  <2>1. j \in 1 .. 19
    OBVIOUS
  <2> QED BY <2>1, BodyIs DEF IsBody
<1>5. h.term_number = n + 1
  <2>1. h.term_number = (n + 1) % 256
    BY <1>2 DEF IsEnded
  <2> HIDE DEF n, h
  <2>2. (n + 1) % 256 = n + 1
    BY <1>3
  <2> QED BY <2>1, <2>2
<1>6. h.sentence_type # "GPGGA"
  <2>1. CASE n = 0
    <3>1. h.sentence_type = TypeOf(g.term)
      BY <1>2, <2>1 DEF IsEnded
    <3> QED BY <1>1, <3>1, NoSuchName
  <2>2. CASE n # 0
    <3>1. h.sentence_type = g.sentence_type
      BY <1>2, <2>2 DEF IsEnded
    <3> QED BY <1>1, <2>2, <3>1
  <2> QED BY <2>1, <2>2
<1>7. ~h.data_good
  <2>1. CASE n = 0 \/ g.term = <<>> \/ g.sentence_type = "Other"
    <3>1. n < 10
      BY <1>3
    <3>2. h.data_good = g.data_good
      BY <1>2, <2>1, <3>1 DEF Heeds
    <3> QED BY <1>1, <3>2
  <2>2. CASE n # 0 /\ g.term # <<>> /\ g.sentence_type # "Other"
    <3>1. g.sentence_type = "GPRMC"
      <4>1. g.sentence_type \in Types
        BY DEF TinyFields
      <4> QED BY <1>1, <2>2, <4>1 DEF Types
    <3>2. n \in 1 .. 9
      BY <1>3, <2>2
    <3>3. Known(g) /\ Judged(g.sentence_type) = 2
      BY <3>1, <3>2 DEF Known, Judged
    <3>4. CASE n = 2
      <4>1. g.term = <<Body(s)[j]>> /\ g.term[1] = Body(s)[j]
        BY <1>1, <1>4, <2>2, OneByteTerm
      <4>2. PICK t \in DOMAIN Code : Body(s)[j] = Byte(t) /\ t # "A"
        BY <1>3, <3>4, LaterTexts
      <4>3. Body(s)[j].t # "A"
        BY <4>2, BytesAreChars
      <4>4. h.data_good <=> Verdict(g.sentence_type, g.term[1].t)
        BY <1>2, <2>2, <3>3, <3>4 DEF Heeds
      <4> QED BY <3>1, <4>1, <4>3, <4>4 DEF Verdict
    <3>5. CASE n # 2
      <4>1. h.data_good = g.data_good
        BY <1>2, <2>2, <3>3, <3>5 DEF Heeds
      <4> QED BY <1>1, <4>1
    <3> QED BY <3>4, <3>5
  <2> QED BY <2>1, <2>2
<1> QED
  BY <1>2, <1>5, <1>6, <1>7

LEMMA MuteStep ==
  ASSUME NEW g \in TinyFields, NEW s \in Sentence, NEW j \in 1 .. 18, Mute(g, s, j),
         NEW o \in Outcomes(g, Body(s)[j + 1])
  PROVE  Mute(o[1], s, j + 1) /\ o[2] = FALSE
<1>1. /\ ~g.is_checksum_term /\ ~g.data_good
      /\ 2 <= j /\ g.term_number <= j \div 2 - 1
      /\ g.term = <<>> \/ (j % 2 = 1 /\ g.term = <<Body(s)[j]>>)
      /\ g.term_number # 0 => g.sentence_type # "GPGGA"
  BY DEF Mute
<1>2. j + 1 \in 1 .. 19 /\ 2 <= j + 1
  OBVIOUS
<1>3. CASE j % 2 = 1
  <2>1. j \in 3 .. 19 /\ ~((j + 1) % 2 = 1) /\ (j + 1) \div 2 = j \div 2 + 1
    BY <1>1, <1>3
  <2>2. Body(s)[j + 1] = Byte(",") /\ "," \in DOMAIN Code
    BY <1>2, <2>1, BodyCommas, TinyGpsAssumption
  <2>3. EndsTerm(Byte(",")) /\ Byte(",") \in Chars
    BY <2>2, TextsAre
  <2>4. /\ ~o[1].data_good /\ o[1].term = <<>> /\ o[2] = FALSE
        /\ o[1].term_number = g.term_number + 1 /\ o[1].sentence_type # "GPGGA"
    BY <1>3, <2>1, <2>2, <2>3, MuteEnd
  <2>5. ~o[1].is_checksum_term
    BY <1>1, <2>2, ByteAbsorbed
  <2>6. o[1].term_number <= (j + 1) \div 2 - 1
    <3>1. g.term_number \in Nat
      BY DEF TinyFields
    <3> QED BY <1>1, <2>1, <2>4, <3>1
  <2> QED BY <1>2, <2>4, <2>5, <2>6 DEF Mute
<1>4. CASE ~(j % 2 = 1)
  <2>1. (j + 1) % 2 = 1 /\ (j + 1) \div 2 = j \div 2
    BY <1>4
  <2>2. PICK u \in DOMAIN Code \ {","} : Body(s)[j + 1] = Byte(u)
    BY <1>2, <2>1, BodyTexts
  <2>3. IsText(Byte(u)) /\ Byte(u) \in Chars
    BY TextsAre
  <2>4. IsLonger(o[1], o[2], g, Byte(u))
    BY <2>2, <2>3, TextJoins
  <2>5. /\ o[1].term = <<Body(s)[j + 1]>> /\ o[2] = FALSE
        /\ ~o[1].is_checksum_term /\ ~o[1].data_good
        /\ o[1].term_number = g.term_number /\ o[1].sentence_type = g.sentence_type
    BY <1>1, <1>4, <2>2, <2>4 DEF IsLonger
  <2>6. o[1].term_number <= (j + 1) \div 2 - 1
    BY <1>1, <2>1, <2>5
  <2> QED BY <1>1, <1>2, <2>1, <2>5, <2>6 DEF Mute
<1> QED
  BY <1>3, <1>4

LEMMA StraysOn ==
  ASSUME NEW g \in TinyFields, NEW s \in Sentence, NEW j \in 1 .. 18, Strays(g, s, j),
         NEW o \in Outcomes(g, Body(s)[j + 1])
  PROVE  Strays(o[1], s, j + 1) /\ TellsRight(o[1], o[2], s)
<1>1. CASE Off(g, s, j)
  BY <1>1, OffStep DEF Strays, TellsRight
<1>2. CASE Starred(g, s, j)
  BY <1>2, StarredStep
<1>3. CASE Mute(g, s, j)
  BY <1>3, MuteStep DEF Strays, TellsRight
<1> QED
  BY <1>1, <1>2, <1>3 DEF Strays

LEMMA StraysEnd ==
  ASSUME NEW g \in TinyFields, NEW s \in Sentence, Strays(g, s, 19),
         NEW o \in Outcomes(g, Star)
  PROVE  Ended(o[1], s, 21) /\ TellsRight(o[1], o[2], s)
<1>1. o[1].parity = SymDiff(g.parity, {}) /\ o[1].term = <<>>
  BY MarksAre, EndsAre
<1>2. o[1].parity = g.parity
  BY <1>1, XorFacts
<1>3. CASE Off(g, s, 19)
  <2>1. o[2] = FALSE
    BY <1>3, MarksAre, EndsAre DEF Off
  <2>2. 21 < 23
    OBVIOUS
  <2> QED BY <1>1, <1>2, <1>3, <2>1, <2>2 DEF Off, Ended, Mismatch, TellsRight
<1>4. CASE Starred(g, s, 19)
  <2>1. IsChecked(o[1], o[2], g, Star) /\ Right(g, s)
    BY <1>4, MarksAre, EndsAre DEF Starred
  <2> QED BY <2>1 DEF IsChecked, Ended
<1>5. CASE Mute(g, s, 19)
  <2>1. 19 \in 3 .. 19 /\ 19 % 2 = 1
    OBVIOUS
  <2>2. ~o[1].data_good /\ o[2] = FALSE
    BY <1>5, <2>1, MarksAre, MuteEnd
  <2> QED BY <2>2 DEF Right, Ended, TellsRight
<1> QED
  BY <1>3, <1>4, <1>5 DEF Strays

-----------------------------------------------------------------------------
(* The bytes after the "*", and the whole line. *)
LEMMA SumIs ==
  ASSUME NEW s \in Sentence
  PROVE  LET d == Digits(Odd(s, 19))
         IN d \in Chars /\ IsText(d) /\ Checksums(<<d>>) = {Odd(s, 19)}
<1> DEFINE d == Digits(Odd(s, 19))
<1>1. d \in Chars /\ d.t = "sum" /\ d.bits = Odd(s, 19)
  <2>1. Odd(s, 19) \in SUBSET Bits
    BY DEF Odd
  <2> QED BY <2>1, BytesAreChars
<1> HIDE DEF d
<1>2. IsText(d)
  BY <1>1 DEF IsText
<1>3. <<d>> # <<>> /\ <<d>>[1] = d
  BY <1>1, OneByteTerm
<1>4. Checksums(<<d>>) = {Odd(s, 19)}
  BY <1>1, <1>3 DEF Checksums
<1> QED
  BY <1>1, <1>2, <1>4 DEF d

LEMMA AfterSum ==
  ASSUME NEW g \in TinyFields, NEW s \in Sentence, Ended(g, s, 21),
         NEW o \in Outcomes(g, Digits(Odd(s, 19)))
  PROVE  Ended(o[1], s, 22) /\ TellsRight(o[1], o[2], s)
<1> DEFINE d == Digits(Odd(s, 19))
<1>1. d \in Chars /\ IsText(d)
  BY SumIs
<1>2. IsLonger(o[1], o[2], g, d)
  BY <1>1, TextJoins
<1>3. ~g.is_checksum_term \/ Right(g, s) \/ Mismatch(g, s, 21)
  BY DEF Ended
<1>4. o[2] = FALSE /\ o[1].is_checksum_term = g.is_checksum_term
      /\ (Right(g, s) => Right(o[1], s))
  BY <1>2 DEF IsLonger
<1>5. ASSUME g.is_checksum_term, Mismatch(g, s, 21)
      PROVE  Mismatch(o[1], s, 22)
  <2>1. g.parity # Odd(s, 19) /\ g.term = <<>>
    BY <1>5 DEF Mismatch
  <2>2. o[1].parity = g.parity /\ o[1].term = <<d>>
    BY <1>2, <1>5, <2>1 DEF IsLonger
  <2>3. 22 < 23 /\ 22 # 21
    OBVIOUS
  <2> QED BY <2>1, <2>2, <2>3 DEF Mismatch
<1> QED
  BY <1>3, <1>4, <1>5 DEF Ended, TellsRight

LEMMA AfterReturn ==
  ASSUME NEW g \in TinyFields, NEW s \in Sentence, NEW k \in {22, 23}, Ended(g, s, k),
         NEW o \in Outcomes(g, Return)
  PROVE  Ended(o[1], s, k + 1) /\ TellsRight(o[1], o[2], s)
<1>1. ~o[1].is_checksum_term
  BY MarksAre, EndsAre, ChecksumAfter
<1>2. CASE ~g.is_checksum_term
  BY <1>1, <1>2, MarksAre, EndsAre DEF Ended, TellsRight
<1>3. CASE g.is_checksum_term
  <2>1. IsChecked(o[1], o[2], g, Return)
    BY <1>3, MarksAre, EndsAre
  <2>2. Right(g, s) \/ Mismatch(g, s, k)
    BY <1>3 DEF Ended
  <2>3. CASE Right(g, s)
    BY <1>1, <2>1, <2>3 DEF IsChecked, Ended
  <2>4. CASE Mismatch(g, s, k)
    <3>1. k # 21
      OBVIOUS
    <3>2. g.parity # Odd(s, 19) /\ g.term = <<Digits(Odd(s, 19))>>
      BY <2>4, <3>1 DEF Mismatch
    <3>3. o[1].parity = SymDiff(g.parity, {})
      BY <2>1, MarksAre DEF IsChecked
    <3>4. o[1].parity = g.parity
      BY <3>3, XorFacts
    <3>5. Checksums(g.term) = {Odd(s, 19)}
      BY <3>2, SumIs
    <3>6. ~o[2]
      BY <2>1, <3>2, <3>4, <3>5 DEF IsChecked
    <3> QED BY <1>1, <3>6 DEF Ended, TellsRight
  <2> QED BY <2>2, <2>3, <2>4
<1> QED
  BY <1>2, <1>3

LEMMA WholeStep ==
  ASSUME NEW g \in TinyFields, NEW v, NEW s \in Sentence, NEW k \in 1 .. 23,
         InStep(g, v, s, k), Whole(g, s, k), NEW o \in Outcomes(g, Line(s)[k + 1])
  PROVE  Whole(o[1], s, k + 1) /\ TellsRight(o[1], o[2], s)
<1>1. IsLine(Line(s), s)
  BY LineIs
<1>2. CASE k <= 19
  <2> DEFINE j == k - 1
  <2>1. j \in 0 .. 18 /\ k = j + 1 /\ k \in 1 .. 19 /\ k + 1 = 1 + k /\ j \in 0 .. 19
    BY <1>2
  <2>2. Line(s)[k + 1] = Body(s)[j + 1]
    <3>1. Line(s)[1 + k] = Body(s)[k]
      BY <1>1, <2>1 DEF IsLine
    <3> QED BY <2>1, <3>1
  <2>3. InBody(g, s, j) /\ Truthful(g, s, j)
    BY <2>1 DEF InStep, Whole
  <2> HIDE DEF j
  <2>4. o \in Outcomes(g, Body(s)[j + 1])
    BY <2>2
  <2>5. Truthful(o[1], s, j + 1) /\ o[2] = FALSE
    <3>1. CASE j % 2 = 1
      <4>1. j \in 1 .. 19 /\ j + 1 \in 1 .. 19 /\ ~((j + 1) % 2 = 1)
        BY <2>1, <3>1
      <4>2. Body(s)[j + 1] = Byte(",") /\ "," \in DOMAIN Code
        BY <4>1, BodyCommas, TinyGpsAssumption
      <4>3. Byte(",") \in Chars /\ EndsTerm(Byte(","))
        BY <4>2, TextsAre
      <4> QED BY <2>3, <2>4, <3>1, <4>1, <4>2, <4>3, TruthfulEnd
    <3>2. CASE ~(j % 2 = 1)
      BY <2>1, <2>3, <2>4, <3>2, TruthfulText
    <3> QED BY <3>1, <3>2
  <2>6. Truthful(o[1], s, k)
    BY <2>1, <2>5
  <2>7. k + 1 # 21 /\ k + 1 # 22 /\ k + 1 # 23 /\ \A i \in 0 .. 19 : k + 1 = i + 1 => i = k
    BY <2>1
  <2> QED BY <2>5, <2>6, <2>7 DEF Whole, TellsRight
<1>3. CASE k = 20
  <2>1. InBody(g, s, 19) /\ Truthful(g, s, 19)
    BY <1>3 DEF InStep, Whole
  <2>2. o \in Outcomes(g, Star)
    BY <1>1, <1>3 DEF IsLine, Star
  <2>3. Truthful(o[1], s, 20) /\ o[2] = FALSE
    <3>1. 19 \in 1 .. 19 /\ 19 % 2 = 1 /\ 19 + 1 = 20
      OBVIOUS
    <3>2. Truthful(o[1], s, 19 + 1) /\ o[2] = FALSE
      BY <2>1, <2>2, <3>1, MarksAre, TruthfulEnd
    <3> QED BY <3>1, <3>2
  <2>4. Right(o[1], s)
    BY <2>3 DEF Truthful
  <2> QED BY <1>3, <2>3, <2>4 DEF Whole, TellsRight
<1>4. CASE k = 21
  <2>1. o \in Outcomes(g, Digits(Odd(s, 19)))
    BY <1>1, <1>4 DEF IsLine
  <2>2. IsLonger(o[1], o[2], g, Digits(Odd(s, 19)))
    BY <2>1, SumIs, TextJoins
  <2>3. Right(g, s)
    BY <1>4 DEF Whole
  <2>4. Right(o[1], s) /\ o[2] = FALSE
    BY <2>2, <2>3 DEF IsLonger
  <2> QED BY <1>4, <2>4 DEF Whole, TellsRight
<1>5. CASE k = 22
  <2>1. o \in Outcomes(g, Return)
    BY <1>1, <1>5 DEF IsLine, Return
  <2>2. g.is_checksum_term /\ Right(g, s)
    BY <1>5 DEF Whole, InStep, InChecksum
  <2>3. IsChecked(o[1], o[2], g, Return)
    BY <2>1, <2>2, MarksAre, EndsAre
  <2>4. ~o[1].is_checksum_term /\ TellsRight(o[1], o[2], s)
    BY <2>2, <2>3, ChecksumAfter DEF IsChecked
  <2> QED BY <1>5, <2>4 DEF Whole
<1>6. CASE k = 23
  <2>1. o \in Outcomes(g, Return)
    BY <1>1, <1>6 DEF IsLine, Return
  <2>2. ~g.is_checksum_term
    BY <1>6 DEF Whole
  <2>3. o[2] = FALSE
    BY <2>1, <2>2, MarksAre, EndsAre
  <2> QED BY <1>6, <2>3 DEF Whole, TellsRight
<1>7. k <= 19 \/ k = 20 \/ k = 21 \/ k = 22 \/ k = 23
  OBVIOUS
<1> QED
  BY <1>2, <1>3, <1>4, <1>5, <1>6, <1>7

LEMMA WholeBegins ==
  ASSUME NEW g \in TinyFields, NEW s \in Sentence, NEW o \in Outcomes(g, Dollar)
  PROVE  Whole(o[1], s, 1) /\ TellsRight(o[1], o[2], s)
<1>1. ~o[1].data_good /\ o[2] = FALSE
  BY DollarBegins
<1>2. Truthful(o[1], s, 0)
  BY <1>1 DEF Truthful, Right
<1> QED
  BY <1>1, <1>2 DEF Whole, TellsRight

(* The place of the damage, before and after the "*". *)
LEMMA HurtIs ==
  ASSUME NEW g, NEW s
  PROVE  /\ \A j \in 1 .. 19 : Strays(g, s, j) => Hurt(g, s, j + 1)
         /\ \A k \in 21 .. 24 : Ended(g, s, k) => Hurt(g, s, k)
         /\ \A j \in 1 .. 19 : Hurt(g, s, j + 1) => Strays(g, s, j)
         /\ \A k \in 21 .. 24 : Hurt(g, s, k) => Ended(g, s, k)
<1>1. \A j \in 1 .. 19 : /\ 2 <= j + 1 /\ ~(21 <= j + 1)
                         /\ \A i \in 1 .. 19 : j + 1 = i + 1 => i = j
  OBVIOUS
<1>2. \A k \in 21 .. 24 : 2 <= k /\ 21 <= k /\ \A i \in 1 .. 19 : k # i + 1
  OBVIOUS
<1>3. \A j \in 1 .. 19 : Strays(g, s, j) => Hurt(g, s, j + 1)
  BY <1>1 DEF Hurt, Strays
<1>4. \A k \in 21 .. 24 : Ended(g, s, k) => Hurt(g, s, k)
  BY <1>2 DEF Hurt
<1>5. \A j \in 1 .. 19 : Hurt(g, s, j + 1) => Strays(g, s, j)
  BY DEF Hurt, Strays
<1>6. \A k \in 21 .. 24 : Hurt(g, s, k) => Ended(g, s, k)
  BY <1>2 DEF Hurt
<1> QED
  BY <1>3, <1>4, <1>5, <1>6

LEMMA HurtStep ==
  ASSUME NEW g \in TinyFields, NEW s \in Sentence, NEW k \in 2 .. 23, Hurt(g, s, k),
         NEW o \in Outcomes(g, Line(s)[k + 1])
  PROVE  Hurt(o[1], s, k + 1) /\ TellsRight(o[1], o[2], s)
<1>1. IsLine(Line(s), s)
  BY LineIs
<1>2. CASE k <= 19
  <2> DEFINE j == k - 1
  <2>1. j \in 1 .. 18 /\ k = j + 1 /\ k \in 1 .. 19 /\ k + 1 = 1 + k /\ j \in 1 .. 19
    BY <1>2
  <2>2. Line(s)[k + 1] = Body(s)[j + 1]
    <3>1. Line(s)[1 + k] = Body(s)[k]
      BY <1>1, <2>1 DEF IsLine
    <3> QED BY <2>1, <3>1
  <2> HIDE DEF j
  <2>3. Strays(g, s, j)
    BY <2>1, HurtIs
  <2>4. Strays(o[1], s, j + 1) /\ TellsRight(o[1], o[2], s)
    BY <2>1, <2>2, <2>3, StraysOn
  <2>5. Strays(o[1], s, k)
    BY <2>1, <2>4
  <2> QED BY <2>1, <2>4, <2>5, HurtIs
<1>3. CASE k = 20
  <2>1. 19 \in 1 .. 19 /\ k = 19 + 1 /\ 21 \in 21 .. 24 /\ k + 1 = 21
    BY <1>3
  <2>2. Strays(g, s, 19)
    BY <2>1, HurtIs
  <2>3. o \in Outcomes(g, Star)
    BY <1>1, <1>3 DEF IsLine, Star
  <2> QED BY <2>1, <2>2, <2>3, StraysEnd, HurtIs
<1>4. CASE k = 21
  <2>1. k \in 21 .. 24 /\ 22 \in 21 .. 24 /\ k + 1 = 22
    BY <1>4
  <2>2. Ended(g, s, 21)
    BY <1>4, <2>1, HurtIs
  <2>3. o \in Outcomes(g, Digits(Odd(s, 19)))
    BY <1>1, <1>4 DEF IsLine
  <2> QED BY <2>1, <2>2, <2>3, AfterSum, HurtIs
<1>5. CASE k = 22 \/ k = 23
  <2>1. k \in {22, 23} /\ k \in 21 .. 24 /\ k + 1 \in 21 .. 24
    BY <1>5
  <2>2. Ended(g, s, k)
    BY <2>1, HurtIs
  <2>3. o \in Outcomes(g, Return)
    BY <1>1, <1>5 DEF IsLine, Return
  <2> QED BY <2>1, <2>2, <2>3, AfterReturn, HurtIs
<1>6. k <= 19 \/ k = 20 \/ k = 21 \/ k = 22 \/ k = 23
  OBVIOUS
<1> QED
  BY <1>2, <1>3, <1>4, <1>5, <1>6

(* The body, on the line. *)
LEMMA BodyOnLine ==
  ASSUME NEW s \in Sentence, NEW j \in 0 .. 18
  PROVE  /\ Line(s)[(j + 1) + 1] = Body(s)[j + 1]
         /\ j <= 17 => Line(s)[(j + 1) + 2] = Body(s)[j + 2]
<1>1. \A i \in 1 .. 19 : Line(s)[1 + i] = Body(s)[i]
  BY LineIs DEF IsLine
<1>2. j + 1 \in 1 .. 19 /\ (j + 1) + 1 = 1 + (j + 1)
  OBVIOUS
<1>3. j <= 17 => j + 2 \in 1 .. 19 /\ (j + 1) + 2 = 1 + (j + 2)
  OBVIOUS
<1> QED
  BY <1>1, <1>2, <1>3

LEMMA LostByte ==
  ASSUME NEW g, NEW v, NEW s \in Sentence, NEW k \in 1 .. 23,
         InStep(g, v, s, k), Whole(g, s, k), NEW head, head = Line(s)[k + 1],
         head.t \in DOMAIN Code => head.bits # {}
  PROVE  Hurt(g, s, k + 1)
<1>1. CASE k <= 19
  <2> DEFINE j == k - 1
  <2>1. j \in 0 .. 18 /\ k = j + 1 /\ k \in 1 .. 19 /\ j \in 0 .. 19
    BY <1>1
  <2> HIDE DEF j
  <2>2. InBody(g, s, j)
    BY <2>1 DEF InStep
  <2>3. Body(s)[j + 1].bits # {}
    BY <2>1, BodyOnLine, BodyByte, BytesAreChars
  <2>4. Strays(g, s, k)
    BY <2>1, <2>2, <2>3, BodyLost
  <2> QED BY <2>1, <2>4, HurtIs
<1>2. CASE k \in {20, 21, 22, 23}
  <2>1. k + 1 \in 21 .. 24 /\ (k = 23 => k + 1 = 24)
    BY <1>2
  <2>2. ~g.is_checksum_term \/ Right(g, s) \/ k = 23
    <3>1. CASE k = 20
      <4>1. InBody(g, s, 19)
        BY <3>1 DEF InStep
      <4> QED BY <4>1 DEF InBody
    <3>2. CASE k \in {21, 22}
      BY <3>2 DEF Whole
    <3> QED BY <1>2, <3>1, <3>2
  <2>3. Ended(g, s, k + 1)
    BY <2>1, <2>2 DEF Ended
  <2> QED BY <2>1, <2>3, HurtIs
<1>3. k <= 19 \/ k \in {20, 21, 22, 23}
  OBVIOUS
<1> QED
  BY <1>1, <1>2, <1>3

LEMMA GarbledByte ==
  ASSUME NEW g \in TinyFields, NEW v, NEW s \in Sentence, NEW k \in 1 .. 23,
         InStep(g, v, s, k), Whole(g, s, k), NEW t \in DOMAIN Code \cup Marks,
         NEW head, NEW next, head = Line(s)[k + 1], next = Line(s)[k + 2],
         t # head.t, head.t \in DOMAIN Code => Shows(t, head, next),
         NEW o \in Outcomes(g, Spoilt(t))
  PROVE  Hurt(o[1], s, k + 1) /\ TellsRight(o[1], o[2], s)
<1>1. IsLine(Line(s), s)
  BY LineIs
<1>2. Spoilt(t) # Line(s)[k + 1]
  BY BytesAreChars DEF Spoilt
<1>3. CASE k <= 19
  <2> DEFINE j == k - 1
  <2>1. j \in 0 .. 18 /\ k = j + 1 /\ k \in 1 .. 19 /\ k + 1 = 1 + k /\ j \in 0 .. 19
    BY <1>3
  <2>2. head = Body(s)[j + 1] /\ (j <= 17 => next = Body(s)[j + 2])
    BY <2>1, BodyOnLine
  <2>8. Shows(t, head, next)
    BY <2>1, <2>2, BodyByte, BytesAreChars
  <2>3. InBody(g, s, j) /\ Truthful(g, s, j)
    BY <2>1 DEF InStep, Whole
  <2> HIDE DEF j
  <2>4. Strays(o[1], s, j + 1)
    BY <2>1, <2>2, <2>3, <2>8, BodyGarbled
  <2>5. Strays(o[1], s, k)
    BY <2>1, <2>4
  <2>6. ~g.is_checksum_term
    BY <2>3 DEF InBody
  <2>7. o[2] = FALSE
    BY <2>6, Quiet
  <2> QED BY <2>1, <2>5, <2>7, HurtIs DEF TellsRight
<1>4. CASE k = 20
  <2>1. k + 1 = 21 /\ 21 \in 21 .. 24
    BY <1>4
  <2>2. ~g.is_checksum_term
    <3>1. InBody(g, s, 19)
      BY <1>4 DEF InStep
    <3> QED BY <3>1 DEF InBody
  <2>3. Spoilt(t) # Star
    BY <1>1, <1>2, <2>1 DEF IsLine, Star
  <2>4. o[2] = FALSE /\ ~o[1].is_checksum_term
    BY <2>2, <2>3, Quiet
  <2> QED BY <2>1, <2>4, HurtIs DEF Ended, TellsRight
<1>5. CASE k = 21 \/ k = 22
  <2>1. k + 1 \in 21 .. 24 /\ k \in {21, 22}
    BY <1>5
  <2>2. g.is_checksum_term /\ Right(g, s)
    BY <1>5, <2>1 DEF Whole, InStep, InChecksum
  <2>3. TellsRight(o[1], o[2], s) /\ (~o[1].is_checksum_term \/ Right(o[1], s))
    BY <2>2, KeepsRight
  <2> QED BY <2>1, <2>3, HurtIs DEF Ended
<1>6. CASE k = 23
  <2>1. k + 1 = 24 /\ 24 \in 21 .. 24
    BY <1>6
  <2>2. ~g.is_checksum_term
    BY <1>6 DEF Whole
  <2>3. o[2] = FALSE
    BY <2>2, Quiet
  <2> QED BY <2>1, <2>3, HurtIs DEF Ended, TellsRight
<1>7. k <= 19 \/ k = 20 \/ k = 21 \/ k = 22 \/ k = 23
  OBVIOUS
<1> QED
  BY <1>3, <1>4, <1>5, <1>6, <1>7

-----------------------------------------------------------------------------
(* The inductive invariant of the parser at the end of its line. *)
TinyTypes ==
  /\ gps \in TinyFields /\ valid \in BOOLEAN
  /\ sentence \in Sentence /\ begun \in BOOLEAN
  /\ damage \in Nat /\ unseen \in BOOLEAN /\ noise \in 0 .. NoiseBound

FollowsLine(n) ==
  /\ IsRest(rest, sentence, n)
  /\ n = 24 => damage = 0
  /\ begun /\ damage = 0 => n < 24 /\ InStep(gps, valid, sentence, 24 - n)
                                   /\ Whole(gps, sentence, 24 - n)
  /\ begun /\ damage = 1 /\ ~unseen => Hurt(gps, sentence, 24 - n)
  /\ begun /\ damage <= 1 /\ ~unseen => TellsRight(gps, valid, sentence)

TinyInv == TinyTypes /\ \E n \in 0 .. 24 : FollowsLine(n)

LEMMA NoiseBoundNat == NoiseBound \in Nat
  BY TinyGpsAssumption, Zenon

LEMMA TinyInitInv == TinyInit => TinyInv
<1> SUFFICES ASSUME TinyInit PROVE TinyInv
  OBVIOUS
<1>1. sentence \in Sentence /\ ~begun /\ damage = 0
  BY DEF TinyInit
<1>2. TinyTypes
  <2>1. [f \in Stored |-> <<>>] \in [Stored -> Terms]
    BY EmptyTerm
  <2>2. gps \in TinyFields
    BY <2>1, EmptyTerm DEF TinyInit, TinyFields, Types
  <2>3. noise \in 0 .. NoiseBound
    BY NoiseBoundNat DEF TinyInit
  <2>4. valid \in BOOLEAN /\ begun \in BOOLEAN /\ damage \in Nat /\ unseen \in BOOLEAN
    BY DEF TinyInit
  <2> QED BY <1>1, <2>2, <2>3, <2>4 DEF TinyTypes
<1>3. Len(Line(sentence)) = 24
  BY <1>1, LineSeq
<1>4. PICK start \in 1 .. 24 : rest = SubSeq(Line(sentence), start, 24)
  BY <1>3 DEF TinyInit
<1>5. IsRest(rest, sentence, 25 - start) /\ 25 - start \in 0 .. 24
  <2>1. 25 - start \in 0 .. 24
    OBVIOUS
  <2> QED BY <1>1, <1>4, <2>1, RestOfLine
<1> QED
  BY <1>1, <1>2, <1>5 DEF TinyInv, FollowsLine

LEMMA SendInv == TinyInv /\ Send => TinyInv'
<1> SUFFICES ASSUME TinyInv, Send PROVE TinyInv'
  OBVIOUS
<1>1. TinyTypes'
  BY DEF TinyInv, TinyTypes, Send
<1>2. IsRest(rest', sentence', 24)
  BY WholeLine DEF Send
<1>3. FollowsLine(24)'
  BY <1>2 DEF FollowsLine, Send
<1> QED
  BY <1>1, <1>3 DEF TinyInv

LEMMA ReceiveInv == TinyInv /\ Receive => TinyInv'
<1> SUFFICES ASSUME TinyInv, Receive PROVE TinyInv'
  OBVIOUS
<1>1. PICK n \in 0 .. 24 : FollowsLine(n)
  BY DEF TinyInv
<1>2. gps \in TinyFields /\ sentence \in Sentence
  BY DEF TinyInv, TinyTypes
<1>3. /\ n \in 1 .. 24 /\ Head(rest) \in Chars /\ Head(rest) = Line(sentence)[(24 - n) + 1]
      /\ IsRest(Tail(rest), sentence, n - 1)
  BY <1>1, <1>2, RestNext DEF FollowsLine, Receive
<1>4. PICK o \in Outcomes(gps, Head(rest)) : gps' = o[1] /\ valid' = o[2]
  BY DEF Receive, encode
<1>5. TinyTypes'
  <2>1. gps' \in TinyFields /\ valid' \in BOOLEAN
    BY <1>2, <1>3, <1>4, OutcomesTyped DEF Typed
  <2>2. begun' \in BOOLEAN
    BY DEF Receive, TinyInv, TinyTypes
  <2> QED BY <2>1, <2>2 DEF Receive, TinyInv, TinyTypes
<1>6. IsRest(rest', sentence', n - 1)
  BY <1>3 DEF Receive
<1>7. ASSUME begun', damage' = 0
      PROVE  /\ n - 1 < 24 /\ InStep(gps', valid', sentence', 24 - (n - 1))
             /\ Whole(gps', sentence', 24 - (n - 1))
             /\ TellsRight(gps', valid', sentence')
  <2>1. 24 - (n - 1) = (24 - n) + 1 /\ n - 1 < 24
    BY <1>3
  <2>2. CASE begun
    <3>1. n < 24 /\ InStep(gps, valid, sentence, 24 - n) /\ Whole(gps, sentence, 24 - n)
      BY <1>1, <1>7, <2>2 DEF FollowsLine, Receive
    <3>2. 24 - n \in 1 .. 23
      BY <1>3, <3>1
    <3>3. /\ InStep(o[1], o[2], sentence, (24 - n) + 1)
          /\ Whole(o[1], sentence, (24 - n) + 1) /\ TellsRight(o[1], o[2], sentence)
      BY <1>2, <1>3, <1>4, <3>1, <3>2, ByteStep, WholeStep
    <3> QED BY <1>4, <2>1, <3>3 DEF Receive
  <2>3. CASE Head(rest) = Mark("$")
    <3>1. n = 24
      <4>1. SUFFICES ASSUME n # 24 PROVE FALSE
        OBVIOUS
      <4>2. (24 - n) + 1 \in 2 .. 24
        BY <1>3, <4>1
      <4>3. Mark("$").t = "$"
        BY BytesAreChars DEF Marks
      <4> QED BY <1>2, <1>3, <2>3, <4>2, <4>3, OneDollar
    <3>2. /\ InStep(o[1], o[2], sentence, 1)
          /\ Whole(o[1], sentence, 1) /\ TellsRight(o[1], o[2], sentence)
      BY <1>2, <1>4, <2>3, DollarStep, WholeBegins DEF Dollar
    <3> QED BY <1>4, <2>1, <3>1, <3>2 DEF Receive
  <2> QED BY <1>7, <2>2, <2>3 DEF Receive
<1>8. ASSUME begun', damage' = 1, ~unseen'
      PROVE  Hurt(gps', sentence', 24 - (n - 1)) /\ TellsRight(gps', valid', sentence')
  <2>1. damage = 1 /\ n # 24
    BY <1>1, <1>8 DEF FollowsLine, Receive
  <2>2. begun
    <3>1. SUFFICES ASSUME Head(rest) = Mark("$") PROVE FALSE
      BY <1>8 DEF Receive
    <3>2. (24 - n) + 1 \in 2 .. 24
      BY <1>3, <2>1
    <3>3. Mark("$").t = "$"
      BY BytesAreChars DEF Marks
    <3> QED BY <1>2, <1>3, <3>1, <3>2, <3>3, OneDollar
  <2>3. Hurt(gps, sentence, 24 - n)
    BY <1>1, <1>8, <2>1, <2>2 DEF FollowsLine, Receive
  <2>4. 24 - n \in 2 .. 23 /\ 24 - (n - 1) = (24 - n) + 1
    BY <1>3, <2>3 DEF Hurt
  <2>5. Hurt(o[1], sentence, (24 - n) + 1) /\ TellsRight(o[1], o[2], sentence)
    BY <1>2, <1>3, <1>4, <2>3, <2>4, HurtStep
  <2> QED BY <1>4, <2>4, <2>5 DEF Receive
<1>9. n - 1 # 24 /\ (damage' <= 1 => damage' = 0 \/ damage' = 1)
  <2>1. damage' \in Nat
    BY <1>5 DEF TinyTypes
  <2> QED BY <1>3, <2>1
<1>10. FollowsLine(n - 1)'
  BY <1>6, <1>7, <1>8, <1>9 DEF FollowsLine
<1> QED
  BY <1>3, <1>5, <1>10 DEF TinyInv

(* Which bytes the line brings, and that what they hide shows. *)
LEMMA GarbleShows ==
  ASSUME NEW n \in 1 .. 23, sentence \in Sentence, IsRest(rest, sentence, n), Garble, ~unseen'
  PROVE  \E t \in Garbled \ {Head(rest).t} :
           /\ encode(Spoilt(t))
           /\ Head(rest).t \in DOMAIN Code =>
                Shows(t, Head(rest), Line(sentence)[(24 - n) + 2])
<1> DEFINE head == Head(rest)
           next == Line(sentence)[(24 - n) + 2]
<1>1. PICK t \in Garbled \ {head.t} :
         /\ head.t \in DOMAIN Code /\ t \notin {"$", "*"} => Spoilt(t).bits # head.bits
         /\ encode(Spoilt(t))
         /\ ~(t = "*" /\ head.t \in DOMAIN Code /\ Cancels(head, rest[2]))
  BY DEF Garble, Spoilt
<1>2. ASSUME head.t \in DOMAIN Code
      PROVE  head.t = "," => rest[2] = next
  <2>1. n # 1
    <3>1. SUFFICES ASSUME n = 1 PROVE FALSE
      OBVIOUS
    <3>2. head = rest[1] /\ rest[1] = Line(sentence)[24 - 1 + 1]
      BY <3>1 DEF IsRest
    <3>3. head = Mark("\r")
      BY <3>2, LineIs DEF IsLine
    <3>4. head.t \in Marks
      BY <3>3, BytesAreChars DEF Marks
    <3>5. Marks \cap DOMAIN Code = {}
      BY TinyGpsAssumption, Zenon DEF Marks
    <3> QED BY <1>2, <3>4, <3>5
  <2>2. 2 \in 1 .. n /\ 24 - n + 2 = (24 - n) + 2
    BY <2>1
  <2> QED BY <2>2 DEF IsRest
<1>3. head.t \in DOMAIN Code => Shows(t, head, next)
  BY <1>1, <1>2 DEF Shows, IsStar, Cancels
<1> QED
  BY <1>1, <1>3

LEMMA DamageInv == TinyInv /\ (Lose \/ Garble) => TinyInv'
<1> SUFFICES ASSUME TinyInv, Lose \/ Garble PROVE TinyInv'
  OBVIOUS
<1>1. PICK n \in 0 .. 24 : FollowsLine(n)
  BY DEF TinyInv
<1>2. gps \in TinyFields /\ sentence \in Sentence
  BY DEF TinyInv, TinyTypes
<1>3. Damage
  BY DEF Lose, Garble
<1>4. n \in 1 .. 24 /\ IsRest(Tail(rest), sentence, n - 1)
  BY <1>1, <1>2, <1>3, RestNext DEF FollowsLine, Damage
<1>5. gps' \in TinyFields /\ valid' \in BOOLEAN
  <2>1. CASE Lose
    BY <1>2, <2>1 DEF Lose
  <2>2. CASE Garble
    <3>1. PICK t \in Garbled : encode(IF t \in Marks THEN Mark(t) ELSE Byte(t))
      BY <2>2 DEF Garble
    <3> DEFINE c == IF t \in Marks THEN Mark(t) ELSE Byte(t)
    <3>2. t \in DOMAIN Code \cup Marks
      BY TinyGpsAssumption DEF Marks
    <3>3. c \in Chars
      BY <3>2, BytesAreChars
    <3>4. PICK o \in Outcomes(gps, c) : gps' = o[1] /\ valid' = o[2]
      BY <3>1 DEF encode
    <3> HIDE DEF c
    <3> QED BY <1>2, <3>3, <3>4, OutcomesTyped DEF Typed
  <2> QED BY <2>1, <2>2
<1>6. damage' = damage + 1 /\ damage \in Nat /\ noise' = noise - 1 /\ noise > 0
      /\ noise \in 0 .. NoiseBound /\ UNCHANGED <<sentence, begun>> /\ rest' = Tail(rest)
      /\ unseen' \in BOOLEAN
  BY <1>3 DEF Damage, Lose, Garble, TinyInv, TinyTypes
<1>7. TinyTypes'
  <2>1. damage' \in Nat /\ noise' \in 0 .. NoiseBound
    BY <1>6, NoiseBoundNat
  <2> QED BY <1>5, <1>6, <2>1 DEF TinyInv, TinyTypes
<1>8. damage' # 0
  BY <1>6
<1>9. ASSUME begun', damage' <= 1, ~unseen'
      PROVE  Hurt(gps', sentence', 24 - (n - 1)) /\ TellsRight(gps', valid', sentence')
  <2>1. begun /\ damage = 0 /\ sentence' = sentence
    BY <1>6, <1>9
  <2>2. n < 24 /\ InStep(gps, valid, sentence, 24 - n) /\ Whole(gps, sentence, 24 - n)
    BY <1>1, <2>1 DEF FollowsLine
  <2>3. 24 - n \in 1 .. 23 /\ 24 - (n - 1) = (24 - n) + 1
    BY <1>4, <2>2
  <2>4. CASE Lose
    <3>1. gps' = gps /\ valid' = FALSE
      BY <2>4 DEF Lose
    <3>2. Hurt(gps, sentence, (24 - n) + 1)
      <4>1. Head(rest) = Line(sentence)[(24 - n) + 1]
        BY <1>1, <1>2, <1>3, RestNext DEF FollowsLine, Damage
      <4>2. Head(rest).t \in DOMAIN Code => Head(rest).bits # {}
        BY <2>4 DEF Lose
      <4> QED BY <1>2, <2>2, <2>3, <4>1, <4>2, LostByte
    <3> QED BY <2>1, <2>3, <3>1, <3>2 DEF TellsRight
  <2>5. CASE Garble
    <3> DEFINE head == Head(rest)
               next == Line(sentence)[(24 - n) + 2]
    <3>1. PICK t \in Garbled \ {head.t} :
             /\ encode(Spoilt(t))
             /\ head.t \in DOMAIN Code => Shows(t, head, next)
      BY <1>1, <1>2, <1>3, <1>9, <2>3, <2>5, GarbleShows DEF FollowsLine
    <3>2. t \in DOMAIN Code \cup Marks
      BY TinyGpsAssumption DEF Marks
    <3>3. head = Line(sentence)[(24 - n) + 1]
      BY <1>1, <1>2, <1>3, RestNext DEF FollowsLine, Damage
    <3>4. PICK o \in Outcomes(gps, Spoilt(t)) : gps' = o[1] /\ valid' = o[2]
      BY <3>1 DEF encode
    <3> HIDE DEF head, next
    <3>5. t # head.t /\ (head.t \in DOMAIN Code => Shows(t, head, next))
      BY <3>1
    <3>6. Hurt(o[1], sentence, (24 - n) + 1) /\ TellsRight(o[1], o[2], sentence)
      <4> DEFINE k == 24 - n
      <4>1. k \in 1 .. 23 /\ head = Line(sentence)[k + 1] /\ next = Line(sentence)[k + 2]
        BY <2>3, <3>3 DEF next
      <4>2. InStep(gps, valid, sentence, k) /\ Whole(gps, sentence, k)
        BY <2>2
      <4> HIDE DEF k
      <4>3. Hurt(o[1], sentence, k + 1) /\ TellsRight(o[1], o[2], sentence)
        BY <1>2, <3>2, <3>4, <3>5, <4>1, <4>2, GarbledByte
      <4> QED BY <4>3 DEF k
    <3> QED BY <2>1, <2>3, <3>4, <3>6
  <2> QED BY <2>4, <2>5
<1>10. n - 1 # 24
  BY <1>4
<1>11. FollowsLine(n - 1)'
  BY <1>4, <1>6, <1>8, <1>9, <1>10 DEF FollowsLine
<1> QED
  BY <1>4, <1>7, <1>11 DEF TinyInv

LEMMA TinyNextInv == TinyInv /\ [TinyNext]_tinyVars => TinyInv'
<1>1. TinyInv /\ UNCHANGED tinyVars => TinyInv'
  BY DEF TinyInv, TinyTypes, FollowsLine, tinyVars
<1> QED
  BY <1>1, SendInv, ReceiveInv, DamageInv DEF TinyNext

LEMMA TinyInductive == TinySpec => []TinyInv
<1> QED
  BY TinyInitInv, TinyNextInv, PTL DEF TinySpec

(* Every field keeps its type and no term outgrows the buffer that encode writes
   it to, for every size of it, every text and every damage to the line. *)
THEOREM TermsFit == TinySpec => []TypeOK
<1>1. TinyInv => TypeOK
  <2> SUFFICES ASSUME TinyInv PROVE TypeOK
    OBVIOUS
  <2>1. gps \in TinyFields
    BY DEF TinyInv, TinyTypes
  <2>2. /\ gps.parity \subseteq Bits /\ gps.sentence_type \in Types
        /\ gps.term_number \in 0 .. 255 /\ gps.term \in Terms
        /\ \A f \in Stored : gps.kept[f] \in Terms
    BY <2>1 DEF TinyFields
  <2> QED BY <2>2 DEF TypeOK, Types, Terms, TinyInv, TinyTypes
<1> QED
  BY <1>1, TinyInductive, PTL

(* A sentence with a fix that arrives whole is reported at its end, for every
   code of the texts and whatever the line did to the parser before its "$". *)
THEOREM SentenceAccepted == TinySpec => []GoodSentenceAccepted
<1>1. TinyInv => GoodSentenceAccepted
  <2> SUFFICES ASSUME TinyInv, begun, damage = 0, sentence.fix, Len(rest) = 1
               PROVE  valid
    BY DEF GoodSentenceAccepted
  <2>1. PICK n \in 0 .. 24 : FollowsLine(n)
    BY DEF TinyInv
  <2>2. n = 1
    BY <2>1 DEF FollowsLine, IsRest
  <2>3. InStep(gps, valid, sentence, 23)
    BY <2>1, <2>2 DEF FollowsLine
  <2> QED BY <2>3 DEF InStep
<1> QED
  BY <1>1, TinyInductive, PTL

(* The time that the parser has stored when it reports a sentence is the one that
   sentence tells, and it has a fix, for every code of the texts, every size of the
   term and every byte that the line may lose or turn into another one after the
   "$", but for a "*" that hides from the parity bytes that cancel. *)
THEOREM TimeSentTold == TinySpec => []TellsTimeSent
<1>1. TinyInv => TellsTimeSent
  BY DEF TinyInv, FollowsLine, TellsTimeSent, TellsRight, TimeOf
<1> QED
  BY <1>1, TinyInductive, PTL

=============================================================================
