-------------------------------- MODULE GpsFeed --------------------------------
(***************************************************************************)
(* What feeds GpsReader: a receiver that sends sentences byte by byte, the     *)
(* serial port whose buffer drops what it has no room for, and the parser,      *)
(* which is given a byte per call and none while the clock runs.  At a refresh  *)
(* the port holds bytes that are hours old and the head of a sentence whose     *)
(* tail was dropped, and the parser takes that head and a fresh tail for one    *)
(* sentence whenever the exclusive or of their bytes is the checksum.           *)
(***************************************************************************)
EXTENDS GpsReader, Sequences, FiniteSetsExt

CONSTANTS
  SentenceLength, \* bytes of a sentence, a millisecond each on the line
  TimePlace,      \* which of them tells the time; the next says there is a fix
  BitsOf,         \* what byte n of the sentence that tells t adds to the checksum
  PortSize,       \* bytes the port keeps
  OutageEnds      \* from then after a fix, in ms, sentence follows sentence

ASSUME FeedAssumption ==
  /\ {SentenceLength, PortSize, OutageEnds} \subseteq Nat \ {0}
  /\ PortSize < SentenceLength   \* or a whole sentence survives the hours
  /\ SentenceLength + PortSize * LoopPeriod <= SentenceAge
  /\ TimePlace \in 2 .. SentenceLength - 2

VARIABLES
  sending, \* the last byte sent of the sentence on the line
  port,    \* the bytes received and not yet read
  heard,   \* the parser: term, _new_time, _gps_data_good and _parity
  source,  \* history: the last byte parsed of a sentence that is whole so far
  spliced  \* history: the last fix came of bytes of more than one sentence

feedVars == <<vars, sending, port, heard, source, spliced>>

(* The byte at place n of a sentence that tells time: "$" with the name, one byte
   for each term, and one for the checksum and the end of the line. *)
Bytes == [n : 1 .. SentenceLength, time : Times]

None == [n |-> 0, time |-> NoTime]

(* The exclusive or of bytes has the bits that an odd number of them have. *)
Checksum(t) ==
  LET Places == 1 .. SentenceLength - 1
  IN { bit \in UNION {BitsOf[n][t] : n \in Places} :
         Cardinality({n \in Places : bit \in BitsOf[n][t]}) % 2 = 1 }

-----------------------------------------------------------------------------
(* "$" starts over. *)
HeardFirst(b) ==
  [heard EXCEPT !.n = 1, !.good = FALSE, !.parity = BitsOf[1][b.time]]

(* TinyGPS knows a term by its number since "$", whichever sentence it is of; in
   the place of the time another text reads like some time of day. *)
HeardTerm(b) ==
  LET n == IF heard.n < SentenceLength THEN heard.n + 1 ELSE heard.n
      told == IF b.n = TimePlace THEN {b.time} ELSE Times
  IN { [n |-> n, time |-> t,
        good |-> IF n = TimePlace + 1 THEN b.n = n ELSE heard.good,
        parity |-> SymDiff(heard.parity, BitsOf[b.n][b.time])] :
         t \in IF n = TimePlace THEN told ELSE {heard.time} }

Parsed(b) ==
  CASE b.n = 1 -> {HeardFirst(b)}
    [] b.n = SentenceLength -> {[heard EXCEPT !.n = SentenceLength]}
    [] OTHER -> HeardTerm(b)

(* Bug: the checksum is not compared. *)
EncodeUnchecked(b) == b.n = SentenceLength /\ heard.good

Encode(b) ==
  b.n = SentenceLength /\ heard.good /\ heard.parity = Checksum(b.time)

(* The byte that comes next in the sentence heard so far. *)
Follows(b) == source.n > 0 /\ b.n = source.n + 1 /\ b.time = source.time

Traced(b) == IF b.n = 1 \/ (Follows(b) /\ b.n < SentenceLength) THEN b ELSE None

(* A call while a fix is wanted and the port has a byte. *)
ReadByte ==
  /\ Awaiting
  /\ port # <<>>
  /\ port' = Tail(port)
  /\ heard' \in Parsed(Head(port))
  /\ source' = Traced(Head(port))
  /\ IF Encode(Head(port))
       THEN SetTime(heard.time) /\ spliced' = ~Follows(Head(port))
       ELSE Wait /\ UNCHANGED spliced

ReadNothing == port = <<>> /\ Wait /\ UNCHANGED <<port, heard, source, spliced>>

RunOn == Run /\ UNCHANGED <<port, heard, source, spliced>>

Call ==
  /\ ReadByte \/ ReadNothing \/ RunOn
  /\ sinceCall' = 0
  /\ UNCHANGED <<millis, realTime, sending>>

-----------------------------------------------------------------------------
Put(b) ==
  /\ sending' = IF b.n = SentenceLength THEN None ELSE b
  /\ port' = IF Len(port) < PortSize THEN Append(port, b) ELSE port

(* The receiver begins a sentence, which tells the time of its first byte. *)
First == [n |-> 1, time |-> realTime \div MsPerSecond]

Begin == sending = None /\ Put(First)

Continue == sending # None /\ Put([sending EXCEPT !.n = @ + 1])

Silence ==
  /\ sending = None
  /\ sinceFix < OutageEnds
  /\ UNCHANGED <<sending, port>>

Pass == Tick /\ (Begin \/ Continue \/ Silence) /\ UNCHANGED <<heard, source, spliced>>

(* A new object, whose first bytes may be no "$": then the sentence has no name,
   which is taken for GPRMC, or one unknown, whose terms fill no field. *)
FeedInit ==
  /\ Init
  /\ sending = None /\ port = <<>>
  /\ \E n \in {1, SentenceLength} :
       heard = [n |-> n, time |-> NoTime, good |-> FALSE, parity |-> {}]
  /\ source = None
  /\ spliced = FALSE

FeedNext == Call \/ Pass

(* Reception comes back. *)
Receives == sending = None /\ sending' = First

FeedSpec ==
  FeedInit /\ [][FeedNext]_feedVars /\ WF_feedVars(FeedNext) /\ WF_sending(Receives)

-----------------------------------------------------------------------------
(* Bytes of more than one sentence, or of one with bytes missing, end with a
   checksum that is their exclusive or. *)
Collides ==
  /\ port # <<>>
  /\ Head(port).n = SentenceLength /\ ~Follows(Head(port))
  /\ heard.parity = Checksum(Head(port).time)

(* Such bytes set the clock to a second of the day, which may be hours old. *)
TakesSplice ==
  /\ Collides
  /\ \E t \in Times : SetTime(t)
  /\ sinceCall' = 0
  /\ UNCHANGED <<millis, realTime>>

(* What reaches the reader of receiver, port and parser is what GpsReader takes
   it to be, whatever the port has kept over the hours, but for one thing that
   the checksum of eight bits cannot exclude: a sentence older than SentenceAge
   is only accepted when its bytes and those of a later one collide. *)
ReaderSpec == Init /\ [][Next \/ TakesSplice]_vars

(* From the receiver's bytes on, and after any number of collisions, the clock is
   right while it runs on a fix that came of a whole sentence. *)
WholeFixShowsTrueTime == ~spliced => ShowsTrueTime

=============================================================================
