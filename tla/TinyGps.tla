------------------------------- MODULE TinyGps -------------------------------
(***************************************************************************)
(* TinyGPS::encode of libraries/TinyGPS-master, the parser that GpsReader    *)
(* feeds with one byte per iteration, at the end of a line that may lose or   *)
(* garble bytes.  A byte is a set of bits, so that the parity is the real     *)
(* one: the exclusive or of bytes is the symmetric difference of sets.  The    *)
(* text of a term is a single byte of the model, with the exclusive or of its  *)
(* bytes, which may be that of another text, that of the comma or 0; and so    *)
(* are the two digits of a checksum.  Statistics and the hemispheres are left  *)
(* out.                                                                       *)
(***************************************************************************)
EXTENDS Integers, Sequences, FiniteSetsExt

CONSTANTS
  Bits,      \* of a byte
  Code,      \* the bits of every text and of the comma
  TermSize,  \* how many bytes _term keeps
  Garbled,   \* texts and marks that a damaged byte may turn into
  TimesTold, \* the times of day the receiver tells
  NoiseBound \* bound: how many bytes the line may damage

ASSUME TinyGpsAssumption ==
  /\ \A t \in DOMAIN Code : Code[t] \subseteq Bits
  /\ \A t \in {",", "GPRMC", "GPGGA", "A", "V", "1", "0"} : Code[t] # {}
  /\ {",", "GPRMC", "GPGGA", "A", "V", "1", "0", "x"} \cup TimesTold \subseteq DOMAIN Code
  /\ Garbled \subseteq DOMAIN Code \cup {"$", "*", "\r"}
  /\ {"$", "*", "\r", "sum"} \cap DOMAIN Code = {}
  /\ "," \notin TimesTold
  /\ TermSize \in Nat \ {0}
  /\ NoiseBound \in Nat

(* No time of day reads like the name of a sentence. *)
ASSUME TextAssumption == TimesTold \cap {"GPRMC", "GPGGA"} = {}

VARIABLES
  gps,      \* the parser's fields
  valid,    \* whether this step is a call of encode that returns true
  sentence, \* what the receiver is sending
  rest,     \* the bytes of it still to come
  begun,    \* history: the "$" of the sentence has arrived
  damage,   \* history: bytes of the sentence lost or garbled after it
  unseen,   \* history: a garbled byte of it hid others that cancel
  noise     \* bytes the line may still damage

tinyVars == <<gps, valid, sentence, rest, begun, damage, unseen, noise>>

Xor(S, c) == SymDiff(S, c.bits)

Byte(t) == [t |-> t, bits |-> Code[t]]

(* The bytes that parity never sees, and the digits of a checksum. *)
Mark(t) == [t |-> t, bits |-> {}]

Marks == {"$", "*", "\r"}

Digits(S) == [t |-> "sum", bits |-> S]

-----------------------------------------------------------------------------
(* The switch over COMBINE(sentence_type, term_number), as a table. *)
Layout ==
  [ GPRMC |-> << "time", "validity", "latitude", "NS", "longitude", "EW",
                 "speed", "course", "date" >>,
    GPGGA |-> << "time", "latitude", "NS", "longitude", "EW", "quality",
                 "numsats", "hdop", "altitude" >>,
    Other |-> << >> ]

(* What a good sentence of a type commits. *)
Committed ==
  [ GPRMC |-> {"time", "date", "latitude", "longitude", "speed", "course"},
    GPGGA |-> {"altitude", "time", "latitude", "longitude", "numsats", "hdop"},
    Other |-> {} ]

Stored == Committed["GPRMC"] \cup Committed["GPGGA"]

(* COMBINE is an or of numbers: from term 32 on the types run into each other. *)
Row(type, n) ==
  CASE type = "Other" \/ n >= 64 -> "Other"
    [] type = "GPGGA" /\ n < 32 -> "GPGGA"
    [] OTHER -> "GPRMC"

(* gpsstrcmp accepts every prefix, the empty one too. *)
TypeOf(term) ==
  CASE term \in {<<>>, <<Byte("GPRMC")>>} -> "GPRMC"
    [] term = <<Byte("GPGGA")>> -> "GPGGA"
    [] OTHER -> "Other"

(* The first term of a sentence names it, every other that is not empty fills a
   field or says whether there is a fix. *)
OrdinaryTerm(g) ==
  IF g.term_number = 0
    THEN [g EXCEPT !.sentence_type = TypeOf(g.term)]
    ELSE LET row == Layout[Row(g.sentence_type, g.term_number)]
             n == g.term_number % 32
             field == IF g.term # <<>> /\ n \in DOMAIN row THEN row[n] ELSE "none"
         IN CASE field \in Stored -> [g EXCEPT !.new[field] = g.term]
              [] field = "validity" -> [g EXCEPT !.data_good = (g.term[1].t = "A")]
              [] field = "quality" -> [g EXCEPT !.data_good = (g.term[1].t # "0")]
              [] OTHER -> g

(* The value of a checksum term: of its first digits, or of whatever from_hex
   makes of another text that a damaged byte has brought there. *)
Checksums(term) ==
  IF term # <<>> /\ term[1].t = "sum" THEN {term[1].bits} ELSE SUBSET Bits

Commit(g) ==
  [g EXCEPT !.kept = [f \in Stored |->
     IF f \in Committed[g.sentence_type] THEN g.new[f] ELSE g.kept[f]]]

(* Bug: the checksum is not compared. *)
TermCompleteUnchecked(g) ==
  IF g.is_checksum_term
    THEN { IF g.data_good THEN <<Commit(g), TRUE>> ELSE <<g, FALSE>> }
    ELSE { <<OrdinaryTerm(g), FALSE>> }

(* term_complete: the fields and the results it may have. *)
TermComplete(g) ==
  IF g.is_checksum_term
    THEN { IF checksum = g.parity /\ g.data_good THEN <<Commit(g), TRUE>> ELSE <<g, FALSE>> :
             checksum \in Checksums(g.term) }
    ELSE { <<OrdinaryTerm(g), FALSE>> }

(* A terminator ends a term; only the comma counts for the parity. *)
Terminate(g, c) ==
  { << [r[1] EXCEPT !.term_number = (@ + 1) % 256,
                    !.term = <<>>,
                    !.is_checksum_term = (c.t = "*")],
       r[2] >> : r \in TermComplete([g EXCEPT !.parity = Xor(@, c)]) }

(* Bug: the parity of an abandoned sentence is kept. *)
BeginKeepingParity(g) ==
  [g EXCEPT !.term_number = 0, !.term = <<>>, !.sentence_type = "Other",
            !.is_checksum_term = FALSE, !.data_good = FALSE]

(* "$" starts over, whatever came before. *)
BeginSentence(g) ==
  [g EXCEPT !.term_number = 0, !.term = <<>>, !.parity = {},
            !.sentence_type = "Other", !.is_checksum_term = FALSE,
            !.data_good = FALSE]

(* Bug: the room left in the term is not checked. *)
ExtendUnbounded(g, c) ==
  [g EXCEPT !.term = Append(@, c),
            !.parity = IF g.is_checksum_term THEN @ ELSE Xor(@, c)]

(* An ordinary byte joins the term while there is room. *)
Extend(g, c) ==
  [g EXCEPT !.term = IF Len(@) < TermSize THEN Append(@, c) ELSE @,
            !.parity = IF g.is_checksum_term THEN @ ELSE Xor(@, c)]

Outcomes(g, c) ==
  CASE c.t \in {",", "*", "\r"} -> Terminate(g, c)
    [] c.t = "$" -> { <<BeginSentence(g), FALSE>> }
    [] OTHER -> { <<Extend(g, c), FALSE>> }

-----------------------------------------------------------------------------
(* The receiver.  It sends sentences of both kinds, with and without a fix;
   "x" is the text of every field but the time. *)
Sentence == [type: {"GPRMC", "GPGGA"}, time: TimesTold, fix: BOOLEAN]

Text(s, field) ==
  CASE field = "time" -> s.time
    [] field = "validity" -> IF s.fix THEN "A" ELSE "V"
    [] field = "quality" -> IF s.fix THEN "1" ELSE "0"
    [] OTHER -> "x"

Body(s) ==
  LET row == Layout[s.type]
      fields == [i \in 1 .. 2 * Len(row) |->
                   IF i % 2 = 1 THEN Byte(",") ELSE Byte(Text(s, row[i \div 2]))]
  IN <<Byte(s.type)>> \o fields

(* The exclusive or of bytes has the bits that an odd number of them have. *)
Parity(bytes) ==
  {bit \in Bits : Cardinality({i \in DOMAIN bytes : bit \in bytes[i].bits}) % 2 = 1}

(* "\r" stands for both ends of a line, which the parser treats alike. *)
Line(s) ==
  <<Mark("$")>> \o Body(s)
    \o <<Mark("*"), Digits(Parity(Body(s))), Mark("\r"), Mark("\r")>>

-----------------------------------------------------------------------------
(* The parser of a new object, which may come in the middle of a sentence. *)
TinyInit ==
  /\ gps = [parity |-> {}, is_checksum_term |-> FALSE, term |-> <<>>,
            sentence_type |-> "Other", term_number |-> 0, data_good |-> FALSE,
            new |-> [f \in Stored |-> <<>>], kept |-> [f \in Stored |-> <<>>]]
  /\ valid = FALSE
  /\ sentence \in Sentence
  /\ \E heard \in 1 .. Len(Line(sentence)) :
       rest = SubSeq(Line(sentence), heard, Len(Line(sentence)))
  /\ begun = FALSE
  /\ damage = 0 /\ unseen = FALSE
  /\ noise = NoiseBound

Send ==
  /\ rest = <<>>
  /\ sentence' \in Sentence
  /\ rest' = Line(sentence')
  /\ begun' = FALSE /\ damage' = 0 /\ unseen' = FALSE
  /\ valid' = FALSE
  /\ UNCHANGED <<gps, noise>>

encode(c) == \E r \in Outcomes(gps, c) : gps' = r[1] /\ valid' = r[2]

Receive ==
  /\ rest # <<>>
  /\ encode(Head(rest))
  /\ rest' = Tail(rest)
  /\ begun' = (begun \/ Head(rest) = Mark("$"))
  /\ UNCHANGED <<sentence, damage, unseen, noise>>

Damage ==
  /\ rest # <<>> /\ noise > 0
  /\ rest' = Tail(rest)
  /\ damage' = damage + 1
  /\ noise' = noise - 1
  /\ UNCHANGED <<sentence, begun>>

(* One byte is lost, and a byte that counts for the parity is missed there. *)
Lose ==
  /\ Damage
  /\ Head(rest).t \in DOMAIN Code => Head(rest).bits # {}
  /\ valid' = FALSE
  /\ UNCHANGED <<gps, unseen>>

(* A "*" in the place of a text hides it from the parity, in the place of a comma
   that comma and the text after it.  Whether those cancel: the text has no bits,
   or those of the comma. *)
Cancels(head, next) == IF head.t = "," THEN head.bits = next.bits ELSE head.bits = {}

(* One byte becomes another, which changes the exclusive or of a text; only a "$",
   which starts it anew, and a "*", which hides a text, are not bound by that. *)
Garble ==
  /\ Damage
  /\ LET head == Head(rest)
     IN \E t \in Garbled \ {head.t} :
          LET byte == IF t \in Marks THEN Mark(t) ELSE Byte(t)
          IN /\ head.t \in DOMAIN Code /\ t \notin {"$", "*"} => byte.bits # head.bits
             /\ encode(byte)
             /\ unseen' = (unseen \/ ( /\ t = "*" /\ head.t \in DOMAIN Code
                                       /\ Cancels(head, rest[2]) ))

TinyNext == Send \/ Receive \/ Lose \/ Garble

TinySpec == TinyInit /\ [][TinyNext]_tinyVars

-----------------------------------------------------------------------------
(* Every field keeps its type; the term that encode collects, and so every field
   filled from one, fits the buffer _term. *)
TypeOK ==
  /\ gps.parity \subseteq Bits
  /\ Len(gps.term) <= TermSize
  /\ gps.sentence_type \in {"GPRMC", "GPGGA", "Other"}
  /\ gps.term_number \in 0 .. 255
  /\ \A f \in Stored : Len(gps.kept[f]) <= TermSize
  /\ valid \in BOOLEAN /\ noise \in 0 .. NoiseBound

(* When encode reports a sentence, the time it has stored is the one that the
   sentence just received tells, and that sentence has a fix: one damaged byte
   after its "$" makes the clock wrong only if it becomes a "*" and hides from the
   exclusive or bytes that cancel, like the comma and the time of ",083559.00". *)
TellsTimeSent ==
  valid /\ begun /\ damage <= 1 /\ ~unseen =>
    sentence.fix /\ gps.kept.time = <<Byte(sentence.time)>>

(* A sentence with a fix that arrives undamaged is reported at its end, whatever
   was lost or garbled before it. *)
GoodSentenceAccepted ==
  begun /\ damage = 0 /\ sentence.fix /\ Len(rest) = 1 => valid

(* What the comment above term_complete says, "Returns true if new sentence has
   just passed checksum test and is validated": no sentence without a fix is
   reported. *)
ReportsOnlyValidated == valid => sentence.fix

=============================================================================
