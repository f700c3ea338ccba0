---------------------------- MODULE FirmataParser ----------------------------
(***************************************************************************)
(* The two ends of the Firmata protocol: FirmataMarshaller, which writes a     *)
(* message byte by byte, and FirmataParser, which is given the bytes one by    *)
(* one and calls the sketch when it has a message.  Bytes are numbers.         *)
(***************************************************************************)
EXTENDS Integers, Sequences

CONSTANTS
  DataBytes,  \* MAX_DATA_BYTES, the size of the parser's buffer
  CountedTo   \* where the model stops to count the bytes of a sysex, a bound

ASSUME FirmataParserAssumption ==
  /\ DataBytes \in Nat /\ DataBytes >= 2
  /\ CountedTo \in Nat /\ CountedTo > DataBytes

DIGITAL_MESSAGE == 144
REPORT_ANALOG == 192
REPORT_DIGITAL == 208
ANALOG_MESSAGE == 224
START_SYSEX == 240
SET_PIN_MODE == 244
SET_DIGITAL_PIN_VALUE == 245
END_SYSEX == 247
REPORT_VERSION == 249
SYSTEM_RESET == 255

(* The first byte of a sysex that the parser knows. *)
STRING_DATA == 113
REPORT_FIRMWARE == 121

(* The messages that carry a value of 14 bits, and those of two data bytes. *)
Wide == {ANALOG_MESSAGE, DIGITAL_MESSAGE}
TwoBytes == Wide \cup {SET_PIN_MODE, SET_DIGITAL_PIN_VALUE}
OneByte == {REPORT_ANALOG, REPORT_DIGITAL}

(* What a sketch is called with: the command, the channel in its low bits (0 in
   those without) and the arguments. *)
Message(command, channel, args) == [command |-> command, channel |-> channel, args |-> args]

NoMessage == Message(0, 0, <<>>)

-----------------------------------------------------------------------------
(* FirmataMarshaller *)

(* One byte of encodeByteStream: seven bits are sent, the rest is kept. *)
EncodeByte(acc, byte, max) ==
  IF Len(acc.out) >= max THEN acc
  ELSE LET sent == (IF acc.bits = 0 THEN byte ELSE acc.cache + byte * 2 ^ acc.bits) % 128
           kept == byte \div 2 ^ (7 - acc.bits)
           bits == acc.bits + 1
       IN  IF bits = 7 /\ Len(acc.out) + 1 < max
             THEN [out |-> acc.out \o <<sent, kept>>, cache |-> 0, bits |-> 0]
             ELSE [out |-> Append(acc.out, sent), cache |-> kept, bits |-> bits]

(* One byte or two in groups of seven bits, the lowest first, at most max of them. *)
encodeByteStream(bytes, max) ==
  LET first == EncodeByte([out |-> <<>>, cache |-> 0, bits |-> 0], bytes[1], max)
      end == IF Len(bytes) = 1 THEN first ELSE EncodeByte(first, bytes[2], max)
  IN  IF end.bits > 0 /\ Len(end.out) < max
        THEN Append(end.out, end.cache % 2 ^ end.bits) ELSE end.out

(* sendSysex encodes each of its bytes by itself, in two. *)
sendSysex(args) ==
  LET Encoded(i) == encodeByteStream(<<args[1 + i]>>, 2) IN
  <<START_SYSEX, args[1]>>
    \o [i \in 1 .. 2 * (Len(args) - 1) |-> Encoded((i + 1) \div 2)[2 - (i % 2)]]
    \o <<END_SYSEX>>

(* What a host writes for a message. *)
Marshal(m) ==
  CASE m.command \in Wide ->
         <<m.command + m.channel>>
           \o encodeByteStream(<<m.args[1] % 256, m.args[1] \div 256>>, 2)
    [] m.command = START_SYSEX -> sendSysex(m.args)
    [] OTHER -> <<m.command + m.channel>> \o m.args

-----------------------------------------------------------------------------
(* FirmataParser *)

EmptyBuffer == [i \in 0 .. DataBytes - 1 |-> 0]

NewParser ==
  [executeMultiByteCommand |-> 0, multiByteChannel |-> 0, waitForData |-> 0,
   parsingSysex |-> FALSE, sysexBytesRead |-> 0, dataBuffer |-> EmptyBuffer]

(* What a message leaves in the buffer is read again only if a message lacks
   bytes, and what such a message says is not told apart: 0 is taken. *)
Done(p) == [p EXCEPT !.dataBuffer = EmptyBuffer, !.sysexBytesRead = 0]

(* bufferDataAtPosition: a byte beyond the buffer is dropped. *)
Buffered(p, byte, pos) ==
  IF pos < DataBytes THEN [p EXCEPT !.dataBuffer[pos] = byte] ELSE p

(* decodeByteStream, n bytes from position first on: each pair gives a byte in
   place, bit 7 of both.  Beyond the buffer there is no knowing: 0 is taken. *)
Decoded(p, first, n) ==
  LET At(i) == IF i < DataBytes THEN p.dataBuffer[i] ELSE 0 IN
  [k \in 1 .. (n + 1) \div 2 |->
     LET low == At(first + 2 * (k - 1))
         high == At(first + 2 * (k - 1) + 1)
     IN  IF low < 128 /\ high % 2 = 1 THEN low + 128 ELSE low]

(* processSysexMessage: a string is decoded, of a query for the firmware only the
   command counts, and the rest goes to the sketch as it came.  The callback of a
   message longer than the buffer is given more bytes than it holds. *)
processSysexMessage(p) ==
  LET command == p.dataBuffer[0]
      text == Decoded(p, 1, p.sysexBytesRead - 1)
      argv == [i \in 1 .. p.sysexBytesRead - 1 |->
                 IF i < DataBytes THEN p.dataBuffer[i] ELSE 0]
  IN  Message(START_SYSEX, 0,
        <<command>> \o IF command = STRING_DATA THEN text
                       ELSE IF command = REPORT_FIRMWARE THEN <<>> ELSE argv)

(* The callback of a message whose data bytes are all there. *)
Dispatched(p) ==
  LET command == p.executeMultiByteCommand
      first == p.dataBuffer[1]
      last == p.dataBuffer[0]
  IN  Message(command, IF command \in {SET_PIN_MODE, SET_DIGITAL_PIN_VALUE} THEN 0
                       ELSE p.multiByteChannel,
              IF command \in Wide THEN <<last * 128 + first>>
              ELSE IF command \in OneByte THEN <<last>> ELSE <<first, last>>)

SysexByte(p, byte) ==
  IF byte = END_SYSEX
    THEN [parser |-> Done([p EXCEPT !.parsingSysex = FALSE]), message |-> processSysexMessage(p)]
  ELSE [parser |-> [Buffered(p, byte, p.sysexBytesRead) EXCEPT
                      !.sysexBytesRead = IF @ < CountedTo THEN @ + 1 ELSE @],
        message |-> NoMessage]

DataByte(p, byte) ==
  LET q == Buffered([p EXCEPT !.waitForData = @ - 1], byte, p.waitForData - 1) IN
  IF q.waitForData = 0 /\ q.executeMultiByteCommand # 0
    THEN [parser |-> Done([q EXCEPT !.executeMultiByteCommand = 0]), message |-> Dispatched(q)]
    ELSE [parser |-> q, message |-> NoMessage]

(* Below START_SYSEX the low bits of a command are its channel.  What is no
   command, a stray data byte too, only leaves its low bits there. *)
CommandByte(p, byte) ==
  LET command == IF byte < START_SYSEX THEN byte - (byte % 16) ELSE byte
      q == IF byte < START_SYSEX THEN [p EXCEPT !.multiByteChannel = byte % 16] ELSE p
      Waits(n) == [q EXCEPT !.waitForData = n, !.executeMultiByteCommand = command]
      None(r) == [parser |-> r, message |-> NoMessage]
  IN  CASE command \in TwoBytes -> None(Waits(2))
        [] command \in OneByte -> None(Waits(1))
        [] command = START_SYSEX -> None([q EXCEPT !.parsingSysex = TRUE, !.sysexBytesRead = 0])
        [] command = SYSTEM_RESET -> [parser |-> NewParser, message |-> Message(SYSTEM_RESET, 0, <<>>)]
        [] command = REPORT_VERSION -> [parser |-> q, message |-> Message(REPORT_VERSION, 0, <<>>)]
        [] OTHER -> None(q)

(* Bug: a message that waits for data takes any byte for data. *)
parseAnyData(p, byte) ==
  CASE p.parsingSysex -> SysexByte(p, byte)
    [] ~p.parsingSysex /\ p.waitForData > 0 -> DataByte(p, byte)
    [] OTHER -> CommandByte(p, byte)

(* Bug: a command byte ends the wait but is itself lost. *)
parseDropsCommand(p, byte) ==
  CASE p.parsingSysex -> SysexByte(p, byte)
    [] ~p.parsingSysex /\ p.waitForData > 0 /\ byte < 128 -> DataByte(p, byte)
    [] ~p.parsingSysex /\ p.waitForData > 0 /\ byte >= 128 ->
         [parser |-> [p EXCEPT !.waitForData = 0, !.executeMultiByteCommand = 0],
          message |-> NoMessage]
    [] OTHER -> CommandByte(p, byte)

(* The parser after a byte, and the message it called the sketch with. *)
parse(p, byte) ==
  CASE p.parsingSysex -> SysexByte(p, byte)
    [] ~p.parsingSysex /\ p.waitForData > 0 /\ byte < 128 -> DataByte(p, byte)
    [] OTHER -> CommandByte(p, byte)

=============================================================================
