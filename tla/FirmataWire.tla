----------------------------- MODULE FirmataWire -----------------------------
(***************************************************************************)
(* A host, one of the streams of a Firmata sketch and the parser behind it.    *)
(* The host writes its messages byte by byte; the serial port and the ring of  *)
(* BLEStream lose bytes when the sketch is slow, the network streams lose what *)
(* is under way when the connection ends, and then look for the next host.     *)
(* The parser is told of none of this.                                         *)
(***************************************************************************)
EXTENDS FirmataParser, SequencesExt

CONSTANTS
  Messages,   \* what a host may send
  Window,     \* bytes TCP lets a host have under way
  RingSize,   \* of the receive buffer of the serial port and of BLEStream
  MaxLost     \* how often such a stream loses bytes, a bound

(* What data bytes carry. *)
Bits7 == 0 .. 127
Bits14 == 0 .. 16383

(* What each message takes, by the types of its arguments in the source; a string
   fits the parser's buffer. *)
Sendable(m) ==
  \/ \E command \in Wide, channel \in 0 .. 15, value \in Bits14 :
       m = Message(command, channel, <<value>>)
  \/ \E command \in OneByte, channel \in 0 .. 15, enable \in Bits7 :
       m = Message(command, channel, <<enable>>)
  \/ \E command \in TwoBytes \ Wide, pin, value \in Bits7 :
       m = Message(command, 0, <<pin, value>>)
  \/ \E command \in {REPORT_VERSION, SYSTEM_RESET} : m = Message(command, 0, <<>>)
  \/ m = Message(START_SYSEX, 0, <<REPORT_FIRMWARE>>)
  \/ /\ m = Message(START_SYSEX, 0, m.args)
     /\ m.args \in Seq(0 .. 255) \ {<<>>} /\ m.args[1] = STRING_DATA
     /\ 2 * Len(m.args) - 1 <= DataBytes

ASSUME FirmataWireAssumption == \A m \in Messages : Sendable(m)

VARIABLES
  kind,     \* the stream; the Ethernet and the WiFi ones are alike
  there,    \* a host is there: it connects, or lets itself be connected to
  conn,     \* the stream's connection: none, open, closed by the host
  stream,   \* connected; listening: the server has begun; due: MILLIS_RECONNECT
            \* are over since time_connect
  outgoing, \* the bytes of its message the host has still to write
  wire,     \* the bytes written and not read
  lost,     \* how often a stream with a receive buffer lost bytes
  parser,
  follow,   \* how many bytes of which message the parser took one after the other,
            \* from the first on and not as data of a sysex
  got       \* what the last byte that was read called the sketch with, if anything

vars == <<kind, there, conn, stream, outgoing, wire, lost, parser, follow, got>>

Network == {"Client", "Server"}
Kinds == Network \cup {"Serial", "BLE"}

Nothing == [message |-> NoMessage, at |-> 0, last |-> FALSE]

(* A message the parser made of the parts of several. *)
Mangled == Message(0, 0, <<0>>)

WireInit ==
  /\ kind \in Kinds
  /\ there = (kind = "Serial")
  /\ conn = IF kind = "Serial" THEN "open" ELSE "none"
  /\ stream = [connected |-> kind = "Serial", listening |-> FALSE, due |-> FALSE]
  /\ outgoing = <<>> /\ wire = <<>> /\ lost = 0
  /\ parser = NewParser
  /\ follow = Nothing
  /\ got = NoMessage

-----------------------------------------------------------------------------
(* The host *)

(* What the host writes for a message: bytes, each with its place in it. *)
Written ==
  [m \in Messages |->
     LET bytes == Marshal(m) IN
     [i \in DOMAIN bytes |->
        [byte |-> bytes[i], place |-> [message |-> m, at |-> i, last |-> i = Len(bytes)]]]]

Sends ==
  /\ conn = "open" /\ outgoing = <<>>
  /\ \E m \in Messages : outgoing' = Written[m]
  /\ UNCHANGED <<kind, there, conn, stream, wire, lost, parser, follow, got>>

(* The host waits for the window of its connection.  The serial port drops what
   finds its buffer full; BLEStream::_received drops all it has when the head of
   its ring meets the tail. *)
Full == Len(wire) + 1 = RingSize

Writes ==
  /\ outgoing # <<>> /\ conn = "open"
  /\ IF kind \in Network THEN Len(wire) < Window ELSE Full => lost < MaxLost
  /\ IF kind \in Network \/ ~Full
       THEN wire' = Append(wire, Head(outgoing)) /\ UNCHANGED lost
       ELSE wire' = (IF kind = "BLE" THEN <<>> ELSE wire) /\ lost' = lost + 1
  /\ outgoing' = Tail(outgoing)
  /\ UNCHANGED <<kind, there, conn, stream, parser, follow, got>>

(* A host that finds a server waits for its turn, a central is connected. *)
Comes ==
  /\ ~there /\ (kind = "Server" => stream.listening)
  /\ there' = TRUE
  /\ conn' = IF kind = "BLE" THEN "open" ELSE conn
  /\ UNCHANGED <<kind, stream, outgoing, wire, lost, parser, follow, got>>

(* A host goes: it closes its connection or aborts it, and of what it wrote some
   may be lost.  What BLEStream holds stays there. *)
Goes ==
  /\ there /\ kind # "Serial"
  /\ there' = FALSE
  /\ IF conn # "open" THEN UNCHANGED <<conn, outgoing, wire, lost>>
     ELSE /\ outgoing' = <<>>
          /\ IF kind = "BLE"
               THEN /\ conn' = "none" /\ UNCHANGED wire
                    /\ IF outgoing = <<>> THEN UNCHANGED lost
                       ELSE lost < MaxLost /\ lost' = lost + 1
               ELSE conn' = "closed" /\ wire' \in Prefixes(wire) /\ UNCHANGED lost
  /\ UNCHANGED <<kind, stream, parser, follow, got>>

-----------------------------------------------------------------------------
(* The streams *)

(* connected() of a client is true as long as there is something to read. *)
Alive == conn = "open" \/ (conn = "closed" /\ wire # <<>>)

(* Bug: the reconnection of a client starts its interval anew. *)
ClientMaintainsLate ==
  IF stream.connected
    THEN conn' = "none" /\ stream' = [stream EXCEPT !.connected = FALSE, !.due = FALSE]
    ELSE conn' = conn /\ stream' = [stream EXCEPT !.due = FALSE]

(* maintain of EthernetClientStream, connect_client of WiFiClientStream. *)
ClientMaintains ==
  IF stream.connected
    THEN conn' = "none" /\ stream' = [stream EXCEPT !.connected = FALSE, !.due = FALSE]
  ELSE IF stream.due
    THEN /\ conn' = IF there THEN "open" ELSE conn
         /\ stream' = [stream EXCEPT !.connected = there, !.due = FALSE]
    ELSE UNCHANGED <<conn, stream>>

(* maintain and connect_client of EthernetServerStream and WiFiServerStream: the
   old connection is stopped and the next accepted in one call. *)
ServerMaintains ==
  IF there
    THEN conn' = "open" /\ stream' = [stream EXCEPT !.connected = TRUE]
    ELSE conn' = "none" /\ stream' = [stream EXCEPT !.connected = FALSE, !.listening = TRUE]

(* Every available, read and write of the sketch goes through maintain first. *)
Maintain ==
  /\ kind \in Network /\ ~Alive
  /\ IF kind = "Client" THEN ClientMaintains ELSE ServerMaintains
  /\ UNCHANGED <<kind, there, outgoing, wire, lost, parser, follow, got>>

(* MILLIS_RECONNECT pass, which matters only while there is no connection. *)
IntervalPasses ==
  /\ kind = "Client" /\ ~stream.connected /\ ~stream.due
  /\ stream' = [stream EXCEPT !.due = TRUE]
  /\ UNCHANGED <<kind, there, conn, outgoing, wire, lost, parser, follow, got>>

(* The board has a new address: maintain(localip), of the Ethernet streams only. *)
AddressChanges ==
  /\ kind \in Network /\ stream.connected
  /\ conn' = "none" /\ there' = FALSE
  /\ outgoing' = <<>> /\ wire' = <<>>
  /\ stream' = [stream EXCEPT !.connected = FALSE, !.due = FALSE]
  /\ UNCHANGED <<kind, lost, parser, follow, got>>

-----------------------------------------------------------------------------
(* How far the parser has followed a message, once it has read the byte there. *)
Followed(place) ==
  IF IF place.at = 1 THEN ~parser.parsingSysex
     ELSE follow.message = place.message /\ follow.at = place.at - 1
    THEN place ELSE Nothing

(* processInput: a byte is read and parsed.  The loop of the BLE sketch does so
   only while a central is connected. *)
ProcessInput ==
  /\ wire # <<>> /\ (conn = "open" \/ kind \in Network)
  /\ LET b == Head(wire)
         result == parse(parser, b.byte)
     IN  /\ parser' = result.parser
         /\ follow' = Followed(b.place)
         /\ got' = IF result.message = NoMessage \/ follow'.last THEN result.message
                   ELSE Mangled
  /\ wire' = Tail(wire)
  /\ UNCHANGED <<kind, there, conn, stream, outgoing, lost>>

WireNext ==
  \/ Sends \/ Writes \/ Comes \/ Goes
  \/ Maintain \/ IntervalPasses \/ AddressChanges \/ ProcessInput

(* The loop of the sketch runs, and time passes. *)
Fairness == WF_vars(Maintain) /\ WF_vars(ProcessInput) /\ WF_vars(IntervalPasses)

WireSpec == WireInit /\ [][WireNext]_vars /\ Fairness

-----------------------------------------------------------------------------
(* Whatever was lost before, a message of which every byte comes and the first is
   not taken for data of a sysex calls the sketch as the host meant it. *)
IntactIsDispatched == follow.last => got = follow.message

(* A host that is there is served or goes: no stream is stuck with a connection
   that has ended. *)
HostServed == there ~> (conn = "open" \/ ~there)

-----------------------------------------------------------------------------
(* The network streams and the parser implement MessageChannel.  Under way is
   what has its last byte on the wire or with the host. *)
Rest == wire \o outgoing

IsSysex(m) == m.command = START_SYSEX

TornTail ==
  Rest # <<>> /\ IsSysex(Last(Rest).place.message) /\ ~Last(Rest).place.last

(* The parser is in a sysex of which the end does not come. *)
InTorn ==
  parser.parsingSysex /\ (follow = Nothing \/ Rest = <<>> \/ Head(Rest).place.at = 1)

(* The last bytes of messages among these, the n-th of them, and the messages. *)
Ends(bytes) == {i \in DOMAIN bytes : bytes[i].place.last}

End(bytes, n) == CHOOSE i \in Ends(bytes) : Cardinality({j \in Ends(bytes) : j <= i}) = n

Complete(bytes) ==
  [n \in 1 .. Cardinality(Ends(bytes)) |-> bytes[End(bytes, n)].place.message]

UnderWay == Complete(Rest)

(* No sysex is under way that would end the torn one before its tail. *)
Swallowed == InTorn /\ \A i \in DOMAIN UnderWay : ~IsSysex(UnderWay[i])

(* A host on the network gets what MessageChannel promises; the others, whose
   bytes are lost one by one, are left out. *)
Promised ==
  IF kind \notin Network THEN <<>>
  ELSE (IF InTorn THEN <<Nothing>> ELSE <<>>) \o UnderWay
         \o (IF TornTail /\ ~Swallowed THEN <<Nothing>> ELSE <<>>)

Told == IF kind \in Network THEN got ELSE NoMessage

Channel == INSTANCE MessageChannel WITH
  Torn <- Nothing, Mixed <- Mangled, None <- NoMessage, queue <- Promised, got <- Told

ChannelSpec == Channel!Spec

=============================================================================
