------------------------------- MODULE WiFiTcp -------------------------------
(***************************************************************************)
(* TCP as a sketch on an ESP8266 sees it: WiFiClient.cpp, WiFiServer.cpp and  *)
(* the station event of ESP8266WiFiGeneric.cpp over the contexts of            *)
(* ClientContext.  The sketch is one cooperative task.  lwIP calls back only   *)
(* while the sketch has yielded: between its calls, in the delay of a connect, *)
(* in the wait of a write, in the loop of peekBytes, and while a write reads   *)
(* its data from another stream.  esp_schedule lets a waiting sketch go on.    *)
(***************************************************************************)
EXTENDS ClientContext, FiniteSets

CONSTANTS
  Contexts,    \* the memory for contexts
  Handles,     \* the sketch's WiFiClient objects
  SndBuf,      \* what tcp_write takes before the peer acknowledges
  RcvWnd,      \* the receive window
  Sizes        \* how many chunks a write has, how many bytes a segment or read

ASSUME WiFiTcpAssumption ==
  /\ {SndBuf, RcvWnd} \subseteq Nat \ {0}
  /\ Sizes \subseteq Nat \ {0}
  /\ IsFiniteSet(Handles)
  /\ None \notin Contexts

VARIABLES
  ctx,       \* the contexts
  client,    \* _client of each handle, None for a null pointer
  unclaimed, \* the server's list of connections accepted and not handed out
  listening, \* the server has a listening control block
  call,      \* the call the sketch is in
  woken      \* esp_schedule has been called for it

vars == <<ctx, client, unclaimed, listening, call, woken>>

(* The call of a sketch: left is _datasource->available(), will what the current
   round of _write_some still has to send, sent its need_output, late that the
   timeout has passed.  The history of a write is in out, the pieces of the source
   that tcp_write has taken, in order, refused, those for which it has returned an
   error, and fetched, the last one that get_buffer has returned. *)
Call(op, h, phase) ==
  [op |-> op, h |-> h, c |-> None, phase |-> phase, stream |-> FALSE, size |-> 0,
   left |-> 0, will |-> 0, sent |-> FALSE, written |-> 0, late |-> FALSE,
   out |-> <<>>, refused |-> {}, fetched |-> 0, was |-> "none"]

NoCall == Call("none", None, "none")

(* A call that the station event has struck: its context is freed and its handle
   is null. *)
Stray(k) == [k EXCEPT !.op = "stray", !.was = k.op]

(* The sketch has used freed memory, or a null pointer.  What it does from then on
   is not defined, and not modelled. *)
Undefined == Call("undefined", None, "none")

Init ==
  /\ ctx = [c \in Contexts |-> NoContext]
  /\ client = [h \in Handles |-> None]
  /\ unclaimed = <<>>
  /\ listening = FALSE
  /\ call = NoCall
  /\ woken = FALSE

Idle == call.op = "none"

(* The sketch has given up the processor. *)
Yielded ==
  \/ Idle \/ call.phase = "wait"
  \/ call.phase = "fill" /\ call.stream /\ call.will > 0

Free == { c \in Contexts : ~ctx[c].live }

(* Setting a handle to context d, or to none: its old context loses a reference
   and the new one gets one. *)
Reassign(cs, old, d) ==
  LET dropped == IF old = None THEN cs ELSE [cs EXCEPT ![old] = unref(@)]
  IN  IF d = None THEN dropped ELSE [dropped EXCEPT ![d] = ref(@)]

-----------------------------------------------------------------------------
(* The sketch's calls that do not wait. *)

(* operator= from any handle, this one included, and stop or the destructor with
   None.  The reference to the old context is dropped first: when that frees the
   context that is then assigned, ref counts in freed memory. *)
Assign(h, d) ==
  /\ Idle
  /\ d \in {client[g] : g \in Handles} \cup {None}
  /\ LET dropped == Reassign(ctx, client[h], None) IN
     IF d # None /\ ~dropped[d].live
       THEN ctx' = dropped /\ call' = Undefined /\ UNCHANGED client
       ELSE /\ ctx' = Reassign(ctx, client[h], d)
            /\ client' = [client EXCEPT ![h] = d]
            /\ UNCHANGED call
  /\ UNCHANGED <<unclaimed, listening, woken>>

(* WiFiServer::available, its result assigned to a handle. *)
Claim(h) ==
  /\ Idle /\ unclaimed # <<>>
  /\ client' = [client EXCEPT ![h] = Head(unclaimed)]
  /\ ctx' = Reassign(ctx, client[h], Head(unclaimed))
  /\ unclaimed' = Tail(unclaimed)
  /\ UNCHANGED <<listening, call, woken>>

(* WiFiServer::begin and close; what has been accepted stays in the list. *)
Listen ==
  /\ Idle
  /\ listening' \in BOOLEAN
  /\ UNCHANGED <<ctx, client, unclaimed, call, woken>>

Read(h) ==
  /\ Idle /\ client[h] # None
  /\ \E n \in Sizes :
       /\ n <= getSize(ctx[client[h]])
       /\ ctx' = [ctx EXCEPT ![client[h]] = read(@, n)]
  /\ UNCHANGED <<client, unclaimed, listening, call, woken>>

Flush(h) ==
  /\ Idle /\ client[h] # None
  /\ ctx' = [ctx EXCEPT ![client[h]] = flush(@)]
  /\ UNCHANGED <<client, unclaimed, listening, call, woken>>

-----------------------------------------------------------------------------
(* connect: the delay ends with the callback, an error or the timeout. *)

Connect(h) ==
  /\ Idle
  /\ LET stopped == Reassign(ctx, client[h], None) IN
     \/ \E c \in { d \in Contexts : ~stopped[d].live } :
          /\ ctx' = [stopped EXCEPT ![c] =
                       ref([NewContext(SYN_SENT) EXCEPT !.connectPending = 1])]
          /\ client' = [client EXCEPT ![h] = c]
          /\ call' = [Call("connect", h, "wait") EXCEPT !.c = c]
     \/ \* no route, no memory, or tcp_connect refuses
        ctx' = stopped /\ client' = [client EXCEPT ![h] = None] /\ UNCHANGED call
  /\ woken' = FALSE
  /\ UNCHANGED <<unclaimed, listening>>

(* Bug: a connection that is not there in time is not given up. *)
ConnectEndsKeeps ==
  /\ call.op = "connect" /\ woken
  /\ ctx' = [ctx EXCEPT ![call.c].connectPending = 0]
  /\ IF ctx[call.c].pcb = ESTABLISHED
       THEN UNCHANGED client
       ELSE client' = [client EXCEPT ![call.h] = None]
  /\ call' = NoCall
  /\ woken' = FALSE
  /\ UNCHANGED <<unclaimed, listening>>

ConnectEnds ==
  /\ call.op = "connect" /\ woken
  /\ LET ended == [ctx[call.c] EXCEPT !.connectPending = 0] IN
     IF ended.pcb = ESTABLISHED
       THEN /\ ctx' = [ctx EXCEPT ![call.c] = ended]
            /\ UNCHANGED client
       ELSE /\ ctx' = [ctx EXCEPT ![call.c] = unref(Dropped(ended))]
            /\ client' = [client EXCEPT ![call.h] = None]
  /\ call' = NoCall
  /\ woken' = FALSE
  /\ UNCHANGED <<unclaimed, listening>>

-----------------------------------------------------------------------------
(* write: _write_from_source, a round of _write_some at a time. *)

(* A round begins: what the send buffer can take now. *)
Round(k) ==
  LET room == IF ctx[k.c].pcb = None THEN 0 ELSE SndBuf - ctx[k.c].queued
  IN  [k EXCEPT !.phase = "fill", !.sent = FALSE,
                !.will = IF room < k.left THEN room ELSE k.left]

Write(h) ==
  /\ Idle /\ client[h] # None /\ ctx[client[h]].pcb # None
  /\ \E n \in Sizes, s \in BOOLEAN :
       call' = Round([Call("write", h, "fill") EXCEPT
                        !.c = client[h], !.stream = s, !.size = n, !.left = n])
  /\ UNCHANGED <<ctx, client, unclaimed, listening, woken>>

(* The piece that get_buffer returns next: a buffer has it where its count stands,
   a stream gives each piece once. *)
Piece(k) == IF k.stream THEN k.fetched + 1 ELSE k.size - k.left + 1

(* A piece is fetched, taken by tcp_write and released. *)
Takes(k) ==
  [k EXCEPT !.left = k.left - 1, !.will = k.will - 1, !.sent = TRUE,
            !.written = k.written + 1,
            !.out = Append(k.out, Piece(k)), !.fetched = Piece(k)]

(* Bug: a piece that is refused is kept, to be fetched again in the next round. *)
RefusesKept(k) ==
  [k EXCEPT !.will = 0, !.refused = k.refused \cup {Piece(k)}, !.fetched = Piece(k)]

(* tcp_write has no memory: the piece is released all the same. *)
Refuses(k) ==
  [k EXCEPT !.left = k.left - 1, !.will = 0,
            !.refused = k.refused \cup {Piece(k)}, !.fetched = Piece(k)]

(* The connection has ended while the piece was fetched: it is not released. *)
Closes(k) == [k EXCEPT !.will = 0, !.sent = FALSE, !.fetched = Piece(k)]

Fill ==
  /\ call.op = "write" /\ call.phase = "fill" /\ call.will > 0
  /\ \/ /\ ctx[call.c].pcb = None
        /\ call' = Closes(call)
        /\ UNCHANGED ctx
     \/ /\ ctx[call.c].pcb # None
        /\ call' = Takes(call)
        /\ ctx' = [ctx EXCEPT ![call.c].queued = @ + 1]
     \/ /\ ctx[call.c].pcb # None
        /\ call' = Refuses(call)
        /\ UNCHANGED ctx
  /\ UNCHANGED <<client, unclaimed, listening, woken>>

(* The time is taken again after every round that has sent something. *)
Overdue == call.late /\ ~call.sent

GivesUp == call.left = 0 \/ Overdue \/ ctx[call.c].pcb = None

(* The round is over: the call returns _written, or waits to be woken. *)
RoundEnds ==
  /\ call.op = "write" /\ call.phase = "fill" /\ call.will = 0
  /\ IF GivesUp
       THEN /\ call' = NoCall
            /\ ctx' = [ctx EXCEPT ![call.c].sendWaiting = 0]
       ELSE /\ call' = [call EXCEPT !.phase = "wait", !.late = Overdue]
            /\ ctx' = [ctx EXCEPT ![call.c].sendWaiting = @ + 1]
  /\ woken' = FALSE
  /\ UNCHANGED <<client, unclaimed, listening>>

NextRound ==
  /\ call.op = "write" /\ call.phase = "wait" /\ woken
  /\ call' = Round(call)
  /\ woken' = FALSE
  /\ UNCHANGED <<ctx, client, unclaimed, listening>>

-----------------------------------------------------------------------------
(* peekBytes: wait for the bytes or the timeout, then look at what there is. *)

Peek(h) ==
  /\ Idle /\ client[h] # None
  /\ \E n \in Sizes : call' = [Call("peek", h, "wait") EXCEPT !.c = client[h], !.left = n]
  /\ UNCHANGED <<ctx, client, unclaimed, listening, woken>>

PeekEnds ==
  /\ call.op = "peek"
  /\ call.late \/ getSize(ctx[call.c]) >= call.left
  /\ call' = NoCall
  /\ woken' = FALSE
  /\ UNCHANGED <<ctx, client, unclaimed, listening>>

(* The timeout of the call passes; the delay of a connect has a timer. *)
Expire ==
  /\ call.op \notin {"none", "undefined"} /\ ~call.late
  /\ call' = [call EXCEPT !.late = TRUE]
  /\ woken' = (woken \/ call.op = "connect" \/ (call.op = "stray" /\ call.was = "connect"))
  /\ UNCHANGED <<ctx, client, unclaimed, listening>>

(* A call that has been struck goes on in freed memory: a connect after its delay, a
   write that has been woken or comes back from its stream, and peekBytes, which
   finds nothing available until its timeout, through the null pointer. *)
StrayGoesOn ==
  /\ call.op = "stray"
  /\ \/ call.was \in {"connect", "write"} /\ woken
     \/ call.was = "write" /\ call.phase = "fill"
     \/ call.was = "peek" /\ call.late
  /\ call' = Undefined
  /\ UNCHANGED <<ctx, client, unclaimed, listening, woken>>

-----------------------------------------------------------------------------
(* lwIP, while the sketch has yielded. *)

Sketch == <<client, listening, call>>

(* The three-way handshake is done: _connected. *)
Connected(c) ==
  /\ Yielded /\ ctx[c].pcb = SYN_SENT
  /\ ctx' = [ctx EXCEPT ![c].pcb = ESTABLISHED]
  /\ woken' = TRUE
  /\ UNCHANGED <<Sketch, unclaimed>>

(* The peer acknowledges a chunk: _sent. *)
Acknowledge(c) ==
  /\ Yielded /\ ctx[c].queued > 0
  /\ LET sent == [ctx[c] EXCEPT !.queued = @ - 1]
     IN  ctx' = [ctx EXCEPT ![c] = writeSomeFromCb(sent)]
  /\ woken' = (woken \/ WakesWriter(ctx[c]))
  /\ UNCHANGED <<Sketch, unclaimed>>

(* The slow timer of lwIP: _poll. *)
Poll(c) ==
  /\ Yielded /\ ctx[c].pcb # None
  /\ ctx' = [ctx EXCEPT ![c] = writeSomeFromCb(@)]
  /\ woken' = (woken \/ WakesWriter(ctx[c]))
  /\ UNCHANGED <<Sketch, unclaimed>>

(* A segment arrives that fits the window: _recv. *)
Receive(c) ==
  /\ Yielded /\ ctx[c].pcb = ESTABLISHED
  /\ \E n \in Sizes :
       /\ ctx[c].unacked + n <= RcvWnd
       /\ ctx' = [ctx EXCEPT ![c].rx = pbuf_cat(@, n), ![c].unacked = @ + n]
  /\ UNCHANGED <<Sketch, unclaimed, woken>>

(* The peer closes, _recv without a pbuf, or the connection fails, _error. *)
LoseConnection(c) ==
  /\ Yielded /\ ctx[c].pcb # None
  /\ ctx' = [ctx EXCEPT ![c] = Dropped(@)]
  /\ woken' = (woken \/ NotifiesError(ctx[c]))
  /\ UNCHANGED <<Sketch, unclaimed>>

(* WiFiServer::_accept. *)
Accept ==
  /\ Yielded /\ listening
  /\ \E c \in Free :
       /\ ctx' = [ctx EXCEPT ![c] = NewContext(ESTABLISHED)]
       /\ unclaimed' = Append(unclaimed, c)
  /\ UNCHANGED <<Sketch, woken>>

(* The station event: _eventCallback stops every client, also the one that a
   call of the sketch is using. *)
StationDisconnected ==
  /\ Yielded
  /\ client' = [h \in Handles |-> None]
  /\ ctx' = [ c \in Contexts |->
                IF \E h \in Handles : client[h] = c THEN NoContext ELSE ctx[c] ]
  /\ call' = IF call.op \in {"none", "stray"} THEN call ELSE Stray(call)
  /\ UNCHANGED <<unclaimed, listening, woken>>

-----------------------------------------------------------------------------
SketchNext ==
  \/ \E h \in Handles :
       \/ \E d \in Contexts \cup {None} : Assign(h, d)
       \/ Claim(h) \/ Read(h) \/ Flush(h) \/ Connect(h) \/ Write(h) \/ Peek(h)
  \/ Listen

(* The sketch goes on with the call it is in. *)
GoOn == ConnectEnds \/ Fill \/ RoundEnds \/ NextRound \/ PeekEnds \/ StrayGoesOn

Network ==
  \/ \E c \in Contexts :
       \/ Connected(c) \/ Acknowledge(c) \/ Poll(c) \/ Receive(c)
       \/ LoseConnection(c)
  \/ Accept \/ StationDisconnected

Gone == call = Undefined /\ UNCHANGED vars

Next == SketchNext \/ GoOn \/ Expire \/ Network \/ Gone

Spec == Init /\ [][Next]_vars

(* The scheduler runs the sketch, time passes and lwIP's timer calls back; the
   peer, the access point and the sketch's own wishes are not fair. *)
FairSpec ==
  /\ Spec
  /\ WF_vars(GoOn) /\ WF_vars(Expire)
  /\ \A c \in Contexts : WF_vars(Poll(c))

-----------------------------------------------------------------------------
(* A context is counted once for every handle on it, one that waits to be
   claimed has none, and memory is held by nothing else.  The context that a call
   waits in is one of those, as long as the station event has not struck. *)
Counted ==
  /\ \A c \in Contexts :
       /\ ctx[c].refcnt = Cardinality({ h \in Handles : client[h] = c })
       /\ ctx[c].live <=> ctx[c].refcnt > 0 \/ Contains(unclaimed, c)
  /\ \A i, j \in 1 .. Len(unclaimed) : i # j => unclaimed[i] # unclaimed[j]
  /\ \A c \in ToSet(unclaimed) : ctx[c].refcnt = 0
  /\ call.op \in {"connect", "write", "peek"} => client[call.h] = call.c

(* The sketch assigns the only handle on a connection to itself. *)
SelfAssigned ==
  \E h \in Handles : client[h] # None /\ Assign(h, client[h]) /\ ctx[client[h]].refcnt = 1

(* No copy, reassignment, lost connection or event leaks a connection.  Two things
   free one in use, and the sketch goes on in the freed memory: the only handle on
   a connection assigned to itself, and the station event in a call under way.
   There is no third, and up to there every context is counted right. *)
RefsMatch ==
  /\ [](call # Undefined => Counted)
  /\ [][call # Undefined /\ call' = Undefined => call.op = "stray" \/ SelfAssigned]_vars

(* The window of a connection is closed by what the sketch has not read, and by
   nothing else: it opens fully when the last byte is read or flushed, however
   the segments were cut, and never further.  Between two reads there is a byte
   left of the first pbuf: the loop of read makes progress, and no read goes
   beyond its segment. *)
WindowAccounted ==
  \A c \in Contexts :
    /\ 0 <= ctx[c].off
    /\ IF ctx[c].rx = <<>>
         THEN ctx[c].off = 0
         ELSE ctx[c].off < TotLen(ctx[c].rx) - After(ctx[c].rx, 1)
    /\ ctx[c].pcb # None =>
         ctx[c].unacked = TotLen(ctx[c].rx) /\ ctx[c].unacked <= RcvWnd

(* The two assertions of the code that are on waits: _connected finds a connect
   waiting, and a write finds no other write waiting on its context.  A writer that
   waits is counted once, which is what the callbacks that wake it test for. *)
AssertionsHold ==
  /\ \A c \in Contexts : ctx[c].pcb = SYN_SENT => ctx[c].connectPending = 1
  /\ \A c \in Contexts : ctx[c].sendWaiting <= 1
  /\ Idle => \A c \in Contexts :
       ctx[c].sendWaiting = 0 /\ ctx[c].connectPending = 0

(* The pieces of a write reach tcp_write in the order of the source and none of
   them twice, wherever the connection, the timeout or a yield cuts the write, and
   what it returns is how many were taken.  One that is missing among them was
   refused by tcp_write (a hole: what follows goes on without it), and a stream is
   read no further than what has been taken or refused, unless the connection
   ends while it is read.  The send buffer is never given more than it holds,
   although it was asked before the stream yielded. *)
SentInOrder ==
  /\ call.op = "write" =>
       LET done == call.size - call.left IN
       /\ \A i, j \in 1 .. Len(call.out) : i < j => call.out[i] < call.out[j]
       /\ ToSet(call.out) \cup call.refused = 1 .. done
       /\ ToSet(call.out) \cap call.refused = {}
       /\ call.written = Len(call.out)
       /\ call.fetched = done \/ (call.fetched = done + 1 /\ ctx[call.c].pcb = None)
  /\ \A c \in Contexts : ctx[c].queued <= SndBuf

(* Every call returns, whatever the peer does or fails to do, unless the station
   event strikes while the sketch is in it: then a write may sleep for good, and a
   connect or peekBytes comes to the end of its wait with nothing to stand on. *)
CallsReturn ==
  ~Idle ~> \/ Idle \/ call = Undefined
           \/ call.op = "stray" /\ call.was = "write"

=============================================================================
