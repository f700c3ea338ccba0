---------------------------- MODULE WiFiTcpProofs -----------------------------
(***************************************************************************)
(* The connections of a sketch are counted right up to the two calls that use   *)
(* freed memory, their windows are accounted for, the assertions on its waits    *)
(* hold and a write sends in order, for every number of handles and connections, *)
(* buffer, window and cut of the data.                                           *)
(***************************************************************************)
EXTENDS WiFiTcp, FiniteSetTheorems, SequenceTheorems, TLAPS

(* The tot_len of the pbufs of a chain: none is empty. *)
Chain(rx) ==
  /\ rx \in Seq(Nat \ {0})
  /\ \A i, j \in 1 .. Len(rx) : i < j => rx[j] < rx[i]

ContextRecords ==
  [live : BOOLEAN, pcb : {None, SYN_SENT, ESTABLISHED}, refcnt : Nat,
   rx : Seq(Nat \ {0}), off : Nat, unacked : Nat, queued : Nat,
   sendWaiting : 0 .. 1, connectPending : 0 .. 1]

(* What the sketch has not read yet begins in the first pbuf. *)
OffsetOK(x) ==
  IF x.rx = <<>> THEN x.off = 0 ELSE x.off < TotLen(x.rx) - After(x.rx, 1)

(* The part of the invariants that is about one context alone. *)
ContextOK(x) ==
  /\ x \in ContextRecords
  /\ Chain(x.rx) /\ OffsetOK(x)
  /\ x.queued <= SndBuf
  /\ x.pcb # None => x.unacked = TotLen(x.rx) /\ x.unacked <= RcvWnd
  /\ ~x.live => x = NoContext

CallRecords ==
  [op : {"none", "connect", "write", "peek", "stray", "undefined"},
   h : Handles \cup {None}, c : Contexts \cup {None},
   phase : {"none", "wait", "fill"}, stream : BOOLEAN,
   size : Nat, left : Nat, will : Nat, sent : BOOLEAN, written : Nat, late : BOOLEAN,
   out : Seq(Nat), refused : SUBSET Nat, fetched : Nat,
   was : {"none", "connect", "write", "peek"}]

TypeInv ==
  /\ ctx \in [Contexts -> ContextRecords]
  /\ client \in [Handles -> Contexts \cup {None}]
  /\ unclaimed \in Seq(Contexts)
  /\ listening \in BOOLEAN
  /\ call \in CallRecords
  /\ woken \in BOOLEAN

ContextsOK == \A c \in Contexts : ContextOK(ctx[c])

(* The call a sketch is in is on a context that its handle still holds. *)
CallOK ==
  /\ call.op # "undefined"
  /\ call.op = "none" => call = NoCall
  /\ call.op \in {"connect", "write", "peek"} =>
       call.h \in Handles /\ call.c \in Contexts /\ client[call.h] = call.c
  /\ call.op \in {"connect", "peek"} => call.phase = "wait"
  /\ call.op = "write" => call.phase \in {"wait", "fill"}

(* What SentInOrder says of what has gone out, of any call. *)
Ordered(k) ==
  /\ \A i, j \in 1 .. Len(k.out) : i < j => k.out[i] < k.out[j]
  /\ ToSet(k.out) \cup k.refused = 1 .. k.size - k.left
  /\ ToSet(k.out) \cap k.refused = {}
  /\ k.written = Len(k.out)

(* A round never takes more than there is, nor more than the buffer holds, and a
   piece that is fetched and not settled is the last thing a write does. *)
RoundOK ==
  call.op = "write" =>
    /\ call.left <= call.size /\ call.will <= call.left
    /\ Ordered(call)
    /\ \/ call.fetched = call.size - call.left
       \/ /\ call.fetched = call.size - call.left + 1
          /\ call.phase = "fill" /\ call.will = 0 /\ ctx[call.c].pcb = None
    /\ call.phase = "fill" /\ ctx[call.c].pcb # None =>
         ctx[call.c].queued + call.will <= SndBuf

(* Only the call in progress waits on a context, and the writer that has been
   woken on a connection that is still there is not counted any more. *)
WaitsOK ==
  \A c \in Contexts :
    /\ ctx[c].pcb = SYN_SENT => call.op = "connect" /\ call.c = c
    /\ ctx[c].connectPending = 1 <=> call.op = "connect" /\ call.c = c
    /\ ctx[c].sendWaiting = 1 => call.op = "write" /\ call.c = c
    /\ ctx[c].sendWaiting = 1 /\ ctx[c].pcb # None => call.phase = "wait" /\ ~woken

(* While the sketch stands on memory of its own. *)
Working == TypeInv /\ ContextsOK /\ Counted /\ CallOK /\ RoundOK /\ WaitsOK

(* What is left of it after that: nothing moves any more. *)
Struck ==
  /\ call = Undefined /\ TypeInv /\ ContextsOK
  /\ \A c \in Contexts : ctx[c].pcb = SYN_SENT => ctx[c].connectPending = 1

IInv == Working \/ Struck

-----------------------------------------------------------------------------
(* The chain of pbufs. *)

LEMMA TotLenNat ==
  ASSUME NEW rx, Chain(rx)
  PROVE  /\ Len(rx) \in Nat
         /\ \A k \in 0 .. Len(rx) : After(rx, k) \in Nat
         /\ TotLen(rx) \in Nat
         /\ \A k \in 0 .. Len(rx) : After(rx, k) <= TotLen(rx)
         /\ \A k \in 0 .. Len(rx) - 1 : After(rx, k) = rx[k + 1] /\ After(rx, k) > 0
         /\ \A j, k \in 0 .. Len(rx) : j < k => After(rx, k) < After(rx, j)
<1>1. rx \in Seq(Nat \ {0}) /\ Len(rx) \in Nat
  BY DEF Chain
<1>2. \A i \in 1 .. Len(rx) : rx[i] \in Nat /\ rx[i] > 0
  BY <1>1
<1>3. \A k \in 0 .. Len(rx) : After(rx, k) \in Nat
  BY <1>1, <1>2 DEF After
<1>4. \A k \in 0 .. Len(rx) - 1 : After(rx, k) = rx[k + 1] /\ After(rx, k) > 0
  BY <1>1, <1>2 DEF After
<1>5. ASSUME NEW j \in 0 .. Len(rx), NEW k \in 0 .. Len(rx), j < k
      PROVE  After(rx, k) < After(rx, j)
  <2>1. After(rx, j) = rx[j + 1] /\ After(rx, j) > 0
    BY <1>1, <1>4, <1>5
  <2>2. CASE k = Len(rx)
    BY <2>1, <2>2, <1>1 DEF After
  <2>3. CASE k < Len(rx)
    <3>1. After(rx, k) = rx[k + 1]
      BY <2>3 DEF After
    <3>2. j + 1 \in 1 .. Len(rx) /\ k + 1 \in 1 .. Len(rx) /\ j + 1 < k + 1
      BY <1>1, <1>5, <2>3
    <3> QED
      BY <2>1, <3>1, <3>2 DEF Chain
  <2> QED
    BY <1>1, <2>2, <2>3
<1>6. \A k \in 0 .. Len(rx) : After(rx, k) <= TotLen(rx)
  <2> SUFFICES ASSUME NEW k \in 0 .. Len(rx) PROVE After(rx, k) <= After(rx, 0)
    BY DEF TotLen
  <2>1. 0 \in 0 .. Len(rx)
    BY <1>1
  <2> QED
    BY <2>1, <1>1, <1>3, <1>5
<1> QED
  BY <1>1, <1>3, <1>4, <1>5, <1>6 DEF TotLen

(* The chain of no pbuf. *)
LEMMA EmptyChain ==
  Chain(<<>>) /\ TotLen(<<>>) = 0 /\ <<>> \in Seq(Nat \ {0}) /\ Len(<<>>) = 0
<1>1. <<>> \in Seq(Nat \ {0}) /\ Len(<<>>) = 0
  OBVIOUS
<1> QED
  BY <1>1 DEF Chain, TotLen, After

(* What pbuf_cat makes: a segment of n bytes at the end, in a pbuf of its own. *)
LEMMA CatChain ==
  ASSUME NEW rx, Chain(rx), NEW n \in Nat \ {0}
  PROVE  LET new == pbuf_cat(rx, n) IN
         /\ Chain(new)
         /\ Len(new) = Len(rx) + 1
         /\ \A k \in 0 .. Len(rx) : After(new, k) = After(rx, k) + n
<1> DEFINE new == pbuf_cat(rx, n)
<1>0. Len(rx) \in Nat /\ \A k \in 0 .. Len(rx) : After(rx, k) \in Nat
  BY TotLenNat
<1>1. new = [k \in 1 .. Len(rx) + 1 |-> After(rx, k - 1) + n]
  BY DEF pbuf_cat
<1>2. \A k \in 1 .. Len(rx) + 1 : After(rx, k - 1) + n \in Nat \ {0}
  BY <1>0
<1>3. new \in Seq(Nat \ {0}) /\ Len(new) = Len(rx) + 1
  <2>1. new \in [1 .. Len(rx) + 1 -> Nat \ {0}]
    BY <1>1, <1>2
  <2> HIDE DEF new
  <2>2. new \in Seq(Nat \ {0})
    BY <2>1, <1>0, IsASeq
  <2>3. DOMAIN new = 1 .. Len(rx) + 1 /\ DOMAIN new = 1 .. Len(new) /\ Len(new) \in Nat
    BY <2>1, <2>2, LenProperties
  <2> QED
    BY <2>2, <2>3, <1>0
<1>4. \A k \in 1 .. Len(rx) + 1 : new[k] = After(rx, k - 1) + n
  BY <1>1
<1> HIDE DEF new
<1>5. ASSUME NEW k \in 0 .. Len(rx)
      PROVE  After(new, k) = After(rx, k) + n
  <2>1. k < Len(new) /\ k + 1 \in 1 .. Len(rx) + 1 /\ (k + 1) - 1 = k
    BY <1>0, <1>3
  <2> QED
    BY <2>1, <1>4 DEF After
<1>6. ASSUME NEW i \in 1 .. Len(new), NEW j \in 1 .. Len(new), i < j
      PROVE  new[j] < new[i]
  <2>1. i - 1 \in 0 .. Len(rx) /\ j - 1 \in 0 .. Len(rx) /\ i - 1 < j - 1
    BY <1>0, <1>3, <1>6
  <2>2. After(rx, j - 1) < After(rx, i - 1)
    BY <2>1, TotLenNat
  <2>3. new[i] = After(rx, i - 1) + n /\ new[j] = After(rx, j - 1) + n
    BY <1>3, <1>4
  <2>4. After(rx, i - 1) \in Nat /\ After(rx, j - 1) \in Nat
    BY <2>1, <1>0
  <2> HIDE <1>0
  <2> QED
    BY <2>2, <2>3, <2>4
<1>7. Chain(new)
  BY <1>3, <1>6 DEF Chain
<1> QED
  BY <1>3, <1>5, <1>7 DEF new

(* What is left of a chain when its first k pbufs are gone. *)
LEMMA RestChain ==
  ASSUME NEW rx, Chain(rx), NEW k \in 0 .. Len(rx)
  PROVE  LET new == SubSeq(rx, k + 1, Len(rx)) IN
         /\ Chain(new)
         /\ Len(new) = Len(rx) - k
         /\ \A i \in 0 .. Len(rx) - k : After(new, i) = After(rx, k + i)
<1> DEFINE new == SubSeq(rx, k + 1, Len(rx))
<1>0. rx \in Seq(Nat \ {0}) /\ Len(rx) \in Nat
  BY DEF Chain
<1>1. /\ new \in Seq(Nat \ {0}) /\ Len(new) = Len(rx) - k
      /\ \A i \in 1 .. Len(rx) - k : new[i] = rx[k + i]
  <2>1. \A i \in k + 1 .. Len(rx) : rx[i] \in Nat \ {0}
    BY <1>0
  <2>2. /\ new \in Seq(Nat \ {0})
        /\ Len(new) = IF k + 1 <= Len(rx) THEN Len(rx) - (k + 1) + 1 ELSE 0
        /\ \A i \in 1 .. Len(rx) - (k + 1) + 1 : new[i] = rx[k + 1 + i - 1]
    BY <1>0, SubSeqProperties
  <2> HIDE DEF new
  <2>3. Len(rx) - (k + 1) + 1 = Len(rx) - k /\ (k + 1 <= Len(rx) \/ Len(rx) - k = 0)
    BY <1>0
  <2>4. Len(new) = Len(rx) - k
    BY <2>2, <2>3
  <2>5. ASSUME NEW i \in 1 .. Len(rx) - k
        PROVE  new[i] = rx[k + i]
    <3>1. new[i] = rx[k + 1 + i - 1]
      BY <2>2, <2>3
    <3>2. k + 1 + i - 1 = k + i
      OBVIOUS
    <3> QED
      BY <3>1, <3>2
  <2> QED
    BY <2>2, <2>4, <2>5
<1> HIDE DEF new
<1>2. Chain(new)
  <2>1. ASSUME NEW i \in 1 .. Len(new), NEW j \in 1 .. Len(new), i < j
        PROVE  new[j] < new[i]
    <3>1. new[i] = rx[k + i] /\ new[j] = rx[k + j]
      BY <1>0, <1>1
    <3>2. k + i \in 1 .. Len(rx) /\ k + j \in 1 .. Len(rx) /\ k + i < k + j
      BY <1>0, <1>1, <2>1
    <3> QED
      BY <3>1, <3>2 DEF Chain
  <2> QED
    BY <1>1, <2>1 DEF Chain
<1>3. ASSUME NEW i \in 0 .. Len(rx) - k
      PROVE  After(new, i) = After(rx, k + i)
  <2>1. i < Len(new) <=> k + i < Len(rx)
    BY <1>0, <1>1
  <2>2. i < Len(new) => new[i + 1] = rx[k + i + 1]
    <3>1. i < Len(new) => i + 1 \in 1 .. Len(rx) - k
      BY <1>0, <1>1
    <3>2. k + (i + 1) = k + i + 1
      BY <1>0
    <3> QED
      BY <3>1, <3>2, <1>1
  <2> QED
    BY <2>1, <2>2 DEF After
<1> QED
  BY <1>1, <1>2, <1>3 DEF new

-----------------------------------------------------------------------------
(* The operations on one context. *)

(* What an operation on the received data leaves alone. *)
Control(x) ==
  <<x.live, x.pcb, x.refcnt, x.queued, x.sendWaiting, x.connectPending>>

(* What is said of the constants. *)
LEMMA Constants ==
  /\ SndBuf \in Nat /\ RcvWnd \in Nat /\ SndBuf > 0 /\ RcvWnd > 0
  /\ Sizes \subseteq Nat \ {0}
  /\ IsFiniteSet(Handles)
  /\ None \notin Contexts
  BY WiFiTcpAssumption

(* A record that keeps what ContextOK speaks of except for the counts. *)
LEMMA CountsFree ==
  ASSUME NEW x, ContextOK(x), NEW y, y \in ContextRecords, y.live,
         y.rx = x.rx, y.off = x.off, y.queued <= SndBuf,
         y.pcb # None => x.pcb # None /\ y.unacked = x.unacked
  PROVE  ContextOK(y)
  BY DEF ContextOK, OffsetOK

LEMMA FreshContext ==
  /\ ContextOK(NoContext)
  /\ NoContext.live = FALSE /\ NoContext.pcb = None /\ NoContext.refcnt = 0
  /\ NoContext.sendWaiting = 0 /\ NoContext.connectPending = 0 /\ NoContext.queued = 0
<1>1. NoContext \in ContextRecords
  BY EmptyChain DEF NoContext, ContextRecords
<1> QED
  BY <1>1, EmptyChain, Constants DEF NoContext, ContextOK, OffsetOK

LEMMA NewContextOK ==
  ASSUME NEW state \in {SYN_SENT, ESTABLISHED}
  PROVE  /\ ContextOK(NewContext(state))
         /\ NewContext(state) = [NoContext EXCEPT !.live = TRUE, !.pcb = state]
         /\ NewContext(state).live = TRUE /\ NewContext(state).pcb = state
         /\ NewContext(state).refcnt = 0
         /\ NewContext(state).sendWaiting = 0 /\ NewContext(state).connectPending = 0
<1> DEFINE y == NewContext(state)
<1>1. NoContext \in ContextRecords /\ ContextOK(NoContext)
  BY FreshContext DEF ContextOK
<1>2. y = [NoContext EXCEPT !.live = TRUE, !.pcb = state]
  BY DEF NewContext
<1>3. y \in ContextRecords
  BY <1>1, <1>2 DEF ContextRecords
<1>4. /\ y.live = TRUE /\ y.pcb = state /\ y.refcnt = NoContext.refcnt
      /\ y.rx = NoContext.rx /\ y.off = NoContext.off
      /\ y.unacked = NoContext.unacked /\ y.queued = NoContext.queued
      /\ y.sendWaiting = NoContext.sendWaiting
      /\ y.connectPending = NoContext.connectPending
  BY <1>1, <1>2 DEF ContextRecords
<1>5. NoContext.rx = <<>> /\ NoContext.off = 0 /\ NoContext.unacked = 0
  BY DEF NoContext
<1> HIDE DEF y
<1>6. ContextOK(y)
  BY <1>3, <1>4, <1>5, FreshContext, EmptyChain, Constants DEF ContextOK, OffsetOK
<1> QED
  BY <1>2, <1>4, <1>6, FreshContext DEF y

LEMMA RefOK ==
  ASSUME NEW x, ContextOK(x), x.live
  PROVE  /\ ContextOK(ref(x))
         /\ ref(x) = [x EXCEPT !.refcnt = x.refcnt + 1]
         /\ ref(x).refcnt = x.refcnt + 1
         /\ ref(x).live /\ ref(x).pcb = x.pcb /\ ref(x).queued = x.queued
         /\ ref(x).sendWaiting = x.sendWaiting
         /\ ref(x).connectPending = x.connectPending
<1>1. ref(x) \in ContextRecords
  BY DEF ref, ContextRecords, ContextOK
<1>2. /\ ref(x).refcnt = x.refcnt + 1
      /\ ref(x).live /\ ref(x).pcb = x.pcb /\ ref(x).queued = x.queued
      /\ ref(x).sendWaiting = x.sendWaiting
      /\ ref(x).connectPending = x.connectPending
      /\ ref(x).rx = x.rx /\ ref(x).off = x.off /\ ref(x).unacked = x.unacked
  BY DEF ref, ContextRecords, ContextOK
<1>3. x.queued <= SndBuf
  BY DEF ContextOK
<1>4. ContextOK(ref(x))
  BY <1>1, <1>2, <1>3, CountsFree
<1> QED
  BY <1>2, <1>4 DEF ref

(* Letting go of a handle frees the context or leaves it as it is. *)
LEMMA UnrefOK ==
  ASSUME NEW x, ContextOK(x), x.live, x.refcnt > 0
  PROVE  /\ ContextOK(unref(x))
         /\ x.refcnt = 1 => unref(x) = NoContext
         /\ x.refcnt # 1 =>
              /\ unref(x) = [x EXCEPT !.refcnt = x.refcnt - 1]
              /\ unref(x).refcnt = x.refcnt - 1
              /\ unref(x).live /\ unref(x).pcb = x.pcb /\ unref(x).queued = x.queued
              /\ unref(x).sendWaiting = x.sendWaiting
              /\ unref(x).connectPending = x.connectPending
<1>1. CASE x.refcnt = 1
  BY <1>1, FreshContext DEF unref
<1>2. CASE x.refcnt # 1
  <2>1. unref(x) = [x EXCEPT !.refcnt = x.refcnt - 1]
    BY <1>2 DEF unref
  <2>2. unref(x) \in ContextRecords
    <3>1. x \in ContextRecords /\ x.refcnt \in Nat
      BY DEF ContextRecords, ContextOK
    <3>2. x.refcnt - 1 \in Nat
      BY <3>1
    <3> QED
      BY <2>1, <3>1, <3>2 DEF ContextRecords
  <2>3. /\ unref(x).refcnt = x.refcnt - 1
        /\ unref(x).live /\ unref(x).pcb = x.pcb /\ unref(x).queued = x.queued
        /\ unref(x).sendWaiting = x.sendWaiting
        /\ unref(x).connectPending = x.connectPending
        /\ unref(x).rx = x.rx /\ unref(x).off = x.off /\ unref(x).unacked = x.unacked
    BY <2>1 DEF ContextRecords, ContextOK
  <2>4. x.queued <= SndBuf
    BY DEF ContextOK
  <2>5. ContextOK(unref(x))
    BY <2>2, <2>3, <2>4, CountsFree
  <2> QED
    BY <1>2, <2>1, <2>3, <2>5
<1> QED
  BY <1>1, <1>2

(* The pbufs used up are the first ones. *)
LEMMA UsedUpFirst ==
  ASSUME NEW x, ContextOK(x), NEW n \in Nat
  PROVE  LET used == Cardinality(UsedUp(x, n)) IN
         /\ used \in 0 .. Len(x.rx)
         /\ UsedUp(x, n) = 1 .. used
<1> DEFINE U == UsedUp(x, n)
           used == Cardinality(U)
<1>0. /\ Chain(x.rx) /\ Len(x.rx) \in Nat /\ x.off \in Nat
      /\ TotLen(x.rx) \in Nat
      /\ \A k \in 0 .. Len(x.rx) : After(x.rx, k) \in Nat
  BY TotLenNat DEF ContextOK, ContextRecords
<1>1. U \in SUBSET (1 .. Len(x.rx))
  BY DEF UsedUp
<1>2. /\ IsFiniteSet(1 .. Len(x.rx)) /\ Cardinality(1 .. Len(x.rx)) = Len(x.rx)
  <2>1. 1 \in Int /\ Len(x.rx) \in Int
    BY <1>0
  <2> HIDE <1>1
  <2>2. /\ IsFiniteSet(1 .. Len(x.rx))
        /\ Cardinality(1 .. Len(x.rx)) = IF 1 > Len(x.rx) THEN 0 ELSE Len(x.rx) - 1 + 1
    BY <2>1, FS_Interval
  <2> QED
    BY <2>2, <1>0
<1>3. IsFiniteSet(U) /\ used <= Len(x.rx) /\ used \in Nat
  BY <1>1, <1>2, FS_Subset, FS_CardinalityType
<1>4. ASSUME NEW k \in U, NEW i \in 1 .. k
      PROVE  i \in U
  <2>1. k \in 1 .. Len(x.rx) /\ i \in 1 .. Len(x.rx)
    BY <1>0, <1>1
  <2>2. After(x.rx, k) <= After(x.rx, i)
    <3>1. i = k \/ i < k
      BY <2>1
    <3>2. i \in 0 .. Len(x.rx) /\ k \in 0 .. Len(x.rx)
      BY <2>1
    <3> QED
      BY <3>1, <3>2, <1>0, TotLenNat
  <2>3. TotLen(x.rx) - After(x.rx, k) <= x.off + n
    BY DEF UsedUp
  <2>4. TotLen(x.rx) - After(x.rx, i) <= x.off + n
    BY <2>1, <2>2, <2>3, <1>0
  <2> QED
    BY <2>1, <2>4 DEF UsedUp
<1> HIDE DEF U, used
<1>5. ASSUME NEW k \in U
      PROVE  k <= used
  <2>1. k \in Nat /\ k > 0
    BY <1>1, <1>0
  <2>2. 1 .. k \in SUBSET U
    BY <1>4
  <2>3. Cardinality(1 .. k) = k
    <3>1. 1 \in Int /\ k \in Int
      BY <2>1
    <3>2. Cardinality(1 .. k) = IF 1 > k THEN 0 ELSE k - 1 + 1
      BY <3>1, FS_Interval
    <3> QED
      BY <3>2, <2>1
  <2>4. Cardinality(1 .. k) <= used
    BY <2>2, <1>3, FS_Subset DEF used
  <2> QED
    BY <2>3, <2>4
<1>6. U \in SUBSET (1 .. used)
  BY <1>0, <1>1, <1>5, <1>3
<1>7. IsFiniteSet(1 .. used) /\ Cardinality(1 .. used) = used
  <2>1. 1 \in Int /\ used \in Int
    BY <1>3
  <2>2. /\ IsFiniteSet(1 .. used)
        /\ Cardinality(1 .. used) = IF 1 > used THEN 0 ELSE used - 1 + 1
    BY <2>1, FS_Interval
  <2> QED
    BY <2>2, <1>3
<1>8. U = 1 .. used
  BY <1>6, <1>7, FS_Subset DEF used
<1>9. used \in 0 .. Len(x.rx)
  BY <1>0, <1>3
<1> QED
  BY <1>8, <1>9 DEF U, used

(* A read takes n bytes from the front and gives back what it has used up. *)
LEMMA ReadOK ==
  ASSUME NEW x, ContextOK(x), x.live, NEW n \in Nat \ {0}, n <= getSize(x)
  PROVE  ContextOK(read(x, n)) /\ Control(read(x, n)) = Control(x)
<1> DEFINE y == read(x, n)
           used == Cardinality(UsedUp(x, n))
           gone == TotLen(x.rx) - After(x.rx, used)
           rest == SubSeq(x.rx, used + 1, Len(x.rx))
<1>1. /\ x \in ContextRecords /\ Chain(x.rx) /\ OffsetOK(x) /\ x.queued <= SndBuf
      /\ x.pcb # None => x.unacked = TotLen(x.rx) /\ x.unacked <= RcvWnd
      /\ x.off \in Nat /\ x.unacked \in Nat
  BY DEF ContextOK, ContextRecords
<1>2. /\ Len(x.rx) \in Nat /\ TotLen(x.rx) \in Nat
      /\ \A k \in 0 .. Len(x.rx) : After(x.rx, k) \in Nat /\ After(x.rx, k) <= TotLen(x.rx)
  BY <1>1, TotLenNat
<1>3. used \in 0 .. Len(x.rx) /\ UsedUp(x, n) = 1 .. used
  BY UsedUpFirst
<1>4. y = [x EXCEPT !.rx = rest, !.off = x.off + n - gone, !.unacked = Recved(x, gone)]
  BY DEF read
<1> HIDE DEF used, y
<1>5. /\ Chain(rest) /\ Len(rest) = Len(x.rx) - used
      /\ \A i \in 0 .. Len(x.rx) - used : After(rest, i) = After(x.rx, used + i)
  BY <1>1, <1>3, RestChain
<1>6. TotLen(rest) = After(x.rx, used)
  <2>1. 0 \in 0 .. Len(x.rx) - used /\ used + 0 = used
    BY <1>2, <1>3
  <2>2. After(rest, 0) = After(x.rx, used + 0)
    BY <2>1, <1>5
  <2> QED
    BY <2>1, <2>2 DEF TotLen
<1>7. gone \in Nat /\ After(x.rx, used) \in Nat
  BY <1>2, <1>3
<1> DEFINE off == x.off + n - gone
<1>8. off \in Nat
  <2>1. CASE used = 0
    <3>1. gone = 0
      BY <2>1, <1>2 DEF TotLen
    <3> QED
      BY <3>1, <1>1
  <2>2. CASE used # 0
    <3>1. used \in UsedUp(x, n)
      BY <2>2, <1>2, <1>3
    <3>2. gone <= x.off + n
      BY <3>1 DEF UsedUp
    <3> QED
      BY <3>2, <1>1, <1>7
  <2> QED
    BY <2>1, <2>2
<1>9. rest = <<>> <=> used = Len(x.rx)
  <2>1. rest = <<>> <=> Len(rest) = 0
    <3>1. rest \in Seq(Nat \ {0})
      BY <1>5 DEF Chain
    <3> HIDE DEF rest
    <3> QED
      BY <3>1, EmptySeq
  <2> HIDE DEF rest
  <2> QED
    BY <2>1, <1>2, <1>3, <1>5
<1>10. IF rest = <<>> THEN off = 0 ELSE off < TotLen(rest) - After(rest, 1)
  <2>1. CASE used = Len(x.rx)
    <3>1. After(x.rx, used) = 0
      BY <2>1, <1>2 DEF After
    <3>2. off = 0
      BY <3>1, <1>1, <1>2, <1>8 DEF getSize
    <3> QED
      BY <3>2, <1>9, <2>1
  <2>2. CASE used # Len(x.rx)
    <3>1. used + 1 \in 1 .. Len(x.rx) /\ used + 1 \notin 1 .. used
      BY <1>2, <1>3, <2>2
    <3>2. used + 1 \notin UsedUp(x, n)
      BY <3>1, <1>3
    <3>3. ~(TotLen(x.rx) - After(x.rx, used + 1) <= x.off + n)
      BY <3>1, <3>2 DEF UsedUp
    <3>4. After(rest, 1) = After(x.rx, used + 1)
      <4>1. 1 \in 0 .. Len(x.rx) - used
        BY <1>2, <1>3, <2>2
      <4> QED
        BY <4>1, <1>5
    <3>5. After(x.rx, used + 1) \in Nat
      BY <3>1, <1>2
    <3>6. off < TotLen(rest) - After(rest, 1)
      BY <3>3, <3>4, <3>5, <1>1, <1>2, <1>6, <1>7
    <3> QED
      BY <3>6, <1>9, <2>2
  <2> QED
    BY <2>1, <2>2
<1> DEFINE unacked == Recved(x, gone)
<1>11. unacked \in Nat /\ (x.pcb # None => unacked = TotLen(rest) /\ unacked <= RcvWnd)
  <2>1. CASE x.pcb = None
    BY <2>1, <1>1 DEF Recved
  <2>2. CASE x.pcb # None
    <3>1. unacked = TotLen(x.rx) - gone
      BY <2>2, <1>1 DEF Recved
    <3>2. unacked = After(x.rx, used)
      BY <3>1, <1>2, <1>7
    <3> QED
      BY <3>2, <1>1, <1>2, <1>3, <1>6, <1>7, <2>2, Constants
  <2> QED
    BY <2>1, <2>2
<1>12. rest \in Seq(Nat \ {0})
  BY <1>5 DEF Chain
<1>13. y = [x EXCEPT !.rx = rest, !.off = off, !.unacked = unacked]
  BY <1>4
<1> HIDE DEF rest, off, unacked, gone
<1>14. /\ y \in ContextRecords
       /\ y.live = x.live /\ y.pcb = x.pcb /\ y.refcnt = x.refcnt /\ y.queued = x.queued
       /\ y.sendWaiting = x.sendWaiting /\ y.connectPending = x.connectPending
       /\ y.rx = rest /\ y.off = off /\ y.unacked = unacked
  BY <1>1, <1>8, <1>11, <1>12, <1>13 DEF ContextRecords
<1>15. ContextOK(y)
  BY <1>1, <1>5, <1>10, <1>11, <1>14 DEF ContextOK, OffsetOK
<1> QED
  BY <1>14, <1>15 DEF Control, y

(* A flush gives everything back. *)
LEMMA FlushOK ==
  ASSUME NEW x, ContextOK(x), x.live
  PROVE  ContextOK(flush(x)) /\ Control(flush(x)) = Control(x)
<1> DEFINE y == flush(x)
           unacked == Recved(x, TotLen(x.rx))
<1>1. /\ x \in ContextRecords /\ x.unacked \in Nat /\ x.queued <= SndBuf
      /\ x.pcb # None => x.unacked = TotLen(x.rx)
  BY DEF ContextOK, ContextRecords
<1>2. TotLen(x.rx) \in Nat
  BY TotLenNat DEF ContextOK
<1>3. unacked \in Nat /\ (x.pcb # None => unacked = 0)
  BY <1>1, <1>2 DEF Recved
<1>4. y = [x EXCEPT !.unacked = unacked, !.rx = <<>>, !.off = 0]
  BY DEF flush
<1> HIDE DEF unacked, y
<1>5. /\ y \in ContextRecords
      /\ y.live = x.live /\ y.pcb = x.pcb /\ y.refcnt = x.refcnt /\ y.queued = x.queued
      /\ y.sendWaiting = x.sendWaiting /\ y.connectPending = x.connectPending
      /\ y.rx = <<>> /\ y.off = 0 /\ y.unacked = unacked
  BY <1>1, <1>3, <1>4, EmptyChain DEF ContextRecords
<1>6. ContextOK(y)
  BY <1>1, <1>3, <1>5, EmptyChain, Constants DEF ContextOK, OffsetOK
<1> QED
  BY <1>5, <1>6 DEF Control, y

(* A segment of n bytes that fits the window. *)
LEMMA ReceiveOK ==
  ASSUME NEW x, ContextOK(x), x.pcb = ESTABLISHED, NEW n \in Nat \ {0},
         x.unacked + n <= RcvWnd,
         NEW y, y = [x EXCEPT !.rx = pbuf_cat(@, n), !.unacked = @ + n]
  PROVE  ContextOK(y) /\ Control(y) = Control(x)
<1> DEFINE new == pbuf_cat(x.rx, n)
<1>1. /\ x \in ContextRecords /\ Chain(x.rx) /\ OffsetOK(x) /\ x.queued <= SndBuf
      /\ x.unacked \in Nat /\ x.off \in Nat /\ x.live
      /\ x.unacked = TotLen(x.rx)
  BY FreshContext DEF ContextOK, ContextRecords, None, ESTABLISHED
<1>2. /\ Chain(new) /\ Len(new) = Len(x.rx) + 1
      /\ \A k \in 0 .. Len(x.rx) : After(new, k) = After(x.rx, k) + n
  BY <1>1, CatChain
<1>3. /\ Len(x.rx) \in Nat /\ \A k \in 0 .. Len(x.rx) : After(x.rx, k) \in Nat
  BY <1>1, TotLenNat
<1>4. y = [x EXCEPT !.rx = new, !.unacked = x.unacked + n]
  BY <1>1 DEF ContextRecords
<1> HIDE DEF new
<1>5. new \in Seq(Nat \ {0}) /\ new # <<>> /\ x.unacked + n \in Nat
  BY <1>1, <1>2, <1>3, EmptyChain DEF Chain
<1>6. TotLen(new) = TotLen(x.rx) + n /\ TotLen(x.rx) \in Nat
  BY <1>2, <1>3 DEF TotLen
<1>7. x.off < TotLen(new) - After(new, 1)
  <2>1. CASE x.rx = <<>>
    <3>1. x.off = 0 /\ Len(x.rx) = 0
      BY <2>1, <1>1, EmptyChain DEF OffsetOK
    <3>2. After(new, 1) = 0
      BY <3>1, <1>2 DEF After
    <3> QED
      BY <3>1, <3>2, <1>6
  <2>2. CASE x.rx # <<>>
    <3>1. 1 \in 0 .. Len(x.rx)
      BY <2>2, <1>1, <1>3, EmptySeq DEF Chain
    <3>2. After(new, 1) = After(x.rx, 1) + n /\ After(x.rx, 1) \in Nat
      BY <3>1, <1>2, <1>3
    <3> QED
      BY <3>2, <2>2, <1>1, <1>6 DEF OffsetOK
  <2> QED
    BY <2>1, <2>2
<1>8. /\ y \in ContextRecords
      /\ y.live = x.live /\ y.pcb = x.pcb /\ y.refcnt = x.refcnt /\ y.queued = x.queued
      /\ y.sendWaiting = x.sendWaiting /\ y.connectPending = x.connectPending
      /\ y.rx = new /\ y.off = x.off /\ y.unacked = x.unacked + n
  <2> HIDE <1>1
  <2>1. x \in ContextRecords
    BY <1>1
  <2> QED
    BY <2>1, <1>4, <1>5 DEF ContextRecords
<1>9. OffsetOK(y)
  BY <1>5, <1>7, <1>8 DEF OffsetOK
<1>10. y.unacked = TotLen(y.rx) /\ y.unacked <= RcvWnd
  BY <1>1, <1>6, <1>8
<1>11. ContextOK(y)
  BY <1>1, <1>2, <1>8, <1>9, <1>10 DEF ContextOK
<1> QED
  BY <1>8, <1>11 DEF Control

(* A context on which one of the counters has changed. *)
LEMMA CountersOK ==
  ASSUME NEW x, ContextOK(x), x.live, NEW y,
         \/ \E p \in 0 .. 1 : y = [x EXCEPT !.connectPending = p]
         \/ \E s \in 0 .. 1 : y = [x EXCEPT !.sendWaiting = s]
         \/ \E q \in Nat : q <= SndBuf /\ y = [x EXCEPT !.queued = q]
  PROVE  ContextOK(y) /\ y.live = x.live /\ y.live /\ y.refcnt = x.refcnt /\ y.pcb = x.pcb
<1>1. x \in ContextRecords /\ x.queued <= SndBuf
  BY DEF ContextOK
<1>2. /\ y \in ContextRecords /\ y.live = x.live /\ y.pcb = x.pcb /\ y.refcnt = x.refcnt
      /\ y.rx = x.rx /\ y.off = x.off /\ y.unacked = x.unacked /\ y.queued <= SndBuf
  BY <1>1 DEF ContextRecords
<1>3. y.live
  BY <1>2
<1>4. ContextOK(y)
  BY <1>2, <1>3, CountsFree
<1> QED
  BY <1>2, <1>3, <1>4

(* A context that has lost its control block. *)
LEMMA DroppedOK ==
  ASSUME NEW x, ContextOK(x), x.live
  PROVE  LET y == Dropped(x) IN
         /\ ContextOK(y)
         /\ y.live = x.live /\ y.live /\ y.pcb = None /\ y.refcnt = x.refcnt
         /\ y.sendWaiting = x.sendWaiting /\ y.connectPending = x.connectPending
<1> DEFINE y == Dropped(x)
<1>0. x \in ContextRecords /\ y = [x EXCEPT !.pcb = None, !.queued = 0, !.unacked = 0]
  BY DEF Dropped, ContextOK
<1> HIDE DEF y
<1>1. /\ y \in ContextRecords /\ y.live = x.live /\ y.pcb = None /\ y.refcnt = x.refcnt
      /\ y.rx = x.rx /\ y.off = x.off /\ y.queued = 0
      /\ y.sendWaiting = x.sendWaiting /\ y.connectPending = x.connectPending
  BY <1>0 DEF ContextRecords
<1>2. y.live /\ y.queued <= SndBuf
  BY <1>1, Constants
<1>3. ContextOK(y)
  BY <1>1, <1>2, CountsFree
<1> QED
  BY <1>1, <1>2, <1>3 DEF y

-----------------------------------------------------------------------------
(* Counting references. *)

Holders(cl, c) == { h \in Handles : cl[h] = c }

(* Counted and what it is about, of given contexts, handles and list. *)
Refs(cs, cl, un) ==
  /\ cs \in [Contexts -> ContextRecords] /\ \A c \in Contexts : ContextOK(cs[c])
  /\ cl \in [Handles -> Contexts \cup {None}]
  /\ un \in Seq(Contexts)
  /\ \A c \in Contexts : cs[c].refcnt = Cardinality(Holders(cl, c))
  /\ \A c \in Contexts : cs[c].live <=> cs[c].refcnt > 0 \/ Contains(un, c)
  /\ \A i, j \in 1 .. Len(un) : i # j => un[i] # un[j]
  /\ \A c \in Contexts : Contains(un, c) => cs[c].refcnt = 0

(* No call waits on the context. *)
Quiet(x) == x.pcb # SYN_SENT /\ x.sendWaiting = 0 /\ x.connectPending = 0

(* The function f with another value at x. *)
With(f, x, y) == [f EXCEPT ![x] = y]

(* The list of the server as a set and as a sequence. *)
LEMMA ListAsSet ==
  ASSUME NEW un \in Seq(Contexts), NEW cs
  PROVE  (\A c \in ToSet(un) : cs[c].refcnt = 0)
           <=> (\A c \in Contexts : Contains(un, c) => cs[c].refcnt = 0)
<1>1. Len(un) \in Nat /\ \A i \in 1 .. Len(un) : un[i] \in Contexts
  OBVIOUS
<1>2. \A c \in Contexts : c \in ToSet(un) <=> Contains(un, c)
  BY <1>1 DEF ToSet, Contains
<1>3. \A c \in ToSet(un) : c \in Contexts
  BY <1>1 DEF ToSet
<1> QED
  BY <1>2, <1>3

LEMMA CountNat ==
  ASSUME NEW cl, NEW c
  PROVE  /\ IsFiniteSet(Holders(cl, c))
         /\ Cardinality(Holders(cl, c)) \in Nat
         /\ Cardinality(Holders(cl, c)) > 0 <=> \E h \in Handles : cl[h] = c
<1>1. Holders(cl, c) \in SUBSET Handles
  BY DEF Holders
<1>2. IsFiniteSet(Holders(cl, c))
  BY <1>1, Constants, FS_Subset
<1>3. Cardinality(Holders(cl, c)) \in Nat
  BY <1>2, FS_CardinalityType
<1>4. Cardinality(Holders(cl, c)) = 0 <=> Holders(cl, c) = {}
  BY <1>2, FS_EmptySet
<1> QED
  BY <1>2, <1>3, <1>4 DEF Holders

(* A handle lets go of its context. *)
LEMMA CountDrop ==
  ASSUME NEW cl, cl \in [Handles -> Contexts \cup {None}], NEW h \in Handles,
         cl[h] # None, NEW c \in Contexts
  PROVE  Cardinality(Holders([cl EXCEPT ![h] = None], c))
           = IF c = cl[h] THEN Cardinality(Holders(cl, c)) - 1
                          ELSE Cardinality(Holders(cl, c))
<1> DEFINE new == [cl EXCEPT ![h] = None]
<1>1. c # None
  BY Constants
<1>2. CASE c = cl[h]
  <2>1. Holders(new, c) = Holders(cl, c) \ {h} /\ h \in Holders(cl, c)
    BY <1>1, <1>2 DEF Holders
  <2>2. IsFiniteSet(Holders(cl, c))
    BY CountNat
  <2>3. Cardinality(Holders(cl, c) \ {h}) = Cardinality(Holders(cl, c)) - 1
    BY <2>1, <2>2, FS_RemoveElement
  <2> QED
    BY <1>2, <2>1, <2>3
<1>3. CASE c # cl[h]
  <2>1. Holders(new, c) = Holders(cl, c)
    BY <1>1, <1>3 DEF Holders
  <2> QED
    BY <1>3, <2>1
<1> QED
  BY <1>2, <1>3

(* A null handle is given a context. *)
LEMMA CountTake ==
  ASSUME NEW cl, cl \in [Handles -> Contexts \cup {None}], NEW h \in Handles,
         cl[h] = None, NEW d \in Contexts, NEW c \in Contexts
  PROVE  Cardinality(Holders([cl EXCEPT ![h] = d], c))
           = IF c = d THEN Cardinality(Holders(cl, c)) + 1
                      ELSE Cardinality(Holders(cl, c))
<1> DEFINE new == [cl EXCEPT ![h] = d]
<1>1. c # None
  BY Constants
<1>2. CASE c = d
  <2>1. Holders(new, c) = Holders(cl, c) \cup {h} /\ h \notin Holders(cl, c)
    BY <1>1, <1>2 DEF Holders
  <2>2. IsFiniteSet(Holders(cl, c))
    BY CountNat
  <2>3. Cardinality(Holders(cl, c) \cup {h}) = Cardinality(Holders(cl, c)) + 1
    BY <2>1, <2>2, FS_AddElement
  <2> QED
    BY <1>2, <2>1, <2>3
<1>3. CASE c # d
  <2>1. Holders(new, c) = Holders(cl, c)
    BY <1>1, <1>3 DEF Holders
  <2> QED
    BY <1>3, <2>1
<1> QED
  BY <1>2, <1>3

(* The context a handle holds is there. *)
LEMMA HeldIsLive ==
  ASSUME NEW cs, NEW cl, NEW un, Refs(cs, cl, un), NEW h \in Handles, cl[h] # None
  PROVE  cl[h] \in Contexts /\ cs[cl[h]].refcnt > 0 /\ cs[cl[h]].live
<1>1. cl[h] \in Contexts
  BY DEF Refs
<1>2. cs[cl[h]].refcnt = Cardinality(Holders(cl, cl[h]))
  BY <1>1 DEF Refs
<1>3. cs[cl[h]].refcnt > 0
  BY <1>2, CountNat
<1> QED
  BY <1>1, <1>3 DEF Refs

(* What letting go does to the count of the references. *)
LEMMA DropRefs ==
  ASSUME NEW cs, NEW cl, NEW un, Refs(cs, cl, un),
         NEW h \in Handles, cl[h] # None
  PROVE  LET new == With(cs, cl[h], unref(cs[cl[h]])) IN
         /\ Refs(new, With(cl, h, None), un)
         /\ \A c \in Contexts : Quiet(cs[c]) => Quiet(new[c])
         /\ \A c \in Contexts : Contains(un, c) => new[c] = cs[c]
<1> DEFINE d == cl[h]
           x == cs[d]
           y == unref(x)
           new == With(cs, d, y)
           cl2 == With(cl, h, None)
<1>1. /\ d \in Contexts /\ x.refcnt > 0 /\ x.live
      /\ cs \in [Contexts -> ContextRecords] /\ ContextOK(x)
      /\ cl \in [Handles -> Contexts \cup {None}] /\ un \in Seq(Contexts)
      /\ x.refcnt \in Nat
  <2>1. d \in Contexts /\ x.refcnt > 0 /\ x.live
    BY HeldIsLive
  <2>2. /\ cs \in [Contexts -> ContextRecords] /\ ContextOK(x)
        /\ cl \in [Handles -> Contexts \cup {None}] /\ un \in Seq(Contexts)
    BY <2>1 DEF Refs
  <2>3. x.refcnt \in Nat
    BY <2>1, <2>2 DEF ContextRecords
  <2> QED
    BY <2>1, <2>2, <2>3
<1>2. /\ new[d] = y /\ (\A c \in Contexts \ {d} : new[c] = cs[c])
      /\ new = [c \in Contexts |-> new[c]]
  BY <1>1 DEF With
<1>3. ~Contains(un, d)
  BY <1>1 DEF Refs
<1>4. /\ ContextOK(y)
      /\ x.refcnt = 1 => y = NoContext
      /\ x.refcnt # 1 => /\ y.refcnt = x.refcnt - 1 /\ y.live /\ y.pcb = x.pcb
                         /\ y.sendWaiting = x.sendWaiting
                         /\ y.connectPending = x.connectPending
  BY <1>1, UnrefOK
<1>5. y.refcnt = x.refcnt - 1 /\ (y.live <=> y.refcnt > 0) /\ (Quiet(x) => Quiet(y))
  <2>1. CASE x.refcnt = 1
    BY <2>1, <1>4, FreshContext DEF Quiet, None, SYN_SENT
  <2>2. CASE x.refcnt # 1
    <3>1. y.refcnt > 0
      BY <2>2, <1>1, <1>4
    <3> QED
      BY <3>1, <2>2, <1>4 DEF Quiet
  <2> QED
    BY <2>1, <2>2
<1> HIDE DEF y, new
<1>6. new \in [Contexts -> ContextRecords] /\ \A c \in Contexts : ContextOK(new[c])
  <2>1. \A c \in Contexts : ContextOK(new[c])
    BY <1>2, <1>4 DEF Refs
  <2> HIDE DEF d, x, cl2
  <2>2. \A c \in Contexts : new[c] \in ContextRecords
    BY <2>1 DEF ContextOK
  <2> QED
    BY <1>2, <2>1, <2>2
<1>7. \A c \in Contexts : new[c].refcnt = Cardinality(Holders(cl2, c))
  <2> SUFFICES ASSUME NEW c \in Contexts
               PROVE  new[c].refcnt = Cardinality(Holders(cl2, c))
    OBVIOUS
  <2>1. cs[c].refcnt = Cardinality(Holders(cl, c))
    BY DEF Refs
  <2>2. Cardinality(Holders(cl2, c))
          = IF c = d THEN Cardinality(Holders(cl, c)) - 1 ELSE Cardinality(Holders(cl, c))
    <3>1. cl \in [Handles -> Contexts \cup {None}]
      BY <1>1
    <3> HIDE <1>1
    <3> QED
      BY <3>1, CountDrop DEF With
  <2> QED
    BY <2>1, <2>2, <1>2, <1>5
<1>8. \A c \in Contexts : new[c].live <=> new[c].refcnt > 0 \/ Contains(un, c)
  BY <1>2, <1>3, <1>5 DEF Refs
<1>9. \A c \in Contexts : Contains(un, c) => new[c] = cs[c]
  BY <1>2, <1>3
<1>10. cl2 \in [Handles -> Contexts \cup {None}]
  BY <1>1 DEF With
<1>11. Refs(new, cl2, un)
  BY <1>1, <1>6, <1>7, <1>8, <1>9, <1>10 DEF Refs
<1>12. \A c \in Contexts : Quiet(cs[c]) => Quiet(new[c])
  BY <1>2, <1>5
<1> QED
  BY <1>9, <1>11, <1>12 DEF new, y

(* A null handle is given a context y in the place d, which is not in the list
   any more. *)
LEMMA TakeRefs ==
  ASSUME NEW cs, NEW cl, NEW un, Refs(cs, cl, un),
         NEW h \in Handles, cl[h] = None, NEW d \in Contexts,
         NEW y, ContextOK(y), y.live, y.refcnt = cs[d].refcnt + 1,
         NEW un2 \in Seq(Contexts), ~Contains(un2, d),
         \A c \in Contexts \ {d} : Contains(un2, c) <=> Contains(un, c),
         \A i, j \in 1 .. Len(un2) : i # j => un2[i] # un2[j]
  PROVE  Refs(With(cs, d, y), With(cl, h, d), un2)
<1> DEFINE cl2 == With(cl, h, d)
           new == With(cs, d, y)
<1>1. /\ cs \in [Contexts -> ContextRecords] /\ \A c \in Contexts : ContextOK(cs[c])
      /\ cl \in [Handles -> Contexts \cup {None}]
      /\ \A c \in Contexts : cs[c].refcnt = Cardinality(Holders(cl, c))
      /\ \A c \in Contexts : cs[c].live <=> cs[c].refcnt > 0 \/ Contains(un, c)
      /\ \A c \in Contexts : Contains(un, c) => cs[c].refcnt = 0
  BY DEF Refs
<1>2. /\ new[d] = y /\ (\A c \in Contexts \ {d} : new[c] = cs[c])
      /\ new = [c \in Contexts |-> new[c]]
  BY <1>1 DEF With
<1> HIDE DEF new
<1>3. new \in [Contexts -> ContextRecords] /\ \A c \in Contexts : ContextOK(new[c])
  BY <1>1, <1>2 DEF ContextOK
<1>4. \A c \in Contexts : new[c].refcnt = Cardinality(Holders(cl2, c))
  <2> SUFFICES ASSUME NEW c \in Contexts
               PROVE  new[c].refcnt = Cardinality(Holders(cl2, c))
    OBVIOUS
  <2>1. cs[c].refcnt = Cardinality(Holders(cl, c))
    BY <1>1
  <2>2. Cardinality(Holders(cl2, c))
          = IF c = d THEN Cardinality(Holders(cl, c)) + 1 ELSE Cardinality(Holders(cl, c))
    BY <1>1, CountTake DEF With
  <2> QED
    BY <2>1, <2>2, <1>2
<1>5. y.refcnt > 0
  <2>1. cs[d].refcnt \in Nat
    BY <1>1 DEF ContextRecords
  <2> QED
    BY <2>1
<1>6. \A c \in Contexts : new[c].live <=> new[c].refcnt > 0 \/ Contains(un2, c)
  BY <1>1, <1>2, <1>5
<1>7. \A c \in Contexts : Contains(un2, c) => new[c].refcnt = 0
  BY <1>1, <1>2
<1>8. cl2 \in [Handles -> Contexts \cup {None}]
  BY <1>1 DEF With
<1> HIDE DEF cl2
<1>9. Refs(new, cl2, un2)
  BY <1>3, <1>4, <1>6, <1>7, <1>8 DEF Refs
<1> QED
  BY <1>9 DEF new, cl2

-----------------------------------------------------------------------------
(* What the invariant says, and what it takes to have it again. *)

LEMMA FromWorking ==
  ASSUME Working
  PROVE  /\ Refs(ctx, client, unclaimed)
         /\ call \in CallRecords /\ woken \in BOOLEAN /\ listening \in BOOLEAN
<1>1. /\ unclaimed \in Seq(Contexts)
      /\ ctx \in [Contexts -> ContextRecords]
      /\ client \in [Handles -> Contexts \cup {None}]
      /\ call \in CallRecords /\ woken \in BOOLEAN /\ listening \in BOOLEAN
  BY DEF Working, TypeInv
<1>2. \A c \in Contexts : Contains(unclaimed, c) => ctx[c].refcnt = 0
  <2>1. \A c \in ToSet(unclaimed) : ctx[c].refcnt = 0
    BY DEF Working, Counted
  <2> QED
    BY <1>1, <2>1, ListAsSet
<1> QED
  BY <1>1, <1>2 DEF Working, Counted, Refs, Holders, ContextsOK

LEMMA ToWorking ==
  ASSUME Refs(ctx', client', unclaimed'),
         call' \in CallRecords, woken' \in BOOLEAN, listening' \in BOOLEAN,
         CallOK', RoundOK', WaitsOK'
  PROVE  Working'
<1>1. /\ unclaimed' \in Seq(Contexts)
      /\ ctx' \in [Contexts -> ContextRecords]
      /\ client' \in [Handles -> Contexts \cup {None}]
      /\ \A c \in Contexts : ContextOK(ctx'[c])
  BY DEF Refs
<1>2. \A c \in ToSet(unclaimed') : ctx'[c].refcnt = 0
  <2>1. \A c \in Contexts : Contains(unclaimed', c) => ctx'[c].refcnt = 0
    BY DEF Refs
  <2> QED
    BY <1>1, <2>1, ListAsSet
<1>3. Counted'
  BY <1>2 DEF Counted, Refs, Holders, CallOK
<1>4. TypeInv' /\ ContextsOK'
  BY <1>1 DEF TypeInv, ContextsOK
<1> QED
  BY <1>3, <1>4 DEF Working

LEMMA NoCallTyped ==
  /\ NoCall \in CallRecords /\ NoCall.op = "none"
  /\ Undefined \in CallRecords /\ Undefined.op = "undefined" /\ Undefined.phase = "none"
  BY DEF NoCall, Undefined, Call, CallRecords

(* While the sketch is in no call nothing is pending. *)
LEMMA IdleIsQuiet ==
  ASSUME Working, Idle
  PROVE  call = NoCall /\ \A c \in Contexts : Quiet(ctx[c])
<1>1. \A c \in Contexts : ctx[c].sendWaiting \in 0 .. 1 /\ ctx[c].connectPending \in 0 .. 1
  BY FromWorking DEF Refs, ContextRecords
<1> QED
  BY <1>1 DEF Working, CallOK, WaitsOK, Idle, Quiet

(* A step that leaves the sketch in no call that waits. *)
LEMMA IdleAgain ==
  ASSUME Refs(ctx', client', unclaimed'),
         call' \in CallRecords, call' = NoCall \/ call'.op = "stray",
         \A c \in Contexts : Quiet(ctx'[c]),
         woken' \in BOOLEAN, listening' \in BOOLEAN
  PROVE  Working'
<1>1. call'.op \in {"none", "stray"}
  BY NoCallTyped
<1>2. CallOK'
  BY <1>1, NoCallTyped DEF CallOK
<1>3. RoundOK'
  BY <1>1 DEF RoundOK
<1>4. WaitsOK'
  BY <1>1 DEF WaitsOK, Quiet
<1> QED
  BY <1>1, <1>2, <1>3, <1>4, ToWorking

(* Only one context changes, and nobody lets go of it. *)
LEMMA OneRefs ==
  ASSUME NEW cs, NEW cl, NEW un, Refs(cs, cl, un), NEW d \in Contexts,
         NEW y, ContextOK(y), y.live = cs[d].live, y.refcnt = cs[d].refcnt
  PROVE  LET new == With(cs, d, y) IN
         /\ Refs(new, cl, un)
         /\ new[d] = y
         /\ \A c \in Contexts \ {d} : new[c] = cs[c]
<1> DEFINE new == With(cs, d, y)
<1>1. /\ new[d] = y /\ (\A c \in Contexts \ {d} : new[c] = cs[c])
      /\ new = [c \in Contexts |-> new[c]]
  BY DEF Refs, With
<1> HIDE DEF new
<1>2. new \in [Contexts -> ContextRecords] /\ \A c \in Contexts : ContextOK(new[c])
  BY <1>1 DEF Refs, ContextOK
<1>3. \A c \in Contexts : new[c].live = cs[c].live /\ new[c].refcnt = cs[c].refcnt
  BY <1>1
<1>4. Refs(new, cl, un)
  BY <1>2, <1>3 DEF Refs
<1> QED
  BY <1>1, <1>4 DEF new

LEMMA OneContext ==
  ASSUME Working, NEW d \in Contexts, NEW y, ContextOK(y),
         y.live = ctx[d].live, y.refcnt = ctx[d].refcnt,
         ctx' = [ctx EXCEPT ![d] = y], UNCHANGED <<client, unclaimed>>
  PROVE  /\ Refs(ctx', client', unclaimed')
         /\ ctx'[d] = y
         /\ \A c \in Contexts \ {d} : ctx'[c] = ctx[c]
<1>1. Refs(ctx, client, unclaimed) /\ ctx' = With(ctx, d, y)
  BY FromWorking DEF With
<1>2. /\ Refs(With(ctx, d, y), client, unclaimed)
      /\ With(ctx, d, y)[d] = y
      /\ \A c \in Contexts \ {d} : With(ctx, d, y)[c] = ctx[c]
  BY <1>1, OneRefs
<1> QED
  BY <1>1, <1>2

-----------------------------------------------------------------------------
(* The calls that do not wait. *)

(* Setting a handle to null. *)
LEMMA StopRefs ==
  ASSUME Working, Idle, NEW h \in Handles
  PROVE  LET stopped == Reassign(ctx, client[h], None) IN
         /\ Refs(stopped, With(client, h, None), unclaimed)
         /\ \A c \in Contexts : Quiet(stopped[c])
         /\ \A c \in Contexts : Contains(unclaimed, c) => stopped[c] = ctx[c]
<1> DEFINE cs == Reassign(ctx, client[h], None)
           cl == With(client, h, None)
<1>1. Refs(ctx, client, unclaimed) /\ \A c \in Contexts : Quiet(ctx[c])
  BY FromWorking, IdleIsQuiet
<1>2. client \in [Handles -> Contexts \cup {None}]
  BY <1>1 DEF Refs
<1>3. CASE client[h] = None
  <2>1. cs = ctx /\ cl = client
    BY <1>3, <1>2 DEF With, Reassign
  <2> QED
    BY <2>1, <1>1
<1>4. CASE client[h] # None
  <2>1. cs = With(ctx, client[h], unref(ctx[client[h]]))
    BY <1>4 DEF Reassign, With
  <2> HIDE DEF cs
  <2>2. /\ Refs(cs, cl, unclaimed)
        /\ \A c \in Contexts : Quiet(ctx[c]) => Quiet(cs[c])
        /\ \A c \in Contexts : Contains(unclaimed, c) => cs[c] = ctx[c]
    BY <2>1, <1>4, <1>1, DropRefs
  <2> QED
    BY <2>2, <1>1 DEF cs
<1> QED
  BY <1>3, <1>4

(* Reassign lets go first and takes then. *)
LEMMA ReassignRefs ==
  ASSUME Working, Idle, NEW h \in Handles, NEW un2 \in Seq(Contexts),
         NEW d \in Contexts \cup {None},
         d # None =>
           /\ Reassign(ctx, client[h], None)[d].live \/ Contains(unclaimed, d)
           /\ ~Contains(un2, d),
         \A c \in Contexts \ {d} : Contains(un2, c) <=> Contains(unclaimed, c),
         \A i, j \in 1 .. Len(un2) : i # j => un2[i] # un2[j],
         ctx' = Reassign(ctx, client[h], d), client' = [client EXCEPT ![h] = d],
         unclaimed' = un2
  PROVE  Refs(ctx', client', unclaimed') /\ \A c \in Contexts : Quiet(ctx'[c])
<1>1. Refs(ctx, client, unclaimed) /\ \A c \in Contexts : Quiet(ctx[c])
  BY FromWorking, IdleIsQuiet
<1> DEFINE cs == Reassign(ctx, client[h], None)
           cl == With(client, h, None)
<1>2. client \in [Handles -> Contexts \cup {None}]
  BY <1>1 DEF Refs
<1>3. /\ Refs(cs, cl, unclaimed) /\ \A c \in Contexts : Quiet(cs[c])
      /\ \A c \in Contexts : Contains(unclaimed, c) => cs[c] = ctx[c]
  BY StopRefs
<1>4. ctx' = IF d = None THEN cs ELSE With(cs, d, ref(cs[d]))
  BY DEF Reassign, With
<1>5. cl[h] = None /\ client' = With(cl, h, d)
      /\ \A g \in Handles \ {h} : cl[g] = client[g]
  BY <1>2 DEF With
<1> HIDE DEF cs, cl
<1>6. CASE d = None
  <2>1. ctx' = cs /\ client' = cl
    BY <1>4, <1>5, <1>6, <1>2 DEF cl, With
  <2>2. Refs(cs, cl, un2)
    <3>1. \A c \in Contexts : Contains(un2, c) <=> Contains(unclaimed, c)
      BY <1>6, Constants
    <3> QED
      BY <1>3, <3>1 DEF Refs
  <2> QED
    BY <2>1, <2>2, <1>3
<1>7. CASE d # None
  <2>1. d \in Contexts /\ ctx' = With(cs, d, ref(cs[d]))
    BY <1>4, <1>7
  <2>2. cs[d].live /\ ContextOK(cs[d])
    <3>1. cs[d].live \/ Contains(unclaimed, d)
      BY <1>7 DEF cs
    <3> QED
      BY <3>1, <2>1, <1>3 DEF Refs
  <2> DEFINE y == ref(cs[d])
  <2>3. /\ ContextOK(y) /\ y.live /\ y.refcnt = cs[d].refcnt + 1
        /\ y.pcb = cs[d].pcb /\ y.sendWaiting = cs[d].sendWaiting
        /\ y.connectPending = cs[d].connectPending
    BY <2>2, RefOK
  <2>4. ctx' = With(cs, d, y)
    BY <2>1
  <2> HIDE DEF y
  <2>5. Refs(With(cs, d, y), With(cl, h, d), un2)
    <3>1. ~Contains(un2, d) /\ Refs(cs, cl, unclaimed) /\ cl[h] = None
      BY <1>3, <1>5, <1>7
    <3> QED
      BY <3>1, <2>1, <2>3, TakeRefs
  <2>6. \A c \in Contexts : Quiet(ctx'[c])
    <3>1. ctx'[d] = y /\ \A c \in Contexts \ {d} : ctx'[c] = cs[c]
      BY <2>1, <2>4, <1>3 DEF Refs, With
    <3> QED
      BY <3>1, <1>3, <2>1, <2>3 DEF Quiet
  <2> QED
    BY <2>4, <2>5, <2>6, <1>5
<1> QED
  BY <1>6, <1>7

(* The context that is assigned may have been freed: when the handle was the last
   one on it. *)
LEMMA AssignStep ==
  ASSUME Working, NEW h \in Handles, NEW d \in Contexts \cup {None}, Assign(h, d)
  PROVE  Working' \/ (Struck' /\ SelfAssigned)
<1> DEFINE dropped == Reassign(ctx, client[h], None)
<1>1. /\ Refs(ctx, client, unclaimed) /\ call = NoCall /\ Idle
      /\ woken \in BOOLEAN /\ listening \in BOOLEAN
      /\ unclaimed' = unclaimed /\ listening' = listening /\ woken' = woken
  BY FromWorking, IdleIsQuiet DEF Assign
<1>2. /\ Refs(dropped, With(client, h, None), unclaimed)
      /\ \A c \in Contexts : Quiet(dropped[c])
  BY <1>1, StopRefs
<1>3. CASE d # None /\ ~dropped[d].live
  <2>1. ctx' = dropped /\ call' = Undefined /\ client' = client
    BY <1>3 DEF Assign
  <2>2. PICK g \in Handles : client[g] = d
    BY <1>3 DEF Assign
  <2>3. client \in [Handles -> Contexts \cup {None}] /\ d \in Contexts
    BY <1>1, <1>3 DEF Refs
  <2>4. client[h] = d
    <3> SUFFICES ASSUME client[h] # d PROVE FALSE
      OBVIOUS
    <3>1. With(client, h, None)[g] = d
      BY <2>2, <2>3 DEF With
    <3> HIDE DEF dropped
    <3> QED
      BY <3>1, <1>2, <1>3, HeldIsLive
  <2>5. ctx[d].refcnt = 1
    <3> SUFFICES ASSUME ctx[d].refcnt # 1 PROVE FALSE
      OBVIOUS
    <3>1. ContextOK(ctx[d]) /\ ctx[d].live /\ ctx[d].refcnt > 0
      BY <1>1, <1>3, <2>2, HeldIsLive DEF Refs
    <3>2. unref(ctx[d]).live
      BY <3>1, UnrefOK
    <3>3. dropped[d] = unref(ctx[d])
      BY <1>1, <1>3, <2>3, <2>4 DEF Reassign, Refs
    <3> QED
      BY <3>2, <3>3, <1>3
  <2>6. SelfAssigned
    BY <1>3, <2>4, <2>5 DEF SelfAssigned
  <2>7. TypeInv' /\ ContextsOK'
    BY <1>1, <1>2, <2>1, NoCallTyped DEF Refs, TypeInv, ContextsOK
  <2>8. Struck'
    BY <1>2, <2>1, <2>7 DEF Struck, Quiet
  <2> QED
    BY <2>6, <2>8
<1>4. CASE d = None \/ dropped[d].live
  <2>1. /\ ctx' = Reassign(ctx, client[h], d) /\ client' = [client EXCEPT ![h] = d]
        /\ call' = call
    BY <1>4 DEF Assign
  <2>2. /\ unclaimed \in Seq(Contexts)
        /\ \A i, j \in 1 .. Len(unclaimed) : i # j => unclaimed[i] # unclaimed[j]
    BY <1>1 DEF Refs
  <2>3. ASSUME d # None
        PROVE  dropped[d].live /\ ~Contains(unclaimed, d)
    <3>1. PICK g \in Handles : client[g] = d
      BY <2>3 DEF Assign
    <3>2. ctx[d].refcnt > 0 /\ d \in Contexts
      BY <3>1, <1>1, <2>3, HeldIsLive
    <3> QED
      BY <3>2, <1>1, <1>4, <2>3 DEF Refs
  <2>4. Refs(ctx', client', unclaimed') /\ \A c \in Contexts : Quiet(ctx'[c])
    BY <1>1, <2>1, <2>2, <2>3, ReassignRefs
  <2> QED
    BY <1>1, <2>1, <2>4, NoCallTyped, IdleAgain
<1> QED
  BY <1>3, <1>4

LEMMA ClaimStep ==
  ASSUME Working, NEW h \in Handles, Claim(h)
  PROVE  Working'
<1> DEFINE d == Head(unclaimed)
           un2 == Tail(unclaimed)
<1>1. /\ Refs(ctx, client, unclaimed) /\ call = NoCall
      /\ woken \in BOOLEAN /\ listening \in BOOLEAN
  BY FromWorking, IdleIsQuiet DEF Claim
<1>2. /\ unclaimed \in Seq(Contexts) /\ unclaimed # <<>> /\ Len(unclaimed) \in Nat
      /\ \A i, j \in 1 .. Len(unclaimed) : i # j => unclaimed[i] # unclaimed[j]
  BY <1>1 DEF Refs, Claim
<1>3. /\ un2 \in Seq(Contexts) /\ Len(un2) = Len(unclaimed) - 1 /\ d \in Contexts
      /\ \A i \in 1 .. Len(un2) : un2[i] = unclaimed[i + 1]
      /\ d = unclaimed[1] /\ Len(unclaimed) > 0
  BY <1>2, HeadTailProperties, EmptySeq
<1> HIDE DEF un2, d
<1>4. Contains(unclaimed, d)
  BY <1>2, <1>3 DEF Contains
<1>5. ~Contains(un2, d)
  <2> SUFFICES ASSUME NEW i \in 1 .. Len(un2), un2[i] = d PROVE FALSE
    BY DEF Contains
  <2>1. i + 1 \in 1 .. Len(unclaimed) /\ 1 \in 1 .. Len(unclaimed) /\ i + 1 # 1
    BY <1>2, <1>3
  <2>2. unclaimed[i + 1] = unclaimed[1]
    BY <1>3
  <2> QED
    BY <2>1, <2>2, <1>2
<1>6. ASSUME NEW c \in Contexts \ {d}
      PROVE  Contains(un2, c) <=> Contains(unclaimed, c)
  <2>1. ASSUME NEW i \in 1 .. Len(un2), un2[i] = c
        PROVE  Contains(unclaimed, c)
    <3>1. i + 1 \in 1 .. Len(unclaimed)
      BY <1>2, <1>3
    <3> QED
      BY <3>1, <2>1, <1>3 DEF Contains
  <2>2. ASSUME NEW i \in 1 .. Len(unclaimed), unclaimed[i] = c
        PROVE  Contains(un2, c)
    <3>1. i # 1
      BY <2>2, <1>3
    <3>2. i - 1 \in 1 .. Len(un2) /\ (i - 1) + 1 = i
      BY <3>1, <1>2, <1>3
    <3>3. un2[i - 1] = c
      BY <3>2, <2>2, <1>3
    <3> QED
      BY <3>2, <3>3 DEF Contains
  <2> QED
    BY <2>1, <2>2 DEF Contains
<1>7. \A i, j \in 1 .. Len(un2) : i # j => un2[i] # un2[j]
  <2> SUFFICES ASSUME NEW i \in 1 .. Len(un2), NEW j \in 1 .. Len(un2), i # j
               PROVE  un2[i] # un2[j]
    OBVIOUS
  <2>1. i + 1 \in 1 .. Len(unclaimed) /\ j + 1 \in 1 .. Len(unclaimed) /\ i + 1 # j + 1
    BY <1>2, <1>3
  <2> QED
    BY <2>1, <1>2, <1>3
<1>8. /\ Idle /\ ctx' = Reassign(ctx, client[h], d) /\ client' = [client EXCEPT ![h] = d]
      /\ unclaimed' = un2
  BY DEF Claim, d, un2
<1>9. Refs(ctx', client', unclaimed') /\ \A c \in Contexts : Quiet(ctx'[c])
  BY <1>3, <1>4, <1>5, <1>6, <1>7, <1>8, ReassignRefs
<1> QED
  BY <1>1, <1>9, NoCallTyped, IdleAgain DEF Claim

LEMMA ListenStep ==
  ASSUME Working, Listen
  PROVE  Working'
<1>1. /\ Refs(ctx, client, unclaimed) /\ call = NoCall /\ woken \in BOOLEAN
      /\ \A c \in Contexts : Quiet(ctx[c])
  BY FromWorking, IdleIsQuiet DEF Listen
<1> QED
  BY <1>1, NoCallTyped, IdleAgain DEF Listen

(* Reading and flushing change no control. *)
LEMMA DataStep ==
  ASSUME Working, Idle, NEW d \in Contexts, NEW y, ContextOK(y),
         Control(y) = Control(ctx[d]),
         ctx' = [ctx EXCEPT ![d] = y],
         UNCHANGED <<client, unclaimed, listening, call, woken>>
  PROVE  Working'
<1>1. y.live = ctx[d].live /\ y.refcnt = ctx[d].refcnt /\ y.pcb = ctx[d].pcb
      /\ y.sendWaiting = ctx[d].sendWaiting /\ y.connectPending = ctx[d].connectPending
  BY DEF Control
<1>2. /\ Refs(ctx', client', unclaimed') /\ ctx'[d] = y
      /\ \A c \in Contexts \ {d} : ctx'[c] = ctx[c]
  BY <1>1, OneContext
<1>3. /\ call = NoCall /\ woken \in BOOLEAN /\ listening \in BOOLEAN
      /\ \A c \in Contexts : Quiet(ctx[c])
  BY FromWorking, IdleIsQuiet
<1>4. \A c \in Contexts : Quiet(ctx'[c])
  BY <1>1, <1>2, <1>3 DEF Quiet
<1> QED
  BY <1>2, <1>3, <1>4, NoCallTyped, IdleAgain

LEMMA ReadStep ==
  ASSUME Working, NEW h \in Handles, Read(h)
  PROVE  Working'
<1> DEFINE d == client[h]
<1>1. Refs(ctx, client, unclaimed) /\ Idle /\ d # None
  BY FromWorking DEF Read
<1>2. d \in Contexts /\ ctx[d].live /\ ContextOK(ctx[d])
  BY <1>1, HeldIsLive DEF Refs
<1>3. PICK n \in Sizes : n <= getSize(ctx[d]) /\ ctx' = [ctx EXCEPT ![d] = read(ctx[d], n)]
  BY DEF Read
<1>4. n \in Nat \ {0}
  BY Constants
<1>5. ContextOK(read(ctx[d], n)) /\ Control(read(ctx[d], n)) = Control(ctx[d])
  BY <1>2, <1>3, <1>4, ReadOK
<1> HIDE DEF d
<1>6. UNCHANGED <<client, unclaimed, listening, call, woken>>
  BY DEF Read
<1> QED
  BY <1>1, <1>2, <1>3, <1>5, <1>6, DataStep

LEMMA FlushStep ==
  ASSUME Working, NEW h \in Handles, Flush(h)
  PROVE  Working'
<1> DEFINE d == client[h]
<1>1. Refs(ctx, client, unclaimed) /\ Idle /\ d # None
  BY FromWorking DEF Flush
<1>2. d \in Contexts /\ ctx[d].live /\ ContextOK(ctx[d])
  BY <1>1, HeldIsLive DEF Refs
<1>3. ContextOK(flush(ctx[d])) /\ Control(flush(ctx[d])) = Control(ctx[d])
  BY <1>2, FlushOK
<1>4. ctx' = [ctx EXCEPT ![d] = flush(ctx[d])]
  BY DEF Flush
<1> HIDE DEF d
<1>5. UNCHANGED <<client, unclaimed, listening, call, woken>>
  BY DEF Flush
<1> QED
  BY <1>1, <1>2, <1>3, <1>4, <1>5, DataStep

-----------------------------------------------------------------------------
(* A connect. *)

(* The context a connect waits on. *)
LEMMA WaitingContext ==
  LET y == ref([NewContext(SYN_SENT) EXCEPT !.connectPending = 1]) IN
  /\ ContextOK(y) /\ y.live /\ y.refcnt = 1
  /\ y.pcb = SYN_SENT /\ y.connectPending = 1 /\ y.sendWaiting = 0
<1> DEFINE x == NewContext(SYN_SENT)
           w == [x EXCEPT !.connectPending = 1]
           y == ref(w)
<1>1. /\ ContextOK(x) /\ x \in ContextRecords /\ x.live = TRUE /\ x.pcb = SYN_SENT
      /\ x.refcnt = 0 /\ x.sendWaiting = 0
  BY NewContextOK DEF ContextOK
<1> HIDE DEF x
<1>2. /\ w \in ContextRecords /\ w.live = TRUE /\ w.pcb = SYN_SENT /\ w.refcnt = 0
      /\ w.sendWaiting = 0 /\ w.connectPending = 1
      /\ w.rx = x.rx /\ w.off = x.off /\ w.queued = x.queued /\ w.unacked = x.unacked
  BY <1>1 DEF ContextRecords
<1> HIDE DEF w
<1>3. w.live /\ w.queued <= SndBuf /\ (w.pcb # None => x.pcb # None)
  BY <1>1, <1>2 DEF ContextOK
<1>4. ContextOK(w)
  BY <1>1, <1>2, <1>3, CountsFree
<1>5. /\ ContextOK(y) /\ y.refcnt = w.refcnt + 1 /\ y.live /\ y.pcb = w.pcb
      /\ y.sendWaiting = w.sendWaiting /\ y.connectPending = w.connectPending
  BY <1>3, <1>4, RefOK
<1> HIDE DEF y
<1>6. y.refcnt = 1
  BY <1>2, <1>5
<1> QED
  BY <1>2, <1>5, <1>6 DEF y, w, x

LEMMA ConnectStep ==
  ASSUME Working, NEW h \in Handles, Connect(h)
  PROVE  Working'
<1> DEFINE stopped == Reassign(ctx, client[h], None)
           cl == With(client, h, None)
<1>1. /\ Idle /\ woken' = FALSE /\ listening' = listening /\ unclaimed' = unclaimed
      /\ listening \in BOOLEAN /\ call = NoCall
      /\ client \in [Handles -> Contexts \cup {None}]
  BY FromWorking, IdleIsQuiet DEF Connect, Refs
<1>2. Refs(stopped, cl, unclaimed) /\ \A c \in Contexts : Quiet(stopped[c])
  BY <1>1, StopRefs
<1>3. cl[h] = None
  BY <1>1 DEF With
<1>4. \/ \E c \in { d \in Contexts : ~stopped[d].live } :
           /\ ctx' = With(stopped, c,
                       ref([NewContext(SYN_SENT) EXCEPT !.connectPending = 1]))
           /\ client' = With(cl, h, c)
           /\ call' = [Call("connect", h, "wait") EXCEPT !.c = c]
      \/ ctx' = stopped /\ client' = cl /\ call' = call
  BY <1>1 DEF Connect, With
<1> HIDE DEF stopped, cl
<1>5. CASE ctx' = stopped /\ client' = cl /\ call' = call
  BY <1>1, <1>2, <1>5, NoCallTyped, IdleAgain
<1>6. CASE \E c \in { d \in Contexts : ~stopped[d].live } :
             /\ ctx' = With(stopped, c,
                         ref([NewContext(SYN_SENT) EXCEPT !.connectPending = 1]))
             /\ client' = With(cl, h, c)
             /\ call' = [Call("connect", h, "wait") EXCEPT !.c = c]
  <2> DEFINE y == ref([NewContext(SYN_SENT) EXCEPT !.connectPending = 1])
  <2>1. PICK c \in Contexts :
          /\ ~stopped[c].live /\ ctx' = With(stopped, c, y) /\ client' = With(cl, h, c)
          /\ call' = [Call("connect", h, "wait") EXCEPT !.c = c]
    BY <1>6
  <2>2. /\ ContextOK(y) /\ y.live /\ y.refcnt = 1
        /\ y.pcb = SYN_SENT /\ y.connectPending = 1 /\ y.sendWaiting = 0
    BY WaitingContext
  <2> HIDE DEF y
  <2>3. ~Contains(unclaimed, c) /\ stopped[c].refcnt = 0
    <3>1. stopped[c].refcnt \in Nat
      BY <1>2 DEF Refs, ContextRecords
    <3> QED
      BY <3>1, <1>2, <2>1 DEF Refs
  <2>4. /\ unclaimed \in Seq(Contexts)
        /\ \A i, j \in 1 .. Len(unclaimed) : i # j => unclaimed[i] # unclaimed[j]
    BY <1>2 DEF Refs
  <2>5. Refs(With(stopped, c, y), With(cl, h, c), unclaimed)
    <3>1. y.refcnt = stopped[c].refcnt + 1
      BY <2>2, <2>3
    <3> QED
      BY <3>1, <1>2, <1>3, <2>2, <2>3, <2>4, TakeRefs
  <2>6. ctx'[c] = y /\ (\A d \in Contexts \ {c} : ctx'[d] = stopped[d]) /\ client'[h] = c
    BY <1>2, <2>1 DEF Refs, With
  <2>7. /\ call' \in CallRecords /\ call'.op = "connect" /\ call'.h = h /\ call'.c = c
        /\ call'.phase = "wait"
    <3> DEFINE b == Call("connect", h, "wait")
    <3>1. b \in CallRecords /\ b.op = "connect" /\ b.h = h /\ b.phase = "wait"
      BY DEF Call, CallRecords
    <3>2. call' = [b EXCEPT !.c = c]
      BY <2>1
    <3> HIDE DEF b
    <3> QED
      BY <3>1, <3>2 DEF CallRecords
  <2>8. CallOK' /\ RoundOK'
    BY <2>6, <2>7 DEF CallOK, RoundOK
  <2>9. WaitsOK'
    <3> SUFFICES ASSUME NEW d \in Contexts
                 PROVE  /\ ctx'[d].pcb = SYN_SENT => c = d
                        /\ ctx'[d].connectPending = 1 <=> c = d
                        /\ ctx'[d].sendWaiting # 1
      BY <2>7 DEF WaitsOK
    <3> QED
      BY <1>2, <2>2, <2>6 DEF Quiet
  <2> QED
    BY <1>1, <2>1, <2>5, <2>7, <2>8, <2>9, ToWorking
<1> QED
  BY <1>4, <1>5, <1>6

LEMMA ConnectEndsStep ==
  ASSUME Working, ConnectEnds
  PROVE  Working'
<1> DEFINE d == call.c
           h == call.h
           x == ctx[d]
           ended == [x EXCEPT !.connectPending = 0]
<1>1. /\ Refs(ctx, client, unclaimed) /\ listening \in BOOLEAN
      /\ call.op = "connect" /\ h \in Handles /\ d \in Contexts /\ client[h] = d
  BY FromWorking DEF Working, CallOK, ConnectEnds
<1>2. x.live /\ ContextOK(x) /\ x \in ContextRecords /\ d # None
  BY <1>1, HeldIsLive, Constants DEF Refs
<1>3. /\ ContextOK(ended) /\ ended.live = x.live /\ ended.live /\ ended.refcnt = x.refcnt /\ ended.pcb = x.pcb
      /\ ended.connectPending = 0 /\ ended.sendWaiting = x.sendWaiting
  <2>1. ended.connectPending = 0 /\ ended.sendWaiting = x.sendWaiting
    BY <1>2 DEF ContextRecords
  <2>2. \E p \in 0 .. 1 : ended = [x EXCEPT !.connectPending = p]
    OBVIOUS
  <2> HIDE DEF ended, x
  <2> QED
    BY <1>2, <2>1, <2>2, CountersOK
<1>4. \A c \in Contexts :
        /\ ctx[c].sendWaiting = 0
        /\ c # d => ctx[c].pcb # SYN_SENT /\ ctx[c].connectPending = 0
  <2>1. \A c \in Contexts :
          ctx[c].sendWaiting \in 0 .. 1 /\ ctx[c].connectPending \in 0 .. 1
    BY <1>1 DEF Refs, ContextRecords
  <2> QED
    BY <1>1, <2>1 DEF Working, WaitsOK
<1>5. /\ call' = NoCall /\ woken' \in BOOLEAN /\ listening' \in BOOLEAN
      /\ unclaimed' = unclaimed
      /\ IF ended.pcb = ESTABLISHED
           THEN ctx' = [ctx EXCEPT ![d] = ended] /\ client' = client
           ELSE /\ ctx' = [ctx EXCEPT ![d] = unref(Dropped(ended))]
                /\ client' = [client EXCEPT ![h] = None]
  BY <1>1 DEF ConnectEnds
<1> HIDE DEF ended
<1>6. CASE ended.pcb = ESTABLISHED
  <2>1. /\ Refs(ctx', client', unclaimed') /\ ctx'[d] = ended
        /\ \A c \in Contexts \ {d} : ctx'[c] = ctx[c]
    BY <1>1, <1>2, <1>3, <1>5, <1>6, OneContext
  <2>2. \A c \in Contexts : Quiet(ctx'[c])
    BY <2>1, <1>1, <1>3, <1>4, <1>6 DEF Quiet, SYN_SENT, ESTABLISHED
  <2> QED
    BY <2>1, <2>2, <1>5, NoCallTyped, IdleAgain
<1>7. CASE ended.pcb # ESTABLISHED
  <2> DEFINE y == Dropped(ended)
             cs == With(ctx, d, y)
  <2>1. /\ ContextOK(y) /\ y.live = x.live /\ y.pcb = None /\ y.refcnt = x.refcnt
        /\ y.sendWaiting = x.sendWaiting /\ y.connectPending = 0
    BY <1>3, DroppedOK
  <2> HIDE DEF y
  <2>2. Refs(cs, client, unclaimed) /\ cs[d] = y /\ \A c \in Contexts \ {d} : cs[c] = ctx[c]
    <3>1. y.live = ctx[d].live /\ y.refcnt = ctx[d].refcnt /\ ContextOK(y)
      BY <2>1
    <3>2. d \in Contexts /\ Refs(ctx, client, unclaimed)
      BY <1>1
    <3> HIDE DEF d
    <3> QED
      BY <3>1, <3>2, OneRefs
  <2> HIDE DEF cs
  <2>3. \A c \in Contexts : Quiet(cs[c])
    BY <1>1, <1>4, <2>1, <2>2 DEF Quiet, None, SYN_SENT
  <2> DEFINE new == With(cs, client[h], unref(cs[client[h]]))
             cl == With(client, h, None)
  <2>4. Refs(new, cl, unclaimed) /\ \A c \in Contexts : Quiet(cs[c]) => Quiet(new[c])
    BY <1>1, <1>2, <2>2, DropRefs
  <2>5. ctx' = new /\ client' = cl
    <3>1. client' = cl
      BY <1>5, <1>7 DEF With
    <3>2. ctx' = [ctx EXCEPT ![d] = unref(y)]
      BY <1>5, <1>7 DEF y
    <3>3. new = [cs EXCEPT ![d] = unref(y)]
      BY <1>1, <2>2 DEF With
    <3>4. cs = [ctx EXCEPT ![d] = y]
      BY DEF cs, With
    <3>5. ctx \in [Contexts -> ContextRecords]
      BY <1>1 DEF Refs
    <3> QED
      BY <3>1, <3>2, <3>3, <3>4, <3>5
  <2> HIDE DEF new, cl
  <2> QED
    BY <2>3, <2>4, <2>5, <1>5, NoCallTyped, IdleAgain
<1> QED
  BY <1>6, <1>7

-----------------------------------------------------------------------------
(* A write. *)

(* Ordered looks at what has gone out and at nothing else. *)
LEMMA SameOrder ==
  ASSUME NEW k, NEW r, Ordered(k), r.out = k.out, r.refused = k.refused,
         r.written = k.written, r.size = k.size, r.left = k.left
  PROVE  Ordered(r)
  BY DEF Ordered

(* A round takes no more than there is and the buffer has room for. *)
LEMMA RoundStarts ==
  ASSUME NEW k \in CallRecords, k.c \in Contexts, ContextOK(ctx[k.c]), k.left \in Nat
  PROVE  LET r == Round(k) IN
         /\ r \in CallRecords /\ r.op = k.op /\ r.h = k.h /\ r.c = k.c
         /\ r.phase = "fill" /\ r.size = k.size /\ r.left = k.left
         /\ r.written = k.written /\ r.out = k.out /\ r.refused = k.refused
         /\ r.fetched = k.fetched
         /\ r.will <= r.left
         /\ ctx[k.c].pcb # None => ctx[k.c].queued + r.will <= SndBuf
<1> DEFINE x == ctx[k.c]
           room == IF x.pcb = None THEN 0 ELSE SndBuf - x.queued
           will == IF room < k.left THEN room ELSE k.left
           r == Round(k)
<1>1. x.queued \in Nat /\ x.queued <= SndBuf
  BY DEF ContextOK, ContextRecords
<1> HIDE DEF x
<1>2. room \in Nat /\ (x.pcb # None => x.queued + room <= SndBuf)
  BY <1>1, Constants
<1> HIDE DEF room
<1>3. will \in Nat /\ will <= k.left /\ (x.pcb # None => x.queued + will <= SndBuf)
  BY <1>1, <1>2, Constants
<1>4. r = [k EXCEPT !.phase = "fill", !.sent = FALSE, !.will = will]
  BY DEF Round, x, room
<1> HIDE DEF will, r
<1>5. /\ r \in CallRecords /\ r.op = k.op /\ r.h = k.h /\ r.c = k.c
      /\ r.phase = "fill" /\ r.size = k.size /\ r.left = k.left
      /\ r.written = k.written /\ r.out = k.out /\ r.refused = k.refused
      /\ r.fetched = k.fetched /\ r.will = will
  BY <1>3, <1>4 DEF CallRecords
<1> QED
  BY <1>3, <1>5 DEF x, r

(* What is known of the call while it writes. *)
LEMMA Writing ==
  ASSUME Working, call.op = "write"
  PROVE  /\ Refs(ctx, client, unclaimed) /\ listening \in BOOLEAN /\ woken \in BOOLEAN
         /\ call \in CallRecords /\ call.h \in Handles /\ call.c \in Contexts
         /\ client[call.h] = call.c
         /\ ctx[call.c].live /\ ContextOK(ctx[call.c]) /\ ctx[call.c] \in ContextRecords
         /\ call.left \in Nat /\ call.will \in Nat /\ call.size \in Nat
         /\ call.written \in Nat /\ call.will <= call.left /\ call.left <= call.size
         /\ Ordered(call)
         /\ \A c \in Contexts :
              /\ ctx[c].pcb # SYN_SENT /\ ctx[c].connectPending = 0
              /\ c # call.c => ctx[c].sendWaiting = 0
<1>1. /\ Refs(ctx, client, unclaimed) /\ listening \in BOOLEAN /\ woken \in BOOLEAN
      /\ call \in CallRecords /\ call.h \in Handles /\ call.c \in Contexts
      /\ client[call.h] = call.c
  BY FromWorking DEF Working, CallOK
<1>2. ctx[call.c].live /\ ContextOK(ctx[call.c]) /\ ctx[call.c] \in ContextRecords
  BY <1>1, HeldIsLive, Constants DEF Refs
<1>3. /\ call.left \in Nat /\ call.will \in Nat /\ call.size \in Nat /\ call.written \in Nat
  BY <1>1 DEF CallRecords
<1>4. call.will <= call.left /\ call.left <= call.size /\ Ordered(call)
  BY DEF Working, RoundOK
<1>5. \A c \in Contexts :
        ctx[c].sendWaiting \in 0 .. 1 /\ ctx[c].connectPending \in 0 .. 1
  BY <1>1 DEF Refs, ContextRecords
<1>6. \A c \in Contexts :
        /\ ctx[c].pcb # SYN_SENT /\ ctx[c].connectPending = 0
        /\ c # call.c => ctx[c].sendWaiting = 0
  BY <1>5 DEF Working, WaitsOK
<1> QED
  BY <1>1, <1>2, <1>3, <1>4, <1>6

LEMMA WriteStep ==
  ASSUME Working, NEW h \in Handles, Write(h)
  PROVE  Working'
<1>1. /\ Refs(ctx, client, unclaimed) /\ Idle /\ client[h] # None
      /\ woken \in BOOLEAN /\ listening \in BOOLEAN
      /\ \A c \in Contexts : Quiet(ctx[c])
  BY FromWorking, IdleIsQuiet DEF Write
<1>2. client[h] \in Contexts /\ ContextOK(ctx[client[h]])
  BY <1>1, HeldIsLive DEF Refs
<1>3. PICK n \in Sizes, s \in BOOLEAN :
        call' = Round([Call("write", h, "fill") EXCEPT
                         !.c = client[h], !.stream = s, !.size = n, !.left = n])
  BY DEF Write
<1> DEFINE k == [Call("write", h, "fill") EXCEPT
                   !.c = client[h], !.stream = s, !.size = n, !.left = n]
<1>4. /\ k \in CallRecords /\ k.op = "write" /\ k.h = h /\ k.c = client[h]
      /\ k.size = n /\ k.left = n /\ k.written = 0 /\ k.left \in Nat
      /\ k.out = <<>> /\ k.refused = {} /\ k.fetched = 0
  <2>1. n \in Nat
    BY Constants
  <2> DEFINE b == Call("write", h, "fill")
  <2>2. /\ b \in CallRecords /\ b.op = "write" /\ b.h = h /\ b.written = 0
        /\ b.out = <<>> /\ b.refused = {} /\ b.fetched = 0
    <3>1. <<>> \in Seq(Nat)
      OBVIOUS
    <3> QED
      BY <3>1 DEF Call, CallRecords
  <2>3. client[h] \in Contexts \cup {None}
    BY <1>2
  <2>4. k = [b EXCEPT !.c = client[h], !.stream = s, !.size = n, !.left = n]
    OBVIOUS
  <2> HIDE DEF b, k
  <2> HIDE <1>2
  <2> QED
    BY <2>1, <2>2, <2>3, <2>4 DEF CallRecords
<1> HIDE DEF k
<1>5. /\ call' \in CallRecords /\ call'.op = "write" /\ call'.h = h /\ call'.c = client[h]
      /\ call'.phase = "fill" /\ call'.will <= call'.left /\ call'.left <= call'.size
      /\ Ordered(call') /\ call'.fetched = call'.size - call'.left
      /\ ctx[client[h]].pcb # None => ctx[client[h]].queued + call'.will <= SndBuf
  <2>1. call' = Round(k)
    BY <1>3 DEF k
  <2>2. /\ call' \in CallRecords /\ call'.op = k.op /\ call'.h = k.h /\ call'.c = k.c
        /\ call'.phase = "fill" /\ call'.size = k.size /\ call'.left = k.left
        /\ call'.written = k.written /\ call'.out = k.out /\ call'.refused = k.refused
        /\ call'.fetched = k.fetched
        /\ call'.will <= call'.left
        /\ ctx[k.c].pcb # None => ctx[k.c].queued + call'.will <= SndBuf
    BY <2>1, <1>2, <1>4, RoundStarts
  <2>3. Ordered(k)
    <3>1. Len(k.out) = 0 /\ ToSet(k.out) = {} /\ 1 .. k.size - k.left = {}
      BY <1>4 DEF ToSet
    <3> QED
      BY <3>1, <1>4 DEF Ordered
  <2>4. Ordered(call')
    BY <2>2, <2>3, SameOrder
  <2>5. n \in Nat
    BY Constants
  <2> QED
    BY <2>2, <2>4, <2>5, <1>4
<1>6. UNCHANGED <<ctx, client, unclaimed, listening, woken>>
  BY DEF Write
<1>7. CallOK' /\ RoundOK'
  BY <1>2, <1>5, <1>6 DEF CallOK, RoundOK
<1>8. WaitsOK'
  BY <1>1, <1>5, <1>6 DEF WaitsOK, Quiet
<1> QED
  BY <1>1, <1>5, <1>6, <1>7, <1>8, ToWorking

(* Fetching a piece and settling what becomes of it. *)
LEMMA PieceGoes ==
  ASSUME NEW k \in CallRecords, Ordered(k), k.left <= k.size, k.will <= k.left,
         k.will > 0, k.fetched = k.size - k.left
  PROVE  /\ \A r \in {Takes(k), Refuses(k), Closes(k)} :
              /\ r \in CallRecords /\ r.op = k.op /\ r.h = k.h /\ r.c = k.c
              /\ r.phase = k.phase /\ r.size = k.size /\ Ordered(r)
              /\ r.fetched = k.size - k.left + 1
         /\ Takes(k).will = k.will - 1 /\ Refuses(k).will = 0 /\ Closes(k).will = 0
         /\ Takes(k).left = k.left - 1 /\ Refuses(k).left = k.left - 1
         /\ Closes(k).left = k.left
<1> DEFINE p == Piece(k)
           done == k.size - k.left
<1>1. /\ k.left \in Nat /\ k.will \in Nat /\ k.size \in Nat /\ k.written \in Nat
      /\ k.out \in Seq(Nat) /\ k.refused \in SUBSET Nat /\ Len(k.out) \in Nat
  BY DEF CallRecords
<1>2. p = done + 1 /\ done \in Nat /\ p \in Nat
  BY <1>1 DEF Piece
<1>3. k.left - 1 \in Nat /\ k.will - 1 \in Nat /\ k.written + 1 \in Nat
      /\ k.size - (k.left - 1) = done + 1
  BY <1>1
<1>4. \A i \in 1 .. Len(k.out) : k.out[i] \in 1 .. done
  BY <1>1 DEF Ordered, ToSet
<1>5. k.refused \subseteq 1 .. done
  BY DEF Ordered
<1>6. (1 .. done) \cup {p} = 1 .. done + 1 /\ p \notin 1 .. done
  BY <1>2
<1> DEFINE t == Takes(k)
           f == Refuses(k)
           e == Closes(k)
           o == Append(k.out, p)
<1>7. /\ o \in Seq(Nat) /\ Len(o) = Len(k.out) + 1
      /\ \A i \in 1 .. Len(k.out) : o[i] = k.out[i]
      /\ o[Len(k.out) + 1] = p
  BY <1>1, <1>2, AppendProperties
<1> HIDE DEF o
<1>8. t = [k EXCEPT !.left = k.left - 1, !.will = k.will - 1, !.sent = TRUE,
                    !.written = k.written + 1, !.out = o, !.fetched = p]
  BY DEF Takes, o
<1>9. f = [k EXCEPT !.left = k.left - 1, !.will = 0,
                    !.refused = k.refused \cup {p}, !.fetched = p]
  BY DEF Refuses
<1>10. e = [k EXCEPT !.will = 0, !.sent = FALSE, !.fetched = p]
  BY DEF Closes
<1> HIDE DEF p, t, f, e
<1>11. /\ t \in CallRecords /\ t.op = k.op /\ t.h = k.h /\ t.c = k.c /\ t.phase = k.phase
       /\ t.size = k.size /\ t.left = k.left - 1 /\ t.will = k.will - 1 /\ t.fetched = p
       /\ t.written = k.written + 1 /\ t.out = o /\ t.refused = k.refused
  BY <1>2, <1>3, <1>7, <1>8 DEF CallRecords
<1>12. /\ f \in CallRecords /\ f.op = k.op /\ f.h = k.h /\ f.c = k.c /\ f.phase = k.phase
       /\ f.size = k.size /\ f.left = k.left - 1 /\ f.will = 0 /\ f.fetched = p
       /\ f.written = k.written /\ f.out = k.out /\ f.refused = k.refused \cup {p}
  <2>1. k.refused \cup {p} \in SUBSET Nat
    BY <1>1, <1>2
  <2> QED
    BY <2>1, <1>2, <1>3, <1>9 DEF CallRecords
<1>13. /\ e \in CallRecords /\ e.op = k.op /\ e.h = k.h /\ e.c = k.c /\ e.phase = k.phase
       /\ e.size = k.size /\ e.left = k.left /\ e.will = 0 /\ e.fetched = p
       /\ e.written = k.written /\ e.out = k.out /\ e.refused = k.refused
  BY <1>2, <1>10 DEF CallRecords
<1>14. Ordered(t)
  <2>1. ToSet(o) = ToSet(k.out) \cup {p}
    <3>1. DOMAIN o = 1 .. Len(k.out) + 1 /\ DOMAIN k.out = 1 .. Len(k.out)
      BY <1>1, <1>7
    <3>2. 1 .. Len(k.out) + 1 = (1 .. Len(k.out)) \cup {Len(k.out) + 1}
      BY <1>1
    <3> QED
      BY <3>1, <3>2, <1>7 DEF ToSet
  <2>2. ToSet(o) \cup k.refused = 1 .. t.size - t.left
    BY <2>1, <1>3, <1>6, <1>11 DEF Ordered
  <2>3. ToSet(o) \cap k.refused = {}
    BY <2>1, <1>5, <1>6 DEF Ordered
  <2>4. ASSUME NEW i \in 1 .. Len(o), NEW j \in 1 .. Len(o), i < j
        PROVE  o[i] < o[j]
    <3>1. i \in 1 .. Len(k.out)
      BY <1>1, <1>7, <2>4
    <3>2. CASE j \in 1 .. Len(k.out)
      BY <3>1, <3>2, <2>4, <1>7 DEF Ordered
    <3>3. CASE j = Len(k.out) + 1
      <4>1. o[j] = p /\ o[i] \in 1 .. done
        BY <3>1, <3>3, <1>4, <1>7
      <4> HIDE DEF done
      <4> QED
        BY <4>1, <1>2
    <3> QED
      BY <3>2, <3>3, <1>1, <1>7
  <2> QED
    BY <2>2, <2>3, <2>4, <1>1, <1>7, <1>11 DEF Ordered
<1>15. Ordered(f)
  <2>1. ToSet(k.out) \subseteq 1 .. done
    BY DEF Ordered
  <2>2. ToSet(k.out) \cup (k.refused \cup {p}) = 1 .. f.size - f.left
    BY <1>3, <1>6, <1>12 DEF Ordered
  <2>3. ToSet(k.out) \cap (k.refused \cup {p}) = {}
    BY <2>1, <1>6 DEF Ordered
  <2> QED
    BY <2>2, <2>3, <1>12 DEF Ordered
<1>16. Ordered(e)
  BY <1>13, SameOrder
<1> QED
  BY <1>2, <1>11, <1>12, <1>13, <1>14, <1>15, <1>16 DEF t, f, e

LEMMA FillStep ==
  ASSUME Working, Fill
  PROVE  Working'
<1> DEFINE d == call.c
           x == ctx[d]
<1>1. call.op = "write" /\ call.phase = "fill" /\ call.will > 0
  BY DEF Fill
<1>2. /\ Refs(ctx, client, unclaimed) /\ listening \in BOOLEAN /\ woken \in BOOLEAN
      /\ call \in CallRecords /\ call.h \in Handles /\ d \in Contexts
      /\ client[call.h] = d
      /\ x.live /\ ContextOK(x) /\ x \in ContextRecords
      /\ call.left \in Nat /\ call.will \in Nat /\ call.size \in Nat
      /\ call.will <= call.left /\ call.left <= call.size /\ Ordered(call)
      /\ \A c \in Contexts :
           /\ ctx[c].pcb # SYN_SENT /\ ctx[c].connectPending = 0
           /\ c # d => ctx[c].sendWaiting = 0
  BY <1>1, Writing
<1>3. UNCHANGED <<client, unclaimed, listening, woken>>
  BY DEF Fill
<1>4. /\ x.pcb # None => x.queued + call.will <= SndBuf
      /\ x.pcb # None => x.sendWaiting # 1
      /\ x.queued \in Nat
      /\ call.fetched = call.size - call.left
  BY <1>1, <1>2 DEF Working, RoundOK, WaitsOK, ContextRecords
<1>5. \/ x.pcb = None /\ call' = Closes(call) /\ ctx' = ctx
      \/ /\ x.pcb # None /\ call' = Takes(call)
         /\ ctx' = [ctx EXCEPT ![d] = [x EXCEPT !.queued = x.queued + 1]]
      \/ x.pcb # None /\ call' = Refuses(call) /\ ctx' = ctx
  BY <1>2 DEF Fill, Refs
<1>6. /\ call' \in CallRecords /\ call'.op = "write" /\ call'.h = call.h /\ call'.c = d
      /\ call'.phase = "fill" /\ call'.size = call.size /\ Ordered(call')
      /\ call'.fetched = call.size - call.left + 1
      /\ call' = Closes(call) => call'.will = 0 /\ call'.left = call.left
      /\ call' = Takes(call) => call'.will = call.will - 1 /\ call'.left = call.left - 1
      /\ call' = Refuses(call) => call'.will = 0 /\ call'.left = call.left - 1
  <2>1. call' \in {Takes(call), Refuses(call), Closes(call)}
    BY <1>5
  <2> HIDE DEF d, x
  <2>2. /\ \A r \in {Takes(call), Refuses(call), Closes(call)} :
             /\ r \in CallRecords /\ r.op = call.op /\ r.h = call.h /\ r.c = call.c
             /\ r.phase = call.phase /\ r.size = call.size /\ Ordered(r)
             /\ r.fetched = call.size - call.left + 1
        /\ Takes(call).will = call.will - 1 /\ Refuses(call).will = 0
        /\ Closes(call).will = 0
        /\ Takes(call).left = call.left - 1 /\ Refuses(call).left = call.left - 1
        /\ Closes(call).left = call.left
    BY <1>1, <1>2, <1>4, PieceGoes
  <2> QED
    BY <2>1, <2>2, <1>1 DEF d
<1> HIDE DEF x
<1>7. CallOK'
  BY <1>2, <1>3, <1>6 DEF CallOK
<1>8. CASE x.pcb = None /\ call' = Closes(call) /\ ctx' = ctx
  <2>1. call'.will = 0 /\ call'.left = call.left
    BY <1>6, <1>8
  <2>2. RoundOK'
    BY <1>2, <1>6, <1>8, <2>1 DEF RoundOK, x
  <2>3. WaitsOK'
    BY <1>1, <1>2, <1>6, <1>8 DEF WaitsOK, x
  <2> QED
    BY <1>2, <1>3, <1>6, <1>7, <1>8, <2>2, <2>3, ToWorking
<1>9. CASE /\ x.pcb # None /\ call' = Takes(call)
           /\ ctx' = [ctx EXCEPT ![d] = [x EXCEPT !.queued = x.queued + 1]]
  <2> DEFINE y == [x EXCEPT !.queued = x.queued + 1]
  <2>1. call'.will = call.will - 1 /\ call'.left = call.left - 1
    BY <1>6, <1>9
  <2>2. x.queued + 1 <= SndBuf /\ x.queued + 1 \in Nat
    BY <1>1, <1>2, <1>4, <1>9, Constants
  <2>3. y.queued = x.queued + 1 /\ y.sendWaiting = x.sendWaiting
        /\ y.connectPending = x.connectPending
    BY <1>2 DEF ContextRecords
  <2>4. \E q \in Nat : q <= SndBuf /\ y = [x EXCEPT !.queued = q]
    BY <2>2
  <2> HIDE DEF y
  <2>5. /\ ContextOK(y) /\ y.live = x.live /\ y.refcnt = x.refcnt /\ y.pcb = x.pcb
    BY <1>2, <2>4, CountersOK
  <2>6. /\ Refs(ctx', client', unclaimed') /\ ctx'[d] = y
        /\ \A c \in Contexts \ {d} : ctx'[c] = ctx[c]
    <3>1. ctx' = [ctx EXCEPT ![d] = y]
      BY <1>9 DEF y
    <3> QED
      BY <3>1, <1>2, <1>3, <2>5, OneContext DEF x
  <2>7. RoundOK'
    <3>1. /\ call'.will <= call'.left /\ call'.left <= call'.size
          /\ call'.fetched = call'.size - call'.left
      BY <1>1, <1>2, <1>6, <2>1
    <3>2. ctx'[d].queued + call'.will <= SndBuf
      BY <1>2, <1>4, <1>9, <2>1, <2>3, <2>6
    <3> QED
      BY <3>1, <3>2, <1>6 DEF RoundOK
  <2>8. WaitsOK'
    BY <1>2, <1>4, <1>6, <1>9, <2>3, <2>5, <2>6 DEF WaitsOK, x
  <2> QED
    BY <1>2, <1>3, <1>6, <1>7, <2>6, <2>7, <2>8, ToWorking
<1>10. CASE x.pcb # None /\ call' = Refuses(call) /\ ctx' = ctx
  <2>1. call'.will = 0 /\ call'.left = call.left - 1
    BY <1>6, <1>10
  <2>2. RoundOK'
    <3>1. x.queued + 0 <= SndBuf
      BY <1>2, <1>4 DEF ContextOK
    <3>2. /\ call'.will <= call'.left /\ call'.left <= call'.size
          /\ call'.fetched = call'.size - call'.left
      BY <1>1, <1>2, <1>6, <2>1
    <3> QED
      BY <3>1, <3>2, <1>6, <1>10, <2>1 DEF RoundOK, x
  <2>3. WaitsOK'
    BY <1>1, <1>2, <1>4, <1>6, <1>10 DEF WaitsOK, x
  <2> QED
    BY <1>2, <1>3, <1>6, <1>7, <1>10, <2>2, <2>3, ToWorking
<1> QED
  BY <1>5, <1>8, <1>9, <1>10

LEMMA RoundEndsStep ==
  ASSUME Working, RoundEnds
  PROVE  Working'
<1> DEFINE d == call.c
           x == ctx[d]
<1>1. call.op = "write" /\ call.phase = "fill"
  BY DEF RoundEnds
<1>2. /\ Refs(ctx, client, unclaimed) /\ listening \in BOOLEAN
      /\ call \in CallRecords /\ call.h \in Handles /\ d \in Contexts
      /\ client[call.h] = d
      /\ x.live /\ ContextOK(x) /\ x \in ContextRecords
      /\ call.left \in Nat /\ call.will \in Nat /\ call.will <= call.left
      /\ call.left <= call.size /\ Ordered(call)
      /\ \A c \in Contexts :
           /\ ctx[c].pcb # SYN_SENT /\ ctx[c].connectPending = 0
           /\ c # d => ctx[c].sendWaiting = 0
  BY <1>1, Writing
<1>3. UNCHANGED <<client, unclaimed, listening>> /\ woken' = FALSE
  BY DEF RoundEnds
<1>4. x.sendWaiting \in 0 .. 1 /\ (x.pcb # None => x.sendWaiting = 0)
  BY <1>1, <1>2 DEF Working, WaitsOK, ContextRecords
<1>5. CASE GivesUp
  <2> DEFINE y == [x EXCEPT !.sendWaiting = 0]
  <2>1. call' = NoCall /\ ctx' = [ctx EXCEPT ![d] = y]
    BY <1>5 DEF RoundEnds
  <2>2. y.sendWaiting = 0 /\ y.connectPending = x.connectPending
    BY <1>2 DEF ContextRecords
  <2>3. \E s \in 0 .. 1 : y = [x EXCEPT !.sendWaiting = s]
    OBVIOUS
  <2> HIDE DEF y, x
  <2>4. /\ ContextOK(y) /\ y.live = x.live /\ y.refcnt = x.refcnt /\ y.pcb = x.pcb
    BY <1>2, <2>3, CountersOK
  <2>5. /\ Refs(ctx', client', unclaimed') /\ ctx'[d] = y
        /\ \A c \in Contexts \ {d} : ctx'[c] = ctx[c]
    BY <1>2, <1>3, <2>1, <2>4, OneContext DEF x
  <2>6. \A c \in Contexts : Quiet(ctx'[c])
    BY <1>2, <2>2, <2>4, <2>5 DEF Quiet, x
  <2> QED
    BY <1>2, <1>3, <2>1, <2>5, <2>6, NoCallTyped, IdleAgain
<1>6. CASE ~GivesUp
  <2> DEFINE y == [x EXCEPT !.sendWaiting = x.sendWaiting + 1]
  <2>1. x.pcb # None /\ x.sendWaiting = 0
    BY <1>4, <1>6 DEF GivesUp
  <2>2. /\ call' = [call EXCEPT !.phase = "wait", !.late = Overdue]
        /\ ctx' = [ctx EXCEPT ![d] = y]
    BY <1>2, <1>6 DEF RoundEnds, Refs
  <2>3. y.sendWaiting = 1 /\ y.connectPending = x.connectPending
    BY <1>2, <2>1 DEF ContextRecords
  <2>4. \E s \in 0 .. 1 : y = [x EXCEPT !.sendWaiting = s]
    BY <2>1
  <2> HIDE DEF y, x
  <2>5. /\ ContextOK(y) /\ y.live = x.live /\ y.refcnt = x.refcnt /\ y.pcb = x.pcb
    BY <1>2, <2>4, CountersOK
  <2>6. /\ Refs(ctx', client', unclaimed') /\ ctx'[d] = y
        /\ \A c \in Contexts \ {d} : ctx'[c] = ctx[c]
    BY <1>2, <1>3, <2>2, <2>5, OneContext DEF x
  <2>7. Overdue \in BOOLEAN
    BY DEF Overdue
  <2>8. /\ call' \in CallRecords /\ call'.op = "write" /\ call'.h = call.h /\ call'.c = d
        /\ call'.phase = "wait" /\ call'.will = call.will /\ call'.left = call.left
        /\ call'.written = call.written /\ call'.size = call.size
        /\ call'.out = call.out /\ call'.refused = call.refused
        /\ call'.fetched = call.fetched
    BY <1>1, <1>2, <2>2, <2>7 DEF CallRecords
  <2>9. CallOK'
    BY <1>2, <1>3, <2>8 DEF CallOK
  <2>10. RoundOK'
    <3>1. call.fetched = call.size - call.left
      BY <1>1, <2>1 DEF Working, RoundOK, x
    <3>2. Ordered(call')
      BY <1>2, <2>8, SameOrder
    <3> QED
      BY <3>1, <3>2, <1>2, <2>8 DEF RoundOK
  <2>11. WaitsOK'
    BY <1>2, <1>3, <2>3, <2>5, <2>6, <2>8 DEF WaitsOK, x
  <2> QED
    BY <1>2, <1>3, <2>6, <2>8, <2>9, <2>10, <2>11, ToWorking
<1> QED
  BY <1>5, <1>6

LEMMA NextRoundStep ==
  ASSUME Working, NextRound
  PROVE  Working'
<1>1. call.op = "write" /\ call.phase = "wait" /\ woken
  BY DEF NextRound
<1>2. /\ Refs(ctx, client, unclaimed) /\ listening \in BOOLEAN
      /\ call \in CallRecords /\ call.h \in Handles /\ call.c \in Contexts
      /\ client[call.h] = call.c /\ ContextOK(ctx[call.c]) /\ call.left \in Nat
      /\ call.left <= call.size /\ Ordered(call)
  BY <1>1, Writing
<1>3. UNCHANGED <<ctx, client, unclaimed, listening>> /\ woken' = FALSE
  BY DEF NextRound
<1>4. /\ call' \in CallRecords /\ call'.op = "write" /\ call'.h = call.h /\ call'.c = call.c
      /\ call'.phase = "fill" /\ call'.size = call.size /\ call'.left = call.left
      /\ call'.written = call.written /\ call'.out = call.out
      /\ call'.refused = call.refused /\ call'.fetched = call.fetched
      /\ call'.will <= call'.left
      /\ ctx[call.c].pcb # None => ctx[call.c].queued + call'.will <= SndBuf
  BY <1>1, <1>2, RoundStarts DEF NextRound
<1>5. CallOK' /\ RoundOK'
  <2>1. call.fetched = call.size - call.left
    BY <1>1 DEF Working, RoundOK
  <2>2. Ordered(call')
    BY <1>2, <1>4, SameOrder
  <2> QED
    BY <2>1, <2>2, <1>2, <1>3, <1>4 DEF CallOK, RoundOK
<1>6. WaitsOK'
  BY <1>1, <1>3, <1>4 DEF Working, WaitsOK
<1> QED
  BY <1>2, <1>3, <1>4, <1>5, <1>6, ToWorking

-----------------------------------------------------------------------------
(* peekBytes and the passing of time. *)

LEMMA PeekStep ==
  ASSUME Working, NEW h \in Handles, Peek(h)
  PROVE  Working'
<1>1. /\ Refs(ctx, client, unclaimed) /\ client[h] # None
      /\ woken \in BOOLEAN /\ listening \in BOOLEAN
      /\ \A c \in Contexts : Quiet(ctx[c])
  BY FromWorking, IdleIsQuiet DEF Peek
<1>2. PICK n \in Sizes : call' = [Call("peek", h, "wait") EXCEPT !.c = client[h], !.left = n]
  BY DEF Peek
<1>3. UNCHANGED <<ctx, client, unclaimed, listening, woken>>
  BY DEF Peek
<1>4. /\ call' \in CallRecords /\ call'.op = "peek" /\ call'.h = h
      /\ call'.c = client[h] /\ client[h] \in Contexts /\ call'.phase = "wait"
  <2> DEFINE b == Call("peek", h, "wait")
  <2>1. b \in CallRecords /\ b.op = "peek" /\ b.h = h /\ b.phase = "wait"
    BY DEF Call, CallRecords
  <2>2. n \in Nat /\ call' = [b EXCEPT !.c = client[h], !.left = n]
    BY <1>2, Constants
  <2>3. client[h] \in Contexts
    BY <1>1 DEF Refs
  <2> HIDE DEF b
  <2> QED
    BY <2>1, <2>2, <2>3 DEF CallRecords
<1>5. CallOK' /\ RoundOK' /\ WaitsOK'
  BY <1>1, <1>3, <1>4 DEF CallOK, RoundOK, WaitsOK, Quiet
<1> QED
  BY <1>1, <1>3, <1>4, <1>5, ToWorking

LEMMA PeekEndsStep ==
  ASSUME Working, PeekEnds
  PROVE  Working'
<1>1. Refs(ctx, client, unclaimed) /\ listening \in BOOLEAN
  BY FromWorking
<1>2. \A c \in Contexts : Quiet(ctx[c])
  <2>1. \A c \in Contexts :
          ctx[c].sendWaiting \in 0 .. 1 /\ ctx[c].connectPending \in 0 .. 1
    BY <1>1 DEF Refs, ContextRecords
  <2> QED
    BY <2>1 DEF PeekEnds, Working, WaitsOK, Quiet
<1>3. UNCHANGED <<ctx, client, unclaimed, listening>> /\ woken' = FALSE /\ call' = NoCall
  BY DEF PeekEnds
<1> QED
  BY <1>1, <1>2, <1>3, NoCallTyped, IdleAgain

LEMMA ExpireStep ==
  ASSUME Working, Expire
  PROVE  Working'
<1>1. /\ Refs(ctx, client, unclaimed) /\ listening \in BOOLEAN /\ woken \in BOOLEAN
      /\ call \in CallRecords
  BY FromWorking
<1>2. /\ UNCHANGED <<ctx, client, unclaimed, listening>>
      /\ woken' = (woken \/ call.op = "connect" \/ (call.op = "stray" /\ call.was = "connect"))
      /\ call.op \notin {"none", "undefined"}
  BY DEF Expire
<1>3. /\ call' \in CallRecords /\ call'.op = call.op /\ call'.h = call.h /\ call'.c = call.c
      /\ call'.phase = call.phase /\ call'.will = call.will /\ call'.left = call.left
      /\ call'.written = call.written /\ call'.size = call.size
      /\ call'.out = call.out /\ call'.refused = call.refused
      /\ call'.fetched = call.fetched /\ call'.was = call.was
  BY <1>1 DEF Expire, CallRecords
<1>4. CallOK' /\ RoundOK'
  <2>1. CallOK'
    BY <1>2, <1>3 DEF Working, CallOK
  <2>2. Ordered(call) => Ordered(call')
    BY <1>3, SameOrder
  <2> QED
    BY <2>1, <2>2, <1>2, <1>3 DEF Working, RoundOK
<1>5. WaitsOK'
  BY <1>2, <1>3 DEF Working, WaitsOK
<1> QED
  BY <1>1, <1>2, <1>3, <1>4, <1>5, ToWorking

-----------------------------------------------------------------------------
(* What lwIP does. *)

(* A callback changes one context: it may wake the call that waits on it. *)
LEMMA CallbackStep ==
  ASSUME Working, NEW d \in Contexts, NEW y, ContextOK(y),
         y.live = ctx[d].live, y.refcnt = ctx[d].refcnt,
         y.connectPending = ctx[d].connectPending,
         y.pcb = SYN_SENT => ctx[d].pcb = SYN_SENT,
         call.op = "write" /\ y.pcb # None =>
           ctx[d].pcb # None /\ y.queued <= ctx[d].queued,
         y.sendWaiting = 1 => ctx[d].sendWaiting = 1,
         woken' \in BOOLEAN,
         woken' => woken \/ call.op = "connect" \/ ctx[d].sendWaiting = 1,
         woken' /\ ctx[d].sendWaiting = 1 => woken \/ y.sendWaiting = 0 \/ y.pcb = None,
         ctx' = [ctx EXCEPT ![d] = y],
         UNCHANGED <<client, unclaimed, listening, call>>
  PROVE  Working'
<1>1. /\ Refs(ctx', client', unclaimed') /\ ctx'[d] = y
      /\ \A c \in Contexts \ {d} : ctx'[c] = ctx[c]
  BY OneContext
<1>2. call \in CallRecords /\ listening \in BOOLEAN /\ woken \in BOOLEAN
  BY FromWorking
<1>3. CallOK'
  BY DEF Working, CallOK
<1>4. RoundOK'
  <2>0. SUFFICES ASSUME call.op = "write"
                 PROVE  /\ ctx[call.c].pcb = None => ctx'[call.c].pcb = None
                        /\ call.phase = "fill" /\ ctx'[call.c].pcb # None =>
                             ctx'[call.c].queued + call.will <= SndBuf
    BY DEF Working, RoundOK
  <2>1. call.c \in Contexts /\ call.will \in Nat
    BY <1>2, <2>0 DEF Working, CallOK, CallRecords
  <2>2. call.phase = "fill" /\ ctx[call.c].pcb # None =>
          ctx[call.c].queued + call.will <= SndBuf
    BY <2>0 DEF Working, RoundOK
  <2>3. CASE call.c = d /\ (call.phase # "fill" \/ ctx'[call.c].pcb = None)
    BY <2>0, <2>3, <1>1
  <2>4. CASE call.c = d /\ call.phase = "fill" /\ ctx'[call.c].pcb # None
    <3>1. y.queued <= ctx[d].queued /\ ctx[d].queued + call.will <= SndBuf
      BY <1>1, <2>0, <2>2, <2>4
    <3>2. y.queued \in Nat /\ ctx[d].queued \in Nat
      BY FromWorking DEF ContextOK, ContextRecords, Refs
    <3>3. y.queued + call.will <= SndBuf
      BY <3>1, <3>2, <2>1, Constants
    <3>4. ctx[d].pcb # None
      BY <2>0, <2>4, <1>1
    <3> QED
      BY <3>3, <3>4, <1>1, <2>4
  <2>5. CASE call.c # d
    BY <1>1, <2>1, <2>2, <2>5
  <2> QED
    BY <2>3, <2>4, <2>5
<1>5. WaitsOK'
  <2> SUFFICES ASSUME NEW c \in Contexts
               PROVE  /\ ctx'[c].pcb = SYN_SENT => call.op = "connect" /\ call.c = c
                      /\ ctx'[c].connectPending = 1 <=> call.op = "connect" /\ call.c = c
                      /\ ctx'[c].sendWaiting = 1 => call.op = "write" /\ call.c = c
                      /\ ctx'[c].sendWaiting = 1 /\ ctx'[c].pcb # None =>
                           call.phase = "wait" /\ ~woken'
    BY DEF WaitsOK
  <2>1. /\ ctx[c].pcb = SYN_SENT => call.op = "connect" /\ call.c = c
        /\ ctx[c].connectPending = 1 <=> call.op = "connect" /\ call.c = c
        /\ ctx[c].sendWaiting = 1 => call.op = "write" /\ call.c = c
        /\ ctx[c].sendWaiting = 1 /\ ctx[c].pcb # None => call.phase = "wait" /\ ~woken
    BY DEF Working, WaitsOK
  <2>2. ctx[d].sendWaiting = 1 => call.op = "write" /\ call.c = d
    BY DEF Working, WaitsOK
  <2>3. CASE c = d
    <3>1. ASSUME y.sendWaiting = 1, y.pcb # None
          PROVE  call.phase = "wait" /\ ~woken'
      BY <2>1, <2>3, <3>1, <1>2
    <3> QED
      BY <3>1, <2>1, <2>3, <1>1
  <2>4. CASE c # d
    <3>1. ctx'[c] = ctx[c]
      BY <1>1, <2>4
    <3>2. ctx[c].sendWaiting = 1 => call.op # "connect" /\ ctx[d].sendWaiting # 1
      BY <2>1, <2>2, <2>4
    <3> QED
      BY <3>1, <3>2, <2>1
  <2> QED
    BY <2>3, <2>4
<1> QED
  BY <1>1, <1>2, <1>3, <1>4, <1>5, ToWorking

(* What is known of a context that lwIP calls back for. *)
LEMMA CalledBack ==
  ASSUME Working, NEW c \in Contexts
  PROVE  /\ ContextOK(ctx[c]) /\ ctx[c] \in ContextRecords /\ ctx[c].live \in BOOLEAN
         /\ ctx[c].queued \in Nat /\ ctx[c].queued <= SndBuf
         /\ ctx[c].sendWaiting \in 0 .. 1 /\ ctx[c].connectPending \in 0 .. 1
         /\ ctx[c].pcb # None \/ ctx[c].queued > 0 => ctx[c].live
         /\ woken \in BOOLEAN
<1>1. ContextOK(ctx[c]) /\ ctx[c] \in ContextRecords /\ woken \in BOOLEAN
  BY FromWorking DEF Refs, ContextOK
<1>2. /\ ctx[c].live \in BOOLEAN /\ ctx[c].queued \in Nat /\ ctx[c].queued <= SndBuf
      /\ ctx[c].sendWaiting \in 0 .. 1 /\ ctx[c].connectPending \in 0 .. 1
  BY <1>1 DEF ContextRecords, ContextOK
<1>3. ctx[c].pcb # None \/ ctx[c].queued > 0 => ctx[c].live
  BY <1>1, FreshContext DEF ContextOK
<1> QED
  BY <1>1, <1>2, <1>3

(* Waking the writer that waits. *)
LEMMA WakeOK ==
  ASSUME NEW x, ContextOK(x), x.live
  PROVE  LET y == writeSomeFromCb(x) IN
         /\ ContextOK(y) /\ y.live = x.live /\ y.refcnt = x.refcnt /\ y.pcb = x.pcb
         /\ y.connectPending = x.connectPending /\ y.queued = x.queued
         /\ y.sendWaiting # 1 \/ x.sendWaiting # 1
         /\ x.sendWaiting # 1 => y = x
         /\ x.sendWaiting = 1 => y.sendWaiting = 0
<1> DEFINE y == writeSomeFromCb(x)
<1>1. CASE x.sendWaiting # 1
  BY <1>1 DEF writeSomeFromCb, WakesWriter
<1>2. CASE x.sendWaiting = 1
  <2>1. y = [x EXCEPT !.sendWaiting = 0]
    BY <1>2 DEF writeSomeFromCb, WakesWriter
  <2> HIDE DEF y
  <2>2. y.sendWaiting = 0 /\ y.connectPending = x.connectPending /\ y.queued = x.queued
    BY <2>1 DEF ContextOK, ContextRecords
  <2>3. \E s \in 0 .. 1 : y = [x EXCEPT !.sendWaiting = s]
    BY <2>1
  <2>4. ContextOK(y) /\ y.live = x.live /\ y.refcnt = x.refcnt /\ y.pcb = x.pcb
    BY <2>3, CountersOK
  <2> QED
    BY <1>2, <2>2, <2>4 DEF y
<1> QED
  BY <1>1, <1>2

LEMMA ConnectedStep ==
  ASSUME Working, NEW c \in Contexts, Connected(c)
  PROVE  Working'
<1> DEFINE x == ctx[c]
           y == [x EXCEPT !.pcb = ESTABLISHED]
<1>1. x.pcb = SYN_SENT /\ ContextOK(x) /\ x \in ContextRecords /\ x.live
  BY CalledBack DEF Connected, SYN_SENT, None
<1>2. call.op = "connect"
  BY <1>1 DEF Working, WaitsOK
<1>3. /\ y \in ContextRecords /\ y.live = x.live /\ y.refcnt = x.refcnt
      /\ y.pcb = ESTABLISHED /\ y.connectPending = x.connectPending
      /\ y.sendWaiting = x.sendWaiting /\ y.queued = x.queued /\ y.rx = x.rx
      /\ y.off = x.off /\ y.unacked = x.unacked
  BY <1>1 DEF ContextRecords
<1>4. /\ ctx' = [ctx EXCEPT ![c] = y] /\ woken' = TRUE
      /\ UNCHANGED <<client, unclaimed, listening, call>>
  BY DEF Connected, Sketch
<1> HIDE DEF y
<1>5. y.live /\ y.queued <= SndBuf /\ x.pcb # None
  BY <1>1, <1>3 DEF ContextOK, SYN_SENT, None
<1>6. ContextOK(y)
  BY <1>1, <1>3, <1>5, CountsFree
<1>7. x.sendWaiting # 1
  BY <1>2 DEF Working, WaitsOK
<1>8. y.pcb # SYN_SENT
  BY <1>3 DEF SYN_SENT, ESTABLISHED
<1> QED
  BY <1>2, <1>3, <1>4, <1>6, <1>7, <1>8, CallbackStep

LEMMA AcknowledgeStep ==
  ASSUME Working, NEW c \in Contexts, Acknowledge(c)
  PROVE  Working'
<1> DEFINE x == ctx[c]
           z == [x EXCEPT !.queued = x.queued - 1]
           y == writeSomeFromCb(z)
<1>1. /\ x.queued > 0 /\ ContextOK(x) /\ x \in ContextRecords /\ x.live
      /\ x.queued \in Nat /\ x.queued <= SndBuf /\ x.sendWaiting \in 0 .. 1
      /\ woken \in BOOLEAN
  BY CalledBack DEF Acknowledge
<1>2. /\ z.queued = x.queued - 1 /\ z.sendWaiting = x.sendWaiting
      /\ z.connectPending = x.connectPending
  BY <1>1 DEF ContextRecords
<1>3. \E q \in Nat : q <= SndBuf /\ z = [x EXCEPT !.queued = q]
  <2>1. x.queued - 1 \in Nat /\ x.queued - 1 <= SndBuf
    BY <1>1, Constants
  <2> QED
    BY <2>1
<1>4. /\ ctx' = [ctx EXCEPT ![c] = y] /\ woken' = (woken \/ x.sendWaiting = 1)
      /\ UNCHANGED <<client, unclaimed, listening, call>>
  BY FromWorking DEF Acknowledge, Sketch, WakesWriter, Refs
<1> HIDE DEF z
<1>5. ContextOK(z) /\ z.live = x.live /\ z.live /\ z.refcnt = x.refcnt /\ z.pcb = x.pcb
  BY <1>1, <1>3, CountersOK
<1>6. /\ ContextOK(y) /\ y.live = z.live /\ y.refcnt = z.refcnt /\ y.pcb = z.pcb
      /\ y.connectPending = z.connectPending /\ y.queued = z.queued
      /\ z.sendWaiting # 1 => y = z
      /\ z.sendWaiting = 1 => y.sendWaiting = 0
  BY <1>5, WakeOK
<1> HIDE DEF y
<1>7. /\ y.live = x.live /\ y.refcnt = x.refcnt /\ y.pcb = x.pcb
      /\ y.connectPending = x.connectPending /\ y.queued <= x.queued
      /\ y.sendWaiting = 1 => x.sendWaiting = 1
      /\ x.sendWaiting = 1 => y.sendWaiting = 0
  BY <1>1, <1>2, <1>5, <1>6
<1>8. woken' \in BOOLEAN /\ (woken' => woken \/ x.sendWaiting = 1)
  BY <1>1, <1>4
<1> QED
  BY <1>4, <1>6, <1>7, <1>8, CallbackStep

LEMMA PollStep ==
  ASSUME Working, NEW c \in Contexts, Poll(c)
  PROVE  Working'
<1> DEFINE x == ctx[c]
           y == writeSomeFromCb(x)
<1>1. /\ ContextOK(x) /\ x.live /\ x.queued \in Nat /\ x.sendWaiting \in 0 .. 1
      /\ woken \in BOOLEAN
  BY CalledBack DEF Poll
<1>2. /\ ctx' = [ctx EXCEPT ![c] = y] /\ woken' = (woken \/ x.sendWaiting = 1)
      /\ UNCHANGED <<client, unclaimed, listening, call>>
  BY DEF Poll, Sketch, WakesWriter
<1>3. /\ ContextOK(y) /\ y.live = x.live /\ y.refcnt = x.refcnt /\ y.pcb = x.pcb
      /\ y.connectPending = x.connectPending /\ y.queued = x.queued
      /\ x.sendWaiting # 1 => y = x
      /\ x.sendWaiting = 1 => y.sendWaiting = 0
  BY <1>1, WakeOK
<1> HIDE DEF y
<1>4. y.queued <= x.queued /\ (y.sendWaiting = 1 => x.sendWaiting = 1)
  BY <1>1, <1>3
<1>5. woken' \in BOOLEAN /\ (woken' => woken \/ x.sendWaiting = 1)
  BY <1>1, <1>2
<1> QED
  BY <1>2, <1>3, <1>4, <1>5, CallbackStep

LEMMA ReceiveStep ==
  ASSUME Working, NEW c \in Contexts, Receive(c)
  PROVE  Working'
<1> DEFINE x == ctx[c]
<1>1. /\ ContextOK(x) /\ x \in ContextRecords /\ x.pcb = ESTABLISHED
      /\ x.queued \in Nat /\ woken \in BOOLEAN
  BY CalledBack DEF Receive
<1>2. PICK n \in Sizes :
        /\ x.unacked + n <= RcvWnd
        /\ ctx' = [ctx EXCEPT ![c].rx = pbuf_cat(@, n), ![c].unacked = @ + n]
  BY DEF Receive
<1> DEFINE y == [x EXCEPT !.rx = pbuf_cat(@, n), !.unacked = @ + n]
<1>3. ctx' = [ctx EXCEPT ![c] = y]
  BY <1>2, FromWorking DEF Refs
<1>4. n \in Nat \ {0}
  BY Constants
<1>5. ContextOK(y) /\ Control(y) = Control(x)
  BY <1>1, <1>2, <1>4, ReceiveOK
<1>6. UNCHANGED <<client, unclaimed, listening, call, woken>>
  BY DEF Receive, Sketch
<1> HIDE DEF y
<1>7. /\ y.live = x.live /\ y.refcnt = x.refcnt /\ y.pcb = x.pcb /\ y.queued = x.queued
      /\ y.sendWaiting = x.sendWaiting /\ y.connectPending = x.connectPending
  BY <1>5 DEF Control
<1>8. y.queued <= x.queued
  BY <1>1, <1>7
<1> QED
  BY <1>1, <1>3, <1>5, <1>6, <1>7, <1>8, CallbackStep

LEMMA LoseConnectionStep ==
  ASSUME Working, NEW c \in Contexts, LoseConnection(c)
  PROVE  Working'
<1> DEFINE x == ctx[c]
           y == Dropped(x)
<1>1. /\ ContextOK(x) /\ x.live /\ woken \in BOOLEAN
      /\ x.sendWaiting \in 0 .. 1 /\ x.connectPending \in 0 .. 1
  BY CalledBack DEF LoseConnection
<1>2. /\ ctx' = [ctx EXCEPT ![c] = y]
      /\ woken' = (woken \/ x.connectPending = 1 \/ x.sendWaiting > 0)
      /\ UNCHANGED <<client, unclaimed, listening, call>>
  BY DEF LoseConnection, Sketch, NotifiesError
<1>3. /\ ContextOK(y) /\ y.live = x.live /\ y.pcb = None /\ y.refcnt = x.refcnt
      /\ y.sendWaiting = x.sendWaiting /\ y.connectPending = x.connectPending
  BY <1>1, DroppedOK
<1> HIDE DEF y
<1>4. x.connectPending = 1 => call.op = "connect"
  BY DEF Working, WaitsOK
<1>5. woken' \in BOOLEAN /\ (woken' => woken \/ call.op = "connect" \/ x.sendWaiting = 1)
  BY <1>1, <1>2, <1>4
<1>6. y.pcb # SYN_SENT
  BY <1>3 DEF None, SYN_SENT
<1> QED
  BY <1>2, <1>3, <1>5, <1>6, CallbackStep

(* A connection is accepted into the list: nobody holds it yet. *)
LEMMA AcceptStep ==
  ASSUME Working, Accept
  PROVE  Working'
<1>1. /\ Refs(ctx, client, unclaimed) /\ call \in CallRecords
      /\ woken \in BOOLEAN /\ listening \in BOOLEAN
  BY FromWorking
<1>2. PICK d \in Free :
        /\ ctx' = [ctx EXCEPT ![d] = NewContext(ESTABLISHED)]
        /\ unclaimed' = Append(unclaimed, d)
  BY DEF Accept
<1> DEFINE y == NewContext(ESTABLISHED)
<1>3. d \in Contexts /\ ~ctx[d].live
  BY DEF Free
<1>4. UNCHANGED <<client, listening, call, woken>>
  BY DEF Accept, Sketch
<1>5. /\ ContextOK(y) /\ y.live = TRUE /\ y.pcb = ESTABLISHED /\ y.refcnt = 0
      /\ y.sendWaiting = 0 /\ y.connectPending = 0
  BY NewContextOK
<1> HIDE DEF y
<1>6. ctx'[d] = y /\ \A c \in Contexts \ {d} : ctx'[c] = ctx[c]
  BY <1>1, <1>2, <1>3 DEF Refs, y
<1>7. ctx' \in [Contexts -> ContextRecords] /\ \A c \in Contexts : ContextOK(ctx'[c])
  <2>1. \A c \in Contexts : ContextOK(ctx'[c])
    BY <1>1, <1>5, <1>6 DEF Refs
  <2>2. ctx' = [c \in Contexts |-> ctx'[c]]
    BY <1>1, <1>2 DEF Refs
  <2> QED
    BY <2>1, <2>2 DEF ContextOK
<1>8. ctx[d].refcnt = 0 /\ ~Contains(unclaimed, d)
  <2>1. ctx[d].refcnt \in Nat
    BY <1>1, <1>3 DEF Refs, ContextRecords
  <2> QED
    BY <2>1, <1>1, <1>3 DEF Refs
<1>9. unclaimed \in Seq(Contexts) /\ Len(unclaimed) \in Nat
  BY <1>1 DEF Refs
<1>10. /\ unclaimed' \in Seq(Contexts) /\ Len(unclaimed') = Len(unclaimed) + 1
       /\ \A i \in 1 .. Len(unclaimed) : unclaimed'[i] = unclaimed[i]
       /\ unclaimed'[Len(unclaimed) + 1] = d
  BY <1>2, <1>3, <1>9, AppendProperties
<1>11. ASSUME NEW c \in Contexts
       PROVE  Contains(unclaimed', c) <=> Contains(unclaimed, c) \/ c = d
  <2>1. ASSUME NEW i \in 1 .. Len(unclaimed'), unclaimed'[i] = c
        PROVE  Contains(unclaimed, c) \/ c = d
    <3>1. i \in 1 .. Len(unclaimed) \/ i = Len(unclaimed) + 1
      BY <1>9, <1>10
    <3> QED
      BY <3>1, <2>1, <1>10 DEF Contains
  <2>2. ASSUME NEW i \in 1 .. Len(unclaimed), unclaimed[i] = c
        PROVE  Contains(unclaimed', c)
    <3>1. i \in 1 .. Len(unclaimed')
      BY <1>9, <1>10
    <3> QED
      BY <3>1, <2>2, <1>10 DEF Contains
  <2>3. Contains(unclaimed', d)
    <3>1. Len(unclaimed) + 1 \in 1 .. Len(unclaimed')
      BY <1>9, <1>10
    <3> QED
      BY <3>1, <1>10 DEF Contains
  <2> QED
    BY <2>1, <2>2, <2>3 DEF Contains
<1>12. ASSUME NEW i \in 1 .. Len(unclaimed'), NEW j \in 1 .. Len(unclaimed'), i # j
       PROVE  unclaimed'[i] # unclaimed'[j]
  <2>1. \A k \in 1 .. Len(unclaimed) : unclaimed[k] # d
    BY <1>8 DEF Contains
  <2>2. /\ i \in 1 .. Len(unclaimed) \/ i = Len(unclaimed) + 1
        /\ j \in 1 .. Len(unclaimed) \/ j = Len(unclaimed) + 1
    BY <1>9, <1>10
  <2>3. CASE i \in 1 .. Len(unclaimed) /\ j \in 1 .. Len(unclaimed)
    BY <2>3, <1>1, <1>10, <1>12 DEF Refs
  <2> QED
    BY <2>1, <2>2, <2>3, <1>10, <1>12
<1>13. Refs(ctx', client', unclaimed')
  <2>1. \A c \in Contexts : ctx'[c].refcnt = ctx[c].refcnt
    BY <1>5, <1>6, <1>8
  <2>2. \A c \in Contexts : ctx'[c].refcnt = Cardinality(Holders(client', c))
    BY <2>1, <1>1, <1>4 DEF Refs
  <2>3. \A c \in Contexts : ctx'[c].live <=> ctx'[c].refcnt > 0 \/ Contains(unclaimed', c)
    BY <2>1, <1>1, <1>5, <1>6, <1>11 DEF Refs
  <2>4. \A c \in Contexts : Contains(unclaimed', c) => ctx'[c].refcnt = 0
    BY <2>1, <1>1, <1>8, <1>11 DEF Refs
  <2>5. client' \in [Handles -> Contexts \cup {None}]
    BY <1>1, <1>4 DEF Refs
  <2> QED
    BY <2>2, <2>3, <2>4, <2>5, <1>7, <1>10, <1>12 DEF Refs
<1>14. CallOK'
  BY <1>4 DEF Working, CallOK
<1>15. call.op = "write" => call.c \in Contexts /\ call.c # d
  <2>1. CASE call.op = "write"
    BY <2>1, <1>3, Writing
  <2> QED
    BY <2>1
<1>16. RoundOK'
  <2>1. call.op = "write" => ctx'[call.c] = ctx[call.c]
    BY <1>6, <1>15
  <2> QED
    BY <2>1, <1>4 DEF Working, RoundOK
<1>17. WaitsOK'
  <2>1. ctx[d] = NoContext
    BY <1>1, <1>3 DEF Refs, ContextOK
  <2>2. ~(call.op = "connect" /\ call.c = d)
    BY <2>1, <1>3, FreshContext DEF Working, WaitsOK
  <2>3. y.pcb # SYN_SENT
    BY <1>5 DEF SYN_SENT, ESTABLISHED
  <2> SUFFICES ASSUME NEW c \in Contexts
               PROVE  /\ ctx'[c].pcb = SYN_SENT => call.op = "connect" /\ call.c = c
                      /\ ctx'[c].connectPending = 1 <=> call.op = "connect" /\ call.c = c
                      /\ ctx'[c].sendWaiting = 1 => call.op = "write" /\ call.c = c
                      /\ ctx'[c].sendWaiting = 1 /\ ctx'[c].pcb # None =>
                           call.phase = "wait" /\ ~woken
    BY <1>4 DEF WaitsOK
  <2>4. CASE c = d
    BY <2>2, <2>3, <2>4, <1>5, <1>6
  <2>5. CASE c # d
    BY <2>5, <1>6 DEF Working, WaitsOK
  <2> QED
    BY <2>4, <2>5
<1> QED
  BY <1>1, <1>4, <1>13, <1>14, <1>16, <1>17, ToWorking

(* The station event frees what any handle holds: nothing waits any more. *)
LEMMA StationDisconnectedStep ==
  ASSUME Working, StationDisconnected
  PROVE  Working'
<1>1. /\ Refs(ctx, client, unclaimed) /\ call \in CallRecords
      /\ woken \in BOOLEAN /\ listening \in BOOLEAN
  BY FromWorking
<1>2. /\ client' = [h \in Handles |-> None]
      /\ ctx' = [ c \in Contexts |->
                    IF \E h \in Handles : client[h] = c THEN NoContext ELSE ctx[c] ]
      /\ UNCHANGED <<unclaimed, listening, woken>>
  BY DEF StationDisconnected
<1>3. call' \in CallRecords /\ (call' = NoCall \/ call'.op = "stray")
  <2>1. CASE call.op \in {"none", "stray"}
    BY <2>1, <1>1, IdleIsQuiet DEF StationDisconnected, Idle
  <2>2. CASE call.op \notin {"none", "stray"}
    <3>1. call' = [call EXCEPT !.op = "stray", !.was = call.op]
      BY <2>2 DEF StationDisconnected, Stray
    <3>2. call.op \in {"connect", "write", "peek"}
      BY <2>2, <1>1 DEF CallRecords, Working, CallOK
    <3> QED
      BY <3>1, <3>2, <1>1 DEF CallRecords
  <2> QED
    BY <2>1, <2>2
<1>4. \A c \in Contexts : ContextOK(ctx'[c])
  BY <1>1, <1>2, FreshContext DEF Refs
<1>5. \A c \in Contexts : ctx'[c].refcnt = 0
  <2> SUFFICES ASSUME NEW c \in Contexts, ~ \E h \in Handles : client[h] = c
               PROVE  ctx[c].refcnt = 0
    BY <1>2, FreshContext
  <2>1. ctx[c].refcnt = Cardinality(Holders(client, c))
    BY <1>1 DEF Refs
  <2> QED
    BY <2>1, CountNat
<1>6. \A c \in Contexts : Cardinality(Holders(client', c)) = 0
  <2> SUFFICES ASSUME NEW c \in Contexts PROVE Cardinality(Holders(client', c)) = 0
    OBVIOUS
  <2>1. \A h \in Handles : client'[h] # c
    BY <1>2, Constants
  <2> QED
    BY <2>1, CountNat
<1>7. \A c \in Contexts : ctx'[c].live <=> Contains(unclaimed, c)
  <2> SUFFICES ASSUME NEW c \in Contexts
               PROVE  ctx'[c].live <=> Contains(unclaimed, c)
    OBVIOUS
  <2>1. CASE \E h \in Handles : client[h] = c
    <3>1. ctx[c].refcnt > 0
      <4>1. ctx[c].refcnt = Cardinality(Holders(client, c))
        BY <1>1 DEF Refs
      <4> QED
        BY <4>1, <2>1, CountNat
    <3>2. ~Contains(unclaimed, c)
      BY <3>1, <1>1 DEF Refs
    <3> QED
      BY <3>2, <2>1, <1>2, FreshContext
  <2>2. CASE ~ \E h \in Handles : client[h] = c
    <3>1. ctx'[c] = ctx[c]
      BY <2>2, <1>2
    <3>2. ctx[c].refcnt = 0
      BY <3>1, <1>5
    <3> QED
      BY <3>1, <3>2, <1>1 DEF Refs
  <2> QED
    BY <2>1, <2>2
<1>8. Refs(ctx', client', unclaimed')
  <2>1. ctx' \in [Contexts -> ContextRecords]
    <3>1. ctx' = [c \in Contexts |-> ctx'[c]]
      BY <1>2
    <3> QED
      BY <3>1, <1>4 DEF ContextOK
  <2>2. client' \in [Handles -> Contexts \cup {None}]
    BY <1>2
  <2>3. /\ unclaimed' \in Seq(Contexts)
        /\ \A i, j \in 1 .. Len(unclaimed') : i # j => unclaimed'[i] # unclaimed'[j]
    BY <1>1, <1>2 DEF Refs
  <2>4. \A c \in Contexts : ctx'[c].live <=> ctx'[c].refcnt > 0 \/ Contains(unclaimed', c)
    BY <1>2, <1>5, <1>7
  <2> QED
    BY <2>1, <2>2, <2>3, <2>4, <1>4, <1>5, <1>6 DEF Refs
<1>9. \A c \in Contexts : Quiet(ctx'[c])
  <2> SUFFICES ASSUME NEW c \in Contexts PROVE Quiet(ctx'[c])
    OBVIOUS
  <2>1. CASE \E h \in Handles : client[h] = c
    BY <2>1, <1>2, FreshContext DEF Quiet, None, SYN_SENT
  <2>2. CASE ~ \E h \in Handles : client[h] = c
    <3>1. ~(call.op \in {"connect", "write"} /\ call.c = c)
      BY <2>2 DEF Working, CallOK
    <3>2. ctx[c].sendWaiting \in 0 .. 1 /\ ctx[c].connectPending \in 0 .. 1
      BY <1>1 DEF Refs, ContextRecords
    <3>3. Quiet(ctx[c])
      BY <3>1, <3>2 DEF Working, WaitsOK, Quiet
    <3> QED
      BY <3>3, <2>2, <1>2
  <2> QED
    BY <2>1, <2>2
<1> QED
  BY <1>1, <1>2, <1>3, <1>8, <1>9, NoCallTyped, IdleAgain

(* The call that was struck goes on: it uses what has been freed. *)
LEMMA StrayGoesOnStep ==
  ASSUME Working, StrayGoesOn
  PROVE  Struck' /\ call.op = "stray"
<1>1. /\ call.op = "stray" /\ call' = Undefined
      /\ UNCHANGED <<ctx, client, unclaimed, listening, woken>>
  BY DEF StrayGoesOn
<1>2. TypeInv' /\ ContextsOK'
  BY <1>1, NoCallTyped DEF Working, TypeInv, ContextsOK
<1>3. \A c \in Contexts : ctx[c].pcb # SYN_SENT
  BY <1>1 DEF Working, WaitsOK
<1> QED
  BY <1>1, <1>2, <1>3 DEF Struck

-----------------------------------------------------------------------------
(* No context, no handle, no call. *)
LEMMA InitIInv == Init => Working
<1> SUFFICES ASSUME Init PROVE Working
  OBVIOUS
<1>1. /\ ctx = [c \in Contexts |-> NoContext] /\ client = [h \in Handles |-> None]
      /\ unclaimed = <<>> /\ listening = FALSE /\ call = NoCall /\ woken = FALSE
  BY DEF Init
<1>2. TypeInv
  <2>1. NoContext \in ContextRecords
    BY FreshContext DEF ContextOK
  <2>2. ctx \in [Contexts -> ContextRecords]
    BY <1>1, <2>1
  <2>3. client \in [Handles -> Contexts \cup {None}] /\ unclaimed \in Seq(Contexts)
    BY <1>1
  <2>4. listening \in BOOLEAN /\ call \in CallRecords /\ woken \in BOOLEAN
    BY <1>1, NoCallTyped
  <2> QED
    BY <2>2, <2>3, <2>4 DEF TypeInv
<1>3. ContextsOK
  BY <1>1, FreshContext DEF ContextsOK
<1>4. Counted
  <2>1. \A c \in Contexts : Cardinality(Holders(client, c)) = 0
    <3> SUFFICES ASSUME NEW c \in Contexts PROVE Cardinality(Holders(client, c)) = 0
      OBVIOUS
    <3>1. \A h \in Handles : client[h] # c
      BY <1>1, Constants
    <3> QED
      BY <3>1, CountNat
  <2>2. Len(unclaimed) = 0 /\ \A c \in Contexts : ~Contains(unclaimed, c)
    BY <1>1 DEF Contains
  <2>3. ToSet(unclaimed) = {}
    BY <1>1 DEF ToSet
  <2> QED
    BY <1>1, <2>1, <2>2, <2>3, FreshContext, NoCallTyped DEF Counted, Holders
<1>5. CallOK /\ RoundOK
  BY <1>1, NoCallTyped DEF CallOK, RoundOK
<1>6. WaitsOK
  BY <1>1, NoCallTyped, FreshContext DEF WaitsOK, None, SYN_SENT
<1> QED
  BY <1>2, <1>3, <1>4, <1>5, <1>6 DEF Working

(* A step keeps the sketch on its own memory, or is one of the two that leave it. *)
LEMMA NextWorking ==
  ASSUME Working, [Next]_vars
  PROVE  Working' \/ (Struck' /\ (call.op = "stray" \/ SelfAssigned))
<1>1. CASE SketchNext
  <2>1. ASSUME NEW h \in Handles,
               \/ \E d \in Contexts \cup {None} : Assign(h, d)
               \/ Claim(h) \/ Read(h) \/ Flush(h) \/ Connect(h) \/ Write(h) \/ Peek(h)
        PROVE  Working' \/ (Struck' /\ SelfAssigned)
    BY <2>1, AssignStep, ClaimStep, ReadStep, FlushStep, ConnectStep, WriteStep, PeekStep
  <2> QED
    BY <2>1, <1>1, ListenStep DEF SketchNext
<1>2. CASE GoOn
  BY <1>2, ConnectEndsStep, FillStep, RoundEndsStep, NextRoundStep, PeekEndsStep,
     StrayGoesOnStep DEF GoOn
<1>3. CASE Expire
  BY <1>3, ExpireStep
<1>4. CASE Network
  <2>1. ASSUME NEW c \in Contexts,
               \/ Connected(c) \/ Acknowledge(c) \/ Poll(c) \/ Receive(c)
               \/ LoseConnection(c)
        PROVE  Working'
    BY <2>1, ConnectedStep, AcknowledgeStep, PollStep, ReceiveStep, LoseConnectionStep
  <2> QED
    BY <2>1, <1>4, AcceptStep, StationDisconnectedStep DEF Network
<1>5. CASE Gone \/ UNCHANGED vars
  <2>1. UNCHANGED vars
    BY <1>5 DEF Gone
  <2> QED
    BY <2>1 DEF vars, Working, TypeInv, ContextsOK, Counted, CallOK, RoundOK, WaitsOK
<1> QED
  BY <1>1, <1>2, <1>3, <1>4, <1>5 DEF Next

(* Once the sketch has left it, the model takes no step. *)
LEMMA StruckStays ==
  ASSUME Struck, [Next]_vars
  PROVE  UNCHANGED vars
<1>1. call.op = "undefined" /\ call.phase = "none"
  BY NoCallTyped DEF Struck
<1>2. ~Idle /\ ~Yielded
  BY <1>1 DEF Idle, Yielded
<1>3. ~SketchNext
  BY <1>2 DEF SketchNext, Assign, Claim, Listen, Read, Flush, Connect, Write, Peek
<1>4. ~GoOn /\ ~Expire
  BY <1>1 DEF GoOn, ConnectEnds, Fill, RoundEnds, NextRound, PeekEnds, StrayGoesOn, Expire
<1>5. ~Network
  BY <1>2 DEF Network, Connected, Acknowledge, Poll, Receive, LoseConnection, Accept,
     StationDisconnected
<1> QED
  BY <1>3, <1>4, <1>5 DEF Next, Gone

LEMMA NextIInv == IInv /\ [Next]_vars => IInv'
<1> SUFFICES ASSUME IInv, [Next]_vars PROVE IInv'
  OBVIOUS
<1>1. CASE Working
  BY <1>1, NextWorking DEF IInv
<1>2. CASE Struck
  <2>1. UNCHANGED vars
    BY <1>2, StruckStays
  <2> QED
    BY <2>1, <1>2 DEF vars, IInv, Struck, TypeInv, ContextsOK
<1> QED
  BY <1>1, <1>2 DEF IInv

(* The invariant holds of every behaviour. *)
LEMMA SpecIInv == Spec => []IInv
<1>1. Init => IInv
  BY InitIInv DEF IInv
<1> QED
  BY <1>1, NextIInv, PTL DEF Spec

(* As long as the sketch stands on memory of its own, every context is counted
   right and the one a call waits in is held; it steps off that memory only by a
   self-assignment of the last handle or in a call that the station event struck. *)
THEOREM ConnectionsCounted == Spec => RefsMatch
<1>1. IInv => (call # Undefined => Counted)
  BY DEF IInv, Working, Struck
<1>2. IInv /\ [Next]_vars =>
        [call # Undefined /\ call' = Undefined => call.op = "stray" \/ SelfAssigned]_vars
  <2> SUFFICES ASSUME IInv, [Next]_vars, call # Undefined, call' = Undefined
               PROVE  call.op = "stray" \/ SelfAssigned
    OBVIOUS
  <2>1. Working
    BY DEF IInv, Struck
  <2>2. ~Working'
    BY NoCallTyped DEF Working, CallOK
  <2> QED
    BY <2>1, <2>2, NextWorking
<1> QED
  BY <1>1, <1>2, SpecIInv, PTL DEF Spec, RefsMatch

(* The window is closed by what has not been read, and by nothing else. *)
THEOREM WindowsAccounted == Spec => []WindowAccounted
<1>1. IInv => WindowAccounted
  <2> SUFFICES ASSUME IInv, NEW c \in Contexts
               PROVE  /\ 0 <= ctx[c].off
                      /\ IF ctx[c].rx = <<>>
                           THEN ctx[c].off = 0
                           ELSE ctx[c].off < TotLen(ctx[c].rx) - After(ctx[c].rx, 1)
                      /\ ctx[c].pcb # None =>
                           ctx[c].unacked = TotLen(ctx[c].rx) /\ ctx[c].unacked <= RcvWnd
    BY DEF WindowAccounted
  <2>1. ContextOK(ctx[c]) /\ ctx[c].off \in Nat
    <3>1. ContextOK(ctx[c])
      BY DEF IInv, Working, Struck, ContextsOK
    <3> QED
      BY <3>1 DEF ContextOK, ContextRecords
  <2> QED
    BY <2>1 DEF ContextOK, OffsetOK
<1> QED
  BY <1>1, SpecIInv, PTL

(* A callback that finds the connection made finds the connect that waits for it,
   and a writer that waits is alone and can be woken. *)
THEOREM AssertionsSafe == Spec => []AssertionsHold
<1>1. IInv => AssertionsHold
  <2> SUFFICES ASSUME IInv PROVE AssertionsHold
    OBVIOUS
  <2>1. ASSUME NEW c \in Contexts PROVE ctx[c].sendWaiting <= 1
    <3>1. ContextOK(ctx[c])
      BY DEF IInv, Working, Struck, ContextsOK
    <3> QED
      BY <3>1 DEF ContextOK, ContextRecords
  <2>2. \A c \in Contexts : ctx[c].pcb = SYN_SENT => ctx[c].connectPending = 1
    BY DEF IInv, Struck, Working, WaitsOK
  <2>3. Idle => \A c \in Contexts : ctx[c].sendWaiting = 0 /\ ctx[c].connectPending = 0
    <3>1. Idle => Working
      BY NoCallTyped DEF IInv, Struck, Idle
    <3> QED
      BY <3>1, IdleIsQuiet DEF Quiet
  <2> QED
    BY <2>1, <2>2, <2>3 DEF AssertionsHold
<1> QED
  BY <1>1, SpecIInv, PTL

(* What tcp_write has been given is in the order of the source, each piece once, and
   whatever is missing was refused; the send buffer is never given too much. *)
THEOREM WritesInOrder == Spec => []SentInOrder
<1>1. IInv => SentInOrder
  <2> SUFFICES ASSUME IInv PROVE SentInOrder
    OBVIOUS
  <2>1. ASSUME NEW c \in Contexts PROVE ctx[c].queued <= SndBuf
    BY DEF IInv, Working, Struck, ContextsOK, ContextOK
  <2>2. call.op = "write" => Ordered(call) /\ RoundOK
    BY NoCallTyped DEF IInv, Working, Struck, RoundOK
  <2> QED
    BY <2>1, <2>2 DEF SentInOrder, Ordered, RoundOK
<1> QED
  BY <1>1, SpecIInv, PTL

=============================================================================
