--------------------------- MODULE ProcessHostProofs ---------------------------
(***************************************************************************)
(* Proofs about ProcessHost, for any number of slots and children, any     *)
(* output and pipes of any size.                                           *)
(***************************************************************************)
EXTENDS ProcessHost, ProofLemmas, SequenceTheorems, TLAPS

Bytes == 1..MaxOutput

Stream == [closed : BOOLEAN, buf : Seq(Bytes), pos : 0..MaxOutput]

SlotRec == [used : BOOLEAN, child : 0..MaxSpawns, finished : BOOLEAN,
            exit : ExitCodes \cup {0, SigTerm}, io : [Streams -> Stream]]

ChildRec == [state : {"none", "running", "zombie", "reaped"}, killed : BOOLEAN,
             exit : ExitCodes \cup {0, SigTerm}, slot : BOOLEAN,
             wrote : [Streams -> 0..MaxOutput], left : [Streams -> 0..MaxOutput],
             pipe : [Streams -> Seq(Bytes)], open : [Streams -> BOOLEAN],
             got : [Streams -> Seq(Bytes)]]

\* One stream of a slot and its child: every byte is in one place, and a
\* stream is closed only when its pipe has been drained for good.
StreamOK(io, ch, s) ==
  /\ io.pos <= Len(io.buf) /\ io.pos <= Len(ch.got[s])
  /\ io.closed => ~ch.open[s] /\ ch.pipe[s] = <<>>
  /\ Counted(ch.wrote[s]) = ch.got[s] \o UnreadBytes(io) \o ch.pipe[s]

\* A slot in use and its child.
PairOK(sl, ch) ==
  /\ sl.used /\ ch.slot
  /\ sl.finished <=> ch.state = "reaped"
  /\ \A s \in Streams : StreamOK(sl.io[s], ch, s)

\* A child whose slot has been released: nothing is left and nothing will come.
Released(ch) ==
  \A s \in Streams : /\ ~ch.open[s] /\ ch.pipe[s] = <<>>
                     /\ Counted(ch.wrote[s]) = ch.got[s]

\* A child writes no more than it planned, and nothing after closing.
Bounded(ch) ==
  \A s \in Streams : /\ ch.wrote[s] + ch.left[s] <= MaxOutput
                     /\ ~ch.open[s] => ch.left[s] = 0

Types ==
  /\ slots \in [Slots -> SlotRec] /\ children \in [Children -> ChildRec]
  /\ main \in [slot : 0..ProcessCapacity, pc : {"idle", "drain", "reap"}]
  /\ main.pc # "idle" => main.slot \in Slots /\ slots[main.slot].used
  /\ spawned \in 0..MaxSpawns /\ dangling \in BOOLEAN

ChildrenOK == \A c \in Children : /\ Bounded(children[c])
                                  /\ c > spawned => children[c] = NoChild

SlotsOK ==
  \A h \in Slots : slots[h].used =>
    /\ slots[h].child \in 1..spawned
    /\ PairOK(slots[h], children[slots[h].child])

OneSlotEach ==
  \A h, k \in Slots : slots[h].used /\ slots[k].used /\ slots[h].child = slots[k].child
                        => h = k

ReleasedOK ==
  \A c \in Children : children[c].slot =>
     \/ \E h \in Slots : slots[h].used /\ slots[h].child = c
     \/ Released(children[c])

ProcInv == Types /\ ChildrenOK /\ SlotsOK /\ OneSlotEach /\ ReleasedOK

-----------------------------------------------------------------------------
(* Sequences of bytes.                                                     *)

LEMMA Constants ==
  /\ ProcessCapacity \in Nat /\ ProcessCapacity > 0 /\ MaxSpawns \in Nat
  /\ MaxOutput \in Nat /\ PipeCapacity \in Nat
BY ProcessAssumption

LEMMA CountedNext ==
  ASSUME NEW n \in Nat
  PROVE  /\ Counted(n) \in Seq(Nat) /\ Len(Counted(n)) = n
         /\ Counted(n + 1) = Append(Counted(n), n + 1)
<1>1. \A m \in Nat : Counted(m) \in Seq(Nat) /\ Len(Counted(m)) = m
                     /\ \A i \in 1..m : Counted(m)[i] = i
  BY DEF Counted
<1>2. Append(Counted(n), n + 1) \in Seq(Nat) /\ Len(Append(Counted(n), n + 1)) = n + 1
      /\ \A i \in 1..(n + 1) : Append(Counted(n), n + 1)[i] = i
  BY <1>1
<1>3. Counted(n + 1) \in Seq(Nat) /\ Len(Counted(n + 1)) = n + 1
      /\ \A i \in 1..(n + 1) : Counted(n + 1)[i] = i
  BY <1>1
<1> HIDE DEF Counted
<1>4. QED BY <1>1, <1>2, <1>3, SeqEqual

LEMMA UnreadIsSeq ==
  ASSUME NEW io \in Stream
  PROVE  /\ UnreadBytes(io) \in Seq(Bytes)
         /\ io.pos <= Len(io.buf) => Len(UnreadBytes(io)) = Len(io.buf) - io.pos
         /\ ~Unread(io) => UnreadBytes(io) = <<>>
         /\ io.pos = 0 => UnreadBytes(io) = io.buf
<1>1. io.buf \in Seq(Bytes) /\ io.pos \in Nat /\ Len(io.buf) \in Nat
  BY Constants DEF Stream
<1>2. io.pos + 1 \in Nat /\ io.pos + 1 >= 1
  BY <1>1
<1>3. UnreadBytes(io) \in Seq(Bytes)
  BY <1>1, <1>2 DEF UnreadBytes
<1>4. io.pos <= Len(io.buf) => Len(UnreadBytes(io)) = Len(io.buf) - io.pos
  BY <1>1, <1>2 DEF UnreadBytes
<1>5. ~Unread(io) => UnreadBytes(io) = <<>>
  BY <1>1, <1>2, SubSeqEmpty DEF UnreadBytes, Unread
<1>6. io.pos = 0 => UnreadBytes(io) = io.buf
  BY <1>1, SubSeqFull DEF UnreadBytes
<1>7. QED BY <1>3, <1>4, <1>5, <1>6

-----------------------------------------------------------------------------
(* One stream: bytes move from the pipe to the buffer and to the program.  *)

LEMMA StreamTypes ==
  ASSUME NEW ch \in ChildRec, NEW s \in Streams
  PROVE  /\ ch.got[s] \in Seq(Bytes) /\ ch.pipe[s] \in Seq(Bytes)
         /\ ch.wrote[s] \in Nat /\ ch.wrote[s] <= MaxOutput
         /\ ch.left[s] \in Nat /\ ch.left[s] <= MaxOutput
         /\ Len(ch.got[s]) \in Nat /\ Len(ch.pipe[s]) \in Nat
BY Constants DEF ChildRec

\* The buffer never holds more than the child has written.
LEMMA BufferBound ==
  ASSUME NEW io \in Stream, NEW ch \in ChildRec, NEW s \in Streams, StreamOK(io, ch, s)
  PROVE  Len(io.buf) \in 0..MaxOutput
<1> DEFINE g == ch.got[s]
           u == UnreadBytes(io)
           p == ch.pipe[s]
<1>1. g \in Seq(Bytes) /\ p \in Seq(Bytes) /\ u \in Seq(Bytes)
  BY StreamTypes, UnreadIsSeq
<1>2. Len(u) = Len(io.buf) - io.pos
  BY UnreadIsSeq DEF StreamOK
<1>3. io.buf \in Seq(Bytes) /\ io.pos \in Nat /\ Len(io.buf) \in Nat /\ io.pos <= Len(g)
  BY Constants DEF Stream, StreamOK
<1>4. Counted(ch.wrote[s]) = (g \o u) \o p
  BY DEF StreamOK
<1>5. ch.wrote[s] = Len(Counted(ch.wrote[s])) /\ ch.wrote[s] <= MaxOutput
  BY CountedNext, StreamTypes
<1> HIDE DEF g, u, p
<1>6. Len((g \o u) \o p) = Len(g) + Len(u) + Len(p) /\ Len(g) \in Nat /\ Len(p) \in Nat
  BY <1>1
<1>7. QED BY <1>2, <1>3, <1>4, <1>5, <1>6, Constants, StreamTypes

\* What one stream of a child keeps when another operation changes the rest.
SameStream(ch, ch2, s) ==
  /\ ch2.wrote[s] = ch.wrote[s] /\ ch2.got[s] = ch.got[s]
  /\ ch2.pipe[s] = ch.pipe[s] /\ ch2.open[s] = ch.open[s]

LEMMA StreamKept ==
  ASSUME NEW io, NEW ch, NEW ch2, NEW s, StreamOK(io, ch, s), SameStream(ch, ch2, s)
  PROVE  StreamOK(io, ch2, s)
BY DEF StreamOK, SameStream

\* Draining moves the pipe behind what the buffer has not handed out yet.
LEMMA StreamDrained ==
  ASSUME NEW io \in Stream, NEW ch \in ChildRec, NEW s \in Streams, StreamOK(io, ch, s),
         NEW ch2, ch2.wrote[s] = ch.wrote[s], ch2.got[s] = ch.got[s],
         ch2.pipe[s] = <<>>, ch2.open[s] = ch.open[s],
         NEW io2, io2 = [AppendBuffer(io, ch.pipe[s]) EXCEPT !.closed = ~ch.open[s]]
  PROVE  io2 \in Stream /\ StreamOK(io2, ch2, s)
<1> DEFINE g == ch.got[s]
           u == UnreadBytes(io)
           p == ch.pipe[s]
           a == AppendBuffer(io, p)
<1>1. g \in Seq(Bytes) /\ p \in Seq(Bytes) /\ u \in Seq(Bytes) /\ Len(g) \in Nat
  BY StreamTypes, UnreadIsSeq
<1>2. Counted(ch.wrote[s]) = (g \o u) \o p /\ io.pos <= Len(io.buf) /\ io.pos <= Len(g)
  BY DEF StreamOK
<1>3. ch.open[s] \in BOOLEAN /\ 0 \in 0..MaxOutput
  BY Constants DEF ChildRec
<1>4. a \in Stream /\ a.pos <= Len(a.buf) /\ a.pos <= Len(g)
      /\ (g \o UnreadBytes(a)) \o <<>> = (g \o u) \o p
  <2>1. CASE p = <<>>
    <3>1. a = io
      BY <2>1 DEF AppendBuffer
    <3>2. QED BY <1>2, <2>1, <3>1
  <2>2. CASE p # <<>>
    <3>1. a = [io EXCEPT !.buf = u \o p, !.pos = 0]
      BY <2>2 DEF AppendBuffer
    <3>2. u \o p \in Seq(Bytes) /\ Len(u \o p) \in Nat
      BY <1>1, ConcatProperties
    <3> DEFINE b == u \o p
    <3> HIDE DEF b, u, p, a
    <3>3. a \in Stream /\ a.buf = b /\ a.pos = 0
      BY <1>3, <3>1, <3>2 DEF Stream, b
    <3>4. UnreadBytes(a) = b
      BY <3>3, UnreadIsSeq
    <3>5. (g \o u) \o p = g \o b /\ (g \o b) \o <<>> = g \o b
      <4> HIDE DEF g
      <4>1. (g \o u) \o p = g \o (u \o p)
        BY <1>1, ConcatAssociative
      <4>2. g \o b \in Seq(Bytes)
        BY <1>1, <3>2, ConcatProperties DEF b
      <4>3. QED BY <4>1, <4>2, ConcatEmptySeq DEF b
    <3>6. QED BY <1>1, <3>2, <3>3, <3>4, <3>5 DEF b
  <2>3. QED BY <2>1, <2>2
<1>5. io2 = [a EXCEPT !.closed = ~ch.open[s]]
  OBVIOUS
<1> HIDE DEF a
<1>6. io2 \in Stream /\ io2.buf = a.buf /\ io2.pos = a.pos /\ io2.closed = ~ch.open[s]
  BY <1>3, <1>4, <1>5 DEF Stream
<1>7. UnreadBytes(io2) = UnreadBytes(a)
  BY <1>6 DEF UnreadBytes
<1>8. QED BY <1>2, <1>3, <1>4, <1>6, <1>7 DEF StreamOK

\* A read from the buffer hands out all of it.
LEMMA StreamRead1 ==
  ASSUME NEW io \in Stream, NEW ch \in ChildRec, NEW s \in Streams, StreamOK(io, ch, s),
         NEW ch2, ch2.wrote[s] = ch.wrote[s], ch2.got[s] = ch.got[s] \o UnreadBytes(io),
         ch2.pipe[s] = ch.pipe[s], ch2.open[s] = ch.open[s],
         NEW io2, io2 = [io EXCEPT !.pos = Len(io.buf)]
  PROVE  /\ io2 \in Stream /\ StreamOK(io2, ch2, s) /\ ch2.got[s] \in Seq(Bytes)
<1> DEFINE g == ch.got[s]
           u == UnreadBytes(io)
           p == ch.pipe[s]
<1>1. g \in Seq(Bytes) /\ p \in Seq(Bytes) /\ u \in Seq(Bytes)
      /\ g \o u \in Seq(Bytes) /\ Len(g \o u) = Len(g) + Len(u)
      /\ Len(g) \in Nat /\ Len(u) \in Nat
  BY StreamTypes, UnreadIsSeq, ConcatProperties
<1>2. Len(u) = Len(io.buf) - io.pos /\ io.pos <= Len(g)
      /\ io.buf \in Seq(Bytes) /\ io.pos \in Nat /\ Len(io.buf) \in Nat
  <2>1. io.pos <= Len(io.buf) /\ io.pos <= Len(g)
    BY DEF StreamOK
  <2>2. io.buf \in Seq(Bytes) /\ io.pos \in Nat /\ Len(io.buf) \in Nat
    BY Constants DEF Stream
  <2>3. QED BY <2>1, <2>2, UnreadIsSeq
<1>3. Len(io.buf) \in 0..MaxOutput
  BY BufferBound
<1>4. io2 \in Stream /\ io2.buf = io.buf /\ io2.pos = Len(io.buf) /\ io2.closed = io.closed
  BY <1>3 DEF Stream
<1>5. UnreadBytes(io2) = <<>>
  <2>1. ~Unread(io2)
    BY <1>2, <1>4 DEF Unread
  <2>2. QED BY <1>4, <2>1, UnreadIsSeq
<1>6. Len(io.buf) <= Len(g \o u)
  BY <1>1, <1>2
<1>7. (g \o u) \o <<>> = g \o u
  BY <1>1, ConcatEmptySeq
<1> HIDE DEF g, u, p
<1>8. ch2.got[s] \o UnreadBytes(io2) \o ch2.pipe[s] = (g \o u) \o p
  BY <1>5, <1>7 DEF g, u, p
<1>9. ch2.got[s] = g \o u /\ Counted(ch2.wrote[s]) = (g \o u) \o p
      /\ (io2.closed => ~ch2.open[s] /\ ch2.pipe[s] = <<>>)
  BY <1>4 DEF StreamOK, g, u, p
<1>10. io2.pos <= Len(io2.buf) /\ io2.pos <= Len(ch2.got[s])
  BY <1>2, <1>4, <1>6, <1>9
<1>11. QED BY <1>1, <1>4, <1>8, <1>9, <1>10 DEF StreamOK

\* A read with an empty buffer takes the pipe.
LEMMA StreamRead2 ==
  ASSUME NEW io \in Stream, NEW ch \in ChildRec, NEW s \in Streams, StreamOK(io, ch, s),
         ~Unread(io),
         NEW ch2, ch2.wrote[s] = ch.wrote[s], ch2.got[s] = ch.got[s] \o ch.pipe[s],
         ch2.pipe[s] = <<>>, ch2.open[s] = ch.open[s]
  PROVE  StreamOK(io, ch2, s) /\ ch2.got[s] \in Seq(Bytes)
<1> DEFINE g == ch.got[s]
           p == ch.pipe[s]
<1>1. g \in Seq(Bytes) /\ p \in Seq(Bytes) /\ g \o p \in Seq(Bytes)
      /\ Len(g \o p) = Len(g) + Len(p) /\ Len(g) \in Nat /\ Len(p) \in Nat
      /\ io.pos \in Nat
  BY StreamTypes, ConcatProperties, Constants DEF Stream
<1>2. UnreadBytes(io) = <<>>
  BY UnreadIsSeq
<1>3. g \o <<>> = g /\ (g \o p) \o <<>> = g \o p
  BY <1>1, ConcatEmptySeq
<1>4. Counted(ch.wrote[s]) = g \o p /\ io.pos <= Len(g)
  BY <1>2, <1>3 DEF StreamOK
<1> HIDE DEF g, p
<1>5. io.pos <= Len(g \o p)
  BY <1>1, <1>4
<1>6. ch2.got[s] = g \o p
  BY DEF g, p
<1>7. ch2.got[s] \o UnreadBytes(io) \o ch2.pipe[s] = g \o p
  BY <1>2, <1>3, <1>6
<1>8. QED BY <1>1, <1>4, <1>5, <1>6, <1>7 DEF StreamOK

\* A byte written goes to the end of the pipe.
LEMMA StreamWritten ==
  ASSUME NEW io \in Stream, NEW ch \in ChildRec, NEW s \in Streams, StreamOK(io, ch, s),
         ch.open[s], NEW ch2, ch2.wrote[s] = ch.wrote[s] + 1, ch2.got[s] = ch.got[s],
         ch2.pipe[s] = Append(ch.pipe[s], ch.wrote[s] + 1), ch2.open[s] = ch.open[s]
  PROVE  StreamOK(io, ch2, s)
<1> DEFINE g == ch.got[s]
           u == UnreadBytes(io)
           p == ch.pipe[s]
           n == ch.wrote[s]
           a == g \o u
<1>1. g \in Seq(Bytes) /\ p \in Seq(Bytes) /\ u \in Seq(Bytes) /\ n \in Nat
  BY StreamTypes, UnreadIsSeq
<1>2. g \in Seq(Nat) /\ p \in Seq(Nat) /\ u \in Seq(Nat)
  <2>1. Bytes \subseteq Nat
    BY DEF Bytes
  <2>2. QED BY <1>1, <2>1, SeqMonotonic
<1>3. a \in Seq(Nat)
  BY <1>2, ConcatProperties
<1>4. Counted(n) = a \o p /\ io.pos <= Len(io.buf) /\ io.pos <= Len(g) /\ ~io.closed
  BY DEF StreamOK
<1>5. Counted(n + 1) = Append(a \o p, n + 1)
  BY <1>1, <1>4, CountedNext
<1> HIDE DEF a, p, n
<1>6. Append(a \o p, n + 1) = a \o Append(p, n + 1)
  <2>1. n + 1 \in Nat
    BY <1>1
  <2>2. p \in Seq(Nat) /\ <<n + 1>> \in Seq(Nat) /\ a \o p \in Seq(Nat)
    BY <1>2, <1>3, <2>1, ConcatProperties DEF p
  <2>3. Append(a \o p, n + 1) = (a \o p) \o <<n + 1>> /\ Append(p, n + 1) = p \o <<n + 1>>
    BY <2>1, <2>2, AppendIsConcat
  <2> DEFINE e == <<n + 1>>
  <2> HIDE DEF e
  <2>4. (a \o p) \o e = a \o (p \o e)
    BY <1>3, <2>2, ConcatAssociative DEF e
  <2>5. QED BY <2>3, <2>4 DEF e
<1>7. QED BY <1>4, <1>5, <1>6 DEF StreamOK, a, p, n

-----------------------------------------------------------------------------
(* A slot and its child, through the helpers of the host.                  *)

PairGood(x) == /\ x.slot \in SlotRec /\ x.child \in ChildRec
               /\ Bounded(x.child) /\ PairOK(x.slot, x.child)

\* What no helper changes.
KeptBy(x, y) == y.slot.child = x.slot.child /\ y.child.killed = x.child.killed

\* What an operation may leave: the slot in order, or released with nothing lost.
Outcome(x, y) ==
  /\ y.child \in ChildRec /\ Bounded(y.child) /\ y.child.slot
  /\ y.child.killed = x.child.killed
  /\ \/ y.slot \in SlotRec /\ y.slot.child = x.slot.child /\ PairOK(y.slot, y.child)
     \/ y.slot = FreeSlot /\ Released(y.child)

\* One field of a slot or of a child replaced.
\* sl2 is sl with another state of stream s.
WithIo(sl, sl2, s, io) ==
  /\ sl2 \in SlotRec /\ sl2.used = sl.used /\ sl2.child = sl.child
  /\ sl2.finished = sl.finished
  /\ sl2.io[s] = io /\ \A t \in Streams : t # s => sl2.io[t] = sl.io[t]

LEMMA SlotIoUpdate ==
  ASSUME NEW sl \in SlotRec, NEW s \in Streams, NEW io \in Stream,
         NEW sl2, sl2 = [sl EXCEPT !.io[s] = io]
  PROVE  WithIo(sl, sl2, s, io)
<1>1. sl.io \in [Streams -> Stream]
  BY DEF SlotRec
<1> DEFINE ios == [sl.io EXCEPT ![s] = io]
<1>2. ios \in [Streams -> Stream] /\ ios[s] = io /\ \A t \in Streams : t # s => ios[t] = sl.io[t]
  BY <1>1
<1>3. sl2 = [sl EXCEPT !.io = ios]
  OBVIOUS
<1> HIDE DEF ios
<1>4. sl2 \in SlotRec /\ sl2.used = sl.used /\ sl2.child = sl.child
      /\ sl2.finished = sl.finished /\ sl2.io = ios
  BY <1>2, <1>3 DEF SlotRec
<1>5. QED BY <1>2, <1>4 DEF WithIo

\* ch2 is ch with another pipe of stream s.
WithPipe(ch, ch2, s, p) ==
  /\ ch2 \in ChildRec /\ ch2.killed = ch.killed /\ ch2.state = ch.state
  /\ ch2.slot = ch.slot /\ ch2.wrote = ch.wrote /\ ch2.left = ch.left
  /\ ch2.open = ch.open /\ ch2.got = ch.got
  /\ ch2.pipe[s] = p /\ \A t \in Streams : t # s => ch2.pipe[t] = ch.pipe[t]

LEMMA ChildPipeUpdate ==
  ASSUME NEW ch \in ChildRec, NEW s \in Streams, NEW p \in Seq(Bytes),
         NEW ch2, ch2 = [ch EXCEPT !.pipe[s] = p]
  PROVE  WithPipe(ch, ch2, s, p)
<1>1. ch.pipe \in [Streams -> Seq(Bytes)]
  BY DEF ChildRec
<1> DEFINE ps == [ch.pipe EXCEPT ![s] = p]
<1>2. ps \in [Streams -> Seq(Bytes)] /\ ps[s] = p
      /\ \A t \in Streams : t # s => ps[t] = ch.pipe[t]
  BY <1>1
<1>3. ch2 = [ch EXCEPT !.pipe = ps]
  OBVIOUS
<1> HIDE DEF ps
<1>4. /\ ch2 \in ChildRec /\ ch2.killed = ch.killed /\ ch2.state = ch.state
      /\ ch2.slot = ch.slot /\ ch2.wrote = ch.wrote /\ ch2.left = ch.left
      /\ ch2.open = ch.open /\ ch2.got = ch.got /\ ch2.pipe = ps
  BY <1>2, <1>3 DEF ChildRec
<1>5. QED BY <1>2, <1>4 DEF WithPipe

\* ch2 is ch with more of stream s read.
WithGot(ch, ch2, s, p) ==
  /\ ch2 \in ChildRec /\ ch2.killed = ch.killed /\ ch2.state = ch.state
  /\ ch2.slot = ch.slot /\ ch2.wrote = ch.wrote /\ ch2.left = ch.left
  /\ ch2.open = ch.open /\ ch2.pipe = ch.pipe
  /\ ch2.got[s] = p /\ \A t \in Streams : t # s => ch2.got[t] = ch.got[t]

LEMMA ChildGotUpdate ==
  ASSUME NEW ch \in ChildRec, NEW s \in Streams, NEW p \in Seq(Bytes),
         NEW ch2, ch2 = [ch EXCEPT !.got[s] = p]
  PROVE  WithGot(ch, ch2, s, p)
<1>1. ch.got \in [Streams -> Seq(Bytes)]
  BY DEF ChildRec
<1> DEFINE gs == [ch.got EXCEPT ![s] = p]
<1>2. gs \in [Streams -> Seq(Bytes)] /\ gs[s] = p
      /\ \A t \in Streams : t # s => gs[t] = ch.got[t]
  BY <1>1
<1>3. ch2 = [ch EXCEPT !.got = gs]
  OBVIOUS
<1> HIDE DEF gs
<1>4. /\ ch2 \in ChildRec /\ ch2.killed = ch.killed /\ ch2.state = ch.state
      /\ ch2.slot = ch.slot /\ ch2.wrote = ch.wrote /\ ch2.left = ch.left
      /\ ch2.open = ch.open /\ ch2.pipe = ch.pipe /\ ch2.got = gs
  BY <1>2, <1>3 DEF ChildRec
<1>5. QED BY <1>2, <1>4 DEF WithGot

LEMMA DrainStreamOK ==
  ASSUME NEW x, PairGood(x), NEW s \in Streams
  PROVE  PairGood(DrainStream(x, s)) /\ KeptBy(x, DrainStream(x, s))
<1> DEFINE io == x.slot.io[s]
           p == x.child.pipe[s]
           io2 == [AppendBuffer(io, p) EXCEPT !.closed = ~x.child.open[s]]
           y == DrainStream(x, s)
<1>1. CASE io.closed
  BY <1>1 DEF DrainStream, KeptBy
<1>2. CASE ~io.closed
  <2>1. io \in Stream /\ StreamOK(io, x.child, s) /\ x.child \in ChildRec /\ x.slot \in SlotRec
    BY DEF PairGood, PairOK, SlotRec
  <2>2. y = [x EXCEPT !.slot.io[s] = io2, !.child.pipe[s] = <<>>]
    BY <1>2 DEF DrainStream
  <2> HIDE DEF io2
  <2>3. /\ y.slot = [x.slot EXCEPT !.io[s] = io2]
        /\ y.child = [x.child EXCEPT !.pipe[s] = <<>>]
    BY <2>2
  <2> HIDE DEF y
  <2>4. <<>> \in Seq(Bytes)
    OBVIOUS
  <2>5. /\ y.child \in ChildRec /\ y.child.killed = x.child.killed
        /\ y.child.state = x.child.state
        /\ y.child.slot = x.child.slot /\ y.child.wrote = x.child.wrote
        /\ y.child.left = x.child.left
        /\ y.child.open = x.child.open /\ y.child.got = x.child.got
        /\ y.child.pipe[s] = <<>>
        /\ \A t \in Streams : t # s => y.child.pipe[t] = x.child.pipe[t]
    <3> DEFINE ch == x.child
               ch2 == y.child
               e == <<>>
    <3>1. ch \in ChildRec /\ e \in Seq(Bytes) /\ ch2 = [ch EXCEPT !.pipe[s] = e]
      BY <2>1, <2>3, <2>4
    <3> HIDE DEF ch, ch2, e
    <3>2. WithPipe(ch, ch2, s, e)
      BY <3>1, ChildPipeUpdate
    <3>3. QED BY <3>2 DEF WithPipe, ch, ch2, e
  <2>6. io2 \in Stream /\ StreamOK(io2, y.child, s)
    BY <2>1, <2>5, StreamDrained DEF io2
  <2>7. /\ y.slot \in SlotRec /\ y.slot.used = x.slot.used /\ y.slot.child = x.slot.child
        /\ y.slot.finished = x.slot.finished
        /\ y.slot.io[s] = io2 /\ \A t \in Streams : t # s => y.slot.io[t] = x.slot.io[t]
    <3>1. WithIo(x.slot, y.slot, s, io2)
      BY <2>1, <2>3, <2>6, SlotIoUpdate
    <3>2. QED BY <3>1 DEF WithIo
  <2>8. ASSUME NEW t \in Streams PROVE StreamOK(y.slot.io[t], y.child, t)
    <3>1. CASE t = s
      BY <2>6, <2>7, <3>1
    <3>2. CASE t # s
      <4>1. StreamOK(x.slot.io[t], x.child, t)
        BY DEF PairGood, PairOK
      <4>2. SameStream(x.child, y.child, t)
        BY <2>5, <3>2 DEF SameStream
      <4>3. QED BY <2>7, <3>2, <4>1, <4>2, StreamKept
    <3>3. QED BY <3>1, <3>2
  <2>9. Bounded(y.child)
    BY <2>5 DEF Bounded, PairGood
  <2>10. PairOK(y.slot, y.child)
    <3>1. x.slot.used /\ x.child.slot /\ (x.slot.finished <=> x.child.state = "reaped")
      BY DEF PairGood, PairOK
    <3>2. QED BY <2>5, <2>7, <2>8, <3>1 DEF PairOK
  <2>11. PairGood(y) /\ KeptBy(x, y)
    BY <2>5, <2>7, <2>9, <2>10 DEF PairGood, KeptBy
  <2>12. QED BY <2>11 DEF y
<1>3. QED BY <1>1, <1>2

LEMMA DrainOutputOK ==
  ASSUME NEW x, PairGood(x)
  PROVE  PairGood(DrainOutput(x)) /\ KeptBy(x, DrainOutput(x))
<1> DEFINE y == DrainStream(x, "stdout")
<1>1. "stdout" \in Streams /\ "stderr" \in Streams
  BY DEF Streams
<1>2. PairGood(y) /\ KeptBy(x, y)
  BY <1>1, DrainStreamOK
<1> HIDE DEF y
<1>3. PairGood(DrainStream(y, "stderr")) /\ KeptBy(y, DrainStream(y, "stderr"))
  BY <1>1, <1>2, DrainStreamOK
<1>4. QED BY <1>2, <1>3 DEF DrainOutput, KeptBy, y

LEMMA RefreshOK ==
  ASSUME NEW x, PairGood(x)
  PROVE  PairGood(Refresh(x)) /\ KeptBy(x, Refresh(x))
<1> DEFINE y == Refresh(x)
<1>1. CASE x.slot.finished \/ x.child.state # "zombie"
  BY <1>1 DEF Refresh, KeptBy
<1>2. CASE ~(x.slot.finished \/ x.child.state # "zombie")
  <2> DEFINE sl == x.slot
             ch == x.child
             sl1 == [sl EXCEPT !.finished = TRUE]
             sl2 == [sl1 EXCEPT !.exit = ch.exit]
             ch2 == [ch EXCEPT !.state = "reaped"]
  <2>1. sl \in SlotRec /\ ch \in ChildRec
    BY DEF PairGood
  <2>2. y.slot = sl2 /\ y.child = ch2
    BY <1>2 DEF Refresh
  <2> HIDE DEF y, sl, ch
  <2>3. sl1 \in SlotRec /\ sl1.used = sl.used /\ sl1.child = sl.child /\ sl1.finished
        /\ sl1.io = sl.io
    BY <2>1 DEF SlotRec
  <2> HIDE DEF sl1
  <2>4. sl2 \in SlotRec /\ sl2.used = sl1.used /\ sl2.child = sl1.child /\ sl2.finished
        /\ sl2.io = sl1.io
    BY <2>1, <2>3 DEF SlotRec, ChildRec
  <2>5. /\ ch2 \in ChildRec /\ ch2.state = "reaped" /\ ch2.killed = ch.killed
        /\ ch2.slot = ch.slot /\ ch2.wrote = ch.wrote /\ ch2.left = ch.left
        /\ ch2.open = ch.open /\ ch2.pipe = ch.pipe /\ ch2.got = ch.got
    BY <2>1 DEF ChildRec
  <2> HIDE DEF sl2, ch2
  <2>6. PairOK(sl, ch) /\ Bounded(ch)
    BY DEF PairGood, sl, ch
  <2>7. PairOK(sl2, ch2) /\ Bounded(ch2)
    BY <2>3, <2>4, <2>5, <2>6 DEF PairOK, StreamOK, Bounded
  <2>8. PairGood(y) /\ KeptBy(x, y)
    BY <2>2, <2>3, <2>4, <2>5, <2>7 DEF PairGood, KeptBy, sl, ch
  <2>9. QED BY <2>8 DEF y
<1>3. QED BY <1>1, <1>2

\* A slot is released only when everything its child wrote has been handed out.
LEMMA MaybeReleaseOK ==
  ASSUME NEW x, PairGood(x)
  PROVE  Outcome(x, MaybeRelease(x))
<1>1. CASE ~MayRelease(x.slot)
  BY <1>1 DEF MaybeRelease, Outcome, PairGood, PairOK
<1>2. CASE MayRelease(x.slot)
  <2>1. MaybeRelease(x).slot = FreeSlot /\ MaybeRelease(x).child = x.child
    BY <1>2 DEF MaybeRelease
  <2>2. ASSUME NEW s \in Streams
        PROVE  ~x.child.open[s] /\ x.child.pipe[s] = <<>>
               /\ Counted(x.child.wrote[s]) = x.child.got[s]
    <3> DEFINE io == x.slot.io[s]
               g == x.child.got[s]
    <3>1. io \in Stream /\ StreamOK(io, x.child, s) /\ io.closed /\ ~Unread(io)
      BY <1>2 DEF PairGood, PairOK, SlotRec, MayRelease
    <3>2. UnreadBytes(io) = <<>>
      BY <3>1, UnreadIsSeq
    <3>3. ~x.child.open[s] /\ x.child.pipe[s] = <<>>
      BY <3>1 DEF StreamOK
    <3>4. Counted(x.child.wrote[s]) = (g \o <<>>) \o <<>>
      BY <3>1, <3>2, <3>3 DEF StreamOK
    <3>5. g \in Seq(Bytes)
      BY StreamTypes DEF PairGood
    <3>6. g \o <<>> = g
      BY <3>5, ConcatEmptySeq
    <3>7. QED BY <3>3, <3>4, <3>6
  <2>3. Released(x.child)
    BY <2>2 DEF Released
  <2>4. QED BY <2>1, <2>3 DEF Outcome, PairGood, PairOK
<1>3. QED BY <1>1, <1>2

-----------------------------------------------------------------------------
(* Reading and writing back one slot and its child.                        *)

LEMMA PairAt ==
  ASSUME ProcInv, NEW h \in Slots, slots[h].used
  PROVE  /\ PairGood(At(h)) /\ slots[h].child \in Children
         /\ slots[h].child \in 1..spawned /\ At(h).slot = slots[h]
         /\ At(h).child = children[slots[h].child]
<1>1. slots[h].child \in 1..spawned /\ PairOK(slots[h], children[slots[h].child])
  BY DEF ProcInv, SlotsOK
<1>2. slots[h].child \in Children
  BY <1>1, Constants DEF Children, ProcInv, Types
<1>3. slots[h] \in SlotRec /\ children[slots[h].child] \in ChildRec
      /\ Bounded(children[slots[h].child])
  BY <1>2 DEF ProcInv, Types, ChildrenOK
<1>4. At(h).slot = slots[h] /\ At(h).child = children[slots[h].child]
  BY DEF At
<1>5. QED BY <1>1, <1>2, <1>3, <1>4 DEF PairGood

LEMMA FreeSlotOK == FreeSlot \in SlotRec /\ ~FreeSlot.used
<1>1. <<>> \in Seq(Bytes) /\ 0 \in 0..MaxOutput /\ 0 \in 0..MaxSpawns
  BY Constants
<1> DEFINE ns == [closed |-> FALSE, buf |-> <<>>, pos |-> 0]
           ios == [s \in Streams |-> ns]
<1>2. ns \in Stream
  BY <1>1 DEF Stream
<1> HIDE DEF ns
<1>3. ios \in [Streams -> Stream]
  BY <1>2
<1> HIDE DEF ios
<1>4. FreeSlot = [used |-> FALSE, child |-> 0, finished |-> FALSE, exit |-> 0, io |-> ios]
  BY DEF FreeSlot, NewStream, ios, ns
<1>5. QED BY <1>1, <1>3, <1>4 DEF SlotRec

LEMMA PutOK ==
  ASSUME ProcInv, NEW h \in Slots, slots[h].used, NEW y, Outcome(At(h), y), Put(h, y),
         spawned' = spawned
  PROVE  /\ slots' \in [Slots -> SlotRec] /\ children' \in [Children -> ChildRec]
         /\ ChildrenOK' /\ SlotsOK' /\ OneSlotEach' /\ ReleasedOK'
         /\ slots'[h] = y.slot /\ \A k \in Slots : k # h => slots'[k] = slots[k]
         /\ \A c \in Children : children'[c].killed = children[c].killed
<1> DEFINE c == slots[h].child
           ch == y.child
           sl == y.slot
<1>1. c \in Children /\ c \in 1..spawned /\ At(h).child = children[c] /\ At(h).slot = slots[h]
  BY PairAt
<1>2. slots \in [Slots -> SlotRec] /\ children \in [Children -> ChildRec]
  BY DEF ProcInv, Types
<1>3. /\ ch \in ChildRec /\ Bounded(ch) /\ ch.slot /\ ch.killed = children[c].killed
      /\ \/ sl \in SlotRec /\ sl.child = c /\ PairOK(sl, ch)
         \/ sl = FreeSlot /\ Released(ch)
  BY <1>1 DEF Outcome
<1>4. sl \in SlotRec
  BY <1>3, FreeSlotOK
<1>5. sl.used => sl.child = c /\ PairOK(sl, ch)
  BY <1>3, FreeSlotOK
<1>6. ~sl.used => Released(ch)
  BY <1>3 DEF PairOK
<1>7. slots' = [slots EXCEPT ![h] = sl] /\ children' = [children EXCEPT ![c] = ch]
  BY DEF Put
<1> HIDE DEF c, ch, sl
<1>8. /\ slots' \in [Slots -> SlotRec] /\ slots'[h] = sl
      /\ \A k \in Slots : k # h => slots'[k] = slots[k]
  BY <1>2, <1>4, <1>7
<1>9. /\ children' \in [Children -> ChildRec] /\ children'[c] = ch
      /\ \A d \in Children : d # c => children'[d] = children[d]
  BY <1>1, <1>2, <1>3, <1>7
<1>10. ChildrenOK'
  <2> SUFFICES ASSUME NEW d \in Children
               PROVE  Bounded(children'[d]) /\ (d > spawned => children'[d] = NoChild)
    BY DEF ChildrenOK, Bounded
  <2>1. CASE d = c
    <3>1. c \in Nat /\ spawned \in Nat /\ ~(c > spawned)
      BY <1>1, Constants DEF ProcInv, Types
    <3>2. QED BY <1>3, <1>9, <2>1, <3>1
  <2>2. CASE d # c
    BY <1>9, <2>2 DEF ProcInv, ChildrenOK
  <2>3. QED BY <2>1, <2>2
<1>11. ASSUME NEW k \in Slots, k # h, slots[k].used
       PROVE  slots[k].child # c /\ slots[k].child \in Children /\ slots[k].child \in 1..spawned
  BY <1>11, PairAt DEF ProcInv, OneSlotEach, c
<1>12. SlotsOK'
  <2> SUFFICES ASSUME NEW k \in Slots, slots'[k].used
               PROVE  slots'[k].child \in 1..spawned
                      /\ PairOK(slots'[k], children'[slots'[k].child])
    BY DEF SlotsOK, PairOK, StreamOK
  <2>1. CASE k = h
    BY <1>1, <1>5, <1>8, <1>9, <2>1
  <2>2. CASE k # h
    BY <1>8, <1>9, <1>11, <2>2 DEF ProcInv, SlotsOK
  <2>3. QED BY <2>1, <2>2
<1>13. OneSlotEach'
  <2> SUFFICES ASSUME NEW k \in Slots, NEW l \in Slots, slots'[k].used, slots'[l].used,
                      slots'[k].child = slots'[l].child
               PROVE  k = l
    BY DEF OneSlotEach
  <2>1. CASE k = h /\ l # h
    BY <1>5, <1>8, <1>11, <2>1
  <2>2. CASE k # h /\ l = h
    BY <1>5, <1>8, <1>11, <2>2
  <2>3. CASE k # h /\ l # h
    BY <1>8, <2>3 DEF ProcInv, OneSlotEach
  <2>4. QED BY <2>1, <2>2, <2>3
<1>14. ReleasedOK'
  <2> SUFFICES ASSUME NEW d \in Children, children'[d].slot
               PROVE  \/ \E k \in Slots : slots'[k].used /\ slots'[k].child = d
                      \/ Released(children'[d])
    BY DEF ReleasedOK, Released
  <2>1. CASE d = c
    BY <1>5, <1>6, <1>8, <1>9, <2>1
  <2>2. CASE d # c
    <3>1. children'[d] = children[d]
      BY <1>9, <2>2
    <3>2. CASE Released(children[d])
      BY <3>1, <3>2
    <3>3. CASE ~Released(children[d])
      <4>1. PICK k \in Slots : slots[k].used /\ slots[k].child = d
        BY <3>1, <3>3 DEF ProcInv, ReleasedOK
      <4>2. k # h
        BY <2>2, <4>1 DEF c
      <4>3. slots'[k] = slots[k]
        BY <1>8, <4>2
      <4>4. QED BY <4>1, <4>3
    <3>4. QED BY <3>2, <3>3
  <2>3. QED BY <2>1, <2>2
<1>15. ASSUME NEW d \in Children PROVE children'[d].killed = children[d].killed
  BY <1>3, <1>9
<1>16. slots'[h] = y.slot
  BY <1>8 DEF sl
<1>17. QED BY <1>8, <1>9, <1>10, <1>12, <1>13, <1>14, <1>15, <1>16

LEMMA GoodOutcome ==
  ASSUME NEW x, NEW y, PairGood(y), KeptBy(x, y)
  PROVE  Outcome(x, y) /\ Outcome(x, MaybeRelease(y))
<1>1. Outcome(y, MaybeRelease(y))
  BY MaybeReleaseOK
<1>2. QED BY <1>1 DEF Outcome, KeptBy, PairGood, PairOK

-----------------------------------------------------------------------------
(* The steps.                                                              *)

\* What SignalsOnlyItsChild says of one step.
NoLateSignal ==
  \A c \in Children : children[c].state = "reaped" => children'[c].killed = children[c].killed

LEMMA IdleMain ==
  ASSUME Idle, UNCHANGED main
  PROVE  main' \in [slot : 0..ProcessCapacity, pc : {"idle", "drain", "reap"}]
         /\ main'.pc = "idle"
<1>1. 0 \in 0..ProcessCapacity
  BY Constants
<1>2. QED BY <1>1 DEF Idle

LEMMA InitOK == Init => ProcInv
<1> SUFFICES ASSUME Init PROVE ProcInv
  OBVIOUS
<1>1. FreeSlot \in SlotRec /\ ~FreeSlot.used
  BY FreeSlotOK
<1> DEFINE ws == [s \in Streams |-> 0]
           ps == [s \in Streams |-> <<>>]
           os == [s \in Streams |-> FALSE]
<1>2. 0 \in 0..MaxOutput /\ <<>> \in Seq(Bytes)
  BY Constants
<1>3. ws \in [Streams -> 0..MaxOutput] /\ ps \in [Streams -> Seq(Bytes)]
      /\ os \in [Streams -> BOOLEAN] /\ \A s \in Streams : ws[s] = 0
  BY <1>2
<1>4. NoChild = [state |-> "none", killed |-> FALSE, exit |-> 0, slot |-> FALSE,
                 wrote |-> ws, left |-> ws, pipe |-> ps, open |-> os, got |-> ps]
  BY DEF NoChild
<1> HIDE DEF ws, ps, os
<1>5. NoChild \in ChildRec /\ NoChild.wrote = ws /\ NoChild.left = ws /\ ~NoChild.slot
  BY <1>3, <1>4 DEF ChildRec
<1> HIDE DEF NoChild
<1>6. Bounded(NoChild)
  BY <1>3, <1>5, Constants DEF Bounded
<1>7. Types
  <2>1. slots \in [Slots -> SlotRec] /\ children \in [Children -> ChildRec]
    BY <1>1, <1>5 DEF Init
  <2>2. /\ main \in [slot : 0..ProcessCapacity, pc : {"idle", "drain", "reap"}]
        /\ main.pc = "idle" /\ spawned \in 0..MaxSpawns /\ dangling \in BOOLEAN
    <3>1. 0 \in 0..ProcessCapacity /\ 0 \in 0..MaxSpawns
      BY Constants
    <3>2. main = [slot |-> 0, pc |-> "idle"] /\ spawned = 0 /\ dangling = FALSE
      BY DEF Init
    <3>3. QED BY <3>1, <3>2
  <2>3. QED BY <2>1, <2>2 DEF Types
<1>8. ChildrenOK
  BY <1>6 DEF Init, ChildrenOK
<1>9. SlotsOK /\ OneSlotEach
  BY <1>1 DEF Init, SlotsOK, OneSlotEach
<1>10. ReleasedOK
  BY <1>5 DEF Init, ReleasedOK
<1>11. QED BY <1>7, <1>8, <1>9, <1>10 DEF ProcInv

LEMMA PollStep ==
  ASSUME ProcInv, NEW h \in Slots, Poll(h) PROVE ProcInv' /\ NoLateSignal
<1>1. slots[h].used /\ Idle /\ UNCHANGED main /\ spawned' = spawned /\ dangling' = dangling
      /\ Put(h, Refresh(At(h)))
  BY DEF Poll
<1>2. Outcome(At(h), Refresh(At(h)))
  BY <1>1, PairAt, RefreshOK, GoodOutcome
<1> DEFINE y == Refresh(At(h))
<1> HIDE DEF y
<1>3. slots' \in [Slots -> SlotRec] /\ children' \in [Children -> ChildRec]
      /\ ChildrenOK' /\ SlotsOK' /\ OneSlotEach' /\ ReleasedOK'
      /\ \A c \in Children : children'[c].killed = children[c].killed
  BY <1>1, <1>2, PutOK DEF y
<1>4. Types'
  BY <1>1, <1>3, IdleMain DEF Types, ProcInv
<1>5. QED BY <1>3, <1>4 DEF ProcInv, NoLateSignal

LEMMA WaitBeginStep ==
  ASSUME ProcInv, NEW h \in Slots, WaitBegin(h) PROVE ProcInv' /\ NoLateSignal
<1>1. slots[h].used /\ Idle /\ spawned' = spawned /\ dangling' = dangling
  BY DEF WaitBegin
<1>2. CASE slots[h].finished
  <2>1. UNCHANGED main /\ Put(h, MaybeRelease(At(h)))
    BY <1>2 DEF WaitBegin
  <2>2. Outcome(At(h), MaybeRelease(At(h)))
    BY <1>1, PairAt, MaybeReleaseOK
  <2> DEFINE y == MaybeRelease(At(h))
  <2> HIDE DEF y
  <2>3. slots' \in [Slots -> SlotRec] /\ children' \in [Children -> ChildRec]
        /\ ChildrenOK' /\ SlotsOK' /\ OneSlotEach' /\ ReleasedOK'
        /\ \A c \in Children : children'[c].killed = children[c].killed
    BY <1>1, <2>1, <2>2, PutOK DEF y
  <2>4. Types'
    BY <1>1, <2>1, <2>3, IdleMain DEF Types, ProcInv
  <2>5. QED BY <2>3, <2>4 DEF ProcInv, NoLateSignal
<1>3. CASE ~slots[h].finished
  <2>1. slots' = slots /\ children' = children /\ main' = [slot |-> h, pc |-> "drain"]
    BY <1>3 DEF WaitBegin
  <2>2. h \in 0..ProcessCapacity
    BY Constants DEF Slots
  <2>3. Types'
    BY <1>1, <2>1, <2>2 DEF Types, ProcInv
  <2>4. QED BY <1>1, <2>1, <2>3
        DEF ProcInv, NoLateSignal, ChildrenOK, SlotsOK, OneSlotEach, ReleasedOK
<1>4. QED BY <1>2, <1>3

LEMMA WaitDrainStep ==
  ASSUME ProcInv, WaitDrain PROVE ProcInv' /\ NoLateSignal
<1> DEFINE h == main.slot
           y == DrainOutput(At(h))
<1>1. main.pc = "drain" /\ spawned' = spawned /\ dangling' = dangling
      /\ main' = [main EXCEPT !.pc = "reap"] /\ Put(h, y)
  BY DEF WaitDrain
<1>2. h \in Slots /\ slots[h].used
  BY <1>1 DEF ProcInv, Types
<1>3. PairGood(y) /\ KeptBy(At(h), y)
  BY <1>2, PairAt, DrainOutputOK
<1>4. Outcome(At(h), y) /\ y.slot.used
  BY <1>3, GoodOutcome DEF PairGood, PairOK
<1> HIDE DEF h, y
<1>5. slots' \in [Slots -> SlotRec] /\ children' \in [Children -> ChildRec]
      /\ ChildrenOK' /\ SlotsOK' /\ OneSlotEach' /\ ReleasedOK' /\ slots'[h] = y.slot
      /\ \A c \in Children : children'[c].killed = children[c].killed
  BY <1>1, <1>2, <1>4, PutOK
<1>6. main' \in [slot : 0..ProcessCapacity, pc : {"idle", "drain", "reap"}] /\ main'.slot = h
  BY <1>1 DEF ProcInv, Types, h
<1>7. Types'
  BY <1>1, <1>2, <1>4, <1>5, <1>6 DEF Types, ProcInv
<1>8. QED BY <1>5, <1>7 DEF ProcInv, NoLateSignal

LEMMA WaitReapStep ==
  ASSUME ProcInv, WaitReap PROVE ProcInv' /\ NoLateSignal
<1> DEFINE h == main.slot
           x == Refresh(At(h))
           z == DrainOutput(x)
           y == MaybeRelease(z)
<1>1. main.pc = "reap" /\ spawned' = spawned /\ dangling' = dangling
  BY DEF WaitReap
<1>2. h \in Slots /\ slots[h].used
  BY <1>1 DEF ProcInv, Types
<1>3. CASE x.slot.finished
  <2>1. main' = [slot |-> 0, pc |-> "idle"] /\ Put(h, y)
    BY <1>3 DEF WaitReap
  <2>2. PairGood(x) /\ KeptBy(At(h), x)
    BY <1>2, PairAt, RefreshOK
  <2> HIDE DEF x
  <2>3. PairGood(z) /\ KeptBy(x, z)
    BY <2>2, DrainOutputOK
  <2>4. KeptBy(At(h), z)
    BY <2>2, <2>3 DEF KeptBy
  <2> HIDE DEF z
  <2>5. Outcome(At(h), y)
    BY <2>3, <2>4, GoodOutcome
  <2> HIDE DEF h, y
  <2>6. slots' \in [Slots -> SlotRec] /\ children' \in [Children -> ChildRec]
        /\ ChildrenOK' /\ SlotsOK' /\ OneSlotEach' /\ ReleasedOK'
        /\ \A c \in Children : children'[c].killed = children[c].killed
    BY <1>1, <1>2, <2>1, <2>5, PutOK
  <2>7. Types'
    BY <1>1, <2>1, <2>6, Constants DEF Types, ProcInv
  <2>8. QED BY <2>6, <2>7 DEF ProcInv, NoLateSignal
<1>4. CASE ~x.slot.finished
  <2>1. slots' = slots /\ children' = children /\ main' = [main EXCEPT !.pc = "drain"]
    BY <1>4 DEF WaitReap
  <2>2. main' \in [slot : 0..ProcessCapacity, pc : {"idle", "drain", "reap"}]
        /\ main'.slot = h
    BY <2>1 DEF ProcInv, Types
  <2>3. Types'
    BY <1>1, <1>2, <2>1, <2>2 DEF Types, ProcInv
  <2>4. QED BY <1>1, <2>1, <2>3
        DEF ProcInv, NoLateSignal, ChildrenOK, SlotsOK, OneSlotEach, ReleasedOK
<1>5. QED BY <1>3, <1>4

\* What a step of a child itself, or a signal sent to it, may change.
Advances(ch, ch2) ==
  /\ ch2 \in ChildRec /\ Bounded(ch2) /\ ch2.slot = ch.slot
  /\ ch2.state = "reaped" <=> ch.state = "reaped"
  /\ ch.state = "reaped" => ch2.killed = ch.killed
  /\ ch.slot => \A io \in Stream, s \in Streams : StreamOK(io, ch, s) => StreamOK(io, ch2, s)
  /\ ch.slot /\ Released(ch) => Released(ch2)

LEMMA ChildAdvances ==
  ASSUME ProcInv, NEW c \in Children, c <= spawned, NEW ch2, Advances(children[c], ch2),
         children' = [children EXCEPT ![c] = ch2], UNCHANGED <<slots, spawned, main, dangling>>
  PROVE  ProcInv' /\ NoLateSignal
<1> DEFINE ch == children[c]
<1>1. slots \in [Slots -> SlotRec] /\ children \in [Children -> ChildRec]
  BY DEF ProcInv, Types
<1>2. /\ ch2 \in ChildRec /\ Bounded(ch2) /\ ch2.slot = ch.slot
      /\ ch2.state = "reaped" <=> ch.state = "reaped"
      /\ ch.state = "reaped" => ch2.killed = ch.killed
  BY DEF Advances
<1>3. /\ children' \in [Children -> ChildRec] /\ children'[c] = ch2
      /\ \A d \in Children : d # c => children'[d] = children[d]
  BY <1>1, <1>2
<1>4. Types'
  BY <1>3 DEF ProcInv, Types
<1>5. ChildrenOK'
  <2> SUFFICES ASSUME NEW d \in Children
               PROVE  Bounded(children'[d]) /\ (d > spawned => children'[d] = NoChild)
    BY DEF ChildrenOK, Bounded
  <2>1. CASE d = c
    <3>1. d \in Nat /\ spawned \in Nat
      BY Constants DEF Children, ProcInv, Types
    <3>2. QED BY <1>2, <1>3, <2>1, <3>1
  <2>2. CASE d # c
    BY <1>3, <2>2 DEF ProcInv, ChildrenOK
  <2>3. QED BY <2>1, <2>2
<1>6. SlotsOK'
  <2> SUFFICES ASSUME NEW k \in Slots, slots'[k].used
               PROVE  slots'[k].child \in 1..spawned
                      /\ PairOK(slots'[k], children'[slots'[k].child])
    BY DEF SlotsOK, PairOK, StreamOK
  <2> slots' = slots
    OBVIOUS
  <2>1. /\ slots[k].child \in 1..spawned /\ slots[k].child \in Children
        /\ PairOK(slots[k], children[slots[k].child])
    BY PairAt DEF ProcInv, SlotsOK
  <2>2. CASE slots[k].child = c
    <3>1. slots[k].used /\ ch.slot /\ (slots[k].finished <=> ch.state = "reaped")
          /\ \A s \in Streams : StreamOK(slots[k].io[s], ch, s)
      BY <2>1, <2>2 DEF PairOK
    <3>2. \A s \in Streams : slots[k].io[s] \in Stream
      BY <1>1 DEF SlotRec
    <3>3. \A s \in Streams : StreamOK(slots[k].io[s], ch2, s)
      BY <3>1, <3>2 DEF Advances
    <3>4. QED BY <1>2, <1>3, <2>1, <2>2, <3>1, <3>3 DEF PairOK
  <2>3. CASE slots[k].child # c
    BY <1>3, <2>1, <2>3
  <2>4. QED BY <2>2, <2>3
<1>7. OneSlotEach'
  BY DEF ProcInv, OneSlotEach
<1>8. ReleasedOK'
  <2> SUFFICES ASSUME NEW d \in Children, children'[d].slot,
                      ~ \E k \in Slots : slots[k].used /\ slots[k].child = d
               PROVE  Released(children'[d])
    BY DEF ReleasedOK, Released
  <2>1. CASE d = c
    BY <1>2, <1>3, <2>1 DEF ProcInv, ReleasedOK, Advances
  <2>2. CASE d # c
    BY <1>3, <2>2 DEF ProcInv, ReleasedOK
  <2>3. QED BY <2>1, <2>2
<1>9. NoLateSignal
  BY <1>2, <1>3 DEF NoLateSignal
<1>10. QED BY <1>4, <1>5, <1>6, <1>7, <1>8, <1>9 DEF ProcInv

\* A child that is there at all has been forked.
LEMMA ForkedChild ==
  ASSUME ProcInv, NEW c \in Children, children[c].state # "none" \/ \E s \in Streams : children[c].open[s]
  PROVE  c <= spawned
<1>1. ~(c > spawned)
  BY DEF ProcInv, ChildrenOK, NoChild
<1>2. c \in Nat /\ spawned \in Nat
  BY Constants DEF Children, ProcInv, Types
<1>3. QED BY <1>1, <1>2

LEMMA KillStep ==
  ASSUME ProcInv, NEW h \in Slots, Kill(h) PROVE ProcInv' /\ NoLateSignal
<1> DEFINE c == slots[h].child
           ch == children[c]
           ch2 == [ch EXCEPT !.killed = TRUE]
<1>1. slots[h].used /\ ~slots[h].finished /\ UNCHANGED <<slots, spawned, main, dangling>>
      /\ children' = [children EXCEPT ![c] = ch2]
  BY DEF Kill
<1>2. /\ c \in Children /\ c \in 1..spawned /\ PairOK(slots[h], ch)
      /\ ch \in ChildRec /\ Bounded(ch)
  BY <1>1, PairAt DEF PairGood
<1>3. ch.state # "reaped"
  BY <1>1, <1>2 DEF PairOK
<1>4. c <= spawned
  BY <1>2, Constants DEF ProcInv, Types
<1> HIDE DEF c, ch
<1>5. /\ ch2 \in ChildRec /\ ch2.state = ch.state /\ ch2.slot = ch.slot
      /\ ch2.wrote = ch.wrote /\ ch2.left = ch.left
      /\ ch2.open = ch.open /\ ch2.pipe = ch.pipe /\ ch2.got = ch.got
  BY <1>2 DEF ChildRec
<1> HIDE DEF ch2
<1>6. Advances(ch, ch2)
  BY <1>2, <1>3, <1>5 DEF Advances, Bounded, StreamOK, Released
<1>7. QED BY <1>1, <1>2, <1>4, <1>6, ChildAdvances DEF ch

LEMMA WriterClosesStep ==
  ASSUME ProcInv, NEW c \in Children, NEW s \in Streams, WriterCloses(c, s)
  PROVE  ProcInv' /\ NoLateSignal
<1> DEFINE ch == children[c]
           os == [ch.open EXCEPT ![s] = FALSE]
           ch2 == [ch EXCEPT !.open = os]
<1>1. ch.open[s] /\ ch.left[s] = 0 /\ UNCHANGED <<slots, spawned, main, dangling>>
      /\ children' = [children EXCEPT ![c] = ch2]
  BY DEF WriterCloses
<1>2. c <= spawned /\ ch \in ChildRec /\ Bounded(ch)
  BY <1>1, ForkedChild DEF ProcInv, Types, ChildrenOK
<1> HIDE DEF ch
<1>3. os \in [Streams -> BOOLEAN] /\ ~os[s] /\ \A t \in Streams : t # s => os[t] = ch.open[t]
  BY <1>2 DEF ChildRec
<1> HIDE DEF os
<1>4. /\ ch2 \in ChildRec /\ ch2.state = ch.state /\ ch2.slot = ch.slot
      /\ ch2.killed = ch.killed /\ ch2.wrote = ch.wrote /\ ch2.left = ch.left
      /\ ch2.open = os /\ ch2.pipe = ch.pipe /\ ch2.got = ch.got
  BY <1>2, <1>3 DEF ChildRec
<1> HIDE DEF ch2
<1>5. \A t \in Streams : os[t] => ch.open[t]
  BY <1>3
<1>6. Bounded(ch2)
  BY <1>1, <1>2, <1>3, <1>4 DEF Bounded
<1>7. \A io \in Stream, t \in Streams : StreamOK(io, ch, t) => StreamOK(io, ch2, t)
  BY <1>4, <1>5 DEF StreamOK
<1>8. Released(ch) => Released(ch2)
  BY <1>4, <1>5 DEF Released
<1>9. Advances(ch, ch2)
  BY <1>4, <1>6, <1>7, <1>8 DEF Advances
<1>10. QED BY <1>1, <1>2, <1>9, ChildAdvances DEF ch

LEMMA ChildExitsStep ==
  ASSUME ProcInv, NEW c \in Children, ChildExits(c)
  PROVE  ProcInv' /\ NoLateSignal
<1> DEFINE ch == children[c]
           ls == [s \in Streams |-> 0]
           C(code) == [[[ch EXCEPT !.state = "zombie"] EXCEPT !.exit = code] EXCEPT !.left = ls]
<1>1. ch.state = "running" /\ UNCHANGED <<slots, spawned, main, dangling>>
  BY DEF ChildExits
<1>2. PICK code \in {ch.exit, SigTerm} : children' = [children EXCEPT ![c] = C(code)]
  BY DEF ChildExits
<1>3. c <= spawned /\ ch \in ChildRec /\ Bounded(ch)
  BY <1>1, ForkedChild DEF ProcInv, Types, ChildrenOK
<1> DEFINE a == [ch EXCEPT !.state = "zombie"]
           b == [a EXCEPT !.exit = code]
           ch2 == [b EXCEPT !.left = ls]
<1>4. children' = [children EXCEPT ![c] = ch2]
  BY <1>2
<1> HIDE DEF ch, C
<1>5. ls \in [Streams -> 0..MaxOutput] /\ \A s \in Streams : ls[s] = 0
  BY Constants
<1>6. code \in ExitCodes \cup {0, SigTerm}
  BY <1>3 DEF ChildRec
<1> HIDE DEF ls
<1>7. /\ a \in ChildRec /\ a.state = "zombie" /\ a.slot = ch.slot
      /\ a.killed = ch.killed /\ a.wrote = ch.wrote
      /\ a.open = ch.open /\ a.pipe = ch.pipe /\ a.got = ch.got
  BY <1>3 DEF ChildRec
<1> HIDE DEF a
<1>8. /\ b \in ChildRec /\ b.state = "zombie" /\ b.slot = a.slot
      /\ b.killed = a.killed /\ b.wrote = a.wrote
      /\ b.open = a.open /\ b.pipe = a.pipe /\ b.got = a.got
  BY <1>6, <1>7 DEF ChildRec
<1> HIDE DEF b
<1>9. /\ ch2 \in ChildRec /\ ch2.state = "zombie" /\ ch2.slot = b.slot
      /\ ch2.killed = b.killed /\ ch2.wrote = b.wrote /\ ch2.left = ls
      /\ ch2.open = b.open /\ ch2.pipe = b.pipe /\ ch2.got = b.got
  BY <1>5, <1>8 DEF ChildRec
<1> HIDE DEF ch2
<1>10. Bounded(ch2)
  <2>1. \A s \in Streams : ch2.wrote[s] \in Nat /\ ch2.wrote[s] <= MaxOutput
    BY <1>9, StreamTypes
  <2>2. QED BY <1>5, <1>9, <2>1, Constants DEF Bounded
<1>11. \A io \in Stream, t \in Streams : StreamOK(io, ch, t) => StreamOK(io, ch2, t)
  BY <1>7, <1>8, <1>9 DEF StreamOK
<1>12. Released(ch) => Released(ch2)
  BY <1>7, <1>8, <1>9 DEF Released
<1>13. Advances(ch, ch2)
  BY <1>1, <1>7, <1>8, <1>9, <1>10, <1>11, <1>12 DEF Advances
<1>14. QED BY <1>1, <1>3, <1>4, <1>13, ChildAdvances DEF ch

LEMMA ChildWritesStep ==
  ASSUME ProcInv, NEW c \in Children, NEW s \in Streams, ChildWrites(c, s)
  PROVE  ProcInv' /\ NoLateSignal
<1> DEFINE ch == children[c]
           n == ch.wrote[s] + 1
           ls == [ch.left EXCEPT ![s] = @ - 1]
           ws == [ch.wrote EXCEPT ![s] = n]
           ps == [ch.pipe EXCEPT ![s] = IF ch.slot THEN Append(@, n) ELSE @]
           a == [ch EXCEPT !.left = ls]
           b == [a EXCEPT !.wrote = ws]
           ch2 == [b EXCEPT !.pipe = ps]
<1>1. ch.state = "running" /\ ch.left[s] > 0 /\ UNCHANGED <<slots, spawned, main, dangling>>
  BY DEF ChildWrites
<1>2. c <= spawned /\ ch \in ChildRec /\ Bounded(ch) /\ children \in [Children -> ChildRec]
  BY <1>1, ForkedChild DEF ProcInv, Types, ChildrenOK
<1>3. children' = [children EXCEPT ![c] = ch2]
  <2>1. children' = [[[children EXCEPT ![c].left[s] = @ - 1] EXCEPT ![c].wrote[s] = n]
                       EXCEPT ![c].pipe[s] = IF ch.slot THEN Append(@, n) ELSE @]
    BY DEF ChildWrites
  <2> DEFINE D == [children EXCEPT ![c].left[s] = @ - 1]
             E == [D EXCEPT ![c].wrote[s] = n]
             F == [E EXCEPT ![c].pipe[s] = IF ch.slot THEN Append(@, n) ELSE @]
  <2>2. D = [children EXCEPT ![c] = a]
    BY <1>2
  <2> HIDE DEF D, a
  <2>3. D[c] = a /\ a.wrote = ch.wrote /\ a.pipe = ch.pipe
    BY <1>2, <2>2 DEF ChildRec, a
  <2>4. E = [children EXCEPT ![c] = b]
    BY <1>2, <2>2, <2>3
  <2> HIDE DEF E, b
  <2>5. E[c] = b /\ b.pipe = ch.pipe
    BY <1>2, <2>3, <2>4 DEF ChildRec, a, b
  <2>6. F = [children EXCEPT ![c] = ch2]
    BY <1>2, <2>4, <2>5
  <2>7. QED BY <2>1, <2>6 DEF E, D
<1>4. ch.wrote[s] \in Nat /\ ch.left[s] \in Nat /\ ch.wrote[s] + ch.left[s] <= MaxOutput
      /\ ch.pipe[s] \in Seq(Bytes) /\ ch.open[s]
  BY <1>1, <1>2, StreamTypes DEF Bounded, ChildRec
<1> HIDE DEF ch
<1>5. n \in Bytes /\ n \in 0..MaxOutput /\ ch.left[s] - 1 \in 0..MaxOutput
  BY <1>1, <1>4, Constants DEF Bytes
<1>6. /\ ls \in [Streams -> 0..MaxOutput] /\ ls[s] = ch.left[s] - 1
      /\ \A t \in Streams : t # s => ls[t] = ch.left[t]
  BY <1>2, <1>5 DEF ChildRec
<1>7. /\ ws \in [Streams -> 0..MaxOutput] /\ ws[s] = n
      /\ \A t \in Streams : t # s => ws[t] = ch.wrote[t]
  BY <1>2, <1>5 DEF ChildRec
<1> HIDE DEF n
<1>8. /\ ps \in [Streams -> Seq(Bytes)] /\ (ch.slot => ps[s] = Append(ch.pipe[s], n))
      /\ \A t \in Streams : t # s => ps[t] = ch.pipe[t]
  BY <1>2, <1>4, <1>5 DEF ChildRec
<1> HIDE DEF ls, ws, ps
<1>9. /\ a \in ChildRec /\ a.state = ch.state /\ a.slot = ch.slot /\ a.killed = ch.killed
      /\ a.left = ls /\ a.open = ch.open /\ a.got = ch.got
  BY <1>2, <1>6 DEF ChildRec
<1> HIDE DEF a
<1>10. /\ b \in ChildRec /\ b.state = a.state /\ b.slot = a.slot /\ b.killed = a.killed
       /\ b.left = a.left /\ b.wrote = ws /\ b.open = a.open /\ b.got = a.got
  BY <1>7, <1>9 DEF ChildRec
<1> HIDE DEF b
<1>11. /\ ch2 \in ChildRec /\ ch2.state = b.state /\ ch2.slot = b.slot /\ ch2.killed = b.killed
       /\ ch2.left = b.left /\ ch2.wrote = b.wrote /\ ch2.open = b.open /\ ch2.got = b.got
       /\ ch2.pipe = ps
  BY <1>8, <1>10 DEF ChildRec
<1> HIDE DEF ch2
<1>12. Bounded(ch2)
  <2> SUFFICES ASSUME NEW t \in Streams
               PROVE  ch2.wrote[t] + ch2.left[t] <= MaxOutput
                      /\ (~ch2.open[t] => ch2.left[t] = 0)
    BY DEF Bounded
  <2>1. CASE t = s
    BY <1>4, <1>6, <1>7, <1>9, <1>10, <1>11, <2>1, Constants DEF n
  <2>2. CASE t # s
    BY <1>2, <1>6, <1>7, <1>9, <1>10, <1>11, <2>2 DEF Bounded
  <2>3. QED BY <2>1, <2>2
<1>13. ASSUME ch.slot, NEW io \in Stream, NEW t \in Streams, StreamOK(io, ch, t)
       PROVE  StreamOK(io, ch2, t)
  <2>1. CASE t = s
    <3>1. StreamOK(io, ch, s) /\ ch2.wrote[s] = ch.wrote[s] + 1 /\ ch2.got[s] = ch.got[s]
          /\ ch2.pipe[s] = Append(ch.pipe[s], ch.wrote[s] + 1) /\ ch2.open[s] = ch.open[s]
      BY <1>7, <1>8, <1>9, <1>10, <1>11, <1>13, <2>1 DEF n
    <3>2. QED BY <1>2, <1>4, <2>1, <3>1, StreamWritten
  <2>2. CASE t # s
    <3>1. SameStream(ch, ch2, t)
      BY <1>7, <1>8, <1>9, <1>10, <1>11, <2>2 DEF SameStream
    <3>2. QED BY <1>13, <3>1, StreamKept
  <2>3. QED BY <2>1, <2>2
<1>14. ~Released(ch)
  BY <1>4 DEF Released
<1>15. Advances(ch, ch2)
  BY <1>9, <1>10, <1>11, <1>12, <1>13, <1>14 DEF Advances
<1>16. QED BY <1>1, <1>2, <1>3, <1>15, ChildAdvances DEF ch

-----------------------------------------------------------------------------
(* Reads.                                                                  *)

\* A read from the buffer, before the slot is tried for release.
LEMMA BufferedOK ==
  ASSUME NEW x, PairGood(x), NEW s \in Streams, NEW y,
         y.slot = [x.slot EXCEPT !.io[s] = [x.slot.io[s] EXCEPT !.pos = Len(x.slot.io[s].buf)]],
         y.child = [x.child EXCEPT !.got[s] = x.child.got[s] \o UnreadBytes(x.slot.io[s])]
  PROVE  PairGood(y) /\ KeptBy(x, y)
<1> DEFINE sl == x.slot
           ch == x.child
           sl2 == y.slot
           ch2 == y.child
           io == sl.io[s]
           io2 == [io EXCEPT !.pos = Len(io.buf)]
           g2 == ch.got[s] \o UnreadBytes(io)
<1>1. sl \in SlotRec /\ ch \in ChildRec /\ PairOK(sl, ch) /\ Bounded(ch)
  BY DEF PairGood
<1>2. io \in Stream /\ StreamOK(io, ch, s)
  BY <1>1 DEF SlotRec, PairOK
<1>3. g2 \in Seq(Bytes)
  BY <1>1, <1>2, StreamTypes, UnreadIsSeq, ConcatProperties
<1>4. sl2 = [sl EXCEPT !.io[s] = io2] /\ ch2 = [ch EXCEPT !.got[s] = g2]
  OBVIOUS
<1> HIDE DEF sl, ch, sl2, ch2, g2, io
<1>5. WithGot(ch, ch2, s, g2)
  BY <1>1, <1>3, <1>4, ChildGotUpdate
<1>6. io2 \in Stream /\ StreamOK(io2, ch2, s)
  <2>1. ch2.wrote[s] = ch.wrote[s] /\ ch2.got[s] = ch.got[s] \o UnreadBytes(io)
        /\ ch2.pipe[s] = ch.pipe[s] /\ ch2.open[s] = ch.open[s]
    BY <1>5 DEF WithGot, g2
  <2>2. QED BY <1>1, <1>2, <2>1, StreamRead1
<1> HIDE DEF io2
<1>7. /\ sl2 \in SlotRec /\ sl2.used = sl.used /\ sl2.child = sl.child
      /\ sl2.finished = sl.finished
      /\ sl2.io[s] = io2 /\ \A t \in Streams : t # s => sl2.io[t] = sl.io[t]
  <2>1. WithIo(sl, sl2, s, io2)
    BY <1>1, <1>4, <1>6, SlotIoUpdate
  <2>2. QED BY <2>1 DEF WithIo
<1>8. ASSUME NEW t \in Streams PROVE StreamOK(sl2.io[t], ch2, t)
  <2>1. CASE t = s
    BY <1>6, <1>7, <2>1
  <2>2. CASE t # s
    <3>1. SameStream(ch, ch2, t)
      BY <1>5, <2>2 DEF SameStream, WithGot
    <3>2. StreamOK(sl.io[t], ch, t)
      BY <1>1 DEF PairOK
    <3>3. QED BY <1>7, <2>2, <3>1, <3>2, StreamKept
  <2>3. QED BY <2>1, <2>2
<1>9. Bounded(ch2)
  BY <1>1, <1>5 DEF Bounded, WithGot
<1>10. PairOK(sl2, ch2)
  BY <1>1, <1>5, <1>7, <1>8 DEF PairOK, WithGot
<1>11. QED BY <1>5, <1>7, <1>9, <1>10 DEF PairGood, KeptBy, WithGot, sl, ch, sl2, ch2

\* A read from the pipe.
LEMMA PipedOK ==
  ASSUME NEW x, PairGood(x), NEW s \in Streams, ~Unread(x.slot.io[s]), NEW y,
         y.slot = x.slot,
         y.child = [[x.child EXCEPT !.got[s] = x.child.got[s] \o x.child.pipe[s]]
                       EXCEPT !.pipe[s] = <<>>]
  PROVE  PairGood(y) /\ KeptBy(x, y)
<1> DEFINE sl == x.slot
           ch == x.child
           ch2 == y.child
           g2 == ch.got[s] \o ch.pipe[s]
           b == [ch EXCEPT !.got[s] = g2]
           e == <<>>
<1>1. sl \in SlotRec /\ ch \in ChildRec /\ PairOK(sl, ch) /\ Bounded(ch) /\ ~Unread(sl.io[s])
  BY DEF PairGood
<1>2. sl.io[s] \in Stream /\ StreamOK(sl.io[s], ch, s)
  BY <1>1 DEF SlotRec, PairOK
<1>3. g2 \in Seq(Bytes) /\ e \in Seq(Bytes)
  BY <1>1, StreamTypes, ConcatProperties
<1>4. ch2 = [b EXCEPT !.pipe[s] = e]
  OBVIOUS
<1> HIDE DEF sl, ch, ch2, g2, e
<1>5. WithGot(ch, b, s, g2)
  BY <1>1, <1>3, ChildGotUpdate
<1> HIDE DEF b
<1>6. b \in ChildRec
  BY <1>5 DEF WithGot
<1>7. WithPipe(b, ch2, s, e)
  BY <1>3, <1>4, <1>6, ChildPipeUpdate
<1>8. /\ ch2 \in ChildRec /\ ch2.killed = ch.killed /\ ch2.state = ch.state
      /\ ch2.slot = ch.slot /\ ch2.wrote = ch.wrote /\ ch2.left = ch.left
      /\ ch2.open = ch.open /\ ch2.pipe[s] = e /\ ch2.got[s] = g2
      /\ \A t \in Streams : t # s => ch2.pipe[t] = ch.pipe[t] /\ ch2.got[t] = ch.got[t]
  BY <1>5, <1>7 DEF WithGot, WithPipe
<1>9. StreamOK(sl.io[s], ch2, s)
  <2>1. ch2.wrote[s] = ch.wrote[s] /\ ch2.got[s] = ch.got[s] \o ch.pipe[s]
        /\ ch2.pipe[s] = <<>> /\ ch2.open[s] = ch.open[s]
    BY <1>8 DEF g2, e
  <2>2. QED BY <1>1, <1>2, <2>1, StreamRead2
<1>10. ASSUME NEW t \in Streams, t # s PROVE StreamOK(sl.io[t], ch2, t)
  <2>1. SameStream(ch, ch2, t)
    BY <1>8, <1>10 DEF SameStream
  <2>2. StreamOK(sl.io[t], ch, t)
    BY <1>1 DEF PairOK
  <2>3. QED BY <2>1, <2>2, StreamKept
<1>11. Bounded(ch2)
  BY <1>1, <1>8 DEF Bounded
<1>12. PairOK(sl, ch2)
  BY <1>1, <1>8, <1>9, <1>10 DEF PairOK
<1>13. QED BY <1>1, <1>8, <1>11, <1>12 DEF PairGood, KeptBy, sl, ch, ch2

\* A read that finds the pipe at its end.
LEMMA ClosedOK ==
  ASSUME NEW x, PairGood(x), NEW s \in Streams, x.child.pipe[s] = <<>>, ~x.child.open[s],
         NEW y, y.child = x.child,
         y.slot = [x.slot EXCEPT !.io[s] = [x.slot.io[s] EXCEPT !.closed = TRUE]]
  PROVE  PairGood(y) /\ KeptBy(x, y)
<1> DEFINE sl == x.slot
           ch == x.child
           sl2 == y.slot
           io == sl.io[s]
           io2 == [io EXCEPT !.closed = TRUE]
<1>1. sl \in SlotRec /\ ch \in ChildRec /\ PairOK(sl, ch) /\ Bounded(ch)
      /\ ch.pipe[s] = <<>> /\ ~ch.open[s]
  BY DEF PairGood
<1>2. io \in Stream /\ StreamOK(io, ch, s)
  BY <1>1 DEF SlotRec, PairOK
<1>3. sl2 = [sl EXCEPT !.io[s] = io2]
  OBVIOUS
<1> HIDE DEF sl, ch, sl2, io
<1>4. io2 \in Stream /\ io2.closed /\ io2.buf = io.buf /\ io2.pos = io.pos
  BY <1>2 DEF Stream
<1> HIDE DEF io2
<1>5. StreamOK(io2, ch, s)
  BY <1>1, <1>2, <1>4 DEF StreamOK, UnreadBytes
<1>6. /\ sl2 \in SlotRec /\ sl2.used = sl.used /\ sl2.child = sl.child
      /\ sl2.finished = sl.finished
      /\ sl2.io[s] = io2 /\ \A t \in Streams : t # s => sl2.io[t] = sl.io[t]
  <2>1. WithIo(sl, sl2, s, io2)
    BY <1>1, <1>3, <1>4, SlotIoUpdate
  <2>2. QED BY <2>1 DEF WithIo
<1>7. PairOK(sl2, ch)
  BY <1>1, <1>5, <1>6 DEF PairOK
<1>8. QED BY <1>1, <1>6, <1>7 DEF PairGood, KeptBy, sl, ch, sl2

LEMMA IdlePut ==
  ASSUME ProcInv, NEW h \in Slots, slots[h].used, Idle, UNCHANGED <<spawned, main>>,
         dangling' \in BOOLEAN, NEW y, Outcome(At(h), y), Put(h, y)
  PROVE  ProcInv' /\ NoLateSignal
<1>1. slots' \in [Slots -> SlotRec] /\ children' \in [Children -> ChildRec]
      /\ ChildrenOK' /\ SlotsOK' /\ OneSlotEach' /\ ReleasedOK'
      /\ \A c \in Children : children'[c].killed = children[c].killed
  BY PutOK
<1>2. Types'
  BY <1>1, IdleMain DEF Types, ProcInv
<1>3. QED BY <1>1, <1>2 DEF ProcInv, NoLateSignal

LEMMA StreamReadStep ==
  ASSUME ProcInv, NEW h \in Slots, NEW s \in Streams, StreamRead(h, s)
  PROVE  ProcInv' /\ NoLateSignal
<1> DEFINE io == slots[h].io[s]
           x == At(h)
           Buffered == [x EXCEPT !.slot.io[s].pos = Len(io.buf),
                                 !.child.got[s] = @ \o UnreadBytes(io)]
           Piped == [x EXCEPT !.child.got[s] = @ \o x.child.pipe[s],
                              !.child.pipe[s] = <<>>]
           AtEnd == [x EXCEPT !.slot.io[s].closed = TRUE]
<1>1. slots[h].used /\ Idle /\ UNCHANGED <<spawned, main>> /\ dangling \in BOOLEAN
  BY DEF StreamRead, ProcInv, Types
<1>2. PairGood(x) /\ x.slot = slots[h] /\ x.slot.io[s] = io
  BY <1>1, PairAt
<1>3. \/ /\ Put(h, MaybeRelease(Buffered)) /\ dangling' \in BOOLEAN
      \/ /\ Put(h, MaybeRelease(x)) /\ dangling' \in BOOLEAN
      \/ /\ ~Unread(io) /\ Put(h, Piped) /\ dangling' \in BOOLEAN
      \/ /\ x.child.pipe[s] = <<>> /\ ~x.child.open[s]
         /\ Put(h, MaybeRelease(AtEnd)) /\ dangling' \in BOOLEAN
  BY <1>1 DEF StreamRead, MayRelease
<1>4. CASE Put(h, MaybeRelease(Buffered)) /\ dangling' \in BOOLEAN
  <2>1. /\ Buffered.slot = [x.slot EXCEPT !.io[s] =
                             [x.slot.io[s] EXCEPT !.pos = Len(x.slot.io[s].buf)]]
        /\ Buffered.child = [x.child EXCEPT !.got[s] =
                              x.child.got[s] \o UnreadBytes(x.slot.io[s])]
    BY <1>2 DEF At
  <2> HIDE DEF x, Buffered
  <2>2. PairGood(Buffered) /\ KeptBy(x, Buffered)
    BY <1>2, <2>1, BufferedOK
  <2>3. Outcome(x, MaybeRelease(Buffered))
    BY <2>2, GoodOutcome
  <2> DEFINE y == MaybeRelease(Buffered)
  <2> HIDE DEF y
  <2>4. QED BY <1>1, <1>4, <2>3, IdlePut DEF x, y
<1>5. CASE Put(h, MaybeRelease(x)) /\ dangling' \in BOOLEAN
  <2> HIDE DEF x
  <2>1. Outcome(x, MaybeRelease(x))
    BY <1>2, MaybeReleaseOK
  <2> DEFINE y == MaybeRelease(x)
  <2> HIDE DEF y
  <2>2. QED BY <1>1, <1>5, <2>1, IdlePut DEF x, y
<1>6. CASE ~Unread(io) /\ Put(h, Piped) /\ dangling' \in BOOLEAN
  <2>1. /\ Piped.slot = x.slot
        /\ Piped.child = [[x.child EXCEPT !.got[s] = x.child.got[s] \o x.child.pipe[s]]
                            EXCEPT !.pipe[s] = <<>>]
    BY <1>2 DEF At
  <2> HIDE DEF x, Piped
  <2>2. PairGood(Piped) /\ KeptBy(x, Piped)
    BY <1>2, <1>6, <2>1, PipedOK
  <2>3. Outcome(x, Piped)
    BY <2>2, GoodOutcome
  <2>4. QED BY <1>1, <1>6, <2>3, IdlePut DEF x
<1>7. CASE /\ x.child.pipe[s] = <<>> /\ ~x.child.open[s]
           /\ Put(h, MaybeRelease(AtEnd)) /\ dangling' \in BOOLEAN
  <2>1. /\ AtEnd.child = x.child
        /\ AtEnd.slot = [x.slot EXCEPT !.io[s] = [x.slot.io[s] EXCEPT !.closed = TRUE]]
    BY <1>2 DEF At
  <2> HIDE DEF x, AtEnd
  <2>2. PairGood(AtEnd) /\ KeptBy(x, AtEnd)
    BY <1>2, <1>7, <2>1, ClosedOK
  <2>3. Outcome(x, MaybeRelease(AtEnd))
    BY <2>2, GoodOutcome
  <2> DEFINE y == MaybeRelease(AtEnd)
  <2> HIDE DEF y
  <2>4. QED BY <1>1, <1>7, <2>3, IdlePut DEF x, y
<1>8. QED BY <1>3, <1>4, <1>5, <1>6, <1>7

-----------------------------------------------------------------------------
(* Forking a child.                                                        *)

LEMMA ForkedOK ==
  ASSUME NEW plan \in Plans, NEW code \in ExitCodes, NEW ch,
         \/ ch = [Forked(plan, code) EXCEPT !.killed = TRUE]
         \/ ch = [Forked(plan, code) EXCEPT !.slot = TRUE]
  PROVE  /\ ch \in ChildRec /\ Bounded(ch) /\ ch.state = "running"
         /\ ch.wrote = [s \in Streams |-> 0] /\ ch.open = [s \in Streams |-> TRUE]
         /\ ch.pipe = [s \in Streams |-> <<>>] /\ ch.got = [s \in Streams |-> <<>>]
         /\ ch = [Forked(plan, code) EXCEPT !.killed = TRUE] => ~ch.slot
         /\ ch = [Forked(plan, code) EXCEPT !.slot = TRUE] => ch.slot
<1> DEFINE ws == [s \in Streams |-> 0]
           ps == [s \in Streams |-> <<>>]
           os == [s \in Streams |-> TRUE]
           fs == [s \in Streams |-> FALSE]
           f == Forked(plan, code)
<1>1. 0 \in 0..MaxOutput /\ <<>> \in Seq(Bytes) /\ plan \in [Streams -> 0..MaxOutput]
  BY Constants DEF Plans
<1>2. ws \in [Streams -> 0..MaxOutput] /\ ps \in [Streams -> Seq(Bytes)]
      /\ os \in [Streams -> BOOLEAN] /\ (\A s \in Streams : ws[s] = 0 /\ os[s])
  BY <1>1
<1> DEFINE n == [state |-> "none", killed |-> FALSE, exit |-> 0, slot |-> FALSE,
                 wrote |-> ws, left |-> ws, pipe |-> ps, open |-> fs, got |-> ps]
           a == [n EXCEPT !.state = "running"]
           b == [a EXCEPT !.left = plan]
           d == [b EXCEPT !.exit = code]
           e == [d EXCEPT !.open = os]
<1>3. f = e
  BY DEF Forked, NoChild
<1> HIDE DEF f, ws, ps, os, fs
<1>4. /\ e \in ChildRec /\ e.state = "running" /\ e.wrote = ws /\ e.left = plan /\ e.pipe = ps
      /\ e.open = os /\ e.got = ps /\ ~e.slot
  BY <1>1, <1>2 DEF ChildRec
<1> HIDE DEF e
<1>5. /\ ch \in ChildRec /\ ch.state = "running" /\ ch.wrote = ws /\ ch.left = plan
      /\ ch.pipe = ps /\ ch.open = os /\ ch.got = ps
      /\ (ch = [f EXCEPT !.killed = TRUE] => ~ch.slot)
      /\ (ch = [f EXCEPT !.slot = TRUE] => ch.slot)
  <2>1. ch = [e EXCEPT !.killed = TRUE] \/ ch = [e EXCEPT !.slot = TRUE]
    BY <1>3 DEF f
  <2>2. QED BY <1>3, <1>4, <2>1 DEF ChildRec
<1>6. Bounded(ch)
  BY <1>1, <1>2, <1>5, Constants DEF Bounded
<1>7. QED BY <1>5, <1>6 DEF ws, ps, os, f

LEMMA TakenOK ==
  ASSUME NEW c \in Children
  PROVE  /\ Taken(c) \in SlotRec /\ Taken(c).used /\ Taken(c).child = c
         /\ ~Taken(c).finished /\ \A s \in Streams : Taken(c).io[s] = NewStream
<1> DEFINE a == [FreeSlot EXCEPT !.used = TRUE]
           b == [a EXCEPT !.child = c]
<1>1. Taken(c) = b
  BY DEF Taken
<1>2. FreeSlot \in SlotRec /\ ~FreeSlot.finished /\ \A s \in Streams : FreeSlot.io[s] = NewStream
  BY FreeSlotOK DEF FreeSlot
<1> HIDE DEF FreeSlot
<1>3. a \in SlotRec /\ a.used /\ a.finished = FreeSlot.finished /\ a.io = FreeSlot.io
  BY <1>2 DEF SlotRec
<1> HIDE DEF a
<1>4. c \in 0..MaxSpawns
  BY Constants DEF Children
<1>5. b \in SlotRec /\ b.used /\ b.child = c /\ b.finished = a.finished /\ b.io = a.io
  BY <1>3, <1>4 DEF SlotRec
<1>6. QED BY <1>1, <1>2, <1>3, <1>5

LEMMA FreshStream ==
  ASSUME NEW ch, NEW s \in Streams, ch.wrote[s] = 0, ch.got[s] = <<>>, ch.pipe[s] = <<>>
  PROVE  StreamOK(NewStream, ch, s)
<1>1. NewStream.pos = 0 /\ NewStream.buf = <<>> /\ NewStream.closed = FALSE
  BY DEF NewStream
<1>2. <<>> \in Seq(Bytes) /\ Len(<<>>) = 0
  OBVIOUS
<1>3. SubSeq(<<>>, 1, 0) = <<>>
  BY <1>2, SubSeqEmpty
<1>4. UnreadBytes(NewStream) = <<>>
  BY <1>1, <1>2, <1>3 DEF UnreadBytes
<1>5. <<>> \o <<>> = <<>>
  BY <1>2, ConcatEmptySeq
<1>6. Counted(0) = <<>>
  <2>1. Counted(0) \in Seq(Nat) /\ Len(Counted(0)) = 0
    BY CountedNext
  <2>2. QED BY <2>1, EmptySeq
<1>7. QED BY <1>1, <1>2, <1>4, <1>5, <1>6 DEF StreamOK

LEMMA SpawnStep ==
  ASSUME ProcInv, NEW plan \in Plans, NEW code \in ExitCodes, Spawn(plan, code)
  PROVE  ProcInv' /\ NoLateSignal
<1> DEFINE c == spawned + 1
<1>1. Idle /\ spawned < MaxSpawns /\ spawned' = c /\ UNCHANGED <<main, dangling>>
  BY DEF Spawn
<1>2. spawned \in Nat /\ MaxSpawns \in Nat
  BY Constants DEF ProcInv, Types
<1>3. c \in Children /\ c \in Nat /\ c > spawned /\ spawned' \in 0..MaxSpawns
      /\ \A d \in Children : d \in Nat /\ (d > c => d > spawned)
  BY <1>1, <1>2 DEF Children
<1>4. slots \in [Slots -> SlotRec] /\ children \in [Children -> ChildRec]
  BY DEF ProcInv, Types
<1>5. children[c] = NoChild
  BY <1>3 DEF ProcInv, ChildrenOK
<1>6. ASSUME NEW k \in Slots, slots[k].used
      PROVE  slots[k].child \in Children /\ slots[k].child # c /\ slots[k].child \in 1..c
  BY <1>2, <1>3, <1>6, PairAt
<1> HIDE DEF c
<1>7. ASSUME NEW ch, ch \in ChildRec, Bounded(ch), children' = [children EXCEPT ![c] = ch]
      PROVE  /\ children' \in [Children -> ChildRec] /\ children'[c] = ch
             /\ (\A d \in Children : d # c => children'[d] = children[d])
             /\ ChildrenOK' /\ NoLateSignal
  <2>1. /\ children' \in [Children -> ChildRec] /\ children'[c] = ch
        /\ \A d \in Children : d # c => children'[d] = children[d]
    BY <1>3, <1>4, <1>7
  <2>2. ChildrenOK'
    <3> SUFFICES ASSUME NEW d \in Children
                 PROVE  Bounded(children'[d]) /\ (d > spawned' => children'[d] = NoChild)
      BY DEF ChildrenOK, Bounded
    <3>1. CASE d = c
      BY <1>1, <1>3, <1>7, <2>1, <3>1
    <3>2. CASE d # c
      BY <1>1, <1>3, <2>1, <3>2 DEF ProcInv, ChildrenOK
    <3>3. QED BY <3>1, <3>2
  <2>3. NoLateSignal
    BY <1>5, <2>1 DEF NoLateSignal, NoChild
  <2>4. QED BY <2>1, <2>2, <2>3
<1>8. CASE FreeSlots = {}
  <2> DEFINE ch == [Forked(plan, code) EXCEPT !.killed = TRUE]
  <2>1. children' = [children EXCEPT ![c] = ch] /\ slots' = slots
    BY <1>8 DEF Spawn, c
  <2>2. ch \in ChildRec /\ Bounded(ch) /\ ~ch.slot
    BY ForkedOK
  <2> HIDE DEF ch
  <2>3. /\ children' \in [Children -> ChildRec] /\ children'[c] = ch
        /\ \A d \in Children : d # c => children'[d] = children[d]
        /\ ChildrenOK' /\ NoLateSignal
    BY <1>7, <2>1, <2>2
  <2>4. SlotsOK'
    <3> SUFFICES ASSUME NEW k \in Slots, slots'[k].used
                 PROVE  slots'[k].child \in 1..spawned'
                        /\ PairOK(slots'[k], children'[slots'[k].child])
      BY DEF SlotsOK, PairOK, StreamOK
    <3>1. slots[k].used /\ slots'[k] = slots[k]
      BY <2>1
    <3>2. children'[slots[k].child] = children[slots[k].child]
      BY <1>6, <2>3, <3>1
    <3>3. QED BY <1>1, <1>6, <3>1, <3>2 DEF ProcInv, SlotsOK
  <2>5. OneSlotEach'
    BY <2>1 DEF ProcInv, OneSlotEach
  <2>6. ReleasedOK'
    <3> SUFFICES ASSUME NEW d \in Children, children'[d].slot
                 PROVE  \/ \E k \in Slots : slots'[k].used /\ slots'[k].child = d
                        \/ Released(children'[d])
      BY DEF ReleasedOK, Released
    <3>1. d # c
      BY <2>2, <2>3
    <3>2. children'[d] = children[d]
      BY <2>3, <3>1
    <3>3. QED BY <2>1, <3>2 DEF ProcInv, ReleasedOK
  <2>7. Types'
    BY <1>1, <1>3, <1>4, <2>1, <2>3, IdleMain DEF ProcInv, Types
  <2>8. QED BY <2>3, <2>4, <2>5, <2>6, <2>7 DEF ProcInv
<1>9. CASE FreeSlots # {}
  <2> DEFINE ch == [Forked(plan, code) EXCEPT !.slot = TRUE]
             h == CHOOSE g \in FreeSlots : \A k \in FreeSlots : g <= k
             sl == Taken(c)
  <2>1. children' = [children EXCEPT ![c] = ch] /\ slots' = [slots EXCEPT ![h] = sl]
    BY <1>9 DEF Spawn, c
  <2>2. FreeSlots \subseteq Nat
    BY DEF FreeSlots, Slots
  <2>3. h \in FreeSlots
    BY <1>9, <2>2, Least
  <2>4. h \in Slots /\ ~slots[h].used
    BY <2>3 DEF FreeSlots
  <2>5. /\ ch \in ChildRec /\ Bounded(ch) /\ ch.slot /\ ch.state = "running"
        /\ ch.wrote = [s \in Streams |-> 0] /\ ch.open = [s \in Streams |-> TRUE]
        /\ ch.pipe = [s \in Streams |-> <<>>] /\ ch.got = [s \in Streams |-> <<>>]
    BY ForkedOK
  <2>6. /\ sl \in SlotRec /\ sl.used /\ sl.child = c
        /\ ~sl.finished /\ \A s \in Streams : sl.io[s] = NewStream
    BY <1>3, TakenOK
  <2> HIDE DEF ch, h, sl
  <2>7. /\ children' \in [Children -> ChildRec] /\ children'[c] = ch
        /\ \A d \in Children : d # c => children'[d] = children[d]
        /\ ChildrenOK' /\ NoLateSignal
    BY <1>7, <2>1, <2>5
  <2>8. /\ slots' \in [Slots -> SlotRec] /\ slots'[h] = sl
        /\ \A k \in Slots : k # h => slots'[k] = slots[k]
    BY <1>4, <2>1, <2>4, <2>6
  <2>9. PairOK(sl, ch)
    <3>1. \A s \in Streams : StreamOK(NewStream, ch, s)
      BY <2>5, FreshStream
    <3>2. QED BY <2>5, <2>6, <3>1 DEF PairOK
  <2>10. SlotsOK'
    <3> SUFFICES ASSUME NEW k \in Slots, slots'[k].used
                 PROVE  slots'[k].child \in 1..spawned'
                        /\ PairOK(slots'[k], children'[slots'[k].child])
      BY DEF SlotsOK, PairOK, StreamOK
    <3>1. CASE k = h
      <4>1. slots'[k] = sl /\ children'[slots'[k].child] = ch
        BY <2>6, <2>7, <2>8, <3>1
      <4>2. c \in 1..spawned'
        BY <1>1, <1>2, <1>3 DEF c
      <4>3. QED BY <2>6, <2>9, <4>1, <4>2
    <3>2. CASE k # h
      <4>1. slots[k].used /\ slots'[k] = slots[k]
        BY <2>8, <3>2
      <4>2. children'[slots[k].child] = children[slots[k].child]
        BY <1>6, <2>7, <4>1
      <4>3. QED BY <1>1, <1>6, <4>1, <4>2 DEF ProcInv, SlotsOK
    <3>3. QED BY <3>1, <3>2
  <2>11. OneSlotEach'
    <3> SUFFICES ASSUME NEW k \in Slots, NEW l \in Slots, slots'[k].used, slots'[l].used,
                        slots'[k].child = slots'[l].child
                 PROVE  k = l
      BY DEF OneSlotEach
    <3>1. CASE k = h /\ l # h
      BY <1>6, <2>6, <2>8, <3>1
    <3>2. CASE k # h /\ l = h
      BY <1>6, <2>6, <2>8, <3>2
    <3>3. CASE k # h /\ l # h
      BY <2>8, <3>3 DEF ProcInv, OneSlotEach
    <3>4. QED BY <3>1, <3>2, <3>3
  <2>12. ReleasedOK'
    <3> SUFFICES ASSUME NEW d \in Children, children'[d].slot
                 PROVE  \/ \E k \in Slots : slots'[k].used /\ slots'[k].child = d
                        \/ Released(children'[d])
      BY DEF ReleasedOK, Released
    <3>1. CASE d = c
      BY <2>4, <2>6, <2>8, <3>1
    <3>2. CASE d # c /\ Released(children[d])
      BY <2>7, <3>2
    <3>3. CASE d # c /\ ~Released(children[d])
      <4>1. children'[d] = children[d]
        BY <2>7, <3>3
      <4>2. PICK k \in Slots : slots[k].used /\ slots[k].child = d
        BY <3>3, <4>1 DEF ProcInv, ReleasedOK
      <4>3. slots'[k] = slots[k]
        BY <2>4, <2>8, <4>2
      <4>4. QED BY <4>2, <4>3
    <3>4. QED BY <3>1, <3>2, <3>3
  <2>13. Types'
    BY <1>1, <1>3, <2>7, <2>8, IdleMain DEF ProcInv, Types
  <2>14. QED BY <2>7, <2>10, <2>11, <2>12, <2>13 DEF ProcInv
<1>10. QED BY <1>8, <1>9

-----------------------------------------------------------------------------
(* Results.                                                                *)

LEMMA StepOK ==
  ASSUME ProcInv, [Next]_vars PROVE ProcInv' /\ (NoLateSignal \/ UNCHANGED vars)
<1>1. CASE UNCHANGED vars
  BY <1>1 DEF vars, ProcInv, Types, ChildrenOK, SlotsOK, OneSlotEach, ReleasedOK
<1>2. CASE Next
  <2>1. \/ \E plan \in Plans, code \in ExitCodes : Spawn(plan, code)
        \/ \E h \in Slots : Poll(h) \/ WaitBegin(h) \/ Kill(h)
        \/ \E h \in Slots, s \in Streams : StreamRead(h, s)
        \/ WaitDrain
        \/ WaitReap
        \/ \E c \in Children : ChildExits(c)
        \/ \E c \in Children, s \in Streams : ChildWrites(c, s) \/ WriterCloses(c, s)
    BY <1>2 DEF Next, Child
  <2>2. QED BY <2>1, SpawnStep, PollStep, WaitBeginStep, KillStep, StreamReadStep, WaitDrainStep,
               WaitReapStep, ChildExitsStep, ChildWritesStep, WriterClosesStep
<1>3. QED BY <1>1, <1>2

\* Every slot in use collects the output of its own child, no two slots of the
\* same one, every byte a child has written is in exactly one place, and a slot
\* that was released left nothing behind (airun_process_host.inc).
THEOREM Inductive == Spec => []ProcInv
<1>1. Init => ProcInv
  BY InitOK
<1>2. ProcInv /\ [Next]_vars => ProcInv'
  BY StepOK
<1>3. QED BY <1>1, <1>2, PTL DEF Spec

\* Slots and the wait in progress have their types, and a wait is always on a
\* slot in use.
THEOREM TypeCorrect == Spec => []TypeOK
<1>1. ProcInv => TypeOK
  <2> SUFFICES ASSUME ProcInv PROVE TypeOK
    OBVIOUS
  <2>1. slots \in [Slots -> [used : BOOLEAN, child : 0..MaxSpawns, finished : BOOLEAN,
                             exit : ExitCodes \cup {0, SigTerm},
                             io : [Streams -> [closed : BOOLEAN, buf : Seq(1..MaxOutput),
                                               pos : 0..MaxOutput]]]]
    BY DEF ProcInv, Types, SlotRec, Stream, Bytes
  <2>2. \A h \in Slots : slots[h].used => slots[h].child \in 1..spawned
    BY DEF ProcInv, SlotsOK
  <2>3. \A c \in Children : children[c].state \in {"none", "running", "zombie", "reaped"}
    BY DEF ProcInv, Types, ChildRec
  <2>4. QED BY <2>1, <2>2, <2>3 DEF ProcInv, Types, TypeOK
<1>2. QED BY <1>1, Inductive, PTL

\* Drains, direct reads and the release of a slot neither lose, repeat nor
\* reorder a byte of a child that has or had a slot (native_process_drain_output,
\* native_syscall_process_stream_read, native_process_maybe_release_finished).
THEOREM NothingLost == Spec => []NoBytesLost
<1>1. ProcInv => NoBytesLost
  <2> SUFFICES ASSUME ProcInv, NEW c \in Children, children[c].slot, NEW s \in Streams
               PROVE  Counted(children[c].wrote[s]) =
                        children[c].got[s]
                        \o (IF SlotOf(c) = {} THEN <<>>
                            ELSE UnreadBytes(slots[CHOOSE h \in SlotOf(c) : TRUE].io[s]))
                        \o children[c].pipe[s]
    BY DEF NoBytesLost
  <2> DEFINE ch == children[c]
  <2>1. CASE SlotOf(c) = {}
    <3>1. Released(ch)
      BY <2>1 DEF ProcInv, ReleasedOK, SlotOf
    <3>2. ch.pipe[s] = <<>> /\ Counted(ch.wrote[s]) = ch.got[s]
      BY <3>1 DEF Released
    <3>3. ch.got[s] \in Seq(Bytes)
      BY StreamTypes DEF ProcInv, Types
    <3>4. (ch.got[s] \o <<>>) \o <<>> = ch.got[s]
      BY <3>3, ConcatEmptySeq
    <3>5. QED BY <2>1, <3>2, <3>4
  <2>2. CASE SlotOf(c) # {}
    <3> DEFINE h == CHOOSE k \in SlotOf(c) : TRUE
    <3>1. h \in SlotOf(c)
      BY <2>2
    <3> HIDE DEF h
    <3>2. h \in Slots /\ slots[h].used /\ slots[h].child = c
      BY <3>1 DEF SlotOf
    <3>3. StreamOK(slots[h].io[s], ch, s)
      BY <3>2 DEF ProcInv, SlotsOK, PairOK
    <3>4. Counted(ch.wrote[s]) = ch.got[s] \o UnreadBytes(slots[h].io[s]) \o ch.pipe[s]
      BY <3>3 DEF StreamOK
    <3>5. QED BY <2>2, <3>4 DEF h
  <2>3. QED BY <2>1, <2>2
<1>2. QED BY <1>1, Inductive, PTL

\* No signal goes to a process number whose child has been reaped
\* (native_syscall_process_kill).
THEOREM SignalsStayHome == Spec => SignalsOnlyItsChild
<1>1. ProcInv /\ [Next]_vars
        => [\A c \in Children : children[c].state = "reaped"
               => children'[c].killed = children[c].killed]_vars
  BY StepOK DEF NoLateSignal
<1>2. QED BY <1>1, Inductive, PTL DEF Spec, SignalsOnlyItsChild
=============================================================================
