--------------------------- MODULE RemoteBridgeProofs ---------------------------
(***************************************************************************)
(* Proofs about RemoteBridge, for any capabilities and any sizes: however  *)
(* the stream is cut into pieces.                                          *)
(***************************************************************************)
EXTENDS RemoteBridge, SequenceTheorems, TLAPS

AnyFrame == UNION {Frames(id) : id \in Nat}

Cell == AnyFrame \X Nat

Reply == [to : Nat, kind : {"welcome", "400", "pong", "401", "403", "404", "result"}]

Types ==
  /\ pc \in {"accept", "recv", "decode", "dead"}
  /\ sent \in Seq(AnyFrame) /\ wire \in Seq(Cell) /\ buffer \in Seq(Cell)
  /\ replies \in Seq(Reply)
  /\ \A j \in 1..Len(sent) : sent[j] \in Frames(j)

\* Where the frames of the connection begin in the stream: frame j takes the
\* cells start[j] + 1 to start[j + 1].
Layout(start) ==
  /\ start \in [1..(Len(sent) + 1) -> Nat]
  /\ \A j \in 1..Len(sent) : start[j + 1] = start[j] + sent[j].size
  /\ \A j, k \in 1..(Len(sent) + 1) : j <= k => start[j] <= start[k]

\* The stream as the bridge has yet to decode it: the buffer, then the wire.
Pending(i) == IF i <= Len(buffer) THEN buffer[i] ELSE wire[i - Len(buffer)]

\* n frames have been taken out; the pending cells are those of the others.
Streamed(start, n) ==
  /\ n \in 0..Len(sent)
  /\ Len(buffer) + Len(wire) = start[Len(sent) + 1] - start[n + 1]
  /\ \A j \in (n + 1)..Len(sent), k \in 1..MaxFrameSize :
        k <= sent[j].size => Pending(start[j] - start[n + 1] + k) = <<sent[j], k>>

\* As long as the client is there each of the n frames taken out that has a
\* reply got it; the session is the one the last HELLO among them left.
Served(n) ==
  /\ \A i \in 1..Len(replies) : replies[i].to \in 1..n
  /\ peer /\ pc # "accept" =>
        \A k \in 1..n : sent[k].kind = "text" \/ \E h \in 1..Len(replies) : replies[h].to = k
  /\ session.ready => \E h \in 1..n : /\ sent[h].kind = "hello"
                                      /\ session.granted = sent[h].caps \cap Allowed
                                      /\ \A k \in (h + 1)..n : sent[k].kind # "hello"

\* Reply i answers frame j, which is its turn.
Answers(i, j) ==
  /\ replies[i].to = j
  /\ sent[j].kind \in {"hello", "call", "other", "ping"}
  /\ \A k \in 1..(j - 1) : sent[k].kind = "text" \/ \E h \in 1..(i - 1) : replies[h].to = k
  /\ \A h \in 1..(i - 1) : replies[h].to < j

Serving == \E n \in Nat : Served(n) /\ \E start : Layout(start) /\ Streamed(start, n)

BridgeInv == Types /\ Serving /\ AnsweredInOrder /\ GrantsFollowPolicy /\ NoSpuriousHangup

-----------------------------------------------------------------------------
(* Frames, replies and the stream.                                         *)

LEMMA Constants ==
  /\ MaxFrameSize \in Nat /\ MaxFrameSize > 0 /\ BufferCapacity \in Nat
  /\ MaxFrameSize <= BufferCapacity
BY BridgeAssumption

LEMMA FrameFields ==
  ASSUME NEW id \in Nat, NEW f \in Frames(id)
  PROVE  /\ f.id = id /\ f.size \in 1..MaxFrameSize /\ f \in AnyFrame
         /\ f.kind \in {"hello", "call", "other", "malformed", "ping", "text", "close",
                        "undecodable"}
<1>1. f.id = id /\ f.size \in 1..MaxFrameSize
      /\ f.kind \in {"hello", "call", "other", "malformed", "ping", "text", "close",
                     "undecodable"}
  BY DEF Frames
<1>2. f \in AnyFrame
  BY DEF AnyFrame
<1>3. QED BY <1>1, <1>2

LEMMA SentFields ==
  ASSUME Types, NEW j \in 1..Len(sent)
  PROVE  /\ sent[j].id = j /\ sent[j].size \in Nat /\ sent[j].size >= 1
         /\ sent[j].size <= MaxFrameSize
<1>1. sent[j] \in Frames(j) /\ j \in Nat
  BY DEF Types
<1>2. QED BY <1>1, FrameFields, Constants

\* A call is let through only by the session that grants its capability.
LEMMA ReplyFacts ==
  ASSUME NEW f, f.kind \in {"hello", "call", "other", "ping"}
  PROVE  /\ ReplyKind(f) \in {"welcome", "400", "pong", "401", "403", "404", "result"}
         /\ ReplyKind(f) \in {"result", "404"}
              => f.kind = "call" /\ session.ready /\ f.cap \in session.granted
<1>1. CASE f.kind = "hello"
  <2>1. ReplyKind(f) = "welcome"
    BY <1>1, Zenon DEF ReplyKind
  <2>2. QED BY <2>1
<1>2. CASE f.kind = "other"
  <2>1. ReplyKind(f) = "400"
    BY <1>2, Zenon DEF ReplyKind
  <2>2. QED BY <2>1
<1>3. CASE f.kind = "ping"
  <2>1. ReplyKind(f) = "pong"
    BY <1>3, Zenon DEF ReplyKind
  <2>2. QED BY <2>1
<1>4. CASE f.kind = "call" /\ ~session.ready
  <2>1. ReplyKind(f) = "401"
    BY <1>4, Zenon DEF ReplyKind
  <2>2. QED BY <2>1
<1>5. CASE f.kind = "call" /\ session.ready /\ f.cap \notin session.granted
  <2>1. ReplyKind(f) = "403"
    BY <1>5, Zenon DEF ReplyKind
  <2>2. QED BY <2>1
<1>6. CASE f.kind = "call" /\ session.ready /\ f.cap \in session.granted
  <2>1. ReplyKind(f) = IF f.cap = "cap.remote" /\ f.op = "echoInt" THEN "result" ELSE "404"
    BY <1>6, Zenon DEF ReplyKind
  <2>2. QED BY <1>6, <2>1
<1>7. QED BY <1>1, <1>2, <1>3, <1>4, <1>5, <1>6

LEMMA AnswersForm ==
  ASSUME AnsweredInOrder, NEW i \in 1..Len(replies)
  PROVE  \E j \in 1..Len(sent) : Answers(i, j)
BY DEF AnsweredInOrder, Answers

\* What was said of replies and frames stays true while they are the same.
LEMMA AnswersStay ==
  ASSUME AnsweredInOrder, GrantsFollowPolicy, sent' = sent, replies' = replies
  PROVE  AnsweredInOrder' /\ GrantsFollowPolicy'
<1>1. ASSUME NEW i \in 1..Len(replies') PROVE \E j \in 1..Len(sent') : Answers(i, j)'
  <2>1. i \in 1..Len(replies)
    OBVIOUS
  <2>2. PICK j \in 1..Len(sent) : Answers(i, j)
    BY <2>1, AnswersForm
  <2>3. Answers(i, j)'
    BY <2>2 DEF Answers
  <2>4. QED BY <2>3
<1>2. AnsweredInOrder'
  BY <1>1 DEF AnsweredInOrder, Answers
<1>3. GrantsFollowPolicy'
  BY DEF GrantsFollowPolicy
<1>4. QED BY <1>2, <1>3

\* The buffer begins with the first frame that has not been taken out.
LEMMA HeadFrame ==
  ASSUME Types, NEW start, NEW n, Layout(start), Streamed(start, n), buffer # <<>>
  PROVE  n \in Nat /\ n + 1 \in 1..Len(sent) /\ Head(buffer)[1] = sent[n + 1]
<1>1. buffer \in Seq(Cell) /\ wire \in Seq(Cell) /\ sent \in Seq(AnyFrame)
  BY DEF Types
<1>2. Len(buffer) \in Nat /\ Len(buffer) >= 1 /\ Head(buffer) = buffer[1]
      /\ Len(wire) \in Nat /\ Len(sent) \in Nat
  BY <1>1
<1>3. n \in 0..Len(sent) /\ Len(buffer) + Len(wire) = start[Len(sent) + 1] - start[n + 1]
  BY DEF Streamed
<1>4. start[n + 1] \in Nat /\ start[Len(sent) + 1] \in Nat
  <2>1. n + 1 \in 1..(Len(sent) + 1) /\ Len(sent) + 1 \in 1..(Len(sent) + 1)
    BY <1>2, <1>3
  <2>2. QED BY <2>1 DEF Layout
<1>5. n # Len(sent)
  BY <1>2, <1>3, <1>4
<1>6. n + 1 \in 1..Len(sent) /\ n \in Nat /\ n + 1 \in (n + 1)..Len(sent)
  BY <1>2, <1>3, <1>5
<1>7. 1 <= sent[n + 1].size /\ 1 \in 1..MaxFrameSize
  BY <1>6, SentFields, Constants
<1>8. Pending(start[n + 1] - start[n + 1] + 1) = <<sent[n + 1], 1>>
  BY <1>6, <1>7 DEF Streamed
<1>9. start[n + 1] - start[n + 1] + 1 = 1
  BY <1>4
<1>10. buffer[1] = <<sent[n + 1], 1>>
  BY <1>2, <1>8, <1>9 DEF Pending
<1>11. QED BY <1>2, <1>6, <1>10

\* The cells of a frame lie within the pending part of the stream.
LEMMA StreamRange ==
  ASSUME Types, NEW start, NEW n, Layout(start), Streamed(start, n),
         NEW j \in (n + 1)..Len(sent), NEW k \in 1..MaxFrameSize, k <= sent[j].size
  PROVE  /\ start[j] - start[n + 1] + k \in 1..(Len(buffer) + Len(wire))
         /\ start[j] \in Nat /\ start[n + 1] \in Nat /\ start[j] >= start[n + 1]
<1>1. Len(sent) \in Nat /\ n \in 0..Len(sent)
  BY DEF Types, Streamed
<1>2. j \in 1..Len(sent) /\ j \in 1..(Len(sent) + 1) /\ n + 1 \in 1..(Len(sent) + 1)
      /\ j + 1 \in 1..(Len(sent) + 1) /\ Len(sent) + 1 \in 1..(Len(sent) + 1)
      /\ n + 1 <= j /\ j + 1 <= Len(sent) + 1
  BY <1>1
<1>3. start[j] \in Nat /\ start[n + 1] \in Nat /\ start[j + 1] \in Nat
      /\ start[Len(sent) + 1] \in Nat
  BY <1>2 DEF Layout
<1>4. start[n + 1] <= start[j] /\ start[j + 1] <= start[Len(sent) + 1]
      /\ start[j + 1] = start[j] + sent[j].size
  BY <1>2 DEF Layout
<1>5. sent[j].size \in Nat /\ Len(buffer) + Len(wire) = start[Len(sent) + 1] - start[n + 1]
  BY <1>2, SentFields DEF Streamed
<1>6. k \in Nat /\ k >= 1
  BY Constants
<1>7. Len(buffer) + Len(wire) \in Nat
  BY DEF Types
<1> DEFINE T == Len(buffer) + Len(wire)
           a == start[j]
           b == start[n + 1]
           c == start[Len(sent) + 1]
           z == sent[j].size
<1>8. a \in Nat /\ b \in Nat /\ c \in Nat /\ z \in Nat /\ b <= a /\ a + z <= c /\ T = c - b
      /\ k <= z /\ T \in Nat
  BY <1>3, <1>4, <1>5, <1>7
<1> HIDE DEF T, a, b, c, z
<1>9. a - b + k \in 1..T /\ a >= b
  BY <1>6, <1>8
<1>10. QED BY <1>3, <1>9 DEF T, a, b

-----------------------------------------------------------------------------
(* The steps that leave frames and replies alone.                          *)

LEMMA InitOK == Init => BridgeInv
<1> SUFFICES ASSUME Init PROVE BridgeInv
  OBVIOUS
<1> DEFINE start == [j \in 1..1 |-> 0]
<1>1. Len(sent) = 0 /\ Len(buffer) = 0 /\ Len(wire) = 0 /\ Len(replies) = 0
      /\ sent \in Seq(AnyFrame) /\ wire \in Seq(Cell) /\ buffer \in Seq(Cell)
      /\ replies \in Seq(Reply)
  BY DEF Init
<1>2. Types
  BY <1>1 DEF Init, Types
<1>3. Layout(start) /\ Streamed(start, 0)
  BY <1>1 DEF Layout, Streamed
<1>4. Served(0)
  BY <1>1 DEF Init, Served, NoSession
<1>5. Serving
  BY <1>3, <1>4 DEF Serving
<1>6. AnsweredInOrder /\ GrantsFollowPolicy /\ NoSpuriousHangup
  BY <1>1 DEF Init, AnsweredInOrder, GrantsFollowPolicy, NoSpuriousHangup
<1>7. QED BY <1>2, <1>5, <1>6 DEF BridgeInv

LEMMA AcceptStep ==
  ASSUME BridgeInv, Accept PROVE BridgeInv'
<1>1. sent' = <<>> /\ wire' = <<>> /\ buffer' = <<>> /\ replies' = <<>> /\ overflow' = FALSE
      /\ session' = NoSession /\ pc' = "recv" /\ peer' = TRUE
  BY DEF Accept, NewSession
<1> DEFINE start == [j \in 1..1 |-> 0]
<1>2. Len(sent') = 0 /\ Len(buffer') = 0 /\ Len(wire') = 0 /\ Len(replies') = 0
      /\ sent' \in Seq(AnyFrame) /\ wire' \in Seq(Cell) /\ buffer' \in Seq(Cell)
      /\ replies' \in Seq(Reply)
  BY <1>1
<1>3. Types'
  BY <1>1, <1>2 DEF Types
<1>4. Layout(start)' /\ Streamed(start, 0)'
  BY <1>2 DEF Layout, Streamed
<1>5. Served(0)'
  BY <1>1, <1>2 DEF Served, NoSession
<1>6. Serving'
  BY <1>4, <1>5 DEF Serving
<1>7. AnsweredInOrder' /\ GrantsFollowPolicy' /\ NoSpuriousHangup'
  BY <1>1, <1>2 DEF AnsweredInOrder, GrantsFollowPolicy, NoSpuriousHangup
<1>8. QED BY <1>3, <1>6, <1>7 DEF BridgeInv

\* Nothing but the bridge's place in its loop changes, and who is there.
LEMMA ControlStep ==
  ASSUME BridgeInv, RecvEnd \/ HangUp \/ Read PROVE BridgeInv'
<1>1. UNCHANGED <<wire, buffer, session, sent, replies, overflow>>
      /\ (pc' = pc \/ pc' = "accept") /\ (peer' = peer \/ peer' = FALSE)
  BY DEF RecvEnd, HangUp, Read
<1>2. Types'
  BY <1>1 DEF BridgeInv, Types
<1>3. PICK n \in Nat : Served(n) /\ \E start : Layout(start) /\ Streamed(start, n)
  BY DEF BridgeInv, Serving
<1>4. PICK start : Layout(start) /\ Streamed(start, n)
  BY <1>3
<1>5. Layout(start)' /\ Streamed(start, n)'
  BY <1>1, <1>4 DEF Layout, Streamed, Pending
<1>6. Serving'
  <2>1. peer' /\ pc' # "accept" => peer /\ pc # "accept"
    BY <1>1
  <2>2. Served(n)'
    BY <1>1, <1>3, <2>1 DEF Served
  <2>3. QED BY <1>5, <2>2 DEF Serving
<1>7. AnsweredInOrder' /\ GrantsFollowPolicy' /\ NoSpuriousHangup'
  BY <1>1, AnswersStay DEF BridgeInv, NoSpuriousHangup
<1>8. QED BY <1>2, <1>6, <1>7 DEF BridgeInv

\* A full buffer without a frame to take out begins with an undecodable one.
LEMMA DecodeEndStep ==
  ASSUME BridgeInv, DecodeEnd PROVE BridgeInv'
<1>1. peer' = peer /\ UNCHANGED <<wire, buffer, session, sent, replies>> /\ pc = "decode" /\ ~Decodable
      /\ pc' = (IF Full THEN "accept" ELSE "recv") /\ overflow' = Full
  BY DEF DecodeEnd
<1>2. Types /\ Types'
  BY <1>1 DEF BridgeInv, Types, Full
<1>3. PICK n \in Nat : Served(n) /\ \E start : Layout(start) /\ Streamed(start, n)
  BY DEF BridgeInv, Serving
<1>4. PICK start : Layout(start) /\ Streamed(start, n)
  BY <1>3
<1>5. Layout(start)' /\ Streamed(start, n)' /\ Served(n)'
  BY <1>1, <1>3, <1>4 DEF Layout, Streamed, Served, Pending
<1>6. Serving'
  BY <1>5 DEF Serving
<1>7. AnsweredInOrder' /\ GrantsFollowPolicy'
  BY <1>1, AnswersStay DEF BridgeInv
<1>8. ASSUME Full PROVE \E i \in 1..Len(sent) : sent[i].kind = "undecodable"
  <2>1. Len(buffer) = BufferCapacity /\ BufferCapacity > 0 /\ Len(buffer) >= MaxFrameSize
    BY <1>8, Constants DEF Full
  <2>2. buffer # <<>>
    BY <2>1
  <2>3. n \in Nat /\ n + 1 \in 1..Len(sent) /\ Head(buffer)[1] = sent[n + 1]
    BY <1>2, <1>4, <2>2, HeadFrame
  <2>4. sent[n + 1].size <= Len(buffer)
    BY <1>2, <2>1, <2>3, SentFields, Constants
  <2>5. ~(Len(buffer) >= sent[n + 1].size) \/ sent[n + 1].kind = "undecodable"
    BY <1>1, <2>2, <2>3 DEF Decodable
  <2>6. sent[n + 1].size \in Nat /\ Len(buffer) \in Nat
    BY <1>2, <2>1, <2>3, SentFields, Constants
  <2>7. QED BY <2>3, <2>4, <2>5, <2>6
<1>9. NoSpuriousHangup'
  BY <1>1, <1>8 DEF NoSpuriousHangup
<1>10. QED BY <1>2, <1>6, <1>7, <1>9 DEF BridgeInv

\* Receiving moves cells from the wire to the buffer: the stream stays.
LEMMA RecvStep ==
  ASSUME BridgeInv, Recv PROVE BridgeInv'
<1>1. peer' = peer /\ UNCHANGED <<session, sent, replies, overflow>> /\ pc = "recv" /\ pc' = "decode"
  BY DEF Recv
<1>2. PICK m \in 1..Len(wire) : /\ buffer' = buffer \o SubSeq(wire, 1, m)
                                /\ wire' = SubSeq(wire, m + 1, Len(wire))
  BY DEF Recv
<1>3. wire \in Seq(Cell) /\ buffer \in Seq(Cell) /\ Len(wire) \in Nat /\ Len(buffer) \in Nat
      /\ m \in Nat /\ m >= 1 /\ m <= Len(wire)
  BY DEF BridgeInv, Types
<1> DEFINE a == SubSeq(wire, 1, m)
           b == SubSeq(wire, m + 1, Len(wire))
<1>4. a \in Seq(Cell) /\ Len(a) = m /\ \A i \in 1..m : a[i] = wire[i]
  BY <1>3
<1>5. b \in Seq(Cell) /\ Len(b) = Len(wire) - m /\ \A i \in 1..(Len(wire) - m) : b[i] = wire[m + i]
  BY <1>3
<1>6. buffer' = buffer \o a /\ wire' = b
  BY <1>2
<1> HIDE DEF a, b
<1>7. /\ buffer' \in Seq(Cell) /\ Len(buffer') = Len(buffer) + m
      /\ \A i \in 1..(Len(buffer) + m) :
            buffer'[i] = IF i <= Len(buffer) THEN buffer[i] ELSE a[i - Len(buffer)]
  <2>1. buffer \o a \in Seq(Cell) /\ Len(buffer \o a) = Len(buffer) + Len(a)
        /\ \A i \in 1..(Len(buffer) + Len(a)) :
             (buffer \o a)[i] = IF i <= Len(buffer) THEN buffer[i] ELSE a[i - Len(buffer)]
    BY <1>3, <1>4, ConcatProperties
  <2>2. QED BY <1>4, <1>6, <2>1
<1>8. Len(buffer') + Len(wire') = Len(buffer) + Len(wire)
  <2>1. Len(buffer') = Len(buffer) + m /\ Len(wire') = Len(wire) - m
    BY <1>5, <1>6, <1>7
  <2>2. QED BY <1>3, <2>1
<1>9. ASSUME NEW i \in 1..(Len(buffer) + Len(wire)) PROVE Pending(i)' = Pending(i)
  <2>1. CASE i <= Len(buffer)
    BY <1>3, <1>7, <2>1 DEF Pending
  <2>2. CASE i > Len(buffer) /\ i <= Len(buffer) + m
    <3>1. i - Len(buffer) \in 1..m /\ i \in 1..(Len(buffer) + m)
      BY <1>3, <2>2
    <3>2. buffer'[i] = wire[i - Len(buffer)]
      BY <1>3, <1>4, <1>7, <2>2, <3>1
    <3>3. QED BY <1>3, <1>7, <2>2, <3>2 DEF Pending
  <2>3. CASE i > Len(buffer) + m
    <3>1. i - Len(buffer') \in 1..(Len(wire) - m) /\ m + (i - Len(buffer')) = i - Len(buffer)
      BY <1>3, <1>7, <2>3
    <3>2. wire'[i - Len(buffer')] = wire[i - Len(buffer)]
      BY <1>5, <1>6, <3>1
    <3>3. QED BY <1>3, <1>7, <2>3, <3>2 DEF Pending
  <2>4. QED BY <1>3, <2>1, <2>2, <2>3
<1>10. Types'
  BY <1>1, <1>5, <1>6, <1>7 DEF BridgeInv, Types
<1>11. PICK n \in Nat : Served(n) /\ \E start : Layout(start) /\ Streamed(start, n)
  BY DEF BridgeInv, Serving
<1>12. PICK start : Layout(start) /\ Streamed(start, n)
  BY <1>11
<1>13. Layout(start)' /\ Served(n)'
  BY <1>1, <1>11, <1>12 DEF Layout, Served
<1>14. Streamed(start, n)'
  BY <1>1, <1>8, <1>9, <1>12, StreamRange DEF Streamed, BridgeInv
<1>15. Serving'
  BY <1>13, <1>14 DEF Serving
<1>16. AnsweredInOrder' /\ GrantsFollowPolicy' /\ NoSpuriousHangup'
  BY <1>1, AnswersStay DEF BridgeInv, NoSpuriousHangup
<1>17. QED BY <1>10, <1>15, <1>16 DEF BridgeInv

-----------------------------------------------------------------------------
(* A frame more at the end of the stream.                                  *)

LEMMA SendStep ==
  ASSUME BridgeInv, Send PROVE BridgeInv'
<1> DEFINE L == Len(sent)
<1>1. peer' = peer /\ UNCHANGED <<pc, buffer, session, replies, overflow>>
  BY DEF Send
<1>2. PICK f \in Frames(L + 1) : sent' = Append(sent, f) /\ wire' = wire \o Cells(f)
  BY DEF Send
<1>3. /\ wire \in Seq(Cell) /\ buffer \in Seq(Cell) /\ sent \in Seq(AnyFrame) /\ L \in Nat
      /\ Len(wire) \in Nat /\ Len(buffer) \in Nat /\ Types
  BY DEF BridgeInv, Types
<1>4. f \in AnyFrame /\ f.size \in Nat /\ f.size >= 1 /\ f.size <= MaxFrameSize
  BY <1>3, FrameFields, Constants
<1>5. /\ sent' \in Seq(AnyFrame) /\ Len(sent') = L + 1 /\ sent'[L + 1] = f
      /\ \A j \in 1..L : sent'[j] = sent[j]
  BY <1>2, <1>3, <1>4
<1> DEFINE c == Cells(f)
<1>6. c \in Seq(Cell) /\ Len(c) = f.size /\ \A k \in 1..f.size : c[k] = <<f, k>>
  <2>1. \A k \in 1..f.size : <<f, k>> \in Cell
    BY <1>4 DEF Cell
  <2>2. QED BY <1>4, <2>1 DEF Cells
<1>7. wire' = wire \o c
  BY <1>2
<1> HIDE DEF c, L
<1>8. /\ wire' \in Seq(Cell) /\ Len(wire') = Len(wire) + f.size
      /\ \A i \in 1..Len(wire) : wire'[i] = wire[i]
      /\ \A k \in 1..f.size : wire'[Len(wire) + k] = <<f, k>>
  <2>1. /\ wire \o c \in Seq(Cell) /\ Len(wire \o c) = Len(wire) + Len(c)
        /\ \A i \in 1..(Len(wire) + Len(c)) :
              (wire \o c)[i] = IF i <= Len(wire) THEN wire[i] ELSE c[i - Len(wire)]
    BY <1>3, <1>6, ConcatProperties
  <2>2. \A i \in 1..Len(wire) : wire'[i] = wire[i]
    BY <1>3, <1>4, <1>6, <1>7, <2>1
  <2>3. ASSUME NEW k \in 1..f.size PROVE wire'[Len(wire) + k] = <<f, k>>
    <3>1. /\ Len(wire) + k \in 1..(Len(wire) + Len(c)) /\ ~(Len(wire) + k <= Len(wire))
          /\ Len(wire) + k - Len(wire) = k
      BY <1>3, <1>4, <1>6
    <3>2. QED BY <1>6, <1>7, <2>1, <3>1
  <2>4. QED BY <1>6, <1>7, <2>1, <2>2, <2>3
<1>9. ASSUME NEW i \in 1..(Len(buffer) + Len(wire)) PROVE Pending(i)' = Pending(i)
  <2>1. CASE i <= Len(buffer)
    BY <1>1, <2>1 DEF Pending
  <2>2. CASE ~(i <= Len(buffer))
    <3>1. i - Len(buffer) \in 1..Len(wire)
      BY <1>3, <2>2
    <3>2. QED BY <1>1, <1>8, <2>2, <3>1 DEF Pending
  <2>3. QED BY <2>1, <2>2
<1>10. Types'
  <2>1. \A j \in 1..Len(sent') : sent'[j] \in Frames(j)
    <3> SUFFICES ASSUME NEW j \in 1..(L + 1) PROVE sent'[j] \in Frames(j)
      BY <1>5
    <3>1. CASE j = L + 1
      BY <1>2, <1>5, <3>1
    <3>2. CASE j # L + 1
      <4>1. j \in 1..Len(sent)
        BY <1>3, <3>2 DEF L
      <4>2. sent[j] \in Frames(j)
        BY <1>3, <4>1 DEF Types
      <4>3. QED BY <1>5, <4>1, <4>2 DEF L
    <3>3. QED BY <3>1, <3>2
  <2>2. QED BY <1>1, <1>3, <1>5, <1>8, <2>1 DEF Types, Frames
<1>11. PICK n \in Nat : Served(n) /\ \E start : Layout(start) /\ Streamed(start, n)
  BY DEF BridgeInv, Serving
<1>12. PICK start : Layout(start) /\ Streamed(start, n)
  BY <1>11
<1>13. n \in 0..L /\ start \in [1..(L + 1) -> Nat]
       /\ Len(buffer) + Len(wire) = start[L + 1] - start[n + 1]
  BY <1>12 DEF Streamed, Layout, L
<1>14. PICK start2 : /\ start2 \in [1..(L + 2) -> Nat]
                     /\ start2[L + 2] = start[L + 1] + f.size
                     /\ \A j \in 1..(L + 1) : start2[j] = start[j]
  <2> DEFINE st == [j \in 1..(L + 2) |-> IF j <= L + 1 THEN start[j] ELSE start[L + 1] + f.size]
  <2>1. /\ st \in [1..(L + 2) -> Nat] /\ st[L + 2] = start[L + 1] + f.size
        /\ \A j \in 1..(L + 1) : st[j] = start[j]
    BY <1>3, <1>4, <1>13
  <2> HIDE DEF st
  <2>2. QED BY <2>1
<1>15. Layout(start2)'
  <2>1. start2 \in [1..(Len(sent') + 1) -> Nat]
    BY <1>3, <1>5, <1>14
  <2>2. ASSUME NEW j \in 1..(L + 1) PROVE start2[j + 1] = start2[j] + sent'[j].size
    <3>1. CASE j = L + 1
      BY <1>3, <1>5, <1>14, <3>1
    <3>2. CASE j # L + 1
      <4>1. j \in 1..L /\ j + 1 \in 1..(L + 1)
        BY <1>3, <3>2
      <4>2. start[j + 1] = start[j] + sent[j].size
        BY <1>12, <4>1 DEF Layout, L
      <4>3. QED BY <1>5, <1>14, <4>1, <4>2
    <3>3. QED BY <3>1, <3>2
  <2>3. ASSUME NEW j \in 1..(L + 2), NEW k \in 1..(L + 2), j <= k
        PROVE  start2[j] <= start2[k]
    <3>0. \A i, l \in 1..(L + 1) : i <= l => start[i] <= start[l]
      BY <1>12 DEF Layout, L
    <3>1. CASE k = L + 2 /\ j # L + 2
      <4>1. j \in 1..(L + 1) /\ L + 1 \in 1..(L + 1) /\ j <= L + 1
        BY <1>3, <3>1
      <4>2. start[j] <= start[L + 1] /\ start[j] \in Nat /\ start[L + 1] \in Nat
        BY <1>13, <3>0, <4>1
      <4>3. QED BY <1>4, <1>14, <3>1, <4>1, <4>2
    <3>2. CASE k # L + 2
      <4>1. j \in 1..(L + 1) /\ k \in 1..(L + 1)
        BY <1>3, <2>3, <3>2
      <4>2. QED BY <1>14, <2>3, <3>0, <4>1
    <3>3. CASE k = L + 2 /\ j = L + 2
      BY <1>3, <1>14, <3>3
    <3>4. QED BY <3>1, <3>2, <3>3
  <2>4. Len(sent') = L + 1 /\ Len(sent') + 1 = L + 2
    BY <1>3, <1>5
  <2>5. QED BY <2>1, <2>2, <2>3, <2>4 DEF Layout
<1>16. Streamed(start2, n)'
  <2>1. n \in 0..Len(sent') /\ n + 1 \in 1..(L + 1)
    BY <1>3, <1>5, <1>13
  <2>2. Len(buffer') + Len(wire') = start2[Len(sent') + 1] - start2[n + 1]
    <3>1. start2[Len(sent') + 1] = start[L + 1] + f.size /\ start2[n + 1] = start[n + 1]
      BY <1>3, <1>5, <1>14, <2>1
    <3>2. start[L + 1] \in Nat /\ start[n + 1] \in Nat
      BY <1>3, <1>13, <2>1
    <3>3. Len(buffer') = Len(buffer) /\ Len(wire') = Len(wire) + f.size
      BY <1>1, <1>8
    <3> DEFINE b == Len(buffer)
               w == Len(wire)
               x == start[L + 1]
               y == start[n + 1]
               z == f.size
    <3>4. b \in Nat /\ w \in Nat /\ x \in Nat /\ y \in Nat /\ z \in Nat /\ b + w = x - y
      BY <1>3, <1>4, <1>13, <3>2
    <3> HIDE DEF b, w, x, y, z
    <3>5. b + (w + z) = (x + z) - y
      BY <3>4
    <3>6. QED BY <3>1, <3>3, <3>5 DEF b, w, x, y, z
  <2>3. ASSUME NEW j \in (n + 1)..(L + 1), NEW k \in 1..MaxFrameSize, k <= sent'[j].size
        PROVE  Pending(start2[j] - start2[n + 1] + k)' = <<sent'[j], k>>
    <3>1. CASE j = L + 1
      <4>1. k \in 1..f.size
        BY <1>4, <1>5, <2>3, <3>1, Constants
      <4>2. start2[j] - start2[n + 1] = Len(buffer) + Len(wire)
        BY <1>3, <1>13, <1>14, <2>1, <3>1
      <4>3. /\ ~(Len(buffer) + Len(wire) + k <= Len(buffer))
            /\ (Len(buffer) + Len(wire) + k) - Len(buffer) = Len(wire) + k
        BY <1>3, <4>1
      <4>4. QED BY <1>1, <1>5, <1>8, <3>1, <4>1, <4>2, <4>3 DEF Pending
    <3>2. CASE j # L + 1
      <4>1. j \in (n + 1)..Len(sent) /\ j \in 1..L /\ j \in 1..(L + 1)
        BY <1>3, <1>13, <3>2 DEF L
      <4>2. k <= sent[j].size /\ start2[j] = start[j] /\ start2[n + 1] = start[n + 1]
        BY <1>5, <1>14, <2>1, <2>3, <4>1
      <4>3. start[j] - start[n + 1] + k \in 1..(Len(buffer) + Len(wire))
        BY <1>3, <1>12, <4>1, <4>2, StreamRange
      <4>4. Pending(start[j] - start[n + 1] + k) = <<sent[j], k>>
        BY <1>12, <4>1, <4>2 DEF Streamed
      <4>5. QED BY <1>5, <1>9, <4>1, <4>2, <4>3, <4>4
    <3>3. QED BY <3>1, <3>2
  <2>4. QED BY <1>5, <2>1, <2>2, <2>3 DEF Streamed
<1>17. Served(n)'
  <2>1. \A k \in 1..n : k \in 1..L
    BY <1>3, <1>13
  <2>2. \A k \in 1..n : sent'[k] = sent[k]
    BY <1>5, <2>1
  <2>3. \A h \in 1..n : \A k \in (h + 1)..n : sent'[k] = sent[k]
    BY <1>13, <2>2
  <2>4. QED BY <1>1, <1>11, <2>2, <2>3 DEF Served
<1>18. Serving'
  BY <1>15, <1>16, <1>17 DEF Serving
<1>19. AnsweredInOrder'
  <2>1. ASSUME NEW i \in 1..Len(replies') PROVE \E j \in 1..Len(sent') : Answers(i, j)'
    <3>1. PICK j \in 1..L : Answers(i, j)
      BY <1>1, AnswersForm DEF BridgeInv, L
    <3>2. j \in 1..Len(sent') /\ sent'[j] = sent[j] /\ \A k \in 1..(j - 1) : sent'[k] = sent[k]
      BY <1>3, <1>5
    <3>3. Answers(i, j)'
      BY <1>1, <3>1, <3>2 DEF Answers
    <3>4. QED BY <3>2, <3>3
  <2>2. QED BY <2>1 DEF AnsweredInOrder, Answers
<1>20. GrantsFollowPolicy'
  <2> SUFFICES ASSUME NEW i \in 1..Len(replies), replies[i].kind \in {"result", "404"}
               PROVE  \E h \in 1..(replies[i].to - 1) :
                        /\ sent'[h].kind = "hello"
                        /\ sent'[replies[i].to].cap \in sent'[h].caps \cap Allowed
                        /\ \A k \in (h + 1)..(replies[i].to - 1) : sent'[k].kind # "hello"
    BY <1>1 DEF GrantsFollowPolicy
  <2>1. replies[i].to \in 1..L
    BY <1>3, <1>11, <1>13 DEF Served
  <2>2. \A k \in 1..replies[i].to : sent'[k] = sent[k]
    BY <1>3, <1>5, <2>1
  <2>3. PICK h \in 1..(replies[i].to - 1) :
                        /\ sent[h].kind = "hello"
                        /\ sent[replies[i].to].cap \in sent[h].caps \cap Allowed
                        /\ \A k \in (h + 1)..(replies[i].to - 1) : sent[k].kind # "hello"
    BY DEF BridgeInv, GrantsFollowPolicy
  <2>4. h \in 1..replies[i].to /\ replies[i].to \in 1..replies[i].to
        /\ \A k \in (h + 1)..(replies[i].to - 1) : k \in 1..replies[i].to
    BY <1>3, <2>1
  <2>5. QED BY <2>2, <2>3, <2>4
<1>21. NoSpuriousHangup'
  <2>1. overflow => \E i \in 1..L : sent[i].kind = "undecodable"
    BY DEF BridgeInv, NoSpuriousHangup, L
  <2>2. \A i \in 1..L : i \in 1..Len(sent') /\ sent'[i] = sent[i]
    BY <1>3, <1>5
  <2>3. QED BY <1>1, <2>1, <2>2 DEF NoSpuriousHangup
<1>22. QED BY <1>10, <1>18, <1>19, <1>20, <1>21 DEF BridgeInv

-----------------------------------------------------------------------------
(* A frame taken out of the buffer.                                        *)

\* The frames still pending keep their cells, nearer to the front.
LEMMA Taken ==
  ASSUME BridgeInv, Decode, NEW start, NEW n, Layout(start), Streamed(start, n)
  PROVE  /\ Types' /\ Layout(start)' /\ Streamed(start, n + 1)'
         /\ n \in Nat /\ n + 1 \in 1..Len(sent) /\ Head(buffer)[1] = sent[n + 1]
<1> DEFINE f == sent[n + 1]
<1>1. UNCHANGED <<wire, sent>> /\ buffer # <<>> /\ Types
  BY DEF Decode, Decodable, BridgeInv
<1>2. n \in Nat /\ n + 1 \in 1..Len(sent) /\ Head(buffer)[1] = f
  BY <1>1, HeadFrame
<1>3. buffer' = SubSeq(buffer, f.size + 1, Len(buffer)) /\ Len(buffer) >= f.size
      /\ f.kind # "undecodable"
  BY <1>2 DEF Decode, Consumed, Decodable
<1>4. f.size \in Nat /\ f.size >= 1
  BY <1>1, <1>2, SentFields
<1>5. wire \in Seq(Cell) /\ buffer \in Seq(Cell) /\ sent \in Seq(AnyFrame)
      /\ Len(wire) \in Nat /\ Len(buffer) \in Nat /\ Len(sent) \in Nat
  BY DEF BridgeInv, Types
<1> DEFINE z == f.size
<1> HIDE DEF f
<1>6. /\ buffer' \in Seq(Cell) /\ Len(buffer') = Len(buffer) - z
      /\ \A i \in 1..(Len(buffer) - z) : buffer'[i] = buffer[z + i]
  BY <1>3, <1>4, <1>5
<1>7. pc' \in {"accept", "decode", "dead"} /\ replies' \in Seq(Reply)
  <2>1. Head(buffer)[1] = f /\ f.id = n + 1
    BY <1>1, <1>2, SentFields DEF f
  <2>2. pc' \in {"accept", "decode", "dead"}
        /\ \/ replies' = replies
           \/ /\ f.kind \in {"hello", "call", "other", "ping"}
              /\ replies' = Append(replies, [to |-> f.id, kind |-> ReplyKind(f)])
    <3>1. \/ f.kind = "close" /\ SayGoodbye /\ replies' = replies
          \/ pc' \in {"accept", "decode"} /\ replies' = replies
          \/ f.kind \in {"hello", "call", "other", "ping"} /\ SendReply(f)
      BY <2>1 DEF Decode, AfterFramePc
    <3>2. SayGoodbye => pc' \in {"accept", "dead"}
      BY DEF SayGoodbye
    <3>3. ASSUME SendReply(f)
          PROVE  /\ pc' \in {"accept", "decode", "dead"}
                 /\ \/ replies' = replies
                    \/ replies' = Append(replies, [to |-> f.id, kind |-> ReplyKind(f)])
      BY <3>3 DEF SendReply, AfterFramePc, AfterFailedSend
    <3>4. QED BY <3>1, <3>2, <3>3
  <2>3. replies \in Seq(Reply)
    BY <1>1 DEF Types
  <2>4. CASE replies' = replies
    BY <2>2, <2>3, <2>4
  <2>5. CASE /\ f.kind \in {"hello", "call", "other", "ping"}
             /\ replies' = Append(replies, [to |-> f.id, kind |-> ReplyKind(f)])
    <3> DEFINE rp == [to |-> f.id, kind |-> ReplyKind(f)]
    <3>1. n + 1 \in Nat /\ ReplyKind(f) \in {"welcome", "400", "pong", "401", "403", "404", "result"}
      BY <1>2, <2>5, ReplyFacts
    <3>2. rp \in Reply
      BY <2>1, <3>1 DEF Reply
    <3> HIDE DEF rp
    <3>3. Append(replies, rp) \in Seq(Reply)
      BY <2>3, <3>2
    <3>4. QED BY <2>2, <2>5, <3>3 DEF rp
  <2>6. QED BY <2>2, <2>4, <2>5
<1>8. Types'
  BY <1>1, <1>5, <1>6, <1>7 DEF Types
<1>9. Layout(start)'
  BY <1>1 DEF Layout
<1>10. ASSUME NEW i \in Nat, i >= 1, i <= Len(buffer) + Len(wire) - z
       PROVE  Pending(i)' = Pending(z + i)
  <2>1. CASE i <= Len(buffer) - z
    <3>1. i \in 1..(Len(buffer) - z) /\ i <= Len(buffer') /\ z + i <= Len(buffer)
      BY <1>4, <1>5, <1>6, <1>10, <2>1
    <3>2. QED BY <1>6, <3>1 DEF Pending
  <2>2. CASE ~(i <= Len(buffer) - z)
    <3>1. ~(i <= Len(buffer')) /\ ~(z + i <= Len(buffer))
          /\ i - Len(buffer') = z + i - Len(buffer)
      BY <1>4, <1>5, <1>6, <1>10, <2>2
    <3>2. wire'[i - Len(buffer')] = wire[z + i - Len(buffer)]
      BY <1>1, <3>1
    <3> HIDE DEF z
    <3>3. Pending(i)' = wire'[i - Len(buffer')] /\ Pending(z + i) = wire[z + i - Len(buffer)]
      <4>1. z \in Nat /\ Len(buffer') \in Nat /\ Len(buffer) \in Nat
        BY <1>4, <1>5, <1>6 DEF z
      <4>2. Pending(i)' = wire'[i - Len(buffer')]
        BY <3>1, <4>1 DEF Pending
      <4>3. Pending(z + i) = wire[z + i - Len(buffer)]
        BY <3>1, <4>1 DEF Pending
      <4>4. QED BY <4>2, <4>3
    <3>4. QED BY <3>2, <3>3
  <2>3. QED BY <2>1, <2>2
<1>11. Streamed(start, n + 1)'
  <2>1. n + 1 \in 0..Len(sent') /\ Len(sent') = Len(sent)
    BY <1>1, <1>2, <1>5
  <2>2. start[n + 2] = start[n + 1] + z /\ start[n + 1] \in Nat /\ start[Len(sent) + 1] \in Nat
        /\ (n + 1) + 1 = n + 2
    <3>1. n + 1 \in 1..(Len(sent) + 1) /\ Len(sent) + 1 \in 1..(Len(sent) + 1) /\ (n + 1) + 1 = n + 2
      BY <1>2, <1>5
    <3>2. QED BY <1>2, <3>1 DEF Layout, f
  <2>3. Len(buffer) + Len(wire) = start[Len(sent) + 1] - start[n + 1]
    BY DEF Streamed
  <2>4. Len(buffer') + Len(wire') = start[Len(sent') + 1] - start[(n + 1) + 1]
    <3> DEFINE b == Len(buffer)
               w == Len(wire)
               x == start[Len(sent) + 1]
               y == start[n + 1]
    <3>1. b \in Nat /\ w \in Nat /\ x \in Nat /\ y \in Nat /\ z \in Nat /\ b + w = x - y
      BY <1>4, <1>5, <2>2, <2>3
    <3> HIDE DEF b, w, x, y, z
    <3>2. (b - z) + w = x - (y + z)
      BY <3>1
    <3>3. QED BY <1>1, <1>6, <2>1, <2>2, <3>2 DEF b, w, x, y
  <2>5. ASSUME NEW j \in (n + 2)..Len(sent), NEW k \in 1..MaxFrameSize, k <= sent[j].size
        PROVE  Pending(start[j] - start[n + 2] + k)' = <<sent[j], k>>
    <3>1. j \in (n + 1)..Len(sent) /\ k \in Nat /\ k >= 1
          /\ n + 2 \in 1..(Len(sent) + 1) /\ j \in 1..(Len(sent) + 1) /\ n + 2 <= j
      BY <1>2, <1>5
    <3>2. start[j] - start[n + 1] + k \in 1..(Len(buffer) + Len(wire)) /\ start[j] \in Nat
      BY <1>1, <2>5, <3>1, StreamRange
    <3>3. start[n + 2] <= start[j]
      BY <3>1 DEF Layout
    <3>4. Pending(start[j] - start[n + 1] + k) = <<sent[j], k>>
      BY <2>5, <3>1 DEF Streamed
    <3>5. PICK i \in Nat : i = start[j] - start[n + 2] + k
      BY <1>4, <2>2, <3>1, <3>2, <3>3
    <3>6. i >= 1 /\ i <= Len(buffer) + Len(wire) - z /\ z + i = start[j] - start[n + 1] + k
      <4> DEFINE b == Len(buffer)
                 w == Len(wire)
                 x == start[j]
                 y == start[n + 1]
      <4>1. b \in Nat /\ w \in Nat /\ x \in Nat /\ y \in Nat /\ z \in Nat
            /\ x - y + k \in 1..(b + w) /\ y + z <= x /\ i = x - (y + z) + k
        BY <1>4, <1>5, <2>2, <3>2, <3>3, <3>5
      <4> HIDE DEF b, w, x, y, z
      <4>2. i >= 1 /\ i <= b + w - z /\ z + i = x - y + k
        BY <3>1, <4>1
      <4>3. QED BY <4>2 DEF b, w, x, y
    <3>7. Pending(i)' = <<sent[j], k>>
      BY <1>10, <3>4, <3>6
    <3>8. QED BY <3>5, <3>7
  <2>6. QED BY <1>1, <2>1, <2>2, <2>4, <2>5 DEF Streamed
<1>12. QED BY <1>2, <1>8, <1>9, <1>11 DEF f

LEMMA DecodeStep ==
  ASSUME BridgeInv, Decode PROVE BridgeInv'
<1>1. peer' = peer /\ UNCHANGED <<sent, overflow>> /\ pc = "decode" /\ Types
  BY DEF Decode, BridgeInv
<1>2. PICK n \in Nat : Served(n) /\ \E start : Layout(start) /\ Streamed(start, n)
  BY DEF BridgeInv, Serving
<1>3. PICK start : Layout(start) /\ Streamed(start, n)
  BY <1>2
<1>4. /\ Types' /\ Layout(start)' /\ Streamed(start, n + 1)'
      /\ n + 1 \in 1..Len(sent) /\ Head(buffer)[1] = sent[n + 1]
  BY <1>3, Taken
<1> DEFINE f == sent[n + 1]
           R == Len(replies)
           rp == [to |-> f.id, kind |-> ReplyKind(f)]
<1>5. f.id = n + 1 /\ n \in Nat /\ n + 1 \in Nat /\ Len(sent) \in Nat
  BY <1>1, <1>4, SentFields DEF Types
<1>6. replies \in Seq(Reply) /\ R \in Nat
  BY <1>1 DEF Types
<1>7. \/ /\ f.kind \in {"close", "malformed"} /\ (pc' = "accept" \/ ~peer)
         /\ UNCHANGED <<session, replies>>
      \/ /\ f.kind = "text" /\ pc' = "decode" /\ UNCHANGED <<session, replies>>
      \/ /\ f.kind \in {"hello", "call", "other", "ping"} /\ pc' = "decode" /\ peer
         /\ session' = AfterFrame(f) /\ replies' = Append(replies, rp)
      \/ /\ f.kind \in {"hello", "call", "other", "ping"} /\ ~peer
         /\ session' = AfterFrame(f) /\ UNCHANGED replies
  <2>1. \/ f.kind = "close" /\ SayGoodbye /\ UNCHANGED <<session, replies>>
        \/ f.kind = "malformed" /\ pc' = "accept" /\ UNCHANGED <<session, replies>>
        \/ f.kind = "text" /\ pc' = "decode" /\ UNCHANGED <<session, replies>>
        \/ /\ f.kind \in {"hello", "call", "other", "ping"}
           /\ session' = AfterFrame(f) /\ SendReply(f)
    BY <1>4 DEF Decode, AfterFramePc
  <2>2. SayGoodbye => pc' = "accept" \/ ~peer
    BY DEF SayGoodbye
  <2>3. SendReply(f) => \/ /\ peer /\ pc' = "decode"
                           /\ replies' = Append(replies, rp)
                        \/ ~peer /\ UNCHANGED replies
    BY DEF SendReply, AfterFramePc
  <2>4. QED BY <2>1, <2>2, <2>3
<1>8. \A i \in 1..R : replies[i].to \in 1..n
  BY <1>2 DEF Served
<1>9. peer => \A k \in 1..n : sent[k].kind = "text" \/ \E h \in 1..R : replies[h].to = k
  BY <1>1, <1>2 DEF Served
<1>10. session.ready => \E h \in 1..n : /\ sent[h].kind = "hello"
                                        /\ session.granted = sent[h].caps \cap Allowed
                                        /\ \A k \in (h + 1)..n : sent[k].kind # "hello"
  BY <1>2 DEF Served
<1>11. NoSpuriousHangup'
  BY <1>1 DEF BridgeInv, NoSpuriousHangup
<1> HIDE DEF f
<1>12. CASE f.kind \in {"close", "malformed", "text"} /\ UNCHANGED <<session, replies>>
            /\ (pc' = "accept" \/ ~peer \/ f.kind = "text")
  <2>1. Served(n + 1)'
    <3>1. \A i \in 1..Len(replies') : replies'[i].to \in 1..(n + 1)
      BY <1>5, <1>8, <1>12
    <3>2. peer' /\ pc' # "accept" => \A k \in 1..(n + 1) :
                      sent'[k].kind = "text" \/ \E h \in 1..Len(replies') : replies'[h].to = k
      BY <1>1, <1>5, <1>9, <1>12 DEF f
    <3>3. session'.ready => \E h \in 1..(n + 1) :
                                /\ sent'[h].kind = "hello"
                                /\ session'.granted = sent'[h].caps \cap Allowed
                                /\ \A k \in (h + 1)..(n + 1) : sent'[k].kind # "hello"
      BY <1>1, <1>5, <1>10, <1>12 DEF f
    <3>4. QED BY <3>1, <3>2, <3>3 DEF Served
  <2>2. Serving'
    BY <1>4, <1>5, <2>1 DEF Serving
  <2>3. AnsweredInOrder' /\ GrantsFollowPolicy'
    BY <1>1, <1>12, AnswersStay DEF BridgeInv
  <2>4. QED BY <1>4, <1>11, <2>2, <2>3 DEF BridgeInv
<1>13. ASSUME session' = AfterFrame(f)
       PROVE  session'.ready => \E h \in 1..(n + 1) :
                                /\ sent'[h].kind = "hello"
                                /\ session'.granted = sent'[h].caps \cap Allowed
                                /\ \A k \in (h + 1)..(n + 1) : sent'[k].kind # "hello"
  <2>1. CASE f.kind = "hello"
    <3>1. session'.granted = f.caps \cap Allowed
      BY <1>13, <2>1 DEF AfterFrame, Granted
    <3>2. \A k \in ((n + 1) + 1)..(n + 1) : FALSE
      BY <1>5
    <3>3. n + 1 \in 1..(n + 1)
      BY <1>5
    <3>4. QED BY <1>1, <2>1, <3>1, <3>2, <3>3 DEF f
  <2>2. CASE f.kind # "hello"
    <3>1. session' = session
      BY <1>13, <2>2 DEF AfterFrame
    <3>2. QED BY <1>1, <1>5, <1>10, <2>2, <3>1 DEF f
  <2>3. QED BY <2>1, <2>2
<1>14. CASE /\ f.kind \in {"hello", "call", "other", "ping"} /\ ~peer
            /\ session' = AfterFrame(f) /\ UNCHANGED replies
  <2>1. \A i \in 1..Len(replies') : replies'[i].to \in 1..(n + 1)
    BY <1>5, <1>8, <1>14
  <2>2. Served(n + 1)'
    BY <1>1, <1>13, <1>14, <2>1 DEF Served
  <2>3. Serving'
    BY <1>4, <1>5, <2>2 DEF Serving
  <2>4. AnsweredInOrder' /\ GrantsFollowPolicy'
    BY <1>1, <1>14, AnswersStay DEF BridgeInv
  <2>5. QED BY <1>4, <1>11, <2>3, <2>4 DEF BridgeInv
<1>15. CASE /\ f.kind \in {"hello", "call", "other", "ping"} /\ pc' = "decode" /\ peer
            /\ session' = AfterFrame(f) /\ replies' = Append(replies, rp)
  <2>1. ReplyKind(f) \in {"welcome", "400", "pong", "401", "403", "404", "result"}
        /\ (ReplyKind(f) \in {"result", "404"}
              => f.kind = "call" /\ session.ready /\ f.cap \in session.granted)
    BY <1>15, ReplyFacts
  <2>2. rp \in Reply /\ rp.to = n + 1 /\ rp.kind = ReplyKind(f)
    BY <1>5, <2>1 DEF Reply
  <2> HIDE DEF rp, R
  <2>3. /\ Len(replies') = R + 1 /\ replies'[R + 1] = rp
        /\ \A i \in 1..R : replies'[i] = replies[i]
    BY <1>6, <1>15, <2>2 DEF R
  <2>4. Served(n + 1)'
    <3>1. ASSUME NEW i \in 1..(R + 1) PROVE replies'[i].to \in 1..(n + 1)
      <4>1. CASE i = R + 1
        BY <1>5, <2>2, <2>3, <4>1
      <4>2. CASE i # R + 1
        <5>1. i \in 1..R
          BY <1>6, <4>2
        <5>2. replies'[i].to \in 1..n
          BY <1>8, <2>3, <5>1
        <5>3. QED BY <1>5, <5>2
      <4>3. QED BY <4>1, <4>2
    <3>2. ASSUME NEW k \in 1..(n + 1)
          PROVE  sent'[k].kind = "text" \/ \E h \in 1..(R + 1) : replies'[h].to = k
      <4>1. CASE k = n + 1
        <5>1. replies'[R + 1].to = k /\ R + 1 \in 1..(R + 1)
          BY <1>6, <2>2, <2>3, <4>1
        <5>2. QED BY <5>1
      <4>2. CASE k # n + 1 /\ sent[k].kind # "text"
        <5>1. k \in 1..n
          BY <1>5, <4>2
        <5>2. PICK h \in 1..R : replies[h].to = k
          BY <1>9, <1>15, <4>2, <5>1
        <5>3. h \in 1..(R + 1) /\ replies'[h].to = k
          BY <1>6, <2>3, <5>2
        <5>4. QED BY <5>3
      <4>3. QED BY <1>1, <4>1, <4>2
    <3>3. QED BY <1>13, <1>15, <2>3, <3>1, <3>2 DEF Served
  <2>5. Serving'
    BY <1>4, <1>5, <2>4 DEF Serving
  <2>6. AnsweredInOrder'
    <3>1. ASSUME NEW i \in 1..(R + 1) PROVE \E j \in 1..Len(sent) : Answers(i, j)'
      <4>1. CASE i = R + 1
        <5>1. \A h \in 1..(i - 1) : h \in 1..R
          BY <1>6, <4>1
        <5>2. \A h \in 1..(i - 1) : replies'[h].to < n + 1
          <6> SUFFICES ASSUME NEW h \in 1..(i - 1) PROVE replies'[h].to < n + 1
            OBVIOUS
          <6>1. h \in 1..R
            BY <5>1
          <6>2. replies'[h] = replies[h] /\ replies[h].to \in 1..n
            BY ONLY <1>8, <2>3, <6>1 DEF R
          <6>3. QED BY ONLY <1>5, <6>2
        <5>3. (n + 1) - 1 = n /\ i - 1 = R
          BY <1>5, <1>6, <4>1
        <5>4. \A k \in 1..n : sent'[k].kind = "text" \/ \E h \in 1..R : replies'[h].to = k
          BY <1>1, <1>9, <1>15, <2>3
        <5>5. replies'[i].to = n + 1
          BY <2>2, <2>3, <4>1
        <5>6. sent'[n + 1].kind \in {"hello", "call", "other", "ping"}
          BY <1>1, <1>15 DEF f
        <5>7. Answers(i, n + 1)'
          BY <5>2, <5>3, <5>4, <5>5, <5>6 DEF Answers
        <5>8. QED BY <1>4, <5>7
      <4>2. CASE i # R + 1
        <5>1. i \in 1..Len(replies) /\ i \in 1..R /\ \A h \in 1..(i - 1) : h \in 1..R
          BY <1>6, <4>2 DEF R
        <5>2. PICK j \in 1..Len(sent) : Answers(i, j)
          BY <5>1, AnswersForm DEF BridgeInv
        <5>3. replies'[i] = replies[i] /\ \A h \in 1..(i - 1) : replies'[h] = replies[h]
          BY <2>3, <5>1
        <5>4. Answers(i, j)'
          BY <1>1, <5>2, <5>3 DEF Answers
        <5>5. QED BY <5>4
      <4>3. QED BY <4>1, <4>2
    <3>2. Len(sent') = Len(sent)
      BY <1>1
    <3>3. QED BY <2>3, <3>1, <3>2 DEF AnsweredInOrder, Answers
  <2>7. GrantsFollowPolicy'
    <3> SUFFICES ASSUME NEW i \in 1..(R + 1), replies'[i].kind \in {"result", "404"}
                 PROVE  \E h \in 1..(replies'[i].to - 1) :
                          /\ sent[h].kind = "hello"
                          /\ sent[replies'[i].to].cap \in sent[h].caps \cap Allowed
                          /\ \A k \in (h + 1)..(replies'[i].to - 1) : sent[k].kind # "hello"
      BY <1>1, <2>3 DEF GrantsFollowPolicy
    <3>1. CASE i = R + 1
      <4>1. replies'[i].to = n + 1 /\ (n + 1) - 1 = n
        BY <1>5, <2>2, <2>3, <3>1
      <4>2. session.ready /\ f.cap \in session.granted
        BY <2>1, <2>2, <2>3, <3>1
      <4>3. QED BY <1>10, <4>1, <4>2 DEF f
    <3>2. CASE i # R + 1
      <4>1. i \in 1..Len(replies) /\ replies'[i] = replies[i]
        BY <1>6, <2>3, <3>2 DEF R
      <4>2. QED BY <4>1 DEF BridgeInv, GrantsFollowPolicy
    <3>3. QED BY <3>1, <3>2
  <2>8. QED BY <1>4, <1>11, <2>5, <2>6, <2>7 DEF BridgeInv
<1>16. QED BY <1>7, <1>12, <1>14, <1>15

-----------------------------------------------------------------------------
(* Results.                                                                *)

\* The pending bytes are those of the frames not yet answered, from the first
\* cell of the next one on, in whatever pieces they were received
\* (handle_ws_client).
THEOREM Inductive == Spec => []BridgeInv
<1>1. Init => BridgeInv
  BY InitOK
<1>2. BridgeInv /\ [Next]_vars => BridgeInv'
  <2> SUFFICES ASSUME BridgeInv, [Next]_vars PROVE BridgeInv'
    OBVIOUS
  <2>1. CASE UNCHANGED vars
    <3>1. peer' = peer /\ UNCHANGED <<pc, wire, buffer, session, sent, replies, overflow>>
      BY <2>1 DEF vars
    <3>2. Serving'
      <4>1. PICK n \in Nat : Served(n) /\ \E start : Layout(start) /\ Streamed(start, n)
        BY DEF BridgeInv, Serving
      <4>2. PICK start : Layout(start) /\ Streamed(start, n)
        BY <4>1
      <4>3. Layout(start)' /\ Streamed(start, n)' /\ Served(n)'
        BY <3>1, <4>1, <4>2 DEF Layout, Streamed, Served, Pending
      <4>4. QED BY <4>3 DEF Serving
    <3>3. Types'
      BY <3>1 DEF BridgeInv, Types
    <3>4. AnsweredInOrder' /\ GrantsFollowPolicy' /\ NoSpuriousHangup'
      BY <3>1, AnswersStay DEF BridgeInv, NoSpuriousHangup
    <3>5. QED BY <3>2, <3>3, <3>4 DEF BridgeInv
  <2>2. CASE Next
    BY <2>2, AcceptStep, RecvStep, ControlStep, DecodeStep, DecodeEndStep, SendStep DEF Next
  <2>3. QED BY <2>1, <2>2
<1>3. QED BY <1>1, <1>2, PTL DEF Spec

\* Every reply answers the next frame that has one, for every way the stream is
\* cut into pieces (the receive buffer of handle_ws_client).
THEOREM RepliesInOrder == Spec => []AnsweredInOrder
<1>1. BridgeInv => AnsweredInOrder
  BY DEF BridgeInv
<1>2. QED BY <1>1, Inductive, PTL

\* A call that gets past the capability check has a capability the
\* configuration allows and the same client's last HELLO asked for
\* (aivm_remote_server_process_frame).
THEOREM GrantsAreRight == Spec => []GrantsFollowPolicy
<1>1. BridgeInv => GrantsFollowPolicy
  BY DEF BridgeInv
<1>2. QED BY <1>1, Inductive, PTL

\* The bridge hangs up on a full buffer only after an undecodable frame: its
\* buffer holds the largest frame the decoder accepts.
THEOREM BufferSuffices == Spec => []NoSpuriousHangup
<1>1. BridgeInv => NoSpuriousHangup
  BY DEF BridgeInv
<1>2. QED BY <1>1, Inductive, PTL
=============================================================================
