---------------------------- MODULE RemoteBridge ----------------------------
(***************************************************************************)
(* The remote capability channel: the session engine                       *)
(* (aivm_remote_session.c) behind the websocket bridge                     *)
(* (remote_ws_bridge.c), which serves one client after another.            *)
(*                                                                         *)
(* A client sends frames over a byte stream without waiting for replies;   *)
(* the bridge receives the stream in pieces of any size, cuts frames out   *)
(* of its buffer and answers each.  A frame is a record that occupies      *)
(* `size` cells of the stream; the stream is a sequence of cells <<f, k>>. *)
(* Left out: the byte layout of frames (a frame whose contents the codec   *)
(* refuses is of kind "malformed", one whose websocket header is refused   *)
(* of kind "undecodable"), the text of the HTTP upgrade, and clients that  *)
(* never complete it.                                                      *)
(*                                                                         *)
(* Replies go out by send_all on a blocking socket.  While a client that   *)
(* is there does not read and the socket's buffer is full, the bridge      *)
(* waits in send.  Once the client is gone a send may still be taken by    *)
(* the socket, may fail, or may raise SIGPIPE, which nothing catches.      *)
(***************************************************************************)
EXTENDS Integers, Sequences

CONSTANTS
    Caps,             \* capability names
    Allowed,          \* AIVM_REMOTE_CAPS
    BufferCapacity,   \* AIVM_WS_IO_BUFFER, in cells
    MaxFrameSize,     \* AIVM_WS_MAX_PAYLOAD and a header, in cells
    SendBuffer,       \* replies the socket holds for a client that does not read
    MaxFrames,        \* bound on the frames of one connection
    MaxConnections    \* bound on the connections

ASSUME BridgeAssumption ==
    /\ Allowed \subseteq Caps /\ "cap.remote" \in Caps
    /\ MaxFrameSize \in Nat \ {0} /\ BufferCapacity \in Nat
    /\ MaxFrameSize <= BufferCapacity
    /\ SendBuffer \in Nat \ {0}
    /\ MaxFrames \in Nat /\ MaxConnections \in Nat

VARIABLES
    conn,             \* number of the current or last connection
    pc,               \* the bridge: "accept", "recv", "decode" or "dead"
    peer,             \* the client has not hung up, the connection is not broken
    wire,             \* cells sent and not yet received
    buffer,           \* recv_buffer[0 .. recv_used)
    session,          \* AivmRemoteServerSession
    sent,             \* ghost: the frames of this connection
    replies,          \* what a client that was there has been sent
    unread,           \* number of replies the client has not read
    overflow          \* ghost: the bridge hung up on a full buffer

vars == <<conn, pc, peer, wire, buffer, session, sent, replies, unread, overflow>>

NoSession == [ready |-> FALSE, granted |-> {}]

\* What a client may send: id is its place in the connection.
Frames(id) ==
    [id : {id}, size : 1..MaxFrameSize, kind : {"hello"}, caps : SUBSET Caps]
    \cup [id : {id}, size : 1..MaxFrameSize, kind : {"call"}, cap : Caps,
          op : {"echoInt", "none"}]
    \cup [id : {id}, size : 1..MaxFrameSize,
          kind : {"other", "malformed", "ping", "text", "close", "undecodable"}]

Cells(f) == [k \in 1..f.size |-> <<f, k>>]

-----------------------------------------------------------------------------
(* aivm_remote_server_process_frame: the session afterwards and the reply. *)

Granted(caps) == caps \cap Allowed

AfterFrame(f) ==
    IF f.kind = "hello" THEN [ready |-> TRUE, granted |-> Granted(f.caps)]
    ELSE session

ReplyKind(f) ==
    CASE f.kind = "hello" -> "welcome"
      [] f.kind = "other" -> "400"
      [] f.kind = "ping" -> "pong"
      [] f.kind = "call" /\ ~session.ready -> "401"
      [] f.kind = "call" /\ session.ready /\ f.cap \notin session.granted -> "403"
      [] f.kind = "call" /\ session.ready /\ f.cap \in session.granted ->
            IF f.cap = "cap.remote" /\ f.op = "echoInt" THEN "result" ELSE "404"

-----------------------------------------------------------------------------
(* The bridge.                                                             *)

\* Mutant: the session of the client before stays.
NewSessionKept == session

\* aivm_remote_server_session_init, per client.
NewSession == NoSession

\* A client is accepted and its upgrade answered.
Accept ==
    /\ pc = "accept" /\ conn < MaxConnections
    /\ conn' = conn + 1 /\ pc' = "recv" /\ peer' = TRUE
    /\ wire' = <<>> /\ buffer' = <<>>
    /\ session' = NewSession
    /\ sent' = <<>> /\ replies' = <<>> /\ unread' = 0 /\ overflow' = FALSE

\* recv: some of what has arrived, as much as fits.
Recv ==
    /\ pc = "recv" /\ wire # <<>>
    /\ \E n \in 1..Len(wire) :
          /\ Len(buffer) + n <= BufferCapacity
          /\ buffer' = buffer \o SubSeq(wire, 1, n)
          /\ wire' = SubSeq(wire, n + 1, Len(wire))
    /\ pc' = "decode"
    /\ UNCHANGED <<conn, peer, session, sent, replies, unread, overflow>>

\* recv returns 0 once the client has hung up and everything has been read, or
\* -1 if the connection was reset, with what was on its way lost.
RecvEnd ==
    /\ pc = "recv" /\ ~peer
    /\ pc' = "accept"
    /\ UNCHANGED <<conn, peer, wire, buffer, session, sent, replies, unread, overflow>>

\* aivm_ws_decode_client_frame: a whole frame at the front of the buffer.
Decodable == /\ buffer # <<>>
             /\ LET f == Head(buffer)[1]
                IN f.kind # "undecodable" /\ Len(buffer) >= f.size

\* Mutant: the bytes behind the frame are dropped with it.
ConsumedAll(f) == <<>>

\* The memmove that takes a frame out of the buffer.
Consumed(f) == SubSeq(buffer, f.size + 1, Len(buffer))

\* Mutant: one frame is taken out of the buffer for every recv.
AfterFramePcOnce == "recv"

\* The inner loop goes on with the next frame.
AfterFramePc == "decode"

\* The bridge hangs up when the reply to a binary frame cannot be sent; the
\* result of sending a pong is not looked at.
AfterFailedSend(f) == IF f.kind = "ping" THEN AfterFramePc ELSE "accept"

\* send_all of the reply to f.  To a client that is there it blocks until the
\* reply fits.
SendReply(f) ==
    \/ /\ peer /\ unread < SendBuffer
       /\ replies' = Append(replies, [to |-> f.id, kind |-> ReplyKind(f)])
       /\ unread' = unread + 1
       /\ pc' = AfterFramePc
    \/ /\ ~peer
       /\ pc' \in {AfterFramePc, AfterFailedSend(f), "dead"}
       /\ UNCHANGED <<replies, unread>>

\* send_all of the answer to a close frame, whose result is not looked at.
SayGoodbye ==
    \/ peer /\ unread < SendBuffer /\ pc' = "accept"
    \/ ~peer /\ pc' \in {"accept", "dead"}

Decode ==
    /\ pc = "decode" /\ Decodable
    /\ LET f == Head(buffer)[1]
       IN /\ buffer' = Consumed(f)
          /\ \/ /\ f.kind = "close" /\ SayGoodbye
                /\ UNCHANGED <<session, replies, unread>>
             \/ /\ f.kind = "malformed" /\ pc' = "accept"
                /\ UNCHANGED <<session, replies, unread>>
             \/ /\ f.kind = "text" /\ pc' = AfterFramePc
                /\ UNCHANGED <<session, replies, unread>>
             \/ /\ f.kind \in {"hello", "call", "other", "ping"}
                /\ session' = AfterFrame(f)
                /\ SendReply(f)
    /\ UNCHANGED <<conn, peer, wire, sent, overflow>>

\* Mutant: the limit is the payload's, with the header not counted.
FullPayload == Len(buffer) >= MaxFrameSize - 1

Full == Len(buffer) = BufferCapacity

\* No more frames: hang up if there is no room for the rest of the next one.
DecodeEnd ==
    /\ pc = "decode" /\ ~Decodable
    /\ pc' = IF Full THEN "accept" ELSE "recv"
    /\ overflow' = Full
    /\ UNCHANGED <<conn, peer, wire, buffer, session, sent, replies, unread>>

-----------------------------------------------------------------------------
(* The client.                                                             *)

Connected == conn > 0 /\ pc # "accept" /\ peer

Send == /\ Connected /\ Len(sent) < MaxFrames
        /\ \E f \in Frames(Len(sent) + 1) :
              /\ sent' = Append(sent, f)
              /\ wire' = wire \o Cells(f)
        /\ UNCHANGED <<conn, pc, peer, buffer, session, replies, unread, overflow>>

Read == /\ Connected /\ unread > 0
        /\ unread' = unread - 1
        /\ UNCHANGED <<conn, pc, peer, wire, buffer, session, sent, replies, overflow>>

\* The client closes its socket, or the connection breaks.
HangUp == /\ Connected
          /\ peer' = FALSE
          /\ UNCHANGED <<conn, pc, wire, buffer, session, sent, replies, unread, overflow>>

Init ==
    /\ conn = 0 /\ pc = "accept" /\ peer = FALSE
    /\ wire = <<>> /\ buffer = <<>>
    /\ session = NoSession
    /\ sent = <<>> /\ replies = <<>> /\ unread = 0 /\ overflow = FALSE

Next == Accept \/ Recv \/ RecvEnd \/ Decode \/ DecodeEnd \/ Send \/ Read \/ HangUp

Spec == Init /\ [][Next]_vars

\* The bridge keeps running where it can: Decode is not enabled while send
\* blocks, and nothing is once SIGPIPE has ended the process.  Clients need not
\* send, read or hang up.
Fairness == WF_vars(Recv \/ RecvEnd \/ Decode \/ DecodeEnd)

FairSpec == Spec /\ Fairness

-----------------------------------------------------------------------------
(* Properties.                                                             *)

\* Replies answer the frames of the connection one by one and in their order,
\* however the stream is cut into pieces: none is skipped or answered twice
\* (the receive buffer of handle_ws_client).
AnsweredInOrder ==
    \A i \in 1..Len(replies) :
        \E j \in 1..Len(sent) :
            /\ replies[i].to = j
            /\ sent[j].kind \in {"hello", "call", "other", "ping"}
            /\ \A k \in 1..(j - 1) :
                  sent[k].kind = "text" \/ \E h \in 1..(i - 1) : replies[h].to = k
            /\ \A h \in 1..(i - 1) : replies[h].to < j

\* A call gets past the capability check only with a capability that the
\* configuration allows and that the same client asked for in the last HELLO
\* before the call; grants of another connection do not count.
GrantsFollowPolicy ==
    \A i \in 1..Len(replies) :
        replies[i].kind \in {"result", "404"} =>
            \E h \in 1..(replies[i].to - 1) :
                /\ sent[h].kind = "hello"
                /\ sent[replies[i].to].cap \in sent[h].caps \cap Allowed
                /\ \A k \in (h + 1)..(replies[i].to - 1) : sent[k].kind # "hello"

\* A client that sends only frames the websocket decoder accepts is never cut
\* off because the receive buffer is full.
NoSpuriousHangup ==
    overflow => \E i \in 1..Len(sent) : sent[i].kind = "undecodable"

\* Every frame that the bridge answers at all and that no undecodable one
\* precedes has its reply.
CaughtUp ==
    \A j \in 1..Len(sent) :
        /\ sent[j].kind \in {"hello", "call", "other", "ping"}
        /\ \A k \in 1..j : sent[k].kind # "undecodable"
        => \E i \in 1..Len(replies) : replies[i].to = j

\* The client keeps reading its replies, or goes away.
ClientReads == []<>(~peer \/ unread < SendBuffer)

\* However the stream is cut, the bridge catches up with a client that reads its
\* replies again and again, or the connection ends: a frame that arrived in one
\* piece with another is not left in the buffer until more bytes come (the inner
\* loop of handle_ws_client).  A client that does not read can hold the bridge
\* in send for ever, and with it every other client.
EveryFrameAnswered == ClientReads => []<>(pc \in {"accept", "dead"} \/ CaughtUp)
=============================================================================
