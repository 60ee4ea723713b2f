---------------------------- MODULE NetAsyncProofs ----------------------------
(***************************************************************************)
(* Proofs about NetAsync, for every table size, descriptor limit and write *)
(* length, and any number of connect threads.                              *)
(***************************************************************************)
EXTENDS NetAsync, ProofLemmas, TLAPS

\* A connect thread between its start and its exit: what it holds, and that
\* it works for the operation allocated with its generation.
WorkerOK(g, w) ==
  /\ w.pc # "none" => w.op = g /\ g < nextGeneration
  /\ w.pc = "none" => w = NoWorker
  /\ w.pc \in {"starting", "exited"} => w.sock = Invalid
  /\ w.pc = "connecting" => w.sock \in Fds
  /\ w.pc # "publishing" => w.todo = {}
  /\ w.pc = "publishing" => w.todo # {} /\ ("result" \notin w.todo => w.sock = Invalid)

WorkersOK == \A g \in Generations : WorkerOK(g, workers[g])

\* What a worker has left in the record: the result, once it has been written.
Published(op) ==
  /\ op.outcome # 0
  /\ op.outcome = Success => op.sock \in Fds
  /\ op.outcome = Failure => op.sock = Invalid

Unpublished(op) == op.outcome = 0 /\ op.sock = Invalid

\* How far an operation and its worker are, and who has seen what.
Handshake(op, w) ==
  /\ w.pc = "none" => ~op.done /\ ~op.joined /\ Unpublished(op)
  /\ w.pc # "none" => op.kind = "connect"
  /\ w.pc \in {"starting", "connecting", "finalize"} =>
        ~op.done /\ ~op.joined /\ Unpublished(op)
  /\ w.pc = "publishing" =>
        /\ ~op.joined
        /\ op.done <=> "done" \notin w.todo
        /\ IF "result" \in w.todo THEN Unpublished(op) ELSE Published(op)
  /\ w.pc = "exited" =>
        \/ ~op.done /\ ~op.joined /\ Unpublished(op)
        \/ op.done /\ ~op.joined /\ Published(op)
        \/ op.joined /\ op.sock = Invalid

\* The status of an operation in use, and the bytes of a write.
StatusOK(op, w) ==
  /\ op.canceled <=> op.status = Canceled
  /\ op.status = Pending => op.kind # "none"
  /\ op.kind = "connect" /\ op.status \in {Success, Failure} =>
        op.joined \/ w.pc = "none"
  /\ op.kind = "write" /\ op.status = Pending => op.off = op.sent /\ op.off <= op.len
  /\ op.kind = "write" /\ op.status = Success => op.result = op.sent

OpOK(i, op, w) ==
  /\ op.used <=> i < nextGeneration
  /\ op.used => op.gen = i /\ Handshake(op, w) /\ StatusOK(op, w)
  /\ ~op.used => op = ZeroOp

OpsOK == phase # "ended" => \A i \in OpIds : OpOK(i, ops[i], workers[i])

MainOK == main # 0 => phase = "running" /\ ops[main].used /\ ops[main].status = Pending

PhaseOK ==
  /\ phase = "boot" => nextGeneration = 1 /\ \A h \in HandleIds : handles[h].kind = "none"
  /\ phase = "ended" => \A i \in OpIds : ops[i].kind = "none"

\* The descriptor each owner holds.
HoldingOf(hs, os, ws) ==
  [o \in Owners |->
     IF o[1] = "worker" THEN ws[o[2]].sock
     ELSE IF o[1] = "op" THEN (IF os[o[2]].used THEN os[o[2]].sock ELSE Invalid)
     ELSE IF hs[o[2]].kind # "none" THEN hs[o[2]].sock ELSE Invalid]

\* Descriptors are held once, and the open sockets are the held descriptors.
HeldOnce(held, table) ==
  \A f \in Fds :
    /\ \A o, p \in Owners : held[o] = f /\ held[p] = f => o = p
    /\ table[f] = "socket" <=> \E o \in Owners : held[o] = f

OwnOK == phase # "ended" => HeldOnce(HoldingOf(handles, ops, workers), fds)

NetInv == TypeOK /\ WorkersOK /\ OpsOK /\ MainOK /\ PhaseOK /\ OwnOK

-----------------------------------------------------------------------------
(* The constants, the records and the choice of the lowest free slot.      *)

LEMMA Capacities ==
  /\ HandleCapacity \in Nat /\ HandleCapacity > 0
  /\ AsyncCapacity \in Nat /\ AsyncCapacity > 0
  /\ MaxFd \in Nat /\ MaxBytes \in Nat
BY NetCapacityAssumption

HandleRec == [kind : {"none", "listener", "stream", "udp"}, sock : Fds \cup {Invalid}]

OpRec == [used : BOOLEAN, kind : {"none", "connect", "read", "write"},
          status : {Pending, Success, Failure, Canceled},
          handle : 0..HandleCapacity, gen : 0..AsyncCapacity,
          done : BOOLEAN, joined : BOOLEAN,
          outcome : {0, Success, Failure}, canceled : BOOLEAN,
          sock : Fds \cup {Invalid}, len : 0..MaxBytes,
          off : 0..MaxBytes, result : Nat, sent : 0..MaxBytes]

WorkerRec == [pc : {"none", "starting", "connecting", "finalize", "publishing", "exited"},
              op : 0..AsyncCapacity, sock : Fds \cup {Invalid},
              todo : SUBSET {"result", "done"}]

\* TypeOK by its parts.
LEMMA TypeParts ==
  TypeOK <=> /\ handles \in [HandleIds -> HandleRec]
             /\ ops \in [OpIds -> OpRec]
             /\ nextGeneration \in 1..(AsyncCapacity + 1)
             /\ workers \in [Generations -> WorkerRec]
             /\ fds \in [Fds -> {"closed", "stdin", "socket"}]
             /\ main \in 0..AsyncCapacity
             /\ phase \in {"boot", "running", "ended"}
BY DEF TypeOK, HandleRec, OpRec, WorkerRec

LEMMA Records ==
  ZeroOp \in OpRec /\ NoHandle \in HandleRec /\ NoWorker \in WorkerRec
<1>1. 0 \in 0..HandleCapacity /\ 0 \in 0..AsyncCapacity /\ 0 \in 0..MaxBytes /\ 0 \in Fds
  BY Capacities DEF Fds
<1>2. QED BY <1>1 DEF ZeroOp, NoHandle, NoWorker, OpRec, HandleRec, WorkerRec, Pending

\* The search for a free slot finds the least one.
LEMMA LowestIsLeast ==
  ASSUME NEW S, S \subseteq Nat, S # {}
  PROVE  Lowest(S) \in S /\ \A y \in S : Lowest(S) <= y
BY Least DEF Lowest

LEMMA FreeFdExists ==
  ASSUME FreeFds # {}
  PROVE  Lowest(FreeFds) \in Fds /\ fds[Lowest(FreeFds)] = "closed"
BY LowestIsLeast, Capacities DEF FreeFds, Fds

LEMMA UnusedHandleExists ==
  ASSUME NEW hs, UnusedHandles(hs) # {}
  PROVE  Lowest(UnusedHandles(hs)) \in HandleIds /\ hs[Lowest(UnusedHandles(hs))].kind = "none"
BY LowestIsLeast, Capacities DEF UnusedHandles, HandleIds

\* Records are used in the order of their generations, so that a record, its
\* generation and its worker have one number.
LEMMA UnusedIsNext ==
  ASSUME TypeOK, OpsOK, phase # "ended", UnusedOps # {}
  PROVE  /\ Lowest(UnusedOps) = nextGeneration
         /\ nextGeneration \in OpIds /\ nextGeneration \in Generations
         /\ ops[nextGeneration] = ZeroOp
<1> DEFINE i == Lowest(UnusedOps)
<1>1. UnusedOps \subseteq Nat
  BY Capacities DEF UnusedOps, OpIds
<1>2. i \in UnusedOps /\ \A y \in UnusedOps : i <= y
  BY <1>1, LowestIsLeast
<1>3. i \in OpIds /\ ~ops[i].used /\ OpOK(i, ops[i], workers[i])
  BY <1>2 DEF UnusedOps, OpsOK
<1>4. nextGeneration \in Nat /\ nextGeneration >= 1 /\ i \in Nat /\ AsyncCapacity \in Nat
  BY <1>3, Capacities DEF TypeOK, OpIds
<1>5. nextGeneration <= i
  BY <1>3, <1>4 DEF OpOK
<1>6. nextGeneration \in OpIds /\ nextGeneration \in Generations
  BY <1>3, <1>4, <1>5 DEF OpIds, Generations
<1>7. OpOK(nextGeneration, ops[nextGeneration], workers[nextGeneration])
  BY <1>6 DEF OpsOK
<1>8. ~ops[nextGeneration].used /\ ops[nextGeneration] = ZeroOp
  BY <1>4, <1>7 DEF OpOK
<1>9. i <= nextGeneration
  BY <1>2, <1>6, <1>8 DEF UnusedOps
<1>10. i = nextGeneration
  BY <1>4, <1>5, <1>9
<1>11. QED BY <1>6, <1>8, <1>10

-----------------------------------------------------------------------------
(* Descriptors: an owner gets a free one, gives one up, or hands one over. *)

LEMMA HeldSame ==
  ASSUME NEW held, NEW held2, NEW table, HeldOnce(held, table),
         \A o \in Owners : held2[o] = held[o]
  PROVE  HeldOnce(held2, table)
BY DEF HeldOnce

LEMMA HeldAcquire ==
  ASSUME NEW held, NEW held2, NEW table \in [Fds -> {"closed", "stdin", "socket"}],
         HeldOnce(held, table),
         NEW q \in Owners, NEW f \in Fds, table[f] # "socket", held[q] = Invalid,
         \A o \in Owners : held2[o] = IF o = q THEN f ELSE held[o],
         NEW table2, table2 = [table EXCEPT ![f] = "socket"]
  PROVE  HeldOnce(held2, table2)
<1>1. \A o \in Owners : held[o] # f
  BY DEF HeldOnce
<1>2. Invalid \notin Fds
  BY Capacities DEF Invalid, Fds
<1>3. SUFFICES ASSUME NEW g \in Fds
               PROVE  /\ \A o, p \in Owners : held2[o] = g /\ held2[p] = g => o = p
                      /\ table2[g] = "socket"
                            <=> \E o \in Owners : held2[o] = g
  BY DEF HeldOnce
<1>4. CASE g = f
  BY <1>1, <1>4
<1>5. CASE g # f
  BY <1>2, <1>5 DEF HeldOnce
<1>6. QED BY <1>4, <1>5

LEMMA HeldRelease ==
  ASSUME NEW held, NEW held2, NEW table \in [Fds -> {"closed", "stdin", "socket"}],
         HeldOnce(held, table),
         NEW q \in Owners, held[q] \in Fds \cup {Invalid},
         \A o \in Owners : held2[o] = IF o = q THEN Invalid ELSE held[o]
  PROVE  HeldOnce(held2, Closed(table, held[q]))
<1>1. Invalid \notin Fds
  BY Capacities DEF Invalid, Fds
<1>2. SUFFICES ASSUME NEW g \in Fds
               PROVE  /\ \A o, p \in Owners : held2[o] = g /\ held2[p] = g => o = p
                      /\ Closed(table, held[q])[g] = "socket"
                            <=> \E o \in Owners : held2[o] = g
  BY DEF HeldOnce
<1>3. CASE held[q] = g
  BY <1>1, <1>3 DEF HeldOnce, Closed
<1>4. CASE held[q] # g
  <2>1. Closed(table, held[q])[g] = table[g]
    BY <1>4 DEF Closed
  <2>2. QED BY <1>1, <1>4, <2>1 DEF HeldOnce
<1>5. QED BY <1>3, <1>4

LEMMA HeldMove ==
  ASSUME NEW held, NEW held2, NEW table, HeldOnce(held, table),
         NEW q \in Owners, NEW r \in Owners, q # r, held[r] = Invalid,
         \A o \in Owners : held2[o] = IF o = q THEN Invalid
                                      ELSE IF o = r THEN held[q] ELSE held[o]
  PROVE  HeldOnce(held2, table)
<1>1. Invalid \notin Fds
  BY Capacities DEF Invalid, Fds
<1>2. SUFFICES ASSUME NEW g \in Fds
               PROVE  /\ \A o, p \in Owners : held2[o] = g /\ held2[p] = g => o = p
                      /\ table[g] = "socket" <=> \E o \in Owners : held2[o] = g
  BY DEF HeldOnce
<1>3. CASE held[q] = g
  BY <1>1, <1>3 DEF HeldOnce
<1>4. CASE held[q] # g
  BY <1>1, <1>4 DEF HeldOnce
<1>5. QED BY <1>3, <1>4

\* One owner's descriptor before and after: kept, gained or closed.
Gained(table, table2, x, y) ==
  \/ table2 = table /\ y = x
  \/ x = Invalid /\ y \in Fds /\ table[y] = "closed" /\ table2 = [table EXCEPT ![y] = "socket"]
  \/ y = Invalid /\ table2 = Closed(table, x)

LEMMA HeldChange ==
  ASSUME NEW held, NEW held2, NEW table \in [Fds -> {"closed", "stdin", "socket"}],
         HeldOnce(held, table), NEW q \in Owners, held[q] \in Fds \cup {Invalid},
         NEW y, \A o \in Owners : held2[o] = IF o = q THEN y ELSE held[o],
         NEW table2, Gained(table, table2, held[q], y)
  PROVE  HeldOnce(held2, table2)
<1>1. CASE table2 = table /\ y = held[q]
  BY <1>1, HeldSame
<1>2. CASE /\ held[q] = Invalid /\ y \in Fds /\ table[y] = "closed"
           /\ table2 = [table EXCEPT ![y] = "socket"]
  BY <1>2, HeldAcquire
<1>3. CASE y = Invalid /\ table2 = Closed(table, held[q])
  BY <1>3, HeldRelease
<1>4. QED BY <1>1, <1>2, <1>3 DEF Gained

HandleOwner(h) == <<"handle", h>>
OpOwner(i) == <<"op", i>>
WorkerOwner(g) == <<"worker", g>>

\* The three kinds of owner, and what each holds.
LEMMA OwnersAre ==
  /\ \A h \in HandleIds : HandleOwner(h) \in Owners
  /\ \A i \in OpIds : OpOwner(i) \in Owners
  /\ \A g \in Generations : WorkerOwner(g) \in Owners
  /\ \A o \in Owners : \/ \E h \in HandleIds : o = HandleOwner(h)
                       \/ \E i \in OpIds : o = OpOwner(i)
                       \/ \E g \in Generations : o = WorkerOwner(g)
  /\ \A a, b : /\ HandleOwner(a) = HandleOwner(b) <=> a = b
               /\ OpOwner(a) = OpOwner(b) <=> a = b
               /\ WorkerOwner(a) = WorkerOwner(b) <=> a = b
               /\ HandleOwner(a) # OpOwner(b)
               /\ HandleOwner(a) # WorkerOwner(b)
               /\ OpOwner(a) # WorkerOwner(b)
BY DEF Owners, HandleOwner, OpOwner, WorkerOwner

LEMMA HoldingIs ==
  ASSUME NEW hs, NEW os, NEW ws
  PROVE  /\ \A h \in HandleIds : HoldingOf(hs, os, ws)[HandleOwner(h)]
                = IF hs[h].kind # "none" THEN hs[h].sock ELSE Invalid
         /\ \A i \in OpIds : HoldingOf(hs, os, ws)[OpOwner(i)]
                = IF os[i].used THEN os[i].sock ELSE Invalid
         /\ \A g \in Generations : HoldingOf(hs, os, ws)[WorkerOwner(g)] = ws[g].sock
BY OwnersAre DEF HoldingOf, HandleOwner, OpOwner, WorkerOwner

\* The tables after a step that changes what one owner holds, or two.
LEMMA HoldingSame ==
  ASSUME NEW hs, NEW os, NEW ws, NEW hs2, NEW os2, NEW ws2,
         \A h \in HandleIds : hs2[h] = hs[h],
         \A i \in OpIds : (os2[i].used <=> os[i].used) /\ os2[i].sock = os[i].sock,
         \A g \in Generations : ws2[g].sock = ws[g].sock
  PROVE  \A o \in Owners : HoldingOf(hs2, os2, ws2)[o] = HoldingOf(hs, os, ws)[o]
BY OwnersAre, HoldingIs

-----------------------------------------------------------------------------
(* What an attempt at an operation leaves.                                 *)

OpGood(i, op, w) == /\ op \in OpRec /\ op.used /\ op.gen = i
                    /\ Handshake(op, w) /\ StatusOK(op, w)

\* The record keeps its descriptor, closes it, or hands it to a new handle.
Effect(op, s) ==
  \/ s.handles = handles /\ s.fds = fds /\ s.op.sock = op.sock
  \/ s.handles = handles /\ s.fds = Closed(fds, op.sock) /\ s.op.sock = Invalid
  \/ /\ s.fds = fds /\ s.op.sock = Invalid
     /\ \E h \in UnusedHandles(handles) :
           s.handles = [handles EXCEPT ![h] = [kind |-> "stream", sock |-> op.sock]]

\* The fields that completing an operation leaves alone.
Same(op, r) ==
  /\ r.used = op.used /\ r.kind = op.kind /\ r.gen = op.gen /\ r.done = op.done
  /\ r.joined = op.joined /\ r.outcome = op.outcome /\ r.canceled = op.canceled
  /\ r.sock = op.sock /\ r.sent = op.sent

LEMMA SealedOp ==
  ASSUME NEW op \in OpRec
  PROVE  /\ ReleasePendingBytes(op) \in OpRec /\ Same(op, ReleasePendingBytes(op))
         /\ ReleasePendingBytes(op).status = op.status
         /\ ReleasePendingBytes(op).result = op.result
<1> DEFINE p == [op EXCEPT !.len = 0]
           q == [p EXCEPT !.off = 0]
<1>1. 0 \in 0..MaxBytes
  BY Capacities
<1>2. p \in OpRec /\ Same(op, p) /\ p.status = op.status /\ p.result = op.result
  BY <1>1 DEF OpRec, Same
<1> HIDE DEF p
<1>3. q \in OpRec /\ Same(p, q) /\ q.status = p.status /\ q.result = p.result
  BY <1>1, <1>2 DEF OpRec, Same
<1>4. ReleasePendingBytes(op) = q
  BY DEF ReleasePendingBytes, p
<1>5. QED BY <1>2, <1>3, <1>4 DEF Same

LEMMA CompletedOp ==
  ASSUME NEW op \in OpRec, NEW st \in {Pending, Success, Failure, Canceled}, NEW v \in Nat
  PROVE  LET r == [ReleasePendingBytes(op) EXCEPT !.status = st, !.result = v]
         IN r \in OpRec /\ Same(op, r) /\ r.status = st /\ r.result = v
<1> DEFINE z == ReleasePendingBytes(op)
           p == [z EXCEPT !.status = st]
           q == [p EXCEPT !.result = v]
<1>1. z \in OpRec /\ Same(op, z)
  BY SealedOp
<1> HIDE DEF z
<1>2. p \in OpRec /\ Same(z, p) /\ p.status = st
  BY <1>1 DEF OpRec, Same
<1> HIDE DEF p
<1>3. q \in OpRec /\ Same(p, q) /\ q.status = p.status /\ q.result = v
  BY <1>2 DEF OpRec, Same
<1>4. [z EXCEPT !.status = st, !.result = v] = q
  BY DEF p
<1>5. QED BY <1>1, <1>2, <1>3, <1>4 DEF Same, z

\* SetSuccess and SetFailure complete the record and touch nothing else.
LEMMA Completed ==
  ASSUME NEW s, s.op \in OpRec, NEW v \in Nat
  PROVE  /\ SetSuccess(s, v).op \in OpRec /\ Same(s.op, SetSuccess(s, v).op)
         /\ SetSuccess(s, v).op.status = Success /\ SetSuccess(s, v).op.result = v
         /\ SetSuccess(s, v).handles = s.handles /\ SetSuccess(s, v).fds = s.fds
         /\ SetFailure(s).op \in OpRec /\ Same(s.op, SetFailure(s).op)
         /\ SetFailure(s).op.status = Failure
         /\ SetFailure(s).handles = s.handles /\ SetFailure(s).fds = s.fds
<1> DEFINE a == [ReleasePendingBytes(s.op) EXCEPT !.status = Success, !.result = v]
           b == [ReleasePendingBytes(s.op) EXCEPT !.status = Failure, !.result = 0]
<1>1. a \in OpRec /\ Same(s.op, a) /\ a.status = Success /\ a.result = v
  BY CompletedOp
<1>2. b \in OpRec /\ Same(s.op, b) /\ b.status = Failure
  BY CompletedOp
<1>3. SetSuccess(s, v) = [s EXCEPT !.op = a] /\ SetFailure(s) = [s EXCEPT !.op = b]
  BY DEF SetSuccess, SetFailure
<1> HIDE DEF a, b
<1>4. QED BY <1>1, <1>2, <1>3

\* Joining a worker settles its operation: what the worker published is closed
\* or becomes a handle, and only a pending operation changes its status.
LEMMA FinalizeOK ==
  ASSUME TypeOK, NEW s, s.op \in OpRec, s.handles = handles, s.fds = fds,
         NEW w, Handshake(s.op, w), ToFinalize(s.op), w.pc = "exited"
  PROVE  LET r == FinalizeWorker(s)
         IN /\ r.op \in OpRec /\ Effect(s.op, r)
            /\ r.op.joined /\ r.op.sock = Invalid
            /\ r.op.used = s.op.used /\ r.op.gen = s.op.gen /\ r.op.kind = s.op.kind
            /\ r.op.canceled = s.op.canceled
            /\ IF s.op.status = Canceled \/ s.op.canceled
               THEN r.op.status = s.op.status /\ r.op.result = s.op.result
               ELSE r.op.status \in {Success, Failure}
<1> DEFINE op == s.op
           jop == [op EXCEPT !.joined = TRUE]
           j == [s EXCEPT !.op.joined = TRUE]
           r == FinalizeWorker(s)
<1>1. /\ jop \in OpRec /\ jop.joined /\ jop.used = op.used /\ jop.gen = op.gen
      /\ jop.kind = op.kind /\ jop.canceled = op.canceled /\ jop.status = op.status
      /\ jop.result = op.result /\ jop.sock = op.sock /\ jop.outcome = op.outcome
  BY DEF OpRec
<1>2. j.op = jop /\ j.handles = handles /\ j.fds = fds
  OBVIOUS
<1>3. Published(op) /\ op.kind = "connect"
  BY DEF Handshake, ToFinalize
<1>4. r = IF j.op.status = Canceled \/ j.op.canceled THEN CloseWorkerSocket(j)
          ELSE IF j.op.outcome # Success THEN SetFailure(j)
          ELSE IF j.fds[j.op.sock] = "closed" \/ UnusedHandles(j.handles) = {}
               THEN SetFailure(CloseWorkerSocket(j))
          ELSE HandOver(j)
  BY DEF FinalizeWorker
<1> DEFINE cop == [jop EXCEPT !.sock = Invalid]
           c == CloseWorkerSocket(j)
<1>5. /\ cop \in OpRec /\ cop.sock = Invalid /\ cop.joined /\ cop.used = op.used
      /\ cop.gen = op.gen /\ cop.kind = op.kind /\ cop.canceled = op.canceled
      /\ cop.status = op.status /\ cop.result = op.result
  BY <1>1 DEF OpRec
<1> HIDE DEF jop, j
<1>6. c.op = cop /\ c.handles = handles /\ c.fds = Closed(fds, op.sock)
  BY <1>1, <1>2 DEF CloseWorkerSocket
<1> HIDE DEF cop, c, r, op
<1>7. CASE j.op.status = Canceled \/ j.op.canceled
  <2>1. r = c
    BY <1>4, <1>7 DEF c
  <2>2. QED BY <1>1, <1>2, <1>5, <1>6, <1>7, <2>1 DEF Effect, r, op
<1>8. CASE ~(j.op.status = Canceled \/ j.op.canceled) /\ j.op.outcome # Success
  <2>1. r = SetFailure(j)
    BY <1>4, <1>8
  <2>2. op.sock = Invalid
    BY <1>1, <1>2, <1>3, <1>8 DEF Published, OpRec, Success, Failure
  <2>3. /\ r.op \in OpRec /\ Same(j.op, r.op) /\ r.op.status = Failure
        /\ r.handles = handles /\ r.fds = fds
    BY <1>1, <1>2, <2>1, Completed
  <2>4. QED BY <1>1, <1>2, <1>8, <2>2, <2>3 DEF Effect, Same, r, op
<1>9. CASE /\ ~(j.op.status = Canceled \/ j.op.canceled) /\ j.op.outcome = Success
           /\ j.fds[j.op.sock] = "closed" \/ UnusedHandles(j.handles) = {}
  <2>1. r = SetFailure(c)
    BY <1>4, <1>9 DEF c
  <2>2. /\ r.op \in OpRec /\ Same(c.op, r.op) /\ r.op.status = Failure
        /\ r.handles = handles /\ r.fds = Closed(fds, op.sock)
    BY <1>5, <1>6, <2>1, Completed
  <2>3. QED BY <1>1, <1>2, <1>5, <1>6, <1>9, <2>2 DEF Effect, Same, r, op
<1>10. CASE /\ ~(j.op.status = Canceled \/ j.op.canceled) /\ j.op.outcome = Success
            /\ ~(j.fds[j.op.sock] = "closed" \/ UnusedHandles(j.handles) = {})
  <2> DEFINE h == Lowest(UnusedHandles(j.handles))
             hop == [cop EXCEPT !.handle = h]
             m == [j EXCEPT !.handles[h] = [kind |-> "stream", sock |-> j.op.sock],
                            !.op.sock = Invalid, !.op.handle = h]
  <2>1. r = SetSuccess(m, h)
    BY <1>4, <1>10 DEF HandOver
  <2>2. h \in HandleIds /\ h \in UnusedHandles(handles) /\ h \in 0..HandleCapacity /\ h \in Nat
    BY <1>2, <1>10, UnusedHandleExists, Capacities DEF UnusedHandles, HandleIds
  <2>3. /\ hop \in OpRec /\ hop.used = cop.used /\ hop.kind = cop.kind
        /\ hop.gen = cop.gen /\ hop.joined = cop.joined
        /\ hop.canceled = cop.canceled /\ hop.sock = cop.sock
    BY <1>5, <2>2 DEF OpRec
  <2> HIDE DEF h
  <2>4. /\ m.op = hop /\ m.fds = fds
        /\ m.handles = [handles EXCEPT ![h] = [kind |-> "stream", sock |-> op.sock]]
    <3> DEFINE m1 == [j EXCEPT !.handles[h] = [kind |-> "stream", sock |-> j.op.sock]]
               m2 == [m1 EXCEPT !.op.sock = Invalid]
    <3>0. /\ m1.op = j.op /\ m1.fds = j.fds
          /\ m1.handles = [j.handles EXCEPT ![h] = [kind |-> "stream", sock |-> j.op.sock]]
      OBVIOUS
    <3>1. /\ m1.op = jop /\ m1.fds = fds
          /\ m1.handles = [handles EXCEPT ![h] = [kind |-> "stream", sock |-> op.sock]]
      BY <1>1, <1>2, <3>0
    <3> HIDE DEF m1
    <3>2. m2.op = cop /\ m2.fds = fds /\ m2.handles = m1.handles
      BY <3>1 DEF cop
    <3>3. m = [m2 EXCEPT !.op.handle = h]
      BY DEF m1
    <3> HIDE DEF m2, m
    <3>4. QED BY <3>1, <3>2, <3>3
  <2> HIDE DEF hop, m
  <2>5. /\ r.op \in OpRec /\ Same(hop, r.op) /\ r.op.status = Success
        /\ r.handles = m.handles /\ r.fds = m.fds
    BY <2>1, <2>2, <2>3, <2>4, Completed
  <2>6. Effect(op, r)
    BY <1>5, <2>2, <2>3, <2>4, <2>5 DEF Effect, Same
  <2>7. QED BY <1>1, <1>2, <1>5, <1>10, <2>3, <2>5, <2>6 DEF Same, r, op
<1>11. QED BY <1>7, <1>8, <1>9, <1>10

LEMMA SameHandshake ==
  ASSUME NEW op, NEW r, NEW w, Same(op, r), Handshake(op, w)
  PROVE  Handshake(r, w)
BY DEF Same, Handshake, Published, Unpublished

\* A finalized operation is settled: it is not finalized a second time.
LEMMA FinalizeGood ==
  ASSUME TypeOK, NEW i \in OpIds, NEW s, OpGood(i, s.op, workers[i]),
         s.handles = handles, s.fds = fds,
         ToFinalize(s.op), workers[i].pc = "exited"
  PROVE  LET r == FinalizeWorker(s)
         IN /\ OpGood(i, r.op, workers[i]) /\ Effect(s.op, r) /\ ~ToFinalize(r.op)
            /\ s.op.status # Pending => r.op.status = s.op.status /\ r.op.result = s.op.result
<1> DEFINE r == FinalizeWorker(s)
<1>1. /\ r.op \in OpRec /\ Effect(s.op, r)
      /\ r.op.joined /\ r.op.sock = Invalid
      /\ r.op.used = s.op.used /\ r.op.gen = s.op.gen /\ r.op.kind = s.op.kind
      /\ r.op.canceled = s.op.canceled
      /\ IF s.op.status = Canceled \/ s.op.canceled
         THEN r.op.status = s.op.status /\ r.op.result = s.op.result
         ELSE r.op.status \in {Success, Failure}
  BY FinalizeOK DEF OpGood
<1> HIDE DEF r
<1>2. s.op.kind = "connect" /\ ~s.op.joined
  BY DEF ToFinalize
<1>3. Handshake(r.op, workers[i])
  BY <1>1, <1>2 DEF Handshake
<1>4. s.op.canceled <=> s.op.status = Canceled
  BY DEF OpGood, StatusOK
<1>5. StatusOK(r.op, workers[i])
  BY <1>1, <1>2, <1>4 DEF StatusOK, Pending, Success, Failure, Canceled
<1>6. s.op.status # Pending => s.op.status = Canceled
  BY <1>2 DEF OpGood, StatusOK, OpRec
<1>7. QED BY <1>1, <1>3, <1>5, <1>6 DEF OpGood, ToFinalize, r

\* The bytes send takes: off and sent stay together and never pass len.
LEMMA TookBytes ==
  ASSUME NEW s, s.op \in OpRec, NEW k \in 1..(s.op.len - s.op.off),
         s.op.off = s.op.sent, s.op.off <= s.op.len
  PROVE  LET t == [s EXCEPT !.op.off = @ + k, !.op.sent = @ + k]
         IN /\ t.op \in OpRec /\ t.handles = s.handles /\ t.fds = s.fds
            /\ t.op.used = s.op.used /\ t.op.kind = s.op.kind /\ t.op.gen = s.op.gen
            /\ t.op.done = s.op.done /\ t.op.joined = s.op.joined
            /\ t.op.outcome = s.op.outcome /\ t.op.canceled = s.op.canceled
            /\ t.op.sock = s.op.sock /\ t.op.status = s.op.status /\ t.op.len = s.op.len
            /\ t.op.off = s.op.off + k /\ t.op.sent = s.op.sent + k
<1> DEFINE t1 == [s EXCEPT !.op.off = s.op.off + k]
           t == [t1 EXCEPT !.op.sent = s.op.sent + k]
           p == [s.op EXCEPT !.off = s.op.off + k]
           q == [p EXCEPT !.sent = s.op.sent + k]
<1>1. s.op.off + k \in 0..MaxBytes /\ s.op.sent + k \in 0..MaxBytes
  BY Capacities DEF OpRec
<1>2. /\ p \in OpRec
      /\ p.used = s.op.used /\ p.kind = s.op.kind /\ p.gen = s.op.gen
      /\ p.done = s.op.done /\ p.joined = s.op.joined
      /\ p.outcome = s.op.outcome /\ p.canceled = s.op.canceled
      /\ p.sock = s.op.sock /\ p.status = s.op.status /\ p.len = s.op.len
      /\ p.off = s.op.off + k /\ p.sent = s.op.sent
  BY <1>1 DEF OpRec
<1>3. t1.op = p /\ t1.handles = s.handles /\ t1.fds = s.fds
  OBVIOUS
<1> HIDE DEF p
<1>4. /\ q \in OpRec
      /\ q.used = p.used /\ q.kind = p.kind /\ q.gen = p.gen
      /\ q.done = p.done /\ q.joined = p.joined
      /\ q.outcome = p.outcome /\ q.canceled = p.canceled
      /\ q.sock = p.sock /\ q.status = p.status /\ q.len = p.len
      /\ q.off = p.off /\ q.sent = s.op.sent + k
  BY <1>1, <1>2 DEF OpRec
<1>5. [s EXCEPT !.op.off = @ + k, !.op.sent = @ + k] = t
  BY <1>2, <1>3
<1> HIDE DEF t1
<1>6. t.op = q /\ t.handles = s.handles /\ t.fds = s.fds
  BY <1>3
<1> HIDE DEF t, q
<1>7. QED BY <1>2, <1>4, <1>5, <1>6

\* Completing a pending read or write keeps the record in order.
LEMMA CompletedGood ==
  ASSUME NEW i \in OpIds, NEW op, NEW r \in OpRec, NEW w, OpGood(i, op, w),
         op.status = Pending, op.kind # "connect", Same(op, r),
         r.status \in {Success, Failure},
         op.kind = "write" /\ r.status = Success => r.result = op.sent
  PROVE  OpGood(i, r, w)
<1>1. Handshake(r, w)
  BY SameHandshake DEF OpGood
<1>2. StatusOK(r, w)
  BY DEF StatusOK, OpGood, Same, Pending, Success, Failure, Canceled
<1>3. QED BY <1>1, <1>2 DEF OpGood, Same

LEMMA WriteOK ==
  ASSUME NEW i \in OpIds, NEW s, OpGood(i, s.op, workers[i]),
         s.handles = handles, s.fds = fds,
         s.op.status = Pending, s.op.kind = "write",
         NEW r \in WriteOutcomes(s)
  PROVE  /\ OpGood(i, r.op, workers[i])
         /\ r.handles = handles /\ r.fds = fds /\ r.op.sock = s.op.sock
         /\ r.op.kind = "write"
<1> DEFINE left == s.op.len - s.op.off
           Took(k) == [s EXCEPT !.op.off = @ + k, !.op.sent = @ + k]
           w == workers[i]
<1>1. s.op \in OpRec /\ s.op.off = s.op.sent /\ s.op.off <= s.op.len
  BY DEF OpGood, StatusOK
<1>2. s.op.len \in Nat /\ s.op.off \in Nat /\ s.op.sent \in Nat
  BY <1>1, Capacities DEF OpRec
<1>3. CASE r = SetFailure(s)
  <2>1. /\ r.op \in OpRec /\ Same(s.op, r.op) /\ r.op.status = Failure
        /\ r.handles = s.handles /\ r.fds = s.fds
    BY <1>1, <1>3, Completed
  <2>2. OpGood(i, r.op, w)
    BY <2>1, CompletedGood DEF Success, Failure
  <2>3. QED BY <2>1, <2>2 DEF Same
<1>4. CASE left = 0 /\ r = SetSuccess(s, s.op.len)
  <2>1. /\ r.op \in OpRec /\ Same(s.op, r.op)
        /\ r.op.status = Success /\ r.op.result = s.op.len
        /\ r.handles = s.handles /\ r.fds = s.fds
    BY <1>1, <1>2, <1>4, Completed
  <2>2. s.op.len = s.op.sent
    BY <1>1, <1>2, <1>4
  <2>3. OpGood(i, r.op, w)
    BY <2>1, <2>2, CompletedGood
  <2>4. QED BY <2>1, <2>3 DEF Same
<1>5. CASE \E k \in 1..left : r = IF k >= left THEN SetSuccess(Took(k), s.op.len) ELSE Took(k)
  <2>1. PICK k \in 1..left : r = IF k >= left THEN SetSuccess(Took(k), s.op.len) ELSE Took(k)
    BY <1>5
  <2> DEFINE t == Took(k)
  <2>2. /\ t.op \in OpRec /\ t.handles = s.handles /\ t.fds = s.fds
        /\ t.op.used = s.op.used /\ t.op.kind = s.op.kind /\ t.op.gen = s.op.gen
        /\ t.op.done = s.op.done /\ t.op.joined = s.op.joined
        /\ t.op.outcome = s.op.outcome /\ t.op.canceled = s.op.canceled
        /\ t.op.sock = s.op.sock /\ t.op.status = s.op.status /\ t.op.len = s.op.len
        /\ t.op.off = s.op.off + k /\ t.op.sent = s.op.sent + k
    BY <1>1, TookBytes
  <2> HIDE DEF t
  <2>3. t.op.off = t.op.sent /\ t.op.off <= t.op.len
    BY <1>1, <1>2, <2>2
  <2>4. OpGood(i, t.op, w)
    <3>1. Handshake(t.op, w)
      BY <2>2 DEF Handshake, OpGood, Published, Unpublished
    <3>2. StatusOK(t.op, w)
      BY <2>2, <2>3 DEF StatusOK, OpGood, Pending, Success
    <3>3. QED BY <2>2, <3>1, <3>2 DEF OpGood
  <2>5. CASE k >= left
    <3>1. r = SetSuccess(t, s.op.len)
      BY <2>1, <2>5 DEF t
    <3>2. /\ r.op \in OpRec /\ Same(t.op, r.op)
          /\ r.op.status = Success /\ r.op.result = s.op.len
          /\ r.handles = t.handles /\ r.fds = t.fds
      BY <1>2, <2>2, <3>1, Completed
    <3>3. s.op.len = t.op.sent
      BY <1>1, <1>2, <2>2, <2>5
    <3>4. OpGood(i, r.op, w)
      BY <2>2, <2>4, <3>2, <3>3, CompletedGood
    <3>5. QED BY <2>2, <3>2, <3>4 DEF Same
  <2>6. CASE ~(k >= left)
    <3>1. r = t
      BY <2>1, <2>6 DEF t
    <3>2. QED BY <2>2, <2>4, <3>1
  <2>7. QED BY <2>5, <2>6
<1>6. QED BY <1>3, <1>4, <1>5 DEF WriteOutcomes

\* native_net_async_process keeps the record in order, whatever the socket
\* answers, and never touches an operation that is no longer pending.
LEMMA ProcessOK ==
  ASSUME TypeOK, NEW i \in OpIds, NEW s, OpGood(i, s.op, workers[i]),
         s.handles = handles, s.fds = fds,
         ToFinalize(s.op) => workers[i].pc = "exited",
         s.op.status = Pending,
         NEW r \in ProcessOutcomes(s)
  PROVE  OpGood(i, r.op, workers[i]) /\ Effect(s.op, r) /\ ~ToFinalize(r.op)
<1>1. s.op.kind \in {"connect", "read", "write"} /\ s.op \in OpRec
  BY DEF OpGood, StatusOK, OpRec
<1>2. CASE s.op.kind = "connect" /\ ToFinalize(s.op)
  <2>1. r = FinalizeWorker(s)
    BY <1>2 DEF ProcessOutcomes, MaybeFinalize
  <2>2. QED BY <1>2, <2>1, FinalizeGood
<1>3. CASE s.op.kind = "connect" /\ ~ToFinalize(s.op)
  <2>1. r = s
    BY <1>3 DEF ProcessOutcomes, MaybeFinalize
  <2>2. QED BY <1>3, <2>1 DEF Effect
<1>4. CASE s.op.kind # "connect"
  <2>1. \/ r = s \/ r = SetFailure(s)
        \/ s.op.kind = "read" /\ r = SetSuccess(s, 0)
        \/ s.op.kind = "write" /\ r \in WriteOutcomes(s)
    BY <1>1, <1>4 DEF ProcessOutcomes
  <2>2. ~ToFinalize(s.op)
    BY <1>4 DEF ToFinalize
  <2>3. CASE r = s
    BY <2>2, <2>3 DEF Effect
  <2>4. CASE r = SetFailure(s)
    <3>1. /\ r.op \in OpRec /\ Same(s.op, r.op) /\ r.op.status = Failure
          /\ r.handles = s.handles /\ r.fds = s.fds
      BY <1>1, <2>4, Completed
    <3>2. OpGood(i, r.op, workers[i])
      BY <1>4, <3>1, CompletedGood DEF Success, Failure
    <3>3. QED BY <1>4, <3>1, <3>2 DEF Same, Effect, ToFinalize
  <2>5. CASE s.op.kind = "read" /\ r = SetSuccess(s, 0)
    <3>1. /\ r.op \in OpRec /\ Same(s.op, r.op) /\ r.op.status = Success
          /\ r.handles = s.handles /\ r.fds = s.fds
      BY <1>1, <2>5, Completed
    <3>2. OpGood(i, r.op, workers[i])
      BY <1>4, <2>5, <3>1, CompletedGood
    <3>3. QED BY <1>4, <3>1, <3>2 DEF Same, Effect, ToFinalize
  <2>6. CASE s.op.kind = "write" /\ r \in WriteOutcomes(s)
    <3>1. /\ OpGood(i, r.op, workers[i])
          /\ r.handles = handles /\ r.fds = fds /\ r.op.sock = s.op.sock
          /\ r.op.kind = "write"
      BY <2>6, WriteOK
    <3>2. QED BY <3>1 DEF Effect, ToFinalize
  <2>7. QED BY <2>1, <2>3, <2>4, <2>5, <2>6
<1>5. QED BY <1>1, <1>2, <1>3, <1>4

-----------------------------------------------------------------------------
(* The steps of the program's thread that work on one operation record.    *)

LEMMA EffectOwn ==
  ASSUME TypeOK, HeldOnce(HoldingOf(handles, ops, workers), fds),
         NEW i \in OpIds, NEW op \in OpRec,
         op.sock = (IF ops[i].used THEN ops[i].sock ELSE Invalid),
         NEW s, s.op \in OpRec, s.op.used, Effect(op, s)
  PROVE  /\ HeldOnce(HoldingOf(s.handles, [ops EXCEPT ![i] = s.op], workers), s.fds)
         /\ s.handles \in [HandleIds -> HandleRec]
         /\ s.fds \in [Fds -> {"closed", "stdin", "socket"}]
<1> DEFINE os == [ops EXCEPT ![i] = s.op]
           H == HoldingOf(handles, ops, workers)
           H2 == HoldingOf(s.handles, os, workers)
<1>1. /\ handles \in [HandleIds -> HandleRec] /\ ops \in [OpIds -> OpRec]
      /\ workers \in [Generations -> WorkerRec]
      /\ fds \in [Fds -> {"closed", "stdin", "socket"}]
  BY TypeParts
<1>2. H[OpOwner(i)] = op.sock /\ OpOwner(i) \in Owners /\ op.sock \in Fds \cup {Invalid}
  BY HoldingIs, OwnersAre DEF OpRec
<1>3. /\ H2[OpOwner(i)] = s.op.sock
      /\ \A k \in OpIds : k # i => H2[OpOwner(k)] = H[OpOwner(k)]
      /\ \A g \in Generations : H2[WorkerOwner(g)] = H[WorkerOwner(g)]
  <2>1. os[i] = s.op /\ \A k \in OpIds : k # i => os[k] = ops[k]
    BY <1>1
  <2> HIDE DEF os
  <2>2. QED BY <2>1, HoldingIs
<1>4. CASE s.handles = handles /\ s.fds = fds /\ s.op.sock = op.sock
  <2>1. \A h \in HandleIds : H2[HandleOwner(h)] = H[HandleOwner(h)]
    BY <1>4, HoldingIs
  <2> HIDE DEF H, H2
  <2>2. \A o \in Owners : H2[o] = H[o]
    BY <1>2, <1>3, <1>4, <2>1, OwnersAre
  <2>3. HeldOnce(H2, fds)
    BY <2>2, HeldSame DEF H
  <2>4. QED BY <1>1, <1>4, <2>3 DEF H2
<1>5. CASE s.handles = handles /\ s.fds = Closed(fds, op.sock) /\ s.op.sock = Invalid
  <2>1. \A h \in HandleIds : H2[HandleOwner(h)] = H[HandleOwner(h)]
    BY <1>5, HoldingIs
  <2> HIDE DEF H, H2
  <2>2. \A o \in Owners : H2[o] = IF o = OpOwner(i) THEN Invalid ELSE H[o]
    BY <1>3, <1>5, <2>1, OwnersAre
  <2>3. HeldOnce(H2, Closed(fds, H[OpOwner(i)]))
    BY <1>1, <1>2, <2>2, HeldRelease DEF H
  <2>4. s.fds \in [Fds -> {"closed", "stdin", "socket"}]
    BY <1>1, <1>5 DEF Closed
  <2>5. QED BY <1>1, <1>2, <1>5, <2>3, <2>4 DEF H2
<1>6. ASSUME s.fds = fds, s.op.sock = Invalid, NEW h \in UnusedHandles(handles),
             s.handles = [handles EXCEPT ![h] = [kind |-> "stream", sock |-> op.sock]]
      PROVE  HeldOnce(H2, s.fds) /\ s.handles \in [HandleIds -> HandleRec]
  <2>1. h \in HandleIds /\ handles[h].kind = "none" /\ HandleOwner(h) \in Owners
    BY OwnersAre DEF UnusedHandles
  <2>2. s.handles \in [HandleIds -> HandleRec]
    <3>1. [kind |-> "stream", sock |-> op.sock] \in HandleRec
      BY <1>2 DEF HandleRec
    <3>2. QED BY <1>1, <1>6, <3>1
  <2>3. s.handles[h] = [kind |-> "stream", sock |-> op.sock]
    BY <1>1, <1>6, <2>1
  <2>4. \A k \in HandleIds : k # h => s.handles[k] = handles[k]
    BY <1>1, <1>6
  <2>5. H[HandleOwner(h)] = Invalid /\ H2[HandleOwner(h)] = op.sock
    BY <2>1, <2>3, HoldingIs
  <2>6. \A k \in HandleIds : k # h => H2[HandleOwner(k)] = H[HandleOwner(k)]
    BY <2>4, HoldingIs
  <2> HIDE DEF H, H2
  <2>7. \A o \in Owners : H2[o] = IF o = OpOwner(i) THEN Invalid
                                  ELSE IF o = HandleOwner(h) THEN H[OpOwner(i)] ELSE H[o]
    BY <1>2, <1>3, <1>6, <2>5, <2>6, OwnersAre
  <2>8. HeldOnce(H2, fds)
    BY <1>2, <2>1, <2>5, <2>7, HeldMove, OwnersAre DEF H
  <2>9. QED BY <1>6, <2>2, <2>8
<1>7. QED BY <1>1, <1>4, <1>5, <1>6 DEF Effect

\* A record that another record's step leaves alone stays in order.
LEMMA OtherOps ==
  ASSUME TypeOK, OpsOK, phase # "ended", NEW i \in OpIds, NEW s,
         OpGood(i, s.op, workers[i]),
         ops' = [ops EXCEPT ![i] = s.op], workers' = workers,
         \/ nextGeneration' = nextGeneration /\ ops[i].used
         \/ nextGeneration' = nextGeneration + 1 /\ i = nextGeneration
  PROVE  OpsOK'
<1>1. ops \in [OpIds -> OpRec] /\ nextGeneration \in Nat
  BY TypeParts, Capacities
<1>2. SUFFICES ASSUME NEW k \in OpIds PROVE OpOK(k, ops[k], workers[k])'
  BY DEF OpsOK
<1>3. k \in Nat /\ OpOK(k, ops[k], workers[k]) /\ OpOK(i, ops[i], workers[i]) /\ i \in Nat
  BY Capacities DEF OpsOK, OpIds
<1>4. CASE k = i
  <2>1. ops'[k] = s.op
    BY <1>1, <1>4
  <2>2. i < nextGeneration'
    BY <1>1, <1>3 DEF OpOK
  <2>3. QED BY <1>4, <2>1, <2>2 DEF OpOK, OpGood
<1>5. CASE k # i
  <2>1. ops'[k] = ops[k]
    BY <1>1, <1>5
  <2>2. (k < nextGeneration') <=> (k < nextGeneration)
    BY <1>1, <1>3, <1>5
  <2>3. QED BY <1>3, <2>1, <2>2 DEF OpOK
<1>6. QED BY <1>4, <1>5

LEMMA PutInv ==
  ASSUME NetInv, phase = "running", phase' = "running", NEW i \in OpIds, NEW op \in OpRec,
         op.sock = (IF ops[i].used THEN ops[i].sock ELSE Invalid),
         NEW s, OpGood(i, s.op, workers[i]), Effect(op, s), Put(i, s), workers' = workers,
         \/ nextGeneration' = nextGeneration /\ ops[i].used
         \/ nextGeneration' = nextGeneration + 1 /\ i = nextGeneration,
         main' \in 0..AsyncCapacity, MainOK'
  PROVE  NetInv'
<1>1. /\ TypeOK /\ WorkersOK /\ OpsOK /\ HeldOnce(HoldingOf(handles, ops, workers), fds)
  BY DEF NetInv, OwnOK
<1>2. /\ ops' = [ops EXCEPT ![i] = s.op] /\ handles' = s.handles /\ fds' = s.fds
      /\ s.op \in OpRec /\ s.op.used
  BY DEF Put, OpGood
<1>3. /\ HeldOnce(HoldingOf(handles', ops', workers'), fds')
      /\ handles' \in [HandleIds -> HandleRec]
      /\ fds' \in [Fds -> {"closed", "stdin", "socket"}]
  BY <1>1, <1>2, EffectOwn
<1>4. nextGeneration' \in 1..(AsyncCapacity + 1) /\ nextGeneration' >= nextGeneration
      /\ nextGeneration \in Nat /\ nextGeneration' \in Nat
  BY <1>1, TypeParts, Capacities DEF OpIds
<1>5. TypeOK'
  <2>1. ops' \in [OpIds -> OpRec] /\ workers' \in [Generations -> WorkerRec]
    BY <1>1, <1>2, TypeParts
  <2>2. QED BY <1>3, <1>4, <2>1 DEF TypeOK, HandleRec, OpRec, WorkerRec
<1>6. OpsOK'
  BY <1>1, <1>2, OtherOps
<1>7. WorkersOK'
  <2>1. SUFFICES ASSUME NEW g \in Generations PROVE WorkerOK(g, workers[g])'
    BY DEF WorkersOK
  <2>2. WorkerOK(g, workers[g]) /\ g \in Nat
    BY <1>1, Capacities DEF WorkersOK, Generations
  <2>3. QED BY <1>4, <2>2 DEF WorkerOK
<1>8. PhaseOK' /\ OwnOK'
  BY <1>3 DEF PhaseOK, OwnOK
<1>9. QED BY <1>5, <1>6, <1>7, <1>8 DEF NetInv

\* A record just allocated, before its kind is known.
Fresh(op) ==
  /\ op \in OpRec /\ op.used /\ op.gen = nextGeneration
  /\ ~op.done /\ ~op.joined /\ op.outcome = 0 /\ ~op.canceled /\ op.sock = Invalid
  /\ op.off = 0 /\ op.sent = 0

LEMMA FreshOp ==
  ASSUME nextGeneration \in OpIds
  PROVE  Fresh(AsyncAllocate) /\ AsyncAllocate.status = Pending /\ AsyncAllocate.kind = "none"
<1> DEFINE p == [ZeroOp EXCEPT !.used = TRUE]
           q == [p EXCEPT !.gen = nextGeneration]
           r == [q EXCEPT !.sock = Invalid]
<1>2. p \in OpRec
  BY Records DEF OpRec
<1>3. /\ p.used /\ p.kind = "none" /\ p.status = Pending /\ ~p.done /\ ~p.joined
      /\ p.outcome = 0 /\ ~p.canceled /\ p.off = 0 /\ p.sent = 0
  BY DEF ZeroOp
<1> HIDE DEF p
<1>4. nextGeneration \in 0..AsyncCapacity
  BY Capacities DEF OpIds
<1>5. /\ q \in OpRec /\ q.gen = nextGeneration
      /\ q.used /\ q.kind = "none" /\ q.status = Pending /\ ~q.done /\ ~q.joined
      /\ q.outcome = 0 /\ ~q.canceled /\ q.off = 0 /\ q.sent = 0
  BY <1>2, <1>3, <1>4 DEF OpRec
<1> HIDE DEF q
<1>6. /\ r \in OpRec /\ r.gen = nextGeneration /\ r.sock = Invalid
      /\ r.used /\ r.kind = "none" /\ r.status = Pending /\ ~r.done /\ ~r.joined
      /\ r.outcome = 0 /\ ~r.canceled /\ r.off = 0 /\ r.sent = 0
  BY <1>5 DEF OpRec
<1>7. AsyncAllocate = r
  BY DEF AsyncAllocate, p, q
<1>8. QED BY <1>6, <1>7 DEF Fresh

\* The generation that is about to be given out has no thread yet.
LEMMA NoWorkerYet ==
  ASSUME TypeOK, WorkersOK, nextGeneration \in Generations
  PROVE  workers[nextGeneration] = NoWorker
<1>1. nextGeneration \in Nat
  BY Capacities DEF Generations
<1>2. QED BY <1>1 DEF WorkersOK, WorkerOK

LEMMA FreshGood ==
  ASSUME TypeOK, NEW op, Fresh(op), NEW w, w.pc = "none", nextGeneration \in OpIds,
         \/ op.status = Failure
         \/ op.status = Pending /\ op.kind \in {"read", "write"}
  PROVE  OpGood(nextGeneration, op, w)
<1>1. Handshake(op, w)
  BY DEF Fresh, Handshake, Unpublished
<1>2. op.off <= op.len
  BY Capacities DEF Fresh, OpRec
<1>3. StatusOK(op, w)
  BY <1>2 DEF Fresh, StatusOK, Pending, Success, Failure, Canceled
<1>4. QED BY <1>1, <1>3 DEF Fresh, OpGood

LEMMA StartConnectFailsInv == NetInv /\ StartConnectFails => NetInv'
<1>1. SUFFICES ASSUME NetInv, StartConnectFails PROVE NetInv'
  OBVIOUS
<1> DEFINE i == nextGeneration
<1>2. /\ TypeOK /\ OpsOK /\ WorkersOK /\ MainOK /\ phase = "running" /\ main = 0
      /\ UnusedOps # {}
  BY <1>1 DEF NetInv, StartConnectFails, Idle
<1>3. Lowest(UnusedOps) = i /\ i \in OpIds /\ i \in Generations /\ ops[i] = ZeroOp
  BY <1>2, UnusedIsNext
<1>4. PICK kind \in {"none", "connect"} :
        ops' = [ops EXCEPT ![i] = [AsyncAllocate EXCEPT !.kind = kind, !.status = Failure]]
  BY <1>1, <1>3 DEF StartConnectFails
<1> DEFINE p == [AsyncAllocate EXCEPT !.kind = kind]
           q == [p EXCEPT !.status = Failure]
           s == [op |-> q, handles |-> handles, fds |-> fds]
<1>5. Fresh(AsyncAllocate)
  BY <1>3, FreshOp
<1>6. Fresh(p)
  BY <1>5 DEF Fresh, OpRec
<1> HIDE DEF p
<1>7. Fresh(q) /\ q.status = Failure
  BY <1>6 DEF Fresh, OpRec
<1>8. ops' = [ops EXCEPT ![i] = q]
  BY <1>4 DEF p
<1> HIDE DEF q
<1>9. /\ nextGeneration' = nextGeneration + 1 /\ handles' = handles /\ workers' = workers
      /\ fds' = fds /\ main' = main /\ phase' = phase
  BY <1>1 DEF StartConnectFails
<1>10. workers[i] = NoWorker
  BY <1>2, <1>3, NoWorkerYet
<1>11. OpGood(i, q, workers[i])
  BY <1>2, <1>3, <1>7, <1>10, FreshGood DEF NoWorker
<1>12. ~ops[i].used /\ q.sock = Invalid /\ q \in OpRec
  BY <1>3, <1>7 DEF ZeroOp, Fresh
<1>13. Effect(q, s) /\ Put(i, s) /\ s.op = q
  BY <1>8, <1>9 DEF Effect, Put
<1>14. MainOK' /\ main' \in 0..AsyncCapacity
  BY <1>2, <1>9 DEF MainOK, TypeOK
<1> HIDE DEF s, i
<1>15. QED BY <1>1, <1>2, <1>3, <1>9, <1>11, <1>12, <1>13, <1>14, PutInv DEF i

LEMMA StartTransferInv ==
  ASSUME NEW kind \in {"read", "write"}, NEW h \in HandleIds, NEW len \in 0..MaxBytes,
         NetInv, StartTransfer(kind, h, len)
  PROVE  NetInv'
<1> DEFINE i == nextGeneration
           new == [AsyncAllocate EXCEPT !.kind = kind, !.handle = h, !.len = len]
           bad == [AsyncAllocate EXCEPT !.status = Failure]
           t == [At(i) EXCEPT !.op = new]
           b == [At(i) EXCEPT !.op = bad]
<1>1. /\ TypeOK /\ OpsOK /\ WorkersOK /\ MainOK /\ phase = "running" /\ main = 0
      /\ UnusedOps # {}
  BY DEF NetInv, StartTransfer, Idle
<1>2. Lowest(UnusedOps) = i /\ i \in OpIds /\ i \in Generations /\ ops[i] = ZeroOp
  BY <1>1, UnusedIsNext
<1>3. PICK s \in (IF h \in Streams(handles) THEN ProcessOutcomes(t) ELSE {b}) : Put(i, s)
  BY <1>2 DEF StartTransfer
<1>4. /\ nextGeneration' = nextGeneration + 1 /\ workers' = workers
      /\ main' = main /\ phase' = phase
  BY DEF StartTransfer
<1>5. workers[i] = NoWorker
  BY <1>1, <1>2, NoWorkerYet
<1>6. Fresh(AsyncAllocate) /\ AsyncAllocate.status = Pending
  BY <1>2, FreshOp
<1>7. Fresh(new) /\ new.kind = kind /\ new.status = Pending
  <2> DEFINE p == [AsyncAllocate EXCEPT !.kind = kind]
             q == [p EXCEPT !.handle = h]
             r == [q EXCEPT !.len = len]
  <2>1. Fresh(p) /\ p.kind = kind /\ p.status = Pending
    BY <1>6 DEF Fresh, OpRec
  <2> HIDE DEF p
  <2>2. h \in 0..HandleCapacity
    BY Capacities DEF HandleIds
  <2>3. Fresh(q) /\ q.kind = kind /\ q.status = Pending
    BY <2>1, <2>2 DEF Fresh, OpRec
  <2> HIDE DEF q
  <2>4. Fresh(r) /\ r.kind = kind /\ r.status = Pending
    BY <2>3 DEF Fresh, OpRec
  <2>5. new = r
    BY DEF p, q
  <2>6. QED BY <2>4, <2>5
<1>8. Fresh(bad) /\ bad.status = Failure
  BY <1>6 DEF Fresh, OpRec
<1> HIDE DEF new, bad
<1>9. t.op = new /\ t.handles = handles /\ t.fds = fds
      /\ b.op = bad /\ b.handles = handles /\ b.fds = fds
  BY DEF At
<1> HIDE DEF t, b
<1>10. OpGood(i, new, workers[i]) /\ OpGood(i, bad, workers[i])
  BY <1>1, <1>2, <1>5, <1>7, <1>8, FreshGood DEF NoWorker
<1>11. ~ops[i].used /\ new.sock = Invalid /\ new \in OpRec /\ ~ToFinalize(new)
  BY <1>2, <1>7 DEF ZeroOp, Fresh, ToFinalize
<1>12. OpGood(i, s.op, workers[i]) /\ Effect(new, s)
  <2>1. CASE h \in Streams(handles)
    BY <1>1, <1>2, <1>3, <1>7, <1>9, <1>10, <1>11, <2>1, ProcessOK
  <2>2. CASE h \notin Streams(handles)
    <3>1. s = b /\ bad.sock = new.sock
      BY <1>3, <1>7, <1>8, <2>2 DEF Fresh
    <3>2. QED BY <1>9, <1>10, <3>1 DEF Effect
  <2>3. QED BY <2>1, <2>2
<1>13. MainOK' /\ main' \in 0..AsyncCapacity
  BY <1>1, <1>4 DEF MainOK, TypeOK
<1> HIDE DEF i
<1>14. QED BY <1>1, <1>2, <1>3, <1>4, <1>11, <1>12, <1>13, PutInv DEF i

\* The record a running operation has, before an attempt is made at it.
LEMMA UsedOp ==
  ASSUME NetInv, phase # "ended", NEW i \in OpIds, ops[i].used
  PROVE  /\ OpGood(i, ops[i], workers[i]) /\ ops[i].gen = i /\ i \in Generations
         /\ At(i).op = ops[i] /\ At(i).handles = handles /\ At(i).fds = fds
         /\ Joinable(i) => (ToFinalize(ops[i]) => workers[i].pc = "exited")
<1>1. ops[i] \in OpRec /\ OpOK(i, ops[i], workers[i])
  BY TypeParts DEF NetInv, OpsOK
<1>2. OpGood(i, ops[i], workers[i])
  BY <1>1 DEF OpOK, OpGood
<1>3. QED BY <1>2 DEF OpGood, At, Joinable, OpIds, Generations

LEMMA PollInv ==
  ASSUME NEW i \in OpIds, NetInv, Poll(i)
  PROVE  NetInv'
<1>1. /\ TypeOK /\ phase = "running" /\ main = 0 /\ ops[i].used /\ ops[i].status = Pending
      /\ Joinable(i)
      /\ nextGeneration' = nextGeneration /\ workers' = workers
      /\ main' = main /\ phase' = phase
  BY DEF NetInv, Poll, Idle
<1>2. PICK s \in ProcessOutcomes(At(i)) : Put(i, s)
  BY DEF Poll
<1>3. OpGood(i, ops[i], workers[i]) /\ ops[i] \in OpRec
  BY <1>1, UsedOp DEF OpGood
<1>4. OpGood(i, s.op, workers[i]) /\ Effect(ops[i], s)
  BY <1>1, <1>2, UsedOp, ProcessOK
<1>5. MainOK' /\ main' \in 0..AsyncCapacity
  BY <1>1 DEF MainOK, TypeOK
<1>6. QED BY <1>1, <1>2, <1>3, <1>4, <1>5, PutInv

LEMMA ReadResultInv ==
  ASSUME NEW i \in OpIds, NetInv, ReadResult(i)
  PROVE  NetInv'
<1> DEFINE s == MaybeFinalize(At(i))
<1>1. /\ TypeOK /\ phase = "running" /\ main = 0 /\ ops[i].used /\ ToFinalize(ops[i])
      /\ Joinable(i) /\ Put(i, s)
      /\ nextGeneration' = nextGeneration /\ workers' = workers
      /\ main' = main /\ phase' = phase
  BY DEF NetInv, ReadResult, Idle
<1>2. OpGood(i, ops[i], workers[i]) /\ ops[i] \in OpRec
  BY <1>1, UsedOp DEF OpGood
<1>3. s = FinalizeWorker(At(i))
  BY <1>1, UsedOp DEF MaybeFinalize
<1>4. OpGood(i, s.op, workers[i]) /\ Effect(ops[i], s)
  BY <1>1, <1>3, UsedOp, FinalizeGood
<1>5. MainOK' /\ main' \in 0..AsyncCapacity
  BY <1>1 DEF MainOK, TypeOK
<1> HIDE DEF s
<1>6. QED BY <1>1, <1>2, <1>4, <1>5, PutInv

LEMMA AwaitBeginInv ==
  ASSUME NEW i \in OpIds, NetInv, AwaitBegin(i)
  PROVE  NetInv'
<1>1. /\ phase = "running" /\ ops[i].used /\ ops[i].status = Pending /\ main' = i
      /\ UNCHANGED <<handles, ops, nextGeneration, workers, fds, phase>>
  BY DEF AwaitBegin, Idle
<1>2. TypeOK'
  BY <1>1 DEF NetInv, TypeOK, OpIds
<1>3. WorkersOK' /\ OpsOK' /\ PhaseOK' /\ OwnOK'
  BY <1>1 DEF NetInv, WorkersOK, WorkerOK, OpsOK, OpOK, PhaseOK, OwnOK
<1>4. MainOK'
  BY <1>1 DEF MainOK
<1>5. QED BY <1>2, <1>3, <1>4 DEF NetInv

LEMMA AwaitStepInv == NetInv /\ AwaitStep => NetInv'
<1>1. SUFFICES ASSUME NetInv, AwaitStep PROVE NetInv'
  OBVIOUS
<1>2. /\ TypeOK /\ MainOK /\ phase = "running" /\ main # 0 /\ Joinable(main)
      /\ nextGeneration' = nextGeneration /\ workers' = workers /\ phase' = phase
  BY <1>1 DEF NetInv, AwaitStep
<1>3. main \in OpIds /\ ops[main].used /\ ops[main].status = Pending
  BY <1>2, Capacities DEF MainOK, TypeOK, OpIds
<1>4. PICK s \in ProcessOutcomes(At(main)) :
        /\ Put(main, MaybeFinalize(s))
        /\ main' = IF s.op.status = Pending THEN main ELSE 0
  BY <1>1 DEF AwaitStep
<1>5. OpGood(main, ops[main], workers[main]) /\ ops[main] \in OpRec
  BY <1>1, <1>2, <1>3, UsedOp DEF OpGood
<1>6. OpGood(main, s.op, workers[main]) /\ Effect(ops[main], s) /\ ~ToFinalize(s.op)
  BY <1>1, <1>2, <1>3, <1>4, UsedOp, ProcessOK
<1>7. MaybeFinalize(s) = s
  BY <1>6 DEF MaybeFinalize
<1>8. main' \in 0..AsyncCapacity
  BY <1>2, <1>4, Capacities DEF TypeOK
<1>9. MainOK'
  <2>1. ops' = [ops EXCEPT ![main] = s.op] /\ ops \in [OpIds -> OpRec]
    BY <1>2, <1>4, <1>7, TypeParts DEF Put
  <2>2. ops'[main] = s.op /\ s.op.used
    BY <1>3, <1>6, <2>1 DEF OpGood
  <2>3. QED BY <1>2, <1>4, <2>2 DEF MainOK
<1>10. QED BY <1>1, <1>2, <1>3, <1>4, <1>5, <1>6, <1>7, <1>8, <1>9, PutInv

LEMMA CancelInv ==
  ASSUME NEW i \in OpIds, NetInv, Cancel(i)
  PROVE  NetInv'
<1> DEFINE t == [At(i) EXCEPT !.op.canceled = TRUE]
           s == MaybeFinalize(t)
           cop == [ReleasePendingBytes(s.op) EXCEPT !.handle = 0, !.status = Canceled]
           r == [s EXCEPT !.op = cop]
<1>1. /\ TypeOK /\ phase = "running" /\ main = 0 /\ ops[i].used /\ ops[i].status = Pending
      /\ Joinable(i) /\ Put(i, r)
      /\ nextGeneration' = nextGeneration /\ workers' = workers
      /\ main' = main /\ phase' = phase
  BY DEF NetInv, Cancel, Idle
<1>2. OpGood(i, ops[i], workers[i]) /\ ops[i] \in OpRec
  BY <1>1, UsedOp DEF OpGood
<1>3. t.op = [ops[i] EXCEPT !.canceled = TRUE] /\ t.handles = handles /\ t.fds = fds
  BY DEF At
<1> HIDE DEF t
<1>4. /\ t.op \in OpRec /\ t.op.canceled
      /\ t.op.used = ops[i].used /\ t.op.kind = ops[i].kind /\ t.op.gen = ops[i].gen
      /\ t.op.done = ops[i].done /\ t.op.joined = ops[i].joined
      /\ t.op.outcome = ops[i].outcome /\ t.op.sock = ops[i].sock /\ t.op.status = Pending
  <2> DEFINE op == ops[i]
  <2>1. op \in OpRec /\ op.status = Pending /\ t.op = [op EXCEPT !.canceled = TRUE]
    BY <1>1, <1>2, <1>3
  <2> HIDE DEF op
  <2>2. /\ t.op \in OpRec /\ t.op.canceled
        /\ t.op.used = op.used /\ t.op.kind = op.kind /\ t.op.gen = op.gen
        /\ t.op.done = op.done /\ t.op.joined = op.joined
        /\ t.op.outcome = op.outcome /\ t.op.sock = op.sock /\ t.op.status = Pending
    BY <2>1 DEF OpRec
  <2>3. QED BY <2>2 DEF op
<1>5. Handshake(t.op, workers[i])
  BY <1>2, <1>4 DEF OpGood, Handshake, Published, Unpublished
<1>6. /\ s.op \in OpRec /\ Effect(ops[i], s) /\ s.op.canceled /\ s.op.used
      /\ s.op.gen = i /\ Handshake(s.op, workers[i])
  <2>1. CASE ToFinalize(t.op)
    <3>1. s = FinalizeWorker(t)
      BY <2>1 DEF MaybeFinalize
    <3>2. workers[i].pc = "exited"
      BY <1>1, <1>4, <2>1, UsedOp DEF ToFinalize
    <3>3. /\ s.op \in OpRec /\ Effect(t.op, s)
          /\ s.op.joined /\ s.op.sock = Invalid
          /\ s.op.used = t.op.used /\ s.op.gen = t.op.gen /\ s.op.kind = t.op.kind
          /\ s.op.canceled = t.op.canceled
      <4> HIDE DEF s
      <4> QED BY <1>1, <1>3, <1>4, <1>5, <2>1, <3>1, <3>2, FinalizeOK
    <3> HIDE DEF s
    <3>4. Handshake(s.op, workers[i])
      BY <3>2, <3>3, <2>1 DEF Handshake, ToFinalize
    <3>5. Effect(ops[i], s)
      BY <1>4, <3>3 DEF Effect
    <3>6. QED BY <1>2, <1>4, <3>3, <3>4, <3>5 DEF OpGood
  <2>2. CASE ~ToFinalize(t.op)
    <3>1. s = t
      BY <2>2 DEF MaybeFinalize
    <3>2. QED BY <1>2, <1>3, <1>4, <1>5, <3>1 DEF Effect, OpGood
  <2>3. QED BY <2>1, <2>2
<1> HIDE DEF s
<1>7. cop \in OpRec /\ Same(s.op, cop) /\ cop.status = Canceled
  <2> DEFINE z == ReleasePendingBytes(s.op)
             p == [z EXCEPT !.handle = 0]
             q == [p EXCEPT !.status = Canceled]
  <2>1. z \in OpRec /\ Same(s.op, z)
    BY <1>6, SealedOp
  <2> HIDE DEF z
  <2>2. 0 \in 0..HandleCapacity
    BY Capacities
  <2>3. p \in OpRec /\ Same(z, p)
    BY <2>1, <2>2 DEF OpRec, Same
  <2> HIDE DEF p
  <2>4. q \in OpRec /\ Same(p, q) /\ q.status = Canceled
    BY <2>3 DEF OpRec, Same
  <2>5. cop = q
    BY DEF p, z
  <2>6. QED BY <2>1, <2>3, <2>4, <2>5 DEF Same
<1> HIDE DEF cop
<1>8. r.op = cop /\ r.handles = s.handles /\ r.fds = s.fds
  OBVIOUS
<1> HIDE DEF r
<1>9. Handshake(r.op, workers[i])
  BY <1>6, <1>7, <1>8, SameHandshake
<1>10. StatusOK(r.op, workers[i])
  <2>1. r.op.canceled /\ r.op.status = Canceled
    BY <1>6, <1>7, <1>8 DEF Same
  <2>2. QED BY <2>1 DEF StatusOK, Pending, Success, Failure, Canceled
<1>11. OpGood(i, r.op, workers[i])
  BY <1>6, <1>7, <1>8, <1>9, <1>10 DEF OpGood, Same
<1>12. Effect(ops[i], r)
  BY <1>6, <1>7, <1>8 DEF Effect, Same
<1>13. MainOK' /\ main' \in 0..AsyncCapacity
  BY <1>1 DEF MainOK, TypeOK
<1>14. QED BY <1>1, <1>2, <1>11, <1>12, <1>13, PutInv

-----------------------------------------------------------------------------
(* The handle table.                                                       *)

LEMMA OpenHandleInv ==
  ASSUME NEW kind \in {"listener", "stream", "udp"}, NetInv, OpenHandle(kind)
  PROVE  NetInv'
<1> DEFINE f == Lowest(FreeFds)
           h == Lowest(UnusedHandles(handles))
           new == [kind |-> kind, sock |-> f]
           H == HoldingOf(handles, ops, workers)
           H2 == HoldingOf(handles', ops, workers)
<1>1. /\ phase = "running" /\ FreeFds # {} /\ UnusedHandles(handles) # {}
      /\ fds' = [fds EXCEPT ![f] = "socket"]
      /\ handles' = [handles EXCEPT ![h] = new]
      /\ UNCHANGED <<ops, nextGeneration, workers, main, phase>>
  BY DEF OpenHandle, Idle
<1>2. /\ handles \in [HandleIds -> HandleRec]
      /\ fds \in [Fds -> {"closed", "stdin", "socket"}] /\ HeldOnce(H, fds)
  BY <1>1, TypeParts DEF NetInv, OwnOK
<1>3. f \in Fds /\ fds[f] = "closed"
  BY <1>1, FreeFdExists
<1>4. h \in HandleIds /\ handles[h].kind = "none"
  BY <1>1, UnusedHandleExists
<1>5. new \in HandleRec /\ new.kind # "none" /\ new.sock = f
  BY <1>3 DEF HandleRec
<1> HIDE DEF f, h, new
<1>6. /\ handles' \in [HandleIds -> HandleRec] /\ handles'[h] = new
      /\ \A k \in HandleIds : k # h => handles'[k] = handles[k]
      /\ fds' \in [Fds -> {"closed", "stdin", "socket"}]
  BY <1>1, <1>2, <1>3, <1>4, <1>5
<1>7. /\ H[HandleOwner(h)] = Invalid /\ H2[HandleOwner(h)] = f /\ HandleOwner(h) \in Owners
      /\ \A k \in HandleIds : k # h => H2[HandleOwner(k)] = H[HandleOwner(k)]
      /\ \A i \in OpIds : H2[OpOwner(i)] = H[OpOwner(i)]
      /\ \A g \in Generations : H2[WorkerOwner(g)] = H[WorkerOwner(g)]
  BY <1>4, <1>5, <1>6, HoldingIs, OwnersAre
<1>8. HeldOnce(H2, fds')
  <2> HIDE DEF H, H2
  <2>1. \A o \in Owners : H2[o] = IF o = HandleOwner(h) THEN f ELSE H[o]
    BY <1>7, OwnersAre
  <2>2. fds[f] # "socket"
    BY <1>3
  <2>3. HeldOnce(H, fds) /\ H[HandleOwner(h)] = Invalid /\ HandleOwner(h) \in Owners
    BY <1>2, <1>7
  <2>4. QED BY <1>1, <1>2, <1>3, <2>1, <2>2, <2>3, HeldAcquire
<1>9. TypeOK'
  BY <1>1, <1>6 DEF NetInv, TypeOK, HandleRec
<1>10. WorkersOK' /\ OpsOK' /\ MainOK' /\ PhaseOK'
  BY <1>1 DEF NetInv, WorkersOK, WorkerOK, OpsOK, OpOK, MainOK, PhaseOK
<1>11. OwnOK'
  BY <1>1, <1>8 DEF OwnOK
<1>12. QED BY <1>9, <1>10, <1>11 DEF NetInv

LEMMA HandleCloseInv ==
  ASSUME NEW h \in HandleIds, NetInv, HandleClose(h)
  PROVE  NetInv'
<1> DEFINE H == HoldingOf(handles, ops, workers)
           H2 == HoldingOf(handles', ops, workers)
<1>1. /\ phase = "running" /\ handles[h].kind # "none"
      /\ fds' = Closed(fds, handles[h].sock)
      /\ handles' = [handles EXCEPT ![h] = NoHandle]
      /\ UNCHANGED <<ops, nextGeneration, workers, main, phase>>
  BY DEF HandleClose, Idle
<1>2. /\ handles \in [HandleIds -> HandleRec]
      /\ fds \in [Fds -> {"closed", "stdin", "socket"}] /\ HeldOnce(H, fds)
  BY <1>1, TypeParts DEF NetInv, OwnOK
<1>3. /\ handles' \in [HandleIds -> HandleRec] /\ handles'[h] = NoHandle
      /\ \A k \in HandleIds : k # h => handles'[k] = handles[k]
      /\ fds' \in [Fds -> {"closed", "stdin", "socket"}]
      /\ handles[h].sock \in Fds \cup {Invalid}
  BY <1>1, <1>2, Records DEF Closed, HandleRec
<1>4. /\ H[HandleOwner(h)] = handles[h].sock /\ H2[HandleOwner(h)] = Invalid
      /\ HandleOwner(h) \in Owners
      /\ \A k \in HandleIds : k # h => H2[HandleOwner(k)] = H[HandleOwner(k)]
      /\ \A i \in OpIds : H2[OpOwner(i)] = H[OpOwner(i)]
      /\ \A g \in Generations : H2[WorkerOwner(g)] = H[WorkerOwner(g)]
  <2>1. NoHandle.kind = "none"
    BY DEF NoHandle
  <2>2. H[HandleOwner(h)] = handles[h].sock
    BY <1>1, HoldingIs
  <2>3. H2[HandleOwner(h)] = Invalid
    BY <1>3, <2>1, HoldingIs
  <2>4. /\ \A k \in HandleIds : k # h => H2[HandleOwner(k)] = H[HandleOwner(k)]
        /\ \A i \in OpIds : H2[OpOwner(i)] = H[OpOwner(i)]
        /\ \A g \in Generations : H2[WorkerOwner(g)] = H[WorkerOwner(g)]
    BY <1>3, HoldingIs
  <2>5. QED BY <2>2, <2>3, <2>4, OwnersAre
<1>5. HeldOnce(H2, fds')
  <2> HIDE DEF H, H2
  <2>1. \A o \in Owners : H2[o] = IF o = HandleOwner(h) THEN Invalid ELSE H[o]
    BY <1>4, OwnersAre
  <2>2. HeldOnce(H2, Closed(fds, H[HandleOwner(h)]))
    BY <1>2, <1>3, <1>4, <2>1, HeldRelease
  <2>3. QED BY <1>1, <1>4, <2>2
<1>6. TypeOK'
  BY <1>1, <1>3 DEF NetInv, TypeOK, HandleRec
<1>7. WorkersOK' /\ OpsOK' /\ MainOK' /\ PhaseOK'
  BY <1>1 DEF NetInv, WorkersOK, WorkerOK, OpsOK, OpOK, MainOK, PhaseOK
<1>8. OwnOK'
  BY <1>1, <1>5 DEF OwnOK
<1>9. QED BY <1>6, <1>7, <1>8 DEF NetInv

-----------------------------------------------------------------------------
(* The connect threads.                                                    *)

LEMMA StartConnectInv == NetInv /\ StartConnect => NetInv'
<1>1. SUFFICES ASSUME NetInv, StartConnect PROVE NetInv'
  OBVIOUS
<1> DEFINE i == nextGeneration
           op == [AsyncAllocate EXCEPT !.kind = "connect"]
           w == [NoWorker EXCEPT !.pc = "starting", !.op = i]
           H == HoldingOf(handles, ops, workers)
           H2 == HoldingOf(handles, ops', workers')
<1>2. /\ TypeOK /\ OpsOK /\ WorkersOK /\ MainOK /\ phase = "running" /\ main = 0
      /\ UnusedOps # {} /\ HeldOnce(H, fds)
  BY <1>1 DEF NetInv, StartConnect, Idle, OwnOK
<1>3. Lowest(UnusedOps) = i /\ i \in OpIds /\ i \in Generations /\ ops[i] = ZeroOp
  BY <1>2, UnusedIsNext
<1>4. /\ ops' = [ops EXCEPT ![i] = op] /\ workers' = [workers EXCEPT ![i] = w]
      /\ nextGeneration' = nextGeneration + 1
      /\ UNCHANGED <<handles, fds, main, phase>>
  BY <1>1, <1>3 DEF StartConnect
<1>5. workers[i] = NoWorker
  BY <1>2, <1>3, NoWorkerYet
<1>6. Fresh(op) /\ op.kind = "connect" /\ op.status = Pending
  BY <1>3, FreshOp DEF Fresh, OpRec
<1>7. w \in WorkerRec /\ w.pc = "starting" /\ w.op = i /\ w.sock = Invalid /\ w.todo = {}
  <2> DEFINE p == [NoWorker EXCEPT !.pc = "starting"]
  <2>1. p \in WorkerRec /\ p.pc = "starting" /\ p.sock = Invalid /\ p.todo = {}
    BY Records DEF NoWorker, WorkerRec
  <2> HIDE DEF p
  <2>2. i \in 0..AsyncCapacity
    BY <1>3, Capacities DEF OpIds
  <2>3. w = [p EXCEPT !.op = i]
    BY DEF p
  <2>4. QED BY <2>1, <2>2, <2>3 DEF WorkerRec
<1> HIDE DEF op, w
<1>8. /\ ops \in [OpIds -> OpRec] /\ workers \in [Generations -> WorkerRec]
      /\ i \in Nat /\ AsyncCapacity \in Nat /\ i >= 1 /\ i <= AsyncCapacity
  BY <1>2, <1>3, TypeParts, Capacities DEF OpIds
<1>9. /\ ops' \in [OpIds -> OpRec] /\ ops'[i] = op
      /\ \A k \in OpIds : k # i => ops'[k] = ops[k]
      /\ workers' \in [Generations -> WorkerRec] /\ workers'[i] = w
      /\ \A k \in Generations : k # i => workers'[k] = workers[k]
  BY <1>3, <1>4, <1>6, <1>7, <1>8 DEF Fresh
<1>10. TypeOK'
  <2>1. nextGeneration' \in 1..(AsyncCapacity + 1)
    BY <1>4, <1>8
  <2>2. QED BY <1>2, <1>4, <1>9, <2>1 DEF TypeOK, OpRec, WorkerRec
<1>11. WorkersOK'
  <2>1. SUFFICES ASSUME NEW g \in Generations PROVE WorkerOK(g, workers[g])'
    BY DEF WorkersOK
  <2>2. WorkerOK(g, workers[g]) /\ g \in Nat
    BY <1>2, Capacities DEF WorkersOK, Generations
  <2>3. CASE g = i
    BY <1>4, <1>7, <1>8, <1>9, <2>3 DEF WorkerOK
  <2>4. CASE g # i
    BY <1>4, <1>8, <1>9, <2>2, <2>4 DEF WorkerOK
  <2>5. QED BY <2>3, <2>4
<1>12. OpsOK'
  <2>1. SUFFICES ASSUME NEW k \in OpIds PROVE OpOK(k, ops[k], workers[k])'
    BY DEF OpsOK
  <2>2. OpOK(k, ops[k], workers[k]) /\ k \in Nat /\ k \in Generations
    BY <1>2, Capacities DEF OpsOK, OpIds, Generations
  <2>3. CASE k = i
    <3>1. Handshake(op, w)
      BY <1>6, <1>7 DEF Fresh, Handshake, Unpublished
    <3>2. StatusOK(op, w)
      BY <1>6 DEF Fresh, StatusOK, Pending, Success, Failure, Canceled
    <3>3. QED BY <1>4, <1>6, <1>8, <1>9, <2>3, <3>1, <3>2 DEF OpOK, Fresh
  <2>4. CASE k # i
    <3>1. ops'[k] = ops[k] /\ workers'[k] = workers[k]
      BY <1>9, <2>2, <2>4
    <3>2. (k < nextGeneration') <=> (k < nextGeneration)
      BY <1>4, <1>8, <2>2, <2>4
    <3>3. QED BY <2>2, <3>1, <3>2 DEF OpOK
  <2>5. QED BY <2>3, <2>4
<1>13. MainOK' /\ PhaseOK'
  BY <1>2, <1>4 DEF MainOK, PhaseOK
<1>14. OwnOK'
  <2>1. H[OpOwner(i)] = Invalid /\ H2[OpOwner(i)] = Invalid
    BY <1>3, <1>6, <1>9, HoldingIs DEF ZeroOp, Fresh
  <2>2. H[WorkerOwner(i)] = Invalid /\ H2[WorkerOwner(i)] = Invalid
    BY <1>3, <1>5, <1>7, <1>9, HoldingIs DEF NoWorker
  <2>3. /\ \A h \in HandleIds : H2[HandleOwner(h)] = H[HandleOwner(h)]
        /\ \A k \in OpIds : k # i => H2[OpOwner(k)] = H[OpOwner(k)]
        /\ \A g \in Generations : g # i => H2[WorkerOwner(g)] = H[WorkerOwner(g)]
    BY <1>9, HoldingIs
  <2> HIDE DEF H, H2
  <2>4. \A o \in Owners : H2[o] = H[o]
    BY <2>1, <2>2, <2>3, OwnersAre
  <2>5. HeldOnce(H2, fds)
    BY <1>2, <2>4, HeldSame
  <2>6. QED BY <1>4, <2>5 DEF OwnOK, H2
<1>15. QED BY <1>10, <1>11, <1>12, <1>13, <1>14 DEF NetInv

\* What a live thread may count on: its record is in use while the program runs.
LEMMA LiveWorker ==
  ASSUME NetInv, NEW g \in Generations, workers[g].pc # "none"
  PROVE  /\ workers \in [Generations -> WorkerRec] /\ ops \in [OpIds -> OpRec]
         /\ fds \in [Fds -> {"closed", "stdin", "socket"}]
         /\ WorkerOK(g, workers[g]) /\ workers[g].op = g /\ g \in OpIds /\ g \in Nat
         /\ phase # "ended" => /\ HeldOnce(HoldingOf(handles, ops, workers), fds)
                               /\ OpGood(g, ops[g], workers[g])
<1>1. /\ workers \in [Generations -> WorkerRec] /\ ops \in [OpIds -> OpRec]
      /\ fds \in [Fds -> {"closed", "stdin", "socket"}]
  BY TypeParts DEF NetInv
<1>2. WorkerOK(g, workers[g]) /\ g \in OpIds /\ g \in Nat
  BY Capacities DEF NetInv, WorkersOK, OpIds, Generations
<1>3. workers[g].op = g /\ g < nextGeneration
  BY <1>2 DEF WorkerOK
<1>4. ASSUME phase # "ended"
      PROVE  HeldOnce(HoldingOf(handles, ops, workers), fds) /\ OpGood(g, ops[g], workers[g])
  BY <1>1, <1>2, <1>3, <1>4 DEF NetInv, OpsOK, OpOK, OwnOK, OpGood
<1>5. QED BY <1>1, <1>2, <1>3, <1>4

\* The fields of a record that its thread never writes.
Untouched(op, op2) ==
  /\ op2.used = op.used /\ op2.kind = op.kind /\ op2.gen = op.gen
  /\ op2.status = op.status /\ op2.joined = op.joined /\ op2.canceled = op.canceled
  /\ op2.off = op.off /\ op2.sent = op.sent /\ op2.len = op.len /\ op2.result = op.result

\* A thread's step keeps the invariant when it keeps its own shape, its
\* handshake with the record and the ownership of descriptors.
LEMMA WorkerStepInv ==
  ASSUME NetInv, NEW g \in Generations, workers[g].pc # "none",
         workers' \in [Generations -> WorkerRec], ops' \in [OpIds -> OpRec],
         fds' \in [Fds -> {"closed", "stdin", "socket"}],
         \A k \in Generations : k # g => workers'[k] = workers[k],
         \A k \in OpIds : k # g => ops'[k] = ops[k],
         Untouched(ops[g], ops'[g]),
         WorkerOK(g, workers'[g]), workers'[g].pc # "none",
         phase # "ended" => /\ Handshake(ops'[g], workers'[g])
                            /\ HeldOnce(HoldingOf(handles, ops', workers'), fds'),
         UNCHANGED <<handles, nextGeneration, main, phase>>
  PROVE  NetInv'
<1>1. /\ ops \in [OpIds -> OpRec] /\ g \in OpIds
      /\ phase # "ended" => OpGood(g, ops[g], workers[g])
  BY LiveWorker
<1>2. TypeOK'
  BY DEF NetInv, TypeOK, OpRec, WorkerRec
<1>3. WorkersOK'
  <2>1. SUFFICES ASSUME NEW k \in Generations PROVE WorkerOK(k, workers[k])'
    BY DEF WorkersOK
  <2>2. WorkerOK(k, workers[k])
    BY DEF NetInv, WorkersOK
  <2>3. CASE k = g
    BY <2>3 DEF WorkerOK
  <2>4. CASE k # g
    BY <2>2, <2>4 DEF WorkerOK
  <2>5. QED BY <2>3, <2>4
<1>4. OpsOK'
  <2>1. SUFFICES ASSUME phase # "ended", NEW k \in OpIds PROVE OpOK(k, ops[k], workers[k])'
    BY DEF OpsOK
  <2>2. OpOK(k, ops[k], workers[k]) /\ k \in Generations
    BY <2>1 DEF NetInv, OpsOK, OpIds, Generations
  <2>3. CASE k = g
    <3>1. StatusOK(ops'[g], workers'[g])
      BY <1>1, <2>1 DEF OpGood, StatusOK, Untouched
    <3>2. ops'[g].used /\ ops'[g].gen = g /\ ops[g].used
      BY <1>1, <2>1 DEF OpGood, Untouched
    <3>3. g < nextGeneration'
      BY <2>2, <2>3, <3>2 DEF OpOK
    <3>4. QED BY <2>1, <2>3, <3>1, <3>2, <3>3 DEF OpOK
  <2>4. CASE k # g
    BY <2>2, <2>4 DEF OpOK
  <2>5. QED BY <2>3, <2>4
<1>5. MainOK'
  <2>1. SUFFICES ASSUME main # 0
                 PROVE  phase = "running" /\ ops'[main].used /\ ops'[main].status = Pending
    BY DEF MainOK
  <2>2. phase = "running" /\ ops[main].used /\ ops[main].status = Pending /\ main \in OpIds
    BY <2>1, Capacities DEF NetInv, MainOK, TypeOK, OpIds
  <2>3. QED BY <2>2 DEF Untouched
<1>6. PhaseOK'
  <2>1. ASSUME phase = "ended", NEW k \in OpIds PROVE ops'[k].kind = "none"
    BY <2>1 DEF NetInv, PhaseOK, Untouched
  <2>2. phase = "boot" => nextGeneration = 1 /\ \A h \in HandleIds : handles[h].kind = "none"
    BY DEF NetInv, PhaseOK
  <2>3. QED BY <2>1, <2>2 DEF PhaseOK
<1>7. OwnOK'
  BY DEF OwnOK
<1>8. QED BY <1>2, <1>3, <1>4, <1>5, <1>6, <1>7 DEF NetInv

\* The descriptor of a thread that changes alone.
LEMMA WorkerHolding ==
  ASSUME NEW g \in Generations, NEW ws,
         \A k \in Generations : k # g => ws[k] = workers[k]
  PROVE  /\ HoldingOf(handles, ops, workers)[WorkerOwner(g)] = workers[g].sock
         /\ WorkerOwner(g) \in Owners
         /\ \A o \in Owners : HoldingOf(handles, ops, ws)[o]
              = IF o = WorkerOwner(g) THEN ws[g].sock ELSE HoldingOf(handles, ops, workers)[o]
<1>1. /\ \A h \in HandleIds : HoldingOf(handles, ops, ws)[HandleOwner(h)]
             = HoldingOf(handles, ops, workers)[HandleOwner(h)]
      /\ \A k \in OpIds : HoldingOf(handles, ops, ws)[OpOwner(k)]
             = HoldingOf(handles, ops, workers)[OpOwner(k)]
      /\ \A k \in Generations : k # g => HoldingOf(handles, ops, ws)[WorkerOwner(k)]
             = HoldingOf(handles, ops, workers)[WorkerOwner(k)]
      /\ HoldingOf(handles, ops, ws)[WorkerOwner(g)] = ws[g].sock
      /\ HoldingOf(handles, ops, workers)[WorkerOwner(g)] = workers[g].sock
  BY HoldingIs
<1>2. QED BY <1>1, OwnersAre

\* Steps that only move the thread: it keeps its descriptor, gets a free one
\* or closes the one it has.
LEMMA WorkerMoveInv ==
  ASSUME NetInv, NEW g \in Generations, NEW w \in WorkerRec,
         workers[g].pc \in {"starting", "connecting", "finalize"},
         workers' = [workers EXCEPT ![g] = w],
         UNCHANGED <<handles, ops, nextGeneration, main, phase>>,
         WorkerOK(g, w),
         \/ w.pc \in {"connecting", "finalize", "exited"}
         \/ w.pc = "publishing" /\ w.todo = {"result", "done"},
         \/ fds' = fds /\ w.sock = workers[g].sock
         \/ /\ workers[g].sock = Invalid
            /\ \E f \in Fds : fds[f] = "closed" /\ w.sock = f /\ fds' = [fds EXCEPT ![f] = "socket"]
         \/ w.sock = Invalid /\ fds' = Closed(fds, workers[g].sock)
  PROVE  NetInv'
<1> DEFINE H == HoldingOf(handles, ops, workers)
           H2 == HoldingOf(handles, ops, workers')
<1>1. /\ workers \in [Generations -> WorkerRec] /\ ops \in [OpIds -> OpRec]
      /\ fds \in [Fds -> {"closed", "stdin", "socket"}] /\ g \in OpIds
      /\ phase # "ended" => HeldOnce(H, fds) /\ OpGood(g, ops[g], workers[g])
  BY LiveWorker
<1>2. /\ workers' \in [Generations -> WorkerRec] /\ workers'[g] = w
      /\ \A k \in Generations : k # g => workers'[k] = workers[k]
  BY <1>1
<1>3. fds' \in [Fds -> {"closed", "stdin", "socket"}]
  BY <1>1 DEF Closed
<1>4. /\ H[WorkerOwner(g)] = workers[g].sock /\ WorkerOwner(g) \in Owners
      /\ \A o \in Owners : H2[o] = IF o = WorkerOwner(g) THEN w.sock ELSE H[o]
  <2> DEFINE ws == workers'
  <2>1. \A k \in Generations : k # g => ws[k] = workers[k]
    BY <1>2
  <2> HIDE DEF ws
  <2>2. /\ H[WorkerOwner(g)] = workers[g].sock /\ WorkerOwner(g) \in Owners
        /\ \A o \in Owners : HoldingOf(handles, ops, ws)[o]
                              = IF o = WorkerOwner(g) THEN ws[g].sock ELSE H[o]
    BY <2>1, WorkerHolding
  <2>3. QED BY <1>2, <2>2 DEF ws
<1>5. ASSUME phase # "ended" PROVE Handshake(ops[g], w)
  <2>1. Handshake(ops[g], workers[g])
    BY <1>1, <1>5 DEF OpGood
  <2>2. ~ops[g].done /\ ~ops[g].joined /\ Unpublished(ops[g]) /\ ops[g].kind = "connect"
    BY <2>1 DEF Handshake
  <2>3. QED BY <2>2 DEF Handshake
<1>6. ASSUME phase # "ended" PROVE HeldOnce(H2, fds')
  <2> HIDE DEF H, H2
  <2>1. HeldOnce(H, fds) /\ H[WorkerOwner(g)] \in Fds \cup {Invalid}
    BY <1>1, <1>4, <1>6 DEF WorkerRec
  <2>2. Gained(fds, fds', H[WorkerOwner(g)], w.sock)
    BY <1>4 DEF Gained
  <2>3. QED BY <1>1, <1>4, <2>1, <2>2, HeldChange
<1>7. Untouched(ops[g], ops'[g])
  BY DEF Untouched
<1>8. workers[g].pc # "none" /\ w.pc # "none"
  OBVIOUS
<1> HIDE DEF H, H2
<1>9. phase # "ended" => /\ Handshake(ops'[g], workers'[g])
                         /\ HeldOnce(HoldingOf(handles, ops', workers'), fds')
  BY <1>2, <1>5, <1>6 DEF H2
<1>10. QED BY <1>1, <1>2, <1>3, <1>7, <1>8, <1>9, WorkerStepInv

\* A thread's record after an update of one or two of its fields.
Becomes(ws, ws2, g, pc, sock, todo) ==
  \E w \in WorkerRec : /\ ws2 = [ws EXCEPT ![g] = w]
                       /\ w.pc = pc /\ w.op = ws[g].op /\ w.sock = sock /\ w.todo = todo

LEMMA PcUpdate ==
  ASSUME NEW ws \in [Generations -> WorkerRec], NEW g \in Generations,
         NEW pc \in {"connecting", "finalize", "publishing", "exited"},
         NEW ws2, ws2 = [ws EXCEPT ![g].pc = pc]
  PROVE  Becomes(ws, ws2, g, pc, ws[g].sock, ws[g].todo)
<1> DEFINE v == ws[g]
           w == [v EXCEPT !.pc = pc]
<1>1. v \in WorkerRec /\ ws2 = [ws EXCEPT ![g] = w]
  OBVIOUS
<1> HIDE DEF v
<1>2. w \in WorkerRec /\ w.pc = pc /\ w.op = v.op /\ w.sock = v.sock /\ w.todo = v.todo
  BY <1>1 DEF WorkerRec
<1> HIDE DEF w
<1>3. QED BY <1>1, <1>2 DEF Becomes, v

LEMMA PcSockUpdate ==
  ASSUME NEW ws \in [Generations -> WorkerRec], NEW g \in Generations,
         NEW pc \in {"connecting", "finalize", "publishing", "exited"},
         NEW sock \in Fds \cup {Invalid},
         NEW ws2, ws2 = [ws EXCEPT ![g].pc = pc, ![g].sock = sock]
  PROVE  Becomes(ws, ws2, g, pc, sock, ws[g].todo)
<1> DEFINE v == ws[g]
           w == [v EXCEPT !.pc = pc, !.sock = sock]
<1>1. v \in WorkerRec /\ ws2 = [ws EXCEPT ![g] = w]
  OBVIOUS
<1> HIDE DEF v
<1>2. w \in WorkerRec /\ w.pc = pc /\ w.op = v.op /\ w.sock = sock /\ w.todo = v.todo
  BY <1>1 DEF WorkerRec
<1> HIDE DEF w
<1>3. QED BY <1>1, <1>2 DEF Becomes, v

LEMMA PcTodoUpdate ==
  ASSUME NEW ws \in [Generations -> WorkerRec], NEW g \in Generations,
         NEW pc \in {"connecting", "finalize", "publishing", "exited"},
         NEW todo \in SUBSET {"result", "done"},
         NEW ws2, ws2 = [ws EXCEPT ![g].pc = pc, ![g].todo = todo]
  PROVE  Becomes(ws, ws2, g, pc, ws[g].sock, todo)
<1> DEFINE v == ws[g]
           w == [v EXCEPT !.pc = pc, !.todo = todo]
<1>1. v \in WorkerRec /\ ws2 = [ws EXCEPT ![g] = w]
  OBVIOUS
<1> HIDE DEF v
<1>2. w \in WorkerRec /\ w.pc = pc /\ w.op = v.op /\ w.sock = v.sock /\ w.todo = todo
  BY <1>1 DEF WorkerRec
<1> HIDE DEF w
<1>3. QED BY <1>1, <1>2 DEF Becomes, v

LEMMA WorkerSocketInv ==
  ASSUME NEW g \in Generations, NetInv, WorkerSocket(g)
  PROVE  NetInv'
<1>1. /\ workers[g].pc = "starting" /\ UNCHANGED <<handles, ops, nextGeneration, main, phase>>
  BY DEF WorkerSocket
<1>2. /\ workers \in [Generations -> WorkerRec] /\ WorkerOK(g, workers[g])
      /\ workers[g].op = g
  BY <1>1, LiveWorker
<1>3. workers[g].sock = Invalid /\ workers[g].todo = {} /\ g < nextGeneration
  BY <1>1, <1>2 DEF WorkerOK
<1>4. CASE /\ FreeFds # {} /\ fds' = [fds EXCEPT ![Lowest(FreeFds)] = "socket"]
           /\ workers' = [workers EXCEPT ![g].pc = "connecting", ![g].sock = Lowest(FreeFds)]
  <2> DEFINE f == Lowest(FreeFds)
  <2>1. f \in Fds /\ fds[f] = "closed"
    BY <1>4, FreeFdExists
  <2> HIDE DEF f
  <2>0. Becomes(workers, workers', g, "connecting", f, workers[g].todo)
    BY <1>2, <1>4, <2>1, PcSockUpdate DEF f
  <2>2. PICK w \in WorkerRec :
          /\ workers' = [workers EXCEPT ![g] = w]
          /\ w.pc = "connecting" /\ w.op = workers[g].op /\ w.sock = f
          /\ w.todo = workers[g].todo
    BY <2>0 DEF Becomes
  <2>3. WorkerOK(g, w)
    BY <1>2, <1>3, <2>1, <2>2 DEF WorkerOK
  <2>4. fds' = [fds EXCEPT ![f] = "socket"]
    BY <1>4 DEF f
  <2>5. QED BY <1>1, <1>3, <2>1, <2>2, <2>3, <2>4, WorkerMoveInv
<1>5. CASE workers' = [workers EXCEPT ![g].pc = "finalize"] /\ fds' = fds
  <2>0. Becomes(workers, workers', g, "finalize", workers[g].sock, workers[g].todo)
    BY <1>2, <1>5, PcUpdate
  <2>1. PICK w \in WorkerRec :
          /\ workers' = [workers EXCEPT ![g] = w]
          /\ w.pc = "finalize" /\ w.op = workers[g].op /\ w.sock = workers[g].sock
          /\ w.todo = workers[g].todo
    BY <2>0 DEF Becomes
  <2>2. WorkerOK(g, w)
    BY <1>2, <1>3, <2>1 DEF WorkerOK
  <2>3. QED BY <1>1, <1>5, <2>1, <2>2, WorkerMoveInv
<1>6. QED BY <1>4, <1>5 DEF WorkerSocket

LEMMA WorkerConnectInv ==
  ASSUME NEW g \in Generations, NetInv, WorkerConnect(g)
  PROVE  NetInv'
<1>1. /\ workers[g].pc = "connecting" /\ UNCHANGED <<handles, ops, nextGeneration, main, phase>>
  BY DEF WorkerConnect
<1>2. /\ workers \in [Generations -> WorkerRec] /\ WorkerOK(g, workers[g])
      /\ workers[g].op = g
  BY <1>1, LiveWorker
<1>3. workers[g].todo = {} /\ g < nextGeneration
  BY <1>1, <1>2 DEF WorkerOK
<1>4. CASE workers' = [workers EXCEPT ![g].pc = "finalize"] /\ fds' = fds
  <2>0. Becomes(workers, workers', g, "finalize", workers[g].sock, workers[g].todo)
    BY <1>2, <1>4, PcUpdate
  <2>1. PICK w \in WorkerRec :
          /\ workers' = [workers EXCEPT ![g] = w]
          /\ w.pc = "finalize" /\ w.op = workers[g].op /\ w.sock = workers[g].sock
          /\ w.todo = workers[g].todo
    BY <2>0 DEF Becomes
  <2>2. WorkerOK(g, w)
    BY <1>2, <1>3, <2>1 DEF WorkerOK
  <2>3. QED BY <1>1, <1>4, <2>1, <2>2, WorkerMoveInv
<1>5. CASE /\ workers' = [workers EXCEPT ![g].pc = "finalize", ![g].sock = Invalid]
           /\ fds' = Closed(fds, workers[g].sock)
  <2>0. Becomes(workers, workers', g, "finalize", Invalid, workers[g].todo)
    BY <1>2, <1>5, PcSockUpdate
  <2>1. PICK w \in WorkerRec :
          /\ workers' = [workers EXCEPT ![g] = w]
          /\ w.pc = "finalize" /\ w.op = workers[g].op /\ w.sock = Invalid
          /\ w.todo = workers[g].todo
    BY <2>0 DEF Becomes
  <2>2. WorkerOK(g, w)
    BY <1>2, <1>3, <2>1 DEF WorkerOK
  <2>3. QED BY <1>1, <1>5, <2>1, <2>2, WorkerMoveInv
<1>6. QED BY <1>4, <1>5 DEF WorkerConnect

LEMMA WorkerCheckInv ==
  ASSUME NEW g \in Generations, NetInv, WorkerCheck(g)
  PROVE  NetInv'
<1>1. /\ workers[g].pc = "finalize" /\ UNCHANGED <<handles, ops, nextGeneration, main, phase>>
  BY DEF WorkerCheck
<1>2. /\ workers \in [Generations -> WorkerRec] /\ WorkerOK(g, workers[g])
      /\ workers[g].op = g
  BY <1>1, LiveWorker
<1>3. workers[g].todo = {} /\ g < nextGeneration
  BY <1>1, <1>2 DEF WorkerOK
<1>4. CASE /\ workers' = [workers EXCEPT ![g].pc = "exited", ![g].sock = Invalid]
           /\ fds' = Closed(fds, workers[g].sock)
  <2>0. Becomes(workers, workers', g, "exited", Invalid, workers[g].todo)
    BY <1>2, <1>4, PcSockUpdate
  <2>1. PICK w \in WorkerRec :
          /\ workers' = [workers EXCEPT ![g] = w]
          /\ w.pc = "exited" /\ w.op = workers[g].op /\ w.sock = Invalid
          /\ w.todo = workers[g].todo
    BY <2>0 DEF Becomes
  <2>2. WorkerOK(g, w)
    BY <1>2, <1>3, <2>1 DEF WorkerOK
  <2>3. QED BY <1>1, <1>4, <2>1, <2>2, WorkerMoveInv
<1>5. CASE /\ workers' = [workers EXCEPT ![g].pc = "publishing",
                                         ![g].todo = {"result", "done"}]
           /\ fds' = fds
  <2>0. Becomes(workers, workers', g, "publishing", workers[g].sock, {"result", "done"})
    BY <1>2, <1>5, PcTodoUpdate
  <2>1. PICK w \in WorkerRec :
          /\ workers' = [workers EXCEPT ![g] = w]
          /\ w.pc = "publishing" /\ w.op = workers[g].op /\ w.sock = workers[g].sock
          /\ w.todo = {"result", "done"}
    BY <2>0 DEF Becomes
  <2>2. WorkerOK(g, w)
    BY <1>2, <1>3, <2>1 DEF WorkerOK
  <2>3. QED BY <1>1, <1>5, <2>1, <2>2, WorkerMoveInv
<1>6. QED BY <1>4, <1>5 DEF WorkerCheck

\* The two writes of a thread may come in either order, also after a cancel
\* and after the end of the program.
LEMMA WorkerPublishInv ==
  ASSUME NEW g \in Generations, NEW what \in {"result", "done"}, NetInv,
         WorkerPublish(g, what)
  PROVE  NetInv'
<1> DEFINE v == workers[g]
           op == ops[g]
           rest == v.todo \ {what}
           pc == IF rest = {} THEN "exited" ELSE "publishing"
<1>1. /\ v.pc = "publishing" /\ what \in v.todo
      /\ UNCHANGED <<handles, nextGeneration, fds, main, phase>>
  BY DEF WorkerPublish
<1>2. /\ workers \in [Generations -> WorkerRec] /\ ops \in [OpIds -> OpRec]
      /\ fds \in [Fds -> {"closed", "stdin", "socket"}]
      /\ WorkerOK(g, v) /\ v.op = g /\ g \in OpIds
      /\ phase # "ended" => /\ HeldOnce(HoldingOf(handles, ops, workers), fds)
                            /\ OpGood(g, op, v)
  BY <1>1, LiveWorker
<1>3. v \in WorkerRec /\ op \in OpRec /\ g < nextGeneration
  BY <1>1, <1>2 DEF WorkerOK
<1>4. CASE what = "done"
  <2> DEFINE op2 == [op EXCEPT !.done = TRUE]
             w2 == [v EXCEPT !.todo = rest, !.pc = pc]
  <2>1. workers' = [workers EXCEPT ![g] = w2] /\ ops' = [ops EXCEPT ![g] = op2]
    BY <1>1, <1>2, <1>4 DEF WorkerPublish
  <2> HIDE DEF v, op
  <2>2. w2 \in WorkerRec /\ w2.pc = pc /\ w2.op = v.op /\ w2.sock = v.sock /\ w2.todo = rest
    BY <1>3 DEF WorkerRec
  <2>3. /\ op2 \in OpRec /\ Untouched(op, op2) /\ op2.sock = op.sock
        /\ op2.outcome = op.outcome /\ op2.done
    BY <1>3 DEF OpRec, Untouched
  <2> HIDE DEF w2, op2
  <2>4. /\ workers' \in [Generations -> WorkerRec] /\ workers'[g] = w2
        /\ \A k \in Generations : k # g => workers'[k] = workers[k]
        /\ ops' \in [OpIds -> OpRec] /\ ops'[g] = op2
        /\ \A k \in OpIds : k # g => ops'[k] = ops[k]
    BY <1>2, <2>1, <2>2, <2>3
  <2>5. rest = {} \/ rest = {"result"}
    BY <1>3, <1>4 DEF WorkerRec
  <2>6. WorkerOK(g, w2)
    BY <1>1, <1>2, <1>3, <1>4, <2>2, <2>5 DEF WorkerOK
  <2>7. ASSUME phase # "ended" PROVE Handshake(op2, w2)
    <3>1. Handshake(op, v)
      BY <1>2, <2>7 DEF OpGood
    <3>2. op.kind = "connect" /\ ~op.joined
          /\ IF "result" \in v.todo THEN Unpublished(op) ELSE Published(op)
      BY <1>1, <3>1 DEF Handshake
    <3>3. op2.kind = "connect" /\ ~op2.joined
          /\ IF "result" \in v.todo THEN Unpublished(op2) ELSE Published(op2)
      BY <2>3, <3>2 DEF Untouched, Published, Unpublished
    <3>4. "result" \in v.todo <=> "result" \in rest
      BY <1>4
    <3>5. QED BY <1>4, <2>2, <2>3, <2>5, <3>3, <3>4 DEF Handshake
  <2>8. ASSUME phase # "ended" PROVE HeldOnce(HoldingOf(handles, ops', workers'), fds)
    <3> DEFINE os == ops'
               ws == workers'
    <3>1. /\ \A k \in OpIds : (os[k].used <=> ops[k].used) /\ os[k].sock = ops[k].sock
          /\ \A k \in Generations : ws[k].sock = workers[k].sock
      BY <2>2, <2>3, <2>4 DEF Untouched, v, op
    <3> HIDE DEF os, ws
    <3>2. \A o \in Owners : HoldingOf(handles, os, ws)[o] = HoldingOf(handles, ops, workers)[o]
      BY <3>1, HoldingSame
    <3>3. HeldOnce(HoldingOf(handles, os, ws), fds)
      BY <1>2, <2>8, <3>2, HeldSame
    <3>4. QED BY <3>3 DEF os, ws
  <2>9. w2.pc # "none" /\ workers[g].pc # "none"
    BY <1>1, <2>2 DEF v
  <2>10. QED BY <1>1, <1>2, <2>3, <2>4, <2>6, <2>7, <2>8, <2>9, WorkerStepInv DEF op
<1>5. CASE what = "result"
  <2> DEFINE out == IF v.sock = Invalid THEN Failure ELSE Success
             op1 == [op EXCEPT !.sock = v.sock]
             op2 == [op1 EXCEPT !.outcome = out]
             w1 == [v EXCEPT !.todo = rest, !.pc = pc]
             w2 == [w1 EXCEPT !.sock = Invalid]
  <2>1. workers' = [workers EXCEPT ![g] = w2] /\ ops' = [ops EXCEPT ![g] = op2]
    <3> DEFINE moved == [workers EXCEPT ![g].todo = rest, ![g].pc = pc]
    <3>1. /\ workers' = [moved EXCEPT ![g].sock = Invalid]
          /\ ops' = [ops EXCEPT ![g].sock = v.sock, ![g].outcome = out]
      BY <1>1, <1>2, <1>5 DEF WorkerPublish
    <3>2. moved = [workers EXCEPT ![g] = w1] /\ moved[g] = w1
      BY <1>2
    <3> HIDE DEF moved, w1
    <3>3. workers' = [workers EXCEPT ![g] = w2]
      BY <1>2, <3>1, <3>2
    <3>4. ops' = [ops EXCEPT ![g] = op2]
      BY <1>2, <3>1
    <3>5. QED BY <3>3, <3>4
  <2> HIDE DEF v, op
  <2>2. w1 \in WorkerRec /\ w1.pc = pc /\ w1.op = v.op /\ w1.todo = rest
    BY <1>3 DEF WorkerRec
  <2> HIDE DEF w1
  <2>3. w2 \in WorkerRec /\ w2.pc = pc /\ w2.op = v.op /\ w2.sock = Invalid /\ w2.todo = rest
    BY <2>2 DEF WorkerRec
  <2>4. op1 \in OpRec /\ Untouched(op, op1) /\ op1.sock = v.sock /\ op1.done = op.done
    BY <1>3 DEF OpRec, WorkerRec, Untouched
  <2> HIDE DEF op1
  <2>5. /\ op2 \in OpRec /\ Untouched(op1, op2) /\ op2.sock = op1.sock
        /\ op2.outcome = out /\ op2.done = op1.done
    BY <2>4 DEF OpRec, Untouched
  <2>6. Untouched(op, op2)
    BY <2>4, <2>5 DEF Untouched
  <2>7. Published(op2)
    BY <1>3, <2>4, <2>5 DEF Published, WorkerRec, Success, Failure
  <2> HIDE DEF w2, op2, out
  <2>8. /\ workers' \in [Generations -> WorkerRec] /\ workers'[g] = w2
        /\ \A k \in Generations : k # g => workers'[k] = workers[k]
        /\ ops' \in [OpIds -> OpRec] /\ ops'[g] = op2
        /\ \A k \in OpIds : k # g => ops'[k] = ops[k]
    BY <1>2, <2>1, <2>3, <2>5
  <2>9. rest = {} \/ rest = {"done"}
    BY <1>3, <1>5 DEF WorkerRec
  <2>10. WorkerOK(g, w2)
    BY <1>1, <1>2, <1>3, <2>3, <2>9 DEF WorkerOK
  <2>11. ASSUME phase # "ended"
         PROVE  Handshake(op2, w2) /\ op.used /\ op.sock = Invalid
    <3>1. Handshake(op, v) /\ op.used
      BY <1>2, <2>11 DEF OpGood
    <3>2. /\ op.kind = "connect" /\ ~op.joined /\ (op.done <=> "done" \notin v.todo)
          /\ op.sock = Invalid
      BY <1>1, <1>5, <3>1 DEF Handshake, Unpublished
    <3>3. op2.kind = "connect" /\ ~op2.joined /\ (op2.done <=> "done" \notin rest)
      BY <1>5, <2>4, <2>5, <2>6, <3>2 DEF Untouched
    <3>4. QED BY <2>3, <2>7, <2>9, <3>1, <3>2, <3>3 DEF Handshake
  <2>12. ASSUME phase # "ended" PROVE HeldOnce(HoldingOf(handles, ops', workers'), fds)
    <3> DEFINE os == ops'
               ws == workers'
               H == HoldingOf(handles, ops, workers)
               H2 == HoldingOf(handles, os, ws)
    <3>1. /\ os[g] = op2 /\ ws[g] = w2 /\ op2.used /\ op2.sock = v.sock
          /\ \A k \in OpIds : k # g => os[k] = ops[k]
          /\ \A k \in Generations : k # g => ws[k] = workers[k]
          /\ ops[g] = op /\ workers[g] = v
      BY <2>4, <2>5, <2>6, <2>8, <2>11, <2>12 DEF Untouched, v, op
    <3> HIDE DEF os, ws
    <3>2. /\ H[OpOwner(g)] = Invalid /\ H[WorkerOwner(g)] = v.sock
          /\ H2[OpOwner(g)] = v.sock /\ H2[WorkerOwner(g)] = Invalid
      BY <1>2, <2>3, <2>11, <2>12, <3>1, HoldingIs
    <3>3. /\ \A h \in HandleIds : H2[HandleOwner(h)] = H[HandleOwner(h)]
          /\ \A k \in OpIds : k # g => H2[OpOwner(k)] = H[OpOwner(k)]
          /\ \A k \in Generations : k # g => H2[WorkerOwner(k)] = H[WorkerOwner(k)]
      BY <3>1, HoldingIs
    <3>4. HeldOnce(H, fds)
      BY <1>2, <2>12
    <3> HIDE DEF H, H2
    <3>5. /\ OpOwner(g) \in Owners /\ WorkerOwner(g) \in Owners
          /\ WorkerOwner(g) # OpOwner(g)
      BY <1>2, OwnersAre
    <3>6. \A o \in Owners : H2[o] = IF o = WorkerOwner(g) THEN Invalid
                                    ELSE IF o = OpOwner(g) THEN H[WorkerOwner(g)] ELSE H[o]
      BY <3>2, <3>3, OwnersAre
    <3>7. HeldOnce(H2, fds)
      BY <3>2, <3>4, <3>5, <3>6, HeldMove
    <3>8. QED BY <3>7 DEF H2, os, ws
  <2>13. w2.pc # "none" /\ workers[g].pc # "none"
    BY <1>1, <2>3 DEF v
  <2>14. QED BY <1>1, <1>2, <2>6, <2>8, <2>10, <2>11, <2>12, <2>13, WorkerStepInv DEF op
<1>6. QED BY <1>4, <1>5

-----------------------------------------------------------------------------
(* The whole layer: start, end, and every step between.                    *)

LEMMA InitInv == Init => NetInv
<1>1. SUFFICES ASSUME Init PROVE NetInv
  OBVIOUS
<1>2. handles \in [HandleIds -> HandleRec] /\ \A h \in HandleIds : handles[h].kind = "none"
  BY <1>1, Capacities DEF Init, HandleRec, Fds
<1>3. ops \in [OpIds -> OpRec] /\ \A i \in OpIds : ops[i] = ZeroOp
  BY <1>1, Records DEF Init
<1>4. workers \in [Generations -> WorkerRec] /\ \A g \in Generations : workers[g] = NoWorker
  BY <1>1, Records DEF Init
<1>5. /\ fds \in [Fds -> {"closed", "stdin", "socket"}] /\ \A f \in Fds : fds[f] # "socket"
      /\ nextGeneration = 1 /\ main = 0 /\ phase = "boot"
  BY <1>1 DEF Init
<1>6. TypeOK
  BY <1>2, <1>3, <1>4, <1>5, Capacities, TypeParts
<1>7. WorkersOK
  BY <1>4 DEF WorkersOK, WorkerOK, NoWorker
<1>8. OpsOK
  <2>1. ~ZeroOp.used /\ \A i \in OpIds : ~(i < 1)
    BY Capacities DEF ZeroOp, OpIds
  <2>2. QED BY <1>3, <1>5, <2>1 DEF OpsOK, OpOK
<1>9. MainOK /\ PhaseOK
  BY <1>2, <1>5 DEF MainOK, PhaseOK
<1>10. OwnOK
  <2>1. ~ZeroOp.used /\ NoWorker.sock = Invalid
    BY DEF ZeroOp, NoWorker
  <2>2. \A o \in Owners : HoldingOf(handles, ops, workers)[o] = Invalid
    BY <1>2, <1>3, <1>4, <2>1, HoldingIs, OwnersAre
  <2>3. Invalid \notin Fds
    BY Capacities DEF Invalid, Fds
  <2>4. QED BY <1>5, <2>2, <2>3 DEF OwnOK, HeldOnce
<1>11. QED BY <1>6, <1>7, <1>8, <1>9, <1>10 DEF NetInv

LEMMA ResetTypes ==
  ASSUME TypeOK, NetReset
  PROVE  /\ handles' \in [HandleIds -> HandleRec]
         /\ \A h \in HandleIds : handles'[h] = NoHandle
         /\ ops' \in [OpIds -> OpRec] /\ \A i \in OpIds : ops'[i] = ZeroOp
         /\ fds' \in [Fds -> {"closed", "stdin", "socket"}]
         /\ \A f \in Fds : fds'[f] = "socket" => fds[f] = "socket"
         /\ nextGeneration' = nextGeneration /\ workers' = workers /\ main' = main
BY Records DEF NetReset, TypeOK

LEMMA BootInv == NetInv /\ Boot => NetInv'
<1>1. SUFFICES ASSUME NetInv, Boot PROVE NetInv'
  OBVIOUS
<1>2. /\ phase = "boot" /\ phase' = "running" /\ TypeOK /\ NetReset /\ nextGeneration = 1
      /\ \A h \in HandleIds : handles[h].kind = "none"
      /\ HeldOnce(HoldingOf(handles, ops, workers), fds)
  BY <1>1 DEF Boot, NetInv, PhaseOK, OwnOK
<1>3. /\ handles' \in [HandleIds -> HandleRec]
      /\ \A h \in HandleIds : handles'[h] = NoHandle
      /\ ops' \in [OpIds -> OpRec] /\ \A i \in OpIds : ops'[i] = ZeroOp
      /\ fds' \in [Fds -> {"closed", "stdin", "socket"}]
      /\ \A f \in Fds : fds'[f] = "socket" => fds[f] = "socket"
      /\ nextGeneration' = nextGeneration /\ workers' = workers /\ main' = main
  BY <1>2, ResetTypes
<1>4. \A g \in Generations : workers[g] = NoWorker
  BY <1>1, <1>2, Capacities DEF NetInv, WorkersOK, WorkerOK, Generations
<1>5. ~ZeroOp.used /\ NoHandle.kind = "none" /\ NoWorker.sock = Invalid
  BY DEF ZeroOp, NoHandle, NoWorker
<1>6. \A i \in OpIds : OpOK(i, ops[i], workers[i])
  BY <1>1, <1>2 DEF NetInv, OpsOK
<1>7. \A i \in OpIds : ops[i] = ZeroOp
  BY <1>2, <1>6, Capacities DEF OpOK, OpIds
<1>8. TypeOK'
  BY <1>2, <1>3 DEF TypeOK, HandleRec, OpRec
<1>9. WorkersOK'
  BY <1>1, <1>3 DEF NetInv, WorkersOK, WorkerOK
<1>10. OpsOK'
  BY <1>3, <1>6, <1>7 DEF OpsOK, OpOK
<1>11. MainOK' /\ PhaseOK'
  BY <1>1, <1>2, <1>3 DEF NetInv, MainOK, PhaseOK
<1>12. OwnOK'
  <2>1. \A o \in Owners : HoldingOf(handles, ops, workers)[o] = Invalid
    BY <1>2, <1>4, <1>5, <1>7, HoldingIs, OwnersAre
  <2>2. \A o \in Owners : HoldingOf(handles', ops', workers')[o] = Invalid
    <3> DEFINE hs == handles'
               os == ops'
    <3>1. (\A h \in HandleIds : hs[h] = NoHandle) /\ (\A i \in OpIds : os[i] = ZeroOp)
      BY <1>3
    <3> HIDE DEF hs, os
    <3>2. \A o \in Owners : HoldingOf(hs, os, workers)[o] = Invalid
      BY <1>4, <1>5, <3>1, HoldingIs, OwnersAre
    <3>3. QED BY <1>3, <3>2 DEF hs, os
  <2>3. Invalid \notin Fds
    BY Capacities DEF Invalid, Fds
  <2>4. \A f \in Fds : fds[f] # "socket"
    BY <1>2, <2>1, <2>3 DEF HeldOnce
  <2>5. QED BY <1>3, <2>2, <2>3, <2>4 DEF OwnOK, HeldOnce
<1>13. QED BY <1>8, <1>9, <1>10, <1>11, <1>12 DEF NetInv

LEMMA EndInv == NetInv /\ End => NetInv'
<1>1. SUFFICES ASSUME NetInv, End PROVE NetInv'
  OBVIOUS
<1>2. /\ phase = "running" /\ main = 0 /\ phase' = "ended" /\ TypeOK /\ NetReset
  BY <1>1 DEF End, Idle, NetInv
<1>3. /\ handles' \in [HandleIds -> HandleRec]
      /\ ops' \in [OpIds -> OpRec] /\ \A i \in OpIds : ops'[i] = ZeroOp
      /\ fds' \in [Fds -> {"closed", "stdin", "socket"}]
      /\ nextGeneration' = nextGeneration /\ workers' = workers /\ main' = main
  BY <1>2, ResetTypes
<1>4. TypeOK'
  BY <1>2, <1>3 DEF TypeOK, HandleRec, OpRec
<1>5. WorkersOK'
  BY <1>1, <1>3 DEF NetInv, WorkersOK, WorkerOK
<1>6. OpsOK' /\ MainOK' /\ PhaseOK' /\ OwnOK'
  BY <1>2, <1>3 DEF OpsOK, MainOK, PhaseOK, OwnOK, ZeroOp
<1>7. QED BY <1>4, <1>5, <1>6 DEF NetInv

LEMMA StutterInv == NetInv /\ UNCHANGED vars => NetInv'
BY DEF NetInv, TypeOK, WorkersOK, WorkerOK, OpsOK, OpOK, MainOK, PhaseOK, OwnOK, vars

LEMMA NextInv == NetInv /\ [Next]_vars => NetInv'
<1>1. SUFFICES ASSUME NetInv, [Next]_vars PROVE NetInv'
  OBVIOUS
<1>2. CASE Boot
  BY <1>1, <1>2, BootInv
<1>3. CASE End
  BY <1>1, <1>3, EndInv
<1>4. CASE Exited \/ UNCHANGED vars
  BY <1>1, <1>4, StutterInv DEF Exited
<1>5. ASSUME NEW kind \in {"listener", "stream", "udp"}, OpenHandle(kind) PROVE NetInv'
  BY <1>1, <1>5, OpenHandleInv
<1>6. CASE TcpAccept
  BY <1>1, <1>6, OpenHandleInv DEF TcpAccept
<1>7. ASSUME NEW h \in HandleIds, HandleClose(h) PROVE NetInv'
  BY <1>1, <1>7, HandleCloseInv
<1>8. CASE StartConnectFails \/ StartConnect
  BY <1>1, <1>8, StartConnectFailsInv, StartConnectInv
<1>9. ASSUME NEW h \in HandleIds, StartTransfer("read", h, 0) PROVE NetInv'
  <2>1. 0 \in 0..MaxBytes
    BY Capacities
  <2>2. QED BY <1>1, <1>9, <2>1, StartTransferInv
<1>10. ASSUME NEW h \in HandleIds, NEW len \in 0..MaxBytes, StartTransfer("write", h, len)
       PROVE  NetInv'
  BY <1>1, <1>10, StartTransferInv
<1>11. ASSUME NEW i \in OpIds, Poll(i) \/ Cancel(i) \/ ReadResult(i) \/ AwaitBegin(i)
       PROVE  NetInv'
  BY <1>1, <1>11, PollInv, CancelInv, ReadResultInv, AwaitBeginInv
<1>12. CASE AwaitStep
  BY <1>1, <1>12, AwaitStepInv
<1>13. ASSUME NEW g \in Generations, Worker(g) PROVE NetInv'
  BY <1>1, <1>13, WorkerSocketInv, WorkerConnectInv, WorkerCheckInv, WorkerPublishInv
  DEF Worker
<1>14. QED BY <1>1, <1>2, <1>3, <1>4, <1>5, <1>6, <1>7, <1>8, <1>9, <1>10, <1>11, <1>12,
              <1>13 DEF Next

\* The invariant holds in every state the layer reaches, for tables of any
\* size and any interleaving of the program's thread with the connect threads.
THEOREM Inductive == Spec => []NetInv
<1>1. QED BY InitInv, NextInv, PTL DEF Spec

\* Every record, handle and thread of the layer has a value of its type: no
\* step leaves the tables.
THEOREM TypeCorrect == Spec => []TypeOK
<1>1. NetInv => TypeOK
  BY DEF NetInv
<1>2. QED BY <1>1, Inductive, PTL

LEMMA OwnsIsHolding ==
  ASSUME NEW o \in Owners, NEW f \in Fds
  PROVE  Owns(o, f) <=> HoldingOf(handles, ops, workers)[o] = f
<1>1. Invalid \notin Fds
  BY Capacities DEF Invalid, Fds
<1>2. QED BY <1>1 DEF Owns, HoldingOf, Owners

\* No two of the handles, operation records and threads ever hold the same
\* descriptor, and a held descriptor is an open socket
\* (native_net_async_finalize_connect_worker hands it over, it does not copy it).
THEOREM OwnedOnce == Spec => []DescriptorsOwnedOnce
<1>1. NetInv => DescriptorsOwnedOnce
  BY OwnsIsHolding DEF NetInv, OwnOK, HeldOnce, DescriptorsOwnedOnce
<1>2. QED BY <1>1, Inductive, PTL

\* While the program runs, every open socket is in a handle, in a record or in
\* the hands of a thread: none is lost on any path of cancel, failure or a full
\* handle table.
THEOREM NoLeak == Spec => []NoLeakedDescriptor
<1>1. NetInv => NoLeakedDescriptor
  BY OwnsIsHolding DEF NetInv, OwnOK, HeldOnce, NoLeakedDescriptor
<1>2. QED BY <1>1, Inductive, PTL

\* A write that succeeds after any number of partial sends reports exactly the
\* bytes that were sent.
THEOREM WritesReport == Spec => []WriteReportsItsBytes
<1>1. NetInv => WriteReportsItsBytes
  <2>1. SUFFICES ASSUME NetInv, NEW i \in OpIds, ops[i].kind = "write",
                        ops[i].status = Success
                 PROVE  ops[i].result = ops[i].sent
    BY DEF WriteReportsItsBytes
  <2>2. CASE phase = "ended"
    BY <2>1, <2>2 DEF NetInv, PhaseOK
  <2>3. CASE phase # "ended"
    BY <2>1, <2>3 DEF NetInv, OpsOK, OpOK, StatusOK, ZeroOp
  <2>4. QED BY <2>2, <2>3
<1>2. QED BY <1>1, Inductive, PTL

-----------------------------------------------------------------------------
(* A completed operation stays as it is.                                   *)

Final == \A i \in OpIds : (phase' = "running" /\ ops[i].status # Pending) =>
            ops'[i].status = ops[i].status /\ ops'[i].result = ops[i].result

\* A step that rewrites one record is harmless when that record was pending.
LEMMA PendingWritten ==
  ASSUME ops \in [OpIds -> OpRec], NEW i \in OpIds, NEW op, ops[i].status = Pending,
         ops' = [ops EXCEPT ![i] = op]
  PROVE  Final
BY DEF Final

LEMMA StartFinal ==
  ASSUME NetInv, Idle, UnusedOps # {}, NEW op, ops' = [ops EXCEPT ![Lowest(UnusedOps)] = op]
  PROVE  Final
<1>1. ops \in [OpIds -> OpRec] /\ TypeOK /\ OpsOK /\ phase # "ended"
  BY TypeParts DEF NetInv, Idle
<1>2. Lowest(UnusedOps) \in OpIds /\ ops[Lowest(UnusedOps)].status = Pending
  BY <1>1, UnusedIsNext DEF ZeroOp
<1>3. QED BY <1>1, <1>2, PendingWritten

LEMMA WorkerFinal ==
  ASSUME NetInv, NEW g \in Generations, Worker(g)
  PROVE  Final
<1>1. ops \in [OpIds -> OpRec]
  BY TypeParts DEF NetInv
<1>2. CASE WorkerSocket(g) \/ WorkerConnect(g) \/ WorkerCheck(g)
  BY <1>2 DEF WorkerSocket, WorkerConnect, WorkerCheck, Final
<1>3. ASSUME NEW w \in {"result", "done"}, WorkerPublish(g, w) PROVE Final
  <2>1. workers[g].op = g /\ g \in OpIds
    BY <1>3, LiveWorker DEF WorkerPublish
  <2> DEFINE a == workers[g].sock
             b == IF a = Invalid THEN Failure ELSE Success
  <2>2. \/ ops' = [ops EXCEPT ![g].sock = a, ![g].outcome = b]
        \/ ops' = [ops EXCEPT ![g].done = TRUE]
    BY <1>3, <2>1 DEF WorkerPublish
  <2> HIDE DEF a, b
  <2>3. ops[g] \in OpRec
    BY <1>1, <2>1
  <2>4. CASE ops' = [ops EXCEPT ![g].sock = a, ![g].outcome = b]
    BY <1>1, <2>1, <2>3, <2>4 DEF Final, OpRec
  <2>5. CASE ops' = [ops EXCEPT ![g].done = TRUE]
    BY <1>1, <2>1, <2>3, <2>5 DEF Final, OpRec
  <2>6. QED BY <2>2, <2>4, <2>5
<1>4. QED BY <1>2, <1>3 DEF Worker

LEMMA NextFinal == NetInv /\ Next => Final
<1>1. SUFFICES ASSUME NetInv, Next PROVE Final
  OBVIOUS
<1>2. ops \in [OpIds -> OpRec] /\ TypeOK /\ MainOK
  BY <1>1, TypeParts DEF NetInv
<1>3. CASE Boot
  <2>1. \A i \in OpIds : OpOK(i, ops[i], workers[i]) /\ ~(i < nextGeneration)
    BY <1>1, <1>3, Capacities DEF Boot, NetInv, OpsOK, PhaseOK, OpIds
  <2>2. \A i \in OpIds : ops[i].status = Pending
    BY <2>1 DEF OpOK, ZeroOp
  <2>3. QED BY <2>2 DEF Final
<1>4. CASE End
  BY <1>4 DEF End, Final
<1>5. CASE \/ Exited \/ TcpAccept
           \/ \E kind \in {"listener", "stream", "udp"} : OpenHandle(kind)
           \/ \E h \in HandleIds : HandleClose(h)
           \/ \E i \in OpIds : AwaitBegin(i)
  BY <1>5 DEF Exited, TcpAccept, OpenHandle, HandleClose, AwaitBegin, vars, Final
<1>6. CASE StartConnectFails \/ StartConnect
  BY <1>1, <1>6, StartFinal DEF StartConnectFails, StartConnect
<1>7. ASSUME NEW kind, NEW h, NEW len, StartTransfer(kind, h, len) PROVE Final
  <2>1. \E op : ops' = [ops EXCEPT ![Lowest(UnusedOps)] = op]
    BY <1>7 DEF StartTransfer, Put
  <2>2. QED BY <1>1, <1>7, <2>1, StartFinal DEF StartTransfer
<1>8. ASSUME NEW i \in OpIds, Poll(i) \/ Cancel(i) PROVE Final
  <2>1. ops[i].status = Pending /\ \E op : ops' = [ops EXCEPT ![i] = op]
    BY <1>8 DEF Poll, Cancel, Put
  <2>2. QED BY <1>2, <2>1, PendingWritten
<1>9. ASSUME NEW i \in OpIds, ReadResult(i) PROVE Final
  <2> DEFINE s == FinalizeWorker(At(i))
  <2>1. phase = "running" /\ ops[i].used /\ ToFinalize(ops[i]) /\ Joinable(i)
    BY <1>9 DEF ReadResult, Idle
  <2>2. ops' = [ops EXCEPT ![i] = s.op]
    BY <1>1, <1>9, <2>1, UsedOp DEF ReadResult, MaybeFinalize, Put
  <2>3. ops[i].status # Pending => s.op.status = ops[i].status /\ s.op.result = ops[i].result
    BY <1>1, <1>2, <2>1, UsedOp, FinalizeGood
  <2> HIDE DEF s
  <2>4. QED BY <1>2, <2>2, <2>3 DEF Final
<1>10. CASE AwaitStep
  <2>1. main \in OpIds /\ ops[main].status = Pending
    BY <1>2, <1>10, Capacities DEF AwaitStep, MainOK, TypeOK, OpIds
  <2>2. \E op : ops' = [ops EXCEPT ![main] = op]
    BY <1>10 DEF AwaitStep, Put
  <2>3. QED BY <1>2, <2>1, <2>2, PendingWritten
<1>11. ASSUME NEW g \in Generations, Worker(g) PROVE Final
  BY <1>1, <1>11, WorkerFinal
<1>12. QED BY <1>1, <1>3, <1>4, <1>5, <1>6, <1>7, <1>8, <1>9, <1>10, <1>11 DEF Next

\* No step of any thread changes the status or the result of an operation that
\* has completed: a worker that finishes after a cancel does not revive it.
THEOREM CompletedIsFinal == Spec => TerminalIsFinal
<1>1. NetInv /\ [Next]_vars => [Final]_vars
  BY NextFinal
<1>2. QED BY <1>1, Inductive, PTL DEF Spec, TerminalIsFinal, Final
=============================================================================
