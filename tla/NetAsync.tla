------------------------------ MODULE NetAsync ------------------------------
(***************************************************************************)
(* The TCP layer of the native host (airun_net_host.inc): the table of     *)
(* socket handles, the table of asynchronous operations behind             *)
(* sys.net.tcp.*Start and sys.net.async.*, and the threads that connect.   *)
(*                                                                         *)
(* Actors: the program's thread, which makes one syscall at a time (an     *)
(* await is a loop and takes one step per iteration), and one thread per   *)
(* started connect.  They share the operation record without a lock; the   *)
(* program's thread reads what a worker published only after joining it.   *)
(*                                                                         *)
(* The process runs one program: run_native_compiled_program resets the    *)
(* layer before the program and again after it.  Descriptors are numbers   *)
(* given out lowest first, as POSIX does; 0 is standard input.             *)
(*                                                                         *)
(* Left out: TLS (refused outside macOS), host names, error texts, the     *)
(* bytes themselves, and the blocking calls tcpRead, tcpWrite, udpSend and *)
(* udpRecv, which change none of this state.                               *)
(***************************************************************************)
EXTENDS Integers, FiniteSets

CONSTANTS
    HandleCapacity,   \* NATIVE_NET_HANDLE_CAPACITY
    AsyncCapacity,    \* NATIVE_NET_ASYNC_CAPACITY
    MaxFd,            \* the highest descriptor the process may have
    MaxBytes          \* bound on the length of one write

ASSUME NetCapacityAssumption ==
    /\ HandleCapacity \in Nat \ {0}
    /\ AsyncCapacity \in Nat \ {0}
    /\ MaxFd \in Nat
    /\ MaxBytes \in Nat

VARIABLES
    handles,          \* g_native_net_handles
    ops,              \* g_native_net_async_ops
    nextGeneration,   \* g_native_net_async_next_generation
    workers,          \* per generation: where its connect thread is
    fds,              \* the process's descriptor table
    main,             \* 0, or the operation the program's thread awaits
    phase             \* "boot", "running" or "ended"

vars == <<handles, ops, nextGeneration, workers, fds, main, phase>>

Invalid == -1         \* NATIVE_INVALID_SOCKET
Pending == 0
Success == 1
Failure == -1
Canceled == -2

HandleIds == 1..HandleCapacity
OpIds == 1..AsyncCapacity
Fds == 0..MaxFd
Generations == 1..AsyncCapacity   \* operations are not freed during a run

\* A record after memset: its worker_socket is descriptor 0, not Invalid.
ZeroOp == [used |-> FALSE, kind |-> "none", status |-> Pending, handle |-> 0,
           gen |-> 0, done |-> FALSE, joined |-> FALSE, outcome |-> 0,
           canceled |-> FALSE, sock |-> 0, len |-> 0, off |-> 0, result |-> 0,
           sent |-> 0]    \* sent: ghost, the bytes send() has taken for it

NoHandle == [kind |-> "none", sock |-> Invalid]
NoWorker == [pc |-> "none", op |-> 0, sock |-> Invalid, todo |-> {}]

Lowest(S) == CHOOSE x \in S : \A y \in S : x <= y
FreeFds == {f \in Fds : fds[f] = "closed"}
Streams(hs) == {h \in HandleIds : hs[h].kind = "stream"}
UnusedHandles(hs) == {h \in HandleIds : hs[h].kind = "none"}

Closed(table, f) == IF f \in Fds THEN [table EXCEPT ![f] = "closed"] ELSE table

-----------------------------------------------------------------------------
(* The helpers of the layer, on what they may change: an operation record, *)
(* the handle table and the descriptor table.                              *)

At(i) == [op |-> ops[i], handles |-> handles, fds |-> fds]

ReleasePendingBytes(op) == [op EXCEPT !.len = 0, !.off = 0]

SetSuccess(s, value) ==
    [s EXCEPT !.op = [ReleasePendingBytes(s.op) EXCEPT !.status = Success,
                                                       !.result = value]]

SetFailure(s) ==
    [s EXCEPT !.op = [ReleasePendingBytes(s.op) EXCEPT !.status = Failure,
                                                       !.result = 0]]

CloseWorkerSocket(s) ==
    [s EXCEPT !.fds = Closed(s.fds, s.op.sock), !.op.sock = Invalid]

\* Mutant: the record keeps the descriptor it has handed over.
HandOverKeepsSocket(s) ==
    LET h == Lowest(UnusedHandles(s.handles))
    IN SetSuccess([s EXCEPT !.handles[h] = [kind |-> "stream", sock |-> s.op.sock],
                            !.op.handle = h], h)

\* The socket the worker published becomes a handle of the program.
HandOver(s) ==
    LET h == Lowest(UnusedHandles(s.handles))
    IN SetSuccess([s EXCEPT !.handles[h] = [kind |-> "stream", sock |-> s.op.sock],
                            !.op.sock = Invalid,
                            !.op.handle = h], h)

ToFinalize(op) == op.kind = "connect" /\ op.done /\ ~op.joined

\* Mutant: a worker that finished late brings a canceled operation back.
FinalizeIgnoresCancel(s) ==
    LET j == [s EXCEPT !.op.joined = TRUE]
    IN IF j.op.outcome # Success THEN SetFailure(j)
       ELSE IF j.fds[j.op.sock] = "closed" \/ UnusedHandles(j.handles) = {}
            THEN SetFailure(CloseWorkerSocket(j))
       ELSE HandOver(j)

\* Mutant: no room in the handle table, and the socket is not closed.
FinalizeLeaksWhenFull(s) ==
    LET j == [s EXCEPT !.op.joined = TRUE]
    IN IF j.op.status = Canceled \/ j.op.canceled THEN CloseWorkerSocket(j)
       ELSE IF j.op.outcome # Success THEN SetFailure(j)
       ELSE IF UnusedHandles(j.handles) = {}
            THEN SetFailure([j EXCEPT !.op.sock = Invalid])
       ELSE HandOver(j)

FinalizeWorker(s) ==
    LET j == [s EXCEPT !.op.joined = TRUE]
    IN IF j.op.status = Canceled \/ j.op.canceled THEN CloseWorkerSocket(j)
       ELSE IF j.op.outcome # Success THEN SetFailure(j)
       ELSE IF j.fds[j.op.sock] = "closed" \/ UnusedHandles(j.handles) = {}
            THEN SetFailure(CloseWorkerSocket(j))
       ELSE HandOver(j)

MaybeFinalize(s) == IF ToFinalize(s.op) THEN FinalizeWorker(s) ELSE s

\* Mutant: the first send that takes anything completes the write.
WriteOutcomesShort(s) ==
    LET left == s.op.len - s.op.off
        Took(k) == [s EXCEPT !.op.off = @ + k, !.op.sent = @ + k]
    IN IF left = 0 THEN {SetSuccess(s, s.op.len)}
       ELSE {SetFailure(s)} \cup {SetSuccess(Took(k), s.op.len) : k \in 1..left}

\* One attempt to write: nothing taken, an error, or k of the bytes left.
WriteOutcomes(s) ==
    LET left == s.op.len - s.op.off
        Took(k) == [s EXCEPT !.op.off = @ + k, !.op.sent = @ + k]
    IN IF left = 0 THEN {SetSuccess(s, s.op.len)}
       ELSE {SetFailure(s)}
            \cup {IF k >= left THEN SetSuccess(Took(k), s.op.len) ELSE Took(k) :
                  k \in 1..left}

\* native_net_async_process: the ways one attempt at an operation may end.
ProcessOutcomes(s) ==
    IF s.op.status # Pending THEN {s}
    ELSE IF s.op.kind = "connect" THEN {MaybeFinalize(s)}
    ELSE IF s.op.handle \notin Streams(s.handles) THEN {SetFailure(s)}
    ELSE {s} \cup IF s.op.kind = "read" THEN {SetSuccess(s, 0), SetFailure(s)}
                  ELSE WriteOutcomes(s)

\* The joins a step makes wait for the thread.
Joinable(i) == ToFinalize(ops[i]) => workers[ops[i].gen].pc = "exited"

Put(i, s) == /\ ops' = [ops EXCEPT ![i] = s.op]
             /\ handles' = s.handles
             /\ fds' = s.fds

-----------------------------------------------------------------------------
Idle == phase = "running" /\ main = 0

\* A socket under a new handle: the blocking connect, listen and udpBind.
\* When the table is full the socket is closed again.
OpenHandle(kind) ==
    /\ Idle
    /\ FreeFds # {} /\ UnusedHandles(handles) # {}
    /\ LET f == Lowest(FreeFds)
       IN /\ fds' = [fds EXCEPT ![f] = "socket"]
          /\ handles' = [handles EXCEPT ![Lowest(UnusedHandles(handles))] =
                            [kind |-> kind, sock |-> f]]
    /\ UNCHANGED <<ops, nextGeneration, workers, main, phase>>

TcpAccept == (\E h \in HandleIds : handles[h].kind = "listener") /\ OpenHandle("stream")

HandleClose(h) ==
    /\ Idle
    /\ handles[h].kind # "none"
    /\ fds' = Closed(fds, handles[h].sock)
    /\ handles' = [handles EXCEPT ![h] = NoHandle]
    /\ UNCHANGED <<ops, nextGeneration, workers, main, phase>>

UnusedOps == {i \in OpIds : ~ops[i].used}

\* Mutant: the counter is incremented before it is stored.
AsyncAllocatePreIncrement ==
    [ZeroOp EXCEPT !.used = TRUE, !.gen = nextGeneration + 1, !.sock = Invalid]

\* native_net_async_allocate
AsyncAllocate == [ZeroOp EXCEPT !.used = TRUE, !.gen = nextGeneration, !.sock = Invalid]

\* connectStart with arguments, a name or a thread that fails: no worker.
StartConnectFails ==
    /\ Idle /\ UnusedOps # {}
    /\ \E kind \in {"none", "connect"} :
          ops' = [ops EXCEPT ![Lowest(UnusedOps)] =
                     [AsyncAllocate EXCEPT !.kind = kind, !.status = Failure]]
    /\ nextGeneration' = nextGeneration + 1
    /\ UNCHANGED <<handles, workers, fds, main, phase>>

StartConnect ==
    /\ Idle /\ UnusedOps # {}
    /\ LET i == Lowest(UnusedOps)
       IN /\ ops' = [ops EXCEPT ![i] = [AsyncAllocate EXCEPT !.kind = "connect"]]
          /\ workers' = [workers EXCEPT ![nextGeneration] =
                            [NoWorker EXCEPT !.pc = "starting", !.op = i]]
    /\ nextGeneration' = nextGeneration + 1
    /\ UNCHANGED <<handles, fds, main, phase>>

\* readStart and writeStart: a first attempt is made at once.
StartTransfer(kind, h, len) ==
    /\ Idle /\ UnusedOps # {}
    /\ LET i == Lowest(UnusedOps)
           new == [AsyncAllocate EXCEPT !.kind = kind, !.handle = h, !.len = len]
       IN \E s \in IF h \in Streams(handles)
                   THEN ProcessOutcomes([At(i) EXCEPT !.op = new])
                   ELSE {[At(i) EXCEPT !.op = [AsyncAllocate EXCEPT !.status = Failure]]} :
             Put(i, s)
    /\ nextGeneration' = nextGeneration + 1
    /\ UNCHANGED <<workers, main, phase>>

Poll(i) ==
    /\ Idle /\ ops[i].used /\ ops[i].status = Pending
    /\ Joinable(i)
    /\ \E s \in ProcessOutcomes(At(i)) : Put(i, s)
    /\ UNCHANGED <<nextGeneration, workers, main, phase>>

Cancel(i) ==
    /\ Idle /\ ops[i].used /\ ops[i].status = Pending
    /\ Joinable(i)
    /\ LET s == MaybeFinalize([At(i) EXCEPT !.op.canceled = TRUE])
       IN Put(i, [s EXCEPT !.op = [ReleasePendingBytes(s.op) EXCEPT !.handle = 0,
                                                                   !.status = Canceled]])
    /\ UNCHANGED <<nextGeneration, workers, main, phase>>

\* resultInt, resultBytes and error finalize a worker that has finished, and
\* so does an await of an operation that is no longer pending.
ReadResult(i) ==
    /\ Idle /\ ops[i].used /\ ToFinalize(ops[i])
    /\ Joinable(i)
    /\ Put(i, MaybeFinalize(At(i)))
    /\ UNCHANGED <<nextGeneration, workers, main, phase>>

AwaitBegin(i) ==
    /\ Idle /\ ops[i].used /\ ops[i].status = Pending
    /\ main' = i
    /\ UNCHANGED <<handles, ops, nextGeneration, workers, fds, phase>>

AwaitStep ==
    /\ phase = "running" /\ main # 0
    /\ Joinable(main)
    /\ \E s \in ProcessOutcomes(At(main)) :
          /\ Put(main, MaybeFinalize(s))
          /\ main' = IF s.op.status = Pending THEN main ELSE 0
    /\ UNCHANGED <<nextGeneration, workers, phase>>

-----------------------------------------------------------------------------
(* native_net_async_worker_connect_execute, one thread per generation.     *)

WorkerSocket(g) ==
    /\ workers[g].pc = "starting"
    /\ \/ /\ FreeFds # {}
          /\ LET f == Lowest(FreeFds)
             IN /\ fds' = [fds EXCEPT ![f] = "socket"]
                /\ workers' = [workers EXCEPT ![g].pc = "connecting", ![g].sock = f]
       \/ /\ workers' = [workers EXCEPT ![g].pc = "finalize"]
          /\ UNCHANGED fds
    /\ UNCHANGED <<handles, ops, nextGeneration, main, phase>>

WorkerConnect(g) ==
    /\ workers[g].pc = "connecting"
    /\ \/ /\ workers' = [workers EXCEPT ![g].pc = "finalize"]
          /\ UNCHANGED fds
       \/ /\ workers' = [workers EXCEPT ![g].pc = "finalize", ![g].sock = Invalid]
          /\ fds' = Closed(fds, workers[g].sock)
    /\ UNCHANGED <<handles, ops, nextGeneration, main, phase>>

Discarded(g) ==
    LET op == ops[workers[g].op]
    IN ~op.used \/ op.gen # g \/ op.canceled

\* Mutant: a failed connect leaves without marking the operation done.
WorkerCheckDropsFailures(g) ==
    /\ workers[g].pc = "finalize"
    /\ IF Discarded(g) \/ workers[g].sock = Invalid
       THEN /\ workers' = [workers EXCEPT ![g].pc = "exited", ![g].sock = Invalid]
            /\ fds' = Closed(fds, workers[g].sock)
       ELSE /\ workers' = [workers EXCEPT ![g].pc = "publishing",
                                          ![g].todo = {"result", "done"}]
            /\ UNCHANGED fds
    /\ UNCHANGED <<handles, ops, nextGeneration, main, phase>>

WorkerCheck(g) ==
    /\ workers[g].pc = "finalize"
    /\ IF Discarded(g)
       THEN /\ workers' = [workers EXCEPT ![g].pc = "exited", ![g].sock = Invalid]
            /\ fds' = Closed(fds, workers[g].sock)
       ELSE /\ workers' = [workers EXCEPT ![g].pc = "publishing",
                                          ![g].todo = {"result", "done"}]
            /\ UNCHANGED fds
    /\ UNCHANGED <<handles, ops, nextGeneration, main, phase>>

\* The writes to the record; nothing orders them for another thread.
WorkerPublish(g, w) ==
    LET i == workers[g].op
        rest == workers[g].todo \ {w}
        moved == [workers EXCEPT ![g].todo = rest,
                                 ![g].pc = IF rest = {} THEN "exited" ELSE "publishing"]
    IN /\ workers[g].pc = "publishing" /\ w \in workers[g].todo
       /\ \/ /\ w = "result"
             /\ ops' = [ops EXCEPT ![i].sock = workers[g].sock,
                                   ![i].outcome = IF workers[g].sock = Invalid
                                                  THEN Failure ELSE Success]
             /\ workers' = [moved EXCEPT ![g].sock = Invalid]
          \/ /\ w = "done"
             /\ ops' = [ops EXCEPT ![i].done = TRUE]
             /\ workers' = moved
       /\ UNCHANGED <<handles, nextGeneration, fds, main, phase>>

Worker(g) == \/ WorkerSocket(g) \/ WorkerConnect(g) \/ WorkerCheck(g)
             \/ \E w \in {"result", "done"} : WorkerPublish(g, w)

-----------------------------------------------------------------------------
\* native_net_reset: every handle is closed, every worker_socket that is not
\* Invalid is closed, and the records are cleared.
NetReset ==
    /\ \A i \in OpIds : Joinable(i)
    /\ fds' = [f \in Fds |->
                  IF \/ \E h \in HandleIds : handles[h].kind # "none" /\ handles[h].sock = f
                     \/ \E i \in OpIds : ops[i].sock = f
                  THEN "closed" ELSE fds[f]]
    /\ handles' = [h \in HandleIds |-> NoHandle]
    /\ ops' = [i \in OpIds |-> ZeroOp]
    /\ UNCHANGED <<nextGeneration, workers, main>>

Boot == phase = "boot" /\ NetReset /\ phase' = "running"

End == Idle /\ NetReset /\ phase' = "ended"

\* The process stays in its last state once the program and its threads are done.
Exited ==
    /\ phase = "ended"
    /\ \A g \in Generations : workers[g].pc \in {"none", "exited"}
    /\ UNCHANGED vars

Init ==
    /\ handles = [h \in HandleIds |-> [kind |-> "none", sock |-> 0]]
    /\ ops = [i \in OpIds |-> ZeroOp]
    /\ nextGeneration = 1
    /\ workers = [g \in Generations |-> NoWorker]
    /\ fds = [f \in Fds |-> IF f = 0 THEN "stdin" ELSE "closed"]
    /\ main = 0
    /\ phase = "boot"

Next ==
    \/ Boot
    \/ End
    \/ Exited
    \/ \E kind \in {"listener", "stream", "udp"} : OpenHandle(kind)
    \/ TcpAccept
    \/ \E h \in HandleIds : HandleClose(h)
    \/ StartConnectFails
    \/ StartConnect
    \/ \E h \in HandleIds : StartTransfer("read", h, 0)
    \/ \E h \in HandleIds, len \in 0..MaxBytes : StartTransfer("write", h, len)
    \/ \E i \in OpIds : Poll(i) \/ Cancel(i) \/ ReadResult(i) \/ AwaitBegin(i)
    \/ AwaitStep
    \/ \E g \in Generations : Worker(g)

Spec == Init /\ [][Next]_vars

\* The operating system runs every thread, and a TCP connect returns (with an
\* error at the latest when the system's own timeout expires).
Fairness == WF_vars(AwaitStep) /\ \A g \in Generations : WF_vars(Worker(g))

FairSpec == Spec /\ Fairness

-----------------------------------------------------------------------------
(* Properties.                                                             *)

TypeOK ==
    /\ handles \in [HandleIds -> [kind : {"none", "listener", "stream", "udp"},
                                  sock : Fds \cup {Invalid}]]
    /\ ops \in [OpIds -> [used : BOOLEAN, kind : {"none", "connect", "read", "write"},
                          status : {Pending, Success, Failure, Canceled},
                          handle : 0..HandleCapacity, gen : 0..AsyncCapacity,
                          done : BOOLEAN, joined : BOOLEAN,
                          outcome : {0, Success, Failure}, canceled : BOOLEAN,
                          sock : Fds \cup {Invalid}, len : 0..MaxBytes,
                          off : 0..MaxBytes, result : Nat, sent : 0..MaxBytes]]
    /\ nextGeneration \in 1..(AsyncCapacity + 1)
    /\ workers \in [Generations -> [pc : {"none", "starting", "connecting", "finalize",
                                          "publishing", "exited"},
                                    op : 0..AsyncCapacity, sock : Fds \cup {Invalid},
                                    todo : SUBSET {"result", "done"}]]
    /\ fds \in [Fds -> {"closed", "stdin", "socket"}]
    /\ main \in 0..AsyncCapacity
    /\ phase \in {"boot", "running", "ended"}

\* Who may close a descriptor: a handle, an operation record that a worker has
\* published into, or the worker itself before it publishes.
Owns(o, f) ==
    \/ o[1] = "handle" /\ handles[o[2]].kind # "none" /\ handles[o[2]].sock = f
    \/ o[1] = "op" /\ ops[o[2]].used /\ ops[o[2]].sock = f
    \/ o[1] = "worker" /\ workers[o[2]].sock = f

Owners == ({"handle"} \X HandleIds) \cup ({"op"} \X OpIds) \cup ({"worker"} \X Generations)

\* While the program runs a descriptor has at most one owner, and an owned
\* descriptor is an open socket: whatever the order of publish, cancel,
\* finalize and close, nobody closes or uses a descriptor that has been closed
\* and given out again (native_net_async_finalize_connect_worker's hand-over).
DescriptorsOwnedOnce ==
    phase = "running" =>
        \A f \in Fds : \A o, p \in Owners :
            Owns(o, f) /\ Owns(p, f) => o = p /\ fds[f] = "socket"

\* While the program runs every open socket has an owner that will close it:
\* cancellation, a full handle table and discarded workers leak none.
NoLeakedDescriptor ==
    phase = "running" =>
        \A f \in Fds : fds[f] = "socket" => \E o \in Owners : Owns(o, f)

\* A successful write reports the number of bytes that send took for it, over
\* all its partial attempts (native_net_async_process, kind 3).
WriteReportsItsBytes ==
    \A i \in OpIds : ops[i].kind = "write" /\ ops[i].status = Success
                        => ops[i].result = ops[i].sent

\* An operation that has succeeded, failed or been canceled keeps that status
\* and its result for as long as the program can ask: a worker that finishes
\* after a cancel does not revive it.
TerminalIsFinal ==
    [][\A i \in OpIds : (phase' = "running" /\ ops[i].status # Pending) =>
           ops'[i].status = ops[i].status /\ ops'[i].result = ops[i].result]_vars

\* An await of a connect returns: the worker always leaves word, on every one
\* of its error paths (native_syscall_net_async_await has no timeout).
AwaitedConnectReturns ==
    (main # 0 /\ ops[IF main = 0 THEN 1 ELSE main].kind = "connect") ~> (main = 0)

\* Standard input stays the program's standard input while it runs: nothing in
\* this layer was told to close it (airun_net_host.inc's readLine and
\* readAllStdin read it).
StdinStaysOpen == phase = "running" => fds[0] = "stdin"
=============================================================================
