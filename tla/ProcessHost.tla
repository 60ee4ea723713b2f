----------------------------- MODULE ProcessHost -----------------------------
(***************************************************************************)
(* The child processes behind sys.process.* (airun_process_host.inc, POSIX *)
(* branch): the slot table, the two pipes of each child with the buffers   *)
(* that collect what a wait has drained, reaping and releasing a slot.     *)
(*                                                                         *)
(* Actors: the program's thread, one syscall at a time (a wait is a loop   *)
(* of drain and waitpid), and the children, which write into pipes of      *)
(* bounded capacity, close them and exit.  The bytes a child writes to a   *)
(* stream are 1, 2, 3, ..., so that order and loss can be seen.            *)
(*                                                                         *)
(* Left out: failures before fork, which leave no trace, and command,      *)
(* arguments and environment.  One read takes everything a pipe holds:     *)
(* the chunk is at least as large as a pipe.                               *)
(***************************************************************************)
EXTENDS Integers, Sequences

CONSTANTS
    ProcessCapacity,  \* NATIVE_PROCESS_CAPACITY
    MaxSpawns,        \* bound on the children of one run
    MaxOutput,        \* bound on the bytes a child writes
    PipeCapacity,     \* bytes a pipe holds
    ExitCodes         \* codes a child may exit with

ASSUME ProcessAssumption ==
    /\ ProcessCapacity \in Nat \ {0}
    /\ MaxSpawns \in Nat
    /\ MaxOutput \in Nat
    /\ PipeCapacity \in Nat \ {0}
    /\ ExitCodes \subseteq 0..255

VARIABLES
    slots,            \* g_native_processes
    children,         \* the operating system's side, by order of fork
    spawned,          \* how many children have been forked
    main,             \* the wait in progress
    dangling          \* ghost: bytes were handed out from a freed buffer

vars == <<slots, children, spawned, main, dangling>>

Slots == 1..ProcessCapacity
Children == 1..MaxSpawns
Streams == {"stdout", "stderr"}
SigTerm == 143        \* 128 + WTERMSIG

\* One stream of a slot: `closed` once read() has returned 0.
NewStream == [closed |-> FALSE, buf |-> <<>>, pos |-> 0]

FreeSlot == [used |-> FALSE, child |-> 0, finished |-> FALSE, exit |-> 0,
             io |-> [s \in Streams |-> NewStream]]

\* left: what the child has still to write; pipe: what lies in its pipe;
\* open: somebody holds the write end; got: ghost, what the program has read.
NoChild == [state |-> "none", killed |-> FALSE, exit |-> 0, slot |-> FALSE,
            wrote |-> [s \in Streams |-> 0], left |-> [s \in Streams |-> 0],
            pipe |-> [s \in Streams |-> <<>>], open |-> [s \in Streams |-> FALSE],
            got |-> [s \in Streams |-> <<>>]]

Idle == main = [slot |-> 0, pc |-> "idle"]

Unread(io) == io.pos < Len(io.buf)
UnreadBytes(io) == SubSeq(io.buf, io.pos + 1, Len(io.buf))

-----------------------------------------------------------------------------
(* The helpers of the host, on one slot and its child.                     *)

\* native_process_append_buffer
AppendBuffer(io, chunk) ==
    IF chunk = <<>> THEN io
    ELSE [io EXCEPT !.buf = UnreadBytes(io) \o chunk, !.pos = 0]

\* native_process_drain_stream: read until the pipe is empty, then see
\* whether it is at its end.
DrainStream(x, s) ==
    LET io == x.slot.io[s] IN
    IF io.closed THEN x
    ELSE [x EXCEPT !.slot.io[s] =
                       [AppendBuffer(io, x.child.pipe[s]) EXCEPT
                           !.closed = ~x.child.open[s]],
                   !.child.pipe[s] = <<>>]

\* Mutant: only standard output is drained.
DrainStdoutOnly(x) == DrainStream(x, "stdout")

DrainOutput(x) == DrainStream(DrainStream(x, "stdout"), "stderr")

\* native_process_refresh, and the waitpid of a wait.
Refresh(x) ==
    IF x.slot.finished \/ x.child.state # "zombie" THEN x
    ELSE [x EXCEPT !.slot.finished = TRUE, !.slot.exit = x.child.exit,
                   !.child.state = "reaped"]

\* Mutant: unread standard error does not keep the slot.
MayReleaseIgnoringStderr(slot) ==
    /\ slot.used /\ slot.finished
    /\ \A s \in Streams : slot.io[s].closed
    /\ ~Unread(slot.io["stdout"])

MayRelease(slot) ==
    /\ slot.used /\ slot.finished
    /\ \A s \in Streams : slot.io[s].closed /\ ~Unread(slot.io[s])

\* native_process_maybe_release_finished
MaybeRelease(x) == IF MayRelease(x.slot) THEN [x EXCEPT !.slot = FreeSlot] ELSE x

At(h) == [slot |-> slots[h], child |-> children[slots[h].child]]

Put(h, x) == /\ slots' = [slots EXCEPT ![h] = x.slot]
             /\ children' = [children EXCEPT ![slots[h].child] = x.child]

-----------------------------------------------------------------------------
(* The syscalls.  A handle that is not in use gets -1, FALSE or no bytes.  *)

FreeSlots == {h \in Slots : ~slots[h].used}

\* Mutant: the process number is not stored.
TakenWithoutPid(c) == [FreeSlot EXCEPT !.used = TRUE]

\* native_process_allocate_slot and the assignments that follow it.
Taken(c) == [FreeSlot EXCEPT !.used = TRUE, !.child = c]

Forked(plan, code) ==
    [NoChild EXCEPT !.state = "running", !.left = plan, !.exit = code,
                    !.open = [s \in Streams |-> TRUE]]

\* With no slot left the child has been forked already: it is sent SIGTERM,
\* its pipes are closed and it is never waited for.
Spawn(plan, code) ==
    /\ Idle /\ spawned < MaxSpawns
    /\ spawned' = spawned + 1
    /\ IF FreeSlots = {}
       THEN /\ children' = [children EXCEPT ![spawned + 1] =
                               [Forked(plan, code) EXCEPT !.killed = TRUE]]
            /\ UNCHANGED slots
       ELSE LET h == CHOOSE h \in FreeSlots : \A g \in FreeSlots : h <= g
            IN /\ children' = [children EXCEPT ![spawned + 1] =
                                  [Forked(plan, code) EXCEPT !.slot = TRUE]]
               /\ slots' = [slots EXCEPT ![h] = Taken(spawned + 1)]
    /\ UNCHANGED <<main, dangling>>

Poll(h) ==
    /\ Idle /\ slots[h].used
    /\ Put(h, Refresh(At(h)))
    /\ UNCHANGED <<spawned, main, dangling>>

\* A wait on a process that is known to have finished only tries to release it.
WaitBegin(h) ==
    /\ Idle /\ slots[h].used
    /\ IF slots[h].finished
       THEN Put(h, MaybeRelease(At(h))) /\ UNCHANGED main
       ELSE main' = [slot |-> h, pc |-> "drain"] /\ UNCHANGED <<slots, children>>
    /\ UNCHANGED <<spawned, dangling>>

WaitDrain ==
    /\ main.pc = "drain"
    /\ Put(main.slot, DrainOutput(At(main.slot)))
    /\ main' = [main EXCEPT !.pc = "reap"]
    /\ UNCHANGED <<spawned, dangling>>

\* When the child has been reaped the pipes are drained once more and the
\* wait returns.
WaitReap ==
    /\ main.pc = "reap"
    /\ LET x == Refresh(At(main.slot))
       IN IF x.slot.finished
          THEN /\ Put(main.slot, MaybeRelease(DrainOutput(x)))
               /\ main' = [slot |-> 0, pc |-> "idle"]
          ELSE /\ main' = [main EXCEPT !.pc = "drain"]
               /\ UNCHANGED <<slots, children>>
    /\ UNCHANGED <<spawned, dangling>>

\* Mutant: kill without looking whether the child has been reaped.
KillAlways(h) ==
    /\ Idle /\ slots[h].used
    /\ children' = [children EXCEPT ![slots[h].child].killed = TRUE]
    /\ UNCHANGED <<slots, spawned, main, dangling>>

Kill(h) ==
    /\ Idle /\ slots[h].used
    /\ ~slots[h].finished
    /\ children' = [children EXCEPT ![slots[h].child].killed = TRUE]
    /\ UNCHANGED <<slots, spawned, main, dangling>>

\* stdout.read and stderr.read: the buffer first, then the pipe.  Bytes from
\* the buffer are handed out as a pointer, and the slot may be released, its
\* buffers freed, before the VM copies them.
StreamRead(h, s) ==
    /\ Idle /\ slots[h].used
    /\ LET io == slots[h].io[s]
           x == At(h)
           Buffered == [x EXCEPT !.slot.io[s].pos = Len(io.buf),
                                 !.child.got[s] = @ \o UnreadBytes(io)]
           Piped == [x EXCEPT !.child.got[s] = @ \o x.child.pipe[s],
                              !.child.pipe[s] = <<>>]
       IN \/ /\ Unread(io)
             /\ Put(h, MaybeRelease(Buffered))
             /\ dangling' = (dangling \/ MayRelease(Buffered.slot))
          \/ /\ ~Unread(io) /\ io.closed
             /\ Put(h, MaybeRelease(x))
             /\ UNCHANGED dangling
          \/ /\ ~Unread(io) /\ ~io.closed /\ x.child.pipe[s] # <<>>
             /\ Put(h, Piped)
             /\ UNCHANGED dangling
          \/ /\ ~Unread(io) /\ ~io.closed /\ x.child.pipe[s] = <<>> /\ ~x.child.open[s]
             /\ Put(h, MaybeRelease([x EXCEPT !.slot.io[s].closed = TRUE]))
             /\ UNCHANGED dangling
    /\ UNCHANGED <<spawned, main>>

-----------------------------------------------------------------------------
(* The children.                                                           *)

\* Write one byte, or lose it when nobody holds the read end any more.
ChildWrites(c, s) ==
    LET n == children[c].wrote[s] + 1
    IN /\ children[c].state = "running" /\ children[c].left[s] > 0
       /\ Len(children[c].pipe[s]) < PipeCapacity
       /\ children' = [children EXCEPT
              ![c].left[s] = @ - 1, ![c].wrote[s] = n,
              ![c].pipe[s] = IF children[c].slot THEN Append(@, n) ELSE @]
       /\ UNCHANGED <<slots, spawned, main, dangling>>

\* A child exits with its own code when it has written everything, or with
\* SIGTERM's when the signal reaches it first.
ChildExits(c) ==
    /\ children[c].state = "running"
    /\ \E code \in {children[c].exit, SigTerm} :
          /\ code = SigTerm => children[c].killed
          /\ code # SigTerm => \A s \in Streams : children[c].left[s] = 0
          /\ children' = [children EXCEPT ![c].state = "zombie", ![c].exit = code,
                                          ![c].left = [s \in Streams |-> 0]]
    /\ UNCHANGED <<slots, spawned, main, dangling>>

\* The last holder of a write end closes it: the child itself or, after its
\* exit, a descendant that inherited it.
WriterCloses(c, s) ==
    /\ children[c].open[s]
    /\ children[c].left[s] = 0
    /\ children' = [children EXCEPT ![c].open[s] = FALSE]
    /\ UNCHANGED <<slots, spawned, main, dangling>>

Child(c) == ChildExits(c) \/ \E s \in Streams : ChildWrites(c, s)

Plans == {plan \in [Streams -> 0..MaxOutput] : plan["stdout"] + plan["stderr"] <= MaxOutput}

Init ==
    /\ slots = [h \in Slots |-> FreeSlot]
    /\ children = [c \in Children |-> NoChild]
    /\ spawned = 0
    /\ main = [slot |-> 0, pc |-> "idle"]
    /\ dangling = FALSE

Next ==
    \/ \E plan \in Plans, code \in ExitCodes : Spawn(plan, code)
    \/ \E h \in Slots : \/ Poll(h) \/ WaitBegin(h) \/ Kill(h)
                        \/ \E s \in Streams : StreamRead(h, s)
    \/ WaitDrain
    \/ WaitReap
    \/ \E c \in Children : Child(c) \/ \E s \in Streams : WriterCloses(c, s)

Spec == Init /\ [][Next]_vars

\* The operating system runs the program's thread and every child; a child
\* exits once its output has been taken, and SIGTERM ends it.
Fairness == /\ WF_vars(WaitDrain \/ WaitReap)
            /\ \A c \in Children : WF_vars(Child(c))

FairSpec == Spec /\ Fairness

-----------------------------------------------------------------------------
(* Properties.                                                             *)

\* The slot that collects the output of a child, while there is one.
SlotOf(c) == {h \in Slots : slots[h].used /\ slots[h].child = c}

Counted(n) == [i \in 1..n |-> i]

\* Every byte a child has written is, in order, with the program, in the
\* buffer of its slot or still in the pipe: drains, direct reads and the
\* release of a slot neither lose, repeat nor reorder any.
NoBytesLost ==
    \A c \in Children : children[c].slot =>
        \A s \in Streams :
            Counted(children[c].wrote[s]) =
                children[c].got[s]
                \o (IF SlotOf(c) = {} THEN <<>>
                    ELSE UnreadBytes(slots[CHOOSE h \in SlotOf(c) : TRUE].io[s]))
                \o children[c].pipe[s]

\* A signal is only ever sent to a child that has not been reaped; afterwards
\* its process number may belong to anybody (native_syscall_process_kill).
SignalsOnlyItsChild ==
    [][\A c \in Children : children[c].state = "reaped"
           => children'[c].killed = children[c].killed]_vars

\* A wait returns although the child blocks on full pipes, for whatever it
\* writes to either stream: the wait drains both while it waits.
WaitReturns == (main.pc # "idle") ~> (main.pc = "idle")

\* The bytes a read returns are in memory that is still theirs when the VM
\* copies them (native_syscall_process_stream_read).
ReadsAreIntact == ~dangling

TypeOK ==
    /\ slots \in [Slots -> [used : BOOLEAN, child : 0..MaxSpawns, finished : BOOLEAN,
                            exit : ExitCodes \cup {0, SigTerm},
                            io : [Streams -> [closed : BOOLEAN, buf : Seq(1..MaxOutput),
                                              pos : 0..MaxOutput]]]]
    /\ \A h \in Slots : slots[h].used => slots[h].child \in 1..spawned
    /\ \A c \in Children : children[c].state \in {"none", "running", "zombie", "reaped"}
    /\ main \in [slot : 0..ProcessCapacity, pc : {"idle", "drain", "reap"}]
    /\ main.pc # "idle" => slots[main.slot].used
    /\ spawned \in 0..MaxSpawns
    /\ dangling \in BOOLEAN
=============================================================================
