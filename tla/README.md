# AiLang: TLA+ models of the native runtime

This directory models the parts of AiLang that carry its run-time semantics: the
deterministic C virtual machine (`src/AiVM.Core/native`) and the host layers that feed
it (`src/AiCLI/native`). Every definition is translated from the C source;
`PROJECT.json` gives the lines under `map`. Paths in this file are relative to the
repository's root.

## 1. The system

### 1.1 Inventory

| Part | Source | State it keeps | Operations |
|---|---|---|---|
| VM interpreter | `aivm_vm.c`, `aivm_vm.h` | ip, status, error, operand stack, call frames, locals, completed tasks, Par contexts and branch values | `aivm_step` (one opcode), `aivm_run`, `aivm_reset_state` |
| Node heap | `aivm_vm.c` 2158-2940, node opcodes | node, attribute and child arenas; allocations since the last collection | create, append, inspect, mark and compact |
| String and bytes arenas | `aivm_vm.c` 505-1330, 2296 | bump arenas with limits that grow | allocate, intern, compact, the string opcodes |
| Syscall dispatch | `sys/aivm_syscall*.c` | none (tables) | validate contract, dispatch, check result type |
| Program loader | `aivm_program.c` | program image | parse AiBC1 |
| Runtime facade, C API | `aivm_runtime.c`, `aivm_c_api.c` | none | init, load, run |
| Remote channel | `remote/*.c`, `examples/remote_*_bridge.c` | session (handshake, granted capabilities), receive buffer | HELLO, CALL, frame codec, accept loop |
| Network host | `airun_net_host.inc` | handle table, operation table, connect threads | listen, connect, accept, read, write, start, poll, cancel, await, results |
| Process host | `airun_process_host.inc` | process slots, output buffers, pipes | spawn, poll, wait, kill, stream read |
| Worker host | `airun_worker_host.inc` | 64 simulated workers | start, poll, result, error, cancel |
| UI runtime host | `airun_ui_runtime_host.inc`, `airun_ui_host_*` | windows, event queue, two cached nodes | create, poll event, draw |
| File, time, text, crypto, debug hosts | `airun_*_host.inc` | none | syscalls |
| Native compiler | `airun.c` 4990-6930 | function table, fixups, locals, loop stack of one compilation | collect files, compile entry, compile on demand, resolve calls |
| Build, run, publish, clean | `airun.c` 1090-1120, 7040-7060, 8300-9100 | `app.aibc1`, cache entries, published package | resolve, look up, compile, write, copy, load, inspect, package |
| CLI driver | `airun.c` | injected UI events, bindings | reset hosts, run, debug |
| WebAssembly runner | `examples/wasm_runner.c` | a second host for the same VM | run |
| Front end, compiler, standard library | `tools/aos_frontend.c`, `src/compiler/*.aos`, `src/std/*.aos` | - | text to bytecode; AiLang programs |

How they interact. `airun.c` looks for a cached image of the sources, else compiles them
and writes the image, loads it, resets the hosts, and calls `aivm_run`. The interpreter calls a host synchronously through the binding table
(`CALL_SYS`); a host answers with a value and may append nodes to the VM's heap. Only the
network host has threads: one per pending connect, which share the operation table with
the interpreter's thread. The process host has the operating system's children as
concurrent actors, the remote bridge its clients. The garbage collector runs inside
`create_node_record`, so any opcode that makes a node may rename every handle.

### 1.2 What is hard

* **Nested interpretation.** `ASYNC_CALL` runs `aivm_step` in a C loop of its own and
  recurses. Its exit test looks only at the number of call frames.
* **A bounded task table with references into it.** When it is full the oldest task that
  nothing refers to is dropped; what "refers" means is decided by a scan over stack,
  locals, Par values and other tasks' results.
* **A moving collector under C code** that keeps handles in local variables.
* **Threads without a lock** around the operation table: a worker checks for
  cancellation and publishes, the program polls, cancels, awaits, resets.
* **Pipes**: a child that blocks on a full pipe against a parent that waits for it.
* **Byte streams**: frames arrive in pieces or several at a time.
* **Pointers into an arena that moves.** A string opcode reads its operands, allocates,
  and copies; the allocation may compact the arena the operands are in.
* **Compilation on demand**: compiling a function lengthens the list of calls that is being
  resolved, and the stack discipline of one statement shows only calls later.
* **Files as shared state**: images are written in place, under names the next command
  trusts, while sources change, writes fail and processes are killed.

`PROJECT.json` lists these one by one, at their lines, under `hazards`.

### 1.3 What makes each part correct

* VM: no C array is overrun; every return restores exactly the caller's frame; a task a
  program can still name is not dropped; Par scopes nest.
* Heap: nodes are immutable values to the program, whatever the collector does; memory
  pressure is reported only when the heap is full of reachable nodes.
* Strings: a string reads as the program made it; memory runs out only when live strings
  fill the arena; every string lives in memory of the VM.
* Compiler: a program that is accepted does on the VM what `SPEC/EVAL.md` says of its
  source, syscall by syscall, and stops when the source does.
* Commands: one at a time, and without edits under it, no command runs or ships a torn image
  or runs one made of other sources.
* Network host: every descriptor has one owner and is closed when it has none; a final
  status is final; await returns.
* Process host: no output byte is lost, repeated or reordered; no signal goes to a
  process that was reaped; wait returns.
* Remote channel: replies in order and without gaps; calls only with capabilities that
  this client was granted on this connection; no hang-up because the buffer is full of
  legal input; a client that reads its replies is served to the end.

## 2. The modules

| Module | Models | Checked by | Proofs |
|---|---|---|---|
| `AivmVm` | interpreter | `vm_programs`, `vm_await` through `MCAivmVm` | `AivmVmProofs` |
| `AivmStringArena` | string arena and string opcodes | `string_texts`, `string_owned` through `MCAivmStringArena` | `AivmStringArenaProofs` |
| `SimpleCompiler` | native compiler, a pure function from source trees to code | through `CompiledRun` | |
| `CompiledRun` | `SimpleCompiler` and `AivmVm` together, with a reference evaluator | `compiled_sources` through `MCCompiledRun` | |
| `ProgramImage` | encoder and loader of AiBC1 images, legacy Bytecode sources | through `BuildCache` | `BuildCacheProofs` |
| `BuildCache` | run, build, publish and clean on files | `build_commands` through `MCBuildCache` | `BuildCacheProofs` |
| `NodeRoots` | where handles are held, and how opcodes move them | through the two below | |
| `NodeValues` | abstract heap: immutable objects, nothing moves or is freed | as `NodesAreValues` | |
| `AivmNodeHeap` | arenas, collector, node opcodes, host nodes | `heap_values`, `heap_all` through `MCAivmNodeHeap` | `AivmNodeHeapProofs` |
| `NetAsync` | network host's tables and connect threads | `net_connect` | `NetAsyncProofs` |
| `ProcessHost` | process slots, children, pipes | `proc_streams`, `proc_read` | `ProcessHostProofs` |
| `RemoteBridge` | session and websocket bridge | `remote_clients` | `RemoteBridgeProofs` |

`ProofLemmas` has the facts several proof modules use: a nonempty set of naturals has a least
member (from which the proofs get their inductions), a recursive function over `1 .. n` exists
and obeys its equations (`RecursionExists`, with `UpTo` to induct over its steps), and running
totals of a list of numbers.

Two compositions: `AivmNodeHeap` implements the abstract heap (`INSTANCE NodeValues WITH`),
and `CompiledRun` extends the compiler and the interpreter and runs the code of one on the
other. The hosts meet the VM through `CALL_SYS`,
whose outcome `AivmVm` leaves open, so each host is checked against every program order of
its syscalls instead of against one program.

### 2.1 AivmVm

One action per opcode or family of opcodes with the same effect on control; `Init` picks
any program of the constant `Programs`. A value is a record of a type and a datum drawn
from a small set: integers have the width `IntMin .. IntMax`, strings, nodes and byte
strings are identities. What a data opcode computes is a choice among values of its result
type, but its operand checks, its order of pops and its error paths are those of the code.
`ASYNC_CALL` keeps one record per C activation of `execute_call_subroutine_sync` in
`sync`, with its return position and frame depth, and the nested loop's exit test is a
step of its own. Limits that grow on demand (`ensure_*_capacity`) are variables.
`Garbage` is what a never-written local contains. Ghosts: `owned` (slots stored by a live
activation) and `blocks` (the blocks PAR_JOIN made).

### 2.2 NodeRoots, NodeValues, AivmNodeHeap

`AivmNodeHeap` has the node array as a sequence of records, the attribute and child
arenas as the sums they take up, all holders of handles (argv, the two cached UI nodes,
stack, locals, task results, Par branches) and `making`, the C frame of an opcode that
allocates several nodes. Collection is part of the allocating step, before or after the
same conditions as in `create_node_record`; MAKE_MAP, MAKE_NODE, MAKE_FIELD_STRING and
PAR_JOIN take one step per child because each child may allocate. `obj` and `store` are
ghosts that record what the program asked for. `NodeValues` has only objects and holders
of objects. The refinement mapping replaces each handle by its node's object; it holds
exactly when each holder still sees the node it was given.

### 2.3 NetAsync

The interpreter's thread executes one syscall per step, except await, which is a loop of
steps, and each connect worker takes four: create a socket, connect, check for
cancellation, publish. Check and publish are separate because the code takes no lock
between them. Descriptors are numbers and `socket()` returns the lowest free one, so that
a wrongly closed descriptor is soon somebody else's. `Boot` and `End` are the resets of
`run_native_compiled_program`.

### 2.4 ProcessHost

A child has a plan (bytes per stream), bounded pipes, an exit code; it writes, closes and
exits in any order with the program's syscalls. Bytes are numbered, so loss, repetition
and reordering show. POSIX branch only. `dangling` records that a read returned bytes of a
buffer that the same syscall freed.

### 2.5 RemoteBridge

A frame occupies a number of cells; `Recv` delivers any prefix of what was sent. The
inner loop, the buffer and the hang-up conditions are those of `handle_ws_client`, the
replies those of `aivm_remote_server_process_frame`. A reply is a `send_all` on a blocking
socket (`SendReply`): while the client is there it waits for room in the socket's buffer,
which a client that does not read (`Read`) never makes; once the client is gone the reply may
be lost, fail, or raise SIGPIPE, which ends the bridge (`pc = "dead"`). A failed send makes
the bridge hang up, except that of a pong, which it ignores (`AfterFailedSend`).

### 2.6 AivmStringArena

`mem`, `used` and `limit` are the arena; `slot` is every place that may hold a string
pointer, in the order the compaction visits them: stack and locals, then a node's kind and
id. A pointer is a region (the program's constants, the arena, a dead C frame) and an
offset, with its intended text as a ghost. `Alloc` is `arena_alloc`: compact if the limit
is passed, then grow. A copy reads cell by cell from what it copies, so a copy that reads
the arena after a compaction reads what is there then; `Snapshot` is the saving of operands
in `snapshot_arena_backed_string`. After a compaction every live slot is `Dangling`, as in
the code, and reading one leads to the status "spoilt", where nothing is claimed any more.
Substring and removal count runes; `RuneOf`, `Kept` and `InRange` define the results
without offsets, and the ghost text is computed from them. Loops (the walk over the roots, the
copy, the steps from rune to rune) are recursive functions from the turn to what the loop has
made by then, so that they can be proved about.

### 2.7 SimpleCompiler, CompiledRun

A source is a tree of nodes. Compile contexts are records and each `simple_compile_*`
function is an operator from a context to a context, with its limits, refusals and
operand patches. `CollectFile` gathers the functions of imported files first, the first of
a name stays, and `ResolveFixups` compiles further functions while the list of calls grows.
`CompiledRun` has a source as initial state, a `Load` step that compiles it, and then the
steps of `AivmVm` on the code. `trace` records the syscalls. The reference evaluator `Ev` walks the
tree as `SPEC/EVAL.md` and `SPEC/IL.md` describe, with environments and no stack, slots or
jumps: a `Let`, an empty `Block`, a left `Loop` and an `If` without else whose condition is
false have the value void. The compiler makes the empty string of the first three and refuses
the fourth. These are two disagreements (section 5), so no source of `compiled_sources` uses
such a value, and each of its `If`s has two branches.

### 2.8 ProgramImage, BuildCache

An image is a sequence of cells (header, section, instruction, constant), so that a prefix
of an image, and an image with a hole, are things the loader meets. `BuildCache` has the
sources, the files that hold images (`app.aibc1`, beside the entry file, cache entries by
key, the published copies) and one record per airun process that says at which step of
which command it is. Reading of the source graph, opening and truncating of a file, and
each piece written are steps; edits of sources, failing writes, a killed process and
`clean` come between them. A hash is the contents it was made of. A failed write leaves the
file cut short, and may go unnoticed: `write_program_as_aibc1` ignores what `fwrite` answers,
and both it and `copy_file` may return 1 after it. Build and publish write to the directory
of `--out` or the derived one, and take an image that is named, unread, as run loads one. Left
out: bundles, wasm packages, an image elsewhere than in the project, and a file in whose
middle a write failed although later ones of the same file succeeded.

## 3. The runs

All bounds are constants of the cfg files. A number of states is TLC's count of distinct
states.

| Run | States | Bounds and why they are enough |
|---|---|---|
| `vm_programs` | 643,581 | All programs of six instructions over nine call and local instructions, all task loops with four free instructions out of eleven, all programs of three over 37 others. Stack 3, frames 3, locals 3 with initial limits of 1: each limit grows and hits its array. Task table of 3: loops reclaim. Three frames allow an ASYNC_CALL inside an ASYNC_CALL. |
| `heap_values` | 719,479 | Five nodes, two of them argv; thresholds at 3/4 as in the code; six objects, so that both the proactive and the forced collection run, with survivors that move. |
| `heap_all` | 178,967 | The same heap with every maker of nodes and a deeper stack. |
| `net_connect` | 587,951 | Two operations and two handles, so that slots and descriptors are reused across operations; two bytes make a partial write. |
| `proc_streams` | 435,709 | One slot and two children: the second reuses the slot of the first. Two bytes through one-byte pipes: a child blocks. |
| `remote_clients` | 3,547,261 | Two clients after one another, three frames each (a HELLO, a second HELLO, a CALL), frames of one or two cells in a buffer of three: a frame behind a whole one may be complete, partial or absent. The socket holds one reply that the client has not read: the second blocks the bridge, and a client may go at each point. |
| `string_texts` | 91,422 | Five bytes, limit 3 growing by 2: with texts of one and two bytes an allocation fits, compacts, grows or fails. Two values and a node are enough for an operand that is live elsewhere, and for a kind that its id's allocation leaves behind. Integers up to 3, so that start + length overflows. |
| `compiled_sources` | 484,269 | 9,277 sources: three statements out of 21 kinds (assignments, branches, loops, blocks, returns, calls with up to three arguments, syscalls) in every order, imports in chains and diamonds, and faulty programs. Three statements suffice for a value left on or missing from the stack by one to be met by another; integers wrap at -2 and 7. The limits of the compiler are above what these sources need; how it refuses at a limit is modelled, not exercised. Values of `Let`, of an empty `Block` and of a left `Loop` are not used, and each `If` has an else: there code and specification differ (section 5). |
| `build_commands` | 1,251,696 | Three commands, two edits, one fault (a crash, a failed write, a clean): a fault in the first command, another command that meets its remains, and a third that trusts what the second left. Images of 11, 17 or 27 cells are written in pieces of 16, so that a file may be torn when empty or in its middle. One airun process at a time, and sources change between commands only: with two processes, or an edit during a build, the properties fail (section 5). |
| `vm_await`, `proc_read`, `string_owned` | - | Counterexamples; section 5. |

`vm_programs` starts from 124,344 programs, most of them malformed: the loader checks opcodes only, not
stack use or jump targets. Deadlock is checked except in the process, remote and build runs, where the bounds on
spawns, connections and commands let the system stop. Each property has a mutant in `PROJECT.json`, a plausible
slip in the code that TLC finds to violate it; the mutated definitions stand next to the
originals, marked as such.

Fairness. `CompiledRun`: the interpreter keeps stepping, which `aivm_run` does until the
program stops. `NetAsync`: weak fairness of the await loop and of each worker thread, which the
operating system schedules; nothing is assumed of the program. `ProcessHost`: weak fairness
of the wait loop and of each child's writing and exiting; closing of the write ends by
descendants is not fair. A child is assumed to exit once its output has been taken, since
no host can make one exit that does not. `RemoteBridge`: weak fairness of the bridge's own
steps, so only where its system calls return: it may wait in `send` for ever on a client that
does not read, and a SIGPIPE ends it for good. Clients need do nothing. `EveryFrameAnswered`
therefore promises something only to a client that keeps reading (`ClientReads`), and takes
the end of the connection or of the bridge for an end.

## 4. The proofs

Every theorem is `Spec => []P`, `Spec => [][A]_vars` or, for the node heap, that `Spec`
implements another specification, for all values of the constants that
satisfy the module's named assumption, so for every table size, buffer, program or plan; the
runs show the same formula on one instance. Each proof module has one inductive invariant
(checked with TLC on the run's instance before it was proved), a theorem `Inductive` that it
always holds (`BuildInvariant` for the commands, `StringInvariant` for the strings), one lemma per action for the step, and the listed results as consequences.

**Interpreter** (`AivmVmProofs`): `TypeOK`, `WithinArrays`, `LocalsNested`,
`TaskTableOrdered`, `ParNested`, `AsyncReturnsToItsCall` as invariants, `CallerLocalsIntact`
and `HeldTasksSurvive` as action properties, for every program.
The inductive invariant is `VmInv /\ SyncInv`. `VmInv` is the type invariant with counts
related to their arrays and limits, the frame bases ordered and below the live counts, the
task table ascending below `next_task_handle`, and the Par contexts' start indices ordered.
None of the listed properties is inductive alone: `WithinArrays` needs the limits below the
arrays; `LocalsNested` after RET needs the bases of all outer frames, not just the one
popped. `SyncInv` relates the stack of C activations to the call frames: activation k's
depth lies strictly between those of its neighbours, and the frame it created is still
there with its return position, which is what the exit test of the nested loop presumes.
The action properties follow from the invariant and the definition of the step.

**Node heap** (`AivmNodeHeapProofs`): `WithinArena`, `ArgvStaysFirst`, `PressureMeansFull`,
for every set of opcodes, the ones with unrooted handles included. `HeapInv` has the types of
nodes, roots and of the C frame `making`; the three arenas within their arrays; node 1 as the
argument list, held by `argv`. The work is in the collector. `NewHandle` counts the live handles up to a
handle, and is shown to be an order-preserving bijection from the live handles onto
`1 .. Cardinality(live)` (`NewHandleGrows`, `NewHandleDistinct`, `OldHandleIs`), so node 1
stays node 1 as long as it is live. The sums of attributes and children of the compacted
arena are those of the chosen nodes and never more than before (`UsedByChosen`), so a
collection never breaks a bound. `CompactLeavesLive` says that after a collection all nodes
are live under their new names: a set closed under children after it is, pulled back through
the bijection, closed before it. Hence the error for a full arena, which only follows a
collection, is raised with every node reachable.

**Nodes are values** (in the second half of `AivmNodeHeapProofs`): `NodesAreValues`, that is `AivmNodeHeap`
implements `NodeValues`, under the hypothesis `RootedOnly` on the constant `Opcodes`: the
program uses neither MAKE_MAP nor MAKE_NODE nor the UI syscalls, and PAR_JOIN with at most one branch.
These are the opcodes that keep a handle in a C local across an allocation, or overwrite a
node; with them the property is false (section 5), and the instance of `heap_values`
satisfies the hypothesis. `ValuesInv` is needed beside `HeapInv`: while the program runs,
every held handle is in the arena, every node has the shape of its object and children whose
objects are the object's children (`Faithful`), and an opcode under way has at most one
child, taken last. `Views` says which objects a record of handles shows, and there is one
such view (`OneView`), which is the refinement mapping (`MappingViews`). The heart is
`CompactShows`: a collection changes arena and handles and shows the same objects before and
after. Then `CreateShows` (a node made here is an object made there, or there is no room)
and one lemma per action that it is the action of the same name of `NodeValues`.

**String arena** (`AivmStringArenaProofs`): `StringsReadRight`, `StringsEndInside`, and
`StringPressureMeansFull` as an action property, for any size of the array, limits, growth step,
roots, texts and width of integers. The inductive invariant `StringInv` says that the cells in
use end with a NUL (`Closed`), lie below the limit and the limit below the capacity (`Bounded`),
and that behind each slot that points into the arena the wanted text stands with its NUL, below
what is in use (`Right`; "reads as" alone is not inductive, since a walk might find its NUL in
cells that are about to be written). `RightStays` is why nothing that is appended matters. The
results rest on four chains of lemmas, each an induction along one loop of the code:

- compaction (`LiveTextsAre`, `NewArenaBytes`, `CompactWorks`): the walk over the roots
  collects each live text once, so the new arena has exactly `Bytes` of the live texts; a
  compaction that fails, or a limit at the capacity that does not suffice, means that they do
  not fit (`AllocWorks`);
- copying (`WritingFills`, `FilledMakes`): the loop leaves everything below the new string
  alone and writes the text, if each item it reads stands below too or was saved; that is
  `Snapshot`'s work in the opcodes that save, and for STR_CONCAT holds only when the arena was not
  compacted in between (`Intact`);
- runes (`NextRune`, `ByteOffsetIs`, `RunesBelow`): the characters below the offset that
  `utf8_byte_offset_for_rune` answers are exactly those of the runes before it, so the byte range
  of a substring is its range of runes (`RuneRangeIs`), for clamped, negative and late starts,
  unless start + length overflows;
- what is kept (`KeptMiddle`, `KeptRest`): the reference definition, character by character,
  is the slice and the splice that the code makes.

A node's two strings are copied one after the other; `SecondTries` puts the two allocations
together for the pressure property. The properties claim nothing in the states "spoilt", which
are real (section 5), and of dangling slots; `StringsAreOwned` is false.

**Network host** (`NetAsyncProofs`): `TypeOK`, `DescriptorsOwnedOnce`, `NoLeakedDescriptor`,
`WriteReportsItsBytes`, and `TerminalIsFinal` as an action property, for any table sizes and
any number of connect threads. Ownership alone is not inductive: who owns a socket during a
connect depends on how far the thread is and what the interpreter has joined. `Handshake`
says this for a record and its thread, in each of the thread's positions and for each order
in which its two unsynchronised writes become visible; `OpOK` adds that records are used in
the order of their generations, so that a thread's record was not handed to another
operation. `OwnOK` then says that open sockets are exactly the held ones, each held once.

**Process host** (`ProcessHostProofs`): `TypeOK`, `NoBytesLost`, and `SignalsOnlyItsChild` as
an action property. `PairOK` relates a slot in use to its child: per stream, what was read,
the rest of the buffer and the pipe concatenate to what was written, and a stream is closed
only when its pipe is empty and has no writer. `OneSlotEach` and `ReleasedOK` are needed
because the property is about children: a child has one slot, or had one that was released
with nothing left to read.

**Remote bridge** (`RemoteBridgeProofs`): `AnsweredInOrder`, `GrantsFollowPolicy`,
`NoSpuriousHangup`. The invariant `Serving` says that there are a number n and a layout of
the sent frames as a stream of cells such that buffer and wire together are the cells of the
frames after the n-th, the first n have been answered, and the session is the one the last
HELLO among them left. What it says of replies and bytes on their way it says while the
client is there: once it has gone, replies may be lost. It gives what the code relies on: the
buffer begins with a frame, and if that frame is incomplete there is room for more of it.

**Build commands** (`BuildCacheProofs`): `NoTornImage`, `CacheEntriesMatchKey`,
`UndisturbedBuildIsCurrent`, `PublishedImageLoads` as invariants and `RunsCurrentSource` as an
action property, for any sources, compiler, buffer size and number of commands, edits and
faults, under two hypotheses. `Sequential`: one airun at a time, and sources are not saved
while it runs. Nothing in the code enforces it, and without it the theorems would be false
(section 5), so they speak of commands given one after the other, with the edits, kills, failed
writes and cleans that fall between and under them. `ProgramsWritable`: sources
have at most one program, and the image format can express it and the loader has room for it.
It excludes a program with a node constant, which is written as void, and one with more
instructions, constants or bytes of text than the loader takes (section 5); TLC evaluates it
for the sources of `build_commands`.

The commands depend on the encoder and the loader through one fact only, `ImagesSound`: the
image of a program loads to that program and is refused when it is cut short. It is proved
from the definitions of both (`WrittenImageReads`). Writing appends cells, so a part of an
image keeps its place when more is written behind it (`JoinedCells`, `ImageCells`); the state
of the loader before the k-th constant is known in closed form, the cursor being the sum of
the sizes of the constants before it and the storage used the sum of their lengths
(`OneConstant`, `EachConstantLoads`, with the sums of `ProofLemmas`); and of an image that is
cut, the loader meets either no whole header or a section that ends behind the file
(`TwoSectionsRead`). `WrittenImagesLoad` states it as the invariant `WrittenImageSound`, for
any number of commands at once and sources edited under them.

`BuildInv` says that every file is a beginning of some image and every cache
entry a beginning of the image of its key (`FilesOK`); that the file being written or copied is
the beginning, up to the position, of what it is made from; which of its five uses a
`copy_file` has and what its source holds (`CopyKind`); and that the output of a command that
works from sources is its image, or a beginning of it after a failed write (`Made`, `Output`). The
last two make the properties inductive: a command trusts at its end what it read several
steps before. A torn file is harmless because no proper beginning loads (`LoadsWhole`);
`clean` is harmless because an entry that is open keeps its cells under another name
(`MovedKeeps`).

Left to TLC:

- the liveness properties (`AwaitedConnectReturns`, `WaitReturns`, `EveryFrameAnswered`,
  `CompiledProgramsStop`), which need ENABLED;
- `CompiledRun` and `SimpleCompiler`: the compiler and its reference evaluator recurse over
  source trees (RECURSIVE operators), and their agreement is an induction over trees;
- `ProgramsWritable`: that what the two compilers make fits the image format is again a fact
  about a recursion over sources. It is the hypothesis of the proofs about `BuildCache`.

## 5. Where the code and its documents disagree

Checked on every change, as runs that expect a violation:

* `vm_await`: an async function that returns another function's Task, called with the task
  table full, loses that Task while its own result is stored (`aivm_vm.c:2070`).
* `proc_read`: a read that empties a finished child's buffer returns bytes of memory it
  has just freed (`airun_process_host.inc:989`).
* `string_owned`: a compaction of the string arena leaves every live string pointing into
  the array on the C stack it was copied through (`aivm_vm.c:2318`).

Known defects with a configuration that shows them, kept for the day they are mended (the
property should then move to a passing run):

* `MCAivmVm_join.cfg`: PAR_JOIN replaces an int branch value that equals a live task handle
  by that task's result (`aivm_vm.c:4077`).
* `MCAivmVm_gap.cfg`: a store above the count of locals exposes slots that were never
  written (`aivm_vm.c:3158`).
* `MCAivmNodeHeap_map.cfg`: MAKE_MAP, MAKE_NODE and PAR_JOIN keep children's handles in a C
  array while further allocations may collect (`aivm_vm.c:4708`).
* `NetAsync_stdin.cfg`: the reset before a program closes descriptor 0, because an unused
  operation record is zero and zero is a valid descriptor (`airun_net_host.inc:529`).
* `MCCompiledRun_shadow.cfg`: a function that an imported file does not export replaces the
  main file's own function of that name (`airun.c:6057`); `SPEC/EVAL.md:42` says imports are
  isolated and merge only what `Export` lists.
* `MCBuildCache_edit.cfg`: the cache key is computed a second time after the compilation, so
  a source saved in between files the old program under the new key (`airun.c:8447`).
* `MCCompiledRun_void.cfg`: a `Let`, an empty `Block` and a left `Loop` give the empty string
  as a value (`airun.c:6498`, `airun.c:6508`); `SPEC/EVAL.md:20` to `22` say void, and
  `SPEC/IL.md` shows an empty `Block` as the void value.
* `MCCompiledRun_noelse.cfg`: an `If` with two children is refused, as an expression and as
  a statement (`airun.c:6257`, `airun.c:6537`); `SPEC/IL.md:19` gives `If` two or three children.

Met while reading, without a configuration: the cached UI event node changes under a program
that holds it; wait and poll disagree about a finished child; a file that imports itself is
collected until the C stack ends (`airun.c:6041`, where `SPEC/EVAL.md:48` promises an error);
one client that does not read holds the websocket bridge in `send`, and one that goes at the
wrong moment ends it by SIGPIPE (`remote_ws_bridge.c:384`); the native compiler knows neither
the `Await` nor the `Par` of `SPEC/IL.md`; a legacy Bytecode source of exactly 16384 instructions that ends in a syscall writes one past
the table (`airun.c:4940`); `copy_file` ignores a failing `fclose` and `write_program_as_aibc1`
a failing `fwrite`, so build may answer Ok over an image cut short; two airun processes that
build one project at a time can leave a torn image that loads; node constants are written to
an image as void; STR_CONCAT and STR_ESCAPE read popped operands after an allocation that may
have compacted; ADD_INT and start + length overflow a signed integer; PAR_CANCEL does nothing;
hosts append nodes without collecting. By design, and so not counted: a project-level run
prefers an existing `app.aibc1` to newer sources (comment at `airun.c:8401`), and publish
ships such a file.

## 6. Plan

1. Done: `AivmVm` with proofs, `AivmNodeHeap` with its abstract specification,
   `AivmStringArena`, `SimpleCompiler` composed with `AivmVm`, `ProgramImage`, `BuildCache`,
   `NetAsync`, `ProcessHost`, `RemoteBridge`.
2. Proofs: done for the interpreter, the node heap, the network and process hosts and the
   bridge, the build commands, the image format, the string arena, and for the refinement of
   the node heap.
3. `WorkerHost`: slots and polls (`airun_worker_host.inc`); the in-process remote client
   (`airun_net_host.inc` 1602-1790) composed with the session of `RemoteBridge`; the window
   handle table of the UI host and injected events of `airun.c`; syscall contracts.

Not modelled: pure I/O (files, clocks, digests, drawing), TLS records and name resolution,
the Windows branches of the hosts, the text of messages and diagnostics, the front end and
everything written in AiLang itself (its semantics would need a model of the language), the
bytes arena (it only appends, and fails when full), the recovery of a syscall name from a
merged argument (`aivm_vm.c` 1395-1460), the
WebAssembly runner (a second host of the same VM), build and test scripts.
