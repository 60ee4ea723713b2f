-------------------------------- MODULE AivmVm --------------------------------
(***************************************************************************)
(* The native AiVM interpreter (aivm_vm.c): operand stack, call frames,    *)
(* locals, the completed-task table and the Par contexts, driven by one    *)
(* loaded program.  One action is one iteration of aivm_step; an           *)
(* ASYNC_CALL runs its subroutine synchronously inside its own step, so    *)
(* the variable sync is the C recursion of execute_call_subroutine_sync.   *)
(*                                                                         *)
(* Strings and nodes are opaque identities here: the node arena and its    *)
(* collector are AivmNodeHeap, which says what the node opcodes compute.   *)
(* The telemetry (recent calls, counters, high-water marks, error texts)   *)
(* is left out.                                                            *)
(***************************************************************************)
EXTENDS Integers, Sequences, FiniteSets

CONSTANTS
  Programs,         \* the programs that may be loaded
  Constants,        \* their constant pool
  Strings,          \* identities of strings
  Nodes,            \* identities of nodes an opcode may make or find
  Counts,           \* lengths and counts an opcode may find
  SysTargets,       \* those that name a syscall ("sys." prefix)
  SysResults,       \* values a syscall may answer
  Garbage,          \* what a slot of the locals array may hold before any store
  StackCapacity, StackInitial, StackStep,
  FrameCapacity, FrameInitial, FrameStep,
  LocalsCapacity, LocalsInitial, LocalsStep,
  MaxCallArgs,      \* the layout window of validate_call_target_layout
  MaxSyscallArgs,
  TaskCapacity, ParContextCapacity, ParValueCapacity,
  IntMin, IntMax,   \* the range of int64_t
  MaxBlocks         \* bound: nodes a behaviour may create

Types  == {"int", "bool", "void", "null", "string", "bytes", "node"}
Errors == {"NONE", "STACK_OVERFLOW", "STACK_UNDERFLOW", "FRAME_OVERFLOW",
           "LOCAL_OUT_OF_RANGE", "TYPE_MISMATCH", "INVALID_PROGRAM",
           "INVALID_OPCODE", "SYSCALL", "MEMORY_PRESSURE"}

(* A value.  "handle" is ghost: the int was issued by push_completed_task. *)
(* The code cannot tell such an int from any other and no action reads it. *)
Value == [type : Types, val : Int, handle : BOOLEAN]

IntVal(n)    == [type |-> "int",    val |-> n, handle |-> FALSE]
HandleVal(n) == [type |-> "int",    val |-> n, handle |-> TRUE]
BoolVal(b)   == [type |-> "bool",   val |-> IF b THEN 1 ELSE 0, handle |-> FALSE]
VoidVal      == [type |-> "void",   val |-> 0, handle |-> FALSE]
StrVal(n)    == [type |-> "string", val |-> n, handle |-> FALSE]
NodeVal(n)   == [type |-> "node",   val |-> n, handle |-> FALSE]

\* aivm_value_equals on the types kept here.
ValueEquals(v, w) == v.type = w.type /\ v.val = w.val

Instruction == [op : STRING, a : Int]
Frame       == [returnIp : Nat, frameBase : Nat, localsBase : Nat]
Task        == [handle : Int, result : Value]
ParContext  == [expected : Nat, start : Nat]
SyncCall    == [baseline : Nat, frameBase : Nat, returnIp : Nat]

ASSUME ConstantsAssumption ==
  /\ \A p \in Programs : p \in Seq(Instruction)
  /\ Constants \in Seq(Value)
  /\ Nodes \subseteq Int /\ Counts \subseteq Int
  /\ Strings \subseteq Int /\ SysTargets \subseteq Strings
  /\ SysResults \subseteq Value
  /\ Garbage \subseteq Value
  /\ {StackCapacity, StackStep, FrameCapacity, FrameStep, LocalsCapacity,
      LocalsStep, TaskCapacity} \subseteq Nat \ {0}
  /\ {StackInitial, FrameInitial, LocalsInitial, MaxCallArgs, MaxSyscallArgs,
      ParContextCapacity, ParValueCapacity, MaxBlocks} \subseteq Nat
  /\ StackInitial <= StackCapacity
  /\ FrameInitial <= FrameCapacity
  /\ LocalsInitial <= LocalsCapacity
  /\ IntMin \in Int /\ IntMax \in Int /\ IntMin < 1 /\ 1 < IntMax

VARIABLES
  program,                              \* vm->program
  ip, status, error,
  stack, stackLimit,
  callFrames, frameLimit,
  locals,       \* the whole array: slots at or above localsCount keep old values
  localsCount, localsLimit,
  owned,        \* ghost: slots some live activation has stored into
  tasks, nextTask,
  parContexts, parValues,
  blocks,       \* the children of every Block that PAR_JOIN made
  sync          \* active execute_call_subroutine_sync calls, innermost last

stackVars == <<stack, stackLimit>>
frameVars == <<callFrames, frameLimit>>
localVars == <<locals, localsCount, localsLimit, owned>>
taskVars  == <<tasks, nextTask>>
parVars   == <<parContexts, parValues, blocks>>
vars == <<program, ip, status, error, stackVars, frameVars, localVars,
          taskVars, parVars, sync>>

-----------------------------------------------------------------------------
Count == Len(program)
Inst  == program[ip + 1]

\* Values removed from / kept on the stack.
Top(n)  == stack[Len(stack) - n]                        \* Top(0) is the top
Rest(n) == SubSeq(stack, 1, Len(stack) - n)

\* The end of a successful step: aivm_step halts when ip ran off the program.
Goto(n) == /\ ip' = n
           /\ status' = IF n >= Count THEN "HALTED" ELSE "RUNNING"
           /\ UNCHANGED error

\* set_vm_error, with and without the ip := instruction_count that most
\* opcodes add.
FailInPlace(e) == /\ status' = "ERROR"
                  /\ error' = e
                  /\ UNCHANGED ip
Fail(e) == /\ status' = "ERROR"
           /\ error' = e
           /\ ip' = Count

\* grow_limit iterated by the ensure_*_capacity loops until needed fits or the
\* capacity is reached.
EnsureCapacityUnclamped(limit, needed, step, capacity) ==   \* mutant
  IF needed <= limit THEN limit
  ELSE limit + step * ((needed - limit + step - 1) \div step)
EnsureCapacity(limit, needed, step, capacity) ==
  IF needed <= limit \/ limit >= capacity THEN limit
  ELSE LET grown == limit + step * ((needed - limit + step - 1) \div step)
       IN  IF grown > capacity THEN capacity ELSE grown

\* aivm_stack_push on top of s, then continue at n.
PushThen(s, v, n) ==
  LET limit == EnsureCapacity(stackLimit, Len(s) + 1, StackStep, StackCapacity)
  IN  /\ stackLimit' = limit
      /\ \/ /\ Len(s) + 1 <= limit
            /\ stack' = Append(s, v)
            /\ Goto(n)
         \/ /\ Len(s) + 1 > limit
            /\ stack' = s
            /\ Fail("STACK_OVERFLOW")

\* A failing step that has already popped the stack down to s.
FailWith(s, e) == stack' = s /\ UNCHANGED stackLimit /\ Fail(e)

\* n pops where fewer than n values are left.
Underflow(n) == Len(stack) < n /\ FailWith(<<>>, "STACK_UNDERFLOW")

\* execute_call_subroutine_sync leaves its loop.
AsyncDone == /\ sync # <<>>
             /\ status = "RUNNING"
             /\ Len(callFrames) = sync[Len(sync)].baseline
             /\ ip = sync[Len(sync)].returnIp

\* The guard of aivm_run and of the loop around nested steps.
Exec(ops) == /\ status \in {"READY", "RUNNING"}
             /\ ip < Count
             /\ ~ AsyncDone
             /\ Inst.op \in ops

OnlyStack == UNCHANGED <<program, frameVars, localVars, taskVars, parVars, sync>>
OnlyControl == UNCHANGED stackVars /\ OnlyStack

-----------------------------------------------------------------------------
(* Control, literals and arithmetic.                                        *)

Nop == /\ Exec({"NOP", "PAR_CANCEL"})
       /\ Goto(ip + 1)
       /\ OnlyControl

Halt == /\ Exec({"HALT"})
        /\ Goto(Count)
        /\ OnlyControl

Stub == /\ Exec({"STUB"})
        /\ FailInPlace("INVALID_OPCODE")
        /\ OnlyControl

Literal ==
  /\ OnlyStack
  /\ \/ Exec({"PUSH_INT"})  /\ PushThen(stack, IntVal(Inst.a), ip + 1)
     \/ Exec({"PUSH_BOOL"}) /\ PushThen(stack, BoolVal(Inst.a # 0), ip + 1)
     \/ /\ Exec({"CONST"})
        /\ IF Inst.a \in 0 .. Len(Constants) - 1
           THEN PushThen(stack, Constants[Inst.a + 1], ip + 1)
           ELSE FailWith(stack, "INVALID_PROGRAM")

Pop == /\ Exec({"POP"})
       /\ OnlyStack
       /\ \/ Underflow(1)
          \/ /\ Len(stack) >= 1
             /\ stack' = Rest(1)
             /\ UNCHANGED stackLimit
             /\ Goto(ip + 1)

\* Two's complement result of adding two int64_t.
Wrap(n) == IF n > IntMax THEN n - (IntMax - IntMin + 1)
           ELSE IF n < IntMin THEN n + (IntMax - IntMin + 1)
           ELSE n

BinaryResult(op, left, right) ==
  CASE op = "ADD_INT" -> IntVal(Wrap(left.val + right.val))
    [] OTHER          -> BoolVal(ValueEquals(left, right))

Binary ==
  /\ Exec({"ADD_INT", "EQ_INT", "EQ"})
  /\ OnlyStack
  /\ \/ Underflow(2)
     \/ /\ Len(stack) >= 2
        /\ IF Inst.op = "EQ" \/ (Top(1).type = "int" /\ Top(0).type = "int")
           THEN PushThen(Rest(2), BinaryResult(Inst.op, Top(1), Top(0)), ip + 1)
           ELSE FailWith(Rest(2), "TYPE_MISMATCH")

JumpUnsigned ==   \* mutant: no operand_to_index
        /\ Exec({"JUMP"})
        /\ OnlyControl
        /\ IF Inst.a <= Count THEN Goto(Inst.a) ELSE Fail("INVALID_PROGRAM")
Jump == /\ Exec({"JUMP"})
        /\ OnlyControl
        /\ IF Inst.a \in 0 .. Count THEN Goto(Inst.a) ELSE Fail("INVALID_PROGRAM")

JumpIfFalse ==
  /\ Exec({"JUMP_IF_FALSE"})
  /\ OnlyStack
  /\ \/ Inst.a < 0 /\ FailWith(stack, "INVALID_PROGRAM")
     \/ Inst.a >= 0 /\ Underflow(1)
     \/ /\ Inst.a >= 0 /\ Len(stack) >= 1
        /\ \/ Top(0).type # "bool" /\ FailWith(Rest(1), "TYPE_MISMATCH")
           \/ /\ Top(0).type = "bool" /\ Top(0).val = 0 /\ Inst.a > Count
              /\ FailWith(Rest(1), "INVALID_PROGRAM")
           \/ /\ Top(0).type = "bool" /\ (Top(0).val # 0 \/ Inst.a <= Count)
              /\ stack' = Rest(1)
              /\ UNCHANGED stackLimit
              /\ Goto(IF Top(0).val = 0 THEN Inst.a ELSE ip + 1)

\* Operand types and result type of the opcodes over strings and nodes.
Shape ==
  LET op(args, result) == [args |-> args, result |-> result]
      str == {"string"}  int == {"int"}  node == {"node"}
  IN  [STR_CONCAT          |-> op(<<str, str>>, "string"),
       TO_STRING           |-> op(<<Types \ {"node"}>>, "string"),
       STR_ESCAPE          |-> op(<<str>>, "string"),
       STR_SUBSTRING       |-> op(<<str, int, int>>, "string"),
       STR_REMOVE          |-> op(<<str, int, int>>, "string"),
       STR_UTF8_BYTE_COUNT |-> op(<<str>>, "int"),
       NODE_KIND           |-> op(<<node>>, "string"),
       NODE_ID             |-> op(<<node>>, "string"),
       ATTR_COUNT          |-> op(<<node>>, "int"),
       ATTR_KEY            |-> op(<<node, int>>, "string"),
       ATTR_VALUE_KIND     |-> op(<<node, int>>, "string"),
       ATTR_VALUE_STRING   |-> op(<<node, int>>, "string"),
       ATTR_VALUE_INT      |-> op(<<node, int>>, "int"),
       ATTR_VALUE_BOOL     |-> op(<<node, int>>, "bool"),
       CHILD_COUNT         |-> op(<<node>>, "int"),
       CHILD_AT            |-> op(<<node, int>>, "node"),
       MAKE_BLOCK          |-> op(<<str>>, "node"),
       APPEND_CHILD        |-> op(<<node, node>>, "node"),
       MAKE_ERR            |-> op(<<str, str, str, str>>, "node"),
       MAKE_LIT_STRING     |-> op(<<str, str>>, "node"),
       MAKE_LIT_INT        |-> op(<<str, int>>, "node"),
       MAKE_LIT_BOOL       |-> op(<<str, {"bool"}>>, "node"),
       MAKE_FIELD_STRING   |-> op(<<str, Types>>, "node")]

\* What such an opcode may push; which string, count or node is not told apart.
Results(type) == CASE type = "string" -> {StrVal(x) : x \in Strings}
                   [] type = "int"    -> {IntVal(n) : n \in Counts}
                   [] type = "bool"   -> {BoolVal(b) : b \in BOOLEAN}
                   [] type = "node"   -> {NodeVal(n) : n \in Nodes}

\* How it may fail on operands of the right types: a full arena, an index out
\* of range, a handle that is not in the node arena.
DataErrors(type) == CASE type = "string" -> {"MEMORY_PRESSURE", "TYPE_MISMATCH"}
                      [] type = "node"   -> {"MEMORY_PRESSURE", "TYPE_MISMATCH", "INVALID_PROGRAM"}
                      [] OTHER           -> {"TYPE_MISMATCH"}

\* Pop the operands, check their types, push the result.
DataOp ==
  /\ Exec(DOMAIN Shape)
  /\ OnlyStack
  /\ LET shape == Shape[Inst.op]
         n     == Len(shape.args)
     IN  \/ Underflow(n)
         \/ /\ Len(stack) >= n
            /\ IF \A k \in 1 .. n : Top(n - k).type \in shape.args[k]
               THEN \/ \E v \in Results(shape.result) : PushThen(Rest(n), v, ip + 1)
                    \/ \E e \in DataErrors(shape.result) : FailWith(Rest(n), e)
               ELSE FailWith(Rest(n), "TYPE_MISMATCH")

\* MAKE_NODE and MAKE_MAP: a child count (above a template, for MAKE_NODE), then
\* that many children, popped one at a time.
MakeMany ==
  /\ Exec({"MAKE_NODE", "MAKE_MAP"})
  /\ OnlyStack
  /\ LET n == IF Inst.op = "MAKE_NODE" THEN 2 ELSE 1
     IN  \/ Underflow(n)
         \/ /\ Len(stack) >= n
            /\ \/ FailWith(Rest(n), "TYPE_MISMATCH")
               \/ /\ Top(0).type = "int" /\ Top(0).val >= 0
                  /\ n = 2 => Top(1).type = "node"
                  /\ \/ Top(0).val > Len(stack) - n /\ FailWith(Rest(n), "INVALID_PROGRAM")
                     \/ /\ Top(0).val <= Len(stack) - n
                        /\ \/ \E v \in Results("node") : PushThen(Rest(n + Top(0).val), v, ip + 1)
                           \/ \E k \in 0 .. Top(0).val, e \in DataErrors("node") : FailWith(Rest(n + k), e)

-----------------------------------------------------------------------------
(* Calls and locals.                                                        *)

\* validate_vm_call_local_state for the given frames, stack and locals count.
CallLocalStateOK(frames, s, count) ==
  /\ Len(s) <= stackLimit
  /\ Len(frames) <= frameLimit
  /\ count <= localsLimit
  /\ frames # <<>> => /\ frames[Len(frames)].frameBase <= Len(s)
                      /\ frames[Len(frames)].localsBase <= count

LocalsBase == IF callFrames = <<>> THEN 0 ELSE callFrames[Len(callFrames)].localsBase

\* The slot of local a of the active frame.
LocalIndexFlat(a) == a   \* mutant: locals_base ignored
LocalIndex(a) == LocalsBase + a

\* STORE_LOCAL: pop, then aivm_local_set relative to the active frame.
StoreLocal ==
  /\ Exec({"STORE_LOCAL"})
  /\ UNCHANGED <<program, frameVars, taskVars, parVars, sync>>
  /\ \/ Inst.a < 0 /\ FailWith(stack, "INVALID_PROGRAM") /\ UNCHANGED localVars
     \/ Inst.a >= 0 /\ Underflow(1) /\ UNCHANGED localVars
     \/ /\ Inst.a >= 0 /\ Len(stack) >= 1
        /\ LET index == LocalIndex(Inst.a)
           IN  IF ~ CallLocalStateOK(callFrames, Rest(1), localsCount)
               THEN FailWith(Rest(1), "INVALID_PROGRAM") /\ UNCHANGED localVars
               ELSE IF index >= LocalsCapacity
               THEN FailWith(Rest(1), "LOCAL_OUT_OF_RANGE") /\ UNCHANGED localVars
               ELSE /\ locals' = [locals EXCEPT ![index] = Top(0)]
                    /\ localsCount' = IF index >= localsCount THEN index + 1 ELSE localsCount
                    /\ localsLimit' = EnsureCapacity(localsLimit, index + 1,
                                                     LocalsStep, LocalsCapacity)
                    /\ owned' = owned \cup {index}
                    /\ stack' = Rest(1)
                    /\ UNCHANGED stackLimit
                    /\ Goto(ip + 1)

LoadLocal ==
  /\ Exec({"LOAD_LOCAL"})
  /\ OnlyStack
  /\ \/ Inst.a < 0 /\ FailWith(stack, "INVALID_PROGRAM")
     \/ /\ Inst.a >= 0
        /\ LET index == LocalIndex(Inst.a)
           IN  IF CallLocalStateOK(callFrames, stack, localsCount) /\ index < localsCount
               THEN PushThen(stack, locals[index], ip + 1)
               ELSE FailWith(stack, "LOCAL_OUT_OF_RANGE")

\* infer_call_arg_count: the leading STORE_LOCALs of the target.
InferCallArgCount(target) ==
  Cardinality({k \in 1 .. Count - target :
                 \A i \in 1 .. k : program[target + i].op = "STORE_LOCAL"})

\* validate_call_target_layout
CallTargetLayoutOK(target, argCount) ==
  /\ argCount <= MaxCallArgs
  /\ \A i \in 1 .. argCount : program[target + i].a >= 0
  /\ \A i, j \in 1 .. argCount : program[target + i].a = program[target + j].a => i = j

\* The checks CALL and ASYNC_CALL share, and the aivm_frame_push that follows.
CallChecked(target) ==
  /\ target \in 0 .. Count - 1
  /\ InferCallArgCount(target) <= Len(stack)
  /\ CallTargetLayoutOK(target, InferCallArgCount(target))
  /\ CallLocalStateOK(callFrames, stack, localsCount)

FramePush(target) ==
  LET limit == EnsureCapacity(frameLimit, Len(callFrames) + 1, FrameStep, FrameCapacity)
  IN  /\ frameLimit' = limit
      /\ \/ /\ Len(callFrames) + 1 <= limit
            /\ callFrames' = Append(callFrames,
                 [returnIp   |-> ip + 1,
                  frameBase  |-> Len(stack) - InferCallArgCount(target),
                  localsBase |-> localsCount])
            /\ Goto(target)
         \/ /\ Len(callFrames) + 1 > limit
            /\ UNCHANGED callFrames
            /\ Fail("FRAME_OVERFLOW")

Call ==
  /\ Exec({"CALL"})
  /\ UNCHANGED <<program, stackVars, localVars, taskVars, parVars, sync>>
  /\ IF CallChecked(Inst.a)
     THEN FramePush(Inst.a)
     ELSE Fail("INVALID_PROGRAM") /\ UNCHANGED frameVars

\* vm->locals_count after a return from frame.
RestoredLocalsCountMixedUp(frame) == frame.frameBase   \* mutant
RestoredLocalsCount(frame) == frame.localsBase

\* RET and RETURN.  The stack falls back to the frame's base plus at most one
\* result; the caller's frame is checked before the result is pushed.
Return ==
  /\ Exec({"RET", "RETURN"})
  /\ UNCHANGED <<program, frameLimit, locals, localsLimit, taskVars, parVars, sync>>
  /\ \/ /\ callFrames = <<>>
        /\ Goto(Count)
        /\ UNCHANGED <<stackVars, callFrames, localsCount, owned>>
     \/ /\ callFrames # <<>> /\ ~ CallLocalStateOK(callFrames, stack, localsCount)
        /\ FailWith(stack, "INVALID_PROGRAM")
        /\ UNCHANGED <<callFrames, localsCount, owned>>
     \/ /\ callFrames # <<>> /\ CallLocalStateOK(callFrames, stack, localsCount)
        /\ LET frame  == callFrames[Len(callFrames)]
               caller == SubSeq(callFrames, 1, Len(callFrames) - 1)
               base   == SubSeq(stack, 1, frame.frameBase)
           IN  /\ callFrames' = caller
               /\ IF frame.returnIp > Count
                  THEN /\ FailWith(stack, "INVALID_PROGRAM")
                       /\ UNCHANGED <<localsCount, owned>>
                  ELSE /\ localsCount' = RestoredLocalsCount(frame)
                       /\ owned' = owned \cap 0 .. frame.localsBase - 1
                       /\ IF \/ Len(stack) > frame.frameBase + 1
                             \/ ~ CallLocalStateOK(caller, base, frame.localsBase)
                          THEN FailWith(base, "INVALID_PROGRAM")
                          ELSE IF Len(stack) > frame.frameBase
                          THEN PushThen(base, Top(0), frame.returnIp)
                          ELSE /\ stack' = base
                               /\ UNCHANGED stackLimit
                               /\ Goto(frame.returnIp)

-----------------------------------------------------------------------------
(* Syscalls, tasks and structured concurrency.                              *)

\* is_task_handle_pinned, for the stack s left after the operands were popped.
IsHandleInt(v, h) == v.type = "int" /\ v.val = h
IsTaskHandlePinnedByStack(h, s) ==   \* mutant: Par branches not scanned
  \/ \E k \in 1 .. Len(s) : IsHandleInt(s[k], h)
  \/ \E k \in 0 .. localsCount - 1 : IsHandleInt(locals[k], h)
IsTaskHandlePinned(h, s) ==
  \/ \E k \in 1 .. Len(s) : IsHandleInt(s[k], h)
  \/ \E k \in 0 .. localsCount - 1 : IsHandleInt(locals[k], h)
  \/ \E k \in 1 .. Len(parValues) : IsHandleInt(parValues[k], h)
  \/ \E k \in 1 .. Len(tasks) : tasks[k].handle # h /\ IsHandleInt(tasks[k].result, h)

\* reclaim_oldest_completed_task_slot frees slot k.
OldestUnpinned(k, s) ==
  /\ k \in 1 .. Len(tasks)
  /\ ~ IsTaskHandlePinned(tasks[k].handle, s)
  /\ \A j \in 1 .. k - 1 : IsTaskHandlePinned(tasks[j].handle, s)

WithoutSlotSwapped(k) ==   \* mutant: the last task moves into the hole
  [j \in 1 .. Len(tasks) - 1 |-> IF j = k THEN tasks[Len(tasks)] ELSE tasks[j]]
WithoutSlot(k) ==
  [j \in 1 .. Len(tasks) - 1 |-> IF j < k THEN tasks[j] ELSE tasks[j + 1]]

\* The table that push_completed_task appends to.
TableWithRoom(s) ==
  IF Len(tasks) < TaskCapacity THEN {tasks}
  ELSE {WithoutSlot(k) : k \in {i \in 1 .. Len(tasks) : OldestUnpinned(i, s)}}

\* push_completed_task: record result under a fresh handle and push the handle.
PushCompletedTask(s, result, n) ==
  \/ /\ TableWithRoom(s) = {}
     /\ FailWith(s, "INVALID_PROGRAM")
     /\ UNCHANGED taskVars
  \/ \E room \in TableWithRoom(s) :
       \/ /\ nextTask = IntMax
          /\ tasks' = room
          /\ FailWith(s, "INVALID_PROGRAM")
          /\ UNCHANGED nextTask
       \/ /\ nextTask # IntMax
          /\ tasks' = Append(room, [handle |-> nextTask, result |-> result])
          /\ nextTask' = nextTask + 1
          /\ PushThen(s, HandleVal(nextTask), n)

\* call_sys_with_arity up to the answer of the host; a failure leaves ip alone.
\* A target without the "sys." prefix may still be recovered from its only
\* argument, both being strings.
SyscallRefused ==
  \/ /\ Inst.a > MaxSyscallArgs
     /\ UNCHANGED stackVars
     /\ FailInPlace("INVALID_PROGRAM")
  \/ /\ Inst.a \in 0 .. MaxSyscallArgs /\ Len(stack) < Inst.a + 1
     /\ stack' = <<>> /\ UNCHANGED stackLimit
     /\ FailInPlace("STACK_UNDERFLOW")
  \/ /\ Inst.a \in 0 .. MaxSyscallArgs /\ Len(stack) >= Inst.a + 1
     /\ stack' = Rest(Inst.a + 1) /\ UNCHANGED stackLimit
     /\ IF Top(Inst.a).type = "string"
        THEN \E e \in {"SYSCALL", "MEMORY_PRESSURE"} : FailInPlace(e)
        ELSE FailInPlace("TYPE_MISMATCH")

SyscallAnswered ==
  /\ Inst.a \in 0 .. MaxSyscallArgs /\ Len(stack) >= Inst.a + 1
  /\ Top(Inst.a).type = "string"
  /\ \/ Top(Inst.a).val \in SysTargets
     \/ Inst.a = 1 /\ Top(0).type = "string"

CallSys ==
  /\ Exec({"CALL_SYS"})
  /\ OnlyStack
  /\ \/ Inst.a < 0 /\ FailWith(stack, "INVALID_PROGRAM")
     \/ Inst.a >= 0 /\ SyscallRefused
     \/ /\ Inst.a >= 0 /\ SyscallAnswered
        /\ \E v \in SysResults : PushThen(Rest(Inst.a + 1), v, ip + 1)

AsyncCallSys ==
  /\ Exec({"ASYNC_CALL_SYS"})
  /\ UNCHANGED <<program, frameVars, localVars, parVars, sync>>
  /\ \/ Inst.a < 0 /\ FailWith(stack, "INVALID_PROGRAM") /\ UNCHANGED taskVars
     \/ Inst.a >= 0 /\ SyscallRefused /\ UNCHANGED taskVars
     \/ /\ Inst.a >= 0 /\ SyscallAnswered
        /\ \E v \in SysResults : PushCompletedTask(Rest(Inst.a + 1), v, ip + 1)

\* What execute_call_subroutine_sync remembers across the nested steps.
SyncEntryLate(target) ==   \* mutant: frame count read after the push
  [baseline  |-> Len(callFrames) + 1,
   frameBase |-> Len(stack) - InferCallArgCount(target),
   returnIp  |-> ip + 1]
SyncEntry(target) ==
  [baseline  |-> Len(callFrames),
   frameBase |-> Len(stack) - InferCallArgCount(target),
   returnIp  |-> ip + 1]

\* ASYNC_CALL enters execute_call_subroutine_sync; the steps of the subroutine
\* follow until AsyncReturn or AsyncAbort ends the same instruction.
AsyncCall ==
  /\ Exec({"ASYNC_CALL"})
  /\ UNCHANGED <<program, stackVars, localVars, taskVars, parVars>>
  /\ IF CallChecked(Inst.a)
     THEN /\ FramePush(Inst.a)
          /\ sync' = IF Len(callFrames') = Len(callFrames) THEN sync
                     ELSE Append(sync, SyncEntry(Inst.a))
     ELSE Fail("INVALID_PROGRAM") /\ UNCHANGED <<frameVars, sync>>

AsyncReturn ==
  /\ AsyncDone
  /\ UNCHANGED <<program, frameVars, localVars, parVars>>
  /\ LET call   == sync[Len(sync)]
         result == IF Len(stack) > call.frameBase THEN Top(0) ELSE VoidVal
     IN  /\ sync' = SubSeq(sync, 1, Len(sync) - 1)
         /\ IF Len(stack) > call.frameBase + 1
            THEN FailWith(stack, "INVALID_PROGRAM") /\ UNCHANGED taskVars
            ELSE PushCompletedTask(SubSeq(stack, 1, call.frameBase), result, ip)

\* A HALT or an error below unwinds every nested ASYNC_CALL.
AsyncAbort ==
  /\ sync # <<>>
  /\ status \in {"HALTED", "ERROR"}
  /\ sync' = <<>>
  /\ status' = "ERROR"
  /\ error' = IF status = "HALTED" THEN "INVALID_PROGRAM" ELSE error
  /\ ip' = Count
  /\ UNCHANGED <<program, stackVars, frameVars, localVars, taskVars, parVars>>

\* find_terminal_task_result
TaskResults(h) == {tasks[k].result : k \in {i \in 1 .. Len(tasks) : tasks[i].handle = h}}

Await ==
  /\ Exec({"AWAIT"})
  /\ OnlyStack
  /\ \/ Underflow(1)
     \/ /\ Len(stack) >= 1
        /\ IF Top(0).type = "int" /\ TaskResults(Top(0).val) # {}
           THEN \E v \in TaskResults(Top(0).val) : PushThen(Rest(1), v, ip + 1)
           ELSE FailWith(Rest(1), "INVALID_PROGRAM")

ParBegin ==
  /\ Exec({"PAR_BEGIN"})
  /\ UNCHANGED <<program, stackVars, frameVars, localVars, taskVars, parValues, blocks, sync>>
  /\ IF Inst.a >= 0 /\ Len(parContexts) < ParContextCapacity
     THEN /\ parContexts' = Append(parContexts,
                                   [expected |-> Inst.a, start |-> Len(parValues)])
          /\ Goto(ip + 1)
     ELSE Fail("INVALID_PROGRAM") /\ UNCHANGED parContexts

ParFork ==
  /\ Exec({"PAR_FORK"})
  /\ UNCHANGED <<program, frameVars, localVars, taskVars, parContexts, blocks, sync>>
  /\ IF parContexts = <<>> \/ Len(parValues) >= ParValueCapacity
     THEN FailWith(stack, "INVALID_PROGRAM") /\ UNCHANGED parValues
     ELSE \/ Underflow(1) /\ UNCHANGED parValues
          \/ /\ Len(stack) >= 1
             /\ parValues' = Append(parValues, Top(0))
             /\ stack' = Rest(1)
             /\ UNCHANGED stackLimit
             /\ Goto(ip + 1)

\* What PAR_JOIN puts in the Block for a forked value: an int that equals a
\* live task handle is replaced by that task's result.
JoinValue(v) ==
  IF v.type = "int" /\ TaskResults(v.val) # {}
  THEN CHOOSE r \in TaskResults(v.val) : TRUE
  ELSE v

\* The branches left when the scope that began at start is closed.
OuterBranchesDropped(start) == <<>>   \* mutant
OuterBranches(start) == SubSeq(parValues, 1, start)

ParJoin ==
  /\ Exec({"PAR_JOIN"})
  /\ UNCHANGED <<program, frameVars, localVars, taskVars, sync>>
  /\ LET context == parContexts[Len(parContexts)]
         branch  == [k \in 1 .. Inst.a |-> JoinValue(parValues[context.start + k])]
     IN  IF /\ Inst.a >= 0
            /\ parContexts # <<>>
            /\ context.expected = Inst.a
            /\ Len(parValues) - context.start = Inst.a
         THEN \/ FailWith(stack, "MEMORY_PRESSURE") /\ UNCHANGED parVars
              \/ /\ Len(blocks) < MaxBlocks
                 /\ blocks' = Append(blocks, branch)
                 /\ parContexts' = SubSeq(parContexts, 1, Len(parContexts) - 1)
                 /\ parValues' = OuterBranches(context.start)
                 /\ PushThen(stack, NodeVal(Len(blocks) + 1), ip + 1)
         ELSE FailWith(stack, "INVALID_PROGRAM") /\ UNCHANGED parVars

\* An opcode number outside the enumeration.
Unsupported ==
  /\ Exec({"UNKNOWN"})
  /\ Fail("INVALID_OPCODE")
  /\ OnlyControl

\* aivm_run on a program without instructions.
RunEmpty ==
  /\ status = "READY" /\ Count = 0
  /\ status' = "HALTED"
  /\ UNCHANGED <<ip, error>> /\ OnlyControl

-----------------------------------------------------------------------------
\* aivm_reset_state.  The array of locals keeps its contents.
ResetState ==
  /\ ip' = 0 /\ status' = "READY" /\ error' = "NONE"
  /\ stack' = <<>> /\ stackLimit' = StackInitial
  /\ callFrames' = <<>> /\ frameLimit' = FrameInitial
  /\ localsCount' = 0 /\ localsLimit' = LocalsInitial /\ owned' = {}
  /\ tasks' = <<>> /\ nextTask' = 1
  /\ parContexts' = <<>> /\ parValues' = <<>> /\ blocks' = <<>>
  /\ UNCHANGED <<locals, sync>>

\* The embedder resets the VM after a run, to run the program again.
Reset ==
  /\ status \in {"HALTED", "ERROR"}
  /\ sync = <<>>
  /\ UNCHANGED program
  /\ ResetState

Init ==
  /\ program \in Programs
  /\ ip = 0 /\ status = "READY" /\ error = "NONE"
  /\ stack = <<>> /\ stackLimit = StackInitial
  /\ callFrames = <<>> /\ frameLimit = FrameInitial
  /\ locals \in [0 .. LocalsCapacity - 1 -> Garbage]
  /\ localsCount = 0 /\ localsLimit = LocalsInitial /\ owned = {}
  /\ tasks = <<>> /\ nextTask = 1
  /\ parContexts = <<>> /\ parValues = <<>> /\ blocks = <<>>
  /\ sync = <<>>

Step == \/ Nop \/ Halt \/ Stub \/ Literal \/ Pop \/ Binary \/ Jump \/ JumpIfFalse
        \/ DataOp \/ MakeMany \/ StoreLocal \/ LoadLocal \/ Call \/ Return
        \/ CallSys \/ AsyncCallSys \/ AsyncCall \/ AsyncReturn \/ AsyncAbort
        \/ Await \/ ParBegin \/ ParFork \/ ParJoin \/ Unsupported \/ RunEmpty

Next == Step \/ Reset

Spec == Init /\ [][Next]_vars

-----------------------------------------------------------------------------
(* Properties.                                                              *)

TypeOK ==
  /\ program \in Seq(Instruction)
  /\ ip \in Nat
  /\ status \in {"READY", "RUNNING", "HALTED", "ERROR"}
  /\ error \in Errors
  /\ stack \in Seq(Value) /\ stackLimit \in Nat
  /\ callFrames \in Seq(Frame) /\ frameLimit \in Nat
  /\ locals \in [0 .. LocalsCapacity - 1 -> Value]
  /\ localsCount \in Nat /\ localsLimit \in Nat
  /\ owned \in SUBSET Nat
  /\ tasks \in Seq(Task) /\ nextTask \in Int
  /\ parContexts \in Seq(ParContext) /\ parValues \in Seq(Value)
  /\ blocks \in Seq(Seq(Value))
  /\ sync \in Seq(SyncCall)

\* The counts stay within the adaptive limits and the limits within the fixed
\* arrays, so no push, frame or store ever writes outside vm->stack,
\* vm->call_frames or vm->locals, whatever the program does.
WithinArrays ==
  /\ Len(stack) <= stackLimit /\ stackLimit <= StackCapacity
  /\ Len(callFrames) <= frameLimit /\ frameLimit <= FrameCapacity
  /\ localsCount <= localsLimit /\ localsLimit <= LocalsCapacity

\* The locals of the active calls are stacked: every frame's locals_base is at
\* or above its caller's and below the live count (CALL, RET and STORE_LOCAL
\* keep this for any program, also for one that fails halfway).
LocalsNested ==
  /\ \A i \in 1 .. Len(callFrames) : callFrames[i].localsBase <= localsCount
  /\ \A i, j \in 1 .. Len(callFrames) :
       i <= j => callFrames[i].localsBase <= callFrames[j].localsBase

\* No step of a callee, at any depth, changes a local of one of its callers.
CallerLocalsIntact ==
  [][\A k \in 0 .. LocalsBase - 1 : locals'[k] = locals[k]]_vars

\* While a subroutine runs under ASYNC_CALL, its own frame is still in place
\* below whatever it called; when it is gone, ip is the instruction after the
\* ASYNC_CALL and exactly the result is left above the caller's operands.  So
\* the loop of execute_call_subroutine_sync cannot miss its exit, cannot leave
\* at the wrong call, and its extraStackValues check cannot fire.
AsyncReturnsToItsCall ==
  status = "RUNNING" =>
    \A i \in 1 .. Len(sync) :
      LET call == sync[i]
      IN  \/ /\ Len(callFrames) > call.baseline
             /\ callFrames[call.baseline + 1].returnIp = call.returnIp
             /\ callFrames[call.baseline + 1].frameBase = call.frameBase
          \/ /\ i = Len(sync)
             /\ Len(callFrames) = call.baseline
             /\ ip = call.returnIp
             /\ Len(stack) \in {call.frameBase, call.frameBase + 1}

\* Task handles in the table are distinct, ordered by age and already issued,
\* also after reclaiming: AWAIT can never resolve to two tasks or to a later one.
TaskTableOrdered ==
  /\ Len(tasks) <= TaskCapacity
  /\ \A k \in 1 .. Len(tasks) : tasks[k].handle < nextTask
  /\ \A j, k \in 1 .. Len(tasks) : j < k => tasks[j].handle < tasks[k].handle

\* A task whose handle the program still has after a step, on the stack, in a
\* live local or in a Par branch, is still in the table after it, with its
\* result: making room for a new task never drops one that can be awaited.
Held(h, s, slots, count, branches) ==
  \/ \E i \in 1 .. Len(s) : IsHandleInt(s[i], h)
  \/ \E i \in 0 .. count - 1 : IsHandleInt(slots[i], h)
  \/ \E i \in 1 .. Len(branches) : IsHandleInt(branches[i], h)
HeldTasksSurvive ==
  [][status' # "READY" =>
       \A k \in 1 .. Len(tasks) :
         Held(tasks[k].handle, stack', locals', localsCount', parValues')
           => \E j \in 1 .. Len(tasks') : tasks'[j] = tasks[k]]_vars

\* Par scopes are properly nested: each context starts where its parent's
\* branches so far end, so a PAR_JOIN takes only the branches of its own scope.
ParNested ==
  /\ Len(parContexts) <= ParContextCapacity
  /\ Len(parValues) <= ParValueCapacity
  /\ \A i \in 1 .. Len(parContexts) : parContexts[i].start <= Len(parValues)
  /\ \A i, j \in 1 .. Len(parContexts) :
       i <= j => parContexts[i].start <= parContexts[j].start

\* What SPEC/IL.md says of Await: a Task value resolves to its result.
AwaitResolvesTask ==
  [][Exec({"AWAIT"}) /\ stack # <<>> /\ Top(0).handle
       => error' \in {"NONE", "STACK_OVERFLOW"}]_vars

\* What SPEC/IL.md says of Par: the Block holds the branch results; only a
\* branch that is a Task stands for something else.
JoinKeepsBranchResults ==
  [][Len(blocks') > Len(blocks) =>
       LET context == parContexts[Len(parContexts)]
       IN  \A k \in 1 .. Inst.a :
             ~ parValues[context.start + k].handle =>
               blocks'[Len(blocks')][k] = parValues[context.start + k]]_vars

\* What SPEC/EVAL.md says of evaluation: nothing hidden feeds into it.  A
\* LOAD_LOCAL only reads a slot some live activation stored into.
LoadsAreDefined ==
  [][Exec({"LOAD_LOCAL"}) /\ error' = error => LocalsBase + Inst.a \in owned]_vars
=============================================================================
