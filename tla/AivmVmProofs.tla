----------------------------- MODULE AivmVmProofs -----------------------------
(***************************************************************************)
(* Proofs about AivmVm, for every program, constant pool, capacity and     *)
(* syscall answer.                                                         *)
(***************************************************************************)
EXTENDS AivmVm, TLAPS, FiniteSetTheorems

\* The inductive invariant, one conjunct per part of the VM.
CtlOK ==
  /\ program \in Seq(Instruction)
  /\ ip \in Nat
  /\ status \in {"READY", "RUNNING", "HALTED", "ERROR"}
  /\ error \in Errors
StackOK ==
  /\ stack \in Seq(Value) /\ stackLimit \in Nat
  /\ Len(stack) <= stackLimit /\ stackLimit <= StackCapacity
FramesOK ==
  /\ callFrames \in Seq(Frame) /\ frameLimit \in Nat
  /\ Len(callFrames) <= frameLimit /\ frameLimit <= FrameCapacity
LocalsOK ==
  /\ locals \in [0 .. LocalsCapacity - 1 -> Value]
  /\ localsCount \in Nat /\ localsLimit \in Nat
  /\ localsCount <= localsLimit /\ localsLimit <= LocalsCapacity
  /\ owned \in SUBSET Nat
TasksOK ==
  /\ tasks \in Seq(Task) /\ nextTask \in Int
  /\ TaskTableOrdered
ParOK ==
  /\ parContexts \in Seq(ParContext) /\ parValues \in Seq(Value)
  /\ blocks \in Seq(Seq(Value))
  /\ ParNested
SyncOK == sync \in Seq(SyncCall)

VmInv == /\ CtlOK /\ StackOK /\ FramesOK /\ LocalsOK /\ LocalsNested
         /\ TasksOK /\ ParOK /\ SyncOK

-----------------------------------------------------------------------------
(* The values and the helpers.                                              *)

\* Every value the opcodes build is a value.
LEMMA ValueTypes ==
  /\ \A n \in Int : /\ IntVal(n) \in Value /\ HandleVal(n) \in Value
                    /\ StrVal(n) \in Value /\ NodeVal(n) \in Value
  /\ \A b \in BOOLEAN : BoolVal(b) \in Value
  /\ VoidVal \in Value
BY DEF IntVal, HandleVal, StrVal, NodeVal, BoolVal, VoidVal, Value, Types

\* The quotient of the round-up division is large enough.
LEMMA RoundUp ==
  ASSUME NEW d \in Nat, d > 0, NEW step \in Nat, step > 0
  PROVE  /\ step * ((d + step - 1) \div step) \in Nat
         /\ step * ((d + step - 1) \div step) >= d
<1> DEFINE q == (d + step - 1) \div step
<1>1. q \in Int /\ (d + step - 1) = step * q + ((d + step - 1) % step)
      /\ 0 <= (d + step - 1) % step /\ (d + step - 1) % step <= step - 1
  BY Z3
<1>2. QED BY <1>1, Z3

\* ensure_*_capacity never shrinks a limit, never exceeds the array, and makes
\* room whenever the array has it.
LEMMA EnsureCapacityBounds ==
  ASSUME NEW limit \in Nat, NEW needed \in Nat, NEW step \in Nat, step > 0,
         NEW capacity \in Nat, limit <= capacity
  PROVE  /\ EnsureCapacity(limit, needed, step, capacity) \in Nat
         /\ limit <= EnsureCapacity(limit, needed, step, capacity)
         /\ EnsureCapacity(limit, needed, step, capacity) <= capacity
         /\ needed <= capacity => needed <= EnsureCapacity(limit, needed, step, capacity)
<1>1. CASE needed <= limit \/ limit >= capacity
  BY <1>1 DEF EnsureCapacity
<1>2. CASE needed > limit /\ limit < capacity
  <2> DEFINE d == needed - limit
             up == step * ((d + step - 1) \div step)
  <2>1. d \in Nat /\ d > 0
    BY <1>2
  <2>2. up \in Nat /\ up >= d
    BY <2>1, RoundUp
  <2>3. EnsureCapacity(limit, needed, step, capacity)
          = IF limit + up > capacity THEN capacity ELSE limit + up
    BY <1>2 DEF EnsureCapacity
  <2> HIDE DEF up
  <2>4. QED BY <1>2, <2>2, <2>3
<1>3. QED BY <1>1, <1>2

\* A prefix of a sequence.
LEMMA Prefix ==
  ASSUME NEW S, NEW s \in Seq(S), NEW n \in 0 .. Len(s)
  PROVE  /\ SubSeq(s, 1, n) \in Seq(S)
         /\ Len(SubSeq(s, 1, n)) = n
         /\ \A i \in 1 .. n : SubSeq(s, 1, n)[i] = s[i]
OBVIOUS

LEMMA FunctionIsSeq ==
  ASSUME NEW S, NEW n \in Nat, NEW f \in [1 .. n -> S]
  PROVE  f \in Seq(S) /\ Len(f) = n
OBVIOUS

LEMMA Appended ==
  ASSUME NEW S, NEW s \in Seq(S), NEW x \in S
  PROVE  /\ Append(s, x) \in Seq(S)
         /\ Len(Append(s, x)) = Len(s) + 1
         /\ Append(s, x)[Len(s) + 1] = x
         /\ \A i \in 1 .. Len(s) : Append(s, x)[i] = s[i]
OBVIOUS

\* What the proofs need of the constants.
LEMMA Capacities ==
  /\ StackCapacity \in Nat /\ StackInitial \in Nat /\ StackInitial <= StackCapacity
  /\ FrameCapacity \in Nat /\ FrameInitial \in Nat /\ FrameInitial <= FrameCapacity
  /\ LocalsCapacity \in Nat /\ LocalsInitial \in Nat /\ LocalsInitial <= LocalsCapacity
  /\ StackStep \in Nat /\ StackStep > 0 /\ FrameStep \in Nat /\ FrameStep > 0
  /\ LocalsStep \in Nat /\ LocalsStep > 0
  /\ TaskCapacity \in Nat /\ TaskCapacity > 0
  /\ ParContextCapacity \in Nat /\ ParValueCapacity \in Nat
  /\ MaxCallArgs \in Nat /\ MaxSyscallArgs \in Nat
  /\ IntMin \in Int /\ IntMax \in Int /\ IntMin < 1 /\ 1 < IntMax
BY ConstantsAssumption

\* Removing values from the stack leaves a stack, and Top(k) is a value.
LEMMA RestIsStack ==
  ASSUME StackOK, NEW n \in 0 .. Len(stack)
  PROVE  /\ Rest(n) \in Seq(Value)
         /\ Len(Rest(n)) = Len(stack) - n
         /\ Len(Rest(n)) <= stackLimit
BY DEF StackOK, Rest

LEMMA TopIsValue ==
  ASSUME StackOK, NEW k \in 0 .. Len(stack) - 1
  PROVE  Top(k) \in Value
BY DEF StackOK, Top

\* The ways a step ends keep the control registers well formed.
LEMMA GotoOK ==
  ASSUME CtlOK, NEW n \in Nat, Goto(n), program' = program
  PROVE  CtlOK'
BY DEF CtlOK, Goto

LEMMA FailOK ==
  ASSUME CtlOK, NEW e \in Errors, Fail(e) \/ FailInPlace(e), program' = program
  PROVE  CtlOK'
<1>1. Count \in Nat
  BY DEF CtlOK, Count
<1>2. QED BY <1>1 DEF CtlOK, Fail, FailInPlace

LEMMA FailWithOK ==
  ASSUME CtlOK, StackOK, program' = program, NEW e \in Errors,
         NEW s \in Seq(Value), Len(s) <= stackLimit, FailWith(s, e)
  PROVE  CtlOK' /\ StackOK'
<1>1. CtlOK'
  BY FailOK DEF FailWith
<1>2. StackOK'
  BY DEF FailWith, StackOK
<1>3. QED BY <1>1, <1>2

LEMMA UnderflowOK ==
  ASSUME CtlOK, StackOK, program' = program, NEW n, Underflow(n)
  PROVE  CtlOK' /\ StackOK'
<1>1. FailWith(<<>>, "STACK_UNDERFLOW")
  BY DEF Underflow
<1>2. <<>> \in Seq(Value) /\ Len(<<>>) <= stackLimit /\ "STACK_UNDERFLOW" \in Errors
  BY DEF StackOK, Errors
<1>3. QED BY <1>1, <1>2, FailWithOK

\* A push never writes past the limit, nor the limit past the array.
LEMMA PushThenOK ==
  ASSUME CtlOK, StackOK, program' = program, NEW n \in Nat, NEW v \in Value,
         NEW s \in Seq(Value), PushThen(s, v, n)
  PROVE  /\ CtlOK'
         /\ Len(s) <= stackLimit => StackOK'
<1> DEFINE limit == EnsureCapacity(stackLimit, Len(s) + 1, StackStep, StackCapacity)
<1>1. limit \in Nat /\ stackLimit <= limit /\ limit <= StackCapacity
  <2>1. stackLimit \in Nat /\ Len(s) + 1 \in Nat /\ stackLimit <= StackCapacity
    BY DEF StackOK
  <2>2. QED BY <2>1, EnsureCapacityBounds, Capacities
<1> HIDE DEF limit
<1>2. /\ stackLimit' = limit
      /\ \/ Len(s) + 1 <= limit /\ stack' = Append(s, v) /\ Goto(n)
         \/ Len(s) + 1 > limit /\ stack' = s /\ Fail("STACK_OVERFLOW")
  BY DEF PushThen, limit
<1>3. CtlOK'
  BY <1>2, GotoOK, FailOK DEF Errors
<1>4. Len(s) <= stackLimit => StackOK'
  <2> SUFFICES ASSUME Len(s) <= stackLimit PROVE StackOK'
    OBVIOUS
  <2>1. stackLimit \in Nat /\ Len(s) \in Nat
    BY DEF StackOK
  <2>2. CASE Len(s) + 1 <= limit /\ stack' = Append(s, v)
    <3>1. stack' \in Seq(Value) /\ Len(stack') = Len(s) + 1
      BY <2>2, Appended
    <3>2. QED BY <1>1, <1>2, <2>2, <3>1 DEF StackOK
  <2>3. CASE stack' = s
    BY <1>1, <1>2, <2>1, <2>3 DEF StackOK
  <2>4. QED BY <1>2, <2>2, <2>3
<1>5. QED BY <1>3, <1>4

\* The instruction about to execute.
LEMMA InstType ==
  ASSUME CtlOK, NEW ops, Exec(ops)
  PROVE  /\ Count \in Nat /\ ip \in Nat /\ ip < Count /\ ip + 1 \in Nat
         /\ Inst \in Instruction /\ Inst.a \in Int
<1>1. Count \in Nat /\ ip \in Nat /\ ip < Count /\ Inst \in Instruction
  BY DEF CtlOK, Exec, Inst, Count
<1>2. Inst.a \in Int
  BY <1>1 DEF Instruction
<1>3. QED BY <1>1, <1>2

\* The parts of VmInv that a step of the operand stack leaves alone.
RestOK == FramesOK /\ LocalsOK /\ LocalsNested /\ TasksOK /\ ParOK /\ SyncOK

LEMMA OnlyStackOK ==
  ASSUME RestOK, OnlyStack
  PROVE  RestOK' /\ program' = program
BY DEF RestOK, OnlyStack, frameVars, localVars, taskVars, parVars, FramesOK, LocalsOK,
       LocalsNested, TasksOK, TaskTableOrdered, ParOK, ParNested, SyncOK

LEMMA OnlyControlOK ==
  ASSUME RestOK, StackOK, OnlyControl
  PROVE  RestOK' /\ StackOK' /\ program' = program
BY OnlyStackOK DEF OnlyControl, stackVars, StackOK

-----------------------------------------------------------------------------
(* The opcodes that only touch the operand stack.                           *)

LEMMA ControlSteps ==
  ASSUME VmInv, Nop \/ Halt \/ Stub \/ Jump \/ Unsupported \/ RunEmpty
  PROVE  VmInv'
<1> USE DEF VmInv
<1>1. RestOK /\ OnlyControl
  BY DEF RestOK, Nop, Halt, Stub, Jump, Unsupported, RunEmpty
<1>2. RestOK' /\ StackOK' /\ program' = program
  BY <1>1, OnlyControlOK
<1>3. CASE Nop
  BY <1>2, <1>3, GotoOK, InstType DEF Nop, RestOK
<1>4. CASE Halt
  BY <1>2, <1>4, GotoOK, InstType DEF Halt, RestOK
<1>5. CASE Stub
  BY <1>2, <1>5, FailOK DEF Stub, RestOK, Errors
<1>6. CASE Jump
  BY <1>2, <1>6, GotoOK, FailOK, InstType DEF Jump, RestOK, Errors
<1>7. CASE Unsupported
  BY <1>2, <1>7, FailOK DEF Unsupported, RestOK, Errors
<1>8. CASE RunEmpty
  BY <1>2, <1>8 DEF RunEmpty, RestOK, CtlOK
<1>9. QED BY <1>3, <1>4, <1>5, <1>6, <1>7, <1>8

\* A value pushed by an opcode that popped n operands.
LEMMA PushAfterPop ==
  ASSUME CtlOK, StackOK, program' = program, NEW n \in 0 .. Len(stack),
         NEW m \in Nat, NEW v \in Value, PushThen(Rest(n), v, m)
  PROVE  CtlOK' /\ StackOK'
BY RestIsStack, PushThenOK

LEMMA FailAfterPop ==
  ASSUME CtlOK, StackOK, program' = program, NEW n \in 0 .. Len(stack),
         NEW e \in Errors, FailWith(Rest(n), e)
  PROVE  CtlOK' /\ StackOK'
BY RestIsStack, FailWithOK

LEMMA PushHere ==
  ASSUME CtlOK, StackOK, program' = program,
         NEW m \in Nat, NEW v \in Value, PushThen(stack, v, m)
  PROVE  CtlOK' /\ StackOK'
BY PushThenOK DEF StackOK

LEMMA FailHere ==
  ASSUME CtlOK, StackOK, program' = program, NEW e \in Errors, FailWith(stack, e)
  PROVE  CtlOK' /\ StackOK'
BY FailWithOK DEF StackOK

\* Leaving Rest(n) on the stack and going on.
LEMMA DropThenGoto ==
  ASSUME CtlOK, StackOK, program' = program, NEW n \in 0 .. Len(stack), NEW m \in Nat,
         stack' = Rest(n), stackLimit' = stackLimit, Goto(m)
  PROVE  CtlOK' /\ StackOK'
<1>1. CtlOK'
  BY GotoOK
<1>2. StackOK'
  BY RestIsStack DEF StackOK
<1>3. QED BY <1>1, <1>2

LEMMA ConstantTypes ==
  /\ \A k \in 0 .. Len(Constants) - 1 : Constants[k + 1] \in Value
  /\ \A v \in SysResults : v \in Value
<1>1. Constants \in Seq(Value) /\ SysResults \subseteq Value
  BY ConstantsAssumption
<1>2. QED BY <1>1

LEMMA LiteralStep ==
  ASSUME VmInv, Literal
  PROVE  VmInv'
<1> USE DEF VmInv
<1>1. RestOK' /\ program' = program
  BY OnlyStackOK DEF RestOK, Literal
<1>2. CASE Exec({"PUSH_INT"}) /\ PushThen(stack, IntVal(Inst.a), ip + 1)
  BY <1>1, <1>2, InstType, ValueTypes, PushHere DEF RestOK
<1>3. CASE Exec({"PUSH_BOOL"}) /\ PushThen(stack, BoolVal(Inst.a # 0), ip + 1)
  BY <1>1, <1>3, InstType, ValueTypes, PushHere DEF RestOK
<1>4. CASE /\ Exec({"CONST"})
           /\ IF Inst.a \in 0 .. Len(Constants) - 1
              THEN PushThen(stack, Constants[Inst.a + 1], ip + 1)
              ELSE FailWith(stack, "INVALID_PROGRAM")
  <2>1. CASE Inst.a \in 0 .. Len(Constants) - 1
    BY <1>1, <1>4, <2>1, InstType, ConstantTypes, PushHere DEF RestOK
  <2>2. CASE Inst.a \notin 0 .. Len(Constants) - 1
    BY <1>1, <1>4, <2>2, FailHere DEF RestOK, Errors
  <2>3. QED BY <2>1, <2>2
<1>5. QED BY <1>2, <1>3, <1>4 DEF Literal

LEMMA PopStep ==
  ASSUME VmInv, Pop
  PROVE  VmInv'
<1> USE DEF VmInv
<1>1. RestOK' /\ program' = program
  BY OnlyStackOK DEF RestOK, Pop
<1>2. CASE Underflow(1)
  BY <1>1, <1>2, UnderflowOK DEF RestOK
<1>3. CASE Len(stack) >= 1 /\ stack' = Rest(1) /\ UNCHANGED stackLimit /\ Goto(ip + 1)
  <2>1. 1 \in 0 .. Len(stack) /\ ip + 1 \in Nat
    BY <1>3 DEF StackOK, CtlOK
  <2>2. QED BY <1>1, <1>3, <2>1, DropThenGoto DEF RestOK
<1>4. QED BY <1>2, <1>3 DEF Pop

LEMMA WrapType == \A n \in Int : Wrap(n) \in Int
BY Capacities DEF Wrap

LEMMA BinaryStep ==
  ASSUME VmInv, Binary
  PROVE  VmInv'
<1> USE DEF VmInv
<1>1. RestOK' /\ program' = program
  BY OnlyStackOK DEF RestOK, Binary
<1>2. CASE Underflow(2)
  BY <1>1, <1>2, UnderflowOK DEF RestOK
<1>3. CASE Len(stack) >= 2
  <2>1. 2 \in 0 .. Len(stack) /\ Top(0) \in Value /\ Top(1) \in Value /\ ip + 1 \in Nat
    BY <1>3, TopIsValue DEF StackOK, CtlOK
  <2>2. BinaryResult(Inst.op, Top(1), Top(0)) \in Value
    <3>1. Top(0).val \in Int /\ Top(1).val \in Int
      BY <2>1 DEF Value
    <3>2. IntVal(Wrap(Top(1).val + Top(0).val)) \in Value
      BY <3>1, WrapType, ValueTypes
    <3>3. ValueEquals(Top(1), Top(0)) \in BOOLEAN
      BY DEF ValueEquals
    <3>4. BoolVal(ValueEquals(Top(1), Top(0))) \in Value
      BY <3>3, ValueTypes
    <3>5. QED BY <3>2, <3>4 DEF BinaryResult
  <2>3. \/ PushThen(Rest(2), BinaryResult(Inst.op, Top(1), Top(0)), ip + 1)
        \/ FailWith(Rest(2), "TYPE_MISMATCH")
        \/ Underflow(2)
    BY DEF Binary
  <2>4. QED BY <1>1, <1>2, <2>1, <2>2, <2>3, PushAfterPop, FailAfterPop DEF RestOK, Errors
<1>4. QED BY <1>2, <1>3 DEF Binary

LEMMA JumpIfFalseStep ==
  ASSUME VmInv, JumpIfFalse
  PROVE  VmInv'
<1> USE DEF VmInv
<1>1. RestOK' /\ program' = program
  BY OnlyStackOK DEF RestOK, JumpIfFalse
<1>2. Inst.a \in Int /\ ip + 1 \in Nat
  BY InstType DEF JumpIfFalse
<1>3. CASE FailWith(stack, "INVALID_PROGRAM")
  BY <1>1, <1>3, FailHere DEF RestOK, Errors
<1>4. CASE Underflow(1)
  BY <1>1, <1>4, UnderflowOK DEF RestOK
<1>5. CASE Len(stack) >= 1 /\ \E e \in {"TYPE_MISMATCH", "INVALID_PROGRAM"} : FailWith(Rest(1), e)
  <2>1. 1 \in 0 .. Len(stack)
    BY <1>5 DEF StackOK
  <2>2. QED BY <1>1, <1>5, <2>1, FailAfterPop DEF RestOK, Errors
<1>6. CASE /\ Inst.a >= 0 /\ Len(stack) >= 1
           /\ stack' = Rest(1)
           /\ UNCHANGED stackLimit
           /\ Goto(IF Top(0).val = 0 THEN Inst.a ELSE ip + 1)
  <2>1. 1 \in 0 .. Len(stack) /\ (IF Top(0).val = 0 THEN Inst.a ELSE ip + 1) \in Nat
    BY <1>2, <1>6 DEF StackOK
  <2>2. QED BY <1>1, <1>6, <2>1, DropThenGoto DEF RestOK
<1>7. QED BY <1>3, <1>4, <1>5, <1>6 DEF JumpIfFalse

LEMMA DataTypes ==
  ASSUME NEW type \in {"string", "int", "bool", "node"}
  PROVE  /\ \A v \in Results(type) : v \in Value
         /\ \A e \in DataErrors(type) : e \in Errors
<1>1. Strings \subseteq Int /\ Counts \subseteq Int /\ Nodes \subseteq Int
  BY ConstantsAssumption
<1>2. \A v \in Results(type) : v \in Value
  BY <1>1, ValueTypes DEF Results
<1>3. \A e \in DataErrors(type) : e \in Errors
  BY DEF DataErrors, Errors
<1>4. QED BY <1>2, <1>3

LEMMA ShapeTypes ==
  ASSUME NEW o \in DOMAIN Shape
  PROVE  Len(Shape[o].args) \in Nat /\ Shape[o].result \in {"string", "int", "bool", "node"}
BY DEF Shape

LEMMA DataOpStep ==
  ASSUME VmInv, DataOp
  PROVE  VmInv'
<1> USE DEF VmInv
<1>1. RestOK' /\ program' = program
  BY OnlyStackOK DEF RestOK, DataOp
<1>2. ip + 1 \in Nat
  BY DEF CtlOK
<1> DEFINE n == Len(Shape[Inst.op].args)
           type == Shape[Inst.op].result
<1>3. n \in Nat /\ type \in {"string", "int", "bool", "node"}
  BY ShapeTypes DEF DataOp, Exec
<1>4. \/ Underflow(n)
      \/ /\ Len(stack) >= n
         /\ \/ \E v \in Results(type) : PushThen(Rest(n), v, ip + 1)
            \/ \E e \in DataErrors(type) : FailWith(Rest(n), e)
            \/ FailWith(Rest(n), "TYPE_MISMATCH")
  BY DEF DataOp
<1> HIDE DEF n, type
<1>5. CASE Underflow(n)
  BY <1>1, <1>5, UnderflowOK DEF RestOK
<1>6. CASE Len(stack) >= n
  <2>1. n \in 0 .. Len(stack)
    BY <1>3, <1>6 DEF StackOK
  <2>2. "TYPE_MISMATCH" \in Errors
    BY DEF Errors
  <2>3. QED BY <1>1, <1>2, <1>3, <1>4, <1>5, <2>1, <2>2, DataTypes, PushAfterPop, FailAfterPop DEF RestOK
<1>7. QED BY <1>4, <1>5, <1>6

LEMMA MakeManyStep ==
  ASSUME VmInv, MakeMany
  PROVE  VmInv'
<1> USE DEF VmInv
<1>1. RestOK' /\ program' = program
  BY OnlyStackOK DEF RestOK, MakeMany
<1>2. ip + 1 \in Nat /\ Len(stack) \in Nat
  BY DEF CtlOK, StackOK
<1> DEFINE n == IF Inst.op = "MAKE_NODE" THEN 2 ELSE 1
<1>3. n \in 1 .. 2
  OBVIOUS
<1>4. \/ Underflow(n)
      \/ /\ Len(stack) >= n
         /\ \/ \E e \in {"TYPE_MISMATCH", "INVALID_PROGRAM"} : FailWith(Rest(n), e)
            \/ /\ Top(0).val >= 0 /\ Top(0).val <= Len(stack) - n
               /\ \/ \E v \in Results("node") : PushThen(Rest(n + Top(0).val), v, ip + 1)
                  \/ \E k \in 0 .. Top(0).val, e \in DataErrors("node") : FailWith(Rest(n + k), e)
  BY DEF MakeMany
<1> HIDE DEF n
<1>5. CASE Underflow(n)
  BY <1>1, <1>5, UnderflowOK DEF RestOK
<1>6. CASE Len(stack) >= n /\ \E e \in {"TYPE_MISMATCH", "INVALID_PROGRAM"} : FailWith(Rest(n), e)
  <2>1. n \in 0 .. Len(stack)
    BY <1>2, <1>3, <1>6
  <2>2. QED BY <1>1, <1>6, <2>1, FailAfterPop DEF RestOK, Errors
<1>7. CASE /\ Len(stack) >= n /\ Top(0).val >= 0 /\ Top(0).val <= Len(stack) - n
           /\ \/ \E v \in Results("node") : PushThen(Rest(n + Top(0).val), v, ip + 1)
              \/ \E k \in 0 .. Top(0).val, e \in DataErrors("node") : FailWith(Rest(n + k), e)
  <2>1. Top(0).val \in Int
    <3>1. Top(0) \in Value
      BY <1>2, <1>3, <1>7, TopIsValue
    <3>2. QED BY <3>1 DEF Value
  <2>2. \A k \in 0 .. Top(0).val : n + k \in 0 .. Len(stack)
    BY <1>2, <1>3, <1>7, <2>1
  <2>3. CASE \E v \in Results("node") : PushThen(Rest(n + Top(0).val), v, ip + 1)
    <3>1. n + Top(0).val \in 0 .. Len(stack)
      BY <1>7, <2>1, <2>2
    <3>2. QED BY <1>1, <1>2, <2>3, <3>1, DataTypes, PushAfterPop DEF RestOK
  <2>4. CASE \E k \in 0 .. Top(0).val, e \in DataErrors("node") : FailWith(Rest(n + k), e)
    BY <1>1, <2>2, <2>4, DataTypes, FailAfterPop DEF RestOK
  <2>5. QED BY <1>7, <2>3, <2>4
<1>8. QED BY <1>4, <1>5, <1>6, <1>7

\* The fields of frames, tasks and Par contexts.
LEMMA FrameFields ==
  ASSUME FramesOK, NEW i \in 1 .. Len(callFrames)
  PROVE  /\ callFrames[i] \in Frame
         /\ callFrames[i].returnIp \in Nat
         /\ callFrames[i].frameBase \in Nat
         /\ callFrames[i].localsBase \in Nat
<1>1. callFrames[i] \in Frame
  BY DEF FramesOK
<1>2. QED BY <1>1 DEF Frame

LEMMA LocalsBaseType ==
  ASSUME FramesOK
  PROVE  LocalsBase \in Nat
<1>1. CASE callFrames = <<>>
  BY <1>1 DEF LocalsBase
<1>2. CASE callFrames # <<>>
  <2>1. Len(callFrames) \in 1 .. Len(callFrames)
    BY <1>2 DEF FramesOK
  <2>2. QED BY <1>2, <2>1, FrameFields DEF LocalsBase
<1>3. QED BY <1>1, <1>2

LEMMA TaskFields ==
  ASSUME TasksOK, NEW k \in 1 .. Len(tasks)
  PROVE  tasks[k] \in Task /\ tasks[k].handle \in Int /\ tasks[k].result \in Value
<1>1. tasks[k] \in Task
  BY DEF TasksOK
<1>2. QED BY <1>1 DEF Task

LEMMA ContextFields ==
  ASSUME ParOK, NEW k \in 1 .. Len(parContexts)
  PROVE  parContexts[k] \in ParContext /\ parContexts[k].start \in Nat
<1>1. parContexts[k] \in ParContext
  BY DEF ParOK
<1>2. QED BY <1>1 DEF ParContext

LEMMA LoadLocalStep ==
  ASSUME VmInv, LoadLocal
  PROVE  VmInv'
<1> USE DEF VmInv
<1>1. RestOK' /\ program' = program
  BY OnlyStackOK DEF RestOK, LoadLocal
<1>2. Inst.a \in Int /\ ip + 1 \in Nat
  BY InstType DEF LoadLocal
<1>3. LocalsBase \in Nat
  BY LocalsBaseType
<1>4. CASE FailWith(stack, "INVALID_PROGRAM") \/ FailWith(stack, "LOCAL_OUT_OF_RANGE")
  BY <1>1, <1>4, FailHere DEF RestOK, Errors
<1>5. CASE /\ Inst.a >= 0 /\ LocalIndex(Inst.a) < localsCount
           /\ PushThen(stack, locals[LocalIndex(Inst.a)], ip + 1)
  <2>1. LocalIndex(Inst.a) \in 0 .. LocalsCapacity - 1
    BY <1>2, <1>3, <1>5, Capacities DEF LocalIndex, LocalsOK
  <2>2. locals[LocalIndex(Inst.a)] \in Value
    BY <2>1 DEF LocalsOK
  <2>3. QED BY <1>1, <1>2, <1>5, <2>2, PushHere DEF RestOK
<1>6. QED BY <1>4, <1>5 DEF LoadLocal

LEMMA AwaitStep ==
  ASSUME VmInv, Await
  PROVE  VmInv'
<1> USE DEF VmInv
<1>1. RestOK' /\ program' = program
  BY OnlyStackOK DEF RestOK, Await
<1>2. CASE Underflow(1)
  BY <1>1, <1>2, UnderflowOK DEF RestOK
<1>3. CASE Len(stack) >= 1
  <2>1. 1 \in 0 .. Len(stack) /\ ip + 1 \in Nat
    BY <1>3 DEF StackOK, CtlOK
  <2>2. \A h : \A v \in TaskResults(h) : v \in Value
    BY TaskFields DEF TaskResults
  <2>3. \/ Underflow(1)
        \/ \E v \in TaskResults(Top(0).val) : PushThen(Rest(1), v, ip + 1)
        \/ FailWith(Rest(1), "INVALID_PROGRAM")
    BY DEF Await
  <2>4. QED BY <1>1, <1>2, <2>1, <2>2, <2>3, PushAfterPop, FailAfterPop DEF RestOK, Errors
<1>4. QED BY <1>2, <1>3 DEF Await

LEMMA SyscallRefusedOK ==
  ASSUME CtlOK, StackOK, program' = program, Inst.a \in Int, SyscallRefused
  PROVE  CtlOK' /\ StackOK'
<1>1. CASE UNCHANGED stackVars /\ FailInPlace("INVALID_PROGRAM")
  BY <1>1, FailOK DEF Errors, stackVars, StackOK
<1>2. CASE stack' = <<>> /\ UNCHANGED stackLimit /\ FailInPlace("STACK_UNDERFLOW")
  BY <1>2, FailOK DEF Errors, StackOK
<1>3. CASE /\ Inst.a \in 0 .. MaxSyscallArgs /\ Len(stack) >= Inst.a + 1
           /\ stack' = Rest(Inst.a + 1) /\ UNCHANGED stackLimit
           /\ \E e \in {"SYSCALL", "MEMORY_PRESSURE", "TYPE_MISMATCH"} : FailInPlace(e)
  <2>1. Inst.a + 1 \in 0 .. Len(stack)
    BY <1>3, Capacities DEF StackOK
  <2>2. StackOK'
    BY <1>3, <2>1, RestIsStack DEF StackOK
  <2>3. CtlOK'
    BY <1>3, FailOK DEF Errors
  <2>4. QED BY <2>2, <2>3
<1>4. QED BY <1>1, <1>2, <1>3 DEF SyscallRefused

LEMMA CallSysStep ==
  ASSUME VmInv, CallSys
  PROVE  VmInv'
<1> USE DEF VmInv
<1>1. RestOK' /\ program' = program
  BY OnlyStackOK DEF RestOK, CallSys
<1>2. Inst.a \in Int /\ ip + 1 \in Nat
  BY InstType DEF CallSys
<1>3. CASE FailWith(stack, "INVALID_PROGRAM")
  BY <1>1, <1>3, FailHere DEF RestOK, Errors
<1>4. CASE SyscallRefused
  BY <1>1, <1>2, <1>4, SyscallRefusedOK DEF RestOK
<1>5. CASE /\ SyscallAnswered
           /\ \E v \in SysResults : PushThen(Rest(Inst.a + 1), v, ip + 1)
  <2>1. Inst.a + 1 \in 0 .. Len(stack)
    BY <1>5, <1>2, Capacities DEF StackOK, SyscallAnswered
  <2>2. QED BY <1>1, <1>2, <1>5, <2>1, ConstantTypes, PushAfterPop DEF RestOK
<1>6. QED BY <1>3, <1>4, <1>5 DEF CallSys

-----------------------------------------------------------------------------
(* Locals, calls and returns.                                               *)

LEMMA LocalsUnchanged ==
  ASSUME LocalsOK, UNCHANGED localVars
  PROVE  LocalsOK'
BY DEF LocalsOK, localVars

LEMMA TasksUnchanged ==
  ASSUME TasksOK, UNCHANGED taskVars
  PROVE  TasksOK'
BY DEF TasksOK, TaskTableOrdered, taskVars

LEMMA ParUnchanged ==
  ASSUME ParOK, UNCHANGED parVars
  PROVE  ParOK'
BY DEF ParOK, ParNested, parVars

LEMMA FramesUnchanged ==
  ASSUME FramesOK, UNCHANGED frameVars
  PROVE  FramesOK'
BY DEF FramesOK, frameVars

LEMMA StoreLocalStep ==
  ASSUME VmInv, StoreLocal
  PROVE  VmInv'
<1> USE DEF VmInv
<1>1. /\ FramesOK' /\ TasksOK' /\ ParOK' /\ SyncOK' /\ program' = program
      /\ callFrames' = callFrames
  BY FramesUnchanged, TasksUnchanged, ParUnchanged DEF StoreLocal, SyncOK, frameVars
<1>2. Inst.a \in Int /\ ip + 1 \in Nat
  BY InstType DEF StoreLocal
<1>3. CASE UNCHANGED localVars
  <2>1. LocalsOK' /\ LocalsNested'
    BY <1>1, <1>3, LocalsUnchanged DEF LocalsNested, localVars
  <2>2. CASE FailWith(stack, "INVALID_PROGRAM")
    BY <1>1, <2>1, <2>2, FailHere DEF Errors
  <2>3. CASE Underflow(1)
    BY <1>1, <2>1, <2>3, UnderflowOK
  <2>4. CASE Len(stack) >= 1 /\ \E e \in {"INVALID_PROGRAM", "LOCAL_OUT_OF_RANGE"} : FailWith(Rest(1), e)
    <3>1. 1 \in 0 .. Len(stack)
      BY <2>4 DEF StackOK
    <3>2. QED BY <1>1, <2>1, <2>4, <3>1, FailAfterPop DEF Errors
  <2>5. CASE Len(stack) >= 1 /\ stack' = Rest(1) /\ UNCHANGED stackLimit /\ Goto(ip + 1)
    <3>1. 1 \in 0 .. Len(stack)
      BY <2>5 DEF StackOK
    <3>2. QED BY <1>1, <1>2, <2>1, <2>5, <3>1, DropThenGoto
  <2>6. QED BY <2>2, <2>3, <2>4, <2>5 DEF StoreLocal
<1>4. CASE ~ UNCHANGED localVars
  <2> DEFINE index == LocalIndex(Inst.a)
             limit == EnsureCapacity(localsLimit, index + 1, LocalsStep, LocalsCapacity)
  <2>1. /\ Inst.a >= 0 /\ Len(stack) >= 1
        /\ ~ (index >= LocalsCapacity)
        /\ locals' = [locals EXCEPT ![index] = Top(0)]
        /\ localsCount' = IF index >= localsCount THEN index + 1 ELSE localsCount
        /\ localsLimit' = limit
        /\ owned' = owned \cup {index}
        /\ stack' = Rest(1)
        /\ UNCHANGED stackLimit
        /\ Goto(ip + 1)
    BY <1>4 DEF StoreLocal
  <2>2. 1 \in 0 .. Len(stack) /\ Top(0) \in Value
    BY <2>1, TopIsValue DEF StackOK
  <2>3. CtlOK' /\ StackOK'
    BY <1>1, <1>2, <2>1, <2>2, DropThenGoto
  <2>4. index \in Nat /\ index < LocalsCapacity
    BY <1>2, <2>1, LocalsBaseType, Capacities DEF LocalIndex
  <2> HIDE DEF index
  <2>5. /\ limit \in Nat /\ localsLimit <= limit /\ limit <= LocalsCapacity
        /\ index + 1 <= limit
    BY <2>4, EnsureCapacityBounds, Capacities DEF LocalsOK
  <2> HIDE DEF limit
  <2>6. LocalsOK'
    <3>1. locals' \in [0 .. LocalsCapacity - 1 -> Value]
      BY <2>1, <2>2, <2>4 DEF LocalsOK
    <3>2. localsCount' \in Nat /\ localsLimit' \in Nat /\ localsCount' <= localsLimit'
          /\ localsLimit' <= LocalsCapacity
      BY <2>1, <2>4, <2>5 DEF LocalsOK
    <3>3. owned' \in SUBSET Nat
      BY <2>1, <2>4 DEF LocalsOK
    <3>4. QED BY <3>1, <3>2, <3>3 DEF LocalsOK
  <2>7. localsCount <= localsCount' /\ localsCount' \in Nat
    BY <2>1, <2>4 DEF LocalsOK
  <2>8. LocalsNested'
    <3>1. \A i \in 1 .. Len(callFrames) : callFrames[i].localsBase <= localsCount'
      BY <2>7, FrameFields DEF LocalsNested, LocalsOK
    <3>2. QED BY <1>1, <3>1 DEF LocalsNested
  <2>9. QED BY <1>1, <2>3, <2>6, <2>8
<1>5. QED BY <1>3, <1>4
\* The inferred arity is a number within the rest of the program.
LEMMA ArgCountType ==
  ASSUME CtlOK, NEW target \in 0 .. Count
  PROVE  InferCallArgCount(target) \in Nat
<1> DEFINE S == {k \in 1 .. Count - target :
                   \A i \in 1 .. k : program[target + i].op = "STORE_LOCAL"}
<1>1. 1 \in Int /\ Count - target \in Int
  BY DEF CtlOK, Count
<1>2. IsFiniteSet(1 .. Count - target)
  BY <1>1, FS_Interval
<1>3. IsFiniteSet(S)
  BY <1>2, FS_Subset
<1>4. Cardinality(S) \in Nat
  BY <1>3, FS_CardinalityType
<1>5. QED BY <1>4 DEF InferCallArgCount

\* A call that passes the checks takes its arguments from the caller's stack.
LEMMA CallCheckedType ==
  ASSUME CtlOK, StackOK, NEW target, CallChecked(target)
  PROVE  /\ target \in Nat /\ target < Count /\ Count \in Nat
         /\ Len(stack) - InferCallArgCount(target) \in Nat
         /\ Len(stack) - InferCallArgCount(target) <= Len(stack)
<1>1. target \in 0 .. Count - 1 /\ InferCallArgCount(target) <= Len(stack)
  BY DEF CallChecked
<1>2. Count \in Nat
  BY DEF CtlOK, Count
<1>3. InferCallArgCount(target) \in Nat
  BY <1>1, <1>2, ArgCountType
<1>4. QED BY <1>1, <1>2, <1>3 DEF StackOK

NewFrame(target) ==
  [returnIp   |-> ip + 1,
   frameBase  |-> Len(stack) - InferCallArgCount(target),
   localsBase |-> localsCount]

\* aivm_frame_push either adds one frame on top or fails and adds none.
LEMMA FramePushOK ==
  ASSUME CtlOK, StackOK, FramesOK, LocalsOK, LocalsNested,
         program' = program, UNCHANGED localVars,
         NEW target, CallChecked(target), FramePush(target)
  PROVE  /\ CtlOK' /\ FramesOK' /\ LocalsNested'
         /\ \/ callFrames' = Append(callFrames, NewFrame(target)) /\ Goto(target)
            \/ callFrames' = callFrames /\ Fail("FRAME_OVERFLOW")
<1> DEFINE limit == EnsureCapacity(frameLimit, Len(callFrames) + 1, FrameStep, FrameCapacity)
<1>1. limit \in Nat /\ frameLimit <= limit /\ limit <= FrameCapacity
  <2>1. frameLimit \in Nat /\ Len(callFrames) + 1 \in Nat /\ frameLimit <= FrameCapacity
    BY DEF FramesOK
  <2>2. QED BY <2>1, EnsureCapacityBounds, Capacities
<1> HIDE DEF limit
<1>2. /\ frameLimit' = limit
      /\ \/ /\ Len(callFrames) + 1 <= limit
            /\ callFrames' = Append(callFrames, NewFrame(target)) /\ Goto(target)
         \/ callFrames' = callFrames /\ Fail("FRAME_OVERFLOW")
  BY DEF FramePush, limit, NewFrame
<1>3. NewFrame(target) \in Frame /\ NewFrame(target).localsBase = localsCount
  BY CallCheckedType DEF NewFrame, Frame, CtlOK, LocalsOK
<1>4. CtlOK'
  BY <1>2, GotoOK, FailOK, CallCheckedType DEF Errors
<1>5. FramesOK'
  BY <1>1, <1>2, <1>3 DEF FramesOK
<1>6. localsCount' = localsCount
  BY DEF localVars
<1>7. LocalsNested'
  <2>1. CASE callFrames' = callFrames
    BY <1>6, <2>1 DEF LocalsNested
  <2>2. CASE callFrames' = Append(callFrames, NewFrame(target))
    <3> DEFINE top == Len(callFrames) + 1
    <3>1. /\ Len(callFrames) \in Nat /\ Len(callFrames') = top
          /\ callFrames'[top].localsBase = localsCount
          /\ \A i \in 1 .. Len(callFrames) : callFrames'[i] = callFrames[i]
      BY <1>3, <2>2, Appended DEF FramesOK
    <3>2. \A i \in 1 .. top : callFrames'[i].localsBase <= localsCount
      BY <3>1 DEF LocalsNested, LocalsOK
    <3>3. \A i, j \in 1 .. top :
             i <= j => callFrames'[i].localsBase <= callFrames'[j].localsBase
      <4> SUFFICES ASSUME NEW i \in 1 .. top, NEW j \in 1 .. top, i <= j
                   PROVE  callFrames'[i].localsBase <= callFrames'[j].localsBase
        OBVIOUS
      <4>1. CASE j = top
        BY <3>1, <3>2, <4>1
      <4>2. CASE j # top
        BY <3>1, <4>2 DEF LocalsNested
      <4>3. QED BY <4>1, <4>2
    <3>4. QED BY <1>6, <3>1, <3>2, <3>3 DEF LocalsNested
  <2>3. QED BY <1>2, <2>1, <2>2
<1>8. QED BY <1>2, <1>4, <1>5, <1>7

LEMMA CallStep ==
  ASSUME VmInv, Call
  PROVE  VmInv'
<1> USE DEF VmInv
<1>1. /\ StackOK' /\ LocalsOK' /\ TasksOK' /\ ParOK' /\ SyncOK' /\ program' = program
      /\ UNCHANGED localVars
  BY LocalsUnchanged, TasksUnchanged, ParUnchanged DEF Call, SyncOK, StackOK, stackVars
<1>2. CASE CallChecked(Inst.a)
  BY <1>1, <1>2, FramePushOK DEF Call
<1>3. CASE ~ CallChecked(Inst.a)
  <2>1. Fail("INVALID_PROGRAM") /\ UNCHANGED frameVars
    BY <1>3 DEF Call
  <2>2. CtlOK'
    BY <1>1, <2>1, FailOK DEF Errors
  <2>3. FramesOK' /\ LocalsNested'
    BY <1>1, <2>1 DEF FramesOK, LocalsNested, frameVars, localVars
  <2>4. QED BY <1>1, <2>2, <2>3
<1>4. QED BY <1>2, <1>3

LEMMA AsyncCallStep ==
  ASSUME VmInv, AsyncCall
  PROVE  VmInv'
<1> USE DEF VmInv
<1>1. /\ StackOK' /\ LocalsOK' /\ TasksOK' /\ ParOK' /\ program' = program
      /\ UNCHANGED localVars
  BY LocalsUnchanged, TasksUnchanged, ParUnchanged DEF AsyncCall, StackOK, stackVars
<1>2. CASE CallChecked(Inst.a)
  <2>1. FramePush(Inst.a) /\ (sync' = sync \/ sync' = Append(sync, SyncEntry(Inst.a)))
    BY <1>2 DEF AsyncCall
  <2>2. SyncEntry(Inst.a) \in SyncCall
    BY <1>2, CallCheckedType DEF SyncEntry, SyncCall, FramesOK, CtlOK
  <2>3. SyncOK'
    BY <2>1, <2>2 DEF SyncOK
  <2>4. QED BY <1>1, <1>2, <2>1, <2>3, FramePushOK
<1>3. CASE ~ CallChecked(Inst.a)
  <2>1. Fail("INVALID_PROGRAM") /\ UNCHANGED <<frameVars, sync>>
    BY <1>3 DEF AsyncCall
  <2>2. CtlOK'
    BY <1>1, <2>1, FailOK DEF Errors
  <2>3. FramesOK' /\ LocalsNested' /\ SyncOK'
    BY <1>1, <2>1 DEF FramesOK, LocalsNested, frameVars, localVars, SyncOK
  <2>4. QED BY <1>1, <2>2, <2>3
<1>4. QED BY <1>2, <1>3

LEMMA ReturnStep ==
  ASSUME VmInv, Return
  PROVE  VmInv'
<1> USE DEF VmInv
<1>1. TasksOK' /\ ParOK' /\ SyncOK' /\ program' = program
      /\ UNCHANGED <<frameLimit, locals, localsLimit>>
  BY TasksUnchanged, ParUnchanged DEF Return, SyncOK
<1>2. CASE callFrames = <<>>
  <2>1. Goto(Count) /\ UNCHANGED <<stackVars, callFrames, localsCount, owned>>
    BY <1>2 DEF Return
  <2>2. Count \in Nat
    BY DEF CtlOK, Count
  <2>3. CtlOK'
    BY <1>1, <2>1, <2>2, GotoOK
  <2>4. StackOK' /\ FramesOK' /\ LocalsOK' /\ LocalsNested'
    BY <1>1, <2>1 DEF stackVars, StackOK, FramesOK, LocalsOK, LocalsNested
  <2>5. QED BY <1>1, <2>3, <2>4
<1>3. CASE callFrames # <<>> /\ ~ CallLocalStateOK(callFrames, stack, localsCount)
  <2>1. FailWith(stack, "INVALID_PROGRAM") /\ UNCHANGED <<callFrames, localsCount, owned>>
    BY <1>3 DEF Return
  <2>2. CtlOK' /\ StackOK'
    BY <1>1, <2>1, FailHere DEF Errors
  <2>3. FramesOK' /\ LocalsOK' /\ LocalsNested'
    BY <1>1, <2>1 DEF FramesOK, LocalsOK, LocalsNested
  <2>4. QED BY <1>1, <2>2, <2>3
<1>4. CASE callFrames # <<>> /\ CallLocalStateOK(callFrames, stack, localsCount)
  <2> DEFINE frame  == callFrames[Len(callFrames)]
             caller == SubSeq(callFrames, 1, Len(callFrames) - 1)
             base   == SubSeq(stack, 1, frame.frameBase)
  <2>1. /\ callFrames' = caller
        /\ \/ FailWith(stack, "INVALID_PROGRAM") /\ UNCHANGED <<localsCount, owned>>
           \/ /\ localsCount' = frame.localsBase
              /\ owned' = owned \cap 0 .. frame.localsBase - 1
              /\ \/ FailWith(base, "INVALID_PROGRAM")
                 \/ Len(stack) > frame.frameBase /\ PushThen(base, Top(0), frame.returnIp)
                 \/ stack' = base /\ UNCHANGED stackLimit /\ Goto(frame.returnIp)
    BY <1>4 DEF Return, RestoredLocalsCount
  <2>2. /\ Len(callFrames) \in 1 .. Len(callFrames)
        /\ frame.returnIp \in Nat /\ frame.frameBase \in Nat /\ frame.localsBase \in Nat
    <3>1. Len(callFrames) \in 1 .. Len(callFrames)
      BY <1>4 DEF FramesOK
    <3>2. QED BY <3>1, FrameFields
  <2>3. frame.frameBase <= Len(stack) /\ frame.localsBase <= localsCount
    BY <1>4 DEF CallLocalStateOK
  <2>4. base \in Seq(Value) /\ Len(base) = frame.frameBase /\ Len(base) <= stackLimit
    BY <2>2, <2>3 DEF StackOK
  <2>5. /\ caller \in Seq(Frame) /\ Len(caller) = Len(callFrames) - 1
        /\ \A i \in 1 .. Len(caller) : caller[i] = callFrames[i]
    <3>1. callFrames \in Seq(Frame) /\ Len(callFrames) - 1 \in 0 .. Len(callFrames)
      BY <2>2 DEF FramesOK
    <3>2. QED BY <3>1, Prefix
  <2> HIDE DEF base, caller
  <2>6. CtlOK' /\ StackOK'
    <3>1. CASE FailWith(stack, "INVALID_PROGRAM")
      BY <1>1, <3>1, FailHere DEF Errors
    <3>2. CASE FailWith(base, "INVALID_PROGRAM")
      BY <1>1, <3>2, <2>4, FailWithOK DEF Errors
    <3>3. CASE Len(stack) > frame.frameBase /\ PushThen(base, Top(0), frame.returnIp)
      <4>1. 0 \in 0 .. Len(stack) - 1
        BY <2>2, <3>3 DEF StackOK
      <4>2. Top(0) \in Value
        BY <4>1, TopIsValue
      <4>3. QED BY <1>1, <2>2, <2>4, <3>3, <4>2, PushThenOK
    <3>4. CASE stack' = base /\ UNCHANGED stackLimit /\ Goto(frame.returnIp)
      <4>1. CtlOK'
        BY <1>1, <2>2, <3>4, GotoOK
      <4>2. StackOK'
        BY <2>4, <3>4 DEF StackOK
      <4>3. QED BY <4>1, <4>2
    <3>5. QED BY <2>1, <3>1, <3>2, <3>3, <3>4
  <2>7. FramesOK'
    BY <1>1, <2>1, <2>5 DEF FramesOK
  <2>8. LocalsOK'
    <3>1. localsCount' \in Nat /\ localsCount' <= localsCount /\ owned' \subseteq owned
      BY <2>1, <2>2, <2>3 DEF LocalsOK
    <3>2. QED BY <1>1, <3>1 DEF LocalsOK
  <2>9. LocalsNested'
    <3>1. \A i, j \in 1 .. Len(caller) : i <= j => caller[i].localsBase <= caller[j].localsBase
      BY <2>2, <2>5 DEF LocalsNested
    <3>2. \A i \in 1 .. Len(caller) :
             caller[i].localsBase <= frame.localsBase /\ caller[i].localsBase <= localsCount
      BY <2>2, <2>5 DEF LocalsNested
    <3>3. QED BY <2>1, <3>1, <3>2 DEF LocalsNested
  <2>10. QED BY <1>1, <2>6, <2>7, <2>8, <2>9
<1>5. QED BY <1>2, <1>3, <1>4
-----------------------------------------------------------------------------
(* The task table and the Par scopes.                                       *)

\* Making room keeps the table typed and ordered, and does make room.
LEMMA RoomOK ==
  ASSUME TasksOK, NEW s, NEW room \in TableWithRoom(s)
  PROVE  /\ room \in Seq(Task) /\ Len(room) < TaskCapacity
         /\ \A k \in 1 .. Len(room) : room[k].handle < nextTask
         /\ \A j, k \in 1 .. Len(room) : j < k => room[j].handle < room[k].handle
<1>1. CASE Len(tasks) < TaskCapacity
  BY <1>1 DEF TableWithRoom, TasksOK, TaskTableOrdered
<1>2. CASE ~ (Len(tasks) < TaskCapacity)
  <2>1. PICK k \in 1 .. Len(tasks) : room = WithoutSlot(k)
    BY <1>2 DEF TableWithRoom
  <2>2. Len(tasks) \in Nat /\ Len(tasks) >= 1 /\ Len(tasks) <= TaskCapacity
    BY <2>1 DEF TasksOK, TaskTableOrdered
  <2>3. \A j \in 1 .. Len(tasks) - 1 : (IF j < k THEN tasks[j] ELSE tasks[j + 1]) \in Task
    BY <2>2 DEF TasksOK
  <2>4. room \in [1 .. Len(tasks) - 1 -> Task]
    BY <2>1, <2>3 DEF WithoutSlot
  <2>5. room \in Seq(Task) /\ Len(room) = Len(tasks) - 1
    BY <2>2, <2>4
  <2>6. \A j \in 1 .. Len(room) : room[j] = IF j < k THEN tasks[j] ELSE tasks[j + 1]
    BY <2>1, <2>5 DEF WithoutSlot
  <2>7. \A j \in 1 .. Len(room) : room[j].handle < nextTask
    BY <2>2, <2>5, <2>6 DEF TasksOK, TaskTableOrdered
  <2>8. \A i, j \in 1 .. Len(room) : i < j => room[i].handle < room[j].handle
    <3> SUFFICES ASSUME NEW i \in 1 .. Len(room), NEW j \in 1 .. Len(room), i < j
                 PROVE  room[i].handle < room[j].handle
      OBVIOUS
    <3>1. PICK a \in 1 .. Len(tasks), b \in 1 .. Len(tasks) :
             a < b /\ room[i] = tasks[a] /\ room[j] = tasks[b]
      <4> DEFINE at(x) == IF x < k THEN x ELSE x + 1
      <4>1. at(i) \in 1 .. Len(tasks) /\ at(j) \in 1 .. Len(tasks) /\ at(i) < at(j)
        BY <2>2, <2>5
      <4>2. room[i] = tasks[at(i)] /\ room[j] = tasks[at(j)]
        BY <2>6
      <4>3. QED BY <4>1, <4>2
    <3>2. QED BY <3>1 DEF TasksOK, TaskTableOrdered
  <2>9. QED BY <2>2, <2>5, <2>7, <2>8, Capacities
<1>3. QED BY <1>1, <1>2

LEMMA PushCompletedTaskOK ==
  ASSUME CtlOK, StackOK, TasksOK, program' = program,
         NEW s \in Seq(Value), Len(s) <= stackLimit, NEW result \in Value, NEW n \in Nat,
         PushCompletedTask(s, result, n)
  PROVE  CtlOK' /\ StackOK' /\ TasksOK'
<1>1. CASE FailWith(s, "INVALID_PROGRAM") /\ UNCHANGED taskVars
  BY <1>1, FailWithOK, TasksUnchanged DEF Errors
<1>2. ASSUME NEW room \in TableWithRoom(s), tasks' = room,
             FailWith(s, "INVALID_PROGRAM"), UNCHANGED nextTask
      PROVE  CtlOK' /\ StackOK' /\ TasksOK'
  <2>1. CtlOK' /\ StackOK'
    BY <1>2, FailWithOK DEF Errors
  <2>2. TasksOK'
    BY <1>2, RoomOK, Capacities DEF TasksOK, TaskTableOrdered
  <2>3. QED BY <2>1, <2>2
<1>3. ASSUME NEW room \in TableWithRoom(s),
             tasks' = Append(room, [handle |-> nextTask, result |-> result]),
             nextTask' = nextTask + 1, PushThen(s, HandleVal(nextTask), n)
      PROVE  CtlOK' /\ StackOK' /\ TasksOK'
  <2>1. nextTask \in Int /\ HandleVal(nextTask) \in Value
    BY ValueTypes DEF TasksOK
  <2>2. CtlOK' /\ StackOK'
    BY <1>3, <2>1, PushThenOK
  <2> DEFINE t == [handle |-> nextTask, result |-> result]
             top == Len(room) + 1
  <2>3. t \in Task /\ t.handle = nextTask
    BY <2>1 DEF Task
  <2> HIDE DEF t
  <2>4. /\ room \in Seq(Task) /\ Len(room) \in Nat /\ Len(room) < TaskCapacity
        /\ \A k \in 1 .. Len(room) : room[k].handle < nextTask
        /\ \A j, k \in 1 .. Len(room) : j < k => room[j].handle < room[k].handle
        /\ \A k \in 1 .. Len(room) : room[k].handle \in Int
    <3>1. room \in Seq(Task)
      BY RoomOK
    <3>2. \A k \in 1 .. Len(room) : room[k] \in Task
      BY <3>1
    <3>3. \A k \in 1 .. Len(room) : room[k].handle \in Int
      BY <3>2 DEF Task
    <3>4. QED BY <3>1, <3>3, RoomOK
  <2>5. /\ tasks' \in Seq(Task) /\ Len(tasks') = top /\ tasks'[top].handle = nextTask
        /\ \A k \in 1 .. Len(room) : tasks'[k] = room[k]
    BY <1>3, <2>3, <2>4, Appended DEF t
  <2>6. \A k \in 1 .. top : tasks'[k].handle < nextTask + 1
    BY <2>1, <2>4, <2>5
  <2>7. \A j, k \in 1 .. top : j < k => tasks'[j].handle < tasks'[k].handle
    <3> SUFFICES ASSUME NEW j \in 1 .. top, NEW k \in 1 .. top, j < k
                 PROVE  tasks'[j].handle < tasks'[k].handle
      OBVIOUS
    <3>1. j \in 1 .. Len(room)
      BY <2>4
    <3>2. CASE k = top
      BY <2>4, <2>5, <3>1, <3>2
    <3>3. CASE k # top
      BY <2>4, <2>5, <3>1, <3>3
    <3>4. QED BY <3>2, <3>3
  <2>8. TasksOK'
    BY <1>3, <2>1, <2>4, <2>5, <2>6, <2>7, Capacities DEF TasksOK, TaskTableOrdered
  <2>9. QED BY <2>2, <2>8
<1>4. QED BY <1>1, <1>2, <1>3 DEF PushCompletedTask

LEMMA AsyncCallSysStep ==
  ASSUME VmInv, AsyncCallSys
  PROVE  VmInv'
<1> USE DEF VmInv
<1>1. /\ FramesOK' /\ LocalsOK' /\ LocalsNested' /\ ParOK' /\ SyncOK' /\ program' = program
  BY FramesUnchanged, LocalsUnchanged, ParUnchanged
     DEF AsyncCallSys, SyncOK, LocalsNested, frameVars, localVars
<1>2. Inst.a \in Int /\ ip + 1 \in Nat
  BY InstType DEF AsyncCallSys
<1>3. CASE FailWith(stack, "INVALID_PROGRAM") /\ UNCHANGED taskVars
  BY <1>1, <1>3, FailHere, TasksUnchanged DEF Errors
<1>4. CASE SyscallRefused /\ UNCHANGED taskVars
  BY <1>1, <1>2, <1>4, SyscallRefusedOK, TasksUnchanged
<1>5. CASE /\ SyscallAnswered
           /\ \E v \in SysResults : PushCompletedTask(Rest(Inst.a + 1), v, ip + 1)
  <2>1. Inst.a + 1 \in 0 .. Len(stack)
    BY <1>5, <1>2, Capacities DEF StackOK, SyscallAnswered
  <2>2. Rest(Inst.a + 1) \in Seq(Value) /\ Len(Rest(Inst.a + 1)) <= stackLimit
    BY <2>1, RestIsStack
  <2>3. QED BY <1>1, <1>2, <1>5, <2>2, ConstantTypes, PushCompletedTaskOK
<1>6. QED BY <1>3, <1>4, <1>5 DEF AsyncCallSys

LEMMA AsyncAbortStep ==
  ASSUME VmInv, AsyncAbort
  PROVE  VmInv'
<1> USE DEF VmInv
<1>1. StackOK' /\ FramesOK' /\ LocalsOK' /\ LocalsNested' /\ TasksOK' /\ ParOK'
  BY FramesUnchanged, LocalsUnchanged, TasksUnchanged, ParUnchanged
     DEF AsyncAbort, StackOK, stackVars, LocalsNested, frameVars, localVars
<1>2. SyncOK'
  BY DEF AsyncAbort, SyncOK
<1>3. CtlOK'
  BY DEF AsyncAbort, CtlOK, Count, Errors
<1>4. QED BY <1>1, <1>2, <1>3

LEMMA ParBeginStep ==
  ASSUME VmInv, ParBegin
  PROVE  VmInv'
<1> USE DEF VmInv
<1>1. /\ StackOK' /\ FramesOK' /\ LocalsOK' /\ LocalsNested' /\ TasksOK' /\ SyncOK'
      /\ program' = program /\ UNCHANGED <<parValues, blocks>>
  BY FramesUnchanged, LocalsUnchanged, TasksUnchanged
     DEF ParBegin, StackOK, stackVars, LocalsNested, frameVars, localVars, SyncOK
<1>2. Inst.a \in Int /\ ip + 1 \in Nat
  BY InstType DEF ParBegin
<1>3. CASE Fail("INVALID_PROGRAM") /\ UNCHANGED parContexts
  <2>1. CtlOK'
    BY <1>1, <1>3, FailOK DEF Errors
  <2>2. ParOK'
    BY <1>1, <1>3, ParUnchanged DEF parVars
  <2>3. QED BY <1>1, <2>1, <2>2
<1> DEFINE c == [expected |-> Inst.a, start |-> Len(parValues)]
           top == Len(parContexts) + 1
<1>4. CASE /\ Inst.a >= 0 /\ Len(parContexts) < ParContextCapacity
           /\ parContexts' = Append(parContexts, c) /\ Goto(ip + 1)
  <2>1. CtlOK'
    BY <1>1, <1>2, <1>4, GotoOK
  <2>2. c \in ParContext /\ c.start = Len(parValues)
    BY <1>2, <1>4 DEF ParContext, ParOK
  <2> HIDE DEF c
  <2>3. /\ parContexts' \in Seq(ParContext) /\ Len(parContexts') = top
        /\ parContexts'[top].start = Len(parValues)
        /\ \A i \in 1 .. Len(parContexts) : parContexts'[i] = parContexts[i]
        /\ Len(parContexts) \in Nat /\ Len(parValues) \in Nat
    BY <1>4, <2>2, Appended DEF ParOK
  <2>4. \A i \in 1 .. top : parContexts'[i].start <= Len(parValues)
    <3> SUFFICES ASSUME NEW i \in 1 .. top
                 PROVE  parContexts'[i].start <= Len(parValues)
      OBVIOUS
    <3>1. CASE i = top
      <4>1. parContexts'[i].start = Len(parValues)
        BY <2>3, <3>1
      <4>2. QED BY <2>3, <4>1
    <3>2. CASE i # top
      <4>1. i \in 1 .. Len(parContexts)
        BY <2>3, <3>2
      <4>2. parContexts'[i].start = parContexts[i].start
        BY <2>3, <4>1
      <4>3. parContexts[i].start <= Len(parValues)
        BY <4>1 DEF ParOK, ParNested
      <4>4. QED BY <4>2, <4>3
    <3>3. QED BY <3>1, <3>2
  <2>5. \A i, j \in 1 .. top : i <= j => parContexts'[i].start <= parContexts'[j].start
    <3> SUFFICES ASSUME NEW i \in 1 .. top, NEW j \in 1 .. top, i <= j
                 PROVE  parContexts'[i].start <= parContexts'[j].start
      OBVIOUS
    <3>1. CASE j = top
      BY <2>3, <2>4, <3>1
    <3>2. CASE j # top
      BY <2>3, <3>2 DEF ParOK, ParNested
    <3>3. QED BY <3>1, <3>2
  <2>6. ParOK'
    BY <1>1, <1>4, <2>3, <2>4, <2>5, Capacities DEF ParOK, ParNested
  <2>7. QED BY <1>1, <2>1, <2>6
<1>5. QED BY <1>3, <1>4 DEF ParBegin

LEMMA ParForkStep ==
  ASSUME VmInv, ParFork
  PROVE  VmInv'
<1> USE DEF VmInv
<1>1. /\ FramesOK' /\ LocalsOK' /\ LocalsNested' /\ TasksOK' /\ SyncOK'
      /\ program' = program /\ UNCHANGED <<parContexts, blocks>>
  BY FramesUnchanged, LocalsUnchanged, TasksUnchanged
     DEF ParFork, LocalsNested, frameVars, localVars, SyncOK
<1>2. ip + 1 \in Nat
  BY DEF CtlOK
<1>3. CASE (FailWith(stack, "INVALID_PROGRAM") \/ Underflow(1)) /\ UNCHANGED parValues
  <2>1. CtlOK' /\ StackOK'
    BY <1>1, <1>3, FailHere, UnderflowOK DEF Errors
  <2>2. ParOK'
    BY <1>1, <1>3, ParUnchanged DEF parVars
  <2>3. QED BY <1>1, <2>1, <2>2
<1>4. CASE /\ ~ (Len(parValues) >= ParValueCapacity) /\ Len(stack) >= 1
           /\ parValues' = Append(parValues, Top(0))
           /\ stack' = Rest(1) /\ UNCHANGED stackLimit /\ Goto(ip + 1)
  <2>1. 1 \in 0 .. Len(stack) /\ Top(0) \in Value
    BY <1>4, TopIsValue DEF StackOK
  <2>2. CtlOK' /\ StackOK'
    BY <1>1, <1>2, <1>4, <2>1, DropThenGoto
  <2>3. /\ parValues' \in Seq(Value) /\ Len(parValues') = Len(parValues) + 1
        /\ Len(parValues) \in Nat
    BY <1>4, <2>1, Appended DEF ParOK
  <2>4. Len(parValues') <= ParValueCapacity
    BY <1>4, <2>3, Capacities DEF ParOK, ParNested
  <2>5. \A i \in 1 .. Len(parContexts') : parContexts'[i].start <= Len(parValues')
    BY <1>1, <2>3, ContextFields DEF ParOK, ParNested
  <2>6. ParNested'
    BY <1>1, <2>4, <2>5 DEF ParOK, ParNested
  <2>7. ParOK'
    BY <1>1, <2>3, <2>6 DEF ParOK
  <2>8. QED BY <1>1, <2>2, <2>7
<1>5. QED BY <1>3, <1>4 DEF ParFork

LEMMA JoinValueType ==
  ASSUME TasksOK, NEW v \in Value
  PROVE  JoinValue(v) \in Value
<1>1. \A h : \A r \in TaskResults(h) : r \in Value
  BY TaskFields DEF TaskResults
<1>2. QED BY <1>1 DEF JoinValue

LEMMA ParJoinStep ==
  ASSUME VmInv, ParJoin
  PROVE  VmInv'
<1> USE DEF VmInv
<1>1. /\ FramesOK' /\ LocalsOK' /\ LocalsNested' /\ TasksOK' /\ SyncOK'
      /\ program' = program
  BY FramesUnchanged, LocalsUnchanged, TasksUnchanged
     DEF ParJoin, LocalsNested, frameVars, localVars, SyncOK
<1>2. ip + 1 \in Nat /\ Inst.a \in Int
  BY InstType DEF ParJoin
<1>3. CASE (\E e \in {"MEMORY_PRESSURE", "INVALID_PROGRAM"} : FailWith(stack, e)) /\ UNCHANGED parVars
  <2>1. CtlOK' /\ StackOK'
    BY <1>1, <1>3, FailHere DEF Errors
  <2>2. ParOK'
    BY <1>3, ParUnchanged
  <2>3. QED BY <1>1, <2>1, <2>2
<1> DEFINE context == parContexts[Len(parContexts)]
           branch  == [k \in 1 .. Inst.a |-> JoinValue(parValues[context.start + k])]
<1>4. CASE /\ Inst.a >= 0 /\ parContexts # <<>>
           /\ Len(parValues) - context.start = Inst.a
           /\ blocks' = Append(blocks, branch)
           /\ parContexts' = SubSeq(parContexts, 1, Len(parContexts) - 1)
           /\ parValues' = OuterBranches(context.start)
           /\ PushThen(stack, NodeVal(Len(blocks) + 1), ip + 1)
  <2>1. Len(parContexts) \in 1 .. Len(parContexts)
    BY <1>4 DEF ParOK
  <2>2. context.start \in Nat /\ context.start <= Len(parValues) /\ Len(parValues) \in Nat
    BY <2>1, ContextFields DEF ParOK, ParNested
  <2>3. NodeVal(Len(blocks) + 1) \in Value
    BY ValueTypes DEF ParOK
  <2>4. CtlOK' /\ StackOK'
    BY <1>1, <1>2, <1>4, <2>3, PushHere
  <2>5. branch \in Seq(Value)
    <3>1. \A k \in 1 .. Inst.a : JoinValue(parValues[context.start + k]) \in Value
      BY <1>2, <1>4, <2>2, JoinValueType DEF ParOK
    <3>2. branch \in [1 .. Inst.a -> Value]
      BY <3>1
    <3>3. Inst.a \in Nat
      BY <1>2, <1>4
    <3> HIDE DEF branch
    <3>4. QED BY <3>2, <3>3, FunctionIsSeq
  <2> HIDE DEF branch
  <2>6. blocks' \in Seq(Seq(Value))
    BY <1>4, <2>5, Appended DEF ParOK
  <2>7. /\ parValues' \in Seq(Value) /\ Len(parValues') = context.start
    BY <1>4, <2>2, Prefix DEF ParOK, OuterBranches
  <2>8. /\ parContexts' \in Seq(ParContext) /\ Len(parContexts') = Len(parContexts) - 1
        /\ \A i \in 1 .. Len(parContexts) - 1 : parContexts'[i] = parContexts[i]
    <3>1. parContexts \in Seq(ParContext) /\ Len(parContexts) - 1 \in 0 .. Len(parContexts)
      BY <2>1 DEF ParOK
    <3>2. QED BY <1>4, <3>1, Prefix
  <2>9. \A i \in 1 .. Len(parContexts') : parContexts'[i].start <= context.start
    BY <2>1, <2>8 DEF ParOK, ParNested
  <2>10. \A i, j \in 1 .. Len(parContexts') :
            i <= j => parContexts'[i].start <= parContexts'[j].start
    BY <2>1, <2>8 DEF ParOK, ParNested
  <2>11. Len(parContexts') <= ParContextCapacity /\ Len(parValues') <= ParValueCapacity
    BY <2>1, <2>2, <2>7, <2>8, Capacities DEF ParOK, ParNested
  <2>12. ParOK'
    BY <2>6, <2>7, <2>8, <2>9, <2>10, <2>11 DEF ParOK, ParNested
  <2>13. QED BY <1>1, <2>4, <2>12
<1>5. QED BY <1>3, <1>4 DEF ParJoin
-----------------------------------------------------------------------------
(* The C recursion of execute_call_subroutine_sync.                         *)

\* What makes AsyncReturnsToItsCall inductive: nothing is nested before the
\* first step, and inner calls began at strictly greater frame counts, so a
\* return can only remove the frame of the innermost one.
SyncInv ==
  /\ status = "READY" => sync = <<>>
  /\ \A i, j \in 1 .. Len(sync) : i < j => sync[i].baseline < sync[j].baseline
  /\ AsyncReturnsToItsCall

LEMMA SyncFields ==
  ASSUME SyncOK, NEW i \in 1 .. Len(sync)
  PROVE  /\ sync[i] \in SyncCall
         /\ sync[i].baseline \in Nat /\ sync[i].frameBase \in Nat /\ sync[i].returnIp \in Nat
<1>1. sync[i] \in SyncCall
  BY DEF SyncOK
<1>2. QED BY <1>1 DEF SyncCall

\* The frame of the nested call c is in place.
FrameInPlace(c) ==
  /\ Len(callFrames) > c.baseline
  /\ callFrames[c.baseline + 1].returnIp = c.returnIp
  /\ callFrames[c.baseline + 1].frameBase = c.frameBase

\* When an instruction executes, the frame of every nested call is in place.
LEMMA ExecFramesInPlace ==
  ASSUME SyncInv, SyncOK, NEW ops, Exec(ops), NEW i \in 1 .. Len(sync)
  PROVE  status = "RUNNING" /\ FrameInPlace(sync[i])
<1>1. sync # <<>>
  BY DEF SyncOK
<1>2. status = "RUNNING"
  BY <1>1 DEF SyncInv, Exec
<1>3. ~ /\ Len(callFrames) = sync[Len(sync)].baseline
        /\ ip = sync[Len(sync)].returnIp
  BY <1>1, <1>2 DEF Exec, AsyncDone
<1>4. QED BY <1>2, <1>3 DEF SyncInv, AsyncReturnsToItsCall, FrameInPlace

\* Instructions that leave the frames alone.
LEMMA SyncInvSameFrames ==
  ASSUME SyncInv, SyncOK, NEW ops, Exec(ops), callFrames' = callFrames, sync' = sync,
         status' # "READY"
  PROVE  SyncInv'
<1>1. \A i \in 1 .. Len(sync) : FrameInPlace(sync[i])
  BY ExecFramesInPlace
<1>2. AsyncReturnsToItsCall'
  BY <1>1 DEF AsyncReturnsToItsCall, FrameInPlace
<1>3. QED BY <1>2 DEF SyncInv

\* Instructions that add a frame.
LEMMA SyncInvFramePush ==
  ASSUME SyncInv, SyncOK, FramesOK, NEW ops, Exec(ops), NEW f \in Frame,
         callFrames' = Append(callFrames, f), sync' = sync, status' # "READY"
  PROVE  SyncInv'
<1>1. \A i \in 1 .. Len(sync) : FrameInPlace(sync[i])
  BY ExecFramesInPlace
<1>2. /\ Len(callFrames) \in Nat /\ Len(callFrames') = Len(callFrames) + 1
      /\ \A i \in 1 .. Len(callFrames) : callFrames'[i] = callFrames[i]
  BY Appended DEF FramesOK
<1>3. \A i \in 1 .. Len(sync) : FrameInPlace(sync[i])'
  BY <1>1, <1>2, SyncFields DEF FrameInPlace
<1>4. AsyncReturnsToItsCall'
  BY <1>3 DEF AsyncReturnsToItsCall, FrameInPlace
<1>5. QED BY <1>4 DEF SyncInv

\* No outcome of a step is READY.
LEMMA StepNotReady ==
  /\ \A n : Goto(n) => status' # "READY"
  /\ \A e : Fail(e) \/ FailInPlace(e) => status' # "READY"
  /\ \A s, e : FailWith(s, e) => status' # "READY"
  /\ \A n : Underflow(n) => status' # "READY"
  /\ \A s, v, n : PushThen(s, v, n) => status' # "READY"
  /\ \A s, v, n : PushCompletedTask(s, v, n) => status' # "READY"
  /\ SyscallRefused => status' # "READY"
<1>1. \A n : Goto(n) => status' # "READY"
  BY DEF Goto
<1>2. \A e : Fail(e) \/ FailInPlace(e) => status' # "READY"
  BY DEF Fail, FailInPlace
<1>3. \A s, e : FailWith(s, e) => status' # "READY"
  BY <1>2 DEF FailWith
<1>4. \A n : Underflow(n) => status' # "READY"
  BY <1>3 DEF Underflow
<1>5. \A s, v, n : PushThen(s, v, n) => status' # "READY"
  BY <1>1, <1>2 DEF PushThen
<1>6. \A s, v, n : PushCompletedTask(s, v, n) => status' # "READY"
  BY <1>3, <1>5 DEF PushCompletedTask
<1>7. SyscallRefused => status' # "READY"
  BY <1>2 DEF SyscallRefused
<1>8. QED BY <1>1, <1>2, <1>3, <1>4, <1>5, <1>6, <1>7

LEMMA SyncInvPlainSteps ==
  ASSUME VmInv, SyncInv,
         \/ Nop \/ Halt \/ Stub \/ Literal \/ Pop \/ Binary \/ Jump \/ JumpIfFalse
         \/ DataOp \/ MakeMany \/ StoreLocal \/ LoadLocal \/ CallSys \/ AsyncCallSys
         \/ Await \/ ParBegin \/ ParFork \/ ParJoin
  PROVE  SyncInv'
<1>1. callFrames' = callFrames /\ sync' = sync
  BY DEF Nop, Halt, Stub, Literal, Pop, Binary, Jump, JumpIfFalse, DataOp, MakeMany, StoreLocal,
         LoadLocal, CallSys, AsyncCallSys, Await, ParBegin, ParFork, ParJoin,
         OnlyControl, OnlyStack, frameVars
<1>2. \E ops : Exec(ops)
  BY DEF Nop, Halt, Stub, Literal, Pop, Binary, Jump, JumpIfFalse, DataOp, MakeMany, StoreLocal,
         LoadLocal, CallSys, AsyncCallSys, Await, ParBegin, ParFork, ParJoin
<1>3. status' # "READY"
  <2>1. CASE Nop \/ Halt \/ Stub \/ Jump \/ ParBegin
    BY <2>1, StepNotReady DEF Nop, Halt, Stub, Jump, ParBegin
  <2>2. CASE Literal \/ Pop \/ Binary \/ JumpIfFalse \/ DataOp \/ MakeMany
    BY <2>2, StepNotReady DEF Literal, Pop, Binary, JumpIfFalse, DataOp, MakeMany
  <2>3. CASE StoreLocal \/ LoadLocal
    BY <2>3, StepNotReady DEF StoreLocal, LoadLocal
  <2>4. CASE CallSys \/ AsyncCallSys \/ Await \/ ParFork \/ ParJoin
    BY <2>4, StepNotReady DEF CallSys, AsyncCallSys, Await, ParFork, ParJoin
  <2>5. QED BY <2>1, <2>2, <2>3, <2>4
<1>4. QED BY <1>1, <1>2, <1>3, SyncInvSameFrames DEF VmInv
LEMMA SyncInvCall ==
  ASSUME VmInv, SyncInv, Call
  PROVE  SyncInv'
<1> USE DEF VmInv
<1>1. Exec({"CALL"}) /\ program' = program /\ sync' = sync /\ UNCHANGED localVars
  BY DEF Call
<1>2. CASE CallChecked(Inst.a)
  <2>1. \/ callFrames' = Append(callFrames, NewFrame(Inst.a)) /\ Goto(Inst.a)
        \/ callFrames' = callFrames /\ Fail("FRAME_OVERFLOW")
    BY <1>1, <1>2, FramePushOK DEF Call
  <2>2. NewFrame(Inst.a) \in Frame
    BY <1>2, CallCheckedType DEF NewFrame, Frame, CtlOK, LocalsOK
  <2>3. QED BY <1>1, <2>1, <2>2, StepNotReady, SyncInvFramePush, SyncInvSameFrames
<1>3. CASE ~ CallChecked(Inst.a)
  <2>1. callFrames' = callFrames /\ Fail("INVALID_PROGRAM")
    BY <1>3 DEF Call, frameVars
  <2>2. QED BY <1>1, <2>1, StepNotReady, SyncInvSameFrames
<1>4. QED BY <1>2, <1>3

LEMMA SyncInvAsyncCall ==
  ASSUME VmInv, SyncInv, AsyncCall
  PROVE  SyncInv'
<1> USE DEF VmInv
<1>1. Exec({"ASYNC_CALL"}) /\ program' = program /\ UNCHANGED localVars
  BY DEF AsyncCall
<1>2. CASE sync' = sync /\ callFrames' = callFrames /\ status' # "READY"
  BY <1>1, <1>2, SyncInvSameFrames
<1>3. CASE ~ (sync' = sync /\ callFrames' = callFrames /\ status' # "READY")
  <2>1. CallChecked(Inst.a)
    BY <1>3, StepNotReady DEF AsyncCall, frameVars
  <2>2. /\ callFrames' = Append(callFrames, NewFrame(Inst.a)) /\ Goto(Inst.a)
        /\ sync' = Append(sync, SyncEntry(Inst.a))
    <3>1. \/ callFrames' = Append(callFrames, NewFrame(Inst.a)) /\ Goto(Inst.a)
          \/ callFrames' = callFrames /\ Fail("FRAME_OVERFLOW")
      BY <1>1, <2>1, FramePushOK DEF AsyncCall
    <3>2. sync' = IF Len(callFrames') = Len(callFrames) THEN sync
                  ELSE Append(sync, SyncEntry(Inst.a))
      BY <2>1 DEF AsyncCall
    <3>3. callFrames' = Append(callFrames, NewFrame(Inst.a)) /\ Goto(Inst.a)
      BY <1>3, <3>1, <3>2, StepNotReady
    <3>4. Len(callFrames') # Len(callFrames)
      <4>1. NewFrame(Inst.a) \in Frame
        BY <2>1, CallCheckedType DEF NewFrame, Frame, CtlOK, LocalsOK
      <4>2. QED BY <3>3, <4>1, Appended DEF FramesOK
    <3>5. QED BY <3>2, <3>3, <3>4
  <2> DEFINE c == SyncEntry(Inst.a)
             f == NewFrame(Inst.a)
             top == Len(sync) + 1
  <2>3. f \in Frame /\ c \in SyncCall
    BY <2>1, CallCheckedType DEF NewFrame, SyncEntry, Frame, SyncCall, CtlOK, LocalsOK, FramesOK
  <2>4. c.baseline = Len(callFrames) /\ c.returnIp = f.returnIp /\ c.frameBase = f.frameBase
    BY DEF SyncEntry, NewFrame
  <2> HIDE DEF c, f
  <2>5. /\ Len(callFrames) \in Nat /\ Len(callFrames') = Len(callFrames) + 1
        /\ callFrames'[Len(callFrames) + 1] = f
        /\ \A i \in 1 .. Len(callFrames) : callFrames'[i] = callFrames[i]
    BY <2>2, <2>3, Appended DEF FramesOK, f
  <2>6. /\ Len(sync) \in Nat /\ Len(sync') = top /\ sync'[top] = c
        /\ \A i \in 1 .. Len(sync) : sync'[i] = sync[i]
    BY <2>2, <2>3, Appended DEF SyncOK, c
  <2>7. \A i \in 1 .. Len(sync) : FrameInPlace(sync[i]) /\ sync[i].baseline \in Nat
    BY <1>1, ExecFramesInPlace, SyncFields
  <2>9. /\ Len(callFrames') > c.baseline
        /\ callFrames'[c.baseline + 1].returnIp = c.returnIp
        /\ callFrames'[c.baseline + 1].frameBase = c.frameBase
    BY <2>4, <2>5
  <2>10. AsyncReturnsToItsCall'
    <3> SUFFICES ASSUME NEW i \in 1 .. top
                 PROVE  /\ Len(callFrames') > sync'[i].baseline
                        /\ callFrames'[sync'[i].baseline + 1].returnIp = sync'[i].returnIp
                        /\ callFrames'[sync'[i].baseline + 1].frameBase = sync'[i].frameBase
      BY <2>6 DEF AsyncReturnsToItsCall
    <3>1. CASE i = top
      BY <2>6, <2>9, <3>1
    <3>2. CASE i # top
      <4>1. i \in 1 .. Len(sync) /\ sync'[i] = sync[i]
        BY <2>6, <3>2
      <4>2. FrameInPlace(sync[i]) /\ sync[i].baseline \in Nat
        BY <2>7, <4>1
      <4>3. sync[i].baseline + 1 \in 1 .. Len(callFrames)
        BY <2>5, <4>2 DEF FrameInPlace
      <4>4. callFrames'[sync[i].baseline + 1] = callFrames[sync[i].baseline + 1]
        BY <2>5, <4>3
      <4>5. QED BY <2>5, <4>1, <4>2, <4>4 DEF FrameInPlace
    <3>3. QED BY <3>1, <3>2
  <2>11. \A i, j \in 1 .. top : i < j => sync'[i].baseline < sync'[j].baseline
    <3> SUFFICES ASSUME NEW i \in 1 .. top, NEW j \in 1 .. top, i < j
                 PROVE  sync'[i].baseline < sync'[j].baseline
      OBVIOUS
    <3>1. i \in 1 .. Len(sync) /\ sync'[i] = sync[i]
      BY <2>6
    <3>2. CASE j = top
      BY <2>4, <2>5, <2>6, <2>7, <3>1, <3>2 DEF FrameInPlace
    <3>3. CASE j # top
      BY <2>6, <3>1, <3>3 DEF SyncInv
    <3>4. QED BY <3>2, <3>3
  <2>12. status' # "READY"
    BY <2>2, StepNotReady
  <2>13. (\A i, j \in 1 .. Len(sync) : i < j => sync[i].baseline < sync[j].baseline)'
    BY <2>6, <2>11
  <2>14. QED BY <2>10, <2>12, <2>13 DEF SyncInv
<1>4. QED BY <1>2, <1>3
LEMMA SyncInvReturn ==
  ASSUME VmInv, SyncInv, Return
  PROVE  SyncInv'
<1> USE DEF VmInv
<1>1. Exec({"RET", "RETURN"}) /\ program' = program /\ sync' = sync
  BY DEF Return
<1>2. CASE status' = "ERROR"
  BY <1>1, <1>2 DEF SyncInv, AsyncReturnsToItsCall
<1>3. CASE callFrames' = callFrames /\ status' # "READY"
  BY <1>1, <1>3, SyncInvSameFrames
<1>4. CASE status' # "ERROR" /\ ~ (callFrames' = callFrames /\ status' # "READY")
  <2> DEFINE frame  == callFrames[Len(callFrames)]
             caller == SubSeq(callFrames, 1, Len(callFrames) - 1)
             base   == SubSeq(stack, 1, frame.frameBase)
  <2>1. /\ callFrames # <<>> /\ CallLocalStateOK(callFrames, stack, localsCount)
        /\ callFrames' = caller
        /\ Goto(frame.returnIp)
        /\ \/ stack' = Append(base, Top(0)) /\ Len(stack) > frame.frameBase
           \/ stack' = base
    <3>1. \A s, e : ~ FailWith(s, e)
      BY <1>4 DEF FailWith, Fail
    <3>2. \A s, v, n : PushThen(s, v, n) => Goto(n) /\ stack' = Append(s, v)
      BY <1>4 DEF PushThen, Fail
    <3>3. callFrames # <<>>
      BY <1>4, StepNotReady DEF Return
    <3>4. CallLocalStateOK(callFrames, stack, localsCount)
      BY <3>1, <3>3 DEF Return
    <3>5. QED BY <3>1, <3>2, <3>3, <3>4 DEF Return
  <2>2. status' # "READY" /\ ip' = frame.returnIp
    BY <2>1 DEF Goto
  <2>3. /\ Len(callFrames) \in 1 .. Len(callFrames) /\ Len(callFrames) \in Nat
        /\ frame.returnIp \in Nat /\ frame.frameBase \in Nat
    <3>1. Len(callFrames) \in 1 .. Len(callFrames) /\ Len(callFrames) \in Nat
      BY <2>1 DEF FramesOK
    <3>2. QED BY <3>1, FrameFields
  <2>4. frame.frameBase \in 0 .. Len(stack)
    BY <2>1, <2>3 DEF CallLocalStateOK, StackOK
  <2>5. base \in Seq(Value) /\ Len(base) = frame.frameBase
    BY <2>4, Prefix DEF StackOK
  <2>6. Len(stack') \in {frame.frameBase, frame.frameBase + 1}
    <3>1. CASE stack' = base
      BY <2>5, <3>1
    <3>2. CASE stack' = Append(base, Top(0)) /\ Len(stack) > frame.frameBase
      <4>1. Top(0) \in Value
        BY <2>3, <3>2, TopIsValue DEF StackOK
      <4>2. QED BY <2>5, <3>2, <4>1, Appended
    <3>3. QED BY <2>1, <3>1, <3>2
  <2>7. /\ Len(callFrames') = Len(callFrames) - 1
        /\ \A i \in 1 .. Len(callFrames) - 1 : callFrames'[i] = callFrames[i]
    <3>1. callFrames \in Seq(Frame) /\ Len(callFrames) - 1 \in 0 .. Len(callFrames)
      BY <2>3 DEF FramesOK
    <3>2. QED BY <2>1, <3>1, Prefix
  <2> HIDE DEF base, caller
  <2>8. AsyncReturnsToItsCall'
    <3> SUFFICES ASSUME NEW i \in 1 .. Len(sync)
                 PROVE  \/ /\ Len(callFrames') > sync[i].baseline
                           /\ callFrames'[sync[i].baseline + 1].returnIp = sync[i].returnIp
                           /\ callFrames'[sync[i].baseline + 1].frameBase = sync[i].frameBase
                        \/ /\ i = Len(sync)
                           /\ Len(callFrames') = sync[i].baseline
                           /\ ip' = sync[i].returnIp
                           /\ Len(stack') \in {sync[i].frameBase, sync[i].frameBase + 1}
      BY <1>1 DEF AsyncReturnsToItsCall
    <3>1. FrameInPlace(sync[i]) /\ sync[i].baseline \in Nat
      BY <1>1, ExecFramesInPlace, SyncFields
    <3>2. CASE Len(callFrames) > sync[i].baseline + 1
      BY <2>3, <2>7, <3>1, <3>2 DEF FrameInPlace
    <3>3. CASE Len(callFrames) = sync[i].baseline + 1
      <4>1. i = Len(sync)
        <5>1. SUFFICES ASSUME i # Len(sync) PROVE FALSE
          OBVIOUS
        <5>2. Len(sync) \in 1 .. Len(sync) /\ i < Len(sync)
          BY <5>1 DEF SyncOK
        <5>3. sync[i].baseline < sync[Len(sync)].baseline
          BY <5>2 DEF SyncInv
        <5>4. FrameInPlace(sync[Len(sync)]) /\ sync[Len(sync)].baseline \in Nat
          BY <1>1, <5>2, ExecFramesInPlace, SyncFields
        <5>5. QED BY <2>3, <3>1, <3>3, <5>3, <5>4 DEF FrameInPlace
      <4>2. frame.returnIp = sync[i].returnIp /\ frame.frameBase = sync[i].frameBase
        BY <3>1, <3>3 DEF FrameInPlace
      <4>3. Len(callFrames') = sync[i].baseline
        BY <2>3, <2>7, <3>1, <3>3
      <4>4. QED BY <2>2, <2>6, <4>1, <4>2, <4>3
    <3>4. QED BY <2>3, <3>1, <3>2, <3>3 DEF FrameInPlace
  <2>9. QED BY <1>1, <2>2, <2>8 DEF SyncInv
<1>5. QED BY <1>2, <1>3, <1>4

\* In AsyncReturn exactly the result is above the caller's operands.
LEMMA AsyncReturnShape ==
  ASSUME VmInv, SyncInv, AsyncReturn
  PROVE  /\ Len(sync) \in 1 .. Len(sync)
         /\ sync[Len(sync)].frameBase \in 0 .. Len(stack)
         /\ ~ (Len(stack) > sync[Len(sync)].frameBase + 1)
<1> USE DEF VmInv
<1>1. Len(sync) \in 1 .. Len(sync)
  BY DEF AsyncReturn, AsyncDone, SyncOK
<1>2. status = "RUNNING" /\ Len(callFrames) = sync[Len(sync)].baseline
  BY DEF AsyncReturn, AsyncDone
<1>3. sync[Len(sync)].baseline \in Nat /\ sync[Len(sync)].frameBase \in Nat
  BY <1>1, SyncFields
<1>4. Len(stack) \in {sync[Len(sync)].frameBase, sync[Len(sync)].frameBase + 1}
  <2>1. ~ (Len(callFrames) > sync[Len(sync)].baseline)
    BY <1>2, <1>3
  <2>2. QED BY <1>1, <1>2, <2>1 DEF SyncInv, AsyncReturnsToItsCall
<1>5. QED BY <1>1, <1>3, <1>4 DEF StackOK

LEMMA AsyncReturnStep ==
  ASSUME VmInv, SyncInv, AsyncReturn
  PROVE  VmInv' /\ SyncInv'
<1> USE DEF VmInv
<1> DEFINE call   == sync[Len(sync)]
           result == IF Len(stack) > call.frameBase THEN Top(0) ELSE VoidVal
           base   == SubSeq(stack, 1, call.frameBase)
<1>1. Len(sync) \in 1 .. Len(sync) /\ call.frameBase \in 0 .. Len(stack)
  BY AsyncReturnShape
<1>2. /\ FramesOK' /\ LocalsOK' /\ LocalsNested' /\ ParOK' /\ program' = program
      /\ callFrames' = callFrames
  BY FramesUnchanged, LocalsUnchanged, ParUnchanged
     DEF AsyncReturn, LocalsNested, frameVars, localVars
<1>3. sync' = SubSeq(sync, 1, Len(sync) - 1) /\ PushCompletedTask(base, result, ip)
  BY AsyncReturnShape DEF AsyncReturn
<1>4. result \in Value
  <2>1. CASE Len(stack) > call.frameBase
    <3>1. 0 \in 0 .. Len(stack) - 1
      BY <1>1, <2>1 DEF StackOK
    <3>2. QED BY <2>1, <3>1, TopIsValue
  <2>2. CASE ~ (Len(stack) > call.frameBase)
    BY <2>2, ValueTypes
  <2>3. QED BY <2>1, <2>2
<1>5. base \in Seq(Value) /\ Len(base) <= stackLimit
  <2>1. base \in Seq(Value) /\ Len(base) = call.frameBase
    BY <1>1, Prefix DEF StackOK
  <2>2. QED BY <1>1, <2>1 DEF StackOK
<1> HIDE DEF base, result
<1>6. CtlOK' /\ StackOK' /\ TasksOK'
  <2>1. ip \in Nat
    BY DEF CtlOK
  <2>2. QED BY <1>2, <1>3, <1>4, <1>5, <2>1, PushCompletedTaskOK
<1>7. /\ sync' \in Seq(SyncCall) /\ Len(sync') = Len(sync) - 1
      /\ \A i \in 1 .. Len(sync) - 1 : sync'[i] = sync[i]
  <2>1. sync \in Seq(SyncCall) /\ Len(sync) - 1 \in 0 .. Len(sync)
    BY <1>1 DEF SyncOK
  <2>2. QED BY <1>3, <2>1, Prefix
<1>8. status = "RUNNING" /\ status' # "READY"
  BY <1>3, StepNotReady DEF AsyncReturn, AsyncDone
<1>9. AsyncReturnsToItsCall'
  <2> SUFFICES ASSUME NEW i \in 1 .. Len(sync) - 1
               PROVE  /\ Len(callFrames') > sync'[i].baseline
                      /\ callFrames'[sync'[i].baseline + 1].returnIp = sync'[i].returnIp
                      /\ callFrames'[sync'[i].baseline + 1].frameBase = sync'[i].frameBase
    BY <1>7 DEF AsyncReturnsToItsCall
  <2>1. i \in 1 .. Len(sync) /\ i # Len(sync)
    BY <1>1
  <2>2. QED BY <1>2, <1>7, <1>8, <2>1 DEF SyncInv, AsyncReturnsToItsCall
<1>10. (\A i, j \in 1 .. Len(sync) : i < j => sync[i].baseline < sync[j].baseline)'
  BY <1>1, <1>7 DEF SyncInv
<1>11. SyncInv'
  BY <1>8, <1>9, <1>10 DEF SyncInv
<1>12. QED BY <1>2, <1>6, <1>7, <1>11 DEF SyncOK
-----------------------------------------------------------------------------
(* The theorems.                                                            *)

LEMMA InitOK ==
  ASSUME Init
  PROVE  VmInv /\ SyncInv
<1>1. CtlOK
  <2>1. program \in Seq(Instruction)
    BY ConstantsAssumption DEF Init
  <2>2. QED BY <2>1 DEF Init, CtlOK, Errors
<1>2. StackOK /\ FramesOK
  BY Capacities DEF Init, StackOK, FramesOK
<1>3. LocalsOK
  <2>1. Garbage \subseteq Value
    BY ConstantsAssumption
  <2>2. locals \in [0 .. LocalsCapacity - 1 -> Value]
    BY <2>1 DEF Init
  <2>3. QED BY <2>2, Capacities DEF Init, LocalsOK
<1>4. LocalsNested /\ TasksOK /\ ParOK /\ SyncOK
  BY Capacities DEF Init, LocalsNested, TasksOK, TaskTableOrdered, ParOK, ParNested, SyncOK
<1>5. SyncInv
  BY DEF Init, SyncInv, AsyncReturnsToItsCall
<1>6. QED BY <1>1, <1>2, <1>3, <1>4, <1>5 DEF VmInv

LEMMA ResetStep ==
  ASSUME VmInv, SyncInv, Reset
  PROVE  VmInv' /\ SyncInv'
<1> USE DEF VmInv, Reset, ResetState
<1>1. CtlOK'
  BY DEF CtlOK, Errors
<1>2. StackOK' /\ FramesOK' /\ LocalsOK'
  BY Capacities DEF StackOK, FramesOK, LocalsOK
<1>3. LocalsNested' /\ TasksOK' /\ ParOK' /\ SyncOK'
  BY Capacities DEF LocalsNested, TasksOK, TaskTableOrdered, ParOK, ParNested, SyncOK
<1>4. SyncInv'
  BY DEF SyncInv, AsyncReturnsToItsCall
<1>5. QED BY <1>1, <1>2, <1>3, <1>4

LEMMA StutterStep ==
  ASSUME VmInv, SyncInv, UNCHANGED vars
  PROVE  VmInv' /\ SyncInv'
<1> USE DEF VmInv, vars
<1>1. CtlOK' /\ StackOK' /\ SyncOK' /\ LocalsNested'
  BY DEF CtlOK, StackOK, stackVars, SyncOK, LocalsNested, frameVars, localVars
<1>2. FramesOK' /\ LocalsOK' /\ TasksOK' /\ ParOK'
  BY FramesUnchanged, LocalsUnchanged, TasksUnchanged, ParUnchanged
<1>3. SyncInv'
  BY DEF SyncInv, AsyncReturnsToItsCall, frameVars, stackVars
<1>4. QED BY <1>1, <1>2, <1>3

\* Steps that end the recursion or run outside it.
LEMMA SyncInvOtherSteps ==
  ASSUME VmInv, SyncInv, AsyncAbort \/ Unsupported \/ RunEmpty
  PROVE  SyncInv'
<1>1. CASE AsyncAbort
  BY <1>1 DEF AsyncAbort, SyncInv, AsyncReturnsToItsCall
<1>2. CASE Unsupported
  <2>1. status' = "ERROR" /\ sync' = sync
    BY <1>2 DEF Unsupported, Fail, OnlyControl, OnlyStack
  <2>2. QED BY <2>1 DEF SyncInv, AsyncReturnsToItsCall
<1>3. CASE RunEmpty
  BY <1>3 DEF RunEmpty, OnlyControl, OnlyStack, SyncInv, AsyncReturnsToItsCall
<1>4. QED BY <1>1, <1>2, <1>3

\* The inductive step, one case per action.
LEMMA NextOK ==
  ASSUME VmInv, SyncInv, [Next]_vars
  PROVE  VmInv' /\ SyncInv'
<1>1. CASE \/ Nop \/ Halt \/ Stub \/ Literal \/ Pop \/ Binary \/ Jump \/ JumpIfFalse
           \/ DataOp \/ MakeMany \/ StoreLocal \/ LoadLocal \/ CallSys \/ AsyncCallSys
           \/ Await \/ ParBegin \/ ParFork \/ ParJoin
  <2>1. SyncInv'
    BY <1>1, SyncInvPlainSteps
  <2>2. VmInv'
    BY <1>1, ControlSteps, LiteralStep, PopStep, BinaryStep, JumpIfFalseStep, DataOpStep, MakeManyStep,
       StoreLocalStep, LoadLocalStep, CallSysStep, AsyncCallSysStep, AwaitStep,
       ParBeginStep, ParForkStep, ParJoinStep
  <2>3. QED BY <2>1, <2>2
<1>2. CASE Call
  BY <1>2, CallStep, SyncInvCall
<1>3. CASE AsyncCall
  BY <1>3, AsyncCallStep, SyncInvAsyncCall
<1>4. CASE Return
  BY <1>4, ReturnStep, SyncInvReturn
<1>5. CASE AsyncReturn
  BY <1>5, AsyncReturnStep
<1>6. CASE AsyncAbort \/ Unsupported \/ RunEmpty
  BY <1>6, AsyncAbortStep, ControlSteps, SyncInvOtherSteps
<1>7. CASE Reset
  BY <1>7, ResetStep
<1>8. CASE UNCHANGED vars
  BY <1>8, StutterStep
<1>9. QED BY <1>1, <1>2, <1>3, <1>4, <1>5, <1>6, <1>7, <1>8 DEF Next, Step

LEMMA Inductive == Spec => [](VmInv /\ SyncInv)
<1>1. Init => VmInv /\ SyncInv
  BY InitOK
<1>2. VmInv /\ SyncInv /\ [Next]_vars => (VmInv /\ SyncInv)'
  BY NextOK
<1>3. QED BY <1>1, <1>2, PTL DEF Spec

\* Every reachable VM is well formed: all registers, tables and arrays of
\* aivm_vm.h hold values of their types after any step of any program.
THEOREM TypeCorrect == Spec => []TypeOK
<1>1. VmInv => TypeOK
  BY DEF VmInv, TypeOK, CtlOK, StackOK, FramesOK, LocalsOK, TasksOK, ParOK, SyncOK
<1>2. QED BY <1>1, Inductive, PTL

\* aivm_stack_push, aivm_frame_push and aivm_local_set never leave their
\* arrays, whatever bytecode is loaded.
THEOREM ArraysNeverOverrun == Spec => []WithinArrays
<1>1. VmInv => WithinArrays
  BY DEF VmInv, WithinArrays, StackOK, FramesOK, LocalsOK
<1>2. QED BY <1>1, Inductive, PTL

\* The locals regions of the active calls are stacked in call order.
THEOREM LocalsAreNested == Spec => []LocalsNested
<1>1. VmInv => LocalsNested
  BY DEF VmInv
<1>2. QED BY <1>1, Inductive, PTL

\* The task table stays ordered by age, with distinct, already issued handles.
THEOREM TasksAreOrdered == Spec => []TaskTableOrdered
<1>1. VmInv => TaskTableOrdered
  BY DEF VmInv, TasksOK
<1>2. QED BY <1>1, Inductive, PTL

\* Par scopes stay properly nested and within their arrays.
THEOREM ParScopesNested == Spec => []ParNested
<1>1. VmInv => ParNested
  BY DEF VmInv, ParOK
<1>2. QED BY <1>1, Inductive, PTL

\* execute_call_subroutine_sync leaves its loop exactly when its own subroutine
\* has returned, with only the result above the caller's operands.
THEOREM AsyncCallsReturn == Spec => []AsyncReturnsToItsCall
<1>1. SyncInv => AsyncReturnsToItsCall
  BY DEF SyncInv
<1>2. QED BY <1>1, Inductive, PTL
\* Only STORE_LOCAL writes the locals, and only at or above the active base.
LEMMA StoreAboveBase ==
  ASSUME VmInv, [Next]_vars, NEW k \in 0 .. LocalsBase - 1
  PROVE  locals'[k] = locals[k]
<1> USE DEF VmInv
<1>1. CASE StoreLocal
  <2>1. CASE UNCHANGED localVars
    BY <2>1 DEF localVars
  <2>2. CASE Inst.a >= 0 /\ locals' = [locals EXCEPT ![LocalIndex(Inst.a)] = Top(0)]
    <3>1. Inst.a \in Int /\ LocalsBase \in Nat
      BY <1>1, InstType, LocalsBaseType DEF StoreLocal
    <3>2. LocalIndex(Inst.a) # k
      BY <2>2, <3>1 DEF LocalIndex
    <3> DEFINE slot == LocalIndex(Inst.a)
               v == Top(0)
    <3> HIDE DEF slot, v
    <3>3. locals' = [locals EXCEPT ![slot] = v] /\ slot # k
      BY <2>2, <3>2 DEF slot, v
    <3>4. CASE k \in 0 .. LocalsCapacity - 1
      BY <3>3, <3>4 DEF LocalsOK
    <3>5. CASE k \notin 0 .. LocalsCapacity - 1
      <4>1. LocalsBase <= localsCount
        <5>1. CASE callFrames = <<>>
          BY <5>1 DEF LocalsBase, LocalsOK
        <5>2. CASE callFrames # <<>>
          <6>1. Len(callFrames) \in 1 .. Len(callFrames)
            BY <5>2 DEF FramesOK
          <6>2. QED BY <5>2, <6>1 DEF LocalsBase, LocalsNested
        <5>3. QED BY <5>1, <5>2
      <4>2. k < LocalsCapacity
        BY <3>1, <4>1, Capacities DEF LocalsOK
      <4>3. QED BY <3>1, <3>5, <4>2, Capacities
    <3>6. QED BY <3>4, <3>5
  <2>3. QED BY <1>1, <2>1, <2>2 DEF StoreLocal
<1>2. CASE \/ Nop \/ Halt \/ Stub \/ Literal \/ Pop \/ Binary \/ Jump \/ JumpIfFalse
           \/ DataOp \/ MakeMany \/ LoadLocal \/ Call \/ Return \/ CallSys \/ AsyncCallSys
           \/ AsyncCall \/ AsyncReturn \/ AsyncAbort \/ Await \/ ParBegin \/ ParFork
           \/ ParJoin \/ Unsupported \/ RunEmpty \/ Reset \/ UNCHANGED vars
  BY <1>2 DEF Nop, Halt, Stub, Literal, Pop, Binary, Jump, JumpIfFalse, DataOp, MakeMany,
       LoadLocal, Call, Return, CallSys, AsyncCallSys, AsyncCall, AsyncReturn, AsyncAbort,
       Await, ParBegin, ParFork, ParJoin, Unsupported, RunEmpty, Reset, ResetState, vars,
       OnlyControl, OnlyStack, localVars
<1>3. QED BY <1>1, <1>2 DEF Next, Step

\* No step of a callee writes a local of one of its callers.
THEOREM CallersKeepTheirLocals == Spec => CallerLocalsIntact
<1>1. VmInv /\ [Next]_vars => [\A k \in 0 .. LocalsBase - 1 : locals'[k] = locals[k]]_vars
  BY StoreAboveBase
<1>2. QED BY <1>1, Inductive, PTL DEF Spec, CallerLocalsIntact

\* A task held after push_completed_task was pinned before it, so it stays.
LEMMA PushKeepsHeld ==
  ASSUME VmInv, UNCHANGED <<localVars, parValues>>,
         NEW s \in Seq(Value), NEW result \in Value, NEW n, PushCompletedTask(s, result, n),
         NEW k \in 1 .. Len(tasks),
         Held(tasks[k].handle, stack', locals', localsCount', parValues')
  PROVE  \E j \in 1 .. Len(tasks') : tasks'[j] = tasks[k]
<1> USE DEF VmInv
<1> DEFINE h == tasks[k].handle
<1>1. /\ h \in Int /\ h < nextTask /\ nextTask \in Int /\ Len(tasks) \in Nat
  BY TaskFields DEF TasksOK, TaskTableOrdered
<1>2. CASE UNCHANGED taskVars
  BY <1>2 DEF taskVars
<1>3. ASSUME NEW room \in TableWithRoom(s), stack' = s \/ stack' = Append(s, HandleVal(nextTask))
      PROVE  \E j \in 1 .. Len(room) : room[j] = tasks[k]
  <2>1. IsTaskHandlePinned(h, s)
    <3>1. UNCHANGED <<locals, localsCount, parValues>>
      BY DEF localVars
    <3>2. HandleVal(nextTask) \in Value /\ ~ IsHandleInt(HandleVal(nextTask), h)
      BY <1>1, ValueTypes DEF HandleVal, IsHandleInt
    <3>3. CASE \E i \in 1 .. Len(stack') : IsHandleInt(stack'[i], h)
      <4>1. PICK i \in 1 .. Len(stack') : IsHandleInt(stack'[i], h)
        BY <3>3
      <4>2. i \in 1 .. Len(s) /\ stack'[i] = s[i]
        BY <1>3, <3>2, <4>1, Appended
      <4>3. QED BY <4>1, <4>2 DEF IsTaskHandlePinned
    <3>4. QED BY <3>1, <3>3 DEF Held, IsTaskHandlePinned
  <2>2. CASE Len(tasks) < TaskCapacity
    BY <2>2 DEF TableWithRoom
  <2>3. CASE ~ (Len(tasks) < TaskCapacity)
    <3>1. PICK m \in 1 .. Len(tasks) : OldestUnpinned(m, s) /\ room = WithoutSlot(m)
      BY <2>3 DEF TableWithRoom
    <3>2. m # k
      BY <2>1, <3>1 DEF OldestUnpinned
    <3>3. /\ room \in Seq(Task) /\ Len(room) = Len(tasks) - 1
      <4>1. \A j \in 1 .. Len(tasks) - 1 : (IF j < m THEN tasks[j] ELSE tasks[j + 1]) \in Task
        BY <1>1 DEF TasksOK
      <4>2. room \in [1 .. Len(tasks) - 1 -> Task] /\ Len(tasks) - 1 \in Nat
        BY <1>1, <3>1, <4>1 DEF WithoutSlot
      <4>3. QED BY <4>2, FunctionIsSeq
    <3>4. CASE k < m
      <4>1. k \in 1 .. Len(room) /\ room[k] = tasks[k]
        BY <1>1, <3>1, <3>3, <3>4 DEF WithoutSlot
      <4>2. QED BY <4>1
    <3>5. CASE k > m
      <4>1. k - 1 \in 1 .. Len(room) /\ room[k - 1] = tasks[k]
        BY <1>1, <3>1, <3>3, <3>5 DEF WithoutSlot
      <4>2. QED BY <4>1
    <3>6. QED BY <3>2, <3>4, <3>5
  <2>4. QED BY <2>2, <2>3
<1>4. ASSUME NEW room \in TableWithRoom(s), tasks' = room, FailWith(s, "INVALID_PROGRAM")
      PROVE  \E j \in 1 .. Len(tasks') : tasks'[j] = tasks[k]
  BY <1>3, <1>4 DEF FailWith
<1>5. ASSUME NEW room \in TableWithRoom(s),
             tasks' = Append(room, [handle |-> nextTask, result |-> result]),
             PushThen(s, HandleVal(nextTask), n)
      PROVE  \E j \in 1 .. Len(tasks') : tasks'[j] = tasks[k]
  <2>1. PICK j \in 1 .. Len(room) : room[j] = tasks[k]
    BY <1>3, <1>5 DEF PushThen
  <2>2. [handle |-> nextTask, result |-> result] \in Task /\ room \in Seq(Task)
    BY <1>1, RoomOK DEF Task
  <2>3. j \in 1 .. Len(tasks') /\ tasks'[j] = room[j]
    BY <1>5, <2>2, Appended
  <2>4. QED BY <2>1, <2>3
<1>6. QED BY <1>2, <1>4, <1>5 DEF PushCompletedTask

LEMMA StepKeepsHeld ==
  ASSUME VmInv, SyncInv, [Next]_vars, status' # "READY", NEW k \in 1 .. Len(tasks),
         Held(tasks[k].handle, stack', locals', localsCount', parValues')
  PROVE  \E j \in 1 .. Len(tasks') : tasks'[j] = tasks[k]
<1> USE DEF VmInv
<1>1. CASE tasks' = tasks
  BY <1>1
<1>2. CASE AsyncCallSys
  <2>1. UNCHANGED <<localVars, parValues>> /\ Inst.a \in Int
    BY <1>2, InstType DEF AsyncCallSys, parVars
  <2>2. CASE UNCHANGED taskVars
    BY <1>1, <2>2 DEF taskVars
  <2>3. CASE SyscallAnswered /\ \E v \in SysResults : PushCompletedTask(Rest(Inst.a + 1), v, ip + 1)
    <3>1. PICK v \in SysResults : PushCompletedTask(Rest(Inst.a + 1), v, ip + 1)
      BY <2>3
    <3>2. Inst.a + 1 \in 0 .. Len(stack)
      BY <2>1, <2>3, Capacities DEF StackOK, SyscallAnswered
    <3>3. Rest(Inst.a + 1) \in Seq(Value) /\ v \in Value
      BY <3>2, RestIsStack, ConstantTypes
    <3>4. QED BY <2>1, <3>1, <3>3, PushKeepsHeld
  <2>4. QED BY <1>2, <2>2, <2>3 DEF AsyncCallSys
<1>3. CASE AsyncReturn
  <2> DEFINE call   == sync[Len(sync)]
             result == IF Len(stack) > call.frameBase THEN Top(0) ELSE VoidVal
             base   == SubSeq(stack, 1, call.frameBase)
  <2>1. UNCHANGED <<localVars, parValues>> /\ call.frameBase \in 0 .. Len(stack)
    BY <1>3, AsyncReturnShape DEF AsyncReturn, parVars
  <2>2. PushCompletedTask(base, result, ip)
    BY <1>3, AsyncReturnShape DEF AsyncReturn
  <2>3. base \in Seq(Value)
    BY <2>1, Prefix DEF StackOK
  <2>4. result \in Value
    <3>1. CASE Len(stack) > call.frameBase
      <4>1. 0 \in 0 .. Len(stack) - 1
        BY <2>1, <3>1 DEF StackOK
      <4>2. QED BY <3>1, <4>1, TopIsValue
    <3>2. CASE ~ (Len(stack) > call.frameBase)
      BY <3>2, ValueTypes
    <3>3. QED BY <3>1, <3>2
  <2> HIDE DEF base, result
  <2>5. QED BY <2>1, <2>2, <2>3, <2>4, PushKeepsHeld
<1>4. CASE \/ Nop \/ Halt \/ Stub \/ Literal \/ Pop \/ Binary \/ Jump \/ JumpIfFalse
           \/ DataOp \/ MakeMany \/ StoreLocal \/ LoadLocal \/ Call \/ Return \/ CallSys
           \/ AsyncCall \/ AsyncAbort \/ Await \/ ParBegin \/ ParFork
           \/ ParJoin \/ Unsupported \/ RunEmpty \/ UNCHANGED vars
  <2>1. tasks' = tasks
    BY <1>4 DEF Nop, Halt, Stub, Literal, Pop, Binary, Jump, JumpIfFalse, DataOp, MakeMany,
       StoreLocal, LoadLocal, Call, Return, CallSys, AsyncCall, AsyncAbort,
       Await, ParBegin, ParFork, ParJoin, Unsupported, RunEmpty, vars,
       OnlyControl, OnlyStack, taskVars
  <2>2. QED BY <1>1, <2>1
<1>5. CASE Reset
  BY <1>5 DEF Reset, ResetState
<1>6. QED BY <1>2, <1>3, <1>4, <1>5 DEF Next, Step

\* Reclaiming never drops a task the program still holds: whatever can be
\* awaited after a step is in the table.
THEOREM HeldTasksAreKept == Spec => HeldTasksSurvive
<1>1. VmInv /\ SyncInv /\ [Next]_vars =>
        [status' # "READY" =>
           \A k \in 1 .. Len(tasks) :
             Held(tasks[k].handle, stack', locals', localsCount', parValues')
               => \E j \in 1 .. Len(tasks') : tasks'[j] = tasks[k]]_vars
  BY StepKeepsHeld
<1>2. QED BY <1>1, Inductive, PTL DEF Spec, HeldTasksSurvive
=============================================================================
