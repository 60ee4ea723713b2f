------------------------------- MODULE MCAivmVm -------------------------------
(* Programs and constants for model checking AivmVm.                         *)
EXTENDS AivmVm

I(op, a) == [op |-> op, a |-> a]

Pool    == <<StrVal(7)>>
NoPool  == <<>>
Answers == {IntVal(1)}
Unset   == {VoidVal}
MinInt  == -1

\* Every program of Size instructions over an instruction set.
AllPrograms(set, size) == [1 .. size -> set]

\* Calls, locals and asynchronous calls around a pushed operand; instructions 3
\* and 5 are the call targets, so that an ASYNC_CALL can run inside another.
CallSet ==
  {I("PUSH_INT", 1), I("POP", 0), I("STORE_LOCAL", 0), I("STORE_LOCAL", 1),
   I("LOAD_LOCAL", 0), I("CALL", 3), I("ASYNC_CALL", 3), I("ASYNC_CALL", 5), I("RET", 0)}
CallPrograms == {<<I("PUSH_INT", 1)>> \o p : p \in AllPrograms(CallSet, 5)}

\* A loop that starts one task per turn and does four things with handles.
TaskSet ==
  {I("STORE_LOCAL", 0), I("STORE_LOCAL", 1), I("LOAD_LOCAL", 0), I("AWAIT", 0), I("POP", 0),
   I("PAR_BEGIN", 1), I("PAR_BEGIN", 0), I("PAR_FORK", 0), I("PAR_JOIN", 0), I("PAR_JOIN", 1), I("PUSH_INT", 1)}
TaskPrograms ==
  {<<I("CONST", 0), I("ASYNC_CALL_SYS", 0)>> \o p \o <<I("JUMP", 0)>> : p \in AllPrograms(TaskSet, 4)}

\* The remaining opcodes, and operands out of range, over a small stack.
AluSet ==
  {I("CONST", 0), I("CONST", 1), I("PUSH_INT", 4), I("PUSH_BOOL", 0), I("ADD_INT", 0),
   I("EQ_INT", 0), I("EQ", 0), I("JUMP_IF_FALSE", 0), I("JUMP_IF_FALSE", 9),
   I("JUMP_IF_FALSE", -1), I("JUMP", -1), I("JUMP", 2), I("NOP", 0), I("PAR_CANCEL", 0),
   I("HALT", 0), I("STUB", 0), I("UNKNOWN", 0), I("TO_STRING", 0), I("STR_CONCAT", 0), I("CHILD_COUNT", 0),
   I("MAKE_BLOCK", 0), I("MAKE_MAP", 0), I("MAKE_NODE", 0), I("ATTR_VALUE_BOOL", 0),
   I("CALL_SYS", 0), I("CALL_SYS", 1), I("CALL_SYS", 9), I("CALL_SYS", -1),
   I("ASYNC_CALL_SYS", 0), I("ASYNC_CALL_SYS", -1), I("STORE_LOCAL", -1),
   I("LOAD_LOCAL", -1), I("STORE_LOCAL", 9), I("CALL", 0), I("ASYNC_CALL", 9),
   I("PAR_JOIN", 1), I("RET", 0)}
AluPrograms == {<<>>} \cup AllPrograms(AluSet, 3)

CheckedPrograms == CallPrograms \cup TaskPrograms \cup AluPrograms

\* An async function that returns the task of another, with the table full.
NestedTask ==
  {<<I("CONST", 0), I("ASYNC_CALL_SYS", 0), I("ASYNC_CALL", 6), I("AWAIT", 0), I("AWAIT", 0),
     I("HALT", 0), I("ASYNC_CALL", 8), I("RET", 0), I("PUSH_INT", 3), I("RET", 0)>>}

\* A Par of two int literals after one task was started.
ParOfInts ==
  {<<I("CONST", 0), I("ASYNC_CALL_SYS", 0), I("STORE_LOCAL", 0), I("PAR_BEGIN", 2),
     I("PUSH_INT", 1), I("PAR_FORK", 0), I("PUSH_INT", 2), I("PAR_FORK", 0),
     I("PAR_JOIN", 2), I("HALT", 0)>>}
Answer2 == {IntVal(2)}
Answer3 == {IntVal(3)}

\* A function whose first store is to its second local.
SkippedLocal ==
  {<<I("PUSH_INT", 1), I("CALL", 3), I("HALT", 0),
     I("STORE_LOCAL", 1), I("LOAD_LOCAL", 0), I("RET", 0)>>}
=============================================================================
