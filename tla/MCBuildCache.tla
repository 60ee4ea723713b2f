----------------------------- MODULE MCBuildCache -----------------------------
(* Sources and constants for model checking BuildCache.                      *)
EXTENDS BuildCache

ProgramFile(part, imports) == [part |-> part, imports |-> imports, bytecode |-> {}]
Inst(op, a) == [op |-> op, a |-> a, s |-> {}, b |-> {}]
Const(kind, data) == [kind |-> kind, data |-> data]

\* A Bytecode source whose two instructions need no constants.
BytecodeFile ==
  [part |-> 0, imports |-> {},
   bytecode |-> {[consts |-> <<>>, insts |-> <<Inst(1, 0), Inst(2, 3)>>]}]

\* One with a syscall target and a zero b, which only publish takes.
LegacyFile ==
  [part |-> 0, imports |-> {},
   bytecode |-> {[consts |-> <<Const(KString, <<4>>)>>,
                  insts |-> <<[op |-> 2, a |-> 1, s |-> {<<4>>}, b |-> {0}]>>]}]

\* The entry imports lib, or is bytecode.
SourceContents(f) ==
  IF f = "main" THEN {ProgramFile(1, {"lib"}), BytecodeFile, LegacyFile}
  ELSE {ProgramFile(1, {}), ProgramFile(2, {})}

\* Programs with constants of every kind, alike in shape.
CompiledProgram(graph) ==
  IF "lib" \notin DOMAIN graph THEN {}
  ELSE {[code   |-> <<[op |-> 1, a |-> 0], [op |-> 2, a |-> graph["lib"].part]>>,
         consts |-> <<Const(KString, <<graph["lib"].part, 4>>), Const(KInt, <<9>>), Const(KNull, <<>>),
                      Const(KBool, <<1>>), Const(KVoid, <<>>), Const(KBytes, <<3>>)>>]}

\* The proofs about every value of the constants assume this of the programs.
ASSUME ProgramsWritable
=============================================================================
