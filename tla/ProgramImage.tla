----------------------------- MODULE ProgramImage -----------------------------
(***************************************************************************)
(* The AiBC1 file format: write_program_as_aibc1 (airun.c) turns a program *)
(* into an image, aivm_program_load_aibc1 (aivm_program.c) reads one back, *)
(* and parse_bytecode_aos_to_program_text makes a program of a Bytecode    *)
(* source.                                                                 *)
(*                                                                         *)
(* An image is a sequence of cells, one per field: a 32-bit word, a 64-bit *)
(* operand, a kind byte, or one byte of a string.  Sizes and offsets count *)
(* cells.  A constant has a kind (the byte that stands for it) and data.   *)
(***************************************************************************)
EXTENDS Integers, Sequences
LOCAL INSTANCE SequencesExt

CONSTANTS
  MaxSections, MaxProgramInstructions, MaxProgramConstants,
  MaxStringBytes, MaxBytesStorage,
  LastOpcode,       \* AIVM_OP_MAKE_MAP
  ConstOpcode,      \* AIVM_OP_CONST
  SyscallOpcodes    \* AIVM_OP_CALL_SYS, AIVM_OP_ASYNC_CALL_SYS

ASSUME ImageAssumption ==
  /\ {MaxSections, MaxProgramInstructions, MaxProgramConstants,
      MaxStringBytes, MaxBytesStorage, LastOpcode} \subseteq Nat
  /\ MaxSections >= 2
  /\ {ConstOpcode} \cup SyscallOpcodes \subseteq 0 .. LastOpcode

Magic == 1000       \* "AIBC"
Version == 2
InstructionSection == 1
ConstantSection == 2
KInt == 1
KBool == 2
KString == 3
KVoid == 4
KBytes == 5
KNull == 6
KNode == 7          \* a value type without a kind byte

-----------------------------------------------------------------------------
(* Writing.                                                                 *)

EncodeConstantWithoutNull(c) ==   \* mutant: null has no branch of its own
  CASE c.kind \in {KInt, KBool}      -> <<c.kind>> \o c.data
    [] c.kind \in {KString, KBytes}  -> <<c.kind, Len(c.data)>> \o c.data
    [] OTHER                         -> <<KVoid>>
EncodeConstant(c) ==
  CASE c.kind \in {KInt, KBool}      -> <<c.kind>> \o c.data
    [] c.kind \in {KString, KBytes}  -> <<c.kind, Len(c.data)>> \o c.data
    [] c.kind = KNull                -> <<KNull>>
    [] OTHER                         -> <<KVoid>>

Section(type, count, payload) == <<type, Len(payload) + 1, count>> \o payload

\* The cells written so far, after each of the parts.
Joined(parts) ==
  LET cells[k \in 0 .. Len(parts)] == IF k = 0 THEN <<>> ELSE cells[k - 1] \o parts[k]
  IN  cells

\* write_program_as_aibc1: the section of constants is left out when there are none.
CodeParts(p) == [k \in 1 .. Len(p.code) |-> <<p.code[k].op, p.code[k].a>>]
ConstantParts(p) == [k \in 1 .. Len(p.consts) |-> EncodeConstant(p.consts[k])]
EncodeSections(p) ==
  LET code   == Joined(CodeParts(p))[Len(p.code)]
      consts == Joined(ConstantParts(p))[Len(p.consts)]
  IN  Section(InstructionSection, Len(p.code), code) \o
      IF p.consts = <<>> THEN <<>> ELSE Section(ConstantSection, Len(p.consts), consts)
Encode(p) ==
  <<Magic, Version, 0, IF p.consts = <<>> THEN 1 ELSE 2>> \o EncodeSections(p)

-----------------------------------------------------------------------------
(* Loading.  The state of the loader: the cursor, the program so far, and   *)
(* which of the two known sections it has met.                              *)

Loading(image) == [status |-> "OK", at |-> 4, image |-> image, code |-> <<>>, consts |-> <<>>,
                   seen |-> {}, strings |-> 0, bytes |-> 0]
Refuse(l, status) == [l EXCEPT !.status = status]
Cell(l, k) == l.image[k + 1]          \* bytes + k, counted from 0

LoadInstructions(l, start, size) ==
  LET count == Cell(l, start)
      code  == [k \in 1 .. count |-> [op |-> Cell(l, start + 2 * k - 1), a |-> Cell(l, start + 2 * k)]]
  IN  IF InstructionSection \in l.seen \/ size < 1 THEN Refuse(l, "INVALID_SECTION")
      ELSE IF count > MaxProgramInstructions THEN Refuse(l, "INSTRUCTION_LIMIT")
      ELSE IF size # 1 + 2 * count THEN Refuse(l, "INVALID_SECTION")
      ELSE IF \E k \in 1 .. count : code[k].op > LastOpcode THEN Refuse(l, "INVALID_OPCODE")
      ELSE [l EXCEPT !.code = code, !.seen = @ \cup {InstructionSection}]

\* The constant of kind k that the n cells from position from on hold.
StoreConstant(l, k, n, from) ==
  [l EXCEPT !.at = from + n,
            !.consts = Append(@, [kind |-> k, data |-> SubSeq(l.image, from + 1, from + n)])]

\* write_string_constant and write_bytes_constant: n more bytes must fit the storage.
StoreString(l, n) ==
  IF l.strings + n + 1 > MaxStringBytes THEN Refuse(l, "STRING_LIMIT")
  ELSE [StoreConstant(l, KString, n, l.at + 1) EXCEPT !.strings = @ + n + 1]
StoreBytes(l, n) ==
  IF l.bytes + n > MaxBytesStorage THEN Refuse(l, "STRING_LIMIT")
  ELSE [StoreConstant(l, KBytes, n, l.at + 1) EXCEPT !.bytes = @ + n]

\* One constant of the kind k; l.at is just behind its kind byte.
LoadConstant(l, k, end) ==
  LET short == k \in {KInt, KBool, KString, KBytes} /\ l.at + 1 > end
      n     == Cell(l, l.at)
      cut   == k \in {KString, KBytes} /\ l.at + 1 + n > end
  IN  IF k \notin {KInt, KBool, KString, KVoid, KBytes, KNull} THEN Refuse(l, "INVALID_CONSTANT")
      ELSE IF short THEN Refuse(l, "INVALID_SECTION")
      ELSE IF cut THEN Refuse(l, "INVALID_SECTION")
      ELSE CASE k = KString         -> StoreString(l, n)
             [] k = KBytes          -> StoreBytes(l, n)
             [] k \in {KInt, KBool} -> StoreConstant(l, k, 1, l.at)
             [] OTHER               -> StoreConstant(l, k, 0, l.at)

NextConstant(l, end) ==
  IF l.status # "OK" THEN l
  ELSE IF l.at >= end THEN Refuse(l, "INVALID_SECTION")
  ELSE LoadConstant([l EXCEPT !.at = @ + 1], Cell(l, l.at), end)

\* The loader after each of count constants.
LoadEach(l, count, end) ==
  LET loaded[k \in 0 .. count] == IF k = 0 THEN l ELSE NextConstant(loaded[k - 1], end)
  IN  loaded

LoadConstants(l, start, size) ==
  LET count == Cell(l, start)
      end   == start + size
      first == [l EXCEPT !.at = start + 1, !.seen = @ \cup {ConstantSection}]
      all   == LoadEach(first, count, end)[count]
  IN  IF ConstantSection \in l.seen \/ size < 1 THEN Refuse(l, "INVALID_SECTION")
      ELSE IF count > MaxProgramConstants THEN Refuse(l, "CONSTANT_LIMIT")
      ELSE IF all.status = "OK" /\ all.at # end THEN Refuse(all, "INVALID_SECTION")
      ELSE all

\* Header and payload of a section lie within the file.
HeaderFits(l) == l.at + 2 <= Len(l.image)
PayloadFits(l) == l.at + 2 + Cell(l, l.at + 1) <= Len(l.image)

LoadSectionLenient(l) ==   \* mutant: takes the end of the file for the last section
  LET type == Cell(l, l.at)
      size == Cell(l, l.at + 1)
      body == [l EXCEPT !.at = @ + 2]
      read == IF type = InstructionSection THEN LoadInstructions(body, body.at, size)
              ELSE IF type = ConstantSection THEN LoadConstants(body, body.at, size)
              ELSE body
  IN  IF l.status # "OK" \/ ~ HeaderFits(l) THEN l
      ELSE IF ~ PayloadFits(l) THEN Refuse(l, "SECTION_OOB")
      ELSE [read EXCEPT !.at = body.at + size]
LoadSection(l) ==
  LET type == Cell(l, l.at)
      size == Cell(l, l.at + 1)
      body == [l EXCEPT !.at = @ + 2]
      read == IF type = InstructionSection THEN LoadInstructions(body, body.at, size)
              ELSE IF type = ConstantSection THEN LoadConstants(body, body.at, size)
              ELSE body
  IN  IF l.status # "OK" THEN l
      ELSE IF ~ HeaderFits(l) THEN Refuse(l, "TRUNCATED")
      ELSE IF ~ PayloadFits(l) THEN Refuse(l, "SECTION_OOB")
      ELSE [read EXCEPT !.at = body.at + size]

\* The loader after each of count sections.
LoadSections(l, count) ==
  LET loaded[k \in 0 .. count] == IF k = 0 THEN l ELSE LoadSection(loaded[k - 1])
  IN  loaded

\* aivm_program_load_aibc1
Load(image) ==
  LET l == Loading(image)
  IN  IF Len(image) < 4 THEN Refuse(l, "TRUNCATED")
      ELSE IF Cell(l, 0) # Magic THEN Refuse(l, "BAD_MAGIC")
      ELSE IF Cell(l, 1) # Version THEN Refuse(l, "UNSUPPORTED")
      ELSE IF Cell(l, 3) > MaxSections THEN Refuse(l, "SECTION_LIMIT")
      ELSE LoadSections(l, Cell(l, 3))[Cell(l, 3)]

Loads(image) == Load(image).status = "OK"
ProgramIn(image) == [code |-> Load(image).code, consts |-> Load(image).consts]

-----------------------------------------------------------------------------
(* A Bytecode source has constants and instructions.  An instruction names  *)
(* the opcode it is written with (over LastOpcode: an unknown one) and an   *)
(* operand a; it may carry a syscall target s and a second operand b, which *)
(* are sets of at most one value.                                           *)

\* What the constants of one kind take in their storage, after each constant.
Storage(consts, kind, extra) ==
  LET total[k \in 0 .. Len(consts)] ==
        IF k = 0 THEN 0
        ELSE total[k - 1] + (IF consts[k].kind = kind THEN Len(consts[k].data) + extra ELSE 0)
  IN  total
StringBytes(consts) == Storage(consts, KString, 1)[Len(consts)]
BytesStorage(consts) == Storage(consts, KBytes, 0)[Len(consts)]

\* A node constant becomes the handle of its position.
ParseConstants(consts) ==
  [k \in 1 .. Len(consts) |->
     IF consts[k].kind = KNode THEN [kind |-> KNode, data |-> <<k>>] ELSE consts[k]]

KnownOpcode(inst) == inst.op <= LastOpcode      \* opcode_from_text

NoProgram == [ok |-> FALSE, code |-> <<>>, consts |-> <<>>]

\* bytecode_add_string_const, and the CONST that pushes the string.
AddStringConst(p, text) ==
  LET c      == [kind |-> KString, data |-> text]
      found  == {k \in 1 .. Len(p.consts) : p.consts[k] = c}
      consts == IF found # {} THEN p.consts ELSE Append(p.consts, c)
      index  == CHOOSE k \in 1 .. Len(consts) : consts[k] = c /\ \A m \in 1 .. k - 1 : consts[m] # c
  IN  IF Len(consts) > MaxProgramConstants \/ StringBytes(consts) > MaxStringBytes THEN NoProgram
      ELSE [p EXCEPT !.consts = consts, !.code = Append(@, [op |-> ConstOpcode, a |-> index - 1])]

\* One instruction.  Only publish takes the fields s and b.
ParseInst(p, inst, legacy) ==
  LET target == IF inst.s = {} THEN p ELSE AddStringConst(p, CHOOSE s \in inst.s : TRUE)
  IN  IF \/ ~ p.ok \/ Len(p.code) >= MaxProgramInstructions \/ ~ KnownOpcode(inst)
         \/ inst.s # {} /\ (~ legacy \/ inst.op \notin SyscallOpcodes)
         \/ inst.b # {} /\ (~ legacy \/ inst.b # {0})
      THEN NoProgram
      ELSE IF ~ target.ok THEN NoProgram
      ELSE [target EXCEPT !.code = Append(@, [op |-> inst.op, a |-> inst.a])]

\* parse_bytecode_aos_to_program_text: the set of the program, or no program.
ParseBytecode(text, legacy) ==
  LET p == FoldLeft(LAMBDA q, inst : ParseInst(q, inst, legacy),
                    [ok |-> TRUE, code |-> <<>>, consts |-> ParseConstants(text.consts)], text.insts)
  IN  IF \/ Len(text.consts) > MaxProgramConstants
         \/ \E k \in 1 .. Len(text.consts) : text.consts[k].kind = KBytes
         \/ StringBytes(text.consts) > MaxStringBytes
         \/ text.insts = <<>>
      THEN {}
      ELSE IF p.ok THEN {[code |-> p.code, consts |-> p.consts]} ELSE {}
=============================================================================
