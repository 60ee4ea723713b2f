---------------------------- MODULE SimpleCompiler ----------------------------
(***************************************************************************)
(* The native compiler of airun.c ("simple"): it collects the functions of *)
(* a program and of the files it imports, compiles the entry function,     *)
(* then compiles further functions on demand while it resolves the calls   *)
(* that were emitted before their target had an address.                   *)
(*                                                                         *)
(* A source is a tree of nodes, not text: names are strings, literals are  *)
(* values.  A node the text parser cannot read (simple_parse_next_node     *)
(* fails, for one with more than 511 bytes of attributes) has the kind     *)
(* "Malformed"; as in the code it silently ends the list it stands in,     *)
(* except the list of a file, whose collection fails.                      *)
(* A compile context is a record; ok = FALSE stands for every return 0.    *)
(***************************************************************************)
EXTENDS Integers, Sequences, FiniteSets
LOCAL INSTANCE SequencesExt

CONSTANTS
  MaxSources,       \* SIMPLE_MAX_SOURCES
  MaxFuncs,         \* SIMPLE_MAX_FUNCS
  MaxFixups,        \* SIMPLE_MAX_FIXUPS
  MaxLocals,        \* the smaller of SIMPLE_MAX_LOCALS and AIVM_VM_LOCALS_CAPACITY
  MaxLoopDepth, MaxLoopFixups,
  MaxArgs,          \* arguments of one call
  MaxInstructions, MaxConstants,
  MaxActivations    \* nested simple_collect_from_file calls the C stack holds

ASSUME CompilerAssumption ==
  {MaxSources, MaxFuncs, MaxFixups, MaxLocals, MaxLoopDepth, MaxLoopFixups,
   MaxArgs, MaxInstructions, MaxConstants, MaxActivations} \subseteq Nat

-----------------------------------------------------------------------------
(* Nodes and contexts.                                                      *)

\* val is a literal's type and datum; it only matters in a Lit.
NodeOf(kind, name, val, body) == [kind |-> kind, name |-> name, val |-> val, body |-> body]

\* The nodes simple_parse_next_node finds one after another.
Children(node) ==
  LET bad == {k \in 1 .. Len(node.body) : node.body[k].kind = "Malformed"}
  IN  IF bad = {} THEN node.body
      ELSE SubSeq(node.body, 1, (CHOOSE k \in bad : \A j \in bad : k <= j) - 1)

EmptyContext ==
  [ok     |-> TRUE,
   code   |-> <<>>,      \* program->instruction_storage
   consts |-> <<>>,      \* program->constant_storage
   fixups |-> <<>>,      \* ctx->fixups
   loops  |-> <<>>,      \* ctx->loop_frames
   locals |-> <<>>,      \* names of the visible locals; the slot is the position
   entry  |-> <<>>,      \* compiled functions, in order, with their entry_ip
   ret    |-> FALSE]     \* *out_did_return of the last statement

Reject(c) == [c EXCEPT !.ok = FALSE]

EmitInstruction(c, op, a) ==
  IF ~ c.ok \/ Len(c.code) >= MaxInstructions THEN Reject(c)
  ELSE [c EXCEPT !.code = Append(@, [op |-> op, a |-> a])]

\* program->instruction_storage[at].operand_int = target
Patch(c, at, target) ==
  IF ~ c.ok THEN c ELSE [c EXCEPT !.code[at + 1].a = target]

\* A new constant, named by the CONST that is emitted with it.
EmitNewConst(c, v) ==
  IF ~ c.ok \/ Len(c.consts) >= MaxConstants THEN Reject(c)
  ELSE EmitInstruction([c EXCEPT !.consts = Append(@, v)], "CONST", Len(c.consts))

EmitStringConst(c, v) ==
  LET same == {k \in 1 .. Len(c.consts) : c.consts[k] = v}
  IN  IF same = {} THEN EmitNewConst(c, v)
      ELSE EmitInstruction(c, "CONST", (CHOOSE k \in same : \A j \in same : k <= j) - 1)

EmptyString == [type |-> "string", val |-> 0, handle |-> FALSE]
EmitEmptyStringConst(c) == EmitStringConst(c, EmptyString)

\* The slots of a name that is in scope.
LocalsLookup(c, name) == {k - 1 : k \in {i \in 1 .. Len(c.locals) : c.locals[i] = name}}

LocalsCreate(c, name) ==
  IF LocalsLookup(c, name) # {} THEN c
  ELSE IF Len(c.locals) >= MaxLocals THEN Reject(c)
  ELSE [c EXCEPT !.locals = Append(@, name)]

SlotOf(c, name) == CHOOSE k \in LocalsLookup(c, name) : TRUE

\* simple_find_func
FindFunc(funcs, name) == {k \in 1 .. Len(funcs) : funcs[k].name = name}
EntryOf(c, name) == {c.entry[k].ip : k \in FindFunc(c.entry, name)}

-----------------------------------------------------------------------------
(* Expressions and statements.  funcs is the table of collected functions.  *)

\* Opcode of the operators that compile their operands from left to right.
OperatorOpcode ==
  [ToString |-> "TO_STRING", AttrCount |-> "ATTR_COUNT", ChildCount |-> "CHILD_COUNT",
   NodeKind |-> "NODE_KIND", NodeId |-> "NODE_ID", MakeBlock |-> "MAKE_BLOCK",
   Add |-> "ADD_INT", Eq |-> "EQ", AttrKey |-> "ATTR_KEY", ChildAt |-> "CHILD_AT",
   AttrValueString |-> "ATTR_VALUE_STRING", AttrValueInt |-> "ATTR_VALUE_INT",
   AttrValueBool |-> "ATTR_VALUE_BOOL", AttrValueKind |-> "ATTR_VALUE_KIND",
   AppendChild |-> "APPEND_CHILD", MakeLitString |-> "MAKE_LIT_STRING",
   MakeLitInt |-> "MAKE_LIT_INT", MakeLitBool |-> "MAKE_LIT_BOOL",
   MakeFieldString |-> "MAKE_FIELD_STRING", MakeErr |-> "MAKE_ERR"]
OperatorArity(kind) ==
  CASE kind \in {"ToString", "AttrCount", "ChildCount", "NodeKind", "NodeId", "MakeBlock"} -> 1
    [] kind = "MakeErr" -> 4
    [] OTHER            -> 2

\* Kinds that leave no value when they stand last in an expression Block.
ValuelessKinds == {"Let", "Return", "Break", "Continue", "Loop"}

RECURSIVE CompileExpr(_, _, _), CompileStmt(_, _, _), CompileBlock(_, _, _)

CompileExprs(c, nodes, funcs) ==
  FoldLeft(LAMBDA d, n : IF d.ok THEN CompileExpr(d, n, funcs) ELSE d, c, nodes)

\* Statements up to the first that surely returns.
CompileStmts(c, nodes, funcs) ==
  FoldLeft(LAMBDA d, n : IF d.ok /\ ~ d.ret THEN CompileStmt(d, n, funcs) ELSE d,
           [c EXCEPT !.ret = FALSE], nodes)

CompileVar(c, node) ==
  IF LocalsLookup(c, node.name) = {} THEN Reject(c)
  ELSE EmitInstruction(c, "LOAD_LOCAL", SlotOf(c, node.name))

CompileLit(c, node) ==
  CASE node.val.type = "int"  -> EmitInstruction(c, "PUSH_INT", node.val.val)
    [] node.val.type = "bool" -> EmitInstruction(c, "PUSH_BOOL", node.val.val)
    [] node.val.type = "null" -> EmitNewConst(c, node.val)
    [] OTHER                  -> EmitStringConst(c, node.val)

\* A syscall pushes its target below its arguments.
CompileSysCall(c, node, funcs) ==
  LET args == Children(node)
      d    == CompileExprs(EmitStringConst(c, node.val), args, funcs)
  IN  IF Len(args) > MaxArgs THEN Reject(c) ELSE EmitInstruction(d, "CALL_SYS", Len(args))

\* A call of a function not compiled so far is left to the fixups.
CompileFnCall(c, node, funcs) ==
  LET args == Children(node)
      d    == CompileExprs(c, args, funcs)
      call(ip) == EmitInstruction(d, "CALL", ip)
  IN  IF \/ Len(args) > MaxArgs
         \/ \A k \in FindFunc(funcs, node.name) : Len(funcs[k].params) # Len(args)
      THEN Reject(c)
      ELSE IF ~ d.ok THEN d
      ELSE IF EntryOf(d, node.name) # {} THEN call(CHOOSE ip \in EntryOf(d, node.name) : TRUE)
      ELSE IF Len(d.fixups) >= MaxFixups THEN Reject(d)
      ELSE [call(0) EXCEPT !.fixups = Append(@, [at |-> Len(d.code), target |-> node.name])]

CompileCall(c, node, funcs) ==
  IF node.kind = "SysCall" THEN CompileSysCall(c, node, funcs) ELSE CompileFnCall(c, node, funcs)

\* A branch of an If statement: a Block, or an expression whose value is dropped.
CompileBody(c, node, funcs) ==
  IF node.kind = "Block" THEN CompileBlock(c, node, funcs)
  ELSE [EmitInstruction(CompileExpr(c, node, funcs), "POP", 0) EXCEPT !.ret = FALSE]

\* Condition, jump over, first branch, jump to the end, second branch.
CompileIf(c, node, funcs, isStmt) ==
  LET n            == Children(node)
      branch(d, b) == IF isStmt THEN CompileBody(d, b, funcs) ELSE CompileExpr(d, b, funcs)
      cond         == EmitInstruction(CompileExpr(c, n[1], funcs), "JUMP_IF_FALSE", 0)
      yes          == branch(cond, n[2])
      over         == Patch(EmitInstruction(yes, "JUMP", 0), Len(cond.code) - 1, Len(yes.code) + 1)
      no           == branch(over, n[3])
  IN  IF Len(n) < 3 THEN Reject(c)
      ELSE [Patch(no, Len(over.code) - 1, Len(no.code)) EXCEPT !.ret = yes.ret /\ no.ret]

\* A Block in expression position: no scope of its own, its last node is its value.
CompileBlockExpr(c, node, funcs) ==
  LET n    == Children(node)
      d    == CompileStmts(c, Front(n), funcs)
      last == CompileStmt(d, Last(n), funcs)
  IN  IF n = <<>> THEN EmitEmptyStringConst(c)
      ELSE IF ~ d.ok \/ d.ret THEN d
      ELSE IF Last(n).kind \notin ValuelessKinds THEN CompileExpr(d, Last(n), funcs)
      ELSE IF last.ret THEN last
      ELSE EmitEmptyStringConst(last)

CompileConcat(c, node, funcs) ==
  LET n == Children(node)
  IN  IF n = <<>> THEN Reject(c)
      ELSE FoldLeft(LAMBDA d, x : EmitInstruction(CompileExpr(d, x, funcs), "STR_CONCAT", 0),
                    CompileExpr(c, n[1], funcs), Tail(n))

\* A Field pushes its key, then its value.
CompileField(c, node, funcs) ==
  IF Children(node) = <<>> THEN Reject(c)
  ELSE EmitInstruction(CompileExpr(EmitStringConst(c, node.val), Children(node)[1], funcs),
                       "MAKE_FIELD_STRING", 0)

CompileMap(c, node, funcs) ==
  LET n == Children(node)
  IN  IF \E k \in 1 .. Len(n) : n[k].kind # "Field" THEN Reject(c)
      ELSE EmitInstruction(EmitInstruction(CompileExprs(c, n, funcs), "PUSH_INT", Len(n)),
                           "MAKE_MAP", 0)

CompileOperator(c, node, funcs) ==
  LET n == Children(node)
      k == OperatorArity(node.kind)
  IN  IF Len(n) < k THEN Reject(c)
      ELSE EmitInstruction(CompileExprs(c, SubSeq(n, 1, k), funcs), OperatorOpcode[node.kind], 0)

CompileExpr(c, node, funcs) ==
  CASE ~ c.ok                                 -> c
    [] node.kind \in {"Call", "SysCall"}      -> CompileCall(c, node, funcs)
    [] node.kind = "Var"                      -> CompileVar(c, node)
    [] node.kind = "Lit"                      -> CompileLit(c, node)
    [] node.kind = "StrConcat"                -> CompileConcat(c, node, funcs)
    [] node.kind = "Field"                    -> CompileField(c, node, funcs)
    [] node.kind = "Map"                      -> CompileMap(c, node, funcs)
    [] node.kind \in DOMAIN OperatorOpcode    -> CompileOperator(c, node, funcs)
    [] node.kind = "If"                       -> CompileIf(c, node, funcs, FALSE)
    [] node.kind = "Block"                    -> CompileBlockExpr(c, node, funcs)
    [] OTHER                                  -> Reject(c)

\* The slot is taken before the expression is compiled, so the expression may
\* already name it.
CompileLet(c, node, funcs) ==
  LET d == LocalsCreate(c, node.name)
      e == CompileExpr(d, Children(node)[1], funcs)
  IN  IF ~ d.ok \/ Children(node) = <<>> THEN Reject(c)
      ELSE EmitInstruction(e, "STORE_LOCAL", SlotOf(d, node.name))

\* Break and Continue: a jump the innermost loop will patch.
CompileExit(c, kind) ==
  LET depth == Len(c.loops)
      field == IF kind = "Break" THEN "breaks" ELSE "continues"
  IN  IF depth = 0 THEN Reject(c)
      ELSE IF Len(c.loops[depth][field]) >= MaxLoopFixups THEN Reject(c)
      ELSE EmitInstruction([c EXCEPT !.loops[depth][field] = Append(@, Len(c.code))], "JUMP", 0)

PatchAll(c, sites, target) == FoldLeft(LAMBDA d, at : Patch(d, at, target), c, sites)

CompileLoopBreakToJump(c, node, funcs) ==   \* mutant: breaks land on the jump back
  LET start == Len(c.code)
      frame == [breaks |-> <<>>, continues |-> <<>>]
      body  == CompileBody([c EXCEPT !.loops = Append(@, frame)], Children(node)[1], funcs)
      back  == EmitInstruction(body, "JUMP", start)
      sites == body.loops[Len(c.loops) + 1]
  IN  IF Children(node) = <<>> \/ Len(c.loops) >= MaxLoopDepth THEN Reject(c)
      ELSE IF ~ back.ok THEN back
      ELSE [PatchAll(PatchAll(back, sites.breaks, Len(back.code) - 1), sites.continues, start)
              EXCEPT !.loops = c.loops]
CompileLoop(c, node, funcs) ==
  LET start == Len(c.code)
      frame == [breaks |-> <<>>, continues |-> <<>>]
      body  == CompileBody([c EXCEPT !.loops = Append(@, frame)], Children(node)[1], funcs)
      back  == EmitInstruction(body, "JUMP", start)
      sites == body.loops[Len(c.loops) + 1]
  IN  IF Children(node) = <<>> \/ Len(c.loops) >= MaxLoopDepth THEN Reject(c)
      ELSE IF ~ back.ok THEN back
      ELSE [PatchAll(PatchAll(back, sites.breaks, Len(back.code)), sites.continues, start)
              EXCEPT !.loops = c.loops]

CompileReturn(c, node, funcs) ==
  IF Children(node) = <<>> THEN Reject(c)
  ELSE [EmitInstruction(CompileExpr(c, Children(node)[1], funcs), "RETURN", 0) EXCEPT !.ret = TRUE]

CompileStmt(c, node, funcs) ==
  LET done(d) == [d EXCEPT !.ret = FALSE]
  IN  CASE ~ c.ok                               -> c
        [] node.kind = "Let"                    -> done(CompileLet(c, node, funcs))
        [] node.kind \in {"Break", "Continue"}  -> done(CompileExit(c, node.kind))
        [] node.kind = "Return"                 -> CompileReturn(c, node, funcs)
        [] node.kind = "If"                     -> CompileIf(c, node, funcs, TRUE)
        [] node.kind = "Loop"                   -> done(CompileLoop(c, node, funcs))
        [] node.kind = "Block"                  -> CompileBlock(c, node, funcs)
        [] OTHER -> done(EmitInstruction(CompileExpr(c, node, funcs), "POP", 0))

\* A Block in statement position: its locals go out of scope with it.
CompileBlock(c, node, funcs) ==
  [CompileStmts(c, Children(node), funcs) EXCEPT !.locals = SubSeq(@, 1, Len(c.locals))]


\* simple_compile_fn_by_index: the parameters are stored from the last to the
\* first; a body that may end without a Return gets one, with no value.
CompileFn(c, fn, funcs) ==
  LET params == FoldLeft(LocalsCreate, [c EXCEPT !.locals = <<>>], fn.params)
      stored == FoldRight(LAMBDA p, d : EmitInstruction(d, "STORE_LOCAL", SlotOf(params, p)),
                          fn.params, params)
      body   == CompileBlock(stored, fn.body, funcs)
      whole  == IF body.ret THEN body ELSE EmitInstruction(body, "RETURN", 0)
  IN  IF ~ params.ok \/ fn.body.kind # "Block" THEN Reject(c)
      ELSE [whole EXCEPT !.entry = Append(@, [name |-> fn.name, ip |-> Len(c.code)])]

-----------------------------------------------------------------------------
(* Collecting the files, then compiling from the entry on.  A source has    *)
(* the path of its main file and the nodes each path holds.                 *)

RECURSIVE CollectFile(_, _, _, _)

\* A Let of a Fn: the first function of a name stays.
AddFunc(d, fn) ==
  IF Len(d.funcs) >= MaxFuncs THEN Reject(d)
  ELSE IF FindFunc(d.funcs, fn.name) # {} THEN d
  ELSE [d EXCEPT !.funcs = Append(@, fn)]

\* One node of a file; only the main file's first Export names the entry.
CollectItem(d, item, source, depth) ==
  CASE ~ d.ok                -> d
    [] item.kind = "Import"  -> CollectFile(d, item.name, source, depth + 1)
    [] item.kind = "Export"  -> IF depth = 1 /\ d.entryExport = ""
                                THEN [d EXCEPT !.entryExport = item.name] ELSE d
    [] item.kind = "Fn"      -> AddFunc(d, item)
    [] item.kind = "Malformed" -> Reject(d)
    [] OTHER                 -> d

\* simple_collect_from_file: a file imported twice is collected twice, and one
\* that imports itself is collected until the C stack is used up.
CollectFile(d, path, source, depth) ==
  LET entered == [d EXCEPT !.sources = @ \cup {path}]
  IN  IF depth > MaxActivations THEN [Reject(d) EXCEPT !.crashed = TRUE]
      ELSE IF path \notin DOMAIN source.files \/ Cardinality(entered.sources) > MaxSources
      THEN Reject(d)
      ELSE FoldLeft(LAMBDA e, item : CollectItem(e, item, source, depth), entered, source.files[path])

Collect(source) ==
  CollectFile([ok |-> TRUE, crashed |-> FALSE, funcs |-> <<>>, sources |-> {}, entryExport |-> ""],
              source.main, source, 1)

\* "start" when the main file exports nothing.
EntryName(collected) == IF collected.entryExport = "" THEN "start" ELSE collected.entryExport

\* The code before the entry function: fetch the arguments if it has
\* parameters, call it, halt.
ArgsTarget == [type |-> "string", val |-> 1, handle |-> FALSE]   \* "sys.process.args"
CompileEntry(fn, funcs) ==
  LET args == IF fn.params = <<>> THEN EmptyContext
              ELSE EmitInstruction(EmitStringConst(EmptyContext, ArgsTarget), "CALL_SYS", 0)
      halt == EmitInstruction(EmitInstruction(args, "CALL", 0), "HALT", 0)
  IN  Patch(CompileFn(halt, fn, funcs), Len(args.code), Len(halt.code))

\* The loop over ctx->fixups from the i-th on.  Compiling a target may add
\* further fixups behind it.
RECURSIVE ResolveFixups(_, _, _)
ResolveFixups(c, i, funcs) ==
  IF ~ c.ok \/ i > Len(c.fixups) THEN c
  ELSE LET fixup == c.fixups[i]
           fn    == funcs[CHOOSE k \in FindFunc(funcs, fixup.target) : TRUE]
           d     == IF EntryOf(c, fixup.target) = {} THEN CompileFn(c, fn, funcs) ELSE c
           ip    == CHOOSE x \in EntryOf(d, fixup.target) : TRUE
       IN  ResolveFixups(Patch(d, fixup.at, ip), i + 1, funcs)

\* parse_simple_program_graph_to_program_file
CompileSource(source) ==
  LET collected == Collect(source)
      found     == FindFunc(collected.funcs, EntryName(collected))
      linked    == ResolveFixups(CompileEntry(collected.funcs[CHOOSE k \in found : TRUE], collected.funcs),
                                 1, collected.funcs)
      result(verdict, c) == [verdict |-> verdict, code |-> c.code, consts |-> c.consts]
  IN  IF collected.crashed THEN result("crashed", EmptyContext)
      ELSE IF ~ collected.ok \/ found = {} THEN result("rejected", EmptyContext)
      ELSE IF ~ linked.ok THEN result("rejected", EmptyContext)
      ELSE result("compiled", linked)
=============================================================================
