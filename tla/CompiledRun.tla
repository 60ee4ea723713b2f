----------------------------- MODULE CompiledRun ------------------------------
(***************************************************************************)
(* The compiler and the interpreter together: a source is compiled by      *)
(* SimpleCompiler and the code it yields runs on AivmVm.  What the program *)
(* does to the world, its syscalls in order, is compared with a reference  *)
(* evaluator that follows SPEC/EVAL.md on the source tree and knows        *)
(* nothing of stacks, slots or jumps.  Where the two are known to part (the*)
(* value of a node that has none, an If without an else branch) the        *)
(* reference follows the document; which sources are compared is said in   *)
(* MCCompiledRun.                                                          *)
(***************************************************************************)
EXTENDS SimpleCompiler, AivmVm
LOCAL INSTANCE SequencesExt

CONSTANTS
  Builds,      \* BuildsOf the programs that may be compiled
  SysAnswer,   \* what every syscall answers
  Fuel         \* bound: calls and loop turns the reference follows

VARIABLES
  build,       \* the image made of the source, and what is expected of it
  phase,       \* "source", then "loaded", "rejected" or "crashed"
  trace        \* ghost: the syscalls answered so far, with arguments

runVars == <<build, phase, vars, trace>>

-----------------------------------------------------------------------------
(* Reference evaluation.  The state e has the environment of the activation *)
(* (name and value pairs), what happened so far, and a mode that is "next"  *)
(* while evaluation goes on.                                                *)

RECURSIVE Ev(_, _), EvSeq(_, _), EvLoop(_, _)

Bound(env, name) == {b \in env : b.name = name}
Bind(env, name, v) == (env \ Bound(env, name)) \cup {[name |-> name, val |-> v]}

With(e, v)     == [e EXCEPT !.val = v]
Leave(e, mode) == [e EXCEPT !.mode = mode]

\* Values of the argument expressions, left to right, collected in args.
EvArgs(nodes, e) ==
  FoldLeft(LAMBDA d, n :
             LET r == Ev(n, [d EXCEPT !.args = <<>>])
             IN  IF d.mode # "next" THEN d ELSE [r EXCEPT !.args = Append(d.args, r.val)],
           [e EXCEPT !.args = <<>>], nodes)

\* The function a name means in a file: its own, else one that an import exports.
RECURSIVE Meaning(_, _, _)
Meaning(src, file, name) ==
  LET items   == {src.files[file][k] : k \in 1 .. Len(src.files[file])}
      own     == {[fn |-> x, file |-> file] : x \in {i \in items : i.kind = "Fn" /\ i.name = name}}
      exports(p) == /\ p \in DOMAIN src.files
                    /\ \E k \in 1 .. Len(src.files[p]) :
                         src.files[p][k].kind = "Export" /\ src.files[p][k].name = name
  IN  IF own # {} THEN own
      ELSE UNION {Meaning(src, i.name, name) : i \in {x \in items : x.kind = "Import" /\ exports(x.name)}}

EvCall(node, e) ==
  LET a == EvArgs(Children(node), e)
  IN  IF a.mode # "next" THEN a
      ELSE IF e.fuel = 0 THEN Leave(a, "unknown")
      ELSE IF Meaning(e.src, e.file, node.name) = {} THEN Leave(a, "error")
      ELSE LET f == CHOOSE m \in Meaning(e.src, e.file, node.name) : TRUE
           IN  IF Len(a.args) # Len(f.fn.params) THEN Leave(a, "error") ELSE
           LET r == Ev(f.fn.body,
                       [a EXCEPT !.env  = {[name |-> f.fn.params[k], val |-> a.args[k]] :
                                             k \in 1 .. Len(f.fn.params)},
                                 !.file = f.file, !.fuel = @ - 1])
           IN  [r EXCEPT !.mode = IF r.mode = "return" THEN "next" ELSE @,
                         !.env = a.env, !.file = e.file]

EvSys(node, e) ==
  LET a == EvArgs(Children(node), e)
  IN  IF a.mode # "next" THEN a
      ELSE [a EXCEPT !.trace = Append(@, [target |-> node.val.val, args |-> a.args]),
                     !.val = SysAnswer]

EvBinary(node, e) ==
  LET a == EvArgs(SubSeq(Children(node), 1, 2), e)
  IN  IF a.mode # "next" THEN a
      ELSE IF node.kind = "Eq" THEN With(a, BoolVal(ValueEquals(a.args[1], a.args[2])))
      ELSE IF a.args[1].type = "int" /\ a.args[2].type = "int"
      THEN With(a, IntVal(Wrap(a.args[1].val + a.args[2].val)))
      ELSE Leave(a, "error")

EvIf(node, e) ==
  LET c == Ev(Children(node)[1], e)
  IN  IF c.mode # "next" THEN c
      ELSE IF c.val.type # "bool" THEN Leave(c, "error")
      ELSE IF c.val.val = 1 THEN Ev(Children(node)[2], c)
      ELSE IF Len(Children(node)) < 3 THEN With(c, VoidVal)
      ELSE Ev(Children(node)[3], c)

EvSeq(nodes, e) == FoldLeft(LAMBDA d, n : Ev(n, d), With(e, VoidVal), nodes)

EvLoop(node, e) ==
  LET b == Ev(Children(node)[1], e)
  IN  IF e.fuel = 0 THEN Leave(e, "unknown")
      ELSE IF b.mode \in {"next", "continue"}
      THEN EvLoop(node, [b EXCEPT !.mode = "next", !.fuel = @ - 1])
      ELSE IF b.mode = "break" THEN [b EXCEPT !.mode = "next", !.val = VoidVal]
      ELSE b

Ev(node, e) ==
  CASE e.mode # "next"                  -> e
    [] node.kind = "Lit"                -> With(e, node.val)
    [] node.kind = "Var"                -> IF Bound(e.env, node.name) = {} THEN Leave(e, "error")
                                           ELSE With(e, (CHOOSE b \in Bound(e.env, node.name) : TRUE).val)
    [] node.kind = "Let"                -> LET r == Ev(Children(node)[1], e)
                                           IN  IF r.mode # "next" THEN r
                                               ELSE [r EXCEPT !.env = Bind(@, node.name, r.val),
                                                              !.val = VoidVal]
    [] node.kind = "Call"               -> EvCall(node, e)
    [] node.kind = "SysCall"            -> EvSys(node, e)
    [] node.kind \in {"Add", "Eq"}      -> EvBinary(node, e)
    [] node.kind = "If"                 -> EvIf(node, e)
    [] node.kind = "Block"              -> EvSeq(Children(node), e)
    [] node.kind = "Loop"               -> EvLoop(node, e)
    [] node.kind = "Break"              -> Leave(e, "break")
    [] node.kind = "Continue"           -> Leave(e, "continue")
    [] node.kind = "Return"             -> LET r == Ev(Children(node)[1], e)
                                           IN  IF r.mode = "next" THEN Leave(r, "return") ELSE r
    [] OTHER                            -> Leave(e, "unknown")   \* AivmVm leaves its result open

\* A missing file fails the program, and so does one that cannot be parsed.
FilesFail(src) ==
  \E p \in DOMAIN src.files : \E k \in 1 .. Len(src.files[p]) :
    \/ src.files[p][k].kind = "Malformed"
    \/ src.files[p][k].kind = "Import" /\ src.files[p][k].name \notin DOMAIN src.files

\* Running the function the main file exports; a parameter receives what
\* sys.process.args answers.
Outcome(src) ==
  LET entry == CHOOSE m \in Meaning(src, src.main, EntryName(Collect(src))) : TRUE
      args  == [k \in 1 .. Len(entry.fn.params) |-> NodeOf("SysCall", "", ArgsTarget, <<>>)]
  IN  EvCall(NodeOf("Call", entry.fn.name, EmptyString, args),
             [env |-> {}, mode |-> "next", val |-> VoidVal, trace |-> <<>>, args |-> <<>>,
              fuel |-> Fuel, file |-> src.main, src |-> src])

-----------------------------------------------------------------------------
(* Compile, load, run.                                                      *)

\* What the compiler makes of each source, and what the reference says of it.
Expected(src) ==
  LET o == Outcome(src)
  IN  IF FilesFail(src) THEN [mode |-> "error", val |-> VoidVal, trace |-> <<>>]
      ELSE [mode |-> o.mode, val |-> o.val, trace |-> o.trace]
BuildsOf(sources) ==
  {LET image == CompileSource(src)
   IN  [image |-> image, expected |-> Expected(src)] :
     src \in sources}

\* AivmVm has one pool of constants for all programs: the loaded code names in
\* it the constants that the compiled code names in its own.
Linked(c) ==
  [k \in 1 .. Len(c.code) |->
     IF c.code[k].op # "CONST" THEN c.code[k]
     ELSE [op |-> "CONST",
           a  |-> (CHOOSE j \in 1 .. Len(Constants) : Constants[j] = c.consts[c.code[k].a + 1]) - 1]]

RunInit == Init /\ build \in Builds /\ phase = "source" /\ trace = <<>>

\* run_native_simple_program_aos: compile, then initialise the VM with the result.
Load ==
  /\ phase = "source"
  /\ IF build.image.verdict = "compiled"
     THEN phase' = "loaded" /\ program' = Linked(build.image)
     ELSE phase' = build.image.verdict /\ UNCHANGED program
  /\ UNCHANGED <<build, trace, ip, status, error, stackVars, frameVars, localVars,
                 taskVars, parVars, sync>>

Run ==
  /\ phase = "loaded"
  /\ Step
  /\ trace' = IF Exec({"CALL_SYS"}) /\ error' = "NONE"
              THEN Append(trace, [target |-> Top(Inst.a).val,
                                  args   |-> [k \in 1 .. Inst.a |-> Top(Inst.a - k)]])
              ELSE trace
  /\ UNCHANGED <<build, phase>>

Stopped == phase \in {"rejected", "crashed"} \/ status \in {"HALTED", "ERROR"}
Finished == Stopped /\ UNCHANGED runVars

RunNext == Load \/ Run \/ Finished

RunSpec == RunInit /\ [][RunNext]_runVars /\ WF_runVars(Load \/ Run)

-----------------------------------------------------------------------------
(* Properties.                                                              *)





\* Compiled loops are left when the source leaves them: a program whose
\* evaluation ends also stops when it is compiled and run.
CompiledProgramsStop ==
  (phase = "source") ~>
    (Stopped \/ (phase = "loaded" /\ build.expected.mode = "unknown"))
=============================================================================
