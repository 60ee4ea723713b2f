---------------------------- MODULE MCCompiledRun -----------------------------
(* Sources and constants for model checking CompiledRun.  In CheckedSources   *)
(* a Let, an empty Block or a left Loop may stand where a value is needed,   *)
(* but that value reaches no syscall, comparison or result; every If has two *)
(* branches; no two functions have the same name.  VoidSources, NoElseSources*)
(* and ShadowSources are what lies beyond, where the properties fail.        *)
EXTENDS CompiledRun

NullVal == [type |-> "null", val |-> 0, handle |-> FALSE]

N(kind, body)  == NodeOf(kind, "", EmptyString, body)
Lit(v)         == NodeOf("Lit", "", v, <<>>)
Int1(n)        == Lit(IntVal(n))
Var(x)         == NodeOf("Var", x, EmptyString, <<>>)
Let(x, e)      == NodeOf("Let", x, EmptyString, <<e>>)
CallOf(f, as)  == NodeOf("Call", f, EmptyString, as)
Sys(t, as)     == NodeOf("SysCall", "", StrVal(t), as)
Block(body)    == N("Block", body)
If(c, t, e)    == N("If", <<c, t, e>>)
Ret(e)         == N("Return", <<e>>)
Break          == N("Break", <<>>)
Continue       == N("Continue", <<>>)
Add(a, b)      == N("Add", <<a, b>>)
Eq(a, b)       == N("Eq", <<a, b>>)
Loop(body)     == N("Loop", <<Block(body)>>)
Nothing        == Block(<<>>)
Fn(f, ps, b)   == [kind |-> "Fn", name |-> f, params |-> ps, body |-> Block(b)]
Export(f)      == [kind |-> "Export", name |-> f]
Import(p)      == [kind |-> "Import", name |-> p]

X == Var("x")
Step1 == Let("x", Add(X, Int1(1)))

\* Statements over one local x, which is 0 at first.
Statements ==
  {Step1,
   CallOf("f", <<X>>),
   Let("x", CallOf("g", <<CallOf("f", <<X>>), Add(X, Int1(2))>>)),
   Sys(2, <<X, CallOf("f", <<X>>)>>),
   If(Eq(X, Int1(1)), Block(<<Let("t", Int1(2)), Sys(3, <<Var("t")>>)>>), Nothing),
   If(Eq(X, Int1(0)), Block(<<Ret(X)>>), Block(<<Let("z", Add(X, X)), Sys(2, <<Var("z")>>)>>)),
   If(Lit(BoolVal(TRUE)), Block(<<Ret(Int1(1))>>), Block(<<Ret(Int1(2))>>)),
   If(Eq(X, Int1(0)), CallOf("f", <<X>>), Int1(3)),
   Let("x", If(Eq(X, Int1(1)), Int1(4), Block(<<Let("t", Add(X, Int1(1))), Var("t")>>))),
   Block(<<Let("w", Int1(3)), Block(<<Let("v", Var("w")), Sys(3, <<Var("v"), Var("w")>>)>>)>>),
   Sys(2, <<CallOf("first", <<X, Block(<<Let("u", X)>>)>>)>>),
   Loop(<<If(Eq(X, Int1(2)), Block(<<Break>>), Nothing), Step1>>),
   Loop(<<Step1, If(Eq(X, Int1(1)), Block(<<Continue>>), Nothing), Sys(3, <<X>>), Break>>),
   Loop(<<Loop(<<Step1, Break>>), Let("k", If(Eq(X, Int1(3)), Block(<<Break>>), Int1(0))),
          If(Eq(X, Int1(3)), Block(<<Ret(X)>>), Nothing)>>),
   Loop(<<CallOf("f", <<X>>), Break, Sys(2, <<X>>)>>),
   If(Eq(Lit(NullVal), Lit(NullVal)), Sys(3, <<Lit(StrVal(4))>>), Sys(2, <<Lit(StrVal(5))>>)),
   Let("x", CallOf("down", <<Int1(2)>>)),
   Add(X, Lit(BoolVal(TRUE))),
   Let("m", N("Map", <<NodeOf("Field", "", StrVal(4), <<X>>)>>)),
   Let("s", N("StrConcat", <<Lit(StrVal(4)), N("ToString", <<X>>), Lit(StrVal(5))>>)),
   Ret(X)}

Library ==
  <<Fn("f", <<"a">>, <<Ret(Add(Var("a"), Int1(1)))>>),
    Fn("first", <<"a", "b">>, <<Ret(Var("a"))>>),
    Fn("unused", <<>>, <<Ret(CallOf("nowhere", <<>>))>>),
    Fn("g", <<"a", "b">>,
       <<If(Eq(Var("a"), Var("b")), Block(<<Ret(Var("a"))>>), Block(<<Let("c", CallOf("f", <<Var("b")>>))>>)),
         Ret(Add(Var("b"), Int1(0)))>>),
    Fn("down", <<"n">>,
       <<If(Eq(Var("n"), Int1(0)), Block(<<Ret(Int1(0))>>),
            Block(<<Ret(CallOf("downMore", <<Var("n")>>))>>))>>),
    Fn("downMore", <<"n">>, <<Ret(Add(Int1(1), CallOf("down", <<Add(Var("n"), Int1(-1))>>)))>>)>>

OneFile(params, body) ==
  [main |-> "main",
   files |-> [main |-> <<Export("run")>> \o Library \o <<Fn("run", params, body)>>]]

StatementSources ==
  {OneFile(<<>>, <<Let("x", Int1(0)), a, b, c, Ret(X)>>) : a, b, c \in Statements}

\* Imports in chains and diamonds, from a file without exports; a missing file.
Importing(paths, items) == [k \in 1 .. Len(paths) |-> Import(paths[k])] \o items
ImportSources ==
  {[main |-> "main",
    files |->
      [main |-> Importing(m, <<Fn("start", <<"args">>,
                                  <<Sys(2, <<Var("args")>>), Ret(CallOf(IF m[1] = "a" THEN "fa" ELSE "fb", <<>>))>>)>>),
       a |-> Importing(ia, <<Export("fa"),
                             Fn("fa", <<>>, <<Ret(IF ia = <<>> THEN Int1(1) ELSE CallOf("fb", <<>>))>>)>>),
       b |-> <<Fn("fb", <<>>, <<Ret(Int1(2))>>), Export("fb")>>]] :
     m \in {<<"a">>, <<"b">>, <<"a", "b">>, <<"b", "a">>, <<"a", "gone">>}, ia \in {<<>>, <<"b">>}}

\* Programs in error: an unbound name, a stray Break, an unknown or misused function.
FaultySources ==
  {OneFile(<<>>, <<s, Ret(Int1(0))>>) :
     s \in {Sys(2, <<Var("q")>>), Break, CallOf("nowhere", <<>>),
            CallOf("f", <<>>), If(Int1(1), Nothing, Nothing)}}
  \cup {[main |-> "main", files |-> [main |-> <<Export("run"), [kind |-> "Malformed", name |-> ""],
                                               Fn("run", <<>>, <<Ret(Int1(0))>>)>>]]}

CheckedSources == StatementSources \cup ImportSources \cup FaultySources

CheckedBuilds == LET builds == BuildsOf(CheckedSources) IN builds

\* The main file calls its own helper; the file it imports has one of the same
\* name that it does not export.
ShadowSources ==
  {[main |-> "main",
    files |-> [main |-> <<Import("a"), Export("run"),
                          Fn("helper", <<>>, <<Ret(Int1(own))>>),
                          Fn("run", <<>>, <<Ret(CallOf(callee, <<>>))>>)>>,
               a    |-> <<Export("fa"), Fn("helper", <<>>, <<Ret(Int1(2))>>),
                          Fn("fa", <<>>, <<Ret(Int1(3))>>)>>]] :
     own \in {1, 2}, callee \in {"helper", "fa"}}
ShadowBuilds == LET builds == BuildsOf(ShadowSources) IN builds

\* The value of a node that has none goes to a syscall.
VoidSources ==
  {OneFile(<<>>, <<Let("x", Int1(0)), Sys(2, <<b>>), Ret(X)>>) :
     b \in {Nothing, Block(<<Let("u", X)>>), Block(<<Loop(<<Break>>)>>),
            Block(<<Let("u", X), Var("u")>>)}}
VoidBuilds == LET builds == BuildsOf(VoidSources) IN builds

\* An If with two children, as SPEC/IL.md allows.
NoElseSources ==
  {OneFile(<<>>, <<Let("x", Int1(0)), N("If", <<Eq(X, Int1(n)), Block(<<Sys(2, <<X>>)>>)>>), Ret(X)>>) :
     n \in {0, 1}}
NoElseBuilds == LET builds == BuildsOf(NoElseSources) IN builds

NoProgram == {<<>>}
Pool == <<EmptyString, StrVal(1), StrVal(2), StrVal(3), StrVal(4), StrVal(5), NullVal>>
Answer == IntVal(5)
Answers == {Answer}
Unset == {VoidVal}
MinInt == -2
=============================================================================
