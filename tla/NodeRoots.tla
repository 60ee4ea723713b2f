------------------------------- MODULE NodeRoots -------------------------------
(***************************************************************************)
(* The places of the VM that may hold a node: operand stack, locals,       *)
(* results of completed tasks, Par branches and the handles cached by the  *)
(* VM itself.  A value is 0 (not a node) or names a node; what the name is *)
(* differs: a handle in AivmNodeHeap, an object in NodeValues.             *)
(***************************************************************************)
EXTENDS Integers, Sequences

CONSTANTS
  Opcodes,          \* the opcodes and syscalls the program uses
  ArgvCounts,       \* how many arguments the process may have
  StackBound, LocalBound, ResultBound, BranchBound   \* bounds on each set of roots

RootSets == {"stack", "locals", "results", "branches"}
Cached   == {"argv", "window", "event"}

\* Every name held by a record of roots.
Held(rs) ==
  ((UNION {{rs[r][i] : i \in 1 .. Len(rs[r])} : r \in RootSets}) \cup {rs[c] : c \in Cached}) \ {0}

\* The same roots with every name replaced by f, a function on the held ones.
Renamed(rs, f) ==
  LET name(v) == IF v = 0 THEN 0 ELSE f[v]
  IN  [r \in RootSets \cup Cached |->
         IF r \in Cached THEN name(rs[r]) ELSE [i \in 1 .. Len(rs[r]) |-> name(rs[r][i])]]

Peek(rs, n)   == rs.stack[Len(rs.stack) - n]             \* Peek(rs, 0) is the top
Drop(rs, n)   == [rs EXCEPT !.stack = SubSeq(@, 1, Len(@) - n)]
Pushed(rs, v) == [rs EXCEPT !.stack = Append(@, v)]
Room(rs, n)   == Len(rs.stack) >= n /\ Len(rs.stack) - n < StackBound

EmptyRoots(argv) ==
  [r \in RootSets \cup Cached |-> IF r \in RootSets THEN <<>> ELSE IF r = "argv" THEN argv ELSE 0]

(* next is rs after an opcode that only moves values.                       *)
Moved(rs, next) ==
  \/ /\ "PUSH" \in Opcodes /\ Room(rs, 0)
     /\ next = Pushed(rs, 0)
  \/ /\ "POP" \in Opcodes /\ Len(rs.stack) >= 1
     /\ next = Drop(rs, 1)
  \/ /\ "STORE_LOCAL" \in Opcodes /\ Len(rs.stack) >= 1
     /\ \/ \E i \in 1 .. Len(rs.locals) : next = [Drop(rs, 1) EXCEPT !.locals[i] = Peek(rs, 0)]
        \/ /\ Len(rs.locals) < LocalBound
           /\ next = [Drop(rs, 1) EXCEPT !.locals = Append(@, Peek(rs, 0))]
  \/ /\ "LOAD_LOCAL" \in Opcodes /\ Room(rs, 0)
     /\ \E i \in 1 .. Len(rs.locals) : next = Pushed(rs, rs.locals[i])
  \/ /\ "RET" \in Opcodes
     /\ next = [rs EXCEPT !.locals = <<>>]
  \/ /\ "TASK" \in Opcodes /\ Len(rs.stack) >= 1
     /\ next = [Drop(rs, 1) EXCEPT
                  !.results = Append(IF Len(@) < ResultBound THEN @ ELSE Tail(@), Peek(rs, 0))]
  \/ /\ "AWAIT" \in Opcodes /\ Room(rs, 0)
     /\ \E i \in 1 .. Len(rs.results) : next = Pushed(rs, rs.results[i])
  \/ /\ "PAR_FORK" \in Opcodes /\ Len(rs.stack) >= 1 /\ Len(rs.branches) < BranchBound
     /\ next = [Drop(rs, 1) EXCEPT !.branches = Append(@, Peek(rs, 0))]

\* The opcodes that take n children one at a time, from the stack or, for
\* PAR_JOIN, from the branches: when they may start, and with which roots.
ManyOps == {"MAKE_MAP", "MAKE_NODE", "MAKE_FIELD_STRING", "PAR_JOIN"}
CanBegin(op, rs, n) ==
  CASE op = "MAKE_MAP"          -> Len(rs.stack) >= 1 + n /\ Peek(rs, 0) = 0
    [] op = "MAKE_NODE"         -> Len(rs.stack) >= 2 + n /\ Peek(rs, 0) = 0 /\ Peek(rs, 1) # 0
    [] op = "MAKE_FIELD_STRING" -> Len(rs.stack) >= 2 /\ Peek(rs, 1) = 0 /\ n = 1
    [] op = "PAR_JOIN"          -> Room(rs, 0) /\ n = Len(rs.branches)
Begun(op, rs) ==
  CASE op = "MAKE_MAP"          -> Drop(rs, 1)
    [] op = "MAKE_NODE"         -> Drop(rs, 2)
    [] op = "MAKE_FIELD_STRING" -> Pushed(Drop(rs, 2), Peek(rs, 0))
    [] op = "PAR_JOIN"          -> rs

\* The next child's value when k were taken, the roots without it, and the
\* children so far with it (the stack yields the last child first).
ChildValue(op, rs, k) == IF op = "PAR_JOIN" THEN rs.branches[k + 1] ELSE Peek(rs, 0)
ChildTaken(op, rs)    == IF op = "PAR_JOIN" THEN rs ELSE Drop(rs, 1)
WithChild(op, kids, c) == IF op = "PAR_JOIN" THEN Append(kids, c) ELSE <<c>> \o kids
Joined(op, rs)        == IF op = "PAR_JOIN" THEN [rs EXCEPT !.branches = <<>>] ELSE rs
=============================================================================
