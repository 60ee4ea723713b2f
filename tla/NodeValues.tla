------------------------------ MODULE NodeValues ------------------------------
(***************************************************************************)
(* What the node opcodes promise: nodes are values.  Every node ever made  *)
(* is an object of its own that never changes and never goes away, and the *)
(* places of the VM hold objects.  There are no handles, no arena and no   *)
(* collector; the only thing a program may notice is running out of memory.*)
(***************************************************************************)
EXTENDS NodeRoots

VARIABLES
  store,    \* the objects: what each was copied from and its children
  roots,    \* who holds which object
  making,   \* the opcode under way, its operands so far
  error

vars == <<store, roots, making, error>>

Idle == [op |-> "NONE", left |-> 0, kids |-> <<>>, shape |-> 0]
Fresh == Len(store) + 1

\* Make the next object and push it on rs.
Make(rs, shape, kids) ==
  /\ store' = Append(store, [shape |-> shape, kids |-> kids])
  /\ roots' = Pushed(rs, Fresh)
  /\ making' = Idle
  /\ UNCHANGED error

Running == error = "NONE" /\ making = Idle

Move == /\ Running
        /\ Moved(roots, roots')
        /\ UNCHANGED <<store, making, error>>

Leaf == /\ Running
        /\ \E n \in {1, 2, 4} : Room(roots, n) /\ Make(Drop(roots, n), Fresh, <<>>)

HostNode == /\ Running
            /\ Room(roots, 0)
            /\ Make(roots, Fresh, <<>>)

AppendChild ==
  /\ Running
  /\ Room(roots, 2)
  /\ LET base == Peek(roots, 1)  child == Peek(roots, 0)
     IN  /\ base # 0 /\ child # 0
         /\ Make(Drop(roots, 2), store[base].shape, Append(store[base].kids, child))

ChildAt ==
  /\ Running
  /\ Room(roots, 2)
  /\ Peek(roots, 1) # 0
  /\ \E i \in 1 .. Len(store[Peek(roots, 1)].kids) :
       roots' = Pushed(Drop(roots, 2), store[Peek(roots, 1)].kids[i])
  /\ UNCHANGED <<store, making, error>>

Inspect ==
  /\ Running
  /\ Len(roots.stack) >= 1 /\ Peek(roots, 0) # 0
  /\ roots' = Pushed(Drop(roots, 1), 0)
  /\ UNCHANGED <<store, making, error>>

ProcessArgs == /\ Running
               /\ Room(roots, 0) /\ roots' = Pushed(roots, roots.argv)
               /\ UNCHANGED <<store, making, error>>

\* A UI syscall answers a new object; the VM also remembers the latest one.
UiNode(c) == /\ Running
             /\ Room(roots, 0)
             /\ Make([roots EXCEPT ![c] = Fresh], Fresh, <<>>)

\* The opcodes that take their children one at a time: a node stands for itself,
\* anything else becomes a leaf.
Begin ==
  /\ Running
  /\ \E op \in ManyOps \cap Opcodes, n \in 0 .. StackBound :
       /\ CanBegin(op, roots, n)
       /\ making' = [op |-> op, left |-> n, kids |-> <<>>,
                     shape |-> IF op = "MAKE_NODE" THEN store[Peek(roots, 1)].shape ELSE 0]
       /\ roots' = Begun(op, roots)
  /\ UNCHANGED <<store, error>>

TakeChild ==
  /\ error = "NONE" /\ making.left > 0
  /\ LET value == ChildValue(making.op, roots, Len(making.kids))
         child == IF value = 0 THEN Fresh ELSE value
     IN  /\ making' = [making EXCEPT !.left = @ - 1, !.kids = WithChild(making.op, @, child)]
         /\ store' = IF value = 0 THEN Append(store, [shape |-> Fresh, kids |-> <<>>]) ELSE store
  /\ roots' = ChildTaken(making.op, roots)
  /\ UNCHANGED error

Finish ==
  /\ error = "NONE" /\ making.op # "NONE" /\ making.left = 0
  /\ Make(Joined(making.op, roots),
          IF making.op = "MAKE_NODE" THEN making.shape ELSE Fresh, making.kids)

\* The opcode under way finds no room; the VM stops.
OutOfMemory == /\ error = "NONE"
               /\ error' \in {"MEMORY_PRESSURE", "STRING_PRESSURE", "SYSCALL", "VM_LIMIT"}
               /\ UNCHANGED store

\* The objects of a new run: the list of the n arguments and the arguments.
Arguments(n) ==
  [o \in 1 .. n + 1 |-> [shape |-> o, kids |-> IF o = 1 THEN [i \in 1 .. n |-> i + 1] ELSE <<>>]]

Reset == /\ making = Idle \/ error # "NONE"
         /\ \E n \in ArgvCounts : store' = Arguments(n)
         /\ roots' = EmptyRoots(1) /\ making' = Idle /\ error' = "NONE"

Next == \/ Move \/ Leaf \/ HostNode \/ AppendChild \/ Inspect \/ ChildAt \/ ProcessArgs
        \/ \E c \in {"window", "event"} : UiNode(c)
        \/ Begin \/ TakeChild \/ Finish \/ OutOfMemory
        \/ Reset

Init == /\ \E n \in ArgvCounts : store = Arguments(n)
        /\ roots = EmptyRoots(1) /\ making = Idle /\ error = "NONE"

Spec == Init /\ [][Next]_vars
=============================================================================
