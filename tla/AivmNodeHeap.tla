----------------------------- MODULE AivmNodeHeap -----------------------------
(***************************************************************************)
(* The node arena of aivm_vm.c and its collector.  A node is a record in a *)
(* fixed array and a handle is its position, so the mark-and-compact       *)
(* collection that create_node_record may run renames every node: all      *)
(* handles held anywhere must follow in the same step.  The C arrays of    *)
(* MAKE_MAP, MAKE_NODE and PAR_JOIN hold handles between two allocations;  *)
(* making is that part of the C stack.                                     *)
(*                                                                         *)
(* Operand types and counts are AivmVm's: here every opcode finds operands *)
(* of the right types.  Kind, id and attribute values of a node are its    *)
(* ghost "shape"; "obj" is the ghost identity of what the node was made to *)
(* be, an object of the ghost history store (see NodeValues).              *)
(***************************************************************************)
EXTENDS NodeRoots, FiniteSets

CONSTANTS
  NodeCapacity, AttrCapacity, ChildCapacity,
  NodeThreshold, AttrThreshold, ChildThreshold,  \* 3/4 of each capacity
  GcInterval,                                    \* allocations between proactive collections
  HostAttrs,                                     \* attributes of a node a host syscall makes
  MaxObjects                                     \* bound: nodes a run may make

ASSUME CapacityAssumption ==
  /\ {NodeCapacity, GcInterval, ResultBound} \subseteq Nat \ {0}
  /\ {AttrCapacity, ChildCapacity, HostAttrs, MaxObjects} \subseteq Nat
  /\ {StackBound, LocalBound, BranchBound} \subseteq Nat
  /\ NodeThreshold \in 0 .. NodeCapacity
  /\ AttrThreshold \in 0 .. AttrCapacity
  /\ ChildThreshold \in 0 .. ChildCapacity
  /\ \A n \in ArgvCounts : /\ n \in Nat /\ n < GcInterval /\ n < NodeCapacity
                           /\ n <= AttrCapacity /\ n <= ChildCapacity

VARIABLES
  nodes,     \* vm->nodes up to node_count
  roots,     \* the holders of handles
  sinceGc,   \* node_allocations_since_gc
  making,    \* C frame of an opcode that makes several nodes
  error,     \* why the VM stopped, "NONE" while it runs
  store      \* ghost: every object made since the last reset

vars == <<nodes, roots, sinceGc, making, error, store>>

Fresh == Len(store) + 1
Node(obj, shape, attrs, kids) == [obj |-> obj, shape |-> shape, attrs |-> attrs, kids |-> kids]

\* node_attr_count and node_child_count: what the records of ns take up.
AttrsUsed(ns) ==
  LET upTo[n \in 0 .. Len(ns)] == IF n = 0 THEN 0 ELSE upTo[n - 1] + ns[n].attrs
  IN  upTo[Len(ns)]
ChildrenUsed(ns) ==
  LET upTo[n \in 0 .. Len(ns)] == IF n = 0 THEN 0 ELSE upTo[n - 1] + Len(ns[n].kids)
  IN  upTo[Len(ns)]

-----------------------------------------------------------------------------
(* The collector.  A heap is a record of the arena, the roots, the children *)
(* of the node about to be made (extra roots) and the allocation counter.   *)

LiveRootsOnly(heap) ==   \* mutant: children not marked
  (1 .. Len(heap.nodes)) \cap (Held(heap.roots) \cup {heap.kids[i] : i \in 1 .. Len(heap.kids)})
\* mark_live_node_handles: all that can be reached from the roots.  Handles
\* outside the arena are skipped.
Live(heap) ==
  LET handles == 1 .. Len(heap.nodes)
      kids(h) == {heap.nodes[h].kids[i] : i \in 1 .. Len(heap.nodes[h].kids)}
      seeds   == handles \cap (Held(heap.roots) \cup {heap.kids[i] : i \in 1 .. Len(heap.kids)})
      closed(S) == seeds \subseteq S /\ \A h \in S : kids(h) \cap handles \subseteq S
  IN  {h \in handles : \A S \in SUBSET handles : closed(S) => h \in S}

NewHandleDescending(live, h) == Cardinality({g \in live : g >= h})   \* mutant
\* handle_map of compact_node_arenas_with_map.
NewHandle(live, h) == Cardinality({g \in live : g <= h})

\* Every handle the collector meets must have a new one, else it gives up.
Mappable(heap, live) ==
  /\ \A h \in live : \A i \in 1 .. Len(heap.nodes[h].kids) : heap.nodes[h].kids[i] \in live
  /\ Held(heap.roots) \subseteq live
  /\ \A i \in 1 .. Len(heap.kids) : heap.kids[i] \in live

CompactedNodes(ns, live) ==
  [n \in 1 .. Cardinality(live) |->
     LET node == ns[CHOOSE h \in live : NewHandle(live, h) = n]
     IN  [node EXCEPT !.kids = [i \in 1 .. Len(node.kids) |-> NewHandle(live, node.kids[i])]]]

\* compact_node_arenas_with_map and remap_child_handles_for_compaction.
Compact(heap) ==
  LET live == Live(heap)
      new(h) == NewHandle(live, h)
  IN  IF ~ Mappable(heap, live) THEN [heap EXCEPT !.error = "DANGLING"]
      ELSE [heap EXCEPT !.nodes   = CompactedNodes(heap.nodes, live),
                        !.roots   = Renamed(@, [h \in Held(@) |-> new(h)]),
                        !.kids    = [i \in 1 .. Len(@) |-> new(@[i])],
                        !.sinceGc = 0]

ShouldAttemptProactiveGc(heap, attrs) ==
  /\ heap.sinceGc >= GcInterval
  /\ \/ Len(heap.nodes) >= NodeThreshold
     \/ AttrsUsed(heap.nodes) + attrs >= AttrThreshold
     \/ ChildrenUsed(heap.nodes) + Len(heap.kids) >= ChildThreshold

FitsOffByOne(heap, attrs) ==   \* mutant: node_count instead of needed_node_count
  /\ Len(heap.nodes) <= NodeCapacity
  /\ AttrsUsed(heap.nodes) + attrs <= AttrCapacity
  /\ ChildrenUsed(heap.nodes) + Len(heap.kids) <= ChildCapacity
Fits(heap, attrs) ==
  /\ Len(heap.nodes) + 1 <= NodeCapacity
  /\ AttrsUsed(heap.nodes) + attrs <= AttrCapacity
  /\ ChildrenUsed(heap.nodes) + Len(heap.kids) <= ChildCapacity

AfterProactiveGc(heap, attrs) ==
  IF ShouldAttemptProactiveGc(heap, attrs) THEN Compact(heap) ELSE heap
AfterForcedGc(heap, attrs) ==
  IF heap.error = "NONE" /\ ~ Fits(heap, attrs) THEN Compact(heap) ELSE heap

PreparedProactiveOnly(heap, attrs) ==   \* mutant: no collection at the hard cap
  {AfterProactiveGc(heap, attrs)}
\* The two collections create_node_record may run before it appends: the one heap
\* they leave.
Prepared(heap, attrs) == {AfterForcedGc(h, attrs) : h \in {AfterProactiveGc(heap, attrs)}}

Appended(heap, shape, attrs, obj) ==
  IF heap.error # "NONE" THEN heap
  ELSE IF ~ Fits(heap, attrs) THEN [heap EXCEPT !.error = "MEMORY_PRESSURE"]
  ELSE [heap EXCEPT !.nodes = Append(@, Node(obj, shape, attrs, heap.kids)), !.sinceGc = @ + 1]

\* create_node_record: append a node of the given shape, with children kids, when the
\* roots are rs.  The heap it leaves has an error when there is no room.
CreateNodeRecord(rs, shape, attrs, kids, obj) ==
  {Appended(heap, shape, attrs, obj) :
     heap \in Prepared([nodes |-> nodes, roots |-> rs, kids |-> kids, sinceGc |-> sinceGc,
                        error |-> "NONE"], attrs)}

-----------------------------------------------------------------------------
\* The C frame: children still to take, handles in the local array, the
\* template pointer of MAKE_NODE; objs and shape are what the program meant.
Idle == [op |-> "NONE", left |-> 0, kids |-> <<>>, template |-> 0, objs |-> <<>>, shape |-> 0]

Running == error = "NONE" /\ making = Idle /\ Len(store) < MaxObjects
Uses(op) == Running /\ op \in Opcodes

InArena(h) == h \in 1 .. Len(nodes)
ObjectsOf(kids) == [i \in 1 .. Len(kids) |-> nodes[kids[i]].obj]

Stop(e) == error' = e /\ UNCHANGED <<nodes, roots, sinceGc, making, store>>

\* Make one node and push it.  object is what the program asked for; the string
\* arena may have no room for the strings of the node.
MakeAndPush(rs, shape, attrs, kids, object) ==
  \/ \E heap \in CreateNodeRecord(rs, shape, attrs, kids, Fresh) :
         /\ nodes' = heap.nodes /\ sinceGc' = heap.sinceGc /\ error' = heap.error
         /\ IF heap.error = "NONE"
            THEN /\ roots' = Pushed(heap.roots, Len(heap.nodes))
                 /\ making' = Idle
                 /\ store' = Append(store, object)
            ELSE /\ roots' = heap.roots
                 /\ making' = [Idle EXCEPT !.kids = heap.kids]
                 /\ UNCHANGED store
  \/ Stop("STRING_PRESSURE")

LeafOps == [MAKE_BLOCK |-> [pops |-> 1, attrs |-> 0],
            MAKE_LIT   |-> [pops |-> 2, attrs |-> 1],
            MAKE_ERR   |-> [pops |-> 4, attrs |-> 3]]
Leaf ==
  \E op \in DOMAIN LeafOps :
    /\ Uses(op)
    /\ Room(roots, LeafOps[op].pops)
    /\ \A k \in 0 .. LeafOps[op].pops - 1 : Peek(roots, k) = 0
    /\ MakeAndPush(Drop(roots, LeafOps[op].pops), Fresh, LeafOps[op].attrs, <<>>,
                   [shape |-> Fresh, kids |-> <<>>])

\* APPEND_CHILD copies the node with one more child.
AppendChild ==
  /\ Uses("APPEND_CHILD")
  /\ Room(roots, 2)
  /\ LET base == Peek(roots, 1)  child == Peek(roots, 0)
     IN  /\ base # 0 /\ child # 0
         /\ IF ~ InArena(base) \/ ~ InArena(child) THEN Stop("DANGLING")
            ELSE IF Len(nodes[base].kids) + 1 > ChildCapacity THEN Stop("VM_LIMIT")
            ELSE MakeAndPush(Drop(roots, 2), nodes[base].shape, nodes[base].attrs,
                             Append(nodes[base].kids, child),
                             [store[nodes[base].obj] EXCEPT !.kids = Append(@, nodes[child].obj)])

\* NODE_KIND, NODE_ID, ATTR_COUNT and CHILD_COUNT.
Inspect ==
  /\ Uses("INSPECT")
  /\ Len(roots.stack) >= 1 /\ Peek(roots, 0) # 0
  /\ IF InArena(Peek(roots, 0))
     THEN roots' = Pushed(Drop(roots, 1), 0) /\ UNCHANGED <<nodes, sinceGc, making, error, store>>
     ELSE Stop("DANGLING")

ChildAt ==
  /\ Uses("CHILD_AT")
  /\ Room(roots, 2) /\ Peek(roots, 0) = 0 /\ Peek(roots, 1) # 0
  /\ IF InArena(Peek(roots, 1))
     THEN /\ \E i \in 1 .. Len(nodes[Peek(roots, 1)].kids) :
               roots' = Pushed(Drop(roots, 2), nodes[Peek(roots, 1)].kids[i])
          /\ UNCHANGED <<nodes, sinceGc, making, error, store>>
     ELSE Stop("DANGLING")

Move == /\ Running
        /\ Moved(roots, roots')
        /\ UNCHANGED <<nodes, sinceGc, making, error, store>>

-----------------------------------------------------------------------------
(* Nodes of the host.                                                       *)

\* sys.process.args answers handle 1.
ProcessArgs == /\ Uses("PROCESS_ARGS")
               /\ Room(roots, 0)
               /\ roots' = Pushed(roots, 1)
               /\ UNCHANGED <<nodes, sinceGc, making, error, store>>

\* native_vm_append_host_node: no collection, and the allocation is not counted.
HasHostRoom == Len(nodes) < NodeCapacity /\ AttrsUsed(nodes) + HostAttrs <= AttrCapacity
AppendHostNode(rs) ==
  /\ nodes' = Append(nodes, Node(Fresh, Fresh, HostAttrs, <<>>))
  /\ roots' = Pushed(rs, Len(nodes) + 1)
  /\ store' = Append(store, [shape |-> Fresh, kids |-> <<>>])
  /\ UNCHANGED <<sinceGc, making, error>>

HostNode == /\ Uses("HOST_NODE")
            /\ Room(roots, 0)
            /\ IF HasHostRoom THEN AppendHostNode(roots) ELSE Stop("SYSCALL")

\* sys.ui.pollEvent and sys.ui.getWindowSize: one node per VM, overwritten by
\* every call with the attributes of the new event or size.
UiNode(c) ==
  /\ Uses("UI")
  /\ Room(roots, 0)
  /\ \/ /\ InArena(roots[c])
        /\ nodes' = [nodes EXCEPT ![roots[c]].obj = Fresh, ![roots[c]].shape = Fresh]
        /\ roots' = Pushed(roots, roots[c])
        /\ store' = Append(store, [shape |-> Fresh, kids |-> <<>>])
        /\ UNCHANGED <<sinceGc, making, error>>
     \/ /\ ~ InArena(roots[c])
        /\ IF HasHostRoom THEN AppendHostNode([roots EXCEPT ![c] = Len(nodes) + 1])
           ELSE Stop("SYSCALL")
     \/ Stop("SYSCALL")

-----------------------------------------------------------------------------
(* MAKE_MAP, MAKE_NODE, MAKE_FIELD_STRING and PAR_JOIN: one step per child, *)
(* because each child that is not a node is made by an allocation of its    *)
(* own, which may collect.                                                  *)

Begin ==
  \E op \in ManyOps, n \in 0 .. StackBound :
    /\ Uses(op)
    /\ CanBegin(op, roots, n) /\ Len(store) + n + 1 <= MaxObjects
    /\ LET template == IF op = "MAKE_NODE" THEN Peek(roots, 1) ELSE 0
       IN  IF op = "MAKE_NODE" /\ ~ InArena(template) THEN Stop("DANGLING")
           ELSE /\ making' = [op |-> op, left |-> n, kids |-> <<>>, template |-> template, objs |-> <<>>,
                              shape |-> IF op = "MAKE_NODE" THEN store[nodes[template].obj].shape ELSE 0]
                /\ roots' = Begun(op, roots)
                /\ UNCHANGED <<nodes, sinceGc, error, store>>

\* create_runtime_node_from_value on the next operand.  The handles taken so far
\* are not among the roots of its collection.
TakeChild ==
  /\ error = "NONE" /\ making.left > 0
  /\ LET op    == making.op
         value == ChildValue(op, roots, Len(making.kids))
         took(kid, obj) == making' = [making EXCEPT !.left = @ - 1,
                                                    !.kids = WithChild(op, @, kid),
                                                    !.objs = WithChild(op, @, obj)]
     IN  \/ /\ value # 0
            /\ took(value, IF InArena(value) THEN nodes[value].obj ELSE 0)
            /\ roots' = ChildTaken(op, roots)
            /\ UNCHANGED <<nodes, sinceGc, error, store>>
         \/ /\ value = 0
            /\ \/ \E attrs \in {0, 1} :
                    \E heap \in CreateNodeRecord(ChildTaken(op, roots), Fresh, attrs, <<>>, Fresh) :
                        /\ nodes' = heap.nodes /\ roots' = heap.roots
                        /\ sinceGc' = heap.sinceGc /\ error' = heap.error
                        /\ IF heap.error = "NONE"
                           THEN /\ took(Len(heap.nodes), Fresh)
                                /\ store' = Append(store, [shape |-> Fresh, kids |-> <<>>])
                           ELSE making' = Idle /\ UNCHANGED store
               \/ Stop("STRING_PRESSURE")

\* MAKE_NODE reads kind, id and attribute count through its template pointer only
\* now; a slot above node_count holds whatever the last compaction left there.
Finish ==
  /\ error = "NONE" /\ making.op # "NONE" /\ making.left = 0
  /\ LET object == [shape |-> IF making.op = "MAKE_NODE" THEN making.shape ELSE Fresh,
                    kids  |-> making.objs]
         finish(shape, attrs) == MakeAndPush(Joined(making.op, roots), shape, attrs, making.kids, object)
     IN  \/ making.op \in {"MAKE_MAP", "PAR_JOIN"} /\ finish(Fresh, 0)
         \/ making.op = "MAKE_FIELD_STRING" /\ finish(Fresh, 1)
         \/ /\ making.op = "MAKE_NODE" /\ InArena(making.template)
            /\ finish(nodes[making.template].shape, nodes[making.template].attrs)
         \/ /\ making.op = "MAKE_NODE" /\ ~ InArena(making.template)
            /\ \E attrs \in 0 .. AttrCapacity : finish(0, attrs)

-----------------------------------------------------------------------------
\* initialize_process_argv_node: node 1 lists the arguments, nodes 2 to n + 1.
Arguments(n) ==
  [h \in 1 .. n + 1 |-> IF h = 1 THEN Node(1, 1, 0, [i \in 1 .. n |-> i + 1]) ELSE Node(h, h, 1, <<>>)]
ArgumentObjects(n) ==
  [o \in 1 .. n + 1 |-> [shape |-> o, kids |-> IF o = 1 THEN [i \in 1 .. n |-> i + 1] ELSE <<>>]]

Init ==
  /\ \E n \in ArgvCounts : nodes = Arguments(n) /\ store = ArgumentObjects(n)
  /\ roots = EmptyRoots(1) /\ sinceGc = 0 /\ making = Idle /\ error = "NONE"

\* aivm_reset_state, between two instructions or after a run that failed.
Reset ==
  /\ making = Idle \/ error # "NONE"
  /\ \E n \in ArgvCounts : nodes' = Arguments(n) /\ store' = ArgumentObjects(n)
  /\ roots' = EmptyRoots(1) /\ sinceGc' = 0 /\ making' = Idle /\ error' = "NONE"

Next == \/ Move \/ Leaf \/ AppendChild \/ Inspect \/ ChildAt
        \/ ProcessArgs \/ HostNode \/ \E c \in {"window", "event"} : UiNode(c)
        \/ Begin \/ TakeChild \/ Finish \/ Reset

Spec == Init /\ [][Next]_vars

-----------------------------------------------------------------------------
(* Properties.                                                              *)

\* The arena never outgrows its three arrays, also when a collection frees
\* nothing and for nodes the host appends.
WithinArena ==
  /\ Len(nodes) <= NodeCapacity
  /\ AttrsUsed(nodes) <= AttrCapacity
  /\ ChildrenUsed(nodes) <= ChildCapacity

\* The list of process arguments stays node 1 whatever is made and collected, so
\* the handle 1 that sys.process.args answers is right for the whole run.
ArgvStaysFirst == roots.argv = 1 /\ (error = "NONE" => nodes[1].obj = 1)

\* A program is told that the node arena is full only when it is full of nodes
\* it can still reach: every path to AIVMM005 has collected first.
PressureMeansFull ==
  error = "MEMORY_PRESSURE" =>
    Live([nodes |-> nodes, roots |-> roots, kids |-> making.kids]) = 1 .. Len(nodes)

\* Nodes are values: seen through the objects they were made to be, the arena
\* with its collector behaves like NodeValues, where nothing moves or goes away.
\* In particular a collection keeps every node a program can reach, with its
\* content and children, under the handle each holder has after it.
Object(h) == IF InArena(h) THEN nodes[h].obj ELSE 0 - h
Values == INSTANCE NodeValues WITH
            store  <- store,
            roots  <- Renamed(roots, [h \in Held(roots) |-> Object(h)]),
            making <- [op |-> making.op, left |-> making.left, kids |-> making.objs, shape |-> making.shape],
            error  <- error
NodesAreValues == Values!Spec
=============================================================================
