---------------------------- MODULE MCAivmNodeHeap ----------------------------
(* Opcode sets for model checking AivmNodeHeap.                              *)
EXTENDS AivmNodeHeap

\* The opcodes whose C code keeps what it holds among the collector's roots: a
\* PAR_JOIN here has one branch.
RootedOps == {"PUSH", "STORE_LOCAL", "LOAD_LOCAL", "MAKE_BLOCK", "MAKE_LIT", "MAKE_FIELD_STRING",
              "APPEND_CHILD", "CHILD_AT", "TASK", "AWAIT", "PAR_FORK", "PAR_JOIN", "HOST_NODE"}

\* All makers of nodes, the ones that hold unrooted handles included.
AllOps == {"PUSH", "POP", "RET", "MAKE_BLOCK", "MAKE_MAP", "MAKE_NODE", "INSPECT",
           "PROCESS_ARGS", "UI"}

\* A program that collects values in a map.
UnrootedOps == {"PUSH", "MAKE_BLOCK", "INSPECT", "MAKE_MAP", "CHILD_AT"}
=============================================================================
