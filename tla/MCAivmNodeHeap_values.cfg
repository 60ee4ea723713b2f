SPECIFICATION Spec
CONSTANTS
  Opcodes <- RootedOps
  ArgvCounts = {1}
  StackBound = 2
  LocalBound = 1
  ResultBound = 1
  BranchBound = 1
  NodeCapacity = 5
  AttrCapacity = 4
  ChildCapacity = 4
  NodeThreshold = 4
  AttrThreshold = 3
  ChildThreshold = 3
  GcInterval = 2
  HostAttrs = 1
  MaxObjects = 6
INVARIANTS PressureMeansFull
PROPERTY NodesAreValues
