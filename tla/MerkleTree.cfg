SPECIFICATION Spec
CONSTANTS
  Leaves = {c1, c2, c3, c4, c5, c6}
  ZeroLeaf = zero
  Height = 3
  MaxInserts = 6
INVARIANTS RootIsReference MirrorOpensNotes
PROPERTY ImplementsLog
CHECK_DEADLOCK FALSE
