CONSTANTS
  Edges <- FewEdges
  Faults = {14, 20}
SPECIFICATION Spec
INVARIANTS NothingLeftInService NoByteForgotten KeysInOrder
PROPERTIES EndsItsOwn Served FaultIsFinal
