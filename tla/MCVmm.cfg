CONSTANT Machines <- AllMachines
SPECIFICATION Spec
INVARIANTS StructuresApart WalkAgrees MemoryIsItsOwn BootHeapLasts
\* The set-up ends, or faults.
CHECK_DEADLOCK FALSE
