\* The binary heap implements the priority queue.
SPECIFICATION Spec
CONSTANTS
    Task <- MCTask
    Inputs <- MCInputs
    MaxLen = 5
INVARIANTS TypeOK HeapOrder
PROPERTIES PopsAscend ImplementsTaskQueue
