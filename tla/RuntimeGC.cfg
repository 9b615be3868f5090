\* A heap of which five words can be in use: two objects with two or three
\* words, sharing, cycles of one and of two objects, garbage beside live
\* objects, stale pointers in pushed slots, objects of size zero and a full
\* heap.
SPECIFICATION FairSpec
CONSTANTS
    HeapSize = 6
    NumSlots = 2
    MaxSize = 2
INVARIANTS
    NeverOverflows
    NoDanglingPointer
    GraphPreserved
    ReclaimsTheRest
PROPERTIES
    CollectionEnds
CHECK_DEADLOCK FALSE
