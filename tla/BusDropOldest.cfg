\* DropOldest races the drain.
SPECIFICATION Spec
CONSTANTS
    Catalogs <- DropOldest
    e1 = e1
    e2 = e2
    Emitters <- Two
INVARIANTS FifoExact
CHECK_DEADLOCK FALSE
