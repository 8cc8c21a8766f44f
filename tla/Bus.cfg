\* Every kind of route.
SPECIFICATION FairSpec
CONSTANTS
    Catalogs <- Sound
    e1 = e1
    e2 = e2
    Emitters <- Two
INVARIANTS
    QueueExact
    NewestSeen

    
CHECK_DEADLOCK FALSE
