\* The supervisor and the health facility, for four designs.
SPECIFICATION FairSpec
CONSTANTS
    Designs <- Sound
    StaleTicks = 1
    Grace = 0
    Depth = 2
    Ingress = 1
    Attempts = 2
    Cooldown = 1
INVARIANTS
    
    CycleSound
PROPERTIES
    
    StopEnds
CHECK_DEADLOCK FALSE
