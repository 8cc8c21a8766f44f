\* Every kind of registration.
SPECIFICATION FairSpec
CONSTANTS
    Declarations <- Sound
    Delays <- ZeroOrTwo
    c1 = c1
    c2 = c2
    Clients <- Two

    
PROPERTIES
    ReleasesKept
    OccurrencesRun
CHECK_DEADLOCK FALSE
