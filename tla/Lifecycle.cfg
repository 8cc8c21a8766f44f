\* An executor, two services, work on both queues, two callers.
SPECIFICATION FairSpec
CONSTANTS
    N = 3
    Deps <- Chain
    Services = {2, 3}
    Executors = {1}
    R = 2
    Target <- Targets
    RegDeps <- Owners
    AbortOnTimeout = {1, 2}
    Callers = {t1, t2}
INVARIANTS
    DependenciesUsable
    HooksSound
    ActivationBarrier
    FailuresVisible

    
CHECK_DEADLOCK FALSE
