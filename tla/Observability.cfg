SPECIFICATION Spec
CONSTANTS
    EventDesigns <- EDesigns
    EventCatalog <- Catalog
    Observers = {"app", "irq"}
    Isrs = {"irq"}
    MaxTime = 2
    NoEvent = NoEvent
    LogDesigns <- LDesigns
    Sinks <- MCSinks
INVARIANTS
    HistoryTrue
    
    LogKeepsRecords

    
