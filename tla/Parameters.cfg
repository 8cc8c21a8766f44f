SPECIFICATION FairSpec
CONSTANTS
    p1 = p1
    p2 = p2
    c1 = c1
    c2 = c2
    Worker = Worker
    Main = Main
    Group = Group
    Designs <- MCDesigns
    Params <- MCParams
    Order <- MCOrder
    Clients <- MCClients
    MaxWrites = 2
    MaxBoots = 2

    
PROPERTIES
    DurableHistory
    DeferredWritten
CHECK_DEADLOCK FALSE
