SPECIFICATION FairSpec
CONSTANT
    Blueprints <- MCBlueprints
INVARIANTS
    BuiltinsClosed
    GraphSound
    
PROPERTIES
    Normalised
