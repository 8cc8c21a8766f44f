CONSTANTS
    ServiceDesigns <- MCServiceDesigns
    FramingDesigns <- MCFramingDesigns
    Block <- MCBlock
SPECIFICATION TransportSpec
INVARIANTS
    LinkSound
    EndsAgree
    
PROPERTIES
    LinkServes
