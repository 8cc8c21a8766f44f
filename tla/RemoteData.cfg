CONSTANTS
    StreamDesigns <- MCStreamDesigns
    PublicationDesigns <- MCPublicationDesigns
SPECIFICATION DataSpec
INVARIANTS
    
    PublicationsSound
PROPERTIES
    StreamsProgress
    
