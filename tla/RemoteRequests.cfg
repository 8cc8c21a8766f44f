SPECIFICATION Spec
CONSTANTS
    RequestDesigns <- MCDesigns
    Links <- MCLinks
INVARIANTS
    BooksExact
    AnswersRight
PROPERTIES
    Answered
