SPECIFICATION Spec
CONSTANTS
    Rows <- MCRows
    SizeMax = 65536
CHECK_DEADLOCK FALSE
INVARIANTS
    NeverOutOfRange
    TagsAreThoseSent
    NoTagLost
PROPERTY
    ParsingEnds
