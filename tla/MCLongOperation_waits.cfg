SPECIFICATION Spec
CONSTANTS
    None = None
    Op = {o1, o2, o3}
    Timeout = 2
INVARIANTS
    TypeOK
    AnswerHolds
    EndIsSeen
    MadeOnce
PROPERTIES
    CommandsReturn
