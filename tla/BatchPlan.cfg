CONSTANTS
    Grouped = Grouped
    Wide = Wide
    Alone = Alone
    Refused = Refused
    Callers = {Grouped, Wide, Alone, Refused}
    Request <- MCRequest
    None = None
SPECIFICATION FairSpec
INVARIANTS
    AnsweredInOrder
PROPERTIES
    ImplementsMembers
    CallsReturn
