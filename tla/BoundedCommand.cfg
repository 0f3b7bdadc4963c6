CONSTANTS
    Child = child
    Descendants = {d1, d2}
    Capacity = 1
    Burst = 2
    Deadline = 1
    MaxOutput = 2
SPECIFICATION Spec
CHECK_DEADLOCK FALSE
INVARIANTS
    AnswerHonest
PROPERTIES
    CallReturns
