CONSTANTS
    Self = Self
    NoPipe = NoPipe
    Listening = Listening
    Callers = 2
    MaxInstances = 2
SPECIFICATION FairSpec
INVARIANTS AnswerKept
PROPERTIES NeverNotFound CallReturns StopReturns
