SPECIFICATION Spec
CONSTANTS
    Requests = {r1, r2}
    PoolSize = 1
INVARIANTS
    AnswerIsTrue
    ConnectionsReturned
PROPERTIES
    ReadinessAnswers
