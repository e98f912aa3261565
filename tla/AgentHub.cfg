SPECIFICATION FairSpec
CONSTANTS
    Conns <- MCTwo
    Ops = {o1, o2}
    Cancellable = {o1}
    OutboxCap = 1
INVARIANTS AnswersTruthful WaiterKnown
PROPERTIES OwnRemoval ServedCallReturns
CHECK_DEADLOCK FALSE
