SPECIFICATION FairSpec
CONSTANTS
    SideLenGameboard = 4
    Proposals <- LoopProposals
PROPERTIES
    EvaluationAnswers
CHECK_DEADLOCK FALSE
