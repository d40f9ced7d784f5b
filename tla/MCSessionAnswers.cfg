SPECIFICATION FairSpec
CONSTANTS
    Threads = {t1}
    Rates <- ThreeSteps
    MaxSend = 1
    MaxDup = 1
    CounterRange = 64
    t1 = t1
INVARIANTS AnswersCountedOnce StopsPromptly LossNotOverstated
PROPERTIES Termination
