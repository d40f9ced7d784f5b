SPECIFICATION Spec
CONSTANTS
    Threads = {t1}
    Rates <- TwoSteps
    MaxSend = 1
    MaxDup = 0
    CounterRange = 64
    t1 = t1
INVARIANTS AnswersBelongToStep
