SPECIFICATION FairSpec
CONSTANTS
    Numbers <- Fewer
    Shares <- SomeShares
    Lists <- TwoRates
    Width = 5
    MaxRates = 5
    MaxRuns = 2
INVARIANTS CsvWellFormed RatesAreRange RunsConfigured
PROPERTIES LinesKept RangeEnds
