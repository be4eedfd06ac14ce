SPECIFICATION AggSpec
CONSTANTS
    s1 = s1  s2 = s2  NaN = NaN
    Strategies = {s1, s2}
    Payloads <- MCPayloads
    Weights = {0, 1, 2}
    Base = 60
CHECK_DEADLOCK FALSE
INVARIANTS AggTypeOK MergedIsLastKnownMean DrawdownIsWorst PeakAtLeastBase NoLossNoDrawdown OverallIsPessimistic
