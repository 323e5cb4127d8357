SPECIFICATION Spec
CONSTANTS
    MaxSeq = 10
    MaxSinkFaults = 0
INVARIANT
    SeqGapsDeclared
