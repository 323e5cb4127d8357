SPECIFICATION Spec
CONSTANT
    MaxCalls = 6
PROPERTY
    ScanErrorMeansGone
