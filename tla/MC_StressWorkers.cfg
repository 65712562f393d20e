CONSTANTS
    Workers <- MCWorkers
    MaxRequests = 2
    Weight <- MCWeight
    MaxErrorSamples = 1
SPECIFICATION FairSpec
INVARIANTS TypeOK PickMatchesWeights IdsIssuedOnce ReportCountsAll
PROPERTIES Terminates
