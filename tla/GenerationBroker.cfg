\* two workers race over two jobs in two lanes
SPECIFICATION Spec
CONSTANTS
    Jobs <- TwoJobs
    Workers = {w1, w2}
    LaneOf <- TwoLanes
    BurstLimit = 1
    Capacity = 1
INVARIANTS TypeOK KeysAgree NeverInTwoPlaces
PROPERTY KeepsContract
