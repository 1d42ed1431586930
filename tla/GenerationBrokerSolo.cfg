\* one worker, one job in each lane, under fairness
SPECIFICATION FairSpec
CONSTANTS
    Jobs <- ThreeJobs
    Workers = {w1}
    LaneOf <- ThreeLanes
    BurstLimit = 1
    Capacity = 1
INVARIANTS BurstIsBounded JobsKeepTheirLane
PROPERTY StandardIsServed
