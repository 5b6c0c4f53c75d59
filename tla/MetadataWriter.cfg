CONSTANTS
    p1 = p1
    p2 = p2
    w1 = w1
    w2 = w2
    NoPod = NoPod
    Pods <- MCPods
    Setups <- MCSetups
    Upstream <- MCUpstream
    MaxFailures = 1
    MaxBacklog = 2
SPECIFICATION FairSpec
INVARIANTS ContextIsCached RecordedOnce LabelsAreTrue InputsAreLinked
PROPERTIES PodsAreRecorded
CHECK_DEADLOCK FALSE
