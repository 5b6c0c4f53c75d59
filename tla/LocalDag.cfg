CONSTANTS
    NoTask = NoTask
    MaxWorkers = 2
    Pipelines <- MCPipelines
SPECIFICATION FairSpec
INVARIANTS TypeOK UpstreamIsOver ExitTasksAreTold SuccessMeansNoFailure NoStrayCalls
PROPERTY PipelineEnds
CHECK_DEADLOCK FALSE
