\* Three tasks, a frame pipeline and async, delays of one tick.
SPECIFICATION FairSpec
CONSTANTS
    async = async
    main = main
    Unscheduled = Unscheduled
    MaxTasks = 3
    Pipeline <- MCPipeline
    Frames <- MCFrames
    Intervals <- MCIntervals
    Calls <- MCCalls
INVARIANTS QuietAfterDestroy OnceInOrder
PROPERTIES ImplementsTaskPool EventuallyCalled DestroyEnds
