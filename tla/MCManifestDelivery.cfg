SPECIFICATION DeliverySpec
CONSTANTS
    Deliveries = {d1, d2, d3}
    Malformed = {d3}
    QueueDepth = 1
    MaxRuns = 2
    MaxInFlight = 1
INVARIANTS
    OneHandlerAtATime
PROPERTIES
    
    ImplementsContract
    PipelineCompletes
