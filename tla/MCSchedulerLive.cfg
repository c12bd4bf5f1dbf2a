SPECIFICATION Spec
CONSTANTS
    u1 = u1
    u2 = u2
    u3 = u3
    s1 = s1
    x = x
    z = z
    Nobody = Nobody
    Requests <- MCPair
    Streams <- MCStreams
    Timed <- MCTimed
    PriorityOf <- MCPriorityOf
    PromptBytes <- MCPromptBytes
    MaxContextTokens = 1
    MaxPending = 2
PROPERTIES
    KeepsPromise
    AcceptedIsAnswered
    WorkerStops
\* The worker exits on shutdown and the callers finish.
CHECK_DEADLOCK FALSE
