SPECIFICATION Spec
CONSTANTS
    s = s
    u = u
    r = r
    NoTask = NoTask
    Tasks <- MCReuse
    StreamTasks <- MCStreams
    IdOf <- MCIdOf
    MaxTokens = 1
    ChannelSize = 1
    MaxCancels = 0
PROPERTIES
    StreamEnds
    AbandonedWorkStops
\* The client may leave and everything end.
CHECK_DEADLOCK FALSE
