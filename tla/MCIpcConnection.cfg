SPECIFICATION Spec
CONSTANTS
    s = s
    u = u
    r = r
    NoTask = NoTask
    Tasks <- MCTasks
    StreamTasks <- MCStreams
    IdOf <- MCIdOf
    MaxTokens = 1
    ChannelSize = 1
    MaxCancels = 1
INVARIANTS
    NoDataAfterAck
    ToldOnce
\* The client may leave and everything end.
CHECK_DEADLOCK FALSE
