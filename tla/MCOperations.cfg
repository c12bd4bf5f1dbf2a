SPECIFICATION Operations
CONSTANTS
    probe = probe
    other = other
    Commands = {probe, other}
    CommandKinds <- MCCommandKinds
    DaemonMaxModels = 1
    HealthMaxQueue = 1
    DaemonMaxTexts = 1
    Syscalls = {1, 2, 3}
    AllowedSyscalls <- MCAllowedSyscalls
    Logins = {a, b}
    MaxFailedAttempts = 2
    RateLimitDuration = 1
    AttemptWindow = 1
    MaxRequests = 1
    RequestWindow = 1
    SessionTimeout = 3
    MaxTime = 4
    MaxFailures = 2
    BatchRequests = 3
    MaxBatchSize = 2
    MaxBatchTokens = 3
    BatchPrompts = {0, 4, 5, 16}
    BatchSlots = 2
    MaxSlotTokens = 1
    GpuDriverDevices = 2
    GpuCapacity = 2
    GpuPoolMax = 2
    GpuMaxAllocations = 3
    MaxGpus = 4
    MaxLayers = 7
    ManyLayers = 4
    ManyGpus = 3
    TensorGpus = 3
    MicroBatches = 3
    MaxElements = 7
    MoeExperts = 3
    MoeTopK = 2
    MoeBatch = 3
    GenLoaders = {a, b}
    GenContext = 4
    GenBatch = 3
    GenCheckpoint = 2
    GenMaxContext = 4
    GenMinContext = 1
    GenMaxPrompt = 5
    GenMaxTokens = 3
    SpecTokens = {t1, t2}
    SpecPrompt = 2
    SpecMaxTokens = 2
    SpecMaxDraft = 2
    SpecNgram = 1
    SpecMinWindow = 0
    SpecMaxWindow = 2
    SpecHistory = 2
    SpecThreshold = 11
    SecHoldback = 3
    SecMaxText = 13
    SecMaxMatches = 1
    KeyTasks = {a, b}
    SaltCallers = {a, b}
    KeyValues = {k1}
    NonceValues = {n1, n2, n3}
    MaxKeys = 2
    MaxSealed = 3
    NonceHistory = 2
    AuditMax = 1
    MaxSalts = 3
    WeightSteps <- MCWeightSteps
    MinSamples = 1
    MaxSamples = 1
    MaxRecorded = 2
    MaxCycles = 2
    Latencies = {10, 12}
    MaxErrorRise = 60
    MaxLatencyRise = 30
    VariantLabels = {1, 2, 3}
    SplitTotal = 3
INVARIANTS
    
    
    BatchesInOrder
    
    GenerationHonest
    SpeculationIsGreedy
    
    
    
\* Everything comes to an end at a shutdown or at a bound.
CHECK_DEADLOCK FALSE
