SPECIFICATION KvSpec
CONSTANTS
    KvCallers = {a, b}
    KvMaxPages = 1
    PageTokens = 2
    KvKeep = 0
    KvMaxSeqLen = 4
    KvMaxSeqs = 2
    KvMaxLen = 3
INVARIANT ReadsAppended
CHECK_DEADLOCK FALSE
