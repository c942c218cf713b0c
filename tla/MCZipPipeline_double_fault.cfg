CONSTANTS
    Entries <- MCEntries
    BlockSize = 2
    MinParallelFileSize = 4
    WindowSize = 1
    QueueCap = 2
    CpuLimits = {2}
    MemLimit = 0
    MaxFaults = 2
    ManifestFlagChoices = {FALSE}
SPECIFICATION Spec
INVARIANT ErrorRunCleansUp
