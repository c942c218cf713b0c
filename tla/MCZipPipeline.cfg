CONSTANTS
    Entries <- MCEntries
    BlockSize = 2
    MinParallelFileSize = 4
    WindowSize = 1
    QueueCap = 3
    CpuLimits = {3}
    MemLimit = 0
    MaxFaults = 1
    ManifestFlagChoices = {FALSE}
SPECIFICATION Spec
INVARIANT TypeOK
INVARIANT DeterministicLayout
INVARIANT CpuSlotsAccounted
INVARIANT MemoryReservationsAccounted
INVARIANT SuccessfulExitIsComplete
INVARIANT ErrorRunCleansUp
