CONSTANTS
    Blank_ = Blank_
    Blank <- MCBlank
    Argv <- MCArgv
    FS <- MCFS
    Lists <- MCLists
    CompOrder <- MCCompOrder
    JarChoices = {FALSE, TRUE}
    DirChoices = {FALSE, TRUE}
    ManifestChoices = {FALSE}
SPECIFICATION FrontEndSpec
INVARIANT TypeOK
INVARIANT MappingsFollowRequests
INVARIANT DestFollowsFlagsInForce
INVARIANT ClimbingNamesOnlyFromOutsideSources
INVARIANT CommandLineConflictIsReported
INVARIANT ArchiveParentsPrecedeChildren
