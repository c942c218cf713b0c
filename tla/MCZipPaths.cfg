CONSTANTS
    Mappings <- MCTreeAndJarMappings
    JarChoices = {FALSE, TRUE}
    DirChoices = {FALSE, TRUE}
    ManifestChoices = {FALSE, TRUE}
SPECIFICATION Spec
INVARIANT TypeOK
INVARIANT ConflictIsReported
INVARIANT EntryNamesUnique
