CONSTANTS
    Mappings <- MCJarDirMappings
    JarChoices = {TRUE}
    DirChoices = {TRUE}
    ManifestChoices = {FALSE}
SPECIFICATION Spec
INVARIANT JarEntryOrder
