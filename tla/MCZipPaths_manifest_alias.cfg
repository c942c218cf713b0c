CONSTANTS
    Mappings <- MCAliasMappings
    JarChoices = {TRUE}
    DirChoices = {FALSE}
    ManifestChoices = {TRUE}
SPECIFICATION Spec
INVARIANT EntryNamesUnique
