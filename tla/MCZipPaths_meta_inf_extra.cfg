CONSTANTS
    Mappings <- MCJarMappings
    JarChoices = {TRUE}
    DirChoices = {FALSE}
    ManifestChoices = {FALSE}
SPECIFICATION Spec
INVARIANT MetaInfHasExtraField
