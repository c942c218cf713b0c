CONSTANTS
    Mappings <- MCJarMappings
    JarChoices = {TRUE}
    DirChoices = {FALSE}
    ManifestChoices = {TRUE}
SPECIFICATION Spec
INVARIANT ParentsPrecedeChildren
