----------------------------- MODULE MCZipPaths -----------------------------
(* Instances of ZipPaths for TLC: every list of up to MaxMappings mappings  *)
(* over a few destinations and every source kind.                          *)
EXTENDS ZipPaths

MaxMappings == 3

MappingsOver(dests, kinds) ==
    BoundedSeq([dest: dests, kind: kinds], MaxMappings)

\* Three levels under "a" (so a walk can stop at an existing directory) and
\* a sibling tree "b".
TreeDests == {<<"a">>, <<"a", "b">>, <<"a", "b", "a">>, <<"b", "a">>}

\* A jar's META-INF tree and files that sort before and after "META-INF"
\* as strings.
JarDests == {<<"LICENSE">>, <<"META-INF", "a">>, <<"META-INF", "b", "a">>,
             <<"a", "b">>}

\* A user file at the manifest's destination, and one under it.
AliasDests == {ManifestDest, <<"META-INF", "MANIFEST.MF", "a">>}
MCTreeMappings == MappingsOver(TreeDests, Kinds)

MCJarMappings == MappingsOver(JarDests, {"file", "dir"})

\* Both sets of lists in one run.
MCTreeAndJarMappings == MCTreeMappings \cup MCJarMappings

MCAliasMappings == MappingsOver(AliasDests, {"file"})

\* A directory "a" beside a file "a.txt": "a" < "a.txt" < "a/" as strings.
JarDirDests == {<<"a">>, <<"a.txt">>, <<"a", "b">>}

MCJarDirMappings == MappingsOver(JarDirDests, {"file", "dir"})
====
