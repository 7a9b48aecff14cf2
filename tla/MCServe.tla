------------------------------- MODULE MCServe -------------------------------
(***************************************************************************)
(* Instances of Serve for TLC: two contents of an index, directories of    *)
(* two files of which one may be broken or ignored, config maps that are   *)
(* whole, lack a key, or have a bundle without its CRD, and directories of *)
(* manifests in which a file cannot be used.                               *)
(***************************************************************************)
EXTENDS Serve, TLC

CONSTANTS a, b, A, B, f, g

MCIndexes == {{a, A}, {a, b, A, B}}

File(items, parses, ignored) == [items |-> items, parses |-> parses, ignored |-> ignored]

MCDirectories ==
    {f :> File({a, A}, TRUE, FALSE) @@ g :> File({b, B}, p, i) : p, i \in BOOLEAN}

CM(crds, csvs, packages) == [crds |-> crds, csvs |-> csvs, packages |-> packages]

Bundle(name, owned) == [name |-> name, owned |-> owned]

MCConfigMaps ==
    {CM("ok", <<Bundle(a, TRUE), Bundle(b, TRUE)>>,
        <<[name |-> A, head |-> a], [name |-> B, head |-> b]>>),
     CM("ok", <<Bundle(b, TRUE)>>, <<[name |-> B, head |-> b]>>),
     CM("duplicate", <<Bundle(a, FALSE)>>, <<[name |-> A, head |-> a], [name |-> B, head |-> b]>>),
     CM("ok", <<Bundle(a, TRUE)>>, NULL),
     CM("ok", NULL, <<>>),
     CM("missing", <<>>, <<>>)}

Csv(name, owned, state) ==
    [holds |-> "csv", name |-> name, owned |-> owned, head |-> NULL, state |-> state]

Package(name, head, state) ==
    [holds |-> "package", name |-> name, owned |-> TRUE, head |-> head, state |-> state]

\* A file with neither, in which no name counts.
Other(state) ==
    [holds |-> "other", name |-> b, owned |-> TRUE, head |-> NULL, state |-> state]

\* The package manifest of A comes before one of its bundles.
MCManifests ==
    {<<Csv(a, TRUE, "ok"), Package(A, a, "ok"), Csv(b, TRUE, s[1]), Package(B, b, s[2])>> :
        s \in {<<"ok", "ok">>, <<"hidden", "ok">>, <<"broken", "hidden">>,
               <<"unlisted", "unlisted">>}} \cup
    {<<Csv(a, FALSE, "ok"), Package(A, a, "unreadable")>>,
     <<Csv(a, TRUE, "ok"), Package(A, a, "broken")>>,
     <<Csv(a, TRUE, "unreadable")>>,
     <<Other("ok"), Csv(a, TRUE, "ok"), Package(A, a, "ok")>>,
     <<Csv(a, TRUE, "ok"), Other("broken")>>}

=============================================================================
