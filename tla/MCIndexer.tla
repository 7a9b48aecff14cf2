------------------------------- MODULE MCIndexer -------------------------------
(***************************************************************************)
(* An instance of Indexer for TLC: a package of three bundles, one of them *)
(* without image, and a package of one bundle, which has no version.       *)
(***************************************************************************)
EXTENDS Indexer, TLC

CONSTANTS a1, a2, a3, b1, A, B

MCPkgOf == [b \in Bundles |-> IF b = b1 THEN B ELSE A]

MCVersionOf == a1 :> 1 @@ a2 :> 2 @@ a3 :> 3 @@ b1 :> NULL

\* A registry call with its --permissive, for "opm registry".
Call(kind, args, permissive) ==
    [file |-> TRUE, kind |-> kind, args |-> args, permissive |-> permissive]

Add(mode, overwrite) == [mode |-> mode, overwrite |-> overwrite]

\* An update of an index, with --from-index, --generate and --out-dockerfile.
Update(r, from, generate, named) ==
    [file |-> FALSE, from |-> from, generate |-> generate, named |-> named] @@ r

\* --generate and --permissive.
Ways == {<<FALSE, FALSE>>, <<FALSE, TRUE>>, <<TRUE, FALSE>>}

MCRequests ==
    {Update(Add("replaces", f[1]) @@ Call("add", s, w[2]), f[2], w[1], FALSE) :
        s \in {<<a2, b1>>, <<a1, a2>>}, w \in Ways,
        f \in {<<FALSE, FALSE>>, <<FALSE, TRUE>>, <<TRUE, TRUE>>}} \cup
    {Update(Add("semver", TRUE) @@ Call("add", <<a2>>, FALSE), TRUE, FALSE, FALSE)} \cup
    {Update(Call("rm", <<A, B>>, w[2]), TRUE, w[1], n) : n \in BOOLEAN, w \in Ways} \cup
    {Update(Call("prune", <<B>>, w[2]), TRUE, w[1], FALSE) : w \in Ways} \cup
    {Update(Call("deprecate", s, w[2]), TRUE, w[1], FALSE) :
        s \in {<<a2, a1>>, <<b1, a1>>}, w \in Ways} \cup
    {Update(Call("deprecate", <<a2>>, FALSE), FALSE, TRUE, FALSE),
     Update(Call("prune-stranded", <<>>, FALSE), TRUE, FALSE, FALSE)} \cup
    {[Call("export", s, FALSE) EXCEPT !.file = FALSE] : s \in {<<>>, <<A>>}} \cup
    {Add("replaces", FALSE) @@ Call("add", <<a1>>, p) : p \in BOOLEAN} \cup
    {Call("rm", <<A>>, p) : p \in BOOLEAN} \cup
    {Call("prune", <<A>>, FALSE), Call("prune-stranded", <<>>, FALSE)}

C(stored, listed) == [stored |-> stored, listed |-> listed, deprecated |-> {}]

MCContents ==
    {C({a1, a2, b1}, {a1, a2, b1}), C({a1, a2, a3, b1}, {a1, a3, b1}), C({b1}, {b1})}

=============================================================================
