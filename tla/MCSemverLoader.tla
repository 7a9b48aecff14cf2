----------------------------- MODULE MCSemverLoader -----------------------------
(***************************************************************************)
(* Instances of SemverLoader for TLC: one package, versions 1.0.0, 1.0.1,  *)
(* 1.0.2 and 1.1.0 in any order, and a second bundle of version 1.0.1.      *)
(***************************************************************************)
EXTENDS SemverLoader, TLC

CONSTANTS v100, v101, w101, v102, v110, A, x, y

MCPkgOf == [n \in Names |-> A]

MCVersionOf ==
    [n \in Names |->
        [minor |-> IF n = v110 THEN 1 ELSE 0,
         patch |-> CASE n \in {v101, w101} -> 1 [] n = v102 -> 2 [] OTHER -> 0]]

MCChanRank == x :> 1 @@ y :> 2

Img(n, path) ==
    [name |-> n, path |-> path, keyed |-> TRUE, replaces |-> NULL,
     skips |-> <<>>, provides |-> FALSE, invalid |-> FALSE]

SB(n, path, channels, default) ==
    [image |-> Img(n, path), channels |-> channels, default |-> default]

\* Every bundle names a default channel that it is in, or none.
GoodImages ==
    {SB(v100, "i1", {x}, NULL), SB(v101, "i2", {x, y}, y),
     SB(w101, "i5", {x}, NULL), SB(v102, "i3", {x}, x),
     SB(v110, "i4", {x, y}, NULL)}

=============================================================================
