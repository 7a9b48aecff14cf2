------------------------------ MODULE MCMixedIndex ------------------------------
(***************************************************************************)
(* An instance of MixedIndex for TLC: package A in semver mode, with       *)
(* versions 1.0.0 and 1.0.1, and package B in replaces mode.               *)
(***************************************************************************)
EXTENDS MixedIndex, TLC

CONSTANTS v100, v101, b1, A, B, x

MCPkgOf == [n \in Names |-> IF n = b1 THEN B ELSE A]

MCVersionOf == [n \in Names |-> [minor |-> 0, patch |-> IF n = v101 THEN 1 ELSE 0]]

MCChanRank == x :> 1

Img(n, path) ==
    [name |-> n, path |-> path, keyed |-> TRUE, replaces |-> NULL,
     skips |-> <<>>, provides |-> FALSE, invalid |-> FALSE]

MCSemverImages ==
    {[image |-> Img(n, path), channels |-> {x}, default |-> x] :
        <<n, path>> \in {<<v100, "i1">>, <<v101, "i2">>}}

MCBundleImages == {Img(b1, "i3")}

MCManifests == {[package |-> B, heads |-> x :> b1, default |-> x]}

=============================================================================
