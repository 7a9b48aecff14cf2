------------------------------ MODULE MCPopulator ------------------------------
(******************************************************************************)
(* An instance of Populator for TLC.  In package A, a1 comes from a          *)
(* directory (it has no image) and skips a2 before it is there, so that a2 is *)
(* listed and new at once when it is added.  a2 is in two channels and        *)
(* replaces a3, which has two images: a root without a default channel, and   *)
(* one that replaces a2 in turn.  Package B has one image.                    *)
(******************************************************************************)
EXTENDS Populator, TLC

CONSTANTS a1, a2, a3, b1, A, B, x, y

MCPkgOf == [n \in Names |-> IF n = b1 THEN B ELSE A]

MCVersionOf ==
    [n \in Names |-> IF n \in {a1, b1} THEN 1 ELSE IF n = a2 THEN 2 ELSE 3]

Bdl(n, path, replaces, skips) ==
    [name |-> n, path |-> path, keyed |-> TRUE, replaces |-> replaces,
     skips |-> skips, provides |-> FALSE, invalid |-> FALSE]

Img(n, path, replaces, skips, channels, default) ==
    [bundle |-> Bdl(n, path, replaces, skips), channels |-> channels,
     default |-> default]

MCImages ==
    {Img(a2, "i1", a3, <<>>, {x, y}, x),
     Img(a3, "i2", NULL, <<>>, {x}, NULL),
     Img(a3, "i3", a2, <<>>, {y}, y),
     Img(b1, "i4", NULL, <<>>, {x}, x)}

MCBundleImages == {[Bdl(a1, NULL, NULL, <<a2>>) EXCEPT !.keyed = FALSE]}

MCManifests == {[package |-> A, heads |-> x :> a1, default |-> x]}

=============================================================================
