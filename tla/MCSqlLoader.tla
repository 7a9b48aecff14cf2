------------------------------ MODULE MCSqlLoader ------------------------------
(***************************************************************************)
(* An instance of SqlLoader for TLC, with the questions that Catalog asks  *)
(* of its databases: two packages that use the same channel names.         *)
(* Package A has a chain a3 -> a2 -> a1 whose top also     *)
(* skips a1, and which closes a cycle once a1 is published again as a      *)
(* bundle that replaces a3; a2 has an image without a version, so that     *)
(* rows that reference it have NULL foreign keys.  Package B has one       *)
(* bundle, from a directory of manifests (no image), of which there is     *)
(* also an invalid copy.                                                   *)
(***************************************************************************)
EXTENDS Catalog, TLC

CONSTANTS a1, a2, a3, b1, A, B, x, y

MCPkgOf == [n \in Names |-> IF n = b1 THEN B ELSE A]

Img(n, path, keyed, replaces, skips) ==
    [name |-> n, path |-> path, keyed |-> keyed, replaces |-> replaces,
     skips |-> skips, provides |-> n # a3, invalid |-> FALSE]

M(p, heads, default) == [package |-> p, heads |-> heads, default |-> default]

MCBundleImages ==
    {Img(a1, "i1", TRUE, NULL, <<>>),
     Img(a1, "i4", TRUE, a3, <<>>),
     Img(a2, "i2", FALSE, a1, <<>>),
     Img(a3, "i3", TRUE, a2, <<a1>>),
     Img(b1, NULL, FALSE, NULL, <<>>),
     [Img(b1, NULL, FALSE, NULL, <<>>) EXCEPT !.invalid = TRUE]}

MCManifests ==
    {M(A, x :> a1, NULL),
     M(A, x :> a3 @@ y :> a2, x),
     M(A, x :> a2 @@ y :> a3, x),
     M(B, x :> b1, x)}

=============================================================================
