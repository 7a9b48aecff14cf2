---------------------------- MODULE MCSemverManifest ----------------------------
(***************************************************************************)
(* SemverManifest for TLC: every list of up to three bundles over a small  *)
(* set of bundles.                                                         *)
(***************************************************************************)
EXTENDS SemverManifest

CONSTANTS A, B, x, y

V(c, b) == [core |-> c, build |-> b]

B1(text, version, channels, def) ==
    [package |-> A, text |-> text, version |-> version,
     channels |-> channels, default |-> def]

\* Two versions, one of them with and without a build-id, in one or both of two
\* channels, and a bundle without version.
Versioned ==
    {B1("version", v, cs, d) :
        v \in {V(2, 0), V(2, 1), V(3, 0)},
        cs \in {<<x>>, <<x, y>>, <<y, x>>}, d \in {NULL, x, y}}
    \cup {B1("empty", Zero, <<x>>, x)}

Lists(S, n) == UNION {[1..k -> S] : k \in 0..n}

\* The lists that end in an error before the heads are compared, a bundle that
\* names a channel twice, and build-ids that are refused, one of them of 0.0.0.
Odd ==
    Lists({B1("version", V(2, 0), <<x>>, NULL), B1("version", V(2, 1), <<x, x>>, x),
           B1("invalid", Zero, <<x>>, NULL),
           B1("version", V(2, 2), <<x>>, x), B1("version", V(4, 3), <<y>>, y),
           B1("version", V(1, 2), <<>>, x),
           B1("empty", Zero, <<x, y>>, x), B1("version", Zero, <<>>, y),
           [B1("version", V(3, 0), <<x>>, NULL) EXCEPT !.package = B]}, 3)

MCInputs == Lists(Versioned, 3) \cup Odd
=============================================================================
