----------------------------- MODULE MCMigrations -----------------------------
(***************************************************************************)
(* Instances of Migrations for TLC: a package with two channels and a      *)
(* bundle that is skipped in one of them, stored or not; a package of one  *)
(* bundle that has neither version nor image; and bundles that are in no   *)
(* channel yet.                                                            *)
(***************************************************************************)
EXTENDS Migrations, TLC

CONSTANTS a, b, c, d, x, k1, k2, v1, v2, v3, v4, p1, p2, p3, p4, P, stable, beta

C(version, replaces, skips, provides, requires, images) ==
    [version |-> version, replaces |-> replaces, skips |-> skips,
     provides |-> provides, requires |-> requires, images |-> images]

MCCsv ==
    a :> C(v1, EMPTY, {}, {k1}, {}, TRUE) @@
    b :> C(v2, a, {}, {k1}, {k2}, TRUE) @@
    c :> C(v4, b, {x}, {k1, k2}, {k1}, TRUE) @@
    x :> C(v3, b, {}, {k1}, {k1, k2}, FALSE) @@
    d :> C(EMPTY, EMPTY, {}, {k1}, {}, FALSE)

Ch(name, head) == [name |-> name, pkg |-> P, head |-> head]

E(id, channel, bundle, replaces, depth) ==
    [id |-> id, channel |-> channel, pkg |-> P, bundle |-> bundle,
     replaces |-> replaces, depth |-> depth]

MCPath == a :> p1 @@ b :> p2 @@ x :> p3 @@ c :> p4 @@ d :> EMPTY

\* The channel "stable" of head c, in the order in which it is walked.
Stable ==
    {E(1, stable, c, 4, 0), E(2, stable, x, NULL, 1), E(3, stable, c, 2, 1),
     E(4, stable, b, 5, 2), E(5, stable, a, NULL, 3)}

\* The channel "beta", whose head is b or the bundle that c skips.
Beta(head) ==
    {E(6, beta, head, 7, 0)} \cup
    IF head = b THEN {E(7, beta, a, NULL, 1)}
    ELSE {E(7, beta, b, 8, 1), E(8, beta, a, NULL, 2)}

Catalog(stored, cleared, deprecated, channel, entry, main) ==
    [stored |-> stored, cleared |-> cleared, path |-> MCPath, deprecated |-> deprecated,
     channel |-> channel, entry |-> entry, main |-> main]

MCCatalogs ==
    {Catalog({a, b, c, x}, {a, x}, deprecated, {Ch(stable, c), Ch(beta, b)},
             Stable \cup Beta(b), {1, 4, 5, 6, 7}) : deprecated \in {{}, {a}}} \cup
    {Catalog({a, b, c}, {a, b}, {}, {Ch(stable, c), Ch(beta, b)},
             Stable \cup Beta(b), {1, 4, 5, 6, 7}),
     Catalog({a, b, c, x}, {a, b}, {}, {Ch(stable, c), Ch(beta, x)},
             Stable \cup Beta(x), {1, 4, 5, 6, 7, 8}),
     Catalog({a, b, d}, {}, {}, {Ch(beta, d)}, {E(1, beta, d, NULL, 0)}, {1}),
     Catalog({d, x}, {}, {}, {}, {}, {})}

=============================================================================
