--------------------------- MODULE MigrationsProofs ---------------------------
(***************************************************************************)
(* Proofs about Migrations: what an index holds after migrations 000 to    *)
(* 012, for every catalog that an older release can have been given and    *)
(* every version it was built with.                                        *)
(*                                                                         *)
(* The invariant says, version by version, what the tables hold: the apis  *)
(* by entry up to version 5 and by bundle from 6 on, the edges of the      *)
(* graph from 7 on, the properties from 9 on.  An index from before        *)
(* version 4 only gets past migration 004 without a channel, and then      *)
(* there is nothing to lose.                                               *)
(***************************************************************************)
EXTENDS Migrations, TLAPS

\* A leaf that names no prover is tried with SMT and Zenon, then again with
\* more time.
USE SMT, Zenon, SMTT(20), SMTT(30)

Provides == [n \in Names |-> Csv[n].provides]

Requires == [n \in Names |-> Csv[n].requires]

Main(c) == {e \in c.entry : e.id \in c.main}

\* The columns of the key of a bundle, in an index built with version v.
VersionOf(n, v) == IF v < 5 THEN NULL ELSE Csv[n].version

PathOf(n, c, v) == IF v < 2 THEN NULL ELSE c.path[n]

IsIndex(t) ==
    t = [version |-> t.version, bundle |-> t.bundle, channel |-> t.channel,
         entry |-> t.entry, provider |-> t.provider, requirer |-> t.requirer,
         image |-> t.image, dependency |-> t.dependency, property |-> t.property,
         deprecated |-> t.deprecated]

IsBundle(b) ==
    b = [name |-> b.name, csv |-> b.csv, path |-> b.path, version |-> b.version,
         replaces |-> b.replaces, skips |-> b.skips]

\* A bundle has its row, and a row with a name is that of a bundle.
BundlesKept(rows, c, v) ==
    /\ \A n \in c.stored : \E b \in rows : b.name = n
    /\ \A b \in rows :
          /\ IsBundle(b)
          /\ \/ b.name = NULL
             \/ /\ b.name \in c.stored /\ b.version = VersionOf(b.name, v)
                /\ b.path = PathOf(b.name, c, v)

\* The api tables up to version 5.
ByEntry(rows, c, apis) ==
    rows = UNION {{[api |-> k, of |-> <<e.id>>] : k \in apis[e.bundle]} : e \in Main(c)}

\* The api tables from version 6 on, for the bundles of channels.
ByName(rows, c, apis) ==
    \A e \in Main(c) : {r.api : r \in {x \in rows : x.of[1] = e.bundle}} = apis[e.bundle]

\* A reference to a bundle by the three columns of its key.
IsKey(k, c, v) ==
    /\ k[1] \in c.stored
    /\ {VersionOf(k[1], v), PathOf(k[1], c, v)} \cap {NULL, EMPTY} = {} =>
          k = <<k[1], VersionOf(k[1], v), PathOf(k[1], c, v)>>

PropertiesKept(rows, c, v) ==
    /\ \A r \in rows : /\ r = [type |-> r.type, value |-> r.value, of |-> r.of]
                       /\ IsKey(r.of, c, v)
    /\ \A e \in Main(c) :
          {r.value : r \in {x \in rows : x.type = "olm.gvk" /\ x.of[1] = e.bundle}}
             = Provides[e.bundle]

\* What the entries of a bundle n replace.
Replaced(n, c) ==
    {e.bundle : e \in {x \in c.entry :
        x.id \in {f.replaces : f \in {y \in c.entry : y.bundle = n}}}}

EdgesKept(b, c) ==
    /\ ({b.replaces} \cup b.skips) \ {EMPTY} = Replaced(b.name, c)
    /\ (\E e \in Main(c) : e.bundle = b.name)
          /\ ~ (\E n \in c.stored : b.name \in Csv[n].skips)
       => b.replaces = Csv[b.name].replaces

Migrated(t, c, v) ==
    /\ IsIndex(t) /\ t.entry = c.entry /\ t.channel = c.channel
    /\ t.version \in Int /\ v <= t.version /\ t.version <= Latest
    /\ v < 4 /\ 4 <= t.version => c.channel = {}
    /\ BundlesKept(t.bundle, c, v)
    /\ t.version < 6 => /\ ByEntry(t.provider, c, Provides)
                        /\ 3 <= v => ByEntry(t.requirer, c, Requires)
    /\ 6 <= t.version => /\ \A r \in t.provider : IsKey(r.of, c, v)
                         /\ ByName(t.provider, c, Provides)
                         /\ ByName(t.requirer, c, Requires)
    /\ v < 7 /\ 7 <= t.version => \A b \in t.bundle : b.name # NULL => EdgesKept(b, c)
    /\ 9 <= t.version => PropertiesKept(t.property, c, v)

\* What is known of the catalog the index was built from.
Given(c, v) ==
    /\ v \in -1 .. Latest
    /\ IsCatalog(c)
    /\ v < 9 => IsWalked(c)

\* The inductive invariant.
MInv ==
    /\ from = [catalog |-> from.catalog, version |-> from.version]
    /\ Given(from.catalog, from.version)
    /\ Migrated(db, from.catalog, from.version)
    /\ tx # NULL => Migrated(tx, from.catalog, from.version)
    /\ result = "ok" => db.version = Latest

-----------------------------------------------------------------------------
(***************************************************************************)
(* Steps                                                                   *)
(***************************************************************************)

\* setVersion changes nothing but the version.
LEMMA DoneFields ==
    ASSUME NEW t, IsIndex(t), t.version \in Int, NEW u, u = [t EXCEPT !.version = @ + 1]
    PROVE  /\ IsIndex(u) /\ u.version = t.version + 1
           /\ u.bundle = t.bundle /\ u.channel = t.channel /\ u.entry = t.entry
           /\ u.provider = t.provider /\ u.requirer = t.requirer
           /\ u.property = t.property
BY DEF IsIndex

\* Writing a table leaves the other ones alone.
LEMMA BundleWritten ==
    ASSUME NEW t, IsIndex(t), NEW X, NEW u, u = [t EXCEPT !.bundle = X]
    PROVE  /\ IsIndex(u) /\ u.version = t.version
           /\ u.bundle = X /\ u.channel = t.channel /\ u.entry = t.entry
           /\ u.provider = t.provider /\ u.requirer = t.requirer
           /\ u.property = t.property
BY DEF IsIndex

\* As BundleWritten, for the required apis.
LEMMA RequirerWritten ==
    ASSUME NEW t, IsIndex(t), NEW X, NEW u, u = [t EXCEPT !.requirer = X]
    PROVE  /\ IsIndex(u) /\ u.version = t.version
           /\ u.bundle = t.bundle /\ u.channel = t.channel /\ u.entry = t.entry
           /\ u.provider = t.provider /\ u.requirer = X
           /\ u.property = t.property
BY DEF IsIndex

\* As BundleWritten, for the tables that no property is about.
LEMMA OtherWritten ==
    ASSUME NEW t, IsIndex(t), NEW X, NEW u,
           \/ u = [t EXCEPT !.image = X]
           \/ u = [t EXCEPT !.dependency = X]
           \/ u = [t EXCEPT !.deprecated = X]
    PROVE  /\ IsIndex(u) /\ u.version = t.version
           /\ u.bundle = t.bundle /\ u.channel = t.channel /\ u.entry = t.entry
           /\ u.provider = t.provider /\ u.requirer = t.requirer
           /\ u.property = t.property
BY DEF IsIndex

\* A migration that writes none of the tables the invariant is about keeps it, when
\* nothing is asked of the version it leads to.
LEMMA Untouched ==
    ASSUME NEW c, NEW v \in Int, NEW t, Migrated(t, c, v), NEW u,
           IsIndex(u), u.version = t.version + 1, u.version <= Latest,
           u.version \notin {4, 6, 7, 9},
           u.bundle = t.bundle, u.channel = t.channel, u.entry = t.entry,
           u.provider = t.provider, u.property = t.property,
           u.requirer = t.requirer \/ u.version = 3
    PROVE  Migrated(u, c, v)
<1>1. /\ t.version \in Int /\ v <= t.version /\ u.version \in Int
      /\ 4 <= u.version => 4 <= t.version
      /\ 6 <= u.version => 6 <= t.version
      /\ 7 <= u.version => 7 <= t.version
      /\ 9 <= u.version => 9 <= t.version
      /\ u.version < 6 => t.version < 6
      /\ u.version = 3 => ~ (3 <= v)
  BY DEF Migrated, Latest
<1>2. u.version = 3 => ~ (6 <= u.version)
  OBVIOUS
<1>3. v <= u.version
  BY <1>1
<1> QED
  BY <1>1, <1>2, <1>3 DEF Migrated

\* Migration 007 writes the bundles only, and asks for their edges.
LEMMA EdgesWritten ==
    ASSUME NEW c, NEW v \in Int, NEW t, Migrated(t, c, v), t.version = 6, NEW u,
           IsIndex(u), u.version = 7, v < 7,
           u.channel = t.channel, u.entry = t.entry,
           u.provider = t.provider, u.requirer = t.requirer,
           BundlesKept(u.bundle, c, v),
           \A b \in u.bundle : b.name # NULL => EdgesKept(b, c)
    PROVE  Migrated(u, c, v)
<1>1. /\ v < 4 => c.channel = {}
      /\ \A r \in t.provider : IsKey(r.of, c, v)
      /\ ByName(t.provider, c, Provides) /\ ByName(t.requirer, c, Requires)
      /\ t.channel = c.channel /\ t.entry = c.entry
  BY DEF Migrated
<1>2. 7 \in Int /\ v <= 7 /\ 7 <= Latest /\ ~ (7 < 6) /\ ~ (9 <= 7)
  BY DEF Latest
<1> QED
  BY <1>1, <1>2 DEF Migrated

\* What the invariant says of a file at the latest version.
LEMMA AtLatest ==
    ASSUME NEW c, NEW v, NEW t, Migrated(t, c, v), t.version = Latest
    PROVE  /\ t.entry = c.entry /\ BundlesKept(t.bundle, c, v)
           /\ ByName(t.provider, c, Provides) /\ ByName(t.requirer, c, Requires)
           /\ PropertiesKept(t.property, c, v)
           /\ v < 7 => \A b \in t.bundle : b.name # NULL => EdgesKept(b, c)
<1>1. 6 <= t.version /\ 7 <= t.version /\ 9 <= t.version
  BY DEF Latest
<1> QED
  BY ZenonT(30), <1>1 DEF Migrated

\* A file whose migration succeeded is at the latest version.
LEMMA OkAtLatest ==
    ASSUME MInv, result = "ok"
    PROVE  /\ Migrated(db, from.catalog, from.version) /\ db.version = Latest
           /\ IsCatalog(from.catalog)
BY ZenonT(30) DEF MInv, Given

\* Up to the migration that a step runs, what it finds is what the invariant says.
LEMMA AtVersion ==
    ASSUME MInv, NEW n \in 0 .. Latest, At(n)
    PROVE  /\ from.version \in Int /\ Given(from.catalog, from.version)
           /\ Migrated(tx, from.catalog, from.version)
           /\ tx.version = n - 1 /\ tx.version \in Int /\ IsIndex(tx)
           /\ from.version < n /\ tx.version + 1 = n
<1>1. tx # NULL /\ tx.version = n - 1
  BY DEF At
<1>2. Migrated(tx, from.catalog, from.version) /\ Given(from.catalog, from.version)
  BY <1>1 DEF MInv
<1>3. from.version \in Int
  BY <1>2 DEF Given, Latest
<1>4. IsIndex(tx) /\ from.version <= tx.version
  BY <1>2 DEF Migrated
<1> QED
  BY <1>1, <1>2, <1>3, <1>4 DEF Latest

\* The invariant after a step of the transaction.
LEMMA TxStep ==
    ASSUME MInv, UNCHANGED <<db, from, result>>,
           Migrated(tx', from.catalog, from.version)
    PROVE  MInv'
BY DEF MInv, Given, Migrated

\* Migrations 000, 001, 002, 003, 008, 011 and 012.
LEMMA PlainSteps ==
    ASSUME MInv,
           \/ CreateTables \/ RelatedImages \/ BundlePath \/ RequiredApis
           \/ Dependencies \/ SubstitutesFor \/ Deprecated
    PROVE  MInv'
<1> DEFINE c == from.catalog
           v == from.version
<1>1. ASSUME NEW n \in {0, 1, 2, 3, 8, 11, 12}, At(n), NEW t, Done(t),
             IsIndex(t), t.version = tx.version,
             t.bundle = tx.bundle, t.channel = tx.channel, t.entry = tx.entry,
             t.provider = tx.provider, t.property = tx.property,
             t.requirer = tx.requirer \/ n = 3
      PROVE  MInv'
  <2>1. n \in 0 .. Latest
    BY <1>1 DEF Latest
  <2>2. /\ v \in Int /\ Migrated(tx, c, v) /\ tx.version \in Int
        /\ tx.version + 1 = n
    BY <1>1, <2>1, AtVersion
  <2>3. /\ IsIndex(tx') /\ tx'.version = t.version + 1
        /\ tx'.bundle = t.bundle /\ tx'.channel = t.channel /\ tx'.entry = t.entry
        /\ tx'.provider = t.provider /\ tx'.requirer = t.requirer
        /\ tx'.property = t.property
    BY <1>1, <2>2, DoneFields DEF Done
  <2>4. tx'.version = n /\ n <= Latest /\ n \notin {4, 6, 7, 9}
    BY <1>1, <2>1, <2>2, <2>3 DEF Latest
  <2>5. Migrated(tx', c, v)
    BY <1>1, <2>2, <2>3, <2>4, Untouched
  <2> QED
    BY <1>1, <2>5, TxStep DEF Done
<1>2. \A n \in {0, 1, 2, 3, 8, 11, 12} : At(n) => IsIndex(tx)
  BY AtVersion DEF Latest
<1>3. CASE CreateTables \/ BundlePath \/ SubstitutesFor
  BY <1>1, <1>2, <1>3 DEF CreateTables, BundlePath, SubstitutesFor
<1>4. CASE RelatedImages
  <2> DEFINE X == {[image |-> "img", bundle |-> b.name] :
                   b \in {x \in WithCsv : Csv[x.name].images}}
             t == [tx EXCEPT !.image = X]
  <2>1. At(1) /\ Done(t)
    BY <1>4 DEF RelatedImages
  <2> HIDE DEF X
  <2>2. /\ IsIndex(t) /\ t.version = tx.version
        /\ t.bundle = tx.bundle /\ t.channel = tx.channel /\ t.entry = tx.entry
        /\ t.provider = tx.provider /\ t.requirer = tx.requirer
        /\ t.property = tx.property
    BY <1>2, <2>1, OtherWritten
  <2> HIDE DEF t
  <2> QED
    BY <1>1, <2>1, <2>2
<1>5. CASE RequiredApis
  <2> DEFINE X == UNION {Extracted(p[1], p[2]) : p \in EntryBundles}
             t == [tx EXCEPT !.requirer = X]
  <2>1. At(3) /\ Done(t)
    BY <1>5 DEF RequiredApis
  <2> HIDE DEF X
  <2>2. /\ IsIndex(t) /\ t.version = tx.version
        /\ t.bundle = tx.bundle /\ t.channel = tx.channel /\ t.entry = tx.entry
        /\ t.provider = tx.provider /\ t.property = tx.property
    BY <1>2, <2>1, RequirerWritten
  <2> HIDE DEF t
  <2> QED
    BY <1>1, <2>1, <2>2
<1>6. CASE Dependencies
  <2> DEFINE X == {[api |-> r.api, typed |-> TRUE, of |-> r.of] : r \in OfBundles(tx.requirer)}
             t == [tx EXCEPT !.dependency = X]
  <2>1. At(8) /\ Done(t)
    BY <1>6 DEF Dependencies
  <2> HIDE DEF X
  <2>2. /\ IsIndex(t) /\ t.version = tx.version
        /\ t.bundle = tx.bundle /\ t.channel = tx.channel /\ t.entry = tx.entry
        /\ t.provider = tx.provider /\ t.requirer = tx.requirer
        /\ t.property = tx.property
    BY <1>2, <2>1, OtherWritten
  <2> HIDE DEF t
  <2> QED
    BY <1>1, <2>1, <2>2
<1>7. CASE Deprecated
  <2> DEFINE X == {r.of[1] : r \in {x \in tx.property : x.type = "olm.deprecated"}}
             t == [tx EXCEPT !.deprecated = X]
  <2>1. At(12) /\ Done(t)
    BY <1>7 DEF Deprecated
  <2> HIDE DEF X
  <2>2. /\ IsIndex(t) /\ t.version = tx.version
        /\ t.bundle = tx.bundle /\ t.channel = tx.channel /\ t.entry = tx.entry
        /\ t.provider = tx.provider /\ t.requirer = tx.requirer
        /\ t.property = tx.property
    BY <1>2, <2>1, OtherWritten
  <2> HIDE DEF t
  <2> QED
    BY <1>1, <2>1, <2>2
<1> QED
  BY <1>3, <1>4, <1>5, <1>6, <1>7

\* Migration 004: an index with a channel does not get past it.
LEMMA CascadeDeleteStep ==
    ASSUME MInv, CascadeDelete
    PROVE  MInv'
<1> DEFINE c == from.catalog
           v == from.version
<1>1. At(4) /\ Done(tx) /\ tx.channel = {}
  BY DEF CascadeDelete, Referenced
<1>2. /\ v \in Int /\ Migrated(tx, c, v) /\ tx.version \in Int
      /\ tx.version = 3 /\ IsIndex(tx) /\ v < 4
  BY <1>1, AtVersion DEF Latest
<1>3. /\ IsIndex(tx') /\ tx'.version = 4
      /\ tx'.bundle = tx.bundle /\ tx'.channel = tx.channel /\ tx'.entry = tx.entry
      /\ tx'.provider = tx.provider /\ tx'.requirer = tx.requirer
      /\ tx'.property = tx.property
  BY <1>1, <1>2, DoneFields DEF Done
<1>4. c.channel = {}
  BY <1>1, <1>2 DEF Migrated
<1>5. Migrated(tx', c, v)
  BY <1>2, <1>3, <1>4 DEF Migrated, Latest
<1> QED
  BY <1>1, <1>5, TxStep DEF Done

\* Migration 005 only adds rows without a name.
LEMMA VersionSkipRangeStep ==
    ASSUME MInv, VersionSkipRange
    PROVE  MInv'
<1> DEFINE c == from.catalog
           v == from.version
           N == {Versioning(b) : b \in WithCsv}
           X == tx.bundle \cup N
           t == [tx EXCEPT !.bundle = X]
<1>1. At(5) /\ Done(t)
  BY DEF VersionSkipRange
<1>2. /\ v \in Int /\ Migrated(tx, c, v) /\ tx.version \in Int
      /\ tx.version = 4 /\ IsIndex(tx) /\ v < 5
  BY <1>1, AtVersion DEF Latest
<1>3. BundlesKept(X, c, v)
  <2>1. BundlesKept(tx.bundle, c, v)
    BY <1>2 DEF Migrated
  <2>2. \A b \in N : IsBundle(b) /\ b.name = NULL
    BY DEF Versioning, IsBundle
  <2> HIDE DEF N
  <2> QED
    BY <2>1, <2>2 DEF BundlesKept
<1> HIDE DEF X
<1>4. /\ IsIndex(t) /\ t.version = tx.version
      /\ t.bundle = X /\ t.channel = tx.channel /\ t.entry = tx.entry
      /\ t.provider = tx.provider /\ t.requirer = tx.requirer
      /\ t.property = tx.property
  BY <1>2, BundleWritten
<1> HIDE DEF t
<1>5. /\ IsIndex(tx') /\ tx'.version = 5
      /\ tx'.bundle = X /\ tx'.channel = tx.channel /\ tx'.entry = tx.entry
      /\ tx'.provider = tx.provider /\ tx'.requirer = tx.requirer
      /\ tx'.property = tx.property
  BY <1>1, <1>2, <1>4, DoneFields DEF Done
<1>6. Migrated(tx', c, v)
  BY <1>2, <1>3, <1>5 DEF Migrated, Latest
<1> QED
  BY <1>1, <1>6, TxStep DEF Done

-----------------------------------------------------------------------------
(***************************************************************************)
(* Migration 006: the api tables                                           *)
(***************************************************************************)

\* An entry has one bundle and a stored bundle one row: what moves from the entries
\* to the bundles is what the CSVs say, and refers to the rows by their keys.
LEMMA ApisMoved ==
    ASSUME NEW c, NEW v \in Int, NEW rows, NEW A, IsCatalog(c), tx.entry = c.entry,
           BundlesKept(tx.bundle, c, v), ByEntry(rows, c, A)
    PROVE  /\ ByName(ByBundle(rows), c, A)
           /\ \A r \in ByBundle(rows) : IsKey(r.of, c, v)
<1>1. /\ \A e \in c.entry : e.bundle # NULL
      /\ \A e \in Main(c) : e.bundle \in c.stored
  BY MigrationsAssumption DEF IsCatalog, Main
<1>2. \A e, f \in c.entry : e.id = f.id => e = f
  BY DEF IsCatalog
<1>3. ASSUME NEW r \in ByBundle(rows)
      PROVE  \E e \in Main(c), b \in tx.bundle : \E k \in A[e.bundle] :
                /\ b.name = e.bundle
                /\ r = [api |-> k, of |-> <<b.name, b.version, b.path>>]
  <2>1. PICK q \in rows, b \in tx.bundle, f \in c.entry :
            /\ <<f.id>> = q.of /\ f.bundle = b.name
            /\ r = [api |-> q.api, of |-> <<b.name, b.version, b.path>>]
    BY <1>3 DEF ByBundle, Named
  <2>2. PICK e \in Main(c) : \E k \in A[e.bundle] : q = [api |-> k, of |-> <<e.id>>]
    BY <2>1 DEF ByEntry
  <2>3. PICK k \in A[e.bundle] : q = [api |-> k, of |-> <<e.id>>]
    BY <2>2
  <2>4. f.id = e.id /\ q.api = k
    BY <2>1, <2>3
  <2>5. e = f
    BY <1>2, <2>4 DEF Main
  <2> QED
    BY ZenonT(30), <2>1, <2>4, <2>5
<1>4. ASSUME NEW e \in Main(c), NEW k \in A[e.bundle]
      PROVE  \E r \in ByBundle(rows) : r.api = k /\ r.of[1] = e.bundle
  <2> DEFINE q == [api |-> k, of |-> <<e.id>>]
  <2>1. q \in rows /\ q.api = k /\ q.of = <<e.id>>
    BY <1>4 DEF ByEntry
  <2> HIDE DEF q
  <2>2. e \in c.entry
    BY DEF Main
  <2>3. PICK b \in tx.bundle : b.name = e.bundle
    BY <1>1, <2>2 DEF BundlesKept
  <2> DEFINE r == [api |-> q.api, of |-> <<b.name, b.version, b.path>>]
  <2>4. b \in {x \in Named : \E f \in tx.entry : <<f.id>> = q.of /\ f.bundle = x.name}
    BY <1>1, <2>1, <2>2, <2>3 DEF Named
  <2>5. r \in ByBundle(rows)
    <3> DEFINE B(z) == {[api |-> z.api, of |-> <<y.name, y.version, y.path>>] :
                        y \in {x \in Named : \E f \in tx.entry :
                                  <<f.id>> = z.of /\ f.bundle = x.name}}
    <3>1. r \in B(q)
      BY Zenon, <2>4
    <3>2. ByBundle(rows) = UNION {B(z) : z \in rows}
      BY DEF ByBundle
    <3> HIDE DEF B
    <3> QED
      BY Zenon, <2>1, <3>1, <3>2
  <2>6. r.api = k /\ r.of[1] = e.bundle
    BY <2>1, <2>3
  <2> QED
    BY <2>5, <2>6
<1>5. ByName(ByBundle(rows), c, A)
  <2> SUFFICES ASSUME NEW e \in Main(c)
               PROVE  {r.api : r \in {x \in ByBundle(rows) : x.of[1] = e.bundle}} = A[e.bundle]
    BY DEF ByName
  <2>1. ASSUME NEW r \in ByBundle(rows), r.of[1] = e.bundle
        PROVE  r.api \in A[e.bundle]
    <3>1. PICK f \in Main(c), b \in tx.bundle : \E k \in A[f.bundle] :
                /\ b.name = f.bundle
                /\ r = [api |-> k, of |-> <<b.name, b.version, b.path>>]
      BY <1>3
    <3>2. r.of[1] = f.bundle /\ r.api \in A[f.bundle]
      BY <3>1
    <3> QED
      BY <2>1, <3>2
  <2> QED
    BY <1>4, <2>1
<1>6. ASSUME NEW r \in ByBundle(rows)
      PROVE  IsKey(r.of, c, v)
  <2>1. PICK e \in Main(c), b \in tx.bundle : \E k \in A[e.bundle] :
                /\ b.name = e.bundle
                /\ r = [api |-> k, of |-> <<b.name, b.version, b.path>>]
    BY <1>3
  <2>2. r.of = <<b.name, b.version, b.path>> /\ r.of[1] = b.name
    BY <2>1
  <2>3. b.name # NULL
    BY <1>1, <2>1 DEF Main
  <2>4. /\ b.name \in c.stored /\ b.version = VersionOf(b.name, v)
        /\ b.path = PathOf(b.name, c, v)
    BY <2>3 DEF BundlesKept
  <2> QED
    BY <2>2, <2>4 DEF IsKey
<1> QED
  BY <1>5, <1>6

\* Migration 006.
LEMMA AssociateStep ==
    ASSUME MInv, AssociateApisWithBundle
    PROVE  MInv'
<1> DEFINE c == from.catalog
           v == from.version
           X == ByBundle(tx.provider)
           Y == ByBundle(tx.requirer)
           t == [tx EXCEPT !.provider = X, !.requirer = Y]
<1>1. At(6) /\ Done(t)
  BY DEF AssociateApisWithBundle
<1>2. /\ v \in Int /\ Migrated(tx, c, v) /\ tx.version \in Int
      /\ tx.version = 5 /\ IsIndex(tx) /\ v < 6 /\ IsCatalog(c)
  BY <1>1, AtVersion DEF Latest, Given
<1>3. /\ tx.entry = c.entry /\ BundlesKept(tx.bundle, c, v)
      /\ ByEntry(tx.provider, c, Provides)
      /\ v < 4 => c.channel = {}
      /\ 3 <= v => ByEntry(tx.requirer, c, Requires)
  BY <1>2 DEF Migrated
<1>4. ByName(X, c, Provides) /\ \A r \in X : IsKey(r.of, c, v)
  BY <1>2, <1>3, ApisMoved
<1>5. ByName(Y, c, Requires)
  <2>1. CASE v < 4
    <3>1. Main(c) = {}
      BY <1>2, <1>3, <2>1 DEF IsCatalog, Main
    <3> QED
      BY <3>1 DEF ByName
  <2>2. CASE 3 <= v
    BY <1>2, <1>3, <2>2, ApisMoved
  <2> QED
    BY <1>2, <2>1, <2>2
<1> HIDE DEF X, Y
<1>6. /\ IsIndex(t) /\ t.version = tx.version
      /\ t.bundle = tx.bundle /\ t.channel = tx.channel /\ t.entry = tx.entry
      /\ t.provider = X /\ t.requirer = Y /\ t.property = tx.property
  <2>1. t = [tx EXCEPT !.provider = X, !.requirer = Y]
    OBVIOUS
  <2> HIDE DEF t
  <2> QED
    BY ZenonT(30), <1>2, <2>1 DEF IsIndex
<1> HIDE DEF t
<1>7. /\ IsIndex(tx') /\ tx'.version = 6
      /\ tx'.bundle = tx.bundle /\ tx'.channel = tx.channel /\ tx'.entry = tx.entry
      /\ tx'.provider = X /\ tx'.requirer = Y /\ tx'.property = tx.property
  BY <1>1, <1>2, <1>6, DoneFields DEF Done
<1>8. Migrated(tx', c, v)
  <2>1. tx.channel = c.channel
    BY <1>2 DEF Migrated
  <2> QED
    BY <1>2, <1>3, <1>4, <1>5, <1>7, <2>1 DEF Migrated, Latest
<1> QED
  BY <1>1, <1>8, TxStep DEF Done

-----------------------------------------------------------------------------
(***************************************************************************)
(* Migrations 009 and 010: the properties                                  *)
(***************************************************************************)

\* Migration 009: a property for each row of the provided apis, by the same key.
LEMMA PropertiesStep ==
    ASSUME MInv, Properties
    PROVE  MInv'
<1> DEFINE c == from.catalog
           v == from.version
           apis == OfBundles(tx.provider)
           keys == {r.of : r \in apis}
<1>1. At(9)
  BY DEF Properties
<1>2. PICK pkg \in [keys -> UNION {PackagesFor(k[1]) : k \in keys}],
           d \in IF tx.dependency = {} THEN {NULL} ELSE tx.dependency :
         /\ \A k \in keys : pkg[k] \in PackagesFor(k[1])
         /\ Done([tx EXCEPT
                    !.property =
                       {[type |-> "olm.gvk", value |-> r.api, of |-> r.of] : r \in apis}
                       \cup {[type |-> "olm.package", value |-> pkg[k], of |-> k] : k \in keys},
                    !.dependency = {[api |-> d.api, typed |-> FALSE, of |-> r.of] :
                                    r \in tx.dependency}])
  BY Zenon DEF Properties
<1> DEFINE G == {[type |-> "olm.gvk", value |-> r.api, of |-> r.of] : r \in apis}
           K == {[type |-> "olm.package", value |-> pkg[k], of |-> k] : k \in keys}
           X == G \cup K
           Y == {[api |-> d.api, typed |-> FALSE, of |-> r.of] : r \in tx.dependency}
           t == [tx EXCEPT !.property = X, !.dependency = Y]
<1>3. /\ v \in Int /\ Migrated(tx, c, v) /\ tx.version \in Int
      /\ tx.version = 8 /\ IsIndex(tx) /\ v < 9 /\ IsCatalog(c)
  <2>1. /\ v \in Int /\ Migrated(tx, c, v) /\ tx.version \in Int
        /\ tx.version = 8 /\ IsIndex(tx) /\ v < 9 /\ Given(c, v)
    BY <1>1, AtVersion DEF Latest
  <2> QED
    BY <2>1 DEF Given
<1>4. /\ \A r \in tx.provider : IsKey(r.of, c, v)
      /\ ByName(tx.provider, c, Provides)
  BY <1>3 DEF Migrated
<1>5. apis = tx.provider
  <2>1. \A r \in tx.provider : r.of[1] # NULL
    BY <1>3, <1>4, MigrationsAssumption DEF IsKey, IsCatalog
  <2> QED
    BY <2>1 DEF OfBundles
<1>6. PropertiesKept(X, c, v)
  <2>1. ASSUME NEW r \in G
        PROVE  /\ r = [type |-> r.type, value |-> r.value, of |-> r.of]
               /\ r.type = "olm.gvk"
               /\ \E q \in tx.provider : r.value = q.api /\ r.of = q.of
    BY <1>5
  <2>2. ASSUME NEW r \in K
        PROVE  /\ r = [type |-> r.type, value |-> r.value, of |-> r.of]
               /\ r.type # "olm.gvk"
               /\ \E q \in tx.provider : r.of = q.of
    BY <1>5
  <2>3. ASSUME NEW q \in tx.provider
        PROVE  \E r \in G : r.type = "olm.gvk" /\ r.value = q.api /\ r.of = q.of
    <3> DEFINE r == [type |-> "olm.gvk", value |-> q.api, of |-> q.of]
    <3>1. r \in G
      BY <1>5
    <3>2. r.type = "olm.gvk" /\ r.value = q.api /\ r.of = q.of
      OBVIOUS
    <3> QED
      BY ZenonT(30), <3>1, <3>2
  <2> HIDE DEF G, K
  <2>4. \A r \in X : /\ r = [type |-> r.type, value |-> r.value, of |-> r.of]
                     /\ IsKey(r.of, c, v)
    BY <1>4, <2>1, <2>2
  <2>5. ASSUME NEW e \in Main(c)
        PROVE  {r.value : r \in {x \in X : x.type = "olm.gvk" /\ x.of[1] = e.bundle}}
                  = Provides[e.bundle]
    <3>1. {r.api : r \in {x \in tx.provider : x.of[1] = e.bundle}} = Provides[e.bundle]
      BY <1>4 DEF ByName
    <3>2. ASSUME NEW r \in X, r.type = "olm.gvk", r.of[1] = e.bundle
          PROVE  \E q \in tx.provider : q.of[1] = e.bundle /\ q.api = r.value
      BY <2>1, <2>2, <3>2
    <3>3. ASSUME NEW q \in tx.provider, q.of[1] = e.bundle
          PROVE  \E r \in X : r.type = "olm.gvk" /\ r.of[1] = e.bundle /\ r.value = q.api
      BY <2>3, <3>3
    <3> HIDE DEF X
    <3> QED
      BY <3>1, <3>2, <3>3
  <2> QED
    BY <2>4, <2>5 DEF PropertiesKept
<1>7. Done(t)
  BY <1>2
<1> HIDE DEF X, Y
<1>8. /\ IsIndex(t) /\ t.version = tx.version
      /\ t.bundle = tx.bundle /\ t.channel = tx.channel /\ t.entry = tx.entry
      /\ t.provider = tx.provider /\ t.requirer = tx.requirer
      /\ t.property = X
  <2>1. t = [tx EXCEPT !.property = X, !.dependency = Y]
    OBVIOUS
  <2> HIDE DEF t
  <2> QED
    BY ZenonT(30), <1>3, <2>1 DEF IsIndex
<1> HIDE DEF t
<1>9. /\ IsIndex(tx') /\ tx'.version = 9
      /\ tx'.bundle = tx.bundle /\ tx'.channel = tx.channel /\ tx'.entry = tx.entry
      /\ tx'.provider = tx.provider /\ tx'.requirer = tx.requirer
      /\ tx'.property = X
  BY <1>3, <1>7, <1>8, DoneFields DEF Done
<1>10. Migrated(tx', c, v)
  <2>1. /\ tx.channel = c.channel /\ tx.entry = c.entry
        /\ v < 4 => c.channel = {}
        /\ \A r \in tx.provider : IsKey(r.of, c, v)
        /\ ByName(tx.provider, c, Provides) /\ ByName(tx.requirer, c, Requires)
        /\ BundlesKept(tx.bundle, c, v)
        /\ v < 7 => \A b \in tx.bundle : b.name # NULL => EdgesKept(b, c)
    BY <1>3 DEF Migrated
  <2>2. v \in Int /\ v < 9
    BY <1>3
  <2> QED
    BY <2>1, <2>2, <1>6, <1>9 DEF Migrated, Latest
<1> QED
  BY <1>7, <1>10, TxStep DEF Done

\* Migration 010 finds the path of a bundle by its name and version.
LEMMA PathStep ==
    ASSUME MInv, BundlePathPkgProperty
    PROVE  MInv'
<1> DEFINE c == from.catalog
           v == from.version
           path(k) == IF PathsOf(k) = {} THEN NULL ELSE CHOOSE p \in PathsOf(k) : TRUE
           New(r) == [r EXCEPT !.of = <<r.of[1], r.of[2], path(r.of)>>]
           X == {New(r) : r \in tx.property}
           t == [tx EXCEPT !.property = X]
<1>1. At(10) /\ Done(t)
  BY DEF BundlePathPkgProperty
<1>2. /\ v \in Int /\ Migrated(tx, c, v) /\ tx.version \in Int
      /\ tx.version = 9 /\ IsIndex(tx) /\ v < 10 /\ IsCatalog(c)
  <2>1. /\ v \in Int /\ Migrated(tx, c, v) /\ tx.version \in Int
        /\ tx.version = 9 /\ IsIndex(tx) /\ v < 10 /\ Given(c, v)
    BY <1>1, AtVersion DEF Latest
  <2> QED
    BY <2>1 DEF Given
<1>3. PropertiesKept(tx.property, c, v) /\ BundlesKept(tx.bundle, c, v)
  BY <1>2 DEF Migrated
<1>4. ASSUME NEW n \in c.stored,
             {VersionOf(n, v), PathOf(n, c, v)} \cap {NULL, EMPTY} = {},
             NEW k, k = <<n, VersionOf(n, v), PathOf(n, c, v)>>
      PROVE  path(k) = PathOf(n, c, v)
  <2>1. k[1] = n /\ k[2] = VersionOf(n, v) /\ k[2] # NULL /\ n # NULL
    BY ZenonT(30), <1>2, <1>4, MigrationsAssumption DEF IsCatalog
  <2>2. \A b \in tx.bundle : b.name = n =>
           b.version = VersionOf(n, v) /\ b.path = PathOf(n, c, v)
    BY <1>3, <2>1 DEF BundlesKept
  <2>3. \E b \in tx.bundle : b.name = n
    BY <1>3 DEF BundlesKept
  <2>4. PathsOf(k) = {PathOf(n, c, v)}
    BY <2>1, <2>2, <2>3 DEF PathsOf
  <2> QED
    BY <2>4
<1> HIDE DEF path
<1>5. ASSUME NEW r \in tx.property
      PROVE  LET d == New(r)
             IN  /\ d = [type |-> d.type, value |-> d.value, of |-> d.of]
                 /\ d.type = r.type /\ d.value = r.value
                 /\ d.of = <<r.of[1], r.of[2], path(r.of)>> /\ d.of[1] = r.of[1]
  <2>1. r = [type |-> r.type, value |-> r.value, of |-> r.of]
    BY <1>3 DEF PropertiesKept
  <2> QED
    BY <2>1
<1> HIDE DEF New
<1>6. ASSUME NEW r \in tx.property
      PROVE  IsKey(New(r).of, c, v)
  <2> DEFINE n == r.of[1]
  <2>1. IsKey(r.of, c, v)
    BY <1>3 DEF PropertiesKept
  <2>2. New(r).of[1] = n /\ n \in c.stored
    BY <1>5, <2>1 DEF IsKey
  <2>3. ASSUME {VersionOf(n, v), PathOf(n, c, v)} \cap {NULL, EMPTY} = {}
        PROVE  New(r).of = <<n, VersionOf(n, v), PathOf(n, c, v)>>
    <3>1. r.of = <<n, VersionOf(n, v), PathOf(n, c, v)>>
      BY <2>1, <2>3 DEF IsKey
    <3>2. path(r.of) = PathOf(n, c, v)
      BY <1>4, <2>2, <2>3, <3>1
    <3>3. r.of[2] = VersionOf(n, v)
      BY <3>1
    <3> QED
      BY <1>5, <3>2, <3>3
  <2> QED
    BY <2>2, <2>3 DEF IsKey
<1>7. PropertiesKept(X, c, v)
  <2>1. \A r \in X : /\ r = [type |-> r.type, value |-> r.value, of |-> r.of]
                     /\ IsKey(r.of, c, v)
    BY <1>5, <1>6
  <2>2. ASSUME NEW e \in Main(c)
        PROVE  {r.value : r \in {x \in X : x.type = "olm.gvk" /\ x.of[1] = e.bundle}}
                  = Provides[e.bundle]
    <3>1. {r.value : r \in {x \in tx.property : x.type = "olm.gvk" /\ x.of[1] = e.bundle}}
             = Provides[e.bundle]
      BY <1>3 DEF PropertiesKept
    <3>2. \A r \in X : \E q \in tx.property :
             q.type = r.type /\ q.value = r.value /\ q.of[1] = r.of[1]
      BY <1>5
    <3>3. \A q \in tx.property : \E r \in X :
             q.type = r.type /\ q.value = r.value /\ q.of[1] = r.of[1]
      BY <1>5
    <3> HIDE DEF X
    <3> QED
      BY <3>1, <3>2, <3>3
  <2> QED
    BY <2>1, <2>2 DEF PropertiesKept
<1> HIDE DEF X
<1>8. /\ IsIndex(t) /\ t.version = tx.version
      /\ t.bundle = tx.bundle /\ t.channel = tx.channel /\ t.entry = tx.entry
      /\ t.provider = tx.provider /\ t.requirer = tx.requirer
      /\ t.property = X
  BY <1>2 DEF IsIndex
<1> HIDE DEF t
<1>9. /\ IsIndex(tx') /\ tx'.version = 10
      /\ tx'.bundle = tx.bundle /\ tx'.channel = tx.channel /\ tx'.entry = tx.entry
      /\ tx'.provider = tx.provider /\ tx'.requirer = tx.requirer
      /\ tx'.property = X
  BY <1>1, <1>2, <1>8, DoneFields DEF Done
<1>10. Migrated(tx', c, v)
  <2>1. /\ tx.channel = c.channel /\ tx.entry = c.entry
        /\ v < 4 => c.channel = {}
        /\ \A r \in tx.provider : IsKey(r.of, c, v)
        /\ ByName(tx.provider, c, Provides) /\ ByName(tx.requirer, c, Requires)
        /\ BundlesKept(tx.bundle, c, v)
        /\ v < 7 => \A b \in tx.bundle : b.name # NULL => EdgesKept(b, c)
    BY <1>2 DEF Migrated
  <2>2. v \in Int /\ v < 10
    BY <1>2
  <2> QED
    BY <2>1, <2>2, <1>7, <1>9 DEF Migrated, Latest
<1> QED
  BY <1>1, <1>10, TxStep DEF Done

-----------------------------------------------------------------------------
(***************************************************************************)
(* What a release builds                                                   *)
(***************************************************************************)

\* The loader refers to a bundle by the columns of its row.
LEMMA BuiltKey ==
    ASSUME NEW c, NEW v \in Int, 6 <= v, NEW n \in c.stored
    PROVE  IsKey(KeyOf(c, n), c, v) /\ KeyOf(c, n)[1] = n
<1>1. VersionOf(n, v) = Csv[n].version /\ PathOf(n, c, v) = c.path[n]
  BY DEF VersionOf, PathOf
<1>2. KeyOf(c, n)[1] = n
  BY DEF KeyOf
<1>3. ASSUME {VersionOf(n, v), PathOf(n, c, v)} \cap {NULL, EMPTY} = {}
      PROVE  KeyOf(c, n) = <<n, VersionOf(n, v), PathOf(n, c, v)>>
  BY ZenonT(30), <1>1, <1>3 DEF KeyOf, NullIfEmpty
<1> QED
  BY <1>2, <1>3 DEF IsKey

\* The api tables of an index built with version 6 or later.
ByKey(c, apis) ==
    UNION {{[api |-> k, of |-> KeyOf(c, n)] : k \in apis[n]} : n \in c.stored}

\* They have the apis of every bundle, by its key.
LEMMA BuiltByName ==
    ASSUME NEW c, IsCatalog(c), NEW v \in Int, 6 <= v, NEW A
    PROVE  ByName(ByKey(c, A), c, A) /\ \A r \in ByKey(c, A) : IsKey(r.of, c, v)
<1> DEFINE rows == UNION {{[api |-> k, of |-> KeyOf(c, n)] : k \in A[n]} : n \in c.stored}
<1>1. ASSUME NEW r \in rows
      PROVE  \E n \in c.stored : r.api \in A[n] /\ r.of = KeyOf(c, n)
  OBVIOUS
<1>2. ASSUME NEW n \in c.stored, NEW k \in A[n]
      PROVE  \E r \in rows : r.api = k /\ r.of = KeyOf(c, n)
  <2> DEFINE r == [api |-> k, of |-> KeyOf(c, n)]
  <2>1. r \in rows
    OBVIOUS
  <2>2. r.api = k /\ r.of = KeyOf(c, n)
    OBVIOUS
  <2> QED
    BY <2>1, <2>2
<1> HIDE DEF rows
<1>3. \A e \in Main(c) : e.bundle \in c.stored
  BY DEF Main, IsCatalog
<1>4. ASSUME NEW e \in Main(c)
      PROVE  {r.api : r \in {x \in rows : x.of[1] = e.bundle}} = A[e.bundle]
  <2>1. \A r \in rows : r.of[1] = e.bundle => r.api \in A[e.bundle]
    BY <1>1, BuiltKey
  <2>2. \A k \in A[e.bundle] : \E r \in rows : r.api = k /\ r.of[1] = e.bundle
    BY <1>2, <1>3, BuiltKey
  <2> QED
    BY <2>1, <2>2
<1>5. \A r \in rows : IsKey(r.of, c, v)
  BY <1>1, BuiltKey
<1>6. ByName(rows, c, A)
  BY <1>4 DEF ByName
<1> QED
  BY <1>5, <1>6 DEF ByKey, rows

\* The properties of an index built with version 9 or later.
LEMMA BuiltPropertiesKept ==
    ASSUME NEW c, IsCatalog(c), NEW v \in Int, 9 <= v
    PROVE  PropertiesKept(BuiltProperties(c), c, v)
<1> DEFINE G == UNION {{[type |-> "olm.gvk", value |-> k, of |-> KeyOf(c, n)] :
                       k \in Csv[n].provides} : n \in c.stored}
           K == {[type |-> "olm.package", value |-> e.pkg, of |-> KeyOf(c, e.bundle)] :
                 e \in Main(c)}
           D == {[type |-> "olm.deprecated", value |-> EMPTY, of |-> KeyOf(c, n)] :
                 n \in c.deprecated}
           rows == G \cup K \cup D
<1>0. BuiltProperties(c) = rows
  BY DEF BuiltProperties, Main
<1>1. \A e \in Main(c) : e.bundle \in c.stored
  BY DEF Main, IsCatalog
<1>2. ASSUME NEW r \in G
      PROVE  /\ r = [type |-> r.type, value |-> r.value, of |-> r.of]
             /\ r.type = "olm.gvk"
             /\ \E n \in c.stored : r.value \in Csv[n].provides /\ r.of = KeyOf(c, n)
  OBVIOUS
<1>3. ASSUME NEW r \in K
      PROVE  /\ r = [type |-> r.type, value |-> r.value, of |-> r.of]
             /\ r.type # "olm.gvk"
             /\ \E n \in c.stored : r.of = KeyOf(c, n)
  BY <1>1
<1>4. ASSUME NEW r \in D
      PROVE  /\ r = [type |-> r.type, value |-> r.value, of |-> r.of]
             /\ r.type # "olm.gvk"
             /\ \E n \in c.stored : r.of = KeyOf(c, n)
  BY DEF IsCatalog
<1>5. ASSUME NEW n \in c.stored, NEW k \in Csv[n].provides
      PROVE  \E r \in G : r.value = k /\ r.of = KeyOf(c, n)
  <2> DEFINE r == [type |-> "olm.gvk", value |-> k, of |-> KeyOf(c, n)]
  <2>1. r \in G
    OBVIOUS
  <2>2. r.value = k /\ r.of = KeyOf(c, n)
    OBVIOUS
  <2> QED
    BY <2>1, <2>2
<1> HIDE DEF G, K, D
<1>6. \A r \in rows : /\ r = [type |-> r.type, value |-> r.value, of |-> r.of]
                      /\ \E n \in c.stored : r.of = KeyOf(c, n)
  BY <1>2, <1>3, <1>4
<1>7. \A r \in rows : IsKey(r.of, c, v)
  BY <1>6, BuiltKey
<1>8. ASSUME NEW e \in Main(c)
      PROVE  {r.value : r \in {x \in rows : x.type = "olm.gvk" /\ x.of[1] = e.bundle}}
                = Provides[e.bundle]
  <2>1. Provides[e.bundle] = Csv[e.bundle].provides
    BY <1>1 DEF Provides, IsCatalog
  <2>2. ASSUME NEW r \in rows, r.type = "olm.gvk", r.of[1] = e.bundle
        PROVE  r.value \in Csv[e.bundle].provides
    <3>1. r \in G
      BY <1>3, <1>4, <2>2
    <3> QED
      BY <1>2, <2>2, <3>1, BuiltKey
  <2>3. ASSUME NEW k \in Csv[e.bundle].provides
        PROVE  \E r \in rows : r.type = "olm.gvk" /\ r.of[1] = e.bundle /\ r.value = k
    <3>1. PICK r \in G : r.value = k /\ r.of = KeyOf(c, e.bundle)
      BY <1>1, <1>5
    <3> QED
      BY <1>1, <1>2, <3>1, BuiltKey
  <2> QED
    BY <2>1, <2>2, <2>3
<1> QED
  BY <1>0, <1>6, <1>7, <1>8 DEF PropertiesKept

\* An index that a release built is what the invariant says of its version.
LEMMA BuiltMigrated ==
    ASSUME NEW c, IsCatalog(c), NEW v \in -1 .. Latest
    PROVE  Migrated(Built(c, v), c, v)
<1> DEFINE t == Built(c, v)
           B == {[name |-> n,
                  csv |-> v < 2 \/ n \notin c.cleared,
                  path |-> IF v < 2 THEN NULL ELSE c.path[n],
                  version |-> IF v < 5 THEN NULL ELSE Csv[n].version,
                  replaces |-> IF v < 7 THEN NULL ELSE Csv[n].replaces,
                  skips |-> IF v < 7 THEN {} ELSE Csv[n].skips] : n \in c.stored}
<1>1. /\ IsIndex(t)
      /\ t.version = v /\ t.entry = c.entry /\ t.channel = c.channel /\ t.bundle = B
      /\ t.provider = BuiltApis(c, v, "provides")
      /\ t.requirer = (IF v < 3 THEN {} ELSE BuiltApis(c, v, "requires"))
      /\ t.property = (IF v < 9 THEN {} ELSE BuiltProperties(c))
  <2> DEFINE since(k, S) == IF v < k THEN {} ELSE S
             a == BuiltApis(c, v, "provides")
             q == since(3, BuiltApis(c, v, "requires"))
             i == since(1, {[image |-> "img", bundle |-> n] :
                            n \in {m \in c.stored : Csv[m].images}})
             y == since(8, UNION {{[api |-> k, typed |-> v < 9, of |-> KeyOf(c, n)] :
                                   k \in Csv[n].requires} : n \in c.stored})
             p == since(9, BuiltProperties(c))
             z == since(12, c.deprecated)
  <2>1. t = [version |-> v, bundle |-> B, channel |-> c.channel, entry |-> c.entry,
             provider |-> a, requirer |-> q, image |-> i,
             dependency |-> y, property |-> p, deprecated |-> z]
    BY Zenon DEF Built
  <2> HIDE DEF t, B, a, q, i, y, p, z
  <2>2. IsIndex(t)
    BY <2>1 DEF IsIndex
  <2>3. /\ t.version = v /\ t.entry = c.entry /\ t.channel = c.channel /\ t.bundle = B
        /\ t.provider = a /\ t.requirer = q /\ t.property = p
    BY <2>1
  <2> QED
    BY Zenon, <2>2, <2>3 DEF a, q, p
<1> HIDE DEF t, B
<1>2. t.version = v /\ t.entry = c.entry /\ t.channel = c.channel /\ t.bundle = B
  BY <1>1
<1>3. /\ t.provider = BuiltApis(c, v, "provides")
      /\ 3 <= v => t.requirer = BuiltApis(c, v, "requires")
      /\ 9 <= v => t.property = BuiltProperties(c)
  BY <1>1
<1>6. v \in Int /\ v <= Latest /\ Latest \in Int
  BY DEF Latest
<1>7. \A n \in c.stored : n \in Names
  BY DEF IsCatalog
<1>8. \A e \in Main(c) : e.bundle \in Names
  BY DEF IsCatalog, Main
<1>9. BundlesKept(B, c, v)
  <2>1. ASSUME NEW b \in B
        PROVE  /\ IsBundle(b) /\ b.name \in c.stored
               /\ b.version = VersionOf(b.name, v) /\ b.path = PathOf(b.name, c, v)
    BY DEF B, IsBundle, VersionOf, PathOf
  <2>2. ASSUME NEW n \in c.stored PROVE \E b \in B : b.name = n
    <3> DEFINE b == [name |-> n,
                     csv |-> v < 2 \/ n \notin c.cleared,
                     path |-> IF v < 2 THEN NULL ELSE c.path[n],
                     version |-> IF v < 5 THEN NULL ELSE Csv[n].version,
                     replaces |-> IF v < 7 THEN NULL ELSE Csv[n].replaces,
                     skips |-> IF v < 7 THEN {} ELSE Csv[n].skips]
    <3>1. b \in B
      BY Zenon DEF B
    <3>2. b.name = n
      OBVIOUS
    <3> QED
      BY ZenonT(30), <3>1, <3>2
  <2> QED
    BY <2>1, <2>2 DEF BundlesKept
<1>10. v < 6 => /\ ByEntry(t.provider, c, Provides)
                /\ 3 <= v => ByEntry(t.requirer, c, Requires)
  <2> SUFFICES ASSUME v < 6
               PROVE  /\ ByEntry(BuiltApis(c, v, "provides"), c, Provides)
                      /\ ByEntry(BuiltApis(c, v, "requires"), c, Requires)
    BY <1>3
  <2>1. \A e \in Main(c) : /\ Provides[e.bundle] = Csv[e.bundle].provides
                           /\ Requires[e.bundle] = Csv[e.bundle].requires
    BY <1>8 DEF Provides, Requires
  <2> QED
    BY <2>1 DEF ByEntry, BuiltApis, Main
<1>11. 6 <= v => /\ \A r \in t.provider : IsKey(r.of, c, v)
                 /\ ByName(t.provider, c, Provides)
                 /\ ByName(t.requirer, c, Requires)
  <2> SUFFICES ASSUME 6 <= v
               PROVE  /\ \A r \in t.provider : IsKey(r.of, c, v)
                      /\ ByName(t.provider, c, Provides)
                      /\ ByName(t.requirer, c, Requires)
    OBVIOUS
  <2> DEFINE P == BuiltApis(c, v, "provides")
             R == BuiltApis(c, v, "requires")
  <2>1. \A n \in c.stored : /\ Provides[n] = Csv[n].provides
                            /\ Requires[n] = Csv[n].requires
    BY <1>7 DEF Provides, Requires
  <2>2. P = ByKey(c, Provides)
    BY <1>6, <2>1 DEF BuiltApis, ByKey
  <2>3. R = ByKey(c, Requires)
    BY <1>6, <2>1 DEF BuiltApis, ByKey
  <2> HIDE DEF P, R
  <2>4. ByName(P, c, Provides) /\ \A r \in P : IsKey(r.of, c, v)
    BY <1>6, <2>2, BuiltByName
  <2>5. ByName(R, c, Requires)
    BY <1>6, <2>3, BuiltByName
  <2>6. t.provider = P /\ t.requirer = R
    BY <1>3, <1>6 DEF P, R
  <2> QED
    BY <2>4, <2>5, <2>6
<1>12. 9 <= v => PropertiesKept(t.property, c, v)
  BY <1>3, <1>6, BuiltPropertiesKept
<1>13. Migrated(t, c, v)
  BY <1>1, <1>2, <1>6, <1>9, <1>10, <1>11, <1>12 DEF Migrated
<1> QED
  BY <1>13 DEF t

-----------------------------------------------------------------------------
(***************************************************************************)
(* Migration 007: the upgrade edges                                        *)
(***************************************************************************)

RowsOf(n, c) == {e \in c.entry : e.bundle = n}

\* The bundle that an entry replaces.
Target(e, c) ==
    IF e.replaces = NULL THEN NULL ELSE (CHOOSE x \in c.entry : x.id = e.replaces).bundle

\* The row that getReplacesAndSkips takes for what it replaces.
Leads(e, n, c) ==
    /\ e \in RowsOf(n, c)
    /\ \A y \in RowsOf(n, c) : Target(y, c) = Target(e, c) => e.id <= y.id

\* An entry that replaces something replaces the bundle of that one entry.
LEMMA TargetOf ==
    ASSUME NEW c, IsCatalog(c), NEW e \in c.entry
    PROVE  /\ e.replaces = NULL => Target(e, c) = NULL
           /\ \A f \in c.entry : f.id = e.replaces => Target(e, c) = f.bundle
           /\ e.replaces # NULL => \E f \in c.entry : f.id = e.replaces
<1>1. \A f \in c.entry : f.id # NULL
  BY MigrationsAssumption DEF IsCatalog
<1>2. ASSUME NEW f \in c.entry, f.id = e.replaces
      PROVE  Target(e, c) = f.bundle
  <2> DEFINE g == CHOOSE x \in c.entry : x.id = e.replaces
  <2>1. g \in c.entry /\ g.id = e.replaces
    BY <1>2
  <2> HIDE DEF g
  <2>2. g = f
    BY <1>2, <2>1 DEF IsCatalog
  <2>3. Target(e, c) = g.bundle
    BY <1>1, <1>2 DEF Target, g
  <2> QED
    BY <2>2, <2>3
<1> QED
  BY <1>1, <1>2 DEF Target, IsCatalog

\* What the query returns: the leading rows.
LEMMA ReplaceesAre ==
    ASSUME NEW c, tx.entry = c.entry, NEW n
    PROVE  Replacees(n) = {<<e.depth, Target(e, c)>> : e \in {x \in c.entry : Leads(x, n, c)}}
<1> DEFINE rows == {e \in c.entry : e.bundle = n}
<1>1. Replacees(n) = {<<e.depth, Target(e, c)>> :
            e \in {x \in rows : \A y \in rows : Target(y, c) = Target(x, c) => x.id <= y.id}}
  BY DEF Replacees, Target
<1> QED
  BY <1>1 DEF Leads, RowsOf

Same(e, f) == e.channel = f.channel /\ e.pkg = f.pkg

\* What the CSV of a bundle replaces, as a column.
Declared(n) == IF Csv[n].replaces = EMPTY THEN NULL ELSE Csv[n].replaces

Skipped(n, c) == \E m \in c.stored : n \in Csv[m].skips

\* What addPackageChannels leaves, in terms of what the entries replace.
LEMMA Walked ==
    ASSUME NEW c, IsCatalog(c), IsWalked(c)
    PROVE  /\ \A e, f, g \in c.entry :
                 Same(e, g) /\ e.id < f.id /\ f.id < g.id => Same(e, f)
           /\ \A e, f \in Main(c) : Same(e, f) /\ e.bundle = f.bundle => e = f
           /\ \A e \in Main(c) :
                 /\ Target(e, c) = Declared(e.bundle)
                 /\ \A s \in Csv[e.bundle].skips : \E f \in c.entry :
                       Same(e, f) /\ f.bundle = e.bundle /\ Target(f, c) = s
           /\ \A f \in c.entry \ Main(c) :
                 \/ Skipped(f.bundle, c)
                 \/ /\ Target(f, c) \in Csv[f.bundle].skips
                    /\ \E e \in Main(c) : /\ Same(e, f) /\ e.bundle = f.bundle
                                          /\ e.id < f.id /\ e.depth < f.depth
<1> DEFINE links(e, n) == IF n = EMPTY THEN e.replaces = NULL
                          ELSE \E f \in c.entry : f.id = e.replaces /\ f.bundle = n
<1>1. /\ \A e, f, g \in c.entry :
                 Same(e, g) /\ e.id < f.id /\ f.id < g.id => Same(e, f)
      /\ \A e, f \in Main(c) : Same(e, f) /\ e.bundle = f.bundle => e = f
  BY DEF IsWalked, Same, Main
<1>2. \A e \in Main(c) :
         /\ links(e, Csv[e.bundle].replaces)
         /\ \A s \in Csv[e.bundle].skips : \E f \in c.entry :
               Same(e, f) /\ f.bundle = e.bundle /\ links(f, s)
  BY DEF IsWalked, Same, Main
<1>3. \A f \in c.entry \ Main(c) :
         \/ Skipped(f.bundle, c)
         \/ /\ \E s \in Csv[f.bundle].skips : links(f, s)
            /\ \E e \in Main(c) : /\ Same(e, f) /\ e.bundle = f.bundle
                                  /\ e.id < f.id /\ e.depth < f.depth
  BY DEF IsWalked, Same, Main, Skipped
<1>4. \A e \in c.entry : links(e, EMPTY) => Target(e, c) = NULL
  BY TargetOf
<1>5. \A e \in c.entry : \A s : s # EMPTY /\ links(e, s) => Target(e, c) = s
  BY TargetOf
<1> HIDE DEF links
<1>6. \A e \in c.entry : e.bundle \in Names
  BY DEF IsCatalog
<1>7. \A n \in Names : \A s \in Csv[n].skips : s # EMPTY
  BY MigrationsAssumption
<1>8. \A e \in Main(c) : Target(e, c) = Declared(e.bundle)
  BY <1>2, <1>4, <1>5 DEF Declared, Main
<1>9. \A e \in Main(c) : \A s \in Csv[e.bundle].skips : \E f \in c.entry :
          Same(e, f) /\ f.bundle = e.bundle /\ Target(f, c) = s
  BY <1>2, <1>5, <1>6, <1>7 DEF Main
<1>10. \A f \in c.entry \ Main(c) :
         \/ Skipped(f.bundle, c)
         \/ /\ Target(f, c) \in Csv[f.bundle].skips
            /\ \E e \in Main(c) : /\ Same(e, f) /\ e.bundle = f.bundle
                                  /\ e.id < f.id /\ e.depth < f.depth
  BY <1>3, <1>5, <1>6, <1>7
<1> QED
  BY <1>1, <1>8, <1>9, <1>10

\* The entry ids are natural numbers, and well-founded induction finds the least.
\* What is used of the natural numbers: a least element.  The lemmas take it as a
\* hypothesis, which LeastLemma proves for the theorems at the end of the module.
Least == \A U \in SUBSET Nat : U # {} => \E u \in U : \A m \in U : u <= m

\* Some row comes first among those that replace the same.
LEMMA SomeLeads ==
    ASSUME Least, NEW c, IsCatalog(c), NEW n, NEW e \in RowsOf(n, c)
    PROVE  \E x \in RowsOf(n, c) : Target(x, c) = Target(e, c) /\ Leads(x, n, c)
<1> DEFINE S == {x \in RowsOf(n, c) : Target(x, c) = Target(e, c)}
           U == {x.id : x \in S}
<1>1. U # {} /\ U \in SUBSET Nat
  BY DEF RowsOf, IsCatalog
<1>2. PICK u \in U : \A m \in U : u <= m
  <2> HIDE DEF U
  <2> QED BY <1>1 DEF Least
<1>3. PICK x \in S : x.id = u
  OBVIOUS
<1>4. \A y \in RowsOf(n, c) : Target(y, c) = Target(x, c) => x.id <= y.id
  BY <1>2, <1>3
<1> QED
  BY <1>3, <1>4 DEF Leads

\* The least deep of the leading rows of a bundle that no other one skips is one of
\* its main rows, or replaces the same: in the channel that was walked first the
\* main row comes before those of what it skips, and in each later one every row
\* replaces what a row of the first one does.
LEMMA FirstIsDeclared ==
    ASSUME Least, NEW c, IsCatalog(c), IsWalked(c), NEW n, ~ Skipped(n, c),
           NEW e0 \in Main(c), e0.bundle = n,
           NEW f, Leads(f, n, c), \A x : Leads(x, n, c) => f.depth <= x.depth
    PROVE  Target(f, c) = Declared(n)
<1> SUFFICES ASSUME Target(f, c) # Declared(n) PROVE FALSE
  OBVIOUS
<1>1. \A e \in c.entry : e.id \in Nat /\ e.depth \in Nat
  BY DEF IsCatalog
<1>2. f \in c.entry /\ f.bundle = n /\ f \notin Main(c)
  BY Walked DEF Leads, RowsOf
<1>3. PICK m \in Main(c) : Same(m, f) /\ m.bundle = n /\ m.id < f.id /\ m.depth < f.depth
  BY <1>2, Walked
<1>4. m \in RowsOf(n, c) /\ m \in c.entry /\ Target(m, c) = Declared(n)
  BY <1>3, Walked DEF RowsOf, Main
<1>5. PICK g \in RowsOf(n, c) : Target(g, c) = Declared(n) /\ Leads(g, n, c)
  BY <1>4, SomeLeads
<1>6. g \in c.entry /\ g.bundle = n /\ g.id <= m.id
  BY <1>4, <1>5 DEF Leads, RowsOf
<1>7. g # m /\ g.id < m.id
  <2>1. f.depth <= g.depth
    BY <1>5
  <2>2. g # m
    BY <1>1, <1>2, <1>3, <1>4, <1>6, <2>1
  <2>3. g.id # m.id
    BY <1>4, <1>6, <2>2 DEF IsCatalog
  <2> QED
    BY <1>1, <1>4, <1>6, <2>2, <2>3
<1>8. g \in Main(c)
  <2> SUFFICES ASSUME g \notin Main(c) PROVE FALSE
    OBVIOUS
  <2>1. PICK h \in Main(c) : h.bundle = n /\ h.id < g.id
    BY <1>6, Walked
  <2>2. h \in RowsOf(n, c) /\ Target(h, c) = Declared(n)
    BY <2>1, Walked DEF RowsOf, Main
  <2>3. g.id <= h.id
    BY <1>5, <2>2 DEF Leads
  <2> QED
    BY <1>1, <1>6, <2>1, <2>2, <2>3 DEF RowsOf
<1>9. ~ Same(g, m)
  BY <1>3, <1>6, <1>7, <1>8, Walked
<1>10. Target(f, c) \in Csv[n].skips
  BY <1>2, Walked
<1>11. PICK k \in c.entry : Same(g, k) /\ k.bundle = n /\ Target(k, c) = Target(f, c)
  BY <1>6, <1>8, <1>10, Walked
<1>12. f.id <= k.id
  BY <1>11 DEF Leads, RowsOf
<1>13. k.id # f.id
  <2> SUFFICES ASSUME k.id = f.id PROVE FALSE
    OBVIOUS
  <2>1. k = f
    BY <1>2, <1>11 DEF IsCatalog
  <2> QED
    BY <1>3, <1>9, <1>11, <2>1 DEF Same
<1>14. m.id < k.id
  BY <1>1, <1>2, <1>3, <1>4, <1>11, <1>12, <1>13
<1>15. Same(g, m)
  BY <1>4, <1>6, <1>7, <1>11, <1>14, Walked
<1> QED
  BY <1>9, <1>15

\* What migration 007 writes for a bundle are its edges.
LEMMA Backfill ==
    ASSUME Least, NEW c, IsCatalog(c), IsWalked(c), tx.entry = c.entry, NEW n \in c.stored,
           NEW first \in Names \cup {NULL},
           IF Replacees(n) = {} THEN first = NULL
           ELSE first \in {r[2] : r \in First(Replacees(n))},
           NEW b, b.name = n, b.replaces = IF first = NULL THEN EMPTY ELSE first,
           b.skips = {r[2] : r \in Replacees(n)} \ {NULL, first}
    PROVE  EdgesKept(b, c)
<1> DEFINE L == {x \in c.entry : Leads(x, n, c)}
           T == {Target(e, c) : e \in RowsOf(n, c)}
<1>1. Replacees(n) = {<<e.depth, Target(e, c)>> : e \in L}
  BY ReplaceesAre
<1>2. \A t : t \in T <=> \E e \in L : t = Target(e, c)
  BY SomeLeads DEF Leads, RowsOf
<1>3. {r[2] : r \in Replacees(n)} = T
  <2>1. ASSUME NEW r \in Replacees(n) PROVE r[2] \in T
    <3>1. PICK e \in L : r = <<e.depth, Target(e, c)>>
      BY <1>1
    <3>2. r[2] = Target(e, c)
      BY <3>1
    <3> QED
      BY <1>2, <3>2
  <2>2. ASSUME NEW t \in T PROVE \E r \in Replacees(n) : r[2] = t
    <3>1. PICK e \in L : t = Target(e, c)
      BY <1>2
    <3> DEFINE r == <<e.depth, Target(e, c)>>
    <3>2. r \in Replacees(n)
      BY <1>1
    <3>3. r[2] = t
      BY <3>1
    <3> QED
      BY <3>2, <3>3
  <2> HIDE DEF T
  <2> QED
    BY <2>1, <2>2
<1>4. Replacees(n) # {} =>
         \E f \in L : first = Target(f, c) /\ \A x \in L : f.depth <= x.depth
  <2> SUFFICES ASSUME Replacees(n) # {}
               PROVE  \E f \in L : first = Target(f, c) /\ \A x \in L : f.depth <= x.depth
    OBVIOUS
  <2>1. PICK r \in First(Replacees(n)) : first = r[2]
    OBVIOUS
  <2>2. r \in Replacees(n) /\ \A s \in Replacees(n) : r[1] <= s[1]
    BY DEF First
  <2>3. PICK f \in L : r = <<f.depth, Target(f, c)>>
    BY <1>1, <2>2
  <2>4. ASSUME NEW x \in L PROVE f.depth <= x.depth
    <3> DEFINE s == <<x.depth, Target(x, c)>>
    <3>1. s \in Replacees(n) /\ s[1] = x.depth
      BY <1>1
    <3> HIDE DEF s
    <3> QED
      BY <2>2, <2>3, <3>1
  <2> QED
    BY <2>1, <2>3, <2>4
<1>5. Replacees(n) = {} => T = {}
  BY <1>3
<1>6. \A t \in T : t = NULL \/ t \in Names
  BY TargetOf DEF RowsOf, IsCatalog
<1>7. Replaced(n, c) = T \ {NULL}
  <2>1. ASSUME NEW e \in c.entry, NEW f \in RowsOf(n, c), e.id = f.replaces
        PROVE  e.bundle \in T \ {NULL}
    <3>1. Target(f, c) = e.bundle
      BY <2>1, TargetOf DEF RowsOf
    <3>2. e.bundle # NULL
      BY MigrationsAssumption DEF IsCatalog
    <3> QED
      BY <3>1, <3>2
  <2>2. ASSUME NEW f \in RowsOf(n, c), Target(f, c) # NULL
        PROVE  \E e \in c.entry : e.id = f.replaces /\ e.bundle = Target(f, c)
    BY <2>2, TargetOf DEF RowsOf
  <2>3. Replaced(n, c) = {e.bundle : e \in {x \in c.entry :
                              \E f \in RowsOf(n, c) : x.id = f.replaces}}
    BY DEF Replaced, RowsOf
  <2> QED
    BY <2>1, <2>2, <2>3
<1>8. first # NULL => first \in T
  BY <1>2, <1>4
<1>9. EMPTY \notin T /\ EMPTY # NULL /\ first # EMPTY
  BY <1>6, MigrationsAssumption
<1>10. ({b.replaces} \cup b.skips) \ {EMPTY} = Replaced(b.name, c)
  <2> HIDE DEF T
  <2> QED
    BY <1>3, <1>7, <1>8, <1>9
<1>11. ASSUME NEW e0 \in Main(c), e0.bundle = n, ~ Skipped(n, c)
       PROVE  b.replaces = Csv[n].replaces
  <2>1. e0 \in RowsOf(n, c)
    BY <1>11 DEF RowsOf, Main
  <2>2. \A x : x \in L <=> Leads(x, n, c)
    BY DEF Leads, RowsOf
  <2> HIDE DEF L
  <2>3. PICK f \in L : first = Target(f, c) /\ \A x \in L : f.depth <= x.depth
    BY <1>4, <1>5, <2>1
  <2>4. first = Declared(n)
    BY ZenonT(30), <1>11, <2>2, <2>3, FirstIsDeclared
  <2>5. n \in Names
    BY DEF IsCatalog
  <2> QED
    BY ZenonT(30), <2>4, <2>5, MigrationsAssumption DEF Declared
<1> QED
  BY <1>10, <1>11 DEF EdgesKept, Skipped

\* Migration 007.
LEMMA ReplacesSkipsStep ==
    ASSUME Least, MInv, ReplacesSkips
    PROVE  MInv'
<1> DEFINE c == from.catalog
           v == from.version
<1>1. At(7)
  BY DEF ReplacesSkips
<1>2. PICK first \in [{b.name : b \in Named} -> Names \cup {NULL}] :
          /\ \A n \in DOMAIN first :
                IF Replacees(n) = {} THEN first[n] = NULL
                ELSE first[n] \in {r[2] : r \in First(Replacees(n))}
          /\ Done([tx EXCEPT !.bundle = {Backfilled(b, first) : b \in tx.bundle}])
  BY ZenonT(30) DEF ReplacesSkips
<1> DEFINE X == {Backfilled(b, first) : b \in tx.bundle}
           t == [tx EXCEPT !.bundle = X]
<1>3. /\ v \in Int /\ Migrated(tx, c, v) /\ tx.version \in Int
      /\ tx.version = 6 /\ IsIndex(tx) /\ v < 7 /\ IsCatalog(c) /\ IsWalked(c)
  <2>1. /\ v \in Int /\ Migrated(tx, c, v) /\ tx.version \in Int
        /\ tx.version = 6 /\ IsIndex(tx) /\ v < 7 /\ Given(c, v)
    BY <1>1, AtVersion DEF Latest
  <2> QED
    BY <2>1 DEF Given
<1>4. tx.entry = c.entry /\ BundlesKept(tx.bundle, c, v)
  BY <1>3 DEF Migrated
<1>5. ASSUME NEW b \in tx.bundle
      PROVE  LET d == Backfilled(b, first)
             IN  /\ IsBundle(d) /\ d.name = b.name
                 /\ d.version = b.version /\ d.path = b.path
                 /\ b.name # NULL =>
                       /\ d.replaces = IF first[b.name] = NULL THEN EMPTY ELSE first[b.name]
                       /\ d.skips = {r[2] : r \in Replacees(b.name)} \ {NULL, first[b.name]}
  <2>1. IsBundle(b)
    BY <1>4 DEF BundlesKept
  <2> DEFINE R == IF first[b.name] = NULL THEN EMPTY ELSE first[b.name]
             S == {r[2] : r \in Replacees(b.name)} \ {NULL, first[b.name]}
             d == Backfilled(b, first)
  <2>2. d = IF b.name = NULL THEN b ELSE [b EXCEPT !.replaces = R, !.skips = S]
    BY DEF Backfilled
  <2>3. /\ IsBundle(d) /\ d.name = b.name
        /\ d.version = b.version /\ d.path = b.path
        /\ b.name # NULL => d.replaces = R /\ d.skips = S
    <3> HIDE DEF d, R, S
    <3> QED
      BY ZenonT(30), <2>1, <2>2 DEF IsBundle
  <2> QED
    BY <2>3
<1>6. BundlesKept(X, c, v)
  BY <1>4, <1>5 DEF BundlesKept
<1>7. \A d \in X : d.name # NULL => EdgesKept(d, c)
  <2> SUFFICES ASSUME NEW b \in tx.bundle, b.name # NULL
               PROVE  EdgesKept(Backfilled(b, first), c)
    BY <1>5
  <2>1. b.name \in DOMAIN first /\ first[b.name] \in Names \cup {NULL} /\ b.name \in c.stored
    BY <1>4 DEF Named, BundlesKept
  <2>2. IF Replacees(b.name) = {} THEN first[b.name] = NULL
        ELSE first[b.name] \in {r[2] : r \in First(Replacees(b.name))}
    BY <1>2, <2>1
  <2> DEFINE d == Backfilled(b, first)
  <2>3. /\ d.name = b.name
        /\ d.replaces = IF first[b.name] = NULL THEN EMPTY ELSE first[b.name]
        /\ d.skips = {r[2] : r \in Replacees(b.name)} \ {NULL, first[b.name]}
    BY <1>5
  <2> HIDE DEF d
  <2>4. EdgesKept(d, c)
    BY ZenonT(30), <1>3, <1>4, <2>1, <2>2, <2>3, Backfill
  <2> QED
    BY <2>4 DEF d
<1>8. Done(t)
  BY <1>2
<1> HIDE DEF X
<1>9. /\ IsIndex(t) /\ t.version = tx.version
      /\ t.bundle = X /\ t.channel = tx.channel /\ t.entry = tx.entry
      /\ t.provider = tx.provider /\ t.requirer = tx.requirer
      /\ t.property = tx.property
  BY <1>3, BundleWritten
<1> HIDE DEF t
<1>10. /\ IsIndex(tx') /\ tx'.version = 7
       /\ tx'.bundle = X /\ tx'.channel = tx.channel /\ tx'.entry = tx.entry
       /\ tx'.provider = tx.provider /\ tx'.requirer = tx.requirer
       /\ tx'.property = tx.property
  BY <1>3, <1>8, <1>9, DoneFields DEF Done
<1> HIDE DEF c, v
<1>11. Migrated(tx', c, v)
  BY <1>3, <1>6, <1>7, <1>10, EdgesWritten
<1> QED
  BY <1>8, <1>11, TxStep DEF Done, c, v

-----------------------------------------------------------------------------
(***************************************************************************)
(* The first file and the steps of the migrator                            *)
(***************************************************************************)

\* Every index that a release built satisfies the invariant.
LEMMA InitMInv == Init => MInv
<1> SUFFICES ASSUME Init PROVE MInv
  OBVIOUS
<1>1. PICK c \in Catalogs \cup {Nothing}, v \in -1 .. Latest :
          /\ v = -1 => c = Nothing
          /\ v < 9 => c.deprecated = {}
          /\ db = Built(c, v) /\ from = [catalog |-> c, version |-> v]
  BY DEF Init
<1>2. IsCatalog(Nothing) /\ IsWalked(Nothing)
  BY ZenonT(30) DEF Nothing, IsCatalog, IsWalked
<1>3. IsCatalog(c) /\ (v < 9 => IsWalked(c))
  BY <1>1, <1>2, MigrationsAssumption
<1>4. Migrated(db, c, v)
  BY <1>1, <1>3, BuiltMigrated
<1>5. tx = NULL /\ result # "ok"
  BY MigrationsAssumption DEF Init
<1> QED
  BY <1>1, <1>3, <1>4, <1>5 DEF MInv, Given

\* No step falsifies it.
LEMMA NextMInv ==
    ASSUME Least, MInv, [Next]_migrationVars
    PROVE  MInv'
<1>1. CASE Begin
  BY <1>1 DEF Begin, MInv
<1>2. CASE Commit
  BY <1>2 DEF Commit, MInv
<1>3. CASE Fail \/ CascadeDeleteFails
  BY <1>3 DEF Fail, CascadeDeleteFails, MInv
<1>4. CASE \/ CreateTables \/ RelatedImages \/ BundlePath \/ RequiredApis
           \/ Dependencies \/ SubstitutesFor \/ Deprecated
  BY <1>4, PlainSteps
<1>5. CASE \/ CascadeDelete \/ VersionSkipRange \/ AssociateApisWithBundle
           \/ ReplacesSkips \/ Properties \/ BundlePathPkgProperty
  BY <1>5, CascadeDeleteStep, VersionSkipRangeStep, AssociateStep, ReplacesSkipsStep,
     PropertiesStep, PathStep
<1>6. CASE UNCHANGED migrationVars
  BY <1>6 DEF migrationVars, MInv, Given, Migrated
<1> QED
  BY <1>1, <1>2, <1>3, <1>4, <1>5, <1>6 DEF Next

\* A migrated file has the apis of the CSVs.
LEMMA InvApis == MInv => ApisMigrated
<1> SUFFICES ASSUME MInv, result = "ok", NEW n \in Listed
             PROVE  /\ ApisOf(db, "provider", n) = Csv[n].provides
                    /\ ApisOf(db, "requirer", n) = Csv[n].requires
                    /\ {r.value : r \in {x \in db.property :
                           x.type = "olm.gvk" /\ x.of[1] = n}} = Csv[n].provides
  BY DEF ApisMigrated
<1> DEFINE c == from.catalog
<1>1. PICK e \in Main(c) : e.bundle = n
  BY DEF Listed, Main
<1>2. Migrated(db, c, from.version) /\ db.version = 12 /\ IsCatalog(c)
  BY OkAtLatest DEF Latest
<1>3. /\ ByName(db.provider, c, Provides) /\ ByName(db.requirer, c, Requires)
      /\ PropertiesKept(db.property, c, from.version)
  BY ZenonT(30), OkAtLatest, AtLatest
<1>4. Provides[n] = Csv[n].provides /\ Requires[n] = Csv[n].requires
  BY <1>1, <1>2 DEF Provides, Requires, IsCatalog, Main
<1>5. /\ {r.api : r \in {x \in db.provider : x.of[1] = n}} = Csv[n].provides
      /\ {r.api : r \in {x \in db.requirer : x.of[1] = n}} = Csv[n].requires
  BY <1>1, <1>3, <1>4 DEF ByName
<1>6. /\ ApisOf(db, "provider", n) = {r.api : r \in {x \in db.provider : x.of[1] = n}}
      /\ ApisOf(db, "requirer", n) = {r.api : r \in {x \in db.requirer : x.of[1] = n}}
  BY <1>2 DEF ApisOf
<1>7. {r.value : r \in {x \in db.property : x.type = "olm.gvk" /\ x.of[1] = n}}
         = Csv[n].provides
  BY <1>1, <1>3, <1>4 DEF PropertiesKept
<1> QED
  BY ZenonT(30), <1>5, <1>6, <1>7

\* A migrated file has the edges of the graph.
LEMMA InvEdges == MInv => EdgesBackfilled
<1> SUFFICES ASSUME MInv, result = "ok", from.version < 7,
                    NEW b \in db.bundle, b.name # NULL
             PROVE  LET to == {e.replaces : e \in {x \in db.entry : x.bundle = b.name}}
                        skipped == \E n \in from.catalog.stored : b.name \in Csv[n].skips
                    IN  /\ ({b.replaces} \cup b.skips) \ {EMPTY} =
                              {e.bundle : e \in {x \in db.entry : x.id \in to}}
                        /\ b.name \in Listed /\ ~ skipped =>
                              b.replaces = Csv[b.name].replaces
  BY DEF EdgesBackfilled
<1> DEFINE c == from.catalog
<1>1. db.entry = c.entry /\ EdgesKept(b, c)
  BY ZenonT(30), OkAtLatest, AtLatest
<1>2. b.name \in Listed => \E e \in Main(c) : e.bundle = b.name
  BY DEF Listed, Main
<1> QED
  BY <1>1, <1>2 DEF EdgesKept, Replaced

\* The properties of a migrated file refer to its bundles.
LEMMA InvOwned == MInv => PropertiesOwned
<1> SUFFICES ASSUME MInv, result = "ok", NEW r \in db.property
             PROVE  \E b \in db.bundle :
                       /\ b.name = r.of[1]
                       /\ {b.version, b.path} \cap {NULL, EMPTY} = {} =>
                             r.of = <<b.name, b.version, b.path>>
  BY DEF PropertiesOwned
<1> DEFINE c == from.catalog
           v == from.version
<1>1. IsCatalog(c)
  BY OkAtLatest
<1>2. PropertiesKept(db.property, c, v) /\ BundlesKept(db.bundle, c, v)
  BY ZenonT(30), OkAtLatest, AtLatest
<1>3. IsKey(r.of, c, v)
  BY <1>2 DEF PropertiesKept
<1>4. r.of[1] \in c.stored /\ r.of[1] # NULL
  BY <1>1, <1>3, MigrationsAssumption DEF IsKey, IsCatalog
<1>5. PICK b \in db.bundle : b.name = r.of[1]
  BY <1>2, <1>4 DEF BundlesKept
<1>6. b.version = VersionOf(b.name, v) /\ b.path = PathOf(b.name, c, v)
  BY <1>2, <1>4, <1>5 DEF BundlesKept
<1> QED
  BY <1>3, <1>5, <1>6 DEF IsKey

-----------------------------------------------------------------------------
(***************************************************************************)
(* The theorems                                                            *)
(***************************************************************************)

INSTANCE WellFoundedInduction

\* A set of natural numbers has a least one.
LEMMA LeastLemma == Least
<1> DEFINE Less == {ss \in Nat \X Nat : ss[1] < ss[2]}
<1> SUFFICES ASSUME NEW U \in SUBSET Nat, U # {}
             PROVE  \E u \in U : \A m \in U : u <= m
  BY DEF Least
<1>1. IsWellFoundedOn(Less, Nat)
  BY NatLessThanWellFounded DEF OpToRel
<1>2. PICK u \in U : \A m \in U : ~ (<<m, u>> \in Less)
  <2> HIDE DEF Less
  <2> QED BY ZenonT(30), <1>1, WFMin
<1>3. \A m \in U : ~ (m < u)
  BY ZenonT(30), <1>2
<1> QED BY <1>3

\* The tables are, in the transaction and in the file, what their version asks for.
THEOREM MigrationsInvariant == Spec => []MInv
<1>1. MInv /\ [Next]_migrationVars => MInv'
  BY LeastLemma, NextMInv
<1> QED BY <1>1, InitMInv, PTL DEF Spec

\* A migrated index provides and requires what the CSVs say (ApisMigrated), whichever
\* version it was built with.
THEOREM ApisAreMigrated == Spec => []ApisMigrated
BY InvApis, MigrationsInvariant, PTL

\* The edges that migration 007 fills in are those of the graph and, for a bundle
\* that no other one skips, those of its CSV (EdgesBackfilled).
THEOREM EdgesAreBackfilled == Spec => []EdgesBackfilled
BY InvEdges, MigrationsInvariant, PTL

\* Every property of a migrated index refers to the row of a bundle by the three
\* columns of its key (PropertiesOwned).
THEOREM PropertiesAreOwned == Spec => []PropertiesOwned
BY InvOwned, MigrationsInvariant, PTL

=============================================================================
