------------------------------ MODULE Migrations ------------------------------
(***************************************************************************)
(* What the migrations 000 to 012 (pkg/sqlite/migrations) do to the rows   *)
(* of an index that an older release built: the columns and tables they    *)
(* add are filled from the CSVs, from the upgrade graph and from each      *)
(* other.  All of them run in one transaction of Migrator.Up, on a         *)
(* connection that enforces foreign keys (sqlite.Open).  Who runs them and *)
(* when is in Migrator.                                                    *)
(*                                                                         *)
(* A row of a table that refers to a bundle does so by <<entry>> up to     *)
(* version 5, and by <<name, version, path>> from 6 on.  Tables are sets:  *)
(* rows that are equal in all columns are one.                             *)
(***************************************************************************)
EXTENDS Integers

CONSTANTS
    NULL, EMPTY,    \* SQL's NULL, and the empty string
    Names,          \* bundle names
    Csv,            \* the CSV of each bundle
    Catalogs        \* what the older release had been given

Latest == 12

\* What is stored is named, an entry belongs to a channel and replaces nothing or
\* another entry. The bundle of a main entry is stored; one that is only skipped, or
\* that a deprecation has removed, need not be.
IsCatalog(c) ==
    /\ c.stored \subseteq Names /\ c.deprecated \subseteq c.stored
    /\ c.channel = {} => c.entry = {}
    /\ \A e \in c.entry :
          /\ e.id \in Nat /\ e.depth \in Nat /\ e.bundle \in Names
          /\ e.id \in c.main => e.bundle \in c.stored
          /\ e.replaces = NULL \/ \E f \in c.entry : f.id = e.replaces
    /\ \A e, f \in c.entry : e.id = f.id => e = f

\* The entries are those of addPackageChannels, which walks one channel after the
\* other: every bundle of a channel has a main entry in it, which replaces what its
\* CSV says, and then one for each bundle it skips. Only a bundle that is skipped
\* has other entries.
IsWalked(c) ==
    LET main == {e \in c.entry : e.id \in c.main}
        same(e, f) == e.channel = f.channel /\ e.pkg = f.pkg
        links(e, n) == IF n = EMPTY THEN e.replaces = NULL
                       ELSE \E f \in c.entry : f.id = e.replaces /\ f.bundle = n
    IN  /\ \A e, f, g \in c.entry :
              same(e, g) /\ e.id < f.id /\ f.id < g.id => same(e, f)
        /\ \A e, f \in main : same(e, f) /\ e.bundle = f.bundle => e = f
        /\ \A e \in main :
              /\ links(e, Csv[e.bundle].replaces)
              /\ \A s \in Csv[e.bundle].skips : \E f \in c.entry :
                    same(e, f) /\ f.bundle = e.bundle /\ links(f, s)
        /\ \A f \in c.entry \ main :
              \/ \E n \in c.stored : f.bundle \in Csv[n].skips
              \/ /\ \E s \in Csv[f.bundle].skips : links(f, s)
                 /\ \E e \in main : /\ same(e, f) /\ e.bundle = f.bundle
                                    /\ e.id < f.id /\ e.depth < f.depth

\* Nothing was deprecated before there were properties, so that the entries are
\* whole.
ASSUME MigrationsAssumption ==
    /\ NULL \notin Nat /\ NULL \notin {EMPTY, "ok"}
    /\ {NULL, EMPTY} \cap Names = {}
    /\ \A n \in Names : Csv[n].replaces \in Names \cup {EMPTY} /\ Csv[n].skips \subseteq Names
    /\ \A c \in Catalogs : IsCatalog(c) /\ (c.deprecated = {} => IsWalked(c))

VARIABLES
    db,         \* the file
    tx,         \* what the open transaction sees, or NULL
    from,       \* history: the catalog, and the version its index was built with
    result      \* what Migrate returned

migrationVars == <<db, tx, from, result>>

NullIfEmpty(s) == IF s = EMPTY THEN NULL ELSE s

\* The columns by which a row refers to a bundle, from version 6 on.
KeyOf(c, n) == <<n, NullIfEmpty(Csv[n].version), NullIfEmpty(c.path[n])>>

BuiltApis(c, v, field) ==
    IF v < 6
    THEN UNION {{[api |-> k, of |-> <<e.id>>] : k \in Csv[e.bundle][field]} :
                e \in {x \in c.entry : x.id \in c.main}}
    ELSE UNION {{[api |-> k, of |-> KeyOf(c, n)] : k \in Csv[n][field]} : n \in c.stored}

BuiltProperties(c) ==
    (UNION {{[type |-> "olm.gvk", value |-> k, of |-> KeyOf(c, n)] : k \in Csv[n].provides} :
            n \in c.stored})
    \cup {[type |-> "olm.package", value |-> e.pkg, of |-> KeyOf(c, e.bundle)] :
          e \in {x \in c.entry : x.id \in c.main}}
    \cup {[type |-> "olm.deprecated", value |-> EMPTY, of |-> KeyOf(c, n)] :
          n \in c.deprecated}

\* The index of a catalog c that a release with schema version v builds: what
\* this loader stores, without what v does not have yet.
Built(c, v) ==
    LET since(w, S) == IF v < w THEN {} ELSE S
    IN  [version |-> v,
         bundle |-> {[name |-> n,
                      csv |-> v < 2 \/ n \notin c.cleared,
                      path |-> IF v < 2 THEN NULL ELSE c.path[n],
                      version |-> IF v < 5 THEN NULL ELSE Csv[n].version,
                      replaces |-> IF v < 7 THEN NULL ELSE Csv[n].replaces,
                      skips |-> IF v < 7 THEN {} ELSE Csv[n].skips] : n \in c.stored},
         channel |-> c.channel,
         entry |-> c.entry,
         provider |-> BuiltApis(c, v, "provides"),
         requirer |-> since(3, BuiltApis(c, v, "requires")),
         image |-> since(1, {[image |-> "img", bundle |-> n] :
                             n \in {m \in c.stored : Csv[m].images}}),
         dependency |-> since(8, UNION {{[api |-> k, typed |-> v < 9, of |-> KeyOf(c, n)] :
                                         k \in Csv[n].requires} : n \in c.stored}),
         property |-> since(9, BuiltProperties(c)),
         deprecated |-> since(12, c.deprecated)]

\* A file without tables has version -1.
Nothing ==
    [stored |-> {}, cleared |-> {}, path |-> <<>>, deprecated |-> {},
     channel |-> {}, entry |-> {}, main |-> {}]

Init ==
    /\ \E c \in Catalogs \cup {Nothing}, v \in -1 .. Latest :
          /\ v = -1 => c = Nothing
          /\ v < 9 => c.deprecated = {}
          /\ db = Built(c, v) /\ from = [catalog |-> c, version |-> v]
    /\ tx = NULL /\ result = NULL

At(v) == tx # NULL /\ tx.version = v - 1

\* setVersion
Done(t) == tx' = [t EXCEPT !.version = @ + 1] /\ UNCHANGED <<db, from, result>>

Begin ==
    /\ tx = NULL /\ result = NULL
    /\ tx' = db
    /\ UNCHANGED <<db, from, result>>

Commit ==
    /\ tx # NULL /\ tx.version = Latest
    /\ db' = tx /\ tx' = NULL /\ result' = "ok"
    /\ UNCHANGED from

\* A statement fails, or the process dies: the transaction is never committed.
Fail ==
    /\ tx # NULL
    /\ tx' = NULL /\ result' = "error"
    /\ UNCHANGED <<db, from>>

-----------------------------------------------------------------------------
Named == {b \in tx.bundle : b.name # NULL}

\* getCSV, for the bundles that still have one
WithCsv == {b \in Named : b.csv}

CreateTables ==
    /\ At(0)
    /\ Done(tx)

RelatedImages ==
    /\ At(1)
    /\ Done([tx EXCEPT !.image = {[image |-> "img", bundle |-> b.name] :
                                  b \in {x \in WithCsv : Csv[x.name].images}}])

\* The column bundlepath, which is NULL.
BundlePath ==
    /\ At(2)
    /\ Done(tx)

\* getChannelEntryBundles
EntryBundles ==
    UNION {{<<e.id, b>> : b \in {x \in Named : x.name = e.bundle}} : e \in tx.entry}

\* extractRequiredApis, which fails for a bundle without its CSV
Extracted(id, b) ==
    IF b.csv THEN {[api |-> k, of |-> <<id>>] : k \in Csv[b.name].requires} ELSE {}

\* A bundle whose apis cannot be extracted is left out with a warning.
RequiredApis ==
    /\ At(3)
    /\ Done([tx EXCEPT !.requirer = UNION {Extracted(p[1], p[2]) : p \in EntryBundles}])

\* "PRAGMA foreign_keys = 0" has no effect inside a transaction. Dropping the
\* renamed operatorbundle deletes its rows, which fails while a channel or an
\* image refers to one.
Referenced == tx.channel # {} \/ tx.image # {}

CascadeDelete ==
    /\ At(4) /\ ~ Referenced
    /\ Done(tx)

CascadeDeleteFails ==
    /\ At(4) /\ Referenced
    /\ tx' = NULL /\ result' = "error"
    /\ UNCHANGED <<db, from>>

\* extractVersioning inserts a row without a name, where an update was meant.
Versioning(b) ==
    [name |-> NULL, csv |-> FALSE, path |-> NULL, version |-> Csv[b.name].version,
     replaces |-> NULL, skips |-> {}]

VersionSkipRange ==
    /\ At(5)
    /\ Done([tx EXCEPT !.bundle = @ \cup {Versioning(b) : b \in WithCsv}])

\* Mutant: only the rows of channel heads are taken over.
HeadRows(rows) ==
    UNION {{[api |-> r.api, of |-> <<b.name, b.version, b.path>>] :
            b \in {x \in Named : \E e \in tx.entry :
                      <<e.id>> = r.of /\ e.bundle = x.name /\ e.depth = 0}} : r \in rows}

\* mapBundlesToApisFromOldSchema: from entries to bundles
ByBundle(rows) ==
    UNION {{[api |-> r.api, of |-> <<b.name, b.version, b.path>>] :
            b \in {x \in Named : \E e \in tx.entry :
                      <<e.id>> = r.of /\ e.bundle = x.name}} : r \in rows}

AssociateApisWithBundle ==
    /\ At(6)
    /\ Done([tx EXCEPT !.provider = ByBundle(@), !.requirer = ByBundle(@)])

\* getReplacesAndSkips: what the entries of a bundle replace, each with the depth
\* of the first row that says so.
Replacees(n) ==
    LET rows == {e \in tx.entry : e.bundle = n}
        to(e) == IF e.replaces = NULL THEN NULL
                 ELSE (CHOOSE x \in tx.entry : x.id = e.replaces).bundle
    IN  {<<e.depth, to(e)>> : e \in {x \in rows : \A y \in rows : to(y) = to(x) => x.id <= y.id}}

\* Mutant: the order of the rows is left to the database.
AnyOf(R) == R

\* Those that can come first in the order of depth.
First(R) == {r \in R : \A s \in R : r[1] <= s[1]}

\* extractReplaces: the first row is what the bundle replaces, the others are what
\* it skips.
Backfilled(b, first) ==
    IF b.name = NULL THEN b
    ELSE [b EXCEPT !.replaces = IF first[b.name] = NULL THEN EMPTY ELSE first[b.name],
                   !.skips = {r[2] : r \in Replacees(b.name)} \ {NULL, first[b.name]}]

ReplacesSkips ==
    /\ At(7)
    /\ \E first \in [{b.name : b \in Named} -> Names \cup {NULL}] :
          /\ \A n \in DOMAIN first :
                IF Replacees(n) = {} THEN first[n] = NULL
                ELSE first[n] \in {r[2] : r \in First(Replacees(n))}
          /\ Done([tx EXCEPT !.bundle = {Backfilled(b, first) : b \in @}])

\* getRequiredAPIs and getProvidedAPIs
OfBundles(rows) == {r \in rows : r.of[1] # NULL}

Dependencies ==
    /\ At(8)
    /\ Done([tx EXCEPT !.dependency = {[api |-> r.api, typed |-> TRUE, of |-> r.of] :
                                       r \in OfBundles(tx.requirer)}])

\* getPackageForBundle: the package of the first entry that is found
PackagesFor(n) ==
    IF \E e \in tx.entry : e.bundle = n
    THEN {e.pkg : e \in {x \in tx.entry : x.bundle = n}}
    ELSE {EMPTY}

\* The package and the provided apis of every bundle that provides one. The
\* subquery of the update is not correlated: all dependencies get the value of one
\* row.
Properties ==
    /\ At(9)
    /\ LET apis == OfBundles(tx.provider)
           keys == {r.of : r \in apis}
       IN  \E pkg \in [keys -> UNION {PackagesFor(k[1]) : k \in keys}],
             d \in IF tx.dependency = {} THEN {NULL} ELSE tx.dependency :
              /\ \A k \in keys : pkg[k] \in PackagesFor(k[1])
              /\ Done([tx EXCEPT
                    !.property =
                       {[type |-> "olm.gvk", value |-> r.api, of |-> r.of] : r \in apis}
                       \cup {[type |-> "olm.package", value |-> pkg[k], of |-> k] : k \in keys},
                    !.dependency = {[api |-> d.api, typed |-> FALSE, of |-> r.of] : r \in @}])

\* Mutant: the path is reset, as the migration down does.
NoPath(k) == {NULL}

\* No bundle is found for a row without a version.
PathsOf(k) ==
    {b.path : b \in {x \in tx.bundle : x.name = k[1] /\ x.version = k[2] /\ k[2] # NULL}}

BundlePathPkgProperty ==
    /\ At(10)
    /\ LET path(k) == IF PathsOf(k) = {} THEN NULL ELSE CHOOSE p \in PathsOf(k) : TRUE
       IN  Done([tx EXCEPT !.property =
                   {[r EXCEPT !.of = <<@[1], @[2], path(@)>>] : r \in @}])

\* The column substitutesfor, which is NULL.
SubstitutesFor ==
    /\ At(11)
    /\ Done(tx)

Deprecated ==
    /\ At(12)
    /\ Done([tx EXCEPT !.deprecated =
               {r.of[1] : r \in {x \in tx.property : x.type = "olm.deprecated"}}])

-----------------------------------------------------------------------------
Next ==
    \/ Begin \/ Commit \/ Fail
    \/ CreateTables \/ RelatedImages \/ BundlePath \/ RequiredApis
    \/ CascadeDelete \/ CascadeDeleteFails
    \/ VersionSkipRange \/ AssociateApisWithBundle \/ ReplacesSkips
    \/ Dependencies \/ Properties \/ BundlePathPkgProperty
    \/ SubstitutesFor \/ Deprecated

Spec == Init /\ [][Next]_migrationVars

-----------------------------------------------------------------------------
(***************************************************************************)
(* Properties                                                              *)
(***************************************************************************)

\* The apis in a table for a bundle.
ApisOf(t, table, n) ==
    {r.api : r \in {x \in t[table] :
        IF t.version < 6 THEN \E e \in t.entry : x.of = <<e.id>> /\ e.bundle = n
        ELSE x.of[1] = n}}

Listed == {e.bundle : e \in {x \in from.catalog.entry : x.id \in from.catalog.main}}

\* A migrated index provides and requires, bundle by bundle, what the CSVs say,
\* whatever version it starts from and although most CSVs are no longer in it:
\* the move of the api tables from entries to bundles, and what is copied from
\* them into properties, lose no bundle of a channel.
ApisMigrated ==
    result = "ok" =>
        \A n \in Listed :
            /\ ApisOf(db, "provider", n) = Csv[n].provides
            /\ ApisOf(db, "requirer", n) = Csv[n].requires
            /\ {r.value : r \in {x \in db.property : x.type = "olm.gvk" /\ x.of[1] = n}}
                  = Csv[n].provides

\* The replaces and skips that are filled in from the upgrade graph give the same
\* graph: together they are what the entries of the bundle replace, and a bundle
\* that no other one skips replaces what its CSV says, in whichever channels and
\* at whichever depths it is. (One that is skipped has an entry that replaces
\* nothing, which can come first: then what it replaces is filled in as skipped.)
EdgesBackfilled ==
    result = "ok" /\ from.version < 7 =>
        \A b \in db.bundle : b.name # NULL =>
            LET to == {e.replaces : e \in {x \in db.entry : x.bundle = b.name}}
                skipped == \E n \in from.catalog.stored : b.name \in Csv[n].skips
            IN  /\ ({b.replaces} \cup b.skips) \ {EMPTY} =
                      {e.bundle : e \in {x \in db.entry : x.id \in to}}
                /\ b.name \in Listed /\ ~ skipped => b.replaces = Csv[b.name].replaces

\* A property goes when its bundle goes: migrated or not, its row refers to the row
\* of a bundle of that name by all three columns of the key, unless the bundle has
\* no version or no image. (An index from before version 5 never gets its versions:
\* its properties outlive their bundles.)
PropertiesOwned ==
    result = "ok" =>
        \A r \in db.property : \E b \in db.bundle :
            /\ b.name = r.of[1]
            /\ {b.version, b.path} \cap {NULL, EMPTY} = {} =>
                  r.of = <<b.name, b.version, b.path>>

\* "update the serialized value to omit the dependency type": the migration of the
\* dependencies leaves what a bundle depends on as it is.
DependenciesKept ==
    result = "ok" =>
        \A n \in Listed :
            {r.api : r \in {x \in db.dependency : x.of[1] = n}} = Csv[n].requires

=============================================================================
