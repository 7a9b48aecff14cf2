# A TLA+ model of operator-registry

operator-registry builds *indexes*: SQLite databases (and, since recently,
declarative config files) that hold operator bundles, the packages and channels
they are published in and the upgrade edges between them. `opm` adds bundles to
an index, removes, prunes and deprecates them; servers answer gRPC queries from
it. An index is changed by many short transactions, by commands that fail
half-way and by migrations, and its tables are linked by cascades. This directory
models the code that builds, changes, migrates, converts and serves an index,
checks the models with TLC on small instances, and proves the most important
invariants with TLAPS for all instances.

Paths below are relative to the repository.

## The parts of the system

| part | code | here |
| --- | --- | --- |
| schema: tables, foreign keys, cascades, triggers | `pkg/sqlite/migrations`, `loadprocs.go` | `RegistryDB`, `ApiIndex` |
| loader: the operations that change an index | `pkg/sqlite/load.go`, `deprecate.go`, `remove.go`, `stranded.go` | `SqlLoader` |
| api tables and their cleanup triggers | `load.go` (`addAPIs`, `rmBundle`), migrations 006 and 007 | `ApiIndex` |
| semver and semver-skippatch modes: read a graph back, place a bundle, write the graph | `graphloader.go`, `pkg/registry/bundlegraphloader.go`, `load.go` | `SemverLoader`, `ChannelSets`, `MixedIndex` |
| channel heads from versions | `SemverPackageManifest` in `pkg/registry/populator.go` | `SemverManifest` |
| replaces mode: a whole `opm index add` | `pkg/lib/registry/registry.go` (`populate`), `populator.go` | `Populator` |
| querier | `pkg/sqlite/query.go` | `Querier` |
| model, declarative config and conversions | `internal/model`, `internal/declcfg`, `internal/action/render.go`, `pkg/api/*_to_*.go`, `pkg/sqlite/conversion.go`, `pkg/registry/query.go` | `CatalogModel`, `Catalog` |
| migrator and migrations | `pkg/sqlite/migrator.go`, `pkg/sqlite/migrations` | `Migrator`, `Migrations` |
| commands: add, rm, prune, prune-stranded, deprecatetruncate, export | `pkg/lib/indexer`, `pkg/lib/registry`, `cmd/opm/index`, `cmd/opm/registry` | `Indexer` |
| servers, config map loader, manifest directory loader | `cmd/opm/registry/serve.go`, `cmd/opm/alpha/serve`, `cmd/registry-server`, `cmd/configmap-server`, `cmd/initializer`, `pkg/server`, `pkg/lib/graceful`, `pkg/sqlite/configmap.go`, `directory.go` | `Serve` |
| bundle images: build, validate, pull, unpack, mirror | `pkg/lib/bundle`, `pkg/image`, `pkg/containertools`, `pkg/mirror`, `pkg/configmap` | no: file system and external tools |
| generated code | `pkg/api/*.pb.go` | no |

How they interact: a command extracts a database from an index image (`Indexer`),
opens and migrates it (`Migrator`, `Migrations`), makes calls of the loader and
builds the image again. `opm index add` in replaces mode pulls images, checks the
request, perhaps removes packages, adds each bundle (`AddOperatorBundle`), chooses
heads by version (`SemverPackageManifest`) and regenerates each package
(`AddPackageChannels`); in the semver modes it reads the graph of the package,
places the bundle in it and writes it back (`AddBundleSemver`). Each call is a
transaction of its own, some are two, and the process can die between any two. A
server copies or loads an index (`Serve`) and answers from the tables (`Querier`)
or from a model made of them (`CatalogModel`).

## Modules, state and actions

**RegistryDB** is the schema as data: a database is a record of tables, a table
with a primary key a function from keys to rows. A statement is an operator from
databases to databases that performs its cascades: deleting a bundle deletes the
channels it heads, their entries, and a package whose default channel is one of
them. A foreign key with a NULL column matches nothing, so rows that reference a
bundle without version or image escape the cascade (`keyed`). The one deferred
foreign key (an entry's `replaces`) is checked at commit.

**SqlLoader** has the loader. `db` is what is committed, `tx` what the open
transaction sees, `pc` what the call does next, `w` the locals of
`addPackageChannels`. Operations whose statements only select and delete sets of
rows are one step per transaction (`AddOperatorBundle`, `DeprecateBundle`,
`RemoveStrandedBundles`, `ClearNonHeadBundles`); `RemovePackage` is two
transactions and two steps (`RemovePackage`, `Strand`). The walk of
`addPackageChannels` along replaces and skips is a loop whose exit depends on
what it meets, and has an action per iteration (`NextChannel`, `VisitBundle`,
`AddSkip`, `EndOfChain`, `ReplacesCycle`, `FollowReplaces`,
`EndPackageChannels`). `Crash` may happen in the middle of any call.

**SemverLoader** extends it with the semver modes. `g` holds the locals of
`AddPackageChannelsFromGraph`. `AddBundleSemver` is the first transaction with
what precedes it (`Generate`, `AddBundleToGraph`); the walk over the graph is the
second. Which node a walk goes on with depends on the order of a Go map and is a
choice. **ChannelSets** is what the mode promises, without entries or
transactions: a channel is a set of versions, and a bundle enters all its
channels at once. `PublishesAtomically` says that semver mode implements it under
the mapping from each channel to the bundles of its entries.

**SemverManifest** is the loop of `SemverPackageManifest` with its locals, for
any list of bundles, including bundles without version, with versions that do
not parse, with equal versions, and with build-ids that cannot be compared
(`Refused`: numbers such as 001), which is an error when two such versions that are
equal but for them meet (`CompareErrs`).

**Populator** composes SqlLoader into `opm index add` in replaces mode. `job`
holds the locals of `populate` and of the `DirectoryPopulator`. `StartAdd` takes
a set of images and the overwrite flag; `FindOverwrites` is one iteration over
the map of unpacked images, in any order; `SanityPass` and `SanityFail` are
`globalSanityCheck`; `RemoveNext`, `AddNext`, `Regenerate` and `EndRegenerate`
are the calls of the loader; `Finish` returns. Between adds, `OtherCommand` is
any call of the other commands. `PopCrash` ends a call anywhere. A manifest is
taken from the highest versions directly, for versions that are distinct and can be
compared; the loop, for any list, is in `SemverManifest`. What the loop makes of the
order of a Go map is a choice: which default channel it ends with when the highest
bundle names none (`Defaults`), and whether the count of a contested head is carried
on to another channel and makes the manifest fail (`CountTravels`).

**Migrator** runs `Migrate` in several processes, of different builds, on one
file. The version is read in one transaction and the migrations are run in
another. SQLite's locks are external: a lock that is not available is an error
for the statement that needs it, a transaction that failed is not rolled back by
`Up` and stays open until the process exits.

**ApiIndex** has the api tables at the level of rows, because the cleanup
triggers run after each deleted row and SQLite does not specify the order.

**Querier** has the SQL queries as operators on a `RegistryDB` database: which
rows a join selects, which row `LIMIT 1` may return. `ListBundles` follows the
recursive query, from the entries of least depth down the replaces edges.
**CatalogModel** has the in-memory model: its validation (one head per channel),
the conversions from the database through `api.Bundle` to the model, to a
declarative config and back, and the second implementation of the queries on it.
**Catalog** puts both beside `SqlLoader` and asks its questions of every database
that the loader commits.

**MixedIndex** lets one index have a package added in semver mode and one added in
replaces mode; the mode is a flag of each command.

**Migrations** has what each migration does to rows. `from` is the catalog and the
schema version, 0 to 12, of the release that built the index (or a new file):
which tables that release filled, which CSVs are still stored (`Built`). What a
catalog may be is an assumption (`MigrationsAssumption`): its entries have ids of
their own and replace one of them or nothing (`IsCatalog`; an entry made for a skipped
bundle is there whether or not that bundle is stored), and, unless a bundle was
deprecated, which only releases with schema 9 or later do, they are what the walk of
the loader leaves (`IsWalked`). The migrations are
actions, in the order and in the one transaction of `Up`, and any of them may
fail. 004 always fails on an older index that has a channel or an image:
`PRAGMA foreign_keys` does nothing inside a transaction.

**Indexer** runs whole commands on an index image and on the files of a working
directory: `image`, `disk` (temporary files, database, Dockerfile, exported
bundles), `cmd` (the request, the stage and locals of the main goroutine) and `go`
(the goroutines that unpack or export). `log.Fatal`, panics and kills skip the
deferred cleanups. A database is known by the bundles it stores, lists and has
deprecated: what happens within the tables is in `SqlLoader` and `Populator`, and
which bundles of a package an add leaves listed is a choice (`Relisted`). Commands
follow each other in one directory (`NextCommand`). What one leaves there, the next
one finds: the database, the Dockerfile, exported bundles and package.yaml files are
marked with the number of the command that wrote them. Only the temporary files are
forgotten, because their names are random.

**Serve** has the servers as processes: `pc` and `run` for main, `server` for the
gRPC server, its `Serve` goroutine and the timeout's timer, `calls` for the calls
of clients. gRPC's promises (`GracefulStop` refuses new calls and waits for open
ones, `Serve` then returns nil) are external. The configmap-server loads its
database first, bundle by bundle and package by package, and so does the
initializer, which walks a directory of manifests twice and leaves the index file
that registry-server serves. An index is copied, and a directory of configs read, in
several steps: `run.torn` says that it was written in between, `run.left` what the
database had before it was loaded.

Modules `MC...` give the constants their values for TLC. Operators marked
"Mutant" are plausible mistakes; replacing a definition by one of them breaks the
property it is listed with in `PROJECT.json`.

## What TLC checks

| run | instance | states | what it shows |
| --- | --- | --- | --- |
| `loader` | two packages with the same channel names; a chain of three bundles with a skip that can close a cycle; bundles without version or image; an invalid bundle | 1,200,000 | `CatalogNavigable`: from a package a client always reaches a head that is in the index. `EdgesDeclared`, `EdgesDescend`: stored edges are declared by bundles and lead down. `WalkBounded`: the walk ends. `DeprecatedTruncates`, `DeprecatedMarked`: deprecation holds through removals and new adds. `PackagesAreKept`, `RegenerableUntilDeprecated`. On the same databases: `EdgesListed`: `ListBundles` lists the stored graph. `ModelHeadsAgree`: an index converts to the model unless the head of a default channel has lost its CSV or a head is skipped from below, and then the heads of the model are those of the channel table. `RenderKeepsChannels`: a declarative config keeps the channels. `QueriersAgree`: on every index that converts, the answers from the model are those from the tables, with the one error of the tables' query that the model does not have |
| `semver` | five bundles of four versions, two channels, any order of adds, removals, deprecations and crashes | 380,000 | `ChannelIsSorted`: a channel is the chain of its versions. `PublishesAtomically`: it implements ChannelSets |
| `skippatch` | the same with both modes mixed | 630,000 | `HeadIsHighest`, `UpgradesLeadToHead`, `GraphWalkBounded`, `SuccessPublishes` |
| `manifest` | every list of up to three bundles over 28 and 9 bundles | 300,000 | `HeadsAreHighest`, `ManifestIsComplete`. `DistinctVersionsAccepted`: no order of bundles with distinct versions makes it fail or choose another default channel than the highest bundle's |
| `add` | requests of one or two images, with and without overwrite, two packages; a bundle loaded without image that skips one to come, a bundle with two images, a cycle of replaces, an image without default channel | 140,000 | `AddStores`, `AddPublishes`: success means stored and published, and nothing lost. `NeverGoesBack`: without overwrite no failure or crash takes a package, a channel or a head back. `AddEnds`: every call ends |
| `migrate` | three processes, one of an older build | 3,400 | `SchemaMatchesVersion`, `SuccessMeansMigrated`, `MigrationsAreKept` |
| `migrations` | six catalogs, built with every schema version since 0, and a new file | 750 | `ApisMigrated`, `EdgesBackfilled`, `PropertiesOwned`: apis, edges and the keys of properties come out as the CSVs and the graph have them |
| `index` | two packages, a bundle without image and one without version; every command with its flags, followed by another, any call failing, kills | 340,000 | `SuccessMeansApplied`: no error of one of several calls is lost, and nothing an earlier command left is taken for the result. `OverwritesWholePackages`: a package is removed only when all of it has been pulled. `ExportIsComplete`: so is an export, also next to an earlier one. `CleanExit`: what returns has removed its temporary files. `CommandEnds`: with goroutines, semaphore and channels, every command ends |
| `serve` | four kinds of source, two starts, two clients, a timeout, signals, kills, sources written meanwhile | 900,000 | `AnswersAreWhole`: clients get all of the catalog that was read, and nothing but that and what an earlier run left. `StopsGracefully`: no orderly end breaks a call. `CopiesRemoved`: a copy of the index stays only after Fatal, a kill or a copy that failed. `SignalEnds`: a signal ends the server |

Three runs show the code disagree with what a comment says of it; the findings in
`PROJECT.json` quote both sides.

| run | what it shows |
| --- | --- |
| `mixed` | in an index with packages of both modes, `ListBundles` lists no replaces for a semver package: it starts at the least depth of the whole table, which is 0 in replaces mode and 1 in semver mode |
| `dependencies` | migration 009 gives every dependency of the index the value of one of them: its subquery is not correlated |
| `apitrigger` | removing one of two providers of an api deletes the api when nothing requires any api |

Other behaviour that the modules contain as the code has it, and that a
maintainer may not expect. No run checks it.

- `Catalog`: a head of a default channel whose CSV was cleared while it was not a
  head, or a head that a bundle below it skips, makes the whole index fail to
  convert. The query for the latest provider of an api ends in an error when that
  provider is below the head and its bundle column is empty.
- `Populator`: `--overwrite-latest` for a bundle in the middle of a channel passes
  the check that should refuse it, because `populate` takes the images that
  overwrite out of the map the check looks at.
- `SemverManifest`: the count of a contested head travels from channel to channel,
  so a manifest can be refused although no channel has two highest bundles. A bundle
  that names a channel twice contests its own head.
- `SemverLoader`: a package without default channel is reported as not in the
  database, and the next add starts it anew. After three patches of a minor
  version in skippatch mode, the graph read back has a node with two real
  replacements.
- `Migrations`: 004 as described above; 005 inserts rows without a name where an
  update was meant, so older indexes never get their versions.
- `Serve`: the timeout stops the gRPC server, but the process then waits for a
  signal (`Makefile:70` speaks of serving "for a second"). The initializer's
  `-o`, "a sqlite file to create or overwrite", adds to a file that exists. A
  directory of manifests that cannot be listed is passed over without an error, and
  an index that is written while it is copied is served as a mixture. When the
  querier cannot be opened, configmap-server panics: it tests a nil in an interface.
- `Indexer`: an add of a bundle that replaces nothing unlists the bundles below it in
  its channels, and succeeds. `log.Fatal` in rm and prune leaves the temporary files.

### Bounds, and why they are enough

- Two packages are enough for cascades and queries that cross packages; two
  channels for default and non-default ones and for bundles shared by channels.
- A chain of three bundles has a head, a middle and an end. Deprecating the
  middle, and a skip beside a replaces, need no more; a cycle needs two.
- `MaxEntryID` bounds the id at which a walk may start, `MaxID` the one at which
  an add may start: SQLite ids only grow while another package holds the largest
  one. No walk or add that has started is cut off. In `add`, `MaxID` = 4 lets an add
  follow a bundle with a skip, or a package of two bundles. In `loader` the bound still
  lets either package be regenerated while the other is complete.
- `MaxRequest` = 2: two images of one package, of two packages, and two images
  of one bundle all occur.
- In `skippatch` and `semver`, `MaxEntryID` = 1 is no restriction: there is one
  package, and its entries are deleted before new ones are made.
- `index`: `Limit` = 2 stands for `concurrencyLimitForExport`, so that with three
  or four bundles a goroutine waits for the semaphore. `RandomDirs` has two
  numbers, of which `rand.Intn` gives the bundle without version one or the other.
  `MaxCommands` = 2: a command can only meet what those before it left in the
  directory and the image, and the first one starts from any of the images.
- `serve`: `MaxRuns` = 2, because a run can only meet what an earlier one left
  (the database file, a copy). Two clients let one call be answered while another
  is open.
- `migrations`: the catalogs have a bundle in two channels, skips (also of a bundle
  that is not stored), stranded bundles, cleared CSVs and bundles without version or
  image.
- `migrations`, `manifest`, `index` and `serve` do not check for deadlock: a
  migration and a manifest are finished, no further command need come, and the
  servers have no more starts.

### What the instances assume of their input

- A bundle name is used in one package (`InputAssumption`).
- Semver modes: one package; CSVs declare no replaces; a name has one version.
- Populator: image references are immutable, also for what the other commands add,
  bundles replace and skip bundles of their own package, whose versions are distinct
  and can be compared, and images that overwrite a bundle keep its version
  (`PopulatorAssumption`; it also says that any set of bundles has a highest version,
  which holds for the finitely many there are). A bundle may replace or skip a higher
  one, and a default channel may be missing or one that no bundle is in.
- Migrations: older releases filled the tables as this loader does
  (`MigrationsAssumption`).
- Indexer: one command at a time on one index; no version of a bundle is the name
  of a random directory (`IndexerAssumption`: versions are semantic versions,
  `rand.Intn` gives a number).
- Serve: a directory of manifests does not change while it is loaded.

### Fairness

Three properties are liveness properties. A process or goroutine that can go on is
assumed to go on, unless it dies; no more is assumed.

- `AddEnds`: weak fairness of the steps of a running call (`PopStep`), which is
  one sequential process.
- `CommandEnds`: weak fairness of the main goroutine (`MainStep`) and of each other
  one (`GoStep(b)`). Go's scheduler runs every goroutine that is ready.
- `SignalEnds`: weak fairness of main, of the timer, of the `Serve` goroutine and of
  each handler (`Query`, `Send`). `GracefulStop` waits for the handlers, which run
  one query and send its rows: they are assumed to end, which for `Send` means that
  clients read what they asked for. A client that does not would hold up
  `GracefulStop`; nothing in the server bounds that.

No fairness is assumed of commands being started, of signals, kills, failures,
clients or publishers.

## What is proved

TLAPS checks every proof, for all values of the constants that satisfy the named
assumptions of each module.

**SqlLoader** (`SqlLoaderProofs`; from `NullAssumption` and `InputAssumption`). `TypeCorrect`, `AlwaysNavigable`
(`CatalogNavigable`) and `PackagesLeaveOnRequest` (`PackagesAreKept`) follow from
`InductiveInvariant`. Navigability alone is not inductive: while a package is
regenerated the open transaction has a package without default channel and
channels without entries, and whether the commit is sound depends on what the
walk has still to do. The invariant therefore says that the
committed and the open database are well typed, have finitely many entry ids, and
keep every bundle, head and entry within its own package (`Sound`), that the
committed one is navigable, and, during a walk, that each channel has its head's
entry or is still to be walked, that every package has its default channel unless
an error is noted for the one being walked, and that the bundle walked is in the
index with its entry (`WalkOK`, `CursorOK`). The lemmas
of the module say what each statement with its cascades keeps, then what each
operation does to a sound database.

**The upgrade graph** (`SqlLoaderGraph`, on top of the above). `GraphInvariant`
gives `EdgesAlwaysDeclared` (`EdgesDeclared`), `EdgesAlwaysDescend`
(`EdgesDescend`), `DeprecationTruncates` (`DeprecatedTruncates`),
`DeprecationMarks` (`DeprecatedMarked`) and `AlwaysRegenerable`
(`RegenerableUntilDeprecated`). They hold of the open transaction too, which is
what makes them inductive: an entry is linked only after both its ends are there.
For that the invariant says which entry the walk links next and how deep it is
(`CursorEntry`), and that the walk has left behind it a path of bundles which are
all in the index and in the channel (`CursorPath`). That every channel can be
generated again is stated with a set that is closed under replaces (`IsWalk`),
because the set of bundles a walk meets is a least fixed point, about which the
prover cannot do induction. `WalkIsBounded` (`WalkBounded`) counts: the bundles on
the path are distinct, so the depth is at most their number and that of their
skips (`BoundInv`).

**Populator** (`PopulatorProofs`; from `PopulatorAssumption` and those of
`SqlLoader`), for any images, requests and indexes, and any length of a request.
`AddsStore` (`AddStores`), `AddsPublish` (`AddPublishes`) and `AddsGoOn`
(`NeverGoesBack`) follow from `PopulatorInvariant`. Every call of the loader is a
transaction of its own, so the argument is about what is left between two of them.
The invariant carries that of `SqlLoader` through the calls an add makes, with bundles
and manifests that are not constants but computed from the index, and adds:

- The tables (`TablesInv`): a bundle with a path is the bundle of the image at that
  path, so that pulling it again gives it back; no head of a channel is deprecated, so
  that a channel whose head is deprecated in the new manifest was really overtaken.
- What is stored (`StoresInv`): while packages are still to be removed, a bundle that
  was listed is listed in a package that stays, or is in `overwriteImageMap`; after
  that it is in the index or still to be added.
- What is published (`PublishInv`): an image of the request is still to be added, or
  its package still to be regenerated, or the open transaction publishes it and its
  package is not regenerated again.
- What is kept (`ForwardInv`): the heads of the open transaction are not lower than the
  committed ones. It rests on `ManifestLemma` (the manifest has the highest bundle of
  every channel, old and new, whichever default channel the loop ends with) and on
  `HeadsExist` (every old head is among the bundles the manifest is made from), which is
  where navigability is needed.

**Indexer** (`IndexerProofs`; from `IndexerAssumption`), for any bundles, packages,
base images, requests and limit of the export. `IndexerInvariant` has the types,
which stage belongs to which command, and for an add (`AddInv`) how the images that
were unpacked, those that overwrite, and the results not yet received make up whole
packages. From it follow, each with an invariant of its own on top:

- `WholePackages` (`OverwritesWholePackages`), directly.
- `ExitIsClean` (`CleanExit`). `CleanInv` says of every stage which directories no
  deferred cleanup will remove (`Loose`): those that populate has heard of, those of
  its goroutines, and those that an error leaves.
- `ExportComplete` (`ExportIsComplete`). `ExportInv`: a goroutine that is done has
  written its bundle or set the error, and all that was written, by this command or
  an earlier one, is in a directory of its own version.
- `SuccessApplies` (`SuccessMeansApplied`). `Progress` says for every stage what is
  done and what is still on the list, so that an empty list without an error means
  that the request is applied; and that the image is built only from the Dockerfile
  that this command wrote.

**Serve** (`ServeProofs`; from `ServeAssumption`), for any number of starts and
clients and any sources. `AnswersWhole` (`AnswersAreWhole`), `GracefulStops`
(`StopsGracefully`) and `CopiesGone` (`CopiesRemoved`). The invariant says that no
call is open once main has returned, that there is one exit for every run that has
ended, that the database has nothing but what was read and what it had before
(`Bounded`), that a source that nobody has written is still what main began to read
(`Untorn`), and what a load has put into the database as long as it has noted no
error: all of the list but what is still to be read (`Loaded`).

**SemverManifest** (`SemverManifestProofs`; from `ManifestAssumption`).
`HeadsAlwaysHighest`, `ManifestAlwaysComplete`, `ProperAlwaysAccepted`
(`DistinctVersionsAccepted`) and `ManifestTypeCorrect`, for lists of any length. The
invariant relates the head of each channel to the part of the list that has been
seen: it is as high as all of it, can be compared with all of it, and is strictly
higher when its count is one. For a
proper list `ProperInv` adds that no count exceeds one and that the maximum is the
highest bundle once that has been read.

**Migrator** (`MigratorProofs`; from `MigratorAssumption`).
`SchemaAlwaysMatchesVersion`, `SuccessAlwaysMeansMigrated` and
`MigrationsAlwaysKept`, for any number of processes and migrations. The invariant
adds that the writer holds both locks and works on a view that is not behind the
file, and that the version a process read can only have grown since.

**Migrations** (`MigrationsProofs`; from `MigrationsAssumption`), for any CSVs and any
catalogs. `ApisAreMigrated` (`ApisMigrated`), `EdgesAreBackfilled` (`EdgesBackfilled`)
and `PropertiesAreOwned` (`PropertiesOwned`) follow from `MigrationsInvariant`, which
says of the open transaction and of the file what each table holds at its version:
until 006 the apis belong to the main entry of a bundle (`ByEntry`), after it to
bundles by name (`ByName`); from 007 on a bundle of an older index has the edges of
the graph (`EdgesKept`), from 009 on there are properties (`PropertiesKept`). The
argument about 007 is that the query keeps, of the entries of a bundle that replace
the same, the one with the least id, and takes the least deep of those. In the
channel that was walked first that is the entry of the bundle itself, which comes
before those made for what it skips (`FirstIsDeclared`).

Only model-checked:

- `EdgesListed`, `ModelHeadsAgree`, `RenderKeepsChannels`, `QueriersAgree`: they
  rest on what `ListBundles` reaches along the replaces edges, a recursive function
  of the entries. What it computes for every input needs induction over data, which
  the prover does not have.
- `ChannelIsSorted`, `HeadIsHighest`, `UpgradesLeadToHead`, `GraphWalkBounded`,
  `SuccessPublishes` and the refinement `PublishesAtomically`: no proof has been
  written. They need an invariant that relates the graph in memory, the entries
  written so far and the order of versions.
- `AddEnds`, `CommandEnds`, `SignalEnds`: liveness under fairness is out of the
  prover's reach.

## What is not modelled, and why

`PROJECT.json` lists every part with its status.

- `substitutesFor` (`addSubstitutesFor` in the loader): an alpha feature that
  rewrites the edges of other bundles from their CSVs. The invariants of the loader
  are stated for indexes without it.
- Related images and dependencies in `RegistryDB`: the loader writes them and never
  reads them back. `Migrations` has them.
- `Down` of the migrator and of the migrations: only tests use it.
- Queries of one column that repeat a row (images, versions, tables).
- Writing JSON and YAML, icons, descriptions, and checks of single strings.
- The bundle unpacker and config map writer, building and validating a bundle, the
  default channel suggested for a new one, mirroring, the alpha commands: one
  sequential pass over files or over calls of external tools, with no state that is
  kept or shared.
- Pulling, unpacking and building images: external. In `Indexer` they succeed or
  fail.
- Disk errors within a transaction: they are failures or crashes. Statements fail
  where a constraint can fail.
- Two commands that write one index at the same time: `Migrator` has concurrent
  processes, the other modules one.
