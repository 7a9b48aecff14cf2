-------------------------------- MODULE Indexer --------------------------------
(***************************************************************************)
(* The commands "opm index add, rm, prune, prune-stranded,                 *)
(* deprecatetruncate and export" (pkg/lib/indexer), with the registry      *)
(* calls they make (pkg/lib/registry): extract the database of an index    *)
(* image into a build directory, update it, write a Dockerfile, build the  *)
(* image; or pull all bundles of an index at once.  The commands of "opm   *)
(* registry" make the same calls on a database file.                       *)
(*                                                                         *)
(* A database is known by its bundles: those stored, those listed in a     *)
(* channel and those deprecated.  What the loader does with channels is in *)
(* SqlLoader, and the populator in Populator, where a bundle can also come *)
(* from another image than before; here they succeed or fail, and which    *)
(* bundles of a package are listed then is left open.                      *)
(*                                                                         *)
(* One command runs at a time, and the next one in the same directory.     *)
(* The deferred cleanups of a command are state: they run when a function  *)
(* returns, and not when the process exits (log.Fatal, a panic or a kill). *)
(***************************************************************************)
EXTENDS Naturals, Sequences, FiniteSets

CONSTANTS
    NULL,
    Bundles,        \* bundle names, each with one image
    Pkgs,           \* package names
    PkgOf,          \* the package of each bundle
    VersionOf,      \* the version of each bundle, NULL for none
    Imageless,      \* the bundles that came from a directory of manifests
    RandomDirs,     \* what rand.Intn can give
    Limit,          \* concurrencyLimitForExport
    Requests,       \* the requests that are made
    MaxCommands,    \* the bound on the number of commands
    Contents        \* the databases that the first index image can have

Content ==
    {c \in [stored : SUBSET Bundles, listed : SUBSET Bundles,
            deprecated : SUBSET Bundles] : c.listed \subseteq c.stored}

\* The requests that a command makes of its flags: "file" says that it is a command
\* of "opm registry", which updates a database in place; "args" are the packages
\* or bundles in the order given, "from" says whether there is an index to start
\* from, "named" is --out-dockerfile. Which tool pulls and builds does not matter
\* here.
AddRequest ==
    [file : {FALSE}, kind : {"add"}, args : Seq(Bundles), mode : {"replaces", "semver"},
     overwrite : BOOLEAN, from : BOOLEAN, generate : BOOLEAN, named : BOOLEAN,
     permissive : BOOLEAN]

DeprecateRequest ==
    [file : {FALSE}, kind : {"deprecate"}, args : Seq(Bundles), from : BOOLEAN,
     generate : BOOLEAN, named : BOOLEAN, permissive : BOOLEAN]

DeleteRequest ==
    [file : {FALSE}, kind : {"rm"}, args : Seq(Pkgs), from : {TRUE},
     generate : BOOLEAN, named : BOOLEAN, permissive : BOOLEAN]

PruneRequest ==
    [file : {FALSE}, kind : {"prune"}, args : Seq(Pkgs), from : {TRUE},
     generate : BOOLEAN, named : BOOLEAN, permissive : BOOLEAN]

PruneStrandedRequest ==
    [file : {FALSE}, kind : {"prune-stranded"}, args : {<<>>}, from : {TRUE},
     generate : BOOLEAN, named : BOOLEAN, permissive : {FALSE}]

ExportRequest ==
    [file : {FALSE}, kind : {"export"}, args : Seq(Pkgs), permissive : {FALSE}]

RegistryAddRequest ==
    [file : {TRUE}, kind : {"add"}, args : Seq(Bundles), mode : {"replaces", "semver"},
     overwrite : {FALSE}, permissive : BOOLEAN]

RegistryRmRequest ==
    [file : {TRUE}, kind : {"rm"}, args : Seq(Pkgs), permissive : BOOLEAN]

RegistryPruneRequest ==
    [file : {TRUE}, kind : {"prune"}, args : Seq(Pkgs), permissive : BOOLEAN]

RegistryPruneStrandedRequest ==
    [file : {TRUE}, kind : {"prune-stranded"}, args : {<<>>}, permissive : {FALSE}]

Request ==
    AddRequest \cup DeprecateRequest \cup DeleteRequest \cup PruneRequest \cup
    PruneStrandedRequest \cup ExportRequest \cup RegistryAddRequest \cup
    RegistryRmRequest \cup RegistryPruneRequest \cup RegistryPruneStrandedRequest

\* The name of a random directory is a number, and no version of a bundle is one:
\* versions are semantic versions.
ASSUME IndexerAssumption ==
    /\ IsFiniteSet(Bundles) /\ IsFiniteSet(Pkgs)
    /\ NULL \notin Bundles \cup {"ok", "error", "fatal", "panic", "killed"}
    /\ PkgOf \in [Bundles -> Pkgs]
    /\ \A b \in Bundles : VersionOf[b] \notin RandomDirs
    /\ Imageless \subseteq Bundles
    /\ Limit \in Nat \ {0} /\ RandomDirs # {}
    /\ Requests \subseteq Request
    /\ Contents \subseteq Content
    /\ MaxCommands \in Nat

VARIABLES
    image,      \* the database in the index image, or in the file
    disk,       \* the working directory
    cmd,        \* the locals of the command, and how the last one ended
    go          \* the goroutines of the process

indexerVars == <<image, disk, cmd, go>>

Empty == [stored |-> {}, listed |-> {}, deprecated |-> {}]

\* The working directory: temporary files and directories, the database that is
\* updated (or was by the last command), the command that wrote the Dockerfile, what
\* was exported to which directory, and the packages with a package.yaml, both with
\* the number of the command.
Bare == [temp |-> {}, db |-> Empty, dockerfile |-> 0, exported |-> {}, yaml |-> {}]

\* The locals: what is left of a loop, the temporary files with a deferred
\* cleanup in the command ("defers") and in populate ("pulled"), the maps
\* unpackedImageMap (and which of it was visited) and overwriteImageMap (and its
\* packages), the loop variable "to", how many results are to be received, and
\* whether a registry call failed. "nth" is the number of the command, and "base" is
\* history: the database before the update.
NoCmd ==
    [stage |-> "idle", nth |-> 0, req |-> NULL, todo |-> <<>>, defers |-> {}, pulled |-> {},
     unpacked |-> {}, visited |-> {}, overwrite |-> {}, packages |-> {},
     to |-> NULL, wait |-> 0,
     errs |-> FALSE, exit |-> NULL, base |-> Empty]

NoGo == [b \in {} |-> NULL]

IndexerInit ==
    /\ image \in Contents
    /\ disk = Bare /\ cmd = NoCmd /\ go = NoGo

At(stage) == cmd.stage = stage

Listed(p) == {b \in disk.db.listed : PkgOf[b] = p}

Packages(c) == {PkgOf[b] : b \in c.listed}

ToSet(s) == {s[i] : i \in DOMAIN s}

\* The temporary files and directories, by the prefix of their names.
IndexTmp == <<"index_tmp_", NULL>>
BuildTmp == <<"index_build_tmp", NULL>>
DockerfileTmp == <<"index.Dockerfile", NULL>>
BundleTmp(b) == <<"bundle_tmp", b>>

-----------------------------------------------------------------------------
(***************************************************************************)
(* How a command ends                                                      *)
(***************************************************************************)

\* The command returns: the deferred cleanups run, and the process exits.
Return(exit, d) ==
    /\ disk' = [d EXCEPT !.temp = @ \ cmd.defers]
    /\ cmd' = [cmd EXCEPT !.stage = "idle", !.exit = exit]

\* The process exits, and nothing is cleaned up.
Die(exit) == cmd' = [cmd EXCEPT !.stage = "idle", !.exit = exit]

Kill ==
    /\ ~ At("idle")
    /\ Die("killed")
    /\ UNCHANGED <<image, disk, go>>

Goto(stage) == cmd' = [cmd EXCEPT !.stage = stage]

Ready == At("idle") /\ cmd.exit = NULL /\ cmd.nth < MaxCommands

Begin(r, stage, base) ==
    cmd' = [NoCmd EXCEPT !.nth = cmd.nth + 1, !.req = r, !.stage = stage, !.base = base]

\* The commands that update an index begin with buildContext, and then go on with
\* the registry call of their kind.
UpdateIndex(r) ==
    /\ Ready /\ ~ r.file
    /\ Begin(r, "context", Empty)
    /\ UNCHANGED <<image, disk, go>>

AddToIndex(r) == r.kind = "add" /\ UpdateIndex(r)

DeleteFromIndex(r) == r.kind = "rm" /\ UpdateIndex(r)

PruneFromIndex(r) == r.kind = "prune" /\ UpdateIndex(r)

PruneStrandedFromIndex(r) == r.kind = "prune-stranded" /\ UpdateIndex(r)

DeprecateFromIndex(r) == r.kind = "deprecate" /\ UpdateIndex(r)

ExportFromIndex(r) ==
    /\ r.kind = "export"
    /\ Ready
    /\ Begin(r, "extract", Empty)
    /\ UNCHANGED <<image, disk, go>>

\* A command of "opm registry" is the registry call alone.
UpdateFile(r) ==
    /\ Ready /\ r.file
    /\ disk' = [disk EXCEPT !.db = image]
    /\ Begin(r, r.kind, image)
    /\ UNCHANGED <<image, go>>

\* The next command is a process of its own, with the index image (or the database
\* file) that this one leaves, and in the same directory, with what this one leaves
\* there. Only the temporary files that were left do not matter to it: their names
\* are random, and no name is used twice.
NextCommand ==
    /\ At("idle") /\ cmd.exit # NULL
    /\ image' = IF cmd.req.file THEN disk.db ELSE image
    /\ disk' = [disk EXCEPT !.temp = {}]
    /\ cmd' = [NoCmd EXCEPT !.nth = cmd.nth] /\ go' = NoGo

-----------------------------------------------------------------------------
(***************************************************************************)
(* buildContext and ExtractDatabase                                        *)
(***************************************************************************)

\* Mutant: the cleanup does not remove the Dockerfile.
ContextKeepsDockerfile ==
    /\ At("context")
    /\ LET new == IF cmd.req.generate THEN {} ELSE
                  {BuildTmp} \cup IF cmd.req.named THEN {} ELSE {DockerfileTmp}
       IN  /\ disk' = [disk EXCEPT !.temp = @ \cup new]
           /\ cmd' = [cmd EXCEPT !.stage = "extract",
                                 !.defers = new \ {DockerfileTmp}]
    /\ UNCHANGED <<image, go>>

\* A build directory, and a Dockerfile unless one is named.
Context ==
    /\ At("context")
    /\ LET new == IF cmd.req.generate THEN {} ELSE
                  {BuildTmp} \cup IF cmd.req.named THEN {} ELSE {DockerfileTmp}
       IN  /\ disk' = [disk EXCEPT !.temp = @ \cup new]
           /\ cmd' = [cmd EXCEPT !.stage = "extract", !.defers = new]
    /\ UNCHANGED <<image, go>>

\* No build directory: cleanup is nil, and the caller's "defer cleanup()" panics.
ContextPanics ==
    /\ At("context") /\ ~ cmd.req.generate
    /\ Die("panic")
    /\ UNCHANGED <<image, disk, go>>

\* No Dockerfile: buildContext cleans up, and so does the caller again.
ContextFails ==
    /\ At("context") /\ ~ cmd.req.generate /\ ~ cmd.req.named
    /\ Return("error", disk)
    /\ UNCHANGED <<image, go>>

\* The image is pulled, inspected for the label of its database and unpacked, in
\* a temporary directory that an update removes when the database is copied and
\* an export when it returns.
Extract ==
    /\ At("extract")
    /\ disk' = [disk EXCEPT !.temp = @ \cup {IndexTmp}]
    /\ cmd' = [cmd EXCEPT !.stage = "extracted", !.defers = @ \cup {IndexTmp}]
    /\ UNCHANGED <<image, go>>

\* Without --from-index the database file does not exist, and opening it to copy
\* it creates it. A database that another command left at its place (with --generate
\* it is not in a new directory) is truncated.
Extracted ==
    /\ At("extracted")
    /\ LET exporting == cmd.req.kind = "export"
           c == IF exporting \/ cmd.req.from THEN image ELSE Empty
       IN  /\ disk' = [disk EXCEPT !.db = c,
                                   !.temp = IF exporting THEN @ ELSE @ \ {IndexTmp}]
           /\ cmd' = [cmd EXCEPT !.base = c, !.stage = cmd.req.kind]
    /\ UNCHANGED <<image, go>>

ExtractFails ==
    /\ At("extracted")
    /\ Return("error", disk)
    /\ UNCHANGED <<image, go>>

-----------------------------------------------------------------------------
(***************************************************************************)
(* DeleteFromRegistry, PruneFromRegistry, PruneStrandedFromRegistry        *)
(***************************************************************************)

\* Each call opens the database and migrates it; an error of that is returned in
\* permissive mode too.
OpenFails ==
    /\ cmd.stage \in {"add", "rm", "prune", "prune-stranded", "deprecate", "export"}
    /\ Return("error", disk)
    /\ UNCHANGED <<image, go>>

DeleteFromRegistry ==
    /\ At("rm")
    /\ cmd' = [cmd EXCEPT !.stage = "remove", !.todo = cmd.req.args]
    /\ UNCHANGED <<image, disk, go>>

Enumerations(S) ==
    {s \in [1 .. Cardinality(S) -> S] : ToSet(s) = S}

\* A prune removes the packages of the database that it is not given.
PruneFromRegistry ==
    /\ At("prune")
    /\ \E s \in Enumerations(Packages(disk.db) \ ToSet(cmd.req.args)) :
          cmd' = [cmd EXCEPT !.stage = "remove", !.todo = s]
    /\ UNCHANGED <<image, disk, go>>

PruneStrandedFromRegistry ==
    /\ At("prune-stranded")
    /\ Goto("strand")
    /\ UNCHANGED <<image, disk, go>>

WithoutPackage(c, p) ==
    [c EXCEPT !.stored = {b \in @ : PkgOf[b] # p}, !.listed = {b \in @ : PkgOf[b] # p}]

WithoutStranded(c) == [c EXCEPT !.stored = c.listed]

\* RemovePackage: both of its transactions, or only the first.
Remove ==
    /\ At("remove") /\ cmd.todo # <<>>
    /\ disk' = [disk EXCEPT !.db = WithoutStranded(WithoutPackage(@, Head(cmd.todo)))]
    /\ cmd' = [cmd EXCEPT !.todo = Tail(@)]
    /\ UNCHANGED <<image, go>>

\* Mutant: an error is only logged.
RemoveFailsQuietly ==
    /\ At("remove") /\ cmd.todo # <<>>
    /\ disk' = disk
    /\ cmd' = [cmd EXCEPT !.todo = Tail(@)]
    /\ UNCHANGED <<image, go>>

\* "permissive mode disabled" is logged by log.Fatal.
RemoveFails ==
    /\ At("remove") /\ cmd.todo # <<>>
    /\ \E c \in {disk.db, WithoutPackage(disk.db, Head(cmd.todo))} :
          disk' = [disk EXCEPT !.db = c]
    /\ IF cmd.req.permissive
       THEN cmd' = [cmd EXCEPT !.todo = Tail(@), !.errs = TRUE]
       ELSE Die("fatal")
    /\ UNCHANGED <<image, go>>

Removed ==
    /\ At("remove") /\ cmd.todo = <<>>
    /\ Goto(IF cmd.req.kind = "rm" THEN "strand" ELSE "write")
    /\ UNCHANGED <<image, disk, go>>

StrandedRemoved ==
    /\ At("strand")
    /\ disk' = [disk EXCEPT !.db = WithoutStranded(@)]
    /\ Goto("write")
    /\ UNCHANGED <<image, go>>

StrandFails ==
    /\ At("strand")
    /\ Return("error", disk)
    /\ UNCHANGED <<image, go>>

-----------------------------------------------------------------------------
(***************************************************************************)
(* DeprecateFromRegistry                                                   *)
(***************************************************************************)

\* A registry call returned an error: only permissive mode goes on.
CallFails(d) ==
    IF cmd.req.permissive
    THEN disk' = d /\ cmd' = [cmd EXCEPT !.errs = TRUE, !.stage = "write"]
    ELSE Return("error", d)

DeprecateFromRegistry ==
    /\ At("deprecate")
    /\ Goto("check")
    /\ UNCHANGED <<image, disk, go>>

\* checkForBundlePaths: when the database lists no bundle, none is found and none
\* is missing; when none is missing, all are found.
PathsIn(s, S) == SelectSeq(s, LAMBDA b : b \in S)

CheckPaths ==
    /\ At("check")
    /\ LET listed == disk.db.listed
           missing == listed # {} /\ ToSet(cmd.req.args) \ listed # {}
           found == IF listed = {} THEN <<>>
                    ELSE IF missing THEN PathsIn(cmd.req.args, listed) ELSE cmd.req.args
       IN  IF missing /\ ~ cmd.req.permissive
           THEN Return("error", disk)
           ELSE /\ cmd' = [cmd EXCEPT !.stage = "deprecating", !.todo = found,
                                      !.errs = missing]
                /\ UNCHANGED disk
    /\ UNCHANGED <<image, go>>

\* ListBundles fails: permissive mode goes on with the paths it was given.
CheckFails ==
    /\ At("check") /\ cmd.req.args # <<>>
    /\ IF cmd.req.permissive
       THEN /\ cmd' = [cmd EXCEPT !.stage = "deprecating", !.todo = cmd.req.args,
                                  !.errs = TRUE]
            /\ UNCHANGED disk
       ELSE Return("error", disk)
    /\ UNCHANGED <<image, go>>

\* The bundles that a deprecation can remove.
Below(b) ==
    {a \in disk.db.stored \ {b} : PkgOf[a] = PkgOf[b]}

\* DeprecateBundle: a bundle that an earlier deprecation removed is passed over. The
\* bundle itself is no longer listed if only channels that it heads had it, and the
\* head of the default channel always is.
Deprecate ==
    /\ At("deprecating") /\ cmd.todo # <<>>
    /\ LET b == Head(cmd.todo)
       IN  IF b \notin disk.db.stored THEN UNCHANGED disk
           ELSE \E tail \in SUBSET Below(b), own \in SUBSET {b} :
                   /\ Listed(PkgOf[b]) # {} => ~ (Listed(PkgOf[b]) \subseteq tail \cup own)
                   /\ disk' = [disk EXCEPT !.db.stored = @ \ tail,
                                           !.db.listed = @ \ (tail \cup own),
                                           !.db.deprecated = @ \cup {b}]
    /\ cmd' = [cmd EXCEPT !.todo = Tail(@)]
    /\ UNCHANGED <<image, go>>

\* ErrRemovingDefaultChannelDuringDeprecation does not end the loop.
DeprecateRefused ==
    /\ At("deprecating") /\ cmd.todo # <<>>
    /\ Head(cmd.todo) \in disk.db.stored
    /\ cmd' = [cmd EXCEPT !.todo = Tail(@), !.errs = TRUE]
    /\ UNCHANGED <<image, disk, go>>

DeprecateFails ==
    /\ At("deprecating") /\ cmd.todo # <<>>
    /\ CallFails(disk)
    /\ UNCHANGED <<image, go>>

Deprecated ==
    /\ At("deprecating") /\ cmd.todo = <<>>
    /\ IF cmd.errs THEN CallFails(disk) ELSE Goto("write") /\ UNCHANGED disk
    /\ UNCHANGED <<image, go>>

-----------------------------------------------------------------------------
(***************************************************************************)
(* AddToRegistry: populate                                                 *)
(***************************************************************************)

AddToRegistry ==
    /\ At("add")
    /\ cmd' = [cmd EXCEPT !.stage = "pull", !.todo = cmd.req.args]
    /\ UNCHANGED <<image, disk, go>>

\* populate returns: its own deferred cleanups run.
PopulateReturns(d, fails) ==
    LET e == [d EXCEPT !.temp = @ \ cmd.pulled]
    IN  IF fails THEN CallFails(e) ELSE disk' = e /\ Goto("write")

\* unpackImage for the images of the request, one after the other.
PullImage ==
    /\ At("pull") /\ cmd.todo # <<>>
    /\ LET b == Head(cmd.todo)
       IN  /\ disk' = [disk EXCEPT !.temp = @ \cup {BundleTmp(b)}]
           /\ cmd' = [cmd EXCEPT !.todo = Tail(@), !.unpacked = @ \cup {b},
                                 !.pulled = @ \cup {BundleTmp(b)}]
    /\ UNCHANGED <<image, go>>

\* The cleanup of the image that cannot be unpacked is dropped.
PullFails ==
    /\ At("pull") /\ cmd.todo # <<>>
    /\ PopulateReturns([disk EXCEPT !.temp = @ \cup {BundleTmp(Head(cmd.todo))}], TRUE)
    /\ UNCHANGED <<image, go>>

Pulled ==
    /\ At("pull") /\ cmd.todo = <<>>
    /\ Goto(IF cmd.req.overwrite THEN "find" ELSE "populate")
    /\ UNCHANGED <<image, disk, go>>

\* One iteration over unpackedImageMap: a goroutine for each bundle of the package
\* of an image that overwrites a bundle.
FindNext(b) ==
    /\ At("find") /\ b \in cmd.unpacked \ cmd.visited
    /\ LET bundles == Listed(PkgOf[b])
           seen == [cmd EXCEPT !.visited = @ \cup {b}]
       IN  CASE b \notin disk.db.stored ->
                  cmd' = seen /\ UNCHANGED <<disk, go>>
             [] b \in disk.db.stored \cap Imageless ->
                  PopulateReturns(disk, TRUE) /\ UNCHANGED go
             [] OTHER ->
                  /\ go' = [a \in bundles |-> "run"]
                  /\ cmd' = [seen EXCEPT !.stage = "receive", !.to = b,
                                         !.packages = @ \cup {PkgOf[b]},
                                         !.wait = Cardinality(bundles)]
                  /\ UNCHANGED disk
    /\ UNCHANGED image

\* Mutant: a goroutine that fails sends no result.
UnpackSilently(b) ==
    /\ b \in DOMAIN go /\ go[b] = "run" /\ cmd.req.kind = "add" /\ ~ At("idle")
    /\ \/ go' = [go EXCEPT ![b] = "ok"]
       \/ go' = [a \in DOMAIN go \ {b} |-> go[a]]
    /\ UNCHANGED <<image, disk, cmd>>

\* A goroutine pulls its bundle, unless it is the one that is overwritten, and
\* then waits to send the result. A bundle without an image has no reference.
Unpack(b) ==
    /\ b \in DOMAIN go /\ go[b] = "run" /\ cmd.req.kind = "add" /\ ~ At("idle")
    /\ \/ (b \notin Imageless \/ b = cmd.to) /\ go' = [go EXCEPT ![b] = "ok"]
       \/ b # cmd.to /\ go' = [go EXCEPT ![b] = "fail"]
    /\ disk' = IF b = cmd.to THEN disk
               ELSE [disk EXCEPT !.temp = @ \cup {BundleTmp(b)}]
    /\ UNCHANGED <<image, cmd>>

\* Mutant: the next image is taken up before all results are in.
ReceiveOne(b) ==
    /\ At("receive") /\ b \in DOMAIN go /\ go[b] \in {"ok", "fail"}
    /\ go' = [a \in DOMAIN go \ {b} |-> go[a]]
    /\ IF go[b] = "fail" THEN PopulateReturns(disk, TRUE)
       ELSE /\ cmd' = [cmd EXCEPT
                  !.overwrite = @ \cup {b},
                  !.unpacked = @ \ {b},
                  !.pulled = @ \cup (IF b = cmd.to THEN {} ELSE {BundleTmp(b)}),
                  !.wait = 0]
            /\ UNCHANGED disk
    /\ UNCHANGED image

\* The first error ends populate: what was not received is never cleaned up, and
\* its goroutines wait for ever.
Receive(b) ==
    /\ At("receive") /\ b \in DOMAIN go /\ go[b] \in {"ok", "fail"}
    /\ go' = [a \in DOMAIN go \ {b} |-> go[a]]
    /\ IF go[b] = "fail" THEN PopulateReturns(disk, TRUE)
       ELSE /\ cmd' = [cmd EXCEPT
                  !.overwrite = @ \cup {b},
                  !.unpacked = @ \ {b},
                  !.pulled = @ \cup (IF b = cmd.to THEN {} ELSE {BundleTmp(b)}),
                  !.wait = @ - 1]
            /\ UNCHANGED disk
    /\ UNCHANGED image

Received ==
    /\ At("receive") /\ cmd.wait = 0
    /\ Goto("find")
    /\ UNCHANGED <<image, disk, go>>

Found ==
    /\ At("find") /\ cmd.unpacked \subseteq cmd.visited
    /\ Goto("populate")
    /\ UNCHANGED <<image, disk, go>>

\* RemovePackage for the packages in S.
Cleared(c, S) ==
    LET kept == {b \in c.listed : PkgOf[b] \notin S}
    IN  IF S = {} THEN c ELSE [c EXCEPT !.listed = kept, !.stored = kept]

\* DirectoryPopulator: the packages of overwriteImageMap are removed, and all
\* images added. In the semver modes the images to add again are passed over.
Replaced == IF cmd.req.mode = "replaces" THEN cmd.packages ELSE {}

ToAdd == cmd.unpacked \cup IF cmd.req.mode = "replaces" THEN cmd.overwrite ELSE {}

WithBundles(c, S) == [c EXCEPT !.stored = @ \cup S]

PkgsOf(S) == {PkgOf[b] : b \in S}

\* What can be listed when the channels of the packages in P, or of some of them, are
\* made anew: of such a package what its channel heads lead to, which can leave out
\* bundles that were listed and bundles that are added.
Relisted(c, P) ==
    {L \in SUBSET c.stored : \A p \in Pkgs :
        LET old == {b \in c.listed : PkgOf[b] = p}
            new == {b \in L : PkgOf[b] = p}
        IN  IF p \in P THEN old # {} => new # {} ELSE new = old}

\* Every package that it adds to has a default channel then, and a head of that.
Populate ==
    /\ At("populate")
    /\ LET c == Cleared(disk.db, Replaced)
           d == WithBundles(c, ToAdd)
       IN  /\ ToAdd \cap c.stored = {}
           /\ \E L \in Relisted(d, PkgsOf(ToAdd)) :
                 /\ PkgsOf(ToAdd) \subseteq PkgsOf(L)
                 /\ PopulateReturns([disk EXCEPT !.db = [d EXCEPT !.listed = L]], FALSE)
    /\ UNCHANGED <<image, go>>

\* It fails after any number of its transactions, with some bundles stored (S).
PopulateFails ==
    /\ At("populate")
    /\ \E gone \in SUBSET Replaced, S \in SUBSET ToAdd :
          LET d == WithBundles(Cleared(disk.db, gone), S)
          IN  \E L \in Relisted(d, PkgsOf(S)) :
                 PopulateReturns([disk EXCEPT !.db = [d EXCEPT !.listed = L]], TRUE)
    /\ UNCHANGED <<image, go>>

-----------------------------------------------------------------------------
(***************************************************************************)
(* The Dockerfile and the build                                            *)
(***************************************************************************)

FileUpdated ==
    /\ At("write") /\ cmd.req.file
    /\ Return("ok", disk)
    /\ UNCHANGED <<image, go>>

Write ==
    /\ At("write") /\ ~ cmd.req.file
    /\ LET d == [disk EXCEPT !.dockerfile = cmd.nth]
       IN  IF cmd.req.generate THEN Return("ok", d) ELSE disk' = d /\ Goto("build")
    /\ UNCHANGED <<image, go>>

WriteFails ==
    /\ At("write") /\ ~ cmd.req.file
    /\ Return("error", disk)
    /\ UNCHANGED <<image, go>>

Build ==
    /\ At("build")
    /\ image' = disk.db
    /\ Return("ok", disk)
    /\ UNCHANGED go

BuildFails ==
    /\ At("build")
    /\ Return("error", disk)
    /\ UNCHANGED <<image, go>>

-----------------------------------------------------------------------------
(***************************************************************************)
(* ExportFromIndex                                                         *)
(***************************************************************************)

\* No package means all of them.
ExportPkgs ==
    IF cmd.req.args = <<>> THEN Packages(disk.db) ELSE ToSet(cmd.req.args)

ToExport == {b \in disk.db.listed : PkgOf[b] \in ExportPkgs}

\* getBundlesToExport: the map is keyed by image, and all bundles without one are
\* one entry.
ExportStart ==
    /\ At("export")
    /\ go' = [k \in {IF b \in Imageless THEN NULL ELSE b : b \in ToExport} |-> "new"]
    /\ Goto("waiting")
    /\ UNCHANGED <<image, disk>>

Running == {b \in DOMAIN go : go[b] = "run"}

Acquire(b) ==
    /\ At("waiting") /\ b \in DOMAIN go /\ go[b] = "new"
    /\ Cardinality(Running) < Limit
    /\ go' = [go EXCEPT ![b] = "run"]
    /\ disk' = [disk EXCEPT !.temp = @ \cup {BundleTmp(b)}]
    /\ UNCHANGED <<image, cmd>>

\* The directory of a bundle that has no version has a random name.
DirsOf(b) == IF VersionOf[b] = NULL THEN RandomDirs ELSE {VersionOf[b]}

\* BundleExporter.Export, and the release of the semaphore.
Exported(b) ==
    /\ At("waiting") /\ b \in Running /\ b # NULL
    /\ \E dir \in DirsOf(b) :
          disk' = [disk EXCEPT !.exported = @ \cup {<<PkgOf[b], dir, b, cmd.nth>>},
                               !.temp = @ \ {BundleTmp(b)}]
    /\ go' = [go EXCEPT ![b] = "done"]
    /\ UNCHANGED <<image, cmd>>

\* Mutant: the error is not kept.
ExportFailsQuietly(b) ==
    /\ At("waiting") /\ b \in Running
    /\ disk' = [disk EXCEPT !.temp = @ \ {BundleTmp(b)}]
    /\ go' = [go EXCEPT ![b] = "done"]
    /\ UNCHANGED <<image, cmd>>

ExportFails(b) ==
    /\ At("waiting") /\ b \in Running
    /\ disk' = [disk EXCEPT !.temp = @ \ {BundleTmp(b)}]
    /\ go' = [go EXCEPT ![b] = "done"]
    /\ cmd' = [cmd EXCEPT !.errs = TRUE]
    /\ UNCHANGED image

\* wg.Wait
Waited ==
    /\ At("waiting") /\ \A b \in DOMAIN go : go[b] = "done"
    /\ IF cmd.errs THEN Return("error", disk) ELSE Goto("yaml") /\ UNCHANGED disk
    /\ UNCHANGED <<image, go>>

\* generatePackageYaml, for each package: one that fails does not end the loop.
Yaml(S) ==
    /\ At("yaml") /\ S \subseteq ExportPkgs
    /\ Return(IF S = ExportPkgs THEN "ok" ELSE "error",
              [disk EXCEPT !.yaml = @ \cup (S \X {cmd.nth})])
    /\ UNCHANGED <<image, go>>

-----------------------------------------------------------------------------
\* The steps of the process that runs a command.
MainStep ==
    \/ Context \/ ContextFails \/ ContextPanics
    \/ Extract \/ Extracted \/ ExtractFails
    \/ OpenFails
    \/ AddToRegistry \/ DeleteFromRegistry \/ PruneFromRegistry
    \/ PruneStrandedFromRegistry \/ DeprecateFromRegistry
    \/ Remove \/ RemoveFails \/ Removed
    \/ StrandedRemoved \/ StrandFails
    \/ CheckPaths \/ CheckFails
    \/ Deprecate \/ DeprecateRefused \/ DeprecateFails \/ Deprecated
    \/ PullImage \/ PullFails \/ Pulled
    \/ \E b \in Bundles : FindNext(b)
    \/ \E b \in Bundles : Receive(b)
    \/ Received \/ Found
    \/ Populate \/ PopulateFails
    \/ FileUpdated \/ Write \/ WriteFails \/ Build \/ BuildFails
    \/ ExportStart \/ Waited
    \/ \E S \in SUBSET Pkgs : Yaml(S)

GoStep(b) == Unpack(b) \/ Acquire(b) \/ Exported(b) \/ ExportFails(b)

IndexerNext ==
    \/ \E r \in Requests :
          \/ AddToIndex(r) \/ DeleteFromIndex(r) \/ PruneFromIndex(r)
          \/ PruneStrandedFromIndex(r) \/ DeprecateFromIndex(r) \/ ExportFromIndex(r)
          \/ UpdateFile(r)
    \/ NextCommand
    \/ MainStep
    \/ \E b \in Bundles \cup {NULL} : GoStep(b)
    \/ Kill

\* The Go scheduler runs every goroutine that can take a step.
IndexerSpec ==
    /\ IndexerInit /\ [][IndexerNext]_indexerVars
    /\ WF_indexerVars(MainStep)
    /\ \A b \in Bundles \cup {NULL} : WF_indexerVars(GoStep(b))

-----------------------------------------------------------------------------
(***************************************************************************)
(* Properties                                                              *)
(***************************************************************************)

\* What a request asks of a database with contents c that ends with contents d.
Applied(r, c, d) ==
    LET args == ToSet(r.args)
    IN  CASE r.kind = "add" ->
                /\ c.listed \cup args \subseteq d.stored
                /\ Packages(d) = Packages(c) \cup PkgsOf(args)
                /\ \A b \in c.listed \cup d.listed :
                      PkgOf[b] \in PkgsOf(args) \/ b \in c.listed \cap d.listed
          [] r.kind = "rm" ->
                /\ Packages(d) = Packages(c) \ args
                /\ d.stored = d.listed
          [] r.kind = "prune" -> Packages(d) = Packages(c) \cap args
          [] r.kind = "prune-stranded" -> d.stored = c.listed /\ d.listed = c.listed
          [] r.kind = "deprecate" ->
                c.listed # {} => \A b \in args : b \in d.deprecated \/ b \notin d.stored
          [] r.kind = "export" -> TRUE

\* A command that reports success has done all of what was asked, and what it
\* built or generated is what it did: no error of one of the calls, of one
\* package or bundle of several, or of one of the goroutines is lost on the way,
\* unless in permissive mode, and nothing that a dead command has left in the
\* directory is taken for its own. (An add stores every bundle, with overwriting
\* also those it had removed, and changes no other package. Which bundles of a
\* package are listed then is up to the channel heads: a head without replaces
\* unlists the ones below, and the add succeeds.)
SuccessMeansApplied ==
    At("idle") /\ cmd.exit = "ok" /\ ~ cmd.req.permissive =>
        /\ Applied(cmd.req, cmd.base, disk.db)
        /\ ~ cmd.req.file /\ cmd.req.kind # "export" =>
              /\ disk.dockerfile = cmd.nth
              /\ ~ cmd.req.generate => image = disk.db

\* A command that returns has removed its temporary files: the build directory,
\* the extracted image and the temporary Dockerfile in any case, and the bundles
\* it pulled if no call failed. (The directory of an image that cannot be
\* unpacked, and those of the goroutines that are abandoned then, stay.)
CleanExit ==
    At("idle") /\ cmd.exit \in {"ok", "error"} =>
        /\ disk.temp \subseteq {BundleTmp(b) : b \in Bundles}
        /\ cmd.exit = "ok" /\ ~ cmd.errs => disk.temp = {}

\* --overwrite-latest removes a package only to add all of it again: when the
\* populator starts, every bundle that is listed in a package to overwrite has
\* been pulled, whatever the order in which the goroutines finished, and none of
\* them is left.
OverwritesWholePackages ==
    At("populate") =>
        /\ \A b \in cmd.overwrite : Listed(PkgOf[b]) \subseteq cmd.overwrite
        /\ go = NoGo

\* An export that reports success has exported every bundle of its packages into
\* a directory that no other version shares, not even one of an earlier export, and
\* written every package.yaml, although the goroutines only report errors.
ExportIsComplete ==
    At("idle") /\ cmd.exit = "ok" /\ cmd.req.kind = "export" =>
        /\ \A p \in ExportPkgs : <<p, cmd.nth>> \in disk.yaml
        /\ \A b \in ToExport : \E x \in disk.exported :
              /\ x[1] = PkgOf[b] /\ x[3] = b /\ x[4] = cmd.nth
              /\ \A y \in disk.exported :
                    y[1] = x[1] /\ y[2] = x[2] => VersionOf[y[3]] = VersionOf[b]

\* Every command ends, however its goroutines interleave and fail: populate
\* receives as many results as it started goroutines, and an export waits for
\* goroutines that wait for the semaphore.
CommandEnds == [](~ At("idle") => <>At("idle"))

=============================================================================
