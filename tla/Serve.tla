-------------------------------- MODULE Serve --------------------------------
(***************************************************************************)
(* The processes that serve a catalog to clients: opm registry serve and   *)
(* registry-server (an index file), opm alpha serve (declarative configs)  *)
(* and configmap-server (a config map, loaded into a database first); and  *)
(* the initializer, which loads a directory of manifests into the index    *)
(* file that registry-server serves.  One of them is started, serves, is   *)
(* stopped by a signal, a timeout or a failure, or is killed, and is       *)
(* started again in the same directory.                                    *)
(*                                                                         *)
(* What is served is the set of bundles and packages that are stored; what *)
(* the queries make of it is in Querier and CatalogModel.                  *)
(***************************************************************************)
EXTENDS Naturals, Sequences, FiniteSets

CONSTANTS
    NULL,
    Items,          \* names of bundles and packages
    Kinds,          \* what is served: "file", "manifests", "configs", "configmap"
    Indexes,        \* contents of an index file
    Directories,    \* directories of declarative configs: what is in each file
    ConfigMaps,     \* contents of a config map
    Manifests,      \* directories of manifests: their files, in lexical order
    Clients,
    MaxRuns         \* bound on the number of starts

ConfigFile == [items : SUBSET Items, parses : BOOLEAN, ignored : BOOLEAN]

\* A bundle of a config map, and whether the CRDs it owns are there; a package
\* and the head of its channel.
ListedBundle == [name : Items, owned : BOOLEAN]

ListedPackage == [name : Items, head : Items]

\* Each of the three keys may be missing.
ConfigMap ==
    [crds : {"ok", "duplicate", "missing"}, csvs : Seq(ListedBundle) \cup {NULL},
     packages : Seq(ListedPackage) \cup {NULL}]

\* A file holds a CSV, a package manifest or something else; it may be hidden (or
\* in a hidden directory), in a directory that cannot be listed, impossible to
\* open, or no YAML.
ManifestFile ==
    [holds : {"csv", "package", "other"}, name : Items, owned : BOOLEAN,
     head : Items \cup {NULL},
     state : {"ok", "hidden", "unlisted", "unreadable", "broken"}]

ASSUME ServeAssumption ==
    /\ Kinds \subseteq {"file", "manifests", "configs", "configmap"}
    /\ Indexes \subseteq SUBSET Items
    /\ \A dir \in Directories : dir \in [DOMAIN dir -> ConfigFile]
    /\ ConfigMaps \subseteq ConfigMap
    /\ Manifests \subseteq Seq(ManifestFile)
    /\ MaxRuns \in Nat

VARIABLES
    kind,       \* which server it is
    source,     \* the file, directory or config map it is given
    file,       \* the database of configmap-server, or what the initializer wrote
    copies,     \* the runs whose temporary copy is in the working directory
    run,        \* the number of the run, the flags and locals of main, what its
                \* database had before ("left"), and whether the source was
                \* written while it was read ("torn")
    pc,         \* where main is, or "down"
    server,     \* the gRPC server, its Serve goroutine and the timer
    calls,      \* the calls of the clients
    exits       \* how each run ended

serveVars == <<kind, source, file, copies, run, pc, server, calls, exits>>

Up == pc # "down"

Open == {c \in Clients : calls[c].state \in {"accepted", "queried"}}

Sources ==
    CASE kind = "file" -> Indexes [] kind = "manifests" -> Manifests
      [] kind = "configs" -> Directories [] OTHER -> ConfigMaps

NewServer == [serve |-> "idle", quit |-> FALSE, done |-> FALSE, timer |-> "off",
              signal |-> FALSE]

NoCall == [state |-> "none", answer |-> {}, run |-> 0]

Init ==
    /\ kind \in Kinds
    /\ source \in Sources
    /\ file = {} /\ copies = {} /\ exits = <<>>
    /\ run = [id |-> 0, initializer |-> FALSE, permissive |-> FALSE, timeout |-> FALSE,
              todo |-> <<>>, errs |-> FALSE, read |-> NULL, seen |-> {}, left |-> {},
              torn |-> FALSE, store |-> {}]
    /\ pc = "down" /\ server = NewServer
    /\ calls = [c \in Clients |-> NoCall]

-----------------------------------------------------------------------------
\* The end of the process. Deferred calls run when main returns, and not when it
\* is killed or ends with logrus.Fatal. A call that is still open is broken.
Gone(e) ==
    /\ pc' = "down" /\ server' = NewServer
    /\ exits' = Append(exits, e)
    /\ calls' = [c \in Clients |->
          IF c \in Open THEN [state |-> "broken", answer |-> {}, run |-> run.id] ELSE NoCall]
    /\ UNCHANGED <<kind, source, run>>

\* Mutant: the copy is removed at the end of main, not deferred.
ReturnsWithCopy(e) == Gone(e) /\ copies' = copies /\ UNCHANGED file

Returns(e) == Gone(e) /\ copies' = copies \ {run.id} /\ UNCHANGED file

Fatal == Gone("fatal") /\ UNCHANGED <<copies, file>>

Goto(label) == pc' = label /\ UNCHANGED <<kind, source, server, calls, exits>>

Start ==
    /\ ~ Up /\ run.id < MaxRuns
    /\ \E initializer, permissive, timeout \in BOOLEAN :
          /\ initializer => kind = "manifests"
          /\ permissive => kind = "configmap" \/ initializer
          /\ timeout => kind = "file"
          /\ run' = [run EXCEPT !.id = @ + 1, !.initializer = initializer,
                                !.permissive = permissive, !.timeout = timeout,
                                !.errs = FALSE, !.todo = <<>>, !.read = NULL,
                                !.seen = {}, !.left = {}, !.torn = FALSE, !.store = {}]
          /\ Goto(IF initializer THEN "open"
                  ELSE CASE kind \in {"file", "manifests"} -> "copy"
                         [] kind = "configs" -> "load" [] OTHER -> "get")
    /\ UNCHANGED <<file, copies>>

-----------------------------------------------------------------------------
(***************************************************************************)
(* opm registry serve and registry-server                                  *)
(***************************************************************************)

\* The index file that is served.
Index == IF kind = "manifests" THEN file ELSE source

CopyTmpDB ==
    /\ pc = "copy"
    /\ copies' = copies \cup {run.id}
    /\ run' = [run EXCEPT !.read = Index]
    /\ Goto("copying")
    /\ UNCHANGED file

\* io.Copy reads piece by piece, without a lock of SQLite: what is copied last is
\* from the index as it is by then.
CopyEnds ==
    /\ pc = "copying"
    /\ \E first \in SUBSET Items :
          run' = [run EXCEPT !.store = (run.read \cap first) \cup (Index \ first)]
    /\ Goto("migrate")
    /\ UNCHANGED <<file, copies>>

\* The index cannot be read or copied: the temporary file stays, if it was made.
CopyFails ==
    /\ pc \in {"copy", "copying"}
    /\ copies' \in {copies, copies \cup {run.id}}
    /\ Gone("copy") /\ UNCHANGED file

\* The copy is migrated. A failure is a warning, and what is served is what the
\* index was.
MigrateCopy ==
    /\ pc = "migrate"
    /\ Goto("listen")
    /\ UNCHANGED <<run, file, copies>>

(***************************************************************************)
(* opm alpha serve                                                         *)
(***************************************************************************)

\* The files that LoadFS reads: those that no .indexignore names.
Read(dir) == {f \in DOMAIN dir : ~ dir[f].ignored}

LoadFS ==
    /\ pc = "load"
    /\ run' = [run EXCEPT !.read = source]
    /\ Goto("read configs")
    /\ UNCHANGED <<file, copies>>

\* The walk opens and reads a file when it comes to it.
LoadConfig ==
    /\ pc = "read configs"
    /\ \E f \in (Read(run.read) \ run.seen) \cap DOMAIN source :
          /\ source[f].parses
          /\ run' = [run EXCEPT !.seen = @ \cup {f}, !.store = @ \cup source[f].items]
    /\ Goto("read configs")
    /\ UNCHANGED <<file, copies>>

ConfigsLoaded ==
    /\ pc = "read configs" /\ run.seen = Read(run.read)
    /\ Goto("listen")
    /\ UNCHANGED <<run, file, copies>>

\* A file is gone or cannot be parsed; ConvertToModel can fail too.
LoadFails == pc \in {"load", "read configs"} /\ Returns("error")

(***************************************************************************)
(* configmap-server. A config map has a list of CRDs, a list of bundles,   *)
(* of which some own a CRD that is not in the first, and one of packages.  *)
(***************************************************************************)

GetConfigMap ==
    /\ pc = "get"
    /\ run' = [run EXCEPT !.read = source]
    /\ Goto("open")
    /\ UNCHANGED <<file, copies>>

GetFails == pc = "get" /\ Fatal

\* NewSQLLiteLoader and Migrate, on the file an earlier run may have left.
OpenFile ==
    /\ pc = "open" /\ ~ run.initializer
    /\ run' = [run EXCEPT !.left = file]
    /\ Goto("crds")
    /\ UNCHANGED <<file, copies>>

OpenFails == pc = "open" /\ Returns("error")

\* Without the CRDs nothing is loaded; a CRD that is there twice is an error, and
\* loading goes on.
LoadCRDs ==
    /\ pc = "crds"
    /\ run' = [run EXCEPT !.errs = run.read.crds # "ok"]
    /\ Goto(IF run.read.crds = "missing" THEN "populated" ELSE "csvs")
    /\ UNCHANGED <<file, copies>>

LoadCSVs ==
    /\ pc = "csvs"
    /\ IF run.read.csvs = NULL
       THEN run' = [run EXCEPT !.errs = TRUE] /\ Goto("populated")
       ELSE run' = [run EXCEPT !.todo = run.read.csvs] /\ Goto("bundles")
    /\ UNCHANGED <<file, copies>>

\* AddOperatorBundle, in a transaction of its own: it fails if the name is taken,
\* and can fail otherwise. A bundle whose CRD is missing is an error, and is added
\* without it.
AddOperatorBundle ==
    /\ pc = "bundles" /\ run.todo # <<>>
    /\ LET csv == Head(run.todo)
       IN  \E added \in BOOLEAN :
              /\ csv.name \in file => ~ added
              /\ file' = IF added THEN file \cup {csv.name} ELSE file
              /\ run' = [run EXCEPT !.todo = Tail(@), !.errs = @ \/ ~ added \/ ~ csv.owned]
    /\ Goto("bundles")
    /\ UNCHANGED copies

BundlesDone ==
    /\ pc = "bundles" /\ run.todo = <<>>
    /\ IF run.read.packages = NULL
       THEN run' = [run EXCEPT !.errs = TRUE] /\ Goto("populated")
       ELSE run' = [run EXCEPT !.todo = run.read.packages] /\ Goto("packages")
    /\ UNCHANGED <<file, copies>>

\* AddPackageChannels: fails without the head of the channel, can fail otherwise,
\* and replaces the channels of a package that is there.
AddPackage ==
    /\ pc = "packages" /\ run.todo # <<>>
    /\ LET p == Head(run.todo)
       IN  \E added \in BOOLEAN :
              /\ added => p.head \in file
              /\ file' = IF added THEN file \cup {p.name} ELSE file
              /\ run' = [run EXCEPT !.todo = Tail(@), !.errs = @ \/ ~ added]
    /\ Goto("packages")
    /\ UNCHANGED copies

PackagesDone ==
    /\ pc = "packages" /\ run.todo = <<>>
    /\ Goto("populated")
    /\ UNCHANGED <<run, file, copies>>

\* Mutant: load errors are always allowed.
AlwaysPermissive == TRUE

Permitted == run.permissive \/ ~ run.errs

Populated ==
    /\ pc = "populated" /\ Permitted /\ ~ run.initializer
    /\ run' = [run EXCEPT !.store = file]
    /\ Goto("listen")
    /\ UNCHANGED <<file, copies>>

\* NewSQLLiteQuerier fails: the interface that holds its nil is not nil, and
\* ListTables panics.
QuerierFails == pc = "populated" /\ Permitted /\ ~ run.initializer /\ Fatal

PopulateFails == pc = "populated" /\ ~ Permitted /\ Fatal

(***************************************************************************)
(* initializer. The directory does not change while it is loaded.          *)
(***************************************************************************)

OpenOutput ==
    /\ pc = "open" /\ run.initializer
    /\ run' = [run EXCEPT !.read = source, !.todo = source, !.left = file]
    /\ Goto("walk bundles")
    /\ UNCHANGED <<file, copies>>

\* LoadBundleWalkFunc on the next file. A file that is no YAML is passed over, and
\* a bundle that lacks an API it owns is an error and is added. For a directory
\* that cannot be listed Walk calls it with the error, which it does not look at:
\* what is in there is passed over as what is hidden is.
LoadBundle ==
    /\ pc = "walk bundles" /\ run.todo # <<>>
    /\ LET entry == Head(run.todo)
       IN  \E added \in BOOLEAN :
              /\ added => /\ entry.holds = "csv" /\ entry.state = "ok"
                          /\ entry.name \notin file
              /\ file' = IF added THEN file \cup {entry.name} ELSE file
              /\ run' = [run EXCEPT !.todo = Tail(@), !.errs =
                    \/ @
                    \/ entry.state = "unreadable"
                    \/ /\ entry.holds = "csv" /\ entry.state = "ok"
                       /\ ~ added \/ ~ entry.owned]
    /\ Goto("walk bundles")
    /\ UNCHANGED copies

\* Errors do not end a walk, and the first walk does not keep the second from it.
BundlesLoaded ==
    /\ pc = "walk bundles" /\ run.todo = <<>>
    /\ run' = [run EXCEPT !.todo = run.read]
    /\ Goto("walk packages")
    /\ UNCHANGED <<file, copies>>

\* LoadPackagesWalkFunc on the next file. Here a file that is no YAML is an error,
\* whatever it was meant to be.
LoadPackage ==
    /\ pc = "walk packages" /\ run.todo # <<>>
    /\ LET entry == Head(run.todo)
           package == entry.holds = "package" /\ entry.state = "ok"
       IN  \E added \in BOOLEAN :
              /\ added => package /\ entry.head \in file
              /\ file' = IF added THEN file \cup {entry.name} ELSE file
              /\ run' = [run EXCEPT !.todo = Tail(@), !.errs =
                    @ \/ entry.state \in {"unreadable", "broken"} \/ (package /\ ~ added)]
    /\ Goto("walk packages")
    /\ UNCHANGED copies

PackagesLoaded ==
    /\ pc = "walk packages" /\ run.todo = <<>>
    /\ Goto("populated")
    /\ UNCHANGED <<run, file, copies>>

Initialized == pc = "populated" /\ Permitted /\ run.initializer /\ Returns("ok")

-----------------------------------------------------------------------------
Listen ==
    /\ pc = "listen"
    /\ Goto(IF run.timeout THEN "arm" ELSE "shutdown")
    /\ UNCHANGED <<run, file, copies>>

ListenFails == pc = "listen" /\ Fatal

\* time.AfterFunc
ArmTimer ==
    /\ pc = "arm"
    /\ pc' = "shutdown" /\ server' = [server EXCEPT !.timer = "armed"]
    /\ UNCHANGED <<kind, source, file, copies, run, calls, exits>>

BadTimeout == pc = "arm" /\ Returns("error")

\* The timer calls GracefulStop, possibly before Serve is called.
TimerFires ==
    /\ server.timer = "armed"
    /\ server' = [server EXCEPT !.timer = "fired", !.quit = TRUE]
    /\ UNCHANGED <<kind, source, file, copies, run, pc, calls, exits>>

\* GracefulStop has returned in the timer's goroutine.
TimerStops ==
    /\ server.timer = "fired" /\ Open = {}
    /\ server' = [server EXCEPT !.timer = "off", !.done = TRUE]
    /\ UNCHANGED <<kind, source, file, copies, run, pc, calls, exits>>

\* graceful.Shutdown: signals are caught from here on, and Serve is started.
Shutdown ==
    /\ pc = "shutdown"
    /\ pc' = "select" /\ server' = [server EXCEPT !.serve = "called"]
    /\ UNCHANGED <<kind, source, file, copies, run, calls, exits>>

\* Serve returns an error if GracefulStop was called before.
ServeCalled ==
    /\ server.serve = "called"
    /\ server' = [server EXCEPT !.serve = IF server.quit THEN "failed" ELSE "serving"]
    /\ UNCHANGED <<kind, source, file, copies, run, pc, calls, exits>>

AcceptFails ==
    /\ server.serve = "serving" /\ ~ server.quit
    /\ server' = [server EXCEPT !.serve = "failed"]
    /\ UNCHANGED <<kind, source, file, copies, run, pc, calls, exits>>

\* After GracefulStop Serve returns nil.
ServeReturns ==
    /\ server.serve = "serving" /\ server.done
    /\ server' = [server EXCEPT !.serve = "returned"]
    /\ UNCHANGED <<kind, source, file, copies, run, pc, calls, exits>>

\* Mutant: only the end of Serve is waited for.
ServeFailed == server.serve = "failed"

\* The context of the group ends when Serve returns an error, not when it
\* returns nil.
Interrupted == server.signal \/ server.serve = "failed"

Select ==
    /\ pc = "select" /\ Interrupted
    /\ pc' = "cleanup" /\ server' = [server EXCEPT !.quit = TRUE]
    /\ UNCHANGED <<kind, source, file, copies, run, calls, exits>>

\* Mutant: the cleanup is Stop, which does not wait for calls.
Stopped == TRUE

\* What GracefulStop waits for.
Drained == Open = {}

Cleanup ==
    /\ pc = "cleanup" /\ Drained
    /\ pc' = "wait" /\ server' = [server EXCEPT !.done = TRUE]
    /\ UNCHANGED <<kind, source, file, copies, run, calls, exits>>

Wait ==
    /\ pc = "wait" /\ server.serve \in {"returned", "failed"}
    /\ Returns(IF server.serve = "failed" THEN "error" ELSE "ok")

\* SIGINT or SIGTERM: the process dies if it is not in Shutdown yet.
Signal ==
    /\ Up
    /\ \/ /\ pc \in {"select", "cleanup", "wait"} /\ ~ server.signal
          /\ server' = [server EXCEPT !.signal = TRUE]
          /\ UNCHANGED <<kind, source, file, copies, run, pc, calls, exits>>
       \/ /\ pc \notin {"select", "cleanup", "wait"}
          /\ Gone("killed") /\ UNCHANGED <<copies, file>>

Kill ==
    /\ Up
    /\ Gone("killed") /\ UNCHANGED <<copies, file>>

-----------------------------------------------------------------------------
(***************************************************************************)
(* Clients, and who publishes the catalog                                  *)
(***************************************************************************)

\* A call on a new connection, or on one that was accepted before.
Call(c) ==
    /\ ~ server.quit /\ c \notin Open
    /\ \/ server.serve = "serving"
       \/ server.serve = "failed" /\ calls[c].run = run.id
    /\ calls' = [calls EXCEPT ![c] = [state |-> "accepted", answer |-> {}, run |-> run.id]]
    /\ UNCHANGED <<kind, source, file, copies, run, pc, server, exits>>

\* A method of RegistryServer: the store is queried once, and then the answer is
\* sent, message by message.
Query(c) ==
    /\ Up /\ calls[c].state = "accepted"
    /\ calls' = [calls EXCEPT ![c].state = "queried", ![c].answer = run.store]
    /\ UNCHANGED <<kind, source, file, copies, run, pc, server, exits>>

Send(c) ==
    /\ Up /\ calls[c].state = "queried"
    /\ calls' = [calls EXCEPT ![c].state = "answered"]
    /\ UNCHANGED <<kind, source, file, copies, run, pc, server, exits>>

\* The source is read in several steps.
Reading == pc = "read configs" \/ (pc = "copying" /\ kind = "file")

\* Files are written in place.
Publish ==
    /\ source' \in Sources \ {source}
    /\ run' = [run EXCEPT !.torn = @ \/ Reading]
    /\ UNCHANGED <<kind, file, copies, pc, server, calls, exits>>

\* The next run is in a new container.
LoseFile ==
    /\ ~ Up /\ file # {}
    /\ file' = {} /\ run' = [run EXCEPT !.initializer = FALSE]
    /\ UNCHANGED <<kind, source, copies, pc, server, calls, exits>>

-----------------------------------------------------------------------------
\* What the process does of its own accord.
Main ==
    \/ CopyTmpDB \/ CopyEnds \/ MigrateCopy \/ LoadFS \/ LoadConfig \/ ConfigsLoaded
    \/ GetConfigMap \/ OpenFile \/ LoadCRDs \/ LoadCSVs \/ AddOperatorBundle \/ BundlesDone
    \/ AddPackage \/ PackagesDone \/ Populated \/ PopulateFails
    \/ OpenOutput \/ LoadBundle \/ BundlesLoaded \/ LoadPackage \/ PackagesLoaded \/ Initialized
    \/ Listen \/ ArmTimer \/ Shutdown \/ Select \/ Cleanup \/ Wait

Fails ==
    \/ CopyFails \/ LoadFails \/ GetFails \/ OpenFails \/ QuerierFails \/ ListenFails
    \/ BadTimeout \/ AcceptFails \/ Signal \/ Kill

Next ==
    \/ Start \/ Main \/ Fails
    \/ TimerFires \/ TimerStops \/ ServeCalled \/ ServeReturns
    \/ \E c \in Clients : Call(c) \/ Query(c) \/ Send(c)
    \/ Publish \/ LoseFile

Fairness ==
    /\ WF_serveVars(Main)
    /\ WF_serveVars(TimerFires) /\ WF_serveVars(TimerStops)
    /\ WF_serveVars(ServeCalled) /\ WF_serveVars(ServeReturns)
    /\ \A c \in Clients : WF_serveVars(Query(c)) /\ WF_serveVars(Send(c))

Spec == Init /\ [][Next]_serveVars /\ Fairness

-----------------------------------------------------------------------------
(***************************************************************************)
(* Properties                                                              *)
(***************************************************************************)

Names(list) == IF list = NULL THEN {} ELSE {list[i].name : i \in DOMAIN list}

\* The files that the walks of the initializer come to.
Visible(s) == {i \in DOMAIN s : s[i].state \notin {"hidden", "unlisted"}}

\* Everything that a catalog, as it was read, says is in it.
All(s) ==
    CASE kind = "file" \/ (kind = "manifests" /\ ~ run.initializer) -> s
      [] kind = "manifests" /\ run.initializer ->
            {s[i].name : i \in {j \in Visible(s) : s[j].holds # "other"}}
      [] kind = "configs" -> UNION {s[f].items : f \in Read(s)}
      [] OTHER -> Names(s.csvs) \cup Names(s.packages)

\* S is all of what was read, with --permissive a part of it, and nothing else but
\* what the database had before.
WholeCatalog(S) ==
    /\ S \subseteq All(run.read) \cup run.left
    /\ ~ run.permissive => All(run.read) \subseteq S

\* A client never gets a part of a catalog: an answer is from all of what the
\* server read when it started, whatever is published or fails since, unless the
\* source was written while it was read. With --permissive a config map may be
\* served in part. What is served besides is exactly what an earlier run of
\* configmap-server has left in the database. And the index that an initializer
\* leaves without error has, with what was in that file before, every bundle and
\* package of the files its walks come to, although no single walk reports all of
\* the files it cannot use. (They do not come to hidden files, nor, without an
\* error, to those of a directory that cannot be listed.)
AnswersAreWhole ==
    /\ \A c \in Clients :
          calls[c].state \in {"queried", "answered"} /\ calls[c].run = run.id
                  /\ ~ run.torn =>
              WholeCatalog(calls[c].answer)
    /\ run.initializer /\ ~ Up /\ exits[run.id] = "ok" => WholeCatalog(file)

\* A server that stops by itself breaks no call: however the timeout, the signal,
\* an accept error and the calls interleave, a call is broken only in a run that
\* was killed.
StopsGracefully ==
    \A c \in Clients :
        calls[c].state = "broken" => exits[calls[c].run] = "killed"

\* A temporary copy of the index outlives its run only if the run was killed,
\* ended with Fatal or could not finish the copy.
CopiesRemoved ==
    \A r \in copies : (r = run.id /\ Up) \/ exits[r] \in {"killed", "fatal", "copy"}

\* A signal ends a server that has come as far as Shutdown, also when the timeout
\* has stopped it before or stops it at the same time.
SignalEnds == server.signal ~> ~ Up

=============================================================================
