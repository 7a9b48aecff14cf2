------------------------------ MODULE ServeProofs ------------------------------
(***************************************************************************)
(* Proofs about Serve, for every number of starts and clients and for all  *)
(* indexes, directories and config maps.                                   *)
(*                                                                         *)
(* The properties are proved one after the other, each from the ones       *)
(* before: the types; what the history of exits and copies says; that no   *)
(* call is open when main returns; what a load puts into the database at   *)
(* most; and what it has put there when it has not noted an error.         *)
(***************************************************************************)
EXTENDS Serve, SequenceTheorems, TLAPS

Exits == {"ok", "error", "fatal", "copy", "killed"}

\* Where main is while it starts and serves.
Starting == {"listen", "arm", "shutdown"}

Serving == {"select", "cleanup", "wait"}

PCs ==
    Starting \cup Serving \cup
    {"down", "copy", "copying", "migrate", "load", "read configs", "get", "open",
     "crds", "csvs", "bundles", "packages", "populated", "walk bundles", "walk packages"}

\* The record of the locals; what todo and read hold depends on the kind (Where).
IsRun(r) ==
    /\ r = [id |-> r.id, initializer |-> r.initializer, permissive |-> r.permissive,
            timeout |-> r.timeout, todo |-> r.todo, errs |-> r.errs, read |-> r.read,
            seen |-> r.seen, left |-> r.left, torn |-> r.torn, store |-> r.store]
    /\ r.id \in Nat /\ r.store \in SUBSET Items
    /\ {r.initializer, r.permissive, r.timeout, r.errs, r.torn} \subseteq BOOLEAN

Server ==
    [serve : {"idle", "called", "serving", "failed", "returned"}, quit : BOOLEAN,
     done : BOOLEAN, timer : {"off", "armed", "fired"}, signal : BOOLEAN]

ClientCall ==
    [state : {"none", "accepted", "queried", "answered", "broken"},
     answer : SUBSET Items, run : Nat]

TypeOK ==
    /\ kind \in Kinds
    /\ source \in Sources
    /\ file \in SUBSET Items
    /\ copies \in SUBSET Nat
    /\ IsRun(run)
    /\ pc \in PCs
    /\ server \in Server
    /\ calls \in [Clients -> ClientCall]
    /\ exits \in Seq(Exits)

\* What main loads from depends on the kind of server.
Where ==
    /\ pc = "copy" => kind \in {"file", "manifests"}
    /\ pc = "copying" => kind \in {"file", "manifests"} /\ run.read \in SUBSET Items
    /\ pc = "load" => kind = "configs"
    /\ pc = "read configs" => kind = "configs" /\ run.read \in Directories
    /\ pc = "get" => kind = "configmap"
    /\ pc = "open" => run.initializer \/ (kind = "configmap" /\ run.read \in ConfigMaps)
    /\ pc \in {"crds", "csvs", "bundles", "packages"} =>
          kind = "configmap" /\ run.read \in ConfigMaps /\ ~ run.initializer
    /\ pc \in {"walk bundles", "walk packages"} => run.initializer /\ run.read \in Manifests
    /\ pc = "populated" =>
          \/ kind = "configmap" /\ run.read \in ConfigMaps /\ ~ run.initializer
          \/ run.initializer /\ run.read \in Manifests
    /\ run.initializer =>
          /\ kind = "manifests"
          /\ pc \in {"down", "open", "walk bundles", "walk packages", "populated"}
    /\ pc = "bundles" => run.todo \in Seq(ListedBundle)
    /\ pc = "packages" => run.todo \in Seq(ListedPackage)
    /\ pc \in {"walk bundles", "walk packages"} => run.todo \in Seq(ManifestFile)

TypeInv == TypeOK /\ Where

\* The history: every run but the one that is up has its exit, only runs have
\* copies, and CopiesRemoved.
History ==
    /\ Len(exits) = IF Up THEN run.id - 1 ELSE run.id
    /\ copies \subseteq 1 .. run.id
    /\ CopiesRemoved

\* Calls are made and answered while main is in Shutdown, none comes in after
\* GracefulStop was called, and it has waited for the others.
CallsOK ==
    /\ pc \notin Serving => server.serve = "idle"
    /\ pc \in {"cleanup", "wait"} => server.quit
    /\ pc = "wait" => Open = {}
    /\ \A c \in Clients :
          /\ calls[c].state \in {"accepted", "queried", "answered"} => pc \in Serving
          /\ calls[c].state = "broken" => calls[c].run \in 1 .. Len(exits)
    /\ StopsGracefully

\* A list or a directory of which some entries are still to be loaded.
NamesIn(s) == {s[i].name : i \in DOMAIN s}

\* What is true of a file of a directory that one of the two walks has passed
\* without noting an error.
PassedBundles(e, loaded) ==
    e.state # "unreadable" /\ (e.holds = "csv" /\ e.state = "ok" => e.name \in loaded)

PassedPackages(e, loaded) ==
    /\ e.state \notin {"unreadable", "broken"}
    /\ e.holds = "package" /\ e.state = "ok" => e.name \in loaded

StillIn(e, s) == \E i \in DOMAIN s : s[i] = e

\* What is in the database was there before or is from what was read, and what is
\* still to be loaded is from what was read.
Filling == {"crds", "csvs", "bundles", "packages", "populated", "walk bundles", "walk packages"}

Bounded ==
    /\ pc \in Filling => file \subseteq All(run.read) \cup run.left
    /\ pc \in {"bundles", "packages"} => NamesIn(run.todo) \subseteq All(run.read)
    /\ pc \in {"walk bundles", "walk packages"} =>
          \A j \in DOMAIN run.todo : StillIn(run.todo[j], run.read)

\* A source that was not written since main began to read it is as it was then.
Untorn ==
    /\ pc = "load" => run.store = {} /\ run.seen = {}
    /\ pc = "copying" /\ ~ run.torn => run.read = Index
    /\ pc = "read configs" /\ ~ run.torn =>
          /\ run.read = source
          /\ run.store = UNION {source[f].items : f \in run.seen}

\* A load that has noted no error has loaded all that is no longer to do.
Loading ==
    ~ run.errs =>
        /\ pc = "bundles" => NamesIn(run.read.csvs) \subseteq file \cup NamesIn(run.todo)
        /\ pc = "packages" =>
              /\ Names(run.read.csvs) \subseteq file
              /\ NamesIn(run.read.packages) \subseteq file \cup NamesIn(run.todo)
        /\ pc = "walk bundles" => \A i \in DOMAIN run.read :
              PassedBundles(run.read[i], file) \/ StillIn(run.read[i], run.todo)
        /\ pc = "walk packages" => \A i \in DOMAIN run.read :
              /\ PassedBundles(run.read[i], file)
              /\ PassedPackages(run.read[i], file) \/ StillIn(run.read[i], run.todo)
        /\ pc = "populated" => All(run.read) \subseteq file

Loaded ==
    /\ pc = "bundles" => run.read.csvs # NULL
    /\ pc = "packages" => run.read.packages # NULL
    /\ Loading
    /\ pc \in {"migrate"} \cup Starting \cup Serving /\ ~ run.torn => WholeCatalog(run.store)

Inv == TypeInv /\ History /\ CallsOK /\ Bounded /\ Untorn /\ Loaded /\ AnswersAreWhole

-----------------------------------------------------------------------------
USE DEF TypeInv, TypeOK, Where, IsRun, PCs, Starting, Serving, Sources

\* A start sets the locals of main anew and goes to what the kind of server loads.
LEMMA StartTypes == TypeInv /\ Start => TypeInv'
<1> SUFFICES ASSUME TypeInv, Start PROVE TypeInv'
  OBVIOUS
<1>1. PICK initializer \in BOOLEAN, permissive \in BOOLEAN, timeout \in BOOLEAN :
          /\ initializer => kind = "manifests"
          /\ run' = [id |-> run.id + 1, initializer |-> initializer,
                     permissive |-> permissive, timeout |-> timeout, todo |-> <<>>,
                     errs |-> FALSE, read |-> NULL, seen |-> {}, left |-> {},
                     torn |-> FALSE, store |-> {}]
          /\ Goto(IF initializer THEN "open"
                  ELSE CASE kind \in {"file", "manifests"} -> "copy"
                         [] kind = "configs" -> "load" [] OTHER -> "get")
  BY ZenonT(60) DEF Start
<1>2. kind' = kind /\ kind \in {"file", "manifests", "configs", "configmap"}
  BY ServeAssumption, <1>1 DEF Goto
<1>0. pc' = IF initializer THEN "open"
            ELSE CASE kind \in {"file", "manifests"} -> "copy"
                   [] kind = "configs" -> "load" [] OTHER -> "get"
  BY <1>1 DEF Goto
<1>3. /\ initializer => pc' = "open"
      /\ ~ initializer => \/ kind \in {"file", "manifests"} /\ pc' = "copy"
                          \/ kind = "configs" /\ pc' = "load"
                          \/ kind = "configmap" /\ pc' = "get"
  <2> HIDE DEF TypeInv
  <2>1. CASE initializer
    BY <2>1, <1>0
  <2>2. CASE ~ initializer /\ kind \in {"file", "manifests"}
    BY <2>2, <1>0
  <2>3. CASE ~ initializer /\ kind = "configs"
    BY <2>3, <1>0
  <2>4. CASE ~ initializer /\ kind = "configmap"
    BY <2>4, <1>0
  <2> QED
    BY <1>2, <2>1, <2>2, <2>3, <2>4
<1>4. IsRun(run')
  <2>1. run.id \in Nat
    OBVIOUS
  <2>2. run' = [id |-> run.id + 1, initializer |-> initializer,
                permissive |-> permissive, timeout |-> timeout, todo |-> <<>>,
                errs |-> FALSE, read |-> NULL, seen |-> {}, left |-> {},
                     torn |-> FALSE, store |-> {}]
    BY <1>1
  <2> HIDE DEF TypeInv
  <2> QED
    BY <2>1, <2>2
<1>5. run'.initializer = initializer
  BY <1>1
<1>6. TypeOK'
  BY <1>1, <1>3, <1>4 DEF Start, Goto
<1>7. Where'
  <2> HIDE DEF TypeInv
  <2> QED
    BY <1>1, <1>2, <1>3, <1>5
<1> QED
  BY <1>6, <1>7

\* copyTmpDB reads an index, from the source or from what the initializer wrote.
LEMMA CopyTypes == TypeInv /\ CopyTmpDB => TypeInv'
<1> SUFFICES ASSUME TypeInv, CopyTmpDB PROVE TypeInv'
  OBVIOUS
<1>1. Index \in SUBSET Items
  BY ServeAssumption DEF CopyTmpDB, Index
<1> QED
  BY <1>1 DEF CopyTmpDB, Goto

\* What is copied is of the index before or after.
LEMMA CopyEndsTypes == TypeInv /\ CopyEnds => TypeInv'
<1> SUFFICES ASSUME TypeInv, CopyEnds PROVE TypeInv'
  OBVIOUS
<1>1. Index \in SUBSET Items
  BY ServeAssumption DEF CopyEnds, Index
<1>2. PICK store \in SUBSET Items : run' = [run EXCEPT !.store = store]
  BY <1>1 DEF CopyEnds
<1> QED
  BY <1>2 DEF CopyEnds, Goto

\* opm alpha serve holds in memory what it has read of the files.
LEMMA LoadConfigTypes == TypeInv /\ LoadConfig => TypeInv'
<1> SUFFICES ASSUME TypeInv, LoadConfig PROVE TypeInv'
  OBVIOUS
<1>1. PICK f \in DOMAIN source :
          run' = [run EXCEPT !.seen = @ \cup {f}, !.store = @ \cup source[f].items]
  BY DEF LoadConfig
<1>2. source[f].items \in SUBSET Items
  <2>1. source \in Directories
    BY DEF LoadConfig
  <2>2. source[f] \in ConfigFile
    BY <2>1, ServeAssumption
  <2> QED
    BY <2>2 DEF ConfigFile
<1> QED
  BY <1>1, <1>2 DEF LoadConfig, Goto

\* The list of bundles shrinks by its first, which may be added.
LEMMA AddBundleTypes == TypeInv /\ AddOperatorBundle => TypeInv'
<1> SUFFICES ASSUME TypeInv, AddOperatorBundle PROVE TypeInv'
  OBVIOUS
<1>1. Head(run.todo) \in ListedBundle /\ Tail(run.todo) \in Seq(ListedBundle)
  BY DEF AddOperatorBundle
<1>2. Head(run.todo).name \in Items /\ Head(run.todo).owned \in BOOLEAN
  BY <1>1 DEF ListedBundle
<1> QED
  BY <1>1, <1>2 DEF AddOperatorBundle, Goto

\* The list of packages shrinks by its first, which may be added.
LEMMA AddPackageTypes == TypeInv /\ AddPackage => TypeInv'
<1> SUFFICES ASSUME TypeInv, AddPackage PROVE TypeInv'
  OBVIOUS
<1>1. Head(run.todo) \in ListedPackage /\ Tail(run.todo) \in Seq(ListedPackage)
  BY DEF AddPackage
<1>2. Head(run.todo).name \in Items
  BY <1>1 DEF ListedPackage
<1> QED
  BY <1>1, <1>2 DEF AddPackage, Goto

\* A step of the first walk of the initializer.
LEMMA LoadBundleTypes == TypeInv /\ LoadBundle => TypeInv'
<1> SUFFICES ASSUME TypeInv, LoadBundle PROVE TypeInv'
  OBVIOUS
<1>0. run.todo \in Seq(ManifestFile) /\ run.todo # <<>>
  BY DEF LoadBundle
<1>1. Head(run.todo) \in ManifestFile /\ Tail(run.todo) \in Seq(ManifestFile)
  BY <1>0, HeadTailProperties
<1>2. Head(run.todo).name \in Items
  BY <1>1 DEF ManifestFile
<1>3. file' \in SUBSET Items
  BY <1>2, ZenonT(60) DEF LoadBundle
<1>4. PICK errs \in BOOLEAN : run' = [run EXCEPT !.todo = Tail(@), !.errs = errs]
  BY DEF LoadBundle
<1> QED
  <2>1. IsRun(run')
    BY <1>4
  <2>2. /\ run'.initializer = run.initializer /\ run'.read = run.read
        /\ run'.todo = Tail(run.todo)
    BY <1>4
  <2> QED
    BY <1>1, <1>3, <2>1, <2>2 DEF LoadBundle, Goto

\* A step of the second walk of the initializer.
LEMMA LoadPackageTypes == TypeInv /\ LoadPackage => TypeInv'
<1> SUFFICES ASSUME TypeInv, LoadPackage PROVE TypeInv'
  OBVIOUS
<1>0. run.todo \in Seq(ManifestFile) /\ run.todo # <<>>
  BY DEF LoadPackage
<1>1. Head(run.todo) \in ManifestFile /\ Tail(run.todo) \in Seq(ManifestFile)
  BY <1>0, HeadTailProperties
<1>2. Head(run.todo).name \in Items
  BY <1>1 DEF ManifestFile
<1>3. file' \in SUBSET Items
  BY <1>2, ZenonT(60) DEF LoadPackage
<1>4. PICK errs \in BOOLEAN : run' = [run EXCEPT !.todo = Tail(@), !.errs = errs]
  BY DEF LoadPackage
<1> QED
  <2>1. IsRun(run')
    BY <1>4
  <2>2. /\ run'.initializer = run.initializer /\ run'.read = run.read
        /\ run'.todo = Tail(run.todo)
    BY <1>4
  <2> QED
    BY <1>1, <1>3, <2>1, <2>2 DEF LoadPackage, Goto

\* However the process ends, the server is new and calls are broken or none.
LEMMA GoneTypes ==
    ASSUME TypeInv, NEW e \in Exits, Gone(e), file' = file, copies' \subseteq Nat
    PROVE  TypeInv'
<1>1. server' \in Server
  BY DEF Gone, NewServer, Server
<1>2. calls' \in [Clients -> ClientCall]
  BY DEF Gone, NoCall, ClientCall
<1>3. exits' \in Seq(Exits)
  BY AppendProperties, ZenonT(60) DEF Gone
<1> QED
  BY <1>1, <1>2, <1>3 DEF Gone

\* The steps of main keep the types, and what is loaded fits the kind.
LEMMA MainTypes == TypeInv /\ Main => TypeInv'
<1> SUFFICES ASSUME TypeInv, Main PROVE TypeInv'
  OBVIOUS
<1>1. CASE CopyTmpDB
  BY <1>1, CopyTypes
<1>2. CASE LoadConfig
  BY <1>2, LoadConfigTypes
<1>26. CASE CopyEnds
  BY <1>26, CopyEndsTypes
<1>27. CASE LoadFS
  BY <1>27 DEF LoadFS, Goto
<1>28. CASE ConfigsLoaded
  BY <1>28 DEF ConfigsLoaded, Goto
<1>3. CASE AddOperatorBundle
  BY <1>3, AddBundleTypes
<1>4. CASE AddPackage
  BY <1>4, AddPackageTypes
<1>5. CASE LoadBundle
  BY <1>5, LoadBundleTypes
<1>6. CASE LoadPackage
  BY <1>6, LoadPackageTypes
<1>7. CASE MigrateCopy
  BY <1>7, ServeAssumption DEF MigrateCopy, Goto, ConfigMap
<1>8. CASE GetConfigMap
  BY <1>8, ServeAssumption DEF GetConfigMap, Goto, ConfigMap
<1>9. CASE OpenFile
  BY <1>9, ServeAssumption DEF OpenFile, Goto, ConfigMap
<1>10. CASE LoadCRDs
  BY <1>10, ServeAssumption DEF LoadCRDs, Goto, ConfigMap
<1>11. CASE LoadCSVs
  BY <1>11, ServeAssumption, ZenonT(60) DEF LoadCSVs, Goto, ConfigMap
<1>12. CASE BundlesDone
  BY <1>12, ServeAssumption, ZenonT(60) DEF BundlesDone, Goto, ConfigMap
<1>13. CASE PackagesDone
  BY <1>13, ServeAssumption DEF PackagesDone, Goto, ConfigMap
<1>14. CASE Populated
  BY <1>14, ServeAssumption DEF Populated, Goto, ConfigMap
<1>15. CASE OpenOutput
  BY <1>15, ServeAssumption DEF OpenOutput, Goto, ConfigMap
<1>16. CASE BundlesLoaded
  BY <1>16, ServeAssumption DEF BundlesLoaded, Goto, ConfigMap
<1>17. CASE PackagesLoaded
  BY <1>17, ServeAssumption DEF PackagesLoaded, Goto, ConfigMap
<1>18. CASE Listen
  BY <1>18, ServeAssumption DEF Listen, Goto, ConfigMap
<1>19. CASE ArmTimer
  BY <1>19 DEF ArmTimer, Server
<1>20. CASE Shutdown
  BY <1>20 DEF Shutdown, Server
<1>21. CASE Select
  BY <1>21 DEF Select, Server
<1>22. CASE Cleanup
  BY <1>22 DEF Cleanup, Server
<1>23. CASE PopulateFails
  BY <1>23, GoneTypes DEF PopulateFails, Fatal, Exits
<1>24. CASE Initialized
  BY <1>24, GoneTypes DEF Initialized, Returns, Exits
<1>25. CASE Wait
  BY <1>25, GoneTypes, ZenonT(60) DEF Wait, Returns, Exits
<1> QED
  BY <1>1, <1>2, <1>3, <1>4, <1>5, <1>6, <1>7, <1>8, <1>9, <1>10, <1>11, <1>12, <1>13,
     <1>14, <1>15, <1>16, <1>17, <1>18, <1>19, <1>20, <1>21, <1>22, <1>23, <1>24, <1>25,
     <1>26, <1>27, <1>28
     DEF Main

\* So do the failures and signals,
LEMMA FailsTypes == TypeInv /\ Fails => TypeInv'
<1> SUFFICES ASSUME TypeInv, Fails PROVE TypeInv'
  OBVIOUS
<1>1. CASE CopyFails
  BY <1>1, GoneTypes DEF CopyFails, Exits
<1>2. CASE LoadFails
  BY <1>2, GoneTypes DEF LoadFails, Returns, Exits
<1>3. CASE GetFails
  BY <1>3, GoneTypes DEF GetFails, Fatal, Exits
<1>4. CASE OpenFails
  BY <1>4, GoneTypes DEF OpenFails, Returns, Exits
<1>5. CASE ListenFails
  BY <1>5, GoneTypes DEF ListenFails, Fatal, Exits
<1>6. CASE BadTimeout
  BY <1>6, GoneTypes DEF BadTimeout, Returns, Exits
<1>7. CASE Kill
  BY <1>7, GoneTypes DEF Kill, Exits
<1>8. CASE AcceptFails
  BY <1>8 DEF AcceptFails, Server
<1>9. CASE Signal
  BY <1>9, GoneTypes, ZenonT(60) DEF Signal, Server, Exits
<1>10. CASE QuerierFails
  BY <1>10, GoneTypes DEF QuerierFails, Fatal, Exits
<1> QED
  BY <1>1, <1>2, <1>3, <1>4, <1>5, <1>6, <1>7, <1>8, <1>9, <1>10 DEF Fails

\* and every other step.
LEMMA TypeStep == TypeInv /\ [Next]_serveVars => TypeInv'
<1> SUFFICES ASSUME TypeInv, [Next]_serveVars PROVE TypeInv'
  OBVIOUS
<1>1. CASE Start
  BY <1>1, StartTypes
<1>2. CASE Main
  BY <1>2, MainTypes
<1>3. CASE Fails
  BY <1>3, FailsTypes
<1>4. CASE TimerFires
  BY <1>4 DEF TimerFires, Server
<1>5. CASE TimerStops
  BY <1>5 DEF TimerStops, Server
<1>6. CASE ServeCalled
  BY <1>6, ZenonT(60) DEF ServeCalled, Server
<1>7. CASE ServeReturns
  BY <1>7 DEF ServeReturns, Server
<1>8. ASSUME NEW c \in Clients, Call(c) \/ Query(c) \/ Send(c) PROVE TypeInv'
  <2>1. calls' \in [Clients -> ClientCall]
    <3>1. CASE Call(c)
      BY <3>1 DEF Call, ClientCall
    <3>2. CASE Query(c)
      BY <3>2, ZenonT(60) DEF Query, ClientCall
    <3>3. CASE Send(c)
      BY <3>3 DEF Send, ClientCall
    <3> QED
      BY <1>8, <3>1, <3>2, <3>3
  <2> QED
    BY <1>8, <2>1 DEF Call, Query, Send
<1>9. CASE Publish
  BY <1>9 DEF Publish, Reading
<1>10. CASE LoseFile
  BY <1>10 DEF LoseFile, Up
<1>11. CASE UNCHANGED serveVars
  BY <1>11 DEF serveVars
<1> QED
  BY <1>1, <1>2, <1>3, <1>4, <1>5, <1>6, <1>7, <1>8, <1>9, <1>10, <1>11 DEF Next

HIDE DEF TypeInv, TypeOK, Where, IsRun, PCs, Starting, Serving, Sources

\* The types of the initial state.
LEMMA InitTypes == Init => TypeInv
  BY DEF Init, TypeInv, TypeOK, Where, IsRun, PCs, NewServer, Server, NoCall, ClientCall

-----------------------------------------------------------------------------
\* The kinds of steps. The process loads what it will serve; or it ends, and has
\* then removed its copy or is not in a position to do so, and waits for open calls
\* unless it is killed; or it is in the middle of serving.
Loads ==
    /\ pc \notin Serving \cup {"down"} /\ pc' \notin Serving \cup {"down"}
    /\ run'.id = run.id /\ copies' \subseteq copies \cup {run.id}
    /\ UNCHANGED <<server, calls, exits>>

Stops(e) ==
    /\ Up /\ Gone(e)
    /\ e = "killed" \/ pc \notin {"select", "cleanup"}
    /\ copies' \subseteq copies \cup {run.id}
    /\ run.id \in copies' => e \in {"killed", "fatal", "copy"}
    /\ e = "ok" => pc = "wait" \/ (pc = "populated" /\ Permitted)
    /\ UNCHANGED file

Caught ==
    /\ pc \in Serving /\ server' = [server EXCEPT !.signal = TRUE]
    /\ UNCHANGED <<kind, source, file, copies, run, pc, calls, exits>>

\* The steps of the goroutines of the server, and of main in Shutdown.
Serves ==
    \/ ArmTimer \/ Shutdown \/ Select \/ Cleanup \/ Caught \/ AcceptFails
    \/ TimerFires \/ TimerStops \/ ServeCalled \/ ServeReturns

Calls == \E c \in Clients : Call(c) \/ Query(c) \/ Send(c)

\* Main loads, serves or stops.
LEMMA MainKinds == TypeInv /\ Main => Loads \/ Serves \/ \E e \in Exits : Stops(e)
<1> SUFFICES ASSUME TypeInv, Main PROVE Loads \/ Serves \/ \E e \in Exits : Stops(e)
  OBVIOUS
<1>0. IsRun(run)
  BY DEF TypeInv, TypeOK
<1>1. CASE CopyTmpDB
  BY <1>0, <1>1 DEF CopyTmpDB, Goto, Loads, Serving, IsRun
<1>2. CASE MigrateCopy
  BY <1>0, <1>2 DEF MigrateCopy, Goto, Loads, Serving, IsRun
<1>3. CASE CopyEnds \/ LoadFS \/ LoadConfig \/ ConfigsLoaded
  BY <1>0, <1>3 DEF CopyEnds, LoadFS, LoadConfig, ConfigsLoaded, Goto, Loads, Serving, IsRun
<1>4. CASE GetConfigMap
  BY <1>0, <1>4 DEF GetConfigMap, Goto, Loads, Serving, IsRun
<1>5. CASE OpenFile
  BY <1>0, <1>5 DEF OpenFile, Goto, Loads, Serving, IsRun
<1>6. CASE LoadCRDs
  BY <1>0, <1>6 DEF LoadCRDs, Goto, Loads, Serving, IsRun
<1>7. CASE LoadCSVs
  BY <1>0, <1>7 DEF LoadCSVs, Goto, Loads, Serving, IsRun
<1>8. CASE AddOperatorBundle
  BY <1>0, <1>8 DEF AddOperatorBundle, Goto, Loads, Serving, IsRun
<1>9. CASE BundlesDone
  BY <1>0, <1>9 DEF BundlesDone, Goto, Loads, Serving, IsRun
<1>10. CASE AddPackage
  BY <1>0, <1>10 DEF AddPackage, Goto, Loads, Serving, IsRun
<1>11. CASE PackagesDone
  BY <1>0, <1>11 DEF PackagesDone, Goto, Loads, Serving, IsRun
<1>12. CASE Populated
  BY <1>0, <1>12 DEF Populated, Goto, Loads, Serving, IsRun
<1>13. CASE OpenOutput
  BY <1>0, <1>13 DEF OpenOutput, Goto, Loads, Serving, IsRun
<1>14. CASE LoadBundle
  BY <1>0, <1>14 DEF LoadBundle, Goto, Loads, Serving, IsRun
<1>15. CASE BundlesLoaded
  BY <1>0, <1>15 DEF BundlesLoaded, Goto, Loads, Serving, IsRun
<1>16. CASE LoadPackage
  BY <1>0, <1>16 DEF LoadPackage, Goto, Loads, Serving, IsRun
<1>17. CASE PackagesLoaded
  BY <1>0, <1>17 DEF PackagesLoaded, Goto, Loads, Serving, IsRun
<1>18. CASE Listen
  BY <1>0, <1>18 DEF Listen, Goto, Loads, Serving, IsRun
<1>19. CASE ArmTimer \/ Shutdown \/ Select \/ Cleanup
  BY <1>19 DEF Serves
<1>20. CASE PopulateFails
  BY <1>20 DEF PopulateFails, Fatal, Gone, Stops, Up, Exits
<1>21. CASE Initialized
  BY <1>21 DEF Initialized, Returns, Gone, Stops, Up, Exits
<1>22. CASE Wait
  BY <1>22 DEF Wait, Returns, Gone, Stops, Up, Exits
<1> QED
  BY <1>1, <1>2, <1>3, <1>4, <1>5, <1>6, <1>7, <1>8, <1>9, <1>10, <1>11, <1>12, <1>13,
     <1>14, <1>15, <1>16, <1>17, <1>18, <1>19, <1>20, <1>21, <1>22
     DEF Main

\* A failure ends the process, but for a failed accept and a signal that is caught.
LEMMA FailsKinds == Fails => AcceptFails \/ Caught \/ \E e \in Exits : Stops(e)
<1> SUFFICES ASSUME Fails PROVE AcceptFails \/ Caught \/ \E e \in Exits : Stops(e)
  OBVIOUS
<1>1. CASE CopyFails
  BY <1>1 DEF CopyFails, Gone, Stops, Up, Exits
<1>2. CASE LoadFails
  BY <1>2 DEF LoadFails, Returns, Gone, Stops, Up, Exits
<1>3. CASE GetFails
  BY <1>3 DEF GetFails, Fatal, Gone, Stops, Up, Exits
<1>4. CASE OpenFails
  BY <1>4 DEF OpenFails, Returns, Gone, Stops, Up, Exits
<1>5. CASE ListenFails
  BY <1>5 DEF ListenFails, Fatal, Gone, Stops, Up, Exits
<1>6. CASE BadTimeout
  BY <1>6 DEF BadTimeout, Returns, Gone, Stops, Up, Exits
<1>7. CASE Kill
  BY <1>7 DEF Kill, Gone, Stops, Up, Exits
<1>8. CASE AcceptFails
  BY <1>8
<1>9. CASE Signal
  BY <1>9 DEF Signal, Gone, Stops, Caught, Serving, Up, Exits
<1>10. CASE QuerierFails
  BY <1>10 DEF QuerierFails, Fatal, Gone, Stops, Up, Exits
<1> QED
  BY <1>1, <1>2, <1>3, <1>4, <1>5, <1>6, <1>7, <1>8, <1>9, <1>10 DEF Fails

\* Every step is of one of the kinds.
LEMMA StepKinds ==
    ASSUME TypeInv, [Next]_serveVars
    PROVE  \/ Start \/ Loads \/ Serves \/ (\E e \in Exits : Stops(e)) \/ Calls
           \/ Publish \/ LoseFile \/ UNCHANGED serveVars
  BY MainKinds, FailsKinds DEF Next, Serves, Calls

\* Each run adds one exit, and takes its copy with it if it returns: every way out of
\* main after the copy is made runs the deferred Remove, unless it is fatal.
LEMMA HistoryStep ==
    ASSUME TypeInv, History, [Next]_serveVars
    PROVE  History'
<1>1. run.id \in Nat /\ exits \in Seq(Exits)
  BY DEF TypeInv, TypeOK, IsRun
<1>2. CASE Start
  <2>1. ~ Up /\ Up' /\ run'.id = run.id + 1 /\ exits' = exits /\ copies' = copies
    BY <1>2 DEF Start, Goto, Up, TypeInv, TypeOK, IsRun
  <2> QED
    BY <1>1, <2>1 DEF History, CopiesRemoved
<1>3. CASE Loads
  BY <1>1, <1>3 DEF Loads, History, CopiesRemoved, Up
<1>4. ASSUME NEW e \in Exits, Stops(e) PROVE History'
  <2>1. Len(exits) = run.id - 1 /\ ~ Up' /\ run' = run /\ exits' = Append(exits, e)
    BY <1>4 DEF Stops, Gone, History, Up
  <2>2. /\ Len(exits') = run.id /\ exits'[run.id] = e
        /\ \A r \in 1 .. run.id - 1 : exits'[r] = exits[r]
    BY <1>1, <2>1, AppendProperties
  <2> QED
    BY <1>1, <1>4, <2>1, <2>2 DEF Stops, History, CopiesRemoved
<1>5. Serves \/ Calls \/ Publish \/ LoseFile \/ UNCHANGED serveVars =>
          (pc = "down" <=> pc' = "down") /\ run'.id = run.id /\ UNCHANGED <<exits, copies>>
  BY DEF Serves, ArmTimer, Shutdown, Select, Cleanup, Caught, AcceptFails, TimerFires,
         TimerStops, ServeCalled, ServeReturns, Calls, Call, Query, Send, Publish, LoseFile,
         serveVars, TypeInv, TypeOK, IsRun
<1>6. CASE Serves \/ Calls \/ Publish \/ LoseFile \/ UNCHANGED serveVars
  BY <1>5, <1>6 DEF History, CopiesRemoved, Up
<1> QED
  BY <1>2, <1>3, <1>4, <1>6, StepKinds

-----------------------------------------------------------------------------
\* Main comes to the end of Shutdown only through GracefulStop, which lets no new
\* call in and has waited for the open ones, whoever called it first.
LEMMA CallsStep ==
    ASSUME TypeInv, History, CallsOK, [Next]_serveVars
    PROVE  CallsOK'
<1>1. /\ run.id \in Nat /\ exits \in Seq(Exits)
      /\ calls \in [Clients -> ClientCall] /\ server \in Server
  BY DEF TypeInv, TypeOK, IsRun
<1>2. CASE Start
  BY <1>1, <1>2 DEF Start, Goto, Up, CallsOK, StopsGracefully, Serving, Open
<1>3. CASE Loads
  BY <1>1, <1>3 DEF Loads, CallsOK, StopsGracefully, Serving, Open
<1>4. ASSUME NEW e \in Exits, Stops(e) PROVE CallsOK'
  <2>1. Len(exits) = run.id - 1 /\ exits' = Append(exits, e)
    BY <1>4 DEF Stops, Gone, History, Up
  <2>2. Len(exits') = run.id /\ exits'[run.id] = e /\ run.id \in 1 .. run.id
    BY <1>1, <2>1, AppendProperties
  <2>3. Open # {} => e = "killed"
    BY <1>4 DEF Stops, CallsOK, Open, Serving
  <2>4. pc' = "down" /\ server'.serve = "idle"
    BY <1>4 DEF Stops, Gone, NewServer
  <2>5. \A c \in Clients :
           \/ calls'[c].state = "none"
           \/ calls'[c].state = "broken" /\ calls'[c].run = run.id /\ Open # {}
    BY <1>4 DEF Stops, Gone, NoCall
  <2> QED
    BY <2>2, <2>3, <2>4, <2>5 DEF CallsOK, StopsGracefully, Serving
<1>5. CASE Serves
  <2>1. CASE ArmTimer \/ Shutdown \/ Select \/ Cleanup
    BY <1>1, <2>1
       DEF ArmTimer, Shutdown, Select, Cleanup, Drained, CallsOK, StopsGracefully, Serving,
       Open, Server
  <2>2. CASE Caught \/ AcceptFails \/ ServeCalled \/ ServeReturns
    BY <1>1, <2>2
       DEF Caught, AcceptFails, ServeCalled, ServeReturns, CallsOK, StopsGracefully,
       Serving, Open, Server
  <2>3. CASE TimerFires \/ TimerStops
    BY <1>1, <2>3
       DEF TimerFires, TimerStops, CallsOK, StopsGracefully, Serving, Open, Server
  <2> QED
    BY <1>5, <2>1, <2>2, <2>3 DEF Serves
<1>6. ASSUME NEW c \in Clients, Call(c) PROVE CallsOK'
  BY <1>1, <1>6 DEF Call, CallsOK, StopsGracefully, Serving, Open, ClientCall
<1>7. ASSUME NEW c \in Clients, Query(c) \/ Send(c) PROVE CallsOK'
  BY <1>1, <1>7 DEF Query, Send, CallsOK, StopsGracefully, Serving, Open, ClientCall
<1>8. CASE Publish \/ LoseFile \/ UNCHANGED serveVars
  BY <1>8 DEF Publish, LoseFile, serveVars, CallsOK, StopsGracefully, Open
<1> QED
  BY <1>2, <1>3, <1>4, <1>5, <1>6, <1>7, <1>8, StepKinds DEF Calls

-----------------------------------------------------------------------------
\* An entry that is still to do is the first one or remains.
LEMMA Split ==
    ASSUME NEW S, NEW s \in Seq(S), s # <<>>, NEW i \in DOMAIN s
    PROVE  s[i] = Head(s) \/ StillIn(s[i], Tail(s))
<1>1. CASE i = 1
  BY <1>1
<1>2. CASE i # 1
  <2>1. i - 1 \in DOMAIN Tail(s) /\ Tail(s)[i - 1] = s[i]
    BY <1>2
  <2> QED
    BY <2>1 DEF StillIn
<1> QED
  BY <1>1, <1>2

\* The elements of a sequence.
LEMMA Element ==
    ASSUME NEW S, NEW s \in Seq(S), NEW i \in DOMAIN s
    PROVE  s[i] \in S
  OBVIOUS

\* Nothing is left of an empty list.
LEMMA NoneLeft == \A e : ~ StillIn(e, <<>>)
  BY DEF StillIn

\* The same for the names in a list.
LEMMA SplitNames ==
    ASSUME NEW S, NEW s \in Seq(S), s # <<>>
    PROVE  NamesIn(s) \subseteq {Head(s).name} \cup NamesIn(Tail(s))
  BY Split DEF NamesIn, StillIn

\* The head and the tail of a list are of the list.
LEMMA Parts ==
    ASSUME NEW S, NEW s \in Seq(S), s # <<>>
    PROVE  /\ StillIn(Head(s), s)
           /\ \A j \in DOMAIN Tail(s) : StillIn(Tail(s)[j], s)
<1>1. 1 \in DOMAIN s /\ s[1] = Head(s)
  OBVIOUS
<1>2. ASSUME NEW j \in DOMAIN Tail(s) PROVE j + 1 \in DOMAIN s /\ s[j + 1] = Tail(s)[j]
  BY <1>2
<1> QED
  BY <1>1, <1>2 DEF StillIn

\* The same for the names in a list.
LEMMA PartNames ==
    ASSUME NEW S, NEW s \in Seq(S), s # <<>>
    PROVE  Head(s).name \in NamesIn(s) /\ NamesIn(Tail(s)) \subseteq NamesIn(s)
  BY Parts DEF NamesIn, StillIn

\* What a catalog has depends on no more than the kind of server and what was read.
LEMMA SameAll ==
    ASSUME kind' = kind, run'.read = run.read, run'.initializer = run.initializer
    PROVE  All(run.read)' = All(run.read)
  BY DEF All

\* What the bundles or packages of a config map add is of the config map.
LEMMA ListBounds ==
    ASSUME TypeInv, Bounded, AddOperatorBundle \/ AddPackage
    PROVE  Bounded'
<1>1. /\ pc \in {"bundles", "packages"} /\ pc' = pc /\ kind' = kind /\ run.todo # <<>>
      /\ run.todo \in Seq(ListedBundle) \/ run.todo \in Seq(ListedPackage)
      /\ file' \subseteq file \cup {Head(run.todo).name}
  BY DEF AddOperatorBundle, AddPackage, Goto, TypeInv, Where
<1>2. PICK errs : run' = [run EXCEPT !.todo = Tail(@), !.errs = errs]
  BY DEF AddOperatorBundle, AddPackage
<1>3. /\ run'.read = run.read /\ run'.initializer = run.initializer /\ run'.left = run.left
      /\ run'.todo = Tail(run.todo)
  BY <1>2 DEF TypeInv, TypeOK, IsRun
<1>4. Head(run.todo).name \in NamesIn(run.todo) /\ NamesIn(Tail(run.todo)) \subseteq NamesIn(run.todo)
  BY <1>1, PartNames
<1>5. All(run.read)' = All(run.read)
  BY <1>1, <1>3, SameAll
<1> QED
  BY <1>1, <1>3, <1>4, <1>5 DEF Bounded, Filling

\* What the walks of the initializer add is of a file that they come to.
LEMMA WalkBounds ==
    ASSUME TypeInv, Bounded, LoadBundle \/ LoadPackage
    PROVE  Bounded'
<1> DEFINE entry == Head(run.todo)
<1>1. /\ pc \in {"walk bundles", "walk packages"} /\ pc' = pc /\ kind' = kind
      /\ run.todo # <<>> /\ run.todo \in Seq(ManifestFile)
      /\ kind = "manifests" /\ run.initializer
  BY ZenonT(60) DEF LoadBundle, LoadPackage, Goto, TypeInv, Where
<1>2. \/ file' = file
      \/ /\ entry.holds \in {"csv", "package"} /\ entry.state = "ok"
         /\ file' = file \cup {entry.name}
  BY ZenonT(60) DEF LoadBundle, LoadPackage
<1>3. PICK errs : run' = [run EXCEPT !.todo = Tail(@), !.errs = errs]
  BY DEF LoadBundle, LoadPackage
<1>4. /\ run'.read = run.read /\ run'.initializer = run.initializer /\ run'.left = run.left
      /\ run'.todo = Tail(run.todo)
  BY <1>3 DEF TypeInv, TypeOK, IsRun
<1>5. All(run.read)' = All(run.read)
  BY <1>1, <1>4, SameAll
<1>6. /\ StillIn(entry, run.todo)
      /\ \A j \in DOMAIN Tail(run.todo) : StillIn(Tail(run.todo)[j], run.todo)
  BY <1>1, Parts
<1>7. \A e : StillIn(e, run.todo) => StillIn(e, run.read)
  BY <1>1 DEF Bounded, StillIn
<1>8. file' \subseteq file \cup All(run.read)
  <2>1. PICK i \in DOMAIN run.read : run.read[i] = entry
    BY <1>6, <1>7 DEF StillIn
  <2>2. ASSUME entry.holds \in {"csv", "package"}, entry.state = "ok"
        PROVE  entry.name \in All(run.read)
    <3>1. i \in Visible(run.read) /\ run.read[i].holds # "other"
      BY <2>1, <2>2 DEF Visible
    <3> QED
      BY <1>1, <2>1, <3>1 DEF All
  <2> HIDE DEF entry
  <2> QED
    BY <1>2, <2>2
<1>9. \A j \in DOMAIN run'.todo : StillIn(run'.todo[j], run'.read)
  BY <1>4, <1>6, <1>7
<1>10. file' \subseteq All(run.read) \cup run.left
  BY <1>1, <1>8 DEF Bounded, Filling
<1> QED
  BY <1>1, <1>4, <1>5, <1>9, <1>10 DEF Bounded

\* The other steps of main add nothing.
LEMMA BoundedStep ==
    ASSUME TypeInv, Bounded, [Next]_serveVars
    PROVE  Bounded'
<1>1. CASE AddOperatorBundle \/ AddPackage
  BY <1>1, ListBounds
<1>2. CASE LoadBundle \/ LoadPackage
  BY <1>2, WalkBounds
<1>3. CASE OpenFile
  <2>1. pc' = "crds" /\ file' = file /\ run'.left = file
    BY <1>3 DEF OpenFile, Goto, TypeInv, TypeOK, IsRun
  <2> QED
    BY <2>1 DEF Bounded
<1>4. CASE OpenOutput
  <2>1. /\ pc' = "walk bundles" /\ file' = file /\ run'.left = file
        /\ run'.read = source /\ run'.todo = source
    BY <1>4 DEF OpenOutput, Goto, TypeInv, TypeOK, IsRun
  <2> QED
    BY <2>1 DEF Bounded, StillIn
<1>5. CASE LoadCRDs \/ LoadCSVs \/ BundlesDone \/ PackagesDone \/ BundlesLoaded \/ PackagesLoaded
  <2>1. /\ pc \in Filling /\ file' = file /\ kind' = kind
        /\ run'.read = run.read /\ run'.initializer = run.initializer /\ run'.left = run.left
    BY <1>5 DEF LoadCRDs, LoadCSVs, BundlesDone, PackagesDone, BundlesLoaded, PackagesLoaded,
                Goto, Filling, TypeInv, TypeOK, IsRun
  <2>2. All(run.read)' = All(run.read)
    BY <2>1, SameAll
  <2>3. CASE pc' = "bundles"
    <3>1. run'.todo = run.read.csvs /\ run.read.csvs # NULL /\ kind = "configmap"
      BY <1>5, <2>3
         DEF LoadCRDs, LoadCSVs, BundlesDone, PackagesDone, BundlesLoaded, PackagesLoaded, Goto,
             TypeInv, TypeOK, Where, IsRun
    <3>2. NamesIn(run'.todo) \subseteq All(run.read)
      BY <3>1 DEF All, Names, NamesIn
    <3> QED
      BY <2>1, <2>2, <2>3, <3>2 DEF Bounded
  <2>4. CASE pc' = "packages"
    <3>1. run'.todo = run.read.packages /\ run.read.packages # NULL /\ kind = "configmap"
      BY <1>5, <2>4
         DEF LoadCRDs, LoadCSVs, BundlesDone, PackagesDone, BundlesLoaded, PackagesLoaded, Goto,
             TypeInv, TypeOK, Where, IsRun
    <3>2. NamesIn(run'.todo) \subseteq All(run.read)
      BY <3>1 DEF All, Names, NamesIn
    <3> QED
      BY <2>1, <2>2, <2>4, <3>2 DEF Bounded
  <2>5. CASE pc' = "walk packages"
    <3>1. run'.todo = run.read
      BY <1>5, <2>5
         DEF LoadCRDs, LoadCSVs, BundlesDone, PackagesDone, BundlesLoaded, PackagesLoaded, Goto,
             TypeInv, TypeOK, IsRun
    <3> QED
      BY <2>1, <2>2, <2>5, <3>1 DEF Bounded, StillIn
  <2>6. CASE pc' \in {"csvs", "populated"}
    BY <2>1, <2>2, <2>6 DEF Bounded
  <2> QED
    BY <1>5, <2>3, <2>4, <2>5, <2>6
       DEF LoadCRDs, LoadCSVs, BundlesDone, PackagesDone, BundlesLoaded, PackagesLoaded, Goto
<1>6. ASSUME pc' \notin Filling PROVE Bounded'
  BY <1>6 DEF Bounded, Filling
<1>7. CASE CopyTmpDB \/ CopyEnds \/ MigrateCopy \/ LoadFS \/ LoadConfig \/ ConfigsLoaded
           \/ GetConfigMap \/ Populated \/ Listen
  BY <1>6, <1>7 DEF CopyTmpDB, CopyEnds, MigrateCopy, LoadFS, LoadConfig, ConfigsLoaded,
                    GetConfigMap, Populated, Listen, Goto, Filling
<1>8. CASE \/ ArmTimer \/ Shutdown \/ Select \/ Cleanup
           \/ PopulateFails \/ Initialized \/ Wait
  BY <1>6, <1>8 DEF ArmTimer, Shutdown, Select, Cleanup, PopulateFails, Initialized, Wait,
                    Fatal, Returns, Gone, Filling
<1>9. CASE Start
  BY <1>6, <1>9 DEF Start, Goto, Filling
<1>10. CASE LoseFile
  BY <1>6, <1>10 DEF LoseFile, Up, Filling
<1>11. ASSUME NEW e \in Exits, Stops(e) PROVE Bounded'
  BY <1>6, <1>11 DEF Stops, Gone, Filling
<1>12. CASE Publish
  <2>1. /\ pc' = pc /\ file' = file /\ kind' = kind /\ run'.todo = run.todo
        /\ run'.read = run.read /\ run'.initializer = run.initializer /\ run'.left = run.left
    BY <1>12 DEF Publish, TypeInv, TypeOK, IsRun
  <2>2. All(run.read)' = All(run.read)
    BY <2>1, SameAll
  <2> QED
    BY <2>1, <2>2 DEF Bounded
<1>13. CASE UNCHANGED <<kind, file, run, pc>>
  <2>1. All(run.read)' = All(run.read)
    BY <1>13, SameAll
  <2> QED
    BY <1>13, <2>1 DEF Bounded
<1>14. Fails => UNCHANGED <<kind, file, run, pc>> \/ \E e \in Exits : Stops(e)
  BY FailsKinds DEF AcceptFails, Caught
<1> QED
  BY <1>1, <1>2, <1>3, <1>4, <1>5, <1>7, <1>8, <1>9, <1>10, <1>11, <1>12, <1>13, <1>14
     DEF Next, Main, TimerFires, TimerStops, ServeCalled, ServeReturns, Call, Query, Send,
        serveVars

-----------------------------------------------------------------------------
\* Publishing notes that the source was written while it was read, and nothing else
\* writes it.
LEMMA UntornStep ==
    ASSUME TypeInv, Untorn, [Next]_serveVars
    PROVE  Untorn'
<1>1. CASE Start
  <2>1. /\ pc' \in {"open", "copy", "load", "get"}
        /\ run'.store = {} /\ run'.seen = {}
    BY <1>1 DEF Start, Goto, TypeInv, TypeOK, IsRun
  <2> QED
    BY <2>1 DEF Untorn
<1>2. CASE CopyTmpDB
  <2>1. pc' = "copying" /\ run'.read = Index /\ Index' = Index
    BY <1>2 DEF CopyTmpDB, Goto, Index, TypeInv, TypeOK, IsRun
  <2> QED
    BY <2>1 DEF Untorn
<1>3. CASE LoadFS
  <2>1. /\ pc' = "read configs" /\ run'.read = source /\ source' = source
        /\ run'.store = {} /\ run'.seen = {}
    BY <1>3 DEF LoadFS, Goto, Untorn, TypeInv, TypeOK, IsRun
  <2> QED
    BY <2>1 DEF Untorn
<1>4. CASE LoadConfig
  <2>1. PICK f \in DOMAIN source :
            run' = [run EXCEPT !.seen = @ \cup {f}, !.store = @ \cup source[f].items]
    BY <1>4 DEF LoadConfig
  <2>2. /\ pc = "read configs" /\ pc' = "read configs" /\ source' = source
        /\ run'.read = run.read /\ run'.torn = run.torn
        /\ run'.seen = run.seen \cup {f} /\ run'.store = run.store \cup source[f].items
    BY <1>4, <2>1 DEF LoadConfig, Goto, TypeInv, TypeOK, IsRun
  <2> QED
    BY <2>2 DEF Untorn
<1>5. ASSUME pc' \notin {"load", "copying", "read configs"} PROVE Untorn'
  BY <1>5 DEF Untorn
<1>6. CASE \/ CopyEnds \/ MigrateCopy \/ ConfigsLoaded \/ GetConfigMap \/ OpenFile \/ LoadCRDs
           \/ LoadCSVs \/ AddOperatorBundle \/ BundlesDone \/ AddPackage \/ PackagesDone
  BY <1>5, <1>6, ZenonT(60) DEF CopyEnds, MigrateCopy, ConfigsLoaded, GetConfigMap, OpenFile, LoadCRDs,
                    LoadCSVs, AddOperatorBundle, BundlesDone, AddPackage, PackagesDone, Goto
<1>7. CASE \/ Populated \/ OpenOutput \/ LoadBundle \/ BundlesLoaded \/ LoadPackage
           \/ PackagesLoaded \/ Listen
  BY <1>5, <1>7, ZenonT(60) DEF Populated, OpenOutput, LoadBundle, BundlesLoaded, LoadPackage,
                    PackagesLoaded, Listen, Goto
<1>8. CASE \/ ArmTimer \/ Shutdown \/ Select \/ Cleanup
           \/ PopulateFails \/ Initialized \/ Wait
  BY <1>5, <1>8 DEF ArmTimer, Shutdown, Select, Cleanup, PopulateFails, Initialized, Wait,
                    Fatal, Returns, Gone
<1>9. CASE LoseFile
  BY <1>5, <1>9 DEF LoseFile, Up
<1>10. ASSUME NEW e \in Exits, Stops(e) PROVE Untorn'
  BY <1>5, <1>10 DEF Stops, Gone
<1>11. CASE Publish
  <2>1. /\ pc' = pc /\ file' = file /\ kind' = kind
        /\ run'.read = run.read /\ run'.store = run.store /\ run'.seen = run.seen
        /\ ~ run'.torn => ~ run.torn /\ ~ Reading
    BY <1>11 DEF Publish, TypeInv, TypeOK, IsRun
  <2>2. pc = "copying" => kind = "file" \/ Index' = Index
    BY <2>1 DEF Index, TypeInv, Where
  <2> QED
    BY <2>1, <2>2 DEF Untorn, Reading
<1>12. CASE UNCHANGED <<kind, source, file, run, pc>>
  BY <1>12 DEF Untorn, Index
<1>13. Fails => UNCHANGED <<kind, source, file, run, pc>> \/ \E e \in Exits : Stops(e)
  BY FailsKinds DEF AcceptFails, Caught
<1> QED
  BY <1>1, <1>2, <1>3, <1>4, <1>6, <1>7, <1>8, <1>9, <1>10, <1>11, <1>12, <1>13
     DEF Next, Main, TimerFires, TimerStops, ServeCalled, ServeReturns, Call, Query, Send,
        serveVars

-----------------------------------------------------------------------------
\* An index that was not written while it was copied is copied as a whole.
LEMMA CopyLoads == TypeInv /\ Untorn /\ CopyEnds => Loaded'
<1> SUFFICES ASSUME TypeInv, Untorn, CopyEnds PROVE Loaded'
  OBVIOUS
<1>1. PICK first \in SUBSET Items :
          run' = [run EXCEPT !.store = (run.read \cap first) \cup (Index \ first)]
  BY DEF CopyEnds
<1>2. /\ pc = "copying" /\ pc' = "migrate" /\ kind' = kind /\ kind \in {"file", "manifests"}
      /\ run'.read = run.read /\ ~ run'.initializer /\ run'.torn = run.torn
      /\ run'.store = (run.read \cap first) \cup (Index \ first)
  BY <1>1 DEF CopyEnds, Goto, TypeInv, TypeOK, Where, IsRun
<1>3. ~ run'.torn => run'.store = run'.read
  BY <1>2 DEF Untorn
<1>4. All(run.read)' = run'.read
  BY <1>2 DEF All
<1> QED
  BY <1>2, <1>3, <1>4 DEF Loaded, Loading, WholeCatalog, Starting, Serving

\* When all files were read, of a directory that was not written meanwhile, all of it
\* is served.
LEMMA ConfigsLoads == TypeInv /\ Untorn /\ ConfigsLoaded => Loaded'
<1> SUFFICES ASSUME TypeInv, Untorn, ConfigsLoaded PROVE Loaded'
  OBVIOUS
<1>1. /\ kind' = kind /\ kind = "configs" /\ pc = "read configs" /\ pc' = "listen"
      /\ run' = run /\ run.seen = Read(run.read)
  BY DEF ConfigsLoaded, Goto, TypeInv, TypeOK, Where
<1>2. ASSUME ~ run.torn
      PROVE  run.store = UNION {run.read[f].items : f \in Read(run.read)}
  <2>1. run.read = source /\ run.store = UNION {source[f].items : f \in run.seen}
    BY <1>1, <1>2 DEF Untorn
  <2>2. run.seen = Read(source)
    BY <1>1, <2>1
  <2> QED
    BY <2>1, <2>2, Zenon
<1>3. All(run.read)' = UNION {run.read[f].items : f \in Read(run.read)}
  BY <1>1 DEF All
<1> QED
  BY <1>1, <1>2, <1>3 DEF Loaded, Loading, WholeCatalog, Starting, Serving

\* Without its CRDs a config map is not loaded, and that is an error.
LEMMA CRDsLoads == TypeInv /\ LoadCRDs => Loaded'
  BY DEF LoadCRDs, Goto, Loaded, Loading, Starting, Serving, TypeInv, TypeOK, IsRun

\* The bundles of the config map are still to do.
LEMMA CSVsLoads == TypeInv /\ LoadCSVs => Loaded'
<1> SUFFICES ASSUME TypeInv, LoadCSVs PROVE Loaded'
  OBVIOUS
<1>1. CASE run.read.csvs = NULL
  BY <1>1 DEF LoadCSVs, Goto, Loaded, Loading, Starting, Serving, TypeInv, TypeOK, IsRun
<1>2. CASE run.read.csvs # NULL
  <2>1. pc' = "bundles" /\ run'.read = run.read /\ run'.todo = run.read.csvs
    BY <1>2 DEF LoadCSVs, Goto, TypeInv, TypeOK, IsRun
  <2> QED
    BY <1>2, <2>1 DEF Loaded, Loading, Starting, Serving
<1> QED
  BY <1>1, <1>2

\* A bundle is added, or an error is noted.
LEMMA BundleLoads == TypeInv /\ Loaded /\ AddOperatorBundle => Loaded'
<1> SUFFICES ASSUME TypeInv, Loaded, AddOperatorBundle PROVE Loaded'
  OBVIOUS
<1> DEFINE csv == Head(run.todo)
<1>1. /\ pc = "bundles" /\ pc' = "bundles"
      /\ run.todo \in Seq(ListedBundle) /\ run.todo # <<>>
  BY DEF AddOperatorBundle, Goto, TypeInv, Where
<1>2. PICK added \in BOOLEAN :
          /\ file' = IF added THEN file \cup {csv.name} ELSE file
          /\ run' = [run EXCEPT !.todo = Tail(@), !.errs = @ \/ ~ added \/ ~ csv.owned]
  BY DEF AddOperatorBundle
<1>3. /\ run'.read = run.read /\ run'.todo = Tail(run.todo)
      /\ ~ run'.errs => ~ run.errs /\ added
  BY <1>2 DEF TypeInv, TypeOK, IsRun
<1>4. NamesIn(run.todo) \subseteq {csv.name} \cup NamesIn(Tail(run.todo))
  BY <1>1, SplitNames
<1>5. ASSUME ~ run'.errs
      PROVE  NamesIn(run'.read.csvs) \subseteq file' \cup NamesIn(run'.todo)
  <2>1. NamesIn(run.read.csvs) \subseteq file \cup NamesIn(run.todo)
    BY <1>1, <1>3, <1>5 DEF Loaded, Loading
  <2>2. file' = file \cup {csv.name}
    BY <1>2, <1>3, <1>5
  <2> HIDE DEF csv
  <2> QED
    BY <1>3, <1>4, <2>1, <2>2
<1> QED
  BY <1>1, <1>3, <1>5 DEF Loaded, Loading, Starting, Serving

\* All bundles were added, or an error was noted.
LEMMA BundlesDoneLoads == TypeInv /\ Loaded /\ BundlesDone => Loaded'
<1> SUFFICES ASSUME TypeInv, Loaded, BundlesDone PROVE Loaded'
  OBVIOUS
<1>1. CASE run.read.packages = NULL
  BY <1>1 DEF BundlesDone, Goto, Loaded, Loading, Starting, Serving, TypeInv, TypeOK, IsRun
<1>2. CASE run.read.packages # NULL
  <2>1. /\ pc = "bundles" /\ pc' = "packages" /\ run'.errs = run.errs
        /\ run'.read = run.read /\ run'.todo = run.read.packages /\ file' = file
    BY <1>2 DEF BundlesDone, Goto, TypeInv, TypeOK, IsRun
  <2>2. NamesIn(run.todo) = {}
    BY DEF BundlesDone, NamesIn
  <2>3. ~ run.errs => Names(run.read.csvs) \subseteq file
    BY <2>1, <2>2 DEF Loaded, Loading, Names, NamesIn
  <2> QED
    BY <1>2, <2>1, <2>3 DEF Loaded, Loading, Starting, Serving
<1> QED
  BY <1>1, <1>2

\* A package is added, or an error is noted.
LEMMA PackageLoads == TypeInv /\ Loaded /\ AddPackage => Loaded'
<1> SUFFICES ASSUME TypeInv, Loaded, AddPackage PROVE Loaded'
  OBVIOUS
<1> DEFINE p == Head(run.todo)
<1>1. /\ pc = "packages" /\ pc' = "packages"
      /\ run.todo \in Seq(ListedPackage) /\ run.todo # <<>>
  BY DEF AddPackage, Goto, TypeInv, Where
<1>2. PICK added \in BOOLEAN :
          /\ file' = IF added THEN file \cup {p.name} ELSE file
          /\ run' = [run EXCEPT !.todo = Tail(@), !.errs = @ \/ ~ added]
  BY DEF AddPackage
<1>3. /\ run'.read = run.read /\ run'.todo = Tail(run.todo)
      /\ ~ run'.errs => ~ run.errs /\ added
  BY <1>2 DEF TypeInv, TypeOK, IsRun
<1>4. NamesIn(run.todo) \subseteq {p.name} \cup NamesIn(Tail(run.todo))
  BY <1>1, SplitNames
<1>5. ASSUME ~ run'.errs
      PROVE  /\ Names(run'.read.csvs) \subseteq file'
             /\ NamesIn(run'.read.packages) \subseteq file' \cup NamesIn(run'.todo)
  <2>1. /\ Names(run.read.csvs) \subseteq file
        /\ NamesIn(run.read.packages) \subseteq file \cup NamesIn(run.todo)
    BY <1>1, <1>3, <1>5 DEF Loaded, Loading
  <2>2. file' = file \cup {p.name}
    BY <1>2, <1>3, <1>5
  <2> HIDE DEF p
  <2> QED
    BY <1>3, <1>4, <2>1, <2>2
<1> QED
  BY <1>1, <1>3, <1>5 DEF Loaded, Loading, Starting, Serving

\* All of the config map was added, or an error was noted.
LEMMA PackagesDoneLoads == TypeInv /\ Loaded /\ PackagesDone => Loaded'
<1> SUFFICES ASSUME TypeInv, Loaded, PackagesDone PROVE Loaded'
  OBVIOUS
<1>1. /\ pc = "packages" /\ pc' = "populated" /\ run' = run /\ file' = file
      /\ kind' = kind /\ kind = "configmap"
  BY DEF PackagesDone, Goto, TypeInv, Where
<1>2. NamesIn(run.todo) = {}
  BY DEF PackagesDone, NamesIn
<1>3. ~ run.errs => All(run.read) \subseteq file
  BY <1>1, <1>2 DEF Loaded, Loading, All, Names, NamesIn
<1>4. All(run.read)' = All(run.read)
  BY <1>1 DEF All
<1> QED
  BY <1>1, <1>3, <1>4 DEF Loaded, Loading, Starting, Serving

\* What is served is all of the config map, or load errors are permitted.
LEMMA PopulatedLoads == TypeInv /\ Bounded /\ Loaded /\ Populated => Loaded'
<1> SUFFICES ASSUME TypeInv, Bounded, Loaded, Populated PROVE Loaded'
  OBVIOUS
<1>1. /\ pc = "populated" /\ pc' = "listen" /\ kind' = kind /\ kind = "configmap"
      /\ run'.read = run.read /\ run'.store = file /\ run'.initializer = run.initializer
      /\ run'.permissive = run.permissive /\ run'.errs = run.errs /\ run'.left = run.left
  BY DEF Populated, Goto, TypeInv, TypeOK, Where, IsRun
<1>2. All(run.read)' = All(run.read)
  BY <1>1 DEF All
<1>3. ~ run.permissive => All(run.read) \subseteq file
  BY <1>1 DEF Populated, Permitted, Loaded, Loading
<1>4. file \subseteq All(run.read) \cup run.left
  BY <1>1 DEF Bounded, Filling
<1> QED
  BY <1>1, <1>2, <1>3, <1>4 DEF Loaded, Loading, WholeCatalog, Starting, Serving

\* All files are still to be walked.
LEMMA OutputLoads == TypeInv /\ OpenOutput => Loaded'
<1> SUFFICES ASSUME TypeInv, OpenOutput PROVE Loaded'
  OBVIOUS
<1>1. pc' = "walk bundles" /\ run'.read = source /\ run'.todo = source
  BY DEF OpenOutput, Goto, TypeInv, TypeOK, IsRun
<1> QED
  BY <1>1 DEF Loaded, Loading, StillIn, Starting, Serving

\* The first walk passes a file it loads, or one that is not for it, or notes an error;
LEMMA WalkBundleLoads == TypeInv /\ Loaded /\ LoadBundle => Loaded'
<1> SUFFICES ASSUME TypeInv, Loaded, LoadBundle PROVE Loaded'
  OBVIOUS
<1> DEFINE entry == Head(run.todo)
<1>1. /\ pc = "walk bundles" /\ pc' = "walk bundles"
      /\ run.todo \in Seq(ManifestFile) /\ run.todo # <<>>
  BY ZenonT(60) DEF LoadBundle, Goto, TypeInv, Where
<1>2. PICK added \in BOOLEAN :
          /\ file' = IF added THEN file \cup {entry.name} ELSE file
          /\ run' = [run EXCEPT !.todo = Tail(@), !.errs =
                \/ @
                \/ entry.state = "unreadable"
                \/ /\ entry.holds = "csv" /\ entry.state = "ok"
                   /\ ~ added \/ ~ entry.owned]
  BY DEF LoadBundle
<1>3. /\ run'.read = run.read /\ run'.todo = Tail(run.todo)
      /\ ~ run'.errs => /\ ~ run.errs /\ entry.state # "unreadable"
                        /\ entry.holds = "csv" /\ entry.state = "ok" => added
  BY <1>2 DEF TypeInv, TypeOK, IsRun
<1>4. ASSUME ~ run'.errs, NEW i \in DOMAIN run'.read
      PROVE  PassedBundles(run'.read[i], file') \/ StillIn(run'.read[i], run'.todo)
  <2>1. PassedBundles(run.read[i], file) \/ StillIn(run.read[i], run.todo)
    BY <1>1, <1>3, <1>4 DEF Loaded, Loading
  <2>2. CASE PassedBundles(run.read[i], file)
    BY <1>2, <1>3, <2>2 DEF PassedBundles
  <2>3. CASE StillIn(run.read[i], run.todo)
    <3>1. PICK j \in DOMAIN run.todo : run.todo[j] = run.read[i]
      BY <2>3 DEF StillIn
    <3>2. run.todo[j] = entry \/ StillIn(run.todo[j], Tail(run.todo))
      BY <1>1, Split
    <3>3. PassedBundles(entry, file')
      BY <1>2, <1>3, <1>4 DEF PassedBundles
    <3> QED
      BY <1>3, <3>1, <3>2, <3>3
  <2> QED
    BY <2>1, <2>2, <2>3
<1> QED
  BY <1>1, <1>3, <1>4 DEF Loaded, Loading, Starting, Serving

\* so it has passed all files when it ends.
LEMMA BundlesLoadedLoads == TypeInv /\ Loaded /\ BundlesLoaded => Loaded'
<1> SUFFICES ASSUME TypeInv, Loaded, BundlesLoaded PROVE Loaded'
  OBVIOUS
<1>1. /\ pc = "walk bundles" /\ pc' = "walk packages" /\ run.todo = <<>> /\ file' = file
      /\ run'.read = run.read /\ run'.todo = run.read /\ run'.errs = run.errs
  BY DEF BundlesLoaded, Goto, TypeInv, TypeOK, IsRun
<1>2. ~ run.errs => \A i \in DOMAIN run.read : PassedBundles(run.read[i], file)
  BY <1>1, NoneLeft DEF Loaded, Loading
<1>3. ASSUME ~ run'.errs, NEW i \in DOMAIN run'.read
      PROVE  PassedBundles(run'.read[i], file') /\ StillIn(run'.read[i], run'.todo)
  BY <1>1, <1>2, <1>3 DEF PassedBundles, StillIn
<1> QED
  BY <1>1, <1>3 DEF Loaded, Loading, Starting, Serving

\* The second walk notes as well the files that are no YAML,
LEMMA WalkPackageLoads == TypeInv /\ Loaded /\ LoadPackage => Loaded'
<1> SUFFICES ASSUME TypeInv, Loaded, LoadPackage PROVE Loaded'
  OBVIOUS
<1> DEFINE entry == Head(run.todo)
           package == entry.holds = "package" /\ entry.state = "ok"
<1>1. /\ pc = "walk packages" /\ pc' = "walk packages"
      /\ run.todo \in Seq(ManifestFile) /\ run.todo # <<>>
  BY DEF LoadPackage, Goto, TypeInv, Where
<1>2. PICK added \in BOOLEAN :
          /\ file' = IF added THEN file \cup {entry.name} ELSE file
          /\ run' = [run EXCEPT !.todo = Tail(@), !.errs =
                @ \/ entry.state \in {"unreadable", "broken"} \/ (package /\ ~ added)]
  BY DEF LoadPackage
<1>3. /\ run'.read = run.read /\ run'.todo = Tail(run.todo)
      /\ ~ run'.errs => /\ ~ run.errs /\ entry.state \notin {"unreadable", "broken"}
                        /\ package => added
  BY <1>2 DEF TypeInv, TypeOK, IsRun
<1>4. ASSUME ~ run'.errs, NEW i \in DOMAIN run'.read
      PROVE  /\ PassedBundles(run'.read[i], file')
             /\ PassedPackages(run'.read[i], file') \/ StillIn(run'.read[i], run'.todo)
  <2>1. /\ PassedBundles(run.read[i], file)
        /\ PassedPackages(run.read[i], file) \/ StillIn(run.read[i], run.todo)
    BY <1>1, <1>3, <1>4 DEF Loaded, Loading
  <2>2. PassedBundles(run.read[i], file')
    BY <1>2, <1>3, <2>1 DEF PassedBundles
  <2>3. CASE PassedPackages(run.read[i], file)
    BY <1>2, <1>3, <2>2, <2>3 DEF PassedPackages
  <2>4. CASE StillIn(run.read[i], run.todo)
    <3>1. PICK j \in DOMAIN run.todo : run.todo[j] = run.read[i]
      BY <2>4 DEF StillIn
    <3>2. run.todo[j] = entry \/ StillIn(run.todo[j], Tail(run.todo))
      BY <1>1, Split
    <3>3. PassedPackages(entry, file')
      BY <1>2, <1>3, <1>4 DEF PassedPackages
    <3> QED
      BY <1>3, <2>2, <3>1, <3>2, <3>3
  <2> QED
    BY <1>3, <2>1, <2>2, <2>3, <2>4
<1> QED
  BY <1>1, <1>3, <1>4 DEF Loaded, Loading, Starting, Serving

\* so that after both of them every file they came to was loaded by one.
LEMMA PackagesLoadedLoads == TypeInv /\ Loaded /\ PackagesLoaded => Loaded'
<1> SUFFICES ASSUME TypeInv, Loaded, PackagesLoaded PROVE Loaded'
  OBVIOUS
<1>1. /\ pc = "walk packages" /\ pc' = "populated" /\ run.todo = <<>>
      /\ run' = run /\ file' = file /\ kind' = kind /\ kind = "manifests" /\ run.initializer
      /\ run.read \in Seq(ManifestFile)
  BY ServeAssumption DEF PackagesLoaded, Goto, TypeInv, Where
<1>2. ASSUME ~ run.errs, NEW i \in DOMAIN run.read,
             run.read[i].holds # "other", i \in Visible(run.read)
      PROVE  run.read[i].name \in file
  <2>1. PassedBundles(run.read[i], file) /\ PassedPackages(run.read[i], file)
    BY <1>1, <1>2, NoneLeft DEF Loaded, Loading
  <2>2. run.read[i] \in ManifestFile
    BY <1>1, <1>2, Element
  <2> QED
    BY <1>2, <2>1, <2>2 DEF PassedBundles, PassedPackages, ManifestFile, Visible
<1>3. ~ run.errs => All(run.read) \subseteq file
  BY <1>1, <1>2 DEF All, Visible
<1>4. All(run.read)' = All(run.read)
  BY <1>1 DEF All
<1> QED
  BY <1>1, <1>3, <1>4 DEF Loaded, Loading, Starting, Serving

\* Main keeps Loaded,
LEMMA MainLoads == TypeInv /\ Bounded /\ Untorn /\ Loaded /\ Main => Loaded'
<1> SUFFICES ASSUME TypeInv, Bounded, Untorn, Loaded, Main PROVE Loaded'
  OBVIOUS
<1>1. CASE CopyEnds \/ ConfigsLoaded
  BY <1>1, CopyLoads, ConfigsLoads
<1>2. CASE LoadCRDs \/ LoadCSVs \/ AddOperatorBundle \/ BundlesDone \/ AddPackage
           \/ PackagesDone \/ Populated
  BY <1>2, CRDsLoads, CSVsLoads, BundleLoads, BundlesDoneLoads, PackageLoads,
     PackagesDoneLoads, PopulatedLoads
<1>3. CASE OpenOutput \/ LoadBundle \/ BundlesLoaded \/ LoadPackage \/ PackagesLoaded
  BY <1>3, OutputLoads, WalkBundleLoads, BundlesLoadedLoads, WalkPackageLoads,
     PackagesLoadedLoads
<1>4. CASE CopyTmpDB \/ LoadFS \/ LoadConfig \/ GetConfigMap \/ OpenFile
  BY <1>4 DEF CopyTmpDB, LoadFS, LoadConfig, GetConfigMap, OpenFile, Goto, Loaded, Loading,
              Starting, Serving
<1>5. CASE MigrateCopy \/ Listen \/ ArmTimer \/ Shutdown \/ Select \/ Cleanup
  <2>1. /\ pc \in {"migrate"} \cup Starting \cup Serving /\ pc' \in Starting \cup Serving
        /\ run' = run /\ kind' = kind
    BY <1>5
       DEF MigrateCopy, Listen, Goto, ArmTimer, Shutdown, Select, Cleanup, Starting, Serving
  <2>2. WholeCatalog(run.store)' = WholeCatalog(run.store)
    BY <2>1, SameAll DEF WholeCatalog
  <2> QED
    BY <2>1, <2>2 DEF Loaded, Loading, Starting, Serving
<1>6. CASE PopulateFails \/ Initialized \/ Wait
  BY <1>6
     DEF PopulateFails, Fatal, Initialized, Wait, Returns, Gone, Loaded, Loading, Starting,
     Serving
<1> QED
  BY <1>1, <1>2, <1>3, <1>4, <1>5, <1>6 DEF Main

\* and so does every other step, since nothing else writes the store.
LEMMA LoadedStep ==
    ASSUME TypeInv, Bounded, Untorn, Loaded, [Next]_serveVars
    PROVE  Loaded'
<1>1. CASE Start
  <2>1. pc' \in {"open", "copy", "load", "get"}
    BY <1>1 DEF Start, Goto
  <2> QED
    BY <2>1 DEF Loaded, Loading, Starting, Serving
<1>2. CASE Main
  BY <1>2, MainLoads
<1>3. ASSUME NEW e \in Exits, Stops(e) PROVE Loaded'
  BY <1>3 DEF Stops, Gone, Loaded, Loading, Starting, Serving
<1>4. CASE LoseFile
  BY <1>4 DEF LoseFile, Up, Loaded, Loading, Starting, Serving
<1>5. CASE UNCHANGED <<kind, file, run, pc>>
  <2>1. All(run.read)' = All(run.read)
    BY <1>5, SameAll
  <2> QED
    BY <1>5, <2>1 DEF Loaded, Loading, WholeCatalog
<1>7. CASE Publish
  <2>1. /\ kind' = kind /\ file' = file /\ pc' = pc
        /\ run'.errs = run.errs /\ run'.read = run.read /\ run'.todo = run.todo
        /\ run'.store = run.store /\ run'.left = run.left /\ run'.permissive = run.permissive
        /\ run'.initializer = run.initializer /\ (~ run'.torn => ~ run.torn)
    BY <1>7 DEF Publish, TypeInv, TypeOK, IsRun
  <2>2. All(run.read)' = All(run.read)
    BY <2>1, SameAll
  <2> QED
    BY <2>1, <2>2 DEF Loaded, Loading, WholeCatalog
<1>6. Fails => UNCHANGED <<kind, file, run, pc>> \/ \E e \in Exits : Stops(e)
  BY FailsKinds DEF AcceptFails, Caught
<1> QED
  BY <1>1, <1>2, <1>3, <1>4, <1>5, <1>6, <1>7
     DEF Next, TimerFires, TimerStops, ServeCalled, ServeReturns, Call, Query, Send,
        serveVars

\* A client is answered while the server serves what it loaded; an initializer ends
\* without error only after both walks.
LEMMA AnswersStep ==
    ASSUME TypeInv, History, CallsOK, Bounded, Loaded, AnswersAreWhole, [Next]_serveVars,
           TypeInv', CallsOK'
    PROVE  AnswersAreWhole'
<1>1. run.id \in Nat /\ exits \in Seq(Exits) /\ calls \in [Clients -> ClientCall]
  BY DEF TypeInv, TypeOK, IsRun
<1>2. ASSUME pc' \notin Serving \cup {"down"} PROVE AnswersAreWhole'
  BY <1>2 DEF CallsOK, AnswersAreWhole, Up
<1>3. CASE Start
  BY <1>2, <1>3 DEF Start, Goto, Serving
<1>4. CASE Loads
  BY <1>2, <1>4 DEF Loads
<1>5. ASSUME NEW e \in Exits, Stops(e) PROVE AnswersAreWhole'
  <2>1. pc' = "down" /\ run' = run /\ kind' = kind /\ file' = file
    BY <1>5 DEF Stops, Gone
  <2>2. \A c \in Clients : calls'[c].state \notin {"queried", "answered"}
    BY <2>1 DEF CallsOK, Serving
  <2>3. All(run.read)' = All(run.read)
    BY <2>1 DEF All
  <2>4. exits'[run.id] = e
    BY <1>1, <1>5, AppendProperties DEF Stops, Gone, History, Up
  <2>5. ASSUME run.initializer, e = "ok" PROVE WholeCatalog(file)
    <3>1. pc = "populated" /\ Permitted
      BY <1>5, <2>5 DEF Stops, TypeInv, Where
    <3> QED
      BY <3>1 DEF Permitted, Loaded, Loading, Bounded, Filling, WholeCatalog
  <2> QED
    BY <2>1, <2>2, <2>3, <2>4, <2>5 DEF AnswersAreWhole, WholeCatalog
<1>6. ASSUME run'.read = run.read, run'.left = run.left, run'.permissive = run.permissive,
             run'.initializer = run.initializer, run'.id = run.id, ~ run'.torn => ~ run.torn,
             kind' = kind, file' = file, exits' = exits, calls' = calls,
             pc' = "down" => pc = "down"
      PROVE  AnswersAreWhole'
  <2>1. All(run.read)' = All(run.read)
    BY <1>6, SameAll
  <2> QED
    BY <1>6, <2>1 DEF AnswersAreWhole, WholeCatalog, Up
<1>7. CASE Serves \/ UNCHANGED serveVars
  BY <1>6, <1>7 DEF Serves, ArmTimer, Shutdown, Select, Cleanup, Caught, AcceptFails,
         TimerFires, TimerStops, ServeCalled, ServeReturns, serveVars
<1>10. CASE Publish
  BY <1>6, <1>10 DEF Publish, TypeInv, TypeOK, IsRun
<1>8. ASSUME NEW c \in Clients, Call(c) \/ Query(c) \/ Send(c) PROVE AnswersAreWhole'
  <2>1. /\ run' = run /\ kind' = kind /\ file' = file /\ exits' = exits /\ pc' = pc
        /\ \A d \in Clients \ {c} : calls'[d] = calls[d]
    BY <1>1, <1>8 DEF Call, Query, Send
  <2>2. All(run.read)' = All(run.read)
    BY <2>1, SameAll
  <2>3. CASE Call(c)
    <3>1. calls'[c].state = "accepted"
      BY <1>1, <2>3 DEF Call
    <3> QED
      BY <2>1, <2>2, <3>1 DEF AnswersAreWhole, WholeCatalog, Up
  <2>4. CASE Query(c)
    <3>1. calls'[c].answer = run.store
      BY <1>1, <2>4 DEF Query, ClientCall
    <3>2. ~ run.torn => WholeCatalog(run.store)
      BY <2>4 DEF Query, CallsOK, Loaded
    <3> QED
      BY <2>1, <2>2, <3>1, <3>2 DEF AnswersAreWhole, WholeCatalog, Up
  <2>5. CASE Send(c)
    <3>1. /\ calls[c].state = "queried" /\ calls'[c].answer = calls[c].answer
          /\ calls'[c].run = calls[c].run
      BY <1>1, <2>5 DEF Send, ClientCall
    <3> QED
      BY <2>1, <2>2, <3>1 DEF AnswersAreWhole, WholeCatalog, Up
  <2> QED
    BY <1>8, <2>3, <2>4, <2>5
<1>9. CASE LoseFile
  <2>1. ~ run'.initializer /\ pc' = "down"
    BY <1>9 DEF LoseFile, Up, TypeInv, TypeOK, IsRun
  <2>2. \A c \in Clients : calls'[c].state \notin {"queried", "answered"}
    BY <2>1 DEF CallsOK, Serving
  <2> QED
    BY <2>1, <2>2 DEF AnswersAreWhole
<1> QED
  BY <1>3, <1>4, <1>5, <1>7, <1>8, <1>9, <1>10, StepKinds DEF Calls

\* The invariant holds initially.
LEMMA InitInv == Init => Inv
<1> SUFFICES ASSUME Init PROVE Inv
  OBVIOUS
<1>1. TypeInv
  BY InitTypes
<1> QED
  BY <1>1 DEF Init, Inv, History, CopiesRemoved, CallsOK, StopsGracefully, Bounded, Untorn,
              Loaded, Loading, Filling, AnswersAreWhole, Up, Open, Starting, Serving, NewServer, NoCall

\* The inductive invariant: types, the history of runs, the state of calls, what the
\* database has at most and what was read of a source that was not written, what a
\* load without error has loaded, and what was answered.
THEOREM ServeInvariant == Spec => []Inv
<1>1. Inv /\ [Next]_serveVars => Inv'
  BY TypeStep, HistoryStep, CallsStep, BoundedStep, UntornStep, LoadedStep, AnswersStep DEF Inv
<1> QED
  BY <1>1, InitInv, PTL DEF Spec

\* Whatever is loaded, published, killed and started again, a client gets an answer
\* from all of what the server has read, if that was not written meanwhile, and from
\* nothing else but what the database had before; and an initializer that exits
\* without error has written all that its walks came to.
THEOREM AnswersWhole == Spec => []AnswersAreWhole
<1>1. Inv => AnswersAreWhole
  BY DEF Inv
<1> QED
  BY <1>1, ServeInvariant, PTL

\* A server that stops by itself, by a signal or by its timeout breaks no call, for
\* any number of clients and restarts.
THEOREM GracefulStops == Spec => []StopsGracefully
<1>1. Inv => StopsGracefully
  BY DEF Inv, CallsOK
<1> QED
  BY <1>1, ServeInvariant, PTL

\* A temporary copy of the index outlives its run only if the run was killed, was
\* fatal or could not finish the copy.
THEOREM CopiesGone == Spec => []CopiesRemoved
<1>1. Inv => CopiesRemoved
  BY DEF Inv, History
<1> QED
  BY <1>1, ServeInvariant, PTL
=============================================================================
