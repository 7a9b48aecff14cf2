----------------------------- MODULE IndexerProofs -----------------------------
(***************************************************************************)
(* Proofs about the commands of Indexer, for every set of bundles,         *)
(* packages and requests, every index to start from and every limit of the *)
(* export.                                                                 *)
(***************************************************************************)
EXTENDS Indexer, TLAPS

\* A leaf that names no prover is tried with SMT and Zenon, then again with
\* more time.
USE SMT, Zenon, SMTT(20), SMTT(30)

Kinds == {"add", "rm", "prune", "prune-stranded", "deprecate", "export"}

Stages ==
    Kinds \cup {"idle", "context", "extract", "extracted", "remove", "strand",
                "check", "deprecating", "pull", "find", "receive", "populate",
                "write", "build", "waiting", "yaml"}

\* Records with these fields, whatever is in them.
IsCmd(c) ==
    c = [stage |-> c.stage, nth |-> c.nth, req |-> c.req, todo |-> c.todo, defers |-> c.defers,
         pulled |-> c.pulled, unpacked |-> c.unpacked, visited |-> c.visited,
         overwrite |-> c.overwrite, packages |-> c.packages, to |-> c.to,
         wait |-> c.wait, errs |-> c.errs, exit |-> c.exit, base |-> c.base]

IsDisk(d) ==
    d = [temp |-> d.temp, db |-> d.db, dockerfile |-> d.dockerfile,
         exported |-> d.exported, yaml |-> d.yaml]

\* The kinds of command that have a stage.
StageOf(c) ==
    LET k == c.req.kind
    IN  /\ c.stage \in Kinds => c.stage = k
        /\ c.stage \in {"pull", "find", "receive", "populate"} => k = "add"
        /\ c.stage = "remove" => k \in {"rm", "prune"}
        /\ c.stage = "strand" => k \in {"rm", "prune-stranded"}
        /\ c.stage \in {"check", "deprecating"} => k = "deprecate"
        /\ c.stage \in {"waiting", "yaml"} => k = "export"
        /\ c.stage \in {"context", "write", "build"} => k # "export"
        /\ c.stage \in {"context", "extract", "extracted", "build"} => ~ c.req.file
        /\ c.stage = "build" => ~ c.req.generate

\* Only some of the stages go on after an error.
ErrsOf(c) ==
    /\ c.errs \in BOOLEAN
    /\ c.errs => c.stage \in {"idle", "remove", "strand", "deprecating", "write",
                              "build", "waiting"}

\* The type invariant. A process that has not started has no temporary file and no
\* goroutine.
TypeInv ==
    /\ IsCmd(cmd) /\ IsDisk(disk)
    /\ image \in Content /\ disk.db \in Content
    /\ go = [b \in DOMAIN go |-> go[b]]
    /\ cmd.stage \in Stages
    /\ ~ At("idle") => cmd.exit = NULL
    /\ IF At("idle") /\ cmd.exit = NULL THEN disk.temp = {} /\ go = NoGo
       ELSE cmd.req \in Requests /\ StageOf(cmd)
    /\ ErrsOf(cmd)

-----------------------------------------------------------------------------
(***************************************************************************)
(* The steps, by the part of the command they belong to                    *)
(***************************************************************************)

Starts(r) ==
    \/ AddToIndex(r) \/ DeleteFromIndex(r) \/ PruneFromIndex(r)
    \/ PruneStrandedFromIndex(r) \/ DeprecateFromIndex(r) \/ ExportFromIndex(r)
    \/ UpdateFile(r)

ContextSteps ==
    \/ Context \/ ContextFails \/ ContextPanics
    \/ Extract \/ Extracted \/ ExtractFails \/ OpenFails

RemoveSteps ==
    \/ DeleteFromRegistry \/ PruneFromRegistry \/ PruneStrandedFromRegistry
    \/ Remove \/ RemoveFails \/ Removed \/ StrandedRemoved \/ StrandFails

DeprecateSteps ==
    \/ DeprecateFromRegistry \/ CheckPaths \/ CheckFails
    \/ Deprecate \/ DeprecateRefused \/ DeprecateFails \/ Deprecated

PullSteps ==
    \/ AddToRegistry \/ PullImage \/ PullFails \/ Pulled
    \/ (\E b \in Bundles : FindNext(b)) \/ (\E b \in Bundles : Receive(b))
    \/ Received \/ Found

BuildSteps == FileUpdated \/ Write \/ WriteFails \/ Build \/ BuildFails

ExportSteps == ExportStart \/ Waited \/ \E S \in SUBSET Pkgs : Yaml(S)

-----------------------------------------------------------------------------
\* The fields of a request that the commands share.
LEMMA RequestFields ==
    ASSUME NEW r \in Requests
    PROVE  /\ r.kind \in Kinds /\ r.file \in BOOLEAN /\ r.permissive \in BOOLEAN
           /\ r.kind \in {"add", "deprecate"} => r.args \in Seq(Bundles)
           /\ r.kind \in {"rm", "prune", "export"} => r.args \in Seq(Pkgs)
           /\ r.kind = "export" => ~ r.file
<1>1. r \in Request
  BY IndexerAssumption
<1>2. CASE r \in AddRequest
  BY ZenonT(30), <1>2 DEF AddRequest, Kinds
<1>3. CASE r \in DeprecateRequest
  BY ZenonT(30), <1>3 DEF DeprecateRequest, Kinds
<1>4. CASE r \in DeleteRequest
  BY ZenonT(30), <1>4 DEF DeleteRequest, Kinds
<1>5. CASE r \in PruneRequest
  BY ZenonT(30), <1>5 DEF PruneRequest, Kinds
<1>6. CASE r \in PruneStrandedRequest
  BY ZenonT(30), <1>6 DEF PruneStrandedRequest, Kinds
<1>7. CASE r \in ExportRequest
  BY ZenonT(30), <1>7 DEF ExportRequest, Kinds
<1>8. CASE r \in RegistryAddRequest
  BY ZenonT(30), <1>8 DEF RegistryAddRequest, Kinds
<1>9. CASE r \in RegistryRmRequest
  BY ZenonT(30), <1>9 DEF RegistryRmRequest, Kinds
<1>10. CASE r \in RegistryPruneRequest
  BY ZenonT(30), <1>10 DEF RegistryPruneRequest, Kinds
<1>11. CASE r \in RegistryPruneStrandedRequest
  BY ZenonT(30), <1>11 DEF RegistryPruneStrandedRequest, Kinds
<1> QED
  BY <1>1, <1>2, <1>3, <1>4, <1>5, <1>6, <1>7, <1>8, <1>9, <1>10, <1>11 DEF Request

\* What a loader call leaves are the contents of a database.
LEMMA ContentLemma ==
    ASSUME NEW c \in Content
    PROVE  /\ \A p : /\ WithoutPackage(c, p) \in Content
                     /\ WithoutPackage(c, p).listed = {b \in c.listed : PkgOf[b] # p}
           /\ /\ WithoutStranded(c) \in Content
              /\ WithoutStranded(c).listed = c.listed
              /\ WithoutStranded(c).stored = c.listed
           /\ \A S : /\ Cleared(c, S) \in Content
                     /\ Cleared(c, S).listed = {b \in c.listed : PkgOf[b] \notin S}
           /\ \A S : S \subseteq Bundles =>
                     /\ WithBundles(c, S) \in Content
                     /\ WithBundles(c, S).listed = c.listed
                     /\ WithBundles(c, S).stored = c.stored \cup S
           /\ \A L : L \subseteq c.stored =>
                     /\ [c EXCEPT !.listed = L] \in Content
                     /\ [c EXCEPT !.listed = L].listed = L
                     /\ [c EXCEPT !.listed = L].stored = c.stored
<1>1. ASSUME NEW p
      PROVE  /\ WithoutPackage(c, p) \in Content
             /\ WithoutPackage(c, p).listed = {b \in c.listed : PkgOf[b] # p}
  BY ZenonT(30) DEF WithoutPackage, Content
<1>2. /\ WithoutStranded(c) \in Content
      /\ WithoutStranded(c).listed = c.listed
      /\ WithoutStranded(c).stored = c.listed
  BY DEF WithoutStranded, Content
<1>3. ASSUME NEW S
      PROVE  /\ Cleared(c, S) \in Content
             /\ Cleared(c, S).listed = {b \in c.listed : PkgOf[b] \notin S}
  BY ZenonT(30) DEF Cleared, Content
<1>4. ASSUME NEW S, S \subseteq Bundles
      PROVE  /\ WithBundles(c, S) \in Content
             /\ WithBundles(c, S).listed = c.listed
             /\ WithBundles(c, S).stored = c.stored \cup S
  BY ZenonT(30), <1>4 DEF WithBundles, Content
<1>5. ASSUME NEW L, L \subseteq c.stored
      PROVE  /\ [c EXCEPT !.listed = L] \in Content
             /\ [c EXCEPT !.listed = L].listed = L
             /\ [c EXCEPT !.listed = L].stored = c.stored
  BY ZenonT(30), <1>5 DEF Content
<1> QED BY ZenonT(30), <1>1, <1>2, <1>3, <1>4, <1>5

\* What is listed of the packages that are not touched stays.
LEMMA RelistedLemma ==
    ASSUME NEW c, NEW P, NEW L \in Relisted(c, P)
    PROVE  /\ L \subseteq c.stored
           /\ \A b \in Bundles : PkgOf[b] \notin P => (b \in L <=> b \in c.listed)
<1>1. L \subseteq c.stored
  BY DEF Relisted
<1>2. ASSUME NEW b \in Bundles, PkgOf[b] \notin P
      PROVE  b \in L <=> b \in c.listed
  <2>1. PkgOf[b] \in Pkgs
    BY IndexerAssumption
  <2>2. {a \in L : PkgOf[a] = PkgOf[b]} = {a \in c.listed : PkgOf[a] = PkgOf[b]}
    BY <2>1, <1>2 DEF Relisted
  <2> QED BY <2>2
<1> QED BY <1>1, <1>2

\* Writing one field of the disk leaves the others.
LEMMA DiskFields ==
    ASSUME NEW d, IsDisk(d), NEW v
    PROVE  /\ LET e == [d EXCEPT !.temp = v]
              IN  /\ IsDisk(e) /\ e.temp = v /\ e.db = d.db
                  /\ e.dockerfile = d.dockerfile /\ e.exported = d.exported
                  /\ e.yaml = d.yaml
           /\ LET e == [d EXCEPT !.db = v]
              IN  /\ IsDisk(e) /\ e.temp = d.temp /\ e.db = v
                  /\ e.dockerfile = d.dockerfile /\ e.exported = d.exported
                  /\ e.yaml = d.yaml
           /\ LET e == [d EXCEPT !.dockerfile = v]
              IN  /\ IsDisk(e) /\ e.temp = d.temp /\ e.db = d.db
                  /\ e.dockerfile = v /\ e.exported = d.exported
                  /\ e.yaml = d.yaml
           /\ LET e == [d EXCEPT !.yaml = v]
              IN  /\ IsDisk(e) /\ e.temp = d.temp /\ e.db = d.db
                  /\ e.dockerfile = d.dockerfile /\ e.exported = d.exported
                  /\ e.yaml = v
BY DEF IsDisk

\* The Dockerfile is written.
LEMMA DockerfileWritten ==
    ASSUME NEW d, IsDisk(d)
    PROVE  \A n : LET e == [d EXCEPT !.dockerfile = n]
                  IN  /\ IsDisk(e) /\ e.temp = d.temp /\ e.db = d.db
                      /\ e.exported = d.exported /\ e.dockerfile = n
BY DEF IsDisk

\* A command that returns, and one that only goes on.
LEMMA ReturnFields ==
    ASSUME IsCmd(cmd), NEW d, IsDisk(d), NEW exit, Return(exit, d)
    PROVE  /\ IsCmd(cmd') /\ cmd' = [cmd EXCEPT !.stage = "idle", !.exit = exit]
           /\ cmd'.stage = "idle" /\ cmd'.exit = exit /\ cmd'.req = cmd.req
           /\ cmd'.errs = cmd.errs /\ cmd'.base = cmd.base /\ cmd'.pulled = cmd.pulled
           /\ cmd'.nth = cmd.nth
           /\ IsDisk(disk') /\ disk'.temp = d.temp \ cmd.defers /\ disk'.db = d.db
           /\ disk'.dockerfile = d.dockerfile /\ disk'.exported = d.exported
           /\ disk'.yaml = d.yaml
BY ZenonT(30) DEF Return, IsCmd, IsDisk

\* Goto changes the stage and leaves every other field of a command alone.
LEMMA GotoFields ==
    ASSUME IsCmd(cmd), NEW stage, Goto(stage)
    PROVE  /\ IsCmd(cmd')
           /\ cmd'.stage = stage /\ cmd'.exit = cmd.exit /\ cmd'.req = cmd.req
           /\ cmd'.errs = cmd.errs /\ cmd'.base = cmd.base /\ cmd'.pulled = cmd.pulled
           /\ cmd'.todo = cmd.todo /\ cmd'.defers = cmd.defers
           /\ cmd'.unpacked = cmd.unpacked /\ cmd'.overwrite = cmd.overwrite
           /\ cmd'.packages = cmd.packages /\ cmd'.to = cmd.to /\ cmd'.wait = cmd.wait
           /\ cmd'.nth = cmd.nth
BY DEF Goto, IsCmd

-----------------------------------------------------------------------------
(***************************************************************************)
(* Types                                                                   *)
(***************************************************************************)

\* A command that is not idle has a request.
LEMMA RunningRequest ==
    ASSUME TypeInv, ~ At("idle")
    PROVE  cmd.req \in Requests /\ StageOf(cmd)
BY DEF TypeInv, At

\* A command that ends keeps the types.
LEMMA EndType ==
    ASSUME TypeInv, ~ At("idle"), NEW exit, exit # NULL,
           cmd' = [cmd EXCEPT !.stage = "idle", !.exit = exit],
           IsDisk(disk'), disk'.db \in Content, image' \in Content,
           go' = [b \in DOMAIN go' |-> go'[b]]
    PROVE  TypeInv'
<1>1. cmd.req \in Requests
  BY RunningRequest
<1>2. /\ IsCmd(cmd') /\ cmd'.stage = "idle" /\ cmd'.exit = exit
      /\ cmd'.req = cmd.req /\ cmd'.errs = cmd.errs
  BY ZenonT(30) DEF TypeInv, IsCmd
<1>3. StageOf(cmd')
  BY <1>2 DEF StageOf, Kinds
<1>4. ErrsOf(cmd')
  BY <1>2 DEF ErrsOf, TypeInv
<1> QED BY <1>1, <1>2, <1>3, <1>4 DEF TypeInv, At, Stages

\* So does one that ends by running its deferred cleanups.
LEMMA ReturnType ==
    ASSUME TypeInv, ~ At("idle"), NEW exit, exit # NULL,
           NEW d, IsDisk(d), d.db \in Content, Return(exit, d),
           image' \in Content,
           go' = [b \in DOMAIN go' |-> go'[b]]
    PROVE  TypeInv'
<1>1. IsCmd(cmd)
  BY DEF TypeInv
<1>2. /\ cmd' = [cmd EXCEPT !.stage = "idle", !.exit = exit]
      /\ IsDisk(disk') /\ disk'.db = d.db
  BY ZenonT(30), <1>1, ReturnFields
<1> QED BY ZenonT(30), <1>2, EndType

\* A command that goes on to another of its stages keeps the types.
LEMMA GoOnType ==
    ASSUME TypeInv, ~ At("idle"), IsCmd(cmd'), cmd'.req = cmd.req,
           cmd'.exit = cmd.exit, cmd'.stage \in Stages \ {"idle"}, StageOf(cmd'),
           ErrsOf(cmd'), IsDisk(disk'), disk'.db \in Content, image' = image,
           go' = [b \in DOMAIN go' |-> go'[b]]
    PROVE  TypeInv'
<1>1. cmd.req \in Requests
  BY RunningRequest
<1> QED BY <1>1 DEF TypeInv, At

\* A call that fails, as every stage but those of an export can.
LEMMA CallFailsType ==
    ASSUME TypeInv, ~ At("idle"), cmd.req.kind # "export",
           NEW d, IsDisk(d), d.db \in Content, CallFails(d), image' = image,
           go' = [b \in DOMAIN go' |-> go'[b]]
    PROVE  TypeInv'
<1>1. CASE cmd.req.permissive
  <2>1. /\ disk' = d /\ IsCmd(cmd') /\ cmd'.req = cmd.req /\ cmd'.exit = cmd.exit
        /\ cmd'.stage = "write" /\ cmd'.errs = TRUE
    BY ZenonT(30), <1>1 DEF CallFails, TypeInv, IsCmd
  <2>2. StageOf(cmd') /\ ErrsOf(cmd')
    BY ZenonT(30), <2>1 DEF StageOf, ErrsOf, Kinds
  <2> QED BY <2>1, <2>2, GoOnType DEF Stages
<1>2. CASE ~ cmd.req.permissive
  <2>1. Return("error", d)
    BY <1>2 DEF CallFails
  <2>2. "error" # NULL /\ image' \in Content
    BY IndexerAssumption DEF TypeInv
  <2> QED BY <1>2, <2>1, <2>2, ReturnType
<1> QED BY <1>1, <1>2

\* A new process.
LEMMA StartType ==
    ASSUME TypeInv, NEW r \in Requests, Starts(r)
    PROVE  TypeInv'
<1>1. r.kind \in Kinds /\ (r.kind = "export" => ~ r.file)
  BY RequestFields
<1>2. /\ IsDisk(disk) /\ image' = image /\ image \in Content /\ go' = go
      /\ go = [b \in DOMAIN go |-> go[b]] /\ disk.db \in Content
  BY DEF TypeInv, Starts, UpdateIndex, AddToIndex, DeleteFromIndex, PruneFromIndex,
         PruneStrandedFromIndex, DeprecateFromIndex, ExportFromIndex, UpdateFile
<1>3. /\ IsCmd(cmd') /\ cmd'.req = r /\ cmd'.exit = NULL /\ cmd'.errs = FALSE
      /\ \/ cmd'.stage = "context" /\ ~ r.file /\ r.kind # "export"
         \/ cmd'.stage = "extract" /\ ~ r.file
         \/ cmd'.stage = r.kind
  BY ZenonT(30), <1>1 DEF Starts, UpdateIndex, AddToIndex, DeleteFromIndex, PruneFromIndex,
         PruneStrandedFromIndex, DeprecateFromIndex, ExportFromIndex, UpdateFile,
         Begin, NoCmd, IsCmd
<1>4. IsDisk(disk') /\ disk'.db \in Content
  BY <1>2 DEF Starts, UpdateIndex, AddToIndex, DeleteFromIndex, PruneFromIndex,
         PruneStrandedFromIndex, DeprecateFromIndex, ExportFromIndex, UpdateFile,
         IsDisk
<1>5. cmd'.stage \in Stages \ {"idle"} /\ ErrsOf(cmd')
  BY ZenonT(30), <1>1, <1>3 DEF Stages, Kinds, ErrsOf
<1>6. StageOf(cmd')
  BY <1>1, <1>3 DEF StageOf, Kinds
<1> QED BY <1>2, <1>3, <1>4, <1>5, <1>6 DEF TypeInv, At

\* The process ends, and the next one starts.
LEMMA NextCommandType ==
    ASSUME TypeInv, NextCommand
    PROVE  TypeInv'
<1>1. /\ image' \in Content /\ IsDisk(disk) /\ disk.db \in Content
      /\ disk' = [disk EXCEPT !.temp = {}] /\ go' = NoGo
      /\ cmd' = [NoCmd EXCEPT !.nth = cmd.nth]
  BY ZenonT(30) DEF NextCommand, TypeInv
<1>2. IsDisk(disk') /\ disk'.db \in Content /\ disk'.temp = {}
  BY <1>1 DEF IsDisk
<1>3. /\ IsCmd(cmd') /\ cmd'.stage = "idle" /\ cmd'.errs = FALSE
      /\ cmd'.exit = NULL
  BY ZenonT(30), <1>1 DEF IsCmd, NoCmd
<1>4. NoGo = [b \in DOMAIN NoGo |-> NoGo[b]] /\ ErrsOf(cmd')
  BY ZenonT(30), <1>3 DEF NoGo, ErrsOf
<1> QED BY <1>1, <1>2, <1>3, <1>4 DEF TypeInv, At, Stages

\* buildContext and ExtractDatabase.
LEMMA ContextType ==
    ASSUME TypeInv, ContextSteps \/ Kill
    PROVE  TypeInv'
<1>1. /\ IsCmd(cmd) /\ IsDisk(disk) /\ image \in Content /\ disk.db \in Content
      /\ go = [b \in DOMAIN go |-> go[b]] /\ ErrsOf(cmd)
  BY DEF TypeInv
<1>2. ~ At("idle") /\ go' = go /\ image' = image
  BY DEF ContextSteps, Context, ContextFails, ContextPanics, Extract, Extracted,
     ExtractFails,
         OpenFails, Kill, At
<1>3. cmd.req \in Requests /\ StageOf(cmd) /\ cmd.req.kind \in Kinds
  BY <1>2, RunningRequest, RequestFields
<1>4. NULL \notin {"error", "panic", "killed"}
  BY IndexerAssumption
<1>5. CASE ContextFails \/ ExtractFails \/ OpenFails
  <2>1. Return("error", disk)
    BY <1>5 DEF ContextFails, ExtractFails, OpenFails
  <2> QED BY <2>1, <1>1, <1>2, <1>4, ReturnType
<1>6. CASE ContextPanics \/ Kill
  <2>1. PICK exit \in {"panic", "killed"} :
           cmd' = [cmd EXCEPT !.stage = "idle", !.exit = exit]
    BY <1>6 DEF ContextPanics, Kill, Die
  <2>2. disk' = disk
    BY <1>6 DEF ContextPanics, Kill
  <2> QED BY ZenonT(30), <2>1, <2>2, <1>1, <1>2, <1>4, EndType
<1>7. CASE Context
  <2>1. /\ IsCmd(cmd') /\ cmd'.req = cmd.req /\ cmd'.exit = cmd.exit
        /\ cmd'.stage = "extract" /\ cmd'.errs = cmd.errs
        /\ IsDisk(disk') /\ disk'.db = disk.db
    BY ZenonT(30), <1>1, <1>7 DEF Context, IsCmd, IsDisk
  <2>2. StageOf(cmd') /\ ErrsOf(cmd')
    BY <2>1, <1>1, <1>3, <1>7 DEF Context, At, StageOf, ErrsOf, Kinds
  <2> QED BY <2>1, <2>2, <1>1, <1>2, GoOnType DEF Stages
<1>8. CASE Extract
  <2>1. /\ IsCmd(cmd') /\ cmd'.req = cmd.req /\ cmd'.exit = cmd.exit
        /\ cmd'.stage = "extracted" /\ cmd'.errs = cmd.errs
        /\ IsDisk(disk') /\ disk'.db = disk.db
    BY ZenonT(30), <1>1, <1>8 DEF Extract, IsCmd, IsDisk
  <2>2. StageOf(cmd') /\ ErrsOf(cmd')
    BY <2>1, <1>1, <1>3, <1>8 DEF Extract, At, StageOf, ErrsOf, Kinds
  <2> QED BY <2>1, <2>2, <1>1, <1>2, GoOnType DEF Stages
<1>9. CASE Extracted
  <2>1. /\ IsCmd(cmd') /\ cmd'.req = cmd.req /\ cmd'.exit = cmd.exit
        /\ cmd'.stage = cmd.req.kind /\ cmd'.errs = cmd.errs
        /\ IsDisk(disk') /\ disk'.db \in {image, Empty}
    BY ZenonT(30), <1>1, <1>9 DEF Extracted, IsCmd, IsDisk
  <2>2. StageOf(cmd') /\ ErrsOf(cmd')
    BY <2>1, <1>1, <1>3, <1>9 DEF Extracted, At, StageOf, ErrsOf, Kinds
  <2>3. Empty \in Content
    BY DEF Empty, Content
  <2> QED BY <2>1, <2>2, <2>3, <1>1, <1>2, <1>3, GoOnType DEF Stages, Kinds
<1> QED BY <1>5, <1>6, <1>7, <1>8, <1>9 DEF ContextSteps

\* The registry calls that remove and deprecate.
LEMMA RemoveType ==
    ASSUME TypeInv, RemoveSteps
    PROVE  TypeInv'
<1>1. /\ IsCmd(cmd) /\ IsDisk(disk) /\ image \in Content /\ disk.db \in Content
      /\ go = [b \in DOMAIN go |-> go[b]] /\ ErrsOf(cmd)
  BY DEF TypeInv
<1>2. ~ At("idle") /\ go' = go /\ image' = image
  BY ZenonT(30)
     DEF RemoveSteps, DeleteFromRegistry, PruneFromRegistry, PruneStrandedFromRegistry,
     Remove,
         RemoveFails, Removed, StrandedRemoved, StrandFails, At
<1>3. cmd.req \in Requests /\ StageOf(cmd) /\ cmd.req.kind \in Kinds
  BY <1>2, RunningRequest, RequestFields
<1>4. NULL \notin {"error", "fatal"}
  BY IndexerAssumption
<1>5. CASE StrandFails
  <2>1. Return("error", disk)
    BY <1>5 DEF StrandFails
  <2> QED BY <2>1, <1>1, <1>2, <1>4, ReturnType
<1>6. CASE DeleteFromRegistry \/ PruneFromRegistry
  <2>1. /\ IsCmd(cmd') /\ cmd'.req = cmd.req /\ cmd'.exit = cmd.exit
        /\ cmd'.stage = "remove" /\ cmd'.errs = cmd.errs /\ disk' = disk
    BY ZenonT(30), <1>1, <1>6 DEF DeleteFromRegistry, PruneFromRegistry, IsCmd
  <2>2. StageOf(cmd') /\ ErrsOf(cmd')
    BY ZenonT(30), <2>1, <1>1, <1>3, <1>6
       DEF DeleteFromRegistry, PruneFromRegistry, At, StageOf, ErrsOf, Kinds
  <2> QED BY <2>1, <2>2, <1>1, <1>2, GoOnType DEF Stages
<1>7. CASE PruneStrandedFromRegistry \/ Removed
  <2>1. PICK st \in {"strand", "write"} :
           Goto(st) /\ (st = "strand" => cmd.req.kind \in {"rm", "prune-stranded"})
    BY <1>3, <1>7 DEF PruneStrandedFromRegistry, Removed, StageOf, At, Kinds
  <2>2. /\ IsCmd(cmd') /\ cmd'.req = cmd.req /\ cmd'.exit = cmd.exit
        /\ cmd'.stage = st /\ cmd'.errs = cmd.errs /\ disk' = disk
    BY <2>1, <1>1, <1>7, GotoFields DEF PruneStrandedFromRegistry, Removed
  <2>3. StageOf(cmd') /\ ErrsOf(cmd')
    BY <2>1, <2>2, <1>1, <1>3, <1>7
       DEF PruneStrandedFromRegistry, Removed, At, StageOf, ErrsOf, Kinds
  <2> QED BY <2>2, <2>3, <1>1, <1>2, GoOnType DEF Stages
<1>8. CASE Remove
  <2> DEFINE c == WithoutStranded(WithoutPackage(disk.db, Head(cmd.todo)))
             s == Tail(cmd.todo)
  <2>1. c \in Content
    BY ZenonT(30), <1>1, ContentLemma
  <2>2. disk' = [disk EXCEPT !.db = c] /\ cmd' = [cmd EXCEPT !.todo = s]
    BY <1>8 DEF Remove
  <2> HIDE DEF c, s
  <2>3. /\ IsCmd(cmd') /\ cmd'.req = cmd.req /\ cmd'.exit = cmd.exit
        /\ cmd'.stage = cmd.stage /\ cmd'.errs = cmd.errs
        /\ IsDisk(disk') /\ disk'.db = c
    BY <2>2, <1>1 DEF IsCmd, IsDisk
  <2>4. StageOf(cmd') /\ ErrsOf(cmd')
    BY <2>3, <1>1, <1>3 DEF StageOf, ErrsOf
  <2> QED BY <2>1, <2>3, <2>4, <1>1, <1>2, GoOnType DEF TypeInv, At
<1>9. CASE RemoveFails
  <2>1. PICK c \in {disk.db, WithoutPackage(disk.db, Head(cmd.todo))} :
           disk' = [disk EXCEPT !.db = c]
    BY <1>9 DEF RemoveFails
  <2>2. c \in Content
    BY <1>1, ContentLemma
  <2>3. IsDisk(disk') /\ disk'.db = c
    BY <2>1, <1>1 DEF IsDisk
  <2>4. CASE cmd.req.permissive
    <3>1. /\ IsCmd(cmd') /\ cmd'.req = cmd.req /\ cmd'.exit = cmd.exit
          /\ cmd'.stage = "remove" /\ cmd.stage = "remove" /\ cmd'.errs = TRUE
      BY ZenonT(30), <2>4, <1>1, <1>9 DEF RemoveFails, IsCmd, At
    <3>2. StageOf(cmd') /\ ErrsOf(cmd')
      BY ZenonT(30), <3>1, <1>3 DEF StageOf, ErrsOf
    <3> QED BY <2>2, <2>3, <3>1, <3>2, <1>1, <1>2, GoOnType DEF Stages
  <2>5. CASE ~ cmd.req.permissive
    BY ZenonT(30), <2>2, <2>3, <2>5, <1>1, <1>2, <1>4, <1>9, EndType DEF RemoveFails, Die
  <2> QED BY <2>4, <2>5
<1>10. CASE StrandedRemoved
  <2> DEFINE c == WithoutStranded(disk.db)
  <2>1. c \in Content
    BY <1>1, ContentLemma
  <2>2. disk' = [disk EXCEPT !.db = c] /\ Goto("write")
    BY <1>10 DEF StrandedRemoved
  <2> HIDE DEF c
  <2>3. /\ IsCmd(cmd') /\ cmd'.req = cmd.req /\ cmd'.exit = cmd.exit
        /\ cmd'.stage = "write" /\ cmd'.errs = cmd.errs
        /\ IsDisk(disk') /\ disk'.db = c
    BY <2>2, <1>1, GotoFields DEF IsDisk
  <2>4. StageOf(cmd') /\ ErrsOf(cmd')
    BY <2>3, <1>1, <1>3, <1>10 DEF StrandedRemoved, At, StageOf, ErrsOf, Kinds
  <2> QED BY <2>1, <2>3, <2>4, <1>1, <1>2, GoOnType DEF Stages
<1> QED BY <1>5, <1>6, <1>7, <1>8, <1>9, <1>10 DEF RemoveSteps

\* The steps of DeprecateFromRegistry keep the types.
LEMMA DeprecateType ==
    ASSUME TypeInv, DeprecateSteps
    PROVE  TypeInv'
<1>1. /\ IsCmd(cmd) /\ IsDisk(disk) /\ image \in Content /\ disk.db \in Content
      /\ go = [b \in DOMAIN go |-> go[b]] /\ ErrsOf(cmd)
  BY DEF TypeInv
<1>2. ~ At("idle") /\ go' = go /\ image' = image
  BY ZenonT(30)
     DEF DeprecateSteps, DeprecateFromRegistry, CheckPaths, CheckFails, Deprecate,
     DeprecateRefused,
         DeprecateFails, Deprecated, At
<1>3. cmd.req \in Requests /\ StageOf(cmd) /\ cmd.req.kind \in Kinds
  BY <1>2, RunningRequest, RequestFields
<1>4. "error" # NULL
  BY IndexerAssumption
<1>5. ASSUME Return("error", disk) PROVE TypeInv'
  BY <1>1, <1>2, <1>4, <1>5, ReturnType
<1>6. ASSUME CallFails(disk), cmd.stage = "deprecating" PROVE TypeInv'
  <2>1. cmd.req.kind # "export"
    BY <1>3, <1>6 DEF StageOf
  <2> QED BY <2>1, <1>1, <1>2, <1>6, CallFailsType
<1>7. ASSUME cmd'.stage \in {"check", "deprecating", "write"},
             cmd.req.kind = "deprecate", IsCmd(cmd'), cmd'.req = cmd.req,
             cmd'.exit = cmd.exit, ErrsOf(cmd'), IsDisk(disk'), disk'.db \in Content
      PROVE  TypeInv'
  <2>1. StageOf(cmd')
    BY <1>7 DEF StageOf, Kinds
  <2> QED BY <2>1, <1>1, <1>2, <1>7, GoOnType DEF Stages
<1>8. cmd.stage \in {"deprecate", "check", "deprecating"}
  BY ZenonT(30)
     DEF DeprecateSteps, DeprecateFromRegistry, CheckPaths, CheckFails, Deprecate,
     DeprecateRefused,
         DeprecateFails, Deprecated, At
<1>9. cmd.req.kind = "deprecate"
  BY <1>3, <1>8 DEF StageOf, Kinds
<1>10. CASE DeprecateFromRegistry
  <2>1. Goto("check") /\ disk' = disk /\ cmd.stage = "deprecate"
    BY <1>10 DEF DeprecateFromRegistry, At
  <2>2. ErrsOf(cmd') /\ cmd'.stage = "check"
    BY <2>1, <1>1, GotoFields DEF ErrsOf
  <2> QED BY <2>1, <2>2, <1>1, <1>7, <1>9, GotoFields
<1>11. CASE CheckPaths
  <2>1. CASE Return("error", disk)
    BY <2>1, <1>5
  <2>2. CASE \E s, e : /\ e \in BOOLEAN /\ disk' = disk
                       /\ cmd' = [cmd EXCEPT !.stage = "deprecating", !.todo = s,
                                             !.errs = e]
    BY ZenonT(30), <2>2, <1>1, <1>7, <1>9 DEF IsCmd, ErrsOf
  <2> QED BY ZenonT(30), <1>11, <2>1, <2>2 DEF CheckPaths
<1>12. CASE CheckFails
  <2>1. CASE Return("error", disk)
    BY <2>1, <1>5
  <2>2. CASE /\ disk' = disk
             /\ cmd' = [cmd EXCEPT !.stage = "deprecating", !.todo = cmd.req.args,
                                   !.errs = TRUE]
    BY ZenonT(30), <2>2, <1>1, <1>7, <1>9 DEF IsCmd, ErrsOf
  <2> QED BY <1>12, <2>1, <2>2 DEF CheckFails
<1>13. CASE Deprecate
  <2> DEFINE s == Tail(cmd.todo)
             b == Head(cmd.todo)
  <2>1. cmd' = [cmd EXCEPT !.todo = s] /\ cmd.stage = "deprecating"
    BY ZenonT(30), <1>13 DEF Deprecate, At
  <2>2. IsDisk(disk') /\ disk'.db \in Content
    <3>1. CASE disk' = disk
      BY <3>1, <1>1
    <3>2. CASE \E tail, own :
                 /\ b \in disk.db.stored
                 /\ disk' = [disk EXCEPT !.db.stored = @ \ tail,
                                         !.db.listed = @ \ (tail \cup own),
                                         !.db.deprecated = @ \cup {b}]
      <4>1. PICK tail, own :
                 /\ b \in disk.db.stored
                 /\ disk' = [disk EXCEPT !.db.stored = @ \ tail,
                                         !.db.listed = @ \ (tail \cup own),
                                         !.db.deprecated = @ \cup {b}]
        BY ZenonT(30), <3>2
      <4> QED BY ZenonT(30), <4>1, <1>1 DEF IsDisk, Content
    <3> QED BY ZenonT(30), <1>13, <3>1, <3>2 DEF Deprecate
  <2> HIDE DEF s
  <2> QED BY <2>1, <2>2, <1>1, <1>7, <1>9 DEF IsCmd, ErrsOf
<1>14. CASE DeprecateRefused
  BY ZenonT(30), <1>1, <1>7, <1>9, <1>14 DEF DeprecateRefused, At, IsCmd, ErrsOf
<1>15. CASE DeprecateFails
  BY <1>6, <1>15 DEF DeprecateFails, At
<1>16. CASE Deprecated
  <2>1. CASE cmd.errs
    BY <2>1, <1>6, <1>16 DEF Deprecated, At
  <2>2. CASE ~ cmd.errs
    <3>1. Goto("write") /\ disk' = disk
      BY <2>2, <1>16 DEF Deprecated
    <3>2. ErrsOf(cmd') /\ cmd'.stage = "write"
      BY <3>1, <1>1, GotoFields DEF ErrsOf
    <3> QED BY <3>1, <3>2, <1>1, <1>7, <1>9, GotoFields
  <2> QED BY <2>1, <2>2
<1> QED BY <1>10, <1>11, <1>12, <1>13, <1>14, <1>15, <1>16 DEF DeprecateSteps

\* AddToRegistry.
LEMMA AddType ==
    ASSUME TypeInv, PullSteps
    PROVE  TypeInv'
<1>1. /\ IsCmd(cmd) /\ IsDisk(disk) /\ image \in Content /\ disk.db \in Content
      /\ go = [b \in DOMAIN go |-> go[b]] /\ ErrsOf(cmd)
  BY DEF TypeInv
<1>2. cmd.stage \in {"add", "pull", "find", "receive"} /\ image' = image
  BY ZenonT(30)
     DEF PullSteps, AddToRegistry, PullImage, PullFails, Pulled, FindNext, Receive,
     Received,
         Found, At
<1>3. ~ At("idle")
  BY <1>2 DEF At
<1>4. cmd.req.kind = "add" /\ ~ cmd.errs
  BY <1>1, <1>2, <1>3, RunningRequest DEF StageOf, Kinds, ErrsOf
<1>5. ASSUME cmd'.stage \in {"pull", "find", "receive", "populate"}, IsCmd(cmd'),
             cmd'.req = cmd.req, cmd'.exit = cmd.exit, cmd'.errs = cmd.errs,
             IsDisk(disk'), disk'.db = disk.db, go' = [b \in DOMAIN go' |-> go'[b]]
      PROVE  TypeInv'
  <2>1. StageOf(cmd') /\ ErrsOf(cmd')
    BY <1>1, <1>4, <1>5 DEF StageOf, ErrsOf, Kinds
  <2> QED BY <2>1, <1>1, <1>2, <1>3, <1>5, GoOnType DEF Stages
<1>6. ASSUME NEW d, IsDisk(d), d.db = disk.db, PopulateReturns(d, TRUE),
             go' = [b \in DOMAIN go' |-> go'[b]]
      PROVE  TypeInv'
  <2> DEFINE e == [d EXCEPT !.temp = @ \ cmd.pulled]
  <2>1. CallFails(e) /\ IsDisk(e) /\ e.db = disk.db
    BY <1>6 DEF PopulateReturns, IsDisk
  <2> HIDE DEF e
  <2> QED BY <2>1, <1>1, <1>2, <1>3, <1>4, <1>6, CallFailsType
<1>7. CASE AddToRegistry
  BY ZenonT(30), <1>1, <1>5, <1>7 DEF AddToRegistry, IsCmd
<1>8. CASE PullImage
  <2> DEFINE b == Head(cmd.todo)
  <2>1. /\ disk' = [disk EXCEPT !.temp = @ \cup {BundleTmp(b)}]
        /\ cmd' = [cmd EXCEPT !.todo = Tail(@), !.unpacked = @ \cup {b},
                              !.pulled = @ \cup {BundleTmp(b)}]
        /\ go' = go /\ cmd.stage = "pull"
    BY <1>8 DEF PullImage, At
  <2> HIDE DEF b
  <2> QED BY ZenonT(30), <1>1, <1>5, <2>1 DEF IsCmd, IsDisk
<1>9. CASE PullFails
  <2> DEFINE d == [disk EXCEPT !.temp = @ \cup {BundleTmp(Head(cmd.todo))}]
  <2>1. IsDisk(d) /\ d.db = disk.db
    BY <1>1 DEF IsDisk
  <2>2. PopulateReturns(d, TRUE) /\ go' = go
    BY ZenonT(30), <1>9 DEF PullFails
  <2> HIDE DEF d
  <2> QED BY ZenonT(30), <1>1, <1>6, <2>1, <2>2
<1>10. CASE Pulled \/ Received \/ Found
  <2>1. PICK st \in {"find", "populate"} : Goto(st)
    BY <1>10 DEF Pulled, Received, Found
  <2>2. disk' = disk /\ go' = go
    BY <1>10 DEF Pulled, Received, Found
  <2> QED BY <2>1, <2>2, <1>1, <1>5, GotoFields
<1>11. ASSUME NEW b \in Bundles, FindNext(b) PROVE TypeInv'
  <2> DEFINE bundles == Listed(PkgOf[b])
             seen == [cmd EXCEPT !.visited = @ \cup {b}]
  <2>1. CASE cmd' = seen /\ disk' = disk /\ go' = go
    BY <2>1, <1>1, <1>5, <1>11 DEF FindNext, At, IsCmd
  <2>2. CASE PopulateReturns(disk, TRUE) /\ go' = go
    BY ZenonT(30), <2>2, <1>1, <1>6
  <2>3. CASE /\ go' = [a \in bundles |-> "run"] /\ disk' = disk
             /\ cmd' = [seen EXCEPT !.stage = "receive", !.to = b,
                                    !.packages = @ \cup {PkgOf[b]},
                                    !.wait = Cardinality(bundles)]
    <3> HIDE DEF bundles
    <3>1. go' = [a \in DOMAIN go' |-> go'[a]]
      BY <2>3
    <3>2. /\ IsCmd(cmd') /\ cmd'.req = cmd.req /\ cmd'.exit = cmd.exit
          /\ cmd'.errs = cmd.errs /\ cmd'.stage = "receive"
      BY ZenonT(30), <2>3, <1>1 DEF IsCmd
    <3> QED BY <2>3, <3>1, <3>2, <1>1, <1>5
  <2> QED BY ZenonT(30), <1>11, <2>1, <2>2, <2>3 DEF FindNext
<1>12. ASSUME NEW b \in Bundles, Receive(b) PROVE TypeInv'
  <2>1. go' = [a \in DOMAIN go' |-> go'[a]]
    BY <1>12 DEF Receive
  <2>2. CASE PopulateReturns(disk, TRUE)
    BY ZenonT(30), <2>1, <2>2, <1>1, <1>6
  <2>3. CASE /\ disk' = disk
             /\ cmd' = [cmd EXCEPT
                  !.overwrite = @ \cup {b},
                  !.unpacked = @ \ {b},
                  !.pulled = @ \cup (IF b = cmd.to THEN {} ELSE {BundleTmp(b)}),
                  !.wait = @ - 1]
    BY ZenonT(30), <2>1, <2>3, <1>1, <1>5, <1>12 DEF Receive, At, IsCmd
  <2> QED BY ZenonT(30), <1>12, <2>2, <2>3 DEF Receive
<1> QED BY <1>7, <1>8, <1>9, <1>10, <1>11, <1>12 DEF PullSteps

\* The images that populate holds are images of bundles.
ImagesOf(c) == c.unpacked \cup c.overwrite \subseteq Bundles

\* Populate keeps the types, whether it succeeds or not.
LEMMA PopulateType ==
    ASSUME TypeInv, ImagesOf(cmd), Populate \/ PopulateFails
    PROVE  TypeInv'
<1>1. /\ IsCmd(cmd) /\ IsDisk(disk) /\ disk.db \in Content
      /\ go = [b \in DOMAIN go |-> go[b]]
  BY DEF TypeInv
<1>2. cmd.stage = "populate" /\ image' = image /\ go' = go
  BY ZenonT(30) DEF Populate, PopulateFails, At
<1>3. ~ At("idle") /\ cmd.req.kind = "add" /\ ~ cmd.errs /\ ErrsOf(cmd)
  BY <1>2, RunningRequest DEF At, StageOf, TypeInv, ErrsOf
<1>4. ToAdd \subseteq Bundles
  BY DEF ImagesOf, ToAdd
<1>5. CASE Populate
  <2>1. PICK c : c \in Content /\ PopulateReturns([disk EXCEPT !.db = c], FALSE)
    <3> DEFINE f == WithBundles(Cleared(disk.db, Replaced), ToAdd)
    <3>1. PICK L \in Relisted(f, PkgsOf(ToAdd)) :
             PopulateReturns([disk EXCEPT !.db = [f EXCEPT !.listed = L]], FALSE)
      BY ZenonT(30), <1>5 DEF Populate
    <3>2. f \in Content
      BY ZenonT(30), <1>1, <1>4, ContentLemma
    <3> HIDE DEF f
    <3>3. [f EXCEPT !.listed = L] \in Content
      BY ZenonT(30), <3>2, RelistedLemma, ContentLemma
    <3> QED BY ZenonT(30), <3>1, <3>3
  <2> DEFINE d == [disk EXCEPT !.db = c]
             e == [d EXCEPT !.temp = d.temp \ cmd.pulled]
  <2>2. disk' = e /\ Goto("write")
    BY <2>1 DEF PopulateReturns
  <2>3. IsDisk(e) /\ e.db = c
    <3>1. IsDisk(d) /\ d.db = c
      BY <1>1 DEF IsDisk
    <3> HIDE DEF d
    <3> QED BY <3>1 DEF IsDisk
  <2> HIDE DEF e
  <2>4. /\ IsCmd(cmd') /\ cmd'.req = cmd.req /\ cmd'.exit = cmd.exit
        /\ cmd'.stage = "write" /\ cmd'.errs = cmd.errs
    BY <2>2, <1>1, GotoFields
  <2>5. StageOf(cmd') /\ ErrsOf(cmd')
    BY <2>4, <1>3 DEF StageOf, ErrsOf, Kinds
  <2> QED BY <2>1, <2>2, <2>3, <2>4, <2>5, <1>1, <1>2, <1>3, GoOnType DEF Stages
<1>6. CASE PopulateFails
  <2>1. PICK gone \in SUBSET Replaced, S \in SUBSET ToAdd :
           \E L \in Relisted(WithBundles(Cleared(disk.db, gone), S), PkgsOf(S)) :
              PopulateReturns(
                 [disk EXCEPT !.db = [WithBundles(Cleared(disk.db, gone), S)
                                        EXCEPT !.listed = L]], TRUE)
    BY ZenonT(30), <1>6 DEF PopulateFails
  <2>2. PICK c : c \in Content /\ PopulateReturns([disk EXCEPT !.db = c], TRUE)
    <3> DEFINE f == WithBundles(Cleared(disk.db, gone), S)
    <3>1. PICK L \in Relisted(f, PkgsOf(S)) :
             PopulateReturns([disk EXCEPT !.db = [f EXCEPT !.listed = L]], TRUE)
      BY ZenonT(30), <2>1
    <3>2. f \in Content
      BY ZenonT(30), <1>1, <1>4, ContentLemma
    <3> HIDE DEF f
    <3>3. [f EXCEPT !.listed = L] \in Content
      BY ZenonT(30), <3>2, RelistedLemma, ContentLemma
    <3> QED BY ZenonT(30), <3>1, <3>3
  <2> DEFINE d == [disk EXCEPT !.db = c]
             e == [d EXCEPT !.temp = d.temp \ cmd.pulled]
  <2>3. CallFails(e)
    BY <2>2 DEF PopulateReturns
  <2>4. IsDisk(e) /\ e.db = c
    <3>1. IsDisk(d) /\ d.db = c
      BY <1>1 DEF IsDisk
    <3> HIDE DEF d
    <3> QED BY <3>1 DEF IsDisk
  <2> HIDE DEF e
  <2> QED BY <2>2, <2>3, <2>4, <1>1, <1>2, <1>3, CallFailsType
<1> QED BY <1>5, <1>6

\* The Dockerfile and the build.
LEMMA BuildType ==
    ASSUME TypeInv, BuildSteps
    PROVE  TypeInv'
<1>1. /\ IsCmd(cmd) /\ IsDisk(disk) /\ image \in Content /\ disk.db \in Content
      /\ go = [b \in DOMAIN go |-> go[b]] /\ ErrsOf(cmd)
  BY DEF TypeInv
<1>2. /\ cmd.stage \in {"write", "build"} /\ go' = go
      /\ image' = image \/ image' = disk.db
  BY DEF BuildSteps, FileUpdated, Write, WriteFails, Build, BuildFails, At
<1>3. ~ At("idle") /\ cmd.req.kind # "export"
  BY <1>2, RunningRequest DEF At, StageOf
<1>4. NULL \notin {"ok", "error"}
  BY IndexerAssumption
<1>5. ASSUME NEW exit \in {"ok", "error"}, NEW d, IsDisk(d), d.db = disk.db,
             Return(exit, d)
      PROVE  TypeInv'
  BY <1>1, <1>2, <1>3, <1>4, <1>5, ReturnType
<1>6. CASE FileUpdated \/ WriteFails \/ Build \/ BuildFails
  BY <1>1, <1>5, <1>6 DEF FileUpdated, WriteFails, Build, BuildFails
<1>7. CASE Write
  <2> DEFINE d == [disk EXCEPT !.dockerfile = cmd.nth]
  <2>1. IsDisk(d) /\ d.db = disk.db
    BY Zenon, <1>1, DockerfileWritten
  <2>2. ~ cmd.req.file /\ image' = image
    BY <1>7 DEF Write
  <2>3. CASE cmd.req.generate
    <3>1. Return("ok", d)
      BY <2>3, <1>7 DEF Write
    <3> QED BY ZenonT(30), <2>1, <3>1, <1>5
  <2>4. CASE ~ cmd.req.generate
    <3>1. disk' = d /\ Goto("build")
      BY <2>4, <1>7 DEF Write
    <3>2. /\ IsCmd(cmd') /\ cmd'.req = cmd.req /\ cmd'.exit = cmd.exit
          /\ cmd'.stage = "build" /\ cmd'.errs = cmd.errs
      BY <3>1, <1>1, GotoFields
    <3>3. StageOf(cmd') /\ ErrsOf(cmd')
      BY <3>2, <2>2, <2>4, <1>1, <1>3 DEF StageOf, ErrsOf, Kinds
    <3> QED BY <2>1, <2>2, <3>1, <3>2, <3>3, <1>1, <1>2, <1>3, GoOnType DEF Stages
  <2> QED BY <2>3, <2>4
<1> QED BY <1>6, <1>7 DEF BuildSteps

\* The export.
LEMMA ExportType ==
    ASSUME TypeInv, ExportSteps
    PROVE  TypeInv'
<1>1. /\ IsCmd(cmd) /\ IsDisk(disk) /\ image \in Content /\ disk.db \in Content
      /\ go = [b \in DOMAIN go |-> go[b]] /\ ErrsOf(cmd)
  BY DEF TypeInv
<1>2. cmd.stage \in {"export", "waiting", "yaml"} /\ image' = image
  BY ZenonT(30) DEF ExportSteps, ExportStart, Waited, Yaml, At
<1>3. ~ At("idle") /\ cmd.req.kind = "export" /\ NULL \notin {"ok", "error"}
  BY <1>2, RunningRequest, IndexerAssumption DEF At, StageOf, Kinds
<1>4. ASSUME NEW st \in {"waiting", "yaml"}, Goto(st), disk' = disk,
             go' = [b \in DOMAIN go' |-> go'[b]], ~ cmd.errs
      PROVE  TypeInv'
  <2>1. /\ IsCmd(cmd') /\ cmd'.req = cmd.req /\ cmd'.exit = cmd.exit
        /\ cmd'.stage = st /\ cmd'.errs = cmd.errs
    BY <1>1, <1>4, GotoFields
  <2>2. StageOf(cmd') /\ ErrsOf(cmd')
    BY <2>1, <1>1, <1>3, <1>4 DEF StageOf, ErrsOf, Kinds
  <2> QED BY <2>1, <2>2, <1>1, <1>2, <1>3, <1>4, GoOnType DEF Stages
<1>5. CASE ExportStart
  <2>1. Goto("waiting") /\ disk' = disk /\ ~ cmd.errs
    BY <1>1, <1>5 DEF ExportStart, ErrsOf, At
  <2>2. go' = [b \in DOMAIN go' |-> go'[b]]
    <3> DEFINE K == {IF b \in Imageless THEN NULL ELSE b : b \in ToExport}
    <3>1. go' = [k \in K |-> "new"]
      BY <1>5 DEF ExportStart
    <3> HIDE DEF K
    <3> QED BY <3>1
  <2> QED BY <2>1, <2>2, <1>4
<1>6. CASE Waited
  <2>1. CASE cmd.errs
    BY <2>1, <1>1, <1>2, <1>3, <1>6, ReturnType DEF Waited
  <2>2. CASE ~ cmd.errs
    BY <2>2, <1>1, <1>4, <1>6 DEF Waited
  <2> QED BY <2>1, <2>2
<1>7. ASSUME NEW S \in SUBSET Pkgs, Yaml(S) PROVE TypeInv'
  <2> DEFINE d == [disk EXCEPT !.yaml = @ \cup (S \X {cmd.nth})]
  <2>1. IsDisk(d) /\ d.db = disk.db
    BY <1>1 DEF IsDisk
  <2>2. PICK exit \in {"ok", "error"} : Return(exit, d)
    BY <1>7 DEF Yaml
  <2>3. go' = go
    BY <1>7 DEF Yaml
  <2> HIDE DEF d
  <2> QED BY <2>1, <2>2, <2>3, <1>1, <1>2, <1>3, ReturnType
<1> QED BY <1>5, <1>6, <1>7 DEF ExportSteps

\* The goroutines.
LEMMA GoType ==
    ASSUME TypeInv, NEW b, GoStep(b)
    PROVE  TypeInv'
<1>1. /\ IsCmd(cmd) /\ IsDisk(disk) /\ image \in Content /\ disk.db \in Content
      /\ go = [a \in DOMAIN go |-> go[a]] /\ ErrsOf(cmd)
  BY DEF TypeInv
<1>2. ~ At("idle") /\ image' = image
  BY ZenonT(30) DEF GoStep, Unpack, Acquire, Exported, ExportFails, At
<1>3. go' = [a \in DOMAIN go' |-> go'[a]]
  BY ZenonT(30), <1>1 DEF GoStep, Unpack, Acquire, Exported, ExportFails
<1>4. IsDisk(disk') /\ disk'.db = disk.db
  <2>1. CASE Unpack(b)
    BY <2>1, <1>1 DEF Unpack, IsDisk
  <2>2. CASE Acquire(b)
    BY <2>2, <1>1 DEF Acquire, IsDisk
  <2>3. CASE Exported(b)
    BY ZenonT(30), <2>3, <1>1 DEF Exported, IsDisk
  <2>4. CASE ExportFails(b)
    BY <2>4, <1>1 DEF ExportFails, IsDisk
  <2> QED BY <2>1, <2>2, <2>3, <2>4 DEF GoStep
<1>5. /\ IsCmd(cmd') /\ cmd'.req = cmd.req /\ cmd'.exit = cmd.exit
      /\ cmd'.stage = cmd.stage
      /\ cmd'.errs = cmd.errs \/ (cmd'.errs = TRUE /\ cmd.stage = "waiting")
  BY ZenonT(30), <1>1 DEF GoStep, Unpack, Acquire, Exported, ExportFails, IsCmd, At
<1>6. StageOf(cmd') /\ ErrsOf(cmd')
  BY ZenonT(30), <1>1, <1>2, <1>5, RunningRequest DEF StageOf, ErrsOf
<1> QED BY <1>1, <1>2, <1>3, <1>4, <1>5, <1>6, GoOnType DEF TypeInv, At

\* What a process starts with.
LEMMA StartFields ==
    ASSUME TypeInv, NEW r \in Requests, Starts(r)
    PROVE  /\ cmd'.req = r /\ cmd'.errs = FALSE /\ cmd'.exit = NULL
           /\ cmd'.overwrite = {} /\ cmd'.packages = {} /\ cmd'.unpacked = {}
           /\ cmd'.pulled = {} /\ cmd'.defers = {}
           /\ \/ cmd'.stage \in {"context", "extract"}
              \/ cmd'.stage = r.kind /\ cmd'.base = image /\ disk'.db = image
           /\ disk'.temp = {} /\ disk'.exported = disk.exported
           /\ go' = NoGo /\ image' = image
<1>1. CASE UpdateFile(r)
  <2>1. /\ Ready /\ disk' = [disk EXCEPT !.db = image] /\ Begin(r, r.kind, image)
        /\ go' = go /\ image' = image
    BY <1>1 DEF UpdateFile
  <2>2. IsDisk(disk) /\ disk.temp = {} /\ go = NoGo
    BY ZenonT(30), <2>1 DEF TypeInv, Ready
  <2>3. disk'.temp = {} /\ disk'.exported = disk.exported /\ disk'.db = image
    BY <2>1, <2>2 DEF IsDisk
  <2> QED BY <2>1, <2>2, <2>3 DEF Begin, NoCmd
<1>2. CASE UpdateIndex(r) \/ ExportFromIndex(r)
  <2>1. PICK st \in {"context", "extract"} :
           /\ Ready /\ disk' = disk /\ go' = go /\ image' = image
           /\ Begin(r, st, Empty)
    BY <1>2 DEF UpdateIndex, ExportFromIndex
  <2>2. disk.temp = {} /\ go = NoGo
    BY ZenonT(30), <2>1 DEF TypeInv, Ready
  <2> QED BY <2>1, <2>2 DEF Begin, NoCmd
<1> QED
  BY ZenonT(30), <1>1, <1>2 DEF Starts, AddToIndex, DeleteFromIndex, PruneFromIndex,
     PruneStrandedFromIndex, DeprecateFromIndex

-----------------------------------------------------------------------------
(***************************************************************************)
(* What populate holds                                                     *)
(***************************************************************************)

BundleTmps == {BundleTmp(b) : b \in Bundles}

InPkg(c, p) == {b \in c.listed : PkgOf[b] = p}

Populating == {"pull", "find", "receive", "populate"}

\* Every package to overwrite is there as a whole, but for the one whose results
\* are being received: of that, each bundle is there or has a goroutine, and as
\* many results are to be received as there are goroutines.
Whole(c, d) == \A p \in c.packages : InPkg(d.db, p) \subseteq c.overwrite

Receiving(c, d, g) ==
    LET bundles == InPkg(d.db, PkgOf[c.to])
    IN  /\ \A p \in c.packages :
              p # PkgOf[c.to] => InPkg(d.db, p) \subseteq c.overwrite
        /\ bundles \subseteq c.overwrite \cup DOMAIN g
        /\ DOMAIN g \subseteq bundles
        /\ PkgOf[c.to] \in c.packages
        /\ c.wait = Cardinality(DOMAIN g)

\* The images to add again are listed, and in packages to overwrite.
Overwriting(c, d) ==
    c.overwrite \subseteq {b \in d.db.listed : PkgOf[b] \in c.packages}

\* The inductive invariant of populate, on top of TypeInv. No goroutine is left
\* when no error is recorded, unless results are being received.
AddInv ==
    /\ ImagesOf(cmd) /\ cmd.pulled \subseteq BundleTmps
    /\ cmd.stage \notin {"find", "receive", "populate", "write", "build", "idle"} =>
          /\ cmd.overwrite = {} /\ cmd.packages = {}
          /\ At("pull") \/ cmd.unpacked = {}
    /\ ~ At("idle") /\ cmd.req.kind = "add" =>
          /\ DOMAIN go \subseteq Bundles
          /\ At("receive") \/ cmd.errs \/ go = NoGo
    /\ At("pull") => cmd.todo \in Seq(Bundles)
    /\ cmd.stage \in {"find", "receive", "populate"} => Overwriting(cmd, disk)
    /\ cmd.stage \in {"find", "populate"} => Whole(cmd, disk)
    /\ At("receive") => Receiving(cmd, disk, go)

\* Steps outside of populate.
LEMMA AddOther ==
    ASSUME AddInv, ~ At("idle"), cmd'.req = cmd.req, cmd'.overwrite = cmd.overwrite,
           cmd'.packages = cmd.packages, cmd'.unpacked = cmd.unpacked,
           cmd'.pulled = cmd.pulled,
           cmd.stage \notin Populating, cmd'.stage \notin Populating,
           cmd.stage \in {"write", "build"} => cmd'.stage \in {"write", "build", "idle"},
           cmd.req.kind = "add" => go' = go /\ cmd'.errs = cmd.errs
    PROVE  AddInv'
<1>1. ImagesOf(cmd')
  BY DEF AddInv, ImagesOf
<1> QED BY <1>1 DEF AddInv, At, Populating

\* populate ends with an error, or as a whole.
LEMMA AddLeave ==
    ASSUME AddInv, cmd'.req = cmd.req, cmd'.overwrite = cmd.overwrite,
           cmd'.unpacked = cmd.unpacked, cmd'.pulled = cmd.pulled,
           cmd'.stage \in {"write", "build", "idle"},
           \/ cmd'.stage = "idle"
           \/ DOMAIN go' \subseteq Bundles /\ (cmd'.errs \/ go' = NoGo)
    PROVE  AddInv'
<1>1. ImagesOf(cmd')
  BY DEF AddInv, ImagesOf
<1> QED BY <1>1 DEF AddInv, At

\* A new process, and one that ends.
LEMMA AddStart ==
    ASSUME TypeInv, AddInv,
           NextCommand \/ Kill \/ \E r \in Requests : Starts(r)
    PROVE  AddInv'
<1>1. CASE Kill
  <2>1. /\ cmd'.req = cmd.req /\ cmd'.overwrite = cmd.overwrite
        /\ cmd'.unpacked = cmd.unpacked /\ cmd'.pulled = cmd.pulled
        /\ cmd'.stage = "idle"
    BY <1>1 DEF Kill, Die, TypeInv, IsCmd
  <2> QED BY <2>1, AddLeave
<1>2. ASSUME cmd'.stage \notin Populating, cmd'.overwrite = {}, cmd'.packages = {},
             cmd'.unpacked = {}, cmd'.pulled = {}, go' = NoGo
      PROVE  AddInv'
  <2>1. ImagesOf(cmd') /\ DOMAIN NoGo = {}
    BY <1>2 DEF ImagesOf, NoGo
  <2> QED BY <1>2, <2>1 DEF AddInv, At, Populating
<1>3. CASE NextCommand
  BY <1>2, <1>3 DEF NextCommand, NoCmd, Populating
<1>4. ASSUME NEW r \in Requests, Starts(r) PROVE AddInv'
  <2>1. r.kind \in Kinds
    BY RequestFields
  <2> QED BY ZenonT(30), <2>1, <1>2, <1>4, StartFields DEF Kinds, Populating
<1> QED BY <1>1, <1>3, <1>4

\* The steps that are not of populate leave what populate holds.
LEMMA AddFrame ==
    ASSUME TypeInv, AddInv,
           ContextSteps \/ RemoveSteps \/ DeprecateSteps \/ BuildSteps \/ ExportSteps
    PROVE  AddInv'
<1>1. IsCmd(cmd) /\ IsDisk(disk)
  BY DEF TypeInv
<1>2. ASSUME NEW d, IsDisk(d), NEW exit, Return(exit, d), ~ At("idle")
      PROVE  AddInv'
  <2>1. /\ cmd' = [cmd EXCEPT !.stage = "idle", !.exit = exit]
    BY ZenonT(30), <1>1, <1>2, ReturnFields
  <2>2. /\ cmd'.req = cmd.req /\ cmd'.overwrite = cmd.overwrite
        /\ cmd'.unpacked = cmd.unpacked /\ cmd'.pulled = cmd.pulled
        /\ cmd'.stage = "idle"
    BY <2>1, <1>1 DEF IsCmd
  <2> QED BY <2>2, AddLeave
<1>3. ASSUME NEW st, Goto(st), cmd.stage \notin Populating \cup {"build", "idle"},
             st \notin Populating, cmd.stage = "write" => st = "build",
             cmd.req.kind = "add" => go' = go
      PROVE  AddInv'
  <2>1. ~ At("idle") /\ (cmd.stage \in {"write", "build"} => st \in {"write", "build"})
    BY <1>3 DEF At
  <2> QED BY <2>1, <1>1, <1>3, GotoFields, AddOther
<1>4. ASSUME NEW d, IsDisk(d), CallFails(d), cmd.stage = "deprecating", go' = go
      PROVE  AddInv'
  <2>1. CASE cmd.req.permissive
    <3>1. cmd.req.kind = "deprecate" /\ ~ At("idle")
      BY <1>4, RunningRequest DEF At, StageOf
    <3>2. /\ cmd'.req = cmd.req /\ cmd'.overwrite = cmd.overwrite
          /\ cmd'.packages = cmd.packages /\ cmd'.unpacked = cmd.unpacked
          /\ cmd'.pulled = cmd.pulled /\ cmd'.stage = "write"
      BY ZenonT(30), <2>1, <1>1, <1>4 DEF CallFails, IsCmd
    <3> QED BY <3>1, <3>2, <1>4, AddOther DEF Populating
  <2>2. CASE ~ cmd.req.permissive
    BY <2>2, <1>2, <1>4 DEF CallFails, At
  <2> QED BY <2>1, <2>2
<1>5. ASSUME cmd'.req = cmd.req, cmd'.overwrite = cmd.overwrite,
             cmd'.packages = cmd.packages, cmd'.unpacked = cmd.unpacked,
             cmd'.pulled = cmd.pulled, go' = go,
             cmd.stage \notin Populating \cup {"write", "build", "idle"},
             cmd'.stage \notin Populating,
             cmd.req.kind = "add" => cmd'.errs = cmd.errs
      PROVE  AddInv'
  BY <1>5, AddOther DEF At
<1>6. CASE ContextSteps
  <2>1. CASE ContextFails \/ ExtractFails \/ OpenFails
    BY <2>1, <1>1, <1>2 DEF ContextFails, ExtractFails, OpenFails, At
  <2>2. CASE ContextPanics
    BY <2>2, <1>1, <1>5 DEF ContextPanics, Die, IsCmd, At, Populating
  <2>3. CASE Context
    BY <2>3, <1>1, <1>5 DEF Context, IsCmd, At, Populating
  <2>4. CASE Extract
    BY <2>4, <1>1, <1>5 DEF Extract, IsCmd, At, Populating
  <2>5. CASE Extracted
    <3>1. cmd.req.kind \in Kinds
      BY <2>5, RunningRequest, RequestFields DEF Extracted, At
    <3> QED BY <2>5, <3>1, <1>1, <1>5 DEF Extracted, IsCmd, At, Populating, Kinds
  <2> QED BY <1>6, <2>1, <2>2, <2>3, <2>4, <2>5 DEF ContextSteps
<1>7. CASE RemoveSteps
  <2>1. CASE DeleteFromRegistry \/ PruneFromRegistry
    BY ZenonT(30), <2>1, <1>1, <1>5
       DEF DeleteFromRegistry, PruneFromRegistry, IsCmd, At, Populating
  <2>2. CASE PruneStrandedFromRegistry \/ Removed \/ StrandedRemoved
    BY <2>2, <1>3
       DEF PruneStrandedFromRegistry, Removed, StrandedRemoved, At, Populating
  <2>3. CASE Remove
    BY <2>3, <1>1, <1>5 DEF Remove, IsCmd, At, Populating
  <2>4. CASE RemoveFails
    <3>1. cmd.req.kind # "add" /\ cmd.stage = "remove" /\ go' = go
      BY <2>4, RunningRequest DEF RemoveFails, At, StageOf
    <3>2. CASE cmd.req.permissive
      BY ZenonT(30), <2>4, <3>1, <3>2, <1>1, <1>5 DEF RemoveFails, IsCmd, Populating
    <3>3. CASE ~ cmd.req.permissive
      BY ZenonT(30), <2>4, <3>1, <3>3, <1>1, <1>5 DEF RemoveFails, Die, IsCmd, Populating
    <3> QED BY <3>2, <3>3
  <2>5. CASE StrandFails
    BY <2>5, <1>1, <1>2 DEF StrandFails, At
  <2> QED BY <1>7, <2>1, <2>2, <2>3, <2>4, <2>5 DEF RemoveSteps
<1>8. CASE DeprecateSteps
  <2>1. /\ cmd.stage \in {"deprecate", "check", "deprecating"} /\ go' = go
    BY ZenonT(30), <1>8
       DEF DeprecateSteps, DeprecateFromRegistry, CheckPaths, CheckFails, Deprecate,
                DeprecateRefused, DeprecateFails, Deprecated, At
  <2>2. cmd.req.kind = "deprecate" /\ ~ At("idle")
    BY <2>1, RunningRequest DEF At, StageOf, Kinds
  <2>3. CASE DeprecateFromRegistry
    BY <2>3, <1>3 DEF DeprecateFromRegistry, At, Populating
  <2>4. CASE CheckPaths
    <3>1. CASE Return("error", disk)
      BY <3>1, <2>2, <1>1, <1>2
    <3>2. CASE \E s, e : cmd' = [cmd EXCEPT !.stage = "deprecating", !.todo = s, !.errs = e]
      BY <3>2, <2>1, <2>2, <1>1, <1>5 DEF IsCmd, Populating
    <3> QED BY ZenonT(30), <2>4, <3>1, <3>2 DEF CheckPaths
  <2>5. CASE CheckFails
    <3>1. CASE Return("error", disk)
      BY <3>1, <2>2, <1>1, <1>2
    <3>2. CASE cmd' = [cmd EXCEPT !.stage = "deprecating", !.todo = cmd.req.args,
                                  !.errs = TRUE]
      BY <3>2, <2>1, <2>2, <1>1, <1>5 DEF IsCmd, Populating
    <3> QED BY <2>5, <3>1, <3>2 DEF CheckFails
  <2>6. CASE Deprecate
    <3> DEFINE s == Tail(cmd.todo)
    <3>1. cmd' = [cmd EXCEPT !.todo = s]
      BY ZenonT(30), <2>6 DEF Deprecate
    <3> HIDE DEF s
    <3> QED BY <3>1, <2>1, <2>2, <1>1, <1>5 DEF IsCmd, Populating
  <2>7. CASE DeprecateRefused
    BY <2>7, <2>1, <2>2, <1>1, <1>5 DEF DeprecateRefused, IsCmd, Populating
  <2>8. CASE DeprecateFails
    BY <2>8, <2>1, <1>1, <1>4 DEF DeprecateFails, At
  <2>9. CASE Deprecated
    BY <2>9, <2>1, <1>1, <1>3, <1>4 DEF Deprecated, At, Populating
  <2> QED BY <1>8, <2>3, <2>4, <2>5, <2>6, <2>7, <2>8, <2>9 DEF DeprecateSteps
<1>9. CASE BuildSteps
  <2>1. CASE FileUpdated \/ WriteFails \/ Build \/ BuildFails
    BY <2>1, <1>1, <1>2 DEF FileUpdated, WriteFails, Build, BuildFails, At
  <2>2. CASE Write
    <3> DEFINE d == [disk EXCEPT !.dockerfile = cmd.nth]
    <3>1. IsDisk(d)
      BY Zenon, <1>1, DockerfileWritten
    <3>2. /\ cmd.stage = "write" /\ go' = go
          /\ Return("ok", d) \/ Goto("build")
      BY <2>2 DEF Write, At
    <3> HIDE DEF d
    <3> QED BY <3>1, <3>2, <1>2, <1>3 DEF At, Populating
  <2> QED BY <1>9, <2>1, <2>2 DEF BuildSteps
<1>10. CASE ExportSteps
  <2>1. CASE ExportStart
    <3>1. cmd.req.kind = "export" /\ cmd.stage = "export" /\ Goto("waiting")
      BY <2>1, RunningRequest DEF ExportStart, At, StageOf, Kinds
    <3> QED BY <3>1, <1>3 DEF Populating
  <2>2. CASE Waited
    BY <2>2, <1>1, <1>2, <1>3 DEF Waited, At, Populating
  <2>3. ASSUME NEW S \in SUBSET Pkgs, Yaml(S) PROVE AddInv'
    <3> DEFINE d == [disk EXCEPT !.yaml = @ \cup (S \X {cmd.nth})]
    <3>1. IsDisk(d)
      BY <1>1 DEF IsDisk
    <3>2. cmd.stage = "yaml" /\ \E exit : Return(exit, d)
      BY <2>3 DEF Yaml, At
    <3> HIDE DEF d
    <3> QED BY <3>1, <3>2, <1>2 DEF At
  <2> QED BY <1>10, <2>1, <2>2, <2>3 DEF ExportSteps
<1> QED BY <1>6, <1>7, <1>8, <1>9, <1>10

\* A goroutine that works on its bundle, and the goroutines of an export.
LEMMA AddGo ==
    ASSUME TypeInv, AddInv, NEW b, GoStep(b)
    PROVE  AddInv'
<1>1. IsCmd(cmd) /\ IsDisk(disk)
  BY DEF TypeInv
<1>2. CASE Unpack(b)
  <2>1. /\ b \in DOMAIN go /\ ~ At("idle") /\ cmd.req.kind = "add" /\ cmd' = cmd
        /\ DOMAIN go' = DOMAIN go
    BY <1>2 DEF Unpack
  <2>2. disk'.db = disk.db
    BY <1>1, <1>2 DEF Unpack, IsDisk
  <2>3. go # NoGo
    BY <2>1 DEF NoGo
  <2>4. At("receive") => Receiving(cmd', disk', go')
    BY <2>1, <2>2 DEF AddInv, Receiving, InPkg
  <2>5. /\ Overwriting(cmd, disk) => Overwriting(cmd', disk')
        /\ Whole(cmd, disk) => Whole(cmd', disk')
    BY <2>1, <2>2 DEF Overwriting, Whole, InPkg
  <2> QED BY <2>1, <2>3, <2>4, <2>5 DEF AddInv, At, ImagesOf
<1>3. CASE Acquire(b) \/ Exported(b) \/ ExportFails(b)
  <2>1. cmd.stage = "waiting"
    BY ZenonT(30), <1>3 DEF Acquire, Exported, ExportFails, At
  <2>2. ~ At("idle") /\ cmd.req.kind = "export"
    BY <2>1, RunningRequest DEF At, StageOf
  <2>3. /\ cmd'.req = cmd.req /\ cmd'.overwrite = cmd.overwrite
        /\ cmd'.packages = cmd.packages /\ cmd'.unpacked = cmd.unpacked
        /\ cmd'.pulled = cmd.pulled /\ cmd'.stage = cmd.stage
    BY ZenonT(30), <1>1, <1>3 DEF Acquire, Exported, ExportFails, IsCmd
  <2> QED BY <2>1, <2>2, <2>3, AddOther DEF Populating
<1> QED BY <1>2, <1>3 DEF GoStep

\* A call that fails in populate.
LEMMA AddFails ==
    ASSUME TypeInv, AddInv, ~ At("idle"), cmd.req.kind = "add", NEW d, IsDisk(d),
           PopulateReturns(d, TRUE), DOMAIN go' \subseteq DOMAIN go
    PROVE  AddInv'
<1> DEFINE e == [d EXCEPT !.temp = d.temp \ cmd.pulled]
<1>1. IsCmd(cmd) /\ IsDisk(e)
  BY ZenonT(30), DiskFields DEF TypeInv
<1>2. CallFails(e)
  BY DEF PopulateReturns
<1> HIDE DEF e
<1>3. DOMAIN go' \subseteq Bundles
  BY DEF AddInv
<1>4. CASE cmd.req.permissive
  <2>1. /\ cmd'.req = cmd.req /\ cmd'.overwrite = cmd.overwrite
        /\ cmd'.unpacked = cmd.unpacked /\ cmd'.pulled = cmd.pulled
        /\ cmd'.stage = "write" /\ cmd'.errs = TRUE
    BY ZenonT(30), <1>1, <1>2, <1>4 DEF CallFails, IsCmd
  <2> QED BY <2>1, <1>3, AddLeave
<1>5. CASE ~ cmd.req.permissive
  <2>1. cmd' = [cmd EXCEPT !.stage = "idle", !.exit = "error"]
    BY <1>2, <1>5 DEF CallFails, Return
  <2>2. /\ cmd'.req = cmd.req /\ cmd'.overwrite = cmd.overwrite
        /\ cmd'.unpacked = cmd.unpacked /\ cmd'.pulled = cmd.pulled
        /\ cmd'.stage = "idle"
    BY <2>1, <1>1 DEF IsCmd
  <2> QED BY <2>2, AddLeave
<1> QED BY <1>4, <1>5

\* The images are pulled, found and received.
LEMMA AddPull ==
    ASSUME TypeInv, AddInv, AddToRegistry \/ PullImage \/ PullFails \/ Pulled
    PROVE  AddInv'
<1>1. IsCmd(cmd) /\ IsDisk(disk)
  BY DEF TypeInv
<1>2. cmd.stage \in {"add", "pull"} /\ go' = go
  BY ZenonT(30) DEF AddToRegistry, PullImage, PullFails, Pulled, At
<1>3. ~ At("idle") /\ cmd.req \in Requests /\ cmd.req.kind = "add"
  BY <1>2, RunningRequest DEF At, StageOf, Kinds
<1>4. ~ cmd.errs /\ go = NoGo /\ cmd.overwrite = {} /\ cmd.packages = {}
  BY <1>2, <1>3 DEF TypeInv, ErrsOf, AddInv, At
<1>5. CASE AddToRegistry
  <2>1. /\ cmd'.req = cmd.req /\ cmd'.overwrite = {} /\ cmd'.packages = {}
        /\ cmd'.unpacked = cmd.unpacked /\ cmd'.pulled = cmd.pulled
        /\ cmd'.stage = "pull" /\ cmd'.errs = cmd.errs /\ cmd'.todo = cmd.req.args
    BY <1>1, <1>4, <1>5 DEF AddToRegistry, IsCmd
  <2>2. cmd.req.args \in Seq(Bundles)
    BY <1>3, RequestFields
  <2>3. ImagesOf(cmd')
    BY <2>1 DEF AddInv, ImagesOf
  <2> QED BY <2>1, <2>2, <2>3, <1>2, <1>3, <1>4 DEF AddInv, At
<1>6. CASE PullImage
  <2> DEFINE b == Head(cmd.todo)
             s == Tail(cmd.todo)
  <2>1. cmd.todo \in Seq(Bundles) /\ cmd.todo # <<>> /\ cmd.stage = "pull"
    BY <1>6 DEF PullImage, At, AddInv
  <2>2. b \in Bundles /\ s \in Seq(Bundles)
    BY <2>1
  <2>3. cmd' = [cmd EXCEPT !.todo = s, !.unpacked = cmd.unpacked \cup {b},
                           !.pulled = cmd.pulled \cup {BundleTmp(b)}]
    BY <1>6 DEF PullImage
  <2> HIDE DEF b, s
  <2>4. /\ cmd'.req = cmd.req /\ cmd'.overwrite = {} /\ cmd'.packages = {}
        /\ cmd'.unpacked = cmd.unpacked \cup {b}
        /\ cmd'.pulled = cmd.pulled \cup {BundleTmp(b)}
        /\ cmd'.stage = "pull" /\ cmd'.errs = cmd.errs /\ cmd'.todo = s
    BY <2>1, <2>3, <1>1, <1>4 DEF IsCmd
  <2>5. ImagesOf(cmd') /\ cmd'.pulled \subseteq BundleTmps
    BY <2>2, <2>4 DEF AddInv, ImagesOf, BundleTmps
  <2> QED BY <2>2, <2>4, <2>5, <1>2, <1>3, <1>4 DEF AddInv, At
<1>7. CASE PullFails
  <2> DEFINE d == [disk EXCEPT !.temp = @ \cup {BundleTmp(Head(cmd.todo))}]
  <2>1. IsDisk(d)
    BY <1>1 DEF IsDisk
  <2>2. PopulateReturns(d, TRUE)
    BY ZenonT(30), <1>7 DEF PullFails
  <2> HIDE DEF d
  <2> QED BY ZenonT(30), <2>1, <2>2, <1>2, <1>3, AddFails
<1>8. CASE Pulled
  <2>1. PICK st \in {"find", "populate"} : Goto(st)
    BY <1>8 DEF Pulled
  <2>2. /\ cmd'.req = cmd.req /\ cmd'.overwrite = {} /\ cmd'.packages = {}
        /\ cmd'.unpacked = cmd.unpacked /\ cmd'.pulled = cmd.pulled
        /\ cmd'.stage = st /\ cmd'.errs = cmd.errs
    BY <2>1, <1>1, <1>4, GotoFields
  <2>3. ImagesOf(cmd') /\ Overwriting(cmd', disk') /\ Whole(cmd', disk')
    BY <2>2 DEF AddInv, ImagesOf, Overwriting, Whole
  <2> QED BY <2>2, <2>3, <1>2, <1>3, <1>4 DEF AddInv, At
<1> QED BY <1>5, <1>6, <1>7, <1>8

\* The loop of populate that spawns goroutines for the graph keeps AddInv.
LEMMA AddFind ==
    ASSUME TypeInv, AddInv, NEW b \in Bundles, FindNext(b)
    PROVE  AddInv'
<1>1. IsCmd(cmd) /\ IsDisk(disk) /\ disk.db \in Content
  BY DEF TypeInv
<1>2. cmd.stage = "find"
  BY DEF FindNext, At
<1>3. ~ At("idle") /\ cmd.req.kind = "add"
  BY <1>2, RunningRequest DEF At, StageOf
<1>4. ~ cmd.errs /\ go = NoGo /\ Overwriting(cmd, disk) /\ Whole(cmd, disk)
  BY <1>2, <1>3 DEF TypeInv, ErrsOf, AddInv, At
<1> DEFINE bundles == Listed(PkgOf[b])
           seen == [cmd EXCEPT !.visited = @ \cup {b}]
<1>5. CASE cmd' = seen /\ disk' = disk /\ go' = go
  <2>1. /\ cmd'.req = cmd.req /\ cmd'.overwrite = cmd.overwrite
        /\ cmd'.packages = cmd.packages
        /\ cmd'.unpacked = cmd.unpacked /\ cmd'.pulled = cmd.pulled
        /\ cmd'.stage = "find" /\ cmd'.errs = cmd.errs
    BY <1>1, <1>2, <1>5 DEF IsCmd
  <2>2. ImagesOf(cmd') /\ Overwriting(cmd', disk') /\ Whole(cmd', disk')
    BY <2>1, <1>4, <1>5 DEF AddInv, ImagesOf, Overwriting, Whole
  <2> QED BY <2>1, <2>2, <1>3, <1>4, <1>5 DEF AddInv, At
<1>6. CASE PopulateReturns(disk, TRUE) /\ go' = go
  BY ZenonT(30), <1>1, <1>3, <1>6, AddFails
<1>7. CASE /\ go' = [a \in bundles |-> "run"] /\ disk' = disk
           /\ cmd' = [seen EXCEPT !.stage = "receive", !.to = b,
                                  !.packages = @ \cup {PkgOf[b]},
                                  !.wait = Cardinality(bundles)]
  <2>1. bundles = InPkg(disk.db, PkgOf[b])
    BY DEF Listed, InPkg
  <2>2. bundles \subseteq Bundles
    BY <2>1, <1>1 DEF InPkg, Content
  <2> HIDE DEF bundles
  <2>3. /\ cmd'.req = cmd.req /\ cmd'.overwrite = cmd.overwrite
        /\ cmd'.packages = cmd.packages \cup {PkgOf[b]}
        /\ cmd'.unpacked = cmd.unpacked /\ cmd'.pulled = cmd.pulled
        /\ cmd'.stage = "receive" /\ cmd'.errs = cmd.errs /\ cmd'.to = b
        /\ cmd'.wait = Cardinality(bundles)
    BY <1>1, <1>7 DEF IsCmd
  <2>4. DOMAIN go' = bundles
    BY <1>7
  <2>5. ImagesOf(cmd') /\ Overwriting(cmd', disk')
    BY <2>3, <1>4, <1>7 DEF AddInv, ImagesOf, Overwriting
  <2>6. Receiving(cmd', disk', go')
    BY <2>1, <2>3, <2>4, <1>4, <1>7 DEF Receiving, Whole
  <2> QED BY <2>2, <2>3, <2>4, <2>5, <2>6, <1>3 DEF AddInv, At
<1> QED BY ZenonT(30), <1>5, <1>6, <1>7 DEF FindNext

\* The call that populates the database keeps AddInv.
LEMMA AddPopulate ==
    ASSUME TypeInv, AddInv, Populate \/ PopulateFails
    PROVE  AddInv'
<1>1. IsCmd(cmd) /\ IsDisk(disk)
  BY DEF TypeInv
<1>2. cmd.stage = "populate" /\ go' = go
  BY ZenonT(30) DEF Populate, PopulateFails, At
<1>3. ~ At("idle") /\ cmd.req.kind = "add"
  BY <1>2, RunningRequest DEF At, StageOf
<1>4. go = NoGo
  BY <1>2, <1>3 DEF AddInv, At, TypeInv, ErrsOf
<1>5. CASE Populate
  <2>1. Goto("write")
    BY ZenonT(30), <1>5 DEF Populate, PopulateReturns
  <2>2. DOMAIN NoGo = {}
    BY DEF NoGo
  <2> QED BY <2>1, <2>2, <1>1, <1>2, <1>4, GotoFields, AddLeave
<1>6. CASE PopulateFails
  <2>1. PICK c : PopulateReturns([disk EXCEPT !.db = c], TRUE)
    BY ZenonT(30), <1>6 DEF PopulateFails
  <2>2. IsDisk([disk EXCEPT !.db = c])
    BY <1>1 DEF IsDisk
  <2> QED BY ZenonT(30), <2>1, <2>2, <1>2, <1>3, AddFails
<1> QED BY <1>5, <1>6

-----------------------------------------------------------------------------
(***************************************************************************)
(* Counting: the results to receive, and the packages to remove.  The      *)
(* lemmas take what they need of finite sets as a hypothesis, Counting,    *)
(* which CountingLemma proves for the theorems at the end of the module.   *)
(***************************************************************************)

\* What is used of the cardinality of a set.
Counts(S) ==
    /\ Cardinality(S) \in Nat
    /\ Cardinality(S) = 0 => S = {}
    /\ \A x \in S : Cardinality(S \ {x}) = Cardinality(S) - 1

\* What is used of finite sets.
Counting ==
    /\ \A S : \A T \in SUBSET S : IsFiniteSet(S) => IsFiniteSet(T)
    /\ \A S : IsFiniteSet(S) => Counts(S)

\* A result that the loop receives keeps AddInv.
LEMMA AddReceive ==
    ASSUME Counting, TypeInv, AddInv, NEW b \in Bundles, Receive(b)
    PROVE  AddInv'
<1>1. IsCmd(cmd) /\ IsDisk(disk) /\ disk.db \in Content
  BY DEF TypeInv
<1>2. cmd.stage = "receive" /\ b \in DOMAIN go /\ DOMAIN go' = DOMAIN go \ {b}
  BY DEF Receive, At
<1>3. ~ At("idle") /\ cmd.req.kind = "add"
  BY ZenonT(30), <1>2, RunningRequest DEF At, StageOf
<1>4. Overwriting(cmd, disk) /\ Receiving(cmd, disk, go) /\ DOMAIN go \subseteq Bundles
  BY ZenonT(30), <1>2, <1>3 DEF AddInv, At
<1>5. CASE PopulateReturns(disk, TRUE)
  BY ZenonT(30), <1>1, <1>2, <1>3, <1>5, AddFails
<1>6. CASE /\ disk' = disk
           /\ cmd' = [cmd EXCEPT
                !.overwrite = @ \cup {b},
                !.unpacked = @ \ {b},
                !.pulled = @ \cup (IF b = cmd.to THEN {} ELSE {BundleTmp(b)}),
                !.wait = @ - 1]
  <2> DEFINE new == IF b = cmd.to THEN {} ELSE {BundleTmp(b)}
             left == cmd.wait - 1
  <2>1. new \subseteq BundleTmps
    BY DEF BundleTmps
  <2>2. cmd' = [cmd EXCEPT !.overwrite = @ \cup {b}, !.unpacked = @ \ {b},
                           !.pulled = @ \cup new, !.wait = left]
    BY <1>6
  <2>3. left = Cardinality(DOMAIN go')
    <3>1. IsFiniteSet(DOMAIN go)
      BY <1>4, IndexerAssumption DEF Counting
    <3>2. Counts(DOMAIN go)
      BY ZenonT(30), <3>1 DEF Counting
    <3>3. Cardinality(DOMAIN go') = Cardinality(DOMAIN go) - 1
      BY ZenonT(30), <3>2, <1>2 DEF Counts
    <3> QED BY <3>3, <1>4 DEF Receiving
  <2> HIDE DEF new, left
  <2>4. /\ cmd'.req = cmd.req /\ cmd'.overwrite = cmd.overwrite \cup {b}
        /\ cmd'.packages = cmd.packages
        /\ cmd'.unpacked = cmd.unpacked \ {b} /\ cmd'.pulled = cmd.pulled \cup new
        /\ cmd'.stage = "receive" /\ cmd'.errs = cmd.errs /\ cmd'.to = cmd.to
        /\ cmd'.wait = left
    BY <2>2, <1>1, <1>2 DEF IsCmd
  <2>5. b \in InPkg(disk.db, PkgOf[cmd.to]) /\ PkgOf[cmd.to] \in cmd.packages
    BY <1>2, <1>4 DEF Receiving
  <2>6. ImagesOf(cmd') /\ Overwriting(cmd', disk')
    BY <2>4, <2>5, <1>4, <1>6 DEF AddInv, ImagesOf, Overwriting, InPkg
  <2>7. Receiving(cmd', disk', go')
    BY <2>3, <2>4, <1>2, <1>4, <1>6 DEF Receiving
  <2>8. DOMAIN go' \subseteq Bundles /\ cmd'.pulled \subseteq BundleTmps
    BY <2>1, <2>4, <1>2, <1>4 DEF AddInv
  <2> QED BY <2>4, <2>6, <2>7, <2>8, <1>3 DEF AddInv, At
<1> QED BY ZenonT(30), <1>5, <1>6 DEF Receive

\* When all results are in, nothing of the package is missing.
LEMMA AddReceived ==
    ASSUME Counting, TypeInv, AddInv, Received \/ Found
    PROVE  AddInv'
<1>1. IsCmd(cmd) /\ disk' = disk /\ go' = go
  BY DEF TypeInv, Received, Found
<1>2. PICK st \in {"find", "populate"} : Goto(st)
  BY DEF Received, Found
<1>3. cmd.stage \in {"receive", "find"}
  BY DEF Received, Found, At
<1>4. ~ At("idle") /\ cmd.req.kind = "add"
  BY <1>3, RunningRequest DEF At, StageOf
<1>5. Overwriting(cmd, disk) /\ DOMAIN go \subseteq Bundles
  BY <1>3, <1>4 DEF AddInv
<1>6. go = NoGo /\ Whole(cmd, disk)
  <2>1. CASE Received
    <3>1. Receiving(cmd, disk, go) /\ cmd.wait = 0
      BY <2>1 DEF Received, AddInv, At
    <3>2. IsFiniteSet(DOMAIN go)
      BY <1>5, IndexerAssumption DEF Counting
    <3>3. Counts(DOMAIN go)
      BY ZenonT(30), <3>2 DEF Counting
    <3>4. DOMAIN go = {}
      BY ZenonT(30), <3>1, <3>3 DEF Receiving, Counts
    <3>5. go = NoGo
      BY <3>4 DEF TypeInv, NoGo
    <3> QED BY <3>1, <3>4, <3>5 DEF Receiving, Whole
  <2>2. CASE Found
    BY <2>2, <1>4 DEF Found, At, AddInv, TypeInv, ErrsOf
  <2> QED BY <2>1, <2>2
<1>7. /\ cmd'.req = cmd.req /\ cmd'.overwrite = cmd.overwrite
      /\ cmd'.packages = cmd.packages
      /\ cmd'.unpacked = cmd.unpacked /\ cmd'.pulled = cmd.pulled
      /\ cmd'.stage = st /\ cmd'.errs = cmd.errs
  BY <1>1, <1>2, GotoFields
<1>8. ImagesOf(cmd') /\ Overwriting(cmd', disk') /\ Whole(cmd', disk')
  BY <1>1, <1>5, <1>6, <1>7 DEF AddInv, ImagesOf, Overwriting, Whole
<1> QED BY <1>1, <1>4, <1>5, <1>6, <1>7, <1>8 DEF AddInv, At

-----------------------------------------------------------------------------
(***************************************************************************)
(* What is on disk                                                         *)
(***************************************************************************)

\* The directories that no cleanup of the command removes: those that populate
\* removes, those of the goroutines that it has not heard of, and those that an
\* error left.
Loose(c, g) ==
    CASE c.stage \in {"pull", "find", "populate"} -> c.pulled
      [] c.stage = "receive" ->
            c.pulled \cup {BundleTmp(b) : b \in {a \in DOMAIN g \ {c.to} : g[a] # "run"}}
      [] c.stage = "waiting" -> {BundleTmp(b) : b \in {a \in DOMAIN g : g[a] = "run"}}
      [] c.stage \notin Populating \cup {"waiting"} -> IF c.errs THEN BundleTmps ELSE {}

\* The inductive invariant, on top of TypeInv and AddInv.
CleanInv ==
    /\ CleanExit
    /\ ~ At("idle") => disk.temp \subseteq cmd.defers \cup Loose(cmd, go)
    /\ At("context") => cmd.defers = {}

\* Loose, stage by stage.
LEMMA LooseCases ==
    ASSUME NEW c, NEW g
    PROVE  /\ c.stage \in {"pull", "find", "populate"} => Loose(c, g) = c.pulled
           /\ c.stage = "receive" =>
                 Loose(c, g) =
                    c.pulled \cup
                       {BundleTmp(b) : b \in {a \in DOMAIN g \ {c.to} : g[a] # "run"}}
           /\ c.stage = "waiting" =>
                 Loose(c, g) = {BundleTmp(b) : b \in {a \in DOMAIN g : g[a] = "run"}}
           /\ c.stage \notin Populating \cup {"waiting"} =>
                 Loose(c, g) = IF c.errs THEN BundleTmps ELSE {}
BY DEF Loose, Populating

\* What an index command leaves loose is the directory of a bundle.
LEMMA LooseTmps ==
    ASSUME TypeInv, AddInv, ~ At("idle"), cmd.req.kind # "export"
    PROVE  Loose(cmd, go) \subseteq BundleTmps
<1>1. cmd.stage # "waiting" /\ (cmd.stage \in Populating => cmd.req.kind = "add")
  BY RunningRequest DEF StageOf, Populating
<1>2. /\ cmd.pulled \subseteq BundleTmps
      /\ cmd.stage = "receive" => DOMAIN go \subseteq Bundles
  BY <1>1 DEF AddInv, Populating
<1> QED BY <1>1, <1>2 DEF Loose, BundleTmps, Populating

\* The command returns.
LEMMA CleanReturn ==
    ASSUME IsCmd(cmd), NEW d, IsDisk(d), NEW exit, Return(exit, d), NEW X,
           d.temp \subseteq cmd.defers \cup X, X \subseteq BundleTmps,
           exit = "ok" /\ ~ cmd.errs => X = {}
    PROVE  CleanInv'
<1>1. /\ cmd'.stage = "idle" /\ cmd'.exit = exit /\ cmd'.errs = cmd.errs
      /\ disk'.temp = d.temp \ cmd.defers
  BY ZenonT(30), ReturnFields
<1> QED BY <1>1 DEF CleanInv, CleanExit, At, BundleTmps

\* The process ends and nothing is cleaned up.
LEMMA CleanDie ==
    ASSUME cmd'.stage = "idle", cmd'.exit \notin {"ok", "error"}
    PROVE  CleanInv'
BY DEF CleanInv, CleanExit, At

\* The command goes on, outside of populate.
LEMMA CleanOther ==
    ASSUME CleanInv, ~ At("idle"), cmd.stage \notin Populating \cup {"waiting"},
           cmd'.stage \notin Populating \cup {"idle", "waiting", "context"},
           cmd'.defers = cmd.defers, disk'.temp = disk.temp, cmd'.errs = TRUE \/ ~ cmd.errs
    PROVE  CleanInv'
<1>1. disk.temp \subseteq cmd.defers \cup Loose(cmd, go)
  BY DEF CleanInv
<1>2. Loose(cmd, go) = IF cmd.errs THEN BundleTmps ELSE {}
  BY DEF Loose, Populating
<1>3. Loose(cmd', go') = IF cmd'.errs THEN BundleTmps ELSE {}
  BY DEF Loose, Populating
<1> QED BY <1>1, <1>2, <1>3 DEF CleanInv, CleanExit, At

\* A call fails.
LEMMA CleanFails ==
    ASSUME IsCmd(cmd), NEW d, IsDisk(d), CallFails(d),
           d.temp \subseteq cmd.defers \cup BundleTmps
    PROVE  CleanInv'
<1>1. CASE cmd.req.permissive
  <2>1. /\ disk' = d /\ cmd'.stage = "write" /\ cmd'.errs = TRUE
        /\ cmd'.defers = cmd.defers
    BY ZenonT(30), <1>1 DEF CallFails, IsCmd
  <2>2. Loose(cmd', go') = BundleTmps
    BY <2>1 DEF Loose, Populating
  <2> QED BY <2>1, <2>2 DEF CleanInv, CleanExit, At
<1>2. CASE ~ cmd.req.permissive
  BY <1>2, CleanReturn DEF CallFails
<1> QED BY <1>1, <1>2

\* A populate that fails removes what it pulled.
LEMMA CleanPopulateFails ==
    ASSUME IsCmd(cmd), NEW d, IsDisk(d), PopulateReturns(d, TRUE),
           d.temp \subseteq cmd.defers \cup BundleTmps
    PROVE  CleanInv'
<1> DEFINE e == [d EXCEPT !.temp = d.temp \ cmd.pulled]
<1>1. IsDisk(e) /\ e.temp = d.temp \ cmd.pulled
  BY DEF IsDisk
<1>2. CallFails(e)
  BY DEF PopulateReturns
<1> HIDE DEF e
<1> QED BY <1>1, <1>2, CleanFails

\* A new command starts clean, and a killed one promises nothing.
LEMMA CleanStart ==
    ASSUME TypeInv, NextCommand \/ Kill \/ \E r \in Requests : Starts(r)
    PROVE  CleanInv'
<1>1. NULL \notin {"ok", "error"}
  BY IndexerAssumption
<1>2. CASE NextCommand
  BY <1>1, <1>2, CleanDie DEF NextCommand, NoCmd
<1>3. CASE Kill
  BY <1>3, CleanDie DEF Kill, Die, TypeInv, IsCmd
<1>4. ASSUME NEW r \in Requests, Starts(r) PROVE CleanInv'
  <2>1. /\ cmd'.errs = FALSE /\ cmd'.exit = NULL /\ cmd'.defers = {} /\ disk'.temp = {}
    BY ZenonT(30), <1>4, StartFields
  <2> QED BY <2>1, <1>1 DEF CleanInv, CleanExit, At
<1> QED BY <1>2, <1>3, <1>4

\* The build context and the extraction of the base image are deferred.
LEMMA CleanContext ==
    ASSUME TypeInv, AddInv, CleanInv, ContextSteps
    PROVE  CleanInv'
<1>1. IsCmd(cmd) /\ IsDisk(disk) /\ ErrsOf(cmd)
  BY DEF TypeInv
<1>2. /\ cmd.stage \in Kinds \cup {"context", "extract", "extracted"}
      /\ ~ At("idle")
  BY DEF ContextSteps, Context, ContextFails, ContextPanics, Extract, Extracted,
         ExtractFails, OpenFails, At, Kinds
<1>3. ~ cmd.errs /\ cmd.stage \notin Populating \cup {"waiting"}
  BY <1>1, <1>2 DEF ErrsOf, Kinds, Populating
<1>4. disk.temp \subseteq cmd.defers
  BY <1>2, <1>3 DEF CleanInv, Loose, Populating
<1>5. CASE ContextFails \/ ExtractFails \/ OpenFails
  <2>1. Return("error", disk)
    BY <1>5 DEF ContextFails, ExtractFails, OpenFails
  <2> QED BY <2>1, <1>1, <1>4, CleanReturn
<1>6. CASE ContextPanics
  BY <1>1, <1>6, CleanDie DEF ContextPanics, Die, IsCmd
<1>7. ASSUME disk'.temp \subseteq cmd'.defers, cmd'.stage \notin {"idle", "context"},
             cmd'.stage \notin Populating \cup {"waiting"}
      PROVE  CleanInv'
  BY <1>7 DEF CleanInv, CleanExit, At
<1>8. CASE Context
  <2> DEFINE new == IF cmd.req.generate THEN {} ELSE
                    {BuildTmp} \cup IF cmd.req.named THEN {} ELSE {DockerfileTmp}
  <2>1. /\ disk' = [disk EXCEPT !.temp = @ \cup new]
        /\ cmd' = [cmd EXCEPT !.stage = "extract", !.defers = new]
    BY <1>8 DEF Context
  <2>2. disk.temp = {}
    BY <1>4, <1>8 DEF CleanInv, Context
  <2> HIDE DEF new
  <2>3. disk'.temp = new /\ cmd'.defers = new /\ cmd'.stage = "extract"
    BY <2>1, <2>2, <1>1 DEF IsCmd, IsDisk
  <2> QED BY <2>3, <1>7 DEF Populating
<1>9. CASE Extract
  <2>1. /\ disk'.temp = disk.temp \cup {IndexTmp} /\ cmd'.stage = "extracted"
        /\ cmd'.defers = cmd.defers \cup {IndexTmp}
    BY <1>1, <1>9 DEF Extract, IsCmd, IsDisk
  <2> QED BY <2>1, <1>4, <1>7 DEF Populating
<1>10. CASE Extracted
  <2>1. cmd.req.kind \in Kinds
    BY <1>2, RunningRequest, RequestFields
  <2>2. /\ disk'.temp \subseteq disk.temp /\ cmd'.stage = cmd.req.kind
        /\ cmd'.defers = cmd.defers
    BY <1>1, <1>10 DEF Extracted, IsCmd, IsDisk
  <2> QED BY <2>1, <2>2, <1>4, <1>7 DEF Populating, Kinds
<1> QED BY <1>5, <1>6, <1>8, <1>9, <1>10 DEF ContextSteps

\* rm, prune and prune-stranded make no directory.
LEMMA CleanRemove ==
    ASSUME TypeInv, AddInv, CleanInv, RemoveSteps
    PROVE  CleanInv'
<1>1. IsCmd(cmd) /\ IsDisk(disk) /\ ErrsOf(cmd)
  BY DEF TypeInv
<1>2. /\ cmd.stage \in {"rm", "prune", "prune-stranded", "remove", "strand"}
      /\ ~ At("idle")
  BY ZenonT(30)
     DEF RemoveSteps, DeleteFromRegistry, PruneFromRegistry, PruneStrandedFromRegistry,
         Remove, RemoveFails, Removed, StrandedRemoved, StrandFails, At
<1>3. cmd.stage \notin Populating \cup {"waiting"} /\ cmd.errs \in BOOLEAN
  BY <1>1, <1>2 DEF Populating, ErrsOf
<1>4. ASSUME cmd'.stage \in {"remove", "strand", "write"}, cmd'.defers = cmd.defers,
             disk'.temp = disk.temp, cmd'.errs = cmd.errs \/ cmd'.errs = TRUE
      PROVE  CleanInv'
  BY ZenonT(30), <1>2, <1>3, <1>4, CleanOther DEF Populating
<1>5. CASE DeleteFromRegistry \/ PruneFromRegistry
  BY ZenonT(30), <1>1, <1>4, <1>5 DEF DeleteFromRegistry, PruneFromRegistry, IsCmd
<1>6. CASE PruneStrandedFromRegistry \/ Removed
  BY ZenonT(30), <1>1, <1>4, <1>6, GotoFields DEF PruneStrandedFromRegistry, Removed
<1>7. CASE Remove
  <2>1. cmd'.stage = "remove" /\ cmd'.defers = cmd.defers /\ cmd'.errs = cmd.errs
    BY <1>1, <1>7 DEF Remove, IsCmd, At
  <2>2. disk'.temp = disk.temp
    BY <1>1, <1>7 DEF Remove, IsDisk
  <2> QED BY <2>1, <2>2, <1>4
<1>8. CASE RemoveFails
  <2>1. disk'.temp = disk.temp
    BY <1>1, <1>8 DEF RemoveFails, IsDisk
  <2>2. CASE cmd.req.permissive
    BY ZenonT(30), <2>1, <2>2, <1>1, <1>4, <1>8 DEF RemoveFails, IsCmd, At
  <2>3. CASE ~ cmd.req.permissive
    BY ZenonT(30), <2>3, <1>1, <1>8, CleanDie DEF RemoveFails, Die, IsCmd
  <2> QED BY <2>2, <2>3
<1>9. CASE StrandedRemoved
  <2>1. disk'.temp = disk.temp /\ Goto("write")
    BY <1>1, <1>9 DEF StrandedRemoved, IsDisk
  <2> QED BY ZenonT(30), <2>1, <1>1, <1>4, GotoFields
<1>10. CASE StrandFails
  <2>1. Return("error", disk) /\ cmd.req.kind # "export"
    BY <1>2, <1>10, RunningRequest DEF StrandFails, At, StageOf
  <2> QED BY <2>1, <1>1, <1>2, LooseTmps, CleanReturn DEF CleanInv
<1> QED BY <1>5, <1>6, <1>7, <1>8, <1>9, <1>10 DEF RemoveSteps

\* Neither does deprecatetruncate.
LEMMA CleanDeprecate ==
    ASSUME TypeInv, AddInv, CleanInv, DeprecateSteps
    PROVE  CleanInv'
<1>1. IsCmd(cmd) /\ IsDisk(disk) /\ ErrsOf(cmd)
  BY DEF TypeInv
<1>2. /\ cmd.stage \in {"deprecate", "check", "deprecating"}
      /\ ~ At("idle")
  BY ZenonT(30)
     DEF DeprecateSteps, DeprecateFromRegistry, CheckPaths, CheckFails, Deprecate,
         DeprecateRefused, DeprecateFails, Deprecated, At
<1>3. cmd.stage \notin Populating \cup {"waiting"} /\ cmd.errs \in BOOLEAN
  BY <1>1, <1>2 DEF Populating, ErrsOf
<1>4. ASSUME cmd'.stage \in {"check", "deprecating", "write"}, cmd'.defers = cmd.defers,
             disk'.temp = disk.temp, cmd'.errs = TRUE \/ ~ cmd.errs
      PROVE  CleanInv'
  BY ZenonT(30), <1>2, <1>3, <1>4, CleanOther DEF Populating
<1>5. disk.temp \subseteq cmd.defers \cup BundleTmps
  <2>1. cmd.req.kind # "export"
    BY <1>2, RunningRequest DEF StageOf, Kinds
  <2> QED BY <2>1, <1>2, LooseTmps DEF CleanInv
<1>6. ASSUME Return("error", disk) PROVE CleanInv'
  BY <1>1, <1>5, <1>6, CleanReturn
<1>7. CASE DeprecateFromRegistry
  <2>1. Goto("check") /\ disk' = disk /\ ~ cmd.errs
    BY <1>1, <1>7 DEF DeprecateFromRegistry, At, ErrsOf
  <2> QED BY ZenonT(30), <2>1, <1>1, <1>4, GotoFields
<1>8. CASE CheckPaths \/ CheckFails
  <2>1. ~ cmd.errs
    BY <1>1, <1>8 DEF CheckPaths, CheckFails, At, ErrsOf
  <2>2. CASE Return("error", disk)
    BY <2>2, <1>6
  <2>3. CASE /\ disk' = disk
             /\ \E s, e : cmd' = [cmd EXCEPT !.stage = "deprecating", !.todo = s,
                                             !.errs = e]
    BY <2>1, <2>3, <1>1, <1>4 DEF IsCmd
  <2> QED BY ZenonT(30), <1>8, <2>2, <2>3 DEF CheckPaths, CheckFails
<1>9. CASE Deprecate
  <2> DEFINE s == Tail(cmd.todo)
  <2>1. cmd' = [cmd EXCEPT !.todo = s] /\ cmd.stage = "deprecating"
    BY ZenonT(30), <1>9 DEF Deprecate, At
  <2>2. disk'.temp = disk.temp
    BY ZenonT(30), <1>1, <1>9 DEF Deprecate, IsDisk
  <2> HIDE DEF s
  <2>3. /\ cmd'.stage = "deprecating" /\ cmd'.defers = cmd.defers
        /\ cmd'.errs = cmd.errs
    BY <2>1, <1>1 DEF IsCmd
  <2> QED BY ZenonT(30), <2>2, <2>3, <1>3, <1>4
<1>10. CASE DeprecateRefused
  BY <1>1, <1>4, <1>10 DEF DeprecateRefused, IsCmd, At
<1>11. CASE DeprecateFails
  BY <1>1, <1>5, <1>11, CleanFails DEF DeprecateFails
<1>12. CASE Deprecated
  <2>1. CASE cmd.errs
    BY <2>1, <1>1, <1>5, <1>12, CleanFails DEF Deprecated
  <2>2. CASE ~ cmd.errs
    <3>1. Goto("write") /\ disk' = disk
      BY <2>2, <1>12 DEF Deprecated
    <3> QED BY ZenonT(30), <2>2, <3>1, <1>1, <1>4, GotoFields
  <2> QED BY <2>1, <2>2
<1> QED BY <1>7, <1>8, <1>9, <1>10, <1>11, <1>12 DEF DeprecateSteps

\* Writing the Dockerfile and building the image keep CleanInv.
LEMMA CleanBuild ==
    ASSUME TypeInv, AddInv, CleanInv, BuildSteps
    PROVE  CleanInv'
<1>1. IsCmd(cmd) /\ IsDisk(disk) /\ ErrsOf(cmd)
  BY DEF TypeInv
<1>2. cmd.stage \in {"write", "build"} /\ ~ At("idle")
  BY DEF BuildSteps, FileUpdated, Write, WriteFails, Build, BuildFails, At
<1> DEFINE X == IF cmd.errs THEN BundleTmps ELSE {}
<1>3. Loose(cmd, go) = X
  BY <1>2 DEF Loose, Populating
<1>4. disk.temp \subseteq cmd.defers \cup X
  BY <1>2, <1>3 DEF CleanInv
<1>5. ASSUME NEW exit, NEW d, IsDisk(d), d.temp = disk.temp, Return(exit, d)
      PROVE  CleanInv'
  <2>1. X \subseteq BundleTmps /\ (~ cmd.errs => X = {})
    OBVIOUS
  <2> HIDE DEF X
  <2> QED BY <2>1, <1>1, <1>4, <1>5, CleanReturn
<1>6. CASE FileUpdated \/ WriteFails \/ Build \/ BuildFails
  BY <1>1, <1>5, <1>6 DEF FileUpdated, WriteFails, Build, BuildFails
<1>7. CASE Write
  <2> DEFINE d == [disk EXCEPT !.dockerfile = cmd.nth]
  <2>1. IsDisk(d) /\ d.temp = disk.temp
    BY Zenon, <1>1, DockerfileWritten
  <2>2. Return("ok", d) \/ (disk' = d /\ Goto("build"))
    BY <1>7 DEF Write
  <2> HIDE DEF d
  <2>3. CASE disk' = d /\ Goto("build")
    <3>1. /\ cmd'.stage = "build" /\ cmd'.errs = cmd.errs /\ cmd'.defers = cmd.defers
      BY <2>3, <1>1, GotoFields
    <3> QED BY ZenonT(30), <2>1, <2>3, <3>1, <1>1, <1>2, CleanOther DEF Populating, ErrsOf
  <2> QED BY <2>1, <2>2, <2>3, <1>5
<1> QED BY <1>6, <1>7 DEF BuildSteps

\* The steps of an export outside its goroutines keep CleanInv.
LEMMA CleanExport ==
    ASSUME TypeInv, AddInv, CleanInv, ExportSteps
    PROVE  CleanInv'
<1>1. IsCmd(cmd) /\ IsDisk(disk) /\ ErrsOf(cmd)
  BY DEF TypeInv
<1>2. cmd.stage \in {"export", "waiting", "yaml"} /\ ~ At("idle")
  BY ZenonT(30) DEF ExportSteps, ExportStart, Waited, Yaml, At
<1>3. cmd.stage \in {"export", "yaml"} => disk.temp \subseteq cmd.defers
  BY <1>1, <1>2 DEF CleanInv, Loose, Populating, ErrsOf
<1>4. ASSUME NEW st \in {"waiting", "yaml"}, Goto(st), disk' = disk,
             disk.temp \subseteq cmd.defers
      PROVE  CleanInv'
  <2>1. cmd'.stage = st /\ cmd'.defers = cmd.defers
    BY <1>1, <1>4, GotoFields
  <2> QED BY <2>1, <1>4 DEF CleanInv, CleanExit, At
<1>5. CASE ExportStart
  <2>1. Goto("waiting") /\ disk' = disk /\ cmd.stage = "export"
    BY <1>5 DEF ExportStart, At
  <2> QED BY <2>1, <1>3, <1>4
<1>6. CASE Waited
  <2>1. disk.temp \subseteq cmd.defers
    BY <1>2, <1>6 DEF Waited, At, CleanInv, Loose, Populating
  <2>2. CASE cmd.errs
    BY <2>1, <2>2, <1>1, <1>6, CleanReturn DEF Waited
  <2>3. CASE ~ cmd.errs
    BY <2>1, <2>3, <1>4, <1>6 DEF Waited
  <2> QED BY <2>2, <2>3
<1>7. ASSUME NEW S \in SUBSET Pkgs, Yaml(S) PROVE CleanInv'
  <2> DEFINE d == [disk EXCEPT !.yaml = @ \cup (S \X {cmd.nth})]
  <2>1. IsDisk(d) /\ d.temp = disk.temp
    BY <1>1 DEF IsDisk
  <2>2. cmd.stage = "yaml" /\ \E exit : Return(exit, d)
    BY <1>7 DEF Yaml, At
  <2> HIDE DEF d
  <2>3. PICK exit : Return(exit, d)
    BY <2>2
  <2>4. PICK X : X = {}
    BY ZenonT(30)
  <2>5. d.temp \subseteq cmd.defers \cup X /\ X \subseteq BundleTmps
    BY <2>1, <2>2, <2>4, <1>3
  <2> QED BY <2>1, <2>3, <2>4, <2>5, <1>1, CleanReturn
<1> QED BY <1>5, <1>6, <1>7 DEF ExportSteps

\* Every directory that an image is pulled into is one of cmd.pulled.
LEMMA CleanPull ==
    ASSUME TypeInv, AddInv, CleanInv, AddToRegistry \/ PullImage \/ PullFails \/ Pulled
    PROVE  CleanInv'
<1>1. IsCmd(cmd) /\ IsDisk(disk) /\ ErrsOf(cmd)
  BY DEF TypeInv
<1>2. cmd.stage \in {"add", "pull"} /\ ~ At("idle")
  BY ZenonT(30) DEF AddToRegistry, PullImage, PullFails, Pulled, At
<1>3. disk.temp \subseteq cmd.defers \cup cmd.pulled
  BY <1>1, <1>2 DEF CleanInv, Loose, Populating, ErrsOf
<1>4. ASSUME cmd'.stage \in {"pull", "find", "populate"},
             disk'.temp \subseteq cmd'.defers \cup cmd'.pulled
      PROVE  CleanInv'
  BY <1>4, LooseCases DEF CleanInv, CleanExit, At
<1>5. CASE AddToRegistry
  BY <1>1, <1>3, <1>4, <1>5 DEF AddToRegistry, IsCmd
<1>6. CASE PullImage
  <2> DEFINE x == BundleTmp(Head(cmd.todo))
  <2>1. disk'.temp = disk.temp \cup {x}
    BY <1>1, <1>6 DEF PullImage, IsDisk
  <2>2. /\ cmd'.pulled = cmd.pulled \cup {x} /\ cmd'.defers = cmd.defers
        /\ cmd'.stage = "pull"
    BY <1>1, <1>6 DEF PullImage, IsCmd, At
  <2> HIDE DEF x
  <2> QED BY <2>1, <2>2, <1>3, <1>4
<1>7. CASE PullFails
  <2> DEFINE x == BundleTmp(Head(cmd.todo))
             d == [disk EXCEPT !.temp = @ \cup {x}]
  <2>1. x \in BundleTmps
    <3>1. cmd.todo \in Seq(Bundles) /\ cmd.todo # <<>>
      BY <1>7 DEF PullFails, AddInv
    <3>2. Head(cmd.todo) \in Bundles
      BY <3>1
    <3> QED BY <3>2 DEF BundleTmps
  <2>2. PopulateReturns(d, TRUE)
    BY ZenonT(30), <1>7 DEF PullFails
  <2> HIDE DEF x
  <2>3. IsDisk(d) /\ d.temp = disk.temp \cup {x}
    BY <1>1 DEF IsDisk
  <2> HIDE DEF d
  <2>4. d.temp \subseteq cmd.defers \cup BundleTmps
    BY <2>1, <2>3, <1>3 DEF AddInv
  <2> QED BY ZenonT(30), <2>2, <2>3, <2>4, <1>1, CleanPopulateFails
<1>8. CASE Pulled
  <2>1. PICK st \in {"find", "populate"} : Goto(st)
    BY <1>8 DEF Pulled
  <2>2. disk' = disk
    BY <1>8 DEF Pulled
  <2> QED BY <2>1, <2>2, <1>1, <1>3, <1>4, GotoFields
<1> QED BY <1>5, <1>6, <1>7, <1>8

\* A bundle found in the graph makes no directory.
LEMMA CleanFind ==
    ASSUME TypeInv, AddInv, CleanInv, NEW b \in Bundles, FindNext(b)
    PROVE  CleanInv'
<1>1. IsCmd(cmd) /\ IsDisk(disk)
  BY DEF TypeInv
<1>2. cmd.stage = "find" /\ ~ At("idle")
  BY DEF FindNext, At
<1>3. disk.temp \subseteq cmd.defers \cup cmd.pulled
  BY <1>2, LooseCases DEF CleanInv, At
<1>4. CASE PopulateReturns(disk, TRUE)
  <2>1. disk.temp \subseteq cmd.defers \cup BundleTmps
    BY <1>3 DEF AddInv
  <2> QED BY ZenonT(30), <2>1, <1>1, <1>4, CleanPopulateFails
<1>5. CASE /\ disk' = disk /\ cmd'.stage \in {"find", "receive"}
           /\ cmd'.defers = cmd.defers /\ cmd'.pulled = cmd.pulled
  <2>1. cmd'.pulled \subseteq Loose(cmd', go')
    BY <1>5, LooseCases
  <2> QED BY <2>1, <1>3, <1>5 DEF CleanInv, CleanExit, At
<1>6. \/ PopulateReturns(disk, TRUE)
      \/ /\ disk' = disk /\ cmd'.stage \in {"find", "receive"}
         /\ cmd'.defers = cmd.defers /\ cmd'.pulled = cmd.pulled
  <2> DEFINE n == Cardinality(Listed(PkgOf[b]))
             seen == [cmd EXCEPT !.visited = @ \cup {b}]
  <2>1. CASE cmd' = seen /\ disk' = disk
    BY ZenonT(30), <2>1, <1>1, <1>2 DEF IsCmd
  <2>2. CASE /\ disk' = disk
             /\ cmd' = [seen EXCEPT !.stage = "receive", !.to = b,
                                    !.packages = @ \cup {PkgOf[b]}, !.wait = n]
    <3> HIDE DEF n
    <3> QED BY <2>2, <1>1 DEF IsCmd
  <2> QED BY ZenonT(30), <2>1, <2>2 DEF FindNext
<1> QED BY ZenonT(30), <1>4, <1>5, <1>6

\* Populate takes over the directory of the goroutine it hears of.
LEMMA CleanReceive ==
    ASSUME TypeInv, AddInv, CleanInv, NEW b \in Bundles, Receive(b)
    PROVE  CleanInv'
<1>1. IsCmd(cmd) /\ IsDisk(disk)
  BY DEF TypeInv
<1>2. /\ cmd.stage = "receive" /\ ~ At("idle") /\ b \in DOMAIN go
      /\ go' = [a \in DOMAIN go \ {b} |-> go[a]]
  BY DEF Receive, At
<1>3. disk.temp \subseteq cmd.defers \cup Loose(cmd, go)
  BY <1>2 DEF CleanInv
<1>4. CASE PopulateReturns(disk, TRUE)
  <2>1. cmd.req.kind = "add"
    BY <1>2, RunningRequest DEF StageOf
  <2>2. disk.temp \subseteq cmd.defers \cup BundleTmps
    BY <2>1, <1>2, <1>3, LooseTmps
  <2> QED BY ZenonT(30), <2>2, <1>1, <1>4, CleanPopulateFails
<1>5. CASE /\ disk' = disk
           /\ cmd' = [cmd EXCEPT
                !.overwrite = @ \cup {b},
                !.unpacked = @ \ {b},
                !.pulled = @ \cup (IF b = cmd.to THEN {} ELSE {BundleTmp(b)}),
                !.wait = @ - 1]
  <2> DEFINE new == IF b = cmd.to THEN {} ELSE {BundleTmp(b)}
             left == cmd.wait - 1
  <2>1. cmd' = [cmd EXCEPT !.overwrite = @ \cup {b}, !.unpacked = @ \ {b},
                           !.pulled = @ \cup new, !.wait = left]
    BY <1>5
  <2> HIDE DEF new, left
  <2>2. /\ cmd'.stage = "receive" /\ cmd'.defers = cmd.defers /\ cmd'.to = cmd.to
        /\ cmd'.pulled = cmd.pulled \cup new
    BY <2>1, <1>1, <1>2 DEF IsCmd
  <2>3. Loose(cmd, go) =
           cmd.pulled \cup
              {BundleTmp(x) : x \in {a \in DOMAIN go \ {cmd.to} : go[a] # "run"}}
    BY <1>2, LooseCases
  <2>4. Loose(cmd', go') =
           cmd'.pulled \cup
              {BundleTmp(x) : x \in {a \in DOMAIN go' \ {cmd'.to} : go'[a] # "run"}}
    BY <2>2, LooseCases
  <2>5. Loose(cmd, go) \subseteq Loose(cmd', go')
    <3> SUFFICES ASSUME NEW t \in Loose(cmd, go) PROVE t \in Loose(cmd', go')
      OBVIOUS
    <3>1. CASE t \in cmd.pulled
      BY <3>1, <2>2, <2>4
    <3>2. CASE t \notin cmd.pulled
      <4>1. PICK x \in DOMAIN go \ {cmd.to} : go[x] # "run" /\ t = BundleTmp(x)
        BY <3>2, <2>3
      <4>2. CASE x = b
        BY <4>1, <4>2, <2>2, <2>4 DEF new
      <4>3. CASE x # b
        <5>1. x \in {a \in DOMAIN go' \ {cmd'.to} : go'[a] # "run"}
          BY <4>1, <4>3, <2>2, <1>2
        <5> QED BY <4>1, <5>1, <2>4
      <4> QED BY <4>2, <4>3
    <3> QED BY <3>1, <3>2
  <2> QED BY <2>2, <2>5, <1>3, <1>5 DEF CleanInv, CleanExit, At
<1> QED BY ZenonT(30), <1>4, <1>5 DEF Receive

\* When populate is done, what it pulled is gone.
LEMMA CleanPopulate ==
    ASSUME TypeInv, AddInv, AddInv', CleanInv,
           Received \/ Found \/ Populate \/ PopulateFails
    PROVE  CleanInv'
<1>1. IsCmd(cmd) /\ IsDisk(disk) /\ ErrsOf(cmd)
  BY DEF TypeInv
<1>2. cmd.stage \in {"receive", "find", "populate"} /\ ~ At("idle") /\ go' = go
  BY ZenonT(30) DEF Received, Found, Populate, PopulateFails, At
<1>3. cmd.req.kind = "add" /\ ~ cmd.errs
  BY <1>1, <1>2, RunningRequest DEF StageOf, ErrsOf
<1>4. disk.temp \subseteq cmd.defers \cup Loose(cmd, go)
  BY <1>2 DEF CleanInv
<1>5. CASE Received \/ Found
  <2>1. PICK st \in {"find", "populate"} : Goto(st)
    BY <1>5 DEF Received, Found
  <2>2. /\ cmd'.stage = st /\ cmd'.req = cmd.req /\ cmd'.errs = cmd.errs
        /\ cmd'.pulled = cmd.pulled /\ cmd'.defers = cmd.defers /\ disk' = disk
    BY <2>1, <1>1, <1>5, GotoFields DEF Received, Found
  <2>3. go = NoGo
    BY <2>2, <1>2, <1>3 DEF AddInv, At
  <2>4. Loose(cmd, go) = cmd.pulled
    <3>1. DOMAIN go = {}
      BY <2>3 DEF NoGo
    <3>2. {a \in DOMAIN go \ {cmd.to} : go[a] # "run"} = {}
      BY <3>1
    <3>3. {BundleTmp(x) : x \in {a \in DOMAIN go \ {cmd.to} : go[a] # "run"}} = {}
      BY <3>2
    <3>4. CASE cmd.stage = "receive"
      BY <3>3, <3>4, LooseCases
    <3>5. CASE cmd.stage # "receive"
      BY <3>5, <1>2, LooseCases
    <3> QED BY <3>4, <3>5
  <2>5. Loose(cmd', go') = cmd.pulled
    BY <2>2, LooseCases
  <2> QED BY <2>2, <2>4, <2>5, <1>4 DEF CleanInv, CleanExit, At
<1>6. CASE Populate
  <2>0. PICK c : PopulateReturns([disk EXCEPT !.db = c], FALSE)
    BY ZenonT(30), <1>6 DEF Populate
  <2> DEFINE d == [disk EXCEPT !.db = c]
             e == [d EXCEPT !.temp = d.temp \ cmd.pulled]
  <2>1. disk' = e /\ Goto("write") /\ cmd.stage = "populate"
    BY ZenonT(30), <2>0, <1>6 DEF Populate, PopulateReturns, At
  <2>2. e.temp = disk.temp \ cmd.pulled
    BY <1>1 DEF IsDisk
  <2> HIDE DEF e
  <2>3. cmd'.stage = "write" /\ cmd'.errs = cmd.errs /\ cmd'.defers = cmd.defers
    BY <2>1, <1>1, GotoFields
  <2>4. Loose(cmd, go) = cmd.pulled
    BY <2>1, LooseCases
  <2> QED BY <2>1, <2>2, <2>3, <2>4, <1>4 DEF CleanInv, CleanExit, At
<1>7. CASE PopulateFails
  <2>1. PICK c : PopulateReturns([disk EXCEPT !.db = c], TRUE)
    BY ZenonT(30), <1>7 DEF PopulateFails
  <2>2. IsDisk([disk EXCEPT !.db = c]) /\ [disk EXCEPT !.db = c].temp = disk.temp
    BY <1>1 DEF IsDisk
  <2>3. disk.temp \subseteq cmd.defers \cup BundleTmps
    BY <1>2, <1>3, <1>4, LooseTmps
  <2> QED BY ZenonT(30), <2>1, <2>2, <2>3, <1>1, CleanPopulateFails
<1> QED BY <1>5, <1>6, <1>7

\* A step of a goroutine makes or removes only its own directory.
LEMMA CleanGo ==
    ASSUME TypeInv, AddInv, CleanInv, NEW b, GoStep(b)
    PROVE  CleanInv'
<1>1. IsCmd(cmd) /\ IsDisk(disk) /\ ErrsOf(cmd) /\ go = [a \in DOMAIN go |-> go[a]]
  BY DEF TypeInv
<1>2. ~ At("idle") /\ b \in DOMAIN go
  BY ZenonT(30) DEF GoStep, Unpack, Acquire, Exported, ExportFails, At, Running
<1>3. disk.temp \subseteq cmd.defers \cup Loose(cmd, go)
  BY <1>2 DEF CleanInv
<1>4. CASE Unpack(b)
  <2>1. /\ cmd' = cmd /\ cmd.req.kind = "add"
        /\ \E x \in {"ok", "fail"} : go' = [go EXCEPT ![b] = x]
    BY <1>4 DEF Unpack
  <2>2. disk'.temp = disk.temp \cup (IF b = cmd.to THEN {} ELSE {BundleTmp(b)})
    BY <1>1, <1>4 DEF Unpack, IsDisk
  <2>3. CASE cmd.stage = "receive"
    <3>1. \A L : L = Loose(cmd, go) =>
             L = cmd.pulled \cup
                {BundleTmp(x) : x \in {a \in DOMAIN go \ {cmd.to} : go[a] # "run"}}
      BY <2>3, LooseCases
    <3>2. Loose(cmd', go') =
             cmd.pulled \cup
                {BundleTmp(x) : x \in {a \in DOMAIN go' \ {cmd.to} : go'[a] # "run"}}
      BY ZenonT(30), <2>1, <2>3, LooseCases
    <3>3. DOMAIN go' = DOMAIN go /\ go'[b] # "run" /\
          \A a \in DOMAIN go : a # b => go'[a] = go[a]
      BY <2>1, <1>2
    <3>4. disk'.temp \subseteq cmd'.defers \cup Loose(cmd', go')
      <4> SUFFICES ASSUME NEW t \in disk'.temp, t \notin cmd.defers, t \notin cmd.pulled
                   PROVE  t \in Loose(cmd', go')
        BY ZenonT(30), <2>1, <3>2
      <4>1. CASE t \in disk.temp
        <5>1. PICK x \in DOMAIN go \ {cmd.to} : go[x] # "run" /\ t = BundleTmp(x)
          BY <4>1, <3>1, <1>3
        <5>2. x \in {a \in DOMAIN go' \ {cmd.to} : go'[a] # "run"}
          BY <5>1, <3>3
        <5> QED BY <5>1, <5>2, <3>2
      <4>2. CASE t \notin disk.temp
        <5>1. b # cmd.to /\ t = BundleTmp(b)
          BY <4>2, <2>2
        <5>2. b \in {a \in DOMAIN go' \ {cmd.to} : go'[a] # "run"}
          BY <5>1, <3>3, <1>2
        <5> QED BY <5>1, <5>2, <3>2
      <4> QED BY <4>1, <4>2
    <3> QED BY ZenonT(30), <2>1, <2>3, <3>4 DEF CleanInv, CleanExit, At
  <2>4. CASE cmd.stage # "receive"
    <3>1. cmd.errs /\ b \in Bundles
      <4>1. go # NoGo
        BY <1>2 DEF NoGo
      <4> QED BY <2>1, <2>4, <4>1, <1>2 DEF AddInv, At
    <3>2. cmd.stage \in {"write", "build"}
      BY <2>1, <3>1, <1>1, <1>2, RunningRequest DEF ErrsOf, StageOf, At
    <3>3. Loose(cmd, go) = BundleTmps /\ Loose(cmd', go') = BundleTmps
      BY <2>1, <3>1, <3>2 DEF Loose, Populating
    <3>4. disk'.temp \subseteq cmd.defers \cup BundleTmps
      BY <2>2, <3>1, <3>3, <1>3 DEF BundleTmps
    <3> QED BY <2>1, <3>2, <3>3, <3>4 DEF CleanInv, CleanExit, At
  <2> QED BY <2>3, <2>4
<1>5. CASE Acquire(b) \/ Exported(b) \/ ExportFails(b)
  <2>1. cmd.stage = "waiting" /\ cmd'.stage = "waiting" /\ cmd'.defers = cmd.defers
    BY ZenonT(30), <1>1, <1>5 DEF Acquire, Exported, ExportFails, At, IsCmd
  <2>2. Loose(cmd, go) = {BundleTmp(x) : x \in {a \in DOMAIN go : go[a] = "run"}}
    BY <2>1 DEF Loose, Populating
  <2>3. Loose(cmd', go') = {BundleTmp(x) : x \in {a \in DOMAIN go' : go'[a] = "run"}}
    BY <2>1 DEF Loose, Populating
  <2>4. \/ go' = [go EXCEPT ![b] = "run"] /\ disk'.temp = disk.temp \cup {BundleTmp(b)}
        \/ go' = [go EXCEPT ![b] = "done"] /\ disk'.temp = disk.temp \ {BundleTmp(b)}
    <3>1. CASE Acquire(b)
      BY <3>1, <1>1 DEF Acquire, IsDisk
    <3>2. CASE Exported(b)
      BY <3>2, <1>1 DEF Exported, IsDisk
    <3>3. CASE ExportFails(b)
      BY <3>3, <1>1 DEF ExportFails, IsDisk
    <3> QED BY <1>5, <3>1, <3>2, <3>3
  <2>5. disk'.temp \subseteq cmd.defers \cup Loose(cmd', go')
    <3> SUFFICES ASSUME NEW t \in disk'.temp, t \notin cmd.defers
                 PROVE  t \in Loose(cmd', go')
      OBVIOUS
    <3>1. CASE t = BundleTmp(b)
      <4>1. go' = [go EXCEPT ![b] = "run"]
        BY <2>4, <3>1
      <4>2. b \in {a \in DOMAIN go' : go'[a] = "run"}
        BY <4>1, <1>2
      <4> QED BY <3>1, <4>2, <2>3
    <3>2. CASE t # BundleTmp(b)
      <4>1. t \in disk.temp
        BY <2>4, <3>2
      <4>2. PICK x \in DOMAIN go : go[x] = "run" /\ t = BundleTmp(x)
        BY <4>1, <2>2, <1>3
      <4>3. x \in {a \in DOMAIN go' : go'[a] = "run"}
        BY <4>2, <2>4, <3>2
      <4> QED BY <4>2, <4>3, <2>3
    <3> QED BY <3>1, <3>2
  <2> QED BY <2>1, <2>5 DEF CleanInv, CleanExit, At
<1> QED BY <1>4, <1>5 DEF GoStep

-----------------------------------------------------------------------------
(***************************************************************************)
(* What an export writes                                                   *)
(***************************************************************************)

Written(n, d, b) == \E dir \in DirsOf(b) : <<PkgOf[b], dir, b, n>> \in d.exported

KeyOf(b) == IF b \in Imageless THEN NULL ELSE b

\* The inductive invariant, on top of TypeInv: a goroutine that is done has
\* recorded an error or written its bundle.
ExportInv ==
    /\ \A x \in disk.exported :
          \E b \in Bundles : \E dir \in DirsOf(b) : \E n : x = <<PkgOf[b], dir, b, n>>
    /\ At("waiting") => \A b \in ToExport :
          /\ KeyOf(b) \in DOMAIN go
          /\ go[KeyOf(b)] = "done" => cmd.errs \/ Written(cmd.nth, disk, b)
    /\ At("yaml") => \A b \in ToExport : Written(cmd.nth, disk, b)
    /\ ExportIsComplete

\* The directory of a bundle is not that of another version.
LEMMA DirLemma ==
    ASSUME NEW a \in Bundles, NEW b \in Bundles, DirsOf(a) \cap DirsOf(b) # {}
    PROVE  VersionOf[a] = VersionOf[b]
BY IndexerAssumption DEF DirsOf

\* What the other commands do is of no concern to an export.
LEMMA ExportOther ==
    ASSUME TypeInv', ExportInv, disk'.exported = disk.exported, cmd'.req = cmd.req,
           cmd.req.kind # "export"
    PROVE  ExportInv'
<1>1. cmd'.stage # "waiting" /\ cmd'.stage # "yaml"
  BY DEF TypeInv, StageOf, At
<1> QED BY <1>1 DEF ExportInv, ExportIsComplete, At

\* A call that fails leaves the request and the exported manifests alone.
LEMMA FailsExport ==
    ASSUME IsCmd(cmd), NEW d, IsDisk(d), CallFails(d) \/ PopulateReturns(d, TRUE)
    PROVE  cmd'.req = cmd.req /\ disk'.exported = d.exported
<1>1. ASSUME NEW e, IsDisk(e), CallFails(e)
      PROVE  cmd'.req = cmd.req /\ disk'.exported = e.exported
  <2>1. CASE cmd.req.permissive
    BY ZenonT(30), <1>1, <2>1 DEF CallFails, IsCmd
  <2>2. CASE ~ cmd.req.permissive
    BY ZenonT(30), <1>1, <2>2, ReturnFields DEF CallFails
  <2> QED BY <2>1, <2>2
<1> DEFINE e == [d EXCEPT !.temp = d.temp \ cmd.pulled]
<1>2. IsDisk(e) /\ e.exported = d.exported
  BY DEF IsDisk
<1>3. PopulateReturns(d, TRUE) => CallFails(e)
  BY DEF PopulateReturns
<1> HIDE DEF e
<1> QED BY ZenonT(30), <1>1, <1>2, <1>3

\* The steps of the index commands leave the exported manifests alone.
LEMMA ExportFrame ==
    ASSUME TypeInv, RemoveSteps \/ DeprecateSteps \/ PullSteps \/ Populate
                    \/ PopulateFails \/ BuildSteps
    PROVE  /\ disk'.exported = disk.exported /\ cmd'.req = cmd.req
           /\ cmd.req.kind # "export"
<1>1. IsCmd(cmd) /\ IsDisk(disk)
  BY DEF TypeInv
<1>2. cmd.stage \in {"rm", "prune", "prune-stranded", "remove", "strand", "deprecate",
                     "check", "deprecating", "add", "write", "build"} \cup Populating
  <2>1. CASE RemoveSteps
    BY ZenonT(30), <2>1 DEF RemoveSteps, DeleteFromRegistry, PruneFromRegistry,
       PruneStrandedFromRegistry, Remove, RemoveFails, Removed, StrandedRemoved,
       StrandFails, At
  <2>2. CASE DeprecateSteps
    BY ZenonT(30), <2>2
       DEF DeprecateSteps, DeprecateFromRegistry, CheckPaths, CheckFails, Deprecate,
       DeprecateRefused, DeprecateFails, Deprecated, At
  <2>3. CASE PullSteps
    BY ZenonT(30), <2>3
       DEF PullSteps, AddToRegistry, PullImage, PullFails, Pulled, FindNext, Receive,
       Received, Found, At, Populating
  <2>4. CASE Populate \/ PopulateFails \/ BuildSteps
    BY ZenonT(30), <2>4
       DEF Populate, PopulateFails, BuildSteps, FileUpdated, Write, WriteFails, Build,
       BuildFails, At, Populating
  <2> QED BY <2>1, <2>2, <2>3, <2>4
<1>3. cmd.req.kind # "export"
  <2>1. ~ At("idle")
    BY <1>2 DEF At, Populating
  <2> QED BY <2>1, <1>2, RunningRequest DEF StageOf, Kinds, Populating
<1> SUFFICES disk'.exported = disk.exported /\ cmd'.req = cmd.req
  BY <1>3
<1>4. ASSUME NEW d, IsDisk(d), d.exported = disk.exported,
             \/ CallFails(d) \/ PopulateReturns(d, TRUE)
             \/ \E exit : Return(exit, d)
             \/ disk' = d /\ \E st : Goto(st)
      PROVE  disk'.exported = disk.exported /\ cmd'.req = cmd.req
  BY ZenonT(30), <1>1, <1>4, FailsExport, ReturnFields, GotoFields
<1>5. ASSUME NEW v, disk' = [disk EXCEPT !.db = v] \/ disk' = [disk EXCEPT !.temp = v]
      PROVE  disk'.exported = disk.exported
  BY <1>1, <1>5 DEF IsDisk
<1>6. CASE RemoveSteps
  <2>1. CASE DeleteFromRegistry \/ PruneFromRegistry
    BY ZenonT(30), <2>1, <1>1 DEF DeleteFromRegistry, PruneFromRegistry, IsCmd
  <2>2. CASE PruneStrandedFromRegistry \/ Removed \/ StrandFails
    BY ZenonT(30), <2>2, <1>1, <1>4 DEF PruneStrandedFromRegistry, Removed, StrandFails
  <2>3. CASE Remove
    BY <2>3, <1>1, <1>5 DEF Remove, IsCmd
  <2>4. CASE RemoveFails
    BY ZenonT(30), <2>4, <1>1, <1>5 DEF RemoveFails, Die, IsCmd
  <2>5. CASE StrandedRemoved
    BY <2>5, <1>1, <1>5, GotoFields DEF StrandedRemoved
  <2> QED BY <1>6, <2>1, <2>2, <2>3, <2>4, <2>5 DEF RemoveSteps
<1>7. CASE DeprecateSteps
  <2>1. CASE DeprecateFromRegistry \/ DeprecateFails \/ Deprecated
    BY ZenonT(30), <2>1, <1>1, <1>4 DEF DeprecateFromRegistry, DeprecateFails, Deprecated
  <2>2. CASE CheckPaths \/ CheckFails
    <3>1. CASE Return("error", disk)
      BY ZenonT(30), <3>1, <1>1, <1>4
    <3>2. CASE /\ disk' = disk
               /\ \E s, e : cmd' = [cmd EXCEPT !.stage = "deprecating", !.todo = s,
                                               !.errs = e]
      BY <3>2, <1>1 DEF IsCmd
    <3> QED BY ZenonT(30), <2>2, <3>1, <3>2 DEF CheckPaths, CheckFails
  <2>3. CASE Deprecate
    <3>1. disk' = disk \/ \E S, T, b : disk' = [disk EXCEPT !.db.stored = @ \ S,
                                                           !.db.listed = @ \ T,
                                                           !.db.deprecated = @ \cup {b}]
      BY ZenonT(30), <2>3 DEF Deprecate
    <3>2. disk'.exported = disk.exported
      BY ZenonT(30), <3>1, <1>1 DEF IsDisk
    <3> QED BY ZenonT(30), <2>3, <3>2, <1>1 DEF Deprecate, IsCmd
  <2>4. CASE DeprecateRefused
    BY <2>4, <1>1 DEF DeprecateRefused, IsCmd
  <2> QED BY <1>7, <2>1, <2>2, <2>3, <2>4 DEF DeprecateSteps
<1>8. CASE PullSteps
  <2>1. CASE AddToRegistry
    BY <2>1, <1>1 DEF AddToRegistry, IsCmd
  <2>2. CASE PullImage
    BY <2>2, <1>1, <1>5 DEF PullImage, IsCmd
  <2>3. CASE PullFails
    <3> DEFINE d == [disk EXCEPT !.temp = @ \cup {BundleTmp(Head(cmd.todo))}]
    <3>1. IsDisk(d) /\ d.exported = disk.exported
      BY <1>1 DEF IsDisk
    <3>2. PopulateReturns(d, TRUE)
      BY ZenonT(30), <2>3 DEF PullFails
    <3> HIDE DEF d
    <3> QED BY ZenonT(30), <3>1, <3>2, <1>4
  <2>4. CASE Pulled \/ Received \/ Found
    BY ZenonT(30), <2>4, <1>1, <1>4 DEF Pulled, Received, Found
  <2>5. ASSUME NEW b \in Bundles, FindNext(b)
        PROVE  disk'.exported = disk.exported /\ cmd'.req = cmd.req
    <3> DEFINE seen == [cmd EXCEPT !.visited = @ \cup {b}]
               n == Cardinality(Listed(PkgOf[b]))
    <3>1. CASE PopulateReturns(disk, TRUE)
      BY ZenonT(30), <3>1, <1>1, <1>4
    <3>2. CASE disk' = disk /\ cmd' = seen
      BY <3>2, <1>1 DEF IsCmd
    <3>3. CASE disk' = disk /\ cmd' = [seen EXCEPT !.stage = "receive", !.to = b,
                                                !.packages = @ \cup {PkgOf[b]},
                                                !.wait = n]
      <4> HIDE DEF n
      <4> QED BY <3>3, <1>1 DEF IsCmd
    <3> QED BY ZenonT(30), <2>5, <3>1, <3>2, <3>3 DEF FindNext
  <2>6. ASSUME NEW b \in Bundles, Receive(b)
        PROVE  disk'.exported = disk.exported /\ cmd'.req = cmd.req
    <3>1. CASE PopulateReturns(disk, TRUE)
      BY ZenonT(30), <3>1, <1>1, <1>4
    <3>2. CASE ~ PopulateReturns(disk, TRUE)
      BY ZenonT(30), <2>6, <3>2, <1>1 DEF Receive, IsCmd
    <3> QED BY ZenonT(30), <3>1, <3>2
  <2> QED BY <1>8, <2>1, <2>2, <2>3, <2>4, <2>5, <2>6 DEF PullSteps
<1>9. CASE Populate
  <2>0. PICK c : PopulateReturns([disk EXCEPT !.db = c], FALSE)
    BY ZenonT(30), <1>9 DEF Populate
  <2> DEFINE d == [disk EXCEPT !.db = c]
             e == [d EXCEPT !.temp = d.temp \ cmd.pulled]
  <2>1. disk' = e /\ Goto("write")
    BY <2>0 DEF PopulateReturns
  <2>2. e.exported = disk.exported
    BY <1>1 DEF IsDisk
  <2> HIDE DEF e
  <2> QED BY <2>1, <2>2, <1>1, GotoFields
<1>10. CASE PopulateFails
  <2>1. PICK c : PopulateReturns([disk EXCEPT !.db = c], TRUE)
    BY ZenonT(30), <1>10 DEF PopulateFails
  <2>2. IsDisk([disk EXCEPT !.db = c]) /\ [disk EXCEPT !.db = c].exported = disk.exported
    BY <1>1 DEF IsDisk
  <2> QED BY ZenonT(30), <2>1, <2>2, <1>4
<1>11. CASE BuildSteps
  <2> DEFINE d == [disk EXCEPT !.dockerfile = cmd.nth]
  <2>1. IsDisk(d) /\ d.exported = disk.exported
    BY Zenon, <1>1, DockerfileWritten
  <2>2. \/ \E exit : Return(exit, disk)
        \/ \E exit : Return(exit, d)
        \/ disk' = d /\ \E st : Goto(st)
    BY <1>11 DEF BuildSteps, FileUpdated, Write, WriteFails, Build, BuildFails
  <2> HIDE DEF d
  <2> QED BY ZenonT(30), <2>1, <2>2, <1>1, <1>4
<1> QED BY <1>6, <1>7, <1>8, <1>9, <1>10, <1>11

\* A process that starts, and what comes before an export.
LEMMA ExportBefore ==
    ASSUME TypeInv, ExportInv,
           NextCommand \/ Kill \/ ContextSteps \/ \E r \in Requests : Starts(r)
    PROVE  ExportInv'
<1>1. IsCmd(cmd) /\ IsDisk(disk) /\ NULL # "ok"
  BY IndexerAssumption DEF TypeInv
<1>2. ASSUME disk'.exported \subseteq disk.exported,
             cmd'.stage \notin {"waiting", "yaml"}, cmd'.exit # "ok"
      PROVE  ExportInv'
  BY <1>2 DEF ExportInv, ExportIsComplete, At
<1>3. CASE NextCommand
  <2>1. cmd'.stage = "idle" /\ cmd'.exit = NULL
    BY <1>3 DEF NextCommand, NoCmd
  <2>2. disk'.exported = disk.exported
    BY <1>1, <1>3, DiskFields DEF NextCommand
  <2> QED BY <2>1, <2>2, <1>1, <1>2
<1>4. CASE Kill
  BY <1>1, <1>2, <1>4 DEF Kill, Die, IsCmd
<1>5. ASSUME NEW r \in Requests, Starts(r) PROVE ExportInv'
  <2>1. r.kind \in Kinds
    BY RequestFields
  <2> QED BY ZenonT(30), <2>1, <1>1, <1>2, <1>5, StartFields DEF Kinds
<1>6. CASE ContextSteps
  <2>1. ~ At("idle")
    BY <1>6 DEF ContextSteps, Context, ContextFails, ContextPanics, Extract, Extracted,
                ExtractFails, OpenFails, At
  <2>2. cmd.exit = NULL /\ cmd.req.kind \in Kinds
    BY <2>1, RunningRequest, RequestFields DEF TypeInv
  <2>3. CASE ContextFails \/ ExtractFails \/ OpenFails
    <3>1. Return("error", disk)
      BY <2>3 DEF ContextFails, ExtractFails, OpenFails
    <3>2. cmd'.stage = "idle" /\ cmd'.exit = "error" /\ disk'.exported = disk.exported
      BY ZenonT(30), <3>1, <1>1, ReturnFields
    <3> QED BY <3>2, <1>2
  <2>4. CASE ContextPanics
    BY <2>4, <1>1, <1>2 DEF ContextPanics, Die, IsCmd
  <2>5. CASE Context
    <3>1. disk'.exported = disk.exported
      BY <2>5, <1>1 DEF Context, IsDisk
    <3>2. cmd'.stage = "extract" /\ cmd'.exit = cmd.exit
      BY <2>5, <1>1 DEF Context, IsCmd
    <3> QED BY <3>1, <3>2, <2>2, <1>1, <1>2
  <2>6. CASE Extract
    <3>1. disk'.exported = disk.exported
      BY <2>6, <1>1 DEF Extract, IsDisk
    <3>2. cmd'.stage = "extracted" /\ cmd'.exit = cmd.exit
      BY <2>6, <1>1 DEF Extract, IsCmd
    <3> QED BY <3>1, <3>2, <2>2, <1>1, <1>2
  <2>7. CASE Extracted
    <3>1. disk'.exported = disk.exported
      BY <2>7, <1>1 DEF Extracted, IsDisk
    <3>2. cmd'.stage = cmd.req.kind /\ cmd'.exit = cmd.exit
      BY <2>7, <1>1 DEF Extracted, IsCmd
    <3> QED BY <3>1, <3>2, <2>2, <1>1, <1>2 DEF Kinds
  <2> QED BY <1>6, <2>3, <2>4, <2>5, <2>6, <2>7 DEF ContextSteps
<1> QED BY <1>3, <1>4, <1>5, <1>6

\* A goroutine of an export that is done has written, or has set errs.
LEMMA ExportGo ==
    ASSUME TypeInv, TypeInv', ExportInv, NEW k \in Bundles \cup {NULL}, GoStep(k)
    PROVE  ExportInv'
<1>1. IsCmd(cmd) /\ IsDisk(disk) /\ ErrsOf(cmd) /\ go = [a \in DOMAIN go |-> go[a]]
  BY DEF TypeInv
<1>2. CASE Unpack(k)
  <2>1. disk'.exported = disk.exported /\ cmd' = cmd /\ cmd.req.kind # "export"
    BY <1>1, <1>2 DEF Unpack, IsDisk
  <2> QED BY <2>1, ExportOther
<1>3. CASE Acquire(k) \/ Exported(k) \/ ExportFails(k)
  <2>1. /\ cmd.stage = "waiting" /\ cmd'.stage = "waiting" /\ cmd'.req = cmd.req
        /\ cmd'.errs = cmd.errs \/ cmd'.errs = TRUE
        /\ cmd'.nth = cmd.nth
    BY ZenonT(30), <1>1, <1>3 DEF Acquire, Exported, ExportFails, At, IsCmd
  <2>2. disk'.db = disk.db
    BY ZenonT(30), <1>1, <1>3 DEF Acquire, Exported, ExportFails, IsDisk
  <2>3. ToExport' = ToExport
    BY <2>1, <2>2 DEF ToExport, ExportPkgs
  <2>4. /\ disk.exported \subseteq disk'.exported
        /\ \A x \in disk'.exported : x \in disk.exported \/
              \E b \in Bundles : \E dir \in DirsOf(b) : \E n :
                 x = <<PkgOf[b], dir, b, n>>
        /\ Exported(k) => k \in Bundles /\ Written(cmd.nth, disk', k)
    <3>1. CASE Acquire(k)
      BY <3>1, <1>1 DEF Acquire, Exported, Running, IsDisk
    <3>2. CASE Exported(k)
      <4>1. PICK dir \in DirsOf(k) :
               disk' = [disk EXCEPT !.exported = @ \cup {<<PkgOf[k], dir, k, cmd.nth>>},
                                    !.temp = @ \ {BundleTmp(k)}]
        BY ZenonT(30), <3>2 DEF Exported
      <4>2. disk'.exported = disk.exported \cup {<<PkgOf[k], dir, k, cmd.nth>>}
        BY <4>1, <1>1 DEF IsDisk
      <4>3. k \in Bundles
        BY <3>2 DEF Exported
      <4> QED BY <4>2, <4>3 DEF Written
    <3>3. CASE ExportFails(k) /\ ~ Exported(k)
      BY <3>3, <1>1 DEF ExportFails, IsDisk
    <3> QED BY <1>3, <3>1, <3>2, <3>3
  <2>5. /\ DOMAIN go' = DOMAIN go
        /\ \A a \in DOMAIN go : a # k => go'[a] = go[a]
        /\ k \in DOMAIN go
        /\ go'[k] = "run" \/ (go'[k] = "done" /\ (cmd'.errs \/ (Exported(k) /\ k # NULL)))
    <3>1. CASE Acquire(k)
      BY <3>1 DEF Acquire
    <3>2. CASE Exported(k)
      BY ZenonT(30), <3>2 DEF Exported, Running
    <3>3. CASE ExportFails(k)
      BY <3>3, <1>1 DEF ExportFails, Running, IsCmd
    <3> QED BY <1>3, <3>1, <3>2, <3>3
  <2>6. ASSUME NEW b \in ToExport
        PROVE  /\ KeyOf(b) \in DOMAIN go'
               /\ go'[KeyOf(b)] = "done" => cmd'.errs \/ Written(cmd.nth, disk', b)
    <3>1. KeyOf(b) \in DOMAIN go /\ (go[KeyOf(b)] = "done" => cmd.errs \/ Written(cmd.nth, disk, b))
      BY <2>1 DEF ExportInv, At
    <3>2. Written(cmd.nth, disk, b) => Written(cmd.nth, disk', b)
      BY <2>4 DEF Written
    <3>3. CASE KeyOf(b) # k
      BY ZenonT(30), <3>1, <3>2, <3>3, <2>1, <2>5 DEF TypeInv, ErrsOf
    <3>4. CASE KeyOf(b) = k
      <4>1. k # NULL => k = b
        BY ZenonT(30), <3>4 DEF KeyOf
      <4> QED BY <3>4, <4>1, <2>4, <2>5
    <3> QED BY ZenonT(30), <3>1, <3>3, <3>4, <2>5
  <2>7. \A x \in disk'.exported :
           \E b \in Bundles : \E dir \in DirsOf(b) : \E n : x = <<PkgOf[b], dir, b, n>>
    BY <2>4 DEF ExportInv
  <2> QED BY <2>1, <2>3, <2>6, <2>7 DEF ExportInv, ExportIsComplete, At
<1> QED BY <1>2, <1>3 DEF GoStep

\* The export waits for all of its goroutines before it succeeds.
LEMMA ExportEnds ==
    ASSUME TypeInv, ExportInv, ExportSteps
    PROVE  ExportInv'
<1>1. IsCmd(cmd) /\ IsDisk(disk) /\ ErrsOf(cmd)
  BY DEF TypeInv
<1>2. CASE ExportStart
  <2>1. disk' = disk /\ cmd'.stage = "waiting" /\ cmd'.req = cmd.req
    BY <1>1, <1>2, GotoFields DEF ExportStart
  <2>2. ToExport' = ToExport
    BY <2>1 DEF ToExport, ExportPkgs
  <2> DEFINE K == {IF b \in Imageless THEN NULL ELSE b : b \in ToExport}
  <2>3. \A b \in ToExport : KeyOf(b) \in K
    BY DEF KeyOf
  <2>4. go' = [k \in K |-> "new"]
    BY <1>2 DEF ExportStart
  <2> HIDE DEF K
  <2>5. \A b \in ToExport : KeyOf(b) \in DOMAIN go' /\ go'[KeyOf(b)] # "done"
    BY <2>3, <2>4
  <2> QED BY <2>1, <2>2, <2>5 DEF ExportInv, ExportIsComplete, At
<1>3. CASE Waited
  <2>1. /\ cmd.stage = "waiting" /\ \A b \in DOMAIN go : go[b] = "done"
        /\ IF cmd.errs THEN Return("error", disk) ELSE Goto("yaml") /\ disk' = disk
    BY <1>3 DEF Waited, At
  <2>2. CASE cmd.errs
    <3>1. cmd'.stage = "idle" /\ cmd'.exit = "error" /\ disk'.exported = disk.exported
      BY ZenonT(30), <2>1, <2>2, <1>1, ReturnFields
    <3> QED BY <3>1 DEF ExportInv, ExportIsComplete, At
  <2>3. CASE ~ cmd.errs
    <3>1. cmd'.stage = "yaml" /\ disk' = disk /\ cmd'.req = cmd.req /\ cmd'.nth = cmd.nth
      BY <2>1, <2>3, <1>1, GotoFields
    <3>2. ToExport' = ToExport
      BY <3>1 DEF ToExport, ExportPkgs
    <3>3. \A b \in ToExport : Written(cmd.nth, disk, b)
      BY <2>1, <2>3 DEF ExportInv, At
    <3> QED BY ZenonT(30), <3>1, <3>2, <3>3 DEF ExportInv, ExportIsComplete, At, Written
  <2> QED BY <2>2, <2>3
<1>4. ASSUME NEW S \in SUBSET Pkgs, Yaml(S) PROVE ExportInv'
  <2> DEFINE d == [disk EXCEPT !.yaml = @ \cup (S \X {cmd.nth})]
  <2>1. /\ IsDisk(d) /\ d.db = disk.db /\ d.exported = disk.exported
        /\ S \X {cmd.nth} \subseteq d.yaml
    BY <1>1 DEF IsDisk
  <2>2. cmd.stage = "yaml" /\ Return(IF S = ExportPkgs THEN "ok" ELSE "error", d)
    BY <1>4 DEF Yaml, At
  <2> HIDE DEF d
  <2>3. /\ cmd'.stage = "idle" /\ cmd'.exit = (IF S = ExportPkgs THEN "ok" ELSE "error")
        /\ cmd'.req = cmd.req /\ disk'.db = disk.db /\ disk'.exported = disk.exported
        /\ disk'.yaml = d.yaml /\ cmd'.nth = cmd.nth
    BY ZenonT(30), <2>1, <2>2, <1>1, ReturnFields
  <2>4. ToExport' = ToExport /\ ExportPkgs' = ExportPkgs
    BY <2>3 DEF ToExport, ExportPkgs
  <2>5. ASSUME NEW b \in ToExport
        PROVE  \E x \in disk.exported :
                  /\ x[1] = PkgOf[b] /\ x[3] = b /\ x[4] = cmd.nth
                  /\ \A y \in disk.exported :
                        y[1] = x[1] /\ y[2] = x[2] => VersionOf[y[3]] = VersionOf[b]
    <3>1. PICK dir \in DirsOf(b) : <<PkgOf[b], dir, b, cmd.nth>> \in disk.exported
      BY ZenonT(30), <2>2 DEF ExportInv, At, Written
    <3>2. b \in Bundles
      BY DEF ToExport, TypeInv, Content
    <3>3. ASSUME NEW y \in disk.exported, y[2] = dir
          PROVE  VersionOf[y[3]] = VersionOf[b]
      <4>1. PICK a \in Bundles : \E f \in DirsOf(a) : \E n : y = <<PkgOf[a], f, a, n>>
        BY DEF ExportInv
      <4>2. y[3] = a /\ dir \in DirsOf(a)
        BY <4>1, <3>3
      <4> QED BY <4>2, <3>2, DirLemma
    <3> QED BY <3>1, <3>3
  <2>6. ASSUME S = ExportPkgs, NEW p \in ExportPkgs PROVE <<p, cmd.nth>> \in disk'.yaml
    BY <2>1, <2>3, <2>6
  <2>7. ExportIsComplete'
    BY <2>3, <2>4, <2>5, <2>6 DEF ExportIsComplete
  <2> QED BY <2>3, <2>7 DEF ExportInv, At
<1> QED BY <1>2, <1>3, <1>4 DEF ExportSteps

-----------------------------------------------------------------------------
(***************************************************************************)
(* What a command does to the database                                     *)
(***************************************************************************)

\* The packages that a command removes.
Target(c) ==
    IF c.req.kind = "rm" THEN ToSet(c.req.args)
    ELSE Packages(c.base) \ ToSet(c.req.args)

Kept(c) == {b \in c.base.listed : PkgOf[b] \notin Target(c)}

Removing(c, d) ==
    /\ c.todo \in Seq(Pkgs) /\ ToSet(c.todo) \subseteq Target(c)
    /\ Kept(c) \subseteq d.listed /\ d.listed \subseteq c.base.listed
    /\ \A b \in d.listed : PkgOf[b] \in Target(c) => PkgOf[b] \in ToSet(c.todo)

Deprecating(c, d) ==
    /\ c.todo \in Seq(Bundles)
    /\ c.base.listed # {} => \A b \in ToSet(c.req.args) :
          b \in ToSet(c.todo) \/ b \in d.deprecated \/ b \notin d.stored

\* The stages of a registry call before it writes.
Reading ==
    {"add", "rm", "prune", "prune-stranded", "deprecate", "check"} \cup Populating

\* How far a command is that has met no error, or stops at the first.
Progress(c, d) ==
    /\ c.base \in Content
    /\ c.stage \in Reading => d.db = c.base
    /\ c.stage = "pull" => c.unpacked \cup ToSet(c.todo) = ToSet(c.req.args)
    /\ c.stage \in {"find", "receive", "populate"} =>
          /\ ToSet(c.req.args) \subseteq c.unpacked \cup c.overwrite
          /\ c.unpacked \subseteq ToSet(c.req.args)
          /\ c.packages \subseteq PkgsOf(ToSet(c.req.args))
    /\ ~ c.req.permissive =>
          /\ c.stage = "remove" => Removing(c, d.db)
          /\ c.stage = "strand" /\ c.req.kind = "rm" => d.db.listed = Kept(c)
          /\ c.stage = "strand" /\ c.req.kind # "rm" => d.db = c.base
          /\ c.stage = "deprecating" /\ ~ c.errs => Deprecating(c, d.db)
          /\ c.stage \in {"write", "build"} => Applied(c.req, c.base, d.db)
    /\ c.stage = "build" => d.dockerfile = c.nth

\* The inductive invariant, on top of TypeInv and AddInv.
ApplyInv == Progress(cmd, disk) /\ SuccessMeansApplied

\* The elements of a sequence are its head and those of its tail.
LEMMA ToSetTail ==
    ASSUME NEW S, NEW s \in Seq(S), s # <<>>
    PROVE  /\ ToSet(s) = {Head(s)} \cup ToSet(Tail(s))
           /\ Head(s) \in S /\ Tail(s) \in Seq(S)
<1>1. Head(s) \in S /\ Tail(s) \in Seq(S) /\ Head(s) = s[1] /\ 1 \in DOMAIN s
  OBVIOUS
<1>2. \A i \in DOMAIN Tail(s) : Tail(s)[i] = s[i + 1] /\ i + 1 \in DOMAIN s
  OBVIOUS
<1>3. \A i \in DOMAIN s : i = 1 \/ (i - 1 \in DOMAIN Tail(s) /\ Tail(s)[i - 1] = s[i])
  OBVIOUS
<1>4. ToSet(s) \subseteq {Head(s)} \cup ToSet(Tail(s))
  <2> SUFFICES ASSUME NEW i \in DOMAIN s
               PROVE  s[i] \in {Head(s)} \cup ToSet(Tail(s))
    BY DEF ToSet
  <2>1. CASE i = 1
    BY <2>1, <1>1
  <2>2. CASE i # 1
    <3>1. i - 1 \in DOMAIN Tail(s) /\ Tail(s)[i - 1] = s[i]
      BY <2>2, <1>3
    <3> QED BY Zenon, <3>1 DEF ToSet
  <2> QED BY <2>1, <2>2
<1>5. {Head(s)} \cup ToSet(Tail(s)) \subseteq ToSet(s)
  BY <1>1, <1>2 DEF ToSet
<1> QED BY <1>1, <1>4, <1>5

\* Steps that end the command without success.
LEMMA ApplyEnd ==
    ASSUME ApplyInv, cmd'.stage = "idle", cmd'.exit # "ok", cmd'.base = cmd.base
    PROVE  ApplyInv'
BY ZenonT(30) DEF ApplyInv, Progress, SuccessMeansApplied, At, Reading, Populating

\* A command that returns an error promises nothing about the index.
LEMMA ApplyReturn ==
    ASSUME IsCmd(cmd), NEW d, IsDisk(d), ApplyInv, Return("error", d)
    PROVE  ApplyInv'
<1>1. cmd'.stage = "idle" /\ cmd'.exit = "error" /\ cmd'.base = cmd.base
  BY ZenonT(30), ReturnFields
<1> QED BY <1>1, ApplyEnd

\* Nor does a call that fails, permissive or not.
LEMMA ApplyFails ==
    ASSUME IsCmd(cmd), NEW d, IsDisk(d), ApplyInv, CallFails(d)
    PROVE  ApplyInv'
<1>1. CASE cmd.req.permissive
  <2>1. cmd'.stage = "write" /\ cmd'.req = cmd.req /\ cmd'.base = cmd.base
    BY ZenonT(30), <1>1 DEF CallFails, IsCmd
  <2> QED BY ZenonT(30), <1>1, <2>1 DEF ApplyInv, Progress, SuccessMeansApplied, At, Reading, Populating
<1>2. CASE ~ cmd.req.permissive
  BY <1>2, ApplyReturn DEF CallFails
<1> QED BY ZenonT(30), <1>1, <1>2

\* Nor does a populate that fails.
LEMMA ApplyPopulateFails ==
    ASSUME IsCmd(cmd), NEW d, IsDisk(d), ApplyInv, PopulateReturns(d, TRUE)
    PROVE  ApplyInv'
<1> DEFINE e == [d EXCEPT !.temp = d.temp \ cmd.pulled]
<1>1. IsDisk(e)
  BY ZenonT(30), DiskFields
<1>2. CallFails(e)
  BY DEF PopulateReturns
<1> HIDE DEF e
<1> QED BY <1>1, <1>2, ApplyFails

\* Steps that go on.
LEMMA ApplyGoesOn ==
    ASSUME cmd'.stage # "idle", Progress(cmd, disk)'
    PROVE  ApplyInv'
BY DEF ApplyInv, SuccessMeansApplied, At

\* Steps that begin a command.
LEMMA ApplyBegin ==
    ASSUME cmd'.base \in Content,
           cmd'.stage \in {"context", "extract", "extracted", "export"}
           \/ (cmd'.stage \in Kinds /\ disk'.db = cmd'.base)
    PROVE  ApplyInv'
BY ZenonT(30) DEF ApplyInv, Progress, SuccessMeansApplied, At, Reading, Populating, Kinds

\* Up to its first call a command reads the index of its base image.
LEMMA ApplyBefore ==
    ASSUME TypeInv, ApplyInv,
           NextCommand \/ Kill \/ ContextSteps \/ \E r \in Requests : Starts(r)
    PROVE  ApplyInv'
<1>1. /\ IsCmd(cmd) /\ IsDisk(disk) /\ NULL # "ok" /\ image \in Content
      /\ Empty \in Content
  BY IndexerAssumption DEF TypeInv, Empty, Content
<1>2. cmd.base \in Content
  BY DEF ApplyInv, Progress
<1>3. CASE NextCommand
  <2>1. cmd'.stage = "idle" /\ cmd'.exit = NULL /\ cmd'.base = Empty
    BY <1>3 DEF NextCommand, NoCmd
  <2> QED BY ZenonT(30), <2>1, <1>1
          DEF ApplyInv, Progress, SuccessMeansApplied, At, Reading, Populating
<1>4. CASE Kill
  BY <1>1, <1>4, ApplyEnd DEF Kill, Die, IsCmd
<1>5. ASSUME NEW r \in Requests, Starts(r) PROVE ApplyInv'
  <2>1. r.kind \in Kinds
    BY RequestFields
  <2>2. cmd'.base \in Content
    BY ZenonT(30), <1>1, <1>5
       DEF Starts, UpdateIndex, AddToIndex, DeleteFromIndex, PruneFromIndex,
       PruneStrandedFromIndex, DeprecateFromIndex, ExportFromIndex, UpdateFile, Begin,
       NoCmd
  <2> QED BY ZenonT(30), <2>1, <2>2, <1>1, <1>5, StartFields, ApplyBegin
<1>6. CASE ContextSteps
  <2>1. ~ At("idle")
    BY <1>6 DEF ContextSteps, Context, ContextFails, ContextPanics, Extract, Extracted,
                ExtractFails, OpenFails, At
  <2>2. cmd.req.kind \in Kinds
    BY <2>1, RunningRequest, RequestFields
  <2>3. CASE ContextFails \/ ExtractFails \/ OpenFails
    BY <2>3, <1>1, ApplyReturn DEF ContextFails, ExtractFails, OpenFails
  <2>4. CASE ContextPanics
    BY <2>4, <1>1, ApplyEnd DEF ContextPanics, Die, IsCmd
  <2>5. CASE Context
    BY <2>5, <1>1, <1>2, ApplyBegin DEF Context, IsCmd
  <2>6. CASE Extract
    BY <2>6, <1>1, <1>2, ApplyBegin DEF Extract, IsCmd
  <2>7. CASE Extracted
    <3>1. PICK c \in {image, Empty} :
             /\ cmd' = [cmd EXCEPT !.base = c, !.stage = cmd.req.kind]
             /\ disk'.db = c
      BY ZenonT(30), <2>7, <1>1 DEF Extracted, IsDisk
    <3>2. cmd'.base = c /\ cmd'.stage = cmd.req.kind
      BY <3>1, <1>1 DEF IsCmd
    <3> QED BY <3>1, <3>2, <2>2, <1>1, ApplyBegin
  <2> QED BY <1>6, <2>3, <2>4, <2>5, <2>6, <2>7 DEF ContextSteps
<1> QED BY <1>3, <1>4, <1>5, <1>6

\* What is asked, kind by kind.
LEMMA AppliedCases ==
    ASSUME NEW r, NEW c, NEW d
    PROVE  /\ r.kind = "add" =>
                 (Applied(r, c, d) <=>
                    /\ c.listed \cup ToSet(r.args) \subseteq d.stored
                    /\ Packages(d) = Packages(c) \cup PkgsOf(ToSet(r.args))
                    /\ \A b \in c.listed \cup d.listed :
                          \/ PkgOf[b] \in PkgsOf(ToSet(r.args))
                          \/ b \in c.listed \cap d.listed)
           /\ r.kind = "rm" =>
                 (Applied(r, c, d) <=> /\ Packages(d) = Packages(c) \ ToSet(r.args)
                                      /\ d.stored = d.listed)
           /\ r.kind = "prune" =>
                 (Applied(r, c, d) <=> Packages(d) = Packages(c) \cap ToSet(r.args))
           /\ r.kind = "prune-stranded" =>
                 (Applied(r, c, d) <=> d.stored = c.listed /\ d.listed = c.listed)
           /\ r.kind = "deprecate" =>
                 (Applied(r, c, d) <=>
                    (c.listed # {} =>
                       \A b \in ToSet(r.args) : b \in d.deprecated \/ b \notin d.stored))
           /\ r.kind = "export" => Applied(r, c, d)
BY ZenonT(30) DEF Applied

\* The list of DeprecateFromRegistry is worked off entry by entry.
LEMMA ApplyDeprecate ==
    ASSUME TypeInv, ApplyInv, DeprecateSteps
    PROVE  ApplyInv'
<1>1. IsCmd(cmd) /\ IsDisk(disk) /\ disk.db \in Content /\ ErrsOf(cmd)
  BY DEF TypeInv
<1>2. cmd.stage \in {"deprecate", "check", "deprecating"} /\ ~ At("idle")
  BY ZenonT(30)
     DEF DeprecateSteps, DeprecateFromRegistry, CheckPaths, CheckFails, Deprecate,
         DeprecateRefused, DeprecateFails, Deprecated, At
<1>3. /\ cmd.req \in Requests /\ cmd.req.kind = "deprecate" /\ Progress(cmd, disk)
      /\ cmd.base \in Content
  BY ZenonT(30), <1>2, RunningRequest DEF StageOf, Kinds, ApplyInv, Progress
<1>4. cmd.req.args \in Seq(Bundles)
  BY <1>3, RequestFields
<1>5. ASSUME cmd'.stage = "deprecating", cmd'.base = cmd.base, cmd'.req = cmd.req,
             ~ cmd.req.permissive /\ ~ cmd'.errs => Deprecating(cmd', disk'.db)
      PROVE  ApplyInv'
  BY ZenonT(30), <1>3, <1>5, ApplyGoesOn DEF Progress, Reading, Populating
<1>6. CASE DeprecateFromRegistry
  <2>1. disk' = disk /\ cmd'.stage = "check" /\ cmd'.base = cmd.base /\ cmd'.req = cmd.req
        /\ cmd.stage = "deprecate"
    BY <1>1, <1>6, GotoFields DEF DeprecateFromRegistry, At
  <2> QED BY <2>1, <1>3, ApplyGoesOn DEF Progress, Reading, Populating
<1>7. CASE CheckPaths
  <2>1. CASE Return("error", disk)
    BY <2>1, <1>1, ApplyReturn
  <2>2. CASE ~ Return("error", disk)
    <3> DEFINE listed == disk.db.listed
               missing == listed # {} /\ ToSet(cmd.req.args) \ listed # {}
               found == IF listed = {} THEN <<>>
                        ELSE IF missing THEN PathsIn(cmd.req.args, listed)
                        ELSE cmd.req.args
    <3>1. /\ cmd' = [cmd EXCEPT !.stage = "deprecating", !.todo = found, !.errs = missing]
          /\ disk' = disk /\ cmd.stage = "check" /\ ~ (missing /\ ~ cmd.req.permissive)
      BY <2>2, <1>7 DEF CheckPaths, At
    <3>2. disk.db = cmd.base
      BY <3>1, <1>3 DEF Progress, Reading
    <3>3. ~ missing => found = (IF listed = {} THEN <<>> ELSE cmd.req.args)
      OBVIOUS
    <3> HIDE DEF found, missing
    <3>4. /\ cmd'.stage = "deprecating" /\ cmd'.base = cmd.base /\ cmd'.req = cmd.req
          /\ cmd'.todo = found
      BY <3>1, <1>1 DEF IsCmd
    <3>5. ~ cmd.req.permissive => Deprecating(cmd', disk'.db)
      <4> SUFFICES ASSUME ~ cmd.req.permissive PROVE Deprecating(cmd', disk'.db)
        OBVIOUS
      <4>1. found = (IF listed = {} THEN <<>> ELSE cmd.req.args)
        BY <3>1, <3>3
      <4>2. cmd'.todo \in Seq(Bundles) /\ <<>> \in Seq(Bundles)
        BY <3>4, <4>1, <1>4
      <4>3. cmd'.base.listed # {} => ToSet(cmd'.req.args) = ToSet(cmd'.todo)
        BY <3>2, <3>4, <4>1
      <4> QED BY <4>2, <4>3 DEF Deprecating
    <3> QED BY <3>4, <3>5, <1>5
  <2> QED BY <2>1, <2>2
<1>8. CASE CheckFails
  <2>1. CASE cmd.req.permissive
    <3>1. cmd'.stage = "deprecating" /\ cmd'.base = cmd.base /\ cmd'.req = cmd.req
      BY ZenonT(30), <2>1, <1>1, <1>8 DEF CheckFails, IsCmd
    <3> QED BY <2>1, <3>1, <1>5
  <2>2. CASE ~ cmd.req.permissive
    BY <2>2, <1>1, <1>8, ApplyReturn DEF CheckFails
  <2> QED BY <2>1, <2>2
<1>9. CASE Deprecate
  <2> DEFINE b == Head(cmd.todo)
             s == Tail(cmd.todo)
  <2>1. cmd' = [cmd EXCEPT !.todo = s] /\ cmd.stage = "deprecating" /\ cmd.todo # <<>>
    BY ZenonT(30), <1>9 DEF Deprecate, At
  <2>2. /\ disk'.db.stored \subseteq disk.db.stored
        /\ disk.db.deprecated \subseteq disk'.db.deprecated
        /\ b \in disk'.db.deprecated \/ b \notin disk'.db.stored
    <3>1. CASE b \notin disk.db.stored /\ disk' = disk
      BY <3>1
    <3>2. CASE \E tail, T : disk' = [disk EXCEPT !.db.stored = @ \ tail,
                                                 !.db.listed = @ \ T,
                                                 !.db.deprecated = @ \cup {b}]
      <4>1. PICK tail, T : disk' = [disk EXCEPT !.db.stored = @ \ tail,
                                                !.db.listed = @ \ T,
                                                !.db.deprecated = @ \cup {b}]
        BY ZenonT(30), <3>2
      <4> HIDE DEF b
      <4>2. /\ disk'.db.stored = disk.db.stored \ tail
            /\ disk'.db.deprecated = disk.db.deprecated \cup {b}
        BY ZenonT(30), <4>1, <1>1 DEF IsDisk, Content
      <4> QED BY <4>2
    <3> QED BY ZenonT(30), <1>9, <3>1, <3>2 DEF Deprecate
  <2>3. cmd.todo \in Seq(Bundles) =>
           ToSet(cmd.todo) = {b} \cup ToSet(s) /\ s \in Seq(Bundles)
    BY <2>1, ToSetTail
  <2> HIDE DEF b, s
  <2>4. /\ cmd'.stage = "deprecating" /\ cmd'.base = cmd.base /\ cmd'.req = cmd.req
        /\ cmd'.todo = s /\ cmd'.errs = cmd.errs
    BY <2>1, <1>1 DEF IsCmd
  <2>5. ~ cmd.req.permissive /\ ~ cmd.errs => Deprecating(cmd', disk'.db)
    BY <2>1, <2>2, <2>3, <2>4, <1>3 DEF Progress, Deprecating
  <2> QED BY <2>4, <2>5, <1>5
<1>10. CASE DeprecateRefused
  <2>1. /\ cmd'.stage = "deprecating" /\ cmd'.base = cmd.base /\ cmd'.req = cmd.req
        /\ cmd'.errs = TRUE
    BY <1>1, <1>10 DEF DeprecateRefused, IsCmd, At
  <2> QED BY <2>1, <1>5
<1>11. CASE DeprecateFails
  BY <1>1, <1>11, ApplyFails DEF DeprecateFails
<1>12. CASE Deprecated
  <2>1. CASE cmd.errs
    BY <2>1, <1>1, <1>12, ApplyFails DEF Deprecated
  <2>2. CASE ~ cmd.errs
    <3>1. /\ disk' = disk /\ cmd'.stage = "write" /\ cmd'.base = cmd.base
          /\ cmd'.req = cmd.req /\ cmd.stage = "deprecating" /\ cmd.todo = <<>>
      BY <2>2, <1>1, <1>12, GotoFields DEF Deprecated, At
    <3>2. ToSet(cmd.todo) = {}
      BY <3>1 DEF ToSet
    <3>3. ~ cmd.req.permissive => Applied(cmd.req, cmd.base, disk.db)
      BY ZenonT(30), <2>2, <3>1, <3>2, <1>3, AppliedCases DEF Progress, Deprecating
    <3> QED BY ZenonT(30), <3>1, <3>3, <1>3, ApplyGoesOn DEF Progress, Reading, Populating
  <2> QED BY <2>1, <2>2
<1> QED BY <1>6, <1>7, <1>8, <1>9, <1>10, <1>11, <1>12 DEF DeprecateSteps

\* populate, up to the populator.
LEMMA ApplyPull ==
    ASSUME TypeInv, AddInv, ApplyInv, PullSteps
    PROVE  ApplyInv'
<1>1. IsCmd(cmd) /\ IsDisk(disk)
  BY DEF TypeInv
<1>2. cmd.stage \in {"add", "pull", "find", "receive"} /\ ~ At("idle")
  BY ZenonT(30)
     DEF PullSteps, AddToRegistry, PullImage, PullFails, Pulled, FindNext, Receive,
         Received, Found, At
<1>3. /\ Progress(cmd, disk) /\ cmd.base \in Content /\ disk.db = cmd.base
      /\ cmd.req.kind = "add" /\ cmd.req \in Requests
  BY ZenonT(30), <1>2, RunningRequest
     DEF ApplyInv, Progress, Reading, Populating, StageOf, Kinds
<1>4. ASSUME cmd'.stage \in Populating, cmd'.base = cmd.base, cmd'.req = cmd.req,
             disk'.db = disk.db,
             cmd'.stage = "pull" =>
                cmd'.unpacked \cup ToSet(cmd'.todo) = ToSet(cmd.req.args),
             cmd'.stage # "pull" =>
                /\ ToSet(cmd.req.args) \subseteq cmd'.unpacked \cup cmd'.overwrite
                /\ cmd'.unpacked \subseteq ToSet(cmd.req.args)
                /\ cmd'.packages \subseteq PkgsOf(ToSet(cmd.req.args))
      PROVE  ApplyInv'
  BY ZenonT(30), <1>3, <1>4, ApplyGoesOn DEF Progress, Populating
<1>5. CASE AddToRegistry
  <2>1. /\ cmd'.stage = "pull" /\ cmd'.base = cmd.base /\ cmd'.req = cmd.req
        /\ cmd'.todo = cmd.req.args /\ disk' = disk /\ cmd'.unpacked = cmd.unpacked
    BY <1>1, <1>5 DEF AddToRegistry, IsCmd
  <2>2. cmd.unpacked = {}
    BY <1>5 DEF AddToRegistry, At, AddInv
  <2> QED BY <2>1, <2>2, <1>4 DEF Populating
<1>6. CASE PullImage
  <2> DEFINE b == Head(cmd.todo)
             s == Tail(cmd.todo)
             x == BundleTmp(b)
  <2>1. /\ cmd' = [cmd EXCEPT !.todo = s, !.unpacked = @ \cup {b},
                              !.pulled = @ \cup {x}]
        /\ cmd.stage = "pull" /\ cmd.todo # <<>>
        /\ disk' = [disk EXCEPT !.temp = @ \cup {x}]
    BY <1>6 DEF PullImage, At
  <2>2. cmd.todo \in Seq(Bundles)
    BY <2>1 DEF AddInv, At
  <2>3. ToSet(cmd.todo) = {b} \cup ToSet(s)
    BY <2>1, <2>2, ToSetTail
  <2> HIDE DEF b, s, x
  <2>4. /\ cmd'.stage = "pull" /\ cmd'.base = cmd.base /\ cmd'.req = cmd.req
        /\ cmd'.todo = s /\ cmd'.unpacked = cmd.unpacked \cup {b}
    BY <2>1, <1>1 DEF IsCmd
  <2>5. disk'.db = disk.db
    BY <2>1, <1>1 DEF IsDisk
  <2>6. cmd.unpacked \cup ToSet(cmd.todo) = ToSet(cmd.req.args)
    BY <2>1, <1>3 DEF Progress
  <2> QED BY <2>3, <2>4, <2>5, <2>6, <1>4 DEF Populating
<1>7. CASE PullFails
  <2> DEFINE d == [disk EXCEPT !.temp = @ \cup {BundleTmp(Head(cmd.todo))}]
  <2>1. IsDisk(d)
    BY <1>1 DEF IsDisk
  <2>2. PopulateReturns(d, TRUE)
    BY ZenonT(30), <1>7 DEF PullFails
  <2> HIDE DEF d
  <2> QED BY ZenonT(30), <2>1, <2>2, <1>1, ApplyPopulateFails
<1>8. CASE Pulled \/ Received \/ Found
  <2>1. PICK st \in {"find", "populate"} : Goto(st)
    BY <1>8 DEF Pulled, Received, Found
  <2>2. /\ cmd'.stage = st /\ cmd'.base = cmd.base /\ cmd'.req = cmd.req
        /\ cmd'.unpacked = cmd.unpacked /\ cmd'.overwrite = cmd.overwrite
        /\ cmd'.packages = cmd.packages
    BY <2>1, <1>1, GotoFields
  <2>3. /\ ToSet(cmd.req.args) \subseteq cmd.unpacked \cup cmd.overwrite
        /\ cmd.unpacked \subseteq ToSet(cmd.req.args)
        /\ cmd.packages \subseteq PkgsOf(ToSet(cmd.req.args))
    <3>1. CASE Pulled
      <4>1. ToSet(cmd.todo) = {}
        BY <3>1 DEF Pulled, ToSet
      <4>2. cmd.packages = {}
        BY <3>1 DEF Pulled, At, AddInv
      <4> QED BY <3>1, <4>1, <4>2, <1>3 DEF Pulled, At, Progress
    <3>2. CASE Received \/ Found
      BY <3>2, <1>3 DEF Received, Found, At, Progress
    <3> QED BY <1>8, <3>1, <3>2
  <2>4. disk' = disk
    BY <1>8 DEF Pulled, Received, Found
  <2> QED BY <2>2, <2>3, <2>4, <1>4 DEF Populating
<1>9. ASSUME NEW b \in Bundles, FindNext(b) PROVE ApplyInv'
  <2> DEFINE seen == [cmd EXCEPT !.visited = @ \cup {b}]
             n == Cardinality(Listed(PkgOf[b]))
  <2>1. CASE PopulateReturns(disk, TRUE)
    BY ZenonT(30), <2>1, <1>1, ApplyPopulateFails
  <2>2. ASSUME cmd'.stage \in {"find", "receive"}, cmd'.base = cmd.base,
               cmd'.req = cmd.req, disk' = disk, cmd'.unpacked = cmd.unpacked,
               cmd'.overwrite = cmd.overwrite,
               cmd'.packages \subseteq cmd.packages \cup {PkgOf[b]}
        PROVE  ApplyInv'
    <3>1. /\ ToSet(cmd.req.args) \subseteq cmd.unpacked \cup cmd.overwrite
          /\ cmd.unpacked \subseteq ToSet(cmd.req.args)
          /\ cmd.packages \subseteq PkgsOf(ToSet(cmd.req.args))
          /\ b \in cmd.unpacked
      BY <1>3, <1>9 DEF Progress, FindNext, At
    <3>2. PkgOf[b] \in PkgsOf(ToSet(cmd.req.args))
      BY <3>1 DEF PkgsOf
    <3> QED BY <2>2, <3>1, <3>2, <1>4 DEF Populating
  <2>3. CASE disk' = disk /\ cmd' = seen
    BY <2>2, <2>3, <1>1, <1>9 DEF IsCmd, FindNext, At
  <2>4. CASE disk' = disk /\ cmd' = [seen EXCEPT !.stage = "receive", !.to = b,
                                              !.packages = @ \cup {PkgOf[b]},
                                              !.wait = n]
    <3> HIDE DEF n
    <3> QED BY <2>2, <2>4, <1>1 DEF IsCmd
  <2> QED BY ZenonT(30), <1>9, <2>1, <2>3, <2>4 DEF FindNext
<1>10. ASSUME NEW b \in Bundles, Receive(b) PROVE ApplyInv'
  <2>1. CASE PopulateReturns(disk, TRUE)
    BY ZenonT(30), <2>1, <1>1, ApplyPopulateFails
  <2>2. CASE ~ PopulateReturns(disk, TRUE)
    <3>1. /\ cmd'.stage = "receive" /\ cmd'.base = cmd.base /\ cmd'.req = cmd.req
          /\ cmd'.unpacked = cmd.unpacked \ {b} /\ cmd.stage = "receive"
          /\ cmd'.overwrite = cmd.overwrite \cup {b} /\ disk' = disk
          /\ cmd'.packages = cmd.packages
      BY ZenonT(30), <2>2, <1>1, <1>10 DEF Receive, IsCmd, At
    <3>2. /\ ToSet(cmd.req.args) \subseteq cmd.unpacked \cup cmd.overwrite
          /\ cmd.unpacked \subseteq ToSet(cmd.req.args)
          /\ cmd.packages \subseteq PkgsOf(ToSet(cmd.req.args))
      BY <3>1, <1>3 DEF Progress
    <3> QED BY <3>1, <3>2, <1>4 DEF Populating
  <2> QED BY ZenonT(30), <2>1, <2>2
<1> QED BY <1>5, <1>6, <1>7, <1>8, <1>9, <1>10 DEF PullSteps

\* The populator stores again what it removes, and all that was asked for, and lists
\* no other package anew: c is the database before, d what Populate makes of it, with
\* the bundles in T added and those of the packages in R removed before.
LEMMA PopulateApplies ==
    ASSUME NEW c \in Content, NEW T \in SUBSET Bundles, NEW R, NEW args,
           NEW L \in Relisted(WithBundles(Cleared(c, R), T), PkgsOf(T)),
           PkgsOf(T) \subseteq PkgsOf(L),
           \A b \in c.listed : PkgOf[b] \in R => b \in T,
           args \subseteq T \cup {b \in c.listed : PkgOf[b] \notin R},
           PkgsOf(T) \subseteq PkgsOf(args)
    PROVE  LET d == [WithBundles(Cleared(c, R), T) EXCEPT !.listed = L]
           IN  /\ c.listed \cup args \subseteq d.stored
               /\ Packages(d) = Packages(c) \cup PkgsOf(args)
               /\ \A b \in c.listed \cup d.listed :
                     PkgOf[b] \in PkgsOf(args) \/ b \in c.listed \cap d.listed
<1> DEFINE k == Cleared(c, R)
           e == WithBundles(k, T)
           d == [e EXCEPT !.listed = L]
<1>1. k \in Content /\ k.listed = {b \in c.listed : PkgOf[b] \notin R}
  BY ContentLemma
<1>2. k.listed \subseteq k.stored
  BY <1>1 DEF Content
<1> HIDE DEF k
<1>3. e \in Content /\ e.listed = k.listed /\ e.stored = k.stored \cup T
  BY <1>1, ContentLemma
<1> HIDE DEF e
<1>4. /\ L \subseteq e.stored
      /\ \A b \in Bundles : PkgOf[b] \notin PkgsOf(T) => (b \in L <=> b \in k.listed)
  <2>1. L \in Relisted(e, PkgsOf(T))
    BY DEF e, k
  <2> QED BY <2>1, <1>3, RelistedLemma
<1>5. d.listed = L /\ d.stored = k.stored \cup T
  BY ZenonT(30), <1>3, <1>4, ContentLemma
<1>6. c.listed \subseteq Bundles /\ L \subseteq Bundles
  BY <1>3, <1>4 DEF Content
<1>7. \A b \in T : PkgOf[b] \in PkgsOf(T)
  BY DEF PkgsOf
<1>8. \A b \in Bundles : PkgOf[b] \notin PkgsOf(T) => (b \in c.listed <=> b \in L)
  BY <1>1, <1>4, <1>7
<1> HIDE DEF d
<1>9. c.listed \cup args \subseteq d.stored
  BY <1>1, <1>2, <1>5
<1>10. \A b \in c.listed \cup d.listed :
          PkgOf[b] \in PkgsOf(args) \/ b \in c.listed \cap d.listed
  BY <1>5, <1>6, <1>8
<1>11. Packages(d) = PkgsOf(L)
  BY <1>5 DEF Packages, PkgsOf
<1>12. PkgsOf(L) \subseteq Packages(c) \cup PkgsOf(args)
  <2> SUFFICES ASSUME NEW b \in L, PkgOf[b] \notin PkgsOf(args)
               PROVE  PkgOf[b] \in Packages(c)
    BY DEF PkgsOf
  <2>1. b \in c.listed
    BY <1>6, <1>8
  <2> QED BY <2>1 DEF Packages
<1>13. Packages(c) \subseteq PkgsOf(L)
  <2> SUFFICES ASSUME NEW b \in c.listed, PkgOf[b] \notin PkgsOf(T)
               PROVE  PkgOf[b] \in PkgsOf(L)
    BY DEF Packages
  <2>1. b \in L
    BY <1>6, <1>8
  <2> QED BY <2>1 DEF PkgsOf
<1>14. PkgsOf(args) \subseteq PkgsOf(L)
  <2> SUFFICES ASSUME NEW b \in args PROVE PkgOf[b] \in PkgsOf(L)
    BY DEF PkgsOf
  <2>1. CASE b \in T
    BY <2>1, <1>7
  <2>2. CASE b \in c.listed
    BY <2>2, <1>13 DEF Packages
  <2> QED BY <2>1, <2>2
<1> QED BY <1>9, <1>10, <1>11, <1>12, <1>13, <1>14 DEF d, e, k

\* Populate has done what is asked of an add.
LEMMA ApplyPopulate ==
    ASSUME TypeInv, AddInv, ApplyInv, Populate \/ PopulateFails
    PROVE  ApplyInv'
<1>1. IsCmd(cmd) /\ IsDisk(disk) /\ disk.db \in Content
  BY DEF TypeInv
<1>2. cmd.stage = "populate" /\ ~ At("idle")
  BY ZenonT(30) DEF Populate, PopulateFails, At
<1> DEFINE args == ToSet(cmd.req.args)
<1>3. /\ Progress(cmd, disk) /\ cmd.base \in Content /\ disk.db = cmd.base
      /\ cmd.req.kind = "add"
      /\ args \subseteq cmd.unpacked \cup cmd.overwrite /\ cmd.unpacked \subseteq args
      /\ cmd.packages \subseteq PkgsOf(args)
  BY ZenonT(30), <1>2, RunningRequest DEF ApplyInv, Progress, Reading, Populating, StageOf
<1>4. CASE Populate
  <2> DEFINE f == WithBundles(Cleared(disk.db, Replaced), ToAdd)
  <2>1. PICK L \in Relisted(f, PkgsOf(ToAdd)) :
           /\ PkgsOf(ToAdd) \subseteq PkgsOf(L)
           /\ PopulateReturns([disk EXCEPT !.db = [f EXCEPT !.listed = L]], FALSE)
    BY ZenonT(30), <1>4 DEF Populate
  <2> DEFINE c == [f EXCEPT !.listed = L]
             d == [disk EXCEPT !.db = c]
             e == [d EXCEPT !.temp = d.temp \ cmd.pulled]
  <2>2. ToAdd \subseteq Bundles
    BY DEF ToAdd, AddInv, ImagesOf
  <2>3. Overwriting(cmd, disk) /\ Whole(cmd, disk)
    BY <1>2 DEF AddInv
  <2>4. \A b \in disk.db.listed : PkgOf[b] \in Replaced => b \in ToAdd
    BY <2>3 DEF Whole, InPkg, Replaced, ToAdd
  <2>5. args \subseteq ToAdd \cup {b \in disk.db.listed : PkgOf[b] \notin Replaced}
    <3> HIDE DEF args
    <3> QED BY <2>3, <1>3 DEF Overwriting, Replaced, ToAdd
  <2>6. PkgsOf(ToAdd) \subseteq PkgsOf(args)
    <3> HIDE DEF args
    <3> SUFFICES ASSUME NEW b \in ToAdd PROVE PkgOf[b] \in PkgsOf(args)
      BY DEF PkgsOf
    <3>1. CASE b \in cmd.unpacked
      BY <3>1, <1>3 DEF PkgsOf
    <3>2. CASE b \in cmd.overwrite
      BY <3>2, <2>3, <1>3 DEF Overwriting
    <3> QED BY <3>1, <3>2 DEF ToAdd
  <2>7. Applied(cmd.req, cmd.base, c)
    <3>1. /\ disk.db.listed \cup args \subseteq c.stored
          /\ Packages(c) = Packages(disk.db) \cup PkgsOf(args)
          /\ \A b \in disk.db.listed \cup c.listed :
                PkgOf[b] \in PkgsOf(args) \/ b \in disk.db.listed \cap c.listed
      <4> HIDE DEF args
      <4> QED BY ZenonT(30), <2>1, <2>2, <2>4, <2>5, <2>6, <1>1, PopulateApplies
    <3> HIDE DEF c
    <3> QED BY ZenonT(30), <3>1, <1>3, AppliedCases
  <2>8. disk' = e /\ Goto("write")
    BY <2>1 DEF PopulateReturns
  <2> HIDE DEF c
  <2>9. e.db = c
    <3>1. IsDisk(d) /\ d.db = c
      BY <1>1 DEF IsDisk
    <3> HIDE DEF d
    <3> QED BY <3>1, DiskFields
  <2> HIDE DEF e
  <2>10. cmd'.stage = "write" /\ cmd'.base = cmd.base /\ cmd'.req = cmd.req
    BY <2>8, <1>1, GotoFields
  <2> QED BY ZenonT(30), <2>7, <2>8, <2>9, <2>10, <1>3, ApplyGoesOn
    DEF Progress, Reading, Populating
<1>5. CASE PopulateFails
  <2>1. PICK c : PopulateReturns([disk EXCEPT !.db = c], TRUE)
    BY ZenonT(30), <1>5 DEF PopulateFails
  <2>2. IsDisk([disk EXCEPT !.db = c])
    BY <1>1 DEF IsDisk
  <2> QED BY ZenonT(30), <2>1, <2>2, <1>1, ApplyPopulateFails
<1> QED BY <1>4, <1>5

\* What is written or built is what the calls left in the database.
LEMMA ApplyBuild ==
    ASSUME TypeInv, ApplyInv, BuildSteps
    PROVE  ApplyInv'
<1>1. IsCmd(cmd) /\ IsDisk(disk)
  BY DEF TypeInv
<1>2. cmd.stage \in {"write", "build"} /\ ~ At("idle")
  BY DEF BuildSteps, FileUpdated, Write, WriteFails, Build, BuildFails, At
<1>3. /\ Progress(cmd, disk) /\ cmd.base \in Content
      /\ ~ cmd.req.permissive => Applied(cmd.req, cmd.base, disk.db)
      /\ StageOf(cmd)
  BY ZenonT(30), <1>2, RunningRequest DEF ApplyInv, Progress
<1>4. ASSUME NEW d, IsDisk(d), d.db = disk.db, Return("ok", d),
             \/ cmd.req.file
             \/ d.dockerfile = cmd.nth /\ (~ cmd.req.generate => image' = disk.db)
      PROVE  ApplyInv'
  <2>1. /\ cmd'.stage = "idle" /\ cmd'.req = cmd.req /\ cmd'.base = cmd.base
        /\ disk'.db = disk.db /\ disk'.dockerfile = d.dockerfile /\ cmd'.nth = cmd.nth
    BY ZenonT(30), <1>1, <1>4, ReturnFields
  <2>2. SuccessMeansApplied'
    BY ZenonT(30), <2>1, <1>3, <1>4 DEF SuccessMeansApplied
  <2> QED BY ZenonT(30), <2>1, <2>2, <1>3 DEF ApplyInv, Progress, Reading, Populating
<1>5. CASE FileUpdated
  BY <1>1, <1>4, <1>5 DEF FileUpdated
<1>6. CASE WriteFails \/ BuildFails
  BY <1>1, <1>6, ApplyReturn DEF WriteFails, BuildFails
<1>7. CASE Build
  <2>1. disk.dockerfile = cmd.nth
    BY ZenonT(30), <1>3, <1>7 DEF Build, At, Progress
  <2> QED BY <2>1, <1>1, <1>4, <1>7 DEF Build
<1>8. CASE Write
  <2> DEFINE d == [disk EXCEPT !.dockerfile = cmd.nth]
  <2>1. IsDisk(d) /\ d.db = disk.db /\ d.dockerfile = cmd.nth
    BY Zenon, <1>1, DockerfileWritten
  <2>2. IF cmd.req.generate THEN Return("ok", d) ELSE disk' = d /\ Goto("build")
    BY <1>8 DEF Write
  <2> HIDE DEF d
  <2>3. CASE cmd.req.generate
    BY <2>1, <2>2, <2>3, <1>4
  <2>4. CASE ~ cmd.req.generate
    <3>1. /\ cmd'.stage = "build" /\ cmd'.base = cmd.base /\ cmd'.req = cmd.req
          /\ cmd'.nth = cmd.nth
      BY <2>2, <2>4, <1>1, GotoFields
    <3> QED BY ZenonT(30), <2>1, <2>2, <2>4, <3>1, <1>3, ApplyGoesOn
      DEF Progress, Reading, Populating
  <2> QED BY <2>3, <2>4
<1> QED BY <1>5, <1>6, <1>7, <1>8 DEF BuildSteps

\* An export leaves the index alone.
LEMMA ApplyExport ==
    ASSUME TypeInv, ApplyInv, ExportSteps
    PROVE  ApplyInv'
<1>1. IsCmd(cmd) /\ IsDisk(disk)
  BY DEF TypeInv
<1>2. cmd.stage \in {"export", "waiting", "yaml"} /\ ~ At("idle")
  BY ZenonT(30) DEF ExportSteps, ExportStart, Waited, Yaml, At
<1>3. cmd.req.kind = "export" /\ cmd.base \in Content
  BY ZenonT(30), <1>2, RunningRequest DEF StageOf, Kinds, ApplyInv, Progress
<1>4. ASSUME NEW st \in {"waiting", "yaml"}, Goto(st) PROVE ApplyInv'
  <2>1. cmd'.stage = st /\ cmd'.base = cmd.base
    BY <1>1, <1>4, GotoFields
  <2> QED BY <2>1, <1>3, ApplyGoesOn DEF Progress, Reading, Populating
<1>5. CASE ExportStart
  BY <1>4, <1>5 DEF ExportStart
<1>6. CASE Waited
  BY <1>1, <1>4, <1>6, ApplyReturn DEF Waited
<1>7. ASSUME NEW S \in SUBSET Pkgs, Yaml(S) PROVE ApplyInv'
  <2> DEFINE d == [disk EXCEPT !.yaml = @ \cup (S \X {cmd.nth})]
  <2>1. IsDisk(d)
    BY <1>1 DEF IsDisk
  <2>2. PICK exit : Return(exit, d)
    BY <1>7 DEF Yaml
  <2> HIDE DEF d
  <2>3. cmd'.stage = "idle" /\ cmd'.req = cmd.req /\ cmd'.base = cmd.base
    BY ZenonT(30), <2>1, <2>2, <1>1, ReturnFields
  <2>4. SuccessMeansApplied'
    BY <2>3, <1>3, AppliedCases DEF SuccessMeansApplied
  <2> QED BY ZenonT(30), <2>3, <2>4, <1>3 DEF ApplyInv, Progress, Reading, Populating
<1> QED BY <1>5, <1>6, <1>7 DEF ExportSteps

\* So does a step of a goroutine.
LEMMA ApplyGo ==
    ASSUME TypeInv, ApplyInv, NEW b, GoStep(b)
    PROVE  ApplyInv'
<1>1. IsCmd(cmd) /\ IsDisk(disk)
  BY DEF TypeInv
<1>2. cmd.stage # "idle"
  BY ZenonT(30) DEF GoStep, Unpack, Acquire, Exported, ExportFails, At
<1>3. CASE Unpack(b)
  <2>1. cmd' = cmd /\ disk'.db = disk.db /\ disk'.dockerfile = disk.dockerfile
    BY <1>1, <1>3 DEF Unpack, IsDisk
  <2> QED BY ZenonT(30), <2>1, <1>2, ApplyGoesOn DEF ApplyInv, Progress
<1>4. CASE Acquire(b) \/ Exported(b) \/ ExportFails(b)
  <2>1. cmd'.stage = "waiting" /\ cmd'.base = cmd.base
    BY ZenonT(30), <1>1, <1>4 DEF Acquire, Exported, ExportFails, At, IsCmd
  <2> QED BY ZenonT(30), <2>1, ApplyGoesOn DEF ApplyInv, Progress, Reading, Populating
<1> QED BY <1>3, <1>4 DEF GoStep

\* The order in which a prune removes is one of its packages.
LEMMA EnumerationLemma ==
    ASSUME Counting, NEW S, IsFiniteSet(S), NEW s \in Enumerations(S)
    PROVE  s \in Seq(S) /\ ToSet(s) = S
<1>1. Cardinality(S) \in Nat
  BY ZenonT(30) DEF Counting, Counts
<1>2. s \in [1 .. Cardinality(S) -> S] /\ ToSet(s) = S
  BY DEF Enumerations
<1> QED BY <1>1, <1>2

\* A removal of one package of several.
LEMMA ApplyRemove ==
    ASSUME Counting, TypeInv, ApplyInv, RemoveSteps
    PROVE  ApplyInv'
<1>1. IsCmd(cmd) /\ IsDisk(disk) /\ disk.db \in Content
  BY DEF TypeInv
<1>2. ~ At("idle")
  BY ZenonT(30)
     DEF RemoveSteps, DeleteFromRegistry, PruneFromRegistry, PruneStrandedFromRegistry,
         Remove, RemoveFails, Removed, StrandedRemoved, StrandFails, At
<1>3. cmd.req \in Requests /\ StageOf(cmd) /\ Progress(cmd, disk) /\ cmd.base \in Content
  BY ZenonT(30), <1>2, RunningRequest DEF ApplyInv, Progress
<1>4. ASSUME cmd'.stage = "remove", cmd'.base = cmd.base, cmd'.req = cmd.req,
             ~ cmd.req.permissive => Removing(cmd', disk'.db)
      PROVE  ApplyInv'
  BY ZenonT(30), <1>3, <1>4, ApplyGoesOn DEF Progress, Reading, Populating
<1>5. CASE DeleteFromRegistry
  <2>1. /\ cmd'.stage = "remove" /\ cmd'.base = cmd.base /\ cmd'.req = cmd.req
        /\ cmd'.todo = cmd.req.args /\ disk' = disk
    BY <1>1, <1>5 DEF DeleteFromRegistry, IsCmd
  <2>2. cmd.stage = "rm" /\ cmd.req.kind = "rm" /\ disk.db = cmd.base
    BY <1>3, <1>5 DEF DeleteFromRegistry, At, StageOf, Kinds, Progress, Reading
  <2>3. cmd.req.args \in Seq(Pkgs)
    BY <2>2, <1>3, RequestFields
  <2>4. Removing(cmd', disk'.db)
    BY <2>1, <2>2, <2>3 DEF Removing, Kept, Target
  <2> QED BY <2>1, <2>4, <1>4
<1>6. CASE PruneFromRegistry
  <2> DEFINE S == Packages(disk.db) \ ToSet(cmd.req.args)
  <2>1. PICK s \in Enumerations(S) :
           cmd' = [cmd EXCEPT !.stage = "remove", !.todo = s]
    BY ZenonT(30), <1>6 DEF PruneFromRegistry
  <2>2. /\ cmd'.stage = "remove" /\ cmd'.base = cmd.base /\ cmd'.req = cmd.req
        /\ cmd'.todo = s
    BY <2>1, <1>1 DEF IsCmd
  <2>3. disk' = disk /\ cmd.stage = "prune" /\ cmd.req.kind = "prune" /\ disk.db = cmd.base
    BY <1>3, <1>6 DEF PruneFromRegistry, At, StageOf, Kinds, Progress, Reading
  <2>4. S \subseteq Pkgs
    BY <1>1, IndexerAssumption DEF Packages, Content
  <2>5. S = Target(cmd')
    BY <2>2, <2>3 DEF Target
  <2> HIDE DEF S
  <2>6. IsFiniteSet(S)
    BY <2>4, IndexerAssumption DEF Counting
  <2>7. s \in Seq(S) /\ ToSet(s) = S
    BY <2>6, EnumerationLemma
  <2>8. s \in Seq(Pkgs)
    BY <2>4, <2>7
  <2>9. Removing(cmd', disk'.db)
    BY ZenonT(30), <2>2, <2>3, <2>5, <2>7, <2>8 DEF Removing, Kept
  <2> QED BY <2>2, <2>9, <1>4
<1>7. CASE PruneStrandedFromRegistry
  <2>1. disk' = disk /\ cmd.stage = "prune-stranded" /\ cmd.req.kind = "prune-stranded"
    BY <1>3, <1>7 DEF PruneStrandedFromRegistry, At, StageOf, Kinds
  <2>2. cmd'.stage = "strand" /\ cmd'.base = cmd.base /\ cmd'.req = cmd.req
    BY ZenonT(30), <1>1, <1>7, GotoFields DEF PruneStrandedFromRegistry
  <2>3. disk.db = cmd.base
    BY <2>1, <1>3 DEF Progress, Reading
  <2> QED BY ZenonT(30), <2>1, <2>2, <2>3, <1>3, ApplyGoesOn DEF Progress, Reading, Populating
<1>8. CASE Remove
  <2> DEFINE p == Head(cmd.todo)
             s == Tail(cmd.todo)
             c == WithoutStranded(WithoutPackage(disk.db, p))
  <2>1. disk' = [disk EXCEPT !.db = c] /\ cmd' = [cmd EXCEPT !.todo = s]
        /\ cmd.stage = "remove" /\ cmd.todo # <<>>
    BY <1>8 DEF Remove, At
  <2>2. c.listed = {b \in disk.db.listed : PkgOf[b] # p}
    BY <1>1, ContentLemma
  <2>3. ~ cmd.req.permissive =>
           /\ cmd.todo \in Seq(Pkgs)
           /\ ToSet(cmd.todo) = {p} \cup ToSet(s) /\ s \in Seq(Pkgs)
    BY <2>1, <1>3, ToSetTail DEF Progress, Removing
  <2> HIDE DEF p, s, c
  <2>4. /\ cmd'.stage = "remove" /\ cmd'.base = cmd.base /\ cmd'.req = cmd.req
        /\ cmd'.todo = s
    BY <2>1, <1>1 DEF IsCmd
  <2>5. disk'.db = c
    BY <2>1, <1>1 DEF IsDisk
  <2>6. Target(cmd') = Target(cmd) /\ Kept(cmd') = Kept(cmd)
    BY <2>4 DEF Target, Kept
  <2>7. ~ cmd.req.permissive => Removing(cmd', c)
    <3> SUFFICES ASSUME ~ cmd.req.permissive PROVE Removing(cmd', c)
      OBVIOUS
    <3>1. Removing(cmd, disk.db) /\ ToSet(cmd.todo) = {p} \cup ToSet(s) /\ s \in Seq(Pkgs)
      BY <2>1, <2>3, <1>3 DEF Progress
    <3>2. Kept(cmd) \subseteq c.listed
      BY <2>2, <3>1 DEF Removing, Kept
    <3> QED BY <2>2, <2>4, <2>6, <3>1, <3>2 DEF Removing
  <2> QED BY <2>4, <2>5, <2>7, <1>4
<1>9. CASE RemoveFails
  <2>1. CASE cmd.req.permissive
    <3>1. cmd'.stage = "remove" /\ cmd'.base = cmd.base /\ cmd'.req = cmd.req
      BY ZenonT(30), <2>1, <1>1, <1>9 DEF RemoveFails, IsCmd, At
    <3> QED BY <2>1, <3>1, <1>4
  <2>2. CASE ~ cmd.req.permissive
    <3>1. cmd'.stage = "idle" /\ cmd'.exit = "fatal" /\ cmd'.base = cmd.base
      BY ZenonT(30), <2>2, <1>1, <1>9 DEF RemoveFails, Die, IsCmd
    <3> QED BY <3>1, ApplyEnd
  <2> QED BY <2>1, <2>2
<1>10. CASE Removed
  <2>1. /\ disk' = disk /\ cmd.stage = "remove" /\ cmd.todo = <<>>
        /\ cmd.req.kind \in {"rm", "prune"}
        /\ Goto(IF cmd.req.kind = "rm" THEN "strand" ELSE "write")
    BY <1>3, <1>10 DEF Removed, At, StageOf
  <2>2. /\ cmd'.stage = (IF cmd.req.kind = "rm" THEN "strand" ELSE "write")
        /\ cmd'.base = cmd.base /\ cmd'.req = cmd.req
    BY ZenonT(30), <2>1, <1>1, GotoFields
  <2>3. ~ cmd.req.permissive => disk.db.listed = Kept(cmd)
    <3>1. ToSet(cmd.todo) = {}
      BY <2>1 DEF ToSet
    <3> QED BY ZenonT(30), <2>1, <3>1, <1>3 DEF Progress, Removing, Kept
  <2>4. Kept(cmd') = Kept(cmd)
    BY <2>2 DEF Kept, Target
  <2>5. cmd.req.kind = "prune" /\ ~ cmd.req.permissive =>
           Applied(cmd.req, cmd.base, disk.db)
    <3> SUFFICES ASSUME cmd.req.kind = "prune", ~ cmd.req.permissive
                 PROVE  Packages(disk.db) = Packages(cmd.base) \cap ToSet(cmd.req.args)
      BY AppliedCases
    <3>1. Target(cmd) = Packages(cmd.base) \ ToSet(cmd.req.args)
      BY DEF Target
    <3>2. \A b \in cmd.base.listed : PkgOf[b] \in Packages(cmd.base)
      BY DEF Packages
    <3>3. disk.db.listed = {b \in cmd.base.listed : PkgOf[b] \in ToSet(cmd.req.args)}
      BY <3>1, <3>2, <2>3 DEF Kept
    <3> QED BY <3>3 DEF Packages
  <2> QED BY ZenonT(30), <2>1, <2>2, <2>3, <2>4, <2>5, <1>3, ApplyGoesOn
    DEF Progress, Reading, Populating
<1>11. CASE StrandedRemoved
  <2> DEFINE c == WithoutStranded(disk.db)
  <2>1. c.listed = disk.db.listed /\ c.stored = disk.db.listed
    BY <1>1, ContentLemma
  <2>2. disk' = [disk EXCEPT !.db = c] /\ Goto("write") /\ cmd.stage = "strand"
    BY <1>11 DEF StrandedRemoved, At
  <2> HIDE DEF c
  <2>3. cmd'.stage = "write" /\ cmd'.base = cmd.base /\ cmd'.req = cmd.req /\ disk'.db = c
    BY <2>2, <1>1, GotoFields DEF IsDisk
  <2>4. ~ cmd.req.permissive => Applied(cmd.req, cmd.base, c)
    <3> SUFFICES ASSUME ~ cmd.req.permissive PROVE Applied(cmd.req, cmd.base, c)
      OBVIOUS
    <3>1. CASE cmd.req.kind = "rm"
      <4>1. c.listed = {b \in cmd.base.listed : PkgOf[b] \notin ToSet(cmd.req.args)}
        BY <2>1, <2>2, <3>1, <1>3 DEF Progress, Kept, Target
      <4>2. Packages(c) = Packages(cmd.base) \ ToSet(cmd.req.args)
        BY <4>1 DEF Packages
      <4> QED BY <2>1, <3>1, <4>2, AppliedCases
    <3>2. CASE cmd.req.kind # "rm"
      <4>1. cmd.req.kind = "prune-stranded"
        BY <2>2, <3>2, <1>3 DEF StageOf
      <4>2. disk.db = cmd.base
        BY <2>2, <3>2, <1>3 DEF Progress
      <4> QED BY <2>1, <4>1, <4>2, AppliedCases
    <3> QED BY <3>1, <3>2
  <2> QED BY ZenonT(30), <2>3, <2>4, <1>3, ApplyGoesOn DEF Progress, Reading, Populating
<1>12. CASE StrandFails
  BY <1>1, <1>12, ApplyReturn DEF StrandFails
<1> QED BY <1>5, <1>6, <1>7, <1>8, <1>9, <1>10, <1>11, <1>12 DEF RemoveSteps

-----------------------------------------------------------------------------
(***************************************************************************)
(* The first process and the steps of the program                          *)
(***************************************************************************)

\* The first process.
LEMMA InitInv == IndexerInit => TypeInv /\ AddInv
<1> SUFFICES ASSUME IndexerInit PROVE TypeInv /\ AddInv
  OBVIOUS
<1>1. image \in Content /\ disk = Bare /\ cmd = NoCmd /\ go = NoGo
  BY IndexerAssumption DEF IndexerInit
<1>2. IsDisk(Bare) /\ Bare.db \in Content /\ IsCmd(NoCmd) /\ ErrsOf(NoCmd)
  BY ZenonT(30) DEF IsDisk, Bare, Empty, Content, IsCmd, NoCmd, ErrsOf
<1>3. /\ NoGo = [b \in DOMAIN NoGo |-> NoGo[b]] /\ NoCmd.stage = "idle"
      /\ NoCmd.exit = NULL /\ Bare.temp = {}
  BY DEF NoGo, NoCmd, Bare
<1>4. TypeInv
  BY <1>1, <1>2, <1>3 DEF TypeInv, At, Stages
<1>5. AddInv
  BY <1>1 DEF AddInv, NoCmd, ImagesOf, At
<1> QED BY <1>4, <1>5

\* The parts of the next-state relation.
LEMMA NextCases ==
    ASSUME IndexerNext
    PROVE  \/ \E r \in Requests : Starts(r)
           \/ NextCommand \/ Kill
           \/ ContextSteps \/ RemoveSteps \/ DeprecateSteps \/ PullSteps
           \/ Populate \/ PopulateFails \/ BuildSteps \/ ExportSteps
           \/ \E b \in Bundles \cup {NULL} : GoStep(b)
BY ZenonT(60)
   DEF IndexerNext, MainStep, Starts, ContextSteps, RemoveSteps, DeprecateSteps,
       PullSteps, BuildSteps, ExportSteps

\* A step of the program keeps the types and what populate holds.
LEMMA StepInv ==
    ASSUME Counting, TypeInv, AddInv, [IndexerNext]_indexerVars
    PROVE  TypeInv' /\ AddInv'
<1>1. CASE UNCHANGED indexerVars
  <2>1. image' = image /\ disk' = disk /\ cmd' = cmd /\ go' = go
    BY <1>1 DEF indexerVars
  <2>2. TypeInv'
    BY ZenonT(30), <2>1 DEF TypeInv, At
  <2>3. AddInv'
    BY ZenonT(30), <2>1 DEF AddInv, At
  <2> QED BY <2>2, <2>3
<1>2. CASE IndexerNext
  <2>1. ImagesOf(cmd)
    BY ZenonT(30) DEF AddInv
  <2> QED BY <1>2, <2>1, NextCases, StartType, AddStart, NextCommandType, ContextType,
             RemoveType, DeprecateType, AddType, PopulateType, BuildType, ExportType,
             GoType, AddFrame, AddGo, AddPull, AddFind, AddReceive, AddReceived,
             AddPopulate
          DEF PullSteps
<1> QED BY <1>1, <1>2

\* When populate runs, what it overwrites is whole.
LEMMA InvWhole ==
    ASSUME TypeInv, AddInv
    PROVE  OverwritesWholePackages
<1> SUFFICES ASSUME At("populate")
             PROVE  /\ \A b \in cmd.overwrite : Listed(PkgOf[b]) \subseteq cmd.overwrite
                    /\ go = NoGo
  BY ZenonT(30) DEF OverwritesWholePackages
<1>1. ~ At("idle") /\ cmd.req.kind = "add" /\ ~ cmd.errs
  BY ZenonT(30), RunningRequest DEF At, StageOf, TypeInv, ErrsOf
<1>2. Overwriting(cmd, disk) /\ Whole(cmd, disk) /\ go = NoGo
  BY ZenonT(30), <1>1 DEF AddInv, At
<1> QED BY ZenonT(30), <1>2 DEF Overwriting, Whole, InPkg, Listed

\* No temporary file is there before the first command.
LEMMA InitClean == IndexerInit => CleanInv
<1> SUFFICES ASSUME IndexerInit PROVE CleanInv
  OBVIOUS
<1>1. NULL \notin {"ok", "error"} /\ cmd.exit = NULL /\ cmd.stage = "idle"
  BY IndexerAssumption DEF IndexerInit, NoCmd
<1> QED BY ZenonT(30), <1>1 DEF CleanInv, CleanExit, At

\* A step of the program keeps account of the temporary files.
LEMMA StepClean ==
    ASSUME TypeInv, AddInv, AddInv', CleanInv, [IndexerNext]_indexerVars
    PROVE  CleanInv'
<1>1. CASE UNCHANGED indexerVars
  <2>1. disk' = disk /\ cmd' = cmd /\ go' = go
    BY <1>1 DEF indexerVars
  <2> QED BY <2>1 DEF CleanInv, CleanExit, At
<1>2. CASE IndexerNext
  BY ZenonT(30), <1>2, NextCases, CleanStart, CleanContext, CleanRemove, CleanDeprecate,
     CleanBuild, CleanExport, CleanPull, CleanFind, CleanReceive, CleanPopulate,
     CleanGo
  DEF PullSteps
<1> QED BY ZenonT(30), <1>1, <1>2

\* Nothing is exported before the first command.
LEMMA InitExport == IndexerInit => ExportInv
<1> SUFFICES ASSUME IndexerInit PROVE ExportInv
  OBVIOUS
<1>1. /\ NULL # "ok" /\ cmd.exit = NULL /\ cmd.stage = "idle"
      /\ disk.exported = {}
  BY IndexerAssumption DEF IndexerInit, NoCmd, Bare
<1> QED BY <1>1 DEF ExportInv, ExportIsComplete, At

\* A step of the program keeps account of what is exported.
LEMMA StepExport ==
    ASSUME TypeInv, TypeInv', ExportInv, [IndexerNext]_indexerVars
    PROVE  ExportInv'
<1>1. CASE UNCHANGED indexerVars
  <2>1. disk' = disk /\ cmd' = cmd /\ go' = go
    BY <1>1 DEF indexerVars
  <2>2. ToExport' = ToExport /\ ExportPkgs' = ExportPkgs
    BY <2>1 DEF ToExport, ExportPkgs
  <2> QED BY ZenonT(30), <2>1, <2>2 DEF ExportInv, ExportIsComplete, At
<1>2. CASE IndexerNext
  BY <1>2, NextCases, ExportBefore, ExportFrame, ExportOther, ExportGo, ExportEnds
<1> QED BY ZenonT(30), <1>1, <1>2

\* Nothing is asked before the first command.
LEMMA InitApply == IndexerInit => ApplyInv
<1> SUFFICES ASSUME IndexerInit PROVE ApplyInv
  OBVIOUS
<1>1. /\ NULL # "ok" /\ cmd.exit = NULL /\ cmd.stage = "idle"
      /\ cmd.base = Empty /\ Empty \in Content
  BY ZenonT(30), IndexerAssumption DEF IndexerInit, NoCmd, Empty, Content
<1> QED BY ZenonT(30), <1>1
  DEF ApplyInv, SuccessMeansApplied, Progress, Reading, Populating, At

\* A step of the program keeps account of what is done of the request.
LEMMA StepApply ==
    ASSUME Counting, TypeInv, AddInv, ApplyInv, [IndexerNext]_indexerVars
    PROVE  ApplyInv'
<1>1. CASE UNCHANGED indexerVars
  <2>1. image' = image /\ disk' = disk /\ cmd' = cmd
    BY <1>1 DEF indexerVars
  <2> QED BY ZenonT(30), <2>1 DEF ApplyInv, SuccessMeansApplied, Progress, At
<1>2. CASE IndexerNext
  BY <1>2, NextCases, ApplyBefore, ApplyRemove, ApplyDeprecate, ApplyPull,
     ApplyPopulate, ApplyBuild, ApplyExport, ApplyGo
<1> QED BY <1>1, <1>2

-----------------------------------------------------------------------------
(***************************************************************************)
(* The theorems                                                            *)
(***************************************************************************)

INSTANCE FiniteSetTheorems

\* The facts about finite sets, from the library.
LEMMA CountingLemma == Counting
<1>1. \A S : \A T \in SUBSET S : IsFiniteSet(S) => IsFiniteSet(T)
  BY FS_Subset
<1>2. ASSUME NEW S, IsFiniteSet(S)
      PROVE  Counts(S)
  <2>1. Cardinality(S) \in Nat
    BY <1>2, FS_CardinalityType
  <2>2. Cardinality(S) = 0 => S = {}
    BY <1>2, FS_EmptySet
  <2>3. \A x \in S : Cardinality(S \ {x}) = Cardinality(S) - 1
    BY <1>2, FS_RemoveElement
  <2> QED BY <2>1, <2>2, <2>3 DEF Counts
<1> QED BY <1>1, <1>2 DEF Counting

\* Types, and what populate holds, in every state.
THEOREM IndexerInvariant == IndexerSpec => [](TypeInv /\ AddInv)
<1>1. TypeInv /\ AddInv /\ [IndexerNext]_indexerVars => TypeInv' /\ AddInv'
  BY CountingLemma, StepInv
<1> QED BY <1>1, InitInv, PTL DEF IndexerSpec

\* --overwrite-latest removes a package only to add all of it again, for every
\* set of bundles, every index and every order of the goroutines.
THEOREM WholePackages == IndexerSpec => []OverwritesWholePackages
<1>1. TypeInv /\ AddInv => OverwritesWholePackages
  BY InvWhole
<1> QED BY <1>1, IndexerInvariant, PTL

\* A command that returns has removed its temporary files, whatever failed and in
\* whatever order its goroutines ran: after an error only directories of unpacked
\* bundles may be left, after a success without error nothing.
THEOREM ExitIsClean == IndexerSpec => []CleanExit
<1>1. TypeInv /\ AddInv /\ AddInv' /\ CleanInv /\ [IndexerNext]_indexerVars => CleanInv'
  BY StepClean
<1>2. CleanInv => CleanExit
  BY DEF CleanInv
<1> QED BY <1>1, <1>2, InitClean, IndexerInvariant, PTL DEF IndexerSpec

\* An export that reports success has itself exported every bundle of its packages,
\* each into a directory of its version, and written the package.yaml of each, for
\* every index, every order and failure of the goroutines, and whatever earlier
\* commands left in the same directory.
THEOREM ExportComplete == IndexerSpec => []ExportIsComplete
<1>1. TypeInv /\ TypeInv' /\ ExportInv /\ [IndexerNext]_indexerVars => ExportInv'
  BY StepExport
<1>2. ExportInv => ExportIsComplete
  BY DEF ExportInv
<1> QED BY <1>1, <1>2, InitExport, IndexerInvariant, PTL DEF IndexerSpec

\* A command that reports success has done all of what was asked, and nothing to the
\* packages it was not asked about, for every index, every request, every failure
\* of a call, every order of the goroutines, and whatever earlier commands, killed
\* ones too, left in the same directory.
THEOREM SuccessApplies == IndexerSpec => []SuccessMeansApplied
<1>1. TypeInv /\ AddInv /\ ApplyInv /\ [IndexerNext]_indexerVars => ApplyInv'
  BY CountingLemma, StepApply
<1>2. ApplyInv => SuccessMeansApplied
  BY DEF ApplyInv
<1> QED BY <1>1, <1>2, InitApply, IndexerInvariant, PTL DEF IndexerSpec

=============================================================================
