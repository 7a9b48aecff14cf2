---------------------------- MODULE PopulatorProofs ----------------------------
(***************************************************************************)
(* Proofs about Populator, for any images, requests and indexes: an add    *)
(* that returns no error has stored and published its images and lost no   *)
(* bundle, and an add without --overwrite-latest never takes a channel     *)
(* back, wherever it fails or dies.                                        *)
(*                                                                         *)
(* The calls of the loader are transactions of their own, so the argument  *)
(* is about what is left between two of them.  StoresInv follows a bundle  *)
(* of the index from the tables to overwriteImageMap and back into the     *)
(* tables.  PublishInv follows an image from unpackedImageMap to the       *)
(* images whose package is still to be regenerated, and to the channels of *)
(* the open transaction.  ForwardInv compares the channels of the open     *)
(* transaction with the committed ones.                                    *)
(***************************************************************************)
EXTENDS Populator, SqlLoaderProofs

\* A leaf that names no prover is tried with SMT and Zenon, then again with
\* more time.
USE SMT, Zenon, SMTT(20), SMTT(30)

Job ==
    [stage : {"none", "find", "load"}, request : SUBSET Images,
     overwrite : BOOLEAN, unpacked : SUBSET Images, visited : SUBSET Images,
     readd : SUBSET Images, rm : SUBSET Pkgs, added : SUBSET Images,
     errs : BOOLEAN, had : SUBSET Names]

Walking == {"channel", "bundle", "skips"}

\* The path of a bundle is the path of an image that has the bundle.
Imaged(t) ==
    \A n \in DOMAIN t.operatorbundle : PathOf(t, n) # NULL =>
        \E img \in Images :
            img.bundle.path = PathOf(t, n) /\ img.bundle.name = n

HeadsLive(t) == \A k \in DOMAIN t.channel : t.channel[k] \notin t.deprecated

Tables(t) == Imaged(t) /\ HeadsLive(t)

\* What the tables hold, in every state.
TablesInv == DeferredForeignKeys(db) /\ Tables(db) /\ Tables(tx)

\* What each stage of an add does not touch.
StageInv ==
    /\ job.stage = "find" => pc = "idle" /\ job.had = Listed(db)
    /\ job.stage # "none" /\ ~ job.overwrite => job.rm = {} /\ pc # "strand"
    /\ job.stage = "load" /\ pc \in Walking =>
          Added /\ tx.operatorbundle = db.operatorbundle

\* The packages to overwrite are not all removed yet.
Clearing == job.stage = "find" \/ job.rm # {} \/ pc = "strand"

Readded(n) == \E img \in job.readd : img.bundle.name = n

Stored(t, img) ==
    /\ img.bundle.name \in DOMAIN t.operatorbundle
    /\ PathOf(t, img.bundle.name) = img.bundle.path

\* An image of the request is still to be added or stored. A bundle that was
\* listed is in the index or will be added again; the ones of the packages that
\* are going to be removed will be.
StoresInv ==
    job.stage # "none" =>
        /\ Clearing =>
              /\ job.request \subseteq job.unpacked \cup job.readd
              /\ \A n \in job.had :
                    Readded(n) \/ (n \in Listed(db) /\ PkgOf[n] \notin job.rm)
        /\ ~ Clearing /\ ~ job.errs =>
              /\ \A img \in job.request :
                    img \in job.unpacked \cup job.readd \/ Stored(db, img)
              /\ \A n \in job.had : Readded(n) \/ n \in DOMAIN db.operatorbundle

\* The channels of the image have a head of at least its version.
Published(t, img) ==
    \A c \in img.channels :
        LET h == HeadOf(t, c, PackageOf(img))
        IN  IF h = NULL
            THEN \E n \in t.deprecated :
                    /\ PkgOf[n] = PackageOf(img)
                    /\ VersionOf[n] >= VersionOf[img.bundle.name]
            ELSE VersionOf[h] >= VersionOf[img.bundle.name]

\* An image of the request is still to be added, or its package to be
\* regenerated, or it is published by the transaction.
PublishInv ==
    job.stage = "load" /\ ~ Clearing /\ ~ job.errs /\ (pc = "idle" \/ ~ w.errs) =>
        /\ job.unpacked \cup job.readd # {} =>
              job.request \subseteq job.unpacked \cup job.readd \cup job.added
        /\ job.unpacked \cup job.readd = {} =>
              \A img \in job.request :
                  \/ img \in job.added
                  \/ /\ Published(tx, img)
                     /\ \A a \in job.added : PackageOf(a) # PackageOf(img)

\* u keeps the packages and the channels of t, with heads that are not lower.
GoesOn(t, u) ==
    /\ DOMAIN t.package \subseteq DOMAIN u.package
    /\ \A k \in DOMAIN t.channel :
          IF k \in DOMAIN u.channel
          THEN VersionOf[t.channel[k]] <= VersionOf[u.channel[k]]
          ELSE \E n \in t.deprecated :
                  /\ PkgOf[n] = k[2]
                  /\ VersionOf[t.channel[k]] < VersionOf[n]

ForwardInv ==
    job.stage = "load" /\ pc \in Walking /\ ~ w.errs => GoesOn(db, tx)

\* What the locals of an add hold.
JobInv ==
    /\ job \in Job
    /\ StageInv
    /\ StoresInv
    /\ PublishInv
    /\ ForwardInv

\* The inductive invariant.
PopInv == IInv /\ TablesInv /\ JobInv

-----------------------------------------------------------------------------
(***************************************************************************)
(* The calls of the loader                                                 *)
(***************************************************************************)

\* Deleting rows keeps what the tables hold.
LEMMA TablesSub ==
    ASSUME NEW t, NEW u, Tables(t),
           SubTable(u.operatorbundle, t.operatorbundle),
           SubTable(u.channel, t.channel), u.deprecated = t.deprecated
    PROVE  Tables(u)
BY DEF Tables, Imaged, HeadsLive, SubTable, PathOf

\* A database with the bundles, heads and deprecations of another one.
LEMMA TablesSame ==
    ASSUME NEW t, NEW u, Tables(t), u.operatorbundle = t.operatorbundle,
           u.channel = t.channel, u.deprecated = t.deprecated
    PROVE  Tables(u)
BY TablesSub DEF SubTable

\* A call that returns, and one that commits if the foreign key holds.
LEMMA CommitTables ==
    ASSUME TablesInv, NEW t
    PROVE  /\ Return(db) => TablesInv'
           /\ Tables(t) /\ Commit(t) => TablesInv'
           /\ Tables(t) /\ Commit(t) => db' = t \/ db' = db
BY DEF TablesInv, Commit, Return

\* A bundle whose path is the path of an image of it.
FromImage(b) ==
    b.path # NULL =>
        \E img \in Images : img.bundle.path = b.path /\ img.bundle.name = b.name

\* What the commands add.
LEMMA InputsFromImages ==
    /\ \A b \in BundleImages : OwnBundle(b) /\ FromImage(b)
    /\ \A img \in Images : OwnBundle(img.bundle) /\ FromImage(img.bundle)
<1>1. \A b \in BundleImages : OwnBundle(b) /\ FromImage(b)
  BY OwnInputs, PopulatorAssumption DEF FromImage
<1>2. ASSUME NEW img \in Images PROVE OwnBundle(img.bundle) /\ FromImage(img.bundle)
  BY PopulatorAssumption DEF OwnBundle, FromImage, Image
<1> QED BY <1>1, <1>2

\* addOperatorBundle: the row of the bundle, and no other change to bundles,
\* channels and entries.
LEMMA AddedRows ==
    ASSUME NEW t, IsDatabase(t), NEW b
    PROVE  LET u == WithBundle(t, b)
           IN  /\ DOMAIN u.operatorbundle = DOMAIN t.operatorbundle \cup {b.name}
               /\ u.operatorbundle[b.name].path = b.path
               /\ \A n \in DOMAIN t.operatorbundle :
                     n # b.name => u.operatorbundle[n] = t.operatorbundle[n]
               /\ u.channel = t.channel /\ u.package = t.package
               /\ u.channel_entry = t.channel_entry
               /\ u.deprecated = t.deprecated
<1> DEFINE row == [path |-> b.path, keyed |-> b.keyed, content |-> TRUE,
                   replaces |-> b.replaces, skips |-> b.skips]
           u == WithBundle(t, b)
<1>1. /\ u.operatorbundle = With(t.operatorbundle, b.name, row)
      /\ SameBut(t, u, {"operatorbundle", "properties"})
  BY WithBundleRows
<1>2. row.path = b.path
  OBVIOUS
<1> HIDE DEF row, u
<1>3. /\ DOMAIN u.operatorbundle = DOMAIN t.operatorbundle \cup {b.name}
      /\ u.operatorbundle[b.name] = row
      /\ \A n \in DOMAIN t.operatorbundle :
            n # b.name => u.operatorbundle[n] = t.operatorbundle[n]
  BY <1>1 DEF With
<1>4. /\ u.channel = t.channel /\ u.package = t.package
      /\ u.channel_entry = t.channel_entry /\ u.deprecated = t.deprecated
  BY <1>1 DEF SameBut
<1> QED BY <1>2, <1>3, <1>4 DEF u

\* A bundle of an image keeps the paths those of images.
LEMMA WithBundleTables ==
    ASSUME NEW t, IsDatabase(t), Tables(t), NEW b, FromImage(b)
    PROVE  Tables(WithBundle(t, b))
<1> DEFINE u == WithBundle(t, b)
<1>1. /\ DOMAIN u.operatorbundle = DOMAIN t.operatorbundle \cup {b.name}
      /\ u.operatorbundle[b.name].path = b.path
      /\ \A n \in DOMAIN t.operatorbundle :
            n # b.name => u.operatorbundle[n] = t.operatorbundle[n]
      /\ u.channel = t.channel /\ u.deprecated = t.deprecated
  BY AddedRows
<1> HIDE DEF u
<1>2. Imaged(u)
  BY <1>1 DEF Tables, Imaged, FromImage, PathOf
<1>3. HeadsLive(u)
  BY <1>1 DEF Tables, HeadsLive
<1> QED BY <1>2, <1>3 DEF Tables, u

\* The transaction of addPackageChannels, up to the walk: the channels of the
\* package are the live ones of the manifest, the others are as they were. An
\* error is recorded when a live one is left out.
LEMMA BeginRows ==
    ASSUME NEW t, Sound(t), Navigable(t), NEW m, OwnHeads(m),
           BeginPackageChannels(t, m)
    PROVE  LET p == m.package
           IN  /\ db' = db /\ pc' = "channel"
               /\ tx'.operatorbundle = t.operatorbundle
               /\ tx'.deprecated = t.deprecated
               /\ DOMAIN tx'.package = DOMAIN t.package \cup {p}
               /\ DOMAIN tx'.channel = {k \in DOMAIN t.channel : k[2] # p}
                                          \cup (AddedChannels(t, m) \X {p})
               /\ \A k \in DOMAIN t.channel :
                     k[2] # p => tx'.channel[k] = t.channel[k]
               /\ \A c \in AddedChannels(t, m) :
                     tx'.channel[<<c, p>>] = m.heads[c]
               /\ ~ w'.errs => AddedChannels(t, m) = LiveChannels(t, m)
<1> DEFINE p == m.package
           r == RmPackage(t, p)
           u == WithPackage(r, m)
           A == AddedChannels(t, m)
           err == A # LiveChannels(t, m) \/ DefaultChannels(t, m) = {}
<1>1. /\ Sound(r)
      /\ r.operatorbundle = t.operatorbundle
      /\ r.deprecated = t.deprecated
      /\ SubTable(r.channel, t.channel)
      /\ DOMAIN r.package = DOMAIN t.package \ {p}
      /\ DOMAIN r.channel = {k \in DOMAIN t.channel : k[2] # p}
  BY RmPackageLemma
<1>2. db' = db /\ pc' = "channel" /\ tx' = u
  BY DEF BeginPackageChannels
<1>3. w'.errs = err
  <2>1. w' = [NoWalk EXCEPT !.pkg = p, !.todo = A, !.errs = err]
    BY Zenon DEF BeginPackageChannels
  <2> HIDE DEF A, err, p
  <2> QED BY <2>1 DEF NoWalk
<1> HIDE DEF r
<1>4. AddedChannels(r, m) = A
  BY <1>1 DEF AddedChannels, LiveChannels
<1>5. \A k \in DOMAIN r.channel : k[2] # p
  BY <1>1
<1> HIDE DEF A
<1>6. /\ SameBut(r, u, {"package", "channel"})
      /\ DOMAIN u.package = DOMAIN r.package \cup {p}
      /\ DOMAIN u.channel = DOMAIN r.channel \cup (A \X {p})
      /\ \A k \in DOMAIN r.channel : u.channel[k] = r.channel[k]
      /\ \A c \in A : u.channel[<<c, p>>] = m.heads[c]
  BY <1>1, <1>4, <1>5, WithPackageLemma
<1> HIDE DEF u
<1>7. u.operatorbundle = t.operatorbundle /\ u.deprecated = t.deprecated
  BY <1>1, <1>6 DEF SameBut
<1>8. \A k \in DOMAIN t.channel : k[2] # p => u.channel[k] = t.channel[k]
  BY <1>1, <1>6 DEF SubTable
<1>9. DOMAIN u.package = DOMAIN t.package \cup {p}
  BY <1>1, <1>6
<1>10. DOMAIN u.channel = {k \in DOMAIN t.channel : k[2] # p} \cup (A \X {p})
  BY <1>1, <1>6
<1> QED BY Zenon, <1>2, <1>3, <1>6, <1>7, <1>8, <1>9, <1>10 DEF A

\* Starting the walk: a live head is not deprecated.
LEMMA BeginTables ==
    ASSUME IInv, TablesInv, NEW t, Sound(t), Navigable(t), Tables(t),
           t.package = db.package,
           NEW m, OwnHeads(m), BeginPackageChannels(t, m)
    PROVE  IInv' /\ TablesInv'
<1> DEFINE p == m.package
           A == AddedChannels(t, m)
<1>1. /\ db' = db
      /\ tx'.operatorbundle = t.operatorbundle
      /\ tx'.deprecated = t.deprecated
      /\ DOMAIN tx'.channel = {k \in DOMAIN t.channel : k[2] # p} \cup (A \X {p})
      /\ \A k \in DOMAIN t.channel : k[2] # p => tx'.channel[k] = t.channel[k]
      /\ \A c \in A : tx'.channel[<<c, p>>] = m.heads[c]
  BY BeginRows
<1>2. \A c \in A : m.heads[c] \notin t.deprecated
  BY DEF AddedChannels, LiveChannels
<1> HIDE DEF A, p
<1>3. ASSUME NEW k \in DOMAIN tx'.channel PROVE tx'.channel[k] \notin t.deprecated
  <2>1. CASE k \in DOMAIN t.channel /\ k[2] # p
    BY <2>1, <1>1 DEF Tables, HeadsLive
  <2>2. CASE k \in A \X {p}
    <3>1. PICK c \in A : k = <<c, p>>
      BY <2>2
    <3> QED BY <3>1, <1>1, <1>2
  <2> QED BY <2>1, <2>2, <1>1
<1>4. Tables(tx')
  BY <1>1, <1>3 DEF Tables, Imaged, HeadsLive, PathOf
<1>5. TablesInv'
  BY <1>1, <1>4 DEF TablesInv
<1> QED BY <1>5, BeginStep

\* Adding a bundle, alone or with its package.
LEMMA AddTables ==
    ASSUME IInv, TablesInv, NEW b, OwnBundle(b), FromImage(b)
    PROVE  /\ AddOperatorBundle(b) => IInv' /\ TablesInv'
           /\ \A m : OwnHeads(m) /\ AddBundlePackageChannels(b, m) =>
                 IInv' /\ TablesInv'
<1> DEFINE t == WithBundle(db, b)
<1>1. Sound(t) /\ Navigable(t) /\ t.package = db.package
  BY WithBundleLemma DEF IInv
<1>2. Tables(t)
  BY WithBundleTables DEF IInv, TypeOK, TablesInv
<1>3. ASSUME AddOperatorBundle(b) PROVE IInv' /\ TablesInv'
  <2>1. Return(db) \/ Commit(t)
    BY <1>3 DEF AddOperatorBundle, Rollback
  <2> HIDE DEF t
  <2>2. TablesInv'
    BY <2>1, <1>2, CommitTables
  <2> QED BY <2>2, <1>3, AddBundleStep
<1>4. ASSUME NEW m, OwnHeads(m), AddBundlePackageChannels(b, m)
      PROVE  IInv' /\ TablesInv'
  <2>1. Return(db) \/ BeginPackageChannels(t, m)
    BY <1>4 DEF AddBundlePackageChannels, Rollback
  <2> HIDE DEF t
  <2>2. CASE Return(db)
    BY <2>2, CommitTables, RollbackLemma
  <2>3. CASE BeginPackageChannels(t, m)
    BY <2>3, <1>1, <1>2, <1>4, BeginTables
  <2> QED BY <2>1, <2>2, <2>3
<1> QED BY <1>3, <1>4

\* The first transaction of RemovePackage.
LEMMA RemoveTables ==
    ASSUME IInv, TablesInv, NEW p, RemovePackage(p)
    PROVE  IInv' /\ TablesInv'
<1> DEFINE t == WithoutPackage(db, p)
<1>1. /\ SubTable(t.operatorbundle, db.operatorbundle)
      /\ SubTable(t.channel, db.channel) /\ t.deprecated = db.deprecated
  BY WithoutPackageRows DEF IInv
<1>2. \/ Return(db)
      \/ DeferredForeignKeys(t) /\ db' = t /\ tx' = t
  BY DEF RemovePackage, Rollback
<1> HIDE DEF t
<1>3. Tables(t)
  BY <1>1, TablesSub DEF TablesInv
<1>4. TablesInv'
  BY <1>2, <1>3, CommitTables DEF TablesInv
<1> QED BY <1>4, RemovePackageStep

\* Its second transaction, which is also what prune-stranded does.
LEMMA StrandTables ==
    ASSUME IInv, TablesInv, Commit(DeleteBundles(db, Stranded(db)))
    PROVE  IInv' /\ TablesInv'
<1> DEFINE t == DeleteBundles(db, Stranded(db))
<1>1. /\ SubTable(t.operatorbundle, db.operatorbundle)
      /\ SubTable(t.channel, db.channel) /\ t.deprecated = db.deprecated
  BY StrandedLemma DEF IInv
<1> HIDE DEF t
<1>2. Tables(t)
  BY <1>1, TablesSub DEF TablesInv
<1>3. Commit(t)
  BY DEF t
<1> QED BY <1>2, <1>3, CommitTables, StrandStep

\* Truncating the channels of a bundle deletes rows, and every channel that it
\* heads.
LEMMA TruncatedRows ==
    ASSUME NEW t, Sound(t), Navigable(t), NEW n
    PROVE  LET u == Truncated(t, n)
           IN  /\ IsDatabase(u)
               /\ SubTable(u.operatorbundle, t.operatorbundle)
               /\ SubTable(u.channel, t.channel)
               /\ u.deprecated = t.deprecated
               /\ \A k \in DOMAIN u.channel : u.channel[k] # n
<1> DEFINE S == TailOf(t, n)
           a == UnlinkEntriesOf(t, S)
           b == DeleteChannels(a, HeadedBy(a, S))
           c == RmBundles(b, S)
           u == DeleteChannels(c, HeadedBy(c, {n}))
<1>1. u = Truncated(t, n)
  BY DEF Truncated
<1> HIDE DEF S
<1>2. /\ IsDatabase(a) /\ a.operatorbundle = t.operatorbundle
      /\ a.channel = t.channel /\ a.deprecated = t.deprecated
  BY UnlinkLemma DEF Sound, SameBut
<1> HIDE DEF a
<1>3. /\ IsDatabase(b) /\ b.operatorbundle = a.operatorbundle
      /\ SubTable(b.channel, a.channel) /\ b.deprecated = a.deprecated
  BY <1>2, DeleteChannelsLemma DEF SameBut
<1> HIDE DEF b
<1>4. /\ IsDatabase(c) /\ SubTable(c.operatorbundle, b.operatorbundle)
      /\ SubTable(c.channel, b.channel) /\ c.deprecated = b.deprecated
  BY <1>3, RmBundlesLemma
<1> HIDE DEF c
<1>5. /\ IsDatabase(u) /\ u.operatorbundle = c.operatorbundle
      /\ SubTable(u.channel, c.channel) /\ u.deprecated = c.deprecated
      /\ DOMAIN u.channel = DOMAIN c.channel \ HeadedBy(c, {n})
  BY <1>4, DeleteChannelsLemma DEF SameBut
<1> HIDE DEF u
<1>6. \A k \in DOMAIN u.channel : u.channel[k] # n
  BY <1>5 DEF HeadedBy, SubTable
<1>7. SubTable(u.channel, t.channel) /\ SubTable(u.operatorbundle, t.operatorbundle)
  BY <1>2, <1>3, <1>4, <1>5, SubTableTransitive
<1> QED BY <1>1, <1>2, <1>3, <1>4, <1>5, <1>6, <1>7

\* Deprecating a bundle.
LEMMA DeprecateTables ==
    ASSUME IInv, TablesInv, NEW path \in Paths, DeprecateBundle(path)
    PROVE  IInv' /\ TablesInv'
<1>1. CASE Return(db)
  BY <1>1, CommitTables, RollbackLemma
<1>2. CASE \E n \in BundlesForImage(db, path) :
              Commit(MarkDeprecated(Truncated(db, n), n,
                                    db.operatorbundle[n].keyed))
  <2>1. PICK n \in BundlesForImage(db, path) :
            Commit(MarkDeprecated(Truncated(db, n), n,
                                  db.operatorbundle[n].keyed))
    BY <1>2
  <2> DEFINE t == Truncated(db, n)
             u == MarkDeprecated(t, n, db.operatorbundle[n].keyed)
  <2>2. /\ IsDatabase(t)
        /\ SubTable(t.operatorbundle, db.operatorbundle)
        /\ SubTable(t.channel, db.channel)
        /\ t.deprecated = db.deprecated
        /\ \A k \in DOMAIN t.channel : t.channel[k] # n
    BY TruncatedRows DEF IInv
  <2> HIDE DEF t
  <2>3. /\ u.operatorbundle = t.operatorbundle /\ u.channel = t.channel
        /\ u.deprecated = t.deprecated \cup {n}
    BY <2>2 DEF MarkDeprecated, InsertProperty, IsDatabase
  <2>4. Commit(u)
    BY <2>1 DEF t
  <2> HIDE DEF u
  <2>5. Tables(t)
    BY <2>2, TablesSub DEF TablesInv
  <2>6. Tables(u)
    BY <2>2, <2>3, <2>5 DEF Tables, Imaged, HeadsLive, PathOf
  <2> QED BY <2>4, <2>6, CommitTables, DeprecateBundleStep
<1> QED BY <1>1, <1>2, Zenon DEF DeprecateBundle, Rollback

WalkAction ==
    \/ NextChannel \/ VisitBundle \/ AddSkip
    \/ EndOfChain \/ ReplacesCycle \/ FollowReplaces

\* A step of the walk leaves what is committed, and the bundles, packages and
\* heads of the transaction, and forgets no error.
LEMMA WalkFrame ==
    ASSUME IInv, WalkAction
    PROVE  /\ db' = db /\ pc \in Walking /\ pc' \in Walking
           /\ tx'.operatorbundle = tx.operatorbundle
           /\ tx'.package = tx.package /\ tx'.channel = tx.channel
           /\ tx'.deprecated = tx.deprecated
           /\ w.errs => w'.errs
<1>1. IsDatabase(tx) /\ w \in Walk
  BY DEF IInv, TypeOK
<1>2. CASE NextChannel
  <2>1. PICK c \in w.todo :
          LET head == tx.channel[<<c, w.pkg>>]
          IN  /\ tx' = InsertEntry(tx, [channel |-> c, package |-> w.pkg,
                                        bundle |-> head, replaces |-> 0,
                                        depth |-> 0])
              /\ w' = [w EXCEPT !.todo = @ \ {c}, !.ch = c, !.cur = head,
                                !.curID = NextID(tx), !.depth = 1,
                                !.seen = {head}]
    BY Zenon, <1>2 DEF NextChannel
  <2>2. w'.errs = w.errs
    BY Zenon, <1>1, <2>1 DEF Walk
  <2> QED BY <1>1, <1>2, <2>1, <2>2 DEF NextChannel, InsertEntry, IsDatabase, Walking
<1>3. CASE VisitBundle
  <2>1. w'.errs = w.errs
    BY Zenon, <1>1, <1>3 DEF VisitBundle, Walk
  <2> QED BY <1>1, <1>3, <2>1 DEF VisitBundle, InsertProperty, IsDatabase, Walking
<1>4. CASE AddSkip
  <2>1. w' = [w EXCEPT !.rest = Tail(w.rest), !.depth = w.depth + 1]
    BY <1>4 DEF AddSkip
  <2>2. w'.errs = w.errs
    BY Zenon, <1>1, <2>1 DEF Walk
  <2> QED BY <1>1, <1>4, <2>2 DEF AddSkip, InsertEntry, IsDatabase, Walking
<1>5. CASE EndOfChain
  BY <1>5 DEF EndOfChain, Walking
<1>6. CASE FollowReplaces
  <2>1. w.errs => w'.errs
    <3>1. CASE w' = w
      BY <3>1
    <3>2. CASE w' = [w EXCEPT !.errs = TRUE]
      BY <3>2, <1>1 DEF Walk
    <3>3. CASE w' = Moved
      BY Zenon, <3>3, <1>1 DEF Moved, Walk
    <3> QED BY Zenon, <1>6, <3>1, <3>2, <3>3 DEF FollowReplaces
  <2>2. db' = db /\ pc \in Walking /\ pc' \in Walking
    BY Zenon, <1>6 DEF FollowReplaces, Walking
  <2>3. tx' = SetReplaces(InsertEntry(tx, Entry(Replaced, w.depth, 0)),
                          w.curID, NextID(tx))
    BY <1>6 DEF FollowReplaces
  <2> QED BY <1>1, <2>1, <2>2, <2>3 DEF InsertEntry, SetReplaces, IsDatabase
<1>7. CASE ReplacesCycle
  <2>1. w'.errs
    BY <1>1, <1>7 DEF ReplacesCycle, Walk
  <2>2. tx' = InsertEntry(tx, Entry(Replaced, w.depth, 0))
    BY <1>7 DEF ReplacesCycle
  <2> QED BY <1>1, <1>7, <2>1, <2>2 DEF ReplacesCycle, InsertEntry, IsDatabase, Walking
<1> QED BY <1>2, <1>3, <1>4, <1>5, <1>6, <1>7 DEF WalkAction

\* A step of the walk.
LEMMA WalkTables ==
    ASSUME IInv, TablesInv, WalkAction
    PROVE  IInv' /\ TablesInv'
<1>1. TablesInv'
  BY WalkFrame, TablesSame DEF TablesInv
<1> QED BY <1>1, NextChannelStep, VisitBundleStep, AddSkipStep, EndOfChainStep,
           ReplacesCycleStep, FollowReplacesStep DEF WalkAction

\* The end of addPackageChannels.
LEMMA EndTables ==
    ASSUME IInv, TablesInv, EndPackageChannels
    PROVE  IInv' /\ TablesInv'
<1>1. Return(db) \/ Commit(tx)
  BY DEF EndPackageChannels, Rollback
<1>2. TablesInv'
  BY <1>1, CommitTables DEF TablesInv
<1> QED BY <1>2, EndPackageChannelsStep

-----------------------------------------------------------------------------
(***************************************************************************)
(* The manifest of a package that is regenerated                           *)
(***************************************************************************)

\* The bundles that SemverPackageManifest is given are of the package.
LEMMA OfPackage ==
    ASSUME IInv, job \in Job, NEW p \in Pkgs, NEW b \in Existing(p) \cup New(p)
    PROVE  /\ b.name \in Names /\ PkgOf[b.name] = p
           /\ b.channels \subseteq Chans /\ b.default \in Chans \cup {NULL}
<1>1. Sound(db)
  BY DEF IInv
<1>2. CASE b \in Existing(p)
  <2>1. PICK n \in BundlesForPackage(db, p) :
          /\ b.name = n
          /\ b.channels = {db.channel_entry[i].channel :
                             i \in {j \in DOMAIN db.channel_entry :
                                       db.channel_entry[j].bundle = n}}
          /\ b.default = IF p \in DOMAIN db.package THEN db.package[p] ELSE NULL
    BY <1>2 DEF Existing
  <2>2. \A i \in DOMAIN db.channel_entry : db.channel_entry[i].channel \in Chans
    BY <1>1 DEF Sound, IsDatabase, IsTable, EntryRow
  <2>3. b.channels \subseteq Chans
    BY <2>1, <2>2
  <2>4. b.default \in Chans \cup {NULL}
    BY <2>1, <1>1 DEF Sound, IsDatabase, IsTable
  <2>5. n \in Names
    BY <1>1 DEF BundlesForPackage, Sound, IsDatabase, IsTable
  <2>6. PkgOf[n] = p
    BY <1>1 DEF BundlesForPackage, CSVNames, Sound, OwnPackage
  <2> QED BY <2>1, <2>3, <2>4, <2>5, <2>6
<1>3. CASE b \in New(p)
  <2>1. PICK img \in job.added :
          /\ PackageOf(img) = p
          /\ b = [name |-> img.bundle.name, channels |-> img.channels,
                  default |-> img.default]
    BY <1>3 DEF New
  <2>2. img \in Image
    BY PopulatorAssumption DEF Job
  <2> QED BY <2>1, <2>2 DEF Image, Bundle, PackageOf
<1> QED BY <1>2, <1>3

\* Any of them have a highest one.
LEMMA HighestLemma ==
    ASSUME NEW T, T # {}, \A b \in T : b.name \in Names
    PROVE  /\ Highest(T) \in T
           /\ \A a \in T : VersionOf[a.name] <= VersionOf[Highest(T).name]
<1> DEFINE N == {b.name : b \in T}
<1>1. N \in (SUBSET Names) \ {{}}
  OBVIOUS
<1>2. PICK n \in N : \A m \in N : VersionOf[m] <= VersionOf[n]
  BY Zenon, <1>1, PopulatorAssumption
<1>3. \E b \in T : \A a \in T : VersionOf[a.name] <= VersionOf[b.name]
  BY <1>2
<1> QED BY <1>3 DEF Highest

\* The default channel is that of one of them, or none.
LEMMA DefaultsLemma ==
    ASSUME IInv, job \in Job, NEW p \in Pkgs, New(p) # {}, NEW default \in Defaults(p)
    PROVE  default \in Chans \cup {NULL}
<1> DEFINE S == Existing(p) \cup New(p)
<1>1. \A b \in S : b.name \in Names /\ b.default \in Chans \cup {NULL}
  BY OfPackage
<1>2. Highest(S) \in S
  <2> HIDE DEF S
  <2>1. S # {}
    BY DEF S
  <2> QED BY <2>1, <1>1, HighestLemma
<1>3. default = NULL \/ \E b \in S : default = b.default
  BY <1>2 DEF Defaults
<1> QED BY <1>1, <1>3

\* The manifest names bundles of the package only, and the head of each of its
\* channels is not lower than any of the bundles in it.
LEMMA ManifestLemma ==
    ASSUME IInv, job \in Job, NEW p \in Pkgs, New(p) # {}, NEW default \in Defaults(p)
    PROVE  LET m == SemverPackageManifest(p, default)
           IN  /\ OwnHeads(m) /\ m.package = p
               /\ \A b \in Existing(p) \cup New(p) : \A c \in b.channels :
                     /\ c \in DOMAIN m.heads
                     /\ VersionOf[b.name] <= VersionOf[m.heads[c]]
<1> DEFINE S == Existing(p) \cup New(p)
           C == UNION {b.channels : b \in S}
           H == [c \in C |-> Highest(Within(S, c)).name]
           d == IF Cardinality(C) = 1 THEN CHOOSE c \in C : TRUE
                ELSE default
           m == SemverPackageManifest(p, default)
<1>1. m = [package |-> p, heads |-> H, default |-> d]
  BY DEF SemverPackageManifest
<1>2. \A b \in S : /\ b.name \in Names /\ PkgOf[b.name] = p
                   /\ b.channels \subseteq Chans /\ b.default \in Chans \cup {NULL}
  BY OfPackage
<1>3. S # {} /\ C # {}
  <2>1. PICK img \in job.added : PackageOf(img) = p
    BY DEF New
  <2> DEFINE b == [name |-> img.bundle.name, channels |-> img.channels,
                   default |-> img.default]
  <2>2. b \in S
    BY <2>1 DEF New
  <2>3. img.channels # {}
    BY PopulatorAssumption DEF Job, Image
  <2>4. b.channels # {}
    BY <2>3
  <2> HIDE DEF b
  <2> QED BY <2>2, <2>4
<1> HIDE DEF S
<1>4. C \subseteq Chans
  BY <1>2
<1>5. ASSUME NEW c \in C
      PROVE  /\ Highest(Within(S, c)) \in S
             /\ \A a \in S : c \in a.channels =>
                   VersionOf[a.name] <= VersionOf[Highest(Within(S, c)).name]
  <2>1. Within(S, c) # {} /\ Within(S, c) \subseteq S
    BY DEF Within
  <2>2. \A b \in Within(S, c) : b.name \in Names
    BY <2>1, <1>2
  <2>3. /\ Highest(Within(S, c)) \in Within(S, c)
        /\ \A a \in Within(S, c) :
              VersionOf[a.name] <= VersionOf[Highest(Within(S, c)).name]
    BY <2>1, <2>2, HighestLemma
  <2> QED BY <2>3 DEF Within
<1>6. d \in Chans \cup {NULL}
  <2>1. default \in Chans \cup {NULL}
    BY DefaultsLemma
  <2>2. (CHOOSE c \in C : TRUE) \in C
    BY Zenon, <1>3
  <2> HIDE DEF C
  <2> QED BY <2>1, <2>2, <1>4
<1>7. /\ DOMAIN H = C
      /\ \A c \in C : H[c] = Highest(Within(S, c)).name
      /\ H = [c \in C |-> H[c]]
  OBVIOUS
<1>8. \A b \in S : \A c \in b.channels : c \in C
  OBVIOUS
<1> HIDE DEF H, d, C
<1>9. ASSUME NEW c \in C PROVE H[c] \in Names /\ PkgOf[H[c]] = p
  <2>1. Highest(Within(S, c)) \in S /\ H[c] = Highest(Within(S, c)).name
    BY <1>5, <1>7
  <2> QED BY <2>1, <1>2
<1>10. H \in [C -> Names]
  BY Zenon, <1>7, <1>9
<1>11. \A b \in S : \A c \in b.channels : VersionOf[b.name] <= VersionOf[H[c]]
  BY Zenon, <1>5, <1>7, <1>8
<1> HIDE DEF m
<1>12. m \in PackageManifest
  BY <1>1, <1>4, <1>6, <1>10 DEF PackageManifest
<1>13. m.package = p /\ m.heads = H
  BY <1>1
<1>14. OwnHeads(m)
  BY <1>7, <1>9, <1>12, <1>13 DEF OwnHeads
<1> QED BY <1>7, <1>8, <1>11, <1>13, <1>14 DEF S, m

\* The head of a channel of the index is one of the bundles the manifest is made
\* of, in that channel.
LEMMA HeadsExist ==
    ASSUME IInv, NEW k \in DOMAIN db.channel
    PROVE  \E b \in Existing(k[2]) : b.name = db.channel[k] /\ k[1] \in b.channels
<1> DEFINE h == db.channel[k]
           p == k[2]
           b == [name     |-> h,
                 channels |-> {db.channel_entry[i].channel :
                                 i \in {j \in DOMAIN db.channel_entry :
                                           db.channel_entry[j].bundle = h}},
                 default  |-> IF p \in DOMAIN db.package THEN db.package[p] ELSE NULL]
<1>1. h \in DOMAIN db.operatorbundle
  BY DEF IInv, Navigable
<1>2. PICK i \in DOMAIN db.channel_entry :
        ChannelOf(db.channel_entry[i]) = k /\ db.channel_entry[i].bundle = h
  BY DEF IInv, Navigable
<1>3. db.channel_entry[i].channel = k[1] /\ db.channel_entry[i].package = k[2]
  BY <1>2 DEF ChannelOf
<1>4. h \in BundlesForPackage(db, p)
  BY <1>1, <1>2, <1>3 DEF BundlesForPackage, CSVNames
<1>5. b \in Existing(p)
  BY Zenon, <1>4 DEF Existing
<1>6. b.name = h /\ k[1] \in b.channels
  BY <1>2, <1>3
<1> QED BY <1>5, <1>6

\* Without an error, the transaction that regenerates a package takes no channel
\* back.
LEMMA RegenerateGoesOn ==
    ASSUME IInv, TablesInv, job \in Job, NEW p \in Pkgs, New(p) # {},
           NEW default \in Defaults(p),
           BeginPackageChannels(db, SemverPackageManifest(p, default)), ~ w'.errs
    PROVE  GoesOn(db, tx')
<1> DEFINE m == SemverPackageManifest(p, default)
           A == AddedChannels(db, m)
           T == tx'
<1>1. /\ OwnHeads(m) /\ m.package = p
      /\ \A b \in Existing(p) \cup New(p) : \A c \in b.channels :
            c \in DOMAIN m.heads /\ VersionOf[b.name] <= VersionOf[m.heads[c]]
  BY ManifestLemma
<1>2. BeginPackageChannels(db, m) /\ ~ w'.errs
  OBVIOUS
<1> HIDE DEF m
<1>3. /\ DOMAIN T.package = DOMAIN db.package \cup {p}
      /\ DOMAIN T.channel = {k \in DOMAIN db.channel : k[2] # p} \cup (A \X {p})
      /\ \A k \in DOMAIN db.channel : k[2] # p => T.channel[k] = db.channel[k]
      /\ \A c \in A : T.channel[<<c, p>>] = m.heads[c]
      /\ A = LiveChannels(db, m)
  BY <1>1, <1>2, BeginRows DEF IInv
<1> HIDE DEF T, A
<1>4. ASSUME NEW k \in DOMAIN db.channel
      PROVE  IF k \in DOMAIN T.channel
             THEN VersionOf[db.channel[k]] <= VersionOf[T.channel[k]]
             ELSE \E n \in db.deprecated :
                     PkgOf[n] = k[2] /\ VersionOf[db.channel[k]] < VersionOf[n]
  <2> DEFINE h == db.channel[k]
  <2>1. h \in Names /\ PkgOf[h] = k[2] /\ h \notin db.deprecated
    BY DEF IInv, Sound, OwnPackage, IsDatabase, IsTable, TablesInv, Tables, HeadsLive
  <2>2. VersionOf[h] \in Nat
    BY <2>1, PopulatorAssumption
  <2>3. CASE k[2] # p
    BY <2>2, <2>3, <1>3
  <2>4. CASE k[2] = p
    <3> DEFINE c == k[1]
               n == m.heads[c]
    <3>1. k = <<c, p>>
      BY <2>4 DEF IInv, Sound, IsDatabase, IsTable
    <3>2. c \in DOMAIN m.heads /\ VersionOf[h] <= VersionOf[n]
      BY <2>4, <1>1, HeadsExist
    <3>3. n \in Names /\ PkgOf[n] = p
      BY <3>2, <1>1 DEF OwnHeads, PackageManifest
    <3>4. CASE n \notin db.deprecated
      <4>1. c \in A
        BY <3>2, <3>4, <1>3 DEF LiveChannels
      <4>2. k \in DOMAIN T.channel /\ T.channel[k] = n
        BY <4>1, <3>1, <1>3
      <4> QED BY <4>2, <3>2
    <3>5. CASE n \in db.deprecated
      <4>1. c \notin A
        BY <3>5, <1>3 DEF LiveChannels
      <4>2. k \notin DOMAIN T.channel
        BY <4>1, <3>1, <2>4, <1>3
      <4>3. VersionOf[h] # VersionOf[n]
        BY <2>1, <2>4, <3>3, <3>5, PopulatorAssumption
      <4>4. VersionOf[n] \in Nat
        BY <3>3, PopulatorAssumption
      <4> HIDE DEF h, n
      <4>5. VersionOf[h] < VersionOf[n]
        BY <4>3, <4>4, <2>2, <3>2
      <4> QED BY <4>2, <4>5, <3>3, <3>5, <2>4 DEF h
    <3> QED BY <3>4, <3>5
  <2> QED BY <2>3, <2>4
<1>5. DOMAIN db.package \subseteq DOMAIN T.package
  BY <1>3
<1> QED BY <1>4, <1>5 DEF GoesOn, T

\* Without an error, it publishes the images of the package that were added, and
\* leaves the images of other packages as they are.
LEMMA RegeneratePublishes ==
    ASSUME IInv, TablesInv, job \in Job, NEW p \in Pkgs, New(p) # {},
           NEW default \in Defaults(p),
           BeginPackageChannels(db, SemverPackageManifest(p, default)), ~ w'.errs,
           NEW img \in Images
    PROVE  /\ img \in job.added /\ PackageOf(img) = p => Published(tx', img)
           /\ Published(db, img) /\ PackageOf(img) # p => Published(tx', img)
<1> DEFINE m == SemverPackageManifest(p, default)
           A == AddedChannels(db, m)
           T == tx'
<1>1. /\ OwnHeads(m) /\ m.package = p
      /\ \A b \in Existing(p) \cup New(p) : \A c \in b.channels :
            c \in DOMAIN m.heads /\ VersionOf[b.name] <= VersionOf[m.heads[c]]
  BY ManifestLemma
<1>2. BeginPackageChannels(db, m) /\ ~ w'.errs
  OBVIOUS
<1> HIDE DEF m
<1>3. /\ DOMAIN T.channel = {k \in DOMAIN db.channel : k[2] # p} \cup (A \X {p})
      /\ \A k \in DOMAIN db.channel : k[2] # p => T.channel[k] = db.channel[k]
      /\ \A c \in A : T.channel[<<c, p>>] = m.heads[c]
      /\ A = LiveChannels(db, m)
      /\ T.deprecated = db.deprecated
  BY <1>1, <1>2, BeginRows DEF IInv
<1> HIDE DEF T, A
<1>4. ASSUME img \in job.added, PackageOf(img) = p
      PROVE  Published(T, img)
  <2> DEFINE b == [name |-> img.bundle.name, channels |-> img.channels,
                   default |-> img.default]
             v == VersionOf[img.bundle.name]
  <2>1. b \in New(p)
    BY <1>4 DEF New
  <2>2. b.name = img.bundle.name /\ b.channels = img.channels
    OBVIOUS
  <2> HIDE DEF b
  <2>3. v \in Nat
    BY PopulatorAssumption DEF Image, Bundle
  <2>4. ASSUME NEW c \in img.channels
        PROVE  LET h == HeadOf(T, c, p)
               IN  IF h = NULL
                   THEN \E n \in T.deprecated : PkgOf[n] = p /\ VersionOf[n] >= v
                   ELSE VersionOf[h] >= v
    <3> DEFINE n == m.heads[c]
    <3>1. c \in DOMAIN m.heads /\ v <= VersionOf[n]
      BY <2>1, <2>2, <1>1
    <3>2. n \in Names /\ PkgOf[n] = p
      BY <3>1, <1>1 DEF OwnHeads, PackageManifest
    <3>3. VersionOf[n] \in Nat
      BY <3>2, PopulatorAssumption
    <3> HIDE DEF v, n
    <3>4. VersionOf[n] >= v
      BY <3>1, <3>3, <2>3
    <3>5. CASE n \notin db.deprecated
      <4>1. c \in A
        BY <3>1, <3>5, <1>3 DEF LiveChannels, n
      <4>2. HeadOf(T, c, p) = n
        BY <4>1, <1>3 DEF HeadOf, n
      <4>3. n # NULL
        BY <3>2, NullAssumption
      <4> QED BY <4>2, <4>3, <3>4
    <3>6. CASE n \in db.deprecated
      <4>1. c \notin A
        BY <3>6, <1>3 DEF LiveChannels, n
      <4>2. HeadOf(T, c, p) = NULL
        BY <4>1, <1>3 DEF HeadOf
      <4> QED BY <4>2, <3>2, <3>4, <3>6, <1>3
    <3> QED BY <3>5, <3>6
  <2> QED BY <2>4, <1>4 DEF Published
<1>5. ASSUME Published(db, img), PackageOf(img) # p
      PROVE  Published(T, img)
  <2>1. \A c : HeadOf(T, c, PackageOf(img)) = HeadOf(db, c, PackageOf(img))
    BY <1>3, <1>5 DEF HeadOf
  <2> QED BY <2>1, <1>3, <1>5 DEF Published
<1> QED BY <1>4, <1>5 DEF T

-----------------------------------------------------------------------------
(***************************************************************************)
(* The stages of an add.  First what has to be shown of the next state at  *)
(* each stage.                                                             *)
(***************************************************************************)

LEMMA NoJobType == NoJob \in Job
BY DEF NoJob, Job

\* No add runs.
LEMMA IdleJob ==
    ASSUME job' \in Job, job'.stage = "none"
    PROVE  JobInv'
BY DEF JobInv, StageInv, StoresInv, PublishInv, ForwardInv

\* Every bundle that was listed is, or will be added again.
Accounted(t, j) ==
    /\ j.request \subseteq j.unpacked \cup j.readd
    /\ \A n \in j.had :
          \/ \E img \in j.readd : img.bundle.name = n
          \/ n \in Listed(t) /\ PkgOf[n] \notin j.rm

\* populate looks for overwrites.
LEMMA FindJob ==
    ASSUME job' \in Job, job'.stage = "find", pc' = "idle",
           job'.had = Listed(db'), job'.overwrite \/ job'.rm = {},
           Accounted(db', job')
    PROVE  JobInv'
BY DEF JobInv, StageInv, StoresInv, PublishInv, ForwardInv, Clearing, Readded,
       Accounted, Walking

\* RemovePackage is between its two transactions.
LEMMA StrandJob ==
    ASSUME job' \in Job, job'.stage = "load", pc' = "strand", job'.overwrite,
           Accounted(db', job')
    PROVE  JobInv'
BY DEF JobInv, StageInv, StoresInv, PublishInv, ForwardInv, Clearing, Readded,
       Accounted, Walking

\* The images are added and the packages regenerated, between two transactions.
LEMMA AddedJob ==
    ASSUME job' \in Job, job'.stage = "load", pc' = "idle", job'.rm = {},
           \/ job'.errs
           \/ /\ \A img \in job'.request :
                    img \in job'.unpacked \cup job'.readd \/ Stored(db', img)
              /\ \A n \in job'.had :
                    \/ \E img \in job'.readd : img.bundle.name = n
                    \/ n \in DOMAIN db'.operatorbundle
              /\ job'.unpacked \cup job'.readd # {} =>
                    job'.request \subseteq
                       job'.unpacked \cup job'.readd \cup job'.added
              /\ job'.unpacked \cup job'.readd = {} =>
                    \A img \in job'.request :
                        \/ img \in job'.added
                        \/ /\ Published(tx', img)
                           /\ \A a \in job'.added : PackageOf(a) # PackageOf(img)
    PROVE  JobInv'
BY DEF JobInv, StageInv, StoresInv, PublishInv, ForwardInv, Clearing, Readded, Walking

LEMMA ListedStored ==
    ASSUME NEW t, IsDatabase(t)
    PROVE  Listed(t) \subseteq DOMAIN t.operatorbundle /\ Listed(t) \subseteq Names
BY DEF Listed, BundlesForPackage, IsDatabase, IsTable

\* The packages to overwrite are removed one after the other, then the first
\* image is added.
LEMMA LoadJob ==
    ASSUME job' \in Job, job'.stage = "load", pc' = "idle", IsDatabase(db'),
           job'.overwrite \/ job'.rm = {}, Accounted(db', job')
    PROVE  JobInv'
<1>1. CASE job'.rm # {}
  BY <1>1 DEF JobInv, StageInv, StoresInv, PublishInv, ForwardInv, Clearing, Readded,
              Accounted, Walking
<1>2. CASE job'.rm = {}
  <2>1. \A n \in job'.had :
           \/ \E img \in job'.readd : img.bundle.name = n
           \/ n \in DOMAIN db'.operatorbundle
    BY ListedStored DEF Accounted
  <2>2. job'.request \subseteq job'.unpacked \cup job'.readd
    BY DEF Accounted
  <2> QED BY <1>2, <2>1, <2>2, AddedJob
<1> QED BY <1>1, <1>2

-----------------------------------------------------------------------------
(***************************************************************************)
(* populate                                                                *)
(***************************************************************************)

\* The start of an add.
LEMMA StartStep ==
    ASSUME PopInv, NEW S \in SUBSET Images, NEW overwrite \in BOOLEAN,
           StartAdd(S, overwrite)
    PROVE  JobInv'
<1> DEFINE L == Listed(db)
<1>1. /\ job' = [NoJob EXCEPT !.stage = "find", !.request = S,
                              !.overwrite = overwrite, !.unpacked = S, !.had = L]
      /\ pc' = "idle" /\ db' = db
  BY DEF StartAdd, vars
<1>2. L \in SUBSET Names
  BY ListedStored DEF PopInv, IInv, TypeOK
<1> HIDE DEF L
<1>3. job' = [stage |-> "find", request |-> S, overwrite |-> overwrite,
              unpacked |-> S, visited |-> {}, readd |-> {}, rm |-> {},
              added |-> {}, errs |-> FALSE, had |-> L]
  BY Zenon, <1>1 DEF NoJob
<1>4. job' \in Job
  BY <1>2, <1>3 DEF Job
<1>5. /\ job'.stage = "find" /\ job'.rm = {} /\ job'.had = L
      /\ job'.request = S /\ job'.unpacked = S
  BY <1>3
<1>6. Accounted(db', job')
  BY <1>1, <1>5 DEF Accounted, L
<1> QED BY <1>1, <1>4, <1>5, <1>6, FindJob DEF L

\* ImageAt finds the image of a bundle of the index that has one.
LEMMA ImageAtLemma ==
    ASSUME NEW t, Imaged(t), NEW n \in DOMAIN t.operatorbundle, PathOf(t, n) # NULL
    PROVE  /\ ImageAt(PathOf(t, n)) \in Images
           /\ ImageAt(PathOf(t, n)).bundle.name = n
<1>1. PICK img \in Images : img.bundle.path = PathOf(t, n) /\ img.bundle.name = n
  BY DEF Imaged
<1>2. \A i \in Images : i.bundle.path = PathOf(t, n) => i = img
  BY <1>1, PopulatorAssumption
<1>3. ImageAt(PathOf(t, n)) = img
  BY <1>1, <1>2 DEF ImageAt
<1> QED BY <1>1, <1>3

\* What goes to overwriteImageMap with an image: images, and one of every bundle
\* that the index lists in the package.
LEMMA OverwritesLemma ==
    ASSUME IInv, TablesInv, NEW img \in Images, ~ OverwriteFails(img)
    PROVE  /\ Overwrites(img) \subseteq Images
           /\ \A n \in Listed(db) : PkgOf[n] = PackageOf(img) =>
                 \E i \in Overwrites(img) : i.bundle.name = n
<1> DEFINE listed == BundlesForPackage(db, PackageOf(img))
           At(b) == ImageAt(PathOf(db, b))
<1>1. Overwrites(img) = {At(b) : b \in listed \ {img.bundle.name}} \cup
                        (IF img.bundle.name \in listed THEN {img} ELSE {})
  BY Zenon DEF Overwrites
<1>2. ASSUME NEW b \in listed PROVE At(b) \in Images /\ At(b).bundle.name = b
  <2>1. b \in DOMAIN db.operatorbundle /\ PathOf(db, b) # NULL
    BY DEF OverwriteFails, BundlesForPackage
  <2> QED BY <2>1, ImageAtLemma DEF TablesInv, Tables
<1>3. ASSUME NEW n \in Listed(db), PkgOf[n] = PackageOf(img) PROVE n \in listed
  <2>1. PICK p \in Pkgs : n \in BundlesForPackage(db, p)
    BY DEF Listed
  <2>2. PkgOf[n] = p
    BY <2>1 DEF BundlesForPackage, CSVNames, IInv, Sound, OwnPackage
  <2> QED BY <2>1, <2>2, <1>3
<1> HIDE DEF listed, At
<1>4. Overwrites(img) \subseteq Images
  BY <1>1, <1>2
<1>5. ASSUME NEW n \in listed PROVE \E i \in Overwrites(img) : i.bundle.name = n
  BY <1>1, <1>2
<1> QED BY <1>3, <1>4, <1>5

\* One iteration over unpackedImageMap: what leaves it goes to overwriteImageMap,
\* with every bundle that is listed in a package that will be removed.
LEMMA FindStep ==
    ASSUME PopInv, NEW img \in Images, FindOverwrites(img)
    PROVE  JobInv'
<1>1. /\ job \in Job /\ job.stage = "find" /\ job.overwrite /\ pc = "idle"
      /\ job.had = Listed(db) /\ Accounted(db, job)
  BY DEF FindOverwrites, PopInv, JobInv, StageInv, StoresInv, Clearing, Readded, Accounted
<1>2. db' = db /\ pc' = pc
  BY DEF FindOverwrites, vars
<1>3. CASE job' = [job EXCEPT !.visited = @ \cup {img}]
  <2>1. /\ job' \in Job /\ job'.stage = "find" /\ job'.overwrite
        /\ job'.had = job.had /\ job'.request = job.request /\ job'.rm = job.rm
        /\ job'.unpacked = job.unpacked /\ job'.readd = job.readd
    BY <1>1, <1>3 DEF Job
  <2>2. Accounted(db', job')
    BY <2>1, <1>1, <1>2 DEF Accounted
  <2> QED BY <2>1, <2>2, <1>1, <1>2, FindJob
<1>4. CASE job' = NoJob
  BY <1>4, NoJobType, IdleJob DEF NoJob
<1>5. CASE /\ ~ OverwriteFails(img)
           /\ job' = [job EXCEPT !.visited = @ \cup {img},
                                 !.unpacked = @ \ Overwrites(img),
                                 !.readd = @ \cup Overwrites(img),
                                 !.rm = @ \cup {PackageOf(img)}]
  <2> DEFINE O == Overwrites(img)
             p == PackageOf(img)
             V == job.visited \cup {img}
             U == job.unpacked \ O
             R == job.readd \cup O
             M == job.rm \cup {p}
  <2>1. /\ O \subseteq Images
        /\ \A n \in Listed(db) : PkgOf[n] = p => \E i \in O : i.bundle.name = n
    BY <1>5, OverwritesLemma DEF PopInv
  <2>2. p \in Pkgs
    BY PopulatorAssumption, InputAssumption DEF PackageOf, Image, Bundle
  <2>3. job' = [job EXCEPT !.visited = V, !.unpacked = U, !.readd = R, !.rm = M]
    BY <1>5
  <2> HIDE DEF O, p
  <2>4. V \subseteq Images /\ U \subseteq Images /\ R \subseteq Images /\ M \subseteq Pkgs
    BY <2>1, <2>2, <1>1 DEF Job
  <2>5. job.unpacked \cup job.readd \subseteq U \cup R /\ job.readd \subseteq R /\ O \subseteq R
    OBVIOUS
  <2>6. \A q : q \notin M <=> q \notin job.rm /\ q # p
    OBVIOUS
  <2> HIDE DEF V, U, R, M
  <2>7. /\ job' \in Job /\ job'.stage = "find" /\ job'.overwrite
        /\ job'.had = job.had /\ job'.request = job.request /\ job'.rm = M
        /\ job'.unpacked = U /\ job'.readd = R
    BY ZenonT(30), <2>3, <2>4, <1>1 DEF Job
  <2>8. Accounted(db, job')
    BY <2>1, <2>5, <2>6, <2>7, <1>1 DEF Accounted
  <2> QED BY <2>7, <2>8, <1>1, <1>2, FindJob
<1> QED BY Zenon, <1>3, <1>4, <1>5 DEF FindOverwrites

\* The sanity check.
LEMMA SanityStep ==
    ASSUME PopInv, SanityPass
    PROVE  JobInv'
<1>1. /\ job \in Job /\ job.stage = "find" /\ pc = "idle"
      /\ job.overwrite \/ job.rm = {}
      /\ Accounted(db, job) /\ IsDatabase(db)
  BY DEF SanityPass, Found, PopInv, JobInv, StageInv, StoresInv, Clearing, Readded,
         Accounted, IInv, TypeOK
<1>2. job' = [job EXCEPT !.stage = "load"] /\ db' = db /\ pc' = pc
  BY DEF SanityPass, vars
<1>3. /\ job' \in Job /\ job'.stage = "load" /\ job'.overwrite = job.overwrite
      /\ job'.had = job.had /\ job'.request = job.request /\ job'.rm = job.rm
      /\ job'.unpacked = job.unpacked /\ job'.readd = job.readd
  BY <1>1, <1>2 DEF Job
<1>4. Accounted(db', job')
  BY <1>1, <1>2, <1>3 DEF Accounted
<1> QED BY <1>1, <1>2, <1>3, <1>4, LoadJob

-----------------------------------------------------------------------------
(***************************************************************************)
(* The DirectoryPopulator                                                  *)
(***************************************************************************)

\* Removing a package leaves the other ones listed.
LEMMA ListedKept ==
    ASSUME NEW t, Sound(t), NEW p, NEW n \in Listed(t), PkgOf[n] # p
    PROVE  n \in Listed(WithoutPackage(t, p))
<1> DEFINE u == WithoutPackage(t, p)
<1>1. /\ \A x \in CSVNames(t, p) : PkgOf[x] = p
      /\ SubTable(u.channel_entry, t.channel_entry)
      /\ DOMAIN u.operatorbundle = DOMAIN t.operatorbundle \ CSVNames(t, p)
      /\ DOMAIN u.channel_entry =
            {i \in DOMAIN t.channel_entry : t.channel_entry[i].package # p}
  BY WithoutPackageRows
<1> HIDE DEF u
<1>2. PICK q \in Pkgs : n \in CSVNames(t, q) /\ n \in DOMAIN t.operatorbundle
  BY DEF Listed, BundlesForPackage
<1>3. PICK i \in DOMAIN t.channel_entry :
        t.channel_entry[i].package = q /\ t.channel_entry[i].bundle = n
  BY <1>2 DEF CSVNames
<1>4. PkgOf[n] = q
  BY <1>3 DEF Sound, OwnPackage
<1>5. i \in DOMAIN u.channel_entry /\ u.channel_entry[i] = t.channel_entry[i]
  BY <1>1, <1>3, <1>4 DEF SubTable
<1>6. n \in DOMAIN u.operatorbundle
  BY <1>1, <1>2
<1>7. n \in BundlesForPackage(u, q)
  BY <1>3, <1>5, <1>6 DEF BundlesForPackage, CSVNames
<1> QED BY <1>7 DEF Listed, u

\* Removing the stranded bundles leaves every bundle listed.
LEMMA ListedUnstranded ==
    ASSUME NEW t, Sound(t), Navigable(t), NEW n \in Listed(t)
    PROVE  n \in Listed(DeleteBundles(t, Stranded(t)))
<1> DEFINE u == DeleteBundles(t, Stranded(t))
<1>1. /\ SubTable(u.channel_entry, t.channel_entry)
      /\ DOMAIN u.operatorbundle = DOMAIN t.operatorbundle \ Stranded(t)
      /\ DOMAIN u.channel_entry = DOMAIN t.channel_entry
  BY StrandedLemma
<1> HIDE DEF u
<1>2. PICK q \in Pkgs : n \in CSVNames(t, q) /\ n \in DOMAIN t.operatorbundle
  BY DEF Listed, BundlesForPackage
<1>3. PICK i \in DOMAIN t.channel_entry :
        t.channel_entry[i].package = q /\ t.channel_entry[i].bundle = n
  BY <1>2 DEF CSVNames
<1>4. i \in DOMAIN u.channel_entry /\ u.channel_entry[i] = t.channel_entry[i]
  BY <1>1, <1>3 DEF SubTable
<1>5. n \in DOMAIN u.operatorbundle
  BY <1>1, <1>2, <1>3 DEF Stranded
<1>6. n \in BundlesForPackage(u, q)
  BY <1>3, <1>4, <1>5 DEF BundlesForPackage, CSVNames
<1> QED BY <1>6 DEF Listed, u

\* A package to overwrite is removed: its listed bundles will be added again.
LEMMA RemoveStep ==
    ASSUME PopInv, NEW p \in Pkgs, RemoveNext(p)
    PROVE  JobInv'
<1> DEFINE t == WithoutPackage(db, p)
           M == job.rm \ {p}
<1>1. /\ job \in Job /\ job.stage = "load" /\ p \in job.rm /\ job.overwrite
      /\ Accounted(db, job) /\ Sound(db)
  BY DEF RemoveNext, PopInv, JobInv, StageInv, StoresInv, Clearing, Readded,
         Accounted, IInv
<1>2. CASE ~ DeferredForeignKeys(t)
  BY <1>2, NoJobType, IdleJob DEF RemoveNext, NoJob
<1>3. CASE DeferredForeignKeys(t)
  <2>1. job' = [job EXCEPT !.rm = M] /\ db' = t /\ pc' = "strand"
    BY <1>3 DEF RemoveNext, RemovePackage
  <2>2. \A n \in Listed(db) : PkgOf[n] \notin job.rm => n \in Listed(t)
    BY <1>1, ListedKept
  <2>3. M \subseteq job.rm
    OBVIOUS
  <2> HIDE DEF t, M
  <2>4. /\ job' \in Job /\ job'.stage = "load" /\ job'.overwrite
        /\ job'.had = job.had /\ job'.request = job.request /\ job'.rm = M
        /\ job'.unpacked = job.unpacked /\ job'.readd = job.readd
    BY <2>1, <2>3, <1>1 DEF Job
  <2>5. Accounted(t, job')
    BY <2>2, <2>3, <2>4, <1>1 DEF Accounted
  <2> QED BY <2>1, <2>4, <2>5, StrandJob
<1> QED BY <1>2, <1>3

\* The second transaction of RemovePackage, of an add or of another command.
LEMMA StrandedStep ==
    ASSUME PopInv, StrandNext
    PROVE  JobInv'
<1> DEFINE t == DeleteBundles(db, Stranded(db))
<1>1. job \in Job /\ pc = "strand" /\ Sound(db) /\ Navigable(db)
  BY DEF StrandNext, Strand, PopInv, JobInv, IInv
<1>2. CASE job.stage = "none"
  BY <1>1, <1>2, NoJobType, IdleJob DEF StrandNext, NoJob
<1>3. CASE ~ DeferredForeignKeys(t)
  BY <1>3, NoJobType, IdleJob DEF StrandNext, NoJob
<1>4. CASE job.stage # "none" /\ DeferredForeignKeys(t)
  <2>1. job.stage = "load" /\ job.overwrite /\ Accounted(db, job)
    BY <1>1, <1>4 DEF PopInv, JobInv, StageInv, StoresInv, Clearing, Readded,
                      Accounted, Job
  <2>2. job' = job /\ db' = t /\ pc' = "idle"
    BY <1>4 DEF StrandNext, Strand, Commit, Return
  <2>3. IsDatabase(t)
    BY <1>1, StrandedLemma DEF Sound
  <2>4. \A n \in Listed(db) : n \in Listed(t)
    BY <1>1, ListedUnstranded
  <2> HIDE DEF t
  <2>5. Accounted(t, job)
    BY <2>1, <2>4 DEF Accounted
  <2> QED BY <2>1, <2>2, <2>3, <2>5, <1>1, LoadJob
<1> QED BY <1>2, <1>3, <1>4

\* A bundle that is added keeps the foreign key: the entries are not touched.
LEMMA AddCommits ==
    ASSUME PopInv, NEW b, ~ Refused(db, b), AddOperatorBundle(b)
    PROVE  Return(WithBundle(db, b))
<1>1. WithBundle(db, b).channel_entry = db.channel_entry
  BY AddedRows DEF PopInv, IInv, TypeOK
<1>2. DeferredForeignKeys(WithBundle(db, b))
  BY <1>1 DEF DeferredForeignKeys, PopInv, TablesInv
<1> QED BY <1>2 DEF AddOperatorBundle, Commit

\* An image is added, or refused with an error.
LEMMA AddStep ==
    ASSUME PopInv, NEW img \in Images, AddNext(img)
    PROVE  JobInv'
<1> DEFINE b == img.bundle
           R == Refused(db, b)
           U == job.unpacked \ {img}
           Q == job.readd \ {img}
           D == IF R THEN job.added ELSE job.added \cup {img}
           E == job.errs \/ R
           u == WithBundle(db, b)
<1>1. /\ job \in Job /\ job.stage = "load" /\ job.rm = {} /\ pc = "idle"
      /\ img \in job.unpacked \cup job.readd
  BY DEF AddNext, AddOperatorBundle, PopInv, JobInv
<1>2. job' = [job EXCEPT !.unpacked = U, !.readd = Q, !.added = D, !.errs = E]
  BY DEF AddNext
<1>3. R \in BOOLEAN
  BY PopulatorAssumption DEF Refused, Image, Bundle
<1>4. AddOperatorBundle(b)
  BY DEF AddNext
<1>5. pc' = "idle"
  BY <1>4 DEF AddOperatorBundle, Rollback, Commit, Return
<1> HIDE DEF R, b
<1>6. U \subseteq Images /\ Q \subseteq Images /\ D \subseteq Images /\ E \in BOOLEAN
  BY <1>1, <1>3 DEF Job
<1> HIDE DEF U, Q, D, E
<1>7. /\ job' \in Job /\ job'.stage = "load" /\ job'.rm = {}
      /\ job'.request = job.request /\ job'.had = job.had
      /\ job'.unpacked = U /\ job'.readd = Q /\ job'.added = D /\ job'.errs = E
  BY ZenonT(30), <1>1, <1>2, <1>6 DEF Job
<1>8. CASE E
  BY <1>5, <1>7, <1>8, AddedJob
<1>9. CASE ~ E
  <2>1. ~ R /\ ~ job.errs /\ ~ Clearing
    BY <1>1, <1>9 DEF E, Clearing
  <2>2. db' = u
    BY <2>1, <1>4, AddCommits DEF Return, R
  <2>3. /\ DOMAIN u.operatorbundle = DOMAIN db.operatorbundle \cup {b.name}
        /\ PathOf(u, b.name) = b.path
        /\ \A n \in DOMAIN db.operatorbundle : n # b.name => PathOf(u, n) = PathOf(db, n)
    <3>1. IsDatabase(db)
      BY DEF PopInv, IInv, TypeOK
    <3>2. /\ DOMAIN u.operatorbundle = DOMAIN db.operatorbundle \cup {b.name}
          /\ u.operatorbundle[b.name].path = b.path
          /\ \A n \in DOMAIN db.operatorbundle :
                n # b.name => u.operatorbundle[n] = db.operatorbundle[n]
      BY <3>1, AddedRows
    <3> HIDE DEF u
    <3> QED BY <3>2 DEF PathOf
  <2>4. b.name \notin DOMAIN db.operatorbundle
    BY <2>1 DEF R, Refused
  <2> HIDE DEF u
  <2>5. /\ \A i \in job.request : i \in job.unpacked \cup job.readd \/ Stored(db, i)
        /\ \A n \in job.had :
              \/ \E i \in job.readd : i.bundle.name = n
              \/ n \in DOMAIN db.operatorbundle
    BY <2>1, <1>1 DEF PopInv, JobInv, StoresInv, Readded
  <2>6. job.request \subseteq job.unpacked \cup job.readd \cup job.added
    BY <2>1, <1>1 DEF PopInv, JobInv, PublishInv
  <2>7. \A i \in job.request : i \in U \cup Q \/ Stored(u, i)
    <3>1. Stored(u, img)
      BY <2>3 DEF Stored, b
    <3>2. \A i : Stored(db, i) => Stored(u, i)
      BY <2>3, <2>4 DEF Stored
    <3> QED BY <3>1, <3>2, <2>5 DEF U, Q
  <2>8. \A n \in job.had :
           (\E i \in Q : i.bundle.name = n) \/ n \in DOMAIN u.operatorbundle
    BY <2>3, <2>5 DEF Q, b
  <2>9. job.request \subseteq U \cup Q \cup D
    BY <2>1, <2>6 DEF U, Q, D
  <2> QED BY <2>2, <2>7, <2>8, <2>9, <1>5, <1>7, AddedJob
<1> QED BY <1>8, <1>9

\* The manifest fails, or the transaction that regenerates the package begins.
LEMMA RegenerateCases ==
    ASSUME NEW p \in Pkgs, Regenerate(p)
    PROVE  LET done == [job EXCEPT !.added = {i \in job.added : PackageOf(i) # p}]
           IN  \/ UNCHANGED vars /\ job' = [done EXCEPT !.errs = TRUE]
               \/ \E default \in Defaults(p) :
                     /\ BeginPackageChannels(db, SemverPackageManifest(p, default))
                     /\ job' = done
  BY Zenon DEF Regenerate, AddPackageChannels

\* The walk of a package that is regenerated begins, or the manifest fails.
LEMMA RegenerateStep ==
    ASSUME PopInv, NEW p \in Pkgs, Regenerate(p)
    PROVE  JobInv'
<1> DEFINE D == {i \in job.added : PackageOf(i) # p}
           done == [job EXCEPT !.added = D]
<1>1. /\ job \in Job /\ job.stage = "load" /\ job.rm = {} /\ pc = "idle"
      /\ job.unpacked = {} /\ job.readd = {} /\ New(p) # {} /\ tx = db
  BY DEF Regenerate, Added, PopInv, JobInv, IInv
<1>2. D \subseteq job.added /\ D \subseteq Images
  BY <1>1 DEF Job
<1>3. /\ done \in Job /\ done.stage = "load" /\ done.rm = {}
      /\ done.request = job.request /\ done.had = job.had
      /\ done.unpacked = {} /\ done.readd = {} /\ done.added = D
      /\ done.errs = job.errs /\ done.overwrite = job.overwrite
  <2> HIDE DEF D
  <2> QED BY ZenonT(30), <1>1, <1>2 DEF Job
<1>4. CASE UNCHANGED vars /\ job' = [done EXCEPT !.errs = TRUE]
  <2>1. job' = [done EXCEPT !.errs = TRUE] /\ pc' = pc
    BY <1>4 DEF vars
  <2> HIDE DEF done
  <2>2. job' \in Job /\ job'.stage = "load" /\ job'.rm = {} /\ job'.errs
    BY ZenonT(30), <2>1, <1>3 DEF Job
  <2> QED BY <2>1, <2>2, <1>1, AddedJob
<1>5. ASSUME NEW default \in Defaults(p), job' = done,
             BeginPackageChannels(db, SemverPackageManifest(p, default))
      PROVE  JobInv'
  <2> DEFINE m == SemverPackageManifest(p, default)
  <2>1. job' = done /\ BeginPackageChannels(db, m)
    BY <1>5
  <2>2. OwnHeads(m)
    BY <1>1, ManifestLemma DEF PopInv
  <2>3. db' = db /\ pc' = "channel" /\ tx'.operatorbundle = db.operatorbundle
    <3> HIDE DEF m
    <3> QED BY <2>1, <2>2, BeginRows DEF PopInv, IInv
  <2> HIDE DEF done, D
  <2>4. StageInv'
    BY <2>1, <2>3, <1>3 DEF StageInv, Added, Walking
  <2>5. StoresInv'
    <3>1. ~ Clearing
      BY <1>1 DEF Clearing
    <3>2. job.errs \/ /\ \A img \in job.request : Stored(db, img)
                      /\ job.had \subseteq DOMAIN db.operatorbundle
      BY ZenonT(30), <3>1, <1>1 DEF PopInv, JobInv, StoresInv, Readded
    <3> QED BY ZenonT(30), <3>2, <2>1, <2>3, <1>3 DEF StoresInv, Clearing
  <2>6. ASSUME ~ job.errs, ~ w'.errs
        PROVE  \A img \in job.request :
                  \/ img \in D
                  \/ /\ Published(tx', img)
                     /\ \A a \in D : PackageOf(a) # PackageOf(img)
    <3> SUFFICES ASSUME NEW img \in job.request, img \notin D
                 PROVE  /\ Published(tx', img)
                        /\ \A a \in D : PackageOf(a) # PackageOf(img)
      OBVIOUS
    <3>1. \/ img \in job.added
          \/ /\ Published(db, img)
             /\ \A a \in job.added : PackageOf(a) # PackageOf(img)
      BY <1>1, <2>6 DEF PopInv, JobInv, PublishInv, Clearing
    <3>2. img \in Images
      BY <1>1 DEF Job
    <3>3. /\ img \in job.added /\ PackageOf(img) = p => Published(tx', img)
          /\ Published(db, img) /\ PackageOf(img) # p => Published(tx', img)
      BY <3>2, <2>1, <2>6, <1>1, RegeneratePublishes DEF PopInv
    <3>4. CASE img \in job.added
      BY <3>3, <3>4 DEF D
    <3>5. CASE img \notin job.added
      <4>1. \E a \in job.added : PackageOf(a) = p
        BY ZenonT(30), <1>1 DEF New
      <4> QED BY <4>1, <3>1, <3>3, <3>5, <1>2
    <3> QED BY <3>4, <3>5
  <2>7. PublishInv'
    BY ZenonT(30), <2>1, <2>3, <2>6, <1>3 DEF PublishInv
  <2>8. ForwardInv'
    <3>1. ~ w'.errs => GoesOn(db, tx')
      BY <2>1, <1>1, RegenerateGoesOn DEF PopInv
    <3> QED BY <3>1, <2>3 DEF ForwardInv
  <2> QED BY <2>1, <2>4, <2>5, <2>7, <2>8, <1>3 DEF JobInv
<1> QED BY Zenon, <1>4, <1>5, RegenerateCases

\* A step of the walk, of an add or of another command.
LEMMA WalkJob ==
    ASSUME PopInv, WalkAction, UNCHANGED job
    PROVE  JobInv'
<1>1. /\ db' = db /\ pc \in Walking /\ pc' \in Walking
      /\ tx'.operatorbundle = tx.operatorbundle
      /\ tx'.channel = tx.channel /\ tx'.package = tx.package
      /\ tx'.deprecated = tx.deprecated
      /\ w.errs => w'.errs
  BY WalkFrame DEF PopInv
<1>2. job' = job /\ job \in Job
  BY DEF PopInv, JobInv
<1>3. pc # "idle" /\ pc # "strand" /\ pc' # "idle" /\ pc' # "strand"
  BY <1>1 DEF Walking
<1>4. CASE job.stage # "load"
  <2>1. job.stage = "none"
    BY <1>2, <1>3, <1>4 DEF PopInv, JobInv, StageInv, Job
  <2> QED BY <2>1, <1>2, IdleJob
<1>5. CASE job.stage = "load"
  <2>1. Added /\ Added' /\ tx.operatorbundle = db.operatorbundle
    BY <1>1, <1>2, <1>5 DEF PopInv, JobInv, StageInv, Added
  <2>2. StageInv'
    BY <2>1, <1>1, <1>2, <1>3, <1>5 DEF PopInv, JobInv, StageInv
  <2>3. ~ Clearing /\ ~ Clearing'
    BY <2>1, <1>2, <1>3, <1>5 DEF Clearing, Added
  <2>4. StoresInv'
    BY <2>3, <1>1, <1>2 DEF PopInv, JobInv, StoresInv, Readded
  <2>5. \A img : Published(tx, img) => Published(tx', img)
    BY <1>1 DEF Published, HeadOf
  <2>6. PublishInv'
    BY <2>3, <2>5, <1>1, <1>2, <1>3 DEF PopInv, JobInv, PublishInv
  <2>7. ForwardInv'
    <3>1. GoesOn(db, tx) => GoesOn(db, tx')
      BY <1>1 DEF GoesOn
    <3> QED BY <3>1, <1>1, <1>2 DEF PopInv, JobInv, ForwardInv
  <2> QED BY <2>2, <2>4, <2>6, <2>7, <1>2 DEF JobInv
<1> QED BY <1>4, <1>5

\* The transaction of a package that is regenerated ends.
LEMMA EndStep ==
    ASSUME PopInv, EndRegenerate
    PROVE  JobInv'
<1> DEFINE E == job.errs \/ w.errs \/ ~ DeferredForeignKeys(tx)
<1>1. job \in Job /\ pc = "channel" /\ pc' = "idle" /\ EndPackageChannels
  BY DEF EndRegenerate, EndPackageChannels, Rollback, Commit, Return, PopInv, JobInv
<1>2. CASE job.stage # "load"
  <2>1. job.stage = "none"
    BY <1>1, <1>2 DEF PopInv, JobInv, StageInv, Job
  <2> QED BY <2>1, <1>1, <1>2, IdleJob DEF EndRegenerate
<1>3. CASE job.stage = "load"
  <2>1. job' = [job EXCEPT !.errs = E]
    BY <1>3 DEF EndRegenerate
  <2>2. E \in BOOLEAN
    BY <1>1 DEF Job
  <2> HIDE DEF E
  <2>3. Added /\ tx.operatorbundle = db.operatorbundle
    BY <1>1, <1>3 DEF PopInv, JobInv, StageInv, Walking
  <2>4. /\ job' \in Job /\ job'.stage = "load" /\ job'.rm = {}
        /\ job'.request = job.request /\ job'.had = job.had
        /\ job'.unpacked = {} /\ job'.readd = {} /\ job'.added = job.added
        /\ job'.errs = E
    BY ZenonT(30), <2>1, <2>2, <2>3, <1>1, <1>3 DEF Job, Added
  <2>5. CASE E
    BY <2>4, <2>5, <1>1, AddedJob
  <2>6. CASE ~ E
    <3>1. ~ job.errs /\ ~ w.errs /\ DeferredForeignKeys(tx)
      BY <2>6 DEF E
    <3>2. db' = tx /\ tx' = tx
      BY <3>1, <1>1 DEF EndPackageChannels, Commit, Return
    <3>3. ~ Clearing
      BY <2>3, <1>1, <1>3 DEF Clearing, Added
    <3>4. /\ \A img \in job.request : Stored(db, img)
          /\ job.had \subseteq DOMAIN db.operatorbundle
      BY <3>1, <3>3, <2>3, <1>3 DEF PopInv, JobInv, StoresInv, Readded, Added
    <3>5. \A img \in job.request :
             \/ img \in job.added
             \/ /\ Published(tx, img)
                /\ \A a \in job.added : PackageOf(a) # PackageOf(img)
      BY <3>1, <3>3, <2>3, <1>3 DEF PopInv, JobInv, PublishInv, Added
    <3>6. \A img : Stored(db, img) => Stored(tx, img)
      BY <2>3 DEF Stored, PathOf
    <3> QED BY ZenonT(30), <3>2, <3>4, <3>5, <3>6, <2>3, <2>4, <1>1, AddedJob
  <2> QED BY <2>5, <2>6
<1> QED BY <1>2, <1>3

-----------------------------------------------------------------------------
(***************************************************************************)
(* The inductive invariant                                                 *)
(***************************************************************************)

LEMMA PopInitLemma == PopInit => PopInv
<1> SUFFICES ASSUME PopInit PROVE PopInv
  BY Zenon
<1>1. IInv
  BY InitLemma DEF PopInit
<1>2. Tables(EmptyTables) /\ DeferredForeignKeys(EmptyTables)
  BY ZenonT(30) DEF Tables, Imaged, HeadsLive, DeferredForeignKeys, EmptyTables
<1>3. TablesInv
  BY <1>2 DEF TablesInv, PopInit, Init
<1>4. job \in Job /\ job.stage = "none"
  BY NoJobType DEF PopInit, NoJob
<1>5. JobInv
  BY ZenonT(30), <1>4 DEF JobInv, StageInv, StoresInv, PublishInv, ForwardInv
<1> QED BY <1>1, <1>3, <1>5 DEF PopInv

\* The tables: every step is a call of the loader, or leaves them alone.
LEMMA PopTables ==
    ASSUME PopInv, [PopNext]_popVars
    PROVE  IInv' /\ TablesInv'
<1>1. IInv /\ TablesInv /\ job \in Job
  BY DEF PopInv, JobInv
<1>2. CASE UNCHANGED vars
  BY <1>1, <1>2, NextLemma DEF TablesInv, vars
<1>3. CASE Return(db)
  BY <1>1, <1>3, RollbackLemma, CommitTables
<1>4. CASE OtherCommand
  <2>1. ASSUME NEW b \in BundleImages, NEW m \in Manifests,
               AddBundlePackageChannels(b, m)
        PROVE  IInv' /\ TablesInv'
    BY <2>1, <1>1, OwnInputs, InputsFromImages, AddTables
  <2>2. ASSUME NEW p \in Pkgs, RemovePackage(p)
        PROVE  IInv' /\ TablesInv'
    BY <2>2, <1>1, RemoveTables
  <2>3. CASE RemoveStrandedBundles
    BY <2>3, <1>1, StrandTables DEF RemoveStrandedBundles
  <2>4. ASSUME NEW path \in Paths, DeprecateBundle(path)
        PROVE  IInv' /\ TablesInv'
    BY <2>4, <1>1, DeprecateTables
  <2> QED BY Zenon, <1>4, <2>1, <2>2, <2>3, <2>4 DEF OtherCommand
<1>5. ASSUME NEW p \in Pkgs, RemoveNext(p)
      PROVE  IInv' /\ TablesInv'
  BY <1>5, <1>1, RemoveTables DEF RemoveNext
<1>6. CASE StrandNext
  BY <1>6, <1>1, StrandTables DEF StrandNext, Strand
<1>7. ASSUME NEW img \in Images, AddNext(img)
      PROVE  IInv' /\ TablesInv'
  BY <1>7, <1>1, InputsFromImages, AddTables DEF AddNext
<1>8. ASSUME NEW p \in Pkgs, Regenerate(p)
      PROVE  IInv' /\ TablesInv'
  <2>1. CASE UNCHANGED vars
    BY <2>1, <1>2
  <2>2. ASSUME NEW default \in Defaults(p),
               BeginPackageChannels(db, SemverPackageManifest(p, default))
        PROVE  IInv' /\ TablesInv'
    <3>1. BeginPackageChannels(db, SemverPackageManifest(p, default)) /\ New(p) # {}
      BY <2>2, <1>8 DEF Regenerate
    <3>2. OwnHeads(SemverPackageManifest(p, default))
      BY <3>1, <1>1, ManifestLemma
    <3>3. Sound(db) /\ Navigable(db) /\ Tables(db)
      BY <1>1 DEF IInv, TablesInv
    <3> QED BY <3>1, <3>2, <3>3, <1>1, BeginTables
  <2> QED BY Zenon, <1>8, <2>1, <2>2, RegenerateCases
<1>9. CASE WalkAction
  BY <1>9, <1>1, WalkTables
<1>10. CASE EndRegenerate
  BY <1>10, <1>1, EndTables DEF EndRegenerate
<1>11. ASSUME NEW S, NEW overwrite, StartAdd(S, overwrite)
       PROVE  UNCHANGED vars
  BY <1>11 DEF StartAdd
<1>12. ASSUME NEW img, FindOverwrites(img)
       PROVE  UNCHANGED vars
  BY <1>12 DEF FindOverwrites
<1>13. SanityPass \/ SanityFail \/ Finish \/ UNCHANGED popVars => UNCHANGED vars
  BY Zenon DEF SanityPass, SanityFail, Finish, popVars, vars
<1>14. PopCrash => Return(db)
  BY DEF PopCrash
<1>15. CASE PopStep
  BY ZenonT(30), <1>15, <1>2, <1>5, <1>6, <1>7, <1>8, <1>9, <1>10, <1>12, <1>13
  DEF PopStep, WalkAction
<1> QED BY ZenonT(30), <1>2, <1>3, <1>4, <1>11, <1>13, <1>14, <1>15 DEF PopNext

\* The locals of an add.
LEMMA PopJob ==
    ASSUME PopInv, [PopNext]_popVars
    PROVE  JobInv'
<1>1. CASE SanityFail \/ Finish \/ PopCrash
  <2>1. job' = NoJob
    BY Zenon, <1>1 DEF SanityFail, Finish, PopCrash
  <2>2. NoJob.stage = "none"
    BY DEF NoJob
  <2> QED BY Zenon, <2>1, <2>2, NoJobType, IdleJob
<1>2. CASE OtherCommand
  BY <1>2, IdleJob DEF OtherCommand, PopInv, JobInv
<1>3. CASE UNCHANGED popVars
  BY ZenonT(30), <1>3 DEF popVars, PopInv, JobInv, StageInv, StoresInv, PublishInv, ForwardInv,
              Clearing, Readded, Added
<1>4. CASE PopStep
  BY ZenonT(30), <1>4, <1>1, FindStep, SanityStep, RemoveStep, StrandedStep, AddStep,
     RegenerateStep, WalkJob, EndStep
  DEF PopStep, WalkAction
<1>5. ASSUME NEW S \in SUBSET Images, NEW overwrite \in BOOLEAN,
             StartAdd(S, overwrite)
      PROVE  JobInv'
  BY <1>5, StartStep
<1> QED BY ZenonT(30), <1>1, <1>2, <1>3, <1>4, <1>5 DEF PopNext

\* In every state the tables are sound, every pointer of the graph leads to an
\* entry, no head of a channel is deprecated, and every image of the add that
\* runs, and every bundle the index listed when it began, is accounted for.
THEOREM PopulatorInvariant == PopSpec => []PopInv
<1>1. PopInv /\ [PopNext]_popVars => PopInv'
  BY PopTables, PopJob DEF PopInv
<1> QED BY <1>1, PopInitLemma, PTL DEF PopSpec

-----------------------------------------------------------------------------
(***************************************************************************)
(* What an add promises                                                    *)
(***************************************************************************)

\* An add that returns no error has stored every image of its request, and
\* every bundle that was listed when it began is in the index, even where
\* --overwrite-latest took whole packages away on the way.
THEOREM AddsStore == PopSpec => AddStores
<1> DEFINE Q == Finish /\ ~ job.errs =>
                   /\ \A img \in job.request :
                         /\ img.bundle.name \in DOMAIN db.operatorbundle
                         /\ PathOf(db, img.bundle.name) = img.bundle.path
                   /\ job.had \subseteq DOMAIN db.operatorbundle
<1>1. PopInv => Q
  BY Zenon DEF PopInv, JobInv, StoresInv, Clearing, Readded, Finish, Added, Stored
<1>2. PopSpec => [][Q]_popVars
  BY <1>1, PopulatorInvariant, PTL
<1> QED BY <1>2 DEF AddStores

\* An add that returns no error has published its images: the channels of each
\* have a head of at least its version, or were left out for a deprecated one.
THEOREM AddsPublish == PopSpec => AddPublishes
<1> DEFINE Q == Finish /\ ~ job.errs =>
          \A img \in job.request : \A c \in img.channels :
              LET h == HeadOf(db, c, PackageOf(img))
              IN  IF h = NULL
                  THEN \E n \in db.deprecated :
                          /\ PkgOf[n] = PackageOf(img)
                          /\ VersionOf[n] >= VersionOf[img.bundle.name]
                  ELSE VersionOf[h] >= VersionOf[img.bundle.name]
<1>1. PopInv => Q
  <2> SUFFICES ASSUME PopInv, Finish, ~ job.errs, NEW img \in job.request
               PROVE  Published(db, img)
    BY DEF Published
  <2>1. tx = db /\ pc = "idle" /\ job.added = {} /\ Added
    BY DEF Finish, PopInv, IInv
  <2> QED BY <2>1 DEF PopInv, JobInv, PublishInv, Clearing, Added
<1>2. PopSpec => [][Q]_popVars
  BY <1>1, PopulatorInvariant, PTL
<1> QED BY <1>2 DEF AddPublishes

\* An index goes on to itself, and to one with a bundle more.
LEMMA GoesOnSame ==
    ASSUME NEW t, IsDatabase(t), NEW u, u.package = t.package, u.channel = t.channel
    PROVE  GoesOn(t, u)
<1>1. \A k \in DOMAIN t.channel : VersionOf[t.channel[k]] \in Nat
  BY PopulatorAssumption DEF IsDatabase, IsTable
<1>2. \A k \in DOMAIN t.channel : VersionOf[t.channel[k]] <= VersionOf[t.channel[k]]
  BY <1>1
<1> QED BY <1>2 DEF GoesOn

\* A step of an add without --overwrite-latest commits an index that goes on
\* from the one before.
LEMMA ForwardStep ==
    ASSUME PopInv, [PopNext]_popVars, job.stage # "none", ~ job.overwrite
    PROVE  GoesOn(db, db')
<1>1. IsDatabase(db) /\ job.rm = {} /\ pc # "strand"
  BY DEF PopInv, IInv, TypeOK, JobInv, StageInv
<1>2. CASE db' = db
  BY <1>1, <1>2, GoesOnSame
<1>3. ASSUME NEW img \in Images, AddNext(img)
      PROVE  GoesOn(db, db')
  <2>1. AddOperatorBundle(img.bundle)
    BY <1>3 DEF AddNext
  <2>2. CASE Refused(db, img.bundle)
    BY <2>1, <2>2, <1>2 DEF AddOperatorBundle, Rollback, Return
  <2>3. CASE ~ Refused(db, img.bundle)
    <3>1. db' = WithBundle(db, img.bundle)
      BY <2>1, <2>3, AddCommits DEF Return
    <3>2. db'.package = db.package /\ db'.channel = db.channel
      BY <3>1, <1>1, AddedRows
    <3> QED BY <3>2, <1>1, GoesOnSame
  <2> QED BY <2>2, <2>3
<1>4. CASE EndRegenerate
  <2>1. pc = "channel" /\ (db' = db \/ (db' = tx /\ ~ w.errs))
    BY <1>4 DEF EndRegenerate, EndPackageChannels, Rollback, Commit, Return
  <2>2. job.stage = "load"
    BY <2>1 DEF PopInv, JobInv, StageInv, Job
  <2>3. ~ w.errs => GoesOn(db, tx)
    BY <2>1, <2>2 DEF PopInv, JobInv, ForwardInv, Walking
  <2> QED BY <2>1, <2>3, <1>2
<1>5. ASSUME NEW p \in Pkgs, Regenerate(p)
      PROVE  db' = db
  BY <1>5, RegenerateCases DEF BeginPackageChannels, vars
<1>6. CASE WalkAction
  BY <1>6, <1>2, WalkFrame DEF PopInv
<1>7. PopCrash \/ SanityPass \/ SanityFail \/ Finish \/ UNCHANGED popVars => db' = db
  BY Zenon DEF PopCrash, Return, SanityPass, SanityFail, Finish, popVars, vars
<1>8. /\ ~ StrandNext /\ ~ OtherCommand
      /\ \A p \in Pkgs : ~ RemoveNext(p)
      /\ \A S, overwrite : ~ StartAdd(S, overwrite)
  BY Zenon, <1>1 DEF StrandNext, Strand, OtherCommand, RemoveNext, StartAdd
<1>9. \A img : FindOverwrites(img) => db' = db
  BY DEF FindOverwrites, vars
<1>10. CASE PopStep
  BY ZenonT(30), <1>10, <1>2, <1>3, <1>4, <1>5, <1>6, <1>7, <1>8, <1>9
  DEF PopStep, WalkAction
<1> QED BY ZenonT(30), <1>2, <1>7, <1>8, <1>10 DEF PopNext

\* An add without --overwrite-latest that succeeds, fails or dies takes no
\* package away, and no channel away or back to a lower version.
THEOREM AddsGoOn == PopSpec => NeverGoesBack
<1> DEFINE Q == job.stage # "none" /\ ~ job.overwrite =>
          /\ DOMAIN db.package \subseteq DOMAIN db'.package
          /\ \A k \in DOMAIN db.channel :
                IF k \in DOMAIN db'.channel
                THEN VersionOf[db.channel[k]] <= VersionOf[db'.channel[k]]
                ELSE \E n \in db.deprecated :
                        /\ PkgOf[n] = k[2]
                        /\ VersionOf[db.channel[k]] < VersionOf[n]
<1>1. PopInv /\ [PopNext]_popVars => [Q]_popVars
  BY ForwardStep DEF GoesOn
<1>2. PopSpec => [][Q]_popVars
  BY <1>1, PopulatorInvariant, PTL DEF PopSpec
<1> QED BY <1>2 DEF NeverGoesBack

=============================================================================
