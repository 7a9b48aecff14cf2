------------------------------- MODULE SqlLoader -------------------------------
(***************************************************************************)
(* The loader of pkg/sqlite/load.go: the operations that change an index   *)
(* database, in any order the directory, configmap and image populators,   *)
(* the remover, the deprecator and the pruner may call them.               *)
(*                                                                         *)
(* "db" is what is committed, "tx" the view of the open transaction (equal *)
(* to db when there is none).  An operation whose statements only select   *)
(* and delete sets of rows is one step per transaction.  The walk of       *)
(* addPackageChannels is a loop whose exit depends on what it meets, and   *)
(* is modelled by one action per iteration.                                *)
(***************************************************************************)
EXTENDS RegistryDB

CONSTANTS
    BundleImages,   \* the bundles that may be added
    Manifests,      \* the package manifests that may be loaded
    PkgOf,          \* the package each bundle name is used in
    MaxEntryID      \* bound for TLC: no walk starts with an entry id above it

\* A bundle as Serialize, Version, Replaces, Skips and ProvidedAPIs see it.
\* "provides" says that it provides the API that is told apart. "invalid" says
\* that it is rejected whatever the database holds: it has no CSV name, it does
\* not parse, or it uses SubstitutesFor and the alpha features are off.
Bundle ==
    [name : Names, path : Paths \cup {NULL}, keyed : BOOLEAN,
     replaces : Names \cup {NULL}, skips : Seq(Names), provides : BOOLEAN,
     invalid : BOOLEAN]

\* registry.PackageManifest: the head (CurrentCSVName) of each channel.
PackageManifest ==
    [package : Pkgs, heads : UNION {[C -> Names] : C \in SUBSET Chans},
     default : Chans \cup {NULL}]

\* A bundle name is used in one package: the graph of a package only names
\* its own bundles. The schema does not enforce it (operatorbundle.name is a
\* primary key of the whole index).
ASSUME InputAssumption ==
    /\ MaxEntryID \in Nat
    /\ BundleImages \subseteq Bundle
    /\ Manifests \subseteq PackageManifest
    /\ PkgOf \in [Names -> Pkgs]
    /\ \A b \in BundleImages :
          /\ b.replaces # NULL => PkgOf[b.replaces] = PkgOf[b.name]
          /\ \A i \in DOMAIN b.skips : PkgOf[b.skips[i]] = PkgOf[b.name]
    /\ \A m \in Manifests :
          \A c \in DOMAIN m.heads : PkgOf[m.heads[c]] = m.package

VARIABLES
    db,     \* the committed database
    tx,     \* the database as the open transaction sees it
    pc,     \* what the current call does next
    w       \* the locals of addPackageChannels

vars == <<db, tx, pc, w>>

PCs == {"idle", "channel", "bundle", "skips", "strand"}

\* The locals: manifest.PackageName, the rest of "channels", c.Name,
\* channelEntryCSVName, currentID, depth, replaceCycle, the rest of "skips",
\* and whether errs is non-empty.
Walk ==
    [pkg : Pkgs \cup {NULL}, todo : SUBSET Chans, ch : Chans \cup {NULL},
     cur : Names \cup {NULL}, curID : Nat, depth : Nat, seen : SUBSET Names,
     rest : Seq(Names), errs : BOOLEAN]

NoWalk ==
    [pkg |-> NULL, todo |-> {}, ch |-> NULL, cur |-> NULL, curID |-> 0,
     depth |-> 0, seen |-> {}, rest |-> <<>>, errs |-> FALSE]

\* NewSQLLiteLoader on a new file, after Migrate.
Init ==
    /\ db = EmptyTables
    /\ tx = EmptyTables
    /\ pc = "idle"
    /\ w = NoWalk

\* The call returns, and t is what is committed.
Return(t) ==
    /\ db' = t
    /\ tx' = t
    /\ pc' = "idle"
    /\ w' = NoWalk

\* tx.Commit checks the deferred foreign key; the deferred tx.Rollback undoes
\* a transaction that did not commit.
Commit(t) ==
    IF DeferredForeignKeys(t) THEN Return(t) ELSE Return(db)

Rollback == Return(db)

-----------------------------------------------------------------------------
(***************************************************************************)
(* AddOperatorBundle                                                       *)
(***************************************************************************)

\* The errors of addOperatorBundle; the name is a primary key.
Refused(t, b) == b.invalid \/ b.name \in DOMAIN t.operatorbundle

\* The bundle's row, and a property for the API it provides.
WithBundleRow(t, b) ==
    LET row == [path |-> b.path, keyed |-> b.keyed, content |-> TRUE,
                replaces |-> b.replaces, skips |-> b.skips]
        u == InsertBundle(t, b.name, row)
    IN  IF b.provides THEN InsertProperty(u, "olm.gvk", b.name, b.keyed) ELSE u

\* Mutant: the deprecated table is not consulted when a bundle is added.
WithBundleForgetful(t, b) == WithBundleRow(t, b)

\* A bundle that was deprecated before gets its olm.deprecated property back.
WithBundle(t, b) ==
    IF b.name \in t.deprecated
    THEN InsertProperty(WithBundleRow(t, b), "olm.deprecated", b.name, b.keyed)
    ELSE WithBundleRow(t, b)

AddOperatorBundle(b) ==
    /\ pc = "idle"
    /\ IF Refused(db, b) THEN Rollback ELSE Commit(WithBundle(db, b))

-----------------------------------------------------------------------------
(***************************************************************************)
(* AddPackageChannels and AddBundlePackageChannels                         *)
(***************************************************************************)

RmPackage(t, p) ==
    LET u == DeleteChannels(DeletePackage(t, p),
                            {k \in DOMAIN t.channel : k[2] = p})
    IN  [u EXCEPT !.channel_entry =
            Without(@, {i \in DOMAIN @ : @[i].package = p})]

IsDefaultChannel(c, m) == c = m.default \/ DOMAIN m.heads = {c}

\* Mutant: channels that start with a deprecated bundle are not elided.
AllChannels(t, m) == DOMAIN m.heads

\* Channels that start with a deprecated bundle are elided.
LiveChannels(t, m) == {c \in DOMAIN m.heads : m.heads[c] \notin t.deprecated}

\* A channel whose head is not in the database breaks its foreign key.
AddedChannels(t, m) ==
    {c \in LiveChannels(t, m) : m.heads[c] \in DOMAIN t.operatorbundle}

DefaultChannels(t, m) == {c \in AddedChannels(t, m) : IsDefaultChannel(c, m)}

\* The package row, its channel rows and its default channel.
WithPackage(t, m) ==
    LET u == InsertChannels(InsertPackage(t, m.package), m.package, m.heads,
                            AddedChannels(t, m))
        D == DefaultChannels(t, m)
    IN  IF D = {} THEN u
        ELSE SetDefaultChannel(u, m.package, CHOOSE c \in D : TRUE)

\* rmPackage, and addPackageChannels up to the second loop over channels.
BeginPackageChannels(t, m) ==
    /\ NextID(RmPackage(t, m.package)) <= MaxEntryID
    /\ tx' = WithPackage(RmPackage(t, m.package), m)
    /\ w' = [NoWalk EXCEPT
                !.pkg = m.package,
                !.todo = AddedChannels(t, m),
                !.errs = \/ AddedChannels(t, m) # LiveChannels(t, m)
                         \/ DefaultChannels(t, m) = {}]
    /\ pc' = "channel"
    /\ UNCHANGED db

AddPackageChannels(m) ==
    /\ pc = "idle"
    /\ BeginPackageChannels(db, m)

AddBundlePackageChannels(b, m) ==
    /\ pc = "idle"
    /\ IF Refused(db, b) THEN Rollback
       ELSE BeginPackageChannels(WithBundle(db, b), m)

\* A new entry of the channel being walked.
Entry(n, d, r) ==
    [channel |-> w.ch, package |-> w.pkg, bundle |-> n, replaces |-> r,
     depth |-> d]

\* The head entry of the next channel, at depth 0.
NextChannel ==
    /\ pc = "channel"
    /\ \E c \in w.todo :
          LET head == tx.channel[<<c, w.pkg>>]
          IN  /\ tx' = InsertEntry(tx, [channel |-> c, package |-> w.pkg,
                                        bundle |-> head, replaces |-> 0,
                                        depth |-> 0])
              /\ w' = [w EXCEPT !.todo = @ \ {c}, !.ch = c, !.cur = head,
                                !.curID = NextID(tx), !.depth = 1,
                                !.seen = {head}]
    /\ pc' = "bundle"
    /\ UNCHANGED db

\* The top of the loop: the row of the current bundle, and its olm.package
\* property. The row is there: a head is a foreign key, and the loop checks a
\* replaced bundle before it moves to it.
VisitBundle ==
    /\ pc = "bundle"
    /\ LET row == tx.operatorbundle[w.cur]
       IN  /\ tx' = InsertProperty(tx, "olm.package", w.cur, row.keyed)
           /\ w' = [w EXCEPT !.rest = row.skips]
    /\ pc' = "skips"
    /\ UNCHANGED db

\* Mutant: the depth grows before the synthesized entry is added.
AddSkipDeeper ==
    /\ pc = "skips"
    /\ w.rest # <<>>
    /\ LET u == InsertEntry(tx, Entry(Head(w.rest), w.depth, 0))
       IN  tx' = InsertEntry(u, Entry(w.cur, w.depth + 1, NextID(tx)))
    /\ w' = [w EXCEPT !.rest = Tail(@), !.depth = @ + 1]
    /\ UNCHANGED <<db, pc>>

\* One skipped bundle: an entry for it, and a synthesized entry of the
\* current bundle that replaces it, at the same depth.
AddSkip ==
    /\ pc = "skips"
    /\ w.rest # <<>>
    /\ LET u == InsertEntry(tx, Entry(Head(w.rest), w.depth, 0))
       IN  tx' = InsertEntry(u, Entry(w.cur, w.depth, NextID(tx)))
    /\ w' = [w EXCEPT !.rest = Tail(@), !.depth = @ + 1]
    /\ UNCHANGED <<db, pc>>

\* What the current bundle replaces, once its skips are done.
Replaced == tx.operatorbundle[w.cur].replaces

\* Mutant: no check for cycles of replaces.
NeverOnPath(n) == FALSE

\* replaceCycle
OnPath(n) == n \in w.seen

\* "We've walked the channel until there was no replacement."
EndOfChain ==
    /\ pc = "skips" /\ w.rest = <<>>
    /\ Replaced = NULL
    /\ pc' = "channel"
    /\ UNCHANGED <<db, tx, w>>

\* The replaced bundle is on the path already: its entry stays unlinked.
ReplacesCycle ==
    /\ pc = "skips" /\ w.rest = <<>>
    /\ Replaced # NULL /\ OnPath(Replaced)
    /\ tx' = InsertEntry(tx, Entry(Replaced, w.depth, 0))
    /\ w' = [w EXCEPT !.errs = TRUE]
    /\ pc' = "channel"
    /\ UNCHANGED db

\* Mutant: currentID is not updated.
MovedStale ==
    [w EXCEPT !.cur = Replaced, !.depth = @ + 1, !.seen = @ \cup {Replaced}]

\* The locals when the loop goes on with the replaced bundle, whose entry is
\* the last one inserted.
Moved ==
    [w EXCEPT !.cur = Replaced, !.curID = NextID(tx), !.depth = @ + 1,
              !.seen = @ \cup {Replaced}]

\* An entry for the replaced bundle, linked from the current one. The walk
\* stops there when the current bundle is deprecated, fails when the replaced
\* one is not in the database, and otherwise moves on to it.
FollowReplaces ==
    /\ pc = "skips" /\ w.rest = <<>>
    /\ Replaced # NULL /\ ~ OnPath(Replaced)
    /\ tx' = SetReplaces(InsertEntry(tx, Entry(Replaced, w.depth, 0)),
                         w.curID, NextID(tx))
    /\ \/ /\ w.cur \in tx.deprecated
          /\ w' = w
          /\ pc' = "channel"
       \/ /\ w.cur \notin tx.deprecated
          /\ Replaced \notin DOMAIN tx.operatorbundle
          /\ w' = [w EXCEPT !.errs = TRUE]
          /\ pc' = "channel"
       \/ /\ w.cur \notin tx.deprecated
          /\ Replaced \in DOMAIN tx.operatorbundle
          /\ w' = Moved
          /\ pc' = "bundle"
    /\ UNCHANGED db

\* Every channel is walked: any error undoes the whole transaction.
EndPackageChannels ==
    /\ pc = "channel"
    /\ w.todo = {}
    /\ IF w.errs THEN Rollback ELSE Commit(tx)

-----------------------------------------------------------------------------
(***************************************************************************)
(* RemovePackage and RemoveStrandedBundles                                 *)
(***************************************************************************)

\* rmBundle for every bundle of a set.
RmBundles(t, S) == DeleteEntriesOf(DeleteBundles(t, S), S)

\* getCSVNames
CSVNames(t, p) ==
    {t.channel_entry[i].bundle :
        i \in {j \in DOMAIN t.channel_entry : t.channel_entry[j].package = p}}

WithoutPackage(t, p) ==
    LET u == DeletePackage(RmBundles(t, CSVNames(t, p)), p)
    IN  DeleteChannels(u, {k \in DOMAIN u.channel : k[2] = p})

\* The first transaction of RemovePackage; the second one is Strand.
RemovePackage(p) ==
    /\ pc = "idle"
    /\ LET t == WithoutPackage(db, p)
       IN  IF DeferredForeignKeys(t)
           THEN /\ db' = t
                /\ tx' = t
                /\ pc' = "strand"
                /\ UNCHANGED w
           ELSE Rollback

\* Mutant: a bundle counts as stranded when no channel starts with it.
StrandedNonHeads(t) ==
    {n \in DOMAIN t.operatorbundle :
        \A k \in DOMAIN t.channel : t.channel[k] # n}

\* Bundles that no entry names.
Stranded(t) ==
    {n \in DOMAIN t.operatorbundle :
        \A i \in DOMAIN t.channel_entry : t.channel_entry[i].bundle # n}

Strand ==
    /\ pc = "strand"
    /\ Commit(DeleteBundles(db, Stranded(db)))

RemoveStrandedBundles ==
    /\ pc = "idle"
    /\ Commit(DeleteBundles(db, Stranded(db)))

-----------------------------------------------------------------------------
(***************************************************************************)
(* DeprecateBundle                                                         *)
(***************************************************************************)

\* The bundles a row names in replaces and skips.
Successors(t, n) ==
    IF n \in DOMAIN t.operatorbundle
    THEN LET row == t.operatorbundle[n]
         IN  ({row.replaces} \ {NULL}) \cup
             {row.skips[i] : i \in DOMAIN row.skips}
    ELSE {}

\* getTailFromBundle: what its queue visits, the least set that holds the
\* successors of n and is closed under them.
TailOf(t, n) ==
    {x \in Names : \A S \in SUBSET Names :
        /\ Successors(t, n) \subseteq S
        /\ \A y \in S : Successors(t, y) \subseteq S
        => x \in S}

\* The query isDefaultChannelHead joins channel and package on the channel
\* name alone.
IsDefaultChannelHead(t, n) ==
    \E k \in DOMAIN t.channel :
        /\ t.channel[k] = n
        /\ \E p \in DOMAIN t.package : t.package[p] = k[1]

\* The UPDATE of rmChannelEntry: nothing points at an entry of S any more.
UnlinkEntriesOf(t, S) ==
    [t EXCEPT !.channel_entry = [i \in DOMAIN @ |->
        IF @[i].replaces \in DOMAIN @ /\ @[@[i].replaces].bundle \in S
        THEN [@[i] EXCEPT !.replaces = 0] ELSE @[i]]]

\* rmChannelEntry and rmBundle for the tail of n, then the channels n heads.
Truncated(t, n) ==
    LET S == TailOf(t, n)
        u == UnlinkEntriesOf(t, S)
        v == RmBundles(DeleteChannels(u, HeadedBy(u, S)), S)
    IN  DeleteChannels(v, HeadedBy(v, {n}))

\* The bundle's olm.deprecated property, and the record that outlives it.
MarkDeprecated(t, n, keyed) ==
    [InsertProperty(t, "olm.deprecated", n, keyed) EXCEPT
        !.deprecated = @ \cup {n}]

\* Mutant: the deprecated bundle itself is not checked.
TailRemovesDefaultChannel(t, n) ==
    \E x \in TailOf(t, n) : IsDefaultChannelHead(t, x)

\* ErrRemovingDefaultChannelDuringDeprecation
RemovesDefaultChannel(t, n) ==
    \E x \in {n} \cup TailOf(t, n) : IsDefaultChannelHead(t, x)

\* getBundleNameAndVersionForImage
BundlesForImage(t, path) ==
    {n \in DOMAIN t.operatorbundle : t.operatorbundle[n].path = path}

\* It fails when no bundle has the image, when a default channel would go, and
\* when the bundle is in its own tail: the property's foreign key is then broken
\* unless a NULL disables it.
DeprecateBundle(path) ==
    /\ pc = "idle"
    /\ \/ BundlesForImage(db, path) = {} /\ Rollback
       \/ \E n \in BundlesForImage(db, path) :
             LET keyed == db.operatorbundle[n].keyed
                 t == Truncated(db, n)
             IN  IF \/ RemovesDefaultChannel(db, n)
                    \/ keyed /\ n \notin DOMAIN t.operatorbundle
                 THEN Rollback
                 ELSE Commit(MarkDeprecated(t, n, keyed))

-----------------------------------------------------------------------------
(***************************************************************************)
(* ClearNonHeadBundles                                                     *)
(***************************************************************************)

\* Bundles that have an image and head no channel lose their csv and bundle.
Cleared(t) ==
    [t EXCEPT !.operatorbundle = [n \in DOMAIN @ |->
        IF @[n].path # NULL /\ HeadedBy(t, {n}) = {}
        THEN [@[n] EXCEPT !.content = FALSE] ELSE @[n]]]

ClearNonHeadBundles ==
    /\ pc = "idle"
    /\ Commit(Cleared(db))

-----------------------------------------------------------------------------
(***************************************************************************)
(* The process dies in the middle of a call: SQLite undoes the open        *)
(* transaction when the file is next opened.                               *)
(***************************************************************************)

Crash ==
    /\ pc # "idle"
    /\ Return(db)

Step ==
    \/ NextChannel
    \/ VisitBundle
    \/ AddSkip
    \/ EndOfChain
    \/ ReplacesCycle
    \/ FollowReplaces
    \/ EndPackageChannels
    \/ Strand

Next ==
    \/ \E b \in BundleImages : AddOperatorBundle(b)
    \/ \E m \in Manifests : AddPackageChannels(m)
    \/ \E b \in BundleImages, m \in Manifests : AddBundlePackageChannels(b, m)
    \/ \E p \in Pkgs : RemovePackage(p)
    \/ RemoveStrandedBundles
    \/ \E path \in Paths : DeprecateBundle(path)
    \/ ClearNonHeadBundles
    \/ Step
    \/ Crash

Spec == Init /\ [][Next]_vars

-----------------------------------------------------------------------------
(***************************************************************************)
(* Properties                                                              *)
(***************************************************************************)

TypeOK ==
    /\ IsDatabase(db)
    /\ IsDatabase(tx)
    /\ pc \in PCs
    /\ w \in Walk

\* A client that starts at a package finds its way: every package has a
\* default channel that is one of its channels, every channel belongs to a
\* package of the index, and the head of every channel is a bundle of the index
\* with an entry in that channel. The schema has no foreign key from channel to
\* package, nor from channel_entry to operatorbundle, and its cascades can
\* delete a package when a bundle goes (rmBundle, rmStrandedBundles).
Navigable(t) ==
    /\ \A p \in DOMAIN t.package : <<t.package[p], p>> \in DOMAIN t.channel
    /\ \A k \in DOMAIN t.channel :
          /\ k[2] \in DOMAIN t.package
          /\ t.channel[k] \in DOMAIN t.operatorbundle
          /\ \E i \in DOMAIN t.channel_entry :
                /\ ChannelOf(t.channel_entry[i]) = k
                /\ t.channel_entry[i].bundle = t.channel[k]

CatalogNavigable == Navigable(db)

\* An upgrade edge of the index is one that a bundle declares: an entry that
\* replaces another one does so in its own channel, and its bundle is in the
\* index and names the other's bundle in replaces or skips. Entries outlive
\* transactions that remove and add bundles of the same name.
EdgesDeclared ==
    \A i \in DOMAIN db.channel_entry :
        LET e == db.channel_entry[i]
            f == db.channel_entry[e.replaces]
        IN  e.replaces # 0 =>
                /\ e.replaces \in DOMAIN db.channel_entry
                /\ ChannelOf(f) = ChannelOf(e)
                /\ f.bundle \in Successors(db, e.bundle)

\* Following replaces from an entry always ends: the next entry is deeper in
\* the channel, or it is a skipped bundle's at the same depth and replaces
\* nothing. Cycles of replaces among the bundles are found by the walk.
EdgesDescend ==
    \A i \in DOMAIN db.channel_entry :
        LET e == db.channel_entry[i]
            f == db.channel_entry[e.replaces]
        IN  e.replaces # 0 =>
                \/ f.depth > e.depth
                \/ f.depth = e.depth /\ f.replaces = 0

\* A deprecated bundle is never installed by default and ends its channel: it
\* heads no channel, and what its entries replace, if anything, replaces
\* nothing ("The package is truncated below this point").
DeprecatedTruncates ==
    /\ \A k \in DOMAIN db.channel : db.channel[k] \notin db.deprecated
    /\ \A i \in DOMAIN db.channel_entry :
          LET e == db.channel_entry[i]
          IN  e.bundle \in db.deprecated /\ e.replaces # 0
                  => db.channel_entry[e.replaces].replaces = 0

\* Deprecation outlives the bundle: a bundle with a record in "deprecated" has
\* its olm.deprecated property whenever it is in the index, also when it was
\* removed with its package and added again.
DeprecatedMarked ==
    \A n \in DOMAIN db.operatorbundle \cap db.deprecated :
        \E r \in db.properties :
            /\ r.type = "olm.deprecated"
            /\ r.bundle = n
            /\ r.keyed = db.operatorbundle[n].keyed

\* The walk ends on every replaces graph, cyclic ones included: an entry is at
\* most as deep as there are bundles and skips to meet on a path.
WalkBounded ==
    LET SkipsOf(n) == Len(tx.operatorbundle[n].skips)
        M == CHOOSE k \in {SkipsOf(n) : n \in DOMAIN tx.operatorbundle} \cup {0} :
                \A n \in DOMAIN tx.operatorbundle : SkipsOf(n) <= k
    IN  w.depth <= (M + 1) * Cardinality(DOMAIN tx.operatorbundle) + 1

\* A package leaves the index only when RemovePackage is called for it: no
\* cascade of another operation takes it away, and one that fails or crashes
\* leaves it.
PackagesAreKept ==
    [][\A p \in (DOMAIN db.package) \ (DOMAIN db'.package) :
            RemovePackage(p)]_vars

\* The bundles that a walk from the head of a channel meets, and that it must
\* find in the index: the least set with the head that is closed under replaces
\* up to a deprecated bundle.
Walked(t, head) ==
    {x \in Names : \A S \in SUBSET Names :
        /\ head \in S
        /\ \A y \in (S \cap DOMAIN t.operatorbundle) \ t.deprecated :
              t.operatorbundle[y].replaces \in S \cup {NULL}
        => x \in S}

\* Until a bundle is deprecated, every channel can be generated again from its
\* head, which is what the next AddPackageChannels for the package does:
\* removing packages or stranded bundles, and calls that fail or crash, never
\* take away a bundle that a channel's walk needs. (A deprecation can: it
\* removes bundles that another channel may reach without the deprecated one.)
RegenerableUntilDeprecated ==
    db.deprecated = {} =>
        \A k \in DOMAIN db.channel :
            Walked(db, db.channel[k]) \subseteq DOMAIN db.operatorbundle

=============================================================================
