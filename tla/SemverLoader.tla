------------------------------ MODULE SemverLoader ------------------------------
(***************************************************************************)
(* "opm registry add" in the modes semver and semver-skippatch: the graph  *)
(* of a package is read back from its channel entries                      *)
(* (SQLGraphLoader.Generate), the new bundle is placed in it by version    *)
(* (BundleGraphLoader.AddBundleToGraph), and the bundle and the graph are  *)
(* written in two transactions (AddBundleSemver).                          *)
(*                                                                         *)
(* The removals and DeprecateBundle are those of SqlLoader.  An index that *)
(* also has packages loaded in replaces mode is not considered here.       *)
(***************************************************************************)
EXTENDS SqlLoader

CONSTANTS
    SemverImages,   \* the bundles that may be added
    Modes,          \* which of "semver" and "skippatch" are used
    VersionOf,      \* the version of each bundle name
    ChanRank        \* the lexicographic order of channel names

\* A bundle with its channels and default channel annotations.
SemverBundle ==
    [image : Bundle, channels : (SUBSET Chans) \ {{}}, default : Chans \cup {NULL}]

\* Major and minor version are one number: only patches are told apart.
Version == [minor : Nat, patch : Nat]

ASSUME SemverAssumption ==
    /\ SemverImages \subseteq SemverBundle
    /\ Modes \subseteq {"semver", "skippatch"}
    /\ VersionOf \in [Names -> Version]
    /\ ChanRank \in [Chans -> Nat]
    /\ \A c, d \in Chans : ChanRank[c] = ChanRank[d] => c = d

VARIABLE g      \* the locals of AddPackageChannelsFromGraph

semverVars == <<db, tx, pc, w, g>>

\* The locals: graph (each channel with its head and what each node replaces),
\* the rest of graph.Channels, channelName, currentNode,
\* previousNodeID (the entry of currentNode once it is made), depth, the rest of
\* syntheticReplaces, syntheticDepth, nextNode, and whether errs is non-empty.
NoGraph ==
    [pkg |-> NULL, default |-> NULL, channels |-> [c \in {} |-> NULL],
     todo |-> {}, ch |-> NULL, cur |-> NULL, curID |-> 0, depth |-> 0,
     rest |-> {}, restDepth |-> 0, next |-> NULL, errs |-> FALSE]

SemverInit == Init /\ g = NoGraph

-----------------------------------------------------------------------------
(***************************************************************************)
(* SQLGraphLoader.Generate                                                 *)
(***************************************************************************)

EntriesIn(t, c, p) ==
    {i \in DOMAIN t.channel_entry : ChannelOf(t.channel_entry[i]) = <<c, p>>}

\* The bundles an entry for n replaces in channel c.
ReplacedBy(t, c, p, n) ==
    {t.channel_entry[t.channel_entry[i].replaces].bundle :
        i \in {j \in EntriesIn(t, c, p) :
                  /\ t.channel_entry[j].bundle = n
                  /\ t.channel_entry[j].replaces # 0}}

\* The entries of a channel that name an actual bundle: its potential heads.
Candidates(t, c, p) ==
    {t.channel_entry[i].bundle : i \in EntriesIn(t, c, p)}
        \cap DOMAIN t.operatorbundle

Heads(t, c, p) ==
    Candidates(t, c, p) \ UNION {ReplacedBy(t, c, p, n) : n \in Names}

\* The nodes are the actual bundles, and whatever else replaces something.
NodesOf(t, c, p) ==
    LET S == Candidates(t, c, p) \cup {n \in Names : ReplacedBy(t, c, p, n) # {}}
    IN  [n \in S |-> ReplacedBy(t, c, p, n)]

GraphChannels(t, p) == {c \in Chans : Candidates(t, c, p) # {}}

\* "no channel head found", "multiple candidate channel heads found"
GenerateFails(t, p) == \E c \in GraphChannels(t, p) : Cardinality(Heads(t, c, p)) # 1

\* The error ErrPackageNotInDatabase, with which the caller goes on from an
\* empty graph: GetDefaultPackage fails on a package with no default channel too.
NotInDatabase(t, p) == p \notin DOMAIN t.package \/ t.package[p] = NULL

Generate(t, p) ==
    IF NotInDatabase(t, p)
    THEN [default |-> NULL, channels |-> [c \in {} |-> NULL]]
    ELSE [default  |-> t.package[p],
          channels |-> [c \in GraphChannels(t, p) |->
                          [head  |-> CHOOSE n \in Heads(t, c, p) : TRUE,
                           nodes |-> NodesOf(t, c, p)]]]

-----------------------------------------------------------------------------
(***************************************************************************)
(* BundleGraphLoader.AddBundleToGraph                                      *)
(***************************************************************************)

\* semver precedence of the versions of two bundles
LT(m, n) ==
    LET v == VersionOf[m]
        u == VersionOf[n]
    IN  v.minor < u.minor \/ (v.minor = u.minor /\ v.patch < u.patch)

isSkipPatchCandidate(n, m) == VersionOf[n].minor = VersionOf[m].minor /\ LT(m, n)

\* SelectDefaultChannel: the first channel in lexicographic order.
SelectDefaultChannel(C) == CHOOSE c \in C : \A d \in C : ChanRank[c] <= ChanRank[d]

\* A node has no version to parse, or the version that is to be added.
AddBundleFails(t, ch, n) ==
    \E m \in DOMAIN ch.nodes :
        m \notin DOMAIN t.operatorbundle \/ VersionOf[m] = VersionOf[n]

LowestAhead(S, n) ==
    CHOOSE m \in S : LT(n, m) /\ \A k \in S : LT(n, k) => ~ LT(k, m)

\* Mutant: the greatest version of all is taken to be behind.
GreatestOfAll(S, n) == CHOOSE m \in S : \A k \in S : ~ LT(m, k)

GreatestBehind(S, n) ==
    CHOOSE m \in S : LT(m, n) /\ \A k \in S : LT(k, n) => ~ LT(m, k)

\* Mutant: every bundle that is added becomes the head.
WithNodeAsHead(ch, n, mode) ==
    [head  |-> n,
     nodes |-> [m \in DOMAIN ch.nodes \cup {n} |->
                  IF m = n THEN {ch.head} ELSE ch.nodes[m]]]

\* One iteration of the loop over bundle.Channels, for a channel of the graph:
\* the lowest version ahead replaces the new one, which replaces the greatest
\* version behind it; in skippatch mode it replaces all the patches it skips,
\* and they are no longer nodes.
WithNode(ch, n, mode) ==
    LET S == DOMAIN ch.nodes
        ahead == {m \in S : LT(n, m)}
        behind == {m \in S : LT(m, n)}
        skipped == {m \in S : mode = "skippatch" /\ isSkipPatchCandidate(n, m)}
        replaces == skipped \cup
            IF behind = {} THEN {} ELSE {GreatestBehind(S, n)}
    IN  [head  |-> IF ahead = {} THEN n ELSE ch.head,
         nodes |-> [m \in (S \ skipped) \cup {n} |->
                      IF m = n THEN replaces
                      ELSE IF ahead # {} /\ m = LowestAhead(S, n) THEN {n}
                      ELSE ch.nodes[m]]]

\* Mutant: a bundle does not start new channels in a package that has some.
AddBundleToOldChannels(gr, b, mode) ==
    LET n == b.image.name
        old == b.channels \cap DOMAIN gr.channels
    IN  [default  |-> IF gr.default # NULL THEN gr.default
                      ELSE SelectDefaultChannel(b.channels),
         channels |-> IF old = {}
                      THEN [c \in b.channels |->
                              [head |-> n, nodes |-> [m \in {n} |-> {}]]]
                      ELSE [c \in DOMAIN gr.channels |->
                              IF c \in old THEN WithNode(gr.channels[c], n, mode)
                              ELSE gr.channels[c]]]

AddBundleToGraph(gr, b, mode) ==
    LET n == b.image.name
    IN  [default |-> IF b.default # NULL THEN b.default
                     ELSE IF gr.default # NULL THEN gr.default
                     ELSE SelectDefaultChannel(b.channels),
         channels |-> [c \in DOMAIN gr.channels \cup b.channels |->
             IF c \notin b.channels THEN gr.channels[c]
             ELSE IF c \in DOMAIN gr.channels THEN WithNode(gr.channels[c], n, mode)
             ELSE [head |-> n, nodes |-> [m \in {n} |-> {}]]]]

-----------------------------------------------------------------------------
(***************************************************************************)
(* AddBundleSemver                                                         *)
(***************************************************************************)

\* The errors before anything is written.
LoadFails(t, b) ==
    LET p == PkgOf[b.image.name]
        gr == Generate(t, p)
    IN  \/ ~ NotInDatabase(t, p) /\ GenerateFails(t, p)
        \/ \E c \in b.channels \cap DOMAIN gr.channels :
              AddBundleFails(t, gr.channels[c], b.image.name)
        \/ Refused(t, b.image)

\* loadManifestsSemver up to the commit of the first transaction, the one that
\* adds the bundle.
AddBundleSemver(b, mode) ==
    /\ pc = "idle"
    /\ IF LoadFails(db, b)
       THEN Rollback /\ UNCHANGED g
       ELSE LET p == PkgOf[b.image.name]
                gr == AddBundleToGraph(Generate(db, p), b, mode)
                t == WithBundle(db, b.image)
            IN  /\ db' = t
                /\ tx' = t
                /\ pc' = "graph"
                /\ g' = [NoGraph EXCEPT !.pkg = p, !.default = gr.default,
                                        !.channels = gr.channels]
                /\ UNCHANGED w

\* "insert or replace" for the package and for each of its channels: a row that
\* is replaced is deleted first, and its deletion cascades.
WithGraphChannels(t, p, channels) ==
    InsertChannels(
        DeleteChannels(InsertPackage(t, p), (DOMAIN channels) \X {p}),
        p, [c \in DOMAIN channels |-> channels[c].head], DOMAIN channels)

\* AddPackageChannelsFromGraph up to its second loop. A default channel the
\* package does not have breaks a foreign key: the package is left without one.
BeginGraph ==
    LET t == WithGraphChannels(db, g.pkg, g.channels)
        found == <<g.default, g.pkg>> \in DOMAIN t.channel
    IN  /\ pc = "graph"
        /\ NextID(t) <= MaxEntryID
        /\ tx' = IF found THEN SetDefaultChannel(t, g.pkg, g.default) ELSE t
        /\ g' = [g EXCEPT !.todo = DOMAIN g.channels, !.errs = ~ found]
        /\ pc' = "gchannel"
        /\ UNCHANGED <<db, w>>

GraphEntry(n, d, r) ==
    [channel |-> g.ch, package |-> g.pkg, bundle |-> n, replaces |-> r,
     depth |-> d]

\* truncChannelGraph, and the start of the walk at the head.
NextGraphChannel ==
    /\ pc = "gchannel"
    /\ \E c \in g.todo :
          /\ tx' = [tx EXCEPT !.channel_entry =
                       Without(@, EntriesIn(tx, c, g.pkg))]
          /\ g' = [g EXCEPT !.todo = @ \ {c}, !.ch = c,
                            !.cur = g.channels[c].head, !.curID = 0,
                            !.depth = 1]
    /\ pc' = "gnode"
    /\ UNCHANGED <<db, w>>

\* What the current node replaces.
NodeReplaces == g.channels[g.ch].nodes[g.cur]

Nodes == DOMAIN g.channels[g.ch].nodes

\* Mutant: the entry is not linked.
VisitNodeUnlinked ==
    /\ pc = "gnode"
    /\ tx' = InsertEntry(tx, GraphEntry(g.cur, g.depth, 0))
    /\ \E n \in IF NodeReplaces \cap Nodes = {} THEN {NULL}
                ELSE NodeReplaces \cap Nodes :
          g' = [g EXCEPT !.curID = NextID(tx), !.next = n,
                         !.rest = NodeReplaces \ Nodes,
                         !.restDepth = g.depth + 1]
    /\ pc' = "gsynth"
    /\ UNCHANGED <<db, w>>

\* The entry of a node, linked from the one before. The node to go on with is
\* the last of its replaces, in the order of a Go map, that is itself a node.
VisitNode ==
    /\ pc = "gnode"
    /\ LET t == InsertEntry(tx, GraphEntry(g.cur, g.depth, 0))
       IN  tx' = IF g.curID = 0 THEN t ELSE SetReplaces(t, g.curID, NextID(tx))
    /\ \E n \in IF NodeReplaces \cap Nodes = {} THEN {NULL}
                ELSE NodeReplaces \cap Nodes :
          g' = [g EXCEPT !.curID = NextID(tx), !.next = n,
                         !.rest = NodeReplaces \ Nodes,
                         !.restDepth = g.depth + 1]
    /\ pc' = "gsynth"
    /\ UNCHANGED <<db, w>>

\* A replaced bundle that is not a node: an entry for it, and a synthetic entry
\* of the current node that replaces it.
AddSynthetic ==
    /\ pc = "gsynth"
    /\ \E n \in g.rest :
          /\ LET t == InsertEntry(tx, GraphEntry(n, g.restDepth, 0))
             IN  tx' = InsertEntry(t, GraphEntry(g.cur, g.restDepth, NextID(tx)))
          /\ g' = [g EXCEPT !.rest = @ \ {n}, !.restDepth = @ + 1]
    /\ UNCHANGED <<db, pc, w>>

\* Mutant: depth is not increased.
NextNodeSameDepth ==
    /\ pc = "gsynth" /\ g.rest = {}
    /\ g.next # NULL
    /\ g' = [g EXCEPT !.cur = g.next]
    /\ pc' = "gnode"
    /\ UNCHANGED <<db, tx, w>>

NextNode ==
    /\ pc = "gsynth" /\ g.rest = {}
    /\ g.next # NULL
    /\ g' = [g EXCEPT !.cur = g.next, !.depth = @ + 1]
    /\ pc' = "gnode"
    /\ UNCHANGED <<db, tx, w>>

\* Mutant: the number of nodes is not checked.
EndOfGraphUnchecked ==
    /\ pc = "gsynth" /\ g.rest = {}
    /\ g.next = NULL
    /\ pc' = "gchannel"
    /\ UNCHANGED <<db, tx, w, g>>

\* "we got to the end of the channel graph": the depth reached must be the
\* number of nodes.
EndOfGraph ==
    /\ pc = "gsynth" /\ g.rest = {}
    /\ g.next = NULL
    /\ g' = [g EXCEPT !.errs = @ \/ Cardinality(Nodes) # g.depth]
    /\ pc' = "gchannel"
    /\ UNCHANGED <<db, tx, w>>

\* The transaction is committed whatever errors there were.
EndGraph ==
    /\ pc = "gchannel"
    /\ g.todo = {}
    /\ Commit(tx)
    /\ g' = NoGraph

SemverCrash == Crash /\ g' = NoGraph

SemverNext ==
    \/ \E b \in SemverImages, mode \in Modes : AddBundleSemver(b, mode)
    \/ BeginGraph
    \/ NextGraphChannel
    \/ VisitNode
    \/ AddSynthetic
    \/ NextNode
    \/ EndOfGraph
    \/ EndGraph
    \/ SemverCrash
    \/ (\E p \in Pkgs : RemovePackage(p)) /\ UNCHANGED g
    \/ Strand /\ UNCHANGED g
    \/ RemoveStrandedBundles /\ UNCHANGED g
    \/ (\E path \in Paths : DeprecateBundle(path)) /\ UNCHANGED g

SemverSpec == SemverInit /\ [][SemverNext]_semverVars

-----------------------------------------------------------------------------
(***************************************************************************)
(* Properties                                                              *)
(***************************************************************************)

\* The bundles of a channel.
Members(t, k) ==
    {t.channel_entry[i].bundle :
        i \in {j \in DOMAIN t.channel_entry : ChannelOf(t.channel_entry[j]) = k}}

\* "the head of every channel will always be the bundle in that channel with the
\* highest version" (docs/design/opm-tooling.md), in both modes and in whatever
\* order the versions arrive: AddBundleToGraph decides it from the graph that
\* Generate finds in the entries of the calls before.
HeadIsHighest ==
    \A k \in DOMAIN db.channel :
        \A n \in Members(db, k) : ~ LT(db.channel[k], n)

\* Whatever a user has installed from a channel, they can upgrade, one entry
\* after the other, to the head: every bundle of the channel but the head is
\* replaced by a higher version, and the head by none.
UpgradesLeadToHead ==
    \A k \in DOMAIN db.channel : \A n \in Members(db, k) :
        LET above == {m \in Members(db, k) : n \in ReplacedBy(db, k[1], k[2], m)}
        IN  IF n = db.channel[k] THEN above = {}
            ELSE above # {} /\ \A m \in above : LT(n, m)

\* The walk of AddPackageChannelsFromGraph has no check for cycles, and ends:
\* it meets no node twice.
GraphWalkBounded == pc \in {"gnode", "gsynth"} => g.depth <= Cardinality(Nodes)

\* In semver mode a channel is the chain of its versions: each bundle replaces
\* exactly the next lower one, and has one entry, at its place in the chain.
ChannelIsSorted ==
    \A k \in DOMAIN db.channel : \A i \in EntriesIn(db, k[1], k[2]) :
        LET e == db.channel_entry[i]
            lower == {n \in Members(db, k) : LT(n, e.bundle)}
            higher == {n \in Members(db, k) : LT(e.bundle, n)}
        IN  /\ e.depth = Cardinality(higher) + 1
            /\ ReplacedBy(db, k[1], k[2], e.bundle) =
                  IF lower = {} THEN {} ELSE {GreatestBehind(lower, e.bundle)}
            /\ \A j \in EntriesIn(db, k[1], k[2]) :
                  db.channel_entry[j].bundle = e.bundle => j = i

\* A call that returns no error has published its bundle and lost none: every
\* channel has the bundles it had, and every node of its graph. (Errors are
\* returned after the transaction has been committed, and bundles can be lost
\* then.)
SuccessPublishes ==
    [][EndGraph /\ ~ g.errs =>
          \A c \in DOMAIN g.channels :
              LET k == <<c, g.pkg>>
              IN  Members(db, k) \cup DOMAIN g.channels[c].nodes
                      \subseteq Members(db', k)]_semverVars

\* In semver mode the two transactions of AddBundleSemver, the crashes between
\* them and the retries look like one step that publishes a bundle in all of its
\* channels, or like nothing.
Published ==
    INSTANCE ChannelSets WITH
        Bundles    <- Names,
        Channels   <- Chans \X Pkgs,
        ChannelsOf <- [n \in Names |->
                         UNION {b.channels \X {PkgOf[n]} :
                            b \in {sb \in SemverImages : sb.image.name = n}}],
        members    <- [k \in Chans \X Pkgs |-> Members(db, k)]

PublishesAtomically == Published!Spec

=============================================================================
