-------------------------------- MODULE Querier --------------------------------
(***************************************************************************)
(* The queries of pkg/sqlite/query.go that the gRPC server and the         *)
(* conversion to a model ask, as operators on a database.  A query that    *)
(* reports an error is a pair: the condition under which it answers        *)
(* (Has...), and the answer.  A query with LIMIT 1 and no ORDER BY is the  *)
(* set of the rows it may return.                                          *)
(*                                                                         *)
(* An api.Bundle is a record; "replaces" and "skips" are only filled in by *)
(* ListBundles.  "apis" says that the API that is told apart is provided.  *)
(***************************************************************************)
EXTENDS RegistryDB

LOCAL INSTANCE FiniteSetsExt

-----------------------------------------------------------------------------
(***************************************************************************)
(* Packages and channels                                                   *)
(***************************************************************************)

ListPackages(t) == DOMAIN t.package

ChannelsOf(t, p) == {k[1] : k \in {q \in DOMAIN t.channel : q[2] = p}}

\* The package is joined with its channels: without one it is not found.
HasPackage(t, p) == p \in DOMAIN t.package /\ ChannelsOf(t, p) # {}

GetPackage(t, p) ==
    [default |-> t.package[p],
     heads   |-> [c \in ChannelsOf(t, p) |-> t.channel[<<c, p>>]]]

-----------------------------------------------------------------------------
(***************************************************************************)
(* One bundle                                                              *)
(***************************************************************************)

\* The entries of a channel for bundle n.
EntriesOf(t, p, c, n) ==
    {i \in DOMAIN t.channel_entry :
        /\ ChannelOf(t.channel_entry[i]) = <<c, p>>
        /\ t.channel_entry[i].bundle = n}

\* Rows whose version or path is NULL belong to any bundle of that name.
GetPropertiesForBundle(t, n) ==
    {r.type : r \in {q \in t.properties :
        q.bundle = n /\ (q.keyed => t.operatorbundle[n].keyed)}}

\* The provided APIs: the join is on the bundle's name alone.
GetApisForEntry(t, i) ==
    \E r \in t.properties :
        r.type = "olm.gvk" /\ r.bundle = t.channel_entry[i].bundle

\* The answer for entry i of a bundle of the index.
BundleOf(t, i) ==
    LET e == t.channel_entry[i]
        row == t.operatorbundle[e.bundle]
    IN  [csvName |-> e.bundle, package |-> e.package, channel |-> e.channel,
         path |-> row.path, content |-> row.content,
         apis |-> GetApisForEntry(t, i),
         properties |-> GetPropertiesForBundle(t, e.bundle)]

GetBundle(t, p, c, n) ==
    IF n \in DOMAIN t.operatorbundle
    THEN {BundleOf(t, i) : i \in EntriesOf(t, p, c, n)} ELSE {}

GetBundleForChannel(t, p, c) ==
    IF <<c, p>> \in DOMAIN t.channel
    THEN GetBundle(t, p, c, t.channel[<<c, p>>]) ELSE {}

-----------------------------------------------------------------------------
(***************************************************************************)
(* Upgrade edges                                                           *)
(***************************************************************************)

\* The entries that replace an entry for bundle n.
ThatReplace(t, n) ==
    {i \in DOMAIN t.channel_entry :
        LET r == t.channel_entry[i].replaces
        IN  r \in DOMAIN t.channel_entry /\ t.channel_entry[r].bundle = n}

\* registry.ChannelEntry
EntryAnswer(e, replaces) ==
    [package |-> e.package, channel |-> e.channel, bundle |-> e.bundle,
     replaces |-> replaces]

GetChannelEntriesThatReplace(t, n) ==
    {EntryAnswer(t.channel_entry[i], n) : i \in ThatReplace(t, n)}

GetBundleThatReplaces(t, n, p, c) ==
    {BundleOf(t, i) : i \in {j \in ThatReplace(t, n) :
        /\ ChannelOf(t.channel_entry[t.channel_entry[j].replaces]) = <<c, p>>
        /\ t.channel_entry[j].bundle \in DOMAIN t.operatorbundle}}

-----------------------------------------------------------------------------
(***************************************************************************)
(* Provided APIs                                                           *)
(***************************************************************************)

Providing(t) ==
    {i \in DOMAIN t.channel_entry : GetApisForEntry(t, i)}

\* What an entry replaces, by name.
ReplacesName(t, i) ==
    LET r == t.channel_entry[i].replaces
    IN  IF r \in DOMAIN t.channel_entry THEN t.channel_entry[r].bundle ELSE NULL

GetChannelEntriesThatProvide(t) ==
    {EntryAnswer(t.channel_entry[i], ReplacesName(t, i)) : i \in Providing(t)}

\* MIN(depth) per channel: SQLite takes the other columns from a row that has
\* the minimum, and any of them will do.
Latest(t, I) ==
    {i \in I : \A j \in I :
        ChannelOf(t.channel_entry[j]) = ChannelOf(t.channel_entry[i]) =>
            t.channel_entry[i].depth <= t.channel_entry[j].depth}

GetLatestChannelEntriesThatProvide(t) ==
    {EntryAnswer(t.channel_entry[i], ReplacesName(t, i)) :
        i \in Latest(t, Providing(t))}

\* The rows of the query: the latest entries of bundles of the index in default
\* channels.
ProvidingByDefault(t) ==
    Latest(t, {i \in Providing(t) :
        LET e == t.channel_entry[i]
        IN  /\ e.bundle \in DOMAIN t.operatorbundle
            /\ e.package \in DOMAIN t.package
            /\ t.package[e.package] = e.channel})

\* "if !bundle.Valid": the bundle column was cleared.
NoBundleColumn(t, i) == ~ t.operatorbundle[t.channel_entry[i].bundle].content

\* The query has no ORDER BY: any of the rows may come first, and that one
\* decides.  It is an error when there is none, and when its bundle column is
\* NULL, whatever the other rows have.
GetBundleThatProvides(t) ==
    {BundleOf(t, i) : i \in {j \in ProvidingByDefault(t) : ~ NoBundleColumn(t, j)}}

GetBundleThatProvidesErrs(t) ==
    \/ ProvidingByDefault(t) = {}
    \/ \E i \in ProvidingByDefault(t) : NoBundleColumn(t, i)

-----------------------------------------------------------------------------
(***************************************************************************)
(* ListBundles                                                             *)
(***************************************************************************)

\* Mutant: every entry is taken to be a tip.
AllEntries(t) == DOMAIN t.channel_entry

\* The entries of minimal depth, in the whole index.
Tips(t) ==
    {i \in DOMAIN t.channel_entry : \A j \in DOMAIN t.channel_entry :
        t.channel_entry[i].depth <= t.channel_entry[j].depth}

\* replaces_entry: what following replaces from the tips reaches.
ReplacesEntries(t) ==
    LET E == t.channel_entry
        reach[n \in Nat] ==
            IF n = 0 THEN Tips(t)
            ELSE reach[n - 1] \cup
                 ({E[i].replaces : i \in reach[n - 1]} \cap DOMAIN E)
    IN  reach[Cardinality(DOMAIN E)]

\* The bundles that entries of I for bundle n in channel c replace.
ReplacedFrom(t, I, p, c, n) ==
    {ReplacesName(t, i) : i \in EntriesOf(t, p, c, n) \cap I} \ {NULL}

\* One row per bundle of the index and channel it appears in: "replaces" is from
\* the entries reached from the tips, and all other edges are skips. The query
\* takes the greatest name where there are several.
ListBundles(t) ==
    LET onPath == ReplacesEntries(t)
        keys == {k \in {<<e.package, e.channel, e.bundle>> :
                          e \in {t.channel_entry[i] : i \in DOMAIN t.channel_entry}} :
                    k[3] \in DOMAIN t.operatorbundle}
        Listed(p, c, n) ==
            LET R == ReplacedFrom(t, onPath, p, c, n)
            IN  [csvName |-> n, package |-> p, channel |-> c,
                 path |-> t.operatorbundle[n].path,
                 content |-> t.operatorbundle[n].content,
                 apis |-> GetApisForEntry(t, Min(EntriesOf(t, p, c, n))),
                 properties |-> {r.type : r \in {q \in t.properties : q.bundle = n}},
                 replaces |-> IF R = {} THEN NULL ELSE CHOOSE r \in R : TRUE,
                 skips |-> ReplacedFrom(t, DOMAIN t.channel_entry \ onPath, p, c, n)]
    IN  {Listed(k[1], k[2], k[3]) : k \in keys}

=============================================================================
