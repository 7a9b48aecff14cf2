----------------------------- MODULE SqlLoaderGraph -----------------------------
(***************************************************************************)
(* Proofs about the upgrade graph that SqlLoader keeps in channel_entry,   *)
(* for every set of bundles, manifests and names: edges are declared and   *)
(* descend, a deprecated bundle truncates its channels and stays marked,   *)
(* every channel can be generated again until a bundle is deprecated, and  *)
(* the walk of a channel is bounded.                                       *)
(*                                                                         *)
(* The graph is right in every state of the open transaction too, not only *)
(* in what is committed: an entry is linked after both of its ends are     *)
(* there.  What that needs is what CursorEntry says of the entry that the  *)
(* walk links next, and CursorPath of the path it came by.                 *)
(***************************************************************************)
EXTENDS SqlLoaderProofs

\* A leaf that names no prover is tried with SMT and Zenon, then again with
\* more time.
USE SMT, Zenon, SMTT(20), SMTT(30)

\* The entry e may replace the entry f: the edge is declared, it descends, and
\* it ends there if e is an entry of a deprecated bundle.
IsEdge(t, e, f) ==
    /\ ChannelOf(f) = ChannelOf(e)
    /\ f.bundle \in Successors(t, e.bundle)
    /\ f.depth > e.depth \/ (f.depth = e.depth /\ f.replaces = 0)
    /\ e.bundle \in t.deprecated => f.replaces = 0

EdgesOK(t) ==
    \A i \in DOMAIN t.channel_entry :
        LET e == t.channel_entry[i]
        IN  e.replaces # 0 =>
                /\ e.replaces \in DOMAIN t.channel_entry
                /\ IsEdge(t, e, t.channel_entry[e.replaces])

DeprecationOK(t) ==
    /\ \A k \in DOMAIN t.channel : t.channel[k] \notin t.deprecated
    /\ \A n \in DOMAIN t.operatorbundle \cap t.deprecated : Mark(t, n) \in t.properties

GraphOK(t) == EdgesOK(t) /\ DeprecationOK(t)

\* Bundle x has an entry in channel k.
InChannel(t, k, x) ==
    \E i \in DOMAIN t.channel_entry :
        ChannelOf(t.channel_entry[i]) = k /\ t.channel_entry[i].bundle = x

\* V is all that a walk of channel k meets: it has the head, is closed under
\* replaces, and its bundles are in the index and have entries in the channel.
IsWalk(t, k, V) ==
    /\ t.channel[k] \in V
    /\ \A x \in V : /\ x \in DOMAIN t.operatorbundle
                    /\ t.operatorbundle[x].replaces \in V \cup {NULL}
                    /\ InChannel(t, k, x)

WalkedAll(t, k) == \E V \in SUBSET DOMAIN t.operatorbundle : IsWalk(t, k, V)

Regenerable(t) == t.deprecated = {} => \A k \in DOMAIN t.channel : WalkedAll(t, k)

\* What addPackageChannels writes for manifest m before it walks: the live
\* channels with their heads, beside those of the other packages.
PackageAdded(t, m, u) ==
    /\ SameBut(t, u, {"package", "channel"})
    /\ DOMAIN u.channel = DOMAIN t.channel \cup (AddedChannels(t, m) \X {m.package})
    /\ \A k \in DOMAIN t.channel : u.channel[k] = t.channel[k]
    /\ \A c \in AddedChannels(t, m) : u.channel[<<c, m.package>>] = m.heads[c]

\* So the first loop of addPackageChannels does, when the package has no
\* channel left.
LEMMA WithPackageRows ==
    ASSUME NEW t, Sound(t), NEW m, OwnHeads(m),
           \A k \in DOMAIN t.channel : k[2] # m.package
    PROVE  PackageAdded(t, m, WithPackage(t, m))
<1> DEFINE u == WithPackage(t, m)
<1>1. SameBut(t, u, {"package", "channel"})
  BY Zenon, WithPackageLemma
<1>2. DOMAIN u.channel = DOMAIN t.channel \cup (AddedChannels(t, m) \X {m.package})
  BY Zenon, WithPackageLemma
<1>3. ASSUME NEW k \in DOMAIN t.channel PROVE u.channel[k] = t.channel[k]
  BY WithPackageLemma
<1>4. ASSUME NEW c \in AddedChannels(t, m)
      PROVE  u.channel[<<c, m.package>>] = m.heads[c]
  BY WithPackageLemma
<1> HIDE DEF u
<1>5. PackageAdded(t, m, u)
  BY Zenon, <1>1, <1>2, <1>3, <1>4 DEF PackageAdded
<1> QED BY Zenon, <1>5 DEF u

-----------------------------------------------------------------------------
(***************************************************************************)
(* Deletes                                                                 *)
(***************************************************************************)

\* What a bundle replaces and skips is in its row only.
LEMMA SameSuccessors ==
    ASSUME NEW t, NEW u, u.operatorbundle = t.operatorbundle
    PROVE  \A n : Successors(u, n) = Successors(t, n)
BY Zenon DEF Successors

\* So edges depend on the rows of the bundles and on what is deprecated.
LEMMA SameIsEdge ==
    ASSUME NEW t, NEW u, u.operatorbundle = t.operatorbundle,
           u.deprecated = t.deprecated
    PROVE  \A x, y : IsEdge(u, x, y) <=> IsEdge(t, x, y)
<1> SUFFICES ASSUME NEW x, NEW y PROVE IsEdge(u, x, y) <=> IsEdge(t, x, y)
  OBVIOUS
<1>1. Successors(u, x.bundle) = Successors(t, x.bundle)
  BY Zenon, SameSuccessors
<1> QED BY <1>1 DEF IsEdge

\* The successors of a bundle are a matter of its row.
LEMMA SuccessorsRow ==
    ASSUME NEW t, NEW u, NEW n,
           n \in DOMAIN t.operatorbundle => /\ n \in DOMAIN u.operatorbundle
                                            /\ u.operatorbundle[n] = t.operatorbundle[n],
           NEW x \in Successors(t, n)
    PROVE  x \in Successors(u, n) /\ n \in DOMAIN t.operatorbundle
BY DEF Successors

\* Deleting rows keeps the graph when no entry that stays loses the entry it
\* replaces or the row of its bundle, and no bundle loses its mark.
LEMMA PruneGraph ==
    ASSUME NEW t, GraphOK(t), NEW u, u.deprecated = t.deprecated,
           SubTable(u.operatorbundle, t.operatorbundle),
           SubTable(u.channel, t.channel),
           SubTable(u.channel_entry, t.channel_entry),
           \A r \in t.properties :
              r.bundle \in DOMAIN u.operatorbundle => r \in u.properties,
           \A i \in DOMAIN u.channel_entry :
              LET e == t.channel_entry[i]
              IN  e.replaces # 0 =>
                    /\ e.bundle \in DOMAIN t.operatorbundle =>
                          e.bundle \in DOMAIN u.operatorbundle
                    /\ e.replaces \in DOMAIN t.channel_entry =>
                          e.replaces \in DOMAIN u.channel_entry
    PROVE  GraphOK(u)
<1>1. ASSUME NEW i \in DOMAIN u.channel_entry, u.channel_entry[i].replaces # 0
      PROVE  /\ u.channel_entry[i].replaces \in DOMAIN u.channel_entry
             /\ IsEdge(u, u.channel_entry[i],
                       u.channel_entry[u.channel_entry[i].replaces])
  <2> DEFINE e == t.channel_entry[i]
             f == t.channel_entry[e.replaces]
  <2>1. i \in DOMAIN t.channel_entry /\ u.channel_entry[i] = e /\ e.replaces # 0
    BY <1>1 DEF SubTable
  <2>2. e.replaces \in DOMAIN t.channel_entry /\ IsEdge(t, e, f)
    BY <2>1 DEF GraphOK, EdgesOK
  <2>3. e.replaces \in DOMAIN u.channel_entry /\ u.channel_entry[e.replaces] = f
    BY <2>1, <2>2 DEF SubTable
  <2>4. f.bundle \in Successors(t, e.bundle)
    BY <2>2 DEF IsEdge
  <2> HIDE DEF e, f
  <2>5. e.bundle \in DOMAIN t.operatorbundle => e.bundle \in DOMAIN u.operatorbundle
    BY <2>1 DEF e
  <2>6. f.bundle \in Successors(u, e.bundle)
    BY <2>4, <2>5, SuccessorsRow DEF SubTable
  <2>7. IsEdge(u, e, f)
    BY <2>2, <2>6 DEF IsEdge
  <2> QED BY <2>1, <2>3, <2>7
<1>2. \A k \in DOMAIN u.channel : u.channel[k] \notin u.deprecated
  BY DEF GraphOK, DeprecationOK, SubTable
<1>3. ASSUME NEW n \in DOMAIN u.operatorbundle \cap u.deprecated
      PROVE  Mark(u, n) \in u.properties
  <2>1. /\ n \in DOMAIN t.operatorbundle \cap t.deprecated
        /\ u.operatorbundle[n] = t.operatorbundle[n]
    BY DEF SubTable
  <2>2. Mark(u, n) = Mark(t, n) /\ Mark(t, n).bundle = n
    BY <2>1 DEF Mark
  <2>3. Mark(t, n) \in t.properties
    BY <2>1 DEF GraphOK, DeprecationOK
  <2> QED BY <2>2, <2>3
<1> QED BY <1>1, <1>2, <1>3 DEF GraphOK, EdgesOK, DeprecationOK

\* Deleting rows keeps what a walk of channel k meets when the bundles of the
\* channel stay, and its entries.
LEMMA PruneWalk ==
    ASSUME NEW t, NEW u, NEW k \in DOMAIN u.channel, WalkedAll(t, k),
           SubTable(u.operatorbundle, t.operatorbundle),
           SubTable(u.channel, t.channel),
           SubTable(u.channel_entry, t.channel_entry),
           \A i \in DOMAIN t.channel_entry :
              ChannelOf(t.channel_entry[i]) = k =>
                 /\ i \in DOMAIN u.channel_entry
                 /\ t.channel_entry[i].bundle \in DOMAIN t.operatorbundle =>
                       t.channel_entry[i].bundle \in DOMAIN u.operatorbundle
    PROVE  WalkedAll(u, k)
<1>1. PICK V \in SUBSET DOMAIN t.operatorbundle : IsWalk(t, k, V)
  BY DEF WalkedAll
<1>2. u.channel[k] \in V
  BY <1>1 DEF IsWalk, SubTable
<1>3. ASSUME NEW x \in V
      PROVE  /\ x \in DOMAIN u.operatorbundle
             /\ u.operatorbundle[x].replaces \in V \cup {NULL}
             /\ InChannel(u, k, x)
  <2>1. /\ x \in DOMAIN t.operatorbundle
        /\ t.operatorbundle[x].replaces \in V \cup {NULL}
    BY <1>1 DEF IsWalk
  <2>2. PICK i \in DOMAIN t.channel_entry :
            ChannelOf(t.channel_entry[i]) = k /\ t.channel_entry[i].bundle = x
    BY <1>1 DEF IsWalk, InChannel
  <2>3. i \in DOMAIN u.channel_entry /\ x \in DOMAIN u.operatorbundle
    BY <2>1, <2>2
  <2>4. InChannel(u, k, x)
    BY <2>2, <2>3 DEF InChannel, SubTable
  <2> QED BY <2>1, <2>3, <2>4 DEF SubTable
<1>4. V \subseteq DOMAIN u.operatorbundle /\ IsWalk(u, k, V)
  BY <1>2, <1>3 DEF IsWalk
<1> QED BY <1>4 DEF WalkedAll

\* Deleting a whole package, with or without its bundles, keeps the graph and
\* the walks of the other packages.
LEMMA PackageGone ==
    ASSUME NEW t, Sound(t), GraphOK(t), NEW p, NEW u,
           u.deprecated = t.deprecated,
           SubTable(u.operatorbundle, t.operatorbundle),
           SubTable(u.channel, t.channel),
           SubTable(u.channel_entry, t.channel_entry),
           \A n \in DOMAIN t.operatorbundle :
              PkgOf[n] # p => n \in DOMAIN u.operatorbundle,
           DOMAIN u.channel = {k \in DOMAIN t.channel : k[2] # p},
           DOMAIN u.channel_entry =
              {i \in DOMAIN t.channel_entry : t.channel_entry[i].package # p},
           \A r \in t.properties :
              r.bundle \in DOMAIN u.operatorbundle => r \in u.properties
    PROVE  GraphOK(u) /\ (Regenerable(t) => Regenerable(u))
<1> DEFINE E == t.channel_entry
<1>1. \A i \in DOMAIN E : PkgOf[E[i].bundle] = E[i].package
  BY DEF Sound, OwnPackage
<1>2. ASSUME NEW i \in DOMAIN u.channel_entry, E[i].replaces # 0
      PROVE  /\ E[i].bundle \in DOMAIN t.operatorbundle =>
                   E[i].bundle \in DOMAIN u.operatorbundle
             /\ E[i].replaces \in DOMAIN E =>
                   E[i].replaces \in DOMAIN u.channel_entry
  <2>1. i \in DOMAIN E /\ E[i].package # p
    OBVIOUS
  <2>2. ChannelOf(E[E[i].replaces]) = ChannelOf(E[i])
    BY <2>1, <1>2 DEF GraphOK, EdgesOK, IsEdge
  <2>3. E[E[i].replaces].package # p
    BY <2>1, <2>2 DEF ChannelOf
  <2> QED BY <2>1, <2>3, <1>1
<1>3. GraphOK(u)
  <2> HIDE DEF E
  <2>1. \A i \in DOMAIN u.channel_entry :
          E[i].replaces # 0 =>
             /\ E[i].bundle \in DOMAIN t.operatorbundle =>
                   E[i].bundle \in DOMAIN u.operatorbundle
             /\ E[i].replaces \in DOMAIN E =>
                   E[i].replaces \in DOMAIN u.channel_entry
    BY <1>2
  <2> QED BY <2>1, PruneGraph DEF E
<1>4. ASSUME Regenerable(t) PROVE Regenerable(u)
  <2> SUFFICES ASSUME u.deprecated = {}, NEW k \in DOMAIN u.channel
               PROVE  WalkedAll(u, k)
    BY DEF Regenerable
  <2>1. k \in DOMAIN t.channel /\ k[2] # p /\ WalkedAll(t, k)
    BY <1>4 DEF Regenerable
  <2>2. ASSUME NEW i \in DOMAIN E, ChannelOf(E[i]) = k
        PROVE  /\ i \in DOMAIN u.channel_entry
               /\ E[i].bundle \in DOMAIN t.operatorbundle =>
                     E[i].bundle \in DOMAIN u.operatorbundle
    <3>1. E[i].package # p
      BY <2>1, <2>2 DEF ChannelOf
    <3> QED BY <3>1, <1>1
  <2> HIDE DEF E
  <2>3. \A i \in DOMAIN E : ChannelOf(E[i]) = k =>
              /\ i \in DOMAIN u.channel_entry
              /\ E[i].bundle \in DOMAIN t.operatorbundle =>
                    E[i].bundle \in DOMAIN u.operatorbundle
    BY <2>2
  <2> QED BY <2>1, <2>3, PruneWalk DEF E
<1> QED BY <1>3, <1>4

\* rmPackage keeps the graph, and the walks of the other packages.
LEMMA RmPackageGraph ==
    ASSUME NEW t, Sound(t), Navigable(t), GraphOK(t), NEW p
    PROVE  LET u == RmPackage(t, p)
           IN  GraphOK(u) /\ (Regenerable(t) => Regenerable(u))
<1> DEFINE u == RmPackage(t, p)
<1>1. /\ u.operatorbundle = t.operatorbundle
      /\ u.deprecated = t.deprecated
      /\ SubTable(u.channel, t.channel)
      /\ SubTable(u.channel_entry, t.channel_entry)
      /\ DOMAIN u.channel = {k \in DOMAIN t.channel : k[2] # p}
      /\ DOMAIN u.channel_entry =
            {i \in DOMAIN t.channel_entry : t.channel_entry[i].package # p}
  BY RmPackageLemma
<1>2. u.properties = t.properties
  BY RmPackageLemma
<1> HIDE DEF u
<1>3. SubTable(u.operatorbundle, t.operatorbundle)
  BY <1>1 DEF SubTable
<1>4. GraphOK(u) /\ (Regenerable(t) => Regenerable(u))
  BY <1>1, <1>2, <1>3, PackageGone
<1> QED BY <1>4 DEF u

\* So does the first transaction of RemovePackage.
LEMMA WithoutPackageGraph ==
    ASSUME NEW t, Sound(t), GraphOK(t), NEW p
    PROVE  LET u == WithoutPackage(t, p)
           IN  GraphOK(u) /\ (Regenerable(t) => Regenerable(u))
<1> DEFINE u == WithoutPackage(t, p)
           S == CSVNames(t, p)
<1>1. /\ u.deprecated = t.deprecated
      /\ \A r \in t.properties : r.bundle \notin S => r \in u.properties
      /\ \A n \in S : PkgOf[n] = p
      /\ SubTable(u.operatorbundle, t.operatorbundle)
      /\ SubTable(u.channel, t.channel)
      /\ SubTable(u.channel_entry, t.channel_entry)
      /\ DOMAIN u.operatorbundle = DOMAIN t.operatorbundle \ S
      /\ DOMAIN u.channel = {k \in DOMAIN t.channel : k[2] # p}
      /\ DOMAIN u.channel_entry =
            {i \in DOMAIN t.channel_entry : t.channel_entry[i].package # p}
  BY WithoutPackageRows
<1> HIDE DEF u, S
<1>2. /\ \A n \in DOMAIN t.operatorbundle :
            PkgOf[n] # p => n \in DOMAIN u.operatorbundle
      /\ \A r \in t.properties :
            r.bundle \in DOMAIN u.operatorbundle => r \in u.properties
  BY <1>1
<1>3. GraphOK(u) /\ (Regenerable(t) => Regenerable(u))
  BY <1>1, <1>2, PackageGone
<1> QED BY <1>3 DEF u

\* rmStrandedBundles keeps the graph and every walk: what is on a walk has an
\* entry.
LEMMA StrandedGraph ==
    ASSUME NEW t, Sound(t), Navigable(t), GraphOK(t)
    PROVE  LET u == DeleteBundles(t, Stranded(t))
           IN  GraphOK(u) /\ (Regenerable(t) => Regenerable(u))
<1> DEFINE u == DeleteBundles(t, Stranded(t))
           E == t.channel_entry
<1>1. /\ u.deprecated = t.deprecated
      /\ \A r \in t.properties : r.bundle \notin Stranded(t) => r \in u.properties
      /\ SubTable(u.operatorbundle, t.operatorbundle)
      /\ SubTable(u.channel, t.channel)
      /\ SubTable(u.channel_entry, t.channel_entry)
      /\ DOMAIN u.operatorbundle = DOMAIN t.operatorbundle \ Stranded(t)
      /\ DOMAIN u.channel = DOMAIN t.channel
      /\ DOMAIN u.channel_entry = DOMAIN t.channel_entry
  BY StrandedLemma
<1> HIDE DEF u, E
<1>2. \A i \in DOMAIN E : E[i].bundle \in DOMAIN t.operatorbundle =>
                              E[i].bundle \in DOMAIN u.operatorbundle
  BY <1>1 DEF Stranded, E
<1>3. \A r \in t.properties :
          r.bundle \in DOMAIN u.operatorbundle => r \in u.properties
  BY <1>1
<1>4. GraphOK(u)
  BY <1>1, <1>2, <1>3, PruneGraph DEF E
<1>5. ASSUME Regenerable(t) PROVE Regenerable(u)
  <2> SUFFICES ASSUME u.deprecated = {}, NEW k \in DOMAIN u.channel
               PROVE  WalkedAll(u, k)
    BY DEF Regenerable
  <2>1. WalkedAll(t, k)
    BY <1>1, <1>5 DEF Regenerable
  <2> QED BY <2>1, <1>1, <1>2, PruneWalk DEF E
<1> QED BY <1>4, <1>5 DEF u

-----------------------------------------------------------------------------
(***************************************************************************)
(* Deprecation                                                             *)
(***************************************************************************)

\* Deleting channels keeps the graph: an edge stays in its channel.
LEMMA DeleteChannelsGraph ==
    ASSUME NEW t, IsDatabase(t), GraphOK(t), NEW K
    PROVE  GraphOK(DeleteChannels(t, K))
<1> DEFINE u == DeleteChannels(t, K)
           E == t.channel_entry
<1>1. /\ u.operatorbundle = t.operatorbundle
      /\ u.deprecated = t.deprecated
      /\ u.properties = t.properties
      /\ SubTable(u.channel, t.channel)
      /\ SubTable(u.channel_entry, t.channel_entry)
      /\ DOMAIN u.channel_entry = {i \in DOMAIN E : ChannelOf(E[i]) \notin K}
  BY DeleteChannelsLemma DEF SameBut
<1> HIDE DEF u
<1>2. \A i \in DOMAIN u.channel_entry :
          E[i].replaces # 0 /\ E[i].replaces \in DOMAIN E =>
              E[i].replaces \in DOMAIN u.channel_entry
  BY <1>1 DEF GraphOK, EdgesOK, IsEdge
<1> HIDE DEF E
<1>3. SubTable(u.operatorbundle, t.operatorbundle)
  BY <1>1 DEF SubTable
<1> QED BY <1>1, <1>2, <1>3, PruneGraph DEF E, u

\* rmBundle for the bundles of S keeps the graph when entries of S are replaced
\* by entries of S only.
LEMMA RmBundlesGraph ==
    ASSUME NEW t, IsDatabase(t), GraphOK(t), NEW S,
           \A i \in DOMAIN t.channel_entry :
              LET e == t.channel_entry[i]
              IN  e.replaces # 0 /\ t.channel_entry[e.replaces].bundle \in S
                     => e.bundle \in S
    PROVE  GraphOK(RmBundles(t, S))
<1> DEFINE u == RmBundles(t, S)
           E == t.channel_entry
           K == HeadedBy(t, S)
<1>1. /\ u.deprecated = t.deprecated
      /\ \A r \in t.properties : r.bundle \notin S => r \in u.properties
      /\ SubTable(u.operatorbundle, t.operatorbundle)
      /\ SubTable(u.channel, t.channel)
      /\ SubTable(u.channel_entry, t.channel_entry)
      /\ DOMAIN u.operatorbundle = DOMAIN t.operatorbundle \ S
      /\ DOMAIN u.channel_entry =
            {i \in DOMAIN E : ChannelOf(E[i]) \notin K /\ E[i].bundle \notin S}
  BY RmBundlesLemma
<1> HIDE DEF u, K
<1>2. \A i \in DOMAIN u.channel_entry :
          E[i].replaces # 0 /\ E[i].replaces \in DOMAIN E =>
              E[i].replaces \in DOMAIN u.channel_entry
  <2> SUFFICES ASSUME NEW i \in DOMAIN u.channel_entry, E[i].replaces # 0,
                      E[i].replaces \in DOMAIN E
               PROVE  E[i].replaces \in DOMAIN u.channel_entry
    OBVIOUS
  <2>1. i \in DOMAIN E /\ ChannelOf(E[i]) \notin K /\ E[i].bundle \notin S
    BY <1>1
  <2>2. ChannelOf(E[E[i].replaces]) = ChannelOf(E[i])
    BY <2>1 DEF GraphOK, EdgesOK, IsEdge
  <2> QED BY <2>1, <2>2, <1>1
<1>3. \A i \in DOMAIN u.channel_entry :
          E[i].bundle \in DOMAIN t.operatorbundle =>
              E[i].bundle \in DOMAIN u.operatorbundle
  BY <1>1
<1>4. \A r \in t.properties :
          r.bundle \in DOMAIN u.operatorbundle => r \in u.properties
  BY <1>1
<1> HIDE DEF E
<1> QED BY <1>1, <1>2, <1>3, <1>4, PruneGraph DEF E, u

\* The UPDATE of rmChannelEntry keeps the graph, leaves no edge to an entry of
\* S, and changes nothing else.
LEMMA UnlinkGraph ==
    ASSUME NEW t, IsDatabase(t), GraphOK(t), NEW S
    PROVE  LET u == UnlinkEntriesOf(t, S)
               E == t.channel_entry
               F == u.channel_entry
           IN  /\ IsDatabase(u)
               /\ GraphOK(u)
               /\ SameBut(t, u, {"channel_entry"})
               /\ DOMAIN F = DOMAIN E
               /\ \A i \in DOMAIN F :
                     /\ F[i].bundle = E[i].bundle
                     /\ ChannelOf(F[i]) = ChannelOf(E[i])
                     /\ F[i].replaces # 0 =>
                           /\ F[i].replaces = E[i].replaces
                           /\ F[F[i].replaces].bundle \notin S
<1> DEFINE E == t.channel_entry
           F == [i \in DOMAIN E |->
                    IF E[i].replaces \in DOMAIN E /\ E[E[i].replaces].bundle \in S
                    THEN [E[i] EXCEPT !.replaces = 0] ELSE E[i]]
           u == UnlinkEntriesOf(t, S)
<1>1. u = [operatorbundle |-> t.operatorbundle, package |-> t.package,
           channel |-> t.channel, channel_entry |-> F,
           properties |-> t.properties, deprecated |-> t.deprecated]
  <2>1. u = [t EXCEPT !.channel_entry = F]
    BY Zenon DEF UnlinkEntriesOf
  <2> HIDE DEF u, F, E
  <2> QED BY <2>1 DEF IsDatabase
<1>2. /\ DOMAIN F = DOMAIN E
      /\ DOMAIN E \subseteq Nat \ {0}
      /\ \A i \in DOMAIN E :
            /\ F[i] \in EntryRow
            /\ F[i].channel = E[i].channel
            /\ F[i].package = E[i].package
            /\ F[i].bundle = E[i].bundle
            /\ F[i].depth = E[i].depth
            /\ F[i].replaces = 0 \/ F[i].replaces = E[i].replaces
            /\ E[i].replaces \in DOMAIN E /\ E[E[i].replaces].bundle \in S =>
                  F[i].replaces = 0
  <2>1. DOMAIN F = DOMAIN E /\ DOMAIN E \subseteq Nat \ {0}
    BY DEF IsDatabase, IsTable
  <2>2. ASSUME NEW i \in DOMAIN E
        PROVE  /\ F[i] \in EntryRow
               /\ F[i].channel = E[i].channel
               /\ F[i].package = E[i].package
               /\ F[i].bundle = E[i].bundle
               /\ F[i].depth = E[i].depth
               /\ F[i].replaces = 0 \/ F[i].replaces = E[i].replaces
               /\ E[i].replaces \in DOMAIN E /\ E[E[i].replaces].bundle \in S =>
                     F[i].replaces = 0
    <3> DEFINE e == E[i]
               drop == e.replaces \in DOMAIN E /\ E[e.replaces].bundle \in S
    <3>1. e \in EntryRow
      BY DEF IsDatabase, IsTable
    <3>2. F[i] = IF drop THEN [e EXCEPT !.replaces = 0] ELSE e
      OBVIOUS
    <3> HIDE DEF F, e, drop
    <3>3. /\ F[i] \in EntryRow
          /\ F[i].channel = e.channel /\ F[i].package = e.package
          /\ F[i].bundle = e.bundle /\ F[i].depth = e.depth
          /\ F[i].replaces = 0 \/ F[i].replaces = e.replaces
          /\ drop => F[i].replaces = 0
      BY <3>1, <3>2 DEF EntryRow
    <3> QED BY <3>3 DEF e, drop
  <2> QED BY ZenonT(30), <2>1, <2>2
<1>3. F \in [DOMAIN F -> EntryRow]
  BY Zenon, <1>2
<1> HIDE DEF F, u
<1>4. IsDatabase(u) /\ SameBut(t, u, {"channel_entry"})
  BY <1>1, <1>2, <1>3 DEF IsDatabase, IsTable, SameBut
<1>5. \A i \in DOMAIN E : ChannelOf(F[i]) = ChannelOf(E[i])
  BY <1>2 DEF ChannelOf
<1>6. ASSUME NEW i \in DOMAIN E, F[i].replaces # 0
      PROVE  /\ F[i].replaces = E[i].replaces
             /\ F[i].replaces \in DOMAIN E
             /\ F[F[i].replaces].bundle \notin S
             /\ IsEdge(u, F[i], F[F[i].replaces])
  <2> DEFINE j == E[i].replaces
  <2>1. F[i].replaces = j /\ j # 0
    BY <1>2, <1>6
  <2>2. j \in DOMAIN E /\ IsEdge(t, E[i], E[j])
    BY <2>1 DEF GraphOK, EdgesOK
  <2>3. E[j].bundle \notin S
    BY <2>1, <2>2, <1>2, <1>6
  <2> HIDE DEF j
  <2>4. IsEdge(t, F[i], F[j])
    BY <2>2, <1>2, <1>5 DEF IsEdge
  <2>5. IsEdge(u, F[i], F[j])
    <3>1. u.operatorbundle = t.operatorbundle /\ u.deprecated = t.deprecated
      BY <1>1
    <3> QED BY Zenon, <2>4, <3>1, SameIsEdge
  <2> QED BY <2>1, <2>2, <2>3, <2>5, <1>2 DEF j
<1>7. EdgesOK(u)
  BY <1>1, <1>2, <1>6 DEF EdgesOK
<1>8. DeprecationOK(u)
  BY <1>1 DEF GraphOK, DeprecationOK, Mark
<1> QED BY <1>1, <1>2, <1>4, <1>5, <1>6, <1>7, <1>8 DEF GraphOK, u

\* The tail of a bundle holds its successors.
LEMMA TailHasSuccessors ==
    ASSUME NEW t, IsDatabase(t), NEW n
    PROVE  Successors(t, n) \subseteq TailOf(t, n)
<1>1. Successors(t, n) \subseteq Names
  <2> SUFFICES ASSUME n \in DOMAIN t.operatorbundle
               PROVE  Successors(t, n) \subseteq Names
    BY DEF Successors
  <2>1. t.operatorbundle[n] \in BundleRow
    BY DEF IsDatabase, IsTable
  <2> QED BY <2>1 DEF Successors, BundleRow
<1> QED BY <1>1 DEF TailOf

\* What DeprecateBundle deletes leaves a graph in which n can be deprecated: n
\* heads no channel, and none of its entries replaces another.
LEMMA TruncatedGraph ==
    ASSUME NEW t, IsDatabase(t), GraphOK(t), NEW n
    PROVE  LET u == Truncated(t, n)
           IN  /\ IsDatabase(u)
               /\ GraphOK(u)
               /\ SubTable(u.operatorbundle, t.operatorbundle)
               /\ \A k \in DOMAIN u.channel : u.channel[k] # n
               /\ \A i \in DOMAIN u.channel_entry :
                     u.channel_entry[i].bundle = n =>
                        u.channel_entry[i].replaces = 0
<1> DEFINE S == TailOf(t, n)
           a == UnlinkEntriesOf(t, S)
           b == DeleteChannels(a, HeadedBy(a, S))
           c == RmBundles(b, S)
           u == DeleteChannels(c, HeadedBy(c, {n}))
           E == t.channel_entry
<1>1. u = Truncated(t, n)
  BY DEF Truncated
<1>2. Successors(t, n) \subseteq S
  BY TailHasSuccessors
<1> HIDE DEF S
<1>3. /\ IsDatabase(a) /\ GraphOK(a)
      /\ a.operatorbundle = t.operatorbundle
      /\ DOMAIN a.channel_entry = DOMAIN E
      /\ \A i \in DOMAIN E :
            /\ a.channel_entry[i].bundle = E[i].bundle
            /\ a.channel_entry[i].replaces # 0 =>
                  /\ a.channel_entry[i].replaces = E[i].replaces
                  /\ a.channel_entry[a.channel_entry[i].replaces].bundle \notin S
  BY UnlinkGraph DEF SameBut
<1> HIDE DEF a
<1>4. ASSUME NEW i \in DOMAIN a.channel_entry, a.channel_entry[i].bundle = n
      PROVE  a.channel_entry[i].replaces = 0
  <2> SUFFICES ASSUME a.channel_entry[i].replaces # 0 PROVE FALSE
    OBVIOUS
  <2>1. a.channel_entry[a.channel_entry[i].replaces].bundle \in Successors(a, n)
    BY <1>3, <1>4 DEF GraphOK, EdgesOK, IsEdge
  <2>2. Successors(a, n) = Successors(t, n)
    BY <1>3 DEF Successors
  <2> QED BY <2>1, <2>2, <1>2, <1>3
<1>5. /\ IsDatabase(b) /\ GraphOK(b)
      /\ b.operatorbundle = a.operatorbundle
      /\ SubTable(b.channel_entry, a.channel_entry)
  BY <1>3, DeleteChannelsLemma, DeleteChannelsGraph DEF SameBut
<1> HIDE DEF b
<1>6. \A i \in DOMAIN b.channel_entry :
          LET e == b.channel_entry[i]
          IN  e.replaces # 0 /\ b.channel_entry[e.replaces].bundle \in S
                 => e.bundle \in S
  <2> SUFFICES ASSUME NEW i \in DOMAIN b.channel_entry,
                      b.channel_entry[i].replaces # 0
               PROVE  b.channel_entry[b.channel_entry[i].replaces].bundle \notin S
    OBVIOUS
  <2>1. b.channel_entry[i].replaces \in DOMAIN b.channel_entry
    BY <1>5 DEF GraphOK, EdgesOK
  <2> QED BY <2>1, <1>3, <1>5 DEF SubTable
<1>7. /\ IsDatabase(c) /\ GraphOK(c)
      /\ SubTable(c.operatorbundle, b.operatorbundle)
      /\ SubTable(c.channel_entry, b.channel_entry)
  BY <1>5, <1>6, RmBundlesLemma, RmBundlesGraph
<1> HIDE DEF c
<1>8. /\ IsDatabase(u) /\ GraphOK(u)
      /\ u.operatorbundle = c.operatorbundle
      /\ SubTable(u.channel_entry, c.channel_entry)
      /\ SubTable(u.channel, c.channel)
      /\ DOMAIN u.channel = DOMAIN c.channel \ HeadedBy(c, {n})
  BY <1>7, DeleteChannelsLemma, DeleteChannelsGraph DEF SameBut
<1> HIDE DEF u
<1>9. \A k \in DOMAIN u.channel : u.channel[k] # n
  BY <1>8 DEF HeadedBy, SubTable
<1>10. SubTable(u.channel_entry, a.channel_entry)
  BY <1>5, <1>7, <1>8, SubTableTransitive
<1>11. \A i \in DOMAIN u.channel_entry :
          u.channel_entry[i].bundle = n => u.channel_entry[i].replaces = 0
  BY <1>4, <1>10 DEF SubTable
<1>12. SubTable(u.operatorbundle, t.operatorbundle)
  BY <1>3, <1>5, <1>7, <1>8
<1> QED BY <1>1, <1>8, <1>9, <1>11, <1>12

\* DeprecateBundle keeps the graph.
LEMMA DeprecateGraph ==
    ASSUME NEW t, IsDatabase(t), GraphOK(t), NEW n \in DOMAIN t.operatorbundle
    PROVE  LET u == MarkDeprecated(Truncated(t, n), n, t.operatorbundle[n].keyed)
           IN  GraphOK(u) /\ n \in u.deprecated
<1> DEFINE c == Truncated(t, n)
           keyed == t.operatorbundle[n].keyed
           r == [type |-> "olm.deprecated", bundle |-> n, keyed |-> keyed]
           u == MarkDeprecated(c, n, keyed)
<1>1. /\ IsDatabase(c)
      /\ GraphOK(c)
      /\ SubTable(c.operatorbundle, t.operatorbundle)
      /\ \A k \in DOMAIN c.channel : c.channel[k] # n
      /\ \A i \in DOMAIN c.channel_entry :
            c.channel_entry[i].bundle = n => c.channel_entry[i].replaces = 0
  BY TruncatedGraph
<1> HIDE DEF c
<1>2. u = [operatorbundle |-> c.operatorbundle, package |-> c.package,
           channel |-> c.channel, channel_entry |-> c.channel_entry,
           properties |-> c.properties \cup {r},
           deprecated |-> c.deprecated \cup {n}]
  <2> DEFINE v == InsertProperty(c, "olm.deprecated", n, keyed)
  <2>1. v = [operatorbundle |-> c.operatorbundle, package |-> c.package,
             channel |-> c.channel, channel_entry |-> c.channel_entry,
             properties |-> c.properties \cup {r}, deprecated |-> c.deprecated]
    <3>1. IsDatabase(c)
      BY <1>1
    <3> HIDE DEF keyed
    <3>2. v = [c EXCEPT !.properties = @ \cup {r}]
      BY DEF InsertProperty
    <3> HIDE DEF r, v
    <3> QED BY <3>1, <3>2 DEF IsDatabase
  <2>2. u = [v EXCEPT !.deprecated = @ \cup {n}]
    BY DEF MarkDeprecated
  <2> HIDE DEF v, u, r
  <2> QED BY <2>1, <2>2
<1> HIDE DEF u
<1>3. EdgesOK(u)
  <2> SUFFICES ASSUME NEW i \in DOMAIN c.channel_entry,
                      c.channel_entry[i].replaces # 0
               PROVE  LET e == c.channel_entry[i]
                      IN  /\ e.replaces \in DOMAIN c.channel_entry
                          /\ IsEdge(u, e, c.channel_entry[e.replaces])
    BY ZenonT(30), <1>2 DEF EdgesOK
  <2> DEFINE e == c.channel_entry[i]
             f == c.channel_entry[e.replaces]
  <2>1. e.replaces \in DOMAIN c.channel_entry /\ IsEdge(c, e, f)
    BY <1>1 DEF GraphOK, EdgesOK
  <2>2. e.bundle # n
    BY <1>1
  <2> HIDE DEF e, f
  <2>3. IsEdge(u, e, f)
    BY <2>1, <2>2, <1>2 DEF IsEdge, Successors
  <2> QED BY <2>1, <2>3 DEF e, f
<1>4. DeprecationOK(u)
  <2>1. \A k \in DOMAIN u.channel : u.channel[k] \notin u.deprecated
    BY <1>1, <1>2 DEF GraphOK, DeprecationOK
  <2>2. ASSUME NEW x \in DOMAIN u.operatorbundle \cap u.deprecated
        PROVE  Mark(u, x) \in u.properties
    <3>1. CASE x = n
      BY <3>1, <1>1, <1>2 DEF Mark, SubTable
    <3>2. CASE x # n
      <4>1. Mark(c, x) \in c.properties /\ Mark(u, x) = Mark(c, x)
        BY <3>2, <1>1, <1>2 DEF GraphOK, DeprecationOK, Mark
      <4> QED BY <4>1, <1>2
    <3> QED BY <3>1, <3>2
  <2> QED BY <2>1, <2>2 DEF DeprecationOK
<1> QED BY <1>2, <1>3, <1>4 DEF GraphOK, u, c

-----------------------------------------------------------------------------
(***************************************************************************)
(* Inserts and updates                                                     *)
(***************************************************************************)

\* An entry that replaces nothing, or another entry as it may, keeps the graph.
LEMMA InsertEntryGraph ==
    ASSUME NEW t, IsDatabase(t), BoundedIDs(t), GraphOK(t), NEW e \in EntryRow,
           \/ e.replaces = 0
           \/ /\ e.replaces \in DOMAIN t.channel_entry
              /\ IsEdge(t, e, t.channel_entry[e.replaces])
    PROVE  GraphOK(InsertEntry(t, e))
<1> DEFINE u == InsertEntry(t, e) n == NextID(t)
           F == u.channel_entry
<1>1. /\ SameBut(t, u, {"channel_entry"})
      /\ n \notin DOMAIN t.channel_entry
      /\ DOMAIN F = DOMAIN t.channel_entry \cup {n}
      /\ F[n] = e
      /\ \A i \in DOMAIN t.channel_entry : F[i] = t.channel_entry[i]
  BY InsertEntryLemma
<1> HIDE DEF u, n
<1>2. \A x, y : IsEdge(u, x, y) <=> IsEdge(t, x, y)
  <2>1. u.operatorbundle = t.operatorbundle /\ u.deprecated = t.deprecated
    BY <1>1 DEF SameBut
  <2> QED BY <2>1, SameIsEdge
<1>3. ASSUME NEW i \in DOMAIN F, F[i].replaces # 0
      PROVE  F[i].replaces \in DOMAIN F /\ IsEdge(u, F[i], F[F[i].replaces])
  <2>1. CASE i = n
    BY <2>1, <1>1, <1>2, <1>3
  <2>2. CASE i \in DOMAIN t.channel_entry
    BY <2>2, <1>1, <1>2, <1>3 DEF GraphOK, EdgesOK
  <2> QED BY <2>1, <2>2, <1>1
<1>4. DeprecationOK(u)
  BY <1>1 DEF GraphOK, DeprecationOK, SameBut, Mark
<1> QED BY <1>3, <1>4 DEF GraphOK, EdgesOK, u

\* addReplaces writes the replaces of one entry and nothing else.
LEMMA SetReplacesRows ==
    ASSUME NEW t, IsDatabase(t),
           NEW i \in DOMAIN t.channel_entry, NEW j
    PROVE  LET E == t.channel_entry
               F == SetReplaces(t, i, j).channel_entry
           IN  /\ DOMAIN F = DOMAIN E
               /\ F[i].bundle = E[i].bundle /\ F[i].depth = E[i].depth
               /\ F[i].channel = E[i].channel /\ F[i].package = E[i].package
               /\ F[i].replaces = j
               /\ \A h \in DOMAIN E : h # i => F[h] = E[h]
<1> DEFINE E == t.channel_entry
           F == [E EXCEPT ![i].replaces = j]
<1>1. SetReplaces(t, i, j).channel_entry = F
  <2>1. SetReplaces(t, i, j) = [t EXCEPT !.channel_entry = F]
    BY Zenon DEF SetReplaces
  <2> HIDE DEF F
  <2> QED BY <2>1 DEF IsDatabase
<1>2. /\ DOMAIN F = DOMAIN E
      /\ F[i].bundle = E[i].bundle /\ F[i].depth = E[i].depth
      /\ F[i].channel = E[i].channel /\ F[i].package = E[i].package
      /\ F[i].replaces = j
      /\ \A h \in DOMAIN E : h # i => F[h] = E[h]
  BY DEF IsDatabase, IsTable, EntryRow
<1> HIDE DEF F
<1> QED BY Zenon, <1>1, <1>2

\* addReplaces keeps the graph when nothing but entries above it, of bundles
\* that are not deprecated, replaces the entry that is linked.
LEMMA SetReplacesGraph ==
    ASSUME NEW t, IsDatabase(t), GraphOK(t),
           NEW i \in DOMAIN t.channel_entry, NEW j \in DOMAIN t.channel_entry,
           i # j, IsEdge(t, t.channel_entry[i], t.channel_entry[j]),
           \A h \in DOMAIN t.channel_entry :
              t.channel_entry[h].replaces = i =>
                 /\ t.channel_entry[h].depth < t.channel_entry[i].depth
                 /\ t.channel_entry[h].bundle \notin t.deprecated
    PROVE  GraphOK(SetReplaces(t, i, j))
<1> DEFINE u == SetReplaces(t, i, j)
           E == t.channel_entry
           F == [E EXCEPT ![i].replaces = j]
<1>1. u = [operatorbundle |-> t.operatorbundle, package |-> t.package,
           channel |-> t.channel, channel_entry |-> F,
           properties |-> t.properties, deprecated |-> t.deprecated]
  <2>1. u = [t EXCEPT !.channel_entry = F]
    BY Zenon DEF SetReplaces
  <2> HIDE DEF u, F
  <2> QED BY <2>1 DEF IsDatabase
<1>2. /\ DOMAIN F = DOMAIN E
      /\ F[i].bundle = E[i].bundle /\ F[i].depth = E[i].depth
      /\ F[i].channel = E[i].channel /\ F[i].package = E[i].package
      /\ F[i].replaces = j
      /\ \A h \in DOMAIN E : h # i => F[h] = E[h]
  BY DEF IsDatabase, IsTable, EntryRow
<1>3. \A h \in DOMAIN E :
          ChannelOf(F[h]) = ChannelOf(E[h]) /\ F[h].bundle = E[h].bundle
  BY <1>2 DEF ChannelOf
<1> HIDE DEF F, u
<1>4. ASSUME NEW h \in DOMAIN E, F[h].replaces # 0
      PROVE  F[h].replaces \in DOMAIN E /\ IsEdge(u, F[h], F[F[h].replaces])
  <2>1. \A x, y : IsEdge(u, x, y) <=> IsEdge(t, x, y)
    <3>1. u.operatorbundle = t.operatorbundle /\ u.deprecated = t.deprecated
      BY <1>1
    <3> QED BY Zenon, <3>1, SameIsEdge
  <2>2. CASE h = i
    <3>1. F[h].replaces = j /\ F[j] = E[j]
      BY <2>2, <1>2
    <3>2. IsEdge(t, F[i], E[j])
      BY <1>2, <1>3 DEF IsEdge
    <3> QED BY <3>1, <3>2, <2>1, <2>2
  <2>3. CASE h # i
    <3>1. F[h] = E[h] /\ E[h].replaces # 0
      BY <2>3, <1>2, <1>4
    <3>2. E[h].replaces \in DOMAIN E /\ IsEdge(t, E[h], E[E[h].replaces])
      BY <3>1 DEF GraphOK, EdgesOK
    <3>3. CASE E[h].replaces # i
      BY <3>1, <3>2, <3>3, <2>1, <1>2
    <3>4. CASE E[h].replaces = i
      <4>1. E[h].depth < E[i].depth /\ E[h].bundle \notin t.deprecated
        BY <3>4
      <4>2. E[h].depth \in Nat /\ E[i].depth \in Nat
        BY DEF IsDatabase, IsTable, EntryRow
      <4>3. IsEdge(t, E[h], F[i])
        BY <3>2, <3>4, <4>1, <4>2, <1>2, <1>3 DEF IsEdge
      <4> QED BY <3>1, <3>2, <3>4, <4>3, <2>1
    <3> QED BY <3>3, <3>4
  <2> QED BY <2>2, <2>3
<1>5. EdgesOK(u)
  BY <1>1, <1>2, <1>4 DEF EdgesOK
<1>6. DeprecationOK(u)
  BY <1>1 DEF GraphOK, DeprecationOK, Mark
<1> QED BY Zenon, <1>5, <1>6 DEF GraphOK, u

\* Databases with the same bundles up to their content, channels and entries,
\* and no fewer properties, have the same graph.
LEMMA SameEdges ==
    ASSUME NEW t, GraphOK(t), NEW u,
           DOMAIN u.operatorbundle = DOMAIN t.operatorbundle,
           \A n \in DOMAIN t.operatorbundle :
              /\ u.operatorbundle[n].replaces = t.operatorbundle[n].replaces
              /\ u.operatorbundle[n].skips = t.operatorbundle[n].skips
              /\ u.operatorbundle[n].keyed = t.operatorbundle[n].keyed,
           u.channel = t.channel, u.channel_entry = t.channel_entry,
           u.deprecated = t.deprecated, t.properties \subseteq u.properties
    PROVE  GraphOK(u) /\ (Regenerable(t) => Regenerable(u))
<1>1. ASSUME NEW n PROVE Successors(u, n) = Successors(t, n)
  <2>1. CASE n \in DOMAIN t.operatorbundle
    BY <2>1 DEF Successors
  <2>2. CASE n \notin DOMAIN t.operatorbundle
    BY <2>2 DEF Successors
  <2> QED BY <2>1, <2>2
<1>2. \A x, y : IsEdge(t, x, y) => IsEdge(u, x, y)
  BY <1>1 DEF IsEdge
<1>3. GraphOK(u)
  BY <1>2 DEF GraphOK, EdgesOK, DeprecationOK, Mark
<1>4. \A k : WalkedAll(t, k) => WalkedAll(u, k)
  BY DEF WalkedAll, IsWalk, InChannel
<1> QED BY <1>3, <1>4 DEF Regenerable

\* ClearNonHeadBundles keeps the graph and every walk.
LEMMA ClearedGraph ==
    ASSUME NEW t, Sound(t), GraphOK(t)
    PROVE  GraphOK(Cleared(t)) /\ (Regenerable(t) => Regenerable(Cleared(t)))
<1> DEFINE B == t.operatorbundle
           C == [n \in DOMAIN B |->
                    IF B[n].path # NULL /\ HeadedBy(t, {n}) = {}
                    THEN [B[n] EXCEPT !.content = FALSE] ELSE B[n]]
           u == Cleared(t)
<1>1. u = [operatorbundle |-> C, package |-> t.package,
           channel |-> t.channel, channel_entry |-> t.channel_entry,
           properties |-> t.properties, deprecated |-> t.deprecated]
  <2>1. u = [t EXCEPT !.operatorbundle = C]
    BY Zenon DEF Cleared
  <2> HIDE DEF u, C, B
  <2> QED BY <2>1 DEF Sound, IsDatabase
<1>2. /\ DOMAIN C = DOMAIN B
      /\ \A n \in DOMAIN B :
            /\ C[n].replaces = B[n].replaces
            /\ C[n].skips = B[n].skips
            /\ C[n].keyed = B[n].keyed
  BY Zenon DEF Sound, IsDatabase, IsTable, BundleRow
<1> HIDE DEF C, u
<1> QED BY <1>1, <1>2, SameEdges DEF u

\* addOperatorBundle keeps the graph and every walk: the name is new, so no
\* edge or walk depends on what its row says.
LEMMA WithBundleGraph ==
    ASSUME NEW t, IsDatabase(t), GraphOK(t), NEW b \in BundleImages,
           ~ Refused(t, b)
    PROVE  LET u == WithBundle(t, b)
           IN  GraphOK(u) /\ (Regenerable(t) => Regenerable(u))
<1> DEFINE u == WithBundle(t, b)
<1>1. /\ u.channel = t.channel /\ u.channel_entry = t.channel_entry
      /\ u.deprecated = t.deprecated
      /\ t.properties \subseteq u.properties
      /\ b.name \in t.deprecated => Mark(u, b.name) \in u.properties
  BY ZenonT(30), WithBundleRows DEF SameBut
<1>2. /\ DOMAIN u.operatorbundle = DOMAIN t.operatorbundle \cup {b.name}
      /\ b.name \notin DOMAIN t.operatorbundle
      /\ \A n \in DOMAIN t.operatorbundle : u.operatorbundle[n] = t.operatorbundle[n]
  <2> DEFINE row == [path |-> b.path, keyed |-> b.keyed, content |-> TRUE,
                     replaces |-> b.replaces, skips |-> b.skips]
  <2>1. u.operatorbundle = With(t.operatorbundle, b.name, row)
    BY WithBundleRows
  <2> HIDE DEF u, row
  <2> QED BY <2>1 DEF With, Refused
<1> HIDE DEF u
<1>3. ASSUME NEW x, NEW y, IsEdge(t, x, y) PROVE IsEdge(u, x, y)
  <2>1. y.bundle \in Successors(t, x.bundle)
    BY <1>3 DEF IsEdge
  <2>2. y.bundle \in Successors(u, x.bundle)
    BY <2>1, <1>2, SuccessorsRow
  <2> QED BY <2>2, <1>1, <1>3 DEF IsEdge
<1>4. EdgesOK(u)
  BY <1>1, <1>3 DEF GraphOK, EdgesOK
<1>5. DeprecationOK(u)
  <2> SUFFICES ASSUME NEW n \in DOMAIN u.operatorbundle \cap u.deprecated
               PROVE  Mark(u, n) \in u.properties
    BY <1>1 DEF GraphOK, DeprecationOK
  <2>1. CASE n = b.name
    BY <2>1, <1>1
  <2>2. CASE n \in DOMAIN t.operatorbundle
    <3>1. Mark(t, n) \in t.properties /\ Mark(u, n) = Mark(t, n)
      BY <2>2, <1>1, <1>2 DEF GraphOK, DeprecationOK, Mark
    <3> QED BY <3>1, <1>1
  <2> QED BY <2>1, <2>2, <1>2
<1>6. ASSUME NEW k, WalkedAll(t, k) PROVE WalkedAll(u, k)
  <2>1. PICK V \in SUBSET DOMAIN t.operatorbundle : IsWalk(t, k, V)
    BY <1>6 DEF WalkedAll
  <2>2. IsWalk(u, k, V)
    BY <2>1, <1>1, <1>2 DEF IsWalk, InChannel
  <2> QED BY <2>2, <1>2 DEF WalkedAll
<1> QED BY <1>1, <1>4, <1>5, <1>6 DEF GraphOK, Regenerable, u

-----------------------------------------------------------------------------
(***************************************************************************)
(* The walk                                                                *)
(***************************************************************************)

\* The channels still to be walked, and the one being walked.
Ahead(v) == {<<c, v.pkg>> : c \in v.todo}

Current(v) == <<v.ch, v.pkg>>

\* Until an error is recorded, the channels that are done have been walked to
\* their ends. "inside" says that one is being walked.
WalksDone(t, v, inside) ==
    ~ v.errs /\ t.deprecated = {} =>
        \A k \in DOMAIN t.channel :
            \/ k \in Ahead(v)
            \/ inside /\ k = Current(v)
            \/ WalkedAll(t, k)

\* The entry currentID is the current bundle's. Nothing is linked from it yet,
\* and what it is linked from is above it and not deprecated.
CursorEntry(t, v) ==
    LET E == t.channel_entry
    IN  /\ v.curID \in DOMAIN E
        /\ E[v.curID].bundle = v.cur /\ E[v.curID].replaces = 0
        /\ ChannelOf(E[v.curID]) = Current(v)
        /\ E[v.curID].depth < v.depth
        /\ \A i \in DOMAIN E : E[i].replaces = v.curID =>
              E[i].depth < E[v.curID].depth /\ E[i].bundle \notin t.deprecated

\* replaceCycle holds the path from the head to the current bundle.
CursorPath(t, v) ==
    /\ t.channel[Current(v)] \in v.seen /\ v.cur \in v.seen
    /\ \A x \in v.seen :
          /\ x \in DOMAIN t.operatorbundle
          /\ x # v.cur => t.operatorbundle[x].replaces \in v.seen
          /\ InChannel(t, Current(v), x)

\* The skips that are left are skips of the current bundle.
CursorRest(t, v) ==
    \A i \in DOMAIN v.rest : v.rest[i] \in Successors(t, v.cur)

\* The inductive invariant, on top of IInv.
GraphInv ==
    /\ GraphOK(db)
    /\ GraphOK(tx)
    /\ Regenerable(db)
    /\ pc \in {"channel", "bundle", "skips"} => WalksDone(tx, w, pc # "channel")
    /\ pc \in {"bundle", "skips"} => CursorEntry(tx, w) /\ CursorPath(tx, w)
    /\ pc = "skips" => CursorRest(tx, w)

\* Adding entries and properties keeps the walks that are done.
LEMMA ExtendsWalked ==
    ASSUME NEW t, NEW u, Extends(t, u)
    PROVE  /\ \A k, x : InChannel(t, k, x) => InChannel(u, k, x)
           /\ \A k : WalkedAll(t, k) => WalkedAll(u, k)
           /\ \A v, inside : WalksDone(t, v, inside) => WalksDone(u, v, inside)
           /\ \A v : CursorPath(t, v) => CursorPath(u, v)
           /\ \A v : CursorRest(t, v) => CursorRest(u, v)
<1>1. /\ u.operatorbundle = t.operatorbundle /\ u.channel = t.channel
      /\ u.deprecated = t.deprecated
  BY DEF Extends, SameBut
<1>2. \A k, x : InChannel(t, k, x) => InChannel(u, k, x)
  BY DEF Extends, InChannel
<1>3. \A k : WalkedAll(t, k) => WalkedAll(u, k)
  BY <1>1, <1>2 DEF WalkedAll, IsWalk
<1>4. \A v, inside : WalksDone(t, v, inside) => WalksDone(u, v, inside)
  BY <1>1, <1>3 DEF WalksDone
<1>5. \A v : CursorPath(t, v) => CursorPath(u, v)
  BY <1>1, <1>2 DEF CursorPath
<1>6. \A v : CursorRest(t, v) => CursorRest(u, v)
  BY Zenon, <1>1, SameSuccessors DEF CursorRest
<1> QED BY <1>2, <1>3, <1>4, <1>5, <1>6

\* An entry that does not replace the current one leaves it as it is.
LEMMA InsertEntryCursor ==
    ASSUME NEW t, IsDatabase(t), BoundedIDs(t), NEW v, CursorEntry(t, v),
           NEW e \in EntryRow, e.replaces # v.curID
    PROVE  CursorEntry(InsertEntry(t, e), v)
<1> DEFINE u == InsertEntry(t, e) n == NextID(t)
<1>1. /\ SameBut(t, u, {"channel_entry"})
      /\ n \notin DOMAIN t.channel_entry
      /\ DOMAIN u.channel_entry = DOMAIN t.channel_entry \cup {n}
      /\ u.channel_entry[n] = e
      /\ \A i \in DOMAIN t.channel_entry : u.channel_entry[i] = t.channel_entry[i]
  BY InsertEntryLemma
<1>2. u.deprecated = t.deprecated
  BY <1>1 DEF SameBut
<1> HIDE DEF u, n
<1>3. CursorEntry(u, v)
  BY <1>1, <1>2 DEF CursorEntry
<1> QED BY <1>3 DEF u

\* An entry that was just added is replaced by nothing.
LEMMA FreshEntry ==
    ASSUME NEW t, IsDatabase(t), BoundedIDs(t), GraphOK(t), NEW e \in EntryRow,
           e.replaces = 0
    PROVE  \A i \in DOMAIN InsertEntry(t, e).channel_entry :
              InsertEntry(t, e).channel_entry[i].replaces # NextID(t)
<1> DEFINE u == InsertEntry(t, e) n == NextID(t)
<1>1. /\ n \notin DOMAIN t.channel_entry /\ n # 0
      /\ DOMAIN u.channel_entry = DOMAIN t.channel_entry \cup {n}
      /\ u.channel_entry[n] = e
      /\ \A i \in DOMAIN t.channel_entry : u.channel_entry[i] = t.channel_entry[i]
  BY InsertEntryLemma
<1> HIDE DEF u, n
<1> QED BY <1>1 DEF GraphOK, EdgesOK, u, n

\* A call that commits such a database keeps the invariant.
LEMMA ReturnGraph ==
    ASSUME NEW t, GraphOK(t), Regenerable(t), Return(t)
    PROVE  GraphInv'
BY DEF Return, GraphInv

\* So does a call that rolls back.
LEMMA RollbackGraph ==
    ASSUME GraphInv, Return(db)
    PROVE  GraphInv'
BY ReturnGraph DEF GraphInv

\* So does tx.Commit.
LEMMA CommitGraph ==
    ASSUME GraphInv, NEW t, GraphOK(t), Regenerable(t), Commit(t)
    PROVE  GraphInv'
BY ReturnGraph, RollbackGraph DEF Commit

\* A new index satisfies the invariant.
LEMMA InitGraph == Init => GraphInv
<1> SUFFICES ASSUME Init PROVE GraphInv
  OBVIOUS
<1>1. GraphOK(EmptyTables) /\ Regenerable(EmptyTables)
  BY DEF EmptyTables, GraphOK, EdgesOK, DeprecationOK, Regenerable
<1> QED BY <1>1 DEF Init, GraphInv

\* rmPackage and the first loop of addPackageChannels keep the graph: channels
\* with a deprecated head are elided, and the others are still to be walked.
LEMMA BeginGraph ==
    ASSUME GraphInv, NEW t, Sound(t), Navigable(t), GraphOK(t), Regenerable(t),
           NEW m \in Manifests, BeginPackageChannels(t, m)
    PROVE  GraphInv'
<1> DEFINE p == m.package
           r == RmPackage(t, p)
           u == WithPackage(r, m)
           A == AddedChannels(t, m)
<1>1. /\ Sound(r) /\ r.operatorbundle = t.operatorbundle
      /\ r.deprecated = t.deprecated
      /\ DOMAIN r.channel = {k \in DOMAIN t.channel : k[2] # p}
  BY ZenonT(30), RmPackageLemma
<1>2. GraphOK(r) /\ Regenerable(r)
  BY RmPackageGraph
<1> HIDE DEF r
<1>3. AddedChannels(r, m) = A
  BY <1>1 DEF AddedChannels, LiveChannels
<1>4. \A c \in A : m.heads[c] \notin r.deprecated
  BY <1>1 DEF AddedChannels, LiveChannels
<1> HIDE DEF A
<1>5. /\ SameBut(r, u, {"package", "channel"})
      /\ DOMAIN u.channel = DOMAIN r.channel \cup (A \X {p})
      /\ \A k \in DOMAIN r.channel : u.channel[k] = r.channel[k]
      /\ \A c \in A : u.channel[<<c, p>>] = m.heads[c]
  <2>1. \A k \in DOMAIN r.channel : k[2] # p
    BY <1>1
  <2>2. OwnHeads(m) /\ Sound(r)
    BY <1>1, OwnInputs
  <2>3. PackageAdded(r, m, u)
    BY ZenonT(30), <2>1, <2>2, WithPackageRows
  <2> HIDE DEF u
  <2> QED BY ZenonT(30), <1>3, <2>3 DEF PackageAdded
<1> HIDE DEF u
<1>6. /\ u.operatorbundle = r.operatorbundle /\ u.channel_entry = r.channel_entry
      /\ u.properties = r.properties /\ u.deprecated = r.deprecated
  BY Zenon, <1>5 DEF SameBut
<1>7. \A x, y : IsEdge(r, x, y) => IsEdge(u, x, y)
  BY <1>6 DEF IsEdge, Successors
<1>8. EdgesOK(u)
  BY <1>2, <1>6, <1>7 DEF GraphOK, EdgesOK
<1>9. DeprecationOK(u)
  <2>1. ASSUME NEW k \in DOMAIN u.channel PROVE u.channel[k] \notin u.deprecated
    <3>1. CASE k \in DOMAIN r.channel
      BY <3>1, <1>2, <1>5, <1>6 DEF GraphOK, DeprecationOK
    <3>2. CASE k \in A \X {p}
      <4>1. PICK c \in A : k = <<c, p>>
        BY <3>2
      <4> QED BY <4>1, <1>4, <1>5, <1>6
    <3> QED BY <3>1, <3>2, <1>5
  <2>2. \A n \in DOMAIN u.operatorbundle \cap u.deprecated : Mark(u, n) \in u.properties
    BY <1>2, <1>6 DEF GraphOK, DeprecationOK, Mark
  <2> QED BY <2>1, <2>2 DEF DeprecationOK
<1>10. /\ tx' = u /\ db' = db /\ pc' = "channel"
       /\ w'.pkg = p /\ w'.todo = A
  BY DEF BeginPackageChannels, u, r, A, NoWalk
<1>11. ASSUME NEW k \in DOMAIN u.channel, u.deprecated = {}
       PROVE  k \in Ahead(w') \/ WalkedAll(u, k)
  <2>1. CASE k \in DOMAIN r.channel
    <3>1. WalkedAll(r, k)
      BY <2>1, <1>2, <1>6, <1>11 DEF Regenerable
    <3> QED BY <2>1, <3>1, <1>5, <1>6 DEF WalkedAll, IsWalk, InChannel
  <2>2. CASE k \in A \X {p}
    BY <2>2, <1>10 DEF Ahead
  <2> QED BY <2>1, <2>2, <1>5
<1>12. WalksDone(tx', w', FALSE)
  BY <1>10, <1>11 DEF WalksDone
<1> QED BY ZenonT(30), <1>8, <1>9, <1>10, <1>12 DEF GraphInv, GraphOK

\* The head entry of the next channel keeps the invariant: it is the current
\* entry, and the path is the head alone.
LEMMA NextChannelGraph ==
    ASSUME IInv, GraphInv, NextChannel
    PROVE  GraphInv'
<1>1. PICK c \in w.todo :
        LET head == tx.channel[<<c, w.pkg>>]
        IN  /\ tx' = InsertEntry(tx, [channel |-> c, package |-> w.pkg,
                                      bundle |-> head, replaces |-> 0,
                                      depth |-> 0])
            /\ w' = [w EXCEPT !.todo = @ \ {c}, !.ch = c, !.cur = head,
                              !.curID = NextID(tx), !.depth = 1,
                              !.seen = {head}]
  BY Zenon DEF NextChannel
<1> DEFINE k == <<c, w.pkg>>
           head == tx.channel[k]
           e == [channel |-> c, package |-> w.pkg, bundle |-> head,
                 replaces |-> 0, depth |-> 0]
           n == NextID(tx)
<1>2. /\ WalkOK(tx, w) /\ Sound(tx) /\ w \in Walk
      /\ pc' = "bundle" /\ db' = db
      /\ GraphOK(tx) /\ WalksDone(tx, w, FALSE)
  BY ZenonT(30) DEF NextChannel, IInv, TypeOK, GraphInv
<1>3. /\ k \in DOMAIN tx.channel /\ head \in Names /\ w.pkg \in Pkgs
      /\ c \in Chans /\ PkgOf[head] = w.pkg
      /\ head \in DOMAIN tx.operatorbundle
  BY <1>2 DEF WalkOK, Sound, IsDatabase, IsTable, OwnPackage, Walk
<1>4. e \in EntryRow /\ PkgOf[e.bundle] = e.package
  BY <1>3 DEF EntryRow
<1>5. tx' = InsertEntry(tx, e)
  BY <1>1
<1>6. /\ e.replaces = 0 /\ e.bundle = head /\ e.depth = 0 /\ ChannelOf(e) = k
  BY DEF ChannelOf
<1> HIDE DEF e
<1>7. /\ Extends(tx, tx') /\ n \in DOMAIN tx'.channel_entry
      /\ tx'.channel_entry[n] = e
  BY <1>2, <1>4, <1>5, AddEntryLemma
<1>8. GraphOK(tx')
  BY <1>2, <1>4, <1>5, <1>6, InsertEntryGraph DEF Sound
<1>9. \A i \in DOMAIN tx'.channel_entry : tx'.channel_entry[i].replaces # n
  BY <1>2, <1>4, <1>5, <1>6, FreshEntry DEF Sound
<1>10. w' = [w EXCEPT !.todo = w.todo \ {c}, !.ch = c, !.cur = head,
                      !.curID = n, !.depth = 1, !.seen = {head}]
  BY <1>1
<1>11. tx'.channel = tx.channel /\ tx'.operatorbundle = tx.operatorbundle
  BY <1>7 DEF Extends, SameBut
<1> HIDE DEF n, head, k
<1>12. /\ w'.pkg = w.pkg /\ w'.todo = w.todo \ {c} /\ w'.ch = c
       /\ w'.cur = head /\ w'.curID = n /\ w'.errs = w.errs
       /\ w'.depth = 1 /\ w'.seen = {head}
  BY Zenon, <1>2, <1>10 DEF Walk
<1>13. Current(w') = k
  BY <1>12 DEF Current, k
<1>14. CursorEntry(tx', w')
  BY <1>6, <1>7, <1>9, <1>12, <1>13 DEF CursorEntry
<1>15. CursorPath(tx', w')
  <2>1. InChannel(tx', k, head)
    BY <1>6, <1>7 DEF InChannel
  <2>2. tx'.channel[k] = head
    BY <1>11 DEF head
  <2> QED BY <2>1, <2>2, <1>3, <1>11, <1>12, <1>13 DEF CursorPath
<1>16. WalksDone(tx', w', TRUE)
  <2>1. WalksDone(tx', w, FALSE)
    BY ZenonT(30), <1>2, <1>7, ExtendsWalked
  <2>2. Ahead(w) \subseteq Ahead(w') \cup {k}
    BY <1>12 DEF Ahead, k
  <2> QED BY <2>1, <2>2, <1>12, <1>13 DEF WalksDone
<1> QED BY ZenonT(30), <1>2, <1>8, <1>14, <1>15, <1>16 DEF GraphInv

\* addPackageProperty keeps the invariant.
LEMMA VisitBundleGraph ==
    ASSUME IInv, GraphInv, VisitBundle
    PROVE  GraphInv'
<1> DEFINE row == tx.operatorbundle[w.cur]
<1>1. /\ pc = "bundle" /\ pc' = "skips" /\ db' = db
      /\ tx' = InsertProperty(tx, "olm.package", w.cur, row.keyed)
      /\ w' = [w EXCEPT !.rest = row.skips]
  BY DEF VisitBundle
<1>2. /\ CursorOK(tx, w) /\ w \in Walk /\ Sound(tx)
      /\ GraphOK(tx) /\ WalksDone(tx, w, TRUE)
      /\ CursorEntry(tx, w) /\ CursorPath(tx, w)
  BY ZenonT(30), <1>1 DEF IInv, TypeOK, GraphInv
<1>3. /\ w.cur \in Names /\ row \in BundleRow /\ row.keyed \in BOOLEAN
  BY <1>2 DEF CursorOK, Sound, IsDatabase, IsTable, BundleRow
<1>4. \A i \in DOMAIN row.skips : row.skips[i] \in Successors(tx, w.cur)
  BY <1>2 DEF CursorOK, Successors
<1> HIDE DEF row
<1>5. SameBut(tx, tx', {"properties"}) /\ tx.properties \subseteq tx'.properties
  <2>1. SameBut(tx, tx', {"properties"})
    BY <1>1, <1>2, <1>3, InsertPropertyLemma DEF Sound
  <2>2. tx'.properties = tx.properties \cup
           {[type |-> "olm.package", bundle |-> w.cur, keyed |-> row.keyed]}
    BY <1>1, <1>2 DEF InsertProperty, Sound, IsDatabase
  <2> QED BY <2>1, <2>2
<1>6. GraphOK(tx')
  BY <1>2, <1>5, SameEdges DEF SameBut
<1>7. Extends(tx, tx')
  BY <1>5 DEF Extends, SameBut
<1>8. /\ w'.rest = row.skips /\ w'.pkg = w.pkg
      /\ w'.todo = w.todo /\ w'.errs = w.errs /\ w'.ch = w.ch
      /\ w'.cur = w.cur /\ w'.curID = w.curID /\ w'.depth = w.depth
      /\ w'.seen = w.seen
  BY <1>1, <1>2, <1>3 DEF Walk
<1>9. Current(w') = Current(w) /\ Ahead(w') = Ahead(w)
  BY <1>8 DEF Current, Ahead
<1>10. CursorEntry(tx', w')
  BY ZenonT(30), <1>2, <1>5, <1>8, <1>9 DEF CursorEntry, SameBut
<1>11. CursorPath(tx', w') /\ WalksDone(tx', w', TRUE)
  <2>1. CursorPath(tx', w) /\ WalksDone(tx', w, TRUE)
    BY ZenonT(30), <1>2, <1>7, ExtendsWalked
  <2> QED BY <2>1, <1>8, <1>9 DEF CursorPath, WalksDone
<1>12. CursorRest(tx', w')
  <2>1. tx'.operatorbundle = tx.operatorbundle
    BY <1>5 DEF SameBut
  <2>2. \A n : Successors(tx', n) = Successors(tx, n)
    BY Zenon, <2>1, SameSuccessors
  <2> QED BY <2>2, <1>4, <1>8 DEF CursorRest
<1> QED BY ZenonT(30), <1>1, <1>2, <1>6, <1>10, <1>11, <1>12 DEF GraphInv

\* The two entries of a skipped bundle keep the invariant.
LEMMA AddSkipGraph ==
    ASSUME IInv, GraphInv, AddSkip
    PROVE  GraphInv'
<1> DEFINE e == Entry(Head(w.rest), w.depth, 0)
           u == InsertEntry(tx, e)
           n == NextID(tx)
           f == Entry(w.cur, w.depth, n)
<1>1. /\ pc = "skips" /\ pc' = "skips" /\ db' = db /\ w.rest # <<>>
      /\ tx' = InsertEntry(u, f)
      /\ w' = [w EXCEPT !.rest = Tail(w.rest), !.depth = w.depth + 1]
  BY DEF AddSkip
<1>2. /\ CursorOK(tx, w) /\ w \in Walk /\ Sound(tx) /\ WalkOK(tx, w)
      /\ GraphOK(tx) /\ WalksDone(tx, w, TRUE)
      /\ CursorEntry(tx, w) /\ CursorPath(tx, w) /\ CursorRest(tx, w)
  BY ZenonT(30), <1>1 DEF IInv, TypeOK, GraphInv
<1>3. /\ w.depth \in Nat /\ w.rest \in Seq(Names) /\ w.ch \in Chans
      /\ w.cur \in Names /\ PkgOf[w.cur] = w.pkg /\ w.pkg \in Pkgs
  BY <1>2 DEF Walk, CursorOK, Sound, IsDatabase, IsTable, WalkOK
<1>4. /\ Head(w.rest) \in Names /\ Tail(w.rest) \in Seq(Names)
      /\ PkgOf[Head(w.rest)] = w.pkg
      /\ Head(w.rest) \in Successors(tx, w.cur)
      /\ \A i \in DOMAIN Tail(w.rest) :
            Tail(w.rest)[i] \in Successors(tx, w.cur)
  BY <1>1, <1>2, <1>3 DEF CursorOK, CursorRest
<1>5. e \in EntryRow /\ PkgOf[e.bundle] = e.package /\ e.replaces = 0
      /\ e.depth = w.depth /\ e.bundle = Head(w.rest) /\ ChannelOf(e) = Current(w)
  BY <1>3, <1>4 DEF Entry, EntryRow, ChannelOf, Current
<1> HIDE DEF e
<1>6. /\ Sound(u) /\ Extends(tx, u) /\ n \in Nat \ {0}
      /\ n \in DOMAIN u.channel_entry /\ u.channel_entry[n] = e
  BY ZenonT(30), <1>2, <1>5, AddEntryLemma
<1>7. n \notin DOMAIN tx.channel_entry /\ SameBut(tx, u, {"channel_entry"})
  BY ZenonT(30), <1>2, <1>5, InsertEntryLemma DEF Sound
<1>8. GraphOK(u) /\ CursorEntry(u, w)
  <2>1. e.replaces # w.curID
    BY <1>2, <1>5 DEF CursorEntry, Sound, IsDatabase, IsTable
  <2> QED BY ZenonT(30), <2>1, <1>2, <1>5, InsertEntryGraph, InsertEntryCursor DEF Sound
<1> HIDE DEF u, n
<1>9. f \in EntryRow /\ PkgOf[f.bundle] = f.package /\ f.replaces = n
      /\ f.depth = w.depth /\ f.bundle = w.cur /\ ChannelOf(f) = Current(w)
  BY ZenonT(30), <1>3, <1>6 DEF Entry, EntryRow, ChannelOf, Current
<1> HIDE DEF f
<1>10. IsEdge(u, f, u.channel_entry[f.replaces])
  <2>1. Head(w.rest) \in Successors(u, w.cur)
    BY <1>4, <1>7, SameSuccessors DEF SameBut
  <2> QED BY ZenonT(30), <2>1, <1>5, <1>6, <1>9 DEF IsEdge
<1>11. f.replaces # w.curID /\ f.replaces \in DOMAIN u.channel_entry
  BY ZenonT(30), <1>2, <1>6, <1>7, <1>9 DEF CursorEntry
<1>12. GraphOK(tx') /\ CursorEntry(tx', w)
  <2>1. IsDatabase(u) /\ BoundedIDs(u)
    BY Zenon, <1>6 DEF Sound
  <2>2. GraphOK(InsertEntry(u, f))
    BY ZenonT(30), <2>1, <1>8, <1>9, <1>10, <1>11, InsertEntryGraph
  <2>3. CursorEntry(InsertEntry(u, f), w)
    BY ZenonT(30), <2>1, <1>8, <1>9, <1>11, InsertEntryCursor
  <2> QED BY Zenon, <2>2, <2>3, <1>1
<1>13. Extends(tx, tx')
  <2>1. Extends(u, tx')
    BY <1>1, <1>6, <1>9, AddEntryLemma
  <2> QED BY <2>1, <1>6, ExtendsTransitive
<1>14. /\ w'.rest = Tail(w.rest) /\ w'.pkg = w.pkg
       /\ w'.todo = w.todo /\ w'.errs = w.errs /\ w'.ch = w.ch
       /\ w'.cur = w.cur /\ w'.curID = w.curID /\ w'.depth = w.depth + 1
       /\ w'.seen = w.seen
  <2> DEFINE d == w.depth + 1
             s == Tail(w.rest)
  <2>1. w' = [w EXCEPT !.rest = s, !.depth = d]
    BY <1>1
  <2> HIDE DEF d, s
  <2>2. w'.rest = s /\ w'.depth = d
    BY Zenon, <2>1, <1>2 DEF Walk
  <2> QED BY <2>1, <2>2, <1>2 DEF Walk, s, d
<1>15. Current(w') = Current(w) /\ Ahead(w') = Ahead(w)
  BY <1>14 DEF Current, Ahead
<1>16. CursorEntry(tx', w')
  <2>1. tx'.channel_entry[w.curID].depth < w.depth
    BY <1>12 DEF CursorEntry
  <2>2. tx'.channel_entry[w.curID].depth < w.depth + 1
    <3>1. tx'.channel_entry[w.curID].depth \in Nat
      <4>1. Sound(tx')
        BY <1>1, <1>6, <1>9, AddEntryLemma
      <4> QED BY <4>1, <1>12 DEF CursorEntry, Sound, IsDatabase, IsTable, EntryRow
    <3> QED BY <2>1, <3>1, <1>3
  <2> QED BY <2>2, <1>12, <1>14, <1>15 DEF CursorEntry
<1>17. CursorPath(tx', w') /\ WalksDone(tx', w', TRUE)
  <2>1. CursorPath(tx', w) /\ WalksDone(tx', w, TRUE)
    BY ZenonT(30), <1>2, <1>13, ExtendsWalked
  <2> QED BY <2>1, <1>14, <1>15 DEF CursorPath, WalksDone
<1>18. CursorRest(tx', w')
  <2>1. Successors(tx', w.cur) = Successors(tx, w.cur)
    BY <1>13, SameSuccessors DEF Extends, SameBut
  <2> QED BY <2>1, <1>4, <1>14 DEF CursorRest
<1> QED BY ZenonT(30), <1>1, <1>2, <1>12, <1>16, <1>17, <1>18 DEF GraphInv

\* The end of a chain of replaces keeps the invariant: the path is all that a
\* walk of the channel meets.
LEMMA EndOfChainGraph ==
    ASSUME IInv, GraphInv, EndOfChain
    PROVE  GraphInv'
<1>1. /\ pc = "skips" /\ pc' = "channel" /\ db' = db /\ tx' = tx /\ w' = w
      /\ tx.operatorbundle[w.cur].replaces = NULL
  BY DEF EndOfChain, Replaced
<1>2. GraphOK(tx) /\ WalksDone(tx, w, TRUE) /\ CursorPath(tx, w)
  BY ZenonT(30), <1>1 DEF GraphInv
<1>3. WalkedAll(tx, Current(w))
  BY <1>1, <1>2 DEF CursorPath, WalkedAll, IsWalk
<1>4. WalksDone(tx, w, FALSE)
  BY <1>2, <1>3 DEF WalksDone
<1> QED BY ZenonT(30), <1>1, <1>2, <1>4 DEF GraphInv

\* A cycle of replaces keeps the invariant: the entry of the replaced bundle is
\* not linked.
LEMMA ReplacesCycleGraph ==
    ASSUME IInv, GraphInv, ReplacesCycle
    PROVE  GraphInv'
<1> DEFINE e == Entry(Replaced, w.depth, 0)
<1>1. /\ pc = "skips" /\ pc' = "channel" /\ db' = db
      /\ Replaced # NULL
      /\ tx' = InsertEntry(tx, e)
      /\ w' = [w EXCEPT !.errs = TRUE]
  BY DEF ReplacesCycle
<1>2. /\ w \in Walk /\ Sound(tx) /\ WalkOK(tx, w) /\ CursorOK(tx, w)
      /\ GraphOK(tx)
  BY <1>1 DEF IInv, TypeOK, GraphInv
<1>3. Replaced \in Names
  BY <1>1, ReplacedLemma
<1>4. e \in EntryRow /\ e.replaces = 0
  BY <1>2, <1>3 DEF Entry, EntryRow, WalkOK, CursorOK, Walk
<1> HIDE DEF e
<1>5. GraphOK(tx')
  BY <1>1, <1>2, <1>4, InsertEntryGraph DEF Sound
<1>6. w'.errs
  BY <1>1, <1>2 DEF Walk
<1>7. WalksDone(tx', w', FALSE)
  BY <1>6 DEF WalksDone
<1> QED BY ZenonT(30), <1>1, <1>5, <1>7 DEF GraphInv

\* Following replaces keeps the invariant: the current entry is linked to a new
\* one below it, which becomes the current one unless the walk stops.
LEMMA FollowReplacesGraph ==
    ASSUME IInv, GraphInv, FollowReplaces
    PROVE  GraphInv'
<1> DEFINE e == Entry(Replaced, w.depth, 0)
           u == InsertEntry(tx, e)
           n == NextID(tx)
           F == tx'.channel_entry
<1>1. /\ pc = "skips" /\ db' = db /\ Replaced # NULL
      /\ tx' = SetReplaces(u, w.curID, n)
  BY DEF FollowReplaces
<1>2. /\ w \in Walk /\ Sound(tx) /\ WalkOK(tx, w) /\ CursorOK(tx, w)
      /\ GraphOK(tx) /\ WalksDone(tx, w, TRUE)
      /\ CursorEntry(tx, w) /\ CursorPath(tx, w)
  BY ZenonT(30), <1>1 DEF IInv, TypeOK, GraphInv
<1>3. /\ Replaced \in Names /\ PkgOf[Replaced] = w.pkg
      /\ w.depth \in Nat /\ w.ch \in Chans /\ w.pkg \in Pkgs
  BY ZenonT(30), <1>1, <1>2, ReplacedLemma DEF WalkOK, CursorOK, Walk
<1>4. /\ e \in EntryRow /\ PkgOf[e.bundle] = e.package /\ e.replaces = 0
      /\ e.depth = w.depth /\ e.bundle = Replaced /\ ChannelOf(e) = Current(w)
  BY <1>3 DEF Entry, EntryRow, ChannelOf, Current
<1> HIDE DEF e
<1>5. /\ Sound(u) /\ Extends(tx, u) /\ n \in Nat \ {0}
      /\ n \in DOMAIN u.channel_entry /\ u.channel_entry[n] = e
  BY <1>2, <1>4, AddEntryLemma
<1>6. /\ n \notin DOMAIN tx.channel_entry /\ SameBut(tx, u, {"channel_entry"})
      /\ \A i \in DOMAIN u.channel_entry : u.channel_entry[i].replaces # n
  BY ZenonT(30), <1>2, <1>4, InsertEntryLemma, FreshEntry DEF Sound
<1>7. GraphOK(u) /\ CursorEntry(u, w)
  <2>1. e.replaces # w.curID
    BY <1>2, <1>4 DEF CursorEntry, Sound, IsDatabase, IsTable
  <2> QED BY ZenonT(30), <2>1, <1>2, <1>4, InsertEntryGraph, InsertEntryCursor DEF Sound
<1> HIDE DEF u, n
<1>8. /\ w.curID \in DOMAIN u.channel_entry /\ w.curID # n
      /\ u.channel_entry[w.curID].bundle = w.cur
      /\ ChannelOf(u.channel_entry[w.curID]) = Current(w)
      /\ u.channel_entry[w.curID].depth < w.depth
      /\ u.channel_entry[w.curID].replaces = 0
  BY ZenonT(30), <1>2, <1>6, <1>7 DEF CursorEntry
<1>9. IsEdge(u, u.channel_entry[w.curID], u.channel_entry[n])
  <2>1. Replaced \in Successors(u, w.cur)
    BY ZenonT(30), <1>1, <1>2, <1>6 DEF Replaced, CursorOK, SameBut, Successors
  <2> QED BY <2>1, <1>4, <1>5, <1>8 DEF IsEdge
<1>10. /\ GraphOK(tx')
       /\ DOMAIN F = DOMAIN u.channel_entry
       /\ F[w.curID].bundle = w.cur
       /\ F[w.curID].depth < w.depth
       /\ \A h \in DOMAIN u.channel_entry : h # w.curID => F[h] = u.channel_entry[h]
  <2>1. \A h \in DOMAIN u.channel_entry :
            u.channel_entry[h].replaces = w.curID =>
               /\ u.channel_entry[h].depth < u.channel_entry[w.curID].depth
               /\ u.channel_entry[h].bundle \notin u.deprecated
    BY <1>7 DEF CursorEntry
  <2>2. IsDatabase(u) /\ GraphOK(u) /\ n \in DOMAIN u.channel_entry
    BY <1>5, <1>7 DEF Sound
  <2>3. GraphOK(SetReplaces(u, w.curID, n))
    BY <2>1, <2>2, <1>8, <1>9, SetReplacesGraph
  <2>4. IsDatabase(u) /\ w.curID \in DOMAIN u.channel_entry
    BY <2>2, <1>8
  <2>5. /\ DOMAIN F = DOMAIN u.channel_entry
        /\ F[w.curID].bundle = u.channel_entry[w.curID].bundle
        /\ F[w.curID].depth = u.channel_entry[w.curID].depth
        /\ \A h \in DOMAIN u.channel_entry : h # w.curID => F[h] = u.channel_entry[h]
    BY <2>4, <1>1, SetReplacesRows
  <2> QED BY ZenonT(30), <2>3, <2>5, <1>1, <1>8
<1>11. Extends(tx, tx')
  <2>1. Extends(u, tx')
    BY <1>1, <1>5, <1>8, SetReplacesLemma
  <2> QED BY <2>1, <1>5, ExtendsTransitive
<1>12. tx'.deprecated = tx.deprecated
  BY <1>11 DEF Extends, SameBut
<1>13. CASE w.cur \in tx.deprecated /\ w' = w /\ pc' = "channel"
  <2>1. WalksDone(tx', w', FALSE)
    BY <1>12, <1>13 DEF WalksDone
  <2> QED BY ZenonT(30), <2>1, <1>1, <1>10, <1>13 DEF GraphInv
<1>14. CASE w' = [w EXCEPT !.errs = TRUE] /\ pc' = "channel"
  <2>1. w'.errs
    BY <1>2, <1>14 DEF Walk
  <2>2. WalksDone(tx', w', FALSE)
    BY <2>1 DEF WalksDone
  <2> QED BY ZenonT(30), <2>2, <1>1, <1>10, <1>14 DEF GraphInv
<1>15. CASE /\ w.cur \notin tx.deprecated
            /\ Replaced \in DOMAIN tx.operatorbundle
            /\ w' = [w EXCEPT !.cur = Replaced, !.curID = n,
                              !.depth = w.depth + 1,
                              !.seen = w.seen \cup {Replaced}]
            /\ pc' = "bundle"
  <2>1. /\ w'.pkg = w.pkg /\ w'.ch = w.ch
        /\ w'.todo = w.todo /\ w'.errs = w.errs
        /\ w'.cur = Replaced /\ w'.curID = n
        /\ w'.depth = w.depth + 1 /\ w'.seen = w.seen \cup {Replaced}
    <3> DEFINE d == w.depth + 1
               s == w.seen \cup {Replaced}
    <3>1. w' = [w EXCEPT !.cur = Replaced, !.curID = n, !.depth = d, !.seen = s]
      BY <1>15
    <3> HIDE DEF d, s
    <3> QED BY <3>1, <1>2 DEF Walk, d, s
  <2>2. Current(w') = Current(w) /\ Ahead(w') = Ahead(w)
    BY <2>1 DEF Current, Ahead
  <2>3. /\ n \in DOMAIN F /\ F[n] = e
        /\ \A i \in DOMAIN F : F[i].replaces = n => i = w.curID
    BY <1>5, <1>6, <1>8, <1>10
  <2>4. CursorEntry(tx', w')
    BY <2>1, <2>2, <2>3, <1>3, <1>4, <1>10, <1>12, <1>15 DEF CursorEntry
  <2>5. CursorPath(tx', w) /\ WalksDone(tx', w, TRUE)
    BY ZenonT(30), <1>2, <1>11, ExtendsWalked
  <2>6. InChannel(tx', Current(w), Replaced)
    BY <2>3, <1>4 DEF InChannel
  <2>7. tx'.operatorbundle = tx.operatorbundle
    BY <1>11 DEF Extends, SameBut
  <2>8. CursorPath(tx', w')
    <3>1. tx'.channel[Current(w')] \in w'.seen /\ w'.cur \in w'.seen
      BY <2>1, <2>2, <2>5 DEF CursorPath
    <3>2. ASSUME NEW x \in w'.seen
          PROVE  /\ x \in DOMAIN tx'.operatorbundle
                 /\ InChannel(tx', Current(w'), x)
      <4>1. CASE x = Replaced
        BY Zenon, <4>1, <2>2, <2>6, <2>7, <1>15
      <4>2. CASE x \in w.seen
        BY Zenon, <4>2, <2>2, <2>5 DEF CursorPath
      <4> QED BY <4>1, <4>2, <2>1
    <3>3. ASSUME NEW x \in w'.seen, x # w'.cur
          PROVE  tx'.operatorbundle[x].replaces \in w'.seen
      <4>1. x \in w.seen
        BY <2>1, <3>3
      <4>2. CASE x = w.cur
        <5>1. tx'.operatorbundle[x].replaces = Replaced
          BY Zenon, <4>2, <2>7 DEF Replaced
        <5> QED BY <5>1, <2>1
      <4>3. CASE x # w.cur
        BY <4>1, <4>3, <2>1, <2>5 DEF CursorPath
      <4> QED BY Zenon, <4>2, <4>3
    <3> QED BY Zenon, <3>1, <3>2, <3>3 DEF CursorPath
  <2>9. WalksDone(tx', w', TRUE)
    BY <2>1, <2>2, <2>5 DEF WalksDone
  <2> QED BY ZenonT(30), <2>4, <2>8, <2>9, <1>1, <1>10, <1>15 DEF GraphInv
<1> QED BY <1>13, <1>14, <1>15 DEF FollowReplaces, Moved, n

\* The end of the walk keeps the invariant: without errors every channel of the
\* transaction was walked to its end.
LEMMA EndPackageChannelsGraph ==
    ASSUME IInv, GraphInv, EndPackageChannels
    PROVE  GraphInv'
<1>1. pc = "channel" /\ w.todo = {} /\ WalksDone(tx, w, FALSE) /\ GraphOK(tx)
  BY ZenonT(30) DEF EndPackageChannels, GraphInv
<1>2. CASE w.errs
  BY <1>2, RollbackGraph DEF EndPackageChannels, Rollback
<1>3. CASE ~ w.errs
  <2>1. Regenerable(tx)
    BY <1>1, <1>3 DEF WalksDone, Regenerable, Ahead
  <2> QED BY <2>1, <1>1, <1>3, CommitGraph DEF EndPackageChannels
<1> QED BY <1>2, <1>3

\* RemovePackage keeps the invariant.
LEMMA RemoveGraph ==
    ASSUME IInv, GraphInv, NEW p, RemovePackage(p)
    PROVE  GraphInv'
<1> DEFINE t == WithoutPackage(db, p)
<1>1. GraphOK(t) /\ Regenerable(t)
  BY WithoutPackageGraph DEF IInv, GraphInv
<1>2. CASE DeferredForeignKeys(t)
  <2>1. db' = t /\ tx' = t /\ pc' = "strand"
    BY <1>2 DEF RemovePackage
  <2> HIDE DEF t
  <2> QED BY <2>1, <1>1 DEF GraphInv
<1>3. CASE ~ DeferredForeignKeys(t)
  BY <1>3, RollbackGraph DEF RemovePackage, Rollback
<1> QED BY <1>2, <1>3

\* RemoveStrandedBundles keeps the invariant.
LEMMA StrandGraph ==
    ASSUME IInv, GraphInv, Commit(DeleteBundles(db, Stranded(db)))
    PROVE  GraphInv'
<1>1. /\ GraphOK(DeleteBundles(db, Stranded(db)))
      /\ Regenerable(DeleteBundles(db, Stranded(db)))
  BY ZenonT(30), StrandedGraph DEF IInv, GraphInv
<1> QED BY <1>1, CommitGraph

\* DeprecateBundle keeps the invariant.
LEMMA DeprecateBundleGraph ==
    ASSUME IInv, GraphInv, NEW path \in Paths, DeprecateBundle(path)
    PROVE  GraphInv'
<1>1. CASE Return(db)
  BY <1>1, RollbackGraph
<1>2. CASE \E n \in BundlesForImage(db, path) :
              Commit(MarkDeprecated(Truncated(db, n), n,
                                    db.operatorbundle[n].keyed))
  <2>1. PICK n \in BundlesForImage(db, path) :
            Commit(MarkDeprecated(Truncated(db, n), n,
                                  db.operatorbundle[n].keyed))
    BY <1>2
  <2> DEFINE u == MarkDeprecated(Truncated(db, n), n,
                                 db.operatorbundle[n].keyed)
  <2>2. n \in DOMAIN db.operatorbundle
    BY DEF BundlesForImage
  <2>3. GraphOK(u) /\ n \in u.deprecated
    BY ZenonT(30), <2>2, DeprecateGraph DEF IInv, TypeOK, GraphInv
  <2>4. Commit(u)
    BY <2>1
  <2> HIDE DEF u
  <2>5. Regenerable(u)
    BY <2>3 DEF Regenerable
  <2> QED BY <2>3, <2>4, <2>5, CommitGraph
<1> QED BY <1>1, <1>2, Zenon DEF DeprecateBundle, Rollback

\* AddOperatorBundle and AddBundlePackageChannels keep the invariant.
LEMMA AddBundleGraph ==
    ASSUME IInv, GraphInv, NEW b \in BundleImages
    PROVE  /\ AddOperatorBundle(b) => GraphInv'
           /\ \A m \in Manifests : AddBundlePackageChannels(b, m) => GraphInv'
<1> DEFINE t == WithBundle(db, b)
<1>1. Sound(t) /\ Navigable(t)
  BY WithBundleLemma, OwnInputs DEF IInv
<1>2. ~ Refused(db, b) => GraphOK(t) /\ Regenerable(t)
  BY ZenonT(30), WithBundleGraph DEF IInv, TypeOK, GraphInv
<1>3. ASSUME AddOperatorBundle(b)
      PROVE  GraphInv'
  <2>1. Return(db) \/ (~ Refused(db, b) /\ Commit(t))
    BY <1>3 DEF AddOperatorBundle, Rollback
  <2> HIDE DEF t
  <2> QED BY <2>1, <1>2, RollbackGraph, CommitGraph
<1>4. ASSUME NEW m \in Manifests, AddBundlePackageChannels(b, m)
      PROVE  GraphInv'
  <2>1. Return(db) \/ (~ Refused(db, b) /\ BeginPackageChannels(t, m))
    BY <1>4 DEF AddBundlePackageChannels, Rollback
  <2> HIDE DEF t
  <2> QED BY <2>1, <1>1, <1>2, RollbackGraph, BeginGraph
<1> QED BY <1>3, <1>4

\* Every step keeps the invariant.
LEMMA NextGraph ==
    ASSUME IInv, GraphInv, [Next]_vars
    PROVE  GraphInv'
<1>1. ASSUME NEW m \in Manifests, AddPackageChannels(m)
      PROVE  GraphInv'
  BY ZenonT(30), <1>1, BeginGraph DEF AddPackageChannels, IInv, GraphInv
<1>2. CASE RemoveStrandedBundles \/ Strand
  BY <1>2, StrandGraph DEF RemoveStrandedBundles, Strand
<1>3. CASE ClearNonHeadBundles
  <2>1. GraphOK(Cleared(db)) /\ Regenerable(Cleared(db))
    BY ClearedGraph DEF IInv, GraphInv
  <2> QED BY <1>3, <2>1, CommitGraph DEF ClearNonHeadBundles
<1>4. CASE Crash
  BY <1>4, RollbackGraph DEF Crash
<1>5. CASE UNCHANGED vars
  BY <1>5 DEF vars, GraphInv
<1>6. CASE \/ NextChannel \/ VisitBundle \/ AddSkip \/ EndOfChain
           \/ ReplacesCycle \/ FollowReplaces \/ EndPackageChannels
  BY <1>6, NextChannelGraph, VisitBundleGraph, AddSkipGraph, EndOfChainGraph,
     ReplacesCycleGraph, FollowReplacesGraph, EndPackageChannelsGraph
<1> QED BY <1>1, <1>2, <1>3, <1>4, <1>5, <1>6, AddBundleGraph, RemoveGraph,
           DeprecateBundleGraph
        DEF Next, Step

\* The upgrade graph is right in every reachable state: of the committed index
\* and of the open transaction.
THEOREM GraphInvariant == Spec => []GraphInv
<1>1. IInv /\ GraphInv /\ [Next]_vars => GraphInv'
  BY NextGraph
<1> QED BY <1>1, InitGraph, InductiveInvariant, PTL DEF Spec

\* For any bundles and manifests, and any order of calls, failures and crashes,
\* an edge of a committed index stays in its channel, and is one that a bundle
\* of the index declares in replaces or skips.
THEOREM EdgesAlwaysDeclared == Spec => []EdgesDeclared
<1>1. GraphInv => EdgesDeclared
  BY ZenonT(30) DEF GraphInv, GraphOK, EdgesOK, IsEdge, EdgesDeclared
<1> QED BY <1>1, GraphInvariant, PTL

\* Following replaces in a committed index always ends, whatever cycles the
\* bundles declare.
THEOREM EdgesAlwaysDescend == Spec => []EdgesDescend
<1>1. GraphInv => EdgesDescend
  BY ZenonT(30) DEF GraphInv, GraphOK, EdgesOK, IsEdge, EdgesDescend
<1> QED BY <1>1, GraphInvariant, PTL

\* In a committed index a deprecated bundle heads no channel, and nothing is
\* linked below what it replaces.
THEOREM DeprecationTruncates == Spec => []DeprecatedTruncates
<1>1. GraphInv => DeprecatedTruncates
  BY ZenonT(30) DEF GraphInv, GraphOK, EdgesOK, IsEdge, DeprecationOK, DeprecatedTruncates
<1> QED BY <1>1, GraphInvariant, PTL

\* A bundle with a record in "deprecated" has its olm.deprecated property
\* whenever it is in a committed index.
THEOREM DeprecationMarks == Spec => []DeprecatedMarked
<1>1. GraphInv => DeprecatedMarked
  <2> SUFFICES ASSUME GraphInv, NEW n \in DOMAIN db.operatorbundle \cap db.deprecated
               PROVE  \E r \in db.properties :
                        /\ r.type = "olm.deprecated"
                        /\ r.bundle = n
                        /\ r.keyed = db.operatorbundle[n].keyed
    BY DEF DeprecatedMarked
  <2>1. Mark(db, n) \in db.properties
    BY DEF GraphInv, GraphOK, DeprecationOK
  <2> QED BY <2>1 DEF Mark
<1> QED BY <1>1, GraphInvariant, PTL

\* Until a bundle is deprecated, the bundles that the walk of a channel needs
\* are all in the committed index.
THEOREM AlwaysRegenerable == Spec => []RegenerableUntilDeprecated
<1>1. ASSUME IInv, GraphInv PROVE RegenerableUntilDeprecated
  <2> SUFFICES ASSUME db.deprecated = {}, NEW k \in DOMAIN db.channel
               PROVE  Walked(db, db.channel[k]) \subseteq DOMAIN db.operatorbundle
    BY DEF RegenerableUntilDeprecated
  <2>1. PICK V \in SUBSET DOMAIN db.operatorbundle : IsWalk(db, k, V)
    BY <1>1 DEF GraphInv, Regenerable, WalkedAll
  <2>2. V \in SUBSET Names
    BY <1>1 DEF IInv, TypeOK, IsDatabase, IsTable
  <2>3. \A y \in (V \cap DOMAIN db.operatorbundle) \ db.deprecated :
            db.operatorbundle[y].replaces \in V \cup {NULL}
    BY <2>1 DEF IsWalk
  <2>4. db.channel[k] \in V
    BY <2>1 DEF IsWalk
  <2>5. Walked(db, db.channel[k]) \subseteq V
    BY <2>2, <2>3, <2>4 DEF Walked
  <2> QED BY <2>5
<1> QED BY <1>1, GraphInvariant, InductiveInvariant, PTL

-----------------------------------------------------------------------------
(***************************************************************************)
(* The bound of the walk: addPackageChannels never goes deeper into a      *)
(* channel than its bundles and their skips allow, whatever the bundles    *)
(* declare, so that the loop over "replaces" ends.                         *)
(*                                                                         *)
(* The walk keeps the bundles of its path in w.seen (CursorPath), and what *)
(* it adds to the depth is paid by the bundle it visits: one step and one  *)
(* for each of its skips.                                                  *)
(***************************************************************************)

\* What the argument uses about finite sets (CountingLemma).
Counting ==
    /\ \A T : \A S \in SUBSET T :
          IsFiniteSet(T) => IsFiniteSet(S) /\ Cardinality(S) <= Cardinality(T)
    /\ \A S : IsFiniteSet(S) => Cardinality(S) \in Nat
    /\ \A S, x : IsFiniteSet(S) =>
          /\ IsFiniteSet(S \cup {x})
          /\ x \notin S => Cardinality(S \cup {x}) = Cardinality(S) + 1
    /\ IsFiniteSet({}) /\ Cardinality({}) = 0
    /\ \A x : IsFiniteSet({x}) /\ Cardinality({x}) = 1

\* No list of skips is longer than M.
SkipsUpTo(t, M) ==
    \A n \in DOMAIN t.operatorbundle : Len(t.operatorbundle[n].skips) <= M

\* SQLite tables are finite.
Finite(t) ==
    /\ IsFiniteSet(DOMAIN t.operatorbundle)
    /\ \E M \in Nat : SkipsUpTo(t, M)

\* Every bundle on the path was worth at most its skips and one step more: what
\* is left of that is there for the skips that are left.
DepthOK(v, at, M, bundles) ==
    /\ v.depth <= (M + 1) * bundles
    /\ at = "bundle" => v.depth + M <= (M + 1) * Cardinality(v.seen)
    /\ at = "skips" => v.depth + Len(v.rest) <= (M + 1) * Cardinality(v.seen)

\* The inductive invariant, on top of IInv and GraphInv.
BoundInv ==
    /\ Finite(db)
    /\ Finite(tx)
    /\ pc \in {"idle", "strand"} => w.depth = 0
    /\ \A M \in Nat : SkipsUpTo(tx, M) =>
          DepthOK(w, pc, M, Cardinality(DOMAIN tx.operatorbundle))

\* Multiplication by M + 1.
LEMMA Times ==
    ASSUME NEW M \in Nat, NEW s \in Nat
    PROVE  /\ (M + 1) * s \in Nat
           /\ (M + 1) * (s + 1) = (M + 1) * s + (M + 1)
           /\ \A c \in Nat : s <= c => (M + 1) * s <= (M + 1) * c
           /\ (M + 1) * 1 = M + 1
<1>1. (M + 1) * s \in Nat /\ (M + 1) * 1 = M + 1
  OBVIOUS
<1>2. (M + 1) * (s + 1) = (M + 1) * s + (M + 1)
  OBVIOUS
<1>3. ASSUME NEW c \in Nat, s <= c PROVE (M + 1) * s <= (M + 1) * c
  <2>1. PICK d \in Nat : c = s + d
    <3>1. c - s \in Nat /\ c = s + (c - s)
      BY <1>3
    <3> QED BY <3>1
  <2>2. (M + 1) * (s + d) = (M + 1) * s + (M + 1) * d
    OBVIOUS
  <2>3. (M + 1) * d \in Nat
    OBVIOUS
  <2> QED BY <2>1, <2>2, <2>3, <1>1
<1> QED BY <1>1, <1>2, <1>3

\* Deleting bundles, and changes to other columns than skips, keep a table
\* finite.
LEMMA FiniteSub ==
    ASSUME Counting, NEW t, Finite(t), NEW u,
           DOMAIN u.operatorbundle \subseteq DOMAIN t.operatorbundle,
           \A n \in DOMAIN u.operatorbundle :
              u.operatorbundle[n].skips = t.operatorbundle[n].skips
    PROVE  Finite(u)
<1>1. IsFiniteSet(DOMAIN u.operatorbundle)
  BY ZenonT(30) DEF Finite, Counting
<1> QED BY <1>1 DEF Finite, SkipsUpTo

\* A bundle that is added keeps a table finite.
LEMMA FiniteWithBundle ==
    ASSUME Counting, NEW t, IsDatabase(t), Finite(t), NEW b \in BundleImages
    PROVE  Finite(WithBundle(t, b))
<1> DEFINE u == WithBundle(t, b)
           row == [path |-> b.path, keyed |-> b.keyed, content |-> TRUE,
                   replaces |-> b.replaces, skips |-> b.skips]
           s == Len(b.skips)
<1>1. u.operatorbundle = With(t.operatorbundle, b.name, row)
  BY WithBundleRows
<1>2. row.skips = b.skips /\ s \in Nat
  <2>1. b \in Bundle
    BY Zenon, InputAssumption
  <2>2. b.skips \in Seq(Names)
    BY Zenon, <2>1 DEF Bundle
  <2> QED BY <2>2
<1> HIDE DEF u, row
<1>3. /\ DOMAIN u.operatorbundle = DOMAIN t.operatorbundle \cup {b.name}
      /\ u.operatorbundle[b.name].skips = b.skips
      /\ \A n \in DOMAIN t.operatorbundle :
            n # b.name => u.operatorbundle[n] = t.operatorbundle[n]
  BY <1>1, <1>2 DEF With
<1>4. IsFiniteSet(DOMAIN u.operatorbundle)
  BY <1>3 DEF Finite, Counting
<1>5. PICK M \in Nat : SkipsUpTo(t, M)
  BY DEF Finite
<1>6. \A n \in DOMAIN t.operatorbundle : Len(t.operatorbundle[n].skips) \in Nat
  BY DEF IsDatabase, IsTable, BundleRow
<1> HIDE DEF s
<1>7. SkipsUpTo(u, M + s)
  <2> SUFFICES ASSUME NEW n \in DOMAIN u.operatorbundle
               PROVE  Len(u.operatorbundle[n].skips) <= M + s
    BY DEF SkipsUpTo
  <2>1. CASE n = b.name
    BY <2>1, <1>2, <1>3 DEF s
  <2>2. CASE n # b.name
    BY <2>2, <1>2, <1>3, <1>5, <1>6 DEF SkipsUpTo
  <2> QED BY <2>1, <2>2
<1>8. M + s \in Nat
  BY <1>2
<1> QED BY <1>4, <1>7, <1>8 DEF Finite, u

\* A call that returns, whatever it commits.
LEMMA ReturnBound ==
    ASSUME Counting, NEW t, Finite(t), Return(t)
    PROVE  BoundInv'
<1>1. db' = t /\ tx' = t /\ pc' = "idle" /\ w'.depth = 0
  BY DEF Return, NoWalk
<1>2. Cardinality(DOMAIN t.operatorbundle) \in Nat
  BY DEF Finite, Counting
<1>3. \A M \in Nat : 0 <= (M + 1) * Cardinality(DOMAIN t.operatorbundle)
  BY <1>2, Times
<1> QED BY <1>1, <1>3 DEF BoundInv, DepthOK

\* A call that rolls back.
LEMMA RollbackBound ==
    ASSUME Counting, BoundInv, Return(db)
    PROVE  BoundInv'
BY ReturnBound DEF BoundInv

\* A call that commits, if the deferred foreign key holds.
LEMMA CommitBound ==
    ASSUME Counting, BoundInv, NEW t, Finite(t), Commit(t)
    PROVE  BoundInv'
BY ReturnBound, RollbackBound DEF Commit

\* A new index.
LEMMA InitBound ==
    ASSUME Counting, Init
    PROVE  BoundInv
<1>1. DOMAIN EmptyTables.operatorbundle = {}
  BY DEF EmptyTables
<1>2. Finite(EmptyTables) /\ Cardinality(DOMAIN EmptyTables.operatorbundle) = 0
  BY <1>1 DEF Finite, SkipsUpTo, Counting
<1>3. \A M \in Nat : 0 <= (M + 1) * 0
  BY Times
<1> QED BY <1>2, <1>3 DEF Init, BoundInv, DepthOK, NoWalk

\* Starting the walk.
LEMMA BeginBound ==
    ASSUME Counting, BoundInv, NEW t, Sound(t), Navigable(t), Finite(t),
           NEW m \in Manifests, BeginPackageChannels(t, m)
    PROVE  BoundInv'
<1> DEFINE r == RmPackage(t, m.package)
           u == WithPackage(r, m)
<1>1. /\ Sound(r) /\ r.operatorbundle = t.operatorbundle
      /\ \A k \in DOMAIN r.channel : k[2] # m.package
  BY RmPackageLemma
<1> HIDE DEF r
<1>2. u.operatorbundle = r.operatorbundle
  <2>1. OwnHeads(m)
    BY OwnInputs
  <2>2. SameBut(r, u, {"package", "channel"})
    BY ZenonT(30), <2>1, <1>1, WithPackageLemma
  <2> HIDE DEF u
  <2> QED BY <2>2 DEF SameBut
<1> HIDE DEF u
<1>3. tx' = u /\ db' = db /\ pc' = "channel" /\ w'.depth = 0
  BY DEF BeginPackageChannels, u, r, NoWalk
<1>4. Finite(u)
  BY <1>1, <1>2, FiniteSub
<1>5. Cardinality(DOMAIN u.operatorbundle) \in Nat
  BY <1>4 DEF Finite, Counting
<1>6. \A M \in Nat : 0 <= (M + 1) * Cardinality(DOMAIN u.operatorbundle)
  BY <1>5, Times
<1> QED BY <1>3, <1>4, <1>6 DEF BoundInv, DepthOK

\* A step of the walk leaves the bundles as they are.
LEMMA WalkBoundStep ==
    ASSUME Counting, BoundInv, db' = db, tx'.operatorbundle = tx.operatorbundle,
           pc' \in {"channel", "bundle", "skips"},
           \A M \in Nat :
              SkipsUpTo(tx, M) /\ DepthOK(w, pc, M, Cardinality(DOMAIN tx.operatorbundle))
                 => DepthOK(w', pc', M, Cardinality(DOMAIN tx.operatorbundle))
    PROVE  BoundInv'
<1>1. Finite(tx')
  BY FiniteSub DEF BoundInv
<1>2. \A M \in Nat : SkipsUpTo(tx', M) => SkipsUpTo(tx, M)
  BY DEF SkipsUpTo
<1> QED BY <1>1, <1>2 DEF BoundInv

\* The path consists of bundles of the index.
LEMMA PathFinite ==
    ASSUME Counting, BoundInv, CursorPath(tx, w)
    PROVE  LET s == Cardinality(w.seen)
               c == Cardinality(DOMAIN tx.operatorbundle)
           IN  /\ IsFiniteSet(w.seen)
               /\ s \in Nat /\ c \in Nat /\ s <= c
<1>1. w.seen \subseteq DOMAIN tx.operatorbundle
  BY DEF CursorPath
<1>2. IsFiniteSet(DOMAIN tx.operatorbundle)
  BY DEF BoundInv, Finite
<1> QED BY <1>1, <1>2 DEF Counting

\* The entry of a head.
LEMMA NextChannelBound ==
    ASSUME Counting, IInv, GraphInv, BoundInv, NextChannel
    PROVE  BoundInv'
<1>1. GraphInv' /\ IInv'
  BY NextChannelGraph, NextChannelStep
<1>2. PICK c \in w.todo :
        LET head == tx.channel[<<c, w.pkg>>]
        IN  /\ tx' = InsertEntry(tx, [channel |-> c, package |-> w.pkg,
                                      bundle |-> head, replaces |-> 0,
                                      depth |-> 0])
            /\ w' = [w EXCEPT !.todo = @ \ {c}, !.ch = c, !.cur = head,
                              !.curID = NextID(tx), !.depth = 1,
                              !.seen = {head}]
  BY Zenon DEF NextChannel
<1>3. /\ pc' = "bundle" /\ db' = db /\ w \in Walk /\ IsDatabase(tx)
  BY DEF NextChannel, IInv, TypeOK
<1> DEFINE head == tx.channel[<<c, w.pkg>>]
           B == DOMAIN tx.operatorbundle
<1>4. w'.depth = 1 /\ w'.seen = {head}
  BY Zenon, <1>2, <1>3 DEF Walk
<1>5. tx'.operatorbundle = tx.operatorbundle
  BY <1>2, <1>3 DEF InsertEntry, IsDatabase
<1>6. head \in B
  <2>1. CursorPath(tx', w')
    BY <1>1, <1>3 DEF GraphInv
  <2>2. head \in DOMAIN tx'.operatorbundle
    BY Zenon, <2>1, <1>4 DEF CursorPath
  <2> QED BY <2>2, <1>5
<1> HIDE DEF head
<1>7. Cardinality(w'.seen) = 1 /\ IsFiniteSet(w'.seen)
  BY ZenonT(30), <1>4 DEF Counting
<1>8. Cardinality(B) \in Nat /\ 1 <= Cardinality(B)
  <2>1. IsFiniteSet(B) /\ w'.seen \subseteq B
    BY <1>4, <1>6 DEF BoundInv, Finite
  <2> QED BY <2>1, <1>7 DEF Counting
<1> HIDE DEF B
<1>9. \A M \in Nat : DepthOK(w', pc', M, Cardinality(B))
  <2> SUFFICES ASSUME NEW M \in Nat PROVE DepthOK(w', pc', M, Cardinality(B))
    OBVIOUS
  <2>1. (M + 1) * 1 = M + 1 /\ (M + 1) * 1 <= (M + 1) * Cardinality(B)
        /\ (M + 1) * Cardinality(B) \in Nat
    BY <1>8, Times
  <2> QED BY <2>1, <1>3, <1>4, <1>7 DEF DepthOK
<1> QED BY <1>3, <1>5, <1>9, WalkBoundStep DEF B

\* The top of the loop: the skips of the current bundle are no more than M.
LEMMA VisitBundleBound ==
    ASSUME Counting, IInv, GraphInv, BoundInv, VisitBundle
    PROVE  BoundInv'
<1> DEFINE row == tx.operatorbundle[w.cur]
<1>1. /\ pc = "bundle" /\ pc' = "skips" /\ db' = db
      /\ tx' = InsertProperty(tx, "olm.package", w.cur, row.keyed)
      /\ w' = [w EXCEPT !.rest = row.skips]
  BY DEF VisitBundle
<1>2. CursorOK(tx, w) /\ w \in Walk /\ IsDatabase(tx) /\ CursorPath(tx, w)
  BY <1>1 DEF IInv, TypeOK, GraphInv
<1>3. tx'.operatorbundle = tx.operatorbundle
  BY <1>1, <1>2 DEF InsertProperty, IsDatabase
<1>4. w'.rest = row.skips /\ w'.depth = w.depth /\ w'.seen = w.seen
  BY Zenon, <1>1, <1>2 DEF Walk
<1>5. w.depth \in Nat /\ Len(row.skips) \in Nat
  BY <1>2 DEF Walk, CursorOK, IsDatabase, IsTable, BundleRow
<1>6. Cardinality(w.seen) \in Nat
  BY <1>2, PathFinite
<1>7. ASSUME NEW M \in Nat, NEW c, SkipsUpTo(tx, M), DepthOK(w, pc, M, c)
      PROVE  DepthOK(w', pc', M, c)
  <2>1. Len(row.skips) <= M
    BY <1>2, <1>7 DEF SkipsUpTo, CursorOK
  <2>2. (M + 1) * Cardinality(w.seen) \in Nat
    BY <1>6, Times
  <2> HIDE DEF row
  <2> QED BY <2>1, <2>2, <1>1, <1>4, <1>5, <1>7 DEF DepthOK
<1> QED BY <1>1, <1>3, <1>7, WalkBoundStep

\* A skipped bundle.
LEMMA AddSkipBound ==
    ASSUME Counting, IInv, GraphInv, BoundInv, AddSkip
    PROVE  BoundInv'
<1>1. /\ pc = "skips" /\ pc' = "skips" /\ db' = db /\ w.rest # <<>>
      /\ w' = [w EXCEPT !.rest = Tail(w.rest), !.depth = w.depth + 1]
  BY DEF AddSkip
<1>2. /\ w \in Walk /\ IsDatabase(tx) /\ CursorPath(tx, w)
  BY <1>1 DEF IInv, TypeOK, GraphInv
<1>3. tx'.operatorbundle = tx.operatorbundle
  BY <1>2 DEF AddSkip, InsertEntry, IsDatabase
<1>4. w'.rest = Tail(w.rest) /\ w'.depth = w.depth + 1 /\ w'.seen = w.seen
  <2> DEFINE d == w.depth + 1
             s == Tail(w.rest)
  <2>1. w' = [w EXCEPT !.rest = s, !.depth = d]
    BY <1>1
  <2> HIDE DEF d, s
  <2>2. w'.rest = s /\ w'.depth = d /\ w'.seen = w.seen
    BY Zenon, <2>1, <1>2 DEF Walk
  <2> QED BY <2>2 DEF s, d
<1>5. /\ w.depth \in Nat /\ Len(w.rest) \in Nat \ {0}
      /\ Len(Tail(w.rest)) = Len(w.rest) - 1
  BY <1>1, <1>2 DEF Walk
<1>6. ASSUME NEW M \in Nat,
             DepthOK(w, pc, M, Cardinality(DOMAIN tx.operatorbundle))
      PROVE  DepthOK(w', pc', M, Cardinality(DOMAIN tx.operatorbundle))
  <2> DEFINE s == Cardinality(w.seen)
             c == Cardinality(DOMAIN tx.operatorbundle)
  <2>1. s \in Nat /\ c \in Nat /\ s <= c
    BY <1>2, PathFinite
  <2> HIDE DEF s, c
  <2>2. /\ (M + 1) * s \in Nat /\ (M + 1) * c \in Nat
        /\ (M + 1) * s <= (M + 1) * c
    BY <2>1, Times
  <2>3. w.depth + Len(w.rest) <= (M + 1) * s
    BY <1>1, <1>6 DEF DepthOK, s
  <2>4. w.depth + 1 <= (M + 1) * c
    BY <2>2, <2>3, <1>5
  <2>5. w'.depth + Len(w'.rest) <= (M + 1) * s
    BY <2>2, <2>3, <1>4, <1>5
  <2> QED BY <2>4, <2>5, <1>1, <1>4 DEF DepthOK, s, c
<1> QED BY <1>1, <1>3, <1>6, WalkBoundStep

\* The end of a chain, a cycle, and a replaced bundle that is followed.
LEMMA LeaveBundleBound ==
    ASSUME Counting, IInv, GraphInv, BoundInv, EndOfChain \/ ReplacesCycle \/ FollowReplaces
    PROVE  BoundInv'
<1>1. pc = "skips" /\ db' = db /\ w.rest = <<>>
  BY DEF EndOfChain, ReplacesCycle, FollowReplaces
<1>2. /\ w \in Walk /\ IsDatabase(tx) /\ CursorPath(tx, w)
  BY <1>1 DEF IInv, TypeOK, GraphInv
<1>3. tx'.operatorbundle = tx.operatorbundle
  BY ZenonT(30), <1>2 DEF EndOfChain, ReplacesCycle, FollowReplaces, InsertEntry, SetReplaces,
              IsDatabase
<1>4. w.depth \in Nat /\ Len(w.rest) = 0
  BY <1>1, <1>2 DEF Walk
<1>5. CASE pc' = "channel" /\ w'.depth = w.depth
  <2>1. \A M \in Nat : \A c : DepthOK(w, pc, M, c) => DepthOK(w', pc', M, c)
    BY <1>5 DEF DepthOK
  <2> QED BY <2>1, <1>1, <1>3, <1>5, WalkBoundStep
<1>6. CASE /\ pc' = "bundle" /\ Replaced \notin w.seen
           /\ Replaced \in DOMAIN tx.operatorbundle
           /\ w'.depth = w.depth + 1 /\ w'.seen = w.seen \cup {Replaced}
  <2> DEFINE s == Cardinality(w.seen)
             c == Cardinality(DOMAIN tx.operatorbundle)
  <2>1. IsFiniteSet(w.seen) /\ s \in Nat /\ c \in Nat
    BY <1>2, PathFinite
  <2>2. Cardinality(w'.seen) = s + 1
    BY <2>1, <1>6 DEF Counting
  <2>3. s + 1 <= c
    <3>1. w'.seen \subseteq DOMAIN tx.operatorbundle
      BY <1>2, <1>6 DEF CursorPath
    <3> QED BY <3>1, <2>2 DEF BoundInv, Finite, Counting
  <2> HIDE DEF s, c
  <2>4. ASSUME NEW M \in Nat, DepthOK(w, pc, M, c)
        PROVE  DepthOK(w', pc', M, c)
    <3>1. /\ (M + 1) * s \in Nat /\ (M + 1) * (s + 1) = (M + 1) * s + (M + 1)
      BY <2>1, Times
    <3>2. (M + 1) * (s + 1) <= (M + 1) * c /\ (M + 1) * c \in Nat
      <4>1. s + 1 \in Nat
        BY <2>1
      <4> QED BY <4>1, <2>1, <2>3, Times
    <3>3. w.depth <= (M + 1) * s
      BY <2>4, <1>1, <1>4 DEF DepthOK, s
    <3>4. w'.depth + M <= (M + 1) * (s + 1)
      BY <3>1, <3>3, <1>4, <1>6
    <3>5. w'.depth <= (M + 1) * c
      BY <3>1, <3>2, <3>4, <1>4, <1>6
    <3> QED BY <3>4, <3>5, <2>2, <1>6 DEF DepthOK
  <2> QED BY <2>4, <1>1, <1>3, <1>6, WalkBoundStep DEF c
<1>7. \/ pc' = "channel" /\ w'.depth = w.depth
      \/ /\ pc' = "bundle" /\ Replaced \notin w.seen
         /\ Replaced \in DOMAIN tx.operatorbundle
         /\ w'.depth = w.depth + 1 /\ w'.seen = w.seen \cup {Replaced}
  <2>1. CASE EndOfChain
    BY <2>1 DEF EndOfChain
  <2>2. CASE ReplacesCycle
    BY <2>2, <1>2 DEF ReplacesCycle, Walk
  <2>3. CASE FollowReplaces
    <3>1. CASE w' = w /\ pc' = "channel"
      BY <3>1
    <3>2. CASE w' = [w EXCEPT !.errs = TRUE] /\ pc' = "channel"
      BY <3>2, <1>2 DEF Walk
    <3>3. CASE w' = Moved /\ pc' = "bundle" /\ Replaced \in DOMAIN tx.operatorbundle
      <4> DEFINE d == w.depth + 1
                 q == w.seen \cup {Replaced}
                 n == NextID(tx)
      <4>1. w' = [w EXCEPT !.cur = Replaced, !.curID = n, !.depth = d, !.seen = q]
        BY <3>3 DEF Moved
      <4>2. Replaced \notin w.seen
        BY <2>3 DEF FollowReplaces, OnPath
      <4> HIDE DEF d, q, n
      <4>3. w'.depth = d /\ w'.seen = q
        BY Zenon, <4>1, <1>2 DEF Walk
      <4> QED BY <4>2, <4>3, <3>3 DEF d, q
    <3> QED BY <2>3, <3>1, <3>2, <3>3 DEF FollowReplaces
  <2> QED BY <2>1, <2>2, <2>3
<1> QED BY <1>5, <1>6, <1>7

\* Every step keeps the bound.
LEMMA NextBound ==
    ASSUME Counting, IInv, GraphInv, BoundInv, [Next]_vars
    PROVE  BoundInv'
<1> USE DEF Rollback
<1>1. Finite(db) /\ Sound(db) /\ Navigable(db) /\ GraphOK(db) /\ IsDatabase(db)
  BY Zenon DEF BoundInv, IInv, GraphInv, Sound
<1>2. ASSUME NEW b \in BundleImages, AddOperatorBundle(b)
      PROVE  BoundInv'
  <2>1. Finite(WithBundle(db, b))
    BY <1>1, FiniteWithBundle
  <2> QED BY <1>2, <2>1, RollbackBound, CommitBound DEF AddOperatorBundle
<1>3. ASSUME NEW m \in Manifests, AddPackageChannels(m)
      PROVE  BoundInv'
  BY <1>1, <1>3, BeginBound DEF AddPackageChannels
<1>4. ASSUME NEW b \in BundleImages, NEW m \in Manifests,
             AddBundlePackageChannels(b, m)
      PROVE  BoundInv'
  <2>1. /\ Finite(WithBundle(db, b))
        /\ Sound(WithBundle(db, b)) /\ Navigable(WithBundle(db, b))
    BY <1>1, FiniteWithBundle, WithBundleLemma, OwnInputs
  <2> QED BY <1>4, <2>1, RollbackBound, BeginBound DEF AddBundlePackageChannels
<1>5. ASSUME NEW p \in Pkgs, RemovePackage(p)
      PROVE  BoundInv'
  <2> DEFINE t == WithoutPackage(db, p)
  <2>1. SubTable(t.operatorbundle, db.operatorbundle)
    BY ZenonT(30), <1>1, WithoutPackageRows
  <2>2. Finite(t)
    BY <2>1, <1>1, FiniteSub DEF SubTable
  <2>3. CASE Return(db)
    BY <2>3, RollbackBound
  <2>4. CASE db' = t /\ tx' = t /\ pc' = "strand" /\ w' = w
    <3>1. w.depth = 0
      BY <1>5 DEF RemovePackage, BoundInv
    <3>2. Cardinality(DOMAIN t.operatorbundle) \in Nat
      BY <2>2 DEF Finite, Counting
    <3> HIDE DEF t
    <3>3. \A M \in Nat : 0 <= (M + 1) * Cardinality(DOMAIN t.operatorbundle)
      BY <3>2, Times
    <3> QED BY <2>2, <2>4, <3>1, <3>3 DEF BoundInv, DepthOK
  <2> QED BY <1>5, <2>3, <2>4 DEF RemovePackage
<1>6. CASE RemoveStrandedBundles \/ Strand
  <2> DEFINE t == DeleteBundles(db, Stranded(db))
  <2>1. SubTable(t.operatorbundle, db.operatorbundle)
    BY ZenonT(30), <1>1, StrandedLemma
  <2>2. Finite(t)
    BY <2>1, <1>1, FiniteSub DEF SubTable
  <2> QED BY <1>6, <2>2, CommitBound DEF RemoveStrandedBundles, Strand
<1>7. ASSUME NEW path \in Paths, DeprecateBundle(path)
      PROVE  BoundInv'
  <2>1. CASE Return(db)
    BY <2>1, RollbackBound
  <2>2. CASE \E n \in BundlesForImage(db, path) :
                Commit(MarkDeprecated(Truncated(db, n), n,
                                      db.operatorbundle[n].keyed))
    <3>1. PICK n \in BundlesForImage(db, path) :
              Commit(MarkDeprecated(Truncated(db, n), n,
                                    db.operatorbundle[n].keyed))
      BY <2>2
    <3> DEFINE t == Truncated(db, n)
               u == MarkDeprecated(t, n, db.operatorbundle[n].keyed)
    <3>2. IsDatabase(t) /\ SubTable(t.operatorbundle, db.operatorbundle)
      BY <1>1, TruncatedGraph
    <3> HIDE DEF t
    <3>3. u.operatorbundle = t.operatorbundle
      BY <3>2 DEF MarkDeprecated, InsertProperty, IsDatabase
    <3>4. Commit(u)
      BY <3>1 DEF t
    <3> HIDE DEF u
    <3>5. Finite(u)
      BY <3>2, <3>3, <1>1, FiniteSub DEF SubTable
    <3> QED BY <3>4, <3>5, CommitBound
  <2> QED BY <1>7, <2>1, <2>2, Zenon DEF DeprecateBundle
<1>8. CASE ClearNonHeadBundles
  <2> DEFINE u == Cleared(db)
             B == db.operatorbundle
  <2>1. /\ DOMAIN u.operatorbundle = DOMAIN B
        /\ \A n \in DOMAIN B : u.operatorbundle[n].skips = B[n].skips
    <3>1. u.operatorbundle =
             [n \in DOMAIN B |->
                IF B[n].path # NULL /\ HeadedBy(db, {n}) = {}
                THEN [B[n] EXCEPT !.content = FALSE] ELSE B[n]]
      BY Zenon, <1>1 DEF Cleared, IsDatabase
    <3>2. \A n \in DOMAIN B : B[n] \in BundleRow
      BY <1>1 DEF IsDatabase, IsTable
    <3> HIDE DEF u, B
    <3> QED BY Zenon, <3>1, <3>2 DEF BundleRow
  <2> HIDE DEF u
  <2>2. Finite(u)
    BY <2>1, <1>1, FiniteSub
  <2> QED BY <1>8, <2>2, CommitBound DEF ClearNonHeadBundles, u
<1>9. CASE Crash
  BY <1>9, RollbackBound DEF Crash
<1>10. CASE UNCHANGED vars
  BY <1>10 DEF vars, BoundInv
<1>11. CASE EndPackageChannels
  <2>1. Finite(tx)
    BY DEF BoundInv
  <2> QED BY <1>11, <2>1, RollbackBound, CommitBound DEF EndPackageChannels
<1>12. CASE \/ NextChannel \/ VisitBundle \/ AddSkip \/ EndOfChain
            \/ ReplacesCycle \/ FollowReplaces
  BY <1>12, NextChannelBound, VisitBundleBound, AddSkipBound, LeaveBundleBound
<1> QED BY <1>2, <1>3, <1>4, <1>5, <1>6, <1>7, <1>8, <1>9, <1>10, <1>11, <1>12
        DEF Next, Step

INSTANCE FiniteSetTheorems
INSTANCE WellFoundedInduction

\* The facts about finite sets, from the library.
LEMMA CountingLemma == Counting
<1>1. \A T : \A S \in SUBSET T :
         IsFiniteSet(T) => IsFiniteSet(S) /\ Cardinality(S) <= Cardinality(T)
  BY FS_Subset
<1>2. \A S : IsFiniteSet(S) => Cardinality(S) \in Nat
  BY FS_CardinalityType
<1>3. \A S, x : IsFiniteSet(S) =>
         /\ IsFiniteSet(S \cup {x})
         /\ x \notin S => Cardinality(S \cup {x}) = Cardinality(S) + 1
  BY FS_AddElement
<1>4. IsFiniteSet({}) /\ Cardinality({}) = 0
  BY FS_EmptySet
<1>5. \A x : IsFiniteSet({x}) /\ Cardinality({x}) = 1
  BY ZenonT(30), FS_Singleton
<1> QED BY ZenonT(30), <1>1, <1>2, <1>3, <1>4, <1>5 DEF Counting

\* A finite table has a longest list of skips.
LEMMA LongestSkips ==
    ASSUME NEW t, IsDatabase(t), Finite(t)
    PROVE  LET SkipsOf(n) == Len(t.operatorbundle[n].skips)
           IN  \E k \in {SkipsOf(n) : n \in DOMAIN t.operatorbundle} \cup {0} :
                  \A n \in DOMAIN t.operatorbundle : SkipsOf(n) <= k
<1> DEFINE L == {Len(t.operatorbundle[n].skips) : n \in DOMAIN t.operatorbundle} \cup {0}
           U == {M \in Nat : SkipsUpTo(t, M)}
           Less == {ss \in Nat \X Nat : ss[1] < ss[2]}
<1>1. \A n \in DOMAIN t.operatorbundle : Len(t.operatorbundle[n].skips) \in Nat
  BY DEF IsDatabase, IsTable, BundleRow
<1>2. IsWellFoundedOn(Less, Nat)
  BY NatLessThanWellFounded DEF OpToRel
<1>3. U # {} /\ U \subseteq Nat
  BY DEF Finite
<1>4. PICK u \in U : \A M \in U : ~ (<<M, u>> \in Less)
  <2> HIDE DEF U, Less
  <2> QED BY ZenonT(30), <1>2, <1>3, WFMin
<1>5. \A M \in U : ~ (M < u)
  BY ZenonT(30), <1>3, <1>4
<1>6. u \in L
  <2> SUFFICES ASSUME u \notin L PROVE FALSE
    OBVIOUS
  <2>1. u - 1 \in Nat
    BY <1>3
  <2>2. SkipsUpTo(t, u - 1)
    BY <1>1, <1>3 DEF SkipsUpTo
  <2>3. u - 1 \in U /\ u - 1 < u
    BY <2>1, <2>2
  <2> QED BY <2>3, <1>5
<1> QED BY <1>6 DEF SkipsUpTo

\* The walk of addPackageChannels is bounded on every set of bundles, whatever
\* they replace and skip: an entry is at most as deep as there are bundles and
\* skips to meet on a path.
THEOREM WalkIsBounded == Spec => []WalkBounded
<1>1. IInv /\ GraphInv /\ BoundInv /\ [Next]_vars => BoundInv'
  BY CountingLemma, NextBound
<1>2. Init => BoundInv
  BY CountingLemma, InitBound
<1>3. Spec => []BoundInv
  BY <1>1, <1>2, InductiveInvariant, GraphInvariant, PTL DEF Spec
<1>4. ASSUME IInv, BoundInv PROVE WalkBounded
  <2> DEFINE SkipsOf(n) == Len(tx.operatorbundle[n].skips)
             L == {SkipsOf(n) : n \in DOMAIN tx.operatorbundle} \cup {0}
             M == CHOOSE k \in L : \A n \in DOMAIN tx.operatorbundle : SkipsOf(n) <= k
             c == Cardinality(DOMAIN tx.operatorbundle)
  <2>1. IsDatabase(tx) /\ Finite(tx) /\ w.depth \in Nat
    BY <1>4 DEF IInv, TypeOK, BoundInv, Walk
  <2>2. M \in L /\ \A n \in DOMAIN tx.operatorbundle : SkipsOf(n) <= M
    BY <2>1, LongestSkips
  <2>3. L \subseteq Nat
    BY <2>1 DEF IsDatabase, IsTable, BundleRow
  <2>4. M \in Nat /\ SkipsUpTo(tx, M)
    BY ZenonT(30), <2>2, <2>3 DEF SkipsUpTo
  <2>5. c \in Nat
    BY <2>1, FS_CardinalityType DEF Finite
  <2> HIDE DEF M
  <2>6. w.depth <= (M + 1) * c
    BY <2>4, <1>4 DEF BoundInv, DepthOK
  <2>7. (M + 1) * c \in Nat
    BY <2>4, <2>5, Times
  <2> HIDE DEF c
  <2>8. w.depth <= (M + 1) * c + 1
    BY <2>1, <2>6, <2>7
  <2> QED BY <2>8 DEF WalkBounded, M, c
<1> QED BY <1>3, <1>4, InductiveInvariant, PTL

=============================================================================
