---------------------------- MODULE SqlLoaderProofs ----------------------------
(***************************************************************************)
(* Proofs about SqlLoader, for every set of bundles, manifests and names:  *)
(* the types, that the committed index is always navigable, and that a     *)
(* package leaves the index only by RemovePackage.                         *)
(*                                                                         *)
(* CatalogNavigable is about db alone and is not inductive.  IInv adds     *)
(* what the walk of addPackageChannels has established about the open      *)
(* transaction (WalkOK, CursorOK), and that the database is Sound.         *)
(*                                                                         *)
(* First what the statements of RegistryDB change and what they leave      *)
(* alone, then what the operations of the loader preserve, for every       *)
(* database, then one lemma per action and the theorems.                   *)
(***************************************************************************)
EXTENDS SqlLoader, TLAPS

\* A leaf that names no prover is tried with SMT and Zenon, then again with
\* more time.
USE SMT, Zenon, SMTT(20), SMTT(30)


-----------------------------------------------------------------------------
(***************************************************************************)
(* The statements.  The cascades are the point: a DELETE of a channel may  *)
(* take a package with it, and a DELETE of a bundle a channel.             *)
(***************************************************************************)


\* SQLite tables are finite, so every set of entry ids has a largest one.
BoundedIDs(t) ==
    \A S \in SUBSET DOMAIN t.channel_entry :
        S # {} => \E i \in S : \A j \in S : j <= i

\* Deleting entries keeps the ids bounded.
LEMMA BoundedSub ==
    ASSUME NEW t, NEW u, BoundedIDs(t),
           DOMAIN u.channel_entry \subseteq DOMAIN t.channel_entry
    PROVE  BoundedIDs(u)
BY DEF BoundedIDs

\* The id SQLite gives a new entry (INTEGER PRIMARY KEY) is positive and
\* larger than the ids in use.
LEMMA NextIDFresh ==
    ASSUME NEW t, DOMAIN t.channel_entry \subseteq Nat \ {0}, BoundedIDs(t)
    PROVE  /\ NextID(t) \in Nat \ {0}
           /\ \A i \in DOMAIN t.channel_entry : i < NextID(t)
<1> DEFINE ids == DOMAIN t.channel_entry
<1>1. CASE ids = {}
  BY <1>1 DEF NextID
<1>2. CASE ids # {}
  <2>1. \E i \in ids : \A j \in ids : j <= i
    BY <1>2 DEF BoundedIDs
  <2> QED BY <2>1, <1>2 DEF NextID
<1> QED BY <1>1, <1>2

-----------------------------------------------------------------------------

\* t and u agree on every table that is not in "changed".
SameBut(t, u, changed) ==
    /\ "operatorbundle" \in changed \/ u.operatorbundle = t.operatorbundle
    /\ "package" \in changed \/ u.package = t.package
    /\ "channel" \in changed \/ u.channel = t.channel
    /\ "channel_entry" \in changed \/ u.channel_entry = t.channel_entry
    /\ "properties" \in changed \/ u.properties = t.properties
    /\ "deprecated" \in changed \/ u.deprecated = t.deprecated

\* addChannelEntry adds one row under an id that was not in use, and changes
\* nothing else.
LEMMA InsertEntryLemma ==
    ASSUME NEW t, IsDatabase(t), BoundedIDs(t), NEW e \in EntryRow
    PROVE  LET u == InsertEntry(t, e) n == NextID(t)
           IN  /\ IsDatabase(u)
               /\ BoundedIDs(u)
               /\ SameBut(t, u, {"channel_entry"})
               /\ n \in Nat \ {0} /\ n \notin DOMAIN t.channel_entry
               /\ DOMAIN u.channel_entry = DOMAIN t.channel_entry \cup {n}
               /\ u.channel_entry[n] = e
               /\ \A i \in DOMAIN t.channel_entry :
                     u.channel_entry[i] = t.channel_entry[i]
<1> DEFINE u == InsertEntry(t, e) n == NextID(t)
<1>1. /\ n \in Nat \ {0}
      /\ \A i \in DOMAIN t.channel_entry : i < n /\ i \in Nat \ {0}
  BY NextIDFresh DEF IsDatabase, IsTable
<1>2. u = [operatorbundle |-> t.operatorbundle, package |-> t.package,
           channel |-> t.channel, channel_entry |-> With(t.channel_entry, n, e),
           properties |-> t.properties, deprecated |-> t.deprecated]
  BY DEF InsertEntry, IsDatabase
<1> HIDE DEF u, n
<1>3. IsTable(With(t.channel_entry, n, e), Nat \ {0}, EntryRow)
  BY <1>1 DEF IsDatabase, IsTable, With
<1>4. IsDatabase(u)
  BY <1>2, <1>3 DEF IsDatabase
<1>5. BoundedIDs(u)
  <2> DEFINE D == DOMAIN t.channel_entry
  <2>1. DOMAIN u.channel_entry = D \cup {n}
    BY <1>2 DEF With
  <2>2. SUFFICES ASSUME NEW S \in SUBSET (D \cup {n}), S # {}
                 PROVE  \E i \in S : \A j \in S : j <= i
    BY <2>1 DEF BoundedIDs
  <2>3. CASE n \in S
    <3>1. \A j \in S : j <= n
      BY <1>1
    <3> QED BY <2>3, <3>1
  <2>4. CASE n \notin S
    <3>1. S \in SUBSET D
      BY <2>4
    <3> QED BY <3>1, <2>2 DEF BoundedIDs
  <2> QED BY <2>3, <2>4
<1> QED BY <1>1, <1>2, <1>4, <1>5 DEF SameBut, With, u, n

\* g holds some of the rows of f, unchanged.
SubTable(g, f) == DOMAIN g \subseteq DOMAIN f /\ \A x \in DOMAIN g : g[x] = f[x]

\* Deleting the rows with keys in S leaves the other rows as they are.
LEMMA WithoutLemma ==
    ASSUME NEW f, NEW S
    PROVE  /\ DOMAIN Without(f, S) = DOMAIN f \ S
           /\ \A x \in DOMAIN f \ S : Without(f, S)[x] = f[x]
           /\ SubTable(Without(f, S), f)
           /\ \A K, R : IsTable(f, K, R) => IsTable(Without(f, S), K, R)
BY DEF Without, SubTable, IsTable

\* DELETE FROM channel and its cascades: the entries of the channels go, and
\* the packages whose default channel is among them; all other rows stay.
LEMMA DeleteChannelsLemma ==
    ASSUME NEW t, IsDatabase(t), NEW K
    PROVE  LET u == DeleteChannels(t, K)
           IN  /\ IsDatabase(u)
               /\ BoundedIDs(t) => BoundedIDs(u)
               /\ SameBut(t, u, {"channel", "channel_entry", "package"})
               /\ SubTable(u.channel, t.channel)
               /\ SubTable(u.channel_entry, t.channel_entry)
               /\ SubTable(u.package, t.package)
               /\ DOMAIN u.channel = DOMAIN t.channel \ K
               /\ DOMAIN u.channel_entry =
                     {i \in DOMAIN t.channel_entry :
                        ChannelOf(t.channel_entry[i]) \notin K}
               /\ DOMAIN u.package =
                     {p \in DOMAIN t.package : <<t.package[p], p>> \notin K}
<1> DEFINE u == DeleteChannels(t, K)
           I == {i \in DOMAIN t.channel_entry :
                    ChannelOf(t.channel_entry[i]) \in K}
           P == {p \in DOMAIN t.package : <<t.package[p], p>> \in K}
<1>1. u = [operatorbundle |-> t.operatorbundle,
           package |-> Without(t.package, P),
           channel |-> Without(t.channel, K),
           channel_entry |-> Without(t.channel_entry, I),
           properties |-> t.properties, deprecated |-> t.deprecated]
  <2>1. u = [t EXCEPT !.channel = Without(t.channel, K),
                      !.channel_entry = Without(t.channel_entry, I),
                      !.package = Without(t.package, P)]
    BY Zenon DEF DeleteChannels
  <2> HIDE DEF u, I, P
  <2> QED BY Zenon, <2>1 DEF IsDatabase
<1> HIDE DEF u
<1>2. /\ DOMAIN u.channel_entry = DOMAIN t.channel_entry \ I
      /\ DOMAIN u.package = DOMAIN t.package \ P
      /\ DOMAIN u.channel = DOMAIN t.channel \ K
      /\ SubTable(u.channel, t.channel)
      /\ SubTable(u.channel_entry, t.channel_entry)
      /\ SubTable(u.package, t.package)
      /\ IsTable(u.channel, Chans \X Pkgs, Names)
      /\ IsTable(u.channel_entry, Nat \ {0}, EntryRow)
      /\ IsTable(u.package, Pkgs, Chans \cup {NULL})
  <2> HIDE DEF I, P
  <2> QED BY Zenon, <1>1, WithoutLemma DEF IsDatabase
<1>3. IsDatabase(u)
  BY <1>1, <1>2 DEF IsDatabase
<1>4. BoundedIDs(t) => BoundedIDs(u)
  BY <1>2 DEF BoundedIDs
<1>5. SameBut(t, u, {"channel", "channel_entry", "package"})
  BY <1>1 DEF SameBut
<1> QED BY <1>2, <1>3, <1>4, <1>5 DEF u

\* DELETE FROM operatorbundle and its cascades: the channels the bundles head
\* go, with what those cascade to; all other rows stay, properties of other
\* bundles included.
LEMMA DeleteBundlesLemma ==
    ASSUME NEW t, IsDatabase(t), NEW S
    PROVE  LET u == DeleteBundles(t, S)
               K == HeadedBy(t, S)
           IN  /\ IsDatabase(u)
               /\ BoundedIDs(t) => BoundedIDs(u)
               /\ u.deprecated = t.deprecated
               /\ \A r \in t.properties : r.bundle \notin S => r \in u.properties
               /\ SubTable(u.operatorbundle, t.operatorbundle)
               /\ SubTable(u.channel, t.channel)
               /\ SubTable(u.channel_entry, t.channel_entry)
               /\ SubTable(u.package, t.package)
               /\ DOMAIN u.operatorbundle = DOMAIN t.operatorbundle \ S
               /\ DOMAIN u.channel = DOMAIN t.channel \ K
               /\ DOMAIN u.channel_entry =
                     {i \in DOMAIN t.channel_entry :
                        ChannelOf(t.channel_entry[i]) \notin K}
               /\ DOMAIN u.package =
                     {p \in DOMAIN t.package : <<t.package[p], p>> \notin K}
<1> DEFINE K == HeadedBy(t, S)
           v == DeleteChannels(t, K)
           u == DeleteBundles(t, S)
<1>1. /\ IsDatabase(v)
      /\ BoundedIDs(t) => BoundedIDs(v)
      /\ SameBut(t, v, {"channel", "channel_entry", "package"})
      /\ SubTable(v.channel, t.channel)
      /\ SubTable(v.channel_entry, t.channel_entry)
      /\ SubTable(v.package, t.package)
      /\ DOMAIN v.channel = DOMAIN t.channel \ K
      /\ DOMAIN v.channel_entry =
            {i \in DOMAIN t.channel_entry :
                ChannelOf(t.channel_entry[i]) \notin K}
      /\ DOMAIN v.package =
            {p \in DOMAIN t.package : <<t.package[p], p>> \notin K}
  BY DeleteChannelsLemma
<1>2. u = [operatorbundle |-> Without(v.operatorbundle, S),
           package |-> v.package,
           channel |-> v.channel,
           channel_entry |-> v.channel_entry,
           properties |-> {r \in v.properties : ~ (r.keyed /\ r.bundle \in S)},
           deprecated |-> v.deprecated]
  <2> HIDE DEF v
  <2>1. u = [v EXCEPT !.operatorbundle = Without(@, S),
                      !.properties = {r \in @ : ~ (r.keyed /\ r.bundle \in S)}]
    BY DEF DeleteBundles, HeadedBy, v
  <2> HIDE DEF u
  <2> QED BY Zenon, <2>1, <1>1 DEF IsDatabase
<1> HIDE DEF u, v, K
<1>3. /\ DOMAIN u.operatorbundle = DOMAIN t.operatorbundle \ S
      /\ SubTable(u.operatorbundle, t.operatorbundle)
      /\ IsTable(u.operatorbundle, Names, BundleRow)
  <2>1. v.operatorbundle = t.operatorbundle
    BY <1>1 DEF SameBut
  <2> QED BY Zenon, <1>2, <2>1, WithoutLemma DEF IsDatabase
<1>4. IsDatabase(u)
  BY <1>1, <1>2, <1>3 DEF IsDatabase
<1>5. (BoundedIDs(t) => BoundedIDs(u)) /\ u.deprecated = t.deprecated
  BY <1>1, <1>2 DEF BoundedIDs, SameBut
<1>6. \A r \in t.properties : r.bundle \notin S => r \in u.properties
  BY <1>1, <1>2 DEF SameBut
<1> QED BY <1>1, <1>2, <1>3, <1>4, <1>5, <1>6 DEF u, K

\* The second DELETE of rmBundle removes exactly the entries of the bundles.
LEMMA DeleteEntriesOfLemma ==
    ASSUME NEW t, IsDatabase(t), NEW S
    PROVE  LET u == DeleteEntriesOf(t, S)
           IN  /\ IsDatabase(u)
               /\ BoundedIDs(t) => BoundedIDs(u)
               /\ SameBut(t, u, {"channel_entry"})
               /\ SubTable(u.channel_entry, t.channel_entry)
               /\ DOMAIN u.channel_entry =
                     {i \in DOMAIN t.channel_entry :
                        t.channel_entry[i].bundle \notin S}
<1> DEFINE u == DeleteEntriesOf(t, S)
           I == {i \in DOMAIN t.channel_entry : t.channel_entry[i].bundle \in S}
<1>1. u = [operatorbundle |-> t.operatorbundle, package |-> t.package,
           channel |-> t.channel,
           channel_entry |-> Without(t.channel_entry, I),
           properties |-> t.properties, deprecated |-> t.deprecated]
  <2>1. u = [t EXCEPT !.channel_entry = Without(t.channel_entry, I)]
    BY Zenon DEF DeleteEntriesOf
  <2> HIDE DEF u, I
  <2> QED BY <2>1 DEF IsDatabase
<1> HIDE DEF u
<1>2. /\ DOMAIN u.channel_entry = DOMAIN t.channel_entry \ I
      /\ SubTable(u.channel_entry, t.channel_entry)
      /\ IsTable(u.channel_entry, Nat \ {0}, EntryRow)
  <2> HIDE DEF I
  <2> QED BY Zenon, <1>1, WithoutLemma DEF IsDatabase
<1>3. IsDatabase(u)
  BY <1>1, <1>2 DEF IsDatabase
<1>4. BoundedIDs(t) => BoundedIDs(u)
  BY <1>2 DEF BoundedIDs
<1>5. SameBut(t, u, {"channel_entry"})
  BY <1>1 DEF SameBut
<1> QED BY <1>2, <1>3, <1>4, <1>5 DEF u

\* DELETE FROM package removes one package row and cascades to nothing.
LEMMA DeletePackageLemma ==
    ASSUME NEW t, IsDatabase(t), NEW p
    PROVE  LET u == DeletePackage(t, p)
           IN  /\ IsDatabase(u)
               /\ BoundedIDs(t) => BoundedIDs(u)
               /\ SameBut(t, u, {"package"})
               /\ SubTable(u.package, t.package)
               /\ DOMAIN u.package = DOMAIN t.package \ {p}
<1> DEFINE u == DeletePackage(t, p)
<1>1. u = [operatorbundle |-> t.operatorbundle,
           package |-> Without(t.package, {p}), channel |-> t.channel,
           channel_entry |-> t.channel_entry,
           properties |-> t.properties, deprecated |-> t.deprecated]
  BY DEF DeletePackage, IsDatabase
<1> HIDE DEF u
<1>2. /\ DOMAIN u.package = DOMAIN t.package \ {p}
      /\ SubTable(u.package, t.package)
      /\ IsTable(u.package, Pkgs, Chans \cup {NULL})
  BY Zenon, <1>1, WithoutLemma DEF IsDatabase
<1>3. IsDatabase(u)
  BY <1>1, <1>2 DEF IsDatabase
<1>4. (BoundedIDs(t) => BoundedIDs(u)) /\ SameBut(t, u, {"package"})
  BY <1>1 DEF BoundedIDs, SameBut
<1> QED BY <1>2, <1>3, <1>4 DEF u

-----------------------------------------------------------------------------
(***************************************************************************)
(* The operations: deleting a package, deprecating a bundle, adding a      *)
(* bundle, clearing a bundle and the first loop of addPackageChannels.  A  *)
(* database is Sound when it has its types, finitely many entries, and     *)
(* rows of a package that name its own bundles only (OwnPackage): without  *)
(* the last, rmBundle, which deletes the entries of a bundle name in every *)
(* package, would damage other packages.                                   *)
(***************************************************************************)


\* The rows of a package name its own bundles only.
OwnPackage(t) ==
    /\ \A n \in DOMAIN t.operatorbundle :
          LET row == t.operatorbundle[n]
          IN  /\ row.replaces # NULL => PkgOf[row.replaces] = PkgOf[n]
              /\ \A i \in DOMAIN row.skips : PkgOf[row.skips[i]] = PkgOf[n]
    /\ \A k \in DOMAIN t.channel : PkgOf[t.channel[k]] = k[2]
    /\ \A i \in DOMAIN t.channel_entry :
          PkgOf[t.channel_entry[i].bundle] = t.channel_entry[i].package

\* What every database the loader works on satisfies.
Sound(t) == IsDatabase(t) /\ BoundedIDs(t) /\ OwnPackage(t)

\* The bundles and the package manifests the loader may be given: they name
\* bundles of their own package only.
OwnBundle(b) ==
    /\ b \in Bundle
    /\ b.replaces # NULL => PkgOf[b.replaces] = PkgOf[b.name]
    /\ \A i \in DOMAIN b.skips : PkgOf[b.skips[i]] = PkgOf[b.name]

OwnHeads(m) ==
    /\ m \in PackageManifest
    /\ \A c \in DOMAIN m.heads : PkgOf[m.heads[c]] = m.package

\* The ones of a specification of the loader are such.
LEMMA OwnInputs ==
    /\ \A b \in BundleImages : OwnBundle(b)
    /\ \A m \in Manifests : OwnHeads(m)
BY InputAssumption DEF OwnBundle, OwnHeads

\* The head of channel k has an entry in it.
HeadHasEntry(t, k) ==
    \E i \in DOMAIN t.channel_entry :
        /\ ChannelOf(t.channel_entry[i]) = k
        /\ t.channel_entry[i].bundle = t.channel[k]

\* Deleting rows keeps OwnPackage.
LEMMA OwnPackageSub ==
    ASSUME NEW t, NEW u, OwnPackage(t),
           SubTable(u.operatorbundle, t.operatorbundle),
           SubTable(u.channel, t.channel),
           SubTable(u.channel_entry, t.channel_entry)
    PROVE  OwnPackage(u)
BY DEF OwnPackage, SubTable

\* Deleting rows twice is deleting rows.
LEMMA SubTableTransitive ==
    ASSUME NEW f, NEW g, NEW h, SubTable(f, g), SubTable(g, h)
    PROVE  SubTable(f, h)
BY DEF SubTable

\* rmBundle for a set of bundles: the bundles, the channels they head and
\* their cascades, and the entries of the bundles in every channel go; all
\* other rows stay.
LEMMA RmBundlesLemma ==
    ASSUME NEW t, IsDatabase(t), NEW S
    PROVE  LET u == RmBundles(t, S)
               K == HeadedBy(t, S)
           IN  /\ IsDatabase(u)
               /\ BoundedIDs(t) => BoundedIDs(u)
               /\ u.deprecated = t.deprecated
               /\ \A r \in t.properties : r.bundle \notin S => r \in u.properties
               /\ SubTable(u.operatorbundle, t.operatorbundle)
               /\ SubTable(u.channel, t.channel)
               /\ SubTable(u.channel_entry, t.channel_entry)
               /\ SubTable(u.package, t.package)
               /\ DOMAIN u.operatorbundle = DOMAIN t.operatorbundle \ S
               /\ DOMAIN u.channel = DOMAIN t.channel \ K
               /\ DOMAIN u.channel_entry =
                     {i \in DOMAIN t.channel_entry :
                        /\ ChannelOf(t.channel_entry[i]) \notin K
                        /\ t.channel_entry[i].bundle \notin S}
               /\ DOMAIN u.package =
                     {p \in DOMAIN t.package : <<t.package[p], p>> \notin K}
<1> DEFINE v == DeleteBundles(t, S)
           u == DeleteEntriesOf(v, S)
           K == HeadedBy(t, S)
<1>1. /\ IsDatabase(v)
      /\ BoundedIDs(t) => BoundedIDs(v)
      /\ v.deprecated = t.deprecated
      /\ \A r \in t.properties : r.bundle \notin S => r \in v.properties
      /\ SubTable(v.operatorbundle, t.operatorbundle)
      /\ SubTable(v.channel, t.channel)
      /\ SubTable(v.channel_entry, t.channel_entry)
      /\ SubTable(v.package, t.package)
      /\ DOMAIN v.operatorbundle = DOMAIN t.operatorbundle \ S
      /\ DOMAIN v.channel = DOMAIN t.channel \ K
      /\ DOMAIN v.channel_entry =
            {i \in DOMAIN t.channel_entry :
                ChannelOf(t.channel_entry[i]) \notin K}
      /\ DOMAIN v.package =
            {p \in DOMAIN t.package : <<t.package[p], p>> \notin K}
  BY DeleteBundlesLemma
<1> HIDE DEF v, K
<1>2. /\ IsDatabase(u)
      /\ BoundedIDs(v) => BoundedIDs(u)
      /\ SameBut(v, u, {"channel_entry"})
      /\ SubTable(u.channel_entry, v.channel_entry)
      /\ DOMAIN u.channel_entry =
            {i \in DOMAIN v.channel_entry :
                v.channel_entry[i].bundle \notin S}
  BY <1>1, DeleteEntriesOfLemma
<1> HIDE DEF u
<1>3. /\ u.operatorbundle = v.operatorbundle
      /\ u.channel = v.channel
      /\ u.package = v.package
      /\ u.deprecated = v.deprecated
      /\ u.properties = v.properties
  BY <1>2 DEF SameBut
<1>4. SubTable(u.channel_entry, t.channel_entry)
  BY <1>1, <1>2, SubTableTransitive
<1>5. DOMAIN u.channel_entry =
        {i \in DOMAIN t.channel_entry :
            /\ ChannelOf(t.channel_entry[i]) \notin K
            /\ t.channel_entry[i].bundle \notin S}
  BY <1>1, <1>2 DEF SubTable
<1>6. u = RmBundles(t, S)
  BY DEF u, v, RmBundles
<1> QED BY <1>1, <1>2, <1>3, <1>4, <1>5, <1>6 DEF K

-----------------------------------------------------------------------------

\* The first transaction of RemovePackage deletes exactly the package row, the
\* channels, the entries and the bundles of the package: the bundles getCSVNames
\* finds belong to it, so the channels they head do, and no cascade reaches
\* another package.
LEMMA WithoutPackageRows ==
    ASSUME NEW t, Sound(t), NEW p
    PROVE  LET u == WithoutPackage(t, p)
               S == CSVNames(t, p)
           IN  /\ Sound(u)
               /\ u.deprecated = t.deprecated
               /\ \A r \in t.properties : r.bundle \notin S => r \in u.properties
               /\ \A n \in S : PkgOf[n] = p
               /\ SubTable(u.operatorbundle, t.operatorbundle)
               /\ SubTable(u.channel, t.channel)
               /\ SubTable(u.channel_entry, t.channel_entry)
               /\ SubTable(u.package, t.package)
               /\ DOMAIN u.operatorbundle = DOMAIN t.operatorbundle \ S
               /\ DOMAIN u.channel = {k \in DOMAIN t.channel : k[2] # p}
               /\ DOMAIN u.channel_entry =
                     {i \in DOMAIN t.channel_entry :
                        t.channel_entry[i].package # p}
               /\ DOMAIN u.package = DOMAIN t.package \ {p}
<1> DEFINE S == CSVNames(t, p)
           K == HeadedBy(t, S)
           v == RmBundles(t, S)
           x == DeletePackage(v, p)
           J == {k \in DOMAIN x.channel : k[2] = p}
           u == DeleteChannels(x, J)
<1>1. \A n \in S : PkgOf[n] = p
  BY DEF CSVNames, Sound, OwnPackage
<1>2. \A k \in K : k[2] = p
  BY <1>1 DEF HeadedBy, Sound, OwnPackage
<1>3. \A i \in DOMAIN t.channel_entry :
          t.channel_entry[i].bundle \in S <=> t.channel_entry[i].package = p
  BY <1>1 DEF CSVNames, Sound, OwnPackage
<1> HIDE DEF S, K
<1>4. /\ IsDatabase(v)
      /\ BoundedIDs(v)
      /\ v.deprecated = t.deprecated
      /\ \A r \in t.properties : r.bundle \notin S => r \in v.properties
      /\ SubTable(v.operatorbundle, t.operatorbundle)
      /\ SubTable(v.channel, t.channel)
      /\ SubTable(v.channel_entry, t.channel_entry)
      /\ SubTable(v.package, t.package)
      /\ DOMAIN v.operatorbundle = DOMAIN t.operatorbundle \ S
      /\ DOMAIN v.channel = DOMAIN t.channel \ K
      /\ DOMAIN v.channel_entry =
            {i \in DOMAIN t.channel_entry :
                /\ ChannelOf(t.channel_entry[i]) \notin K
                /\ t.channel_entry[i].bundle \notin S}
      /\ DOMAIN v.package =
            {q \in DOMAIN t.package : <<t.package[q], q>> \notin K}
  BY RmBundlesLemma DEF Sound, K
<1> HIDE DEF v
<1>5. /\ IsDatabase(x)
      /\ BoundedIDs(x)
      /\ x.operatorbundle = v.operatorbundle
      /\ x.deprecated = v.deprecated
      /\ x.properties = v.properties
      /\ x.channel = v.channel
      /\ x.channel_entry = v.channel_entry
      /\ SubTable(x.package, v.package)
      /\ DOMAIN x.package = DOMAIN v.package \ {p}
  BY <1>4, DeletePackageLemma DEF SameBut
<1> HIDE DEF x
<1>6. /\ IsDatabase(u)
      /\ BoundedIDs(u)
      /\ u.operatorbundle = x.operatorbundle
      /\ u.deprecated = x.deprecated
      /\ u.properties = x.properties
      /\ SubTable(u.channel, x.channel)
      /\ SubTable(u.channel_entry, x.channel_entry)
      /\ SubTable(u.package, x.package)
      /\ DOMAIN u.channel = DOMAIN x.channel \ J
      /\ DOMAIN u.channel_entry =
            {i \in DOMAIN x.channel_entry :
                ChannelOf(x.channel_entry[i]) \notin J}
      /\ DOMAIN u.package =
            {q \in DOMAIN x.package : <<x.package[q], q>> \notin J}
  <2> HIDE DEF J
  <2> QED BY <1>5, DeleteChannelsLemma DEF SameBut
<1>7. u = WithoutPackage(t, p)
  BY DEF u, x, v, S, WithoutPackage
<1> HIDE DEF u
<1>8. /\ SubTable(u.channel, t.channel)
      /\ SubTable(u.channel_entry, t.channel_entry)
      /\ SubTable(u.package, t.package)
      /\ SubTable(u.operatorbundle, t.operatorbundle)
  BY <1>4, <1>5, <1>6, SubTableTransitive
<1>9. Sound(u)
  BY <1>6, <1>8, OwnPackageSub DEF Sound
<1>10. DOMAIN u.channel = {k \in DOMAIN t.channel : k[2] # p}
  BY <1>2, <1>4, <1>5, <1>6
<1>11. DOMAIN u.package = DOMAIN t.package \ {p}
  BY <1>2, <1>4, <1>5, <1>6 DEF SubTable
<1>12. DOMAIN u.channel_entry =
          {i \in DOMAIN t.channel_entry : t.channel_entry[i].package # p}
  <2>1. \A e, k : ChannelOf(e) = k => e.package = k[2]
    BY DEF ChannelOf
  <2> QED BY <2>1, <1>2, <1>3, <1>4, <1>5, <1>6 DEF SubTable
<1>13. /\ u.deprecated = t.deprecated
       /\ \A r \in t.properties : r.bundle \notin S => r \in u.properties
       /\ DOMAIN u.operatorbundle = DOMAIN t.operatorbundle \ S
  BY <1>4, <1>5, <1>6
<1> QED BY <1>1, <1>7, <1>8, <1>9, <1>10, <1>11, <1>12, <1>13 DEF S

\* It leaves a navigable index that still has every other package.
LEMMA WithoutPackageLemma ==
    ASSUME NEW t, Sound(t), Navigable(t), NEW p
    PROVE  LET u == WithoutPackage(t, p)
           IN  /\ Sound(u)
               /\ Navigable(u)
               /\ DOMAIN t.package \ {p} \subseteq DOMAIN u.package
<1> DEFINE u == WithoutPackage(t, p)
           S == CSVNames(t, p)
<1>1. /\ Sound(u)
      /\ \A n \in S : PkgOf[n] = p
      /\ SubTable(u.channel, t.channel)
      /\ SubTable(u.channel_entry, t.channel_entry)
      /\ SubTable(u.package, t.package)
      /\ DOMAIN u.operatorbundle = DOMAIN t.operatorbundle \ S
      /\ DOMAIN u.channel = {k \in DOMAIN t.channel : k[2] # p}
      /\ DOMAIN u.channel_entry =
            {i \in DOMAIN t.channel_entry : t.channel_entry[i].package # p}
      /\ DOMAIN u.package = DOMAIN t.package \ {p}
  BY WithoutPackageRows
<1> HIDE DEF u, S
<1>2. ASSUME NEW q \in DOMAIN u.package
      PROVE  <<u.package[q], q>> \in DOMAIN u.channel
  <2>1. q # p /\ q \in DOMAIN t.package /\ u.package[q] = t.package[q]
    BY <1>1 DEF SubTable
  <2>2. <<t.package[q], q>> \in DOMAIN t.channel
    BY <2>1 DEF Navigable
  <2> QED BY <2>1, <2>2, <1>1
<1>3. ASSUME NEW k \in DOMAIN u.channel
      PROVE  /\ k[2] \in DOMAIN u.package
             /\ u.channel[k] \in DOMAIN u.operatorbundle
             /\ HeadHasEntry(u, k)
  <2>1. k[2] # p /\ k \in DOMAIN t.channel /\ u.channel[k] = t.channel[k]
    BY <1>1 DEF SubTable
  <2>2. PkgOf[t.channel[k]] = k[2]
    BY <2>1 DEF Sound, OwnPackage
  <2>3. t.channel[k] \notin S
    BY <2>1, <2>2, <1>1
  <2>4. PICK i \in DOMAIN t.channel_entry :
            /\ ChannelOf(t.channel_entry[i]) = k
            /\ t.channel_entry[i].bundle = t.channel[k]
    BY <2>1 DEF Navigable
  <2>5. t.channel_entry[i].package # p
    BY <2>1, <2>4 DEF ChannelOf
  <2>6. HeadHasEntry(u, k)
    BY <2>1, <2>4, <2>5, <1>1 DEF SubTable, HeadHasEntry
  <2>7. t.channel[k] \in DOMAIN t.operatorbundle /\ k[2] \in DOMAIN t.package
    BY <2>1 DEF Navigable
  <2> QED BY <2>1, <2>3, <2>6, <2>7, <1>1
<1>4. Navigable(u)
  BY <1>2, <1>3 DEF Navigable, HeadHasEntry
<1> QED BY <1>1, <1>4 DEF u

\* rmStrandedBundles leaves a navigable index with the same packages: a bundle
\* without entries heads no channel, since a head has an entry.
LEMMA StrandedLemma ==
    ASSUME NEW t, Sound(t), Navigable(t)
    PROVE  LET u == DeleteBundles(t, Stranded(t))
           IN  /\ Sound(u) /\ Navigable(u) /\ DOMAIN u.package = DOMAIN t.package
               /\ u.deprecated = t.deprecated
               /\ \A r \in t.properties :
                     r.bundle \notin Stranded(t) => r \in u.properties
               /\ SubTable(u.operatorbundle, t.operatorbundle)
               /\ SubTable(u.channel, t.channel)
               /\ SubTable(u.channel_entry, t.channel_entry)
               /\ DOMAIN u.operatorbundle = DOMAIN t.operatorbundle \ Stranded(t)
               /\ DOMAIN u.channel = DOMAIN t.channel
               /\ DOMAIN u.channel_entry = DOMAIN t.channel_entry
<1> DEFINE S == Stranded(t)
           K == HeadedBy(t, S)
           u == DeleteBundles(t, S)
<1>1. K = {}
  BY DEF HeadedBy, Stranded, Navigable
<1>2. /\ IsDatabase(u)
      /\ BoundedIDs(u)
      /\ u.deprecated = t.deprecated
      /\ \A r \in t.properties : r.bundle \notin S => r \in u.properties
      /\ SubTable(u.operatorbundle, t.operatorbundle)
      /\ SubTable(u.channel, t.channel)
      /\ SubTable(u.channel_entry, t.channel_entry)
      /\ SubTable(u.package, t.package)
      /\ DOMAIN u.operatorbundle = DOMAIN t.operatorbundle \ S
      /\ DOMAIN u.channel = DOMAIN t.channel
      /\ DOMAIN u.channel_entry = DOMAIN t.channel_entry
      /\ DOMAIN u.package = DOMAIN t.package
  <2> HIDE DEF S
  <2>1. /\ DOMAIN u.channel = DOMAIN t.channel \ K
        /\ DOMAIN u.channel_entry =
              {i \in DOMAIN t.channel_entry :
                  ChannelOf(t.channel_entry[i]) \notin K}
        /\ DOMAIN u.package =
              {p \in DOMAIN t.package : <<t.package[p], p>> \notin K}
    BY DeleteBundlesLemma DEF Sound
  <2>2. /\ IsDatabase(u)
        /\ BoundedIDs(u)
        /\ u.deprecated = t.deprecated
        /\ \A r \in t.properties : r.bundle \notin S => r \in u.properties
        /\ SubTable(u.operatorbundle, t.operatorbundle)
        /\ SubTable(u.channel, t.channel)
        /\ SubTable(u.channel_entry, t.channel_entry)
        /\ SubTable(u.package, t.package)
        /\ DOMAIN u.operatorbundle = DOMAIN t.operatorbundle \ S
    BY DeleteBundlesLemma DEF Sound
  <2> HIDE DEF u, K
  <2> QED BY <1>1, <2>1, <2>2
<1> HIDE DEF u
<1>3. Sound(u)
  BY <1>2, OwnPackageSub DEF Sound
<1>4. \A k \in DOMAIN t.channel : t.channel[k] \notin S
  BY DEF Stranded, Navigable
<1> HIDE DEF S
<1>5. Navigable(u)
  BY <1>2, <1>4 DEF Navigable, SubTable
<1> QED BY <1>2, <1>3, <1>5 DEF u, S

\* No bundle of T heads the default channel of a package.
DefaultsAvoid(t, T) ==
    \A p \in DOMAIN t.package : t.channel[<<t.package[p], p>>] \notin T

\* Deleting the channels headed by S keeps every package when no default
\* channel is headed by S.
LEMMA DeleteHeadedLemma ==
    ASSUME NEW t, Sound(t), Navigable(t), NEW S, DefaultsAvoid(t, S)
    PROVE  LET u == DeleteChannels(t, HeadedBy(t, S))
           IN  /\ Sound(u)
               /\ Navigable(u)
               /\ DOMAIN u.package = DOMAIN t.package
               /\ SubTable(u.package, t.package)
               /\ SubTable(u.channel, t.channel)
               /\ HeadedBy(u, S) = {}
               /\ u.operatorbundle = t.operatorbundle
               /\ u.deprecated = t.deprecated
<1> DEFINE K == HeadedBy(t, S)
           u == DeleteChannels(t, K)
<1>1. \A p \in DOMAIN t.package : <<t.package[p], p>> \notin K
  BY DEF HeadedBy, DefaultsAvoid
<1> HIDE DEF K
<1>2. /\ IsDatabase(u)
      /\ BoundedIDs(u)
      /\ u.operatorbundle = t.operatorbundle
      /\ u.deprecated = t.deprecated
      /\ SubTable(u.channel, t.channel)
      /\ SubTable(u.channel_entry, t.channel_entry)
      /\ SubTable(u.package, t.package)
      /\ DOMAIN u.channel = DOMAIN t.channel \ K
      /\ DOMAIN u.channel_entry =
            {i \in DOMAIN t.channel_entry :
                ChannelOf(t.channel_entry[i]) \notin K}
      /\ DOMAIN u.package =
            {p \in DOMAIN t.package : <<t.package[p], p>> \notin K}
  BY DeleteChannelsLemma DEF Sound, SameBut
<1> HIDE DEF u
<1>3. DOMAIN u.package = DOMAIN t.package
  BY <1>1, <1>2
<1>4. SubTable(u.operatorbundle, t.operatorbundle)
  BY <1>2 DEF SubTable
<1>5. Sound(u)
  BY <1>2, <1>4, OwnPackageSub DEF Sound
<1>6. HeadedBy(u, S) = {}
  BY <1>2 DEF HeadedBy, SubTable, K
<1>7. ASSUME NEW p \in DOMAIN u.package
      PROVE  <<u.package[p], p>> \in DOMAIN u.channel
  BY <1>1, <1>2, <1>3 DEF Navigable, SubTable
<1>8. ASSUME NEW k \in DOMAIN u.channel
      PROVE  /\ k[2] \in DOMAIN u.package
             /\ u.channel[k] \in DOMAIN u.operatorbundle
             /\ HeadHasEntry(u, k)
  <2>1. k \in DOMAIN t.channel /\ k \notin K /\ u.channel[k] = t.channel[k]
    BY <1>2 DEF SubTable
  <2>2. PICK i \in DOMAIN t.channel_entry :
            /\ ChannelOf(t.channel_entry[i]) = k
            /\ t.channel_entry[i].bundle = t.channel[k]
    BY <2>1 DEF Navigable
  <2>3. i \in DOMAIN u.channel_entry /\ u.channel_entry[i] = t.channel_entry[i]
    BY <2>1, <2>2, <1>2 DEF SubTable
  <2>4. HeadHasEntry(u, k)
    BY <2>1, <2>2, <2>3 DEF HeadHasEntry
  <2> QED BY <2>1, <2>4, <1>2, <1>3 DEF Navigable
<1>9. Navigable(u)
  BY <1>7, <1>8 DEF Navigable, HeadHasEntry
<1> QED BY <1>2, <1>3, <1>5, <1>6, <1>9 DEF u, K

\* The UPDATE of rmChannelEntry only changes replaces columns.
LEMMA UnlinkLemma ==
    ASSUME NEW t, Sound(t), Navigable(t), NEW S
    PROVE  LET u == UnlinkEntriesOf(t, S)
           IN  /\ Sound(u)
               /\ Navigable(u)
               /\ SameBut(t, u, {"channel_entry"})
<1> DEFINE E == t.channel_entry
           F == [i \in DOMAIN E |->
                    IF E[i].replaces \in DOMAIN E /\ E[E[i].replaces].bundle \in S
                    THEN [E[i] EXCEPT !.replaces = 0] ELSE E[i]]
           u == UnlinkEntriesOf(t, S)
<1>1. u = [operatorbundle |-> t.operatorbundle, package |-> t.package,
           channel |-> t.channel, channel_entry |-> F,
           properties |-> t.properties, deprecated |-> t.deprecated]
  <2>1. u = [t EXCEPT !.channel_entry = F]
    BY Zenon DEF UnlinkEntriesOf
  <2> HIDE DEF u, F, E
  <2> QED BY <2>1 DEF Sound, IsDatabase
<1>2. /\ DOMAIN F = DOMAIN E
      /\ DOMAIN E \subseteq Nat \ {0}
      /\ \A i \in DOMAIN E :
            /\ F[i] \in EntryRow
            /\ F[i].channel = E[i].channel
            /\ F[i].package = E[i].package
            /\ F[i].bundle = E[i].bundle
  BY DEF Sound, IsDatabase, IsTable, EntryRow
<1>3. F \in [DOMAIN F -> EntryRow]
  BY Zenon, <1>2
<1> HIDE DEF F, u
<1>4. IsDatabase(u)
  BY <1>1, <1>2, <1>3 DEF Sound, IsDatabase, IsTable
<1>5. BoundedIDs(u)
  BY <1>1, <1>2 DEF Sound, BoundedIDs
<1>6. OwnPackage(u)
  BY <1>1, <1>2 DEF Sound, OwnPackage
<1>7. \A i \in DOMAIN E : ChannelOf(F[i]) = ChannelOf(E[i])
  BY <1>2 DEF ChannelOf
<1>8. \A k \in DOMAIN t.channel : HeadHasEntry(t, k) => HeadHasEntry(u, k)
  BY <1>1, <1>2, <1>7 DEF HeadHasEntry
<1>9. Navigable(u)
  BY <1>1, <1>8 DEF Navigable, HeadHasEntry
<1> QED BY <1>1, <1>4, <1>5, <1>6, <1>9 DEF Sound, SameBut, u

\* rmBundle for bundles that head no channel keeps the channels, their head
\* entries and the packages.
LEMMA RmUnheadedLemma ==
    ASSUME NEW t, Sound(t), Navigable(t), NEW S,
           \A k \in DOMAIN t.channel : t.channel[k] \notin S
    PROVE  LET u == RmBundles(t, S)
           IN  /\ Sound(u)
               /\ Navigable(u)
               /\ DOMAIN u.package = DOMAIN t.package
               /\ SubTable(u.package, t.package)
               /\ SubTable(u.channel, t.channel)
<1> DEFINE K == HeadedBy(t, S)
           u == RmBundles(t, S)
<1>1. \A k \in DOMAIN t.channel : t.channel[k] \notin S
  OBVIOUS
<1> HIDE DEF K
<1>2. /\ IsDatabase(u)
      /\ BoundedIDs(u)
      /\ SubTable(u.operatorbundle, t.operatorbundle)
      /\ SubTable(u.channel, t.channel)
      /\ SubTable(u.channel_entry, t.channel_entry)
      /\ SubTable(u.package, t.package)
      /\ DOMAIN u.operatorbundle = DOMAIN t.operatorbundle \ S
      /\ DOMAIN u.channel = DOMAIN t.channel \ K
      /\ DOMAIN u.channel_entry =
            {i \in DOMAIN t.channel_entry :
                /\ ChannelOf(t.channel_entry[i]) \notin K
                /\ t.channel_entry[i].bundle \notin S}
      /\ DOMAIN u.package =
            {p \in DOMAIN t.package : <<t.package[p], p>> \notin K}
  BY RmBundlesLemma DEF Sound, K
<1> HIDE DEF u
<1>3. K = {}
  BY <1>1 DEF K, HeadedBy
<1>4. /\ DOMAIN u.channel = DOMAIN t.channel
      /\ DOMAIN u.package = DOMAIN t.package
      /\ DOMAIN u.channel_entry =
            {i \in DOMAIN t.channel_entry : t.channel_entry[i].bundle \notin S}
  BY <1>2, <1>3
<1>5. Sound(u)
  BY <1>2, OwnPackageSub DEF Sound
<1>6. \A k \in DOMAIN t.channel : HeadHasEntry(t, k) => HeadHasEntry(u, k)
  BY <1>1, <1>2, <1>4 DEF HeadHasEntry, SubTable
<1>7. Navigable(u)
  BY <1>1, <1>2, <1>4, <1>6 DEF Navigable, SubTable, HeadHasEntry
<1> QED BY <1>2, <1>4, <1>5, <1>7 DEF u

\* What DeprecateBundle deletes leaves a navigable index with the same
\* packages, thanks to the check ErrRemovingDefaultChannelDuringDeprecation.
LEMMA TruncatedLemma ==
    ASSUME NEW t, Sound(t), Navigable(t), NEW n, ~ RemovesDefaultChannel(t, n)
    PROVE  LET u == Truncated(t, n)
           IN  /\ Sound(u)
               /\ Navigable(u)
               /\ DOMAIN u.package = DOMAIN t.package
<1> DEFINE S == TailOf(t, n)
           a == UnlinkEntriesOf(t, S)
           b == DeleteChannels(a, HeadedBy(a, S))
           c == RmBundles(b, S)
           u == DeleteChannels(c, HeadedBy(c, {n}))
<1>1. \A p \in DOMAIN t.package :
          /\ <<t.package[p], p>> \in DOMAIN t.channel
          /\ t.channel[<<t.package[p], p>>] \notin {n} \cup S
  <2> SUFFICES ASSUME NEW p \in DOMAIN t.package
               PROVE  /\ <<t.package[p], p>> \in DOMAIN t.channel
                      /\ t.channel[<<t.package[p], p>>] \notin {n} \cup S
    OBVIOUS
  <2>1. <<t.package[p], p>> \in DOMAIN t.channel
    BY DEF Navigable
  <2>2. IsDefaultChannelHead(t, t.channel[<<t.package[p], p>>])
    BY <2>1 DEF IsDefaultChannelHead
  <2> HIDE DEF S
  <2> QED BY <2>1, <2>2 DEF RemovesDefaultChannel, S
<1>2. u = Truncated(t, n)
  BY DEF Truncated
<1> HIDE DEF S
<1>3. /\ Sound(a) /\ Navigable(a)
      /\ a.package = t.package /\ a.channel = t.channel
  BY UnlinkLemma DEF SameBut
<1>4. DefaultsAvoid(a, S)
  BY <1>1, <1>3 DEF DefaultsAvoid
<1> HIDE DEF a
<1>5. /\ Sound(b) /\ Navigable(b) /\ HeadedBy(b, S) = {}
      /\ DOMAIN b.package = DOMAIN a.package
      /\ SubTable(b.package, a.package) /\ SubTable(b.channel, a.channel)
  BY <1>3, <1>4, DeleteHeadedLemma
<1> HIDE DEF b
<1>6. /\ Sound(c) /\ Navigable(c)
      /\ DOMAIN c.package = DOMAIN b.package
      /\ SubTable(c.package, b.package) /\ SubTable(c.channel, b.channel)
  <2>1. \A k \in DOMAIN b.channel : b.channel[k] \notin S
    BY <1>5 DEF HeadedBy
  <2> QED BY <1>5, <2>1, RmUnheadedLemma
<1> HIDE DEF c
<1>7. DefaultsAvoid(c, {n})
  <2> SUFFICES ASSUME NEW p \in DOMAIN c.package
               PROVE  c.channel[<<c.package[p], p>>] # n
    BY DEF DefaultsAvoid
  <2>1. p \in DOMAIN t.package /\ c.package[p] = t.package[p]
    BY <1>3, <1>5, <1>6 DEF SubTable
  <2>2. <<c.package[p], p>> \in DOMAIN c.channel
    BY <1>6 DEF Navigable
  <2>3. c.channel[<<c.package[p], p>>] = t.channel[<<t.package[p], p>>]
    BY <2>1, <2>2, <1>3, <1>5, <1>6 DEF SubTable
  <2> QED BY <2>1, <2>3, <1>1
<1>8. Sound(u) /\ Navigable(u) /\ DOMAIN u.package = DOMAIN c.package
  BY <1>6, <1>7, DeleteHeadedLemma
<1> QED BY <1>2, <1>3, <1>5, <1>6, <1>8

\* addProperty adds a row of properties and changes nothing else.
LEMMA InsertPropertyLemma ==
    ASSUME NEW t, IsDatabase(t), NEW n \in Names, NEW keyed \in BOOLEAN,
           NEW type \in {"olm.package", "olm.deprecated", "olm.gvk"}
    PROVE  LET u == InsertProperty(t, type, n, keyed)
           IN  IsDatabase(u) /\ SameBut(t, u, {"properties"})
<1> DEFINE u == InsertProperty(t, type, n, keyed)
           r == [type |-> type, bundle |-> n, keyed |-> keyed]
<1>1. r \in PropertyRow
  BY DEF PropertyRow
<1>2. u = [operatorbundle |-> t.operatorbundle, package |-> t.package,
           channel |-> t.channel, channel_entry |-> t.channel_entry,
           properties |-> t.properties \cup {r}, deprecated |-> t.deprecated]
  <2> HIDE DEF r
  <2> QED BY DEF InsertProperty, IsDatabase, r
<1> HIDE DEF u, r
<1> QED BY <1>1, <1>2 DEF IsDatabase, SameBut, u

\* Properties and deprecation records do not matter for soundness and
\* navigability.
LEMMA SameGraph ==
    ASSUME NEW t, NEW u, IsDatabase(u),
           SameBut(t, u, {"properties", "deprecated"})
    PROVE  /\ Sound(t) => Sound(u)
           /\ Navigable(t) => Navigable(u)
           /\ \A k : HeadHasEntry(t, k) => HeadHasEntry(u, k)
BY DEF SameBut, Sound, BoundedIDs, OwnPackage, Navigable, HeadHasEntry

\* The property and the record DeprecateBundle writes keep the index sound and
\* navigable.
LEMMA MarkDeprecatedLemma ==
    ASSUME NEW t, Sound(t), Navigable(t), NEW n \in Names, NEW keyed \in BOOLEAN
    PROVE  LET u == MarkDeprecated(t, n, keyed)
           IN  /\ Sound(u)
               /\ Navigable(u)
               /\ u.package = t.package
<1> DEFINE v == InsertProperty(t, "olm.deprecated", n, keyed)
           u == MarkDeprecated(t, n, keyed)
<1>1. IsDatabase(v) /\ SameBut(t, v, {"properties"})
  BY InsertPropertyLemma DEF Sound
<1>2. u = [operatorbundle |-> v.operatorbundle, package |-> v.package,
           channel |-> v.channel, channel_entry |-> v.channel_entry,
           properties |-> v.properties, deprecated |-> v.deprecated \cup {n}]
  <2>1. u = [v EXCEPT !.deprecated = v.deprecated \cup {n}]
    BY Zenon DEF MarkDeprecated
  <2> HIDE DEF u, v
  <2> QED BY <2>1, <1>1 DEF IsDatabase
<1> HIDE DEF u, v
<1>3. IsDatabase(u) /\ SameBut(t, u, {"properties", "deprecated"})
  BY <1>1, <1>2 DEF IsDatabase, SameBut
<1> QED BY <1>3, SameGraph DEF u, SameBut

\* The row that marks a bundle as deprecated.
Mark(t, n) ==
    [type |-> "olm.deprecated", bundle |-> n, keyed |-> t.operatorbundle[n].keyed]

\* The rows that addOperatorBundle adds: one bundle, and properties of it.
LEMMA WithBundleRows ==
    ASSUME NEW t, IsDatabase(t), NEW b
    PROVE  LET u == WithBundle(t, b)
               row == [path |-> b.path, keyed |-> b.keyed, content |-> TRUE,
                       replaces |-> b.replaces, skips |-> b.skips]
           IN  /\ SameBut(t, u, {"operatorbundle", "properties"})
               /\ u.operatorbundle = With(t.operatorbundle, b.name, row)
               /\ t.properties \subseteq u.properties
               /\ b.name \in t.deprecated => Mark(u, b.name) \in u.properties
<1> DEFINE row == [path |-> b.path, keyed |-> b.keyed, content |-> TRUE,
                   replaces |-> b.replaces, skips |-> b.skips]
           B == With(t.operatorbundle, b.name, row)
           DB(P) == [operatorbundle |-> B, package |-> t.package,
                     channel |-> t.channel, channel_entry |-> t.channel_entry,
                     properties |-> P, deprecated |-> t.deprecated]
           g == [type |-> "olm.gvk", bundle |-> b.name, keyed |-> b.keyed]
           d == [type |-> "olm.deprecated", bundle |-> b.name, keyed |-> b.keyed]
           r == WithBundleRow(t, b)
           u == WithBundle(t, b)
<1>1. InsertBundle(t, b.name, row) = DB(t.properties)
  <2> HIDE DEF row
  <2> QED BY DEF InsertBundle, IsDatabase
<1>2. B[b.name] = row /\ row.keyed = b.keyed
  BY DEF With
<1> HIDE DEF row, B
<1>3. \A P, x : [DB(P) EXCEPT !.properties = @ \cup {x}] = DB(P \cup {x})
  OBVIOUS
<1>4. r = DB(t.properties) \/ r = DB(t.properties \cup {g})
  <2>1. r = IF b.provides
            THEN InsertProperty(DB(t.properties), "olm.gvk", b.name, b.keyed)
            ELSE DB(t.properties)
    BY <1>1 DEF WithBundleRow, row
  <2> QED BY <2>1, <1>3 DEF InsertProperty
<1> HIDE DEF r
<1>5. u = IF b.name \in t.deprecated
          THEN InsertProperty(r, "olm.deprecated", b.name, b.keyed) ELSE r
  BY DEF WithBundle, r
<1>6. PICK P : r = DB(P) /\ t.properties \subseteq P
  BY <1>4
<1> HIDE DEF u
<1>7. u = IF b.name \in t.deprecated THEN DB(P \cup {d}) ELSE DB(P)
  BY ZenonT(30), <1>3, <1>5, <1>6 DEF InsertProperty
<1>8. u.operatorbundle = B
  BY <1>7
<1>9. Mark(u, b.name) = d
  BY <1>2, <1>8 DEF Mark
<1>10. SameBut(t, u, {"operatorbundle", "properties"})
  BY <1>7 DEF SameBut
<1>11. /\ t.properties \subseteq u.properties
       /\ b.name \in t.deprecated => d \in u.properties
  BY <1>6, <1>7
<1> QED BY <1>8, <1>9, <1>10, <1>11 DEF u, B, row

\* A bundle added by addOperatorBundle keeps the index sound and navigable,
\* with the same packages.
LEMMA WithBundleLemma ==
    ASSUME NEW t, Sound(t), Navigable(t), NEW b, OwnBundle(b)
    PROVE  LET u == WithBundle(t, b)
           IN  /\ Sound(u)
               /\ Navigable(u)
               /\ u.package = t.package
<1> DEFINE row == [path |-> b.path, keyed |-> b.keyed, content |-> TRUE,
                   replaces |-> b.replaces, skips |-> b.skips]
           v == InsertBundle(t, b.name, row)
           B == With(t.operatorbundle, b.name, row)
<1>1. /\ b.name \in Names /\ b.keyed \in BOOLEAN
      /\ row \in BundleRow
      /\ row.replaces # NULL => PkgOf[row.replaces] = PkgOf[b.name]
      /\ \A i \in DOMAIN row.skips : PkgOf[row.skips[i]] = PkgOf[b.name]
  BY DEF OwnBundle, Bundle, BundleRow
<1>2. v = [operatorbundle |-> B, package |-> t.package,
           channel |-> t.channel, channel_entry |-> t.channel_entry,
           properties |-> t.properties, deprecated |-> t.deprecated]
  <2> HIDE DEF row
  <2> QED BY DEF InsertBundle, Sound, IsDatabase
<1> HIDE DEF row, v
<1>3. /\ IsTable(B, Names, BundleRow)
      /\ DOMAIN B = DOMAIN t.operatorbundle \cup {b.name}
      /\ B[b.name] = row
      /\ \A n \in DOMAIN t.operatorbundle : n # b.name => B[n] = t.operatorbundle[n]
  BY <1>1 DEF With, IsTable, Sound, IsDatabase
<1> HIDE DEF B
<1>4. IsDatabase(v)
  BY <1>2, <1>3 DEF Sound, IsDatabase
<1>5. BoundedIDs(v)
  BY <1>2 DEF Sound, BoundedIDs
<1>6. OwnPackage(v)
  BY <1>1, <1>2, <1>3 DEF Sound, OwnPackage
<1>7. Navigable(v) /\ Sound(v)
  BY <1>2, <1>3, <1>4, <1>5, <1>6 DEF Navigable, Sound
<1>8. /\ Sound(WithBundleRow(t, b))
      /\ Navigable(WithBundleRow(t, b))
      /\ WithBundleRow(t, b).package = t.package
  <2>1. CASE ~ b.provides
    BY <1>2, <1>7, <2>1 DEF WithBundleRow, v, row
  <2>2. CASE b.provides
    <3> DEFINE u == InsertProperty(v, "olm.gvk", b.name, b.keyed)
    <3>1. IsDatabase(u) /\ SameBut(v, u, {"properties"})
      BY <1>1, <1>4, InsertPropertyLemma
    <3>2. u = WithBundleRow(t, b)
      BY <2>2 DEF WithBundleRow, v, row
    <3> HIDE DEF u
    <3>3. SameBut(v, u, {"properties", "deprecated"})
      BY <3>1 DEF SameBut
    <3> QED BY <1>2, <1>7, <3>1, <3>2, <3>3, SameGraph DEF SameBut
  <2> QED BY <2>1, <2>2, <1>1
<1>9. CASE b.name \notin t.deprecated
  BY <1>8, <1>9 DEF WithBundle
<1>10. CASE b.name \in t.deprecated
  <2> DEFINE r == WithBundleRow(t, b)
             u == InsertProperty(r, "olm.deprecated", b.name, b.keyed)
  <2>1. IsDatabase(r)
    BY <1>8 DEF Sound
  <2> HIDE DEF r
  <2>2. IsDatabase(u) /\ SameBut(r, u, {"properties"})
    BY <1>1, <2>1, InsertPropertyLemma
  <2>3. u = WithBundle(t, b)
    BY <1>10 DEF WithBundle, r
  <2> HIDE DEF u
  <2>4. SameBut(r, u, {"properties", "deprecated"})
    BY <2>2 DEF SameBut
  <2> QED BY <1>8, <2>2, <2>3, <2>4, SameGraph DEF SameBut, r
<1> QED BY <1>9, <1>10

\* ClearNonHeadBundles keeps the index sound and navigable, with the same
\* packages.
LEMMA ClearedLemma ==
    ASSUME NEW t, Sound(t), Navigable(t)
    PROVE  LET u == Cleared(t)
           IN  /\ Sound(u)
               /\ Navigable(u)
               /\ u.package = t.package
<1> DEFINE B == t.operatorbundle
           C == [n \in DOMAIN B |->
                    IF B[n].path # NULL /\ HeadedBy(t, {n}) = {}
                    THEN [B[n] EXCEPT !.content = FALSE] ELSE B[n]]
           u == Cleared(t)
<1>1. u = [operatorbundle |-> C, package |-> t.package,
           channel |-> t.channel, channel_entry |-> t.channel_entry,
           properties |-> t.properties, deprecated |-> t.deprecated]
  <2>1. u = [t EXCEPT !.operatorbundle = C]
    BY Zenon DEF Cleared
  <2> HIDE DEF u, C, B
  <2> QED BY <2>1 DEF Sound, IsDatabase
<1>2. /\ DOMAIN C = DOMAIN B
      /\ DOMAIN B \subseteq Names
      /\ \A n \in DOMAIN B :
            /\ C[n] \in BundleRow
            /\ C[n].replaces = B[n].replaces
            /\ C[n].skips = B[n].skips
  BY ZenonT(30) DEF Sound, IsDatabase, IsTable, BundleRow
<1>3. C \in [DOMAIN C -> BundleRow]
  BY Zenon, <1>2
<1> HIDE DEF C, u
<1>4. IsDatabase(u)
  BY <1>1, <1>2, <1>3 DEF Sound, IsDatabase, IsTable
<1>5. BoundedIDs(u)
  BY <1>1 DEF Sound, BoundedIDs
<1>6. OwnPackage(u)
  BY <1>1, <1>2 DEF Sound, OwnPackage
<1>7. Navigable(u)
  BY <1>1, <1>2 DEF Navigable
<1> QED BY <1>1, <1>4, <1>5, <1>6, <1>7 DEF Sound, u

-----------------------------------------------------------------------------

\* rmPackage deletes exactly the package row, the channels and the entries of
\* the package, and keeps its bundles.
LEMMA RmPackageLemma ==
    ASSUME NEW t, Sound(t), Navigable(t), NEW p
    PROVE  LET u == RmPackage(t, p)
           IN  /\ Sound(u)
               /\ u.operatorbundle = t.operatorbundle
               /\ u.deprecated = t.deprecated
               /\ u.properties = t.properties
               /\ SubTable(u.package, t.package)
               /\ SubTable(u.channel, t.channel)
               /\ SubTable(u.channel_entry, t.channel_entry)
               /\ DOMAIN u.package = DOMAIN t.package \ {p}
               /\ DOMAIN u.channel = {k \in DOMAIN t.channel : k[2] # p}
               /\ DOMAIN u.channel_entry =
                     {i \in DOMAIN t.channel_entry :
                        t.channel_entry[i].package # p}
<1> DEFINE K == {k \in DOMAIN t.channel : k[2] = p}
           a == DeletePackage(t, p)
           c == DeleteChannels(a, K)
           I == {i \in DOMAIN c.channel_entry : c.channel_entry[i].package = p}
           E == Without(c.channel_entry, I)
           u == RmPackage(t, p)
<1>1. /\ IsDatabase(a) /\ BoundedIDs(a)
      /\ a.operatorbundle = t.operatorbundle
      /\ a.deprecated = t.deprecated
      /\ a.properties = t.properties
      /\ a.channel = t.channel
      /\ a.channel_entry = t.channel_entry
      /\ SubTable(a.package, t.package)
      /\ DOMAIN a.package = DOMAIN t.package \ {p}
  BY DeletePackageLemma DEF Sound, SameBut
<1> HIDE DEF a
<1>2. /\ IsDatabase(c) /\ BoundedIDs(c)
      /\ c.operatorbundle = a.operatorbundle
      /\ c.deprecated = a.deprecated
      /\ c.properties = a.properties
      /\ SubTable(c.channel, a.channel)
      /\ SubTable(c.channel_entry, a.channel_entry)
      /\ SubTable(c.package, a.package)
      /\ DOMAIN c.channel = DOMAIN a.channel \ K
      /\ DOMAIN c.channel_entry =
            {i \in DOMAIN a.channel_entry :
                ChannelOf(a.channel_entry[i]) \notin K}
      /\ DOMAIN c.package =
            {q \in DOMAIN a.package : <<a.package[q], q>> \notin K}
  <2> HIDE DEF K
  <2> QED BY <1>1, DeleteChannelsLemma DEF SameBut
<1>3. u = [operatorbundle |-> c.operatorbundle, package |-> c.package,
           channel |-> c.channel, channel_entry |-> E,
           properties |-> c.properties, deprecated |-> c.deprecated]
  <2>1. u = [c EXCEPT !.channel_entry = E]
    BY Zenon DEF RmPackage, a
  <2> HIDE DEF u, c, E
  <2> QED BY <2>1, <1>2 DEF IsDatabase
<1> HIDE DEF c, u
<1>4. /\ DOMAIN E = DOMAIN c.channel_entry \ I
      /\ SubTable(E, c.channel_entry)
      /\ IsTable(E, Nat \ {0}, EntryRow)
  <2> HIDE DEF I
  <2> QED BY Zenon, <1>2, WithoutLemma DEF IsDatabase
<1> HIDE DEF E
<1>5. IsDatabase(u) /\ BoundedIDs(u)
  BY <1>2, <1>3, <1>4 DEF IsDatabase, BoundedIDs
<1>6. /\ u.operatorbundle = t.operatorbundle
      /\ u.deprecated = t.deprecated
      /\ u.properties = t.properties
      /\ SubTable(u.package, t.package)
      /\ SubTable(u.channel, t.channel)
      /\ SubTable(u.channel_entry, t.channel_entry)
  BY <1>1, <1>2, <1>3, <1>4, SubTableTransitive
<1>7. DOMAIN u.package = DOMAIN t.package \ {p}
  BY Zenon, <1>1, <1>2, <1>3
<1>8. DOMAIN u.channel = {k \in DOMAIN t.channel : k[2] # p}
  BY <1>1, <1>2, <1>3
<1>9. DOMAIN u.channel_entry =
        {i \in DOMAIN t.channel_entry : t.channel_entry[i].package # p}
  <2>1. \A i \in DOMAIN t.channel_entry :
            ChannelOf(t.channel_entry[i]) \in K => t.channel_entry[i].package = p
    BY DEF ChannelOf
  <2> HIDE DEF K
  <2> QED BY <2>1, <1>1, <1>2, <1>3, <1>4 DEF SubTable
<1>10. Sound(u)
  <2>1. SubTable(u.operatorbundle, t.operatorbundle)
    BY <1>6 DEF SubTable
  <2> QED BY <2>1, <1>5, <1>6, OwnPackageSub DEF Sound
<1> QED BY <1>6, <1>7, <1>8, <1>9, <1>10 DEF u

\* The first loop of addPackageChannels adds the package row and one channel
\* row for each head that is in the database; the default channel, if one was
\* set, is one of them.
LEMMA WithPackageLemma ==
    ASSUME NEW t, Sound(t), NEW m, OwnHeads(m),
           \A k \in DOMAIN t.channel : k[2] # m.package
    PROVE  LET u == WithPackage(t, m)
               A == AddedChannels(t, m)
               p == m.package
           IN  /\ Sound(u)
               /\ SameBut(t, u, {"package", "channel"})
               /\ DOMAIN u.package = DOMAIN t.package \cup {p}
               /\ \A q \in DOMAIN t.package : q # p => u.package[q] = t.package[q]
               /\ DefaultChannels(t, m) # {} => u.package[p] \in A
               /\ DOMAIN u.channel = DOMAIN t.channel \cup (A \X {p})
               /\ \A k \in DOMAIN t.channel : u.channel[k] = t.channel[k]
               /\ \A c \in A : /\ u.channel[<<c, p>>] = m.heads[c]
                                /\ m.heads[c] \in DOMAIN t.operatorbundle
<1> DEFINE p == m.package
           A == AddedChannels(t, m)
           D == DefaultChannels(t, m)
           H == [k \in (DOMAIN t.channel) \cup (A \X {p}) |->
                    IF k \in A \X {p} THEN m.heads[k[1]] ELSE t.channel[k]]
           Q == IF D = {} THEN With(t.package, p, NULL)
                ELSE [With(t.package, p, NULL) EXCEPT ![p] = CHOOSE c \in D : TRUE]
           u == WithPackage(t, m)
<1>1. /\ p \in Pkgs
      /\ A \subseteq DOMAIN m.heads
      /\ DOMAIN m.heads \subseteq Chans
      /\ \A c \in DOMAIN m.heads : m.heads[c] \in Names /\ PkgOf[m.heads[c]] = p
      /\ \A c \in A : m.heads[c] \in DOMAIN t.operatorbundle
      /\ D \subseteq A
  BY DEF OwnHeads, PackageManifest, AddedChannels, LiveChannels, DefaultChannels
<1>2. u = [operatorbundle |-> t.operatorbundle, package |-> Q,
           channel |-> H, channel_entry |-> t.channel_entry,
           properties |-> t.properties, deprecated |-> t.deprecated]
  <2> DEFINE a == InsertPackage(t, p)
             b == InsertChannels(a, p, m.heads, A)
  <2>1. a = [operatorbundle |-> t.operatorbundle,
             package |-> With(t.package, p, NULL),
             channel |-> t.channel, channel_entry |-> t.channel_entry,
             properties |-> t.properties, deprecated |-> t.deprecated]
    BY DEF InsertPackage, Sound, IsDatabase
  <2>2. b = [a EXCEPT !.channel =
                [k \in (DOMAIN a.channel) \cup (A \X {p}) |->
                    IF k \in A \X {p} THEN m.heads[k[1]] ELSE a.channel[k]]]
    BY Zenon DEF InsertChannels
  <2>3. u = IF D = {} THEN b
            ELSE [b EXCEPT !.package[p] = CHOOSE c \in D : TRUE]
    BY Zenon DEF WithPackage, SetDefaultChannel
  <2> HIDE DEF a, b, u, D, A
  <2>4. a.channel = t.channel
    BY <2>1
  <2>5. b = [a EXCEPT !.channel = H]
    BY <2>2, <2>4, Zenon
  <2> HIDE DEF H
  <2>6. b = [operatorbundle |-> t.operatorbundle,
             package |-> With(t.package, p, NULL),
             channel |-> H, channel_entry |-> t.channel_entry,
             properties |-> t.properties, deprecated |-> t.deprecated]
    BY <2>1, <2>5
  <2> QED BY Zenon, <2>3, <2>6
<1> HIDE DEF u, A, D
<1>3. /\ DOMAIN Q = DOMAIN t.package \cup {p}
      /\ \A q \in DOMAIN t.package : q # p => Q[q] = t.package[q]
      /\ D = {} => Q[p] = NULL
      /\ D # {} => Q[p] \in D
  BY DEF With
<1> HIDE DEF Q
<1>4. Q = [q \in DOMAIN Q |-> Q[q]]
  BY Zenon DEF Q, With
<1>5. \A q \in DOMAIN Q : Q[q] \in Chans \cup {NULL}
  <2>1. Q[p] \in Chans \cup {NULL}
    BY <1>1, <1>3
  <2>2. \A q \in DOMAIN t.package : t.package[q] \in Chans \cup {NULL}
    BY DEF Sound, IsDatabase, IsTable
  <2> QED BY <2>1, <2>2, <1>3
<1>6. IsTable(Q, Pkgs, Chans \cup {NULL})
  <2>1. DOMAIN t.package \subseteq Pkgs
    BY DEF Sound, IsDatabase, IsTable
  <2> QED BY <2>1, <1>1, <1>3, <1>4, <1>5 DEF IsTable
<1>7. /\ DOMAIN H = DOMAIN t.channel \cup (A \X {p})
      /\ \A k \in DOMAIN t.channel : H[k] = t.channel[k]
      /\ \A c \in A : H[<<c, p>>] = m.heads[c]
      /\ \A k \in A \X {p} : H[k] = m.heads[k[1]]
  OBVIOUS
<1>8. IsTable(H, Chans \X Pkgs, Names)
  BY <1>1 DEF IsTable, Sound, IsDatabase
<1> HIDE DEF H
<1>9. IsDatabase(u) /\ BoundedIDs(u)
  BY <1>2, <1>6, <1>8 DEF Sound, IsDatabase, BoundedIDs
<1>10. ASSUME NEW k \in DOMAIN H PROVE PkgOf[H[k]] = k[2]
  <2>1. CASE k \in DOMAIN t.channel
    BY <2>1, <1>7 DEF Sound, OwnPackage
  <2>2. CASE k \in A \X {p}
    <3>1. k[1] \in A /\ k[2] = p
      BY <2>2
    <3>2. H[k] = m.heads[k[1]]
      BY Zenon, <2>2, <1>7
    <3> QED BY <3>1, <3>2, <1>1
  <2> QED BY <2>1, <2>2, <1>7
<1>11. OwnPackage(u)
  <2>1. /\ u.operatorbundle = t.operatorbundle /\ u.channel = H
        /\ u.channel_entry = t.channel_entry
    BY <1>2
  <2>2. OwnPackage(t)
    BY DEF Sound
  <2>3. \A k \in DOMAIN u.channel : PkgOf[u.channel[k]] = k[2]
    BY <2>1, <1>10
  <2> QED BY <2>1, <2>2, <2>3 DEF OwnPackage
<1>12. SameBut(t, u, {"package", "channel"})
  BY <1>2 DEF SameBut
<1>13. D # {} => u.package[p] \in A
  BY <1>1, <1>2, <1>3
<1>14. /\ DOMAIN u.package = DOMAIN t.package \cup {p}
       /\ \A q \in DOMAIN t.package : q # p => u.package[q] = t.package[q]
  BY <1>2, <1>3
<1>15. /\ DOMAIN u.channel = DOMAIN t.channel \cup (A \X {p})
       /\ \A k \in DOMAIN t.channel : u.channel[k] = t.channel[k]
       /\ \A c \in A : u.channel[<<c, p>>] = m.heads[c]
  BY <1>2, <1>7
<1> QED BY <1>1, <1>9, <1>11, <1>12, <1>13, <1>14, <1>15 DEF u, A, D, Sound

-----------------------------------------------------------------------------
(***************************************************************************)
(* The invariant of the walk, and the actions                              *)
(***************************************************************************)


\* What holds of the open transaction between two channels of the walk: the
\* channels still to be walked have their rows, packages have a default
\* channel unless an error was recorded for this one, and the head of every
\* channel that was walked has its entry.
WalkOK(t, v) ==
    /\ v.pkg \in Pkgs
    /\ \A c \in v.todo : <<c, v.pkg>> \in DOMAIN t.channel
    /\ \A p \in DOMAIN t.package :
          \/ p = v.pkg /\ v.errs
          \/ <<t.package[p], p>> \in DOMAIN t.channel
    /\ \A k \in DOMAIN t.channel :
          /\ k[2] \in DOMAIN t.package
          /\ t.channel[k] \in DOMAIN t.operatorbundle
          /\ (k[2] = v.pkg /\ k[1] \in v.todo) \/ HeadHasEntry(t, k)

\* What holds inside a channel: the current bundle is in the database, belongs
\* to the package, and has the entry currentID; so do the bundles it skips.
CursorOK(t, v) ==
    /\ v.ch \in Chans
    /\ v.cur \in DOMAIN t.operatorbundle
    /\ PkgOf[v.cur] = v.pkg
    /\ v.curID \in DOMAIN t.channel_entry
    /\ \A i \in DOMAIN v.rest : PkgOf[v.rest[i]] = v.pkg

\* u has the rows of t, with the same channel, package and bundle in every
\* entry, and possibly more entries and properties.
Extends(t, u) ==
    /\ SameBut(t, u, {"channel_entry", "properties"})
    /\ DOMAIN t.channel_entry \subseteq DOMAIN u.channel_entry
    /\ \A i \in DOMAIN t.channel_entry :
          /\ ChannelOf(u.channel_entry[i]) = ChannelOf(t.channel_entry[i])
          /\ u.channel_entry[i].bundle = t.channel_entry[i].bundle

\* Extending twice is extending.
LEMMA ExtendsTransitive ==
    ASSUME NEW t, NEW u, NEW v, Extends(t, u), Extends(u, v)
    PROVE  Extends(t, v)
BY DEF Extends, SameBut

\* Adding entries and properties keeps WalkOK.
LEMMA ExtendsWalk ==
    ASSUME NEW t, NEW u, NEW v, Extends(t, u), WalkOK(t, v)
    PROVE  WalkOK(u, v)
<1>1. \A k : HeadHasEntry(t, k) => HeadHasEntry(u, k)
  BY DEF Extends, SameBut, HeadHasEntry
<1> QED BY <1>1 DEF Extends, SameBut, WalkOK

\* Adding entries and properties keeps CursorOK.
LEMMA ExtendsCursor ==
    ASSUME NEW t, NEW u, NEW v, Extends(t, u), CursorOK(t, v)
    PROVE  CursorOK(u, v)
BY DEF Extends, SameBut, CursorOK

\* An entry for a bundle of its own package extends a sound database to a
\* sound one.
LEMMA AddEntryLemma ==
    ASSUME NEW t, Sound(t), NEW e \in EntryRow, PkgOf[e.bundle] = e.package
    PROVE  LET u == InsertEntry(t, e) n == NextID(t)
           IN  /\ Sound(u)
               /\ Extends(t, u)
               /\ n \in Nat \ {0}
               /\ n \in DOMAIN u.channel_entry
               /\ u.channel_entry[n] = e
<1> DEFINE u == InsertEntry(t, e) n == NextID(t)
<1>1. /\ IsDatabase(u)
      /\ BoundedIDs(u)
      /\ SameBut(t, u, {"channel_entry"})
      /\ n \in Nat \ {0}
      /\ DOMAIN u.channel_entry = DOMAIN t.channel_entry \cup {n}
      /\ u.channel_entry[n] = e
      /\ \A i \in DOMAIN t.channel_entry :
            u.channel_entry[i] = t.channel_entry[i]
  BY InsertEntryLemma DEF Sound
<1> HIDE DEF u, n
<1>2. OwnPackage(u)
  BY <1>1 DEF Sound, OwnPackage, SameBut
<1>3. Extends(t, u)
  BY <1>1 DEF Extends, SameBut
<1> QED BY <1>1, <1>2, <1>3 DEF Sound, u, n

\* addReplaces extends a sound database to a sound one.
LEMMA SetReplacesLemma ==
    ASSUME NEW t, Sound(t), NEW i \in DOMAIN t.channel_entry, NEW j \in Nat
    PROVE  LET u == SetReplaces(t, i, j)
           IN  Sound(u) /\ Extends(t, u)
<1> DEFINE u == SetReplaces(t, i, j)
           E == t.channel_entry
           F == [E EXCEPT ![i].replaces = j]
<1>1. u = [operatorbundle |-> t.operatorbundle, package |-> t.package,
           channel |-> t.channel, channel_entry |-> F,
           properties |-> t.properties, deprecated |-> t.deprecated]
  <2>1. u = [t EXCEPT !.channel_entry = F]
    BY Zenon DEF SetReplaces
  <2> HIDE DEF u, F
  <2> QED BY <2>1 DEF Sound, IsDatabase
<1>2. /\ DOMAIN F = DOMAIN E
      /\ DOMAIN E \subseteq Nat \ {0}
      /\ F \in [DOMAIN F -> EntryRow]
      /\ \A h \in DOMAIN E :
            /\ F[h].channel = E[h].channel
            /\ F[h].package = E[h].package
            /\ F[h].bundle = E[h].bundle
  BY DEF Sound, IsDatabase, IsTable, EntryRow
<1> HIDE DEF F, u
<1>3. IsDatabase(u)
  BY <1>1, <1>2 DEF Sound, IsDatabase, IsTable
<1>4. BoundedIDs(u)
  BY <1>1, <1>2 DEF Sound, BoundedIDs
<1>5. OwnPackage(u)
  BY <1>1, <1>2 DEF Sound, OwnPackage
<1>6. Extends(t, u)
  BY <1>1, <1>2 DEF Extends, SameBut, ChannelOf
<1> QED BY <1>3, <1>4, <1>5, <1>6 DEF Sound, u

\* The locals of a call that is not running have their types.
LEMMA NoWalkType == NoWalk \in Walk
<1>1. <<>> \in Seq(Names) /\ 0 \in Nat
  OBVIOUS
<1> QED BY <1>1 DEF NoWalk, Walk

\* rmPackage and the first loop of addPackageChannels, on a navigable index,
\* establish WalkOK and lose no package.
LEMMA BeginLemma ==
    ASSUME NEW t, Sound(t), Navigable(t), NEW m, OwnHeads(m)
    PROVE  LET u == WithPackage(RmPackage(t, m.package), m)
               v == [NoWalk EXCEPT
                        !.pkg = m.package,
                        !.todo = AddedChannels(t, m),
                        !.errs = \/ AddedChannels(t, m) # LiveChannels(t, m)
                                 \/ DefaultChannels(t, m) = {}]
           IN  /\ Sound(u)
               /\ WalkOK(u, v)
               /\ v \in Walk
               /\ v.rest = <<>>
               /\ DOMAIN t.package \subseteq DOMAIN u.package
<1> DEFINE p == m.package
           r == RmPackage(t, p)
           u == WithPackage(r, m)
           A == AddedChannels(t, m)
           D == DefaultChannels(t, m)
           err == A # LiveChannels(t, m) \/ D = {}
           v == [NoWalk EXCEPT !.pkg = p, !.todo = A, !.errs = err]
<1>1. /\ Sound(r)
      /\ r.operatorbundle = t.operatorbundle
      /\ r.deprecated = t.deprecated
      /\ SubTable(r.package, t.package)
      /\ SubTable(r.channel, t.channel)
      /\ SubTable(r.channel_entry, t.channel_entry)
      /\ DOMAIN r.package = DOMAIN t.package \ {p}
      /\ DOMAIN r.channel = {k \in DOMAIN t.channel : k[2] # p}
      /\ DOMAIN r.channel_entry =
            {i \in DOMAIN t.channel_entry : t.channel_entry[i].package # p}
  BY RmPackageLemma
<1> HIDE DEF r
<1>2. AddedChannels(r, m) = A /\ DefaultChannels(r, m) = D
  BY <1>1 DEF AddedChannels, LiveChannels, DefaultChannels
<1> HIDE DEF A, D
<1>3. /\ Sound(u)
      /\ SameBut(r, u, {"package", "channel"})
      /\ DOMAIN u.package = DOMAIN r.package \cup {p}
      /\ \A q \in DOMAIN r.package : q # p => u.package[q] = r.package[q]
      /\ D # {} => u.package[p] \in A
      /\ DOMAIN u.channel = DOMAIN r.channel \cup (A \X {p})
      /\ \A k \in DOMAIN r.channel : u.channel[k] = r.channel[k]
      /\ \A c \in A : /\ u.channel[<<c, p>>] = m.heads[c]
                       /\ m.heads[c] \in DOMAIN r.operatorbundle
  <2>1. Sound(r) /\ \A k \in DOMAIN r.channel : k[2] # m.package
    BY <1>1
  <2> HIDE DEF u
  <2>2. u = WithPackage(r, m)
    BY DEF u
  <2> QED BY <1>2, <2>1, <2>2, WithPackageLemma
<1> HIDE DEF u
<1>4. /\ p \in Pkgs /\ A \subseteq Chans
  BY DEF OwnHeads, PackageManifest, A, AddedChannels, LiveChannels
<1>5. /\ v.pkg = p /\ v.todo = A /\ v.errs = err
      /\ err \in BOOLEAN
  BY DEF NoWalk
<1>6. v \in Walk /\ v.rest = <<>>
  <2>1. NoWalk.rest = <<>>
    BY DEF NoWalk
  <2> HIDE DEF err
  <2> QED BY Zenon, <2>1, <1>4, <1>5, NoWalkType DEF Walk
<1>7. ASSUME NEW q \in DOMAIN u.package
      PROVE  (q = p /\ err) \/ <<u.package[q], q>> \in DOMAIN u.channel
  <2>1. CASE q = p
    BY <2>1, <1>3
  <2>2. CASE q # p
    <3>1. q \in DOMAIN t.package /\ u.package[q] = t.package[q]
      BY <2>2, <1>1, <1>3 DEF SubTable
    <3>2. <<t.package[q], q>> \in DOMAIN t.channel
      BY <3>1 DEF Navigable
    <3> QED BY <2>2, <3>1, <3>2, <1>1, <1>3
  <2> QED BY <2>1, <2>2
<1>8. ASSUME NEW k \in DOMAIN u.channel
      PROVE  /\ k[2] \in DOMAIN u.package
             /\ u.channel[k] \in DOMAIN u.operatorbundle
             /\ (k[2] = p /\ k[1] \in A) \/ HeadHasEntry(u, k)
  <2>1. u.operatorbundle = t.operatorbundle /\ u.channel_entry = r.channel_entry
    BY <1>1, <1>3 DEF SameBut
  <2>2. CASE k \in A \X {p}
    BY <2>1, <2>2, <1>1, <1>3
  <2>3. CASE k \in DOMAIN r.channel
    <3>1. k \in DOMAIN t.channel /\ k[2] # p /\ u.channel[k] = t.channel[k]
      BY <2>3, <1>1, <1>3 DEF SubTable
    <3>2. PICK i \in DOMAIN t.channel_entry :
              /\ ChannelOf(t.channel_entry[i]) = k
              /\ t.channel_entry[i].bundle = t.channel[k]
      BY <3>1 DEF Navigable
    <3>3. t.channel_entry[i].package = k[2]
      BY <3>2 DEF ChannelOf
    <3>4. i \in DOMAIN r.channel_entry
      BY <3>1, <3>3, <1>1
    <3>5. HeadHasEntry(u, k)
      BY <2>1, <3>1, <3>2, <3>4, <1>1 DEF HeadHasEntry, SubTable
    <3>6. k[2] \in DOMAIN t.package /\ t.channel[k] \in DOMAIN t.operatorbundle
      BY <3>1 DEF Navigable
    <3> QED BY <2>1, <3>1, <3>5, <3>6, <1>1, <1>3
  <2> QED BY <2>2, <2>3, <1>3
<1>9. WalkOK(u, v)
  <2>1. \A c \in A : <<c, p>> \in DOMAIN u.channel
    BY <1>3
  <2> HIDE DEF v, err
  <2> QED BY <2>1, <1>4, <1>5, <1>7, <1>8 DEF WalkOK
<1>10. DOMAIN t.package \subseteq DOMAIN u.package
  BY <1>1, <1>3
<1> QED BY Zenon, <1>3, <1>6, <1>9, <1>10 DEF u, r, A, D

-----------------------------------------------------------------------------

\* The inductive invariant.
IInv ==
    /\ TypeOK
    /\ Sound(db)
    /\ Sound(tx)
    /\ Navigable(db)
    /\ pc \in {"idle", "strand"} => tx = db
    /\ pc \in {"channel", "bundle", "skips"} =>
          /\ WalkOK(tx, w)
          /\ DOMAIN db.package \subseteq DOMAIN tx.package
    /\ pc \in {"bundle", "skips"} => CursorOK(tx, w)
    /\ pc \in {"channel", "bundle"} => w.rest = <<>>

\* The step takes no package out of the committed index.
PackagesKept == DOMAIN db.package \subseteq DOMAIN db'.package

\* A call that commits a sound and navigable database keeps the invariant.
LEMMA ReturnLemma ==
    ASSUME NEW t, Sound(t), Navigable(t), Return(t),
           DOMAIN db.package \subseteq DOMAIN t.package
    PROVE  IInv' /\ PackagesKept
BY NoWalkType DEF Return, IInv, TypeOK, Sound, PCs, PackagesKept

\* A call that rolls back keeps the invariant.
LEMMA RollbackLemma ==
    ASSUME IInv, Return(db)
    PROVE  IInv' /\ PackagesKept
BY ReturnLemma DEF IInv

\* tx.Commit keeps the invariant whether or not the deferred foreign key
\* holds.
LEMMA CommitLemma ==
    ASSUME IInv, NEW t, Sound(t), Navigable(t), Commit(t),
           DOMAIN db.package \subseteq DOMAIN t.package
    PROVE  IInv' /\ PackagesKept
BY ReturnLemma, RollbackLemma DEF Commit

\* A new index satisfies the invariant.
LEMMA InitLemma == Init => IInv
<1> SUFFICES ASSUME Init PROVE IInv
  OBVIOUS
<1>1. IsDatabase(EmptyTables)
  BY Zenon DEF EmptyTables, IsDatabase, IsTable
<1>2. BoundedIDs(EmptyTables) /\ OwnPackage(EmptyTables)
  BY DEF EmptyTables, BoundedIDs, OwnPackage
<1>3. Navigable(EmptyTables)
  BY DEF EmptyTables, Navigable
<1> QED BY <1>1, <1>2, <1>3, NoWalkType DEF Init, IInv, TypeOK, Sound, PCs

\* Starting the walk keeps the invariant.
LEMMA BeginStep ==
    ASSUME IInv, NEW t, Sound(t), Navigable(t), t.package = db.package,
           NEW m, OwnHeads(m), BeginPackageChannels(t, m)
    PROVE  IInv' /\ PackagesKept
<1>1. /\ Sound(tx') /\ WalkOK(tx', w') /\ w' \in Walk
      /\ w'.rest = <<>>
      /\ DOMAIN t.package \subseteq DOMAIN tx'.package
  BY Zenon, BeginLemma DEF BeginPackageChannels
<1>2. pc' = "channel" /\ db' = db
  BY DEF BeginPackageChannels
<1> QED BY <1>1, <1>2 DEF IInv, TypeOK, Sound, PCs, PackagesKept

\* The head entry of the next channel keeps the invariant: the channel leaves
\* "todo" and its head has an entry.
LEMMA NextChannelStep ==
    ASSUME IInv, NextChannel
    PROVE  IInv' /\ PackagesKept
<1>1. PICK c \in w.todo :
        LET head == tx.channel[<<c, w.pkg>>]
        IN  /\ tx' = InsertEntry(tx, [channel |-> c, package |-> w.pkg,
                                      bundle |-> head, replaces |-> 0,
                                      depth |-> 0])
            /\ w' = [w EXCEPT !.todo = @ \ {c}, !.ch = c, !.cur = head,
                              !.curID = NextID(tx), !.depth = 1,
                              !.seen = {head}]
  BY Zenon DEF NextChannel
<1> DEFINE k == <<c, w.pkg>>
           head == tx.channel[k]
           e == [channel |-> c, package |-> w.pkg, bundle |-> head,
                 replaces |-> 0, depth |-> 0]
           n == NextID(tx)
<1>2. /\ WalkOK(tx, w) /\ Sound(tx) /\ w \in Walk
      /\ DOMAIN db.package \subseteq DOMAIN tx.package
      /\ w.rest = <<>>
      /\ pc' = "bundle" /\ db' = db
  BY DEF NextChannel, IInv, TypeOK
<1>3. /\ k \in DOMAIN tx.channel /\ head \in Names /\ w.pkg \in Pkgs
      /\ c \in Chans /\ PkgOf[head] = w.pkg
      /\ head \in DOMAIN tx.operatorbundle
  BY <1>2 DEF WalkOK, Sound, IsDatabase, IsTable, OwnPackage, Walk
<1>4. e \in EntryRow /\ PkgOf[e.bundle] = e.package
  BY ZenonT(30), <1>3 DEF EntryRow
<1>5. tx' = InsertEntry(tx, e)
  BY <1>1
<1> HIDE DEF e
<1>6. /\ Sound(tx') /\ Extends(tx, tx') /\ n \in Nat \ {0}
      /\ n \in DOMAIN tx'.channel_entry /\ tx'.channel_entry[n] = e
  BY <1>2, <1>4, <1>5, AddEntryLemma
<1>7. w' = [w EXCEPT !.todo = w.todo \ {c}, !.ch = c, !.cur = head,
                     !.curID = n, !.depth = 1, !.seen = {head}]
  BY <1>1
<1> HIDE DEF n, head
<1>8. /\ w' \in Walk
      /\ w'.pkg = w.pkg /\ w'.todo = w.todo \ {c} /\ w'.ch = c
      /\ w'.cur = head /\ w'.curID = n /\ w'.errs = w.errs
      /\ w'.rest = <<>>
  BY Zenon, <1>2, <1>3, <1>6, <1>7 DEF Walk
<1>9. WalkOK(tx', w)
  BY <1>2, <1>6, ExtendsWalk
<1>10. HeadHasEntry(tx', k)
  <2>1. tx'.channel = tx.channel
    BY <1>6 DEF Extends, SameBut
  <2>2. ChannelOf(e) = k /\ e.bundle = head
    BY DEF ChannelOf, e
  <2> QED BY <2>1, <2>2, <1>6 DEF HeadHasEntry, head
<1>11. WalkOK(tx', w')
  <2>1. ASSUME NEW j \in DOMAIN tx'.channel, j[2] = w.pkg, j[1] = c
        PROVE  HeadHasEntry(tx', j)
    <3>1. j \in Chans \X Pkgs
      BY <1>6 DEF Sound, IsDatabase, IsTable
    <3>2. j = k
      BY <3>1, <2>1
    <3> QED BY <3>2, <1>10
  <2> QED BY <1>8, <1>9, <2>1 DEF WalkOK
<1>12. CursorOK(tx', w')
  <2>1. \A i \in DOMAIN w'.rest : FALSE
    BY <1>8
  <2> QED BY <1>3, <1>6, <1>8, <2>1 DEF CursorOK, Extends, SameBut
<1>13. DOMAIN db'.package \subseteq DOMAIN tx'.package
  BY <1>2, <1>6 DEF Extends, SameBut
<1>14. Sound(db') /\ Navigable(db')
  BY <1>2 DEF IInv
<1> HIDE DEF k
<1> QED BY <1>2, <1>6, <1>8, <1>11, <1>12, <1>13, <1>14
        DEF IInv, TypeOK, Sound, PCs, PackagesKept

\* A step inside a channel keeps the invariant when it extends the transaction
\* and stays in the package.
LEMMA WalkStep ==
    ASSUME IInv, pc \in {"bundle", "skips"}, db' = db, w' \in Walk,
           Sound(tx'), Extends(tx, tx'),
           w'.pkg = w.pkg, w'.todo = w.todo, w.errs => w'.errs,
           \/ pc' = "channel" /\ w'.rest = <<>>
           \/ pc' = "skips" /\ CursorOK(tx', w')
           \/ pc' = "bundle" /\ w'.rest = <<>> /\ CursorOK(tx', w')
    PROVE  IInv' /\ PackagesKept
<1>1. WalkOK(tx', w)
  BY ExtendsWalk DEF IInv
<1>2. WalkOK(tx', w')
  BY <1>1 DEF WalkOK
<1>3. DOMAIN db'.package \subseteq DOMAIN tx'.package
  BY DEF IInv, Extends, SameBut
<1>4. Sound(db') /\ Navigable(db')
  BY DEF IInv
<1> QED BY <1>2, <1>3, <1>4 DEF IInv, TypeOK, Sound, PCs, PackagesKept

\* addPackageProperty for the current bundle keeps the invariant.
LEMMA VisitBundleStep ==
    ASSUME IInv, VisitBundle
    PROVE  IInv' /\ PackagesKept
<1> DEFINE row == tx.operatorbundle[w.cur]
<1>1. /\ pc = "bundle" /\ pc' = "skips" /\ db' = db
      /\ tx' = InsertProperty(tx, "olm.package", w.cur, row.keyed)
      /\ w' = [w EXCEPT !.rest = row.skips]
  BY DEF VisitBundle
<1>2. CursorOK(tx, w) /\ w \in Walk /\ Sound(tx)
  BY <1>1 DEF IInv, TypeOK
<1>3. /\ w.cur \in Names /\ row \in BundleRow
      /\ row.keyed \in BOOLEAN /\ row.skips \in Seq(Names)
      /\ \A i \in DOMAIN row.skips : PkgOf[row.skips[i]] = w.pkg
  BY <1>2 DEF CursorOK, Sound, IsDatabase, IsTable, BundleRow, OwnPackage
<1> HIDE DEF row
<1>4. IsDatabase(tx') /\ SameBut(tx, tx', {"properties"})
  BY <1>1, <1>2, <1>3, InsertPropertyLemma DEF Sound
<1>5. SameBut(tx, tx', {"properties", "deprecated"})
  BY <1>4 DEF SameBut
<1>6. Sound(tx')
  BY <1>2, <1>4, <1>5, SameGraph
<1>7. Extends(tx, tx')
  BY <1>4 DEF Extends, SameBut
<1>8. CursorOK(tx', w)
  BY <1>2, <1>7, ExtendsCursor
<1>9. /\ w' \in Walk /\ w'.rest = row.skips /\ w'.pkg = w.pkg
      /\ w'.todo = w.todo /\ w'.errs = w.errs /\ w'.ch = w.ch
      /\ w'.cur = w.cur /\ w'.curID = w.curID
  BY <1>1, <1>2, <1>3 DEF Walk
<1>10. CursorOK(tx', w')
  BY <1>3, <1>8, <1>9 DEF CursorOK
<1> QED BY <1>1, <1>6, <1>7, <1>9, <1>10, WalkStep

\* An entry of the channel being walked, for a bundle of the package, extends
\* the transaction.
LEMMA EntryLemma ==
    ASSUME IInv, pc \in {"bundle", "skips"}, NEW t, Sound(t), Extends(tx, t),
           NEW n \in Names, PkgOf[n] = w.pkg, NEW d \in Nat, NEW r \in Nat
    PROVE  LET u == InsertEntry(t, Entry(n, d, r))
           IN  /\ Sound(u)
               /\ Extends(tx, u)
               /\ NextID(t) \in Nat
               /\ NextID(t) \in DOMAIN u.channel_entry
<1> DEFINE e == Entry(n, d, r)
<1>1. e \in EntryRow /\ PkgOf[e.bundle] = e.package
  BY DEF IInv, WalkOK, CursorOK, Entry, EntryRow
<1> HIDE DEF e
<1>2. /\ Sound(InsertEntry(t, e)) /\ Extends(t, InsertEntry(t, e))
      /\ NextID(t) \in Nat \ {0}
      /\ NextID(t) \in DOMAIN InsertEntry(t, e).channel_entry
  BY <1>1, AddEntryLemma
<1>3. Extends(tx, InsertEntry(t, e))
  BY <1>2, ExtendsTransitive
<1> QED BY <1>2, <1>3 DEF e

\* A database extends itself.
LEMMA ExtendsReflexive ==
    ASSUME NEW t
    PROVE  Extends(t, t)
BY DEF Extends, SameBut

\* The two entries of a skipped bundle keep the invariant.
LEMMA AddSkipStep ==
    ASSUME IInv, AddSkip
    PROVE  IInv' /\ PackagesKept
<1> DEFINE u == InsertEntry(tx, Entry(Head(w.rest), w.depth, 0))
<1>1. /\ pc = "skips" /\ pc' = "skips" /\ db' = db /\ w.rest # <<>>
      /\ tx' = InsertEntry(u, Entry(w.cur, w.depth, NextID(tx)))
      /\ w' = [w EXCEPT !.rest = Tail(w.rest), !.depth = w.depth + 1]
  BY DEF AddSkip
<1>2. CursorOK(tx, w) /\ w \in Walk /\ Sound(tx) /\ Extends(tx, tx)
  BY <1>1, ExtendsReflexive DEF IInv, TypeOK
<1>3. /\ w.depth \in Nat /\ w.rest \in Seq(Names)
      /\ w.cur \in Names /\ PkgOf[w.cur] = w.pkg
  BY <1>2 DEF Walk, CursorOK, Sound, IsDatabase, IsTable
<1>4. /\ Head(w.rest) \in Names /\ Tail(w.rest) \in Seq(Names)
      /\ PkgOf[Head(w.rest)] = w.pkg
      /\ \A i \in DOMAIN Tail(w.rest) : PkgOf[Tail(w.rest)[i]] = w.pkg
  BY <1>1, <1>2, <1>3 DEF CursorOK
<1>5. Sound(u) /\ Extends(tx, u) /\ NextID(tx) \in Nat
  BY Zenon, <1>1, <1>2, <1>3, <1>4, EntryLemma
<1> HIDE DEF u
<1>6. Sound(tx') /\ Extends(tx, tx')
  BY <1>1, <1>3, <1>5, EntryLemma
<1>7. CursorOK(tx', w)
  BY <1>2, <1>6, ExtendsCursor
<1>8. /\ w' \in Walk /\ w'.rest = Tail(w.rest) /\ w'.pkg = w.pkg
      /\ w'.todo = w.todo /\ w'.errs = w.errs /\ w'.ch = w.ch
      /\ w'.cur = w.cur /\ w'.curID = w.curID
  <2> DEFINE d == w.depth + 1
             s == Tail(w.rest)
  <2>1. d \in Nat /\ s \in Seq(Names)
    BY <1>3, <1>4
  <2>2. w' = [w EXCEPT !.rest = s, !.depth = d]
    BY <1>1
  <2> HIDE DEF d, s
  <2>3. w' \in Walk /\ w'.rest = s
    BY Zenon, <2>1, <2>2, <1>2 DEF Walk
  <2> QED BY <2>2, <2>3, <1>2 DEF Walk, s
<1>9. CursorOK(tx', w')
  BY <1>4, <1>7, <1>8 DEF CursorOK
<1> QED BY <1>1, <1>6, <1>8, <1>9, WalkStep

\* The end of a chain of replaces keeps the invariant.
LEMMA EndOfChainStep ==
    ASSUME IInv, EndOfChain
    PROVE  IInv' /\ PackagesKept
<1>1. /\ pc = "skips" /\ pc' = "channel" /\ db' = db /\ tx' = tx /\ w' = w
      /\ w.rest = <<>>
  BY DEF EndOfChain
<1>2. w' \in Walk /\ Sound(tx') /\ Extends(tx, tx')
  BY <1>1, ExtendsReflexive DEF IInv, TypeOK
<1> QED BY <1>1, <1>2, WalkStep

\* The bundle the current one replaces belongs to the same package.
LEMMA ReplacedLemma ==
    ASSUME IInv, pc = "skips", Replaced # NULL
    PROVE  Replaced \in Names /\ PkgOf[Replaced] = w.pkg
<1>1. CursorOK(tx, w) /\ Sound(tx)
  BY DEF IInv
<1>2. tx.operatorbundle[w.cur] \in BundleRow
  BY <1>1 DEF CursorOK, Sound, IsDatabase, IsTable
<1> QED BY <1>1, <1>2 DEF CursorOK, Sound, OwnPackage, Replaced, BundleRow

\* A cycle of replaces keeps the invariant.
LEMMA ReplacesCycleStep ==
    ASSUME IInv, ReplacesCycle
    PROVE  IInv' /\ PackagesKept
<1>1. /\ pc = "skips" /\ pc' = "channel" /\ db' = db /\ w.rest = <<>>
      /\ Replaced # NULL
      /\ tx' = InsertEntry(tx, Entry(Replaced, w.depth, 0))
      /\ w' = [w EXCEPT !.errs = TRUE]
  BY DEF ReplacesCycle
<1>2. /\ w \in Walk /\ Sound(tx) /\ Extends(tx, tx) /\ w.depth \in Nat
      /\ 0 \in Nat
  BY ExtendsReflexive DEF IInv, TypeOK, Walk
<1>3. Replaced \in Names /\ PkgOf[Replaced] = w.pkg
  BY <1>1, ReplacedLemma
<1>4. Sound(tx') /\ Extends(tx, tx')
  BY <1>1, <1>2, <1>3, EntryLemma
<1>5. /\ w' \in Walk /\ w'.rest = <<>> /\ w'.pkg = w.pkg
      /\ w'.todo = w.todo /\ w'.errs
  BY Zenon, <1>1, <1>2 DEF Walk
<1> QED BY <1>1, <1>4, <1>5, WalkStep

\* Following replaces keeps the invariant, in each of the three ways it goes
\* on.
LEMMA FollowReplacesStep ==
    ASSUME IInv, FollowReplaces
    PROVE  IInv' /\ PackagesKept
<1> DEFINE u == InsertEntry(tx, Entry(Replaced, w.depth, 0))
           n == NextID(tx)
<1>1. /\ pc = "skips" /\ db' = db /\ w.rest = <<>> /\ Replaced # NULL
      /\ tx' = SetReplaces(u, w.curID, n)
  BY DEF FollowReplaces
<1>2. /\ w \in Walk /\ Sound(tx) /\ Extends(tx, tx) /\ CursorOK(tx, w)
      /\ w.depth \in Nat /\ 0 \in Nat
  BY ZenonT(30), <1>1, ExtendsReflexive DEF IInv, TypeOK, Walk
<1>3. Replaced \in Names /\ PkgOf[Replaced] = w.pkg
  BY <1>1, ReplacedLemma
<1>4. Sound(u) /\ Extends(tx, u) /\ n \in Nat /\ n \in DOMAIN u.channel_entry
  BY Zenon, <1>1, <1>2, <1>3, EntryLemma
<1> HIDE DEF u, n
<1>5. w.curID \in DOMAIN u.channel_entry
  BY <1>2, <1>4 DEF CursorOK, Extends
<1>6. Sound(tx') /\ Extends(u, tx')
  BY <1>1, <1>4, <1>5, SetReplacesLemma
<1>7. Extends(tx, tx') /\ n \in DOMAIN tx'.channel_entry
  <2>1. n \in DOMAIN tx'.channel_entry
    BY <1>4, <1>6 DEF Extends
  <2> QED BY <2>1, <1>4, <1>6, ExtendsTransitive
<1>8. CASE w' = w /\ pc' = "channel"
  BY <1>1, <1>2, <1>6, <1>7, <1>8, WalkStep
<1>9. CASE w' = [w EXCEPT !.errs = TRUE] /\ pc' = "channel"
  <2>1. /\ w' \in Walk /\ w'.rest = <<>> /\ w'.pkg = w.pkg
        /\ w'.todo = w.todo /\ w'.errs
    BY Zenon, <1>1, <1>2, <1>9 DEF Walk
  <2> QED BY <2>1, <1>1, <1>6, <1>7, <1>9, WalkStep
<1>10. CASE /\ Replaced \in DOMAIN tx.operatorbundle
            /\ w' = [w EXCEPT !.cur = Replaced, !.curID = n,
                              !.depth = w.depth + 1,
                              !.seen = w.seen \cup {Replaced}]
            /\ pc' = "bundle"
  <2>1. /\ w' \in Walk /\ w'.rest = <<>> /\ w'.pkg = w.pkg
        /\ w'.todo = w.todo /\ w'.errs = w.errs /\ w'.ch = w.ch
        /\ w'.cur = Replaced /\ w'.curID = n
    <3> DEFINE d == w.depth + 1
               s == w.seen \cup {Replaced}
    <3>1. d \in Nat /\ s \in SUBSET Names
      BY <1>2, <1>3 DEF Walk
    <3>2. w' = [w EXCEPT !.cur = Replaced, !.curID = n, !.depth = d, !.seen = s]
      BY <1>10
    <3> HIDE DEF d, s
    <3>3. w' \in Walk
      BY Zenon, <3>1, <3>2, <1>2, <1>3, <1>4 DEF Walk
    <3> QED BY <3>2, <3>3, <1>1, <1>2 DEF Walk
  <2>2. \A i \in DOMAIN w'.rest : FALSE
    BY <2>1
  <2>3. tx'.operatorbundle = tx.operatorbundle
    BY <1>7 DEF Extends, SameBut
  <2>4. CursorOK(tx', w')
    BY <2>1, <2>2, <2>3, <1>2, <1>3, <1>7, <1>10 DEF CursorOK
  <2> QED BY <2>1, <2>4, <1>1, <1>6, <1>7, <1>10, WalkStep
<1> QED BY <1>8, <1>9, <1>10 DEF FollowReplaces, Moved, n

\* The end of the walk keeps the invariant: without errors WalkOK with nothing
\* to do makes the transaction navigable.
LEMMA EndPackageChannelsStep ==
    ASSUME IInv, EndPackageChannels
    PROVE  IInv' /\ PackagesKept
<1>1. pc = "channel" /\ w.todo = {} /\ WalkOK(tx, w) /\ Sound(tx)
  BY DEF EndPackageChannels, IInv
<1>2. CASE w.errs
  BY <1>2, RollbackLemma DEF EndPackageChannels, Rollback
<1>3. CASE ~ w.errs
  <2>1. Navigable(tx)
    BY <1>1, <1>3 DEF WalkOK, Navigable, HeadHasEntry
  <2>2. Commit(tx) /\ DOMAIN db.package \subseteq DOMAIN tx.package
    BY <1>1, <1>3 DEF EndPackageChannels, IInv
  <2> QED BY <2>1, <2>2, <1>1, CommitLemma
<1> QED BY <1>2, <1>3

\* RemovePackage keeps the invariant and every other package.
LEMMA RemovePackageStep ==
    ASSUME IInv, NEW p, RemovePackage(p)
    PROVE  IInv' /\ DOMAIN db.package \ {p} \subseteq DOMAIN db'.package
<1> DEFINE t == WithoutPackage(db, p)
<1>1. /\ Sound(t) /\ Navigable(t)
      /\ DOMAIN db.package \ {p} \subseteq DOMAIN t.package
  BY WithoutPackageLemma DEF IInv
<1>2. CASE DeferredForeignKeys(t)
  <2>1. db' = t /\ tx' = t /\ pc' = "strand" /\ w' = w
    BY <1>2 DEF RemovePackage
  <2> HIDE DEF t
  <2> QED BY <2>1, <1>1 DEF IInv, TypeOK, Sound, PCs
<1>3. CASE ~ DeferredForeignKeys(t)
  <2>1. Return(db)
    BY <1>3 DEF RemovePackage, Rollback
  <2> QED BY <2>1, RollbackLemma DEF PackagesKept
<1> QED BY <1>2, <1>3

\* RemoveStrandedBundles, alone or at the end of RemovePackage, keeps the
\* invariant and every package.
LEMMA StrandStep ==
    ASSUME IInv, Commit(DeleteBundles(db, Stranded(db)))
    PROVE  IInv' /\ PackagesKept
<1>1. /\ Sound(DeleteBundles(db, Stranded(db)))
      /\ Navigable(DeleteBundles(db, Stranded(db)))
      /\ DOMAIN DeleteBundles(db, Stranded(db)).package = DOMAIN db.package
  BY ZenonT(30), StrandedLemma DEF IInv
<1> QED BY <1>1, CommitLemma

\* DeprecateBundle keeps the invariant and every package.
LEMMA DeprecateBundleStep ==
    ASSUME IInv, NEW path \in Paths, DeprecateBundle(path)
    PROVE  IInv' /\ PackagesKept
<1>1. CASE Return(db)
  BY <1>1, RollbackLemma
<1>2. CASE \E n \in BundlesForImage(db, path) :
              LET keyed == db.operatorbundle[n].keyed
                  t == Truncated(db, n)
              IN  /\ ~ RemovesDefaultChannel(db, n)
                  /\ Commit(MarkDeprecated(t, n, keyed))
  <2>1. PICK n \in BundlesForImage(db, path) :
            /\ ~ RemovesDefaultChannel(db, n)
            /\ Commit(MarkDeprecated(Truncated(db, n), n,
                                     db.operatorbundle[n].keyed))
    BY <1>2
  <2> DEFINE t == Truncated(db, n)
             keyed == db.operatorbundle[n].keyed
             u == MarkDeprecated(t, n, keyed)
  <2>2. n \in Names /\ keyed \in BOOLEAN
    BY DEF BundlesForImage, IInv, TypeOK, IsDatabase, IsTable, BundleRow
  <2>3. Sound(t) /\ Navigable(t) /\ DOMAIN t.package = DOMAIN db.package
    BY <2>1, TruncatedLemma DEF IInv
  <2>4. Commit(u)
    BY <2>1
  <2> HIDE DEF t, keyed
  <2>5. Sound(u) /\ Navigable(u) /\ u.package = t.package
    BY <2>2, <2>3, MarkDeprecatedLemma
  <2> HIDE DEF u
  <2> QED BY ZenonT(30), <2>3, <2>4, <2>5, CommitLemma
<1> QED BY <1>1, <1>2, Zenon DEF DeprecateBundle, Rollback

\* AddOperatorBundle and AddBundlePackageChannels keep the invariant and every
\* package.
LEMMA AddBundleStep ==
    ASSUME IInv, NEW b, OwnBundle(b)
    PROVE  /\ AddOperatorBundle(b) => IInv' /\ PackagesKept
           /\ \A m : OwnHeads(m) /\
                 AddBundlePackageChannels(b, m) => IInv' /\ PackagesKept
<1> DEFINE t == WithBundle(db, b)
<1>1. Sound(t) /\ Navigable(t) /\ t.package = db.package
  BY WithBundleLemma DEF IInv
<1>2. ASSUME AddOperatorBundle(b)
      PROVE  IInv' /\ PackagesKept
  <2>1. Return(db) \/ Commit(t)
    BY <1>2 DEF AddOperatorBundle, Rollback
  <2> HIDE DEF t
  <2> QED BY <2>1, <1>1, RollbackLemma, CommitLemma
<1>3. ASSUME NEW m, OwnHeads(m), AddBundlePackageChannels(b, m)
      PROVE  IInv' /\ PackagesKept
  <2>1. Return(db) \/ BeginPackageChannels(t, m)
    BY <1>3 DEF AddBundlePackageChannels, Rollback
  <2> HIDE DEF t
  <2> QED BY Zenon, <2>1, <1>1, <1>3, RollbackLemma, BeginStep
<1> QED BY <1>2, <1>3

\* Every step keeps the invariant, and every package but the one RemovePackage
\* is called for.
LEMMA NextLemma ==
    ASSUME IInv, [Next]_vars
    PROVE  /\ IInv'
           /\ \/ PackagesKept
              \/ \E p \in Pkgs :
                    /\ RemovePackage(p)
                    /\ DOMAIN db.package \ {p} \subseteq DOMAIN db'.package
<1>1. ASSUME NEW b \in BundleImages, AddOperatorBundle(b)
      PROVE  IInv' /\ PackagesKept
  BY <1>1, AddBundleStep, OwnInputs
<1>2. ASSUME NEW m \in Manifests, AddPackageChannels(m)
      PROVE  IInv' /\ PackagesKept
  BY Zenon, <1>2, BeginStep, OwnInputs DEF AddPackageChannels, IInv
<1>3. ASSUME NEW b \in BundleImages, NEW m \in Manifests,
             AddBundlePackageChannels(b, m)
      PROVE  IInv' /\ PackagesKept
  BY <1>3, AddBundleStep, OwnInputs
<1>4. ASSUME NEW p \in Pkgs, RemovePackage(p)
      PROVE  IInv' /\ DOMAIN db.package \ {p} \subseteq DOMAIN db'.package
  BY <1>4, RemovePackageStep
<1>5. CASE RemoveStrandedBundles \/ Strand
  BY <1>5, StrandStep DEF RemoveStrandedBundles, Strand
<1>6. ASSUME NEW path \in Paths, DeprecateBundle(path)
      PROVE  IInv' /\ PackagesKept
  BY <1>6, DeprecateBundleStep
<1>7. CASE ClearNonHeadBundles
  <2>1. /\ Sound(Cleared(db)) /\ Navigable(Cleared(db))
        /\ Cleared(db).package = db.package
    BY ClearedLemma DEF IInv
  <2> QED BY <1>7, <2>1, CommitLemma DEF ClearNonHeadBundles
<1>8. CASE Crash
  BY <1>8, RollbackLemma DEF Crash
<1>9. CASE UNCHANGED vars
  BY <1>9 DEF vars, IInv, TypeOK, PackagesKept
<1>10. CASE \/ NextChannel \/ VisitBundle \/ AddSkip \/ EndOfChain
            \/ ReplacesCycle \/ FollowReplaces \/ EndPackageChannels
  BY <1>10, NextChannelStep, VisitBundleStep, AddSkipStep, EndOfChainStep,
     ReplacesCycleStep, FollowReplacesStep, EndPackageChannelsStep
<1> QED BY ZenonT(30), <1>1, <1>2, <1>3, <1>4, <1>5, <1>6, <1>7, <1>8, <1>9, <1>10
        DEF Next, Step

\* IInv holds in every reachable state: of the committed index, and of the
\* transaction while addPackageChannels walks.
THEOREM InductiveInvariant == Spec => []IInv
<1>1. IInv /\ [Next]_vars => IInv'
  BY NextLemma
<1> QED BY <1>1, InitLemma, PTL DEF Spec

\* Every table, and every local of the walk, keeps its type.
THEOREM TypeCorrect == Spec => []TypeOK
<1>1. IInv => TypeOK
  BY DEF IInv
<1> QED BY <1>1, InductiveInvariant, PTL

\* For any bundles and manifests, and any order of adds, removals,
\* deprecations, failures and crashes, a committed index is navigable:
\* packages have a default channel of their own, channels a package and a head
\* that is in the index and in the channel.
THEOREM AlwaysNavigable == Spec => []CatalogNavigable
<1>1. IInv => CatalogNavigable
  BY DEF IInv, CatalogNavigable
<1> QED BY <1>1, InductiveInvariant, PTL

\* No cascade takes a package out of the index: one that leaves does so in
\* RemovePackage for that package.
THEOREM PackagesLeaveOnRequest == Spec => PackagesAreKept
<1> DEFINE Kept == \A p \in (DOMAIN db.package) \ (DOMAIN db'.package) :
                      RemovePackage(p)
<1>1. IInv /\ [Next]_vars => [Kept]_vars
  BY NextLemma DEF PackagesKept
<1>2. Spec => [][Kept]_vars
  BY <1>1, InductiveInvariant, PTL DEF Spec
<1> QED BY <1>2 DEF PackagesAreKept

=============================================================================
