----------------------------- MODULE SemverManifest -----------------------------
(***************************************************************************)
(* SemverPackageManifest: the channel heads and the default channel of a   *)
(* package, chosen by version from the list of its bundles.  In replaces   *)
(* mode loadManifestsReplaces calls it with the bundles the database lists *)
(* for the package, which come in no specified order, followed by the new  *)
(* ones, and gives the result to AddPackageChannels.                       *)
(*                                                                         *)
(* The input is chosen in the initial state.  A bundle is known by its     *)
(* position in the list, because two bundles may have the same version.    *)
(***************************************************************************)
EXTENDS Naturals, Sequences, FiniteSets

CONSTANTS
    Pkgs,       \* package names
    Chans,      \* channel names
    NULL,       \* no value: an empty string
    Inputs,     \* the lists of bundles that may be given
    Refused     \* the build-ids that are no prerelease: a number such as 001

\* A version with its build-id (0: none). The cores 0 and 1 are 0.0.0-z and
\* 0.0.0; higher ones are proper versions, in semver order.
Version == [core : Nat, build : Nat]

Zero  == [core |-> 1, build |-> 0]
Dummy == [core |-> 0, build |-> 0]

\* What the function reads of a bundle. The text of its version is empty, a
\* version or neither; "version" is its value when it is one.
Bundle ==
    [package : Pkgs, text : {"empty", "version", "invalid"}, version : Version,
     channels : Seq(Chans), default : Chans \cup {NULL}]

\* The errors it returns.
Errors ==
    {"package", "version", "compare", "max contested", "head contested", "no default"}

ASSUME ManifestAssumption ==
    /\ NULL \notin Chans \cup Errors
    /\ Pkgs # {}
    /\ Refused \subseteq Nat \ {0}
    /\ Inputs \subseteq Seq(Bundle)

VARIABLES
    bundles,    \* the argument
    pc,         \* "bundle", "channel" or "done"
    i, j,       \* the loop indices: bundle and channel
    current, heads, maxVersion, default,
    err         \* NULL or the reason of an error

vars == <<bundles, pc, i, j, current, heads, maxVersion, default, err>>

\* bundleVersion: name, version, count. Position 0 is the zero value.
BundleVersion == [name : Nat, version : Version, count : Nat]

NoBundle == [name |-> 0, version |-> Zero, count |-> 0]

TypeOK ==
    /\ bundles \in Seq(Bundle)
    /\ pc \in {"bundle", "channel", "done"}
    /\ i \in Nat \ {0} /\ j \in Nat \ {0}
    /\ current \in BundleVersion /\ maxVersion \in BundleVersion
    /\ DOMAIN heads \subseteq Chans
    /\ heads \in [DOMAIN heads -> BundleVersion]
    /\ default \in Chans \cup {NULL}
    /\ err \in Errors \cup {NULL}

Init ==
    /\ bundles \in Inputs
    /\ pc = "bundle" /\ i = 1 /\ j = 1
    /\ current = NoBundle /\ maxVersion = NoBundle
    /\ heads = [c \in {} |-> NoBundle]
    /\ default = NULL /\ err = NULL

-----------------------------------------------------------------------------

\* BuildIdCompare: semver precedence, and the build-id between equal versions.
LT(v, w) == v.core < w.core \/ (v.core = w.core /\ v.build < w.build)

\* The build-ids of equal versions are converted to prereleases, and either may
\* be refused.
CompareFails(v, w) == v.core = w.core /\ {v.build, w.build} \cap Refused # {}

VersionOf(b) == IF b.text = "empty" THEN Dummy ELSE b.version

Fail(e) ==
    /\ err' = e
    /\ pc' = "done"
    /\ UNCHANGED <<bundles, i, j, current, heads, maxVersion, default>>

\* The start of the loop body: the package, the version, and current.
VisitBundle ==
    /\ pc = "bundle" /\ i <= Len(bundles)
    /\ \/ /\ i > 1 /\ bundles[i].package # bundles[i-1].package
          /\ Fail("package")
       \/ /\ i > 1 => bundles[i].package = bundles[i-1].package
          /\ bundles[i].text = "invalid"
          /\ Fail("version")
       \/ /\ i > 1 => bundles[i].package = bundles[i-1].package
          /\ bundles[i].text # "invalid"
          /\ current' = [name |-> i, version |-> VersionOf(bundles[i]), count |-> 1]
          /\ pc' = "channel" /\ j' = 1
          /\ UNCHANGED <<bundles, i, heads, maxVersion, default, err>>

\* Mutant: an equal version is not counted.
NotCounted(v, other) == v

\* "count" is added when the two versions are equal.
Counted(v, other) ==
    IF v.version = other.version THEN [v EXCEPT !.count = @ + other.count] ELSE v

PutHead(c, v) ==
    heads' = [d \in (DOMAIN heads) \cup {c} |-> IF d = c THEN v ELSE heads[d]]

\* One channel of the bundle. A count that was added stays in current for the
\* channels that follow.
VisitChannel ==
    /\ pc = "channel" /\ j <= Len(bundles[i].channels)
    /\ LET c == bundles[i].channels[j]
       IN  \/ /\ c \notin DOMAIN heads
              /\ PutHead(c, current)
              /\ UNCHANGED current
           \/ /\ c \in DOMAIN heads /\ ~ CompareFails(current.version, heads[c].version)
              /\ LT(current.version, heads[c].version)
              /\ UNCHANGED <<current, heads>>
           \/ /\ c \in DOMAIN heads /\ ~ CompareFails(current.version, heads[c].version)
              /\ ~ LT(current.version, heads[c].version)
              /\ current' = Counted(current, heads[c])
              /\ PutHead(c, current')
    /\ j' = j + 1
    /\ UNCHANGED <<bundles, pc, i, maxVersion, default, err>>

\* Mutant: the first default channel is kept.
FirstDefault(b) == IF default = NULL THEN b.default ELSE default

\* "Take it when you can get it."
TakeDefault(b) == IF b.default # NULL THEN b.default ELSE default

\* The end of the loop body: the maximum, and the default channel with it.
EndBundle ==
    /\ pc = "channel" /\ j > Len(bundles[i].channels)
    /\ ~ CompareFails(current.version, maxVersion.version)
    /\ \/ /\ LT(current.version, maxVersion.version)
          /\ UNCHANGED <<current, maxVersion, default>>
       \/ /\ ~ LT(current.version, maxVersion.version)
          /\ current' = Counted(current, maxVersion)
          /\ maxVersion' = current'
          /\ default' = TakeDefault(bundles[i])
    /\ pc' = "bundle" /\ i' = i + 1
    /\ UNCHANGED <<bundles, j, heads, err>>

\* The comparison with the head of the channel, or with the maximum, reports an
\* error: the loops end.
CompareErrs ==
    /\ pc = "channel"
    /\ \/ /\ j <= Len(bundles[i].channels)
          /\ LET c == bundles[i].channels[j]
             IN  c \in DOMAIN heads /\ CompareFails(current.version, heads[c].version)
       \/ /\ j > Len(bundles[i].channels)
          /\ CompareFails(current.version, maxVersion.version)
    /\ Fail("compare")

\* Mutant: the default channel is not compared with the channels.
AnyDefaultFound == default # NULL \/ Cardinality(DOMAIN heads) = 1

DefaultFound ==
    \/ Cardinality(DOMAIN heads) = 1 /\ default = NULL
    \/ default \in DOMAIN heads

\* After the loop: the checks, and the manifest when they pass.
Finish ==
    /\ pc = "bundle" /\ i > Len(bundles)
    /\ \/ maxVersion.count > 1 /\ Fail("max contested")
       \/ /\ maxVersion.count <= 1
          /\ \E c \in DOMAIN heads : heads[c].count > 1
          /\ Fail("head contested")
       \/ /\ maxVersion.count <= 1
          /\ \A c \in DOMAIN heads : heads[c].count <= 1
          /\ ~ DefaultFound
          /\ Fail("no default")
       \/ /\ maxVersion.count <= 1
          /\ \A c \in DOMAIN heads : heads[c].count <= 1
          /\ DefaultFound
          /\ pc' = "done"
          /\ default' = IF Cardinality(DOMAIN heads) = 1
                        THEN CHOOSE c \in DOMAIN heads : TRUE ELSE default
          /\ UNCHANGED <<bundles, i, j, current, heads, maxVersion, err>>

Next == VisitBundle \/ VisitChannel \/ EndBundle \/ CompareErrs \/ Finish

Spec == Init /\ [][Next]_vars

-----------------------------------------------------------------------------

Accepted == pc = "done" /\ err = NULL

\* The bundles of a channel.
In(c) == {k \in DOMAIN bundles :
            \E l \in DOMAIN bundles[k].channels : bundles[k].channels[l] = c}

\* BuildIdCompare says that v is lower than w.
Lower(v, w) == ~ CompareFails(v, w) /\ LT(v, w)

\* The head of every channel of an accepted manifest is a bundle of the channel
\* that every other one compares lower to: whatever the order of the list, no
\* older bundle, no contested head and none that cannot be compared is chosen.
HeadsAreHighest ==
    Accepted => \A c \in DOMAIN heads :
        /\ heads[c].name \in In(c)
        /\ \A k \in In(c) \ {heads[c].name} :
               Lower(VersionOf(bundles[k]), VersionOf(bundles[heads[c].name]))

\* An accepted manifest has a head for each channel some bundle is in and for
\* no other, and its default channel is one of them: what AddPackageChannels
\* needs to publish every bundle and to set the default channel.
ManifestIsComplete ==
    Accepted =>
        /\ \A c \in Chans : c \in DOMAIN heads <=> In(c) # {}
        /\ default \in DOMAIN heads

\* Bundles of one package with distinct proper versions that can be compared with
\* each other, none of which names a channel twice.
Proper ==
    /\ \A k \in DOMAIN bundles :
          /\ bundles[k].text = "version" /\ Lower(Zero, bundles[k].version)
          /\ \A l, m \in DOMAIN bundles[k].channels :
                l # m => bundles[k].channels[l] # bundles[k].channels[m]
    /\ \A k, l \in DOMAIN bundles :
          /\ bundles[k].package = bundles[l].package
          /\ k # l => /\ bundles[k].version # bundles[l].version
                      /\ ~ CompareFails(bundles[k].version, bundles[l].version)

\* The bundle at h is the highest and names a default channel that some bundle
\* is in.
Favoured(h) ==
    /\ \A k \in DOMAIN bundles \ {h} : LT(bundles[k].version, bundles[h].version)
    /\ bundles[h].default \in Chans /\ In(bundles[h].default) # {}

\* Proper bundles are accepted, in any order (so that no build-id that would be
\* refused is looked at where the versions differ without it), when the highest one names a
\* default channel that some bundle is in, and that is the default channel of
\* the manifest. (A bundle that names a channel twice contests its own head.)
DistinctVersionsAccepted ==
    pc = "done" /\ Proper =>
        \A h \in DOMAIN bundles :
            Favoured(h) => err = NULL /\ default = bundles[h].default

=============================================================================
