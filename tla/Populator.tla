------------------------------- MODULE Populator -------------------------------
(***************************************************************************)
(* "opm index add" in replaces mode, with and without --overwrite-latest:  *)
(* populate (pkg/lib/registry) finds the images that overwrite a bundle    *)
(* and pulls the other bundles of their packages again, and the            *)
(* DirectoryPopulator (pkg/registry) checks the request, removes the       *)
(* overwritten packages, adds every image and regenerates the packages.    *)
(* Each call of the loader is a transaction of its own (SqlLoader).        *)
(*                                                                         *)
(* Between two adds the index is changed by the other commands: directory  *)
(* loads, removals, prunes and deprecations of SqlLoader.                  *)
(***************************************************************************)
EXTENDS SqlLoader

CONSTANTS
    Images,         \* the bundle images that exist
    VersionOf,      \* the version of each bundle name
    MaxRequest,     \* bound: the most images one request names
    MaxID           \* bound: no add starts when an entry id would exceed it

\* An image: its bundle, and the channels it is annotated with, and the default
\* channel, if any.
Image ==
    [bundle : Bundle, channels : (SUBSET Chans) \ {{}}, default : Chans \cup {NULL}]

\* Image references are immutable, also for the bundles that the other commands
\* add. Within a package versions are distinct and can be compared (SemverManifest
\* has the other cases); any bundles (there are finitely many) have a highest one.
ASSUME PopulatorAssumption ==
    /\ MaxRequest \in Nat /\ MaxID \in Nat
    /\ Images \subseteq Image
    /\ VersionOf \in [Names -> Nat]
    /\ \A m, n \in Names :
          PkgOf[m] = PkgOf[n] /\ VersionOf[m] = VersionOf[n] => m = n
    /\ \A a, b \in Images : a.bundle.path = b.bundle.path => a = b
    /\ \A b \in BundleImages : b.path # NULL =>
          \E a \in Images : a.bundle.path = b.path /\ a.bundle.name = b.name
    /\ \A N \in (SUBSET Names) \ {{}} :
          \E n \in N : \A m \in N : VersionOf[m] <= VersionOf[n]
    /\ \A a \in Images :
          LET b == a.bundle
          IN  /\ b.path # NULL
              /\ b.replaces # NULL => PkgOf[b.replaces] = PkgOf[b.name]
              /\ \A i \in DOMAIN b.skips : PkgOf[b.skips[i]] = PkgOf[b.name]

VARIABLE job    \* the locals of populate and of the DirectoryPopulator

popVars == <<db, tx, pc, w, job>>

\* The locals: the request, what is left of unpackedImageMap and which of its
\* images were visited, the images and the packages of overwriteImageMap, the
\* images added of packages that are not regenerated yet ("packages"), and
\* whether errs is non-empty. "had" is history: the bundles listed at the start.
NoJob ==
    [stage |-> "none", request |-> {}, overwrite |-> FALSE, unpacked |-> {},
     visited |-> {}, readd |-> {}, rm |-> {}, added |-> {}, errs |-> FALSE,
     had |-> {}]

PopInit == Init /\ job = NoJob

PackageOf(img) == PkgOf[img.bundle.name]

ImageAt(path) == CHOOSE img \in Images : img.bundle.path = path

\* GetBundlesForPackage: the bundles of the index that have an entry in p.
BundlesForPackage(t, p) == CSVNames(t, p) \cap DOMAIN t.operatorbundle

Listed(t) == UNION {BundlesForPackage(t, p) : p \in Pkgs}

PathOf(t, n) == t.operatorbundle[n].path

-----------------------------------------------------------------------------
(***************************************************************************)
(* populate                                                                *)
(***************************************************************************)

\* The images are pulled; when one cannot be, nothing happens.
StartAdd(S, overwrite) ==
    /\ pc = "idle" /\ job.stage = "none"
    /\ NextID(db) <= MaxID
    /\ job' = [NoJob EXCEPT !.stage = "find", !.request = S,
                            !.overwrite = overwrite, !.unpacked = S,
                            !.had = Listed(db)]
    /\ UNCHANGED vars

\* Mutant: only the given image goes to overwriteImageMap.
OverwritesGiven(img) ==
    IF img.bundle.name \in BundlesForPackage(db, PackageOf(img)) THEN {img} ELSE {}

\* The images that go to overwriteImageMap with img: the bundles of its package
\* are pulled from where the index says they are, img itself is taken as given.
Overwrites(img) ==
    LET n == img.bundle.name
        listed == BundlesForPackage(db, PackageOf(img))
    IN  {ImageAt(PathOf(db, b)) : b \in listed \ {n}} \cup
        (IF n \in listed THEN {img} ELSE {})

\* A bundle that has no image cannot be overwritten, nor pulled again.
OverwriteFails(img) ==
    LET n == img.bundle.name
    IN  \E b \in BundlesForPackage(db, PackageOf(img)) \cup {n} :
            PathOf(db, b) = NULL

\* One iteration over unpackedImageMap, in the order of a Go map; entries that
\* an iteration deletes are not visited.
FindOverwrites(img) ==
    /\ job.stage = "find" /\ job.overwrite
    /\ img \in job.unpacked \ job.visited
    /\ job' =
          IF img.bundle.name \notin DOMAIN db.operatorbundle
          THEN [job EXCEPT !.visited = @ \cup {img}]
          ELSE IF OverwriteFails(img) THEN NoJob
          ELSE [job EXCEPT !.visited = @ \cup {img},
                           !.unpacked = @ \ Overwrites(img),
                           !.readd = @ \cup Overwrites(img),
                           !.rm = @ \cup {PackageOf(img)}]
    /\ UNCHANGED vars

-----------------------------------------------------------------------------
(***************************************************************************)
(* globalSanityCheck                                                       *)
(***************************************************************************)

\* GetBundlePathsForPackage fails: the check is given up, without error.
Malformed(img) ==
    \E b \in BundlesForPackage(db, PackageOf(img)) : PathOf(db, b) = NULL

\* "Bundle already exists"
AlreadyExists(img) ==
    \E b \in BundlesForPackage(db, PackageOf(img)) :
        PathOf(db, b) \in {i.bundle.path : i \in job.unpacked}

\* The entries GetBundle finds for the image's bundle in a channel.
EntriesFor(img, k) ==
    {i \in DOMAIN db.channel_entry :
        /\ ChannelOf(db.channel_entry[i]) = k
        /\ db.channel_entry[i].bundle = img.bundle.name
        /\ img.bundle.name \in DOMAIN db.operatorbundle}

\* The channels of its package that the bundle is in.
InChannels(img) ==
    {k \in DOMAIN db.channel : k[2] = PackageOf(img) /\ EntriesFor(img, k) # {}}

\* GetBundleThatReplaces finds one: "Cannot overwrite a bundle that is not at
\* the head of a channel".
MidChannel(img) ==
    \E k \in InChannels(img) :
        \E i \in EntriesFor(img, k), j \in DOMAIN db.channel_entry :
            /\ db.channel_entry[j].replaces = i
            /\ db.channel_entry[j].bundle \in DOMAIN db.operatorbundle

ValidOverwrite(img) ==
    job.overwrite /\ InChannels(img) # {} /\ ~ MidChannel(img)

\* "Cannot overwrite more than one bundle at a time for a given package"
TwoOverwrites ==
    \E a, b \in job.unpacked :
        /\ a # b /\ PackageOf(a) = PackageOf(b)
        /\ ValidOverwrite(a) /\ ValidOverwrite(b)

SanityErrors ==
    \/ TwoOverwrites
    \/ \E img \in job.unpacked :
          \/ AlreadyExists(img)
          \/ ~ job.overwrite /\ InChannels(img) # {}
          \/ job.overwrite /\ MidChannel(img)

SanityGivenUp == \E img \in job.unpacked : Malformed(img)

\* The loop over unpackedImageMap is over.
Found ==
    job.stage = "find" /\ (job.overwrite => job.unpacked \subseteq job.visited)

SanityPass ==
    /\ Found
    /\ ~ SanityErrors \/ SanityGivenUp
    /\ job' = [job EXCEPT !.stage = "load"]
    /\ UNCHANGED vars

\* Only the check for two overwrites ends the loop before a malformed package
\* is met.
SanityFail ==
    /\ Found
    /\ SanityErrors /\ (SanityGivenUp => TwoOverwrites)
    /\ job' = NoJob
    /\ UNCHANGED vars

-----------------------------------------------------------------------------
(***************************************************************************)
(* loadManifests and loadManifestsReplaces                                 *)
(***************************************************************************)

\* The packages to overwrite are removed first; an error ends the call.
RemoveNext(p) ==
    /\ job.stage = "load" /\ p \in job.rm
    /\ RemovePackage(p)
    /\ job' = IF DeferredForeignKeys(WithoutPackage(db, p))
              THEN [job EXCEPT !.rm = @ \ {p}] ELSE NoJob

\* The second transaction of RemovePackage.
StrandNext ==
    /\ Strand
    /\ job' = IF DeferredForeignKeys(DeleteBundles(db, Stranded(db)))
              THEN job ELSE NoJob

\* Mutant: an image that is refused is tried again.
AddNextAgain(img) ==
    /\ job.stage = "load" /\ job.rm = {}
    /\ img \in IF job.unpacked # {} THEN job.unpacked ELSE job.readd
    /\ AddOperatorBundle(img.bundle)
    /\ job' = IF Refused(db, img.bundle) THEN [job EXCEPT !.errs = TRUE]
              ELSE [job EXCEPT !.unpacked = @ \ {img}, !.readd = @ \ {img},
                               !.added = @ \cup {img}]

\* imagesToAdd come before imagesToReAdd, each in the order of a Go map. An
\* image that is refused is left out.
AddNext(img) ==
    /\ job.stage = "load" /\ job.rm = {}
    /\ img \in IF job.unpacked # {} THEN job.unpacked ELSE job.readd
    /\ AddOperatorBundle(img.bundle)
    /\ job' = [job EXCEPT
                  !.unpacked = @ \ {img}, !.readd = @ \ {img},
                  !.added = IF Refused(db, img.bundle) THEN @ ELSE @ \cup {img},
                  !.errs = @ \/ Refused(db, img.bundle)]

Added == job.stage = "load" /\ job.rm = {} /\ job.unpacked = {} /\ job.readd = {}

\* Mutant: the bundles that are already in the index are forgotten.
ExistingNone(p) == {}

\* ListRegistryBundles: what the index has of the package, in the channels of
\* their entries and with the package's default channel.
Existing(p) ==
    {[name     |-> n,
      channels |-> {db.channel_entry[i].channel :
                      i \in {j \in DOMAIN db.channel_entry :
                                db.channel_entry[j].bundle = n}},
      default  |-> IF p \in DOMAIN db.package THEN db.package[p] ELSE NULL] :
        n \in BundlesForPackage(db, p)}

New(p) ==
    {[name |-> img.bundle.name, channels |-> img.channels,
      default |-> img.default] : img \in {i \in job.added : PackageOf(i) = p}}

\* The bundle of the highest version.
Highest(S) == CHOOSE b \in S : \A a \in S : VersionOf[a.name] <= VersionOf[b.name]

Within(S, c) == {b \in S : c \in b.channels}

\* The default channels that the loop of SemverPackageManifest can end with: that of
\* the highest bundle or, when it names none, that of a bundle that was the highest so
\* far. The bundles of the index come first, the new ones in the order of a Go map.
Defaults(p) ==
    LET S == Existing(p) \cup New(p)
        records == {n \in New(p) : \A e \in Existing(p) :
                        VersionOf[e.name] <= VersionOf[n.name]}
    IN  IF Highest(S).default # NULL THEN {Highest(S).default}
        ELSE {b.default : b \in {n \in records : n.default # NULL}} \cup
             (IF Existing(p) = {} THEN {NULL} ELSE {e.default : e \in Existing(p)})

\* SemverPackageManifest on bundles with distinct versions (SemverManifest has
\* its loop, and any list of bundles): the highest bundle of each channel, and
\* the default channel.
SemverPackageManifest(p, default) ==
    LET S == Existing(p) \cup New(p)
        C == UNION {b.channels : b \in S}
    IN  [package |-> p,
         heads   |-> [c \in C |-> Highest(Within(S, c)).name],
         default |-> IF Cardinality(C) = 1 THEN CHOOSE c \in C : TRUE ELSE default]

\* A bundle that is both listed (an entry was made for it when it was skipped or
\* replaced) and new counts twice, and contests the head of a channel; and the
\* default channel must have a head, or there be one channel only.
ManifestFails(p, default) ==
    LET S == Existing(p) \cup New(p)
        Twice(T) == \E e \in Existing(p) \cap T, n \in New(p) \cap T :
                        e.name = n.name /\ e.name = Highest(T).name
    IN  \/ Twice(S)
        \/ \E c \in Chans : Within(S, c) # {} /\ Twice(Within(S, c))
        \/ IF default = NULL THEN Cardinality(UNION {b.channels : b \in S}) # 1
           ELSE Within(S, default) = {}

\* The count of a bundle that contests the head of a channel is still 2 when it
\* becomes the head of the next one; whether a higher bundle has come before is up
\* to the order of a Go map.
CountTravels(p) ==
    LET S == Existing(p) \cup New(p)
    IN  \E e \in Existing(p), n \in New(p) :
            /\ e.name = n.name
            /\ \E c \in e.channels \cap n.channels : Highest(Within(Existing(p), c)) = e
            /\ \E c \in n.channels : Highest(Within(S, c)) = n

Regenerate(p) ==
    /\ Added /\ pc = "idle"
    /\ New(p) # {}
    /\ LET done == [job EXCEPT !.added = {i \in @ : PackageOf(i) # p}]
       IN  \E default \in Defaults(p) :
              \/ /\ ManifestFails(p, default) \/ CountTravels(p)
                 /\ UNCHANGED vars /\ job' = [done EXCEPT !.errs = TRUE]
              \/ /\ ~ ManifestFails(p, default)
                 /\ AddPackageChannels(SemverPackageManifest(p, default))
                 /\ job' = done

\* Mutant: the error of AddPackageChannels is dropped.
EndRegenerateNoError == EndPackageChannels /\ UNCHANGED job

EndRegenerate ==
    /\ EndPackageChannels
    /\ job' = IF job.stage = "load"
              THEN [job EXCEPT !.errs = @ \/ w.errs \/ ~ DeferredForeignKeys(tx)]
              ELSE job

\* The call returns, with an error if there was one.
Finish ==
    /\ Added /\ pc = "idle" /\ job.added = {}
    /\ job' = NoJob
    /\ UNCHANGED vars

-----------------------------------------------------------------------------
(***************************************************************************)
(* The other commands (one that makes several calls of the loader is       *)
(* several steps), and the process dying at any point.                     *)
(***************************************************************************)

OtherCommand ==
    /\ job.stage = "none"
    /\ \/ \E b \in BundleImages, m \in Manifests : AddBundlePackageChannels(b, m)
       \/ \E p \in Pkgs : RemovePackage(p)
       \/ RemoveStrandedBundles
       \/ \E path \in Paths : DeprecateBundle(path)
    /\ UNCHANGED job

PopCrash ==
    /\ pc # "idle" \/ job.stage # "none"
    /\ Return(db)
    /\ job' = NoJob

\* The steps of a call that runs.
PopStep ==
    \/ \E img \in Images : FindOverwrites(img)
    \/ SanityPass
    \/ SanityFail
    \/ \E p \in Pkgs : RemoveNext(p)
    \/ StrandNext
    \/ \E img \in Images : AddNext(img)
    \/ \E p \in Pkgs : Regenerate(p)
    \/ NextChannel /\ UNCHANGED job
    \/ VisitBundle /\ UNCHANGED job
    \/ AddSkip /\ UNCHANGED job
    \/ EndOfChain /\ UNCHANGED job
    \/ ReplacesCycle /\ UNCHANGED job
    \/ FollowReplaces /\ UNCHANGED job
    \/ EndRegenerate
    \/ Finish

PopNext ==
    \/ \E S \in SUBSET Images, overwrite \in BOOLEAN :
          S # {} /\ Cardinality(S) <= MaxRequest /\ StartAdd(S, overwrite)
    \/ OtherCommand
    \/ PopStep
    \/ PopCrash

PopSpec == PopInit /\ [][PopNext]_popVars /\ WF_popVars(PopStep)

-----------------------------------------------------------------------------
(***************************************************************************)
(* Properties                                                              *)
(***************************************************************************)

\* A call that returns no error has stored every image of its request under its
\* bundle's name, and lost no bundle that the index listed before: with
\* --overwrite-latest the packages are removed, and all of their bundles are
\* added again, each in a transaction of its own.
AddStores ==
    [][Finish /\ ~ job.errs =>
          /\ \A img \in job.request :
                /\ img.bundle.name \in DOMAIN db.operatorbundle
                /\ PathOf(db, img.bundle.name) = img.bundle.path
          /\ job.had \subseteq DOMAIN db.operatorbundle]_popVars

\* The head of a channel of the package, and NULL if there is no such channel.
HeadOf(t, c, p) == IF <<c, p>> \in DOMAIN t.channel THEN t.channel[<<c, p>>] ELSE NULL

\* A call that returns no error has published its images: each channel of an
\* image has a head of at least the image's version ("the head of every channel
\* will always be the bundle in that channel with the highest version field
\* defined", docs/design/opm-tooling.md). A channel whose head would be a
\* deprecated bundle is left out.
AddPublishes ==
    [][Finish /\ ~ job.errs =>
          \A img \in job.request : \A c \in img.channels :
              LET h == HeadOf(db, c, PackageOf(img))
              IN  IF h = NULL
                  THEN \E n \in db.deprecated :
                          /\ PkgOf[n] = PackageOf(img)
                          /\ VersionOf[n] >= VersionOf[img.bundle.name]
                  ELSE VersionOf[h] >= VersionOf[img.bundle.name]]_popVars

\* Without --overwrite-latest an add, whether it succeeds, fails or dies at any
\* point, takes no package away, and no channel goes away or back to a head of
\* a lower version: only a channel whose new head is a deprecated bundle goes.
NeverGoesBack ==
    [][job.stage # "none" /\ ~ job.overwrite =>
          /\ DOMAIN db.package \subseteq DOMAIN db'.package
          /\ \A k \in DOMAIN db.channel :
                IF k \in DOMAIN db'.channel
                THEN VersionOf[db.channel[k]] <= VersionOf[db'.channel[k]]
                ELSE \E n \in db.deprecated :
                        /\ PkgOf[n] = k[2]
                        /\ VersionOf[db.channel[k]] < VersionOf[n]]_popVars

\* Every add comes to an end. Fairness: the steps of a call are those of one
\* sequential process.
AddEnds == [](job.stage # "none" => <>(job.stage = "none"))

=============================================================================
