------------------------------- MODULE MixedIndex -------------------------------
(***************************************************************************)
(* One index, to which "opm registry add" adds some packages in semver     *)
(* mode and others in replaces mode: the mode is a flag of the command.    *)
(* AddPackageChannelsFromGraph gives a head depth 1, addPackageChannels    *)
(* gives it depth 0.                                                       *)
(***************************************************************************)
EXTENDS SemverLoader, Querier

MixedNext ==
    \/ SemverNext
    \/ /\ UNCHANGED g
       /\ \/ \E b \in BundleImages, m \in Manifests : AddBundlePackageChannels(b, m)
          \/ Step

MixedSpec == SemverInit /\ [][MixedNext]_semverVars

\* "determines a single "replaces" value per bundle per channel by recursively
\* following "replaces" references beginning from the entries with minimal depth,
\* which represent channel heads" (listBundlesQuery): a channel head that
\* replaces a bundle in its channel is listed with what it replaces.
HeadsListReplaces ==
    pc = "idle" => \A b \in ListBundles(db) :
        /\ <<b.channel, b.package>> \in DOMAIN db.channel
        /\ db.channel[<<b.channel, b.package>>] = b.csvName
        /\ ReplacedFrom(db, DOMAIN db.channel_entry, b.package, b.channel, b.csvName) # {}
        => b.replaces # NULL

=============================================================================
