------------------------------ MODULE ChannelSets ------------------------------
(***************************************************************************)
(* What adding bundles in semver mode promises, without graphs, entries or *)
(* transactions: a channel is a set of bundles of different versions, and  *)
(* a bundle is published in all of its channels at once.                   *)
(***************************************************************************)
CONSTANTS
    Bundles,        \* the bundles
    Channels,       \* the channels, each of one package
    ChannelsOf,     \* the channels each bundle is published in
    VersionOf       \* the version of each bundle

VARIABLE members    \* the bundles of each channel

Init == members = [k \in Channels |-> {}]

Publish(n) ==
    /\ \A k \in ChannelsOf[n] : \A m \in members[k] : VersionOf[m] # VersionOf[n]
    /\ members' = [k \in Channels |->
                     IF k \in ChannelsOf[n] THEN members[k] \cup {n} ELSE members[k]]

\* Channels are removed as a whole: with their package, or because they start
\* with a bundle that is deprecated.
Withdraw(K) ==
    members' = [k \in Channels |-> IF k \in K THEN {} ELSE members[k]]

Next ==
    \/ \E n \in Bundles : Publish(n)
    \/ \E K \in SUBSET Channels : Withdraw(K)

Spec == Init /\ [][Next]_members

=============================================================================
