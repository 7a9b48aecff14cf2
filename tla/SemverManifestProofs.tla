-------------------------- MODULE SemverManifestProofs --------------------------
(***************************************************************************)
(* Proofs that SemverPackageManifest chooses the strictly highest bundle   *)
(* of each channel and a complete manifest, for lists of any length, any   *)
(* versions and any channels.                                              *)
(***************************************************************************)
EXTENDS SemverManifest, FiniteSetTheorems, TLAPS

\* The bundles of channel c that the loops have compared so far.
Seen(c) ==
    {k \in DOMAIN bundles :
        \E l \in DOMAIN bundles[k].channels :
            /\ bundles[k].channels[l] = c
            /\ k < i \/ (k = i /\ pc = "channel" /\ l < j)}

\* h is as high as every bundle of S, can be compared with the others, and is
\* higher than they are when its count is one.
TopOf(h, S) ==
    /\ h.count >= 1
    /\ h.name \in S
    /\ h.version = VersionOf(bundles[h.name])
    /\ \A k \in S : ~ LT(h.version, VersionOf(bundles[k]))
    /\ \A k \in S \ {h.name} : ~ CompareFails(VersionOf(bundles[k]), h.version)
    /\ h.count = 1 => \A k \in S \ {h.name} : LT(VersionOf(bundles[k]), h.version)

\* Inside the loop over channels, current is the bundle at i.
CurrentInv ==
    pc = "channel" =>
        /\ i \in DOMAIN bundles
        /\ current.name = i
        /\ current.version = VersionOf(bundles[i])
        /\ current.count >= 1

\* Until an error, the head of each channel is the top of what was seen of it.
HeadsInv ==
    err = NULL => \A c \in Chans :
        /\ c \in DOMAIN heads <=> Seen(c) # {}
        /\ c \in DOMAIN heads => TopOf(heads[c], Seen(c))

\* A list that was accepted was read to the end and passed the checks.
AcceptedInv ==
    /\ pc # "done" => err = NULL
    /\ Accepted => /\ i > Len(bundles)
                   /\ \A c \in DOMAIN heads : heads[c].count <= 1
                   /\ default \in DOMAIN heads

IInv == TypeOK /\ CurrentInv /\ HeadsInv /\ AcceptedInv

-----------------------------------------------------------------------------

\* The order of versions is total: neither is less only when they are equal.
LEMMA LTTotal ==
    ASSUME NEW u \in Version, NEW v \in Version
    PROVE  /\ ~ LT(u, u)
           /\ LT(u, v) => ~ LT(v, u)
           /\ LT(u, v) \/ LT(v, u) \/ u = v
BY DEF LT, Version

\* It is transitive, also through an equal version.
LEMMA LTTransitive ==
    ASSUME NEW u \in Version, NEW v \in Version, NEW x \in Version,
           LT(u, v), ~ LT(x, v)
    PROVE  LT(u, x)
BY DEF LT, Version

\* Between a version that compares with the top and one that compares below the
\* top there is no comparison that fails: the cores are those of the top.
LEMMA ComparesThrough ==
    ASSUME NEW u \in Version, NEW v \in Version, NEW x \in Version,
           ~ CompareFails(u, v) \/ u = v, ~ CompareFails(x, v),
           ~ LT(v, u), ~ LT(x, v)
    PROVE  ~ CompareFails(u, x)
BY DEF CompareFails, LT, Version

\* A bundle that passed the version check has a version.
LEMMA VersionOfType ==
    ASSUME NEW b \in Bundle
    PROVE  VersionOf(b) \in Version
BY DEF VersionOf, Bundle, Dummy, Version

\* The bundles of the argument are bundles.
LEMMA BundlesType ==
    ASSUME TypeOK, NEW k \in DOMAIN bundles
    PROVE  bundles[k] \in Bundle /\ VersionOf(bundles[k]) \in Version
BY VersionOfType DEF TypeOK

\* Counting keeps the type of a bundle version.
LEMMA CountedType ==
    ASSUME NEW v \in BundleVersion, NEW h \in BundleVersion
    PROVE  Counted(v, h) \in BundleVersion
BY DEF Counted, BundleVersion

\* A new bundle that is not lower than the top of S is the top of S with it,
\* once the count of an equal top is added.
LEMMA NewTop ==
    ASSUME TypeOK, NEW h \in BundleVersion, NEW S \in SUBSET DOMAIN bundles,
           TopOf(h, S), NEW v \in BundleVersion, v.name \in DOMAIN bundles,
           v.version = VersionOf(bundles[v.name]), v.count >= 1,
           ~ CompareFails(v.version, h.version), ~ LT(v.version, h.version)
    PROVE  TopOf(Counted(v, h), S \cup {v.name})
<1> DEFINE w == Counted(v, h)
<1>1. /\ w \in BundleVersion /\ w.name = v.name /\ w.version = v.version
      /\ w.count = IF v.version = h.version THEN v.count + h.count ELSE v.count
  BY DEF Counted, BundleVersion
<1>2. w.count >= 1 /\ (w.count = 1 => v.version # h.version)
  BY <1>1 DEF TopOf, BundleVersion
<1>3. v.version \in Version /\ h.version \in Version
  BY DEF BundleVersion
<1>4. ASSUME NEW k \in S
      PROVE  ~ LT(v.version, VersionOf(bundles[k]))
  <2>1. VersionOf(bundles[k]) \in Version /\ ~ LT(h.version, VersionOf(bundles[k]))
    BY BundlesType DEF TopOf
  <2> QED BY <2>1, <1>3, LTTotal, LTTransitive
<1>5. ASSUME w.count = 1, NEW k \in S
      PROVE  LT(VersionOf(bundles[k]), v.version)
  <2>1. VersionOf(bundles[k]) \in Version /\ ~ LT(h.version, VersionOf(bundles[k]))
    BY BundlesType DEF TopOf
  <2>2. LT(h.version, v.version)
    BY <1>2, <1>3, <1>5, LTTotal
  <2> QED BY <2>1, <2>2, <1>3, LTTotal, LTTransitive
<1>6. ~ LT(v.version, v.version)
  BY <1>3, LTTotal
<1>7. ASSUME NEW k \in S
      PROVE  ~ CompareFails(VersionOf(bundles[k]), v.version)
  <2>1. /\ VersionOf(bundles[k]) \in Version /\ ~ LT(h.version, VersionOf(bundles[k]))
        /\ ~ CompareFails(VersionOf(bundles[k]), h.version)
              \/ VersionOf(bundles[k]) = h.version
    BY BundlesType DEF TopOf
  <2> QED BY <2>1, <1>3, ComparesThrough
<1> QED BY <1>1, <1>2, <1>4, <1>5, <1>6, <1>7 DEF TopOf

\* A new bundle that is lower than the top of S leaves it the top.
LEMMA OldTop ==
    ASSUME TypeOK, NEW h \in BundleVersion, NEW S \in SUBSET DOMAIN bundles,
           TopOf(h, S), NEW n \in DOMAIN bundles,
           ~ CompareFails(VersionOf(bundles[n]), h.version),
           LT(VersionOf(bundles[n]), h.version)
    PROVE  TopOf(h, S \cup {n})
<1>1. VersionOf(bundles[n]) \in Version /\ h.version \in Version
  BY BundlesType DEF BundleVersion
<1>2. ~ LT(h.version, VersionOf(bundles[n]))
  BY <1>1, LTTotal
<1> QED BY <1>2 DEF TopOf

\* The first bundle of a channel is its top.
LEMMA FirstTop ==
    ASSUME TypeOK, NEW v \in BundleVersion, v.name \in DOMAIN bundles,
           v.version = VersionOf(bundles[v.name]), v.count >= 1
    PROVE  TopOf(v, {v.name})
BY LTTotal DEF TopOf, BundleVersion

-----------------------------------------------------------------------------

\* The indices of the loops are numbers.
LEMMA Indices ==
    ASSUME TypeOK
    PROVE  /\ i \in Nat /\ j \in Nat
           /\ \A k \in DOMAIN bundles :
                /\ k \in Nat
                /\ Len(bundles[k].channels) \in Nat
                /\ DOMAIN bundles[k].channels = 1..Len(bundles[k].channels)
BY BundlesType DEF TypeOK, Bundle

\* What was seen does not change in a step between two channels.
LEMMA SeenKept ==
    ASSUME bundles' = bundles, i' = i, pc = "bundle",
           pc' # "channel" \/ j' = 1, TypeOK, NEW c \in Chans
    PROVE  Seen(c)' = Seen(c)
<1>1. ASSUME NEW k \in DOMAIN bundles, NEW l \in DOMAIN bundles[k].channels
      PROVE  (k = i /\ pc' = "channel" /\ l < j') <=> (k = i /\ pc = "channel" /\ l < j)
  BY Indices
<1> QED BY <1>1 DEF Seen

\* A step that keeps the heads and what was seen keeps HeadsInv.
LEMMA HeadsKept ==
    ASSUME HeadsInv, bundles' = bundles, heads' = heads, err' = err,
           \A c \in Chans : Seen(c)' = Seen(c)
    PROVE  HeadsInv'
BY DEF HeadsInv, TopOf

\* The invariant holds before the first bundle.
LEMMA InitLemma == Init => IInv
<1> SUFFICES ASSUME Init PROVE IInv OBVIOUS
<1>1. TypeOK
  BY ManifestAssumption DEF Init, TypeOK, NoBundle, BundleVersion, Version, Zero
<1>2. \A c \in Chans : Seen(c) = {}
  BY <1>1 DEF Init, Seen, TypeOK
<1> QED BY <1>1, <1>2 DEF Init, IInv, CurrentInv, HeadsInv, AcceptedInv, Accepted

\* An error ends the function and changes nothing else.
LEMMA FailLemma ==
    ASSUME IInv, NEW e \in Errors, Fail(e)
    PROVE  IInv'
<1>1. TypeOK' BY DEF IInv, TypeOK, Fail
<1>2. CurrentInv' BY DEF Fail, CurrentInv
<1>3. HeadsInv' BY ManifestAssumption DEF Fail, HeadsInv
<1>4. AcceptedInv' BY ManifestAssumption DEF Fail, AcceptedInv, Accepted
<1> QED BY <1>1, <1>2, <1>3, <1>4 DEF IInv

\* So does a comparison that fails.
LEMMA CompareErrsLemma == IInv /\ CompareErrs => IInv'
BY FailLemma DEF CompareErrs, Errors

\* The start of a bundle keeps the invariant.
LEMMA VisitBundleLemma == IInv /\ VisitBundle => IInv'
<1> SUFFICES ASSUME IInv, VisitBundle PROVE IInv' OBVIOUS
<1>1. CASE \E e \in Errors : Fail(e)
  BY <1>1, FailLemma DEF VisitBundle
<1>2. CASE /\ bundles[i].text # "invalid"
           /\ current' = [name |-> i, version |-> VersionOf(bundles[i]), count |-> 1]
           /\ pc' = "channel" /\ j' = 1
           /\ UNCHANGED <<bundles, i, heads, maxVersion, default, err>>
  <2>1. i \in DOMAIN bundles /\ VersionOf(bundles[i]) \in Version
    BY BundlesType DEF IInv, TypeOK, VisitBundle
  <2>2. TypeOK' BY <1>2, <2>1 DEF IInv, TypeOK, BundleVersion
  <2>3. CurrentInv' BY <1>2, <2>1 DEF CurrentInv, VersionOf
  <2>4. \A c \in Chans : Seen(c)' = Seen(c)
    BY <1>2, SeenKept DEF IInv, VisitBundle
  <2>5. HeadsInv' BY <1>2, <2>4, HeadsKept DEF IInv
  <2>6. AcceptedInv' BY <1>2 DEF IInv, AcceptedInv, Accepted, VisitBundle
  <2> QED BY <2>2, <2>3, <2>5, <2>6 DEF IInv
<1> QED BY <1>1, <1>2, Zenon DEF VisitBundle, Errors

\* A step over a channel keeps the invariant: the bundle joins what was seen of
\* that channel, and the head is the top of it.
LEMMA VisitChannelLemma == IInv /\ VisitChannel => IInv'
<1> SUFFICES ASSUME IInv, VisitChannel PROVE IInv' OBVIOUS
<1>0. /\ i \in DOMAIN bundles /\ bundles[i] \in Bundle
      /\ j \in DOMAIN bundles[i].channels /\ bundles[i].channels[j] \in Chans
  BY BundlesType DEF IInv, CurrentInv, TypeOK, VisitChannel, Bundle
<1> PICK c \in Chans : c = bundles[i].channels[j]
  BY <1>0
<1>1. /\ i \in DOMAIN bundles /\ bundles[i] \in Bundle
      /\ j \in DOMAIN bundles[i].channels /\ c = bundles[i].channels[j]
  BY <1>0
<1>2. /\ Seen(c)' = Seen(c) \cup {i}
      /\ \A d \in Chans \ {c} : Seen(d)' = Seen(d)
  <2>1. ASSUME NEW k \in DOMAIN bundles, NEW l \in DOMAIN bundles[k].channels
        PROVE  l < j + 1 <=> l < j \/ l = j
    BY Indices DEF IInv
  <2>2. j < j + 1 /\ ~ i < i
    BY Indices DEF IInv
  <2>3. ASSUME NEW d \in Chans, NEW k \in DOMAIN bundles
        PROVE  k \in Seen(d)' <=> k \in Seen(d) \/ (k = i /\ d = c)
    BY <1>1, <2>1, <2>2 DEF Seen, VisitChannel
  <2>4. \A d \in Chans : Seen(d) \subseteq DOMAIN bundles /\ Seen(d)' \subseteq DOMAIN bundles
    BY DEF Seen, VisitChannel
  <2> QED BY <1>1, <2>3, <2>4
<1>3. /\ TypeOK /\ current \in BundleVersion /\ current.name = i
      /\ current.version = VersionOf(bundles[i]) /\ current.count >= 1
      /\ DOMAIN heads \subseteq Chans /\ heads \in [DOMAIN heads -> BundleVersion]
      /\ Seen(c) \in SUBSET DOMAIN bundles
      /\ c \in DOMAIN heads <=> Seen(c) # {}
      /\ c \in DOMAIN heads => TopOf(heads[c], Seen(c))
  <2>1. err = NULL BY DEF IInv, AcceptedInv, VisitChannel
  <2> QED BY <1>1, <2>1, Zenon DEF IInv, CurrentInv, HeadsInv, VisitChannel, TypeOK, Seen
<1>4. /\ current' \in BundleVersion /\ current'.name = i
      /\ current'.version = current.version /\ current'.count >= 1
      /\ DOMAIN heads' = DOMAIN heads \cup {c}
      /\ heads' \in [DOMAIN heads' -> BundleVersion]
      /\ \A d \in DOMAIN heads \ {c} : heads'[d] = heads[d]
      /\ TopOf(heads'[c], Seen(c) \cup {i})
  <2>1. CASE c \notin DOMAIN heads /\ PutHead(c, current) /\ UNCHANGED current
    BY <2>1, <1>1, <1>3, FirstTop DEF PutHead
  <2>2. CASE /\ c \in DOMAIN heads /\ ~ CompareFails(current.version, heads[c].version)
             /\ LT(current.version, heads[c].version)
             /\ UNCHANGED <<current, heads>>
    BY <2>2, <1>1, <1>3, OldTop
  <2>3. CASE /\ c \in DOMAIN heads /\ ~ CompareFails(current.version, heads[c].version)
             /\ ~ LT(current.version, heads[c].version)
             /\ current' = Counted(current, heads[c])
             /\ PutHead(c, current')
    <3>1. TopOf(Counted(current, heads[c]), Seen(c) \cup {i})
      BY <2>3, <1>1, <1>3, NewTop
    <3>2. /\ current' \in BundleVersion /\ current'.name = i
          /\ current'.version = current.version
      BY <2>3, <1>3 DEF Counted, BundleVersion
    <3> QED BY <3>1, <3>2, <2>3, <1>3, Zenon DEF PutHead, TopOf
  <2> QED BY <1>1, <2>1, <2>2, <2>3 DEF VisitChannel
<1>5. TypeOK'
  BY <1>1, <1>3, <1>4 DEF VisitChannel, TypeOK
<1>6. CurrentInv'
  BY <1>1, <1>3, <1>4 DEF CurrentInv, VisitChannel, VersionOf
<1>7. HeadsInv'
  <2> SUFFICES ASSUME NEW d \in Chans
               PROVE  /\ d \in DOMAIN heads' <=> Seen(d)' # {}
                      /\ d \in DOMAIN heads' => TopOf(heads[d], Seen(d))'
    BY DEF HeadsInv
  <2>0. bundles' = bundles /\ err = NULL
    BY Zenon DEF VisitChannel, IInv, AcceptedInv
  <2>1. CASE d = c
    <3>1. Seen(d)' = Seen(c) \cup {i} /\ heads'[d] = heads'[c] /\ d \in DOMAIN heads'
      BY <2>1, <1>2, <1>4
    <3> QED BY <3>1, <2>0, <1>4, Zenon DEF TopOf, VersionOf
  <2>2. CASE d # c
    <3>1. /\ d \in DOMAIN heads <=> Seen(d) # {}
          /\ d \in DOMAIN heads => TopOf(heads[d], Seen(d))
      BY <2>0 DEF IInv, HeadsInv
    <3>2. Seen(d)' = Seen(d) /\ (d \in DOMAIN heads' <=> d \in DOMAIN heads)
      BY <2>2, <1>2, <1>4
    <3>3. d \in DOMAIN heads => heads'[d] = heads[d]
      BY <2>2, <1>4
    <3> QED BY <3>1, <3>2, <3>3, <2>0 DEF TopOf, VersionOf
  <2> QED BY <2>1, <2>2
<1>8. AcceptedInv'
  BY DEF IInv, AcceptedInv, Accepted, VisitChannel
<1> QED BY <1>5, <1>6, <1>7, <1>8 DEF IInv

\* The end of a bundle keeps the invariant: all its channels were seen.
LEMMA EndBundleLemma == IInv /\ EndBundle => IInv'
<1> SUFFICES ASSUME IInv, EndBundle PROVE IInv' OBVIOUS
<1>1. /\ i \in DOMAIN bundles /\ bundles[i] \in Bundle
      /\ bundles[i].default \in Chans \cup {NULL}
  BY BundlesType DEF IInv, CurrentInv, EndBundle, Bundle
<1>2. current' \in BundleVersion /\ maxVersion' \in BundleVersion
  BY CountedType DEF IInv, TypeOK, EndBundle
<1>3. TypeOK'
  BY <1>1, <1>2 DEF IInv, TypeOK, EndBundle, TakeDefault
<1>4. \A c \in Chans : Seen(c)' = Seen(c)
  <2>1. ASSUME NEW k \in DOMAIN bundles, NEW l \in DOMAIN bundles[k].channels
        PROVE  k < i + 1 <=> k < i \/ (k = i /\ l < j)
    BY Indices DEF IInv, EndBundle
  <2> QED BY <2>1 DEF Seen, EndBundle
<1>5. HeadsInv' BY <1>4, HeadsKept DEF IInv, EndBundle
<1> QED BY <1>3, <1>5 DEF IInv, CurrentInv, AcceptedInv, Accepted, EndBundle

\* The checks after the loop keep the invariant.
LEMMA FinishLemma == IInv /\ Finish => IInv'
<1> SUFFICES ASSUME IInv, Finish PROVE IInv' OBVIOUS
<1>1. CASE \E e \in Errors : Fail(e)
  BY <1>1, FailLemma, Zenon DEF Finish
<1>2. CASE /\ \A c \in DOMAIN heads : heads[c].count <= 1
           /\ DefaultFound
           /\ pc' = "done"
           /\ default' = IF Cardinality(DOMAIN heads) = 1
                         THEN CHOOSE c \in DOMAIN heads : TRUE ELSE default
           /\ UNCHANGED <<bundles, i, j, current, heads, maxVersion, err>>
  <2>1. Cardinality(DOMAIN heads) = 1 => DOMAIN heads # {}
    BY FS_EmptySet
  <2>2. default' \in DOMAIN heads
    BY <1>2, <2>1 DEF DefaultFound
  <2>3. TypeOK' BY <1>2, <2>2 DEF IInv, TypeOK
  <2>4. \A c \in Chans : Seen(c)' = Seen(c)
    BY <1>2, SeenKept, Zenon DEF IInv, Finish
  <2>5. HeadsInv' BY <1>2, <2>4, HeadsKept DEF IInv
  <2> QED BY <1>2, <2>2, <2>3, <2>5, Zenon
          DEF IInv, CurrentInv, AcceptedInv, Accepted, Finish
<1> QED BY <1>1, <1>2, Zenon DEF Finish, Errors

\* The invariant is inductive.
THEOREM ManifestInvariant == Spec => []IInv
<1>1. IInv /\ [Next]_vars => IInv'
  <2> SUFFICES ASSUME IInv, [Next]_vars PROVE IInv' OBVIOUS
  <2>1. CASE UNCHANGED vars
    BY <2>1 DEF vars, IInv, TypeOK, CurrentInv, HeadsInv, AcceptedInv, Accepted,
                Seen, TopOf, VersionOf
  <2> QED BY <2>1, VisitBundleLemma, VisitChannelLemma, EndBundleLemma,
             CompareErrsLemma, FinishLemma DEF Next
<1> QED BY InitLemma, <1>1, PTL DEF Spec

\* Type correctness of the loop: the counts, the heads and the default channel
\* stay of their types for every input.
THEOREM ManifestTypeCorrect == Spec => []TypeOK
BY ManifestInvariant, PTL DEF IInv

\* The heads of an accepted manifest are the strictly highest bundles of their
\* channels, for every list of bundles in every order.
THEOREM HeadsAlwaysHighest == Spec => []HeadsAreHighest
<1>1. IInv => HeadsAreHighest
  <2> SUFFICES ASSUME IInv, Accepted, NEW c \in DOMAIN heads
               PROVE  /\ heads[c].name \in In(c)
                      /\ \A k \in In(c) \ {heads[c].name} :
                           Lower(VersionOf(bundles[k]), VersionOf(bundles[heads[c].name]))
    BY DEF HeadsAreHighest
  <2>1. c \in Chans /\ heads[c] \in BundleVersion /\ heads[c].count <= 1
    BY DEF IInv, TypeOK, AcceptedInv
  <2>2. Seen(c) = In(c)
    BY <2>1 DEF IInv, AcceptedInv, TypeOK, Seen, In
  <2>3. TopOf(heads[c], In(c))
    BY <2>1, <2>2 DEF IInv, HeadsInv, Accepted
  <2> QED BY <2>1, <2>3 DEF TopOf, BundleVersion, Lower
<1> QED BY <1>1, ManifestInvariant, PTL

\* An accepted manifest has exactly the channels some bundle is in, and its
\* default channel is one of them.
THEOREM ManifestAlwaysComplete == Spec => []ManifestIsComplete
<1>1. IInv => ManifestIsComplete
  <2> SUFFICES ASSUME IInv, Accepted PROVE ManifestIsComplete
    BY DEF ManifestIsComplete
  <2>1. \A c \in Chans : Seen(c) = In(c)
    BY DEF IInv, AcceptedInv, TypeOK, Seen, In
  <2> QED BY <2>1 DEF ManifestIsComplete, IInv, HeadsInv, AcceptedInv, Accepted
<1> QED BY <1>1, ManifestInvariant, PTL

-----------------------------------------------------------------------------
(***************************************************************************)
(* What is accepted                                                        *)
(***************************************************************************)

\* The maximum so far: nothing, or one of the bundles that were read.
MaxOf(m) ==
    /\ i = 1 => m = NoBundle
    /\ i # 1 => /\ m.name \in DOMAIN bundles /\ m.name < i /\ m.count = 1
                /\ m.version = bundles[m.name].version

\* Of proper bundles no version is counted twice, no check but the last can
\* fail, and once the highest bundle was read the default channel is its own.
ProperInv ==
    Proper =>
        /\ IsFiniteSet(DOMAIN heads)
        /\ pc = "channel" => current.count = 1
        /\ \A c \in DOMAIN heads : heads[c].count = 1
        /\ pc # "done" => MaxOf(maxVersion)
        /\ \A h \in DOMAIN bundles : Favoured(h) /\ h < i /\ pc # "done" =>
              maxVersion.name = h /\ default = bundles[h].default
        /\ DistinctVersionsAccepted

\* The list is not changed, so it stays proper.
LEMMA ProperKept ==
    ASSUME bundles' = bundles
    PROVE  /\ Proper' <=> Proper
           /\ \A h : Favoured(h)' <=> Favoured(h)
BY DEF Proper, Favoured, In

\* Neither the package nor the version of a proper bundle is refused.
LEMMA ProperVisit ==
    ASSUME IInv, ProperInv, VisitBundle
    PROVE  ProperInv'
<1>1. i \in DOMAIN bundles /\ i \in Nat /\ (i > 1 => i - 1 \in DOMAIN bundles)
  BY DEF IInv, TypeOK, VisitBundle
<1>2. bundles' = bundles
  BY DEF VisitBundle, Fail
<1> SUFFICES ASSUME Proper PROVE ProperInv'
  BY <1>2, ProperKept DEF ProperInv
<1>3. /\ bundles[i].text = "version"
      /\ i > 1 => bundles[i].package = bundles[i-1].package
  BY <1>1 DEF Proper
<1>4. /\ current'.count = 1 /\ pc' = "channel" /\ pc = "bundle"
      /\ UNCHANGED <<bundles, i, heads, maxVersion, default, err>>
  BY <1>3 DEF VisitBundle
<1> QED BY <1>4, ProperKept DEF ProperInv, MaxOf, DistinctVersionsAccepted

\* A head that the bundle at i is compared with is another bundle.
LEMMA HeadIsOther ==
    ASSUME IInv, Proper, pc = "channel", j <= Len(bundles[i].channels),
           bundles[i].channels[j] \in DOMAIN heads
    PROVE  LET h == heads[bundles[i].channels[j]]
           IN  /\ h.version # current.version
               /\ ~ CompareFails(current.version, h.version)
<1>1. /\ i \in DOMAIN bundles /\ bundles[i] \in Bundle
      /\ j \in DOMAIN bundles[i].channels /\ bundles[i].channels[j] \in Chans
  BY BundlesType DEF IInv, CurrentInv, TypeOK, Bundle
<1> DEFINE c == bundles[i].channels[j]
<1> DEFINE k == heads[c].name
<1>2. current.version = bundles[i].version
  BY <1>1 DEF IInv, CurrentInv, Proper, VersionOf
<1>3. k \in Seen(c) /\ heads[c].version = VersionOf(bundles[k])
  BY <1>1 DEF IInv, HeadsInv, AcceptedInv, TopOf
<1>4. k # i
  <2>1. \A l \in DOMAIN bundles[i].channels : l # j => bundles[i].channels[l] # c
    BY <1>1 DEF Proper
  <2>2. \A l \in DOMAIN bundles[i].channels : l < j => l # j
    BY <1>1, Indices DEF IInv
  <2>3. ~ i < i
    BY Indices DEF IInv
  <2> QED BY <1>3, <2>1, <2>2, <2>3 DEF Seen
<1>5. k \in DOMAIN bundles /\ bundles[k].text = "version"
  BY <1>3 DEF Seen, Proper
<1>6. heads[c].version = bundles[k].version
  BY <1>3, <1>5 DEF VersionOf
<1> QED BY <1>1, <1>2, <1>4, <1>5, <1>6 DEF Proper

\* A bundle of a channel is counted once.
LEMMA ProperChannel ==
    ASSUME IInv, ProperInv, VisitChannel
    PROVE  ProperInv'
<1>1. /\ i \in DOMAIN bundles /\ bundles[i] \in Bundle
      /\ j \in DOMAIN bundles[i].channels /\ bundles[i].channels[j] \in Chans
  BY BundlesType DEF IInv, CurrentInv, TypeOK, VisitChannel, Bundle
<1>2. /\ bundles' = bundles /\ i' = i /\ pc' = pc /\ pc = "channel"
      /\ maxVersion' = maxVersion /\ default' = default
  BY DEF VisitChannel
<1> SUFFICES ASSUME Proper PROVE ProperInv'
  BY <1>2, ProperKept DEF ProperInv
<1> DEFINE c == bundles[i].channels[j]
<1>3. /\ current.count = 1 /\ current.version = bundles[i].version
      /\ bundles[i].text = "version" /\ \A d \in DOMAIN heads : heads[d].count = 1
      /\ IsFiniteSet(DOMAIN heads)
  BY <1>1, <1>2 DEF ProperInv, IInv, CurrentInv, Proper, VersionOf
<1>4. c \in DOMAIN heads => heads[c].version # current.version
  BY HeadIsOther DEF VisitChannel
<1>5. /\ current'.count = 1
      /\ DOMAIN heads' \subseteq DOMAIN heads \cup {c}
      /\ \A d \in DOMAIN heads' : heads'[d].count = 1
  <2>1. c \in DOMAIN heads => Counted(current, heads[c]) = current
    BY <1>4 DEF Counted
  <2> HIDE DEF c
  <2>2. CASE PutHead(c, current) /\ UNCHANGED current
    BY <2>2, <1>3 DEF PutHead
  <2>3. CASE UNCHANGED <<current, heads>>
    BY <2>3, <1>3
  <2> QED BY <2>1, <2>2, <2>3 DEF VisitChannel, c
<1>6. IsFiniteSet(DOMAIN heads')
  BY <1>3, <1>5, FS_AddElement, FS_Subset
<1> HIDE DEF c
<1> QED BY <1>2, <1>5, <1>6, ProperKept DEF ProperInv, MaxOf, DistinctVersionsAccepted

\* The bundle at i is compared with a lower or a higher maximum, and the highest
\* one stays.
LEMMA ProperEnd ==
    ASSUME IInv, ProperInv, EndBundle
    PROVE  ProperInv'
<1>1. /\ i \in DOMAIN bundles /\ i \in Nat \ {0} /\ bundles[i].version \in Version
      /\ current.name = i /\ current.version = VersionOf(bundles[i])
      /\ current \in BundleVersion
  BY BundlesType DEF IInv, CurrentInv, TypeOK, EndBundle, Bundle
<1>2. /\ bundles' = bundles /\ i' = i + 1 /\ pc' = "bundle" /\ pc = "channel"
      /\ heads' = heads
  BY DEF EndBundle
<1> SUFFICES ASSUME Proper PROVE ProperInv'
  BY <1>2, ProperKept DEF ProperInv
<1>3. /\ MaxOf(maxVersion) /\ current.count = 1 /\ current.version = bundles[i].version
      /\ IsFiniteSet(DOMAIN heads) /\ \A c \in DOMAIN heads : heads[c].count = 1
  BY <1>1, <1>2 DEF ProperInv, Proper, VersionOf
<1>4. /\ i = 1 => LT(maxVersion.version, current.version)
      /\ maxVersion.version \in Version
  BY <1>1, <1>3 DEF MaxOf, NoBundle, Proper, Lower, IInv, TypeOK, BundleVersion
<1>5. maxVersion.version # current.version
  <2>1. CASE i = 1
    BY <2>1, <1>1, <1>3, <1>4, LTTotal
  <2>2. CASE i # 1
    <3>1. maxVersion.name # i
      BY <2>2, <1>1, <1>3 DEF MaxOf
    <3> QED BY <2>2, <3>1, <1>1, <1>3 DEF MaxOf, Proper
  <2> QED BY <2>1, <2>2
<1>6. \/ /\ LT(current.version, maxVersion.version)
         /\ maxVersion' = maxVersion /\ default' = default
      \/ /\ LT(maxVersion.version, current.version)
         /\ maxVersion' = current /\ default' = TakeDefault(bundles[i])
  <2>1. Counted(current, maxVersion) = current
    BY <1>5 DEF Counted
  <2>2. current.version \in Version
    BY <1>1, <1>3
  <2> QED BY <2>1, <2>2, <1>4, <1>5, LTTotal DEF EndBundle
<1>7. MaxOf(maxVersion)'
  <2>1. CASE LT(current.version, maxVersion.version) /\ maxVersion' = maxVersion
    <3>1. i # 1
      BY <2>1, <1>1, <1>3, <1>4, LTTotal
    <3>2. maxVersion.name < i => maxVersion.name < i + 1
      BY <1>1, <1>3, <3>1, Indices DEF MaxOf, IInv
    <3>3. i + 1 # 1
      BY <1>1
    <3> QED BY <2>1, <3>1, <3>2, <3>3, <1>2, <1>3 DEF MaxOf
  <2>2. CASE maxVersion' = current
    BY <2>2, <1>1, <1>2, <1>3 DEF MaxOf
  <2> QED BY <1>6, <2>1, <2>2
<1>8. ASSUME NEW h \in DOMAIN bundles, Favoured(h), h < i + 1
      PROVE  maxVersion'.name = h /\ default' = bundles[h].default
  <2>1. h \in Nat /\ (h < i \/ h = i) /\ bundles[h].version \in Version
    BY <1>1, <1>8, Indices, BundlesType DEF IInv, Bundle
  <2>2. CASE h = i
    <3>1. ~ LT(current.version, maxVersion.version)
      <4>1. CASE i = 1
        BY <4>1, <1>1, <1>3, <1>4, LTTotal
      <4>2. CASE i # 1
        <5>1. maxVersion.name \in DOMAIN bundles \ {h}
          BY <4>2, <2>1, <2>2, <1>1, <1>3 DEF MaxOf
        <5>2. LT(maxVersion.version, current.version)
          BY <5>1, <4>2, <2>2, <1>3, <1>8 DEF Favoured, MaxOf
        <5> QED BY <5>2, <1>1, <1>3, <1>4, LTTotal
      <4> QED BY <4>1, <4>2
    <3>2. bundles[h].default # NULL
      BY <1>8, ManifestAssumption DEF Favoured
    <3> QED BY <3>1, <3>2, <2>2, <1>1, <1>6 DEF TakeDefault
  <2>3. CASE h < i
    <3>1. maxVersion.name = h /\ default = bundles[h].default
      BY <2>3, <1>2, <1>8 DEF ProperInv
    <3>2. i # 1 /\ i # h
      BY <2>1, <2>3, <1>1, <1>8, Indices DEF IInv, TypeOK
    <3>3. maxVersion.version = bundles[h].version
      BY <3>1, <3>2, <1>3 DEF MaxOf
    <3>4. LT(current.version, maxVersion.version)
      BY <3>2, <3>3, <1>1, <1>3, <1>8 DEF Favoured
    <3>5. ~ LT(maxVersion.version, current.version)
      BY <3>4, <1>1, <1>3, <1>4, LTTotal
    <3> QED BY <3>1, <3>5, <1>6
  <2> QED BY <2>1, <2>2, <2>3
<1> QED BY <1>2, <1>3, <1>7, <1>8, ProperKept DEF ProperInv, DistinctVersionsAccepted

\* No comparison of proper bundles fails: not with the head of a channel, nor with
\* the maximum, which is another bundle or 0.0.0.
LEMMA ProperCompares ==
    ASSUME IInv, ProperInv, CompareErrs
    PROVE  ProperInv'
<1>1. bundles' = bundles
  BY DEF CompareErrs, Fail
<1> SUFFICES ASSUME Proper PROVE FALSE
  BY <1>1, ProperKept DEF ProperInv
<1>2. pc = "channel" /\ i \in DOMAIN bundles /\ current.version = bundles[i].version
  BY DEF CompareErrs, IInv, CurrentInv, Proper, VersionOf
<1>3. CASE /\ j <= Len(bundles[i].channels)
           /\ bundles[i].channels[j] \in DOMAIN heads
           /\ CompareFails(current.version, heads[bundles[i].channels[j]].version)
  BY <1>2, <1>3, HeadIsOther
<1>4. CASE CompareFails(current.version, maxVersion.version)
  <2>1. MaxOf(maxVersion) /\ i \in Nat
    BY <1>2 DEF ProperInv, IInv, TypeOK
  <2>2. CASE i = 1
    <3>1. maxVersion.version = Zero
      BY <2>1, <2>2 DEF MaxOf, NoBundle
    <3>2. ~ CompareFails(Zero, bundles[i].version)
      BY <1>2 DEF Proper, Lower
    <3> QED BY <3>1, <3>2, <1>2, <1>4 DEF CompareFails
  <2>3. CASE i # 1
    <3>1. /\ maxVersion.name \in DOMAIN bundles /\ maxVersion.name # i
          /\ maxVersion.version = bundles[maxVersion.name].version
      BY <2>1, <2>3, <1>2 DEF MaxOf
    <3> QED BY <3>1, <1>2, <1>4 DEF Proper
  <2> QED BY <2>2, <2>3
<1> QED BY <1>3, <1>4 DEF CompareErrs

\* The checks after the loop pass, and a single channel is the default channel.
LEMMA ProperFinish ==
    ASSUME IInv, ProperInv, Finish
    PROVE  ProperInv'
<1>1. bundles' = bundles /\ heads' = heads /\ pc' = "done" /\ pc = "bundle" /\ i' = i
  BY DEF Finish, Fail
<1> SUFFICES ASSUME Proper PROVE ProperInv'
  BY <1>1, ProperKept DEF ProperInv
<1>2. /\ IsFiniteSet(DOMAIN heads) /\ \A c \in DOMAIN heads : heads[c].count = 1
      /\ MaxOf(maxVersion) /\ err = NULL
  BY <1>1 DEF ProperInv, IInv, AcceptedInv
<1>3. /\ maxVersion.count <= 1 /\ ~ (maxVersion.count > 1)
      /\ \A c \in DOMAIN heads : heads[c].count <= 1 /\ ~ (heads[c].count > 1)
  BY <1>2 DEF MaxOf, NoBundle
<1>4. \A k \in DOMAIN bundles : k < i
  <2>1. i > Len(bundles)
    BY Zenon DEF Finish
  <2> QED BY <2>1 DEF IInv, TypeOK
<1>5. ASSUME NEW h \in DOMAIN bundles, Favoured(h)
      PROVE  err' = NULL /\ default' = bundles[h].default
  <2>1. h < i /\ default = bundles[h].default
    BY <1>1, <1>4, <1>5 DEF ProperInv
  <2>2. default \in DOMAIN heads
    <3>1. default \in Chans /\ In(default) # {}
      BY <2>1, <1>5 DEF Favoured
    <3>2. Seen(default) = In(default)
      BY <1>4 DEF Seen, In
    <3> QED BY <3>1, <3>2, <1>2 DEF IInv, HeadsInv
  <2>3. DefaultFound
    BY <2>2 DEF DefaultFound
  <2>4. /\ err' = err
        /\ default' = IF Cardinality(DOMAIN heads) = 1
                      THEN CHOOSE c \in DOMAIN heads : TRUE ELSE default
    BY Zenon, <2>3, <1>3 DEF Finish
  <2>5. Cardinality(DOMAIN heads) = 1 => DOMAIN heads = {default}
    BY <2>2, <1>2, FS_Singleton
  <2> QED BY <2>1, <2>4, <2>5, <1>2
<1> QED BY <1>1, <1>2, <1>5, ProperKept DEF ProperInv, DistinctVersionsAccepted

\* A list of any length of bundles with distinct proper versions that compare with
\* each other is accepted, in any order, when its highest bundle names a default channel that exists.
THEOREM ProperAlwaysAccepted == Spec => []DistinctVersionsAccepted
<1>1. Init => ProperInv
  <2> SUFFICES ASSUME Init, Proper PROVE ProperInv
    BY DEF ProperInv
  <2>1. DOMAIN heads = {} /\ IsFiniteSet(DOMAIN heads)
    BY FS_EmptySet DEF Init
  <2>2. TypeOK
    BY InitLemma DEF IInv
  <2>3. \A h \in DOMAIN bundles : ~ h < i
    BY <2>2 DEF Init, TypeOK
  <2> QED BY <2>1, <2>3 DEF Init, ProperInv, MaxOf, DistinctVersionsAccepted
<1>2. IInv /\ ProperInv /\ [Next]_vars => ProperInv'
  <2> SUFFICES ASSUME IInv, ProperInv, [Next]_vars PROVE ProperInv'
    OBVIOUS
  <2>1. CASE UNCHANGED vars
    BY <2>1, ProperKept DEF vars, ProperInv, MaxOf, DistinctVersionsAccepted
  <2> QED BY <2>1, ProperVisit, ProperChannel, ProperEnd, ProperCompares, ProperFinish
          DEF Next
<1>3. ProperInv => DistinctVersionsAccepted
  BY DEF ProperInv, DistinctVersionsAccepted
<1> QED BY <1>1, <1>2, <1>3, ManifestInvariant, PTL DEF Spec
=============================================================================
