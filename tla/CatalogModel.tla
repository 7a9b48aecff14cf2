------------------------------ MODULE CatalogModel ------------------------------
(***************************************************************************)
(* The in-memory model of an index (internal/model), how it is made from a *)
(* database (sqlite.ToModel) and from a declarative config, how it is      *)
(* rendered to one, and the queries answered from it (registry.Querier).   *)
(*                                                                         *)
(* A model maps packages to their default channel and their channels; a    *)
(* channel maps names to bundles.  A property is a type and a value: the   *)
(* value is a bundle name for olm.skips, a channel and what is replaced    *)
(* there for olm.channel, the package for olm.package.                     *)
(***************************************************************************)
EXTENDS Querier

Prop(type, value) == [type |-> type, value |-> value]

ValuesOf(b, type) == {q.value : q \in {r \in b.properties : r.type = type}}

-----------------------------------------------------------------------------
(***************************************************************************)
(* model.Channel.Head and Validate                                         *)
(***************************************************************************)

\* Mutant: only skips count as incoming edges.
SkippedOnly(ch) == UNION {ch[n].skips : n \in DOMAIN ch}

\* The names with an incoming edge.
Incoming(ch) ==
    ({ch[n].replaces : n \in DOMAIN ch} \ {NULL}) \cup
    UNION {ch[n].skips : n \in DOMAIN ch}

\* "finding the bundle that has 0 incoming edges"
Heads(ch) == DOMAIN ch \ Incoming(ch)

HeadOf(ch) == CHOOSE n \in Heads(ch) : TRUE

ValidBundle(b) ==
    /\ Cardinality(ValuesOf(b, "olm.package")) = 1
    /\ b.path # NULL \/ b.content

ValidChannel(ch) ==
    /\ Cardinality(Heads(ch)) = 1
    /\ \A n \in DOMAIN ch : ValidBundle(ch[n])

ValidPackage(pkg) ==
    /\ pkg.default \in DOMAIN pkg.channels
    /\ \A c \in DOMAIN pkg.channels : ValidChannel(pkg.channels[c])

Valid(m) == \A p \in DOMAIN m : ValidPackage(m[p])

-----------------------------------------------------------------------------
(***************************************************************************)
(* api.ConvertAPIBundleToModelBundle and ConvertModelBundleToAPIBundle     *)
(***************************************************************************)

\* The graph becomes properties: one olm.channel, an olm.skips for every skip. A
\* bundle whose olm.package property is not in the database is given one.
ConvertAPIBundleToModelProperties(b) ==
    {Prop("olm.skips", s) : s \in b.skips} \cup
    {Prop("olm.channel", <<b.channel, b.replaces>>)} \cup
    {Prop("olm.package", b.package)} \cup
    {Prop(type, NULL) : type \in b.properties \ {"olm.package"}} \cup
    (IF b.apis THEN {Prop("olm.gvk", NULL)} ELSE {}) \cup
    (IF b.content THEN {Prop("olm.bundle.object", NULL)} ELSE {})

ConvertAPIBundleToModelBundle(b) ==
    [path |-> b.path, content |-> b.content, replaces |-> b.replaces,
     skips |-> b.skips, properties |-> ConvertAPIBundleToModelProperties(b)]

\* Bundle objects are not among the properties of the API.
ConvertModelBundleToAPIBundle(m, p, c, n) ==
    LET b == m[p].channels[c][n]
    IN  [csvName |-> n, package |-> p, channel |-> c, path |-> b.path,
         content |-> b.content, apis |-> ValuesOf(b, "olm.gvk") # {},
         properties |-> {q.type : q \in b.properties} \ {"olm.bundle.object"},
         replaces |-> b.replaces, skips |-> b.skips]

-----------------------------------------------------------------------------
(***************************************************************************)
(* sqlite.ToModel                                                          *)
(***************************************************************************)

\* initializeModelPackages and populateModelChannels.
Populated(t) ==
    LET rows == ListBundles(t)
        In(p, c) == {b \in rows : b.package = p /\ b.channel = c}
        Channel(p, c) ==
            [n \in {b.csvName : b \in In(p, c)} |->
                ConvertAPIBundleToModelBundle(
                    CHOOSE b \in In(p, c) : b.csvName = n)]
    IN  [p \in ListPackages(t) |->
            [default  |-> GetPackage(t, p).default,
             channels |-> [c \in ChannelsOf(t, p) |-> Channel(p, c)]]]

\* A package has no channel, or a bundle is listed in a package or channel that
\* is not known.
PopulateFails(t) ==
    \/ \E p \in ListPackages(t) : ~ HasPackage(t, p)
    \/ \E b \in ListBundles(t) :
          <<b.channel, b.package>> \notin DOMAIN t.channel
              \/ b.package \notin DOMAIN t.package

\* populatePackageIcons reads the CSV of the head of the default channel, and
\* fails when the index does not have it.
IconsFail(t) ==
    \E p \in ListPackages(t) :
        LET heads == GetBundleForChannel(t, p, t.package[p])
        IN  heads = {} \/ \E b \in heads : ~ b.content

ToModelFails(t) ==
    PopulateFails(t) \/ IconsFail(t) \/ ~ Valid(Populated(t))

ToModel(t) == Populated(t)

-----------------------------------------------------------------------------
(***************************************************************************)
(* declcfg.ConvertFromModel and ConvertToModel                             *)
(***************************************************************************)

\* Mutant: the properties are those of one copy.
OneCopysProperties(copies) == (CHOOSE b \in copies : TRUE).properties

\* A bundle has a copy in each of its channels.
MergedProperties(copies) == UNION {b.properties : b \in copies}

\* A declarative config has one bundle per name: its properties are those of all
\* the channels it is in.
ConvertFromModel(m) ==
    LET Members(p) == UNION {DOMAIN m[p].channels[c] : c \in DOMAIN m[p].channels}
        Copies(p, n) == {m[p].channels[c][n] :
            c \in {d \in DOMAIN m[p].channels : n \in DOMAIN m[p].channels[d]}}
        Rendered(p, n) ==
            LET b == CHOOSE x \in Copies(p, n) : TRUE
            IN  [name |-> n, package |-> p, path |-> b.path, content |-> b.content,
                 properties |-> MergedProperties(Copies(p, n))]
    IN  [packages |-> [p \in DOMAIN m |-> m[p].default],
         bundles  |-> UNION {{Rendered(p, n) : n \in Members(p)} : p \in DOMAIN m}]

\* "opm render" of an index: what is left of the bundle objects among the
\* properties is replaced by the objects of the bundle.
sqliteToDeclcfg(t) == ConvertFromModel(ToModel(t))

renderBundleObjects(cfg) ==
    LET Objects(b) == IF b.content THEN {Prop("olm.bundle.object", NULL)} ELSE {}
    IN  [cfg EXCEPT !.bundles =
            {[b EXCEPT !.properties =
                {q \in @ : q.type # "olm.bundle.object"} \cup Objects(b)] : b \in @}]

Render(t) == renderBundleObjects(sqliteToDeclcfg(t))

\* The channels of a package are those its bundles have an olm.channel for, and
\* the default channel.
ConvertToModel(cfg) ==
    LET Of(p) == {b \in cfg.bundles : b.package = p}
        Named(p, c) == {b \in Of(p) : \E v \in ValuesOf(b, "olm.channel") : v[1] = c}
        ChannelNames(p) ==
            ({cfg.packages[p]} \ {NULL}) \cup
            {v[1] : v \in UNION {ValuesOf(b, "olm.channel") : b \in Of(p)}}
        Bundle(b, c) ==
            [path |-> b.path, content |-> b.content,
             replaces |-> (CHOOSE v \in ValuesOf(b, "olm.channel") : v[1] = c)[2],
             skips |-> ValuesOf(b, "olm.skips"), properties |-> b.properties]
    IN  [p \in DOMAIN cfg.packages |->
            [default  |-> cfg.packages[p],
             channels |-> [c \in ChannelNames(p) |->
                [n \in {b.name : b \in Named(p, c)} |->
                    Bundle(CHOOSE b \in Named(p, c) : b.name = n, c)]]]]

\* The errors: an unknown package, a package property that is missing or names
\* another package, no channel, two properties for one channel, or an invalid
\* result.
ConvertToModelFails(cfg) ==
    \/ \E b \in cfg.bundles :
          \/ b.package \notin DOMAIN cfg.packages
          \/ b.package \notin ValuesOf(b, "olm.package")
          \/ ValuesOf(b, "olm.channel") = {}
          \/ \E v, w \in ValuesOf(b, "olm.channel") : v[1] = w[1] /\ v # w
    \/ ~ Valid(ConvertToModel(cfg))

-----------------------------------------------------------------------------
(***************************************************************************)
(* registry.Querier                                                        *)
(***************************************************************************)

ChannelKeys(m) == UNION {{<<c, p>> : c \in DOMAIN m[p].channels} : p \in DOMAIN m}

Chan(m, k) == m[k[2]].channels[k[1]]

ModelListBundles(m) ==
    UNION {{ConvertModelBundleToAPIBundle(m, k[2], k[1], n) : n \in DOMAIN Chan(m, k)} :
              k \in ChannelKeys(m)}

ModelGetPackage(m, p) ==
    [default |-> m[p].default,
     heads   |-> [c \in DOMAIN m[p].channels |-> HeadOf(m[p].channels[c])]]

\* "unset Replaces and Skips (sqlite query does not populate these fields)"
Unset(b) == [b EXCEPT !.replaces = NULL, !.skips = {}]

ModelGetBundle(m, p, c, n) ==
    IF /\ <<c, p>> \in ChannelKeys(m)
       /\ n \in DOMAIN Chan(m, <<c, p>>)
    THEN {Unset(ConvertModelBundleToAPIBundle(m, p, c, n))} ELSE {}

ModelGetBundleForChannel(m, p, c) ==
    IF <<c, p>> \in ChannelKeys(m)
    THEN ModelGetBundle(m, p, c, HeadOf(Chan(m, <<c, p>>))) ELSE {}

\* Mutant: a skipped bundle is not upgraded from.
ReplacesDirectly(b, n) == b.replaces = n

bundleReplaces(b, n) == b.replaces = n \/ n \in b.skips

\* An entry for what is skipped says what the bundle replaces.
ModelEntriesThatReplace(m, n) ==
    UNION {{[package |-> k[2], channel |-> k[1], bundle |-> x,
             replaces |-> Chan(m, k)[x].replaces] :
                x \in {y \in DOMAIN Chan(m, k) : bundleReplaces(Chan(m, k)[y], n)}} :
             k \in ChannelKeys(m)}

ModelBundleThatReplaces(m, n, p, c) ==
    IF <<c, p>> \in ChannelKeys(m)
    THEN UNION {ModelGetBundle(m, p, c, x) :
                   x \in {y \in DOMAIN Chan(m, <<c, p>>) :
                             bundleReplaces(Chan(m, <<c, p>>)[y], n)}}
    ELSE {}

doesModelBundleProvide(b) == ValuesOf(b, "olm.gvk") # {}

\* channelEntriesForBundle: what the bundle replaces, and its skips (those in the
\* channel, unless the channel is ignored).
EntriesForBundle(m, k, n, ignoreChannel) ==
    LET b == Chan(m, k)[n]
    IN  {[package |-> k[2], channel |-> k[1], bundle |-> n, replaces |-> r] :
            r \in {b.replaces} \cup
                  {s \in b.skips : ignoreChannel \/ s \in DOMAIN Chan(m, k)}}

ModelEntriesThatProvide(m) ==
    UNION {UNION {EntriesForBundle(m, k, n, TRUE) :
        n \in {x \in DOMAIN Chan(m, k) : doesModelBundleProvide(Chan(m, k)[x])}} :
            k \in ChannelKeys(m)}

\* "this function currently looks at channel heads only"
ModelLatestEntriesThatProvide(m) ==
    UNION {EntriesForBundle(m, k, HeadOf(Chan(m, k)), FALSE) :
        k \in {q \in ChannelKeys(m) :
                  doesModelBundleProvide(Chan(m, q)[HeadOf(Chan(m, q))])}}

\* The first in the order of package names: any of the packages.
ModelBundleThatProvides(m) ==
    UNION {ModelGetBundle(m, e.package, e.channel, e.bundle) :
        e \in {x \in ModelLatestEntriesThatProvide(m) :
                  m[x.package].default = x.channel}}

=============================================================================
