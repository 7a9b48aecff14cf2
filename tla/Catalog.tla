-------------------------------- MODULE Catalog --------------------------------
(***************************************************************************)
(* What clients read from the databases that the loader leaves behind: the *)
(* bundles that ListBundles lists, the model that "opm render" and ToModel *)
(* make of them, and the same questions asked of the database (opm         *)
(* registry serve) and of the model (opm alpha serve).                     *)
(***************************************************************************)
EXTENDS SqlLoader, CatalogModel

\* The database that a client can open.
Open == pc = "idle"

\* ListBundles shows the upgrade graph that is stored: what it lists as replaces
\* and skips of a bundle in a channel is exactly what the bundle's entries in
\* that channel replace, none invented and none lost, and its replaces is the
\* one that the bundle declares.
EdgesListed ==
    Open => \A b \in ListBundles(db) :
        /\ ({b.replaces} \ {NULL}) \cup b.skips =
              ReplacedFrom(db, DOMAIN db.channel_entry, b.package, b.channel,
                           b.csvName)
        /\ b.replaces \in {NULL, db.operatorbundle[b.csvName].replaces}

\* The head of a channel is replaced by an entry of the channel: a bundle below
\* skips it, and the walk looks for cycles of replaces only.
HeadIsReplaced(k) ==
    \E i \in ThatReplace(db, db.channel[k]) : ChannelOf(db.channel_entry[i]) = k

\* ClearNonHeadBundles took the CSV of a bundle that a later manifest made the
\* head of its package's default channel.
HeadIsCleared(p) == ~ db.operatorbundle[db.channel[<<db.package[p], p>>]].content

\* A database that the loader committed converts to a model unless one of two
\* histories is behind it: a default channel's head whose CSV was cleared when
\* it was not a head, or a channel's head that is skipped from below; and these
\* always make the conversion fail.  Where it converts, the head that the model
\* computes from the edges of a channel is the one the channel table has.
ModelHeadsAgree ==
    Open =>
        /\ ToModelFails(db) <=>
              \/ \E p \in DOMAIN db.package : HeadIsCleared(p)
              \/ \E k \in DOMAIN db.channel : HeadIsReplaced(k)
        /\ ~ ToModelFails(db) =>
              \A k \in DOMAIN db.channel : Heads(Chan(ToModel(db), k)) = {db.channel[k]}

\* What a client can tell from a model: the members of the channels, what they
\* replace, and the heads.
Shape(m) ==
    [p \in DOMAIN m |->
        [default  |-> m[p].default,
         channels |-> [c \in DOMAIN m[p].channels |->
            [heads |-> Heads(m[p].channels[c]),
             edges |-> [n \in DOMAIN m[p].channels[c] |->
                          m[p].channels[c][n].replaces]]]]]

\* Rendering an index to a declarative config and loading the config gives the
\* same packages, channels, heads and chains of replaces, although a config
\* keeps one list of skips per bundle for all of its channels.
RenderKeepsChannels ==
    Open /\ ~ ToModelFails(db) =>
        LET m == ToModel(db)
            cfg == Render(db)
        IN  ~ ConvertToModelFails(cfg) /\ Shape(ConvertToModel(cfg)) = Shape(m)

\* The fields of an answer that both kinds of server fill in.
Common(B) ==
    {[csvName |-> b.csvName, package |-> b.package, channel |-> b.channel,
      path |-> b.path, content |-> b.content, apis |-> b.apis] : b \in B}

Graph(B) ==
    {[csvName |-> b.csvName, package |-> b.package, channel |-> b.channel,
      replaces |-> b.replaces, skips |-> b.skips] : b \in B}

Named(E) == {[package |-> e.package, channel |-> e.channel, bundle |-> e.bundle] : e \in E}

\* A server that answers from the model gives the answers of one that answers
\* from the database, whatever the history of the index: the same packages,
\* heads, bundles, upgrade edges and providers of an API; and the latest
\* provider it finds is one that the database's query may find too.  That query
\* may report an error where the model has an answer, and only because a latest
\* provider below the head of its default channel has lost its bundle column.
QueriersAgree ==
    Open /\ ~ ToModelFails(db) =>
        LET m == ToModel(db)
        IN  /\ Common(ModelListBundles(m)) = Common(ListBundles(db))
            /\ Graph(ModelListBundles(m)) = Graph(ListBundles(db))
            /\ \A p \in DOMAIN m : ModelGetPackage(m, p) = GetPackage(db, p)
            /\ \A k \in DOMAIN db.channel :
                  /\ Common(ModelGetBundleForChannel(m, k[2], k[1])) =
                        Common(GetBundleForChannel(db, k[2], k[1]))
                  /\ \A n \in Names :
                        /\ Common(ModelGetBundle(m, k[2], k[1], n)) =
                              Common(GetBundle(db, k[2], k[1], n))
                        /\ Common(ModelBundleThatReplaces(m, n, k[2], k[1])) =
                              Common(GetBundleThatReplaces(db, n, k[2], k[1]))
            /\ \A n \in Names :
                  Named(ModelEntriesThatReplace(m, n)) =
                      Named(GetChannelEntriesThatReplace(db, n))
            /\ Named(ModelEntriesThatProvide(m)) =
                  Named(GetChannelEntriesThatProvide(db))
            /\ Named(ModelLatestEntriesThatProvide(m)) \subseteq
                  Named(GetLatestChannelEntriesThatProvide(db))
            /\ Common(ModelBundleThatProvides(m)) \subseteq
                  Common(GetBundleThatProvides(db))
            /\ ModelBundleThatProvides(m) # {} /\ GetBundleThatProvidesErrs(db) =>
                  \E i \in ProvidingByDefault(db) :
                      /\ NoBundleColumn(db, i)
                      /\ db.channel_entry[i].bundle #
                            db.channel[ChannelOf(db.channel_entry[i])]

=============================================================================
