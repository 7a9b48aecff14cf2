------------------------------ MODULE RegistryDB ------------------------------
(***************************************************************************)
(* The SQLite schema of an operator index at its latest migration, and the *)
(* statements the loader runs on it.                                       *)
(*                                                                         *)
(* A database is a record of tables.  A table with a primary key is a      *)
(* function from keys to rows.  A statement is an operator from databases  *)
(* to databases that also performs the referential actions SQLite runs     *)
(* with foreign keys on (ON DELETE CASCADE).  Statements that delete take  *)
(* the set of keys their WHERE clause selects.                             *)
(*                                                                         *)
(* The columns are the ones a statement of the loader reads or a property  *)
(* distinguishes.  The tables related_image, dependencies, api,            *)
(* api_provider and api_requirer are written by the loader and never read  *)
(* by it: ApiIndex models the last three, the first two are left out.      *)
(***************************************************************************)
EXTENDS Naturals, Sequences, FiniteSets

CONSTANTS
    Names,      \* names of bundles (CSV names), known to the index or not
    Pkgs,       \* package names
    Chans,      \* channel names
    Paths,      \* bundle image references
    NULL        \* SQL NULL, or the empty string where the code writes one

ASSUME NullAssumption == NULL \notin (Names \cup Chans \cup Paths)

-----------------------------------------------------------------------------
(***************************************************************************)
(* Rows                                                                    *)
(***************************************************************************)

\* A row of operatorbundle. "keyed" says that version and bundlepath are both
\* non-empty: rows of other tables that reference the bundle store an empty
\* version or path as NULL, and a foreign key with a NULL column matches
\* nothing. "content" says that the csv and bundle columns are not NULL.
BundleRow ==
    [path : Paths \cup {NULL}, keyed : BOOLEAN, content : BOOLEAN,
     replaces : Names \cup {NULL}, skips : Seq(Names)]

\* A row of channel_entry; replaces = 0 is NULL (entry ids start at 1).
EntryRow ==
    [channel : Chans, package : Pkgs, bundle : Names,
     replaces : Nat, depth : Nat]

\* A row of properties: the package and deprecated properties, which the loader
\* writes itself, and the properties for provided APIs, of which one is told
\* apart.
PropertyRow ==
    [type : {"olm.package", "olm.deprecated", "olm.gvk"}, bundle : Names,
     keyed : BOOLEAN]

\* A table whose primary key ranges over K and whose rows are in R.
IsTable(f, K, R) == DOMAIN f \subseteq K /\ f \in [DOMAIN f -> R]

IsDatabase(t) ==
    /\ t = [operatorbundle |-> t.operatorbundle, package |-> t.package,
            channel |-> t.channel, channel_entry |-> t.channel_entry,
            properties |-> t.properties, deprecated |-> t.deprecated]
    /\ IsTable(t.operatorbundle, Names, BundleRow)
    /\ IsTable(t.package, Pkgs, Chans \cup {NULL})
    /\ IsTable(t.channel, Chans \X Pkgs, Names)
    /\ IsTable(t.channel_entry, Nat \ {0}, EntryRow)
    /\ t.properties \subseteq PropertyRow
    /\ t.deprecated \subseteq Names

\* A database that was just migrated: every table is empty.
EmptyTables ==
    [operatorbundle |-> [n \in {} |-> NULL],
     package        |-> [p \in {} |-> NULL],
     channel        |-> [k \in {} |-> NULL],
     channel_entry  |-> [i \in {} |-> NULL],
     properties     |-> {},
     deprecated     |-> {}]

-----------------------------------------------------------------------------
(***************************************************************************)
(* Table operations                                                        *)
(***************************************************************************)

Without(f, S) == [x \in (DOMAIN f) \ S |-> f[x]]

With(f, k, v) == [x \in (DOMAIN f) \cup {k} |-> IF x = k THEN v ELSE f[x]]

\* The channel an entry belongs to, as the key of the channel table.
ChannelOf(e) == <<e.channel, e.package>>

\* The value SQLite gives an INTEGER PRIMARY KEY left out of an INSERT: one
\* more than the largest in the table. An id can be used again once its row
\* is deleted.
NextID(t) ==
    LET ids == DOMAIN t.channel_entry
    IN  IF ids = {} THEN 1
        ELSE 1 + (CHOOSE i \in ids : \A j \in ids : j <= i)

-----------------------------------------------------------------------------
(***************************************************************************)
(* Inserts and updates                                                     *)
(***************************************************************************)

InsertBundle(t, n, row) == [t EXCEPT !.operatorbundle = With(@, n, row)]

InsertPackage(t, p) == [t EXCEPT !.package = With(@, p, NULL)]

InsertChannels(t, p, heads, C) ==
    [t EXCEPT !.channel =
        [k \in (DOMAIN @) \cup (C \X {p}) |->
            IF k \in C \X {p} THEN heads[k[1]] ELSE @[k]]]

SetDefaultChannel(t, p, c) == [t EXCEPT !.package[p] = c]

InsertEntry(t, e) == [t EXCEPT !.channel_entry = With(@, NextID(t), e)]

SetReplaces(t, i, j) == [t EXCEPT !.channel_entry[i].replaces = j]

InsertProperty(t, type, n, keyed) ==
    [t EXCEPT !.properties =
        @ \cup {[type |-> type, bundle |-> n, keyed |-> keyed]}]

-----------------------------------------------------------------------------
(***************************************************************************)
(* Deletes, with their cascades                                            *)
(***************************************************************************)

\* DELETE FROM channel: entries of a deleted channel go with it, and so does
\* a package whose default channel it is.
DeleteChannels(t, K) ==
    [t EXCEPT
        !.channel = Without(@, K),
        !.channel_entry =
            Without(@, {i \in DOMAIN @ : ChannelOf(@[i]) \in K}),
        !.package =
            Without(@, {p \in DOMAIN @ : <<@[p], p>> \in K})]

HeadedBy(t, S) == {k \in DOMAIN t.channel : t.channel[k] \in S}

\* DELETE FROM operatorbundle: the channels it heads go with it (and what
\* those cascade to), and the properties whose foreign key is not NULL.
DeleteBundles(t, S) ==
    LET u == DeleteChannels(t, HeadedBy(t, S))
    IN  [u EXCEPT
            !.operatorbundle = Without(@, S),
            !.properties = {r \in @ : ~ (r.keyed /\ r.bundle \in S)}]

DeleteEntriesOf(t, S) ==
    [t EXCEPT !.channel_entry =
        Without(@, {i \in DOMAIN @ : @[i].bundle \in S})]

DeletePackage(t, p) == [t EXCEPT !.package = Without(@, {p})]

-----------------------------------------------------------------------------
(***************************************************************************)
(* Constraints                                                             *)
(***************************************************************************)

\* The one declared DEFERRABLE INITIALLY DEFERRED, checked when a transaction
\* commits.
DeferredForeignKeys(t) ==
    \A i \in DOMAIN t.channel_entry :
        t.channel_entry[i].replaces # 0 =>
            t.channel_entry[i].replaces \in DOMAIN t.channel_entry

=============================================================================
