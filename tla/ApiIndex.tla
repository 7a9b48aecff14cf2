-------------------------------- MODULE ApiIndex --------------------------------
(***************************************************************************)
(* The tables api, api_provider and api_requirer: filled by addAPIs, read  *)
(* by GetApisForEntry for the plural names, and emptied by rmBundle, by    *)
(* the cascade of a deleted operatorbundle and by two triggers that clean  *)
(* up api.                                                                 *)
(*                                                                         *)
(* SQLite deletes the rows a statement selects one by one and runs the     *)
(* triggers after each; DeleteRow is one such row.  The order is not       *)
(* specified.                                                              *)
(***************************************************************************)
EXTENDS FiniteSets

CONSTANTS
    Names,      \* bundle names
    Apis,       \* (group, version, kind)
    Provided,   \* the apis each bundle provides
    Required,   \* and requires
    Keyed       \* the bundles with a version and an image: the foreign key of
                \* their rows is not NULL

VARIABLES
    db,         \* the committed tables; "rows" holds the rows of api_provider
                \* and of api_requirer
    tx,         \* the tables of the open transaction
    todo,       \* the rows the current statement has yet to delete
    later       \* the rows the next statement will delete

vars == <<db, tx, todo, later>>

Init ==
    /\ db = [operatorbundle |-> {}, api |-> {}, rows |-> {}]
    /\ tx = db
    /\ todo = {} /\ later = {}

-----------------------------------------------------------------------------

\* No transaction is open.
Idle == tx = db /\ todo = {} /\ later = {}

RowsOf(table, n, A) == [table : {table}, name : {n}, api : A]

\* addAPIs, in the transaction that inserts the bundle.
AddAPIs(n) ==
    /\ Idle /\ n \notin db.operatorbundle
    /\ tx' = [operatorbundle |-> tx.operatorbundle \cup {n},
              api  |-> tx.api \cup Provided[n] \cup Required[n],
              rows |-> tx.rows \cup RowsOf("provider", n, Provided[n])
                               \cup RowsOf("requirer", n, Required[n])]
    /\ db' = tx'
    /\ UNCHANGED <<todo, later>>

\* rmBundle: the bundle, with its rows by cascade when they have a foreign key,
\* and else by a statement for each table.
RmBundle(n) ==
    LET own == {r \in tx.rows : r.name = n}
    IN  /\ Idle
        /\ tx' = [tx EXCEPT !.operatorbundle = @ \ {n}]
        /\ todo' = {r \in own : n \in Keyed \/ r.table = "provider"}
        /\ later' = own \ todo'
        /\ UNCHANGED db

\* "DELETE FROM operatorbundle" by itself, as rmStrandedBundles does: the rows
\* with a foreign key go by cascade.
DeleteBundles(S) ==
    /\ Idle /\ S # {} /\ S \subseteq db.operatorbundle
    /\ tx' = [tx EXCEPT !.operatorbundle = @ \ S]
    /\ todo' = {r \in tx.rows : r.name \in S \cap Keyed}
    /\ UNCHANGED <<db, later>>

\* The triggers api_provider_cleanup and api_requirer_cleanup: "WHEN NOT EXISTS"
\* of a row of the join of both tables, and the cascade of the deleted api.
Cleanup(t, a) ==
    IF \E p, r \in t.rows : /\ p.table = "provider" /\ r.table = "requirer"
                            /\ p.api = a \/ r.api = a
    THEN t
    ELSE [t EXCEPT !.api = @ \ {a}, !.rows = {r \in @ : r.api # a}]

\* One row of the current statement. A row that a trigger deleted is skipped.
DeleteRow ==
    \E r \in todo :
        /\ tx' = IF r \in tx.rows
                 THEN Cleanup([tx EXCEPT !.rows = @ \ {r}], r.api) ELSE tx
        /\ todo' = todo \ {r}
        /\ UNCHANGED <<db, later>>

NextStatement ==
    /\ todo = {} /\ later # {}
    /\ todo' = later /\ later' = {}
    /\ UNCHANGED <<db, tx>>

Commit ==
    /\ tx # db /\ todo = {} /\ later = {}
    /\ db' = tx
    /\ UNCHANGED <<tx, todo, later>>

\* A crash, or an error of a statement, undoes the transaction.
Rollback ==
    /\ ~ Idle
    /\ tx' = db /\ todo' = {} /\ later' = {}
    /\ UNCHANGED db

Next ==
    \/ \E n \in Names : AddAPIs(n) \/ RmBundle(n)
    \/ \E S \in SUBSET Names : DeleteBundles(S)
    \/ DeleteRow \/ NextStatement \/ Commit \/ Rollback

Spec == Init /\ [][Next]_vars

-----------------------------------------------------------------------------

\* The api table keeps the apis of the bundles in the index (the comment on the
\* triggers).
UsedApisAreKept ==
    \A n \in db.operatorbundle : Provided[n] \cup Required[n] \subseteq db.api
=============================================================================
