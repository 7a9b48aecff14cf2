-------------------------------- MODULE Migrator --------------------------------
(***************************************************************************)
(* SQLLiteMigrator.Migrate, as run by several processes on one database    *)
(* file.  Every opm command that opens an index migrates it first: the     *)
(* version is read in one transaction, and the migrations after it are     *)
(* applied in another one.                                                 *)
(*                                                                         *)
(* SQLite's locks are external: a transaction that has read holds a shared *)
(* lock, one that has written holds the reserved lock and works on its own *)
(* view of the file, and it can commit when no other transaction holds a   *)
(* shared lock.  A lock that is not available is an error for the          *)
(* statement that needs it.                                                *)
(***************************************************************************)
EXTENDS Integers, Sequences

CONSTANTS
    Procs,      \* processes
    Latest,     \* the last migration each process knows (its build)
    None        \* no process

ASSUME MigratorAssumption ==
    /\ Latest \in [Procs -> Nat]
    /\ None \notin Procs

VARIABLES
    file,       \* the committed database
    pc,         \* per process
    todo,       \* per process: the next migration of the list to run
    view,       \* per process: the database its transaction sees once it writes
    shared,     \* the processes that hold a shared lock
    reserved    \* the process that holds the reserved lock, or None

vars == <<file, pc, todo, view, shared, reserved>>

\* The version in schema_migrations (-1: no table or no row), whether the table
\* exists, and the migrations whose changes are in the schema, in order.
Database == [version : Int, table : BOOLEAN, applied : Seq(Nat)]

NilVersion == -1

Empty == [version |-> NilVersion, table |-> FALSE, applied |-> <<>>]

TypeOK ==
    /\ file \in Database
    /\ pc \in [Procs -> {"idle", "up", "loop", "error", "ok"}]
    /\ todo \in [Procs -> Nat]
    /\ view \in [Procs -> Database]
    /\ shared \subseteq Procs
    /\ reserved \in Procs \cup {None}

Init ==
    /\ file = Empty
    /\ pc = [p \in Procs |-> "idle"]
    /\ todo = [p \in Procs |-> 0]
    /\ view = [p \in Procs |-> Empty]
    /\ shared = {}
    /\ reserved = None

-----------------------------------------------------------------------------

\* What the transaction of p reads.
Sees(p) == IF reserved = p THEN view[p] ELSE file

Released(p) ==
    /\ shared' = shared \ {p}
    /\ reserved' = IF reserved = p THEN None ELSE reserved

\* The migrator returns an error. Up only rolls back after a failed commit: the
\* transaction stays open, with its locks.
Fail(p) ==
    /\ pc' = [pc EXCEPT ![p] = "error"]
    /\ UNCHANGED <<file, todo, view, shared, reserved>>

\* Migrate: the version is read in a transaction of its own.
Migrate(p) ==
    /\ pc[p] = "idle"
    /\ \/ /\ pc' = [pc EXCEPT ![p] = "up"]
          /\ todo' = [todo EXCEPT ![p] = file.version + 1]
          /\ UNCHANGED <<file, view, shared, reserved>>
       \/ Fail(p)

CanWrite(p) == reserved \in {p, None}

\* The transaction of p writes: it takes both locks.
Write(p, d) ==
    /\ view' = [view EXCEPT ![p] = d]
    /\ shared' = shared \cup {p}
    /\ reserved' = p

\* Up: begin, and ensureMigrationTable, which only writes when there is none.
Up(p) ==
    /\ pc[p] = "up"
    /\ \/ /\ file.table
          /\ pc' = [pc EXCEPT ![p] = "loop"]
          /\ shared' = shared \cup {p}
          /\ UNCHANGED <<file, todo, view, reserved>>
       \/ /\ ~ file.table /\ CanWrite(p)
          /\ pc' = [pc EXCEPT ![p] = "loop"]
          /\ Write(p, [file EXCEPT !.table = TRUE])
          /\ UNCHANGED <<file, todo>>
       \/ Fail(p)

Migrated(d, m) ==
    [version |-> m, table |-> TRUE, applied |-> Append(d.applied, m)]

\* Mutant: the order is not checked.
ApplyUnchecked(p) ==
    /\ pc[p] = "loop" /\ todo[p] <= Latest[p]
    /\ \/ /\ CanWrite(p)
          /\ Write(p, Migrated(Sees(p), todo[p]))
          /\ todo' = [todo EXCEPT ![p] = @ + 1]
          /\ UNCHANGED <<file, pc>>
       \/ Fail(p)

\* One migration of the loop, with setVersion. The migration itself may fail, and
\* so may every statement when the reserved lock is taken.
Apply(p) ==
    /\ pc[p] = "loop" /\ todo[p] <= Latest[p]
    /\ \/ /\ todo[p] = Sees(p).version + 1
          /\ CanWrite(p)
          /\ Write(p, Migrated(Sees(p), todo[p]))
          /\ todo' = [todo EXCEPT ![p] = @ + 1]
          /\ UNCHANGED <<file, pc>>
       \/ Fail(p)

\* Mutant: the error of the commit is lost.
CommitIgnoringErrors(p) ==
    /\ pc[p] = "loop" /\ todo[p] > Latest[p]
    /\ \/ /\ reserved = p /\ shared = {p}
          /\ file' = view[p]
       \/ UNCHANGED file
    /\ pc' = [pc EXCEPT ![p] = "ok"]
    /\ Released(p)
    /\ UNCHANGED <<todo, view>>

\* The commit. It fails while another transaction holds a shared lock, and the
\* transaction is rolled back.
Commit(p) ==
    /\ pc[p] = "loop" /\ todo[p] > Latest[p]
    /\ \/ /\ reserved # p
          /\ pc' = [pc EXCEPT ![p] = "ok"]
          /\ UNCHANGED file
       \/ /\ reserved = p /\ shared = {p}
          /\ pc' = [pc EXCEPT ![p] = "ok"]
          /\ file' = view[p]
       \/ /\ pc' = [pc EXCEPT ![p] = "error"]
          /\ UNCHANGED file
    /\ Released(p)
    /\ UNCHANGED <<todo, view>>

\* The process ends, crashes or closes the database at any point; SQLite undoes
\* what it did not commit. The next command on the file starts over.
Exit(p) ==
    /\ pc' = [pc EXCEPT ![p] = "idle"]
    /\ todo' = [todo EXCEPT ![p] = 0]
    /\ view' = [view EXCEPT ![p] = Empty]
    /\ Released(p)
    /\ UNCHANGED file

Next ==
    \E p \in Procs : Migrate(p) \/ Up(p) \/ Apply(p) \/ Commit(p) \/ Exit(p)

Spec == Init /\ [][Next]_vars

-----------------------------------------------------------------------------

\* The schema of the file is the one its version says: each migration up to the
\* version was applied once, in order, whichever processes applied them and
\* wherever they failed.
InOrder(d) ==
    /\ Len(d.applied) = d.version + 1
    /\ \A k \in 1..Len(d.applied) : d.applied[k] = k - 1

SchemaMatchesVersion == InOrder(file)

\* A process whose Migrate returns no error has a file with every migration it
\* knows, also when other processes migrated it after it read the version.
SuccessMeansMigrated ==
    [][\A p \in Procs :
        (pc[p] # "ok" /\ pc'[p] = "ok") => file'.version >= Latest[p]]_vars

\* No step loses a migration of the file: no process overwrites what another one
\* committed after it began.
MigrationsAreKept ==
    [][/\ file'.version >= file.version
       /\ \A k \in 1..Len(file.applied) :
             k <= Len(file'.applied) /\ file'.applied[k] = file.applied[k]]_vars
=============================================================================
