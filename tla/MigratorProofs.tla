----------------------------- MODULE MigratorProofs -----------------------------
(***************************************************************************)
(* Proofs about Migrator for any number of processes and of migrations.    *)
(***************************************************************************)
EXTENDS Migrator, TLAPS

\* A transaction that writes holds both locks, and its view is a migrated file
\* that is not behind the committed one.
WriterInv ==
    \A p \in Procs : reserved = p =>
        /\ p \in shared
        /\ InOrder(view[p])
        /\ view[p].version >= file.version

\* The list of migrations a process works on does not start after the version it
\* sees: the version may have grown since it was read, never shrunk.
TodoInv ==
    \A p \in Procs : pc[p] \in {"up", "loop"} => todo[p] <= Sees(p).version + 1

\* A transaction begins with its first statement.
LocksInv ==
    \A p \in Procs : pc[p] \in {"idle", "up"} => reserved # p

IInv ==
    /\ TypeOK
    /\ SchemaMatchesVersion
    /\ file.version >= NilVersion
    /\ WriterInv
    /\ TodoInv
    /\ LocksInv

-----------------------------------------------------------------------------

\* A migration that is applied in order keeps the schema in order.
LEMMA MigratedInOrder ==
    ASSUME NEW d \in Database, InOrder(d), NEW m \in Nat, m = d.version + 1
    PROVE  /\ Migrated(d, m) \in Database
           /\ InOrder(Migrated(d, m))
           /\ Migrated(d, m).version = d.version + 1
BY DEF Migrated, InOrder, Database

\* Two files in order agree on the migrations both have.
LEMMA InOrderAgree ==
    ASSUME NEW d \in Database, NEW e \in Database, InOrder(d), InOrder(e),
           d.version <= e.version, NEW k \in 1..Len(d.applied)
    PROVE  k <= Len(e.applied) /\ e.applied[k] = d.applied[k]
BY DEF InOrder, Database

\* Returning an error keeps the invariant.
LEMMA FailLemma ==
    ASSUME IInv, NEW p \in Procs, Fail(p)
    PROVE  IInv' /\ file' = file /\ pc'[p] = "error"
           /\ \A q \in Procs \ {p} : pc'[q] = pc[q]
BY MigratorAssumption
   DEF IInv, TypeOK, SchemaMatchesVersion, InOrder, WriterInv, TodoInv, LocksInv,
       Sees, Fail

\* What a step keeps: the invariant, a file that only grows, and a return
\* without error only from a file that has every migration the process knows.
Kept ==
    /\ IInv'
    /\ file'.version >= file.version
    /\ \A q \in Procs : (pc[q] # "ok" /\ pc'[q] = "ok") => file'.version >= Latest[q]

\* Reading the version keeps the invariant.
LEMMA MigrateLemma ==
    ASSUME IInv, NEW p \in Procs, Migrate(p)
    PROVE  Kept
<1>1. CASE Fail(p)
  BY <1>1, FailLemma DEF IInv, TypeOK, Database, Kept
<1>2. CASE /\ pc' = [pc EXCEPT ![p] = "up"]
           /\ todo' = [todo EXCEPT ![p] = file.version + 1]
           /\ UNCHANGED <<file, view, shared, reserved>>
  <2>1. TypeOK'
    BY <1>2 DEF IInv, TypeOK, Database, NilVersion
  <2>2. SchemaMatchesVersion' /\ WriterInv' /\ file'.version >= NilVersion
    BY <1>2 DEF IInv, SchemaMatchesVersion, InOrder, WriterInv
  <2>3. LocksInv'
    BY <1>2 DEF IInv, LocksInv, Migrate, TypeOK
  <2>4. TodoInv'
    BY <1>2, <2>3 DEF IInv, TodoInv, LocksInv, Sees, TypeOK, Database
  <2> QED BY <1>2, <2>1, <2>2, <2>3, <2>4 DEF IInv, TypeOK, Database, Kept
<1> QED BY <1>1, <1>2 DEF Migrate

\* A step in which p takes the locks and writes a file in order that is not
\* behind what it saw keeps the invariant.
LEMMA WriteLemma ==
    ASSUME IInv, NEW p \in Procs, NEW d \in Database, InOrder(d),
           d.version >= Sees(p).version, CanWrite(p), Write(p, d),
           pc' = [pc EXCEPT ![p] = "loop"], UNCHANGED file,
           NEW t \in Nat, todo' = [todo EXCEPT ![p] = t], t <= d.version + 1
    PROVE  Kept
<1>1. TypeOK'
  BY DEF IInv, TypeOK, Write
<1>2. SchemaMatchesVersion' /\ file'.version >= NilVersion
  BY DEF IInv, SchemaMatchesVersion, InOrder
<1>3. d.version >= file.version /\ file.version \in Int /\ d.version \in Int
  BY DEF IInv, WriterInv, Sees, TypeOK, Database
<1>4. WriterInv'
  BY <1>3 DEF IInv, WriterInv, Write, InOrder, TypeOK
<1>5. \A q \in Procs \ {p} : Sees(q)' = Sees(q) /\ pc'[q] = pc[q] /\ todo'[q] = todo[q]
  BY MigratorAssumption DEF IInv, Sees, Write, CanWrite, TypeOK
<1>6. TodoInv'
  BY <1>5 DEF IInv, TodoInv, Sees, Write, TypeOK
<1>7. LocksInv'
  BY <1>5 DEF IInv, LocksInv, Write, TypeOK
<1> QED BY <1>1, <1>2, <1>3, <1>4, <1>6, <1>7 DEF IInv, Kept, TypeOK

\* The start of Up keeps the invariant.
LEMMA UpLemma ==
    ASSUME IInv, NEW p \in Procs, Up(p)
    PROVE  Kept
<1>1. CASE Fail(p)
  BY <1>1, FailLemma DEF IInv, TypeOK, Database, Kept
<1>2. CASE /\ pc' = [pc EXCEPT ![p] = "loop"]
           /\ shared' = shared \cup {p}
           /\ UNCHANGED <<file, todo, view, reserved>>
  <2>1. TypeOK' /\ SchemaMatchesVersion' /\ WriterInv' /\ file'.version >= NilVersion
    BY <1>2 DEF IInv, TypeOK, SchemaMatchesVersion, InOrder, WriterInv
  <2>2. LocksInv' /\ TodoInv'
    BY <1>2 DEF IInv, LocksInv, TodoInv, Up, TypeOK, Sees
  <2> QED BY <1>2, <2>1, <2>2 DEF IInv, TypeOK, Database, Kept
<1>3. CASE /\ CanWrite(p)
           /\ pc' = [pc EXCEPT ![p] = "loop"]
           /\ Write(p, [file EXCEPT !.table = TRUE])
           /\ UNCHANGED <<file, todo>>
  <2> DEFINE d == [file EXCEPT !.table = TRUE]
  <2>1. d \in Database /\ d.version = file.version /\ d.applied = file.applied
    BY Zenon DEF IInv, TypeOK, Database
  <2>2. Sees(p) = file /\ todo[p] \in Nat /\ todo[p] <= file.version + 1
    BY DEF IInv, TypeOK, LocksInv, TodoInv, Sees, Up
  <2>3. InOrder(d) /\ d.version >= Sees(p).version
    BY <2>1, <2>2 DEF IInv, TypeOK, Database, SchemaMatchesVersion, InOrder
  <2>4. todo' = [todo EXCEPT ![p] = todo[p]]
    BY <1>3 DEF IInv, TypeOK
  <2> HIDE DEF d
  <2>5. Write(p, d)
    BY <1>3 DEF d
  <2> QED BY <1>3, <2>1, <2>2, <2>3, <2>4, <2>5, WriteLemma, Zenon
<1> QED BY <1>1, <1>2, <1>3 DEF Up

\* One migration keeps the invariant.
LEMMA ApplyLemma ==
    ASSUME IInv, NEW p \in Procs, Apply(p)
    PROVE  Kept
<1>1. CASE Fail(p)
  BY <1>1, FailLemma DEF IInv, TypeOK, Database, Kept
<1>2. CASE /\ todo[p] = Sees(p).version + 1
           /\ CanWrite(p)
           /\ Write(p, Migrated(Sees(p), todo[p]))
           /\ todo' = [todo EXCEPT ![p] = @ + 1]
           /\ UNCHANGED <<file, pc>>
  <2> DEFINE d == Migrated(Sees(p), todo[p])
  <2>1. Sees(p) \in Database /\ InOrder(Sees(p)) /\ todo[p] \in Nat
    BY DEF IInv, TypeOK, Sees, SchemaMatchesVersion, WriterInv
  <2>2. d \in Database /\ InOrder(d) /\ d.version = todo[p]
    BY <1>2, <2>1, MigratedInOrder
  <2>3. d.version >= Sees(p).version /\ todo[p] + 1 \in Nat /\ todo[p] + 1 <= d.version + 1
    BY <1>2, <2>1, <2>2 DEF Database
  <2>4. pc' = [pc EXCEPT ![p] = "loop"] /\ todo' = [todo EXCEPT ![p] = todo[p] + 1]
    BY <1>2 DEF Apply, IInv, TypeOK
  <2>5. Write(p, d)
    BY <1>2
  <2> HIDE DEF d
  <2> QED BY <1>2, <2>2, <2>3, <2>4, <2>5, WriteLemma, Zenon
<1> QED BY <1>1, <1>2 DEF Apply

\* Giving up the locks without a change of the file keeps the invariant.
LEMMA ReleaseLemma ==
    ASSUME IInv, NEW p \in Procs, Released(p), UNCHANGED file,
           NEW s \in {"idle", "error", "ok"}, pc' = [pc EXCEPT ![p] = s],
           todo' \in [Procs -> Nat], view' \in [Procs -> Database],
           \A q \in Procs \ {p} : todo'[q] = todo[q] /\ view'[q] = view[q]
    PROVE  IInv'
<1>1. TypeOK' /\ SchemaMatchesVersion' /\ file'.version >= NilVersion
  BY Zenon DEF IInv, TypeOK, SchemaMatchesVersion, InOrder, Released
<1>2. /\ \A q \in Procs \ {p} : /\ pc'[q] = pc[q] /\ todo'[q] = todo[q]
                                /\ view'[q] = view[q] /\ (reserved' = q <=> reserved = q)
                                /\ (q \in shared' <=> q \in shared)
      /\ reserved' # p /\ pc'[p] \notin {"up", "loop"}
  BY MigratorAssumption DEF IInv, TypeOK, Released
<1>3. WriterInv'
  BY <1>2 DEF IInv, WriterInv, InOrder
<1>4. TodoInv' /\ LocksInv'
  BY <1>2 DEF IInv, TodoInv, LocksInv, Sees
<1> QED BY <1>1, <1>3, <1>4 DEF IInv

\* The commit keeps the invariant, and it is the only step that changes the file.
LEMMA CommitLemma ==
    ASSUME IInv, NEW p \in Procs, Commit(p)
    PROVE  Kept
<1>1. /\ todo[p] > Latest[p] /\ todo[p] <= Sees(p).version + 1
      /\ todo[p] \in Nat /\ Latest[p] \in Nat /\ Sees(p).version \in Int
      /\ file.version \in Int
  BY MigratorAssumption DEF IInv, TypeOK, TodoInv, Sees, Database, Commit
<1>2. CASE UNCHANGED file
  <2>1. PICK s \in {"error", "ok"} : pc' = [pc EXCEPT ![p] = s]
    BY DEF Commit
  <2>2. IInv'
    <3>1. /\ Released(p)
          /\ todo' \in [Procs -> Nat] /\ view' \in [Procs -> Database]
          /\ \A q \in Procs \ {p} : todo'[q] = todo[q] /\ view'[q] = view[q]
      BY DEF Commit, IInv, TypeOK
    <3> QED BY <1>2, <2>1, <3>1, ReleaseLemma, Zenon
  <2>3. ASSUME NEW q \in Procs, pc[q] # "ok", pc'[q] = "ok"
        PROVE  file'.version >= Latest[q]
    <3>1. q = p /\ s = "ok"
      BY <2>1, <2>3 DEF IInv, TypeOK
    <3>2. reserved # p \/ file = view[p]
      BY <1>2, <2>1, <3>1 DEF Commit, IInv, TypeOK
    <3> QED BY <1>1, <1>2, <3>1, <3>2 DEF Sees
  <2> QED BY <1>1, <1>2, <2>2, <2>3 DEF Kept
<1>3. CASE /\ reserved = p /\ shared = {p}
           /\ pc' = [pc EXCEPT ![p] = "ok"]
           /\ file' = view[p]
           /\ Released(p) /\ UNCHANGED <<todo, view>>
  <2>1. /\ view[p] \in Database /\ InOrder(view[p])
        /\ view[p].version >= file.version /\ Sees(p) = view[p]
        /\ view[p].version \in Int
    BY <1>3 DEF IInv, TypeOK, WriterInv, Sees, Database
  <2>2. file'.version >= file.version /\ file'.version >= Latest[p]
    BY <1>1, <1>3, <2>1
  <2>3. TypeOK' /\ SchemaMatchesVersion' /\ file'.version >= NilVersion
    BY <1>1, <1>3, <2>1, <2>2
       DEF IInv, TypeOK, SchemaMatchesVersion, InOrder, Released, NilVersion
  <2>4. reserved' = None /\ \A q \in Procs \ {p} : pc'[q] = pc[q] /\ Sees(q) = file
    BY <1>3, MigratorAssumption DEF IInv, TypeOK, Released, Sees
  <2>5. WriterInv' /\ LocksInv'
    BY <2>4, MigratorAssumption DEF WriterInv, LocksInv
  <2>6. TodoInv'
    <3> SUFFICES ASSUME NEW q \in Procs, pc'[q] \in {"up", "loop"}
                 PROVE  todo'[q] <= Sees(q)'.version + 1
      BY DEF TodoInv
    <3>1. q # p /\ Sees(q) = file /\ Sees(q)' = file' /\ pc[q] \in {"up", "loop"}
      BY <1>3, <2>4, MigratorAssumption DEF Sees, IInv, TypeOK
    <3>2. todo[q] <= file.version + 1 /\ todo'[q] = todo[q] /\ todo[q] \in Nat
      BY <1>3, <3>1 DEF IInv, TodoInv, TypeOK
    <3> QED BY <1>1, <1>3, <2>1, <2>2, <3>1, <3>2
  <2> QED BY <1>3, <2>2, <2>3, <2>4, <2>5, <2>6 DEF IInv, Kept
<1> QED BY <1>2, <1>3 DEF Commit

\* The end of a process keeps the invariant.
LEMMA ExitLemma ==
    ASSUME IInv, NEW p \in Procs, Exit(p)
    PROVE  Kept
<1>1. Empty \in Database
  BY DEF Empty, Database, NilVersion
<1>2. /\ todo' \in [Procs -> Nat] /\ view' \in [Procs -> Database]
      /\ \A q \in Procs \ {p} : todo'[q] = todo[q] /\ view'[q] = view[q]
  BY <1>1 DEF Exit, IInv, TypeOK
<1>3. IInv'
  BY <1>2, ReleaseLemma, Zenon DEF Exit
<1> QED BY <1>3 DEF Exit, Kept, IInv, TypeOK, Database

\* Every step keeps the invariant, the migrations of the file, and the meaning
\* of success.
LEMMA StepLemma == IInv /\ [Next]_vars => Kept
<1> SUFFICES ASSUME IInv, [Next]_vars PROVE Kept OBVIOUS
<1>1. CASE UNCHANGED vars
  BY <1>1 DEF vars, Kept, IInv, TypeOK, SchemaMatchesVersion, InOrder, WriterInv,
              TodoInv, LocksInv, Sees, Database
<1>2. CASE Next
  BY <1>2, MigrateLemma, UpLemma, ApplyLemma, CommitLemma, ExitLemma DEF Next
<1> QED BY <1>1, <1>2

\* The invariant holds on an empty file.
LEMMA InitLemma == Init => IInv
BY MigratorAssumption
   DEF Init, Empty, NilVersion, IInv, TypeOK, Database, SchemaMatchesVersion,
       InOrder, WriterInv, TodoInv, LocksInv, Sees

\* The invariant is inductive.
LEMMA MigratorInvariant == Spec => []IInv
<1>1. IInv /\ [Next]_vars => IInv'
  BY StepLemma DEF Kept
<1> QED BY InitLemma, <1>1, PTL DEF Spec

\* Every file has each migration up to its version once and in order, however
\* many processes migrate it and wherever they fail.
THEOREM SchemaAlwaysMatchesVersion == Spec => []SchemaMatchesVersion
BY MigratorInvariant, PTL DEF IInv

\* When Migrate returns no error the file has every migration the process knows.
THEOREM SuccessAlwaysMeansMigrated == Spec => SuccessMeansMigrated
<1>1. IInv /\ [Next]_vars =>
        [\A p \in Procs :
            (pc[p] # "ok" /\ pc'[p] = "ok") => file'.version >= Latest[p]]_vars
  BY StepLemma DEF Kept
<1> QED BY <1>1, MigratorInvariant, PTL DEF Spec, SuccessMeansMigrated

\* No step loses a migration of the file.
THEOREM MigrationsAlwaysKept == Spec => MigrationsAreKept
<1>1. IInv /\ [Next]_vars =>
        [/\ file'.version >= file.version
         /\ \A k \in 1..Len(file.applied) :
               k <= Len(file'.applied) /\ file'.applied[k] = file.applied[k]]_vars
  <2> SUFFICES ASSUME IInv, [Next]_vars
               PROVE  /\ file'.version >= file.version
                      /\ \A k \in 1..Len(file.applied) :
                           k <= Len(file'.applied) /\ file'.applied[k] = file.applied[k]
    OBVIOUS
  <2>1. Kept BY StepLemma
  <2>2. /\ file \in Database /\ file' \in Database /\ InOrder(file) /\ InOrder(file')
        /\ file.version <= file'.version
    BY <2>1 DEF Kept, IInv, TypeOK, Database, SchemaMatchesVersion, InOrder
  <2> QED BY <2>1, <2>2, InOrderAgree DEF Kept
<1> QED BY <1>1, MigratorInvariant, PTL DEF Spec, MigrationsAreKept
=============================================================================
