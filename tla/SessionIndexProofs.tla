------------------------- MODULE SessionIndexProofs -------------------------
(***************************************************************************)
(* Proofs about SessionIndex: the order in which a snapshot drops its      *)
(* fields gives an edit exclusive access to the index, for any number of   *)
(* projects and snapshots, unless a snapshot of a removed folder is alive. *)
(***************************************************************************)
EXTENDS SessionIndex, TLAPS

\* What a snapshot holds: of every database the storage at least, and while it has
\* the index all that it was given.
SnapshotsInOrder ==
    \A w \in Workers :
        /\ systems[w] \subseteq storages[w]
        /\ storages[w] \subseteq projects
        /\ w \in index => systems[w] = storages[w] /\ storages[w] # {}
        /\ phase[w] = "idle" => storages[w] = {}

\* What index_mut has done so far, and what the guard has.
EditInOrder ==
    /\ projects # {}
    /\ pc # "panicked"
    /\ pc = "idle" => indexed = projects
    /\ pc = "take" => indexed = todo
    /\ pc = "take" => \A p \in projects \ todo : ~Cloned(p)
    /\ pc = "edit" => indexed = {}
    /\ pc = "restore" => indexed = projects \ todo
    /\ pc \in {"edit", "restore"} => \A p \in projects : ~Cloned(p)

IndexInv == TypeOK /\ SnapshotsInOrder /\ EditInOrder

-----------------------------------------------------------------------------
LEMMA IndexInit == Init => IndexInv
BY ProjectsAssumption DEF Init, IndexInv, TypeOK, SnapshotsInOrder, EditInOrder

\* A database's system is dropped before its storage.
LEMMA SystemsHaveStorage == ASSUME SnapshotsInOrder PROVE \A p : SystemKept(p) => Cloned(p)
BY DEF SnapshotsInOrder, SystemKept, Cloned

\* Once every project has been visited nothing shares the index.
LEMMA TakenIndexUnshared ==
    ASSUME IndexInv, pc = "take", todo = {} PROVE ~IndexShared
<1>1. indexed = {} /\ \A p \in projects : ~Cloned(p)
  BY DEF IndexInv, EditInOrder
<1>2. \A w \in Workers : storages[w] = {}
  BY <1>1 DEF IndexInv, SnapshotsInOrder, Cloned
<1>3. index = {}
  BY <1>2 DEF IndexInv, TypeOK, SnapshotsInOrder
<1> QED
  BY <1>1, <1>3 DEF IndexShared

LEMMA IndexMain == ASSUME IndexInv, MainStep \/ BeginEdit PROVE IndexInv'
<1> USE DEF mainVars, workerVars, IndexInv, Cloned
<1>1. SnapshotsInOrder'
  BY DEF MainStep, BeginEdit, TakeIndex, SetIndex, UnwrapIndex, EditIndex, EndEdit,
         SnapshotsInOrder
<1>2. CASE BeginEdit
  BY <1>1, <1>2 DEF BeginEdit, TypeOK, EditInOrder
<1>3. ASSUME NEW p \in Projects, TakeIndex(p) PROVE IndexInv'
  BY <1>1, <1>3, SystemsHaveStorage DEF TakeIndex, IsNext, TypeOK, EditInOrder
<1>4. ASSUME NEW p \in Projects, SetIndex(p) PROVE IndexInv'
  BY <1>1, <1>4, SystemsHaveStorage DEF SetIndex, IsNext, TypeOK, EditInOrder
<1>5. CASE UnwrapIndex
  BY <1>1, <1>5, TakenIndexUnshared DEF UnwrapIndex, TypeOK, EditInOrder
<1>6. CASE EditIndex
  BY <1>1, <1>6 DEF EditIndex, Restored, TypeOK, EditInOrder
<1>7. CASE EndEdit
  BY <1>1, <1>7 DEF EndEdit, TypeOK, EditInOrder
<1> QED
  BY <1>2, <1>3, <1>4, <1>5, <1>6, <1>7 DEF MainStep

\* A snapshot is taken of what the session has, and only loses parts of it.
LEMMA IndexSnapshot ==
    ASSUME IndexInv, NEW w \in Workers, NEW ps, ps \subseteq projects, Snapshot(w, ps),
           UNCHANGED mainVars, index' = index \/ (index' = index \cup {w} /\ ps = projects)
    PROVE  IndexInv'
<1> USE DEF mainVars, IndexInv
<1>1. TypeOK'
  BY DEF Snapshot, TypeOK
<1>2. SnapshotsInOrder'
  BY DEF Snapshot, TypeOK, SnapshotsInOrder, EditInOrder
<1>3. EditInOrder'
  BY DEF Snapshot, EditInOrder
<1> QED BY <1>1, <1>2, <1>3

LEMMA IndexWorker ==
    ASSUME IndexInv, NEW w \in Workers, WorkerStep(w) PROVE IndexInv'
<1> USE DEF mainVars, IndexInv
<1>1. ASSUME UNCHANGED mainVars, \A v \in Workers : storages'[v] \subseteq storages[v]
      PROVE  EditInOrder'
  BY <1>1 DEF EditInOrder, Cloned
<1>2. CASE EndRequest(w)
  BY <1>1, <1>2 DEF EndRequest, TypeOK, SnapshotsInOrder
<1>3. CASE DropIndex(w)
  BY <1>1, <1>3 DEF DropIndex, TypeOK, SnapshotsInOrder
<1>4. ASSUME NEW p \in Projects, DropSystem(w, p) PROVE IndexInv'
  <2>1. TypeOK'
    BY <1>4 DEF DropSystem, TypeOK
  <2>2. SnapshotsInOrder'
    <3>1. w \notin index /\ p \in systems[w] /\ systems' = [systems EXCEPT ![w] = @ \ {p}]
      BY <1>4 DEF DropSystem, MayDropSystem
    <3> QED BY <1>4, <3>1 DEF DropSystem, TypeOK, SnapshotsInOrder
  <2> QED BY <1>1, <1>4, <2>1, <2>2 DEF DropSystem
<1>5. ASSUME NEW p \in Projects, DropStorage(w, p) PROVE IndexInv'
  <2>1. TypeOK'
    BY <1>5 DEF DropStorage, TypeOK
  <2>2. w \notin index
    BY <1>5 DEF DropStorage, MayDropStorage, SnapshotsInOrder
  <2>3. SnapshotsInOrder'
    BY <1>5, <2>2 DEF DropStorage, MayDropStorage, TypeOK, SnapshotsInOrder
  <2> QED BY <1>1, <1>5, <2>1, <2>3 DEF DropStorage, TypeOK
<1>6. CASE Dropped(w)
  BY <1>1, <1>6 DEF Dropped, TypeOK, SnapshotsInOrder
<1> QED
  BY <1>2, <1>3, <1>4, <1>5, <1>6 DEF WorkerStep

LEMMA IndexStep ==
    ASSUME Removable = {}, IndexInv, [Next]_vars PROVE IndexInv'
<1> USE DEF mainVars, workerVars
<1>1. ASSUME NEW w \in Workers, SnapshotSession(w) PROVE IndexInv'
  BY <1>1, IndexSnapshot DEF SnapshotSession
<1>2. ASSUME NEW w \in Workers, NEW p \in Projects, SnapshotDocument(w, p) PROVE IndexInv'
  <2>1. {p} \subseteq projects
    BY <1>2 DEF SnapshotDocument
  <2> QED BY <1>2, <2>1, IndexSnapshot DEF SnapshotDocument
<1>3. ASSUME NEW p \in Projects, InitializeWorkspaceFolder(p) PROVE IndexInv'
  BY <1>3 DEF InitializeWorkspaceFolder, IndexInv, TypeOK, SnapshotsInOrder, EditInOrder
<1>4. ASSUME NEW p \in Projects, RemoveWorkspaceFolder(p) PROVE IndexInv'
  BY <1>4 DEF RemoveWorkspaceFolder
<1>5. CASE UNCHANGED vars
  BY <1>5 DEF vars, IndexInv, TypeOK, SnapshotsInOrder, EditInOrder, Cloned
<1> QED
  BY <1>1, <1>2, <1>3, <1>4, <1>5, IndexMain, IndexWorker DEF Next, Panicked

LEMMA IndexInvariant == ASSUME Removable = {} PROVE Spec => []IndexInv
<1>1. IndexInv /\ [Next]_vars => IndexInv'
  BY IndexStep
<1> QED
  BY <1>1, IndexInit, PTL DEF Spec

\* If no folder is removed, Arc::into_inner succeeds in every edit.
THEOREM EditOwnsIndex == ASSUME Removable = {} PROVE Spec => []IndexUniquelyOwned
<1>1. IndexInv => IndexUniquelyOwned
  BY TakenIndexUnshared DEF IndexUniquelyOwned
<1> QED
  BY <1>1, IndexInvariant, PTL

\* If no folder is removed, a running request finds the index in its system.
THEOREM RequestsFindIndex == ASSUME Removable = {} PROVE Spec => []ReadersSeeIndex
<1>1. IndexInv => ReadersSeeIndex
  <2> SUFFICES ASSUME IndexInv, NEW w \in Workers, NEW p \in systems[w] PROVE p \in indexed
    BY DEF ReadersSeeIndex
  <2>1. p \in projects /\ Cloned(p)
    BY DEF IndexInv, SnapshotsInOrder, Cloned
  <2> QED
    BY <2>1 DEF IndexInv, TypeOK, EditInOrder
<1> QED
  BY <1>1, IndexInvariant, PTL

\* Whatever folders come and go, a database's system has no owner left once its
\* storage has none: Arc::get_mut in system_mut never fails.
THEOREM SystemOwned == Spec => []SystemUniquelyOwned
<1> DEFINE Order == /\ projects \subseteq Projects
                    /\ systems \in [Workers -> SUBSET Projects]
                    /\ storages \in [Workers -> SUBSET Projects]
                    /\ \A w \in Workers : systems[w] \subseteq storages[w]
<1>1. Init => Order
  BY ProjectsAssumption DEF Init
<1>2. Order /\ [Next]_vars => Order'
  <2> SUFFICES ASSUME Order, [Next]_vars PROVE Order'
    OBVIOUS
  <2> USE DEF mainVars, workerVars
  <2>1. CASE MainStep \/ BeginEdit
    BY <2>1 DEF MainStep, BeginEdit, TakeIndex, SetIndex, UnwrapIndex, EditIndex, EndEdit
  <2>2. ASSUME NEW p \in Projects, InitializeWorkspaceFolder(p) \/ RemoveWorkspaceFolder(p)
        PROVE  Order'
    BY <2>2 DEF InitializeWorkspaceFolder, RemoveWorkspaceFolder
  <2>3. ASSUME NEW w \in Workers, NEW ps, ps \subseteq Projects, Snapshot(w, ps),
               UNCHANGED mainVars
        PROVE  Order'
    BY <2>3 DEF Snapshot
  <2>4. ASSUME NEW w \in Workers, SnapshotSession(w) PROVE Order'
    BY <2>3, <2>4 DEF SnapshotSession
  <2>5. ASSUME NEW w \in Workers, NEW p \in Projects, SnapshotDocument(w, p) PROVE Order'
    BY <2>3, <2>5 DEF SnapshotDocument
  <2>6. ASSUME NEW w \in Workers, EndRequest(w) \/ DropIndex(w) \/ Dropped(w) PROVE Order'
    BY <2>6 DEF EndRequest, DropIndex, Dropped
  <2>7. ASSUME NEW w \in Workers, NEW p \in Projects, DropSystem(w, p) PROVE Order'
    BY <2>7 DEF DropSystem
  <2>8. ASSUME NEW w \in Workers, NEW p \in Projects, DropStorage(w, p) PROVE Order'
    BY <2>8 DEF DropStorage, MayDropStorage
  <2>9. CASE UNCHANGED vars
    BY <2>9 DEF vars
  <2> QED
    BY <2>1, <2>2, <2>4, <2>5, <2>6, <2>7, <2>8, <2>9 DEF Next, WorkerStep, Panicked
<1>3. Order => SystemUniquelyOwned
  BY DEF SystemUniquelyOwned, SystemKept, Cloned
<1> QED
  BY <1>1, <1>2, <1>3, PTL DEF Spec

-----------------------------------------------------------------------------
\* Every step of the main thread and of the workers keeps the state well typed.  What
\* index_mut and the guard have yet to visit is always a project of the session, because
\* folders are removed between edits only.
THEOREM TypeCorrect == Spec => []TypeOK
<1> DEFINE Typed == TypeOK /\ (pc = "idle" => todo = {})
<1>1. Init => Typed
  BY ProjectsAssumption DEF Init, TypeOK
<1>2. Typed /\ [Next]_vars => Typed'
  <2> SUFFICES ASSUME Typed, [Next]_vars PROVE Typed'
    OBVIOUS
  <2> USE DEF mainVars, workerVars, TypeOK
  <2>1. CASE BeginEdit \/ UnwrapIndex \/ EditIndex \/ EndEdit
    BY <2>1 DEF BeginEdit, UnwrapIndex, EditIndex, Restored, EndEdit
  <2>2. ASSUME NEW p \in Projects, TakeIndex(p) \/ SetIndex(p) PROVE Typed'
    BY <2>2 DEF TakeIndex, SetIndex
  <2>3. ASSUME NEW p \in Projects, InitializeWorkspaceFolder(p) \/ RemoveWorkspaceFolder(p)
        PROVE  Typed'
    BY <2>3 DEF InitializeWorkspaceFolder, RemoveWorkspaceFolder
  <2>4. ASSUME NEW w \in Workers, NEW ps, ps \subseteq Projects, Snapshot(w, ps),
               UNCHANGED mainVars, index' \subseteq Workers
        PROVE  Typed'
    BY <2>4 DEF Snapshot
  <2>5. ASSUME NEW w \in Workers, SnapshotSession(w) PROVE Typed'
    BY <2>4, <2>5 DEF SnapshotSession
  <2>6. ASSUME NEW w \in Workers, NEW p \in Projects, SnapshotDocument(w, p) PROVE Typed'
    BY <2>4, <2>6 DEF SnapshotDocument
  <2>7. ASSUME NEW w \in Workers, EndRequest(w) \/ DropIndex(w) \/ Dropped(w) PROVE Typed'
    BY <2>7 DEF EndRequest, DropIndex, Dropped
  <2>8. ASSUME NEW w \in Workers, NEW p \in Projects, DropSystem(w, p) PROVE Typed'
    BY <2>8 DEF DropSystem
  <2>9. ASSUME NEW w \in Workers, NEW p \in Projects, DropStorage(w, p) PROVE Typed'
    BY <2>9 DEF DropStorage
  <2>10. CASE UNCHANGED vars
    BY <2>10 DEF vars
  <2> QED
    BY <2>1, <2>2, <2>3, <2>5, <2>6, <2>7, <2>8, <2>9, <2>10
       DEF Next, MainStep, WorkerStep, Panicked
<1> QED
  BY <1>1, <1>2, PTL DEF Spec

-----------------------------------------------------------------------------
(* Folders that are removed.                                               *)

\* The folders that are there for good.
Lasting == Initial \ Removable

\* A snapshot that has the index has all it was given, a lasting project among it.
HoldersOrdered ==
    \A w \in Workers :
        /\ systems[w] \subseteq storages[w]
        /\ w \in index => systems[w] = storages[w] /\ Lasting \subseteq storages[w]
        /\ phase[w] = "idle" => w \notin index

\* The projects index_mut has visited have no index and no other handle.
VisitedAlone ==
    pc = "take" => \A p \in projects \ todo : p \notin indexed /\ ~Cloned(p)

FoldersInv ==
    /\ Lasting \subseteq projects
    /\ index \subseteq Workers
    /\ phase \in [Workers -> {"idle", "run", "drop"}]
    /\ systems \in [Workers -> SUBSET Projects]
    /\ storages \in [Workers -> SUBSET Projects]
    /\ HoldersOrdered
    /\ VisitedAlone

LEMMA FoldersInit == Init => FoldersInv
BY ProjectsAssumption DEF Init, FoldersInv, HoldersOrdered, VisitedAlone, Lasting

LEMMA FoldersMain == ASSUME FoldersInv, MainStep \/ BeginEdit PROVE FoldersInv'
<1> USE DEF workerVars, FoldersInv, Cloned
<1>1. HoldersOrdered' /\ (Lasting \subseteq projects)'
  BY DEF MainStep, BeginEdit, TakeIndex, SetIndex, UnwrapIndex, EditIndex, EndEdit,
         HoldersOrdered, Lasting
<1>2. VisitedAlone'
  BY DEF MainStep, BeginEdit, TakeIndex, SetIndex, UnwrapIndex, EditIndex, EndEdit, IsNext,
         VisitedAlone
<1> QED
  BY <1>1, <1>2 DEF MainStep, BeginEdit, TakeIndex, SetIndex, UnwrapIndex, EditIndex, EndEdit

LEMMA FoldersSnapshot ==
    ASSUME FoldersInv, NEW w \in Workers, NEW ps, ps \subseteq Projects, Snapshot(w, ps),
           UNCHANGED mainVars,
           index' = index \/ (index' = index \cup {w} /\ Lasting \subseteq ps)
    PROVE  FoldersInv'
<1> USE DEF mainVars, FoldersInv
<1>1. HoldersOrdered'
  BY DEF Snapshot, HoldersOrdered, Lasting
<1>2. VisitedAlone'
  BY DEF Snapshot, VisitedAlone
<1> QED
  BY <1>1, <1>2 DEF Snapshot, Lasting

LEMMA FoldersWorker == ASSUME FoldersInv, NEW w \in Workers, WorkerStep(w) PROVE FoldersInv'
<1> USE DEF mainVars, FoldersInv, Lasting
<1>1. ASSUME UNCHANGED mainVars, \A v \in Workers : storages'[v] \subseteq storages[v]
      PROVE  VisitedAlone'
  BY <1>1 DEF VisitedAlone, Cloned
<1>2. CASE EndRequest(w) \/ DropIndex(w) \/ Dropped(w)
  BY <1>1, <1>2 DEF EndRequest, DropIndex, Dropped, HoldersOrdered
<1>3. ASSUME NEW p \in Projects, DropSystem(w, p) PROVE FoldersInv'
  <2>1. w \notin index
    BY <1>3 DEF DropSystem, MayDropSystem
  <2> QED BY <1>1, <1>3, <2>1 DEF DropSystem, HoldersOrdered
<1>4. ASSUME NEW p \in Projects, DropStorage(w, p) PROVE FoldersInv'
  <2>1. w \notin index /\ p \notin systems[w]
    BY <1>4 DEF DropStorage, MayDropStorage, HoldersOrdered
  <2>2. HoldersOrdered'
    BY <1>4, <2>1 DEF DropStorage, HoldersOrdered
  <2> QED BY <1>1, <1>4, <2>2 DEF DropStorage
<1> QED
  BY <1>2, <1>3, <1>4 DEF WorkerStep

LEMMA FoldersStep == ASSUME FoldersInv, projects \subseteq Projects, [Next]_vars PROVE FoldersInv'
<1> USE DEF mainVars, workerVars
<1>1. ASSUME NEW w \in Workers, SnapshotSession(w) PROVE FoldersInv'
  BY <1>1, FoldersSnapshot DEF SnapshotSession, FoldersInv
<1>2. ASSUME NEW w \in Workers, NEW p \in Projects, SnapshotDocument(w, p) PROVE FoldersInv'
  <2>1. {p} \subseteq Projects
    OBVIOUS
  <2> QED BY <1>2, <2>1, FoldersSnapshot DEF SnapshotDocument
<1>3. ASSUME NEW p \in Projects, InitializeWorkspaceFolder(p) \/ RemoveWorkspaceFolder(p)
      PROVE  FoldersInv'
  BY <1>3 DEF InitializeWorkspaceFolder, RemoveWorkspaceFolder, FoldersInv, HoldersOrdered,
              VisitedAlone, Lasting
<1>4. CASE UNCHANGED vars
  BY <1>4 DEF vars, FoldersInv, HoldersOrdered, VisitedAlone, Cloned, Lasting
<1> QED
  BY <1>1, <1>2, <1>3, <1>4, FoldersMain, FoldersWorker DEF Next, Panicked

\* As long as one folder is never removed, only a snapshot of a removed folder can make
\* Arc::into_inner fail, whatever folders come and go.
THEOREM EditOwnsUnlessRemoved ==
    ASSUME Initial \ Removable # {} PROVE Spec => []IndexOwnedUnlessRemoved
<1>1. Init => FoldersInv
  BY FoldersInit
<1>2. TypeOK /\ FoldersInv /\ [Next]_vars => FoldersInv'
  BY FoldersStep DEF TypeOK
<1>3. TypeOK /\ FoldersInv => IndexOwnedUnlessRemoved
  <2> SUFFICES ASSUME FoldersInv, TypeOK, pc = "take", todo = {},
                      \A p \in Projects \ projects : ~SystemKept(p)
               PROVE  ~IndexShared
    BY DEF IndexOwnedUnlessRemoved
  <2>1. \A p \in projects : p \notin indexed /\ ~Cloned(p)
    BY DEF FoldersInv, VisitedAlone
  <2>2. index = {}
    BY <2>1 DEF FoldersInv, HoldersOrdered, Cloned, Lasting
  <2> QED
    BY <2>1, <2>2 DEF IndexShared, TypeOK
<1> QED
  BY <1>1, <1>2, <1>3, TypeCorrect, PTL DEF Spec
=============================================================================
