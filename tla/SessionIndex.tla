---------------------------- MODULE SessionIndex ----------------------------
(***************************************************************************)
(* How the session gets exclusive access to the index of open documents    *)
(* (crates/ty_server/src/session.rs, crates/ty_project/src/db.rs).         *)
(*                                                                         *)
(* `Arc<Index>` is shared by the session, by the LSPSystem inside every    *)
(* project database and by the session snapshots the workers run on.  To   *)
(* edit a document the main thread takes the index from its projects one   *)
(* by one.  `system_mut` cancels a project's other handles and waits until *)
(* their salsa storage is dropped; that the system and the index are       *)
(* dropped by then rests on the order of the fields.                       *)
(***************************************************************************)
EXTENDS Naturals, FiniteSets

CONSTANTS
    Projects,   \* the project databases, numbered in the order of Session.projects
    Initial,    \* those of the folders the client opened with
    Removable,  \* those whose folder the client may remove
    Workers     \* the jobs that may hold a snapshot at a time

ASSUME ProjectsAssumption ==
    /\ Projects \subseteq Nat
    /\ Initial \subseteq Projects
    /\ Initial # {}
    /\ Removable \subseteq Projects

VARIABLES
    pc,        \* what the main thread is doing
    projects,  \* Session.projects
    todo,      \* the projects index_mut or the guard has yet to visit
    indexed,   \* the projects whose LSPSystem holds the index
    phase,     \* phase[w]: "idle", "run", or "drop" while the snapshot is dropped
    index,     \* the workers whose snapshot holds the index
    systems,   \* systems[w]: the projects whose `system` the snapshot holds
    storages   \* storages[w]: the projects whose `storage` it holds

mainVars   == <<pc, projects, todo, indexed>>
workerVars == <<phase, index, systems, storages>>
vars == <<mainVars, workerVars>>

TypeOK ==
    /\ pc \in {"idle", "take", "edit", "restore", "panicked"}
    /\ projects \subseteq Projects
    /\ todo \subseteq projects
    /\ indexed \subseteq Projects
    /\ phase \in [Workers -> {"idle", "run", "drop"}]
    /\ index \subseteq Workers
    /\ systems \in [Workers -> SUBSET Projects]
    /\ storages \in [Workers -> SUBSET Projects]

Init ==
    /\ pc = "idle"
    /\ projects = Initial
    /\ todo = {}
    /\ indexed = Initial
    /\ phase = [w \in Workers |-> "idle"]
    /\ index = {}
    /\ systems = [w \in Workers |-> {}]
    /\ storages = [w \in Workers |-> {}]

-----------------------------------------------------------------------------
(* Snapshots: taken by the main thread, used and dropped by a worker.      *)

Snapshot(w, ps) ==
    /\ pc = "idle"
    /\ phase[w] = "idle"
    /\ phase' = [phase EXCEPT ![w] = "run"]
    /\ systems' = [systems EXCEPT ![w] = ps]
    /\ storages' = [storages EXCEPT ![w] = ps]

\* snapshot_session clones the index and every database.
SnapshotSession(w) ==
    /\ Snapshot(w, projects)
    /\ index' = index \cup {w}
    /\ UNCHANGED mainVars

\* A document request clones the database of its project only.
SnapshotDocument(w, p) ==
    /\ p \in projects
    /\ Snapshot(w, {p})
    /\ UNCHANGED <<mainVars, index>>

\* (Mutant of EndRequest: an unwound request is asked again on its own snapshot.)
RetryInPlace(w) == phase[w] = "run" /\ UNCHANGED vars

\* The request ends, or salsa unwinds it.
EndRequest(w) ==
    /\ phase[w] = "run"
    /\ phase' = [phase EXCEPT ![w] = "drop"]
    /\ UNCHANGED <<mainVars, index, systems, storages>>

\* The fields of SessionSnapshot are dropped in order: the index, then the
\* databases in theirs; of a database the system, then the storage.
EarlierDropped(w, p) == \A q \in storages[w] : q >= p

\* (Mutant of MayDropSystem: the databases come before the index.)
MayDropSystemEarly(w, p) == p \in systems[w] /\ EarlierDropped(w, p)
MayDropSystem(w, p) == w \notin index /\ p \in systems[w] /\ EarlierDropped(w, p)

\* (Mutant of MayDropStorage: the storage comes before the system.)
MayDropStorageEarly(w, p) == w \notin index /\ p \in storages[w] /\ EarlierDropped(w, p)
MayDropStorage(w, p) == p \in storages[w] \ systems[w] /\ EarlierDropped(w, p)

DropIndex(w) ==
    /\ phase[w] = "drop"
    /\ w \in index
    /\ index' = index \ {w}
    /\ UNCHANGED <<mainVars, phase, systems, storages>>

DropSystem(w, p) ==
    /\ phase[w] = "drop"
    /\ MayDropSystem(w, p)
    /\ systems' = [systems EXCEPT ![w] = @ \ {p}]
    /\ UNCHANGED <<mainVars, phase, index, storages>>

DropStorage(w, p) ==
    /\ phase[w] = "drop"
    /\ MayDropStorage(w, p)
    /\ storages' = [storages EXCEPT ![w] = @ \ {p}]
    /\ UNCHANGED <<mainVars, phase, index, systems>>

Dropped(w) ==
    /\ phase[w] = "drop"
    /\ w \notin index /\ systems[w] = {} /\ storages[w] = {}
    /\ phase' = [phase EXCEPT ![w] = "idle"]
    /\ UNCHANGED <<mainVars, index, systems, storages>>

-----------------------------------------------------------------------------
(* index_mut and the guard it returns.                                     *)

Cloned(p)    == \E w \in Workers : p \in storages[w]
SystemKept(p) == \E w \in Workers : p \in systems[w]
IsNext(p) == p \in todo /\ \A q \in todo : q >= p

\* The index has another owner than the session: a snapshot, or a system that is
\* alive because the session or a snapshot holds its database.
IndexShared ==
    \/ index # {}
    \/ \E p \in indexed : p \in projects \/ SystemKept(p)

\* An edit: the session's own reference moves to the main thread's stack.
BeginEdit ==
    /\ pc = "idle"
    /\ pc' = "take"
    /\ todo' = projects
    /\ UNCHANGED <<projects, indexed, workerVars>>

\* system_mut waits until the project has no other handle, and expects the system
\* to have no other owner then.
TakeIndex(p) ==
    /\ pc = "take"
    /\ IsNext(p)
    /\ ~Cloned(p)
    /\ IF SystemKept(p)
         THEN pc' = "panicked" /\ UNCHANGED <<todo, indexed>>
         ELSE todo' = todo \ {p} /\ indexed' = indexed \ {p} /\ UNCHANGED pc
    /\ UNCHANGED <<projects, workerVars>>

\* Arc::into_inner(index).unwrap()
UnwrapIndex ==
    /\ pc = "take"
    /\ todo = {}
    /\ pc' = IF IndexShared THEN "panicked" ELSE "edit"
    /\ UNCHANGED <<projects, todo, indexed, workerVars>>

\* (Mutants of Restored: the guard gives the index back to projects the session does
\* not have, or to the first one only.)
RestoredAll == Projects
RestoredFirst == {p \in projects : \A q \in projects : q >= p}
Restored == projects

\* The document is edited and the guard dropped.
EditIndex ==
    /\ pc = "edit"
    /\ pc' = "restore"
    /\ todo' = Restored
    /\ UNCHANGED <<projects, indexed, workerVars>>

SetIndex(p) ==
    /\ pc = "restore"
    /\ IsNext(p)
    /\ ~Cloned(p)
    /\ IF SystemKept(p)
         THEN pc' = "panicked" /\ UNCHANGED <<todo, indexed>>
         ELSE todo' = todo \ {p} /\ indexed' = indexed \cup {p} /\ UNCHANGED pc
    /\ UNCHANGED <<projects, workerVars>>

EndEdit ==
    /\ pc = "restore"
    /\ todo = {}
    /\ pc' = "idle"
    /\ UNCHANGED <<projects, todo, indexed, workerVars>>

-----------------------------------------------------------------------------
(* Workspace folders.                                                      *)

\* A new project's system gets its own reference.  A number is used again once
\* nothing is left of the database that had it.
InitializeWorkspaceFolder(p) ==
    /\ pc = "idle"
    /\ p \in Projects \ projects
    /\ ~Cloned(p)
    /\ projects' = projects \cup {p}
    /\ indexed' = indexed \cup {p}
    /\ UNCHANGED <<pc, todo, workerVars>>

\* remove_workspace_folder drops the session's handle, and cancels no other.
RemoveWorkspaceFolder(p) ==
    /\ pc = "idle"
    /\ p \in projects \cap Removable
    /\ projects' = projects \ {p}
    /\ UNCHANGED <<pc, todo, indexed, workerVars>>

MainStep ==
    \/ \E p \in Projects : TakeIndex(p) \/ SetIndex(p)
    \/ UnwrapIndex
    \/ EditIndex
    \/ EndEdit

WorkerStep(w) ==
    \/ EndRequest(w)
    \/ DropIndex(w)
    \/ \E p \in Projects : DropSystem(w, p) \/ DropStorage(w, p)
    \/ Dropped(w)

Panicked == pc = "panicked" /\ UNCHANGED vars

Next ==
    \/ MainStep
    \/ BeginEdit
    \/ \E w \in Workers :
         WorkerStep(w) \/ SnapshotSession(w) \/ \E p \in Projects : SnapshotDocument(w, p)
    \/ \E p \in Projects : InitializeWorkspaceFolder(p) \/ RemoveWorkspaceFolder(p)
    \/ Panicked

Spec == Init /\ [][Next]_vars

\* Every thread that can run does: a request ends or is unwound.
Fairness == WF_vars(MainStep) /\ \A w \in Workers : WF_vars(WorkerStep(w))

FairSpec == Spec /\ Fairness

-----------------------------------------------------------------------------
(* Properties.                                                             *)

\* "There should now be exactly one reference to index": when index_mut has
\* visited every project, Arc::into_inner succeeds.
IndexUniquelyOwned == pc = "take" /\ todo = {} => ~IndexShared

\* As long as one folder stays, only a snapshot of a folder that was removed can share the
\* index then.
IndexOwnedUnlessRemoved ==
    pc = "take" /\ todo = {} /\ (\A p \in Projects \ projects : ~SystemKept(p)) => ~IndexShared

\* "ref count should be 1 because `trigger_cancellation` drops all other DB
\* references": once its storage has no other handle, neither has the system.
SystemUniquelyOwned == \A p \in projects : SystemKept(p) => Cloned(p)

\* LSPSystem::index unwraps: a request never runs while its index is taken out,
\* nor on a project the guard forgot.
ReadersSeeIndex == \A w \in Workers : phase[w] = "run" => systems[w] \subseteq indexed

\* An edit never waits forever for a snapshot.
EditEnds == pc = "take" ~> pc \in {"idle", "panicked"}
=============================================================================
