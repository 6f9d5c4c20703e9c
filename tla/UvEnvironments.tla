--------------------------- MODULE UvEnvironments ---------------------------
(***************************************************************************)
(* The environments uv makes for a project and its PEP 723 scripts         *)
(* (crates/ty_project/src/uv/environments.rs, uv/service.rs).              *)
(*                                                                         *)
(* A change to a script's metadata asks for a synchronization of its       *)
(* environment.  One job at a time runs for each script; a request made    *)
(* meanwhile is kept as its follow-up.  Workers run uv, which reads the    *)
(* files from disk, queue the results and raise a wakeup; the main thread  *)
(* then polls the results, records them or submits the follow-ups.         *)
(***************************************************************************)
EXTENDS Naturals, Sequences, FiniteSets

CONSTANTS
    Scripts,   \* the scripts of the project
    Project,   \* the project itself, which has workspace metadata
    Keys,      \* what the metadata on disk may say: its cache key
    NoTag,     \* the file has no script metadata
    Path,      \* the key of a request for the project, which is its path
    NoKey,     \* none
    Skipped,   \* the output of a job that was cancelled before it ran
    Failed,    \* the output of a uv that fails
    Workers,   \* the threads that run uv
    MaxSaves   \* bound: changes to the files on disk

Targets == Scripts \cup {Project}
Contents == Keys \cup {NoTag}
Outputs == Contents \cup {Skipped, Failed}
RequestKeys == Keys \cup {Path}

ASSUME UvAssumption ==
    /\ Project \notin Scripts
    /\ NoKey \notin Contents /\ Path \notin Contents
    /\ Skipped \notin Contents /\ Failed \notin Contents
    /\ NoTag \notin Keys /\ NoKey # Path /\ Skipped # Failed
    /\ NoKey \notin Targets
    /\ MaxSaves \in Nat

VARIABLES
    \* the file system
    disk,          \* disk[t]: what the metadata of t says
    notified,      \* the targets whose change has not been handled yet
    saves,
    \* the main thread
    pc,            \* "idle", "scan" while it requests, "poll" while it polls, "panicked"
    view,          \* view[t]: what the session has read of disk[t]
    todo,          \* the scripts it has yet to request
    rescan,        \* did this poll change the files of the project
    \* UvEnvironments
    state,         \* state[t]: "vacant", "current" or "synchronizing"; the project is
                   \* "current" while it has no ProjectSync
    initializing,  \* the scripts whose synchronization has availability Pending
    active,        \* active[t]: active_cache_key
    next,          \* next[t]: next_request
    cancelled,     \* the targets of which the job's token is cancelled
    synced,        \* synced[t]: synchronized_cache_key
    applied,       \* applied[t]: what the metadata uv returned was made from
    failed,        \* the targets of which the last result is an error or was not applied
    \* UvMetadataService
    found,         \* is there a uv to start workers for
    jobs,          \* the queue of jobs
    worker,        \* what each worker is doing
    results,       \* the queue of results
    wake,          \* is there a wakeup
    ran            \* ran[t]: the key of the request uv last ran for

diskVars == <<disk, notified, saves>>
mainVars == <<pc, view, todo, rescan>>
environmentVars == <<state, initializing, active, next, cancelled, synced, applied, failed>>
serviceVars == <<found, jobs, worker, results, wake, ran>>
vars == <<diskVars, mainVars, environmentVars, serviceVars>>

Jobs == [target : Targets, key : RequestKeys]
NoJob == [target |-> NoKey, key |-> NoKey]
Results == [target : Targets, key : RequestKeys, output : Outputs]
Idle == [phase |-> "idle", job |-> NoJob, output |-> Skipped]

TypeOK ==
    /\ disk \in [Targets -> Contents] /\ disk[Project] \in Keys
    /\ notified \subseteq Targets
    /\ saves \in Nat
    /\ pc \in {"idle", "scan", "poll", "panicked"}
    /\ view \in [Targets -> Contents]
    /\ todo \subseteq Scripts
    /\ rescan \in BOOLEAN
    /\ state \in [Targets -> {"vacant", "current", "synchronizing"}]
    /\ initializing \subseteq Scripts
    /\ active \in [Targets -> RequestKeys \cup {NoKey}]
    /\ next \in [Targets -> RequestKeys \cup {NoKey}]
    /\ cancelled \subseteq Targets
    /\ synced \in [Targets -> RequestKeys \cup {NoKey}]
    /\ applied \in [Targets -> Contents \cup {NoKey}]
    /\ failed \subseteq Targets
    /\ found \in BOOLEAN
    /\ jobs \in Seq(Jobs)
    /\ worker \in [Workers -> [phase : {"idle", "run", "publish", "wake"},
                               job : Jobs \cup {NoJob}, output : Outputs]]
    /\ \A w \in Workers : worker[w].phase \in {"run", "publish"} => worker[w].job \in Jobs
    /\ results \in Seq(Results)
    /\ wake \in BOOLEAN
    /\ ran \in [Targets -> RequestKeys \cup {NoKey}]

\* The project has been discovered with its environment; opening it requests those of
\* its scripts.
Init ==
    /\ disk \in [Targets -> Contents] /\ disk[Project] \in Keys
    /\ notified = {} /\ saves = 0
    /\ view = disk
    /\ pc = "scan" /\ todo = Scripts /\ rescan = FALSE
    /\ state = [t \in Targets |-> IF t = Project THEN "current" ELSE "vacant"]
    /\ initializing = {}
    /\ active = [t \in Targets |-> NoKey]
    /\ next = [t \in Targets |-> NoKey]
    /\ cancelled = {}
    /\ synced = [t \in Targets |-> NoKey]
    /\ applied = [t \in Targets |-> IF t = Project THEN disk[t] ELSE NoKey]
    /\ failed = {}
    /\ found \in BOOLEAN
    /\ jobs = <<>> /\ results = <<>>
    /\ worker = [w \in Workers |-> Idle]
    /\ wake = FALSE
    /\ ran = [t \in Targets |-> NoKey]

-----------------------------------------------------------------------------
(* Requests.                                                               *)

\* schedule_one: without uv the error is published at once, in place of the job.
Submit(t, k, rs) ==
    IF found
      THEN jobs' = Append(jobs, [target |-> t, key |-> k]) /\ results' = rs /\ UNCHANGED wake
      ELSE /\ results' = Append(rs, [target |-> t, key |-> k, output |-> Failed])
           /\ wake' = TRUE
           /\ UNCHANGED jobs

\* (Mutant of InFlight: a request does not look at what is in flight.)
NeverInFlight(t) == FALSE

InFlight(t) == state[t] = "synchronizing"

\* (Mutant of FollowUp: a request for the key that is recorded drops the follow-up.)
FollowUpUnlessSynced(t, k) == IF k \in {active[t], synced[t]} THEN NoKey ELSE k

\* update_next_request: a request for what is already running drops the follow-up.
FollowUp(t, k) == IF active[t] = k THEN NoKey ELSE k

Desired(t) == IF next[t] = NoKey THEN active[t] ELSE next[t]

UpdateNextRequest(t, k) ==
    \/ Desired(t) = k /\ UNCHANGED <<next, cancelled>>
    \/ /\ Desired(t) # k
       /\ next' = [next EXCEPT ![t] = FollowUp(t, k)]
       /\ cancelled' = cancelled \cup {t}

\* A fresh job with a fresh token.
StartSync(t, k, rs) ==
    /\ state' = [state EXCEPT ![t] = "synchronizing"]
    /\ active' = [active EXCEPT ![t] = k]
    /\ next' = [next EXCEPT ![t] = NoKey]
    /\ cancelled' = cancelled \ {t}
    /\ Submit(t, k, rs)

\* (Mutant of Initializes: a refresh makes the environment unavailable too.)
InitializesAgain(s, pending) == pending

\* Only the request that creates the environment may make it unavailable.
Initializes(s, pending) == pending /\ state[s] = "vacant"

\* request_sync.  `pending` is the availability the caller gives: saving an open document
\* keeps its diagnostics, everything else waits for the environment.
RequestSync(s, pending) ==
    /\ pc = "scan"
    /\ s \in todo
    /\ todo' = todo \ {s}
    /\ LET k == view[s] IN
         \/ /\ k = NoTag \/ (~InFlight(s) /\ state[s] = "current" /\ synced[s] = k)
            /\ UNCHANGED <<environmentVars, jobs, results, wake>>
         \/ /\ k # NoTag
            /\ InFlight(s)
            /\ UpdateNextRequest(s, k)
            /\ UNCHANGED <<state, initializing, active, synced, applied, failed, jobs, results,
                           wake>>
         \/ /\ k # NoTag
            /\ ~InFlight(s)
            /\ ~(state[s] = "current" /\ synced[s] = k)
            /\ StartSync(s, k, results)
            /\ initializing' = IF Initializes(s, pending) THEN initializing \cup {s}
                                                          ELSE initializing
            /\ UNCHANGED <<synced, applied, failed>>
    /\ UNCHANGED <<diskVars, pc, view, rescan, found, worker, ran>>

\* request_project_sync has no key to compare: whatever is in flight runs again.
RequestProjectSync ==
    \/ /\ InFlight(Project)
       /\ next' = [next EXCEPT ![Project] = Path]
       /\ cancelled' = cancelled \cup {Project}
       /\ UNCHANGED <<state, active, jobs, results, wake>>
    \/ /\ ~InFlight(Project)
       /\ StartSync(Project, Path, results)

\* The session handles the changes it was told of: the project's first, then each script's.
ApplyChanges ==
    /\ pc = "idle"
    /\ notified # {}
    /\ notified' = {}
    /\ pc' = "scan"
    /\ view' = [t \in Targets |-> IF t \in notified THEN disk[t] ELSE view[t]]
    /\ todo' = notified \cap Scripts
    /\ IF Project \in notified
         THEN RequestProjectSync
         ELSE UNCHANGED <<state, active, next, cancelled, jobs, results, wake>>
    /\ UNCHANGED <<disk, saves, rescan, initializing, synced, applied, failed, found, worker, ran>>

Scanned ==
    /\ pc = "scan"
    /\ todo = {}
    /\ pc' = "idle"
    /\ UNCHANGED <<diskVars, view, todo, rescan, environmentVars, serviceVars>>

\* A query that asks for the environment of a script first makes a default one.  The
\* snapshots queries run on are gone while results are polled.
LookUp(s) ==
    /\ pc \in {"idle", "scan"}
    /\ state[s] = "vacant"
    /\ state' = [state EXCEPT ![s] = "current"]
    /\ UNCHANGED <<diskVars, mainVars, initializing, active, next, cancelled, synced, applied,
                   failed, serviceVars>>

-----------------------------------------------------------------------------
(* poll_sync.                                                              *)

PollSync ==
    /\ pc = "idle"
    /\ wake
    /\ wake' = FALSE
    /\ pc' = "poll"
    /\ UNCHANGED <<diskVars, view, todo, rescan, environmentVars, found, jobs, worker, results,
                   ran>>

\* (Mutants of Applies: a job that was skipped counts as done, a result is recorded
\* although there is a newer request, or if that one is for the recorded key.)
AppliesSkipped(r) == next[r.target] = NoKey
AppliesOutdated(r) == r.output # Skipped
AppliesReturned(r) == next[r.target] \in {NoKey, synced[r.target]} /\ r.output # Skipped
Applies(r) == next[r.target] = NoKey /\ r.output # Skipped

\* (Mutant of Resubmitted: a result that is superseded leaves its key.)
ResubmittedSame(r) == r.key
Resubmitted(r) == IF next[r.target] = NoKey THEN r.key ELSE next[r.target]

\* apply_sync_result, and the rediscovery of the project, which may fail by itself.  A
\* failure takes a script's metadata away, and leaves the project's.
Record(r) ==
    /\ state' = [state EXCEPT ![r.target] = "current"]
    /\ initializing' = initializing \ {r.target}
    /\ synced' = [synced EXCEPT ![r.target] = r.key]
    /\ \/ /\ r.output \in Contents
          /\ applied' = [applied EXCEPT ![r.target] = r.output]
          /\ failed' = failed \ {r.target}
       \/ /\ r.output \notin Contents \/ r.target = Project
          /\ applied' = IF r.target = Project THEN applied
                                              ELSE [applied EXCEPT ![r.target] = NoKey]
          /\ failed' = failed \cup {r.target}
    /\ IF r.target = Project THEN rescan' \in {rescan, TRUE} ELSE UNCHANGED rescan

\* Is this the result the environment is waiting for?  The code panics if not.
Expected(r) ==
    r.target = Project \/ (state[r.target] = "synchronizing" /\ active[r.target] = r.key)

PollResult ==
    /\ pc = "poll"
    /\ results # <<>>
    /\ LET r == Head(results) IN
         \/ /\ ~Expected(r)
            /\ pc' = "panicked"
            /\ UNCHANGED <<rescan, environmentVars, jobs, results, wake>>
         \/ /\ Expected(r)
            /\ Applies(r)
            /\ Record(r)
            /\ results' = Tail(results)
            /\ UNCHANGED <<pc, active, next, cancelled, jobs, wake>>
         \/ /\ Expected(r)
            /\ ~Applies(r)
            /\ StartSync(r.target, Resubmitted(r), Tail(results))
            /\ UNCHANGED <<pc, rescan, initializing, synced, applied, failed>>
    /\ UNCHANGED <<diskVars, view, todo, found, worker, ran>>

\* (Mutant of Drained: a poll takes one result for each wakeup.)
DrainedOne == TRUE

\* The loop ends when the queue is empty, whatever wakeups came meanwhile.
Drained == results = <<>>

\* A project whose files changed has its scripts requested.
Polled ==
    /\ pc = "poll"
    /\ Drained
    /\ IF rescan THEN pc' = "scan" /\ todo' = Scripts ELSE pc' = "idle" /\ UNCHANGED todo
    /\ rescan' = FALSE
    /\ UNCHANGED <<diskVars, view, environmentVars, serviceVars>>

-----------------------------------------------------------------------------
(* The workers.                                                            *)

\* The token is looked at once, before uv starts.
TakeJob(w) ==
    /\ worker[w].phase = "idle"
    /\ jobs # <<>>
    /\ jobs' = Tail(jobs)
    /\ worker' = [worker EXCEPT ![w] =
         [phase |-> IF Head(jobs).target \in cancelled THEN "publish" ELSE "run",
          job |-> Head(jobs), output |-> Skipped]]
    /\ UNCHANGED <<diskVars, mainVars, environmentVars, found, results, wake, ran>>

\* uv reads what is on disk by now, and may fail.
RunUv(w) ==
    /\ worker[w].phase = "run"
    /\ LET t == worker[w].job.target IN
         /\ \E o \in {disk[t], Failed} :
              worker' = [worker EXCEPT ![w] = [phase |-> "publish", job |-> @.job, output |-> o]]
         /\ ran' = [ran EXCEPT ![t] = worker[w].job.key]
    /\ UNCHANGED <<diskVars, mainVars, environmentVars, found, jobs, results, wake>>

PublishResult(w) ==
    /\ worker[w].phase = "publish"
    /\ results' = Append(results, [target |-> worker[w].job.target, key |-> worker[w].job.key,
                                   output |-> worker[w].output])
    /\ worker' = [worker EXCEPT ![w] = [Idle EXCEPT !.phase = "wake"]]
    /\ UNCHANGED <<diskVars, mainVars, environmentVars, found, jobs, wake, ran>>

\* The channel of wakeups holds one: a second is dropped.
WakeUp(w) ==
    /\ worker[w].phase = "wake"
    /\ wake' = TRUE
    /\ worker' = [worker EXCEPT ![w] = Idle]
    /\ UNCHANGED <<diskVars, mainVars, environmentVars, found, jobs, results, ran>>

-----------------------------------------------------------------------------
\* A file is saved; the session hears of it later.
Save(t, c) ==
    /\ saves < MaxSaves
    /\ c # disk[t]
    /\ t = Project => c \in Keys
    /\ disk' = [disk EXCEPT ![t] = c]
    /\ notified' = notified \cup {t}
    /\ saves' = saves + 1
    /\ UNCHANGED <<mainVars, environmentVars, serviceVars>>

MainStep ==
    \/ \E s \in Scripts, pending \in BOOLEAN : RequestSync(s, pending)
    \/ ApplyChanges
    \/ Scanned
    \/ PollSync
    \/ PollResult
    \/ Polled

WorkerStep(w) == TakeJob(w) \/ RunUv(w) \/ PublishResult(w) \/ WakeUp(w)

\* Nothing to do until the next save.
Quiet ==
    /\ pc \in {"idle", "panicked"}
    /\ notified = {} /\ ~wake /\ jobs = <<>>
    /\ \A w \in Workers : worker[w].phase = "idle"
    /\ UNCHANGED vars

Next ==
    \/ MainStep
    \/ \E s \in Scripts : LookUp(s)
    \/ \E w \in Workers : WorkerStep(w)
    \/ \E t \in Targets, c \in Contents : Save(t, c)
    \/ Quiet

Spec == Init /\ [][Next]_vars

\* The main thread and the workers run, and a uv that was started ends.
Fairness == WF_vars(MainStep) /\ \A w \in Workers : WF_vars(WorkerStep(w))
FairSpec == Spec /\ Fairness

-----------------------------------------------------------------------------
(* Properties.                                                             *)

\* How many jobs there are for t: queued, running, or with a result not polled yet.
JobsOf(t) ==
    Cardinality({i \in DOMAIN jobs : jobs[i].target = t})
      + Cardinality({w \in Workers : worker[w].job.target = t})
      + Cardinality({i \in DOMAIN results : results[i].target = t})

\* "Each project or script has at most one job queued, running, or awaiting result
\* processing", and one exactly while it is synchronizing: uv never runs twice on one
\* environment at a time, and no synchronization waits for a job that is gone.
OneJob == \A t \in Targets : JobsOf(t) = IF state[t] = "synchronizing" THEN 1 ELSE 0

\* A result always is the one its environment waits for: the `panic!`s and the
\* `assert_eq!` of poll_sync are never reached.
ResultsExpected == pc # "panicked"

\* The wakeup is coalesced and consumed before the results are drained: no result is left
\* in the queue with nobody told.
NoResultForgotten ==
    results # <<>> => wake \/ pc \in {"poll", "panicked"}
                        \/ \E w \in Workers : worker[w].phase = "wake"

\* Nothing is in flight for t, and the session knows of every change.
Settled(t) == pc = "idle" /\ state[t] = "current" /\ t \notin notified

\* "If the metadata changes A -> B -> A, the B synchronization may already have modified
\* the environment": whatever follow-ups came and went, the key that is recorded for a
\* script is that of the last request uv really ran for it.
RecordedSyncRan ==
    found => \A s \in Scripts : state[s] = "current" /\ synced[s] # NoKey => ran[s] = synced[s]

\* The last request wins: a script that is settled is recorded with the key it has.
LastRequestWins ==
    \A s \in Scripts : Settled(s) /\ disk[s] # NoTag => synced[s] = disk[s]

\* A refresh of the project that crosses a later change is discarded and run again.
ProjectMetadataCurrent ==
    Settled(Project) /\ Project \notin failed => applied[Project] = disk[Project]

\* "Refreshing an available environment does not make it unavailable again": only then
\* may the diagnostics of a script be held back.
NeverUnavailableAgain ==
    [][\A s \in Scripts : state[s] # "vacant" /\ s \notin initializing => s \notin initializing']_vars

\* What the users of the environments see of them.
Known == {t \in Targets : state[t] # "vacant"}
Synchronizing == {t \in Targets : state[t] = "synchronizing"}
LastRequest == [t \in Targets |-> Desired(t)]

Sync == INSTANCE EnvironmentSync WITH
    Keys <- RequestKeys, known <- Known, busy <- Synchronizing, unavailable <- initializing,
    wanted <- LastRequest, made <- ran, recorded <- synced, uv <- found

\* The queues, follow-ups, tokens and wakeups implement one synchronization at a time: uv
\* never touches an environment that counts as current, a result is recorded only for the
\* last request and only if uv ran for it last, and nothing else changes what is recorded.
ImplementsSync == Sync!Spec

\* Once the files stop changing every environment comes to be settled with the metadata
\* there is, and no workspace diagnostics wait for one.
EventuallySynchronized ==
    <>[](/\ initializing = {}
         /\ \A t \in Targets : state[t] # "synchronizing"
         /\ \A s \in Scripts : disk[s] # NoTag => synced[s] = disk[s])
=============================================================================
